---------------------------- MODULE RagIngestion ----------------------------
(***************************************************************************)
(* The index over a conversation's summaries: ConversationIngestionService *)
(* saves a summary and queues its ingestion, a sweep every six hours       *)
(* queues the ingestion of what was missed, and the ragIngestion worker    *)
(* (plugins/queue.ts) runs ingestText (packages/rag/src/ingester.ts), two  *)
(* jobs at once.  ingestFiles makes the same writes for a repository.      *)
(*                                                                         *)
(* One conversation, whose summaries are numbered as they come, all of     *)
(* them younger than a day; the chunks of a summary stand for one another, *)
(* embedded or not.                                                        *)
(***************************************************************************)
EXTENDS Naturals, Sequences, FiniteSets

CONSTANTS Summaries,         \* bound: summaries of the conversation
          Ingestion,         \* bound: jobs of the queue
          IngestionAttempts, \* attempts of a job: 3
          MaxIngestionFaults \* bound: queries that fail, and deaths of the worker

ASSUME IngestionAssumption ==
  Summaries \in Nat /\ IngestionAttempts \in Nat \ {0} /\ MaxIngestionFaults \in Nat

VARIABLES summaries,  \* how many have been saved
          ingestion,  \* where each job is
          sweeps,     \* jobs whose sourceId is "sweep"
          ingesting,  \* summaries that each job has still to look at, its current one first
          tried,      \* attempts each job has used up
          chunks,     \* summaries with chunks in the index
          cursor,     \* ingestion_state.last_cursor, 0 if there is none
          ingested,   \* history: summaries that have been ingested
          torn,       \* history: a job failed between its delete and its insert, and none
                      \* has inserted chunks since
          ingestionFaults

ingestionVars == <<summaries, ingestion, sweeps, ingesting, tried, chunks, cursor, ingested,
                   torn, ingestionFaults>>

IngestionInit ==
  /\ summaries = 0
  /\ ingestion = [j \in Ingestion |-> "none"]
  /\ sweeps = {}
  /\ ingesting = [j \in Ingestion |-> <<>>]
  /\ tried = [j \in Ingestion |-> 0]
  /\ chunks = {} /\ cursor = 0
  /\ ingested = {} /\ torn = FALSE /\ ingestionFaults = 0

IngestionGoes(j, where) == ingestion' = [ingestion EXCEPT ![j] = where]
Underway == {j \in Ingestion : ingestion[j] \notin {"none", "waiting", "over"}}

\* ingestAfterResponse saves a summary of its own only while the conversation is
\* short; the summaries of a long one come from the chat route.
SaveSummary ==
  /\ summaries < Summaries /\ summaries' = summaries + 1
  /\ UNCHANGED <<ingestion, sweeps, ingesting, tried, chunks, cursor, ingested, torn, ingestionFaults>>

\* enqueueRagIngestion after a response, or the scheduler's sweep.
QueueIngestion(j) ==
  /\ ingestion[j] = "none"
  /\ IngestionGoes(j, "waiting")
  /\ sweeps' \in {sweeps, sweeps \cup {j}}
  /\ UNCHANGED <<summaries, ingesting, tried, chunks, cursor, ingested, torn, ingestionFaults>>

\* The latest summary, or for a sweep every summary of the day, the newest first.
StartIngestion(j) ==
  /\ ingestion[j] = "waiting" /\ Cardinality(Underway) < 2
  /\ IngestionGoes(j, "listed")
  /\ ingesting' = [ingesting EXCEPT ![j] =
       IF j \in sweeps THEN [i \in 1..summaries |-> summaries + 1 - i]
       ELSE IF summaries = 0 THEN <<>> ELSE <<summaries>>]
  /\ UNCHANGED <<summaries, sweeps, tried, chunks, cursor, ingested, torn, ingestionFaults>>

\* A sweep passes over the summary that the cursor names.
NeedsReingestion(j) ==
  /\ ingestion[j] = "listed" /\ ingesting[j] # <<>>
  /\ IF j \in sweeps /\ Head(ingesting[j]) = cursor
       THEN ingesting' = [ingesting EXCEPT ![j] = Tail(@)] /\ UNCHANGED ingestion
       ELSE IngestionGoes(j, "deleting") /\ UNCHANGED ingesting
  /\ UNCHANGED <<summaries, sweeps, tried, chunks, cursor, ingested, torn, ingestionFaults>>

DeleteChunks(j) ==
  /\ ingestion[j] = "deleting"
  /\ chunks' = {}
  /\ IngestionGoes(j, "inserting")
  /\ UNCHANGED <<summaries, sweeps, ingesting, tried, cursor, ingested, torn, ingestionFaults>>

\* Whatever was embedded and whatever failed to be.
InsertChunks(j) ==
  /\ ingestion[j] = "inserting"
  /\ chunks' = chunks \cup {Head(ingesting[j])}
  /\ IngestionGoes(j, "recording")
  /\ torn' = FALSE
  /\ UNCHANGED <<summaries, sweeps, ingesting, tried, cursor, ingested, ingestionFaults>>

\* Mutant: the chunks that were there before are deleted last, by their source.
RecordAndDelete(j) ==
  /\ ingestion[j] = "recording"
  /\ cursor' = Head(ingesting[j])
  /\ ingested' = ingested \cup {cursor'}
  /\ chunks' = {}
  /\ IngestionGoes(j, "listed")
  /\ ingesting' = [ingesting EXCEPT ![j] = Tail(@)]
  /\ UNCHANGED <<summaries, sweeps, tried, torn, ingestionFaults>>

\* upsertIngestionState
RecordCursor(j) ==
  /\ ingestion[j] = "recording"
  /\ cursor' = Head(ingesting[j])
  /\ ingested' = ingested \cup {cursor'}
  /\ IngestionGoes(j, "listed")
  /\ ingesting' = [ingesting EXCEPT ![j] = Tail(@)]
  /\ UNCHANGED <<summaries, sweeps, tried, chunks, torn, ingestionFaults>>

EndIngestion(j) ==
  /\ ingestion[j] = "listed" /\ ingesting[j] = <<>>
  /\ IngestionGoes(j, "over")
  /\ UNCHANGED <<summaries, sweeps, ingesting, tried, chunks, cursor, ingested, torn, ingestionFaults>>

\* A query fails or the worker dies: the whole job is attempted again, or given up.
IngestionFails(j) ==
  /\ j \in Underway
  /\ ingestionFaults < MaxIngestionFaults /\ ingestionFaults' = ingestionFaults + 1
  /\ tried' = [tried EXCEPT ![j] = @ + 1]
  /\ IngestionGoes(j, IF tried'[j] < IngestionAttempts THEN "waiting" ELSE "over")
  /\ ingesting' = [ingesting EXCEPT ![j] = <<>>]
  /\ torn' = (torn \/ ingestion[j] = "inserting")
  /\ UNCHANGED <<summaries, sweeps, chunks, cursor, ingested>>

IngestionNext ==
  \/ SaveSummary
  \/ \E j \in Ingestion :
       \/ QueueIngestion(j) \/ StartIngestion(j) \/ NeedsReingestion(j) \/ DeleteChunks(j)
       \/ InsertChunks(j) \/ RecordCursor(j) \/ EndIngestion(j) \/ IngestionFails(j)

IngestionSpec == IngestionInit /\ [][IngestionNext]_ingestionVars

----------------------------------------------------------------------------
\* A conversation that has been ingested can be found, whatever ingestions delete and
\* insert its chunks at once: the index is empty only while one of them is about to
\* insert, or after one failed there, and no longer than until the next insert.  The
\* hole a failure leaves is not promised to be filled: once another job has recorded
\* the cursor, an attempt of a sweep passes over the summary.
EmptyMeansMidway ==
  cursor # 0 => chunks # {} \/ torn \/ \E j \in Ingestion : ingestion[j] = "inserting"

\* "Sweep mode: ingest recent conversation summaries that haven't been ingested"
SweepsIngestNew ==
  [][\A j \in sweeps :
       ingestion[j] = "listed" /\ ingestion'[j] = "deleting" =>
         Head(ingesting[j]) \notin ingested]_ingestionVars
=============================================================================
