--------------------------- MODULE ServicesProofs ---------------------------
(***************************************************************************)
(* The services around the agents, for every number of requests, readers,  *)
(* streams, jobs, flushes and schedules: a tier that is set takes effect,  *)
(* a marked message is seen, a channel nobody listens to is released, an   *)
(* index is not emptied, what is said in Discord is kept and alerted once, *)
(* and an occurrence of a schedule runs once.  Each invariant is made      *)
(* inductive with what the steps keep beside it.                           *)
(***************************************************************************)
EXTENDS Services, ApprovalGateProofs, TLAPS

-----------------------------------------------------------------------------
\* Autonomy tiers.

TierTypeOK ==
  /\ load \in {"none", "sent", "read"}
  /\ loadPromise \in {"none", "pending", "rejected"}
  /\ put \in [Put -> {"idle", "written", "waiting", "answered", "failed"}]

\* A load is under way while its promise is pending, for a request that waits for it.
LoadAwaited ==
  /\ loadPromise = "pending" <=> load # "none"
  /\ load # "none" <=> \E q \in Put : put[q] = "waiting"

\* A request whose change may be missing from memory.
Unsettled == \E q \in Put : put[q] \in {"written", "failed"} \/ q \in late

LoadsCurrent ==
  /\ load = "none" => tier = tierRow \/ Unsettled
  /\ load = "read" => rowRead = tierRow \/ Unsettled

TiersInv == TierTypeOK /\ LoadAwaited /\ LoadsCurrent

\* A step of a request, of the database or of a load that fails leaves memory
\* current, or a request that is not settled.
LEMMA TiersStep == TiersInv /\ [TierNext]_tierVars => TiersInv'
  <1> SUFFICES ASSUME TiersInv, [TierNext]_tierVars PROVE TiersInv'
    OBVIOUS
  <1> USE DEF TiersInv, TierTypeOK, LoadAwaited
  <1>1. ASSUME NEW q \in Put, WriteTier(q) PROVE TiersInv'
    BY <1>1 DEF WriteTier, LoadsCurrent, Unsettled
  <1>2. ASSUME NEW q \in Put, StartLoad(q) PROVE TiersInv'
    BY <1>2 DEF StartLoad, LoadsCurrent, Unsettled
  <1>3. ASSUME NEW q \in Put, JoinLoad(q) PROVE TiersInv'
    BY <1>3 DEF JoinLoad, LoadsCurrent, Unsettled
  <1>4. ASSUME NEW q \in Put, ReloadRejected(q) PROVE TiersInv'
    BY <1>4 DEF ReloadRejected, LoadsCurrent, Unsettled
  <1>5. CASE ReadTiers
    BY <1>5 DEF ReadTiers, LoadsCurrent, Unsettled
  <1>6. CASE TiersLoaded
    BY <1>6 DEF TiersLoaded, SettlePuts, LoadsCurrent, Unsettled
  <1>7. CASE LoadFails
    BY <1>7 DEF LoadFails, SettlePuts, LoadsCurrent, Unsettled
  <1>8. CASE UNCHANGED tierVars
    BY <1>8 DEF tierVars, LoadsCurrent, Unsettled
  <1>9. QED
    BY <1>1, <1>2, <1>3, <1>4, <1>5, <1>6, <1>7, <1>8 DEF TierNext, TierStep

\* When every request to set a tier has been answered, calls see the tier of the
\* table, but for what joined a load too late (PUT /tiers/:toolName and reload).
THEOREM TakesEffectHolds == TierSpec => []TakesEffect
  <1>1. TierInit => TiersInv
    BY DEF TierInit, TiersInv, TierTypeOK, LoadAwaited, LoadsCurrent
  <1>2. TiersInv => TakesEffect
    BY DEF TiersInv, TierTypeOK, LoadAwaited, LoadsCurrent, Unsettled, TakesEffect
  <1>3. QED
    BY <1>1, <1>2, TiersStep, PTL DEF TierSpec

-----------------------------------------------------------------------------
\* Agent messages.

MessageTypeOK ==
  /\ sent \in Nat
  /\ reading \in [Reader -> {"idle", "marking", "returning"}]
  /\ listed \in [Reader -> SUBSET Nat]
  /\ unread \subseteq Nat

MessagesInv == MessageTypeOK /\ MarkedIsSeen

\* Whichever reader marks a message is about to see it.
LEMMA MessagesStep == MessagesInv /\ [MessageNext]_messageVars => MessagesInv'
  <1> SUFFICES ASSUME MessagesInv, [MessageNext]_messageVars PROVE MessagesInv'
    OBVIOUS
  <1> USE DEF MessagesInv, MessageTypeOK, MarkedIsSeen
  <1>1. CASE SendMessage
    BY <1>1 DEF SendMessage
  <1>2. ASSUME NEW r \in Reader, ListInbox(r) PROVE MessagesInv'
    <2>1. Newest(unread) \in SUBSET Nat
      BY DEF Newest
    <2>2. QED
      BY <1>2, <2>1 DEF ListInbox
  <1>3. ASSUME NEW r \in Reader, MarkRead(r) PROVE MessagesInv'
    BY <1>3 DEF MarkRead
  <1>4. ASSUME NEW r \in Reader, ReturnMessages(r) PROVE MessagesInv'
    BY <1>4 DEF ReturnMessages
  <1>5. ASSUME NEW r \in Reader, ReaderDies(r) PROVE MessagesInv'
    BY <1>5 DEF ReaderDies
  <1>6. CASE UNCHANGED messageVars
    BY <1>6 DEF messageVars
  <1>7. QED
    BY <1>1, <1>2, <1>3, <1>4, <1>5, <1>6 DEF MessageNext

\* A message that is marked as read has been seen or is about to be, unless its
\* reader died in between (checkInbox).
THEOREM MarkedIsSeenHolds == MessageSpec => []MarkedIsSeen
  <1>1. MessageInit => MessagesInv
    BY DEF MessageInit, MessagesInv, MessageTypeOK, MarkedIsSeen
  <1>2. QED
    BY <1>1, MessagesStep, PTL DEF MessageSpec, MessagesInv

-----------------------------------------------------------------------------
\* The progress stream.

Commands == {Subscribe(s) : s \in Stream} \cup {Unsubscribe}
Sent == {Reply(s) : s \in Stream} \cup {JobEnd}

StreamTypeOK ==
  /\ stream \in [Stream -> {"idle", "replaying", "subscribing", "listening", "closed"}]
  /\ commands \in Seq(Commands) /\ inbox \in Seq(Sent)
  /\ subscribed \in BOOLEAN

\* Redis will send the channel once it has run the commands on their way.
WillBeSubscribed ==
  IF commands = <<>> THEN subscribed ELSE commands[Len(commands)] # Unsubscribe

\* Some stream has asked for the subscription or is about to hear that it has it.
Asked ==
  \E s \in Stream : \/ \E i \in 1..Len(commands) : commands[i] = Subscribe(s)
                    \/ \E i \in 1..Len(inbox) : inbox[i] = Reply(s)

StreamInv == StreamTypeOK /\ (WillBeSubscribed => Listeners # {} \/ Asked)

\* What a command or an answer is can be read off it.
LEMMA CommandsDiffer ==
  /\ Unsubscribe.op # "subscribe" /\ JobEnd.kind # "reply"
  /\ \A s \in Stream : /\ Subscribe(s) # Unsubscribe /\ Reply(s) # JobEnd
                       /\ Subscribe(s).op = "subscribe" /\ Subscribe(s).stream = s
                       /\ Reply(s).kind = "reply" /\ Reply(s).stream = s
                       /\ Reply(s) \in Sent /\ Subscribe(s) \in Commands
  BY DEF Subscribe, Unsubscribe, Reply, JobEnd, Sent, Commands

\* A step that only appends an unsubscription when nobody is left to listen keeps
\* the invariant, whatever it takes off the front of what comes back.
LEMMA CleanUpKeepsInv ==
  ASSUME StreamInv, NEW gone \in SUBSET Listeners, CleanUp(gone), UNCHANGED subscribed,
         inbox' \in Seq(Sent), Listeners = {} => (Asked => Asked')
  PROVE  StreamInv'
  <1> USE DEF StreamInv, StreamTypeOK
  <1>1. StreamTypeOK'
    BY DEF CleanUp, Commands
  <1>2. CASE gone # {} /\ Listeners = gone
    <2>1. commands' = Append(commands, Unsubscribe)
      BY <1>2 DEF CleanUp
    <2>2. ~WillBeSubscribed'
      BY <2>1 DEF WillBeSubscribed, Commands
    <2>3. QED
      BY <1>1, <2>2
  <1>3. CASE ~(gone # {} /\ Listeners = gone)
    <2>1. /\ commands' = commands
          /\ stream' = [s \in Stream |-> IF s \in gone THEN "closed" ELSE stream[s]]
      BY <1>3 DEF CleanUp
    <2>2. WillBeSubscribed' <=> WillBeSubscribed
      BY <2>1 DEF WillBeSubscribed
    <2>3. Listeners # {} => Listeners' # {}
      BY <1>3, <2>1 DEF Listeners
    <2>4. QED
      BY <1>1, <2>2, <2>3
  <1>4. QED
    BY <1>2, <1>3

\* What Redis is asked for keeps up with who listens.
LEMMA StreamStepKeepsInv == StreamInv /\ [StreamNext]_streamVars => StreamInv'
  <1> SUFFICES ASSUME StreamInv, [StreamNext]_streamVars PROVE StreamInv'
    OBVIOUS
  <1> USE CommandsDiffer
  <1>0. StreamTypeOK /\ (WillBeSubscribed => Listeners # {} \/ Asked)
    BY DEF StreamInv
  <1>1. ASSUME NEW s \in Stream, ReadHistory(s) \/ EndReplay(s) PROVE StreamInv'
    <2>1. /\ stream[s] \in {"idle", "replaying"}
          /\ stream' \in {[stream EXCEPT ![s] = to] : to \in {"replaying", "closed"}}
          /\ UNCHANGED <<subscribed, commands, inbox>>
      BY <1>1 DEF ReadHistory, EndReplay
    <2>2. StreamTypeOK' /\ Listeners' = Listeners
      BY <1>0, <2>1 DEF StreamTypeOK, Listeners
    <2>3. QED
      BY <1>0, <2>1, <2>2 DEF StreamInv, WillBeSubscribed, Asked
  <1>2. ASSUME NEW s \in Stream, Listen(s) PROVE StreamInv'
    <2>1. stream[s] = "replaying" /\ UNCHANGED <<subscribed, inbox>>
      BY <1>2 DEF Listen
    <2>2. CASE Listeners = {}
      <3>1. /\ stream' = [stream EXCEPT ![s] = "subscribing"]
            /\ commands' = Append(commands, Subscribe(s))
        BY <1>2, <2>2 DEF Listen
      <3>2. StreamTypeOK'
        BY <1>0, <2>1, <3>1 DEF StreamTypeOK, Commands
      <3>3. commands'[Len(commands')] = Subscribe(s) /\ Len(commands') \in 1..Len(commands')
        BY <1>0, <3>1 DEF StreamTypeOK
      <3>4. QED
        BY <3>2, <3>3 DEF StreamInv, Asked
    <2>3. CASE Listeners # {}
      <3>1. stream' = [stream EXCEPT ![s] = "listening"] /\ UNCHANGED commands
        BY <1>2, <2>3 DEF Listen
      <3>2. StreamTypeOK' /\ Listeners' # {}
        BY <1>0, <2>1, <3>1 DEF StreamTypeOK, Listeners
      <3>3. QED
        BY <3>2 DEF StreamInv
    <2>4. QED
      BY <2>2, <2>3
  <1>3. ASSUME NEW s \in Stream, Disconnect(s) PROVE StreamInv'
    <2>1. CASE stream[s] = "listening" /\ CleanUp({s})
      <3>1. UNCHANGED <<subscribed, inbox>> /\ {s} \in SUBSET Listeners
        BY <1>3, <2>1 DEF Disconnect, Listeners
      <3>2. QED
        BY <1>0, <2>1, <3>1, CleanUpKeepsInv DEF StreamTypeOK
    <2>2. CASE UNCHANGED <<stream, commands>>
      <3>1. UNCHANGED <<subscribed, inbox>>
        BY <1>3 DEF Disconnect
      <3>2. QED
        BY <1>0, <2>2, <3>1 DEF StreamInv, StreamTypeOK, WillBeSubscribed, Listeners, Asked
    <2>3. QED
      BY <1>3, <2>1, <2>2 DEF Disconnect
  <1>4. CASE RunCommand
    <2>1. /\ commands # <<>> /\ commands' = Tail(commands) /\ UNCHANGED stream
          /\ IF commands[1].op = "subscribe"
               THEN subscribed' = TRUE /\ inbox' = Append(inbox, Reply(commands[1].stream))
               ELSE subscribed' = FALSE /\ UNCHANGED inbox
      BY <1>4 DEF RunCommand
    <2>2. \/ commands[1] = Unsubscribe /\ subscribed' = FALSE /\ UNCHANGED inbox
          \/ \E s \in Stream : commands[1] = Subscribe(s) /\ subscribed' = TRUE
                               /\ inbox' = Append(inbox, Reply(s))
      <3>1. commands[1] \in Commands
        BY <1>0, <2>1 DEF StreamTypeOK
      <3>2. CASE commands[1] = Unsubscribe
        BY <2>1, <3>2
      <3>3. ASSUME NEW s \in Stream, commands[1] = Subscribe(s)
            PROVE  subscribed' = TRUE /\ inbox' = Append(inbox, Reply(s))
        BY <2>1, <3>3
      <3>4. QED
        BY <3>1, <3>2, <3>3 DEF Commands
    <2>3. StreamTypeOK'
      <3>1. commands' \in Seq(Commands)
        BY <1>0, <2>1 DEF StreamTypeOK
      <3>2. inbox' \in Seq(Sent)
        <4>1. ASSUME NEW s \in Stream, inbox' = Append(inbox, Reply(s)) PROVE inbox' \in Seq(Sent)
          BY <1>0, <4>1 DEF StreamTypeOK
        <4>2. QED
          BY <1>0, <2>2, <4>1 DEF StreamTypeOK
      <3>3. subscribed' \in BOOLEAN
        BY <2>2, Zenon
      <3>4. QED
        BY <1>0, <2>1, <3>1, <3>2, <3>3 DEF StreamTypeOK
    <2>4. UNCHANGED Listeners
      BY <2>1 DEF Listeners
    <2>5. WillBeSubscribed' => WillBeSubscribed
      <3>1. CASE commands' = <<>>
        <4>1. Len(commands') = Len(commands) - 1 /\ Len(commands) \in Nat
          BY <1>0, <2>1 DEF StreamTypeOK
        <4>2. Len(commands) = 1
          BY <3>1, <4>1
        <4>3. QED
          BY <2>1, <2>2, <3>1, <4>2 DEF WillBeSubscribed
      <3>2. CASE commands' # <<>>
        <4>1. commands'[Len(commands')] = commands[Len(commands)]
          BY <1>0, <2>1, <3>2 DEF StreamTypeOK
        <4>2. QED
          BY <2>1, <3>2, <4>1 DEF WillBeSubscribed
      <3>3. QED
        BY <3>1, <3>2
    <2>6. Asked => Asked'
      <3> SUFFICES ASSUME NEW s \in Stream,
                          \/ \E i \in 1..Len(commands) : commands[i] = Subscribe(s)
                          \/ \E i \in 1..Len(inbox) : inbox[i] = Reply(s)
                   PROVE  \/ \E i \in 1..Len(commands') : commands'[i] = Subscribe(s)
                          \/ \E i \in 1..Len(inbox') : inbox'[i] = Reply(s)
        BY DEF Asked
      <3>1. ASSUME NEW i \in 1..Len(inbox), inbox[i] = Reply(s)
            PROVE  i \in 1..Len(inbox') /\ inbox'[i] = Reply(s)
        BY <1>0, <2>2, <3>1 DEF StreamTypeOK
      <3>2. ASSUME NEW i \in 1..Len(commands), i # 1, commands[i] = Subscribe(s)
            PROVE  i - 1 \in 1..Len(commands') /\ commands'[i - 1] = Subscribe(s)
        BY <1>0, <2>1, <3>2 DEF StreamTypeOK
      <3>3. ASSUME commands[1] = Subscribe(s)
            PROVE  Len(inbox') \in 1..Len(inbox') /\ inbox'[Len(inbox')] = Reply(s)
        <4>1. inbox' = Append(inbox, Reply(s))
          BY <2>2, <3>3
        <4>2. QED
          BY <1>0, <4>1 DEF StreamTypeOK
      <3>4. QED
        BY <3>1, <3>2, <3>3
    <2>7. QED
      BY <1>0, <2>3, <2>4, <2>5, <2>6 DEF StreamInv
  <1>5. CASE Subscribed
    <2>0. Head(inbox) = inbox[1]
      BY <1>0, <1>5 DEF Subscribed, StreamTypeOK
    <2>1. /\ inbox # <<>> /\ inbox[1].kind = "reply" /\ inbox' = Tail(inbox)
          /\ stream' = [stream EXCEPT ![inbox[1].stream] = "listening"]
          /\ UNCHANGED <<subscribed, commands>>
      BY <1>5, <2>0 DEF Subscribed
    <2>2. inbox[1] \in Sent
      BY <1>0, <2>1 DEF StreamTypeOK
    <2>3. PICK s \in Stream : inbox[1] = Reply(s)
      BY <2>1, <2>2 DEF Sent
    <2>4. StreamTypeOK' /\ s \in Listeners'
      BY <1>0, <2>1, <2>3 DEF StreamTypeOK, Listeners
    <2>5. QED
      BY <2>4 DEF StreamInv
  <1>6. CASE HearEnd
    <2>1. /\ inbox # <<>> /\ inbox[1] = JobEnd /\ inbox' = Tail(inbox)
          /\ CleanUp(Listeners) /\ UNCHANGED subscribed
      BY <1>0, <1>6 DEF HearEnd, StreamTypeOK
    <2>2. inbox' \in Seq(Sent)
      BY <1>0, <2>1 DEF StreamTypeOK
    <2>3. Listeners = {} => (Asked => Asked')
      <3> SUFFICES ASSUME Listeners = {}, NEW s \in Stream,
                          \/ \E i \in 1..Len(commands) : commands[i] = Subscribe(s)
                          \/ \E i \in 1..Len(inbox) : inbox[i] = Reply(s)
                   PROVE  \/ \E i \in 1..Len(commands') : commands'[i] = Subscribe(s)
                          \/ \E i \in 1..Len(inbox') : inbox'[i] = Reply(s)
        BY DEF Asked
      <3>1. UNCHANGED commands
        BY <2>1 DEF CleanUp
      <3>2. ASSUME NEW i \in 1..Len(inbox), inbox[i] = Reply(s)
            PROVE  i - 1 \in 1..Len(inbox') /\ inbox'[i - 1] = Reply(s)
        BY <1>0, <2>1, <3>2 DEF StreamTypeOK
      <3>3. QED
        BY <3>1, <3>2
    <2>4. QED
      BY <2>1, <2>2, <2>3, CleanUpKeepsInv
  <1>7. CASE PublishEnd \/ AppendEnd \/ HistoryExpires \/ UNCHANGED streamVars
    <2>1. /\ UNCHANGED <<stream, commands, subscribed>>
          /\ inbox' \in {inbox, Append(inbox, JobEnd)}
      BY <1>7 DEF PublishEnd, AppendEnd, HistoryExpires, streamVars
    <2>2. StreamTypeOK' /\ UNCHANGED Listeners /\ (WillBeSubscribed' <=> WillBeSubscribed)
      <3>1. StreamTypeOK'
        BY <1>0, <2>1 DEF StreamTypeOK, Sent
      <3>2. UNCHANGED Listeners /\ (WillBeSubscribed' <=> WillBeSubscribed)
        BY <2>1 DEF Listeners, WillBeSubscribed
      <3>3. QED
        BY <3>1, <3>2
    <2>3. \A i \in 1..Len(inbox) : i \in 1..Len(inbox') /\ inbox'[i] = inbox[i]
      BY <1>0, <2>1 DEF StreamTypeOK
    <2>4. Asked => Asked'
      BY <2>1, <2>3 DEF Asked
    <2>5. QED
      BY <1>0, <2>2, <2>4 DEF StreamInv
  <1>8. QED
    BY <1>1, <1>2, <1>3, <1>4, <1>5, <1>6, <1>7 DEF StreamNext, StreamStep

\* When nobody listens and nothing is under way, Redis does not send the channel
\* any more (unsubscribeGoal), whatever streams come, go and end at once.
THEOREM SubscriptionReleasedHolds == StreamSpec => []SubscriptionReleased
  <1>1. StreamInit => StreamInv
    <2> SUFFICES ASSUME StreamInit PROVE StreamInv
      OBVIOUS
    <2>1. StreamTypeOK
      <3>1. commands \in Seq(Commands) /\ inbox \in Seq(Sent)
        BY DEF StreamInit
      <3>2. subscribed \in BOOLEAN
        BY Zenon DEF StreamInit
      <3>3. QED
        BY <3>1, <3>2 DEF StreamInit, StreamTypeOK
    <2>2. ~WillBeSubscribed
      BY Zenon DEF StreamInit, WillBeSubscribed
    <2>3. QED
      BY <2>1, <2>2 DEF StreamInv
  <1>2. StreamInv => SubscriptionReleased
    BY DEF StreamInv, StreamTypeOK, WillBeSubscribed, Asked, SubscriptionReleased, Quiet
  <1>3. QED
    BY <1>1, <1>2, StreamStepKeepsInv, PTL DEF StreamSpec

-----------------------------------------------------------------------------
\* The index.

IngestionTypeOK ==
  ingestion \in [Ingestion -> {"none", "waiting", "listed", "deleting", "inserting", "recording", "over"}]

\* Where a cursor is or is about to be recorded, there are chunks.
RecordedHasChunks ==
  cursor # 0 \/ (\E j \in Ingestion : ingestion[j] = "recording") =>
    chunks # {} \/ torn \/ \E j \in Ingestion : ingestion[j] = "inserting"

IndexInv == IngestionTypeOK /\ RecordedHasChunks

\* Jobs that delete and insert the chunks at once leave somebody to insert them.
LEMMA IngestionStep == IndexInv /\ [IngestionNext]_ingestionVars => IndexInv'
  <1> SUFFICES ASSUME IndexInv, [IngestionNext]_ingestionVars PROVE IndexInv'
    OBVIOUS
  <1> USE DEF IndexInv, IngestionTypeOK, RecordedHasChunks, IngestionGoes
  <1>1. CASE SaveSummary
    BY <1>1 DEF SaveSummary
  <1>2. ASSUME NEW j \in Ingestion,
               QueueIngestion(j) \/ StartIngestion(j) \/ NeedsReingestion(j) \/ EndIngestion(j)
        PROVE  IndexInv'
    <2>1. /\ ingestion[j] \in {"none", "waiting", "listed"}
          /\ ingestion' \in {ingestion} \cup
               {[ingestion EXCEPT ![j] = to] : to \in {"waiting", "listed", "deleting", "over"}}
          /\ UNCHANGED <<chunks, cursor, torn>>
      BY <1>2 DEF QueueIngestion, StartIngestion, NeedsReingestion, EndIngestion
    <2>2. QED
      BY <2>1
  <1>3. ASSUME NEW j \in Ingestion, DeleteChunks(j) PROVE IndexInv'
    BY <1>3 DEF DeleteChunks
  <1>4. ASSUME NEW j \in Ingestion, InsertChunks(j) PROVE IndexInv'
    BY <1>4 DEF InsertChunks
  <1>5. ASSUME NEW j \in Ingestion, RecordCursor(j) PROVE IndexInv'
    BY <1>5 DEF RecordCursor
  <1>6. ASSUME NEW j \in Ingestion, IngestionFails(j) PROVE IndexInv'
    <2>1. /\ ingestion' \in {[ingestion EXCEPT ![j] = to] : to \in {"waiting", "over"}}
          /\ torn' <=> torn \/ ingestion[j] = "inserting"
          /\ UNCHANGED <<chunks, cursor>>
      BY <1>6 DEF IngestionFails
    <2>2. QED
      BY <2>1
  <1>7. CASE UNCHANGED ingestionVars
    BY <1>7 DEF ingestionVars
  <1>8. QED
    BY <1>1, <1>2, <1>3, <1>4, <1>5, <1>6, <1>7 DEF IngestionNext

\* An ingested conversation is missing from the index only while a job is about to
\* insert it, or after one failed right there and until the next insert, however many
\* jobs ingest it at once (ingestText).
THEOREM EmptyMeansMidwayHolds == IngestionSpec => []EmptyMeansMidway
  <1>1. IngestionInit => IndexInv
    BY DEF IngestionInit, IndexInv, IngestionTypeOK, RecordedHasChunks
  <1>2. IndexInv => EmptyMeansMidway
    BY DEF IndexInv, RecordedHasChunks, EmptyMeansMidway
  <1>3. QED
    BY <1>1, <1>2, IngestionStep, PTL DEF IngestionSpec

-----------------------------------------------------------------------------
\* The Discord watch.

DiscordTypeOK ==
  /\ said \in Nat
  /\ posting \subseteq Flush
  /\ batch \in [Flush -> SUBSET Nat]
  /\ buffer \subseteq Nat
  /\ triage \in [Flush -> {"none", "waiting", "triaging", "claimed", "over"}]
  /\ seen \subseteq Topic \X Flush

DiscordInv == DiscordTypeOK /\ MessagesKept /\ SeenIsAlerted

\* Steps of the bot: they make no job's result and undo none.
LEMMA BotKeepsInv ==
  ASSUME DiscordInv, MessageCreate \/ BotDies \/ \E f \in Flush : FlushAll(f) \/ PostAccepted(f) \/ PostFails(f)
  PROVE  DiscordInv'
  <1> USE DEF DiscordInv, DiscordTypeOK
  <1>1. UNCHANGED <<triage, alertVars>>
    BY DEF MessageCreate, BotDies, FlushAll, PostAccepted, PostFails
  <1>2. SeenIsAlerted'
    BY <1>1 DEF SeenIsAlerted, alertVars
  <1>3. CASE MessageCreate
    <2>1. said' = said + 1 /\ said' \in buffer' /\ UNCHANGED <<posting, batch>>
      BY <1>3 DEF MessageCreate
    <2>2. buffer \cup spilled \subseteq buffer' \cup spilled' /\ buffer' \subseteq Nat
      <3>1. PICK lost \in SUBSET buffer :
              buffer' = (buffer \ lost) \cup {said'} /\ spilled' = spilled \cup lost
        BY <1>3 DEF MessageCreate
      <3>2. QED
        BY <2>1, <3>1
    <2>3. QED
      BY <1>1, <1>2, <2>1, <2>2 DEF MessagesKept, alertVars
  <1>4. CASE BotDies
    <2>1. /\ buffer' = {} /\ posting' = {} /\ UNCHANGED <<said, batch>>
          /\ spilled' = spilled \cup buffer
                          \cup UNION {batch[f] : f \in {g \in posting : triage[g] = "none"}}
      BY <1>4 DEF BotDies
    <2>2. QED
      BY <1>1, <1>2, <2>1 DEF MessagesKept, alertVars
  <1>5. ASSUME NEW f \in Flush, FlushAll(f) PROVE DiscordInv'
    <2>1. /\ batch[f] = {} /\ batch' = [batch EXCEPT ![f] = buffer]
          /\ posting' = posting \cup {f} /\ buffer' = {} /\ UNCHANGED <<said, spilled>>
      BY <1>5 DEF FlushAll
    <2>2. MessagesKept'
      BY <1>1, <2>1 DEF MessagesKept
    <2>3. QED
      BY <1>1, <1>2, <2>1, <2>2 DEF alertVars
  <1>6. ASSUME NEW f \in Flush, PostAccepted(f) \/ PostFails(f) PROVE DiscordInv'
    <2>1. /\ posting' = posting \ {f} /\ UNCHANGED <<said, batch, spilled>>
          /\ \/ triage[f] # "none" /\ buffer' = buffer
             \/ buffer' = buffer \cup batch[f]
      BY <1>6 DEF PostAccepted, PostFails
    <2>2. MessagesKept'
      BY <1>1, <2>1 DEF MessagesKept
    <2>3. QED
      BY <1>1, <1>2, <2>1, <2>2 DEF alertVars
  <1>7. QED
    BY <1>3, <1>4, <1>5, <1>6

\* Steps of a job: the batch stays with it, and an alert goes where it is kept.
LEMMA TriageKeepsInv ==
  ASSUME DiscordInv, NEW f \in Flush,
         EnqueueTriage(f) \/ TakeTriage(f) \/ Dismiss(f) \/ Claim(f) \/ ClaimFails(f) \/ Alert(f)
           \/ AlertUnsent(f) \/ Accumulate(f) \/ TriageDies(f)
  PROVE  DiscordInv'
  <1> USE DEF DiscordInv, DiscordTypeOK, Triage
  <1>1. PICK to \in {"waiting", "triaging", "claimed", "over"} : triage' = [triage EXCEPT ![f] = to]
    BY DEF EnqueueTriage, TakeTriage, Dismiss, Claim, ClaimFails, Alert, AlertUnsent, Accumulate,
           TriageDies
  <1>2. UNCHANGED botVars
    BY DEF EnqueueTriage, TakeTriage, Dismiss, Claim, ClaimFails, Alert, AlertUnsent, Accumulate,
           TriageDies
  <1>3. MessagesKept'
    BY <1>1, <1>2 DEF MessagesKept, botVars
  <1>4. ASSUME UNCHANGED seen, triage[f] = "claimed" => f \in digest' \cup delivered' \cup missed',
               UNCHANGED flushing,
               digest \subseteq digest', delivered \subseteq delivered', missed \subseteq missed'
        PROVE  DiscordInv'
    <2>1. SeenIsAlerted'
      BY <1>1, <1>4 DEF SeenIsAlerted
    <2>2. QED
      BY <1>1, <1>2, <1>3, <1>4, <2>1 DEF botVars
  <1>5. CASE EnqueueTriage(f) \/ TakeTriage(f) \/ Dismiss(f) \/ ClaimFails(f)
    BY <1>4, <1>5 DEF EnqueueTriage, TakeTriage, Dismiss, ClaimFails, alertVars
  <1>6. CASE Alert(f) \/ AlertUnsent(f) \/ Accumulate(f) \/ TriageDies(f)
    BY <1>4, <1>6 DEF Alert, AlertUnsent, Accumulate, TriageDies
  <1>7. CASE Claim(f)
    <2>1. UNCHANGED <<digest, flushing, delivered, missed>> /\ triage[f] = "triaging"
      BY <1>7 DEF Claim
    <2>2. CASE UNCHANGED seen
      BY <1>4, <2>1, <2>2
    <2>3. CASE \E topic \in Topic : triage' = [triage EXCEPT ![f] = "claimed"]
                                    /\ seen' = seen \cup {<<topic, f>>}
      <3>1. PICK topic \in Topic : triage' = [triage EXCEPT ![f] = "claimed"]
                                   /\ seen' = seen \cup {<<topic, f>>}
        BY <2>3
      <3>2. <<topic, f>> \in Topic \X Flush /\ <<topic, f>>[2] = f
        OBVIOUS
      <3>3. SeenIsAlerted'
        BY <2>1, <3>1, <3>2 DEF SeenIsAlerted
      <3>4. QED
        BY <1>2, <1>3, <3>1, <3>2, <3>3 DEF botVars
    <2>4. QED
      BY <1>7, <2>2, <2>3 DEF Claim
  <1>8. QED
    BY <1>5, <1>6, <1>7

\* A step of the bot, of a job, of the digest or of a key that expires.
LEMMA DiscordStep == DiscordInv /\ [DiscordNext]_discordVars => DiscordInv'
  <1> SUFFICES ASSUME DiscordInv, [DiscordNext]_discordVars PROVE DiscordInv'
    OBVIOUS
  <1>1. CASE ReadDigest \/ DeleteDigest \/ SendDigest \/ DigestFails
    <2>1. UNCHANGED <<botVars, triage, seen>>
      BY <1>1 DEF ReadDigest, DeleteDigest, SendDigest, DigestFails
    <2>2. digest \cup flushing \cup delivered \cup missed
            \subseteq digest' \cup flushing' \cup delivered' \cup missed'
      BY <1>1 DEF ReadDigest, DeleteDigest, SendDigest, DigestFails
    <2>3. QED
      BY <2>1, <2>2 DEF DiscordInv, DiscordTypeOK, MessagesKept, SeenIsAlerted, botVars
  <1>2. ASSUME NEW key \in Topic \X Flush, KeyExpires(key) PROVE DiscordInv'
    BY <1>2 DEF KeyExpires, DiscordInv, DiscordTypeOK, MessagesKept, SeenIsAlerted, botVars
  <1>3. CASE UNCHANGED discordVars
    BY <1>3 DEF discordVars, botVars, alertVars, DiscordInv, DiscordTypeOK, MessagesKept, SeenIsAlerted
  <1>4. QED
    BY <1>1, <1>2, <1>3, BotKeepsInv, TriageKeepsInv DEF DiscordNext

\* Nothing has been said and nothing is seen.
LEMMA DiscordInitial == DiscordInit => DiscordInv
  BY DEF DiscordInit, DiscordInv, DiscordTypeOK, MessagesKept, SeenIsAlerted

\* What is said is in the buffer, in a batch under way or in a job, unless the bot
\* dropped it (flushAll and the route it posts to).
THEOREM MessagesKeptHolds == DiscordSpec => []MessagesKept
  BY DiscordInitial, DiscordStep, PTL DEF DiscordSpec, DiscordInv

\* What is suppressed as seen before has an alert of its own, sent or on its way,
\* unless that one was missed (the discordTriage worker and flushDigest).
THEOREM SeenIsAlertedHolds == DiscordSpec => []SeenIsAlerted
  BY DiscordInitial, DiscordStep, PTL DEF DiscordSpec, DiscordInv

-----------------------------------------------------------------------------
\* The scheduler.

Place == {<<w>> : w \in {"idle", "daily", "listing", "next"}}
           \cup {<<w, o>> : w \in {"started", "ran", "updated", "completed", "failing"},
                            o \in Occurrence}

SchedulerTypeOK ==
  /\ running \in BOOLEAN
  /\ tick \in [Tick -> Place]
  /\ todo \in [Tick -> SUBSET Occurrence]
  /\ cameDue \in [Schedule -> 0..MaxDue]
  /\ nextRun \in [Schedule -> 1..(MaxDue + 1)]
  /\ runs \in [Occurrence -> Nat]
  /\ scheduleFaults \in Nat

\* A tick is busy with an occurrence.
Busy(k, o) == tick[k][1] \in {"started", "ran", "updated", "completed", "failing"} /\ tick[k][2] = o

\* One tick at a time, and only a tick that has listed the schedules has some to run.
OneTick ==
  /\ \A k \in Tick : tick[k][1] # "idle" => running
  /\ \A j, k \in Tick : tick[j][1] # "idle" /\ tick[k][1] # "idle" => j = k
  /\ \A k \in Tick : tick[k][1] \in {"idle", "daily", "listing"} => todo[k] = {}

\* What is listed came due and is still what its schedule runs next, as is what is
\* being run; the schedule of that is not on the list once more.
ListCurrent ==
  /\ \A s \in Schedule : nextRun[s] <= cameDue[s] + 1
  /\ \A k \in Tick : \A p \in todo[k] : nextRun[p[1]] = p[2] /\ p[2] <= cameDue[p[1]]
  /\ \A k \in Tick : \A o \in Occurrence :
       Busy(k, o) => /\ o[2] <= cameDue[o[1]]
                     /\ tick[k][1] \in {"started", "ran"} => nextRun[o[1]] = o[2]
                     /\ \A p \in todo[k] : p[1] # o[1]

\* An occurrence that could be run once more has been run no more often than
\* something failed.
RunsAccounted ==
  \A o \in Occurrence :
    /\ runs[o] <= 1 + scheduleFaults
    /\ nextRun[o[1]] <= o[2] /\ (\A k \in Tick : ~(tick[k][1] = "ran" /\ tick[k][2] = o)) =>
         runs[o] <= scheduleFaults

SchedulerInv == SchedulerTypeOK /\ OneTick /\ ListCurrent /\ RunsAccounted

\* A tick goes on to another place with less on its list: from the run of a schedule
\* only where it fails, and to an occurrence only if that is current.
Moves(k, where, less) ==
  /\ tick' = [tick EXCEPT ![k] = where] /\ todo' = [todo EXCEPT ![k] = less]
  /\ tick[k][1] # "idle"
  /\ IF where[1] = "idle" THEN running' = FALSE ELSE running' = running
  /\ UNCHANGED <<cameDue, nextRun, runs>>
  /\ scheduleFaults' \in {scheduleFaults, scheduleFaults + 1}
  /\ tick[k][1] = "ran" => scheduleFaults' = scheduleFaults + 1
  /\ where[1] \in {"idle", "daily", "listing"} => less = {}
  /\ where[1] # "ran"
  /\ \A o \in Occurrence :
       where[1] \in {"started", "updated", "completed", "failing"} /\ where[2] = o =>
         /\ o[2] <= cameDue[o[1]]
         /\ where[1] = "started" => nextRun[o[1]] = o[2]
         /\ \A p \in less : p[1] # o[1]

\* Such a tick leaves the rest as it is.
LEMMA MovesKeepsInv ==
  ASSUME SchedulerInv, NEW k \in Tick, NEW where \in Place, NEW less \in SUBSET todo[k],
         Moves(k, where, less)
  PROVE  SchedulerInv'
  <1> USE DEF SchedulerInv, Moves
  <1>1. SchedulerTypeOK'
    <2>1. tick' \in [Tick -> Place] /\ todo' \in [Tick -> SUBSET Occurrence]
      BY DEF SchedulerTypeOK
    <2>2. running' \in BOOLEAN
      BY DEF SchedulerTypeOK
    <2>3. QED
      BY <2>1, <2>2 DEF SchedulerTypeOK
  <1>2. tick'[k] = where /\ todo'[k] = less /\ \A j \in Tick \ {k} : tick'[j] = tick[j] /\ todo'[j] = todo[j]
    BY DEF SchedulerTypeOK
  <1>3. \A j \in Tick \ {k} : tick[j][1] = "idle"
    BY DEF OneTick
  <1>4. OneTick'
    BY <1>2, <1>3 DEF OneTick
  <1>5. ListCurrent'
    BY <1>2, <1>3 DEF ListCurrent, Busy
  <1>6. RunsAccounted'
    <2> SUFFICES ASSUME NEW o \in Occurrence
                 PROVE  /\ runs[o] <= 1 + scheduleFaults'
                        /\ nextRun[o[1]] <= o[2] => runs[o] <= scheduleFaults'
      BY DEF RunsAccounted
    <2>1. runs[o] \in Nat /\ scheduleFaults \in Nat
      BY DEF SchedulerTypeOK
    <2>2. runs[o] <= 1 + scheduleFaults
      BY DEF RunsAccounted
    <2>3. CASE tick[k][1] = "ran"
      BY <2>1, <2>2, <2>3
    <2>4. CASE tick[k][1] # "ran"
      <3>1. \A j \in Tick : ~(tick[j][1] = "ran" /\ tick[j][2] = o)
        BY <1>3, <2>4
      <3>2. nextRun[o[1]] <= o[2] => runs[o] <= scheduleFaults
        BY <3>1 DEF RunsAccounted
      <3>3. QED
        BY <2>1, <2>2, <3>2
    <2>5. QED
      BY <2>3, <2>4
  <1>7. QED
    BY <1>1, <1>4, <1>5, <1>6

\* A tick that is done with an occurrence moves its schedule past it.
MovesPast(k, o, where, less) ==
  /\ tick' = [tick EXCEPT ![k] = where] /\ todo' = [todo EXCEPT ![k] = less]
  /\ Busy(k, o)
  /\ nextRun' = [nextRun EXCEPT ![o[1]] = cameDue[o[1]] + 1]
  /\ where \in {<<"updated", o>>, <<"next">>, <<"idle">>}
  /\ less = IF where[1] = "idle" THEN {} ELSE todo[k]
  /\ IF where[1] = "idle" THEN running' = FALSE ELSE running' = running
  /\ UNCHANGED <<cameDue, runs>>
  /\ scheduleFaults' \in {scheduleFaults, scheduleFaults + 1}

\* What the schedule of the occurrence runs next is none that has been run.
LEMMA MovesPastKeepsInv ==
  ASSUME SchedulerInv, NEW k \in Tick, NEW o \in Occurrence, NEW where, NEW less,
         MovesPast(k, o, where, less)
  PROVE  SchedulerInv'
  <1> USE DEF SchedulerInv, MovesPast
  <1>0. o[1] \in Schedule /\ o[2] \in 1..MaxDue
    BY DEF Occurrence
  <1>1. SchedulerTypeOK'
    <2>1. where \in Place /\ less \in SUBSET Occurrence
      BY DEF Place, SchedulerTypeOK
    <2>2. tick' \in [Tick -> Place] /\ todo' \in [Tick -> SUBSET Occurrence]
      BY <2>1 DEF SchedulerTypeOK
    <2>3. nextRun' \in [Schedule -> 1..(MaxDue + 1)]
      BY <1>0, SchedulerAssumption DEF SchedulerTypeOK
    <2>4. running' \in BOOLEAN
      BY DEF SchedulerTypeOK
    <2>5. QED
      BY <2>2, <2>3, <2>4 DEF SchedulerTypeOK
  <1>2. /\ tick'[k] = where /\ todo'[k] = less
        /\ \A j \in Tick \ {k} : tick'[j] = tick[j] /\ todo'[j] = todo[j]
    BY DEF SchedulerTypeOK
  <1>3. tick[k][1] \in {"started", "ran", "updated", "completed", "failing"} /\ tick[k][2] = o
    BY DEF Busy
  <1>4. \A j \in Tick \ {k} : tick[j][1] = "idle" /\ todo[j] = {}
    BY <1>3 DEF OneTick
  <1>5. OneTick'
    BY <1>2, <1>3, <1>4 DEF OneTick
  <1>6. /\ nextRun'[o[1]] = cameDue[o[1]] + 1 /\ o[2] <= cameDue[o[1]]
        /\ \A s \in Schedule : s # o[1] => nextRun'[s] = nextRun[s]
        /\ \A s \in Schedule : nextRun[s] <= nextRun'[s] /\ nextRun'[s] <= cameDue[s] + 1
    BY <1>0 DEF SchedulerTypeOK, ListCurrent
  <1>7. ListCurrent'
    <2>1. \A p \in less : nextRun'[p[1]] = p[2] /\ p[2] <= cameDue[p[1]] /\ p[1] # o[1]
      <3>1. \A p \in less : p \in Occurrence /\ p[1] \in Schedule
        BY DEF SchedulerTypeOK, Occurrence
      <3>2. QED
        BY <1>6, <3>1 DEF ListCurrent
    <2>2. \A j \in Tick : \A p \in todo'[j] : nextRun'[p[1]] = p[2] /\ p[2] <= cameDue[p[1]]
      BY <1>2, <1>4, <2>1
    <2>3. \A j \in Tick : \A p \in Occurrence : Busy(j, p)' => j = k /\ p = o /\ where = <<"updated", o>>
      BY <1>2, <1>4 DEF Busy
    <2>4. QED
      BY <1>2, <1>6, <2>1, <2>2, <2>3 DEF ListCurrent
  <1>8. RunsAccounted'
    <2> SUFFICES ASSUME NEW p \in Occurrence
                 PROVE  /\ runs[p] <= 1 + scheduleFaults'
                        /\ nextRun'[p[1]] <= p[2] => runs[p] <= scheduleFaults'
      BY DEF RunsAccounted
    <2>1. runs[p] \in Nat /\ scheduleFaults \in Nat /\ p[1] \in Schedule /\ p[2] \in 1..MaxDue
      BY DEF SchedulerTypeOK, Occurrence
    <2>2. runs[p] <= 1 + scheduleFaults
      BY DEF RunsAccounted
    <2>3. ASSUME nextRun'[p[1]] <= p[2] PROVE runs[p] <= scheduleFaults
      <3>1. nextRun[p[1]] <= p[2]
        BY <1>6, <2>1, <2>3 DEF SchedulerTypeOK
      <3>2. p # o
        BY <1>0, <1>6, <2>3 DEF SchedulerTypeOK
      <3>3. \A j \in Tick : ~(tick[j][1] = "ran" /\ tick[j][2] = p)
        BY <1>3, <1>4, <3>2
      <3>4. QED
        BY <3>1, <3>3 DEF RunsAccounted
    <2>4. QED
      BY <2>1, <2>2, <2>3
  <1>9. QED
    BY <1>1, <1>5, <1>7, <1>8

\* A tick that starts, whose schedule is run, or that ends.
LEMMA SchedulerStep == SchedulerInv /\ [SchedulerNext]_schedulerVars => SchedulerInv'
  <1> SUFFICES ASSUME SchedulerInv, [SchedulerNext]_schedulerVars PROVE SchedulerInv'
    OBVIOUS
  <1>0. SchedulerTypeOK /\ OneTick /\ ListCurrent /\ RunsAccounted
    BY DEF SchedulerInv
  <1> USE DEF TickGoes
  <1>1. CASE TimePasses \/ UNCHANGED schedulerVars
    BY <1>0, <1>1 DEF TimePasses, schedulerVars, scheduleVars, SchedulerInv, SchedulerTypeOK,
                      OneTick, ListCurrent, Busy, RunsAccounted
  <1>2. ASSUME NEW s \in Schedule, ComesDue(s) PROVE SchedulerInv'
    <2>1. /\ cameDue' = [cameDue EXCEPT ![s] = cameDue[s] + 1] /\ cameDue[s] < MaxDue
          /\ UNCHANGED <<running, tick, todo, nextRun, runs, scheduleFaults>>
      BY <1>2 DEF ComesDue
    <2>2. SchedulerTypeOK'
      BY <1>0, <2>1, SchedulerAssumption DEF SchedulerTypeOK
    <2>3. \A x \in Schedule : cameDue[x] \in Nat /\ cameDue'[x] \in Nat /\ cameDue[x] <= cameDue'[x]
      BY <1>0, <2>1 DEF SchedulerTypeOK
    <2>4. \A o \in Occurrence : o[1] \in Schedule /\ o[2] \in Nat
      BY DEF Occurrence
    <2>5. ListCurrent'
      <3>1. \A x \in Schedule : nextRun[x] <= cameDue'[x] + 1
        BY <1>0, <2>3 DEF ListCurrent, SchedulerTypeOK
      <3>2. \A o \in Occurrence : o[2] <= cameDue[o[1]] => o[2] <= cameDue'[o[1]]
        BY <2>3, <2>4
      <3>3. \A k \in Tick : \A p \in todo[k] : p \in Occurrence
        BY <1>0 DEF SchedulerTypeOK
      <3>4. QED
        BY <1>0, <2>1, <3>1, <3>2, <3>3 DEF ListCurrent, Busy
    <2>6. QED
      BY <1>0, <2>1, <2>2, <2>5 DEF SchedulerInv, OneTick, RunsAccounted
  <1>3. CASE ServerDies
    <2>1. /\ running' = FALSE /\ tick' = [k \in Tick |-> <<"idle">>] /\ todo' = [k \in Tick |-> {}]
          /\ scheduleFaults' = scheduleFaults + 1 /\ UNCHANGED <<cameDue, nextRun, runs>>
      BY <1>3 DEF ServerDies, ScheduleFault, scheduleVars
    <2>2. SchedulerTypeOK'
      <3>1. tick' \in [Tick -> Place]
        BY <2>1 DEF Place
      <3>2. running' \in BOOLEAN
        BY <2>1, Zenon
      <3>3. QED
        BY <1>0, <2>1, <3>1, <3>2 DEF SchedulerTypeOK
    <2>3. OneTick' /\ ListCurrent'
      BY <1>0, <2>1 DEF OneTick, ListCurrent, Busy
    <2>4. RunsAccounted'
      BY <1>0, <2>1 DEF RunsAccounted, SchedulerTypeOK
    <2>5. QED
      BY <2>2, <2>3, <2>4 DEF SchedulerInv
  <1>4. ASSUME NEW k \in Tick, StartTick(k) PROVE SchedulerInv'
    <2>1. /\ ~running /\ running' = TRUE /\ tick' = [tick EXCEPT ![k] = <<"daily">>]
          /\ UNCHANGED <<todo, cameDue, nextRun, runs, scheduleFaults>>
      BY <1>4 DEF StartTick, scheduleVars
    <2>2. \A j \in Tick : tick[j][1] = "idle"
      BY <1>0, <2>1 DEF OneTick
    <2>3. tick'[k] = <<"daily">> /\ \A j \in Tick \ {k} : tick'[j] = tick[j]
      BY <1>0, <2>1 DEF SchedulerTypeOK
    <2>4. SchedulerTypeOK'
      <3>1. tick' \in [Tick -> Place]
        BY <1>0, <2>1 DEF Place, SchedulerTypeOK
      <3>2. QED
        BY <1>0, <2>1, <3>1 DEF SchedulerTypeOK
    <2>5. OneTick' /\ ListCurrent'
      BY <1>0, <2>1, <2>2, <2>3 DEF OneTick, ListCurrent, Busy
    <2>6. RunsAccounted'
      BY <1>0, <2>1, <2>2, <2>3 DEF RunsAccounted
    <2>7. QED
      BY <2>4, <2>5, <2>6 DEF SchedulerInv
  <1>5. ASSUME NEW k \in Tick, NEW o \in Occurrence, RunSchedule(k, o) PROVE SchedulerInv'
    <2>1. /\ tick[k] = <<"started", o>> /\ tick' = [tick EXCEPT ![k] = <<"ran", o>>]
          /\ runs' = [runs EXCEPT ![o] = runs[o] + 1]
          /\ UNCHANGED <<running, todo, cameDue, nextRun, scheduleFaults>>
      BY <1>5 DEF RunSchedule
    <2>2. \A j \in Tick \ {k} : tick[j][1] = "idle"
      BY <1>0, <2>1 DEF OneTick
    <2>3. tick'[k] = <<"ran", o>> /\ \A j \in Tick \ {k} : tick'[j] = tick[j]
      BY <1>0, <2>1 DEF SchedulerTypeOK
    <2>4. Busy(k, o) /\ nextRun[o[1]] = o[2]
      BY <1>0, <2>1 DEF Busy, ListCurrent
    <2>5. SchedulerTypeOK'
      <3>1. tick' \in [Tick -> Place]
        BY <1>0, <2>1 DEF Place, SchedulerTypeOK
      <3>2. runs' \in [Occurrence -> Nat]
        BY <1>0, <2>1 DEF SchedulerTypeOK
      <3>3. QED
        BY <1>0, <2>1, <3>1, <3>2 DEF SchedulerTypeOK
    <2>6. OneTick'
      BY <1>0, <2>1, <2>2, <2>3 DEF OneTick
    <2>7. ListCurrent'
      <3>1. \A j \in Tick : \A p \in Occurrence : Busy(j, p)' => j = k /\ p = o
        BY <2>2, <2>3 DEF Busy
      <3>2. QED
        BY <1>0, <2>1, <2>4, <3>1 DEF ListCurrent
    <2>8. RunsAccounted'
      <3>1. o[2] \in Nat
        BY DEF Occurrence
      <3>2. runs[o] <= scheduleFaults
        BY <1>0, <2>1, <2>2, <2>4, <3>1 DEF RunsAccounted
      <3>3. runs'[o] = runs[o] + 1 /\ \A p \in Occurrence : p # o => runs'[p] = runs[p]
        BY <1>0, <2>1 DEF SchedulerTypeOK
      <3>4. ASSUME NEW p \in Occurrence, p # o
            PROVE  /\ runs[p] <= 1 + scheduleFaults
                   /\ nextRun[p[1]] <= p[2] => runs[p] <= scheduleFaults
        BY <1>0, <2>1, <2>2, <3>4 DEF RunsAccounted
      <3>5. runs'[o] <= 1 + scheduleFaults
        BY <1>0, <3>2, <3>3 DEF SchedulerTypeOK
      <3>6. QED
        BY <2>1, <2>3, <3>3, <3>4, <3>5 DEF RunsAccounted
    <2>9. QED
      BY <2>5, <2>6, <2>7, <2>8 DEF SchedulerInv
  <1>6. ASSUME NEW k \in Tick, StartSchedule(k) PROVE SchedulerInv'
    <2>1. PICK o \in todo[k] :
            /\ todo' = [todo EXCEPT ![k] = todo[k] \ {o}]
            /\ \E where \in {<<"started", o>>, <<"failing", o>>} : tick' = [tick EXCEPT ![k] = where]
      BY <1>6 DEF StartSchedule
    <2> PICK where \in {<<"started", o>>, <<"failing", o>>} : tick' = [tick EXCEPT ![k] = where]
      BY <2>1
    <2>2. /\ tick[k] = <<"next">> /\ UNCHANGED <<running, cameDue, nextRun, runs>>
          /\ scheduleFaults' \in {scheduleFaults, scheduleFaults + 1}
      BY <1>6 DEF StartSchedule, ScheduleFault
    <2>3. o \in Occurrence /\ \A p \in todo[k] : p \in Occurrence
      BY <1>0 DEF SchedulerTypeOK
    <2>4. where \in Place /\ where[1] \in {"started", "failing"} /\ where[2] = o
      BY <2>3 DEF Place
    <2>5. o[2] <= cameDue[o[1]] /\ nextRun[o[1]] = o[2]
      BY <1>0 DEF ListCurrent
    <2>6. \A p \in todo[k] \ {o} : p[1] # o[1]
      <3>1. \A p \in todo[k] : nextRun[p[1]] = p[2]
        BY <1>0 DEF ListCurrent
      <3>2. \A p \in Occurrence : p[1] = o[1] /\ p[2] = o[2] => p = o
        BY <2>3 DEF Occurrence
      <3>3. QED
        BY <2>3, <2>5, <3>1, <3>2
    <2>7. Moves(k, where, todo[k] \ {o})
      BY <2>1, <2>2, <2>4, <2>5, <2>6 DEF Moves
    <2>8. QED
      BY <2>4, <2>7, MovesKeepsInv
  <1>7. ASSUME NEW k \in Tick, RunSystemTasks(k) \/ SkipSchedules(k) \/ FinishTick(k)
        PROVE  SchedulerInv'
    <2>1. /\ tick[k][1] \in {"daily", "listing", "next"}
          /\ UNCHANGED <<todo, cameDue, nextRun, runs>>
          /\ scheduleFaults' \in {scheduleFaults, scheduleFaults + 1}
          /\ tick[k][1] = "next" => todo[k] = {}
      BY <1>7 DEF RunSystemTasks, SkipSchedules, FinishTick, EndTick, ScheduleFault,
                  scheduleVars
    <2>2. todo[k] = {} /\ todo' = [todo EXCEPT ![k] = {}]
      BY <1>0, <2>1 DEF OneTick, SchedulerTypeOK
    <2>3. \E w \in {"listing", "idle"} :
            /\ tick' = [tick EXCEPT ![k] = <<w>>]
            /\ IF w = "idle" THEN running' = FALSE ELSE running' = running
      BY <1>7 DEF RunSystemTasks, SkipSchedules, FinishTick, EndTick
    <2>4. PICK w \in {"listing", "idle"} :
            /\ tick' = [tick EXCEPT ![k] = <<w>>]
            /\ IF w = "idle" THEN running' = FALSE ELSE running' = running
      BY <2>3
    <2>5. <<w>> \in Place /\ <<w>>[1] = w
      BY DEF Place
    <2>6. Moves(k, <<w>>, {})
      BY <2>1, <2>2, <2>4, <2>5 DEF Moves
    <2>7. QED
      BY <2>5, <2>6, MovesKeepsInv
  <1>8. ASSUME NEW k \in Tick, NEW o \in Occurrence,
               NoProviders(k, o) \/ CompleteSession(k, o) \/ DisableOneShot(k, o) \/ ScheduleFails(k, o)
        PROVE  SchedulerInv'
    <2>1. PICK where \in {<<"failing", o>>, <<"completed", o>>, <<"next">>} :
            tick' = [tick EXCEPT ![k] = where]
      BY <1>8 DEF NoProviders, CompleteSession, DisableOneShot, ScheduleFails
    <2>2. /\ Busy(k, o) /\ UNCHANGED <<running, todo, cameDue, nextRun, runs>>
          /\ scheduleFaults' \in {scheduleFaults, scheduleFaults + 1}
          /\ tick[k][1] = "ran" => scheduleFaults' = scheduleFaults + 1
      BY <1>8 DEF NoProviders, CompleteSession, DisableOneShot, ScheduleFails, ScheduleFault,
                  scheduleVars, Busy
    <2>3. where \in Place /\ where[1] \in {"failing", "completed", "next"}
          /\ (where[1] # "next" => where[2] = o)
      BY DEF Place
    <2>4. o[2] <= cameDue[o[1]] /\ \A p \in todo[k] : p[1] # o[1]
      BY <1>0, <2>2 DEF ListCurrent
    <2>5. todo' = [todo EXCEPT ![k] = todo[k]]
      BY <1>0, <2>2 DEF SchedulerTypeOK
    <2>6. Moves(k, where, todo[k])
      BY <2>1, <2>2, <2>3, <2>4, <2>5 DEF Moves, Busy
    <2>7. QED
      BY <2>3, <2>6, MovesKeepsInv
  <1>9. ASSUME NEW k \in Tick, NEW o \in Occurrence, UpdateLastRun(k, o) PROVE SchedulerInv'
    <2>1. MovesPast(k, o, <<"updated", o>>, todo[k])
      BY <1>0, <1>9 DEF UpdateLastRun, SetNextRun, MovesPast, Busy, SchedulerTypeOK
    <2>2. QED
      BY <2>1, MovesPastKeepsInv
  <1>10. ASSUME NEW k \in Tick, NEW o \in Occurrence, GiveUp(k, o) PROVE SchedulerInv'
    <2>1. /\ tick[k] = <<"failing", o>> /\ tick' = [tick EXCEPT ![k] = <<"next">>]
          /\ UNCHANGED <<running, todo, cameDue, runs>>
          /\ scheduleFaults' \in {scheduleFaults, scheduleFaults + 1}
          /\ nextRun' = [nextRun EXCEPT ![o[1]] = cameDue[o[1]] + 1] \/ UNCHANGED nextRun
      BY <1>10 DEF GiveUp, SetNextRun, ScheduleFault
    <2>2. todo' = [todo EXCEPT ![k] = todo[k]] /\ <<"next">> \in Place
      BY <1>0, <2>1 DEF SchedulerTypeOK, Place
    <2> DEFINE where == <<"next">>
    <2>3. where \in Place /\ where[1] = "next" /\ tick[k][1] = "failing" /\ tick[k][2] = o
          /\ tick' = [tick EXCEPT ![k] = where]
      BY <2>1, <2>2
    <2>4. where \in {<<"updated", o>>, <<"next">>, <<"idle">>}
      OBVIOUS
    <2> HIDE DEF where
    <2>5. CASE nextRun' = [nextRun EXCEPT ![o[1]] = cameDue[o[1]] + 1]
      <3>1. MovesPast(k, o, where, todo[k])
        BY <2>1, <2>2, <2>3, <2>4, <2>5 DEF MovesPast, Busy
      <3>2. QED
        BY <3>1, MovesPastKeepsInv
    <2>6. CASE UNCHANGED nextRun
      <3>1. Moves(k, where, todo[k])
        BY <2>1, <2>2, <2>3, <2>6 DEF Moves
      <3>2. QED
        BY <2>3, <3>1, MovesKeepsInv
    <2>7. QED
      BY <2>1, <2>5, <2>6
  <1>11. ASSUME NEW k \in Tick, TickFails(k) PROVE SchedulerInv'
    <2>1. /\ tick' = [tick EXCEPT ![k] = <<"idle">>] /\ running' = FALSE
          /\ todo' = [todo EXCEPT ![k] = {}] /\ scheduleFaults' = scheduleFaults + 1
          /\ UNCHANGED <<cameDue, runs>> /\ tick[k][1] \in {"listing", "failing"}
      BY <1>11 DEF TickFails, EndTick, ScheduleFault
    <2>2. CASE UNCHANGED nextRun
      <3>1. <<"idle">> \in Place /\ Moves(k, <<"idle">>, {})
        BY <2>1, <2>2 DEF Moves, Place
      <3>2. QED
        BY <3>1, MovesKeepsInv
    <2>3. CASE tick[k][1] = "failing" /\ SetNextRun(tick[k][2][1])
      <3>1. PICK o \in Occurrence : Busy(k, o)
        <4>1. tick[k] \in Place
          BY <1>0 DEF SchedulerTypeOK
        <4>2. QED
          BY <2>3, <4>1 DEF Place, Busy
      <3>2. nextRun' = [nextRun EXCEPT ![o[1]] = cameDue[o[1]] + 1]
        BY <2>3, <3>1 DEF SetNextRun, Busy
      <3>3. MovesPast(k, o, <<"idle">>, {})
        BY <2>1, <3>1, <3>2 DEF MovesPast
      <3>4. QED
        BY <3>3, MovesPastKeepsInv
    <2>4. QED
      BY <1>11, <2>2, <2>3 DEF TickFails
  <1>12. ASSUME NEW k \in Tick, ListDueSchedules(k) PROVE SchedulerInv'
    <2> DEFINE list == {<<s, nextRun[s]>> : s \in {x \in Schedule : enabled[x] /\ nextRun[x] <= cameDue[x]}}
    <2>1. /\ tick[k] = <<"listing">> /\ tick' = [tick EXCEPT ![k] = <<"next">>]
          /\ todo' = [todo EXCEPT ![k] = list]
          /\ UNCHANGED <<running, cameDue, nextRun, runs, scheduleFaults>>
      BY <1>12 DEF ListDueSchedules, scheduleVars
    <2>2. \A p \in list : p \in Occurrence /\ nextRun[p[1]] = p[2] /\ p[2] <= cameDue[p[1]]
      <3> SUFFICES ASSUME NEW s \in Schedule, nextRun[s] <= cameDue[s]
                   PROVE  <<s, nextRun[s]>> \in Occurrence
        OBVIOUS
      <3>1. nextRun[s] \in 1..MaxDue
        BY <1>0, SchedulerAssumption DEF SchedulerTypeOK
      <3>2. QED
        BY <3>1 DEF Occurrence
    <2> HIDE DEF list
    <2>3. \A j \in Tick \ {k} : tick[j][1] = "idle"
      BY <1>0, <2>1 DEF OneTick
    <2>4. /\ tick'[k] = <<"next">> /\ todo'[k] = list
          /\ \A j \in Tick \ {k} : tick'[j] = tick[j] /\ todo'[j] = todo[j]
      BY <1>0, <2>1 DEF SchedulerTypeOK
    <2>5. SchedulerTypeOK'
      <3>1. tick' \in [Tick -> Place]
        BY <1>0, <2>1 DEF Place, SchedulerTypeOK
      <3>2. todo' \in [Tick -> SUBSET Occurrence]
        BY <1>0, <2>1, <2>2 DEF SchedulerTypeOK
      <3>3. QED
        BY <1>0, <2>1, <3>1, <3>2 DEF SchedulerTypeOK
    <2>6. OneTick'
      BY <1>0, <2>1, <2>3, <2>4 DEF OneTick
    <2>7. ListCurrent'
      <3>1. \A j \in Tick : \A p \in Occurrence : ~Busy(j, p)'
        BY <2>3, <2>4 DEF Busy
      <3>2. QED
        BY <1>0, <2>1, <2>2, <2>4, <3>1 DEF ListCurrent
    <2>8. RunsAccounted'
      <3>1. \A j \in Tick : tick[j][1] # "ran" /\ tick'[j][1] # "ran"
        BY <2>1, <2>3, <2>4
      <3>2. QED
        BY <1>0, <2>1, <3>1 DEF RunsAccounted
    <2>9. QED
      BY <2>5, <2>6, <2>7, <2>8 DEF SchedulerInv
  <1>13. QED
    BY <1>1, <1>2, <1>3, <1>4, <1>5, <1>6, <1>7, <1>8, <1>9, <1>10, <1>11, <1>12 DEF SchedulerNext

\* Nothing has come due and no tick has started.
LEMMA SchedulerInitial == SchedulerInit => SchedulerInv
  <1> SUFFICES ASSUME SchedulerInit PROVE SchedulerInv
    OBVIOUS
  <1> USE DEF SchedulerInit
  <1>1. SchedulerTypeOK
    <2>1. tick \in [Tick -> Place]
      BY DEF Place
    <2>2. running \in BOOLEAN
      BY Zenon
    <2>3. QED
      BY <2>1, <2>2, SchedulerAssumption DEF SchedulerTypeOK
  <1>2. OneTick /\ ListCurrent /\ RunsAccounted
    BY SchedulerAssumption DEF OneTick, ListCurrent, Busy, RunsAccounted
  <1>3. QED
    BY <1>1, <1>2 DEF SchedulerInv

\* An occurrence of a schedule is run once, and once more only for a death or a
\* write that failed, whatever timers fire (startScheduler).
THEOREM RunsOnceHolds == SchedulerSpec => []RunsOnce
  <1>1. SchedulerInv => RunsOnce
    BY DEF SchedulerInv, RunsAccounted, RunsOnce
  <1>2. QED
    BY <1>1, SchedulerInitial, SchedulerStep, PTL DEF SchedulerSpec

-----------------------------------------------------------------------------
\* The services in one specification, which the checker runs.

\* The steps of one service are steps of all seven, of which six stand still, so
\* what was proved of each holds in every behaviour of the specification that the
\* runs check, without bounds.
THEOREM PartsAreFaithful ==
  ServicesSpec => /\ Spec /\ TierSpec /\ MessageSpec /\ StreamSpec /\ IngestionSpec
                  /\ DiscordSpec /\ SchedulerSpec
  <1>1. ServicesInit => /\ Init /\ TierInit /\ MessageInit /\ StreamInit /\ IngestionInit
                        /\ DiscordInit /\ SchedulerInit
    BY DEF ServicesInit
  <1>2. [ServicesNext]_<<part, vars, tierVars, messageVars, streamVars, ingestionVars,
                         discordVars, schedulerVars>> =>
          /\ [Next]_vars /\ [TierNext]_tierVars /\ [MessageNext]_messageVars
          /\ [StreamNext]_streamVars /\ [IngestionNext]_ingestionVars
          /\ [DiscordNext]_discordVars /\ [SchedulerNext]_schedulerVars
    BY DEF ServicesNext, Others
  <1>3. QED
    BY <1>1, <1>2, PTL
    DEF ServicesSpec, Spec, TierSpec, MessageSpec, StreamSpec, IngestionSpec, DiscordSpec,
        SchedulerSpec

\* The invariants that the run of the services checks hold for every instance.
THEOREM ServicesSound ==
  ServicesSpec => [](/\ ApprovedFirst /\ TakesEffect /\ MarkedIsSeen /\ SubscriptionReleased
                     /\ EmptyMeansMidway /\ MessagesKept /\ SeenIsAlerted /\ RunsOnce)
  BY PartsAreFaithful, ApprovedFirstHolds, TakesEffectHolds, MarkedIsSeenHolds,
     SubscriptionReleasedHolds, EmptyMeansMidwayHolds, MessagesKeptHolds, SeenIsAlertedHolds,
     RunsOnceHolds, PTL
=============================================================================
