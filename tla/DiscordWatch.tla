---------------------------- MODULE DiscordWatch ----------------------------
(***************************************************************************)
(* What is said in a Discord channel on its way to a person: the bot       *)
(* buffers messages and posts them every two minutes                       *)
(* (handlers/message-watcher.ts), the server queues a job for each batch   *)
(* (routes/discord-watcher.ts), the discordTriage worker classifies it,    *)
(* suppresses what was seen before, and sends an alert or adds it to a     *)
(* digest (plugins/queue.ts), which an hourly job reads, deletes and sends *)
(* (services/discord-digest.ts).                                           *)
(*                                                                         *)
(* One channel and one digest.  A flush names its batch and the job and    *)
(* the alert made of it.  That the channel grows slowly after failures     *)
(* changes only when a flush happens, so the backoff is left out.          *)
(***************************************************************************)
EXTENDS Naturals, FiniteSets

CONSTANTS Chats,           \* bound: messages, numbered as they come
          Flushes,         \* bound: flushes that find something in the buffer
          BufferCap,       \* DISCORD_WATCHER_MAX_MESSAGES_PER_BATCH
          Topic,           \* what the summary of a batch can be about
          MaxDiscordFaults \* bound: requests that fail, deaths of bot or worker

ASSUME DiscordAssumption ==
  Chats \in Nat /\ Flushes \in Nat /\ BufferCap \in Nat \ {0} /\ MaxDiscordFaults \in Nat

Flush == 1..Flushes

VARIABLES said,       \* how many messages there have been
          buffer,     \* the bot's buffer
          batch,      \* what each flush took
          posting,    \* flushes whose request has not been answered
          triage,     \* the job of each flush
          seen,       \* the keys discord-triage-seen: a topic, and the flush that claimed it
          digest,     \* alerts in the digest
          flushing,   \* alerts read from it and not sent
          delivered,  \* history: alerts a person has been sent
          spilled,    \* history: messages the bot dropped
          missed,     \* history: alerts that were claimed and are not delivered any more
          discordFaults

botVars == <<said, buffer, batch, posting, spilled>>
alertVars == <<seen, digest, flushing, delivered, missed>>
discordVars == <<botVars, triage, alertVars, discordFaults>>

DiscordInit ==
  /\ said = 0 /\ buffer = {} /\ spilled = {}
  /\ batch = [f \in Flush |-> {}]
  /\ posting = {}
  /\ triage = [f \in Flush |-> "none"]
  /\ seen = {} /\ digest = {} /\ flushing = {} /\ delivered = {} /\ missed = {}
  /\ discordFaults = 0

DiscordFault == discordFaults < MaxDiscordFaults /\ discordFaults' = discordFaults + 1
Triage(f, where) == triage' = [triage EXCEPT ![f] = where]

----------------------------------------------------------------------------
(* The bot.                                                                *)

\* A full buffer loses its oldest message.
MessageCreate ==
  /\ said < Chats /\ said' = said + 1
  /\ LET dropped == IF Cardinality(buffer) < BufferCap THEN {}
                    ELSE {m \in buffer : \A n \in buffer : m <= n} IN
       /\ buffer' = (buffer \ dropped) \cup {said'}
       /\ spilled' = spilled \cup dropped
  /\ UNCHANGED <<batch, posting, triage, alertVars, discordFaults>>

\* flushAll: the timer does not wait for the flush before.
FlushAll(f) ==
  /\ buffer # {} /\ batch[f] = {} /\ \A g \in Flush : g < f => batch[g] # {}
  /\ batch' = [batch EXCEPT ![f] = buffer]
  /\ buffer' = {}
  /\ posting' = posting \cup {f}
  /\ UNCHANGED <<said, spilled, triage, alertVars, discordFaults>>

\* POST /ingest: the job is queued, and the answer is on its way.
EnqueueTriage(f) ==
  /\ f \in posting /\ triage[f] = "none"
  /\ Triage(f, "waiting")
  /\ UNCHANGED <<botVars, alertVars, discordFaults>>

\* Mutant: the buffer is cleared when the batch has been accepted.
PostAcceptedClearing(f) ==
  /\ f \in posting /\ triage[f] # "none"
  /\ posting' = posting \ {f}
  /\ buffer' = {}
  /\ UNCHANGED <<said, batch, spilled, triage, alertVars, discordFaults>>

PostAccepted(f) ==
  /\ f \in posting /\ triage[f] # "none"
  /\ posting' = posting \ {f}
  /\ UNCHANGED <<said, buffer, batch, spilled, triage, alertVars, discordFaults>>

\* "messages re-buffered", whether the server got them or not, and over the cap.
PostFails(f) ==
  /\ f \in posting /\ DiscordFault
  /\ posting' = posting \ {f}
  /\ buffer' = buffer \cup batch[f]
  /\ UNCHANGED <<said, batch, spilled, triage, alertVars>>

BotDies ==
  /\ DiscordFault
  /\ buffer' = {} /\ posting' = {}
  /\ spilled' = spilled \cup buffer \cup UNION {batch[f] : f \in {g \in posting : triage[g] = "none"}}
  /\ UNCHANGED <<said, batch, triage, alertVars>>

----------------------------------------------------------------------------
(* The triage.                                                             *)

TakeTriage(f) ==
  /\ triage[f] = "waiting"
  /\ Cardinality({g \in Flush : triage[g] \in {"triaging", "claimed"}}) < 2
  /\ Triage(f, "triaging")
  /\ UNCHANGED <<botVars, alertVars, discordFaults>>

\* Mutant: the key is set before the answer is known to be actionable.
DismissClaiming(f) ==
  /\ triage[f] = "triaging"
  /\ Triage(f, "over")
  /\ \E topic \in Topic : seen' = seen \cup {<<topic, f>>}
  /\ UNCHANGED <<botVars, digest, flushing, delivered, missed, discordFaults>>

\* Not actionable, unsure, or the model's answer could not be read.
Dismiss(f) ==
  /\ triage[f] = "triaging"
  /\ Triage(f, "over")
  /\ UNCHANGED <<botVars, alertVars, discordFaults>>

\* SET NX of the topic's key: the first claims it, the others are suppressed.
Claim(f) ==
  /\ triage[f] = "triaging"
  /\ \E topic \in Topic :
       IF \E g \in Flush : <<topic, g>> \in seen
         THEN Triage(f, "over") /\ UNCHANGED seen
         ELSE Triage(f, "claimed") /\ seen' = seen \cup {<<topic, f>>}
  /\ UNCHANGED <<botVars, digest, flushing, delivered, missed, discordFaults>>

\* "Dedup is best-effort": without Redis the alert goes on.
ClaimFails(f) ==
  /\ triage[f] = "triaging" /\ DiscordFault
  /\ Triage(f, "claimed")
  /\ UNCHANGED <<botVars, alertVars>>

\* The key expires after six hours.
KeyExpires(key) ==
  /\ key \in seen /\ seen' = seen \ {key}
  /\ UNCHANGED <<botVars, triage, digest, flushing, delivered, missed, discordFaults>>

\* A high urgency, or a digest that cannot be reached, is sent at once.
Alert(f) ==
  /\ triage[f] = "claimed"
  /\ Triage(f, "over")
  /\ delivered' = delivered \cup {f}
  /\ UNCHANGED <<botVars, seen, digest, flushing, missed, discordFaults>>

\* What Slack does not take is only logged.
AlertUnsent(f) ==
  /\ triage[f] = "claimed" /\ DiscordFault
  /\ Triage(f, "over")
  /\ missed' = missed \cup {f}
  /\ UNCHANGED <<botVars, seen, digest, flushing, delivered>>

Accumulate(f) ==
  /\ triage[f] = "claimed"
  /\ Triage(f, "over")
  /\ digest' = digest \cup {f}
  /\ UNCHANGED <<botVars, seen, flushing, delivered, missed, discordFaults>>

\* The worker dies and the job is run again.  What it has claimed is in the way of
\* its own second run; without the key the claim is made anew.
TriageDies(f) ==
  /\ triage[f] \in {"triaging", "claimed"} /\ DiscordFault
  /\ Triage(f, "waiting")
  /\ missed' = IF triage[f] = "claimed" THEN missed \cup {f} ELSE missed
  /\ UNCHANGED <<botVars, seen, digest, flushing, delivered>>

----------------------------------------------------------------------------
(* The digest: LRANGE, DEL, and the notification.                          *)

ReadDigest ==
  /\ digest # {} /\ flushing = {}
  /\ flushing' = digest
  /\ UNCHANGED <<botVars, triage, seen, digest, delivered, missed, discordFaults>>

\* An alert that was added since the read is deleted unread.
DeleteDigest ==
  /\ flushing # {} /\ flushing \subseteq digest
  /\ digest' = {}
  /\ missed' = missed \cup (digest \ flushing)
  /\ UNCHANGED <<botVars, triage, seen, flushing, delivered, discordFaults>>

SendDigest ==
  /\ flushing # {} /\ ~(flushing \subseteq digest)
  /\ delivered' = delivered \cup flushing
  /\ flushing' = {}
  /\ UNCHANGED <<botVars, triage, seen, digest, missed, discordFaults>>

\* The digest's job ends where it is: what has been deleted is not sent.
DigestFails ==
  /\ flushing # {} /\ DiscordFault
  /\ missed' = missed \cup (flushing \ digest)
  /\ flushing' = {}
  /\ UNCHANGED <<botVars, triage, seen, digest, delivered>>

DiscordNext ==
  \/ MessageCreate \/ BotDies \/ ReadDigest \/ DeleteDigest \/ SendDigest \/ DigestFails
  \/ \E f \in Flush :
       \/ FlushAll(f) \/ EnqueueTriage(f) \/ PostAccepted(f) \/ PostFails(f)
       \/ TakeTriage(f) \/ Dismiss(f) \/ Claim(f) \/ ClaimFails(f)
       \/ Alert(f) \/ AlertUnsent(f) \/ Accumulate(f) \/ TriageDies(f)
  \/ \E key \in Topic \X Flush : KeyExpires(key)

DiscordSpec == DiscordInit /\ [][DiscordNext]_discordVars

----------------------------------------------------------------------------
\* "Snapshot entries but don't clear": what has been said is in the buffer, in a
\* batch under way or in the job of one, however posts, failures and overlapping
\* flushes follow one another, unless the bot dropped it when its buffer was full
\* or died with it.
MessagesKept ==
  \A m \in 1..said :
    \/ m \in buffer \cup spilled
    \/ \E f \in Flush : m \in batch[f] /\ (f \in posting \/ triage[f] # "none")

\* What is suppressed as seen before has an alert that is about to go out, waits in
\* the digest or has been sent, unless that one was missed: Slack did not take it, a
\* process died with it, or it came to the digest between its read and its deletion.
SeenIsAlerted ==
  \A key \in seen :
    triage[key[2]] = "claimed" \/ key[2] \in digest \cup flushing \cup delivered \cup missed
=============================================================================
