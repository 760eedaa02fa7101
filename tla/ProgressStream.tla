--------------------------- MODULE ProgressStream ---------------------------
(***************************************************************************)
(* The progress of a goal as server-sent events: the worker publishes each *)
(* event on the goal's Redis channel and appends it to a history           *)
(* (packages/queue/src/pubsub.ts); a stream of the server replays the      *)
(* history and then listens (routes/execution.ts), and the server          *)
(* subscribes to the channel with the first listener and unsubscribes      *)
(* after the last (plugins/pubsub.ts).  The stream of a subagent           *)
(* (routes/subagents.ts) is the same code once more.                       *)
(*                                                                         *)
(* An event either ends the job or does not; progress events only pass     *)
(* through.  Commands to Redis and what comes back keep their order, each  *)
(* on its way; history is read over another connection.                    *)
(***************************************************************************)
EXTENDS Naturals, Sequences

CONSTANTS Stream,    \* requests of GET /:id/execute/stream
          MaxEnds    \* bound: ends of the goal's jobs: attempts and later runs

ASSUME StreamAssumption == MaxEnds \in Nat

VARIABLES stream,      \* where each request is
          left,        \* streams whose client has gone before they listened
          replay,      \* the replay of each stream ends with the end of a job
          logged,      \* whether the history holds the end of a job: "no", "due" or "yes"
          subscribed,  \* Redis sends the channel to the server
          commands,    \* SUBSCRIBE of a stream and UNSUBSCRIBE, on their way to Redis
          inbox,       \* replies and ends of jobs, on their way to the server
          ends

streamVars == <<stream, left, replay, logged, subscribed, commands, inbox, ends>>

StreamInit ==
  /\ stream = [s \in Stream |-> "idle"]
  /\ left = {}
  /\ replay = [s \in Stream |-> FALSE]
  /\ logged = "no" /\ subscribed = FALSE
  /\ commands = <<>> /\ inbox = <<>>
  /\ ends = 0

\* The listeners of the channel on the server's emitter.
Listeners == {s \in Stream : stream[s] = "listening"}

Subscribe(s) == [op |-> "subscribe", stream |-> s]
Unsubscribe == [op |-> "unsubscribe"]
Reply(s) == [kind |-> "reply", stream |-> s]
JobEnd == [kind |-> "end"]

----------------------------------------------------------------------------
(* A stream.                                                               *)

\* getHistory; what is sent to the client of the other events is left out.
ReadHistory(s) ==
  /\ stream[s] = "idle"
  /\ replay' = [replay EXCEPT ![s] = logged = "yes"]
  /\ stream' = [stream EXCEPT ![s] = "replaying"]
  /\ UNCHANGED <<left, logged, subscribed, commands, inbox, ends>>

\* "Job already finished — no need to subscribe to live events"
EndReplay(s) ==
  /\ stream[s] = "replaying" /\ replay[s]
  /\ stream' = [stream EXCEPT ![s] = "closed"]
  /\ UNCHANGED <<left, replay, logged, subscribed, commands, inbox, ends>>

\* subscribeGoal: only the first listener waits for a subscription.
Listen(s) ==
  /\ stream[s] = "replaying" /\ ~replay[s]
  /\ IF Listeners = {}
       THEN /\ stream' = [stream EXCEPT ![s] = "subscribing"]
            /\ commands' = Append(commands, Subscribe(s))
       ELSE /\ stream' = [stream EXCEPT ![s] = "listening"]
            /\ UNCHANGED commands
  /\ UNCHANGED <<left, replay, logged, subscribed, inbox, ends>>

\* Mutant: the listeners are counted before the stream is taken off them.
CleanUpCounting(gone) ==
  /\ stream' = [s \in Stream |-> IF s \in gone THEN "closed" ELSE stream[s]]
  /\ commands' = IF gone # {} /\ Listeners = {} THEN Append(commands, Unsubscribe) ELSE commands

\* cleanup: off, then unsubscribeGoal, which looks for listeners that are left.
CleanUp(gone) ==
  /\ stream' = [s \in Stream |-> IF s \in gone THEN "closed" ELSE stream[s]]
  /\ commands' = IF gone # {} /\ Listeners = gone THEN Append(commands, Unsubscribe) ELSE commands

\* The client goes.  Before the stream listens nobody hears the close.
Disconnect(s) ==
  /\ \/ stream[s] = "listening" /\ s \notin left /\ CleanUp({s}) /\ UNCHANGED left
     \/ /\ stream[s] \in {"replaying", "subscribing"} /\ s \notin left
        /\ left' = left \cup {s}
        /\ UNCHANGED <<stream, commands>>
  /\ UNCHANGED <<replay, logged, subscribed, inbox, ends>>

----------------------------------------------------------------------------
(* Redis, and what the server does with what it sends.                     *)

RunCommand ==
  /\ commands # <<>>
  /\ LET command == Head(commands) IN
       IF command.op = "subscribe"
         THEN subscribed' = TRUE /\ inbox' = Append(inbox, Reply(command.stream))
         ELSE subscribed' = FALSE /\ UNCHANGED inbox
  /\ commands' = Tail(commands)
  /\ UNCHANGED <<stream, left, replay, logged, ends>>

\* The stream that awaited the reply puts its listener on the emitter.
Subscribed ==
  /\ inbox # <<>> /\ Head(inbox).kind = "reply"
  /\ stream' = [stream EXCEPT ![Head(inbox).stream] = "listening"]
  /\ inbox' = Tail(inbox)
  /\ UNCHANGED <<left, replay, logged, subscribed, commands, ends>>

\* The end of the job closes every stream that listens.
HearEnd ==
  /\ inbox # <<>> /\ Head(inbox) = JobEnd
  /\ CleanUp(Listeners)
  /\ inbox' = Tail(inbox)
  /\ UNCHANGED <<left, replay, logged, subscribed, ends>>

\* publish: the channel gets the event, and the history next.  A job ends once an
\* attempt, so the history keeps an end for the streams of the attempts after it.
PublishEnd ==
  /\ ends < MaxEnds /\ ends' = ends + 1
  /\ inbox' = IF subscribed THEN Append(inbox, JobEnd) ELSE inbox
  /\ logged' = IF logged = "no" THEN "due" ELSE logged
  /\ UNCHANGED <<stream, left, replay, subscribed, commands>>

AppendEnd ==
  /\ logged = "due" /\ logged' = "yes"
  /\ UNCHANGED <<stream, left, replay, subscribed, commands, inbox, ends>>

\* The history expires with its last event.
HistoryExpires ==
  /\ logged = "yes" /\ logged' = "no"
  /\ UNCHANGED <<stream, left, replay, subscribed, commands, inbox, ends>>

StreamStep ==
  \/ \E s \in Stream : EndReplay(s) \/ Listen(s)
  \/ RunCommand \/ Subscribed \/ HearEnd \/ AppendEnd

StreamNext ==
  \/ \E s \in Stream : ReadHistory(s) \/ Disconnect(s)
  \/ StreamStep \/ PublishEnd \/ HistoryExpires

StreamSpec == StreamInit /\ [][StreamNext]_streamVars

----------------------------------------------------------------------------
\* Nothing is on its way between the server and Redis.
Quiet == commands = <<>> /\ inbox = <<>>

\* "Unsubscribe from a goal's Redis channel when the last listener disconnects":
\* however many streams come, go and end at once, when nothing is under way and
\* nobody listens Redis does not send the channel any more.
SubscriptionReleased == Quiet /\ Listeners = {} => ~subscribed

=============================================================================
