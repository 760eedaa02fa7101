--------------------------- MODULE AgentMessaging ---------------------------
(***************************************************************************)
(* Messages between agents (services/agent-messaging.ts over the           *)
(* repository's agent messages): send inserts a row, checkInbox lists the  *)
(* pending messages of a role, newest first, and marks what it listed, or  *)
(* looks for the response to a request.                                    *)
(*                                                                         *)
(* One role, whose agents run at once and share an inbox.  The depth that  *)
(* limits chains of messages is 0 in every message the tools send, and     *)
(* expireStaleMessages is called by nothing, so neither is here.  The list *)
(* is cut at InboxLimit.                                                   *)
(***************************************************************************)
EXTENDS Naturals, FiniteSets

CONSTANTS Messages,     \* bound: messages that are sent to the role, numbered as they come
          Reader,       \* agents of the role
          InboxLimit,   \* limit: 5
          MaxReaderFaults  \* bound: readers that die, and queries that fail

ASSUME MessagingAssumption ==
  Messages \in Nat /\ InboxLimit \in Nat \ {0} /\ MaxReaderFaults \in Nat

VARIABLES sent,       \* how many have been sent
          unread,     \* those whose status is "pending"
          reading,    \* where each reader is
          listed,     \* what it listed
          received,   \* history: messages that some reader has got
          forgone,    \* history: messages marked by a reader that did not come to see them
          readerFaults

messageVars == <<sent, unread, reading, listed, received, forgone, readerFaults>>

Message == 1..Messages

MessageInit ==
  /\ sent = 0 /\ unread = {}
  /\ reading = [r \in Reader |-> "idle"]
  /\ listed = [r \in Reader |-> {}]
  /\ received = {} /\ forgone = {} /\ readerFaults = 0

\* send: the row is pending.  The notification over Redis wakes nobody.
SendMessage ==
  /\ sent < Messages /\ sent' = sent + 1
  /\ unread' = unread \cup {sent'}
  /\ UNCHANGED <<reading, listed, received, forgone, readerFaults>>

\* The newest messages of a set, as many as the limit allows.
Newest(set) == {m \in set : Cardinality({n \in set : n > m}) < InboxLimit}

\* getAgentInbox
ListInbox(r) ==
  /\ reading[r] = "idle" /\ unread # {}
  /\ listed' = [listed EXCEPT ![r] = Newest(unread)]
  /\ reading' = [reading EXCEPT ![r] = "marking"]
  /\ UNCHANGED <<sent, unread, received, forgone, readerFaults>>

\* Mutant: what is pending is marked, and not what was listed.
MarkPending(r) ==
  /\ reading[r] = "marking"
  /\ unread' = {}
  /\ reading' = [reading EXCEPT ![r] = "returning"]
  /\ UNCHANGED <<sent, listed, received, forgone, readerFaults>>

\* markMessagesRead, whatever another reader has done with them.
MarkRead(r) ==
  /\ reading[r] = "marking"
  /\ unread' = unread \ listed[r]
  /\ reading' = [reading EXCEPT ![r] = "returning"]
  /\ UNCHANGED <<sent, listed, received, forgone, readerFaults>>

ReturnMessages(r) ==
  /\ reading[r] = "returning"
  /\ received' = received \cup listed[r]
  /\ reading' = [reading EXCEPT ![r] = "idle"]
  /\ listed' = [listed EXCEPT ![r] = {}]
  /\ UNCHANGED <<sent, unread, forgone, readerFaults>>

\* The reader's process dies, or its query fails: it gets nothing.
ReaderDies(r) ==
  /\ reading[r] # "idle"
  /\ readerFaults < MaxReaderFaults /\ readerFaults' = readerFaults + 1
  /\ forgone' = IF reading[r] = "returning" THEN forgone \cup listed[r] ELSE forgone
  /\ reading' = [reading EXCEPT ![r] = "idle"]
  /\ listed' = [listed EXCEPT ![r] = {}]
  /\ UNCHANGED <<sent, unread, received>>

MessageNext ==
  SendMessage \/ \E r \in Reader : ListInbox(r) \/ MarkRead(r) \/ ReturnMessages(r) \/ ReaderDies(r)

MessageSpec == MessageInit /\ [][MessageNext]_messageVars

----------------------------------------------------------------------------
\* A message that is no longer pending has been seen by an agent of its role, or
\* one is about to see it, unless the reader died that had marked it: a message
\* that comes between the list and the mark of another reader is not marked with
\* the others, though two readers may see the same one.
MarkedIsSeen ==
  \A m \in 1..sent :
    m \in unread \/ m \in received \/ m \in forgone
      \/ \E r \in Reader : reading[r] = "returning" /\ m \in listed[r]
=============================================================================
