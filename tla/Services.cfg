\* Two calls; three edits of a tier; three messages to two readers; three streams;
\* two ingestions of two summaries; two messages and two flushes; two schedules.
SPECIFICATION ServicesSpec
CONSTANTS
  Call = {c1, c2}
  External = {c1}
  MaxDecisions = 2
  MaxFaults = 1
  Put = {u1, u2, u3}
  MaxTierErrors = 1
  Messages = 3
  Reader = {a1, a2}
  InboxLimit = 2
  MaxReaderFaults = 1
  Stream = {x1, x2, x3}
  MaxEnds = 1
  Summaries = 2
  Ingestion = {i1, i2}
  IngestionAttempts = 2
  MaxIngestionFaults = 2
  Chats = 2
  Flushes = 2
  BufferCap = 1
  Topic = {t1, t2}
  MaxDiscordFaults = 2
  Schedule = {s1, s2}
  OneShot = {s1}
  Tick = {k1, k2}
  MaxDays = 1
  MaxDue = 2
  MaxScheduleFaults = 1
INVARIANTS
  ApprovedFirst
  TakesEffect
  MarkedIsSeen
  SubscriptionReleased
  EmptyMeansMidway
  MessagesKept
  SeenIsAlerted
  RunsOnce
PROPERTIES
  CallEnds
  PendingEnds
CHECK_DEADLOCK FALSE
