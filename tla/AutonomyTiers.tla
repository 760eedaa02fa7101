--------------------------- MODULE AutonomyTiers ---------------------------
(***************************************************************************)
(* AutonomyTierService (services/autonomy-tier.ts): the tier of a tool is  *)
(* kept in memory, where executeWithTierCheck looks it up, and PUT         *)
(* /tiers/:toolName (routes/autonomy.ts) writes the table and reloads.     *)
(*                                                                         *)
(* loadPromise makes a request that comes while a load is under way wait   *)
(* for that load, and a load that fails is never cleared from it.  One     *)
(* tool, edited by several requests at once; the time-out of the tool is   *)
(* part of the same row and left out.                                      *)
(***************************************************************************)
EXTENDS Naturals

CONSTANTS Put,             \* requests of PUT /tiers/:toolName
          MaxTierErrors    \* bound: queries that fail

ASSUME TiersAssumption == MaxTierErrors \in Nat

Tier == {"green", "yellow", "red"}

VARIABLES tierRow,      \* tool_tier_config
          tier,         \* what getTier answers
          load,         \* the query of the load under way: "none", "sent" or "read"
          rowRead,      \* what it read
          loadPromise,  \* "none", "pending" or "rejected"
          put,          \* where each request is
          late,         \* history: requests that joined the last load after it had read
          tierErrors

tierVars == <<tierRow, tier, load, rowRead, loadPromise, put, late, tierErrors>>

TierInit ==
  /\ tierRow \in Tier /\ tier = tierRow /\ rowRead = tierRow
  /\ load = "none" /\ loadPromise = "none"
  /\ put = [q \in Put |-> "idle"]
  /\ late = {} /\ tierErrors = 0

\* upsertToolTierConfig
WriteTier(q) ==
  /\ put[q] \in {"idle", "answered", "failed"}
  /\ tierRow' \in Tier
  /\ put' = [put EXCEPT ![q] = "written"]
  /\ late' = late \ {q}
  /\ UNCHANGED <<tier, load, rowRead, loadPromise, tierErrors>>

\* reload: the promise that is kept is awaited, settled or not.
StartLoad(q) ==
  /\ put[q] = "written" /\ loadPromise = "none"
  /\ load' = "sent" /\ loadPromise' = "pending"
  /\ put' = [put EXCEPT ![q] = "waiting"]
  /\ late' = {}
  /\ UNCHANGED <<tierRow, tier, rowRead, tierErrors>>

JoinLoad(q) ==
  /\ put[q] = "written" /\ loadPromise = "pending"
  /\ put' = [put EXCEPT ![q] = "waiting"]
  /\ late' = IF load = "read" THEN late \cup {q} ELSE late
  /\ UNCHANGED <<tierRow, tier, load, rowRead, loadPromise, tierErrors>>

ReloadRejected(q) ==
  /\ put[q] = "written" /\ loadPromise = "rejected"
  /\ put' = [put EXCEPT ![q] = "failed"]
  /\ UNCHANGED <<tierRow, tier, load, rowRead, loadPromise, late, tierErrors>>

\* The database answers listToolTierConfigs with the table of that moment.
ReadTiers ==
  /\ load = "sent"
  /\ rowRead' = tierRow /\ load' = "read"
  /\ UNCHANGED <<tierRow, tier, loadPromise, put, late, tierErrors>>

\* Those that wait for the load go on.
SettlePuts(outcome) ==
  put' = [q \in Put |-> IF put[q] = "waiting" THEN outcome ELSE put[q]]

\* Mutant: a map that is in place already is kept.
LoadedBefore ==
  /\ load = "read"
  /\ load' = "none" /\ loadPromise' = "none"
  /\ SettlePuts("answered")
  /\ UNCHANGED <<tierRow, tier, rowRead, late, tierErrors>>

\* The answer arrives: the new map replaces the old one, loadPromise is cleared.
TiersLoaded ==
  /\ load = "read"
  /\ tier' = rowRead
  /\ load' = "none" /\ loadPromise' = "none"
  /\ SettlePuts("answered")
  /\ UNCHANGED <<tierRow, rowRead, late, tierErrors>>

\* The query fails: reload throws before it clears loadPromise.
LoadFails ==
  /\ load # "none"
  /\ tierErrors < MaxTierErrors /\ tierErrors' = tierErrors + 1
  /\ load' = "none" /\ loadPromise' = "rejected"
  /\ SettlePuts("failed")
  /\ UNCHANGED <<tierRow, tier, rowRead, late>>

TierStep == ReadTiers \/ TiersLoaded \/ \E q \in Put : StartLoad(q) \/ JoinLoad(q) \/ ReloadRejected(q)

TierNext == TierStep \/ LoadFails \/ \E q \in Put : WriteTier(q)

TierSpec == TierInit /\ [][TierNext]_tierVars

----------------------------------------------------------------------------
\* "Reload in-memory cache so change takes effect immediately": when every
\* request has been answered, calls see the tier of the table, whatever order
\* the writes, the loads and the joins came in.  Only what a request wrote that
\* joined the last load after its query had read may be missing from memory, until
\* something is loaded again.
TakesEffect ==
  (\A q \in Put : put[q] \in {"idle", "answered"}) /\ late = {} => tier = tierRow
=============================================================================
