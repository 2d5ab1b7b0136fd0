---------------------------- MODULE AlertTriage ----------------------------
(***************************************************************************)
(* The alerts of one analysis: generated by the worker at the end of the   *)
(* run, regenerated by hand through POST /alerts/generate, and triaged by  *)
(* analysts who patch status and priority.                                 *)
(*                                                                         *)
(* Only the worker holds the database lock while it generates.  A manual   *)
(* generation and every patch are sequences of statements that commit one  *)
(* by one: an alert is replaced by a DELETE and an INSERT, and a patch     *)
(* writes what it computed from a row it read earlier.                     *)
(***************************************************************************)
EXTENDS Naturals

CONSTANTS
  Alerts,       \* alert ids: one per group of results, a hash of its key
  Manual,       \* POST /alerts/generate requests that may be in flight
  Worker,       \* the background worker of the analysis
  Patchers,     \* PATCH requests that may be in flight
  Levels,   \* P1..P4
  BasePriority, \* the priority the engine gives an alert
  Asked,        \* statuses analysts ask for
  MaxRestarts   \* bound on process restarts

InProgress == {"ACKNOWLEDGED", "INVESTIGATING", "ESCALATED"}
ACTIVE_STATUSES == {"NEW"} \cup InProgress
INACTIVE_STATUSES == {"RESOLVED", "DISMISSED"}
ALL_VALID_STATUSES == ACTIVE_STATUSES \cup INACTIVE_STATUSES

ASSUME AlertsAssumption == Alerts # {}
ASSUME WorkerAssumption == Worker \notin Manual
ASSUME PriorityAssumption == BasePriority \in [Alerts -> Levels]
ASSUME AskedAssumption == Asked \subseteq ALL_VALID_STATUSES
ASSUME RestartAssumption == MaxRestarts \in Nat

Generators == Manual \cup {Worker}

VARIABLES
  table,    \* table[a]: the row of alert a, if it is there
  at,       \* where each generation is
  todo,     \* alerts it has still to store
  gap,      \* the alert, if any, between its DELETE and its INSERT
  patch,    \* the patch of each request, with the row it has read
  made,     \* history: alerts that have been stored at some time
  cut,      \* history: alerts a restart caught between DELETE and INSERT
  closed,   \* history: alerts that have been resolved or dismissed
  restarts

triageVars == <<table, at, todo, gap, patch, made, cut, closed, restarts>>
generation == <<at, todo, gap>>

\* A row: acked and resolved say whether acknowledged_at and resolved_at are set.
Row == [status: ALL_VALID_STATUSES, priority: Levels,
        acked: BOOLEAN, resolved: BOOLEAN]
NoRow == [status |-> "none"]
Stored(a) == table[a] # NoRow

Idle == [field |-> "none"]
StatusPatch == [field: {"status"}, alert: Alerts, to: Asked, read: Row]
PriorityPatch == [field: {"priority"}, alert: Alerts, to: Levels]

\* The worker keeps the lock from its first statement to its last.
Locked == at[Worker] = "busy"
MayRun(g) == g = Worker \/ ~Locked

\* A request can be sent again, the worker generates once.
Ended(g) == IF g = Worker THEN "done" ELSE "idle"

TriageTypeOK ==
  /\ table \in [Alerts -> Row \cup {NoRow}]
  /\ at \in [Generators -> {"idle", "busy", "done"}]
  /\ todo \in [Generators -> SUBSET Alerts]
  /\ gap \in [Generators -> SUBSET Alerts]
  /\ patch \in [Patchers -> StatusPatch \cup PriorityPatch \cup {Idle}]
  /\ made \subseteq Alerts
  /\ cut \subseteq Alerts
  /\ closed \subseteq Alerts
  /\ restarts \in 0..MaxRestarts

TriageInit ==
  /\ table = [a \in Alerts |-> NoRow]
  /\ at = [g \in Generators |-> "idle"]
  /\ todo = [g \in Generators |-> {}]
  /\ gap = [g \in Generators |-> {}]
  /\ patch = [p \in Patchers |-> Idle]
  /\ made = {}
  /\ cut = {}
  /\ closed = {}
  /\ restarts = 0

-----------------------------------------------------------------------------
(* Plausible bugs, never part of a step. *)

\* The engine clears the whole analysis instead of the one fingerprint.
DeleteOldOfAnalysis(g) ==
  /\ gap[g] = {}
  /\ MayRun(g)
  /\ \E a \in todo[g] :
       /\ table' = [b \in Alerts |-> NoRow]
       /\ gap' = [gap EXCEPT ![g] = {a}]
       /\ todo' = [todo EXCEPT ![g] = @ \ {a}]
  /\ UNCHANGED <<at, patch, made, cut, closed, restarts>>

\* Only the status ACKNOWLEDGED acknowledges.
PatchedOnlyOnAck(read, status) ==
  [status |-> status,
   acked |-> read.acked \/ (read.status = "NEW" /\ status = "ACKNOWLEDGED"),
   resolved |-> \/ status \in INACTIVE_STATUSES
                \/ read.resolved /\ read.status \notin INACTIVE_STATUSES]

\* Reopening forgets to clear resolved_at.
PatchedKeepResolved(read, status) ==
  [status |-> status,
   acked |-> read.acked \/ (read.status = "NEW" /\ status \in InProgress),
   resolved |-> status \in INACTIVE_STATUSES \/ read.resolved]

\* A status patch writes back the whole row it has read.
WriteStatusWholeRow(p) ==
  LET a == patch[p].alert IN
  /\ patch[p].field = "status"
  /\ ~Locked
  /\ table' = [table EXCEPT ![a] = IF @ = NoRow THEN NoRow
                                   ELSE [patch[p].read EXCEPT !.status = patch[p].to]]
  /\ patch' = [patch EXCEPT ![p] = Idle]
  /\ closed' = IF patch[p].to \in INACTIVE_STATUSES THEN closed \cup {a} ELSE closed
  /\ UNCHANGED <<generation, made, cut, restarts>>

\* A status is stored as the analyst typed it.
WriteStatusRaw(p) ==
  /\ patch[p].field = "status"
  /\ ~Locked
  /\ table' = [table EXCEPT ![patch[p].alert] =
                 IF @ = NoRow THEN NoRow ELSE [@ EXCEPT !.status = "resolved"]]
  /\ patch' = [patch EXCEPT ![p] = Idle]
  /\ UNCHANGED <<generation, made, cut, closed, restarts>>

-----------------------------------------------------------------------------
(* Generation: generate_alerts_for_analysis *)

\* The results of the run are read; the groups they form are always the same.
BeginGeneration(g) ==
  /\ at[g] = "idle"
  /\ ~Locked
  /\ at' = [at EXCEPT ![g] = "busy"]
  /\ todo' = [todo EXCEPT ![g] = Alerts]
  /\ UNCHANGED <<table, gap, patch, made, cut, closed, restarts>>

\* insert_alert first deletes the row with the same fingerprint.
DeleteOld(g) ==
  /\ gap[g] = {}
  /\ MayRun(g)
  /\ \E a \in todo[g] :
       /\ table' = [table EXCEPT ![a] = NoRow]
       /\ gap' = [gap EXCEPT ![g] = {a}]
       /\ todo' = [todo EXCEPT ![g] = @ \ {a}]
  /\ UNCHANGED <<at, patch, made, cut, closed, restarts>>

\* The new row starts over: status NEW, the engine's priority, no timestamps.
\* If another generation has stored the alert in the meantime the INSERT
\* violates the key and the exception ends the request.
InsertNew(g) ==
  /\ MayRun(g)
  /\ \E a \in gap[g] :
       \/ /\ ~Stored(a)
          /\ table' = [table EXCEPT ![a] =
                         [status |-> "NEW", priority |-> BasePriority[a],
                          acked |-> FALSE, resolved |-> FALSE]]
          /\ made' = made \cup {a}
          /\ at' = [at EXCEPT ![g] = IF todo[g] = {} THEN Ended(g) ELSE "busy"]
          /\ UNCHANGED todo
       \/ /\ Stored(a)
          /\ at' = [at EXCEPT ![g] = Ended(g)]
          /\ todo' = [todo EXCEPT ![g] = {}]
          /\ UNCHANGED <<table, made>>
  /\ gap' = [gap EXCEPT ![g] = {}]
  /\ UNCHANGED <<patch, cut, closed, restarts>>

-----------------------------------------------------------------------------
(* Triage: PATCH /alerts/{alertId}/status and /priority *)

\* What update_alert_status computes from the row it has read.
Patched(read, status) ==
  [status |-> status,
   acked |-> read.acked \/ (read.status = "NEW" /\ status \in InProgress),
   resolved |-> \/ status \in INACTIVE_STATUSES
                \/ read.resolved /\ read.status \notin INACTIVE_STATUSES]

\* The row is read first; a missing alert ends the request with 404.
ReadForStatus(p) ==
  /\ patch[p] = Idle
  /\ ~Locked
  /\ \E a \in Alerts, s \in Asked :
       /\ Stored(a)
       /\ patch' = [patch EXCEPT ![p] = [field |-> "status", alert |-> a,
                                         to |-> s, read |-> table[a]]]
  /\ UNCHANGED <<table, generation, made, cut, closed, restarts>>

\* The UPDATE touches nothing when the row is gone, and keeps the priority.
WriteStatus(p) ==
  LET a == patch[p].alert
      new == Patched(patch[p].read, patch[p].to)
  IN
  /\ patch[p].field = "status"
  /\ ~Locked
  /\ IF Stored(a)
       THEN /\ table' = [table EXCEPT ![a].status = new.status,
                                      ![a].acked = new.acked,
                                      ![a].resolved = new.resolved]
            /\ closed' = IF new.resolved THEN closed \cup {a} ELSE closed
       ELSE UNCHANGED <<table, closed>>
  /\ patch' = [patch EXCEPT ![p] = Idle]
  /\ UNCHANGED <<generation, made, cut, restarts>>

\* Ensures the alert exists; nothing of the row is kept.
CheckForPriority(p) ==
  /\ patch[p] = Idle
  /\ ~Locked
  /\ \E a \in Alerts, q \in Levels :
       /\ Stored(a)
       /\ patch' = [patch EXCEPT ![p] = [field |-> "priority", alert |-> a, to |-> q]]
  /\ UNCHANGED <<table, generation, made, cut, closed, restarts>>

WritePriority(p) ==
  LET a == patch[p].alert IN
  /\ patch[p].field = "priority"
  /\ ~Locked
  /\ table' = IF Stored(a) THEN [table EXCEPT ![a].priority = patch[p].to] ELSE table
  /\ patch' = [patch EXCEPT ![p] = Idle]
  /\ UNCHANGED <<generation, made, cut, closed, restarts>>

-----------------------------------------------------------------------------
\* Requests and the worker are lost; each statement has committed by itself.
Restart ==
  /\ restarts < MaxRestarts
  /\ restarts' = restarts + 1
  /\ at' = [g \in Generators |-> Ended(g)]
  /\ todo' = [g \in Generators |-> {}]
  /\ gap' = [g \in Generators |-> {}]
  /\ patch' = [p \in Patchers |-> Idle]
  /\ cut' = cut \cup UNION {gap[g] : g \in Generators}
  /\ UNCHANGED <<table, made, closed>>

TriageNext ==
  \/ \E g \in Generators : BeginGeneration(g) \/ DeleteOld(g) \/ InsertNew(g)
  \/ \E p \in Patchers : \/ ReadForStatus(p) \/ WriteStatus(p)
                         \/ CheckForPriority(p) \/ WritePriority(p)
  \/ Restart

TriageSpec == TriageInit /\ [][TriageNext]_triageVars
-----------------------------------------------------------------------------
\* resolved_at is set exactly while an alert is resolved or dismissed, even
\* though a patch computes it from a row that another patch or a regeneration
\* may have replaced before the UPDATE.
ResolvedIffInactive ==
  \A a \in Alerts : Stored(a) =>
    (table[a].resolved <=> table[a].status \in INACTIVE_STATUSES)

\* An alert that is being worked on has been acknowledged, unless it was
\* closed before (reopening does not acknowledge): no order of two patches
\* takes an alert out of NEW without the timestamp.
WorkedOnIsAcknowledged ==
  \A a \in Alerts : Stored(a) /\ table[a].status \in InProgress /\ a \notin closed
                      => table[a].acked

\* Once stored, an alert is missing only while a generation is between the
\* DELETE and the INSERT of that alert, or after a restart that hit there: the
\* one that loses the race for the key never leaves the alert deleted.
NoAlertLost ==
  \A a \in made : \/ Stored(a)
                  \/ a \in cut
                  \/ \E g \in Generators : a \in gap[g]

\* Two analysts do not undo each other's fields: a step that changes the
\* priority of a stored alert leaves its status alone, and the other way round.
FieldsAreIndependent ==
  [][\A a \in Alerts : Stored(a) /\ table'[a] # NoRow =>
       \/ table'[a].priority = table[a].priority
       \/ table'[a] = [table[a] EXCEPT !.priority = table'[a].priority]]_triageVars
=============================================================================
