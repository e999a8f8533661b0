--------------------------- MODULE HealthRecovery --------------------------
(***************************************************************************)
(* The three health monitors of the control plane and the recovery each    *)
(* starts, for one tenant:                                                 *)
(*   "poll"    pollUntilHealthy for a tenant that was ACTIVE, and          *)
(*             attemptAutoRecovery (health-poll.ts, recovery.ts)           *)
(*   "loop"    runHealthMonitor and attemptRecovery (auto-recovery.ts)     *)
(*   "notify"  monitorTenantHealth (health-monitor.ts)                     *)
(* beside an operator who stops, starts and deletes the tenant through the *)
(* endpoints of module TenantLifecycle, the scheduler's check of the host  *)
(* disk, and crashes of the control plane.  All but the last two write the *)
(* status unconditionally.                                                 *)
(***************************************************************************)
EXTENDS Integers

CONSTANTS
  Monitors,   \* monitors started in the tenant's life
  Threshold,  \* consecutive failures that make a tenant UNHEALTHY
  MaxOps,     \* bound on the operator's requests
  MaxFaults   \* bound on crashes and failing statements

ASSUME RecoveryAssumption == Threshold \in Nat \ {0} /\ MaxOps \in Nat /\ MaxFaults \in Nat

VARIABLES
  status,     \* tenants.status
  attempted,  \* recovery_attempted_at is set
  container,  \* the container: "well" answers its health check, "ill" does not
  kind,       \* kind[w]: which of the three w is
  step,       \* step[w]: what monitor w does next
  misses,     \* misses[w]: consecutiveFailures
  op,         \* what the operator's request does next
  ops,        \* requests of the operator so far
  deleted,    \* tenants.deleted_at is set
  faults,     \* crashes and failing statements so far
  recovered,  \* monitors that have called docker start (history)
  marked,     \* UNHEALTHY was last written by a monitor (history)
  raced       \* two recoveries read recovery_attempted_at before either wrote it
              \* (history)

monitorVars == <<kind, step, misses>>
opVars == <<op, ops, deleted>>
statusVars == <<status, marked>>
historyVars == <<recovered, raced>>
vars == <<statusVars, attempted, container, monitorVars, opVars, faults, historyVars>>

Statuses == {"NEW", "ACTIVE", "UNHEALTHY", "STOPPED", "STARTING", "FAILED", "DELETING"}
Kinds == {"poll", "loop", "notify"}
Steps == {"none", "look", "check", "mark", "gate", "claim", "start", "await", "activate", "ended"}

TypeOK ==
  /\ status \in Statuses
  /\ attempted \in BOOLEAN
  /\ container \in {"well", "ill", "stopped", "none"}
  /\ kind \in [Monitors -> Kinds]
  /\ step \in [Monitors -> Steps]
  /\ misses \in [Monitors -> 0 .. Threshold]
  /\ op \in {"none", "markStopped", "run", "launch", "poll", "markActive", "remove"}
  /\ ops \in 0 .. MaxOps /\ deleted \in BOOLEAN
  /\ faults \in 0 .. MaxFaults
  /\ recovered \subseteq Monitors
  /\ marked \in BOOLEAN /\ raced \in BOOLEAN

Init ==
  /\ status = "ACTIVE" /\ attempted = FALSE /\ container = "well"
  /\ kind \in [Monitors -> Kinds]
  /\ step = [w \in Monitors |-> "none"]
  /\ misses = [w \in Monitors |-> 0]
  /\ op = "none" /\ ops = 0 /\ deleted = FALSE /\ faults = 0
  /\ recovered = {} /\ marked = FALSE /\ raced = FALSE

At(w, s) == step[w] = s
GoTo(w, s) == step' = [step EXCEPT ![w] = s]
Working(w) == step[w] \notin {"none", "ended"}

Write(s, byMonitor) ==
  /\ status' = s
  /\ marked' = (s = "UNHEALTHY" /\ byMonitor)

-----------------------------------------------------------------------------
(* Watching                                                                *)

(* Monitors are started for an ACTIVE tenant.                              *)
Begin(w) ==
  /\ At(w, "none") /\ status = "ACTIVE"
  /\ GoTo(w, IF kind[w] = "loop" THEN "look" ELSE "check")
  /\ UNCHANGED <<statusVars, attempted, container, kind, misses, opVars, faults, historyVars>>

StillWatched == status = "ACTIVE"

(* Only runHealthMonitor reads the status, before each check.              *)
Look(w) ==
  /\ At(w, "look")
  /\ GoTo(w, IF StillWatched THEN "check" ELSE "ended")
  /\ UNCHANGED <<statusVars, attempted, container, kind, misses, opVars, faults, historyVars>>

NextRound(w) == GoTo(w, IF kind[w] = "loop" THEN "look" ELSE "check")

(* A check that succeeds ends the poll and resets the other two.           *)
CheckSucceeds(w) ==
  /\ At(w, "check") /\ container = "well"
  /\ misses' = [misses EXCEPT ![w] = 0]
  /\ IF kind[w] = "poll" THEN GoTo(w, "activate") ELSE NextRound(w)
  /\ UNCHANGED <<statusVars, attempted, container, kind, opVars, faults, historyVars>>

(* Mutant: the failures are not counted.                                   *)
MissesNever(w) == misses[w]
Misses(w) == misses[w] + 1

(* Mutant: one failure more than the threshold.                            *)
GivesUpLate(w) == Misses(w) > Threshold
GivesUp(w) == Misses(w) >= Threshold

(* Also a well container can miss the three seconds of a check.            *)
CheckFails(w) ==
  /\ At(w, "check")
  /\ misses' = [misses EXCEPT ![w] = Misses(w)]
  /\ IF GivesUp(w) THEN GoTo(w, "mark") ELSE NextRound(w)
  /\ UNCHANGED <<statusVars, attempted, container, kind, opVars, faults, historyVars>>

-----------------------------------------------------------------------------
(* Recovery                                                                *)

MarkUnhealthy(w) ==
  /\ At(w, "mark")
  /\ Write("UNHEALTHY", TRUE)
  /\ misses' = [misses EXCEPT ![w] = 0]
  /\ GoTo(w, IF kind[w] = "loop" THEN "start" ELSE "gate")
  /\ UNCHANGED <<attempted, container, kind, opVars, faults, historyVars>>

(* Mutants: a tenant is recovered only if it is found ACTIVE; nobody looks *)
(* at recovery_attempted_at.                                               *)
MayRecoverActive(w) == ~attempted /\ (kind[w] = "poll" => status = "ACTIVE")
MayRecoverAgain(w) == kind[w] = "poll" => status = "UNHEALTHY"
MayRecover(w) == ~attempted /\ (kind[w] = "poll" => status = "UNHEALTHY")

(* attemptAutoRecovery reads the row after its cooldown, and the status    *)
(* too; monitorTenantHealth reads the row before its cooldown, and only    *)
(* recovery_attempted_at; attemptRecovery reads nothing.                   *)
Gate(w) ==
  /\ At(w, "gate")
  /\ \/ /\ MayRecover(w) /\ GoTo(w, "claim")
        /\ raced' = (raced \/ \E v \in Monitors : At(v, "claim"))
     \/ ~MayRecover(w) /\ GoTo(w, "ended") /\ UNCHANGED raced
  /\ UNCHANGED <<statusVars, attempted, container, kind, misses, opVars, faults, recovered>>

Claim(w) ==
  /\ At(w, "claim")
  /\ attempted' = TRUE
  /\ GoTo(w, "start")
  /\ UNCHANGED <<statusVars, container, kind, misses, opVars, faults, historyVars>>

(* docker start wants the container to exist, and may fail anyway.         *)
Started == IF container = "stopped" THEN "ill" ELSE container
StartContainer(w) ==
  /\ At(w, "start")
  /\ \/ container # "none" /\ container' = Started /\ GoTo(w, "await")
     \/ UNCHANGED container /\ GoTo(w, "ended")
  /\ recovered' = recovered \cup {w}
  /\ UNCHANGED <<statusVars, attempted, kind, misses, opVars, faults, raced>>

(* The 90 seconds of polling end with a healthy answer or without one.     *)
Await(w) ==
  /\ At(w, "await")
  /\ (container = "well" /\ GoTo(w, "activate")) \/ GoTo(w, "ended")
  /\ UNCHANGED <<statusVars, attempted, container, kind, misses, opVars, faults, historyVars>>

Activate(w) ==
  /\ At(w, "activate")
  /\ Write("ACTIVE", TRUE)
  /\ GoTo(w, "ended")
  /\ UNCHANGED <<attempted, container, kind, misses, opVars, faults, historyVars>>

MonitorStep(w) ==
  \/ Look(w) \/ CheckSucceeds(w) \/ CheckFails(w) \/ MarkUnhealthy(w) \/ Gate(w) \/ Claim(w)
  \/ StartContainer(w) \/ Await(w) \/ Activate(w)

Fault == faults < MaxFaults /\ faults' = faults + 1

(* A statement of a monitor throws, and nobody catches it: the monitor is  *)
(* gone.                                                                   *)
MonitorFails(w) ==
  /\ Working(w) /\ Fault
  /\ GoTo(w, "ended") /\ misses' = [misses EXCEPT ![w] = 0]
  /\ UNCHANGED <<statusVars, attempted, container, kind, opVars, historyVars>>

-----------------------------------------------------------------------------
(* The operator, one request at a time, and the container                  *)

OperatorSets(s) ==
  /\ Write(s, FALSE)
  /\ UNCHANGED <<attempted, container, monitorVars, faults, historyVars>>

Request ==
  /\ op = "none"
  /\ ops < MaxOps /\ ops' = ops + 1
  /\ UNCHANGED deleted

(* docker stop and docker rm are best effort; a deleted tenant can still   *)
(* be stopped and started, but not deleted again.                          *)
StopTenant ==
  /\ Request /\ status # "STOPPED"
  /\ op' = "markStopped"
  /\ UNCHANGED container \/ (container \in {"well", "ill"} /\ container' = "stopped")
  /\ UNCHANGED <<statusVars, attempted, monitorVars, faults, historyVars>>

MarkStopped == op = "markStopped" /\ op' = "none" /\ OperatorSets("STOPPED") /\ UNCHANGED <<ops, deleted>>

StartTenant ==
  /\ Request /\ status \notin {"DELETING", "ACTIVE"}
  /\ op' = IF status = "NEW" THEN "run" ELSE "launch"
  /\ OperatorSets("STARTING")

(* docker run for a NEW tenant, docker start for any other.                *)
Launch ==
  /\ \/ op = "run" /\ container = "none" /\ container' = "ill" /\ op' = "poll"
     \/ op = "launch" /\ container # "none" /\ container' = Started /\ op' = "poll"
     \/ op \in {"run", "launch"} /\ UNCHANGED container /\ op' = "none"
  /\ UNCHANGED <<statusVars, attempted, monitorVars, ops, deleted, faults, historyVars>>

Poll ==
  /\ op = "poll"
  /\ (container = "well" /\ op' = "markActive") \/ op' = "none"
  /\ UNCHANGED <<statusVars, attempted, container, monitorVars, ops, deleted, faults, historyVars>>

MarkActive == op = "markActive" /\ op' = "none" /\ OperatorSets("ACTIVE") /\ UNCHANGED <<ops, deleted>>

DeleteTenant ==
  /\ Request /\ status # "DELETING" /\ ~deleted
  /\ op' = "remove" /\ OperatorSets("DELETING")

RemoveContainer ==
  /\ op = "remove" /\ op' = "none"
  /\ \/ UNCHANGED container
     \/ container \in {"well", "ill"} /\ container' = "stopped"
     \/ container' = "none"
  /\ deleted' = TRUE
  /\ UNCHANGED <<statusVars, attempted, monitorVars, ops, faults, historyVars>>

OperatorStep ==
  \/ StopTenant \/ MarkStopped \/ StartTenant \/ Launch \/ Poll \/ MarkActive
  \/ DeleteTenant \/ RemoveContainer

-----------------------------------------------------------------------------
(* The container, the scheduler and the process                            *)

(* A running container falls ill, recovers or exits.                       *)
ContainerChanges ==
  /\ container \in {"well", "ill"}
  /\ container' \in {"well", "ill", "stopped"} \ {container}
  /\ UNCHANGED <<statusVars, attempted, monitorVars, opVars, faults, historyVars>>

(* checkHostDisk: tenants that are ACTIVE and not deleted, all at once.    *)
HostDiskFull ==
  /\ status = "ACTIVE" /\ ~deleted
  /\ Write("UNHEALTHY", FALSE)
  /\ UNCHANGED <<attempted, container, monitorVars, opVars, faults, historyVars>>

(* The control plane dies, and with it every monitor and request; the next *)
(* boot inspects the containers of STARTING and ACTIVE tenants, where an   *)
(* inspection that fails finds nothing, and polls the STARTING one again.  *)
Restart ==
  /\ Fault
  /\ step' = [w \in Monitors |-> IF Working(w) THEN "ended" ELSE step[w]]
  /\ misses' = [w \in Monitors |-> 0]
  /\ \E found \in {container, "none"} :
       LET running == found \in {"well", "ill"} IN
       /\ op' = IF status = "STARTING" /\ running THEN "poll" ELSE "none"
       /\ \/ status = "STARTING" /\ ~running /\ Write("FAILED", FALSE)
          \/ /\ status = "ACTIVE" /\ ~running
             /\ Write(IF found = "none" THEN "NEW" ELSE "STOPPED", FALSE)
          \/ (status \notin {"STARTING", "ACTIVE"} \/ running) /\ UNCHANGED statusVars
  /\ UNCHANGED <<attempted, container, kind, ops, deleted, historyVars>>

Next ==
  \/ \E w \in Monitors : Begin(w) \/ MonitorStep(w) \/ MonitorFails(w)
  \/ OperatorStep \/ ContainerChanges \/ HostDiskFull \/ Restart

Spec == Init /\ [][Next]_vars

(* The timers and requests of a monitor end.                               *)
FairSpec == Spec /\ \A w \in Monitors : WF_vars(MonitorStep(w))

-----------------------------------------------------------------------------
(* What holds                                                              *)

(* The two kinds of monitor that keep recovery_attempted_at call docker    *)
(* start once in the life of a tenant, however many there are, unless two  *)
(* were between reading and writing it, up to 30 seconds apart, at once.   *)
(* The loop monitor neither reads nor writes it.                           *)
RecoversOnce ==
  \A v, w \in recovered : v = w \/ raced \/ kind[v] = "loop" \/ kind[w] = "loop"

(* A tenant that a monitor has made UNHEALTHY is not left so untried: by   *)
(* the time no monitor is at work docker start has been called at least    *)
(* once, unless the process or a statement has failed.                     *)
UnhealthyWasTried ==
  status = "UNHEALTHY" /\ marked /\ faults = 0 /\ (\A w \in Monitors : ~Working(w)) =>
    recovered # {}

(* A monitor of a container that is not well ends: it has found the tenant *)
(* out of its hands, or gone through one recovery, which is not repeated.  *)
MonitorsEnd == \A w \in Monitors : Working(w) ~> At(w, "ended") \/ container = "well"
=============================================================================
