------------------------ MODULE HealthRecoveryProofs -----------------------
(***************************************************************************)
(* Proofs about HealthRecovery, for any number of monitors, any threshold  *)
(* and any number of operator requests.                                    *)
(***************************************************************************)
EXTENDS HealthRecovery, TLAPS

(* Outside of "mark" the count is below the threshold.                     *)
Counting == \A w \in Monitors : step[w] # "mark" => misses[w] < Threshold
TypeInv == TypeOK /\ Counting

(* A write of the status that is among the known ones keeps its types.     *)
LEMMA WriteTypes ==
  ASSUME TypeOK, NEW s \in Statuses, NEW b \in BOOLEAN, Write(s, b)
  PROVE  /\ status' = s /\ marked' \in BOOLEAN
         /\ marked' => s = "UNHEALTHY" /\ b
  BY DEF TypeOK, Write

(* What the operator, the container and the host disk do leaves the        *)
(* monitors and their recoveries as they are; none of it leaves a tenant   *)
(* UNHEALTHY by a monitor that was not.                                    *)
Untouched == UNCHANGED <<attempted, monitorVars, faults, historyVars>>
LEMMA OutsideEffect ==
  ASSUME TypeOK, OperatorStep \/ ContainerChanges \/ HostDiskFull
  PROVE  TypeOK' /\ Untouched /\ (marked' => marked /\ status' = status)
<1> USE RecoveryAssumption DEF Untouched
<1>1. ASSUME NEW s \in Statuses, OperatorSets(s)
      PROVE  /\ status' \in Statuses /\ marked' = FALSE
             /\ UNCHANGED container /\ Untouched
  BY <1>1, WriteTypes DEF OperatorSets
<1>2. CASE MarkStopped \/ MarkActive
  <2>1. ops' \in 0 .. MaxOps /\ deleted' \in BOOLEAN /\ op' = "none"
    BY <1>2 DEF MarkStopped, MarkActive, TypeOK
  <2> QED BY <1>1, <1>2, <2>1 DEF MarkStopped, MarkActive, TypeOK, monitorVars, historyVars, Statuses
<1>3. CASE StartTenant \/ DeleteTenant
  <2>1. /\ ops' \in 0 .. MaxOps /\ deleted' \in BOOLEAN
        /\ op' \in {"run", "launch", "remove"}
    BY <1>3 DEF StartTenant, DeleteTenant, Request, TypeOK
  <2> QED BY <1>1, <1>3, <2>1 DEF StartTenant, DeleteTenant, TypeOK, monitorVars, historyVars, Statuses
<1>4. CASE StopTenant
  <2>1. ops' \in 0 .. MaxOps /\ deleted' \in BOOLEAN /\ op' = "markStopped"
    BY <1>4 DEF StopTenant, Request, TypeOK
  <2>2. container' \in {"well", "ill", "stopped", "none"}
    BY <1>4 DEF StopTenant, TypeOK
  <2> QED BY <1>4, <2>1, <2>2 DEF StopTenant, TypeOK, monitorVars, historyVars, statusVars
<1>5. CASE Launch \/ Poll \/ RemoveContainer
  <2>1. /\ op' \in {"none", "poll", "markActive"}
        /\ container' \in {"well", "ill", "stopped", "none"} /\ deleted' \in BOOLEAN
    BY <1>5 DEF Launch, Poll, RemoveContainer, Started, TypeOK
  <2>2. UNCHANGED <<statusVars, attempted, monitorVars, ops, faults, historyVars>>
    BY <1>5 DEF Launch, Poll, RemoveContainer
  <2> QED BY <2>1, <2>2 DEF TypeOK, statusVars, monitorVars, historyVars
<1>6. CASE ContainerChanges
  BY <1>6 DEF ContainerChanges, TypeOK, statusVars, monitorVars, opVars, historyVars
<1>7. CASE HostDiskFull
  <2>1. status' = "UNHEALTHY" /\ marked' = FALSE
    BY <1>7 DEF HostDiskFull, Write
  <2> QED BY <1>7, <2>1 DEF HostDiskFull, TypeOK, monitorVars, opVars, historyVars, Statuses
<1> QED BY <1>2, <1>3, <1>4, <1>5, <1>6, <1>7 DEF OperatorStep

(* A restart ends the monitors that are at work, and writes no UNHEALTHY.  *)
LEMMA RestartEffect ==
  ASSUME TypeOK, Restart
  PROVE  /\ step' = [w \in Monitors |-> IF Working(w) THEN "ended" ELSE step[w]]
         /\ misses' = [w \in Monitors |-> 0]
         /\ UNCHANGED <<attempted, container, kind, ops, deleted, historyVars>>
         /\ faults' \in 0 .. MaxFaults /\ faults' > 0
         /\ op' \in {"none", "poll"}
         /\ status' \in Statuses /\ marked' \in BOOLEAN
<1>1. /\ step' = [w \in Monitors |-> IF Working(w) THEN "ended" ELSE step[w]]
      /\ misses' = [w \in Monitors |-> 0]
      /\ UNCHANGED <<attempted, container, kind, ops, deleted, historyVars>>
      /\ op' \in {"none", "poll"}
  BY DEF Restart
<1>2. faults' \in 0 .. MaxFaults /\ faults' > 0
  BY RecoveryAssumption DEF Restart, Fault, TypeOK
<1>3. \/ \E s \in {"FAILED", "NEW", "STOPPED"} : Write(s, FALSE)
      \/ UNCHANGED statusVars
  BY DEF Restart
<1>4. status' \in Statuses /\ marked' \in BOOLEAN
  BY <1>3, WriteTypes DEF statusVars, TypeOK, Statuses
<1> QED BY <1>1, <1>2, <1>4

(* A monitor's step moves that monitor only, and to a known step.          *)
LEMMA MoveEffect ==
  ASSUME TypeInv, NEW w \in Monitors, Begin(w) \/ MonitorStep(w) \/ MonitorFails(w)
  PROVE  /\ step' \in [Monitors -> Steps]
         /\ \A v \in Monitors \ {w} : step'[v] = step[v] /\ misses'[v] = misses[v]
         /\ misses' \in [Monitors -> 0 .. Threshold]
         /\ step'[w] # "mark" => misses'[w] < Threshold
         /\ kind' = kind /\ opVars' = opVars
<1> USE RecoveryAssumption DEF TypeInv, GoTo, At
<1>1. CASE Begin(w) \/ Look(w) \/ Gate(w) \/ Claim(w) \/ StartContainer(w) \/ Await(w) \/ Activate(w)
  <2>1. misses' = misses /\ kind' = kind /\ opVars' = opVars
    BY <1>1 DEF Begin, Look, Gate, Claim, StartContainer, Await, Activate
  <2>2. PICK s \in Steps \ {"mark"} : step' = [step EXCEPT ![w] = s]
    BY <1>1 DEF Begin, Look, Gate, Claim, StartContainer, Await, Activate, Steps
  <2>3. step[w] # "mark"
    BY <1>1 DEF Begin, Look, Gate, Claim, StartContainer, Await, Activate
  <2> QED BY <2>1, <2>2, <2>3 DEF TypeOK, Counting, Steps
<1>2. CASE CheckSucceeds(w) \/ MarkUnhealthy(w) \/ MonitorFails(w)
  <2>1. misses' = [misses EXCEPT ![w] = 0] /\ kind' = kind /\ opVars' = opVars
    BY <1>2 DEF CheckSucceeds, MarkUnhealthy, MonitorFails
  <2>2. PICK s \in Steps \ {"mark"} : step' = [step EXCEPT ![w] = s]
    BY <1>2 DEF CheckSucceeds, MarkUnhealthy, MonitorFails, NextRound, Steps
  <2> QED BY <2>1, <2>2 DEF TypeOK, Steps
<1>3. CASE CheckFails(w)
  <2>1. misses' = [misses EXCEPT ![w] = misses[w] + 1] /\ kind' = kind /\ opVars' = opVars
    BY <1>3 DEF CheckFails, Misses
  <2>2. misses[w] < Threshold /\ misses[w] \in 0 .. Threshold
    BY <1>3 DEF CheckFails, Counting, TypeOK
  <2>3. \/ misses[w] + 1 >= Threshold /\ step' = [step EXCEPT ![w] = "mark"]
        \/ misses[w] + 1 < Threshold
           /\ step' = [step EXCEPT ![w] = IF kind[w] = "loop" THEN "look" ELSE "check"]
    BY <1>3, <2>2 DEF CheckFails, GivesUp, Misses, NextRound
  <2>4. misses[w] + 1 \in 0 .. Threshold
    BY <2>2
  <2> QED BY <2>1, <2>2, <2>3, <2>4 DEF TypeOK, Steps
<1> QED BY <1>1, <1>2, <1>3 DEF MonitorStep

(* The rest of what a monitor may write.                                   *)
LEMMA WriteEffect ==
  ASSUME TypeInv, NEW w \in Monitors, Begin(w) \/ MonitorStep(w) \/ MonitorFails(w)
  PROVE  /\ status' \in Statuses /\ marked' \in BOOLEAN
         /\ attempted' \in BOOLEAN /\ container' \in {"well", "ill", "stopped", "none"}
         /\ faults' \in 0 .. MaxFaults
         /\ recovered' \subseteq Monitors /\ recovered \subseteq recovered'
         /\ raced' \in BOOLEAN
<1> USE RecoveryAssumption DEF TypeInv, TypeOK
<1>1. CASE Begin(w) \/ Look(w) \/ CheckSucceeds(w) \/ CheckFails(w) \/ Await(w)
  BY <1>1 DEF Begin, Look, CheckSucceeds, CheckFails, Await, statusVars, historyVars
<1>2. CASE MarkUnhealthy(w) \/ Activate(w)
  <2>1. \E s \in {"UNHEALTHY", "ACTIVE"} : Write(s, TRUE)
    BY <1>2 DEF MarkUnhealthy, Activate
  <2>2. status' \in Statuses /\ marked' \in BOOLEAN
    BY <2>1, WriteTypes DEF Statuses
  <2> QED BY <1>2, <2>2 DEF MarkUnhealthy, Activate, historyVars
<1>3. CASE Gate(w)
  <2>1. raced' \in BOOLEAN
    BY <1>3 DEF Gate
  <2> QED BY <1>3, <2>1 DEF Gate, statusVars
<1>4. CASE Claim(w)
  BY <1>4 DEF Claim, statusVars, historyVars
<1>5. CASE StartContainer(w)
  BY <1>5 DEF StartContainer, Started, statusVars
<1>6. CASE MonitorFails(w)
  BY <1>6 DEF MonitorFails, Fault, statusVars, historyVars
<1> QED BY <1>1, <1>2, <1>3, <1>4, <1>5, <1>6 DEF MonitorStep

(* The types, for every threshold: no monitor counts beyond it.            *)
THEOREM RecoveryTypes == Spec => []TypeInv
<1>1. Init => TypeInv
  <2> SUFFICES ASSUME Init PROVE TypeInv
    OBVIOUS
  <2>1. step \in [Monitors -> Steps] /\ status \in Statuses
    BY DEF Init, Steps, Statuses
  <2>2. misses \in [Monitors -> 0 .. Threshold] /\ Counting /\ ops \in 0 .. MaxOps
        /\ faults \in 0 .. MaxFaults
    BY RecoveryAssumption DEF Init, Counting
  <2>3. recovered \subseteq Monitors
    BY DEF Init
  <2>4. /\ attempted \in BOOLEAN /\ raced \in BOOLEAN /\ deleted \in BOOLEAN
        /\ marked \in BOOLEAN
    BY DEF Init
  <2>5. /\ container \in {"well", "ill", "stopped", "none"} /\ kind \in [Monitors -> Kinds]
        /\ op \in {"none", "markStopped", "run", "launch", "poll", "markActive", "remove"}
    BY DEF Init
  <2> QED BY <2>1, <2>2, <2>3, <2>4, <2>5 DEF TypeInv, TypeOK
<1>2. TypeInv /\ [Next]_vars => TypeInv'
  <2> SUFFICES ASSUME TypeInv, [Next]_vars PROVE TypeInv'
    OBVIOUS
  <2>1. ASSUME NEW w \in Monitors, Begin(w) \/ MonitorStep(w) \/ MonitorFails(w)
        PROVE  TypeInv'
    BY <2>1, MoveEffect, WriteEffect DEF TypeInv, TypeOK, Counting, opVars
  <2>2. CASE OperatorStep \/ ContainerChanges \/ HostDiskFull
    BY <2>2, OutsideEffect DEF TypeInv, Counting, Untouched, monitorVars
  <2>3. CASE Restart
    <3>1. step' \in [Monitors -> Steps] /\ misses' \in [Monitors -> 0 .. Threshold] /\ Counting'
      BY <2>3, RestartEffect, RecoveryAssumption DEF TypeInv, TypeOK, Counting, Steps
    <3> QED BY <2>3, <3>1, RestartEffect DEF TypeInv, TypeOK, historyVars
  <2>4. CASE UNCHANGED vars
    BY <2>4 DEF vars, statusVars, monitorVars, opVars, historyVars, TypeInv, TypeOK, Counting
  <2> QED BY <2>1, <2>2, <2>3, <2>4 DEF Next
<1> QED BY <1>1, <1>2, PTL DEF Spec

THEOREM RecoveryTypeCorrect == Spec => []TypeOK
<1>1. TypeInv => TypeOK
  BY DEF TypeInv
<1> QED BY <1>1, RecoveryTypes, PTL

-----------------------------------------------------------------------------
(* Monitor w keeps recovery_attempted_at and has read it unset.            *)
Chosen(w) == kind[w] # "loop" /\ (step[w] \in {"claim", "start"} \/ w \in recovered)

(* One of them that has called docker start, or is about to, has set it;   *)
(* and unless two have raced there is one at most from the reading on.     *)
OnceInv ==
  /\ \A w \in Monitors : kind[w] # "loop" /\ (step[w] = "start" \/ w \in recovered) => attempted
  /\ raced \/ \A v, w \in Monitors : Chosen(v) /\ Chosen(w) => v = w

LEMMA OnceStep ==
  ASSUME TypeInv, OnceInv, [Next]_vars
  PROVE  OnceInv'
<1> USE DEF TypeInv, TypeOK, Chosen, GoTo, At
<1>1. ASSUME NEW w \in Monitors, Gate(w)
      PROVE  OnceInv'
  <2>1. UNCHANGED <<attempted, recovered, kind>>
    BY <1>1 DEF Gate
  <2>2. CASE MayRecover(w)
    <3>1. ~attempted /\ step' = [step EXCEPT ![w] = "claim"]
          /\ raced' = (raced \/ \E v \in Monitors : step[v] = "claim")
      BY <1>1, <2>2 DEF Gate, MayRecover
    <3>2. raced' \/ \A v \in Monitors \ {w} : ~Chosen(v)
      BY <3>1 DEF OnceInv
    <3> QED BY <2>1, <3>1, <3>2 DEF OnceInv
  <2>3. CASE ~MayRecover(w)
    <3>1. step' = [step EXCEPT ![w] = "ended"] /\ UNCHANGED raced
      BY <1>1, <2>3 DEF Gate
    <3> QED BY <2>1, <3>1 DEF OnceInv
  <2> QED BY <2>2, <2>3
<1>2. ASSUME NEW w \in Monitors, Claim(w)
      PROVE  OnceInv'
  <2>1. /\ step[w] = "claim" /\ step' = [step EXCEPT ![w] = "start"] /\ attempted' = TRUE
        /\ UNCHANGED <<recovered, kind, raced>>
    BY <1>2 DEF Claim, historyVars
  <2>2. \A v \in Monitors : Chosen(v)' => Chosen(v)
    BY <2>1
  <2> QED BY <2>1, <2>2 DEF OnceInv
<1>3. ASSUME NEW w \in Monitors, StartContainer(w)
      PROVE  OnceInv'
  <2>1. /\ step[w] = "start" /\ \E s \in {"await", "ended"} : step' = [step EXCEPT ![w] = s]
        /\ recovered' = recovered \cup {w} /\ UNCHANGED <<attempted, kind, raced>>
    BY <1>3 DEF StartContainer
  <2>2. \A v \in Monitors : Chosen(v)' => Chosen(v)
    BY <2>1
  <2> QED BY <2>1, <2>2 DEF OnceInv
<1>4. ASSUME NEW w \in Monitors, MarkUnhealthy(w)
      PROVE  OnceInv'
  <2>1. /\ step' = [step EXCEPT ![w] = IF kind[w] = "loop" THEN "start" ELSE "gate"]
        /\ UNCHANGED <<attempted, kind, recovered, raced>>
    BY <1>4 DEF MarkUnhealthy, historyVars
  <2>2. \A v \in Monitors : Chosen(v)' => Chosen(v)
    BY <2>1
  <2> QED BY <2>1, <2>2 DEF OnceInv
<1>5. ASSUME NEW w \in Monitors,
             Begin(w) \/ Look(w) \/ CheckSucceeds(w) \/ CheckFails(w)
             \/ Await(w) \/ Activate(w) \/ MonitorFails(w)
      PROVE  OnceInv'
  <2>1. PICK s \in Steps \ {"claim", "start"} : step' = [step EXCEPT ![w] = s]
    BY <1>5 DEF Begin, Look, CheckSucceeds, CheckFails, Await, Activate, MonitorFails, NextRound, Steps
  <2>2. UNCHANGED <<attempted, kind, recovered, raced>>
    BY <1>5 DEF Begin, Look, CheckSucceeds, CheckFails, Await, Activate, MonitorFails, historyVars
  <2>3. \A v \in Monitors : Chosen(v)' => Chosen(v)
    BY <2>1, <2>2
  <2> QED BY <2>1, <2>2, <2>3 DEF OnceInv
<1>6. CASE OperatorStep \/ ContainerChanges \/ HostDiskFull
  BY <1>6, OutsideEffect DEF OnceInv, Untouched, monitorVars, historyVars
<1>7. CASE Restart
  <2>1. /\ \A w \in Monitors : step'[w] = step[w] \/ step'[w] = "ended"
        /\ UNCHANGED <<attempted, kind, recovered, raced>>
    BY <1>7, RestartEffect DEF historyVars
  <2>2. \A v \in Monitors : Chosen(v)' => Chosen(v)
    BY <2>1
  <2> QED BY <2>1, <2>2 DEF OnceInv
<1>8. CASE UNCHANGED vars
  BY <1>8 DEF vars, monitorVars, historyVars, OnceInv
<1> QED BY <1>1, <1>2, <1>3, <1>4, <1>5, <1>6, <1>7, <1>8 DEF Next, MonitorStep

(* However many monitors of each kind there are: two of the kinds that     *)
(* keep recovery_attempted_at call docker start only if both read it       *)
(* before either wrote it.                                                 *)
THEOREM RecoversOnceUnlessRaced == Spec => []RecoversOnce
<1>1. Init => OnceInv
  BY DEF Init, OnceInv, Chosen
<1>2. TypeInv /\ OnceInv /\ [Next]_vars => OnceInv'
  BY OnceStep
<1>3. TypeInv /\ OnceInv => RecoversOnce
  BY DEF TypeInv, TypeOK, OnceInv, Chosen, RecoversOnce
<1> QED BY <1>1, <1>2, <1>3, RecoveryTypes, PTL DEF Spec

-----------------------------------------------------------------------------
(* Before any fault: whoever has claimed the recovery is about to call     *)
(* docker start, and whoever has marked the tenant is on its way there or  *)
(* finds that another has been.                                            *)
TriedInv ==
  faults = 0 /\ recovered = {} =>
    /\ attempted => \E w \in Monitors : step[w] = "start"
    /\ status = "UNHEALTHY" /\ marked =>
         \E w \in Monitors : step[w] \in {"gate", "claim", "start"}

LEMMA TriedStep ==
  ASSUME TypeInv, TriedInv, [Next]_vars
  PROVE  TriedInv'
<1> USE DEF TypeInv, TypeOK, GoTo, At
<1> SUFFICES ASSUME faults' = 0, recovered' = {} PROVE TriedInv'
  BY DEF TriedInv
<1>1. ASSUME NEW w \in Monitors, Gate(w)
      PROVE  TriedInv'
  <2>1. UNCHANGED <<attempted, status, marked, faults, recovered>> /\ step[w] = "gate"
    BY <1>1 DEF Gate, statusVars
  <2>2. CASE MayRecover(w)
    <3>1. ~attempted /\ step' = [step EXCEPT ![w] = "claim"]
      BY <1>1, <2>2 DEF Gate, MayRecover
    <3> QED BY <2>1, <3>1 DEF TriedInv
  <2>3. CASE ~MayRecover(w)
    <3>1. step' = [step EXCEPT ![w] = "ended"] /\ (attempted \/ status # "UNHEALTHY")
      BY <1>1, <2>3 DEF Gate, MayRecover
    <3>2. attempted => \E v \in Monitors \ {w} : step[v] = "start"
      BY <2>1 DEF TriedInv
    <3> QED BY <2>1, <3>1, <3>2 DEF TriedInv
  <2> QED BY <2>2, <2>3
<1>2. ASSUME NEW w \in Monitors, Claim(w) \/ MarkUnhealthy(w)
      PROVE  TriedInv'
  <2>1. /\ \/ step[w] = "claim" /\ step' = [step EXCEPT ![w] = "start"]
           \/ /\ step[w] = "mark" /\ UNCHANGED attempted
              /\ \E s \in {"gate", "start"} : step' = [step EXCEPT ![w] = s]
        /\ UNCHANGED <<faults, recovered>>
    BY <1>2 DEF Claim, MarkUnhealthy, historyVars
  <2> QED BY <2>1 DEF TriedInv
<1>3. ASSUME NEW w \in Monitors, StartContainer(w)
      PROVE  FALSE
  BY <1>3 DEF StartContainer
<1>4. ASSUME NEW w \in Monitors,
             Begin(w) \/ Look(w) \/ CheckSucceeds(w) \/ CheckFails(w) \/ Await(w) \/ Activate(w)
      PROVE  TriedInv'
  <2>1. /\ UNCHANGED <<attempted, faults, recovered>>
        /\ UNCHANGED <<status, marked>> \/ status' = "ACTIVE"
    BY <1>4 DEF Begin, Look, CheckSucceeds, CheckFails, Await, Activate, Write, statusVars, historyVars
  <2>2. step[w] \notin {"gate", "claim", "start"} /\ \A v \in Monitors \ {w} : step'[v] = step[v]
    BY <1>4 DEF Begin, Look, CheckSucceeds, CheckFails, Await, Activate, NextRound
  <2> QED BY <2>1, <2>2 DEF TriedInv
<1>5. ASSUME NEW w \in Monitors, MonitorFails(w)
      PROVE  FALSE
  BY <1>5 DEF MonitorFails, Fault
<1>6. CASE OperatorStep \/ ContainerChanges \/ HostDiskFull
  BY <1>6, OutsideEffect DEF TriedInv, Untouched, monitorVars, historyVars
<1>7. CASE Restart
  BY <1>7, RestartEffect
<1>8. CASE UNCHANGED vars
  BY <1>8 DEF vars, statusVars, monitorVars, historyVars, TriedInv
<1> QED BY <1>1, <1>2, <1>3, <1>4, <1>5, <1>6, <1>7, <1>8 DEF Next, MonitorStep

(* Whatever the operator writes over the status meanwhile, and however     *)
(* many monitors there are: a tenant that one of them made UNHEALTHY is    *)
(* not left so without docker start having been called, unless the process *)
(* or a statement failed.                                                  *)
THEOREM UnhealthyAlwaysTried == Spec => []UnhealthyWasTried
<1>1. Init => TriedInv
  BY DEF Init, TriedInv
<1>2. TypeInv /\ TriedInv /\ [Next]_vars => TriedInv'
  BY TriedStep
<1>3. TriedInv => UnhealthyWasTried
  BY DEF TriedInv, UnhealthyWasTried, Working
<1> QED BY <1>1, <1>2, <1>3, RecoveryTypes, PTL DEF Spec

-----------------------------------------------------------------------------
(* Why monitors end                                                        *)

(* The steps monitor w has still to take, at most, while checks fail.      *)
Ahead(w) ==
  CASE At(w, "look") -> 2 * (Threshold - misses[w]) + 7
    [] At(w, "check") -> 2 * (Threshold - misses[w]) + 6
    [] At(w, "mark") -> 6 [] At(w, "gate") -> 5 [] At(w, "claim") -> 4
    [] At(w, "start") -> 3 [] At(w, "await") -> 2 [] At(w, "activate") -> 1
    [] OTHER -> 0

(* Only a check that succeeds sets a monitor back; every other step of it  *)
(* brings it nearer to its end.                                            *)
MonitorsAdvance ==
  [][\A w \in Monitors : Working(w) =>
       \/ UNCHANGED <<step[w], misses[w]>>
       \/ At(w, "check") /\ container = "well" /\ kind[w] # "poll" /\ misses'[w] = 0
       \/ Ahead(w)' < Ahead(w)]_vars

(* Nothing is nearer to the end than the end.                              *)
LEMMA EndedIsNearer ==
  ASSUME TypeInv, NEW w \in Monitors, Working(w), step'[w] = "ended"
  PROVE  Ahead(w)' < Ahead(w)
<1>1. step[w] \in Steps \ {"none", "ended"} /\ misses[w] \in 0 .. Threshold
  BY DEF TypeInv, TypeOK, Working
<1>2. Ahead(w)' = 0
  BY DEF Ahead, At
<1>3. Ahead(w) > 0
  BY <1>1, RecoveryAssumption DEF Ahead, At, Steps
<1> QED BY <1>2, <1>3

LEMMA MonitorAdvances ==
  ASSUME TypeInv, NEW w \in Monitors, MonitorStep(w)
  PROVE  \/ At(w, "check") /\ container = "well" /\ kind[w] # "poll" /\ misses'[w] = 0
         \/ Ahead(w)' < Ahead(w)
<1> USE RecoveryAssumption DEF TypeInv, TypeOK
<1>1. CASE Look(w)
  <2>1. /\ step[w] = "look" /\ step'[w] \in {"check", "ended"} /\ misses'[w] = misses[w]
        /\ misses[w] \in 0 .. Threshold
    BY <1>1 DEF Look, At, GoTo
  <2> QED BY <2>1 DEF Ahead, At
<1>2. CASE CheckSucceeds(w)
  <2>1. /\ step[w] = "check" /\ container = "well" /\ misses'[w] = 0
        /\ kind[w] = "poll" => step'[w] = "activate"
        /\ misses[w] \in 0 .. Threshold
    BY <1>2 DEF CheckSucceeds, At, GoTo
  <2> QED BY <2>1 DEF Ahead, At
<1>3. CASE CheckFails(w)
  <2>1. step[w] = "check" /\ misses[w] \in 0 .. Threshold /\ misses'[w] = misses[w] + 1
        /\ misses[w] < Threshold
    BY <1>3 DEF CheckFails, Misses, At, Counting
  <2>2. step'[w] \in {"look", "check", "mark"}
    BY <1>3 DEF CheckFails, NextRound, GoTo
  <2> QED BY <2>1, <2>2 DEF Ahead, At
<1>4. CASE MarkUnhealthy(w)
  <2>1. step[w] = "mark" /\ step'[w] \in {"start", "gate"}
    BY <1>4 DEF MarkUnhealthy, At, GoTo
  <2> QED BY <2>1 DEF Ahead, At
<1>5. CASE Gate(w) \/ Claim(w)
  <2>1. \/ step[w] = "gate" /\ step'[w] \in {"claim", "ended"}
        \/ step[w] = "claim" /\ step'[w] = "start"
    BY <1>5 DEF Gate, Claim, At, GoTo
  <2> QED BY <2>1 DEF Ahead, At
<1>6. CASE StartContainer(w) \/ Await(w) \/ Activate(w)
  <2>1. \/ step[w] = "start" /\ step'[w] \in {"await", "ended"}
        \/ step[w] = "await" /\ step'[w] \in {"activate", "ended"}
        \/ step[w] = "activate" /\ step'[w] = "ended"
    BY <1>6 DEF StartContainer, Await, Activate, At, GoTo
  <2> QED BY <2>1 DEF Ahead, At
<1> QED BY <1>1, <1>2, <1>3, <1>4, <1>5, <1>6 DEF MonitorStep

(* For any threshold and any number of monitors, whatever operator and     *)
(* container do: a monitor whose checks fail ends after at most            *)
(* 2 * Threshold + 7 steps, since neither the misses it has counted nor    *)
(* its one recovery come again.  MonitorsEnd needs this besides fairness.  *)
THEOREM MonitorsAlwaysAdvance == Spec => MonitorsAdvance
<1> DEFINE Advance(w) ==
      \/ UNCHANGED <<step[w], misses[w]>>
      \/ At(w, "check") /\ container = "well" /\ kind[w] # "poll" /\ misses'[w] = 0
      \/ Ahead(w)' < Ahead(w)
<1>1. ASSUME TypeInv, [Next]_vars, NEW w \in Monitors, Working(w)
      PROVE  Advance(w)
  <2>1. ASSUME NEW v \in Monitors, Begin(v)
        PROVE  Advance(w)
    BY <1>1, <2>1 DEF Begin, Working, At, GoTo, TypeInv, TypeOK
  <2>2. ASSUME NEW v \in Monitors, MonitorStep(v)
        PROVE  Advance(w)
    <3>1. CASE v = w
      BY <1>1, <2>2, <3>1, MonitorAdvances
    <3>2. CASE v # w
      BY <1>1, <2>2, <3>2, MoveEffect
    <3> QED BY <3>1, <3>2
  <2>3. CASE OperatorStep \/ ContainerChanges \/ HostDiskFull
    BY <1>1, <2>3, OutsideEffect DEF TypeInv, Untouched, monitorVars
  <2>4. CASE UNCHANGED vars
    BY <2>4 DEF vars, monitorVars
  <2>5. ASSUME NEW v \in Monitors, MonitorFails(v)
        PROVE  Advance(w)
    <3>1. CASE v = w
      <4>1. step'[w] = "ended"
        BY <1>1, <2>5, <3>1 DEF MonitorFails, GoTo, TypeInv, TypeOK
      <4>2. Ahead(w)' < Ahead(w)
        BY <1>1, <4>1, EndedIsNearer
      <4> QED BY <4>2
    <3>2. CASE v # w
      BY <1>1, <2>5, <3>2, MoveEffect
    <3> QED BY <3>1, <3>2
  <2>6. CASE Restart
    <3>1. step'[w] = "ended"
      BY <1>1, <2>6, RestartEffect DEF TypeInv
    <3> QED BY <1>1, <3>1, EndedIsNearer
  <2> QED BY <1>1, <2>1, <2>2, <2>3, <2>4, <2>5, <2>6 DEF Next
<1>2. TypeInv /\ [Next]_vars => \A w \in Monitors : Working(w) => Advance(w)
  BY <1>1
<1> QED BY <1>2, RecoveryTypes, PTL DEF Spec, MonitorsAdvance
=============================================================================
