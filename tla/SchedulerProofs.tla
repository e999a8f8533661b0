-------------------------- MODULE SchedulerProofs --------------------------
(***************************************************************************)
(* Proofs about the scheduler: types, that nobody is in the queue on a     *)
(* wish that has lapsed, and that runs go forward.                         *)
(***************************************************************************)
EXTENDS Scheduler, TLAPS

(* What an update of queued_for_start_at leaves: the others, as they were. *)
LEMMA WithoutOthers ==
  ASSUME TypeOK, NEW t \in Tenants
  PROVE  /\ Without(t) \in Seq(Tenants)
         /\ \A i, j \in 1 .. Len(Without(t)) : i # j => Without(t)[i] # Without(t)[j]
         /\ \A i \in 1 .. Len(Without(t)) : Without(t)[i] # t /\ Queued(Without(t)[i])
<1>1. CASE ~Queued(t)
  BY <1>1 DEF Without, Queued, TypeOK
<1>2. CASE Queued(t)
  <2>1. Place(t) \in 1 .. Len(queue) /\ queue[Place(t)] = t
    BY <1>2 DEF Queued, Place
  <2> DEFINE p == Place(t)
             n == Len(queue) - 1
             From(i) == IF i < p THEN i ELSE i + 1
  <2>2. n \in Nat /\ Len(queue) \in Nat
    BY <2>1 DEF TypeOK
  <2>3. Without(t) = [i \in 1 .. n |-> IF i < p THEN queue[i] ELSE queue[i + 1]]
    BY <1>2 DEF Without
  <2>4. \A i \in 1 .. n : From(i) \in 1 .. Len(queue) /\ From(i) # p /\ Without(t)[i] = queue[From(i)]
    BY <2>1, <2>2, <2>3
  <2>5. \A i, j \in 1 .. n : i # j => From(i) # From(j)
    BY <2>1, <2>2
  <2>6. Without(t) \in Seq(Tenants) /\ Len(Without(t)) = n
    <3> HIDE DEF p
    <3>1. \A i \in 1 .. Len(queue) : queue[i] \in Tenants
      BY DEF TypeOK
    <3>2. Without(t) \in [1 .. n -> Tenants]
      BY <2>2, <2>3, <2>4, <3>1
    <3> QED BY <2>2, <2>3, <3>2
  <2>7. \A i, j \in 1 .. Len(queue) : i # j => queue[i] # queue[j]
    BY DEF TypeOK
  <2> HIDE DEF p, n, From
  <2>8. \A i, j \in 1 .. n : i # j => Without(t)[i] # Without(t)[j]
    BY <2>4, <2>5, <2>7
  <2>9. \A i \in 1 .. n : Without(t)[i] # t /\ Queued(Without(t)[i])
    BY <2>1, <2>4, <2>7 DEF p, Queued
  <2> QED BY <2>6, <2>8, <2>9
<1> QED BY <1>1, <1>2

LEMMA RequeueType ==
  ASSUME TypeOK, NEW t \in Tenants, queue' = Append(Without(t), t)
  PROVE  /\ queue' \in Seq(Tenants)
         /\ \A i, j \in 1 .. Len(queue') : i # j => queue'[i] # queue'[j]
         /\ \A u \in Tenants : Queued(u)' => u = t \/ Queued(u)
<1> DEFINE w == Without(t)
<1>1. w \in Seq(Tenants)
  BY WithoutOthers
<1>2. \A i, j \in 1 .. Len(w) : i # j => w[i] # w[j]
  BY WithoutOthers
<1>3. \A i \in 1 .. Len(w) : w[i] # t /\ Queued(w[i])
  BY WithoutOthers
<1>4. queue' = Append(w, t)
  OBVIOUS
<1> HIDE DEF w
<1>5. queue' \in Seq(Tenants) /\ Len(queue') = Len(w) + 1 /\ Len(w) \in Nat
  BY <1>1, <1>4
<1>6. \A i \in 1 .. Len(queue') : IF i = Len(w) + 1 THEN queue'[i] = t
                                 ELSE i \in 1 .. Len(w) /\ queue'[i] = w[i]
  BY <1>1, <1>4, <1>5
<1>7. \A i, j \in 1 .. Len(queue') : i # j => queue'[i] # queue'[j]
  BY <1>2, <1>3, <1>6
<1>8. \A u \in Tenants : Queued(u)' => u = t \/ Queued(u)
  <2> SUFFICES ASSUME NEW u \in Tenants, NEW i \in 1 .. Len(queue'), queue'[i] = u
               PROVE  u = t \/ Queued(u)
    BY DEF Queued
  <2> QED BY <1>3, <1>6
<1> QED BY <1>5, <1>7, <1>8

(* POST /start changes nobody's being ACTIVE or STOPPED but that of t,     *)
(* which it may take out of STOPPED, and queues t only when it is not      *)
(* ACTIVE.                                                                 *)
LEMMA CallStartEffect ==
  ASSUME TypeOK, NEW t \in Tenants, CallStart(t)
  PROVE  /\ status' \in [Tenants -> Statuses]
         /\ locked' \in [Tenants -> {"free", "held", "left"}] /\ idleFor' = idleFor
         /\ queue' \in Seq(Tenants)
         /\ \A i, j \in 1 .. Len(queue') : i # j => queue'[i] # queue'[j]
         /\ \A u \in Tenants : status'[u] = "STOPPED" => status[u] = "STOPPED"
         /\ \A u \in Tenants : Queued(u)' => Queued(u) \/ u = t
<1>1. CASE UNCHANGED tenantVars
  <2>1. status' = status /\ idleFor' = idleFor /\ queue' = queue /\ locked' = locked
    BY <1>1 DEF tenantVars
  <2>2. \A u \in Tenants : Queued(u)' <=> Queued(u)
    BY <2>1 DEF Queued
  <2>3. queue' \in Seq(Tenants) /\ \A i, j \in 1 .. Len(queue') : i # j => queue'[i] # queue'[j]
    BY <2>1 DEF TypeOK
  <2>4. status \in [Tenants -> Statuses] /\ locked \in [Tenants -> {"free", "held", "left"}]
    BY DEF TypeOK
  <2> QED BY <2>1, <2>2, <2>3, <2>4
<1>2. CASE /\ queue' = Append(Without(t), t)
           /\ locked' = [locked EXCEPT ![t] = "left"]
           /\ UNCHANGED <<status, idleFor>>
  BY <1>2, RequeueType DEF TypeOK
<1>3. CASE /\ status' = [status EXCEPT ![t] = "STARTING"]
           /\ locked' = [locked EXCEPT ![t] = "held"]
           /\ UNCHANGED <<idleFor, queue>>
  <2>1. /\ status' \in [Tenants -> Statuses] /\ locked' \in [Tenants -> {"free", "held", "left"}]
        /\ \A u \in Tenants : status'[u] = "STOPPED" => status[u] = "STOPPED"
    BY <1>3 DEF TypeOK, Statuses
  <2> QED BY <1>3, <2>1 DEF TypeOK, Queued
<1> QED BY <1>1, <1>2, <1>3 DEF CallStart

(* POST /stop leaves t STOPPED, and, unless it was so before, out of the   *)
(* queue, and raced if it is a candidate.                                  *)
LEMMA CallStopEffect ==
  ASSUME TypeOK, NEW t \in Tenants, CallStop(t)
  PROVE  /\ status' = [status EXCEPT ![t] = "STOPPED"]
         /\ locked' = locked /\ idleFor' = idleFor
         /\ talk' \in [Tenants -> {"none", "waiting", "running"}]
         /\ queue' \in Seq(Tenants)
         /\ \A i, j \in 1 .. Len(queue') : i # j => queue'[i] # queue'[j]
         /\ \A u \in Tenants : Queued(u)' => Queued(u) /\ (u # t \/ status[t] = "STOPPED")
         /\ raced \subseteq raced' /\ raced' \subseteq Tenants
         /\ status[t] # "STOPPED" => \A k \in Runs : Candidate(k, t) => t \in raced'
<1>1. CASE status[t] = "STOPPED"
  <2>1. UNCHANGED <<status, idleFor, queue, locked, talk, raced>>
    BY <1>1 DEF CallStop, tenantVars
  <2>2. \A u \in Tenants : Queued(u)' <=> Queued(u)
    BY <2>1 DEF Queued
  <2>3. status = [status EXCEPT ![t] = "STOPPED"]
    BY <1>1 DEF TypeOK
  <2>4. queue' \in Seq(Tenants) /\ \A i, j \in 1 .. Len(queue') : i # j => queue'[i] # queue'[j]
    BY <2>1 DEF TypeOK
  <2>5. talk \in [Tenants -> {"none", "waiting", "running"}] /\ raced \subseteq Tenants
    BY DEF TypeOK
  <2> QED BY <1>1, <2>1, <2>2, <2>3, <2>4, <2>5
<1>2. CASE status[t] # "STOPPED"
  <2>1. /\ queue' = Without(t)
        /\ raced' = IF \E k \in Runs : Candidate(k, t) THEN raced \cup {t} ELSE raced
        /\ StopContainer(t) /\ UNCHANGED <<idleFor, locked>>
    BY <1>2 DEF CallStop
  <2>2. \A u \in Tenants : Queued(u)' => Queued(u) /\ u # t
    <3> SUFFICES ASSUME NEW u \in Tenants, NEW i \in 1 .. Len(queue'), queue'[i] = u
                 PROVE  Queued(u) /\ u # t
      BY DEF Queued
    <3> QED BY <2>1, WithoutOthers
  <2>3. talk' \in [Tenants -> {"none", "waiting", "running"}]
    <3>1. talk' = [talk EXCEPT ![t] = IF @ = "running" THEN "none" ELSE @]
      BY <2>1 DEF StopContainer
    <3>2. talk \in [Tenants -> {"none", "waiting", "running"}]
      BY DEF TypeOK
    <3> QED BY <3>1, <3>2
  <2>4. queue' \in Seq(Tenants) /\ \A i, j \in 1 .. Len(queue') : i # j => queue'[i] # queue'[j]
    BY <2>1, WithoutOthers
  <2>5. status' = [status EXCEPT ![t] = "STOPPED"]
    BY <2>1 DEF StopContainer
  <2>6. /\ raced \subseteq raced' /\ raced' \subseteq Tenants
        /\ \A k \in Runs : Candidate(k, t) => t \in raced'
    BY <2>1 DEF TypeOK
  <2> QED BY <2>1, <2>2, <2>3, <2>4, <2>5, <2>6
<1> QED BY <1>1, <1>2

-----------------------------------------------------------------------------
(* Types                                                                   *)

(* TypeOK in two parts: few steps write the queue.                         *)
QueueType ==
  queue \in Seq(Tenants) /\ \A i, j \in 1 .. Len(queue) : i # j => queue[i] # queue[j]
RestType ==
  /\ status \in [Tenants -> Statuses]
  /\ idleFor \in [Tenants -> Never .. Old]
  /\ locked \in [Tenants -> {"free", "held", "left"}]
  /\ talk \in [Tenants -> {"none", "waiting", "running"}]
  /\ asked \in [Tenants -> BOOLEAN]
  /\ due \in BOOLEAN
  /\ runStep \in [Runs -> {"idle", "stop", "count", "start", "host"}]
  /\ listed \in [Runs -> SUBSET Tenants]
  /\ raced \subseteq Tenants
  /\ requests \in 0 .. MaxRequests
  /\ faults \in 0 .. MaxFaults

LEMMA TypeParts == (TypeOK <=> QueueType /\ RestType) /\ (TypeOK' <=> QueueType' /\ RestType')
  BY DEF TypeOK, QueueType, RestType

LEMMA QueueTypeStays ==
  ASSUME QueueType, UNCHANGED queue
  PROVE  QueueType'
  BY DEF QueueType

LEMMA TypeStep ==
  ASSUME TypeOK, [Next]_vars
  PROVE  TypeOK'
<1> USE SchedulerAssumption DEF tenantVars, userVars, runVars, GoTo, Read
<1>0. QueueType /\ RestType /\ (UNCHANGED queue /\ RestType' => TypeOK')
  BY TypeParts, QueueTypeStays
<1>1. ASSUME NEW t \in Tenants, SendMessage(t) \/ OperatorStarts(t)
      PROVE  TypeOK'
  <2>1. requests' \in 0 .. MaxRequests /\ UNCHANGED <<runVars, raced, due, faults>>
    BY <1>0, <1>1 DEF SendMessage, OperatorStarts, Request, RestType
  <2>2. talk' \in [Tenants -> {"none", "waiting", "running"}] /\ asked' \in [Tenants -> BOOLEAN]
    BY <1>0, <1>1 DEF SendMessage, OperatorStarts, RestType
  <2>3. CASE UNCHANGED tenantVars
    BY <1>0, <2>1, <2>2, <2>3 DEF RestType
  <2>4. CASE CallStart(t)
    <3>1. QueueType' /\ status' \in [Tenants -> Statuses]
          /\ locked' \in [Tenants -> {"free", "held", "left"}] /\ idleFor' = idleFor
      BY <2>4, CallStartEffect DEF QueueType
    <3>2. RestType'
      BY <1>0, <2>1, <2>2, <3>1 DEF RestType
    <3> QED BY <3>1, <3>2, TypeParts
  <2> QED BY <1>1, <2>3, <2>4 DEF SendMessage, OperatorStarts
<1>2. ASSUME NEW t \in Tenants, EndWait(t)
      PROVE  TypeOK'
  BY <1>0, <1>2 DEF EndWait, RestType
<1>3. ASSUME NEW t \in Tenants, EndRun(t)
      PROVE  TypeOK'
  BY <1>0, <1>3 DEF EndRun, RestType, Old, Never
<1>4. ASSUME NEW t \in Tenants, BecomeActive(t)
      PROVE  TypeOK'
  BY <1>0, <1>4 DEF BecomeActive, RestType, Statuses
<1>5. ASSUME NEW t \in Tenants, LockExpires(t) \/ PollGivesUp(t)
      PROVE  TypeOK'
  <2>1. faults' \in 0 .. MaxFaults /\ locked' \in [Tenants -> {"free", "held", "left"}]
    BY <1>0, <1>5 DEF LockExpires, PollGivesUp, Fault, RestType
  <2> QED BY <1>0, <1>5, <2>1 DEF LockExpires, PollGivesUp, RestType
<1>6. ASSUME NEW t \in Tenants, RestartFindsStopped(t)
      PROVE  TypeOK'
  <2>1. faults' \in 0 .. MaxFaults /\ status' \in [Tenants -> Statuses] /\ raced' \subseteq Tenants
    BY <1>0, <1>6 DEF RestartFindsStopped, Fault, RestType, Statuses
  <2> QED BY <1>0, <1>6, <2>1 DEF RestartFindsStopped, RestType
<1>7. ASSUME NEW k \in Runs, ListIdle(k)
      PROVE  TypeOK'
  BY <1>0, <1>7 DEF ListIdle, RestType
<1>8. ASSUME NEW t \in Tenants, CallStop(t),
             UNCHANGED <<asked, runStep, due, faults>>, requests' \in 0 .. MaxRequests,
             listed' \in [Runs -> SUBSET Tenants]
      PROVE  TypeOK'
  <2>1. status' \in [Tenants -> Statuses]
    BY <1>0, <1>8, CallStopEffect DEF RestType, Statuses
  <2>2. RestType'
    BY <1>0, <1>8, <2>1, CallStopEffect DEF RestType
  <2>3. QueueType'
    BY <1>8, CallStopEffect DEF QueueType
  <2> QED BY <2>2, <2>3, TypeParts
<1>9. ASSUME NEW t \in Tenants, OperatorStops(t)
      PROVE  TypeOK'
  <2>1. requests' \in 0 .. MaxRequests
    BY <1>0, <1>9 DEF OperatorStops, Request, RestType
  <2> QED BY <1>0, <1>8, <1>9, <2>1 DEF OperatorStops, RestType, runVars
<1>10. ASSUME NEW k \in Runs, StopNext(k)
      PROVE  TypeOK'
  <2>1. PICK t \in listed[k] :
          /\ listed' = [listed EXCEPT ![k] = listed[k] \ {t}]
          /\ \/ CallStop(t) /\ UNCHANGED faults
             \/ Fault /\ UNCHANGED <<tenantVars, talk, raced>>
    BY <1>10 DEF StopNext
  <2>2. t \in Tenants /\ listed' \in [Runs -> SUBSET Tenants]
    BY <1>0, <2>1 DEF RestType
  <2>3. UNCHANGED <<asked, requests, runStep, due>>
    BY <1>10 DEF StopNext
  <2>4. CASE CallStop(t) /\ UNCHANGED faults
    BY <1>0, <1>8, <2>2, <2>3, <2>4 DEF RestType
  <2>5. CASE Fault /\ UNCHANGED <<tenantVars, talk, raced>>
    BY <1>0, <2>2, <2>3, <2>5 DEF Fault, RestType
  <2> QED BY <2>1, <2>4, <2>5
<1>11. ASSUME NEW k \in Runs, ReadQueue(k) \/ CountActive(k)
      PROVE  TypeOK'
  BY <1>0, <1>11 DEF ReadQueue, CountActive, RestType
<1>14. ASSUME NEW k \in Runs, StartCandidate(k)
      PROVE  TypeOK'
  <2>1. CASE UNCHANGED tenantVars /\ Fault
    BY <1>0, <1>14, <2>1 DEF StartCandidate, Fault, RestType
  <2>2. CASE UNCHANGED faults /\ \E t \in listed[k] : CallStart(t)
    <3>1. PICK t \in listed[k] : CallStart(t)
      BY <2>2
    <3>2. t \in Tenants
      BY <1>0 DEF RestType
    <3> QED BY <1>0, TypeParts, <1>14, <2>2, <3>1, <3>2, CallStartEffect DEF StartCandidate, QueueType, RestType
  <2> QED BY <1>14, <2>1, <2>2 DEF StartCandidate
<1>15. ASSUME NEW k \in Runs, CheckHost(k)
      PROVE  TypeOK'
  <2>1. status' \in [Tenants -> Statuses]
    BY <1>0, <1>15 DEF CheckHost, RestType, Statuses
  <2> QED BY <1>0, <1>15, <2>1 DEF CheckHost, RestType
<1>16. ASSUME NEW k \in Runs, RunFails(k)
      PROVE  TypeOK'
  <2>1. faults' \in 0 .. MaxFaults
    BY <1>0, <1>16 DEF RunFails, Fault, RestType
  <2>2. due' = FALSE \/ due' = due
    BY <1>16 DEF RunFails
  <2>3. due' \in BOOLEAN
    BY <1>0, <2>2 DEF RestType
  <2> QED BY <1>0, <1>16, <2>1, <2>3 DEF RunFails, RestType
<1>12. CASE Tick
  BY <1>0, <1>12 DEF Tick, RestType, Older, Old, Never
<1>13. CASE UNCHANGED vars
  BY <1>0, <1>13 DEF vars, RestType
<1> QED BY <1>1, <1>2, <1>3, <1>4, <1>5, <1>6, <1>7, <1>9, <1>10, <1>11, <1>12, <1>13, <1>14,
           <1>15, <1>16 DEF Next, Run

(* The scheduler keeps its types; in particular no tenant is in the queue  *)
(* twice, however often it is queued again.                                *)
THEOREM SchedulerTypeCorrect == Spec => []TypeOK
<1>1. Init => TypeOK
  <2> SUFFICES ASSUME Init PROVE QueueType /\ RestType
    BY TypeParts
  <2>1. QueueType
    <3>1. PICK n \in Nat : queue \in [1 .. n -> Tenants]
      BY SchedulerAssumption DEF Init, Orders
    <3>2. queue \in Seq(Tenants) /\ DOMAIN queue = 1 .. Len(queue)
      BY <3>1
    <3>3. \A i, j \in DOMAIN queue : queue[i] = queue[j] => i = j
      BY DEF Init, Orders
    <3> QED BY <3>2, <3>3 DEF QueueType
  <2>2. \A t \in Tenants : idleFor[t] \in {Never, 0, Old}
    <3> TAKE t \in Tenants
    <3>1. status[t] = "NEW" \/ status[t] = "ACTIVE" \/ status[t] = "STOPPED"
      BY DEF Init
    <3>2. idleFor[t] = CASE status[t] = "NEW" -> Never [] status[t] = "ACTIVE" -> 0
                         [] status[t] = "STOPPED" -> Old
      BY DEF Init
    <3> QED BY <3>1, <3>2
  <2>3. idleFor \in [Tenants -> Never .. Old]
    <3>1. \A t \in Tenants : idleFor[t] \in Never .. Old
      BY <2>2, SchedulerAssumption DEF Never, Old
    <3>2. idleFor = [t \in Tenants |-> idleFor[t]]
      BY DEF Init
    <3> QED BY <3>1, <3>2
  <2>4. status \in [Tenants -> Statuses]
    BY DEF Init, Statuses
  <2>5. requests \in 0 .. MaxRequests /\ faults \in 0 .. MaxFaults
    BY SchedulerAssumption DEF Init
  <2>6. locked \in [Tenants -> {"free", "held", "left"}] /\ asked \in [Tenants -> BOOLEAN]
        /\ talk \in [Tenants -> {"none", "waiting", "running"}]
    BY DEF Init, Queued
  <2>7. /\ runStep \in [Runs -> {"idle", "stop", "count", "start", "host"}]
        /\ listed \in [Runs -> SUBSET Tenants]
        /\ raced \subseteq Tenants /\ due \in BOOLEAN
    BY DEF Init
  <2> QED BY <2>1, <2>3, <2>4, <2>5, <2>6, <2>7 DEF RestType
<1>2. TypeOK /\ [Next]_vars => TypeOK'
  BY TypeStep
<1> QED BY <1>1, <1>2, PTL DEF Spec

-----------------------------------------------------------------------------
(* Nobody is queued on a wish that has lapsed                              *)

Wished(t) == asked[t] \/ t \in raced
Wishing(t) == Queued(t) \/ \E k \in Runs : Candidate(k, t)

(* A step after which no tenant is STOPPED that was not, none wishes to be *)
(* started that did not, and no wish is forgotten, keeps the invariant.    *)
LEMMA WishKept ==
  ASSUME QueuedWasAsked,
         \A t \in Tenants : status'[t] = "STOPPED" /\ Wishing(t)' =>
            Wished(t)' \/ (status[t] = "STOPPED" /\ Wishing(t) /\ (Wished(t) => Wished(t)'))
  PROVE  QueuedWasAsked'
  BY DEF QueuedWasAsked, Wished, Wishing

LEMMA WishStep ==
  ASSUME TypeOK, QueuedWasAsked, [Next]_vars
  PROVE  QueuedWasAsked'
<1> USE DEF tenantVars, userVars, runVars, Wished, Wishing
<1>0. RestType
  BY TypeParts
<1>1. ASSUME NEW t \in Tenants, CallStart(t), UNCHANGED <<runVars, raced>>,
             asked'[t], \A u \in Tenants \ {t} : asked'[u] = asked[u]
      PROVE  QueuedWasAsked'
  <2>1. \A u \in Tenants, k \in Runs : Candidate(k, u)' <=> Candidate(k, u)
    BY <1>1 DEF Candidate
  <2>2. /\ \A u \in Tenants : status'[u] = "STOPPED" => status[u] = "STOPPED"
        /\ \A u \in Tenants : Queued(u)' => Queued(u) \/ u = t
    BY <1>1, CallStartEffect
  <2>3. ASSUME NEW u \in Tenants, status'[u] = "STOPPED", Wishing(u)'
        PROVE  Wished(u)' \/ (status[u] = "STOPPED" /\ Wishing(u) /\ (Wished(u) => Wished(u)'))
    <3>1. CASE u = t
      BY <1>1, <3>1
    <3>2. CASE u # t
      <4>0. (Queued(u)' => Queued(u)) /\ ((\E k \in Runs : Candidate(k, u)') => \E k \in Runs : Candidate(k, u))
        BY <2>1, <2>2, <3>2
      <4>1. Wishing(u)
        BY <2>3, <4>0
      <4>2. Wished(u) => Wished(u)'
        BY <1>1, <3>2
      <4> QED BY <2>2, <2>3, <4>1, <4>2
    <3> QED BY <3>1, <3>2
  <2> QED BY <2>3, WishKept
<1>2. ASSUME NEW t \in Tenants, SendMessage(t) \/ OperatorStarts(t)
      PROVE  QueuedWasAsked'
  <2>1. CASE UNCHANGED tenantVars
    <3>1. \A u \in Tenants : asked[u] => asked'[u]
      BY <1>0, <1>2 DEF SendMessage, OperatorStarts, RestType
    <3>2. UNCHANGED <<runVars, raced>>
      BY <1>2 DEF SendMessage, OperatorStarts
    <3> QED BY <2>1, <3>1, <3>2, WishKept DEF Queued, Candidate
  <2>2. CASE CallStart(t) /\ status[t] # "ACTIVE"
    BY <1>0, <1>1, <1>2, <2>2 DEF SendMessage, OperatorStarts, RestType
  <2>3. CASE CallStart(t) /\ status[t] = "ACTIVE"
    BY <2>1, <2>3 DEF CallStart
  <2> QED BY <1>2, <2>1, <2>2, <2>3 DEF SendMessage, OperatorStarts
<1>3. ASSUME NEW t \in Tenants, EndWait(t) \/ EndRun(t) \/ LockExpires(t) \/ PollGivesUp(t)
      PROVE  QueuedWasAsked'
  <2>1. UNCHANGED <<status, queue, asked, runVars, raced>>
    BY <1>3 DEF EndWait, EndRun, LockExpires, PollGivesUp
  <2> QED BY <2>1 DEF QueuedWasAsked, Queued, Candidate
<1>4. ASSUME NEW t \in Tenants, BecomeActive(t)
      PROVE  QueuedWasAsked'
  <2>1. /\ status' = [status EXCEPT ![t] = "ACTIVE"] /\ UNCHANGED <<queue, runVars>>
        /\ \A u \in Tenants \ {t} : Wished(u)' = Wished(u)
    BY <1>0, <1>4 DEF BecomeActive, RestType
  <2>2. \A u \in Tenants : status'[u] = "STOPPED" => u # t /\ status[u] = "STOPPED"
    BY <1>0, <2>1 DEF RestType
  <2> QED BY <2>1, <2>2, WishKept DEF Queued, Candidate
<1>5. ASSUME NEW t \in Tenants, RestartFindsStopped(t)
      PROVE  QueuedWasAsked'
  <2>1. /\ raced' = raced \cup {t} /\ UNCHANGED <<queue, asked, runVars>>
        /\ \A u \in Tenants \ {t} : status'[u] = status[u]
    BY <1>0, <1>5 DEF RestartFindsStopped, RestType
  <2> QED BY <2>1, WishKept DEF Queued, Candidate
<1>6. ASSUME NEW t \in Tenants, CallStop(t), UNCHANGED <<asked, runStep>>,
             \A k \in Runs : listed'[k] = listed[k] \/ ~(runStep[k] \in {"count", "start"})
      PROVE  QueuedWasAsked'
  <2>1. \A u \in Tenants, k \in Runs : Candidate(k, u)' <=> Candidate(k, u)
    BY <1>6 DEF Candidate
  <2>2. \A u \in Tenants : Wished(u) => Wished(u)'
    BY <1>6, CallStopEffect
  <2>3. ASSUME NEW u \in Tenants, status'[u] = "STOPPED", Wishing(u)'
        PROVE  Wished(u)' \/ (status[u] = "STOPPED" /\ Wishing(u))
    <3>1. Queued(u)' => Queued(u) /\ (u # t \/ status[t] = "STOPPED")
      BY <1>6, CallStopEffect
    <3>2. u = t \/ status'[u] = status[u]
      BY <1>0, <1>6, CallStopEffect DEF RestType
    <3>3. CASE u # t \/ status[t] = "STOPPED"
      BY <2>1, <2>3, <3>1, <3>2, <3>3
    <3>4. CASE u = t /\ status[t] # "STOPPED"
      <4>1. PICK k \in Runs : Candidate(k, t)
        BY <2>1, <2>3, <3>1, <3>4
      <4> QED BY <1>6, <3>4, <4>1, CallStopEffect
    <3> QED BY <3>3, <3>4
  <2> QED BY <2>2, <2>3, WishKept
<1>7. ASSUME NEW t \in Tenants, OperatorStops(t)
      PROVE  QueuedWasAsked'
  BY <1>6, <1>7 DEF OperatorStops
<1>8. ASSUME NEW k \in Runs, StopNext(k)
      PROVE  QueuedWasAsked'
  <2>1. PICK t \in listed[k] :
          /\ listed' = [listed EXCEPT ![k] = listed[k] \ {t}]
          /\ CallStop(t) \/ UNCHANGED <<tenantVars, raced>>
    BY <1>8 DEF StopNext, Read
  <2>2. runStep[k] = "stop" /\ UNCHANGED <<asked, runStep>> /\ t \in Tenants
    BY <1>0, <1>8 DEF StopNext, At, RestType
  <2>3. \A l \in Runs : listed'[l] = listed[l] \/ ~(runStep[l] \in {"count", "start"})
    BY <1>0, <2>1, <2>2 DEF RestType
  <2>4. CASE UNCHANGED <<tenantVars, raced>>
    BY <2>2, <2>3, <2>4, WishKept DEF Queued, Candidate
  <2> QED BY <1>6, <2>1, <2>2, <2>3, <2>4
<1>9. ASSUME NEW k \in Runs, ReadQueue(k)
      PROVE  QueuedWasAsked'
  <2>1. UNCHANGED <<status, queue, asked, raced>>
    BY <1>9 DEF ReadQueue
  <2>2. \A u \in Tenants, l \in Runs : Candidate(l, u)' => Candidate(l, u) \/ Earliest(u)
    BY <1>0, <1>9 DEF ReadQueue, Candidate, Read, GoTo, RestType
  <2> QED BY <2>1, <2>2, WishKept DEF Queued, Earliest, Queue
<1>10. ASSUME NEW k \in Runs, ListIdle(k) \/ CountActive(k) \/ CheckHost(k) \/ RunFails(k)
      PROVE  QueuedWasAsked'
  <2>1. UNCHANGED <<queue, asked, raced>>
    BY <1>10 DEF ListIdle, CountActive, CheckHost, RunFails
  <2>2. \A u \in Tenants, l \in Runs : Candidate(l, u)' => Candidate(l, u)
    BY <1>0, <1>10 DEF ListIdle, CountActive, CheckHost, RunFails, Candidate, At, Read, GoTo, RestType
  <2>3. \A u \in Tenants : status'[u] = "STOPPED" => status[u] = "STOPPED"
    BY <1>0, <1>10 DEF ListIdle, CountActive, CheckHost, RunFails, RestType
  <2> QED BY <2>1, <2>2, <2>3, WishKept DEF Queued
<1>11. ASSUME NEW k \in Runs, StartCandidate(k)
      PROVE  QueuedWasAsked'
  <2>1. /\ UNCHANGED <<asked, raced>> /\ runStep[k] = "start"
        /\ (\E t \in listed[k] : CallStart(t)) \/ UNCHANGED tenantVars
    BY <1>11 DEF StartCandidate, At
  <2>2. \A u \in Tenants, l \in Runs : Candidate(l, u)' => Candidate(l, u)
    BY <1>0, <1>11 DEF StartCandidate, Candidate, At, Read, GoTo, RestType
  <2>3. CASE UNCHANGED tenantVars
    BY <2>1, <2>2, <2>3, WishKept DEF Queued
  <2>4. ASSUME NEW t \in listed[k], CallStart(t)
        PROVE  QueuedWasAsked'
    <3>1. t \in Tenants /\ Candidate(k, t)
      BY <1>0, <2>1 DEF RestType, Candidate
    <3>2. /\ \A u \in Tenants : status'[u] = "STOPPED" => status[u] = "STOPPED"
          /\ \A u \in Tenants : Queued(u)' => Queued(u) \/ u = t
      BY <2>4, <3>1, CallStartEffect
    <3>3. \A u \in Tenants : Wished(u) => Wished(u)'
      BY <2>1
    <3>4. ASSUME NEW u \in Tenants, Wishing(u)'
          PROVE  Wishing(u)
      <4>1. CASE Queued(u)'
        <5>1. Queued(u) \/ u = t
          BY <3>2, <4>1
        <5> QED BY <3>1, <5>1
      <4>2. CASE \E l \in Runs : Candidate(l, u)'
        BY <2>2, <4>2
      <4> QED BY <3>4, <4>1, <4>2
    <3> HIDE DEF Wished, Wishing
    <3> QED BY <3>2, <3>3, <3>4, WishKept
  <2> QED BY <2>1, <2>3, <2>4
<1>12. CASE Tick
  BY <1>12 DEF Tick, QueuedWasAsked, Queued, Candidate
<1>13. CASE UNCHANGED vars
  BY <1>13 DEF vars, QueuedWasAsked, Queued, Candidate
<1> QED BY <1>2, <1>3, <1>4, <1>5, <1>7, <1>8, <1>9, <1>10, <1>11, <1>12, <1>13 DEF Next, Run

(* Whatever overlaps and whatever fails, every STOPPED tenant that is in   *)
(* the queue or about to be started by a run was asked for since it was    *)
(* last ACTIVE, or lost its place in one of the two races named: for any   *)
(* number of tenants and runs, and any cap.  With the types the property   *)
(* is inductive as it stands.                                              *)
THEOREM QueuedAlwaysAsked == Spec => []QueuedWasAsked
<1>1. Init => QueuedWasAsked
  BY DEF Init, QueuedWasAsked, Queued, Candidate
<1>2. TypeOK /\ QueuedWasAsked /\ [Next]_vars => QueuedWasAsked'
  BY WishStep
<1> QED BY <1>1, <1>2, SchedulerTypeCorrect, PTL DEF Spec

-----------------------------------------------------------------------------
(* A run of the jobs that is under way waits, calls POST /stop for a tenant *)
(* it has read and is done with it, reads its one candidate once no stop   *)
(* is left, goes on to its start, to the disk check, or ends.              *)
RunsAdvance ==
  [][\A k \in Runs : ~At(k, "idle") =>
       \/ UNCHANGED <<runStep[k], listed[k]>>
       \/ /\ At(k, "stop") /\ runStep'[k] = "stop"
          /\ \E t \in listed[k] : listed'[k] = listed[k] \ {t}
       \/ /\ At(k, "stop") /\ runStep'[k] = "count" /\ listed[k] = {}
          /\ \E t \in Tenants : listed'[k] = {t} /\ status[t] = "STOPPED" /\ Queued(t)
       \/ At(k, "count") /\ runStep'[k] = "start" /\ UNCHANGED listed[k]
       \/ ~At(k, "host") /\ runStep'[k] = "host" /\ listed'[k] = {}
       \/ runStep'[k] = "idle" /\ listed'[k] \subseteq listed[k]]_vars

(* Whatever other runs and users do, a run calls /stop at most once for    *)
(* each tenant it has read and /start at most once, for one that was       *)
(* STOPPED and in the queue when it read it: with fairness it ends, which  *)
(* IdleTenantsLeaveActive and QueuedTenantsStart need.                     *)
THEOREM RunsAlwaysAdvance == Spec => RunsAdvance
<1> DEFINE Advance(k) ==
      \/ UNCHANGED <<runStep[k], listed[k]>>
      \/ /\ At(k, "stop") /\ runStep'[k] = "stop"
         /\ \E t \in listed[k] : listed'[k] = listed[k] \ {t}
      \/ /\ At(k, "stop") /\ runStep'[k] = "count" /\ listed[k] = {}
         /\ \E t \in Tenants : listed'[k] = {t} /\ status[t] = "STOPPED" /\ Queued(t)
      \/ At(k, "count") /\ runStep'[k] = "start" /\ UNCHANGED listed[k]
      \/ ~At(k, "host") /\ runStep'[k] = "host" /\ listed'[k] = {}
      \/ runStep'[k] = "idle" /\ listed'[k] \subseteq listed[k]
<1>1. ASSUME TypeOK, [Next]_vars, NEW k \in Runs, ~At(k, "idle")
      PROVE  Advance(k)
  <2>1. ASSUME NEW l \in Runs, ListIdle(l)
        PROVE  Advance(k)
    BY <1>1, <2>1 DEF ListIdle, At, GoTo, Read, TypeOK
  <2>2. ASSUME NEW l \in Runs, StopNext(l)
        PROVE  Advance(k)
    <3>1. PICK t \in listed[l] : listed' = [listed EXCEPT ![l] = listed[l] \ {t}]
      BY <2>2 DEF StopNext, Read
    <3>2. runStep[l] = "stop" /\ UNCHANGED runStep
      BY <2>2 DEF StopNext, At
    <3> QED BY <1>1, <3>1, <3>2 DEF At, TypeOK
  <2>3. ASSUME NEW l \in Runs, ReadQueue(l)
        PROVE  Advance(k)
    <3>1. /\ runStep[l] = "stop" /\ listed[l] = {}
          /\ \/ /\ runStep' = [runStep EXCEPT ![l] = "count"]
                /\ \E t \in Tenants : Earliest(t) /\ listed' = [listed EXCEPT ![l] = {t}]
             \/ runStep' = [runStep EXCEPT ![l] = "host"] /\ UNCHANGED listed
      BY <2>3 DEF ReadQueue, Read, GoTo, At
    <3> QED BY <1>1, <3>1 DEF At, TypeOK, Earliest, Queue
  <2>4. ASSUME NEW l \in Runs, CountActive(l) \/ StartCandidate(l) \/ CheckHost(l) \/ RunFails(l)
        PROVE  Advance(k)
    BY <1>1, <2>4 DEF CountActive, StartCandidate, CheckHost, RunFails, Read, GoTo, At, TypeOK
  <2>5. ASSUME NEW t \in Tenants, \/ SendMessage(t) \/ EndWait(t) \/ EndRun(t) \/ BecomeActive(t)
                                  \/ LockExpires(t) \/ RestartFindsStopped(t) \/ PollGivesUp(t)
                                  \/ OperatorStarts(t) \/ OperatorStops(t)
        PROVE  Advance(k)
    BY <2>5 DEF SendMessage, EndWait, EndRun, BecomeActive, LockExpires, RestartFindsStopped,
       PollGivesUp, OperatorStarts, OperatorStops, runVars
  <2>6. CASE Tick \/ UNCHANGED vars
    BY <2>6 DEF Tick, vars, runVars
  <2> QED BY <1>1, <2>1, <2>2, <2>3, <2>4, <2>5, <2>6 DEF Next, Run
<1>2. TypeOK /\ [Next]_vars => \A k \in Runs : ~At(k, "idle") => Advance(k)
  BY <1>1
<1> QED BY <1>2, SchedulerTypeCorrect, PTL DEF Spec, RunsAdvance
=============================================================================
