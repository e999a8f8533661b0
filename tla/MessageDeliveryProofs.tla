----------------------- MODULE MessageDeliveryProofs -----------------------
(***************************************************************************)
(* Proofs about MessageDelivery, for every number of events, slots, sends  *)
(* and crashes.                                                            *)
(***************************************************************************)
EXTENDS MessageDelivery, FiniteSetTheorems, TLAPS

(* The types without the counters of the calls, which are not needed       *)
(* below.                                                                  *)
SlotType ==
  /\ seen \in [Events -> NotSeen .. DedupTTL + 1]
  /\ step \in [Slots -> RelaySteps]
  /\ eventOf \in [Slots -> Events]
  /\ age \in [Slots -> 0 .. HandlerLimit]
  /\ call \in [Slots -> CallSteps]
  /\ row \in [Events -> {"none", "PENDING", "PROCESSING", "DELIVERED"}]

(* What a purge or a reaping does.                                         *)
RowsGo(S) ==
  /\ row' = [e \in Events |-> IF e \in S THEN "none" ELSE row[e]]
  /\ attempts' = [e \in Events |-> IF e \in S THEN 0 ELSE attempts[e]]
  /\ hasRow' = [h \in Slots |-> hasRow[h] /\ eventOf[h] \notin S]
  /\ attemptsRead' = [h \in Slots |-> IF call[h] = "bump" /\ eventOf[h] \in S THEN NoRow
                                      ELSE attemptsRead[h]]
  /\ \/ purged' = purged \cup S /\ reaped' = reaped /\ S = {e \in Events : row[e] # "none"}
     \/ /\ reaped' = reaped \cup S /\ purged' = purged
        /\ S \in SUBSET {e \in Events : row[e] = "DELIVERED"}

LEMMA RemovalEffect ==
  ASSUME Purge \/ Reap
  PROVE  /\ \E S \in SUBSET Events : RowsGo(S)
         /\ UNCHANGED <<sent, taken, seen, relayUp, step, eventOf, age, call, queueFailed,
                       given, failures, answered, replied, promised, cpUp, active, crashes, deployed>>
<1>1. ASSUME NEW S \in SUBSET Events, RemoveRows(S)
      PROVE  UNCHANGED <<sent, taken, seen, relayUp, step, eventOf, age, call, queueFailed,
                         given, failures, answered, replied, promised, cpUp, active, crashes, deployed>>
  BY <1>1 DEF RemoveRows, slackVars, agentVars, userVars, worldVars
<1>2. CASE Purge
  BY <1>1, <1>2 DEF Purge, RemoveRows, RowsGo, CallAt
<1>3. CASE Reap
  <2>1. PICK S \in SUBSET Reapable : RemoveRows(S) /\ reaped' = reaped \cup S /\ purged' = purged
    BY <1>3 DEF Reap
  <2>2. S \in SUBSET Events /\ S \in SUBSET {e \in Events : row[e] = "DELIVERED"}
    BY DEF Reapable
  <2> QED BY <1>1, <2>1, <2>2 DEF RemoveRows, RowsGo, CallAt
<1> QED BY <1>2, <1>3

LEMMA HandlerStepSlots ==
  ASSUME DeliveryAssumption, SlotType, NEW h \in Slots, HandlerStep(h)
  PROVE  /\ SlotType'
         /\ UNCHANGED <<seen, eventOf, age>>
         /\ \A k \in Slots \ {h} : step'[k] = step[k]
         /\ step[h] # "idle"
<1>1. CASE Provision(h) \/ SeeActive(h) \/ GiveUp(h) \/ Welcome(h) \/ Answered(h)
           \/ GiveUpWaiting(h) \/ Reply(h)
  BY <1>1 DEF Provision, SeeActive, GiveUp, Welcome, Answered, GiveUpWaiting, Reply, At, GoTo,
       RelayStep, callVars, queueVars, SlotType, RelaySteps
<1>2. CASE Enqueue(h) \/ MarkProcessing(h) \/ MarkDelivered(h)
  BY <1>2 DEF Enqueue, MarkProcessing, MarkDelivered, Mark, WriteRow, QueueFails, At, GoTo, GoToMark,
       RelayStep, callVars, SlotType, RelaySteps
<1>3. CASE Forward(h)
  BY <1>3 DEF Forward, At, GoTo, RelayStep, queueVars, SlotType, RelaySteps, CallSteps
<1> QED BY <1>1, <1>2, <1>3 DEF HandlerStep

LEMMA CallProgressSlots ==
  ASSUME SlotType, NEW h \in Slots, CallProgress(h)
  PROVE  /\ SlotType'
         /\ UNCHANGED <<seen, step, eventOf, age, row>>
<1>1. CASE CheckTenant(h) \/ ForwardToRuntime(h) \/ RecordDelivery(h) \/ ReadRow(h)
  BY <1>1 DEF CheckTenant, ForwardToRuntime, RecordDelivery, ReadRow, QueueFails, CallTo, CallStep,
       relayVars, queueVars, SlotType, CallSteps
<1>2. CASE BumpAttempts(h)
  BY <1>2 DEF BumpAttempts, QueueFails, CallTo, CallStep, relayVars, queueVars, SlotType, CallSteps
<1> QED BY <1>1, <1>2 DEF CallProgress

LEMMA SlotTypeStep ==
  ASSUME DeliveryAssumption, SlotType, [Next]_vars
  PROVE  SlotType'
<1>1. ASSUME NEW e \in Events, LoseCopy(e) \/ IgnoreRetry(e) \/ IgnoreDuplicate(e)
      PROVE  SlotType'
  BY <1>1 DEF LoseCopy, IgnoreRetry, IgnoreDuplicate, Unheard, relayVars, callVars, queueVars,
       SlotType
<1>2. ASSUME NEW e \in Events, NEW h \in Slots, AcceptEvent(h, e)
      PROVE  SlotType'
  <2>1. seen' \in [Events -> NotSeen .. DedupTTL + 1]
    BY <1>2 DEF AcceptEvent, SlotType, NotSeen, DeliveryAssumption
  <2> QED BY <1>2, <2>1 DEF AcceptEvent, SlotType, queueVars, RelaySteps, CallSteps,
            DeliveryAssumption
<1>3. ASSUME NEW h \in Slots, HandlerStep(h) \/ CallProgress(h)
      PROVE  SlotType'
  BY <1>3, HandlerStepSlots, CallProgressSlots
<1>4. CASE Evict
  BY <1>4 DEF Evict, Unheard, callVars, queueVars, SlotType, NotSeen, DeliveryAssumption
<1>5. CASE Tick
  <2>1. seen' \in [Events -> NotSeen .. DedupTTL + 1]
    BY <1>5 DEF Tick, SlotType, NotSeen, DeliveryAssumption
  <2>2. age' \in [Slots -> 0 .. HandlerLimit]
    BY <1>5 DEF Tick, SlotType, DeliveryAssumption
  <2> QED BY <1>5, <2>1, <2>2 DEF Tick, Unheard, callVars, queueVars, SlotType
<1>6. CASE RelayCrash \/ RelayBoot \/ TenantChanges
  BY <1>6 DEF RelayCrash, RelayBoot, TenantChanges, relayVars, callVars, queueVars, SlotType,
       RelaySteps, NotSeen, DeliveryAssumption
<1>7. CASE ControlPlaneCrash \/ ControlPlaneBoot
  BY <1>7 DEF ControlPlaneCrash, ControlPlaneBoot, AfterBoot, relayVars, callVars, queueVars,
       SlotType, CallSteps
<1>8. CASE Purge \/ Reap
  BY <1>8, RemovalEffect DEF RowsGo, SlotType
<1>9. CASE UNCHANGED vars
  BY <1>9 DEF vars, relayVars, callVars, queueVars, SlotType
<1> QED BY <1>1, <1>2, <1>3, <1>4, <1>5, <1>6, <1>7, <1>8, <1>9 DEF Next

LEMMA SlotTypeInit == DeliveryAssumption /\ Init => SlotType
  BY DEF Init, SlotType, NotSeen, RelaySteps, CallSteps, DeliveryAssumption

-----------------------------------------------------------------------------
(* The dedup map                                                           *)

(* What makes the dedup map sufficient: an entry outlives any handler.     *)
DedupOutlivesHandlers == HandlerLimit <= DedupTTL

(* The entry of an event at work is exactly as old as its handler, and     *)
(* there is one handler per event.                                         *)
DedupInv ==
  /\ \A h \in Slots : step[h] # "idle" => seen[eventOf[h]] = age[h]
  /\ \A h, k \in Slots :
       h # k /\ step[h] # "idle" /\ step[k] # "idle" => eventOf[h] # eventOf[k]

LEMMA RelayIsSettled == [Next]_vars => UNCHANGED deployed
<1> SUFFICES ASSUME [Next]_vars PROVE UNCHANGED deployed
  OBVIOUS
<1>1. ASSUME NEW e \in Events, LoseCopy(e) \/ IgnoreRetry(e) \/ IgnoreDuplicate(e)
      PROVE  UNCHANGED deployed
  BY <1>1 DEF LoseCopy, IgnoreRetry, IgnoreDuplicate, Unheard, worldVars
<1>2. ASSUME NEW e \in Events, NEW h \in Slots, AcceptEvent(h, e)
      PROVE  UNCHANGED deployed
  BY <1>2 DEF AcceptEvent, worldVars
<1>3. ASSUME NEW h \in Slots, HandlerStep(h)
      PROVE  UNCHANGED deployed
  BY <1>3 DEF HandlerStep, Provision, SeeActive, GiveUp, Welcome, Enqueue, MarkProcessing, Forward,
       Answered, GiveUpWaiting, MarkDelivered, Reply, RelayStep, worldVars
<1>4. ASSUME NEW h \in Slots, CallProgress(h)
      PROVE  UNCHANGED deployed
  BY <1>4 DEF CallProgress, CheckTenant, ForwardToRuntime, RecordDelivery, ReadRow, BumpAttempts,
       CallStep, worldVars
<1>5. CASE Evict \/ Tick \/ RelayCrash \/ RelayBoot \/ ControlPlaneCrash \/ ControlPlaneBoot
           \/ TenantChanges
  BY <1>5 DEF Evict, Tick, RelayCrash, RelayBoot, ControlPlaneCrash, ControlPlaneBoot,
       TenantChanges, Unheard, worldVars
<1>6. CASE Purge \/ Reap
  BY <1>6, RemovalEffect
<1>7. CASE UNCHANGED vars
  BY <1>7 DEF vars, worldVars
<1> QED BY <1>1, <1>2, <1>3, <1>4, <1>5, <1>6, <1>7 DEF Next

LEMMA DedupStep ==
  ASSUME DeliveryAssumption, DedupOutlivesHandlers, ~deployed, SlotType, DedupInv, [Next]_vars
  PROVE  DedupInv'
<1>1. ASSUME NEW e \in Events, LoseCopy(e) \/ IgnoreRetry(e) \/ IgnoreDuplicate(e)
      PROVE  DedupInv'
  BY <1>1 DEF LoseCopy, IgnoreRetry, IgnoreDuplicate, Unheard, relayVars, DedupInv
<1>2. ASSUME NEW e \in Events, NEW h \in Slots, AcceptEvent(h, e)
      PROVE  DedupInv'
  <2>1. seen[e] = NotSeen /\ seen' = [seen EXCEPT ![e] = 0]
    BY <1>2 DEF AcceptEvent, Duplicate
  <2>2. \A k \in Slots : step[k] # "idle" => eventOf[k] # e
    BY <2>1 DEF DedupInv, SlotType, NotSeen, DeliveryAssumption
  <2>3. /\ step' = [step EXCEPT ![h] = "provision"]
        /\ eventOf' = [eventOf EXCEPT ![h] = e]
        /\ age' = [age EXCEPT ![h] = 0]
    BY <1>2 DEF AcceptEvent
  <2>4. \A k \in Slots : step'[k] # "idle" => seen'[eventOf'[k]] = age'[k]
    BY <2>1, <2>2, <2>3 DEF SlotType, DedupInv
  <2>5. \A j, k \in Slots :
          j # k /\ step'[j] # "idle" /\ step'[k] # "idle" => eventOf'[j] # eventOf'[k]
    BY <2>2, <2>3 DEF SlotType, DedupInv
  <2> QED BY <2>4, <2>5 DEF DedupInv
<1>3. CASE Evict
  <2>1. /\ seen' = [e \in Events |-> IF Old(e) THEN NotSeen ELSE seen[e]]
        /\ UNCHANGED <<step, eventOf, age>>
    BY <1>3 DEF Evict
  <2>2. \A h \in Slots : step[h] # "idle" => ~Old(eventOf[h])
    BY DEF DedupInv, Old, SlotType, DedupOutlivesHandlers, DeliveryAssumption
  <2> QED BY <2>1, <2>2 DEF DedupInv, SlotType
<1>4. ASSUME NEW h \in Slots, HandlerStep(h) \/ CallProgress(h)
      PROVE  DedupInv'
  BY <1>4, HandlerStepSlots, CallProgressSlots DEF DedupInv
<1>5. CASE RelayCrash
  BY <1>5 DEF RelayCrash, DedupInv
<1>6. CASE RelayBoot \/ TenantChanges \/ ControlPlaneCrash \/ ControlPlaneBoot
  BY <1>6 DEF RelayBoot, TenantChanges, ControlPlaneCrash, ControlPlaneBoot, relayVars, DedupInv
<1>7. CASE Tick
  <2>1. /\ \A h \in Slots : step[h] # "idle" => age[h] < HandlerLimit /\ age'[h] = age[h] + 1
        /\ seen' = [e \in Events |-> IF seen[e] \in 0 .. DedupTTL THEN seen[e] + 1 ELSE seen[e]]
        /\ UNCHANGED <<step, eventOf>>
    BY <1>7 DEF Tick, Busy
  <2>2. \A h \in Slots : step[h] # "idle" => seen'[eventOf[h]] = age'[h]
    BY <2>1 DEF DedupInv, SlotType, DedupOutlivesHandlers, DeliveryAssumption
  <2> QED BY <2>1, <2>2 DEF DedupInv
<1>8. CASE Purge \/ Reap
  BY <1>8, RemovalEffect DEF DedupInv
<1>9. CASE UNCHANGED vars
  BY <1>9 DEF vars, relayVars, DedupInv
<1> QED BY <1>1, <1>2, <1>3, <1>4, <1>5, <1>6, <1>7, <1>8, <1>9 DEF Next

(* While the dedup map keeps an id at least as long as a handler may live, *)
(* no two handlers of the relay ever work on one event.                    *)
THEOREM OneHandlerAtATime ==
  ASSUME DedupOutlivesHandlers
  PROVE  Spec => []OneHandlerPerEvent
<1> DEFINE Inv == SlotType /\ (~deployed => DedupInv)
<1>1. Init => Inv
  BY SlotTypeInit, DeliveryAssumption DEF Init, DedupInv
<1>2. Inv /\ [Next]_vars => Inv'
  BY SlotTypeStep, DedupStep, RelayIsSettled, DeliveryAssumption
<1>3. Inv => OneHandlerPerEvent
  BY DEF DedupInv, OneHandlerPerEvent, At
<1> QED BY <1>1, <1>2, <1>3, PTL DEF Spec
-----------------------------------------------------------------------------
(* What a DELIVERED row and a reply stand for                              *)

(* A call that forwarded successfully, and a handler that saw it do so,    *)
(* are about an answered event.                                            *)
AnswerInv ==
  /\ \A h \in Slots : call[h] \in {"record", "ok"} => eventOf[h] \in answered
  /\ \A h \in Slots : step[h] \in {"markDelivered", "reply"} => eventOf[h] \in answered
  /\ DeliveredWasAnswered

(* The first two parts, in the next state, after steps of slot h alone.    *)
LEMMA AnswerHandlerStep ==
  ASSUME DeliveryAssumption, SlotType, AnswerInv, NEW h \in Slots, HandlerStep(h)
  PROVE  AnswerInv'
<1>1. CASE Provision(h) \/ SeeActive(h) \/ GiveUp(h) \/ Welcome(h) \/ GiveUpWaiting(h)
  BY <1>1 DEF Provision, SeeActive, GiveUp, Welcome, GiveUpWaiting, At, GoTo, RelayStep, callVars,
       queueVars, agentVars, userVars, SlotType, AnswerInv, DeliveredWasAnswered
<1>2. CASE Enqueue(h) \/ MarkProcessing(h)
  BY <1>2 DEF Enqueue, MarkProcessing, Mark, WriteRow, QueueFails, At, GoTo, GoToMark, RelayStep, callVars,
       agentVars, userVars, SlotType, AnswerInv, DeliveredWasAnswered
<1>3. CASE Forward(h)
  BY <1>3 DEF Forward, At, GoTo, RelayStep, queueVars, agentVars, userVars, SlotType, AnswerInv,
       DeliveredWasAnswered
<1>4. CASE Answered(h)
  BY <1>4 DEF Answered, At, GoTo, RelayStep, callVars, queueVars, agentVars, userVars, SlotType,
       AnswerInv, DeliveredWasAnswered
<1>5. CASE MarkDelivered(h)
  BY <1>5 DEF MarkDelivered, Mark, WriteRow, QueueFails, At, GoTo, RelayStep, callVars, agentVars,
       userVars, SlotType, AnswerInv, DeliveredWasAnswered
<1>6. CASE Reply(h)
  BY <1>6 DEF Reply, At, GoTo, RelayStep, callVars, queueVars, agentVars, SlotType, AnswerInv,
       DeliveredWasAnswered
<1> QED BY <1>1, <1>2, <1>3, <1>4, <1>5, <1>6 DEF HandlerStep

LEMMA AnswerCallStep ==
  ASSUME SlotType, AnswerInv, NEW h \in Slots, CallProgress(h)
  PROVE  AnswerInv'
<1>1. CASE ForwardToRuntime(h)
  BY <1>1 DEF ForwardToRuntime, CallAt, CallTo, CallStep, relayVars, userVars, queueVars, SlotType,
       AnswerInv, DeliveredWasAnswered
<1>2. CASE CheckTenant(h) \/ RecordDelivery(h) \/ ReadRow(h) \/ BumpAttempts(h)
  BY <1>2 DEF CheckTenant, RecordDelivery, ReadRow, BumpAttempts, QueueFails, CallAt, CallTo, CallStep,
       relayVars, userVars, queueVars, agentVars, SlotType, AnswerInv, DeliveredWasAnswered
<1> QED BY <1>1, <1>2 DEF CallProgress

LEMMA AnswerStep ==
  ASSUME DeliveryAssumption, SlotType, AnswerInv, [Next]_vars
  PROVE  AnswerInv'
<1>1. ASSUME NEW e \in Events, LoseCopy(e) \/ IgnoreRetry(e) \/ IgnoreDuplicate(e)
      PROVE  AnswerInv'
  BY <1>1 DEF LoseCopy, IgnoreRetry, IgnoreDuplicate, Unheard, relayVars, callVars, queueVars,
       agentVars, userVars, AnswerInv, DeliveredWasAnswered
<1>2. ASSUME NEW e \in Events, NEW h \in Slots, AcceptEvent(h, e)
      PROVE  AnswerInv'
  BY <1>2 DEF AcceptEvent, SlotType, queueVars, agentVars, userVars, AnswerInv, DeliveredWasAnswered
<1>3. ASSUME NEW h \in Slots, HandlerStep(h) \/ CallProgress(h)
      PROVE  AnswerInv'
  BY <1>3, AnswerHandlerStep, AnswerCallStep
<1>4. CASE Evict \/ Tick
  BY <1>4 DEF Evict, Tick, Unheard, callVars, queueVars, agentVars, userVars, AnswerInv,
       DeliveredWasAnswered
<1>5. CASE RelayCrash \/ RelayBoot \/ TenantChanges
  BY <1>5 DEF RelayCrash, RelayBoot, TenantChanges, relayVars, callVars, queueVars, agentVars,
       userVars, AnswerInv, DeliveredWasAnswered
<1>6. CASE ControlPlaneCrash \/ ControlPlaneBoot
  BY <1>6 DEF ControlPlaneCrash, ControlPlaneBoot, AfterBoot, Running, relayVars, callVars, queueVars,
       agentVars, userVars, SlotType, AnswerInv, DeliveredWasAnswered
<1>7. CASE Purge \/ Reap
  BY <1>7, RemovalEffect DEF RowsGo, AnswerInv, DeliveredWasAnswered
<1>8. CASE UNCHANGED vars
  BY <1>8 DEF vars, relayVars, callVars, queueVars, agentVars, userVars, AnswerInv,
       DeliveredWasAnswered
<1> QED BY <1>1, <1>2, <1>3, <1>4, <1>5, <1>6, <1>7, <1>8 DEF Next

(* Whatever is lost, sent again, timed out or restarted: a DELIVERED row   *)
(* and a reply are always about a message the agent has answered.          *)
THEOREM DeliveredAlwaysAnswered == Spec => []DeliveredWasAnswered
<1>1. Init => SlotType /\ AnswerInv
  BY SlotTypeInit, DeliveryAssumption DEF Init, AnswerInv, DeliveredWasAnswered
<1>2. SlotType /\ AnswerInv /\ [Next]_vars => SlotType' /\ AnswerInv'
  BY SlotTypeStep, AnswerStep, DeliveryAssumption
<1> QED BY <1>1, <1>2, PTL DEF Spec, AnswerInv
-----------------------------------------------------------------------------
(* The queue is written before the agent works                             *)

(* What every handler past the enqueue, and every call, can rely on.       *)
StoredEvents ==
  {e \in Events : row[e] # "none" \/ e \in purged \cup reaped \/ queueFailed \/ deployed}

StoredInv ==
  /\ \A h \in Slots : step[h] \in {"mark", "send", "wait", "markDelivered", "reply"}
                        => eventOf[h] \in StoredEvents
  /\ \A h \in Slots : call[h] # "none" => eventOf[h] \in StoredEvents
  /\ given \subseteq StoredEvents

(* No step takes back a row without keeping so, a failure or the choice of *)
(* the relay.                                                              *)
LEMMA StoredStays ==
  ASSUME SlotType, [Next]_vars
  PROVE  StoredEvents \subseteq StoredEvents'
<1>1. ASSUME NEW h \in Slots, HandlerStep(h)
      PROVE  StoredEvents \subseteq StoredEvents'
  <2>1. CASE Enqueue(h)
    BY <2>1 DEF Enqueue, WriteRow, QueueFails, RelayStep, worldVars, removalVars, SlotType,
       StoredEvents
  <2>2. CASE MarkProcessing(h) \/ MarkDelivered(h)
    BY <2>2 DEF MarkProcessing, MarkDelivered, Mark, WriteRow, QueueFails, RelayStep, worldVars,
         removalVars, SlotType, StoredEvents
  <2>3. CASE UNCHANGED <<queueVars, worldVars>>
    BY <2>3 DEF queueVars, removalVars, worldVars, StoredEvents
  <2> QED BY <1>1, <2>1, <2>2, <2>3 DEF HandlerStep, Provision, SeeActive, GiveUp, Welcome, Forward,
            Answered, GiveUpWaiting, Reply, RelayStep
<1>2. ASSUME NEW h \in Slots, CallProgress(h)
      PROVE  StoredEvents \subseteq StoredEvents'
  BY <1>2 DEF CallProgress, CheckTenant, ForwardToRuntime, RecordDelivery, ReadRow, BumpAttempts,
       QueueFails, CallStep, worldVars, queueVars, removalVars, StoredEvents
<1>3. CASE ControlPlaneBoot
  BY <1>3 DEF ControlPlaneBoot, AfterBoot, removalVars, SlotType, StoredEvents
<1>4. CASE Purge \/ Reap
  BY <1>4, RemovalEffect DEF RowsGo, StoredEvents
<1>5. CASE UNCHANGED <<queueVars, deployed>>
  BY <1>5 DEF queueVars, removalVars, StoredEvents
<1> QED BY <1>1, <1>2, <1>3, <1>4, <1>5 DEF Next, LoseCopy, IgnoreRetry, IgnoreDuplicate, AcceptEvent,
          Evict, RelayCrash, RelayBoot, ControlPlaneCrash, TenantChanges, Tick, Unheard, worldVars, vars

(* A handler gets past the enqueue by storing its event, and a call is     *)
(* made by such a handler.                                                 *)
LEMMA StoredHandlerStep ==
  ASSUME DeliveryAssumption, SlotType, StoredInv, NEW h \in Slots, HandlerStep(h)
  PROVE  StoredInv'
<1>1. StoredEvents \subseteq StoredEvents'
  BY StoredStays DEF Next
<1>2. UNCHANGED <<eventOf, given>> /\ \A k \in Slots \ {h} : step'[k] = step[k]
  BY HandlerStepSlots DEF HandlerStep, Provision, SeeActive, GiveUp, Welcome, Enqueue, MarkProcessing,
     Forward, Answered, GiveUpWaiting, MarkDelivered, Reply, agentVars
<1>3. CASE Enqueue(h)
  <2>1. eventOf[h] \in StoredEvents'
    BY <1>3 DEF Enqueue, WriteRow, QueueFails, RelayStep, worldVars, SlotType, StoredEvents
  <2> QED BY <1>1, <1>2, <1>3, <2>1 DEF Enqueue, callVars, StoredInv
<1>4. CASE Forward(h)
  <2>1. eventOf[h] \in StoredEvents
    BY <1>4 DEF Forward, At, StoredInv
  <2> QED BY <1>1, <1>2, <1>4, <2>1 DEF Forward, SlotType, StoredInv
<1>5. CASE MarkProcessing(h) \/ Answered(h) \/ MarkDelivered(h)
  <2>1. eventOf[h] \in StoredEvents
    BY <1>5 DEF MarkProcessing, Answered, MarkDelivered, At, StoredInv
  <2> QED BY <1>1, <1>2, <1>5, <2>1 DEF MarkProcessing, Answered, MarkDelivered, callVars, StoredInv
<1>6. CASE Provision(h) \/ SeeActive(h) \/ GiveUp(h) \/ Welcome(h) \/ GiveUpWaiting(h) \/ Reply(h)
  <2>1. UNCHANGED call /\ step'[h] \in {"idle", "poll", "welcome", "enqueue"}
    BY <1>6 DEF Provision, SeeActive, GiveUp, Welcome, GiveUpWaiting, Reply, GoTo, callVars, SlotType
  <2> QED BY <1>1, <1>2, <2>1 DEF StoredInv
<1> QED BY <1>3, <1>4, <1>5, <1>6 DEF HandlerStep

LEMMA StoredCallStep ==
  ASSUME SlotType, StoredInv, NEW h \in Slots, CallProgress(h)
  PROVE  StoredInv'
<1>1. StoredEvents \subseteq StoredEvents'
  BY StoredStays DEF Next
<1>2. UNCHANGED <<step, eventOf>>
  BY CallProgressSlots
<1>3. call[h] # "none" /\ \A k \in Slots \ {h} : call'[k] = call[k]
  BY DEF CallProgress, CheckTenant, ForwardToRuntime, RecordDelivery, ReadRow, BumpAttempts,
     CallAt, CallTo, SlotType
<1>4. given' \subseteq given \cup {eventOf[h]}
  BY DEF CallProgress, CheckTenant, ForwardToRuntime, RecordDelivery, ReadRow, BumpAttempts, agentVars
<1>5. eventOf[h] \in StoredEvents'
  BY <1>1, <1>3 DEF StoredInv
<1> QED BY <1>1, <1>2, <1>3, <1>4, <1>5 DEF StoredInv

LEMMA StoredStep ==
  ASSUME DeliveryAssumption, SlotType, StoredInv, [Next]_vars
  PROVE  StoredInv'
<1>0. StoredEvents \subseteq StoredEvents'
  BY StoredStays
<1>1. ASSUME NEW e \in Events, NEW h \in Slots, AcceptEvent(h, e)
      PROVE  StoredInv'
  BY <1>0, <1>1 DEF AcceptEvent, SlotType, agentVars, StoredInv
<1>2. ASSUME NEW h \in Slots, HandlerStep(h) \/ CallProgress(h)
      PROVE  StoredInv'
  BY <1>2, StoredHandlerStep, StoredCallStep
<1>3. CASE RelayCrash
  BY <1>0, <1>3 DEF RelayCrash, callVars, agentVars, StoredInv
<1>4. CASE ControlPlaneCrash
  BY <1>0, <1>4 DEF ControlPlaneCrash, Running, relayVars, agentVars, SlotType, StoredInv
<1>5. CASE Purge \/ Reap
  BY <1>0, <1>5, RemovalEffect DEF StoredInv
<1>6. CASE UNCHANGED <<step, eventOf, callVars, agentVars>>
  BY <1>0, <1>6 DEF callVars, agentVars, StoredInv
<1> QED BY <1>1, <1>2, <1>3, <1>4, <1>5, <1>6 DEF Next, LoseCopy, IgnoreRetry, IgnoreDuplicate, Evict,
          RelayBoot, ControlPlaneBoot, TenantChanges, Tick, Unheard, relayVars, vars

(* Only rows of answered events are reaped.                                *)
LEMMA ReapedStep ==
  ASSUME AnswerInv, reaped \subseteq answered, [Next]_vars
  PROVE  reaped' \subseteq answered'
<1>1. CASE Purge \/ Reap
  BY <1>1, RemovalEffect DEF RowsGo, AnswerInv, DeliveredWasAnswered
<1>2. ASSUME NEW h \in Slots, HandlerStep(h)
      PROVE  reaped' \subseteq answered'
  BY <1>2 DEF HandlerStep, Provision, SeeActive, GiveUp, Welcome, Enqueue, MarkProcessing, Forward,
     Answered, GiveUpWaiting, MarkDelivered, Reply, Mark, WriteRow, QueueFails, queueVars, removalVars,
     agentVars
<1>3. ASSUME NEW h \in Slots, CallProgress(h)
      PROVE  reaped' \subseteq answered'
  BY <1>3 DEF CallProgress, CheckTenant, ForwardToRuntime, RecordDelivery, ReadRow, BumpAttempts,
     QueueFails, queueVars, removalVars, agentVars
<1>4. CASE UNCHANGED <<reaped, answered>>
  BY <1>4
<1> QED BY <1>1, <1>2, <1>3, <1>4 DEF Next, LoseCopy, IgnoreRetry, IgnoreDuplicate, AcceptEvent, Evict,
          RelayCrash, RelayBoot, ControlPlaneCrash, ControlPlaneBoot, TenantChanges, Tick, Unheard, vars,
          queueVars, removalVars, agentVars

(* A message the agent has got and not answered is open in the queue, also *)
(* while rows are reaped, unless its tenant was deleted, a statement on    *)
(* the queue has failed or the relay has no queue.                         *)
THEOREM RunsAlwaysQueued == Spec => []RunsAreQueued
<1> DEFINE Inv == SlotType /\ AnswerInv /\ StoredInv /\ reaped \subseteq answered
<1>1. Init => Inv
  BY SlotTypeInit, DeliveryAssumption DEF Init, StoredInv, AnswerInv, DeliveredWasAnswered
<1>2. Inv /\ [Next]_vars => Inv'
  BY SlotTypeStep, AnswerStep, StoredStep, ReapedStep, DeliveryAssumption
<1>3. Inv => RunsAreQueued
  BY DEF SlotType, AnswerInv, DeliveredWasAnswered, StoredInv, StoredEvents, RunsAreQueued, Open
<1> QED BY <1>1, <1>2, <1>3, PTL DEF Spec
-----------------------------------------------------------------------------
(* Types                                                                   *)

(* The types of what SlotType leaves out.                                  *)
RestType ==
  /\ sent \in [Events -> 0 .. MaxSends]
  /\ taken \subseteq Events
  /\ relayUp \in BOOLEAN /\ cpUp \in BOOLEAN /\ active \in BOOLEAN
  /\ hasRow \in [Slots -> BOOLEAN]
  /\ attemptsRead \in [Slots -> Nat \cup {NoRow}]
  /\ attempts \in [Events -> Nat]
  /\ queueFailed \in BOOLEAN
  /\ purged \subseteq Events /\ reaped \subseteq Events
  /\ failures \in [Events -> Nat]
  /\ given \subseteq Events /\ answered \subseteq Events
  /\ replied \subseteq Events /\ promised \subseteq Events
  /\ crashes \in 0 .. MaxCrashes
  /\ deployed \in BOOLEAN

LEMMA SendType ==
  ASSUME DeliveryAssumption, RestType, NEW e \in Events, Send(e)
  PROVE  sent' \in [Events -> 0 .. MaxSends]
BY DEF Send, RestType, DeliveryAssumption

LEMMA RestHandlerStep ==
  ASSUME SlotType, RestType, NEW h \in Slots, HandlerStep(h)
  PROVE  RestType'
<1>0. hasRow' \in [Slots -> BOOLEAN]
  BY DEF HandlerStep, Provision, SeeActive, GiveUp, Welcome, Enqueue, MarkProcessing, Forward,
     Answered, GiveUpWaiting, MarkDelivered, Reply, GoTo, GoToMark, RestType
<1>1. CASE Provision(h) \/ SeeActive(h) \/ GiveUp(h) \/ Welcome(h) \/ Answered(h) \/ Forward(h)
  BY <1>0, <1>1 DEF Provision, SeeActive, GiveUp, Welcome, Answered, Forward, RelayStep, slackVars,
       callVars, queueVars, removalVars, agentVars, userVars, worldVars, RestType
<1>2. CASE GiveUpWaiting(h) \/ Reply(h)
  <2>1. eventOf[h] \in Events
    BY DEF SlotType
  <2> QED BY <1>0, <1>2, <2>1 DEF GiveUpWaiting, Reply, RelayStep, slackVars, callVars, queueVars,
            removalVars, agentVars, userVars, worldVars, RestType
<1>3. CASE Enqueue(h) \/ MarkProcessing(h) \/ MarkDelivered(h)
  <2>1. attempts' = attempts /\ queueFailed' \in BOOLEAN /\ UNCHANGED removalVars
    BY <1>3 DEF Enqueue, MarkProcessing, MarkDelivered, Mark, WriteRow, QueueFails, RestType
  <2> QED BY <1>0, <1>3, <2>1 DEF Enqueue, MarkProcessing, MarkDelivered, RelayStep, slackVars, callVars,
            removalVars, agentVars, userVars, worldVars, RestType
<1> QED BY <1>1, <1>2, <1>3 DEF HandlerStep

LEMMA RestCallStep ==
  ASSUME SlotType, RestType, NEW h \in Slots, CallProgress(h)
  PROVE  RestType'
<1>0. eventOf[h] \in Events
  BY DEF SlotType
<1>1. CASE CheckTenant(h) \/ RecordDelivery(h)
  BY <1>1 DEF CheckTenant, RecordDelivery, CallStep, slackVars, relayVars, queueVars, removalVars,
       agentVars, userVars, worldVars, RestType
<1>2. CASE ForwardToRuntime(h)
  <2>1. failures' \in [Events -> Nat] /\ given' \subseteq Events /\ answered' \subseteq Events
    BY <1>0, <1>2 DEF ForwardToRuntime, RestType
  <2> QED BY <1>2, <2>1 DEF ForwardToRuntime, CallStep, slackVars, relayVars, queueVars, removalVars,
            userVars, worldVars, RestType
<1>3. CASE ReadRow(h)
  <2>1. /\ attemptsRead' \in [Slots -> Nat \cup {NoRow}] /\ attempts' = attempts
        /\ queueFailed' \in BOOLEAN /\ UNCHANGED removalVars
    BY <1>0, <1>3 DEF ReadRow, QueueFails, queueVars, RestType
  <2> QED BY <1>3, <2>1 DEF ReadRow, CallStep, slackVars, relayVars, removalVars, agentVars,
            userVars, worldVars, RestType
<1>4. CASE BumpAttempts(h)
  <2>1. attemptsRead' \in [Slots -> Nat \cup {NoRow}]
    BY <1>4 DEF BumpAttempts, RestType
  <2>2. attempts' \in [Events -> Nat]
    <3>1. attemptsRead[h] # NoRow => NextAttempt(h) \in Nat
      BY DEF NextAttempt, RestType
    <3> QED BY <1>0, <1>4, <3>1 DEF BumpAttempts, QueueFails, queueVars, RestType
  <2>3. queueFailed' \in BOOLEAN /\ UNCHANGED removalVars
    BY <1>4 DEF BumpAttempts, QueueFails, queueVars, RestType
  <2> QED BY <1>4, <2>1, <2>2, <2>3 DEF BumpAttempts, CallStep, slackVars, relayVars, removalVars,
            agentVars, userVars, worldVars, RestType
<1> QED BY <1>1, <1>2, <1>3, <1>4 DEF CallProgress

LEMMA RestStep ==
  ASSUME DeliveryAssumption, SlotType, RestType, [Next]_vars
  PROVE  RestType'
<1>1. ASSUME NEW e \in Events, LoseCopy(e) \/ IgnoreRetry(e) \/ IgnoreDuplicate(e)
      PROVE  RestType'
  BY <1>1, SendType DEF LoseCopy, IgnoreRetry, IgnoreDuplicate, Unheard, relayVars, callVars,
       queueVars, removalVars, agentVars, userVars, worldVars, RestType
<1>2. ASSUME NEW e \in Events, NEW h \in Slots, AcceptEvent(h, e)
      PROVE  RestType'
  BY <1>2, SendType DEF AcceptEvent, queueVars, removalVars, agentVars, userVars, worldVars, RestType
<1>3. ASSUME NEW h \in Slots, HandlerStep(h) \/ CallProgress(h)
      PROVE  RestType'
  BY <1>3, RestHandlerStep, RestCallStep
<1>4. CASE Evict \/ Tick
  BY <1>4 DEF Evict, Tick, Unheard, slackVars, callVars, queueVars, removalVars, agentVars, userVars,
       worldVars, RestType
<1>5. CASE RelayCrash \/ ControlPlaneCrash
  <2>1. crashes' \in 0 .. MaxCrashes
    <3>1. crashes < MaxCrashes /\ crashes' = crashes + 1
      BY <1>5 DEF RelayCrash, ControlPlaneCrash, MayCrash
    <3> QED BY <3>1 DEF RestType, DeliveryAssumption
  <2>2. relayUp' \in BOOLEAN /\ cpUp' \in BOOLEAN /\ hasRow' \in [Slots -> BOOLEAN]
    BY <1>5 DEF RelayCrash, ControlPlaneCrash, relayVars, RestType
  <2> QED BY <1>5, <2>1, <2>2 DEF RelayCrash, ControlPlaneCrash, slackVars, relayVars, callVars, queueVars,
            removalVars, agentVars, userVars, RestType
<1>6. CASE RelayBoot \/ ControlPlaneBoot \/ TenantChanges
  <2>1. relayUp' \in BOOLEAN /\ cpUp' \in BOOLEAN /\ active' \in BOOLEAN
    BY <1>6 DEF RelayBoot, ControlPlaneBoot, TenantChanges, relayVars, worldVars, RestType
  <2> QED BY <1>6, <2>1 DEF RelayBoot, ControlPlaneBoot, TenantChanges, slackVars, relayVars, callVars,
            queueVars, removalVars, agentVars, userVars, worldVars, RestType
<1>7. CASE Purge \/ Reap
  <2>1. PICK S \in SUBSET Events : RowsGo(S)
    BY <1>7, RemovalEffect
  <2>2. /\ attempts' \in [Events -> Nat] /\ hasRow' \in [Slots -> BOOLEAN]
        /\ attemptsRead' \in [Slots -> Nat \cup {NoRow}]
        /\ purged' \subseteq Events /\ reaped' \subseteq Events
    BY <2>1 DEF RowsGo, RestType
  <2> QED BY <1>7, <2>2, RemovalEffect DEF RestType
<1>8. CASE UNCHANGED vars
  BY <1>8 DEF vars, slackVars, relayVars, callVars, queueVars, removalVars, agentVars, userVars, worldVars, RestType
<1> QED BY <1>1, <1>2, <1>3, <1>4, <1>5, <1>6, <1>7, <1>8 DEF Next

LEMMA RestInit == DeliveryAssumption /\ Init => RestType
<1> SUFFICES ASSUME DeliveryAssumption, Init PROVE RestType
  OBVIOUS
<1>1. 0 \in 0 .. MaxSends /\ 0 \in 0 .. MaxCrashes
  BY DEF DeliveryAssumption
<1> QED BY <1>1 DEF Init, RestType

(* Every value of the relay, of its calls and of the queue keeps its type. *)
THEOREM DeliveryTypeCorrect == Spec => []TypeOK
<1>1. Init => SlotType /\ RestType
  BY SlotTypeInit, RestInit, DeliveryAssumption
<1>2. SlotType /\ RestType /\ [Next]_vars => SlotType' /\ RestType'
  BY SlotTypeStep, RestStep, DeliveryAssumption
<1>3. SlotType /\ RestType => TypeOK
  BY DEF SlotType, RestType, TypeOK
<1> QED BY <1>1, <1>2, <1>3, PTL DEF Spec
-----------------------------------------------------------------------------
(* Attempts and failures                                                   *)

(* The calls whose failure is not yet in the attempts column.              *)
Counters(e) == {h \in Slots : eventOf[h] = e /\ call[h] \in {"readRow", "bump"}}

Unmade == {"provision", "poll", "welcome", "enqueue", "mark", "send"}
UnmadeInv == \A h \in Slots : step[h] \in Unmade => call[h] = "none"

(* The entry of an event is as old as the handler or the call that is at   *)
(* work on it, of which there is one.                                      *)
BusyInv ==
  /\ \A h \in Slots : Busy(h) => seen[eventOf[h]] = age[h]
  /\ \A h, k \in Slots : h # k /\ Busy(h) /\ Busy(k) => eventOf[h] # eventOf[k]

LEMMA HandlerEffect ==
  ASSUME SlotType, NEW h \in Slots, HandlerStep(h)
  PROVE  /\ \A k \in Slots \ {h} : step'[k] = step[k] /\ call'[k] = call[k]
         /\ step[h] # "idle"
         /\ step'[h] \in Unmade => step[h] \in Unmade
         /\ \/ call'[h] = call[h]
            \/ step[h] = "send" /\ step'[h] = "wait" /\ call'[h] \in {"check", "reset"}
         /\ UNCHANGED <<seen, eventOf, age, attempts, attemptsRead, failures, crashes, deployed>>
         /\ queueFailed' = queueFailed \/ queueFailed'
         /\ UNCHANGED <<purged, reaped>>
<1>1. CASE Provision(h) \/ SeeActive(h) \/ GiveUp(h) \/ Welcome(h) \/ Answered(h)
           \/ GiveUpWaiting(h) \/ Reply(h)
  BY <1>1 DEF Provision, SeeActive, GiveUp, Welcome, Answered, GiveUpWaiting, Reply, At, GoTo,
       RelayStep, callVars, queueVars, removalVars, agentVars, worldVars, SlotType, Unmade
<1>2. CASE Enqueue(h) \/ MarkProcessing(h) \/ MarkDelivered(h)
  <2>1. /\ attempts' = attempts /\ (queueFailed' = queueFailed \/ queueFailed')
        /\ UNCHANGED <<purged, reaped>>
    BY <1>2 DEF Enqueue, MarkProcessing, MarkDelivered, Mark, WriteRow, QueueFails, removalVars
  <2> QED BY <1>2, <2>1 DEF Enqueue, MarkProcessing, MarkDelivered, At, GoTo, GoToMark, RelayStep,
            callVars, agentVars, worldVars, SlotType, Unmade
<1>3. CASE Forward(h)
  BY <1>3 DEF Forward, At, GoTo, RelayStep, queueVars, removalVars, agentVars, worldVars, SlotType, Unmade
<1> QED BY <1>1, <1>2, <1>3 DEF HandlerStep

LEMMA CallEffect ==
  ASSUME SlotType, NEW h \in Slots, CallProgress(h)
  PROVE  /\ UNCHANGED <<seen, step, eventOf, age, crashes, deployed>>
         /\ Running(h) /\ call[h] # "none"
         /\ \A k \in Slots \ {h} : call'[k] = call[k]
BY DEF CallProgress, CheckTenant, ForwardToRuntime, RecordDelivery, ReadRow, BumpAttempts, CallAt,
   CallTo, CallStep, relayVars, worldVars, SlotType, Running

LEMMA UnmadeStep ==
  ASSUME SlotType, UnmadeInv, [Next]_vars
  PROVE  UnmadeInv'
<1>1. ASSUME NEW e \in Events, NEW h \in Slots, AcceptEvent(h, e)
      PROVE  UnmadeInv'
  BY <1>1 DEF AcceptEvent, UnmadeInv, SlotType
<1>2. ASSUME NEW h \in Slots, HandlerStep(h)
      PROVE  UnmadeInv'
  <2>1. ASSUME NEW k \in Slots, step'[k] \in Unmade
        PROVE  call'[k] = "none"
    <3>1. CASE k # h
      BY <1>2, <2>1, <3>1, HandlerEffect DEF UnmadeInv
    <3>2. CASE k = h
      <4>1. step[h] \in Unmade /\ step'[h] # "wait"
        BY <1>2, <2>1, <3>2, HandlerEffect DEF Unmade
      <4>2. call'[h] = call[h]
        BY <1>2, <4>1, HandlerEffect
      <4> QED BY <3>2, <4>1, <4>2 DEF UnmadeInv
    <3> QED BY <3>1, <3>2
  <2> QED BY <2>1 DEF UnmadeInv
<1>3. ASSUME NEW h \in Slots, CallProgress(h)
      PROVE  UnmadeInv'
  BY <1>3, CallEffect DEF UnmadeInv
<1>4. CASE RelayCrash \/ ControlPlaneCrash
  BY <1>4 DEF RelayCrash, ControlPlaneCrash, Running, relayVars, callVars, UnmadeInv, Unmade, SlotType
<1>5. CASE Purge \/ Reap
  BY <1>5, RemovalEffect DEF UnmadeInv
<1>6. CASE UNCHANGED <<step, call>>
  BY <1>6 DEF UnmadeInv
<1> QED BY <1>1, <1>2, <1>3, <1>4, <1>5, <1>6 DEF Next, LoseCopy, IgnoreRetry, IgnoreDuplicate, Evict,
          RelayBoot, ControlPlaneBoot, TenantChanges, Tick, Unheard, relayVars, callVars, vars

LEMMA BusyStep ==
  ASSUME DeliveryAssumption, DedupOutlivesHandlers, RestType, SlotType, [Next]_vars,
         crashes = 0 /\ ~deployed => BusyInv
  PROVE  crashes' = 0 /\ ~deployed' => BusyInv'
<1> SUFFICES ASSUME crashes' = 0, ~deployed'
             PROVE  BusyInv'
  OBVIOUS
<1>0. ~deployed
  BY RelayIsSettled
<1>1. ASSUME NEW e \in Events, LoseCopy(e) \/ IgnoreRetry(e) \/ IgnoreDuplicate(e)
      PROVE  BusyInv'
  BY <1>0, <1>1 DEF LoseCopy, IgnoreRetry, IgnoreDuplicate, Unheard, relayVars, callVars,
       worldVars, BusyInv, Busy, Running
<1>2. ASSUME NEW e \in Events, NEW h \in Slots, AcceptEvent(h, e)
      PROVE  BusyInv'
  <2>1. /\ seen[e] = NotSeen /\ seen' = [seen EXCEPT ![e] = 0]
        /\ step' = [step EXCEPT ![h] = "provision"] /\ eventOf' = [eventOf EXCEPT ![h] = e]
        /\ age' = [age EXCEPT ![h] = 0] /\ call' = [call EXCEPT ![h] = "none"]
        /\ crashes' = crashes
    BY <1>0, <1>2 DEF AcceptEvent, Duplicate, worldVars
  <2>2. BusyInv
    BY <1>0, <2>1
  <2>3. \A k \in Slots : Busy(k) => eventOf[k] # e
    BY <2>1, <2>2 DEF BusyInv, SlotType, NotSeen, DeliveryAssumption
  <2>4. \A k \in Slots \ {h} : Busy(k)' = Busy(k)
    BY <2>1 DEF Busy, Running, SlotType
  <2>5. \A k \in Slots : Busy(k)' => seen'[eventOf'[k]] = age'[k]
    BY <2>1, <2>2, <2>3, <2>4 DEF SlotType, BusyInv
  <2>6. \A j, k \in Slots : j # k /\ Busy(j)' /\ Busy(k)' => eventOf'[j] # eventOf'[k]
    BY <2>1, <2>2, <2>3, <2>4 DEF SlotType, BusyInv
  <2> QED BY <2>5, <2>6 DEF BusyInv
<1>3. CASE Evict
  <2>1. /\ seen' = [e \in Events |-> IF Old(e) THEN NotSeen ELSE seen[e]]
        /\ UNCHANGED <<step, eventOf, age, call, crashes>>
    BY <1>3 DEF Evict, Unheard, callVars, worldVars
  <2>2. BusyInv
    BY <1>0, <2>1
  <2>3. \A h \in Slots : Busy(h) => ~Old(eventOf[h])
    BY <2>2 DEF BusyInv, Old, SlotType, DedupOutlivesHandlers, DeliveryAssumption
  <2> QED BY <2>1, <2>2, <2>3 DEF BusyInv, Busy, Running, SlotType
<1>4. ASSUME NEW h \in Slots, HandlerStep(h) \/ CallProgress(h)
      PROVE  BusyInv'
  <2>1. /\ UNCHANGED <<seen, eventOf, age, crashes>> /\ Busy(h)
        /\ \A k \in Slots \ {h} : Busy(k)' = Busy(k)
    <3>1. CASE HandlerStep(h)
      BY <3>1, HandlerEffect DEF Busy, Running
    <3>2. CASE CallProgress(h)
      BY <3>2, CallEffect DEF Busy, Running
    <3> QED BY <1>4, <3>1, <3>2
  <2>2. BusyInv
    BY <1>0, <2>1
  <2> QED BY <2>1, <2>2 DEF BusyInv
<1>5. CASE RelayCrash \/ ControlPlaneCrash
  <2>1. crashes' = crashes + 1 /\ crashes \in Nat
    BY <1>5 DEF RelayCrash, ControlPlaneCrash, MayCrash, RestType
  <2> QED BY <2>1
<1>6. CASE RelayBoot \/ TenantChanges \/ ControlPlaneBoot
  BY <1>0, <1>6 DEF RelayBoot, TenantChanges, ControlPlaneBoot, relayVars, callVars, worldVars,
       BusyInv, Busy, Running
<1>7. CASE Tick
  <2>1. /\ \A h \in Slots : Busy(h) => age[h] < HandlerLimit /\ age'[h] = age[h] + 1
        /\ seen' = [e \in Events |-> IF seen[e] \in 0 .. DedupTTL THEN seen[e] + 1 ELSE seen[e]]
        /\ UNCHANGED <<step, eventOf, call, crashes>>
    BY <1>7 DEF Tick, Unheard, callVars, worldVars
  <2>2. BusyInv
    BY <1>0, <2>1
  <2>3. \A h \in Slots : Busy(h) => seen'[eventOf[h]] = age'[h]
    BY <2>1, <2>2 DEF BusyInv, SlotType, DedupOutlivesHandlers, DeliveryAssumption
  <2> QED BY <2>1, <2>2, <2>3 DEF BusyInv, Busy, Running
<1>8. CASE Purge \/ Reap
  BY <1>0, <1>8, RemovalEffect DEF BusyInv, Busy, Running
<1>9. CASE UNCHANGED vars
  BY <1>0, <1>9 DEF vars, relayVars, callVars, worldVars, BusyInv, Busy, Running
<1> QED BY <1>1, <1>2, <1>3, <1>4, <1>5, <1>6, <1>7, <1>8, <1>9 DEF Next

(* The failures not yet counted are those of the calls about to count.     *)
AtMost ==
  /\ \A e \in Events : attempts[e] + Cardinality(Counters(e)) <= failures[e]
  /\ \A h \in Slots : call[h] = "bump" =>
       attemptsRead[h] + Cardinality(Counters(eventOf[h])) <= failures[eventOf[h]]

(* Undisturbed, none is lost, since no call writes what another has read.  *)
Exactly ==
  /\ \A e \in Events : Undisturbed(e) => attempts[e] + Cardinality(Counters(e)) = failures[e]
  /\ \A h \in Slots : call[h] = "bump" /\ Undisturbed(eventOf[h]) =>
       attemptsRead[h] = attempts[eventOf[h]]

LEMMA CountersFinite ==
  ASSUME DeliveryAssumption, NEW e
  PROVE  IsFiniteSet(Counters(e)) /\ Cardinality(Counters(e)) \in Nat
<1>1. Counters(e) \subseteq Slots
  BY DEF Counters
<1> QED BY <1>1, FS_Subset, FS_CardinalityType DEF DeliveryAssumption

(* Steps that count nothing and lose no counter.                           *)
LEMMA CountKept ==
  ASSUME AtMost, Exactly, UNCHANGED <<attempts, failures>>, \A e \in Events : Counters(e)' = Counters(e),
         SlotType,
         \A h \in Slots : call'[h] = "bump" =>
           call[h] = "bump" /\ eventOf'[h] = eventOf[h] /\ attemptsRead'[h] = attemptsRead[h],
         \A e \in Events : Undisturbed(e)' => Undisturbed(e)
  PROVE  AtMost' /\ Exactly'
<1>1. \A h \in Slots : eventOf[h] \in Events
  BY DEF SlotType
<1> QED BY <1>1 DEF AtMost, Exactly

(* A call that fails becomes a counter, and one that is over is none.      *)
LEMMA CounterJoins ==
  ASSUME DeliveryAssumption, NEW h \in Slots, UNCHANGED eventOf,
         \A k \in Slots \ {h} : call'[k] = call[k],
         call[h] \notin {"readRow", "bump"}, call'[h] \in {"readRow", "bump"}
  PROVE  /\ \A e : e # eventOf[h] => Counters(e)' = Counters(e)
         /\ Cardinality(Counters(eventOf[h])') = Cardinality(Counters(eventOf[h])) + 1
<1>1. \A e : e # eventOf[h] => Counters(e)' = Counters(e)
  BY DEF Counters
<1>2. Counters(eventOf[h])' = Counters(eventOf[h]) \cup {h} /\ h \notin Counters(eventOf[h])
  BY DEF Counters
<1> QED BY <1>1, <1>2, CountersFinite, FS_AddElement

LEMMA CounterLeaves ==
  ASSUME DeliveryAssumption, NEW h \in Slots, UNCHANGED eventOf,
         \A k \in Slots \ {h} : call'[k] = call[k],
         call[h] \in {"readRow", "bump"}, call'[h] \notin {"readRow", "bump"}
  PROVE  /\ \A e : e # eventOf[h] => Counters(e)' = Counters(e)
         /\ Cardinality(Counters(eventOf[h])') = Cardinality(Counters(eventOf[h])) - 1
<1>1. \A e : e # eventOf[h] => Counters(e)' = Counters(e)
  BY DEF Counters
<1>2. Counters(eventOf[h])' = Counters(eventOf[h]) \ {h} /\ h \in Counters(eventOf[h])
  BY DEF Counters
<1> QED BY <1>1, <1>2, CountersFinite, FS_RemoveElement

LEMMA CountForward ==
  ASSUME DeliveryAssumption, SlotType, RestType, AtMost, Exactly, NEW h \in Slots, ForwardToRuntime(h)
  PROVE  AtMost' /\ Exactly'
<1> DEFINE e0 == eventOf[h]
<1>1. /\ call[h] = "forward" /\ e0 \in Events
      /\ UNCHANGED <<eventOf, attempts, attemptsRead, queueFailed, purged, reaped, crashes, deployed>>
      /\ \A k \in Slots \ {h} : call'[k] = call[k]
  BY DEF ForwardToRuntime, CallAt, CallTo, CallStep, relayVars, queueVars, removalVars, worldVars, SlotType
<1>0. \A e : Undisturbed(e)' <=> Undisturbed(e)
  BY <1>1 DEF Undisturbed
<1>2. CASE call'[h] = "record" /\ failures' = failures
  <2>1. \A e \in Events : Counters(e)' = Counters(e)
    BY <1>1, <1>2 DEF Counters
  <2>2. \A k \in Slots : call'[k] = "bump" => call[k] = "bump"
    BY <1>1, <1>2
  <2> QED BY <1>0, <1>1, <1>2, <2>1, <2>2, CountKept
<1>3. CASE call'[h] = "readRow" /\ failures' = [failures EXCEPT ![e0] = failures[e0] + 1]
  <2>1. /\ \A e \in Events : e # e0 => Counters(e)' = Counters(e)
        /\ Cardinality(Counters(e0)') = Cardinality(Counters(e0)) + 1
        /\ Cardinality(Counters(e0)) \in Nat
    BY <1>1, <1>3, CounterJoins, CountersFinite
  <2>2. /\ failures'[e0] = failures[e0] + 1 /\ \A e \in Events : e # e0 => failures'[e] = failures[e]
        /\ failures[e0] \in Nat /\ attempts[e0] \in Nat /\ attemptsRead \in [Slots -> Int]
    BY <1>1, <1>3 DEF RestType, NoRow
  <2>3. ASSUME NEW e \in Events
        PROVE  /\ attempts'[e] + Cardinality(Counters(e)') <= failures'[e]
               /\ Undisturbed(e)' => attempts'[e] + Cardinality(Counters(e)') = failures'[e]
    <3>1. CASE e # e0
      BY <1>0, <1>1, <2>1, <2>2, <3>1 DEF AtMost, Exactly
    <3>2. CASE e = e0
      <4>1. attempts[e0] + Cardinality(Counters(e0)) <= failures[e0]
        BY <1>1 DEF AtMost
      <4>2. Undisturbed(e0)' => attempts[e0] + Cardinality(Counters(e0)) = failures[e0]
        BY <1>0, <1>1 DEF Exactly
      <4> QED BY <1>1, <2>1, <2>2, <3>2, <4>1, <4>2
    <3> QED BY <3>1, <3>2
  <2>4. ASSUME NEW k \in Slots, call'[k] = "bump"
        PROVE  /\ (attemptsRead[k] + Cardinality(Counters(eventOf[k])) <= failures[eventOf[k]])'
               /\ Undisturbed(eventOf[k])' => attemptsRead'[k] = attempts'[eventOf'[k]]
    <3>1. /\ call[k] = "bump" /\ eventOf[k] \in Events /\ eventOf'[k] = eventOf[k]
          /\ attemptsRead'[k] = attemptsRead[k] /\ attemptsRead[k] \in Int
      BY <1>1, <1>3, <2>2, <2>4 DEF SlotType
    <3>2. attemptsRead[k] + Cardinality(Counters(eventOf[k])) <= failures[eventOf[k]]
      BY <3>1 DEF AtMost
    <3>3. Undisturbed(eventOf[k])' => attemptsRead[k] = attempts[eventOf[k]]
      BY <1>1, <3>1 DEF Exactly, Undisturbed
    <3>4. CASE eventOf[k] # e0
      <4>1. Counters(eventOf[k])' = Counters(eventOf[k]) /\ failures'[eventOf[k]] = failures[eventOf[k]]
        BY <1>1, <2>1, <2>2, <3>1, <3>4 DEF Counters
      <4> QED BY <1>1, <3>1, <3>2, <3>3, <4>1
    <3>5. CASE eventOf[k] = e0
      <4>1. attemptsRead[k] + (Cardinality(Counters(e0)) + 1) <= failures[e0] + 1
        BY <2>1, <2>2, <3>1, <3>2, <3>5
      <4>2. (Cardinality(Counters(eventOf[k])))' = Cardinality(Counters(e0)) + 1
        BY <1>1, <2>1, <3>1, <3>5
      <4> QED BY <1>1, <2>1, <2>2, <3>1, <3>3, <3>5, <4>1, <4>2
    <3> QED BY <3>4, <3>5
  <2> QED BY <1>1, <2>3, <2>4 DEF AtMost, Exactly
<1> QED BY <1>1, <1>2, <1>3 DEF ForwardToRuntime, CallTo, SlotType

(* A call that ends without counting its failure.                          *)
LEMMA CountGivenUp ==
  ASSUME DeliveryAssumption, SlotType, RestType, AtMost, Exactly, NEW h \in Slots,
         UNCHANGED <<eventOf, attempts, failures>>,
         \A k \in Slots \ {h} : call'[k] = call[k] /\ attemptsRead'[k] = attemptsRead[k],
         call[h] \in {"readRow", "bump"}, call'[h] = "error", ~Undisturbed(eventOf[h])',
         \A e \in Events : Undisturbed(e)' => Undisturbed(e)
  PROVE  AtMost' /\ Exactly'
<1>1. /\ \A e : e # eventOf[h] => Counters(e)' = Counters(e)
      /\ Cardinality(Counters(eventOf[h])') = Cardinality(Counters(eventOf[h])) - 1
  BY CounterLeaves
<1>2. \A e : Cardinality(Counters(e)) \in Nat
  BY CountersFinite
<1>3. \A e : (Cardinality(Counters(e)))' <= Cardinality(Counters(e)) /\ (Cardinality(Counters(e)))' \in Int
  BY <1>1, <1>2
<1>4. \A e \in Events : attempts[e] \in Nat /\ failures[e] \in Nat
  BY DEF RestType
<1>5. ASSUME NEW e \in Events
      PROVE  /\ (attempts[e] + Cardinality(Counters(e)) <= failures[e])'
             /\ Undisturbed(e)' => (attempts[e] + Cardinality(Counters(e)) = failures[e])'
  <2>1. attempts[e] + Cardinality(Counters(e)) <= failures[e]
    BY DEF AtMost
  <2>2. ASSUME Undisturbed(e)'
        PROVE  (attempts[e] + Cardinality(Counters(e)) = failures[e])'
    <3>1. e # eventOf[h]
      BY <2>2
    <3>2. attempts[e] + Cardinality(Counters(e)) = failures[e]
      BY <2>2 DEF Exactly
    <3> QED BY <1>1, <3>1, <3>2
  <2> QED BY <1>2, <1>3, <1>4, <2>1, <2>2
<1>6. ASSUME NEW k \in Slots, call'[k] = "bump"
      PROVE  /\ (attemptsRead[k] + Cardinality(Counters(eventOf[k])) <= failures[eventOf[k]])'
             /\ Undisturbed(eventOf[k])' => (attemptsRead[k] = attempts[eventOf[k]])'
  <2>1. /\ call[k] = "bump" /\ attemptsRead'[k] = attemptsRead[k]
        /\ attemptsRead[k] \in Int /\ eventOf[k] \in Events
    BY <1>6 DEF RestType, NoRow, SlotType
  <2>2. attemptsRead[k] + Cardinality(Counters(eventOf[k])) <= failures[eventOf[k]]
    BY <2>1 DEF AtMost
  <2>3. /\ (Cardinality(Counters(eventOf[k])))' <= Cardinality(Counters(eventOf[k]))
        /\ (Cardinality(Counters(eventOf[k])))' \in Int
    BY <1>3
  <2>4. (attemptsRead[k] + Cardinality(Counters(eventOf[k])) <= failures[eventOf[k]])'
    BY <1>2, <1>4, <2>1, <2>2, <2>3
  <2>5. Undisturbed(eventOf[k])' => Undisturbed(eventOf[k])
    BY <2>1 DEF Undisturbed
  <2> QED BY <2>1, <2>4, <2>5 DEF Exactly
<1> QED BY <1>5, <1>6 DEF AtMost, Exactly

LEMMA CountRead ==
  ASSUME DeliveryAssumption, SlotType, RestType, StoredInv, AtMost, Exactly, NEW h \in Slots, ReadRow(h)
  PROVE  AtMost' /\ Exactly'
<1>1. /\ call[h] = "readRow" /\ eventOf[h] \in Events
      /\ UNCHANGED <<eventOf, attempts, failures, purged, reaped, crashes, deployed>>
      /\ queueFailed' = queueFailed \/ queueFailed'
      /\ \A k \in Slots \ {h} : call'[k] = call[k] /\ attemptsRead'[k] = attemptsRead[k]
  BY DEF ReadRow, CallAt, CallTo, CallStep, QueueFails, relayVars, queueVars, removalVars, agentVars,
     worldVars, SlotType, RestType
<1>0. \A e : Undisturbed(e)' => Undisturbed(e)
  BY <1>1 DEF Undisturbed
<1>2. CASE /\ call'[h] = "bump" /\ attemptsRead'[h] = attempts[eventOf[h]]
           /\ queueFailed' = queueFailed
  <2>1. \A e : Counters(e)' = Counters(e)
    BY <1>1, <1>2 DEF Counters
  <2>2. ASSUME NEW k \in Slots, call'[k] = "bump"
        PROVE  /\ (attemptsRead[k] + Cardinality(Counters(eventOf[k])) <= failures[eventOf[k]])'
               /\ Undisturbed(eventOf[k])' => (attemptsRead[k] = attempts[eventOf[k]])'
    <3>1. CASE k = h
      BY <1>1, <1>2, <2>1, <3>1 DEF AtMost
    <3>2. CASE k # h
      <4>1. /\ call[k] = "bump" /\ attemptsRead'[k] = attemptsRead[k]
            /\ (Undisturbed(eventOf[k])' => Undisturbed(eventOf[k]))
        BY <1>1, <2>2, <3>2 DEF Undisturbed
      <4> QED BY <1>1, <2>1, <4>1 DEF AtMost, Exactly
    <3> QED BY <3>1, <3>2
  <2> QED BY <1>0, <1>1, <1>2, <2>1, <2>2 DEF AtMost, Exactly
<1>3. CASE call'[h] = "error"
  <2>1. (row[eventOf[h]] = "none" /\ UNCHANGED queueVars) \/ queueFailed'
    BY <1>3 DEF ReadRow, CallTo, QueueFails, SlotType
  <2>2. eventOf[h] \in StoredEvents
    BY <1>1 DEF StoredInv
  <2>3. ~Undisturbed(eventOf[h])'
    BY <1>1, <2>1, <2>2 DEF StoredEvents, queueVars, Undisturbed
  <2> QED BY <1>0, <1>1, <1>3, <2>3, CountGivenUp
<1> QED BY <1>2, <1>3 DEF ReadRow, CallTo, queueVars, SlotType, RestType

LEMMA CountBump ==
  ASSUME DeliveryAssumption, SlotType, RestType, AtMost, Exactly,
         crashes = 0 /\ ~deployed => BusyInv, NEW h \in Slots, BumpAttempts(h)
  PROVE  AtMost' /\ Exactly'
<1> DEFINE e0 == eventOf[h]
<1>1. /\ call[h] = "bump" /\ call'[h] = "error" /\ e0 \in Events
      /\ UNCHANGED <<eventOf, failures, purged, reaped, crashes, deployed>>
      /\ queueFailed' = queueFailed \/ queueFailed'
      /\ \A k \in Slots \ {h} : call'[k] = call[k] /\ attemptsRead'[k] = attemptsRead[k]
  BY DEF BumpAttempts, CallAt, CallTo, CallStep, QueueFails, relayVars, queueVars, removalVars, agentVars,
     worldVars, SlotType, RestType
<1>0. \A e : Undisturbed(e)' => Undisturbed(e)
  BY <1>1 DEF Undisturbed
<1>2. CASE UNCHANGED attempts /\ queueFailed'
  <2>1. ~Undisturbed(e0)'
    BY <1>2 DEF Undisturbed
  <2> QED BY <1>0, <1>1, <1>2, <2>1, CountGivenUp
<1>3. CASE UNCHANGED attempts /\ attemptsRead[h] = NoRow
  <2>1. attempts[e0] # NoRow
    BY <1>1 DEF RestType, NoRow
  <2>2. ~Undisturbed(e0)
    BY <1>1, <1>3, <2>1 DEF Exactly
  <2>3. ~Undisturbed(e0)'
    BY <1>1, <2>2 DEF Undisturbed
  <2> QED BY <1>0, <1>1, <1>3, <2>3, CountGivenUp
<1>4. CASE /\ attempts' = [attempts EXCEPT ![e0] = attemptsRead[h] + 1] /\ attemptsRead[h] # NoRow
           /\ queueFailed' = queueFailed
  <2>1. /\ \A e : e # e0 => Counters(e)' = Counters(e)
        /\ (Cardinality(Counters(e0)))' = Cardinality(Counters(e0)) - 1
        /\ Cardinality(Counters(e0)) \in Nat
    BY <1>1, CounterLeaves, CountersFinite
  <2>2. /\ attempts'[e0] = attemptsRead[h] + 1 /\ \A e \in Events : e # e0 => attempts'[e] = attempts[e]
        /\ failures[e0] \in Nat /\ attempts[e0] \in Nat /\ attemptsRead \in [Slots -> Int]
    BY <1>1, <1>4 DEF RestType, NoRow
  <2>3. attemptsRead[h] + Cardinality(Counters(e0)) <= failures[e0]
    BY <1>1 DEF AtMost
  <2>4. Undisturbed(e0)' =>
          attemptsRead[h] = attempts[e0] /\ attempts[e0] + Cardinality(Counters(e0)) = failures[e0]
    BY <1>0, <1>1 DEF Exactly
  <2>5. ASSUME NEW e \in Events
        PROVE  /\ (attempts[e] + Cardinality(Counters(e)) <= failures[e])'
               /\ Undisturbed(e)' => (attempts[e] + Cardinality(Counters(e)) = failures[e])'
    <3>1. CASE e # e0
      BY <1>0, <1>1, <2>1, <2>2, <3>1 DEF AtMost, Exactly
    <3>2. CASE e = e0
      BY <1>1, <1>4, <2>1, <2>2, <2>3, <2>4, <3>2
    <3> QED BY <3>1, <3>2
  <2>6. ASSUME NEW k \in Slots, call'[k] = "bump"
        PROVE  /\ (attemptsRead[k] + Cardinality(Counters(eventOf[k])) <= failures[eventOf[k]])'
               /\ Undisturbed(eventOf[k])' => (attemptsRead[k] = attempts[eventOf[k]])'
    <3>1. /\ k # h /\ call[k] = "bump" /\ attemptsRead'[k] = attemptsRead[k]
          /\ attemptsRead[k] \in Int /\ eventOf[k] \in Events
      BY <1>1, <2>2, <2>6 DEF SlotType
    <3>2. attemptsRead[k] + Cardinality(Counters(eventOf[k])) <= failures[eventOf[k]]
      BY <3>1 DEF AtMost
    <3>3. Undisturbed(eventOf[k])' => attemptsRead[k] = attempts[eventOf[k]]
      BY <1>1, <3>1 DEF Exactly, Undisturbed
    <3>4. CASE eventOf[k] # e0
      <4>1. /\ (Cardinality(Counters(eventOf[k])))' = Cardinality(Counters(eventOf[k]))
            /\ attempts'[eventOf[k]] = attempts[eventOf[k]]
        BY <1>1, <2>1, <2>2, <3>1, <3>4
      <4> QED BY <1>1, <3>1, <3>2, <3>3, <4>1
    <3>5. CASE eventOf[k] = e0
      <4>1. (Cardinality(Counters(eventOf[k])))' = Cardinality(Counters(e0)) - 1
        BY <1>1, <2>1, <3>5
      <4>2. (attemptsRead[k] + Cardinality(Counters(eventOf[k])) <= failures[eventOf[k]])'
        BY <1>1, <2>1, <2>2, <3>1, <3>2, <3>5, <4>1
      <4>3. ~(crashes = 0 /\ ~deployed)
        BY <1>1, <3>1, <3>5 DEF BusyInv, Busy, Running
      <4>4. ~Undisturbed(eventOf[k])'
        BY <1>1, <4>3 DEF Undisturbed
      <4> QED BY <4>2, <4>4
    <3> QED BY <3>4, <3>5
  <2> QED BY <2>5, <2>6 DEF AtMost, Exactly
<1> QED BY <1>1, <1>2, <1>3, <1>4 DEF BumpAttempts, NextAttempt, QueueFails, queueVars

(* Rows that go take their counts with them.                               *)
LEMMA CountRemoved ==
  ASSUME DeliveryAssumption, SlotType, RestType, AtMost, Exactly, Purge \/ Reap
  PROVE  AtMost' /\ Exactly'
<1>1. PICK S \in SUBSET Events : RowsGo(S)
  BY RemovalEffect
<1>2. UNCHANGED <<eventOf, call, queueFailed, failures, crashes, deployed>>
  BY RemovalEffect
<1>3. \A e : Counters(e)' = Counters(e) /\ Cardinality(Counters(e)) \in Nat
  BY <1>2, CountersFinite DEF Counters
<1>4. \A e \in Events : Undisturbed(e)' => Undisturbed(e) /\ e \notin S
  BY <1>1, <1>2 DEF RowsGo, Undisturbed
<1>5. ASSUME NEW e \in Events
      PROVE  /\ (attempts[e] + Cardinality(Counters(e)) <= failures[e])'
             /\ Undisturbed(e)' => (attempts[e] + Cardinality(Counters(e)) = failures[e])'
  <2>1. /\ attempts[e] + Cardinality(Counters(e)) <= failures[e]
        /\ attempts[e] \in Nat /\ failures[e] \in Nat
    BY DEF AtMost, RestType
  <2>2. attempts'[e] = IF e \in S THEN 0 ELSE attempts[e]
    BY <1>1 DEF RowsGo
  <2>3. Cardinality(Counters(e)) <= failures[e]
    BY <1>3, <2>1
  <2> QED BY <1>2, <1>3, <1>4, <2>1, <2>2, <2>3 DEF Exactly
<1>6. ASSUME NEW k \in Slots, call'[k] = "bump"
      PROVE  /\ (attemptsRead[k] + Cardinality(Counters(eventOf[k])) <= failures[eventOf[k]])'
             /\ Undisturbed(eventOf[k])' => (attemptsRead[k] = attempts[eventOf[k]])'
  <2>1. call[k] = "bump" /\ eventOf[k] \in Events /\ eventOf'[k] = eventOf[k]
    BY <1>2, <1>6 DEF SlotType
  <2>2. /\ attemptsRead[k] + Cardinality(Counters(eventOf[k])) <= failures[eventOf[k]]
        /\ attempts[eventOf[k]] + Cardinality(Counters(eventOf[k])) <= failures[eventOf[k]]
    BY <2>1 DEF AtMost
  <2>3. attempts[eventOf[k]] \in Nat /\ failures[eventOf[k]] \in Nat
    BY <2>1 DEF RestType
  <2>4. CASE eventOf[k] \in S
    <3>1. attemptsRead'[k] = -1
      BY <1>1, <2>1, <2>4 DEF RowsGo, NoRow
    <3>2. -1 + Cardinality(Counters(eventOf[k])) <= failures[eventOf[k]]
      BY <1>3, <2>2, <2>3
    <3>3. ~Undisturbed(eventOf[k])'
      BY <1>1, <1>2, <2>4 DEF RowsGo, Undisturbed
    <3> QED BY <1>2, <1>3, <2>1, <3>1, <3>2, <3>3
  <2>5. CASE eventOf[k] \notin S
    <3>1. attemptsRead'[k] = attemptsRead[k] /\ attempts'[eventOf[k]] = attempts[eventOf[k]]
      BY <1>1, <2>1, <2>5 DEF RowsGo
    <3>2. Undisturbed(eventOf[k])' => attemptsRead[k] = attempts[eventOf[k]]
      <4>1. Undisturbed(eventOf[k])' => Undisturbed(eventOf[k])
        BY <1>1, <1>2 DEF RowsGo, Undisturbed
      <4> QED BY <2>1, <4>1 DEF Exactly
    <3> QED BY <1>2, <1>3, <2>1, <2>2, <3>1, <3>2
  <2> QED BY <2>4, <2>5
<1> QED BY <1>5, <1>6 DEF AtMost, Exactly

LEMMA CountStep ==
  ASSUME DeliveryAssumption, SlotType, RestType, UnmadeInv, StoredInv, AtMost, Exactly,
         crashes = 0 /\ ~deployed => BusyInv, [Next]_vars
  PROVE  AtMost' /\ Exactly'
<1>1. ASSUME NEW e \in Events, NEW h \in Slots, AcceptEvent(h, e)
      PROVE  AtMost' /\ Exactly'
  <2>1. /\ call[h] \notin {"readRow", "bump"} /\ call'[h] = "none"
        /\ \A k \in Slots \ {h} : call'[k] = call[k] /\ eventOf'[k] = eventOf[k]
        /\ UNCHANGED <<attempts, attemptsRead, failures, queueFailed, purged, reaped, crashes, deployed>>
    BY <1>1 DEF AcceptEvent, Busy, Running, queueVars, removalVars, agentVars, worldVars, SlotType
  <2>2. \A f \in Events : Counters(f)' = Counters(f)
    BY <2>1 DEF Counters
  <2>3. \A k \in Slots : call'[k] = "bump" =>
          call[k] = "bump" /\ eventOf'[k] = eventOf[k] /\ attemptsRead'[k] = attemptsRead[k]
    BY <2>1
  <2>4. \A f \in Events : Undisturbed(f)' => Undisturbed(f)
    BY <2>1 DEF Undisturbed
  <2> QED BY <2>1, <2>2, <2>3, <2>4, CountKept
<1>2. ASSUME NEW h \in Slots, HandlerStep(h)
      PROVE  AtMost' /\ Exactly'
  <2>1. /\ UNCHANGED <<eventOf, attempts, attemptsRead, failures, crashes, deployed>>
        /\ (queueFailed' = queueFailed \/ queueFailed') /\ UNCHANGED <<purged, reaped>>
        /\ \A k \in Slots \ {h} : call'[k] = call[k]
    BY <1>2, HandlerEffect
  <2>2. call'[h] = call[h] \/ {call[h], call'[h]} \cap {"readRow", "bump"} = {}
    BY <1>2, HandlerEffect DEF UnmadeInv, Unmade
  <2>3. \A e \in Events : Counters(e)' = Counters(e)
    BY <2>1, <2>2 DEF Counters
  <2>4. \A k \in Slots : call'[k] = "bump" => call[k] = "bump"
    BY <2>1, <2>2
  <2>5. \A e \in Events : Undisturbed(e)' => Undisturbed(e)
    BY <2>1 DEF Undisturbed
  <2> QED BY <2>1, <2>3, <2>4, <2>5, CountKept
<1>3. ASSUME NEW h \in Slots, CheckTenant(h) \/ RecordDelivery(h)
      PROVE  AtMost' /\ Exactly'
  <2>1. /\ UNCHANGED <<eventOf, attempts, attemptsRead, failures, crashes, deployed, queueFailed>>
        /\ UNCHANGED <<purged, reaped>>
        /\ {call[h], call'[h]} \cap {"readRow", "bump"} = {}
        /\ \A k \in Slots \ {h} : call'[k] = call[k]
    BY <1>3 DEF CheckTenant, RecordDelivery, CallAt, CallTo, CallStep, relayVars, queueVars,
         removalVars, agentVars, worldVars, SlotType
  <2>2. \A e \in Events : Counters(e)' = Counters(e)
    BY <2>1 DEF Counters
  <2>3. \A k \in Slots : call'[k] = "bump" => call[k] = "bump"
    BY <2>1
  <2>4. \A e \in Events : Undisturbed(e)' => Undisturbed(e)
    BY <2>1 DEF Undisturbed
  <2> QED BY <2>1, <2>2, <2>3, <2>4, CountKept
<1>4. ASSUME NEW h \in Slots, ForwardToRuntime(h) \/ ReadRow(h) \/ BumpAttempts(h)
      PROVE  AtMost' /\ Exactly'
  BY <1>4, CountForward, CountRead, CountBump
<1>5. CASE ControlPlaneCrash
  <2>1. /\ crashes' = crashes + 1 /\ crashes \in Nat
        /\ \A h \in Slots : call'[h] \notin {"readRow", "bump"}
        /\ UNCHANGED <<eventOf, attempts, failures>>
    BY <1>5 DEF ControlPlaneCrash, MayCrash, Running, relayVars, queueVars, agentVars, RestType, SlotType
  <2>2. \A e : Counters(e)' = {} /\ Cardinality({}) = 0
    BY <2>1, FS_EmptySet DEF Counters
  <2>3. ASSUME NEW e \in Events PROVE (attempts[e] + Cardinality(Counters(e)) <= failures[e])'
    <3>1. /\ attempts[e] + Cardinality(Counters(e)) <= failures[e] /\ Cardinality(Counters(e)) \in Nat
          /\ attempts[e] \in Nat /\ failures[e] \in Nat
      BY CountersFinite DEF AtMost, RestType
    <3>2. (Cardinality(Counters(e)))' = 0
      BY <2>2
    <3>3. attempts[e] + 0 <= failures[e]
      BY <3>1
    <3> QED BY <2>1, <3>2, <3>3
  <2> QED BY <2>1, <2>3 DEF AtMost, Exactly, Undisturbed
<1>6. CASE RelayCrash
  <2>1. crashes' = crashes + 1 /\ crashes \in Nat /\ UNCHANGED <<eventOf, call, attempts, attemptsRead, failures>>
    BY <1>6 DEF RelayCrash, MayCrash, callVars, queueVars, agentVars, RestType
  <2>2. \A e \in Events : Counters(e)' = Counters(e)
    BY <2>1 DEF Counters
  <2>3. \A e \in Events : ~Undisturbed(e)'
    BY <2>1 DEF Undisturbed
  <2> QED BY <2>1, <2>2, <2>3, CountKept
<1>7. CASE Purge \/ Reap
  BY <1>7, CountRemoved
<1>8. CASE UNCHANGED <<eventOf, call, attempts, attemptsRead, failures, crashes, deployed, queueFailed,
                       purged, reaped>>
  <2>1. \A e \in Events : Counters(e)' = Counters(e)
    BY <1>8 DEF Counters
  <2>2. \A e \in Events : Undisturbed(e)' => Undisturbed(e)
    BY <1>8 DEF Undisturbed
  <2> QED BY <1>8, <2>1, <2>2, CountKept
<1> QED BY <1>1, <1>2, <1>3, <1>4, <1>5, <1>6, <1>7, <1>8 DEF Next, CallProgress, LoseCopy, IgnoreRetry,
          IgnoreDuplicate, Evict, RelayBoot, ControlPlaneBoot, TenantChanges, Tick, Unheard, relayVars,
          callVars, queueVars, removalVars, agentVars, worldVars, vars

(* The attempts column never exceeds the failed forwards of its event, and *)
(* while nothing crashes, no statement fails and its row is not removed it *)
(* counts every one: the dedup map keeps two calls from reading the same   *)
(* count.                                                                  *)
THEOREM AttemptsAlwaysFailures ==
  ASSUME DedupOutlivesHandlers
  PROVE  Spec => []AttemptsAreFailures
<1> DEFINE Inv == /\ SlotType /\ RestType /\ UnmadeInv /\ StoredInv /\ AtMost /\ Exactly
                  /\ crashes = 0 /\ ~deployed => BusyInv
<1>1. Init => Inv
  <2> SUFFICES ASSUME Init PROVE Inv
    OBVIOUS
  <2>1. SlotType /\ RestType
    BY SlotTypeInit, RestInit, DeliveryAssumption
  <2>2. \A e : Counters(e) = {} /\ Cardinality({}) = 0
    BY FS_EmptySet DEF Init, Counters
  <2>3. AtMost
    BY <2>2 DEF Init, AtMost
  <2>4. Exactly
    BY <2>2 DEF Init, Exactly
  <2>5. UnmadeInv /\ StoredInv /\ BusyInv
    BY DEF Init, UnmadeInv, Unmade, StoredInv, BusyInv, Busy, Running
  <2> QED BY <2>1, <2>3, <2>4, <2>5
<1>2. Inv /\ [Next]_vars => Inv'
  BY SlotTypeStep, RestStep, UnmadeStep, StoredStep, CountStep, BusyStep, DeliveryAssumption
<1>3. Inv => AttemptsAreFailures
  <2> SUFFICES ASSUME Inv, NEW e \in Events
               PROVE  /\ attempts[e] <= failures[e]
                      /\ Undisturbed(e) /\ ~Counting(e) => attempts[e] = failures[e]
    BY DEF AttemptsAreFailures
  <2>1. /\ attempts[e] \in Nat /\ failures[e] \in Nat /\ Cardinality(Counters(e)) \in Nat
        /\ attempts[e] + Cardinality(Counters(e)) <= failures[e]
    BY CountersFinite, DeliveryAssumption DEF RestType, AtMost
  <2>2. ASSUME Undisturbed(e), ~Counting(e)
        PROVE  attempts[e] = failures[e]
    <3>1. attempts[e] + Cardinality(Counters(e)) = failures[e]
      BY <2>2 DEF Exactly
    <3>2. Counters(e) = {}
      BY <2>2 DEF Counting, Counters
    <3> QED BY <2>1, <3>1, <3>2, FS_EmptySet
  <2> QED BY <2>1, <2>2
<1> QED BY <1>1, <1>2, <1>3, PTL DEF Spec
-----------------------------------------------------------------------------
(* The refinement of MessagePath                                           *)

(* Who works on an event was started for it, and the sets that tell how    *)
(* far events have come are nested.                                        *)
TakenInv ==
  /\ \A h \in Slots : Busy(h) => eventOf[h] \in taken
  /\ \A e \in Events : row[e] # "none" => e \in taken
  /\ replied \subseteq answered /\ answered \subseteq given /\ given \subseteq taken

pathSets == <<taken, given, answered, replied>>

(* Handlers and calls take no event and touch what is said of others only. *)
LEMMA TakenHandlerStep ==
  ASSUME DeliveryAssumption, SlotType, AnswerInv, TakenInv, NEW h \in Slots, HandlerStep(h)
  PROVE  TakenInv'
<1> DEFINE e == eventOf[h]
<1>1. /\ e \in taken /\ e \in Events
      /\ UNCHANGED <<taken, given, answered, eventOf>>
      /\ \A k \in Slots \ {h} : step'[k] = step[k]
  <2>1. UNCHANGED <<taken, given, answered>>
    BY DEF HandlerStep, Provision, SeeActive, GiveUp, Welcome, Enqueue, MarkProcessing, Forward,
       Answered, GiveUpWaiting, MarkDelivered, Reply, RelayStep, slackVars, agentVars
  <2> QED BY <2>1, HandlerStepSlots DEF TakenInv, Busy, SlotType
<1>2. \A k \in Slots : call'[k] = call[k] \/ k = h
  BY DEF HandlerStep, Provision, SeeActive, GiveUp, Welcome, Enqueue, MarkProcessing, Forward,
     Answered, GiveUpWaiting, MarkDelivered, Reply, callVars, SlotType
<1>3. \A k \in Events : row'[k] # row[k] => k = e
  BY DEF HandlerStep, Provision, SeeActive, GiveUp, Welcome, Enqueue, MarkProcessing, Forward,
     Answered, GiveUpWaiting, MarkDelivered, Reply, Mark, WriteRow, QueueFails, queueVars, SlotType
<1>4. replied' = replied \/ (replied' = replied \cup {e} /\ e \in answered)
  BY DEF HandlerStep, Provision, SeeActive, GiveUp, Welcome, Enqueue, MarkProcessing, Forward,
     Answered, GiveUpWaiting, MarkDelivered, Reply, At, userVars, AnswerInv
<1> HIDE DEF e
<1>5. \A k \in Slots : Busy(k)' => eventOf'[k] \in taken'
  BY <1>1, <1>2 DEF TakenInv, Busy, Running, e
<1>6. \A k \in Events : row'[k] # "none" => k \in taken'
  BY <1>1, <1>3 DEF TakenInv
<1> QED BY <1>1, <1>4, <1>5, <1>6 DEF TakenInv

LEMMA TakenCallStep ==
  ASSUME SlotType, TakenInv, NEW h \in Slots, CallProgress(h)
  PROVE  TakenInv'
<1>1. /\ Running(h) /\ UNCHANGED <<taken, replied, step, eventOf, row>>
      /\ \A k \in Slots : call'[k] = call[k] \/ k = h
  <2>1. Running(h) /\ UNCHANGED <<taken, replied>>
    BY DEF CallProgress, CheckTenant, ForwardToRuntime, RecordDelivery, ReadRow, BumpAttempts,
       CallAt, CallStep, Running, slackVars, userVars
  <2>2. \A k \in Slots : call'[k] = call[k] \/ k = h
    BY DEF CallProgress, CheckTenant, ForwardToRuntime, RecordDelivery, ReadRow, BumpAttempts,
       CallTo, SlotType
  <2> QED BY <2>1, <2>2, CallProgressSlots
<1>2. eventOf[h] \in taken
  BY <1>1 DEF TakenInv, Busy
<1>3. /\ given \subseteq given' /\ given' \subseteq given \cup {eventOf[h]}
      /\ answered' = answered \/ (answered' = answered \cup {eventOf[h]} /\ eventOf[h] \in given')
  BY DEF CallProgress, CheckTenant, ForwardToRuntime, RecordDelivery, ReadRow, BumpAttempts, agentVars
<1>4. \A k \in Slots : Busy(k)' => eventOf'[k] \in taken'
  BY <1>1, <1>2 DEF TakenInv, Busy, Running
<1> QED BY <1>1, <1>2, <1>3, <1>4 DEF TakenInv

LEMMA TakenStep ==
  ASSUME DeliveryAssumption, SlotType, AnswerInv, TakenInv, [Next]_vars
  PROVE  TakenInv'
<1>1. ASSUME NEW h \in Slots, HandlerStep(h) \/ CallProgress(h)
      PROVE  TakenInv'
  BY <1>1, TakenHandlerStep, TakenCallStep
<1>2. ASSUME NEW e \in Events, NEW h \in Slots, AcceptEvent(h, e)
      PROVE  TakenInv'
  <2>1. /\ taken' = taken \cup {e} /\ UNCHANGED <<row, given, answered, replied>>
        /\ \A k \in Slots \ {h} : UNCHANGED <<step[k], call[k], eventOf[k]>>
        /\ eventOf'[h] = e
    BY <1>2 DEF AcceptEvent, SlotType, queueVars, agentVars, userVars
  <2> QED BY <2>1 DEF TakenInv, Busy, Running
<1>3. CASE RelayCrash \/ RelayBoot \/ TenantChanges \/ ControlPlaneCrash
  <2>1. UNCHANGED <<pathSets, row, eventOf>>
    BY <1>3 DEF RelayCrash, RelayBoot, TenantChanges, ControlPlaneCrash, slackVars, relayVars, queueVars,
       agentVars, userVars, pathSets
  <2>2. \A k \in Slots : Busy(k)' => Busy(k)
    BY <1>3 DEF RelayCrash, RelayBoot, TenantChanges, ControlPlaneCrash, relayVars, callVars, Busy,
       Running, SlotType
  <2> QED BY <2>1, <2>2 DEF TakenInv, pathSets
<1>4. CASE ControlPlaneBoot
  BY <1>4 DEF ControlPlaneBoot, AfterBoot, slackVars, relayVars, callVars, agentVars, userVars,
     TakenInv, Busy, Running, SlotType
<1>5. CASE Purge \/ Reap
  BY <1>5, RemovalEffect DEF RowsGo, TakenInv, Busy, Running
<1>6. CASE UNCHANGED <<pathSets, row, eventOf, step, call>>
  BY <1>6 DEF pathSets, TakenInv, Busy, Running
<1> QED BY <1>1, <1>2, <1>3, <1>4, <1>5, <1>6 DEF Next, LoseCopy, IgnoreRetry, IgnoreDuplicate, Evict,
          Tick, Unheard, vars, slackVars, relayVars, callVars, queueVars, agentVars, userVars, pathSets

(* The id a handler holds is that of a row which is there.                 *)
HeldInv == \A h \in Slots : hasRow[h] => row[eventOf[h]] # "none"

LEMMA HeldStep ==
  ASSUME DeliveryAssumption, SlotType, RestType, HeldInv, [Next]_vars
  PROVE  HeldInv'
<1>1. ASSUME NEW h \in Slots, HandlerStep(h)
      PROVE  HeldInv'
  <2>1. eventOf' = eventOf /\ eventOf[h] \in Events
    BY <1>1, HandlerStepSlots DEF SlotType
  <2>2. \A e \in Events : row[e] # "none" => row'[e] # "none"
    BY <1>1 DEF HandlerStep, Provision, SeeActive, GiveUp, Welcome, Enqueue, MarkProcessing, Forward,
       Answered, GiveUpWaiting, MarkDelivered, Reply, Mark, WriteRow, QueueFails, queueVars, SlotType
  <2>3. \A k \in Slots : hasRow'[k] => hasRow[k] \/ (k = h /\ row'[eventOf[h]] # "none")
    BY <1>1 DEF HandlerStep, Provision, SeeActive, GiveUp, Welcome, Enqueue, MarkProcessing, Forward,
       Answered, GiveUpWaiting, MarkDelivered, Reply, GoTo, GoToMark, RestType
  <2> QED BY <2>1, <2>2, <2>3 DEF HeldInv, SlotType
<1>2. ASSUME NEW h \in Slots, CallProgress(h)
      PROVE  HeldInv'
  <2>1. UNCHANGED <<eventOf, row>>
    BY <1>2, CallProgressSlots
  <2>2. UNCHANGED hasRow
    BY <1>2 DEF CallProgress, CheckTenant, ForwardToRuntime, RecordDelivery, ReadRow, BumpAttempts,
       CallStep, relayVars
  <2> QED BY <2>1, <2>2 DEF HeldInv
<1>3. ASSUME NEW e \in Events, NEW h \in Slots, AcceptEvent(h, e)
      PROVE  HeldInv'
  <2>1. /\ hasRow' = [hasRow EXCEPT ![h] = FALSE] /\ eventOf' = [eventOf EXCEPT ![h] = e]
        /\ row' = row
    BY <1>3 DEF AcceptEvent, queueVars
  <2> QED BY <2>1 DEF HeldInv, SlotType, RestType
<1>4. CASE Purge \/ Reap
  <2>1. PICK S \in SUBSET Events : RowsGo(S)
    BY <1>4, RemovalEffect
  <2>2. \A h \in Slots : hasRow'[h] => hasRow[h] /\ eventOf[h] \notin S
    BY <2>1 DEF RowsGo
  <2>3. \A e \in Events : e \notin S => row'[e] = row[e]
    BY <2>1 DEF RowsGo
  <2> QED BY <1>4, <2>2, <2>3, RemovalEffect DEF HeldInv, SlotType
<1>5. CASE ControlPlaneBoot
  BY <1>5 DEF ControlPlaneBoot, AfterBoot, relayVars, HeldInv, SlotType
<1>6. CASE RelayCrash
  BY <1>6 DEF RelayCrash, HeldInv
<1>7. CASE UNCHANGED <<hasRow, eventOf, row>>
  BY <1>7 DEF HeldInv
<1> QED BY <1>1, <1>2, <1>3, <1>4, <1>5, <1>6, <1>7 DEF Next, LoseCopy, IgnoreRetry, IgnoreDuplicate,
          Evict, RelayBoot, ControlPlaneCrash, TenantChanges, Tick, Unheard, relayVars, queueVars, vars

-----------------------------------------------------------------------------
(* The phases, read off the nested sets.                                   *)
LEMMA PhaseIs ==
  ASSUME TakenInv, NEW e \in Events
  PROVE  /\ Phase[e] = "sent" <=> e \notin taken
         /\ Phase[e] = "taken" <=> e \in taken \ given
         /\ Phase[e] = "given" <=> e \in given \ answered
         /\ Phase[e] = "answered" <=> e \in answered \ replied
         /\ Phase[e] = "replied" <=> e \in replied
BY DEF TakenInv, Phase

LEMMA PhaseStays == UNCHANGED pathSets => UNCHANGED Phase
BY DEF pathSets, Phase

(* An event that comes one phase further is a step of the path.            *)
LEMMA PhaseComes ==
  ASSUME SlotType, TakenInv, NEW e \in Events, row' = row,
         \/ /\ taken' = taken \cup {e} /\ UNCHANGED <<given, answered, replied>>
         \/ /\ given' = given \cup {e} /\ e \in taken /\ UNCHANGED <<taken, answered, replied>>
         \/ /\ given' = given \cup {e} /\ answered' = answered \cup {e} /\ e \in taken
            /\ UNCHANGED <<taken, replied>>
         \/ /\ replied' = replied \cup {e} /\ e \in answered /\ UNCHANGED <<taken, given, answered>>
  PROVE  [Path!Next]_<<Phase, row>>
<1> USE DEF TakenInv, Phase
<1>1. CASE UNCHANGED pathSets
  BY <1>1, PhaseStays
<1>2. CASE e \notin taken /\ taken' = taken \cup {e} /\ UNCHANGED <<given, answered, replied>>
  <2>1. Phase[e] = "sent" /\ Phase' = [Phase EXCEPT ![e] = "taken"]
    BY <1>2
  <2> QED BY <2>1 DEF Path!Next, Path!Take, Path!Comes
<1>3. CASE /\ e \notin given /\ given' = given \cup {e} /\ e \in taken
           /\ UNCHANGED <<taken, answered, replied>>
  <2>1. Phase[e] = "taken" /\ Phase' = [Phase EXCEPT ![e] = "given"]
    BY <1>3
  <2> QED BY <2>1 DEF Path!Next, Path!Give, Path!Comes
<1>4. CASE /\ e \notin answered /\ given' = given \cup {e} /\ answered' = answered \cup {e}
           /\ e \in taken /\ UNCHANGED <<taken, replied>>
  <2>1. Phase[e] \in {"taken", "given"} /\ Phase' = [Phase EXCEPT ![e] = "answered"]
    BY <1>4
  <2> QED BY <2>1 DEF Path!Next, Path!Answer, Path!Comes
<1>5. CASE /\ e \notin replied /\ replied' = replied \cup {e} /\ e \in answered
           /\ UNCHANGED <<taken, given, answered>>
  <2>1. Phase[e] = "answered" /\ Phase' = [Phase EXCEPT ![e] = "replied"]
    BY <1>5
  <2> QED BY <2>1 DEF Path!Next, Path!Reply, Path!Comes
<1> QED BY <1>1, <1>2, <1>3, <1>4, <1>5 DEF pathSets

(* A row that is written for an event that was taken.                      *)
LEMMA RowWritten ==
  ASSUME SlotType, TakenInv, NEW e \in Events, e \in taken, UNCHANGED pathSets,
         \/ row[e] = "none" /\ row' = [row EXCEPT ![e] = "PENDING"]
         \/ row[e] # "none" /\ row' = [row EXCEPT ![e] = "PROCESSING"]
         \/ row[e] # "none" /\ row' = [row EXCEPT ![e] = "DELIVERED"] /\ e \in answered
         \/ row' = row
  PROVE  [Path!Next]_<<Phase, row>>
<1>1. Phase' = Phase
  BY PhaseStays
<1>2. Phase[e] # "sent"
  BY PhaseIs
<1>3. e \in answered => Phase[e] \in {"answered", "replied"}
  BY PhaseIs
<1>4. Path!Store(e) \/ Path!Claim(e) \/ Path!Deliver(e) \/ row' = row
  BY <1>1, <1>2, <1>3 DEF Path!Store, Path!Claim, Path!Deliver, Path!Writes
<1> QED BY <1>1, <1>4 DEF Path!Next

LEMMA PathStep ==
  ASSUME DeliveryAssumption, SlotType, AnswerInv, TakenInv, HeldInv, [Next]_vars
  PROVE  [Path!Next]_<<Phase, row>>
<1>1. ASSUME NEW h \in Slots, Enqueue(h) \/ MarkProcessing(h) \/ MarkDelivered(h)
      PROVE  [Path!Next]_<<Phase, row>>
  <2>1. eventOf[h] \in Events /\ eventOf[h] \in taken
    BY <1>1 DEF Enqueue, MarkProcessing, MarkDelivered, At, TakenInv, Busy, SlotType
  <2>2. UNCHANGED pathSets
    BY <1>1 DEF Enqueue, MarkProcessing, MarkDelivered, RelayStep, slackVars, agentVars, userVars,
       pathSets
  <2>3. MarkDelivered(h) => eventOf[h] \in answered
    BY DEF MarkDelivered, At, AnswerInv
  <2>4. \/ row[eventOf[h]] = "none" /\ row' = [row EXCEPT ![eventOf[h]] = "PENDING"]
        \/ row[eventOf[h]] # "none" /\ row' = [row EXCEPT ![eventOf[h]] = "PROCESSING"]
        \/ /\ row[eventOf[h]] # "none" /\ row' = [row EXCEPT ![eventOf[h]] = "DELIVERED"]
           /\ eventOf[h] \in answered
        \/ row' = row
    <3>1. row = [row EXCEPT ![eventOf[h]] = row[eventOf[h]]]
      BY <2>1 DEF SlotType
    <3>2. CASE Enqueue(h)
      BY <2>1, <3>1, <3>2 DEF Enqueue, WriteRow, QueueFails
    <3>3. CASE MarkProcessing(h)
      BY <2>1, <3>1, <3>3 DEF MarkProcessing, Mark, WriteRow, QueueFails, HeldInv
    <3>4. CASE MarkDelivered(h)
      BY <2>1, <2>3, <3>1, <3>4 DEF MarkDelivered, Mark, WriteRow, QueueFails, HeldInv
    <3> QED BY <1>1, <3>2, <3>3, <3>4
  <2> QED BY <2>1, <2>2, <2>4, RowWritten
<1>2. ASSUME NEW h \in Slots, Reply(h)
      PROVE  [Path!Next]_<<Phase, row>>
  <2>1. eventOf[h] \in Events /\ eventOf[h] \in answered
    BY <1>2 DEF Reply, At, AnswerInv, SlotType
  <2>2. /\ UNCHANGED <<row, taken, given, answered>>
        /\ replied' = replied \/ replied' = replied \cup {eventOf[h]}
    BY <1>2 DEF Reply, RelayStep, slackVars, queueVars, agentVars
  <2>3. CASE replied' = replied
    BY <2>2, <2>3, PhaseStays DEF pathSets
  <2> QED BY <2>1, <2>2, <2>3, PhaseComes
<1>3. ASSUME NEW h \in Slots, ForwardToRuntime(h)
      PROVE  [Path!Next]_<<Phase, row>>
  <2>1. eventOf[h] \in Events /\ eventOf[h] \in taken
    BY <1>3 DEF ForwardToRuntime, CallAt, TakenInv, Busy, Running, SlotType
  <2>2. /\ UNCHANGED <<row, taken, replied>>
        /\ \/ given' = given \cup {eventOf[h]} /\ answered' = answered \cup {eventOf[h]}
           \/ given' = given \cup {eventOf[h]} /\ answered' = answered
           \/ given' = given /\ answered' = answered
    BY <1>3 DEF ForwardToRuntime, CallStep, slackVars, userVars, queueVars
  <2>3. CASE given' = given /\ answered' = answered
    BY <2>2, <2>3, PhaseStays DEF pathSets
  <2> QED BY <2>1, <2>2, <2>3, PhaseComes
<1>4. ASSUME NEW e \in Events, NEW h \in Slots, AcceptEvent(h, e)
      PROVE  [Path!Next]_<<Phase, row>>
  <2>1. taken' = taken \cup {e} /\ UNCHANGED <<row, given, answered, replied>>
    BY <1>4 DEF AcceptEvent, queueVars, agentVars, userVars
  <2> QED BY <2>1, PhaseComes
<1>5. CASE ControlPlaneBoot
  <2>1. PICK older \in SUBSET Events :
          row' = [e \in Events |-> IF e \in older THEN AfterBoot(row[e]) ELSE row[e]]
    BY <1>5 DEF ControlPlaneBoot
  <2> DEFINE S == {e \in older : row[e] = "PROCESSING"}
  <2>2. row' = [e \in Events |-> IF e \in S THEN "PENDING" ELSE row[e]]
    BY <2>1 DEF AfterBoot
  <2>3. S \in SUBSET {e \in Events : row[e] = "PROCESSING"}
    BY <2>1
  <2>4. UNCHANGED Phase
    BY <1>5, PhaseStays DEF ControlPlaneBoot, slackVars, agentVars, userVars, pathSets
  <2> HIDE DEF S
  <2>5. Path!Sweep
    BY <2>2, <2>3, <2>4 DEF Path!Sweep
  <2> QED BY <2>5 DEF Path!Next
<1>6. CASE Purge \/ Reap
  <2>1. UNCHANGED Phase
    BY <1>6, RemovalEffect, PhaseStays DEF pathSets
  <2>2. PICK S \in SUBSET Events : RowsGo(S)
    BY <1>6, RemovalEffect
  <2>3. CASE S = {e \in Events : row[e] # "none"}
    <3>1. row' = [e \in Events |-> "none"]
      BY <2>2, <2>3 DEF RowsGo
    <3> QED BY <2>1, <3>1 DEF Path!Purge, Path!Next
  <2>4. CASE S \in SUBSET {e \in Events : row[e] = "DELIVERED"}
    <3>1. Path!Reap
      BY <2>1, <2>2, <2>4 DEF RowsGo, Path!Reap
    <3> QED BY <3>1 DEF Path!Next
  <2> QED BY <2>2, <2>3, <2>4 DEF RowsGo
<1>7. CASE UNCHANGED <<pathSets, row>>
  BY <1>7, PhaseStays
<1>8. ASSUME NEW h \in Slots, HandlerStep(h) \/ CallProgress(h)
      PROVE  [Path!Next]_<<Phase, row>>
  BY <1>1, <1>2, <1>3, <1>7, <1>8 DEF HandlerStep, Provision, SeeActive, GiveUp, Welcome, Forward,
     Answered, GiveUpWaiting, RelayStep, CallProgress, CheckTenant, RecordDelivery, ReadRow,
     BumpAttempts, QueueFails, CallStep, slackVars, queueVars, agentVars, userVars, pathSets
<1> QED BY <1>4, <1>5, <1>7, <1>8, <1>6 DEF Next, LoseCopy, IgnoreRetry, IgnoreDuplicate, Evict, Tick,
          RelayCrash, RelayBoot, ControlPlaneCrash, TenantChanges, Unheard, vars, slackVars, queueVars,
          agentVars, userVars, pathSets

(* Slack, relay, control plane and agent together move each message along  *)
(* the path of MessagePath, through repeats, timeouts, failed statements   *)
(* and restarts: taken before it is given to the agent or stored, answered *)
(* before it is replied to or marked DELIVERED, and never back; a row goes *)
(* with its tenant or after DELIVERED.                                     *)
THEOREM ImplementsPath == Spec => PathSpec
<1> DEFINE Inv == SlotType /\ RestType /\ AnswerInv /\ TakenInv /\ HeldInv
<1>1. Init => Inv
  <2> SUFFICES ASSUME Init PROVE Inv
    OBVIOUS
  <2>1. SlotType /\ AnswerInv
    BY SlotTypeInit, DeliveryAssumption DEF Init, AnswerInv, DeliveredWasAnswered
  <2> QED BY <2>1, RestInit, DeliveryAssumption DEF Init, TakenInv, HeldInv, Busy, Running
<1>2. Inv /\ [Next]_vars => Inv'
  BY SlotTypeStep, RestStep, AnswerStep, TakenStep, HeldStep, DeliveryAssumption
<1>3. Init => Path!Init
  <2> SUFFICES ASSUME Init PROVE Phase = [e \in Events |-> "sent"]
    BY DEF Init, Path!Init
  <2> QED BY DEF Init, Phase
<1>4. Inv /\ [Next]_vars => [Path!Next]_<<Phase, row>>
  BY PathStep, DeliveryAssumption
<1> QED BY <1>1, <1>2, <1>3, <1>4, PTL DEF Spec, PathSpec, Path!Spec, Path!pathVars

-----------------------------------------------------------------------------
(* Why handlers end                                                        *)

(* The steps a handler has still to take, at most.                         *)
Ahead ==
  [s \in RelaySteps |->
     CASE s = "provision" -> 9 [] s = "poll" -> 8 [] s = "welcome" -> 7 [] s = "enqueue" -> 6
       [] s = "mark" -> 5 [] s = "send" -> 4 [] s = "wait" -> 3 [] s = "markDelivered" -> 2
       [] s = "reply" -> 1 [] s = "idle" -> 0]

(* A handler at work stays with its event, and each step that moves it     *)
(* brings it nearer to its end.                                            *)
HandlersAdvance ==
  [][\A h \in Slots : ~At(h, "idle") =>
       /\ step'[h] = step[h] \/ Ahead[step'[h]] < Ahead[step[h]]
       /\ eventOf'[h] = eventOf[h]]_vars

LEMMA HandlerStepAdvances ==
  ASSUME DeliveryAssumption, SlotType, NEW h \in Slots, HandlerStep(h)
  PROVE  Ahead[step'[h]] < Ahead[step[h]]
<1>1. CASE Provision(h) \/ SeeActive(h) \/ GiveUp(h) \/ Welcome(h) \/ Answered(h)
           \/ GiveUpWaiting(h) \/ Reply(h)
  BY <1>1 DEF Provision, SeeActive, GiveUp, Welcome, Answered, GiveUpWaiting, Reply, At, GoTo,
       SlotType, RelaySteps, Ahead
<1>2. CASE Enqueue(h) \/ MarkProcessing(h) \/ Forward(h) \/ MarkDelivered(h)
  BY <1>2 DEF Enqueue, MarkProcessing, Forward, MarkDelivered, At, GoTo, GoToMark, SlotType, RelaySteps,
       Ahead
<1> QED BY <1>1, <1>2 DEF HandlerStep

(* Nothing sends a handler back, for any number of events, slots, copies   *)
(* and crashes: it ends after at most nine steps of its own, which is what *)
(* HandlersEnd needs besides fairness.                                     *)
THEOREM HandlersAlwaysAdvance == Spec => HandlersAdvance
<1> DEFINE Advance(h) == /\ step'[h] = step[h] \/ Ahead[step'[h]] < Ahead[step[h]]
                         /\ eventOf'[h] = eventOf[h]
<1>1. ASSUME SlotType, [Next]_vars, NEW h \in Slots, ~At(h, "idle")
      PROVE  Advance(h)
  <2>1. ASSUME NEW k \in Slots, HandlerStep(k)
        PROVE  Advance(h)
    BY <1>1, <2>1, HandlerStepSlots, HandlerStepAdvances, DeliveryAssumption
  <2>2. ASSUME NEW k \in Slots, CallProgress(k)
        PROVE  Advance(h)
    BY <1>1, <2>2, CallProgressSlots
  <2>3. ASSUME NEW e \in Events, NEW k \in Slots, AcceptEvent(k, e)
        PROVE  Advance(h)
    BY <1>1, <2>3 DEF AcceptEvent, Busy, At, SlotType
  <2>4. ASSUME NEW e \in Events, LoseCopy(e) \/ IgnoreRetry(e) \/ IgnoreDuplicate(e)
        PROVE  Advance(h)
    BY <2>4 DEF LoseCopy, IgnoreRetry, IgnoreDuplicate, relayVars
  <2>5. CASE RelayCrash
    <3>1. step'[h] = "idle" /\ step[h] \in RelaySteps \ {"idle"} /\ UNCHANGED eventOf
      BY <1>1, <2>5 DEF RelayCrash, At, SlotType
    <3> QED BY <3>1 DEF Ahead, RelaySteps
  <2>6. CASE \/ Evict \/ RelayBoot \/ ControlPlaneCrash \/ ControlPlaneBoot \/ TenantChanges \/ Tick
             \/ UNCHANGED vars
    BY <2>6 DEF Evict, RelayBoot, ControlPlaneCrash, ControlPlaneBoot, TenantChanges, Tick, relayVars,
       vars
  <2>7. CASE Purge \/ Reap
    BY <2>7, RemovalEffect
  <2> QED BY <1>1, <2>1, <2>2, <2>3, <2>4, <2>5, <2>6, <2>7 DEF Next
<1>2. Init => SlotType
  BY SlotTypeInit, DeliveryAssumption
<1>3. SlotType /\ [Next]_vars => SlotType'
  BY SlotTypeStep, DeliveryAssumption
<1>4. SlotType /\ [Next]_vars => \A h \in Slots : ~At(h, "idle") => Advance(h)
  BY <1>1
<1> QED BY <1>2, <1>3, <1>4, PTL DEF Spec, HandlersAdvance
=============================================================================
