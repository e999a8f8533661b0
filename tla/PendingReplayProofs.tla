------------------------ MODULE PendingReplayProofs ------------------------
(***************************************************************************)
(* Proofs about PendingReplay, for every number of messages, calls, runs   *)
(* of the agent, attempts and faults.                                      *)
(***************************************************************************)
EXTENDS PendingReplay, TLAPS

(* What the constants are.                                                 *)
USE RuntimeAssumption, ReplayAssumption DEF RuntimeAssumption, ReplayAssumption

(* A request is at work or waits to be taken exactly while its call awaits *)
(* it, carries the call's current message, and says "answered" only of a   *)
(* message the agent answered.                                             *)
RequestInv ==
  \A c \in Calls :
    /\ request[c] # "none" <=> step[c] = "await"
    /\ step[c] = "await" => IsCurrent(c, body[c])
    /\ request[c] = "answered" => body[c] \in answered

(* Lists are of rows, and there are none of calls that are over.           *)
ListInv ==
  /\ \A c \in Calls : step[c] = "idle" => todo[c] = {}
  /\ \A c \in Calls : \A m \in todo[c] : row[m] # "none"
  /\ ~up => \A c \in Calls : step[c] = "idle"

Inv == TypeOK /\ RequestInv /\ ListInv

LEMMA BodyIsMessage ==
  ASSUME TypeOK, RequestInv, NEW c \in Calls, request[c] # "none"
  PROVE  body[c] \in Messages
BY DEF TypeOK, RequestInv, IsCurrent

-----------------------------------------------------------------------------
(* The steps of a call, by what they do to the variables of the relay.     *)
LEMMA SendEffect ==
  ASSUME TypeOK, NEW c \in Calls, SendNext(c)
  PROVE  \E m \in Messages :
           /\ step[c] = "send" /\ IsCurrent(c, m) /\ row[m] # "gone"
           /\ row' = [row EXCEPT ![m] = "PROCESSING"]
           /\ tried' = tried \cup {m} /\ swept' = swept \ {m}
           /\ step' = [step EXCEPT ![c] = "await"]
           /\ \/ request' = [request EXCEPT ![c] = "running"] /\ tries' = [tries EXCEPT ![c] = 1]
              \/ request' = [request EXCEPT ![c] = "failed"] /\ UNCHANGED tries
           /\ body' = [body EXCEPT ![c] = m]
           /\ UNCHANGED <<orphans, answered, attempts, todo, attemptsRead, up, faults, refused,
                          failures, shared>>
  BY DEF SendNext, At, GoTo, Becomes, Marked, Accept, Refuse, relayVars

(* A response or a timeout ends the work on the current message.           *)
LEMMA EndEffect ==
  ASSUME TypeOK, NEW c \in Calls, TakeResponse(c) \/ FetchTimesOut(c)
  PROVE  \E m \in Messages :
           /\ step[c] = "await" /\ IsCurrent(c, m)
           /\ \/ request[c] = "answered" /\ RecordSuccess(c, m)
              \/ RecordFailure(c, m)
           /\ Finished(c, m)
           /\ request' = [request EXCEPT ![c] = "none"]
           /\ body' = [body EXCEPT ![c] = 0]
           /\ tries' \in [Calls -> 0 .. MAX_RETRIES]
           /\ orphans' \subseteq orphans \cup {body[c]}
           /\ UNCHANGED <<answered, up, faults, refused, tried, shared>>
<1>1. CASE TakeResponse(c)
  <2>1. /\ request' = [request EXCEPT ![c] = "none"]
        /\ body' = [body EXCEPT ![c] = 0]
        /\ UNCHANGED <<tries, orphans, answered>>
    BY <1>1 DEF TakeResponse, Collect
  <2>2. tries' \in [Calls -> 0 .. MAX_RETRIES] /\ orphans' \subseteq orphans \cup {body[c]}
    BY <2>1 DEF TypeOK, RuntimeTypeOK
  <2>3. PICK m \in Messages :
          /\ IsCurrent(c, m)
          /\ IF IsSuccess(request[c]) THEN RecordSuccess(c, m) ELSE RecordFailure(c, m)
          /\ Finished(c, m)
    BY <1>1 DEF TakeResponse
  <2>4. (request[c] = "answered" /\ RecordSuccess(c, m)) \/ RecordFailure(c, m)
    BY <2>3 DEF IsSuccess
  <2>5. step[c] = "await" /\ UNCHANGED <<up, faults, refused, tried, shared>>
    BY <1>1 DEF TakeResponse, At, relayVars
  <2> QED BY <2>1, <2>2, <2>3, <2>4, <2>5
<1>2. CASE FetchTimesOut(c)
  <2>0. Leave({c})
    BY <1>2 DEF FetchTimesOut
  <2>1. /\ request' = [request EXCEPT ![c] = "none"]
        /\ body' = [body EXCEPT ![c] = 0]
        /\ tries' \in [Calls -> 0 .. MAX_RETRIES]
        /\ UNCHANGED answered
    <3>1. request' = [request EXCEPT ![c] = "none"]
      BY <2>0 DEF Leave, TypeOK, RuntimeTypeOK
    <3>2. body' = [body EXCEPT ![c] = 0]
      BY <2>0 DEF Leave, TypeOK, RuntimeTypeOK
    <3>3. tries' \in [Calls -> 0 .. MAX_RETRIES]
      BY <2>0 DEF Leave, TypeOK, RuntimeTypeOK
    <3> QED BY <2>0, <3>1, <3>2, <3>3 DEF Leave
  <2>4. orphans' \subseteq orphans \cup {body[c]}
    BY <1>2 DEF FetchTimesOut, Leave
  <2>2. step[c] = "await" /\ UNCHANGED <<up, faults, refused, tried, shared>>
    BY <1>2 DEF FetchTimesOut, At, relayVars
  <2>3. PICK m \in Messages : IsCurrent(c, m) /\ RecordFailure(c, m) /\ Finished(c, m)
    BY <1>2 DEF FetchTimesOut
  <2> QED BY <2>1, <2>2, <2>3, <2>4
<1> QED BY <1>1, <1>2

(* What happens in the container leaves the relay and the requests it      *)
(* waits for as they are, except that a request may end.                   *)
LEMMA RuntimeEffect ==
  ASSUME TypeOK, RequestInv, (\E c \in Calls : RuntimeStep(c)) \/ RuntimeAlone
  PROVE  /\ RuntimeTypeOK'
         /\ UNCHANGED <<rowVars, callVars, relayVars, historyVars, body>>
         /\ \A d \in Calls : request'[d] = "none" <=> request[d] = "none"
         /\ \A d \in Calls : request'[d] = "answered" =>
              request[d] = "answered" \/ body[d] \in answered'
         /\ answered \subseteq answered'
<1> DEFINE Effect == /\ RuntimeTypeOK'
                     /\ \A d \in Calls : request'[d] = "none" <=> request[d] = "none"
                     /\ \A d \in Calls : request'[d] = "answered" =>
                          request[d] = "answered" \/ body[d] \in answered'
                     /\ answered \subseteq answered'
<1>1. UNCHANGED <<rowVars, callVars, relayVars, historyVars, body>>
  BY DEF RuntimeStep, RequestStep, RunAnswers, RunFails, RuntimeAlone, OrphanEnds, ContainerStops,
     ReplayUnchanged
<1>2. ASSUME NEW c \in Calls, RunAnswers(c)
      PROVE  Effect
  <2>1. body[c] \in Messages
    BY <1>2, BodyIsMessage DEF RunAnswers, Working
  <2>2. tries' \in [Calls -> 0 .. MAX_RETRIES]
    BY <1>2 DEF RunAnswers, Ended, TypeOK, RuntimeTypeOK
  <2>3. request' \in [Calls -> {"none", "running"} \cup Responses]
    BY <1>2 DEF RunAnswers, Responses, TypeOK, RuntimeTypeOK
  <2>4. answered' \subseteq Messages /\ UNCHANGED <<body, orphans>>
    BY <1>2, <2>1 DEF RunAnswers, TypeOK, RuntimeTypeOK
  <2>5. RuntimeTypeOK'
    BY <2>2, <2>3, <2>4 DEF TypeOK, RuntimeTypeOK
  <2> QED BY <1>2, <2>5 DEF RunAnswers, Working, TypeOK, RuntimeTypeOK
<1>3. ASSUME NEW c \in Calls, RunFails(c)
      PROVE  Effect
  <2>1. tries' \in [Calls -> 0 .. MAX_RETRIES]
    BY <1>3 DEF RunFails, Ended, TriesLeft, TypeOK, RuntimeTypeOK
  <2>2. request' \in [Calls -> {"none", "running"} \cup Responses]
    BY <1>3 DEF RunFails, Responses, TypeOK, RuntimeTypeOK
  <2>3. UNCHANGED <<body, orphans, answered>>
    BY <1>3 DEF RunFails
  <2>4. RuntimeTypeOK'
    BY <2>1, <2>2, <2>3 DEF TypeOK, RuntimeTypeOK
  <2>5. request[c] = "running"
    BY <1>3 DEF RunFails, Working
  <2>6. request' = request \/ request' = [request EXCEPT ![c] = "failed"]
    BY <1>3 DEF RunFails
  <2> QED BY <2>3, <2>4, <2>5, <2>6 DEF TypeOK, RuntimeTypeOK
<1>4. CASE OrphanEnds
  <2>1. UNCHANGED <<request, body, tries>>
    BY <1>4 DEF OrphanEnds
  <2>2. orphans' \subseteq orphans /\ answered \subseteq answered' /\ answered' \subseteq Messages
    BY <1>4 DEF OrphanEnds, TypeOK, RuntimeTypeOK
  <2>3. RuntimeTypeOK'
    BY <2>1, <2>2 DEF TypeOK, RuntimeTypeOK
  <2> QED BY <1>1, <2>1, <2>2, <2>3
<1>5. CASE ContainerStops
  <2>1. /\ \A d \in Calls : request'[d] = IF request[d] = "running" THEN "failed" ELSE request[d]
        /\ UNCHANGED <<body, answered>>
    BY <1>5 DEF ContainerStops, Working
  <2>2. request' \in [Calls -> {"none", "running"} \cup Responses]
    BY <1>5 DEF ContainerStops, Working, Responses, TypeOK, RuntimeTypeOK
  <2>3. tries' \in [Calls -> 0 .. MAX_RETRIES] /\ orphans' = {}
    BY <1>5 DEF ContainerStops
  <2>4. RuntimeTypeOK'
    BY <2>1, <2>2, <2>3 DEF TypeOK, RuntimeTypeOK
  <2> QED BY <1>1, <2>1, <2>4
<1> QED BY <1>1, <1>2, <1>3, <1>4, <1>5 DEF RuntimeStep, RequestStep, RuntimeAlone

(* Calls are over, with their lists and the requests they wait for.        *)
EndsCalls(over) ==
  /\ step' = [d \in Calls |-> IF d \in over THEN "idle" ELSE step[d]]
  /\ todo' = [d \in Calls |-> IF d \in over THEN {} ELSE todo[d]]
  /\ attemptsRead' = [d \in Calls |-> IF d \in over THEN NoAttempts ELSE attemptsRead[d]]
  /\ request' = [d \in Calls |-> IF d \in over THEN "none" ELSE request[d]]
  /\ \A d \in Calls \ over : body'[d] = body[d]
  /\ up' = up \/ (up' = FALSE /\ over = Calls)

Breaks == (\E c \in Calls : UpdateFails(c) \/ FindsRowGone(c)) \/ Crash

(* A call that rejects, and a crash, end calls and the requests they wait  *)
(* for; the rows and the history stay.                                     *)
LEMMA BreakEffect ==
  ASSUME TypeOK, RequestInv, Breaks
  PROVE  /\ RuntimeTypeOK'
         /\ UNCHANGED <<rowVars, historyVars, answered>>
         /\ faults' \in 0 .. MaxFaults
         /\ \E over \in SUBSET Calls : EndsCalls(over)
<1>1. ASSUME NEW c \in Calls, UpdateFails(c) \/ FindsRowGone(c)
      PROVE  /\ RuntimeTypeOK' /\ UNCHANGED <<rowVars, historyVars, answered, up>>
             /\ faults' \in 0 .. MaxFaults
             /\ step' = [step EXCEPT ![c] = "idle"]
             /\ todo' = [todo EXCEPT ![c] = {}]
             /\ attemptsRead' = [attemptsRead EXCEPT ![c] = NoAttempts]
             /\ request' = [request EXCEPT ![c] = "none"]
             /\ \A d \in Calls \ {c} : body'[d] = body[d]
  <2>1. /\ UNCHANGED <<rowVars, historyVars, up>> /\ faults' \in 0 .. MaxFaults
        /\ step' = [step EXCEPT ![c] = "idle"]
        /\ todo' = [todo EXCEPT ![c] = {}]
        /\ attemptsRead' = [attemptsRead EXCEPT ![c] = NoAttempts]
    BY <1>1 DEF UpdateFails, FindsRowGone, Reject, GoTo, Fault, TypeOK
  <2>2. CASE step[c] = "send" /\ UNCHANGED runtimeVars
    <3>1. request[c] = "none"
      BY <2>2 DEF RequestInv
    <3> QED BY <2>1, <2>2, <3>1 DEF runtimeVars, TypeOK, RuntimeTypeOK
  <2>3. CASE Collect(c)
    BY <2>1, <2>3 DEF Collect, TypeOK, RuntimeTypeOK
  <2>4. CASE Working(c) /\ Leave({c})
    <3>1. /\ request' = [request EXCEPT ![c] = "none"]
          /\ body' = [body EXCEPT ![c] = 0]
      BY <2>4 DEF Leave, TypeOK, RuntimeTypeOK
    <3>2. tries' \in [Calls -> 0 .. MAX_RETRIES] /\ UNCHANGED answered
      BY <2>4 DEF Leave, TypeOK, RuntimeTypeOK
    <3>3. orphans' \subseteq Messages
      <4>1. orphans' \subseteq orphans \cup {body[c]}
        BY <2>4 DEF Leave
      <4>2. body[c] \in Messages
        BY <2>4, BodyIsMessage DEF Working
      <4> QED BY <4>1, <4>2 DEF TypeOK, RuntimeTypeOK
    <3> QED BY <2>1, <3>1, <3>2, <3>3 DEF TypeOK, RuntimeTypeOK
  <2> QED BY <1>1, <2>2, <2>3, <2>4 DEF UpdateFails, FindsRowGone, Reject, At
<1>2. ASSUME NEW c \in Calls, UpdateFails(c) \/ FindsRowGone(c)
      PROVE  \E over \in SUBSET Calls : EndsCalls(over)
  <2> WITNESS {c} \in SUBSET Calls
  <2>1. step' = [d \in Calls |-> IF d \in {c} THEN "idle" ELSE step[d]]
    BY <1>1, <1>2 DEF TypeOK
  <2>2. todo' = [d \in Calls |-> IF d \in {c} THEN {} ELSE todo[d]]
    BY <1>1, <1>2 DEF TypeOK
  <2>3. attemptsRead' = [d \in Calls |-> IF d \in {c} THEN NoAttempts ELSE attemptsRead[d]]
    BY <1>1, <1>2 DEF TypeOK
  <2>4. request' = [d \in Calls |-> IF d \in {c} THEN "none" ELSE request[d]]
    BY <1>1, <1>2 DEF TypeOK, RuntimeTypeOK
  <2>5. up' = up /\ \A d \in Calls \ {c} : body'[d] = body[d]
    BY <1>1, <1>2
  <2> QED BY <2>1, <2>2, <2>3, <2>4, <2>5 DEF EndsCalls
<1>3. CASE Crash
  <2>1. \A c \in Calls : Working(c) => body[c] \in Messages
    BY BodyIsMessage DEF Working
  <2>2. /\ RuntimeTypeOK' /\ UNCHANGED <<rowVars, historyVars, answered>>
        /\ faults' \in 0 .. MaxFaults /\ up' = FALSE
        /\ request' = [d \in Calls |-> "none"]
    <3>1. /\ UNCHANGED <<rowVars, historyVars, answered>>
          /\ faults' \in 0 .. MaxFaults /\ up' = FALSE
          /\ request' = [d \in Calls |-> "none"] /\ body' = [d \in Calls |-> 0]
          /\ tries' = [d \in Calls |-> 0]
      BY <1>3 DEF Crash, Fault, Leave, TypeOK
    <3>2. orphans' \subseteq Messages
      <4>1. orphans' = orphans \cup {body[c] : c \in {d \in Calls : Working(d)}}
        BY <1>3 DEF Crash, Leave
      <4>2. \A c \in {d \in Calls : Working(d)} : body[c] \in Messages
        BY <2>1
      <4>3. orphans \subseteq Messages
        BY DEF TypeOK, RuntimeTypeOK
      <4> QED BY <4>1, <4>2, <4>3
    <3> QED BY <3>1, <3>2 DEF TypeOK, RuntimeTypeOK
  <2>3. /\ step' = [d \in Calls |-> "idle"] /\ todo' = [d \in Calls |-> {}]
        /\ attemptsRead' = [d \in Calls |-> NoAttempts]
    BY <1>3 DEF Crash
  <2>4. \E over \in SUBSET Calls : EndsCalls(over)
    <3> WITNESS Calls \in SUBSET Calls
    <3> QED BY <2>2, <2>3 DEF EndsCalls
  <2> QED BY <2>2, <2>4
<1> QED
  <2>1. CASE \E c \in Calls : UpdateFails(c) \/ FindsRowGone(c)
    <3>1. PICK c \in Calls : UpdateFails(c) \/ FindsRowGone(c)
      BY <2>1
    <3> QED BY <3>1, <1>1, <1>2
  <2> QED BY <2>1, <1>3 DEF Breaks

(* The sweeps and the removal of rows change nothing but rows: those that  *)
(* are left behind, and those that go.                                     *)
RowsAlone == Restart \/ ControlPlaneBoots \/ Purge \/ Reap

LEMMA OthersEffect ==
  ASSUME TypeOK, RowsAlone
  PROVE  /\ row' \in [Messages -> Statuses] /\ swept' \subseteq Messages
         /\ up' \in BOOLEAN /\ (up => up') /\ faults' \in 0 .. MaxFaults
         /\ \A m \in Messages : row'[m] = "none" <=> row[m] = "none"
         /\ \A m \in Messages :
              row'[m] \in {row[m], "gone"} \/ (row[m] = "PROCESSING" /\ row'[m] = "PENDING" /\ m \in swept')
         /\ \A m \in Messages : row[m] = "gone" => row'[m] = "gone"
         /\ \A m \in swept : m \in swept' \/ row'[m] = "gone"
         /\ UNCHANGED <<runtimeVars, attempts, callVars, refused, tried, failures, shared>>
<1>1. up' \in BOOLEAN /\ (up => up') /\ faults' \in 0 .. MaxFaults
  <2>1. CASE Restart \/ ControlPlaneBoots
    <3>1. up \in BOOLEAN /\ faults \in 0 .. MaxFaults
      BY DEF TypeOK
    <3>2. CASE Restart
      BY <3>1, <3>2 DEF Restart
    <3>3. CASE ControlPlaneBoots
      <4>1. faults < MaxFaults /\ faults' = faults + 1 /\ up' = up
        BY <3>3 DEF ControlPlaneBoots, Fault
      <4>2. faults' \in 0 .. MaxFaults
        BY <3>1, <4>1
      <4> QED BY <3>1, <4>1, <4>2
    <3> QED BY <2>1, <3>2, <3>3
  <2>2. CASE Purge \/ Reap
    <3>1. UNCHANGED <<up, faults>>
      BY <2>2 DEF Purge, Reap, RowsGo, relayVars
    <3> QED BY <3>1 DEF TypeOK
  <2> QED BY <2>1, <2>2 DEF RowsAlone
<1>2. UNCHANGED <<runtimeVars, attempts, callVars, refused, tried, failures, shared>>
  BY DEF RowsAlone, Restart, ControlPlaneBoots, Purge, Reap, RowsGo, Sweep
<1>3. CASE Sweep
  <2>1. PICK old \in SUBSET Messages :
          /\ row' = [m \in Messages |-> IF m \in old THEN AfterSweep(row[m]) ELSE row[m]]
          /\ swept' = swept \cup {m \in old : row[m] = "PROCESSING"}
    BY <1>3 DEF Sweep
  <2>2. row' \in [Messages -> Statuses] /\ swept' \subseteq Messages
    BY <2>1 DEF AfterSweep, Statuses, TypeOK
  <2>3. \A m \in Messages : row'[m] = IF m \in old /\ row[m] = "PROCESSING" THEN "PENDING" ELSE row[m]
    BY <2>1 DEF AfterSweep
  <2>4. \A m \in Messages : m \in old /\ row[m] = "PROCESSING" => m \in swept'
    BY <2>1
  <2>5. \A m \in swept : m \in swept'
    BY <2>1
  <2> QED BY <1>1, <1>2, <2>2, <2>3, <2>4, <2>5
<1>4. ASSUME NEW S \in SUBSET Messages, RowsGo(S), \A m \in S : row[m] # "none"
      PROVE  /\ row' \in [Messages -> Statuses] /\ swept' \subseteq Messages
             /\ \A m \in Messages : row'[m] = IF m \in S THEN "gone" ELSE row[m]
             /\ \A m \in Messages : row'[m] = "none" <=> row[m] = "none"
             /\ \A m \in swept : m \in swept' \/ row'[m] = "gone"
  <2>1. /\ row' = [m \in Messages |-> IF m \in S THEN "gone" ELSE row[m]]
        /\ swept' = swept \ S
    BY <1>4 DEF RowsGo
  <2>2. row' \in [Messages -> Statuses] /\ swept' \subseteq Messages
    BY <2>1 DEF Statuses, TypeOK
  <2>3. \A m \in Messages : row'[m] = IF m \in S THEN "gone" ELSE row[m]
    BY <2>1
  <2>4. \A m \in Messages : row'[m] = "none" <=> row[m] = "none"
    BY <1>4, <2>3
  <2> QED BY <2>1, <2>2, <2>3, <2>4
<1>5. CASE Purge \/ Reap
  <2>1. PICK S \in SUBSET Messages : RowsGo(S) /\ \A m \in S : row[m] # "none"
    <3>1. CASE Purge
      BY <3>1 DEF Purge
    <3>2. CASE Reap
      <4>1. PICK S \in SUBSET {m \in Messages : row[m] \in {"DELIVERED", "FAILED"}} : RowsGo(S)
        BY <3>2 DEF Reap
      <4>2. S \in SUBSET Messages /\ \A m \in S : row[m] # "none"
        OBVIOUS
      <4> QED BY <4>1, <4>2
    <3> QED BY <1>5, <3>1, <3>2
  <2> QED BY <1>1, <1>2, <1>4, <2>1
<1> QED BY <1>3, <1>5 DEF RowsAlone, Restart, ControlPlaneBoots

(* How a message's work ends, written out.                                 *)
LEMMA FinishedTypes ==
  ASSUME TypeOK, NEW c \in Calls, NEW m \in Messages, Finished(c, m)
  PROVE  /\ step' \in [Calls -> Steps] /\ todo' \in [Calls -> SUBSET Messages]
         /\ attemptsRead' \in [Calls -> [Messages -> Nat]]
         /\ todo' = [todo EXCEPT ![c] = @ \ {m}]
         /\ step'[c] = IF todo[c] = {m} THEN "idle" ELSE "send"
         /\ \A d \in Calls \ {c} : step'[d] = step[d]
<1>1. step' = [step EXCEPT ![c] = IF todo[c] = {m} THEN "idle" ELSE "send"]
  BY DEF Finished, GoTo
<1>2. todo' = [todo EXCEPT ![c] = @ \ {m}]
  BY DEF Finished
<1>3. attemptsRead' = [attemptsRead EXCEPT ![c] = [attemptsRead[c] EXCEPT ![m] = 0]]
  BY DEF Finished
<1>4. step' \in [Calls -> Steps]
  BY <1>1 DEF TypeOK, Steps
<1>5. todo' \in [Calls -> SUBSET Messages]
  BY <1>2 DEF TypeOK
<1>6. attemptsRead' \in [Calls -> [Messages -> Nat]]
  <2>1. [attemptsRead[c] EXCEPT ![m] = 0] \in [Messages -> Nat]
    BY DEF TypeOK
  <2> QED BY <1>3, <2>1 DEF TypeOK
<1> QED BY <1>1, <1>2, <1>4, <1>5, <1>6 DEF TypeOK

(* The row and the counts a message's work leaves.                         *)
LEMMA RecordTypes ==
  ASSUME TypeOK, NEW c \in Calls, NEW m \in Messages,
         RecordSuccess(c, m) \/ RecordFailure(c, m)
  PROVE  /\ row' \in [Messages -> Statuses] /\ attempts' \in [Messages -> Nat]
         /\ failures' \in [Messages -> 0 .. MAX_ATTEMPTS]
         /\ swept' = swept \ {m} /\ row[m] # "gone"
         /\ row'[m] \notin {"none", "gone"} /\ \A n \in Messages \ {m} : row'[n] = row[n]
<1>1. CASE RecordSuccess(c, m)
  BY <1>1 DEF RecordSuccess, Becomes, Statuses, TypeOK
<1>2. CASE RecordFailure(c, m)
  <2>1. row' \in [Messages -> Statuses] /\ row'[m] \notin {"none", "gone"}
        /\ swept' = swept \ {m} /\ row[m] # "gone"
        /\ \A n \in Messages \ {m} : row'[n] = row[n]
    BY <1>2 DEF RecordFailure, Becomes, Statuses, TypeOK
  <2>2. attempts' \in [Messages -> Nat]
    <3>1. NewAttempts(c, m) \in Nat
      BY DEF NewAttempts, TypeOK
    <3> QED BY <1>2, <3>1 DEF RecordFailure, TypeOK
  <2>3. failures' \in [Messages -> 0 .. MAX_ATTEMPTS]
    BY <1>2 DEF RecordFailure, CountedUp, TypeOK
  <2> QED BY <2>1, <2>2, <2>3
<1> QED BY <1>1, <1>2

LEMMA TypeStep ==
  ASSUME TypeOK, RequestInv, [Next]_vars
  PROVE  TypeOK'
<1>1. ASSUME NEW m \in Messages, Enqueue(m)
      PROVE  TypeOK'
  <2>1. row' \in [Messages -> Statuses]
    BY <1>1 DEF Enqueue, Becomes, Statuses, TypeOK
  <2>2. UNCHANGED <<runtimeVars, attempts, callVars, relayVars, historyVars>>
    BY <1>1 DEF Enqueue
  <2> QED BY <2>1, <2>2 DEF TypeOK, RuntimeTypeOK, runtimeVars, callVars, relayVars, historyVars
<1>2. ASSUME NEW m \in Messages, EnqueueFails(m)
      PROVE  TypeOK'
  <2>1. refused' \subseteq Messages /\ faults' \in 0 .. MaxFaults
    BY <1>2 DEF EnqueueFails, Fault, TypeOK
  <2>2. UNCHANGED <<runtimeVars, rowVars, callVars, up, tried, failures, shared, swept>>
    BY <1>2 DEF EnqueueFails
  <2> QED BY <2>1, <2>2 DEF TypeOK, RuntimeTypeOK, runtimeVars, rowVars, callVars
<1>3. ASSUME NEW c \in Calls, ListPending(c)
      PROVE  TypeOK'
  <2>1. step' \in [Calls -> Steps] /\ shared' \in BOOLEAN
    BY <1>3 DEF ListPending, GoTo, Steps, TypeOK
  <2>2. todo' \in [Calls -> SUBSET Messages]
    BY <1>3 DEF ListPending, Pending, TypeOK
  <2>3. attemptsRead' \in [Calls -> [Messages -> Nat]]
    <3>1. [m \in Messages |-> IF m \in Pending THEN attempts[m] ELSE 0] \in [Messages -> Nat]
      BY DEF TypeOK
    <3> QED BY <1>3, <3>1 DEF ListPending, TypeOK
  <2>4. UNCHANGED <<runtimeVars, rowVars, relayVars, refused, tried, failures, swept>>
    BY <1>3 DEF ListPending
  <2> QED BY <2>1, <2>2, <2>3, <2>4 DEF TypeOK, RuntimeTypeOK, runtimeVars, rowVars, relayVars
<1>4. ASSUME NEW c \in Calls, SendNext(c)
      PROVE  TypeOK'
  <2>1. PICK m \in Messages :
          /\ row' = [row EXCEPT ![m] = "PROCESSING"] /\ tried' = tried \cup {m}
          /\ step' = [step EXCEPT ![c] = "await"] /\ swept' = swept \ {m}
          /\ \/ request' = [request EXCEPT ![c] = "running"] /\ tries' = [tries EXCEPT ![c] = 1]
             \/ request' = [request EXCEPT ![c] = "failed"] /\ UNCHANGED tries
          /\ body' = [body EXCEPT ![c] = m]
          /\ UNCHANGED <<orphans, answered, attempts, todo, attemptsRead, up, faults, refused,
                         failures, shared>>
    BY <1>4, SendEffect
  <2>2. row' \in [Messages -> Statuses] /\ step' \in [Calls -> Steps] /\ tried' \subseteq Messages
    BY <2>1 DEF Statuses, Steps, TypeOK
  <2>3. request' \in [Calls -> {"none", "running"} \cup Responses]
        /\ body' \in [Calls -> Messages \cup {0}] /\ tries' \in [Calls -> 0 .. MAX_RETRIES]
    BY <2>1 DEF TypeOK, RuntimeTypeOK, Responses
  <2> QED BY <2>1, <2>2, <2>3 DEF TypeOK, RuntimeTypeOK
<1>5. ASSUME NEW c \in Calls, TakeResponse(c) \/ FetchTimesOut(c)
      PROVE  TypeOK'
  <2>1. PICK m \in Messages :
          /\ step[c] = "await" /\ (RecordSuccess(c, m) \/ RecordFailure(c, m))
          /\ Finished(c, m)
          /\ request' = [request EXCEPT ![c] = "none"] /\ body' = [body EXCEPT ![c] = 0]
          /\ tries' \in [Calls -> 0 .. MAX_RETRIES] /\ orphans' \subseteq orphans \cup {body[c]}
          /\ UNCHANGED <<answered, up, faults, refused, tried, shared>>
    BY <1>5, EndEffect
  <2>2. body[c] \in Messages
    BY <2>1, BodyIsMessage DEF RequestInv
  <2>3. RuntimeTypeOK'
    BY <2>1, <2>2 DEF TypeOK, RuntimeTypeOK
  <2> QED BY <2>1, <2>3, FinishedTypes, RecordTypes DEF TypeOK
<1>6. CASE (\E c \in Calls : RuntimeStep(c)) \/ RuntimeAlone
  BY <1>6, RuntimeEffect DEF TypeOK, rowVars, callVars, relayVars, historyVars
<1>7. CASE Breaks
  <2>1. PICK over \in SUBSET Calls : EndsCalls(over)
    BY <1>7, BreakEffect
  <2>2. NoAttempts \in [Messages -> Nat]
    BY DEF NoAttempts
  <2>3. step' \in [Calls -> Steps] /\ todo' \in [Calls -> SUBSET Messages] /\ up' \in BOOLEAN
    BY <2>1 DEF EndsCalls, Steps, TypeOK
  <2>4. attemptsRead' \in [Calls -> [Messages -> Nat]]
    BY <2>1, <2>2 DEF EndsCalls, TypeOK
  <2> QED BY <1>7, <2>3, <2>4, BreakEffect DEF TypeOK, rowVars, historyVars
<1>8. CASE RowsAlone
  BY <1>8, OthersEffect DEF TypeOK, RuntimeTypeOK, runtimeVars, callVars
<1>9. CASE UNCHANGED vars
  BY <1>9 DEF vars, runtimeVars, rowVars, callVars, relayVars, historyVars, TypeOK, RuntimeTypeOK
<1> QED BY <1>1, <1>2, <1>3, <1>4, <1>5, <1>6, <1>7, <1>8, <1>9 DEF Next, CallStep, Breaks, RowsAlone

(* The current message is the only one.                                    *)
LEMMA OneCurrent ==
  ASSUME TypeOK, NEW c \in Calls, NEW m, NEW n, IsCurrent(c, m), IsCurrent(c, n)
  PROVE  m = n
<1>1. m \in Nat /\ n \in Nat /\ m <= n /\ n <= m
  BY DEF IsCurrent, TypeOK
<1> QED BY <1>1

LEMMA RequestInvStep ==
  ASSUME Inv, [Next]_vars
  PROVE  RequestInv'
<1> USE DEF Inv
<1>1. ASSUME NEW m \in Messages, Enqueue(m) \/ EnqueueFails(m)
      PROVE  RequestInv'
  BY <1>1 DEF Enqueue, EnqueueFails, RequestInv, IsCurrent, runtimeVars, callVars
<1>2. ASSUME NEW c \in Calls, ListPending(c)
      PROVE  RequestInv'
  <2>1. step[c] = "idle" /\ step' = [step EXCEPT ![c] = "send"]
        /\ todo' = [todo EXCEPT ![c] = Pending]
        /\ UNCHANGED <<request, body, answered>>
    BY <1>2 DEF ListPending, At, GoTo, runtimeVars
  <2> QED BY <2>1 DEF RequestInv, IsCurrent, TypeOK
<1>3. ASSUME NEW c \in Calls, SendNext(c)
      PROVE  RequestInv'
  <2>1. PICK m \in Messages :
          /\ IsCurrent(c, m) /\ step' = [step EXCEPT ![c] = "await"]
          /\ \/ request' = [request EXCEPT ![c] = "running"]
             \/ request' = [request EXCEPT ![c] = "failed"]
          /\ body' = [body EXCEPT ![c] = m]
          /\ UNCHANGED <<answered, todo>>
    BY <1>3, SendEffect
  <2>2. ASSUME NEW d \in Calls \ {c}
        PROVE  step'[d] = step[d] /\ request'[d] = request[d] /\ body'[d] = body[d]
    BY <2>1 DEF TypeOK, RuntimeTypeOK
  <2>3. step'[c] = "await" /\ request'[c] \in {"running", "failed"} /\ body'[c] = m
    BY <2>1 DEF TypeOK, RuntimeTypeOK
  <2> QED BY <2>1, <2>2, <2>3 DEF RequestInv, IsCurrent
<1>4. ASSUME NEW c \in Calls, TakeResponse(c) \/ FetchTimesOut(c)
      PROVE  RequestInv'
  <2>1. PICK m \in Messages :
          /\ Finished(c, m) /\ request' = [request EXCEPT ![c] = "none"]
          /\ body' = [body EXCEPT ![c] = 0] /\ UNCHANGED answered
    BY <1>4, EndEffect
  <2>2. ASSUME NEW d \in Calls \ {c}
        PROVE  /\ step'[d] = step[d] /\ request'[d] = request[d] /\ body'[d] = body[d]
               /\ todo'[d] = todo[d]
    <3>1. request'[d] = request[d] /\ body'[d] = body[d]
      BY <2>1 DEF TypeOK, RuntimeTypeOK
    <3>2. step'[d] = step[d] /\ todo' = [todo EXCEPT ![c] = @ \ {m}]
      BY <2>1, FinishedTypes
    <3> QED BY <3>1, <3>2 DEF TypeOK
  <2>3. step'[c] # "await" /\ request'[c] = "none"
    BY <2>1, FinishedTypes DEF TypeOK, RuntimeTypeOK
  <2> QED BY <2>1, <2>2, <2>3 DEF RequestInv, IsCurrent
<1>5. CASE (\E c \in Calls : RuntimeStep(c)) \/ RuntimeAlone
  BY <1>5, RuntimeEffect DEF RequestInv, IsCurrent, callVars
<1>6. CASE Breaks
  <2>1. PICK over \in SUBSET Calls : EndsCalls(over)
    BY <1>6, BreakEffect
  <2>2. UNCHANGED answered
    BY <1>6, BreakEffect
  <2>3. ASSUME NEW d \in over
        PROVE  step'[d] = "idle" /\ request'[d] = "none"
    BY <2>1 DEF EndsCalls
  <2>4. ASSUME NEW d \in Calls \ over
        PROVE  /\ step'[d] = step[d] /\ request'[d] = request[d] /\ body'[d] = body[d]
               /\ todo'[d] = todo[d]
    BY <2>1 DEF EndsCalls
  <2> QED BY <2>2, <2>3, <2>4 DEF RequestInv, IsCurrent
<1>7. CASE RowsAlone
  BY <1>7, OthersEffect DEF RequestInv, IsCurrent, runtimeVars, callVars
<1>8. CASE UNCHANGED vars
  BY <1>8 DEF vars, runtimeVars, callVars, RequestInv, IsCurrent
<1> QED BY <1>1, <1>2, <1>3, <1>4, <1>5, <1>6, <1>7, <1>8 DEF Next, CallStep, Breaks, RowsAlone

LEMMA ListInvStep ==
  ASSUME Inv, [Next]_vars
  PROVE  ListInv'
<1> USE DEF Inv
<1>1. ASSUME NEW m \in Messages, Enqueue(m) \/ EnqueueFails(m)
      PROVE  ListInv'
  <2>1. \A n \in Messages : row[n] # "none" => row'[n] # "none"
    BY <1>1 DEF Enqueue, EnqueueFails, Becomes, rowVars, TypeOK
  <2>2. UNCHANGED <<up, step, todo>>
    BY <1>1 DEF Enqueue, EnqueueFails, callVars, relayVars
  <2> QED BY <2>1, <2>2 DEF ListInv, TypeOK
<1>2. ASSUME NEW c \in Calls, ListPending(c)
      PROVE  ListInv'
  <2>1. up /\ step' = [step EXCEPT ![c] = "send"] /\ todo' = [todo EXCEPT ![c] = Pending]
        /\ UNCHANGED <<up, row>>
    BY <1>2 DEF ListPending, GoTo, rowVars, relayVars
  <2> QED BY <2>1 DEF ListInv, Pending, TypeOK
<1>3. ASSUME NEW c \in Calls, SendNext(c)
      PROVE  ListInv'
  <2>1. PICK m \in Messages :
          /\ step[c] = "send" /\ row' = [row EXCEPT ![m] = "PROCESSING"]
          /\ step' = [step EXCEPT ![c] = "await"] /\ UNCHANGED <<todo, up>>
    BY <1>3, SendEffect
  <2> QED BY <2>1 DEF ListInv, TypeOK
<1>4. ASSUME NEW c \in Calls, TakeResponse(c) \/ FetchTimesOut(c)
      PROVE  ListInv'
  <2>1. PICK m \in Messages :
          /\ step[c] = "await" /\ IsCurrent(c, m) /\ (RecordSuccess(c, m) \/ RecordFailure(c, m))
          /\ Finished(c, m) /\ UNCHANGED up
    BY <1>4, EndEffect
  <2>2. \A n \in Messages : row[n] # "none" => row'[n] # "none"
    BY <2>1, RecordTypes
  <2>3. /\ todo' = [todo EXCEPT ![c] = @ \ {m}]
        /\ step'[c] = IF todo[c] = {m} THEN "idle" ELSE "send"
        /\ \A d \in Calls \ {c} : step'[d] = step[d]
    BY <2>1, FinishedTypes
  <2>4. \A d \in Calls : todo'[d] \subseteq todo[d]
    BY <2>3 DEF TypeOK
  <2>5. \A d \in Calls \ {c} : todo'[d] = todo[d]
    BY <2>3 DEF TypeOK
  <2>6. step'[c] = "idle" => todo'[c] = {}
    BY <2>3 DEF TypeOK
  <2>7. up
    BY <2>1 DEF ListInv
  <2> QED BY <2>1, <2>2, <2>3, <2>4, <2>5, <2>6, <2>7 DEF ListInv, TypeOK
<1>5. CASE (\E c \in Calls : RuntimeStep(c)) \/ RuntimeAlone
  BY <1>5, RuntimeEffect DEF ListInv, rowVars, callVars, relayVars
<1>6. CASE Breaks
  <2>1. PICK over \in SUBSET Calls : EndsCalls(over)
    BY <1>6, BreakEffect
  <2>2. UNCHANGED row
    BY <1>6, BreakEffect DEF rowVars
  <2> QED BY <2>1, <2>2 DEF ListInv, EndsCalls
<1>7. CASE RowsAlone
  <2>1. UNCHANGED <<step, todo>> /\ (up => up') /\ \A m \in Messages : row[m] # "none" => row'[m] # "none"
    BY <1>7, OthersEffect DEF callVars
  <2> QED BY <2>1 DEF ListInv, TypeOK
<1>8. CASE UNCHANGED vars
  BY <1>8 DEF vars, rowVars, callVars, relayVars, ListInv
<1> QED BY <1>1, <1>2, <1>3, <1>4, <1>5, <1>6, <1>7, <1>8 DEF Next, CallStep, Breaks, RowsAlone

(* Types, lists and requests, whatever the number of messages and calls.   *)
THEOREM ReplayTypeCorrect == Spec => []Inv
<1>1. Init => Inv
  <2> SUFFICES ASSUME Init PROVE Inv
    OBVIOUS
  <2>1. RuntimeTypeOK
    BY DEF Init, RuntimeInit, RuntimeTypeOK
  <2>2. NoAttempts \in [Messages -> Nat] /\ NoAttempts \in [Messages -> 0 .. MAX_ATTEMPTS]
    BY DEF NoAttempts
  <2>3. TypeOK
    <3>1. row \in [Messages -> Statuses] /\ step \in [Calls -> Steps]
      BY DEF Init, Statuses, Steps
    <3>2. todo \in [Calls -> SUBSET Messages]
      BY DEF Init
    <3>3. attempts \in [Messages -> Nat] /\ failures \in [Messages -> 0 .. MAX_ATTEMPTS]
          /\ attemptsRead \in [Calls -> [Messages -> Nat]]
      BY <2>2 DEF Init
    <3>4. up \in BOOLEAN /\ shared \in BOOLEAN /\ swept \subseteq Messages
      BY DEF Init
    <3>5. faults \in 0 .. MaxFaults
      BY DEF Init
    <3>6. refused \subseteq Messages /\ tried \subseteq Messages
      BY DEF Init
    <3> QED BY <2>1, <3>1, <3>2, <3>3, <3>4, <3>5, <3>6 DEF TypeOK
  <2>4. RequestInv /\ ListInv
    BY DEF Init, RuntimeInit, RequestInv, ListInv
  <2> QED BY <2>3, <2>4 DEF Inv
<1>2. Inv /\ [Next]_vars => Inv'
  BY TypeStep, RequestInvStep, ListInvStep DEF Inv
<1> QED BY <1>1, <1>2, PTL DEF Spec

THEOREM ReplayTypes == Spec => []TypeOK
<1>1. Inv => TypeOK
  BY DEF Inv
<1> QED BY <1>1, ReplayTypeCorrect, PTL

-----------------------------------------------------------------------------
(* A step writes DELIVERED only into the row of a message the agent        *)
(* answered: the response that a call takes is that of its own request.    *)
LEMMA DeliveredStep ==
  ASSUME Inv, DeliveredWasAnswered, [Next]_vars
  PROVE  DeliveredWasAnswered'
<1> USE DEF Inv
<1>1. ASSUME NEW m \in Messages, Enqueue(m) \/ EnqueueFails(m)
      PROVE  DeliveredWasAnswered'
  BY <1>1 DEF Enqueue, EnqueueFails, Becomes, rowVars, runtimeVars, DeliveredWasAnswered, TypeOK
<1>2. ASSUME NEW c \in Calls, ListPending(c)
      PROVE  DeliveredWasAnswered'
  BY <1>2 DEF ListPending, rowVars, runtimeVars, DeliveredWasAnswered
<1>3. ASSUME NEW c \in Calls, SendNext(c)
      PROVE  DeliveredWasAnswered'
  <2>1. PICK m \in Messages : row' = [row EXCEPT ![m] = "PROCESSING"] /\ UNCHANGED answered
    BY <1>3, SendEffect
  <2> QED BY <2>1 DEF DeliveredWasAnswered, TypeOK
<1>4. ASSUME NEW c \in Calls, TakeResponse(c) \/ FetchTimesOut(c)
      PROVE  DeliveredWasAnswered'
  <2>1. PICK m \in Messages :
          /\ step[c] = "await" /\ IsCurrent(c, m)
          /\ (request[c] = "answered" /\ RecordSuccess(c, m)) \/ RecordFailure(c, m)
          /\ UNCHANGED answered
    BY <1>4, EndEffect
  <2>2. \A n \in Messages \ {m} : row'[n] = row[n]
    BY <2>1, RecordTypes
  <2>3. CASE request[c] = "answered"
    <3>1. m = body[c] /\ body[c] \in answered
      BY <2>1, <2>3, OneCurrent DEF RequestInv
    <3> QED BY <2>1, <2>2, <3>1 DEF DeliveredWasAnswered
  <2>4. CASE RecordFailure(c, m)
    <3>1. row'[m] # "DELIVERED"
      BY <2>4 DEF RecordFailure, Becomes, TypeOK
    <3> QED BY <2>1, <2>2, <3>1 DEF DeliveredWasAnswered
  <2> QED BY <2>1, <2>3, <2>4
<1>5. CASE (\E c \in Calls : RuntimeStep(c)) \/ RuntimeAlone
  BY <1>5, RuntimeEffect DEF rowVars, DeliveredWasAnswered
<1>6. CASE Breaks
  BY <1>6, BreakEffect DEF rowVars, DeliveredWasAnswered
<1>7. CASE RowsAlone
  <2>1. UNCHANGED answered /\ \A m \in Messages : row'[m] = "DELIVERED" => row[m] = "DELIVERED"
    BY <1>7, OthersEffect DEF runtimeVars
  <2> QED BY <2>1 DEF DeliveredWasAnswered
<1>8. CASE UNCHANGED vars
  BY <1>8 DEF vars, rowVars, runtimeVars, DeliveredWasAnswered
<1> QED BY <1>1, <1>2, <1>3, <1>4, <1>5, <1>6, <1>7, <1>8 DEF Next, CallStep, Breaks, RowsAlone

(* However calls overlap, time out and are cut off by a crash, a row is    *)
(* DELIVERED only if the agent gave a text for that very message.          *)
THEOREM DeliveredAlwaysAnswered == Spec => []DeliveredWasAnswered
<1>1. Init => DeliveredWasAnswered
  BY DEF Init, DeliveredWasAnswered
<1>2. Inv /\ DeliveredWasAnswered /\ [Next]_vars => DeliveredWasAnswered'
  BY DeliveredStep
<1> QED BY <1>1, <1>2, ReplayTypeCorrect, PTL DEF Spec

-----------------------------------------------------------------------------
(* What a call read of the attempts is not ahead of the failures either:   *)
(* with that, FailedWasTried is inductive.                                 *)
Counted(n, m) == n <= failures[m] \/ failures[m] = MAX_ATTEMPTS
FailedInv ==
  /\ FailedWasTried
  /\ \A c \in Calls : \A m \in Messages : Counted(attemptsRead[c][m], m)

LEMMA FailedStep ==
  ASSUME Inv, FailedInv, [Next]_vars
  PROVE  FailedInv'
<1> USE DEF Inv
<1>1. ASSUME NEW m \in Messages, Enqueue(m) \/ EnqueueFails(m)
      PROVE  FailedInv'
  <2>1. \A n \in Messages : row'[n] = "FAILED" => row[n] = "FAILED"
    BY <1>1 DEF Enqueue, EnqueueFails, Becomes, rowVars, TypeOK
  <2>2. UNCHANGED <<attempts, attemptsRead, failures>>
    BY <1>1 DEF Enqueue, EnqueueFails, rowVars, callVars, historyVars
  <2> QED BY <2>1, <2>2 DEF FailedInv, FailedWasTried, Counted
<1>2. ASSUME NEW c \in Calls, ListPending(c)
      PROVE  FailedInv'
  <2>1. /\ attemptsRead' = [attemptsRead EXCEPT
               ![c] = [m \in Messages |-> IF m \in Pending THEN attempts[m] ELSE 0]]
        /\ UNCHANGED <<row, attempts, failures>>
    BY <1>2 DEF ListPending, rowVars
  <2>2. \A m \in Messages : Counted(attempts[m], m) /\ Counted(0, m)
    BY DEF FailedInv, FailedWasTried, Counted, TypeOK
  <2> QED BY <2>1, <2>2 DEF FailedInv, FailedWasTried, Counted, TypeOK
<1>3. ASSUME NEW c \in Calls, SendNext(c)
      PROVE  FailedInv'
  <2>1. PICK m \in Messages : /\ row' = [row EXCEPT ![m] = "PROCESSING"]
                              /\ UNCHANGED <<attempts, attemptsRead, failures>>
    BY <1>3, SendEffect
  <2> QED BY <2>1 DEF FailedInv, FailedWasTried, Counted, TypeOK
<1>4. ASSUME NEW c \in Calls, TakeResponse(c) \/ FetchTimesOut(c)
      PROVE  FailedInv'
  <2>1. PICK m \in Messages :
          /\ RecordSuccess(c, m) \/ RecordFailure(c, m)
          /\ Finished(c, m)
    BY <1>4, EndEffect
  <2>2. \A d \in Calls : \A n \in Messages : attemptsRead'[d][n] \in {0, attemptsRead[d][n]}
    BY <2>1 DEF Finished, TypeOK
  <2>3. CASE RecordSuccess(c, m)
    <3>1. /\ UNCHANGED <<attempts, failures>>
          /\ \A n \in Messages : row'[n] = "FAILED" => row[n] = "FAILED"
      BY <2>3 DEF RecordSuccess, Becomes, TypeOK
    <3> QED BY <2>2, <3>1 DEF FailedInv, FailedWasTried, Counted, TypeOK
  <2>4. CASE RecordFailure(c, m)
    <3>1. Counted(attemptsRead[c][m], m) /\ attemptsRead[c][m] \in Nat
          /\ failures[m] \in 0 .. MAX_ATTEMPTS
      BY DEF FailedInv, TypeOK
    <3>2. /\ attempts'[m] = attemptsRead[c][m] + 1
          /\ failures'[m] = IF failures[m] < MAX_ATTEMPTS THEN failures[m] + 1 ELSE failures[m]
          /\ row'[m] = "FAILED" => attempts'[m] >= MAX_ATTEMPTS
      BY <2>4 DEF RecordFailure, Becomes, NewAttempts, CountedUp, IsLast, TypeOK
    <3>3. \A n \in Messages \ {m} :
            attempts'[n] = attempts[n] /\ failures'[n] = failures[n] /\ row'[n] = row[n]
      BY <2>4 DEF RecordFailure, Becomes, TypeOK
    <3>4. /\ attempts'[m] <= failures'[m] \/ failures'[m] = MAX_ATTEMPTS
          /\ row'[m] = "FAILED" => failures'[m] = MAX_ATTEMPTS
      BY <3>1, <3>2 DEF Counted
    <3>5. \A n \in Messages : failures'[n] >= failures[n] /\ failures'[n] \in 0 .. MAX_ATTEMPTS
      BY <3>1, <3>2, <3>3 DEF TypeOK
    <3>6. FailedWasTried'
      BY <3>3, <3>4 DEF FailedInv, FailedWasTried
    <3>7. ASSUME NEW d \in Calls, NEW n \in Messages
          PROVE  Counted(attemptsRead[d][n], n)'
      <4>1. Counted(attemptsRead[d][n], n) /\ attemptsRead[d][n] \in Nat
            /\ failures[n] \in 0 .. MAX_ATTEMPTS
        BY DEF FailedInv, TypeOK
      <4>2. attemptsRead'[d][n] \in {0, attemptsRead[d][n]}
            /\ failures'[n] >= failures[n] /\ failures'[n] \in 0 .. MAX_ATTEMPTS
        BY <2>2, <3>5
      <4> DEFINE old == attemptsRead[d][n] new == attemptsRead'[d][n]
                 f == failures[n] g == failures'[n]
      <4>3. new <= g \/ g = MAX_ATTEMPTS
        <5> HIDE DEF old, new, f, g
        <5>1. old \in Nat /\ f \in 0 .. MAX_ATTEMPTS /\ (old <= f \/ f = MAX_ATTEMPTS)
          BY <4>1 DEF Counted, old, f
        <5>2. new \in {0, old} /\ g >= f /\ g \in 0 .. MAX_ATTEMPTS
          BY <4>2 DEF old, new, f, g
        <5> QED BY <5>1, <5>2
      <4> QED BY <4>3 DEF Counted
    <3> QED BY <3>6, <3>7 DEF FailedInv
  <2> QED BY <2>1, <2>3, <2>4
<1>5. CASE (\E c \in Calls : RuntimeStep(c)) \/ RuntimeAlone
  BY <1>5, RuntimeEffect DEF rowVars, callVars, historyVars, FailedInv, FailedWasTried, Counted
<1>6. CASE Breaks
  <2>1. PICK over \in SUBSET Calls : EndsCalls(over)
    BY <1>6, BreakEffect
  <2>2. UNCHANGED <<row, attempts, failures>>
    BY <1>6, BreakEffect DEF rowVars, historyVars
  <2>3. \A d \in Calls : \A n \in Messages : attemptsRead'[d][n] \in {0, attemptsRead[d][n]}
    BY <2>1 DEF EndsCalls, NoAttempts
  <2> QED BY <2>2, <2>3 DEF FailedInv, FailedWasTried, Counted, TypeOK
<1>7. CASE RowsAlone
  <2>1. /\ UNCHANGED <<attempts, attemptsRead, failures>>
        /\ \A m \in Messages : row'[m] = "FAILED" => row[m] = "FAILED"
    BY <1>7, OthersEffect DEF callVars
  <2> QED BY <2>1 DEF FailedInv, FailedWasTried, Counted
<1>8. CASE UNCHANGED vars
  BY <1>8 DEF vars, rowVars, callVars, historyVars, FailedInv, FailedWasTried, Counted
<1> QED BY <1>1, <1>2, <1>3, <1>4, <1>5, <1>6, <1>7, <1>8 DEF Next, CallStep, Breaks, RowsAlone

(* A message is given up only after MAX_ATTEMPTS failed deliveries, for    *)
(* every MAX_ATTEMPTS and any number of overlapping calls.                 *)
THEOREM FailedAlwaysTried == Spec => []FailedWasTried
<1>1. Init => FailedInv
  BY DEF Init, FailedInv, FailedWasTried, Counted, NoAttempts
<1>2. Inv /\ FailedInv /\ [Next]_vars => FailedInv'
  BY FailedStep
<1>3. FailedInv => FailedWasTried
  BY DEF FailedInv
<1> QED BY <1>1, <1>2, <1>3, ReplayTypeCorrect, PTL DEF Spec

-----------------------------------------------------------------------------
(* Rows come in in order, a row beyond PENDING has been tried or removed,  *)
(* and what precedes a listed message has been tried, has no row or is     *)
(* listed with it.                                                         *)
NoRow(n) == n \in refused \/ row[n] = "gone"
OrderInv ==
  /\ TriedInOrder
  /\ \A m, n \in Messages : n < m /\ row[m] # "none" => row[n] # "none" \/ n \in refused
  /\ \A n \in Messages : row[n] \notin {"none", "PENDING", "gone"} => n \in tried
  /\ \A c \in Calls : \A m \in todo[c], n \in Messages :
       n < m => n \in tried \/ NoRow(n) \/ n \in todo[c]
  /\ \A c \in Calls : step[c] = "await" => body[c] \in tried

LEMMA OrderStep ==
  ASSUME Inv, OrderInv, [Next]_vars
  PROVE  OrderInv'
<1> USE DEF Inv, NoRow
<1>1. ASSUME NEW m \in Messages, Enqueue(m)
      PROVE  OrderInv'
  <2>1. /\ \A n \in Messages : n < m => row[n] # "none" \/ n \in refused
        /\ row[m] = "none" /\ row' = [row EXCEPT ![m] = "PENDING"]
        /\ UNCHANGED <<refused, tried, todo, step, body>>
    BY <1>1 DEF Enqueue, IsNew, Becomes, historyVars, callVars, runtimeVars
  <2>2. \A n \in Messages : row'[n] = IF n = m THEN "PENDING" ELSE row[n]
    BY <2>1 DEF TypeOK
  <2> QED BY <2>1, <2>2 DEF OrderInv, TriedInOrder
<1>2. ASSUME NEW m \in Messages, EnqueueFails(m)
      PROVE  OrderInv'
  <2>1. refused' = refused \cup {m} /\ UNCHANGED <<row, tried, todo, step, body>>
    BY <1>2 DEF EnqueueFails, rowVars, callVars, runtimeVars
  <2> QED BY <2>1 DEF OrderInv, TriedInOrder
<1>3. ASSUME NEW c \in Calls, ListPending(c)
      PROVE  OrderInv'
  <2>1. step' = [step EXCEPT ![c] = "send"] /\ todo' = [todo EXCEPT ![c] = Pending]
        /\ UNCHANGED <<row, refused, tried, body>>
    BY <1>3 DEF ListPending, GoTo, rowVars, runtimeVars
  <2>2. \A m \in Pending, n \in Messages :
          n < m => n \in tried \/ NoRow(n) \/ n \in Pending
    BY DEF Pending, OrderInv
  <2>3. \A d \in Calls : todo'[d] = IF d = c THEN Pending ELSE todo[d]
    BY <2>1 DEF TypeOK
  <2>4. \A d \in Calls : step'[d] = "await" => step[d] = "await"
    BY <2>1 DEF TypeOK
  <2>5. \A d \in Calls : \A m \in todo'[d], n \in Messages :
          n < m => n \in tried \/ NoRow(n) \/ n \in todo'[d]
    BY <2>2, <2>3 DEF OrderInv
  <2> QED BY <2>1, <2>4, <2>5 DEF OrderInv, TriedInOrder
<1>4. ASSUME NEW c \in Calls, SendNext(c)
      PROVE  OrderInv'
  <2>1. PICK m \in Messages :
          /\ IsCurrent(c, m) /\ row[m] # "gone" /\ row' = [row EXCEPT ![m] = "PROCESSING"]
          /\ tried' = tried \cup {m} /\ step' = [step EXCEPT ![c] = "await"]
          /\ body' = [body EXCEPT ![c] = m] /\ UNCHANGED <<todo, refused>>
    BY <1>4, SendEffect
  <2>2. \A n \in Messages : n < m => n \in tried \/ NoRow(n)
    <3> SUFFICES ASSUME NEW n \in Messages, n < m, n \in todo[c] PROVE FALSE
      BY <2>1 DEF OrderInv, IsCurrent
    <3>1. m <= n /\ m \in Nat /\ n \in Nat
      BY <2>1 DEF IsCurrent
    <3> QED BY <3>1
  <2>3. \A n \in Messages : row'[n] = IF n = m THEN "PROCESSING" ELSE row[n]
    BY <2>1 DEF TypeOK
  <2>4. row[m] # "none"
    BY <2>1 DEF IsCurrent, ListInv
  <2>5. \A d \in Calls : step'[d] = "await" => body'[d] \in tried'
    BY <2>1 DEF OrderInv, TypeOK, RuntimeTypeOK
  <2> QED BY <2>1, <2>2, <2>3, <2>4, <2>5 DEF OrderInv, TriedInOrder
<1>5. ASSUME NEW c \in Calls, TakeResponse(c) \/ FetchTimesOut(c)
      PROVE  OrderInv'
  <2>1. PICK m \in Messages :
          /\ step[c] = "await" /\ IsCurrent(c, m) /\ (RecordSuccess(c, m) \/ RecordFailure(c, m))
          /\ Finished(c, m) /\ body' = [body EXCEPT ![c] = 0] /\ UNCHANGED <<refused, tried>>
    BY <1>5, EndEffect
  <2>2. m = body[c] /\ m \in tried /\ row[m] # "none"
    BY <2>1, OneCurrent DEF RequestInv, OrderInv, IsCurrent, ListInv
  <2>3. row[m] # "gone" /\ row'[m] \notin {"none", "gone"} /\ \A n \in Messages \ {m} : row'[n] = row[n]
    BY <2>1, RecordTypes
  <2>4. /\ todo' = [todo EXCEPT ![c] = @ \ {m}]
        /\ step'[c] # "await" /\ \A d \in Calls \ {c} : step'[d] = step[d]
    BY <2>1, FinishedTypes
  <2>5. \A d \in Calls : todo'[d] = IF d = c THEN todo[d] \ {m} ELSE todo[d]
    BY <2>4 DEF TypeOK
  <2>6. \A d \in Calls : step'[d] = "await" => step[d] = "await" /\ body'[d] = body[d]
    BY <2>1, <2>4 DEF TypeOK, RuntimeTypeOK
  <2>7. \A n \in Messages : row'[n] = "none" <=> row[n] = "none"
    BY <2>2, <2>3
  <2>8. /\ \A n \in Messages : row'[n] \notin {"none", "PENDING", "gone"} => n \in tried
        /\ \A n \in Messages : row'[n] = "gone" <=> row[n] = "gone"
    BY <2>2, <2>3 DEF OrderInv
  <2>9. \A d \in Calls : \A k \in todo'[d], n \in Messages :
          n < k => n \in tried \/ NoRow(n)' \/ n \in todo'[d]
    BY <2>1, <2>2, <2>5, <2>8 DEF OrderInv
  <2> QED BY <2>1, <2>6, <2>7, <2>8, <2>9 DEF OrderInv, TriedInOrder
<1>6. CASE (\E c \in Calls : RuntimeStep(c)) \/ RuntimeAlone
  BY <1>6, RuntimeEffect DEF rowVars, callVars, historyVars, OrderInv, TriedInOrder
<1>7. CASE Breaks
  <2>1. PICK over \in SUBSET Calls : EndsCalls(over)
    BY <1>7, BreakEffect
  <2>2. UNCHANGED <<row, refused, tried>>
    BY <1>7, BreakEffect DEF rowVars, historyVars
  <2>3. \A d \in Calls : todo'[d] = {} \/ todo'[d] = todo[d]
    BY <2>1 DEF EndsCalls
  <2>4. \A d \in Calls : step'[d] = "await" => step[d] = "await" /\ body'[d] = body[d]
    BY <2>1 DEF EndsCalls
  <2> QED BY <2>2, <2>3, <2>4 DEF OrderInv, TriedInOrder
<1>8. CASE RowsAlone
  <2>1. /\ \A m \in Messages : row'[m] = "none" <=> row[m] = "none"
        /\ \A m \in Messages : row'[m] \in {row[m], "PENDING", "gone"}
        /\ \A m \in Messages : row[m] = "gone" => row'[m] = "gone"
    BY <1>8, OthersEffect
  <2>2. UNCHANGED <<refused, tried, todo, step, body>>
    BY <1>8, OthersEffect DEF callVars, runtimeVars
  <2>3. TriedInOrder'
    BY <2>1, <2>2 DEF OrderInv, TriedInOrder
  <2> QED BY <2>1, <2>2, <2>3 DEF OrderInv
<1>9. CASE UNCHANGED vars
  BY <1>9 DEF vars, rowVars, callVars, runtimeVars, historyVars, OrderInv, TriedInOrder
<1> QED BY <1>1, <1>2, <1>3, <1>4, <1>5, <1>6, <1>7, <1>8, <1>9 DEF Next, CallStep, Breaks, RowsAlone

(* First tries come in created_at order, for any number of messages,       *)
(* calls, failed updates and restarts.                                     *)
THEOREM AlwaysTriedInOrder == Spec => []TriedInOrder
<1>1. Init => OrderInv
  BY DEF Init, OrderInv, TriedInOrder
<1>2. Inv /\ OrderInv /\ [Next]_vars => OrderInv'
  BY OrderStep
<1>3. OrderInv => TriedInOrder
  BY DEF OrderInv
<1> QED BY <1>1, <1>2, <1>3, ReplayTypeCorrect, PTL DEF Spec

-----------------------------------------------------------------------------
(* While calls do not overlap there is one at most, what it read of the    *)
(* attempts is true, its list is PENDING or gone but for the message it    *)
(* waits for, and that one is PROCESSING, swept or gone.                   *)
AtWork(m) == row[m] \in {"PROCESSING", "gone"} \/ (row[m] = "PENDING" /\ m \in swept)
AloneInv ==
  ~shared =>
    /\ \A c, d \in Calls : c = d \/ step[c] = "idle" \/ step[d] = "idle"
    /\ \A c \in Calls : \A m \in todo[c] :
         /\ attemptsRead[c][m] = attempts[m]
         /\ row[m] \in {"PENDING", "gone"} \/ (step[c] = "await" /\ m = body[c])
    /\ \A c \in Calls : step[c] = "await" => AtWork(body[c])

(* A step of the only call is a step of it alone.                          *)
LEMMA OthersIdle ==
  ASSUME AloneInv, ~shared, NEW c \in Calls, step[c] # "idle", ListInv
  PROVE  \A d \in Calls \ {c} : step[d] = "idle" /\ todo[d] = {}
BY DEF AloneInv, ListInv

LEMMA AloneStep ==
  ASSUME Inv, AloneInv, [Next]_vars
  PROVE  AloneInv'
<1> USE DEF Inv, AtWork
<1>1. ASSUME NEW m \in Messages, Enqueue(m)
      PROVE  AloneInv'
  <2>1. /\ row[m] = "none" /\ row' = [row EXCEPT ![m] = "PENDING"]
        /\ UNCHANGED <<shared, swept, attempts, attemptsRead, todo, step, body>>
    BY <1>1 DEF Enqueue, IsNew, Becomes, historyVars, callVars, runtimeVars
  <2>2. \A n \in Messages : row'[n] = IF n = m THEN "PENDING" ELSE row[n]
    BY <2>1 DEF TypeOK
  <2>3. \A c \in Calls : step[c] = "await" => body[c] \in todo[c] /\ body[c] \in Messages
    BY DEF RequestInv, IsCurrent, TypeOK
  <2>4. \A c \in Calls : todo[c] \subseteq Messages
    BY DEF TypeOK
  <2> QED BY <2>1, <2>2, <2>3, <2>4 DEF AloneInv, ListInv
<1>2. ASSUME NEW m \in Messages, EnqueueFails(m)
      PROVE  AloneInv'
  BY <1>2 DEF EnqueueFails, rowVars, callVars, runtimeVars, AloneInv
<1>3. ASSUME NEW c \in Calls, ListPending(c)
      PROVE  AloneInv'
  <2>1. /\ step[c] = "idle" /\ step' = [step EXCEPT ![c] = "send"]
        /\ todo' = [todo EXCEPT ![c] = Pending]
        /\ attemptsRead' = [attemptsRead EXCEPT
               ![c] = [m \in Messages |-> IF m \in Pending THEN attempts[m] ELSE 0]]
        /\ shared' = \E d \in Calls \ {c} : step[d] # "idle"
        /\ UNCHANGED <<row, attempts, body>>
    BY <1>3 DEF ListPending, GoTo, At, Others, rowVars, runtimeVars
  <2> SUFFICES ASSUME ~shared'
               PROVE  AloneInv'
    BY DEF AloneInv
  <2>2. \A d \in Calls \ {c} : step'[d] = "idle" /\ todo'[d] = {}
    BY <2>1 DEF ListInv, TypeOK
  <2>3. step'[c] = "send" /\ todo'[c] = Pending
        /\ \A m \in Pending : attemptsRead'[c][m] = attempts[m] /\ row[m] = "PENDING"
    BY <2>1 DEF Pending, TypeOK
  <2> QED BY <2>1, <2>2, <2>3 DEF AloneInv
<1>4. ASSUME NEW c \in Calls, SendNext(c)
      PROVE  AloneInv'
  <2>1. PICK m \in Messages :
          /\ step[c] = "send" /\ IsCurrent(c, m) /\ row' = [row EXCEPT ![m] = "PROCESSING"]
          /\ step' = [step EXCEPT ![c] = "await"] /\ body' = [body EXCEPT ![c] = m]
          /\ UNCHANGED <<todo, attempts, attemptsRead, shared>>
    BY <1>4, SendEffect
  <2> SUFFICES ASSUME ~shared
               PROVE  AloneInv'
    BY <2>1 DEF AloneInv
  <2>2. \A d \in Calls \ {c} : step'[d] = "idle" /\ todo'[d] = {}
    BY <2>1, OthersIdle DEF TypeOK
  <2>3. step'[c] = "await" /\ body'[c] = m /\ row'[m] = "PROCESSING"
        /\ \A n \in Messages \ {m} : row'[n] = row[n]
    BY <2>1 DEF TypeOK, RuntimeTypeOK
  <2>4. \A n \in todo[c] : attemptsRead[c][n] = attempts[n] /\ row[n] \in {"PENDING", "gone"}
    BY <2>1 DEF AloneInv
  <2>5. todo[c] \subseteq Messages
    BY DEF TypeOK
  <2> QED BY <2>1, <2>2, <2>3, <2>4, <2>5 DEF AloneInv
<1>5. ASSUME NEW c \in Calls, TakeResponse(c) \/ FetchTimesOut(c)
      PROVE  AloneInv'
  <2>1. PICK m \in Messages :
          /\ step[c] = "await" /\ IsCurrent(c, m) /\ (RecordSuccess(c, m) \/ RecordFailure(c, m))
          /\ Finished(c, m) /\ UNCHANGED shared
    BY <1>5, EndEffect
  <2> SUFFICES ASSUME ~shared
               PROVE  AloneInv'
    BY <2>1 DEF AloneInv
  <2>2. m = body[c]
    BY <2>1, OneCurrent DEF RequestInv
  <2>3. /\ todo' = [todo EXCEPT ![c] = @ \ {m}]
        /\ step'[c] # "await" /\ \A d \in Calls \ {c} : step'[d] = step[d]
    BY <2>1, FinishedTypes
  <2>4. \A d \in Calls \ {c} : step'[d] = "idle" /\ todo'[d] = {}
    <3>1. \A d \in Calls \ {c} : step[d] = "idle" /\ todo[d] = {}
      BY <2>1, OthersIdle
    <3> QED BY <2>3, <3>1 DEF TypeOK
  <2>5. todo'[c] = todo[c] \ {m} /\ todo[c] \subseteq Messages
    BY <2>3 DEF TypeOK
  <2>6. \A n \in Messages \ {m} : row'[n] = row[n] /\ attempts'[n] = attempts[n]
                                 /\ attemptsRead'[c][n] = attemptsRead[c][n]
    <3>1. \A n \in Messages \ {m} : row'[n] = row[n]
      BY <2>1, RecordTypes
    <3>2. \A n \in Messages \ {m} : attempts'[n] = attempts[n]
      BY <2>1 DEF RecordSuccess, RecordFailure, TypeOK
    <3>3. \A n \in Messages \ {m} : attemptsRead'[c][n] = attemptsRead[c][n]
      BY <2>1 DEF Finished, TypeOK
    <3> QED BY <3>1, <3>2, <3>3
  <2>7. \A n \in todo[c] \ {m} : attemptsRead[c][n] = attempts[n] /\ row[n] \in {"PENDING", "gone"}
    BY <2>2 DEF AloneInv
  <2>8. \A d \in Calls : \A n \in todo'[d] : attemptsRead'[d][n] = attempts'[n] /\ row'[n] \in {"PENDING", "gone"}
    BY <2>4, <2>5, <2>6, <2>7
  <2>9. \A d \in Calls : step'[d] # "await" /\ (d # c => step'[d] = "idle")
    BY <2>3, <2>4
  <2> QED BY <2>8, <2>9 DEF AloneInv
<1>6. CASE (\E c \in Calls : RuntimeStep(c)) \/ RuntimeAlone
  BY <1>6, RuntimeEffect DEF rowVars, callVars, historyVars, AloneInv
<1>7. CASE Breaks
  <2>1. PICK over \in SUBSET Calls : EndsCalls(over)
    BY <1>7, BreakEffect
  <2>2. UNCHANGED <<row, attempts, shared, swept>>
    BY <1>7, BreakEffect DEF rowVars, historyVars
  <2>3. \A d \in over : step'[d] = "idle" /\ todo'[d] = {}
    BY <2>1 DEF EndsCalls
  <2>4. \A d \in Calls \ over : /\ step'[d] = step[d] /\ todo'[d] = todo[d] /\ body'[d] = body[d]
                                 /\ attemptsRead'[d] = attemptsRead[d]
    BY <2>1 DEF EndsCalls
  <2> QED BY <2>2, <2>3, <2>4 DEF AloneInv
<1>8. CASE RowsAlone
  <2>1. UNCHANGED <<shared, attempts, attemptsRead, todo, step, body>>
    BY <1>8, OthersEffect DEF callVars, runtimeVars
  <2>2. /\ \A m \in Messages : AtWork(m) => AtWork(m)'
        /\ \A m \in Messages : row[m] \in {"PENDING", "gone"} => row'[m] \in {"PENDING", "gone"}
    BY <1>8, OthersEffect
  <2>3. \A c \in Calls : step[c] = "await" => body[c] \in Messages
    BY DEF RequestInv, IsCurrent, TypeOK
  <2>4. \A c \in Calls : todo[c] \subseteq Messages
    BY DEF TypeOK
  <2> HIDE DEF AtWork
  <2> QED BY <2>1, <2>2, <2>3, <2>4 DEF AloneInv
<1>9. CASE UNCHANGED vars
  BY <1>9 DEF vars, rowVars, callVars, runtimeVars, historyVars, AloneInv
<1> QED BY <1>1, <1>2, <1>3, <1>4, <1>5, <1>6, <1>7, <1>8, <1>9 DEF Next, CallStep, Breaks, RowsAlone

LEMMA AloneAlways == Spec => []AloneInv
<1>1. Init => AloneInv
  BY DEF Init, AloneInv
<1>2. Inv /\ AloneInv /\ [Next]_vars => AloneInv'
  BY AloneStep
<1> QED BY <1>1, <1>2, ReplayTypeCorrect, PTL DEF Spec

(* As long as replays do not overlap, the agent of a caller that waits     *)
(* works on a message whose row says PROCESSING, was taken for one left    *)
(* behind by a sweep, or has been removed.                                 *)
THEOREM RunsAlwaysProcessing == Spec => []RunsAreProcessing
<1>1. Inv /\ AloneInv => RunsAreProcessing
  BY DEF Inv, RequestInv, AloneInv, AtWork, RunsAreProcessing, Working
<1> QED BY <1>1, AloneAlways, ReplayTypeCorrect, PTL
-----------------------------------------------------------------------------
(* The refinement: Enqueue inserts, ListPending may change who overlaps,   *)
(* SendNext claims, the end of a request delivers or fails, which with     *)
(* calls overlapping overwrite; sweeps reset, purge and reaper remove.     *)
LEMMA ClaimStep ==
  ASSUME Inv, AloneInv, NEW c \in Calls, SendNext(c)
  PROVE  [Queue!Next]_<<row, attempts, shared, swept>>
<1> USE DEF Inv
<1>1. PICK m \in Messages :
        /\ step[c] = "send" /\ IsCurrent(c, m) /\ row' = [row EXCEPT ![m] = "PROCESSING"]
        /\ row[m] # "gone" /\ swept' = swept \ {m}
        /\ UNCHANGED <<attempts, shared>>
  BY SendEffect
<1>2. CASE shared
  <2>1. row[m] \notin {"none", "gone"} /\ row'[m] = "PROCESSING" /\ attempts'[m] \in Nat
        /\ row' = [row EXCEPT ![m] = row'[m]] /\ attempts' = [attempts EXCEPT ![m] = attempts'[m]]
    BY <1>1 DEF ListInv, IsCurrent, TypeOK
  <2>2. Queue!Overwrite(m)
    BY <1>1, <1>2, <2>1 DEF Queue!Overwrite, Queue!Statuses
  <2> QED BY <2>2 DEF Queue!Next
<1>3. CASE ~shared
  <2>1. row[m] = "PENDING"
    BY <1>1, <1>3 DEF AloneInv, IsCurrent
  <2>2. Queue!Claim(m)
    BY <1>1, <2>1 DEF Queue!Claim, Queue!Becomes
  <2> QED BY <2>2 DEF Queue!Next
<1> QED BY <1>2, <1>3 DEF TypeOK

LEMMA SettleStep ==
  ASSUME Inv, AloneInv, NEW c \in Calls, TakeResponse(c) \/ FetchTimesOut(c)
  PROVE  [Queue!Next]_<<row, attempts, shared, swept>>
<1> USE DEF Inv
<1>1. PICK m \in Messages :
        /\ step[c] = "await" /\ IsCurrent(c, m) /\ (RecordSuccess(c, m) \/ RecordFailure(c, m))
        /\ UNCHANGED shared
  BY EndEffect
<1>2. CASE shared
  <2>1. row[m] \notin {"none", "gone"} /\ row'[m] \in Statuses \ {"none", "gone"} /\ attempts'[m] \in Nat
        /\ swept' = swept \ {m}
    BY <1>1, RecordTypes DEF ListInv, IsCurrent
  <2>2. row' = [row EXCEPT ![m] = row'[m]] /\ attempts' = [attempts EXCEPT ![m] = attempts'[m]]
    BY <1>1 DEF RecordSuccess, RecordFailure, Becomes, TypeOK
  <2>3. Queue!Overwrite(m)
    BY <1>1, <1>2, <2>1, <2>2 DEF Queue!Overwrite, Queue!Statuses, Statuses
  <2> QED BY <2>3 DEF Queue!Next
<1>3. CASE ~shared
  <2>1. m = body[c] /\ m \in todo[c]
    BY <1>1, OneCurrent DEF RequestInv, IsCurrent
  <2>2. /\ row[m] = "PROCESSING" \/ (row[m] = "PENDING" /\ m \in swept)
        /\ attemptsRead[c][m] = attempts[m] /\ swept' = swept \ {m}
    BY <1>1, <1>3, <2>1, RecordTypes DEF AloneInv, AtWork
  <2>3. CASE RecordSuccess(c, m)
    <3>1. Queue!Deliver(m)
      BY <1>1, <2>2, <2>3 DEF RecordSuccess, Becomes, Queue!Deliver, Queue!InWork, Queue!Becomes
    <3> QED BY <3>1 DEF Queue!Next
  <2>4. CASE RecordFailure(c, m)
    <3>1. attempts' = [attempts EXCEPT ![m] = attempts[m] + 1]
      BY <2>2, <2>4 DEF RecordFailure, NewAttempts
    <3>2. attempts[m] \in Nat
      BY DEF TypeOK
    <3>3. row' = [row EXCEPT ![m] = IF attempts[m] + 1 < MAX_ATTEMPTS THEN "PENDING" ELSE "FAILED"]
      <4>1. NewAttempts(c, m) = attempts[m] + 1
        BY <2>2 DEF NewAttempts
      <4>2. IsLast(NewAttempts(c, m)) <=> ~(attempts[m] + 1 < MAX_ATTEMPTS)
        BY <3>2, <4>1 DEF IsLast
      <4>3. row' = [row EXCEPT ![m] = IF IsLast(NewAttempts(c, m)) THEN "FAILED" ELSE "PENDING"]
        BY <2>4 DEF RecordFailure, Becomes
      <4> QED BY <4>2, <4>3
    <3>4. Queue!Fail(m)
      BY <1>1, <2>2, <3>1, <3>3 DEF Queue!Fail, Queue!InWork, Queue!Becomes
    <3> QED BY <3>4 DEF Queue!Next
  <2> QED BY <1>1, <2>3, <2>4
<1> QED BY <1>2, <1>3 DEF TypeOK

LEMMA QueueStep ==
  ASSUME Inv, AloneInv, [Next]_vars
  PROVE  [Queue!Next]_<<row, attempts, shared, swept>>
<1>1. ASSUME NEW m \in Messages, Enqueue(m)
      PROVE  [Queue!Next]_<<row, attempts, shared, swept>>
  <2>1. Queue!Insert(m)
    BY <1>1 DEF Enqueue, IsNew, Becomes, historyVars, Queue!Insert, Queue!Becomes
  <2> QED BY <2>1 DEF Queue!Next
<1>2. ASSUME NEW m \in Messages, EnqueueFails(m)
      PROVE  UNCHANGED <<row, attempts, shared, swept>>
  BY <1>2 DEF EnqueueFails, rowVars
<1>3. ASSUME NEW c \in Calls, ListPending(c)
      PROVE  [Queue!Next]_<<row, attempts, shared, swept>>
  <2>1. shared' \in BOOLEAN /\ UNCHANGED <<row, attempts, swept>>
    BY <1>3 DEF ListPending, rowVars
  <2> QED BY <2>1 DEF Queue!Next, Queue!Share
<1>4. CASE (\E c \in Calls : RuntimeStep(c)) \/ RuntimeAlone
  BY <1>4, RuntimeEffect DEF Inv, rowVars, historyVars
<1>5. CASE Breaks
  BY <1>5, BreakEffect DEF Inv, rowVars, historyVars
<1>6. CASE Restart \/ ControlPlaneBoots
  <2>1. PICK old \in SUBSET Messages :
          /\ row' = [m \in Messages |-> IF m \in old THEN AfterSweep(row[m]) ELSE row[m]]
          /\ swept' = swept \cup {m \in old : row[m] = "PROCESSING"}
    BY <1>6 DEF Restart, ControlPlaneBoots, Sweep
  <2> DEFINE S == {m \in old : row[m] = "PROCESSING"}
  <2>2. row' = [m \in Messages |-> IF m \in S THEN "PENDING" ELSE row[m]]
    BY <2>1 DEF AfterSweep
  <2>3. S \in SUBSET {m \in Messages : row[m] = "PROCESSING"} /\ UNCHANGED <<attempts, shared>>
    BY <1>6 DEF Restart, ControlPlaneBoots, Sweep
  <2>4. Queue!Reset
    BY <2>1, <2>2, <2>3 DEF Queue!Reset
  <2> QED BY <2>4 DEF Queue!Next
<1>8. CASE Purge \/ Reap
  <2>1. PICK S \in SUBSET Messages :
          /\ S = {m \in Messages : row[m] # "none"} \/ \A m \in S : row[m] \in {"DELIVERED", "FAILED"}
          /\ RowsGo(S)
    <3>1. CASE Purge
      BY <3>1 DEF Purge
    <3>2. CASE Reap
      <4>1. PICK S \in SUBSET {m \in Messages : row[m] \in {"DELIVERED", "FAILED"}} : RowsGo(S)
        BY <3>2 DEF Reap
      <4> QED BY <4>1
    <3> QED BY <1>8, <3>1, <3>2
  <2>2. Queue!Remove
    BY <2>1 DEF RowsGo, Queue!Remove
  <2> QED BY <2>2 DEF Queue!Next
<1>7. CASE UNCHANGED vars
  BY <1>7 DEF vars, rowVars, historyVars
<1> QED BY <1>1, <1>2, <1>3, <1>4, <1>5, <1>6, <1>7, <1>8, ClaimStep, SettleStep
    DEF Next, CallStep, Breaks

(* The replay implements the life of a row that QueueLifecycle promises.   *)
THEOREM ImplementsQueue == Spec => QueueSpec
<1>1. Init => Queue!Init
  BY DEF Init, NoAttempts, Queue!Init
<1>2. Inv /\ AloneInv /\ [Next]_vars => [Queue!Next]_<<row, attempts, shared, swept>>
  BY QueueStep
<1> QED BY <1>1, <1>2, ReplayTypeCorrect, AloneAlways, PTL DEF Spec, QueueSpec, Queue!Spec, Queue!queueVars

-----------------------------------------------------------------------------
(* Why calls end                                                           *)

(* The list of a call only shrinks, in its order, and a message is posted  *)
(* once by each call that has it in its list, for any number of both: a    *)
(* call is over after at most two steps per message.                       *)
THEOREM CallsAlwaysAdvance == Spec => CallsAdvance
<1> DEFINE Advance(c) ==
      \/ UNCHANGED <<step[c], todo[c]>>
      \/ step[c] = "send" /\ step'[c] = "await" /\ UNCHANGED todo[c]
      \/ \E m \in todo[c] :
           /\ step[c] = "await" /\ \A n \in todo[c] : m <= n
           /\ todo'[c] = todo[c] \ {m} /\ step'[c] \in {"send", "idle"}
      \/ todo'[c] = {} /\ step'[c] = "idle"
<1>1. ASSUME Inv, [Next]_vars, NEW c \in Calls, ~At(c, "idle")
      PROVE  Advance(c)
  <2> USE DEF Inv
  <2>1. ASSUME NEW d \in Calls, ListPending(d)
        PROVE  Advance(c)
    BY <1>1, <2>1 DEF ListPending, At, GoTo, TypeOK
  <2>2. ASSUME NEW d \in Calls, SendNext(d)
        PROVE  Advance(c)
    <3>1. step[d] = "send" /\ step' = [step EXCEPT ![d] = "await"] /\ UNCHANGED todo
      BY <1>1, <2>2, SendEffect
    <3> QED BY <1>1, <3>1 DEF TypeOK
  <2>3. ASSUME NEW d \in Calls, TakeResponse(d) \/ FetchTimesOut(d)
        PROVE  Advance(c)
    <3>1. PICK m \in Messages : step[d] = "await" /\ IsCurrent(d, m) /\ Finished(d, m)
      BY <1>1, <2>3, EndEffect
    <3>2. /\ todo' = [todo EXCEPT ![d] = @ \ {m}]
          /\ step'[d] \in {"send", "idle"}
          /\ \A k \in Calls \ {d} : step'[k] = step[k]
      BY <1>1, <3>1, FinishedTypes
    <3>3. CASE c = d
      <4>1. m \in todo[c] /\ todo'[c] = todo[c] \ {m} /\ \A n \in todo[c] : m <= n
        BY <1>1, <3>1, <3>2, <3>3 DEF IsCurrent, TypeOK
      <4> QED BY <3>1, <3>2, <3>3, <4>1
    <3>4. CASE c # d
      BY <1>1, <3>2, <3>4 DEF TypeOK
    <3> QED BY <3>3, <3>4
  <2>4. CASE (\E d \in Calls : RuntimeStep(d)) \/ RuntimeAlone
    BY <1>1, <2>4, RuntimeEffect DEF callVars
  <2>5. CASE Breaks
    <3>1. PICK over \in SUBSET Calls : EndsCalls(over)
      BY <1>1, <2>5, BreakEffect
    <3>2. step'[c] = (IF c \in over THEN "idle" ELSE step[c])
          /\ todo'[c] = (IF c \in over THEN {} ELSE todo[c])
      BY <3>1 DEF EndsCalls
    <3> QED BY <3>2
  <2>6. CASE (\E m \in Messages : Enqueue(m) \/ EnqueueFails(m)) \/ UNCHANGED vars
    BY <2>6 DEF Enqueue, EnqueueFails, vars, callVars
  <2>7. CASE RowsAlone
    BY <1>1, <2>7, OthersEffect DEF callVars
  <2> QED BY <1>1, <2>1, <2>2, <2>3, <2>4, <2>5, <2>6, <2>7 DEF Next, CallStep, Breaks, RowsAlone
<1>2. Inv /\ [Next]_vars => \A c \in Calls : ~At(c, "idle") => Advance(c)
  BY <1>1
<1> QED BY <1>2, ReplayTypeCorrect, PTL DEF Spec, CallsAdvance
=============================================================================
