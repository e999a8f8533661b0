--------------------------- MODULE DiskQuotaProofs --------------------------
(***************************************************************************)
(* Proofs about DiskQuota, for any number of overlapping runs, any usages  *)
(* and any number of failing statements.                                   *)
(***************************************************************************)
EXTENDS DiskQuota, TLAPS

CheckSteps == {"idle", "measure", "set", "warn", "clear", "host"}

(* A run moves itself only.                                                *)
LEMMA RunEffect ==
  ASSUME QuotaTypeOK, NEW r \in Runs,
         BeginCheck(r) \/ CheckStep(r) \/ MeasureFails(r) \/ WriteFails(r)
  PROVE  /\ \E s \in CheckSteps : step' = [step EXCEPT ![r] = s] /\ (s = "clear" => seen'[r] = 1)
         /\ \E b \in {0, 1} : seen' = [seen EXCEPT ![r] = b]
<1> USE DEF GoTo, CheckSteps, QuotaTypeOK, At
<1>1. CASE BeginCheck(r)
  BY <1>1 DEF BeginCheck, Selected
<1>2. CASE Measure(r)
  <2>1. seen' = [seen EXCEPT ![r] = seen[r]] /\ seen[r] \in {0, 1}
    BY <1>2 DEF Measure
  <2>2. step' = [step EXCEPT ![r] = Verdict(r)] /\ seen' = seen
    BY <1>2 DEF Measure
  <2>3. Verdict(r) \in CheckSteps /\ (Verdict(r) = "clear" => seen[r] = 1)
    BY DEF Verdict
  <2> QED BY <2>1, <2>2, <2>3
<1>3. CASE Write(r) \/ MeasureFails(r)
  <2>1. seen' = [seen EXCEPT ![r] = seen[r]] /\ seen[r] \in {0, 1}
    BY <1>3 DEF Write, MeasureFails
  <2> QED BY <1>3, <2>1 DEF Write, MeasureFails
<1>4. CASE CheckHost(r) \/ WriteFails(r)
  BY <1>4 DEF CheckHost, WriteFails
<1> QED BY <1>1, <1>2, <1>3, <1>4 DEF CheckStep

LEMMA RunTypes ==
  ASSUME QuotaTypeOK, NEW r \in Runs,
         BeginCheck(r) \/ CheckStep(r) \/ MeasureFails(r) \/ WriteFails(r)
  PROVE  /\ usage' \in Percents /\ status' \in {"ACTIVE", "STARTING", "other"}
         /\ flag' \in {0, 1} /\ faults' \in 0 .. MaxFaults
         /\ low' \in Percents \cup {0}
         /\ full' \in BOOLEAN /\ upset' \in BOOLEAN
<1> USE QuotaAssumption DEF QuotaTypeOK, At
<1>1. CASE BeginCheck(r)
  <2>1. full' \in BOOLEAN /\ upset' \in BOOLEAN
    BY <1>1 DEF BeginCheck
  <2> QED BY <1>1, <2>1 DEF BeginCheck
<1>2. CASE Measure(r)
  <2>1. full' \in BOOLEAN
    BY <1>2 DEF Measure
  <2> QED BY <1>2, <2>1 DEF Measure
<1>3. CASE Write(r)
  <2>1. flag' \in {0, 1}
    BY <1>3 DEF Write
  <2> QED BY <1>3, <2>1 DEF Write
<1>4. CASE CheckHost(r)
  BY <1>4 DEF CheckHost
<1>5. CASE MeasureFails(r) \/ WriteFails(r)
  <2>1. faults' \in 0 .. MaxFaults
    BY <1>5 DEF MeasureFails, WriteFails, Fault
  <2>2. flag' \in {0, 1}
    BY <1>5 DEF MeasureFails, WriteFails
  <2> QED BY <2>2, <1>5, <2>1 DEF MeasureFails, WriteFails
<1> QED BY <1>1, <1>2, <1>3, <1>4, <1>5 DEF CheckStep

(* Types; and a run that is about to clear the flag has read it set.       *)
THEOREM QuotaTypeCorrect == Spec => []QuotaTypeOK
<1>1. Init => QuotaTypeOK
  <2> SUFFICES ASSUME Init PROVE QuotaTypeOK
    OBVIOUS
  <2>1. faults \in 0 .. MaxFaults
    BY QuotaAssumption DEF Init
  <2>2. full \in BOOLEAN /\ upset \in BOOLEAN
    BY DEF Init
  <2>3. /\ step \in [Runs -> {"idle", "measure", "set", "warn", "clear", "host"}]
        /\ seen \in [Runs -> {0, 1}] /\ \A r \in Runs : ~At(r, "clear")
    BY DEF Init, At
  <2> QED BY <2>1, <2>2, <2>3 DEF Init, QuotaTypeOK
<1>2. QuotaTypeOK /\ [Next]_vars => QuotaTypeOK'
  <2> SUFFICES ASSUME QuotaTypeOK, [Next]_vars PROVE QuotaTypeOK'
    OBVIOUS
  <2>1. ASSUME NEW r \in Runs,
               BeginCheck(r) \/ CheckStep(r) \/ MeasureFails(r) \/ WriteFails(r)
        PROVE  QuotaTypeOK'
    <3>1. PICK s \in CheckSteps : step' = [step EXCEPT ![r] = s] /\ (s = "clear" => seen'[r] = 1)
      BY <2>1, RunEffect
    <3>2. PICK b \in {0, 1} : seen' = [seen EXCEPT ![r] = b]
      BY <2>1, RunEffect
    <3>3. \A v \in Runs : At(v, "clear")' => seen'[v] = 1
      BY <3>1, <3>2 DEF QuotaTypeOK, At
    <3>4. /\ step' \in [Runs -> {"idle", "measure", "set", "warn", "clear", "host"}]
          /\ seen' \in [Runs -> {0, 1}]
      BY <3>1, <3>2 DEF QuotaTypeOK, CheckSteps
    <3> QED BY <2>1, <3>3, <3>4, RunTypes DEF QuotaTypeOK
  <2>2. CASE UsageChanges \/ StatusChanges
    BY <2>2 DEF UsageChanges, StatusChanges, QuotaTypeOK, At
  <2>3. CASE UNCHANGED vars
    BY <2>3 DEF vars, QuotaTypeOK, At
  <2> QED BY <2>1, <2>2, <2>3 DEF Next
<1> QED BY <1>1, <1>2, PTL DEF Spec

-----------------------------------------------------------------------------
(* While nothing is upset at most one run is going on, it has read the     *)
(* flag as it is, and what it is about to write is what it measured.       *)
Agrees == flag = 1 <=> full
QuietInv ==
  ~upset =>
    /\ \A r, v \in Runs : r = v \/ step[r] = "idle" \/ step[v] = "idle"
    /\ (\A r \in Runs : step[r] \notin {"set", "clear"}) => Agrees
    /\ \A r \in Runs : /\ step[r] = "measure" => seen[r] = flag
                       /\ step[r] = "set" => full
                       /\ step[r] = "clear" => ~full

LEMMA QuietStep ==
  ASSUME QuotaTypeOK, QuietInv, [Next]_vars
  PROVE  QuietInv'
<1> USE DEF GoTo, At
<1>1. ASSUME NEW r \in Runs, BeginCheck(r)
      PROVE  QuietInv'
  <2> SUFFICES ASSUME ~upset' PROVE QuietInv'
    BY DEF QuietInv
  <2>1. /\ \A v \in Runs : step[v] = "idle"
        /\ full' = (flag = 1) /\ flag' = flag
        /\ seen' = [seen EXCEPT ![r] = flag]
        /\ \E s \in {"host", "measure"} : step' = [step EXCEPT ![r] = s]
    BY <1>1 DEF BeginCheck, Selected
  <2>2. \A v \in Runs \ {r} : step'[v] = "idle"
    BY <2>1 DEF QuotaTypeOK
  <2>3. step'[r] \in {"host", "measure"} /\ seen'[r] = flag
    BY <2>1 DEF QuotaTypeOK
  <2> QED BY <2>1, <2>2, <2>3 DEF QuietInv, Agrees
<1>2. ASSUME NEW r \in Runs, Measure(r)
      PROVE  QuietInv'
  <2> SUFFICES ASSUME ~upset PROVE QuietInv'
    BY <1>2 DEF QuietInv, Measure
  <2>1. /\ step[r] = "measure" /\ step' = [step EXCEPT ![r] = Verdict(r)]
        /\ full' = (usage >= 100 \/ (usage >= 90 /\ full))
        /\ UNCHANGED <<flag, seen, upset>>
    BY <1>2 DEF Measure
  <2>2. \A v \in Runs \ {r} : step'[v] = "idle" /\ step[v] = "idle"
    BY <2>1 DEF QuietInv, QuotaTypeOK
  <2>3. Agrees /\ seen[r] = flag /\ flag \in {0, 1} /\ usage \in Nat /\ full \in BOOLEAN
    BY <2>1, <2>2, QuotaAssumption DEF QuietInv, QuotaTypeOK
  <2>4. step'[r] = Verdict(r)
    BY <2>1 DEF QuotaTypeOK
  <2>5. CASE usage >= 100
    <3>1. Verdict(r) = "set"
      BY <2>3, <2>5 DEF Verdict
    <3>2. full'
      BY <2>1, <2>5
    <3> QED BY <2>1, <2>2, <2>4, <3>1, <3>2 DEF QuietInv
  <2>6. CASE usage >= 90 /\ usage < 100
    <3>1. Verdict(r) = "warn" /\ (full' <=> full)
      BY <2>1, <2>3, <2>6 DEF Verdict
    <3> QED BY <2>1, <2>2, <2>3, <2>4, <3>1 DEF QuietInv, Agrees
  <2>7. CASE usage < 90
    <3>1. Verdict(r) = "clear" \/ (Verdict(r) = "host" /\ flag = 0)
      BY <2>3, <2>7 DEF Verdict
    <3>2. ~full'
      <4>1. ~(usage >= 100) /\ ~(usage >= 90)
        BY <2>3, <2>7
      <4> QED BY <2>1, <4>1, Zenon
    <3> QED BY <2>1, <2>2, <2>3, <2>4, <3>1, <3>2 DEF QuietInv, Agrees
  <2> QED BY <2>3, <2>5, <2>6, <2>7
<1>3. ASSUME NEW r \in Runs, Write(r)
      PROVE  QuietInv'
  <2> SUFFICES ASSUME ~upset PROVE QuietInv'
    BY <1>3 DEF QuietInv, Write
  <2>1. /\ step[r] \in {"set", "warn", "clear"} /\ step' = [step EXCEPT ![r] = "host"]
        /\ flag' = IF step[r] = "set" THEN 1 ELSE IF step[r] = "warn" THEN flag ELSE 0
        /\ UNCHANGED <<full, upset>>
    BY <1>3 DEF Write
  <2>2. \A v \in Runs \ {r} : step'[v] = "idle" /\ step[v] = "idle"
    BY <2>1 DEF QuietInv, QuotaTypeOK
  <2>3. step'[r] = "host"
    BY <2>1 DEF QuotaTypeOK
  <2>4. Agrees'
    BY <2>1, <2>2 DEF QuietInv, Agrees
  <2> QED BY <2>1, <2>2, <2>3, <2>4 DEF QuietInv
<1>4. ASSUME NEW r \in Runs, CheckHost(r) \/ MeasureFails(r)
      PROVE  QuietInv'
  <2> SUFFICES ASSUME ~upset PROVE QuietInv'
    BY <1>4 DEF QuietInv, CheckHost, MeasureFails
  <2>1. /\ step[r] \in {"host", "measure"} /\ UNCHANGED <<flag, full, upset>>
        /\ \E s \in {"host", "idle"} : step' = [step EXCEPT ![r] = s]
    BY <1>4 DEF CheckHost, MeasureFails
  <2>2. \A v \in Runs \ {r} : step'[v] = "idle" /\ step[v] = "idle"
    BY <2>1 DEF QuietInv, QuotaTypeOK
  <2>3. step'[r] \in {"host", "idle"}
    BY <2>1 DEF QuotaTypeOK
  <2>4. Agrees'
    BY <2>1, <2>2 DEF QuietInv, Agrees
  <2> QED BY <2>1, <2>2, <2>3, <2>4 DEF QuietInv
<1>5. ASSUME NEW r \in Runs, WriteFails(r)
      PROVE  QuietInv'
  BY <1>5 DEF WriteFails, QuietInv
<1>6. CASE UsageChanges \/ StatusChanges \/ UNCHANGED vars
  BY <1>6 DEF UsageChanges, StatusChanges, vars, QuietInv, Agrees
<1> QED BY <1>1, <1>2, <1>3, <1>4, <1>5, <1>6 DEF Next, CheckStep

(* At rest POST /message is blocked only after a measure of 100 percent or *)
(* more that none of less than 90 followed, and is blocked after one if    *)
(* all since were of 95 or more, whatever usages there are, unless two     *)
(* runs overlapped or a write failed.                                      *)
THEOREM FlagAlwaysFollows == Spec => []FlagFollowsMeasures
<1>1. Init => QuietInv
  BY DEF Init, QuietInv, Agrees
<1>2. QuotaTypeOK /\ QuietInv /\ [Next]_vars => QuietInv'
  BY QuietStep
<1>3. QuotaTypeOK /\ QuietInv => FlagFollowsMeasures
  BY DEF QuotaTypeOK, QuietInv, Agrees, FlagFollowsMeasures, At
<1> QED BY <1>1, <1>2, <1>3, QuotaTypeCorrect, PTL DEF Spec
=============================================================================
