---------------------------- MODULE ReaperProofs ----------------------------
(***************************************************************************)
(* Proofs about Reaper, for any audit rows, any number of overlapping runs *)
(* and any number of failures and restarts.                                *)
(***************************************************************************)
EXTENDS Reaper, TLAPS, NaturalsInduction, WellFoundedInduction

(* The months are numbers, so one of those left is the earliest.           *)
LEMMA Earliest ==
  ASSUME NEW S, S \subseteq Nat, S # {}
  PROVE  \E m \in S : \A n \in S : m <= n
<1>1. PICK m \in S : \A n \in S : ~(<<n, m>> \in OpToRel(<, Nat))
  BY NatLessThanWellFounded, WFMin
<1>2. ASSUME NEW n \in S PROVE m <= n
  <2>1. <<n, m>> \in Nat \X Nat /\ <<n, m>>[1] = n /\ <<n, m>>[2] = m
    OBVIOUS
  <2>2. ~(n < m)
    BY <1>1, <2>1 DEF OpToRel
  <2> QED BY <2>2
<1> QED BY <1>2

LEMMA CurrentIsLeft ==
  ASSUME ReaperTypeOK, NEW r \in Runs, At(r, "append")
  PROVE  Current(r) \in left[r] /\ Current(r) \in Months
<1>1. left[r] # {} /\ left[r] \subseteq Months
  BY DEF ReaperTypeOK
<1>2. Months \subseteq Nat
  BY ReaperAssumption DEF Months
<1>3. \E m \in left[r] : \A n \in left[r] : m <= n
  BY <1>1, <1>2, Earliest
<1>4. Current(r) \in left[r]
  BY <1>3 DEF Current
<1> QED BY <1>1, <1>4

LEMMA SpanType == /\ Span \in Nat \ {0} /\ \A n \in Nat : n % Span \in 0 .. Span - 1
<1>1. Span \in Nat \ {0}
  BY ReaperAssumption DEF Span
<1> HIDE DEF Span
<1> QED BY <1>1

-----------------------------------------------------------------------------
RunSteps == {"idle", "jobs", "disk", "reap", "count", "find", "append", "delete"}

(* A run moves itself only, and has months left exactly while it appends.  *)
Moved(r) ==
  /\ step' \in [Runs -> RunSteps] /\ rows' \in [Runs -> SUBSET Rows]
  /\ left' \in [Runs -> SUBSET Months]
  /\ \A v \in Runs \ {r} : step'[v] = step[v] /\ rows'[v] = rows[v] /\ left'[v] = left[v]
  /\ left'[r] # {} <=> step'[r] = "append"

LEMMA EndsMoves ==
  ASSUME ReaperTypeOK, NEW r \in Runs, Ends(r)
  PROVE  Moved(r) /\ step'[r] = "idle" /\ timer' = TRUE
<1>1. step' = [step EXCEPT ![r] = "idle"] /\ timer' = TRUE
  BY DEF Ends, GoTo
<1>2. rows' = [rows EXCEPT ![r] = {}] /\ left' = [left EXCEPT ![r] = {}]
  BY DEF Ends
<1>3. step' \in [Runs -> RunSteps] /\ step'[r] = "idle" /\ \A v \in Runs \ {r} : step'[v] = step[v]
  BY <1>1 DEF ReaperTypeOK, RunSteps
<1>4. rows' \in [Runs -> SUBSET Rows] /\ \A v \in Runs \ {r} : rows'[v] = rows[v]
  BY <1>2 DEF ReaperTypeOK
<1>5. /\ left' \in [Runs -> SUBSET Months] /\ left'[r] = {}
      /\ \A v \in Runs \ {r} : left'[v] = left[v]
  BY <1>2 DEF ReaperTypeOK
<1> QED BY <1>1, <1>3, <1>4, <1>5 DEF Moved

LEMMA StaysMoves ==
  ASSUME ReaperTypeOK, NEW r \in Runs, NEW s \in RunSteps \ {"append"}, step[r] # "append",
         GoTo(r, s), Keeps
  PROVE  Moved(r) /\ step'[r] = s
<1>1. step' = [step EXCEPT ![r] = s] /\ UNCHANGED <<rows, left>>
  BY DEF GoTo, Keeps
<1>2. left[r] = {}
  BY DEF ReaperTypeOK, At
<1> QED BY <1>1, <1>2 DEF ReaperTypeOK, Moved, RunSteps

(* The test for the hourly work.                                           *)
LEMMA TestMoves ==
  ASSUME ReaperTypeOK, NEW r \in Runs, step[r] \in {"jobs", "disk"}, NEW t \in Nat,
         NEW n \in 0 .. REAP_TICKS + 1, NEW d \in BOOLEAN, TestReap(r, t, n, d)
  PROVE  /\ Moved(r) /\ step'[r] \in {"reap", "idle"} /\ timer' \in BOOLEAN
         /\ since' \in 0 .. REAP_TICKS + 1 /\ disturbed' \in BOOLEAN
<1>1. CASE ReapDue(t)
  <2>1. GoTo(r, "reap") /\ Keeps /\ timer' = timer /\ since' = 0 /\ disturbed' = FALSE
    BY <1>1 DEF TestReap, Continues
  <2>2. since' \in 0 .. REAP_TICKS + 1
    BY <2>1, ReaperAssumption
  <2>3. timer' \in BOOLEAN /\ disturbed' \in BOOLEAN
    BY <2>1 DEF ReaperTypeOK
  <2>4. "reap" \in RunSteps \ {"append"}
    BY DEF RunSteps
  <2> QED BY <2>1, <2>2, <2>3, <2>4, StaysMoves
<1>2. CASE ~ReapDue(t)
  <2>1. Ends(r) /\ since' = n /\ disturbed' = d
    BY <1>2 DEF TestReap
  <2> QED BY <2>1, EndsMoves
<1> QED BY <1>1, <1>2

LEMMA CountTickMoves ==
  ASSUME ReaperTypeOK, NEW r \in Runs, CountTick(r)
  PROVE  /\ Moved(r) /\ step'[r] \in {"disk", "reap", "idle"} /\ timer' \in BOOLEAN
         /\ since' \in 0 .. REAP_TICKS + 1 /\ disturbed' \in BOOLEAN
         /\ tickCount' \in 0 .. Span - 1
<1> DEFINE t == (tickCount + 1) % Span
           n == IF since <= REAP_TICKS THEN since + 1 ELSE since
           d == disturbed \/ \E v \in Runs : At(v, "disk")
<1>1. /\ step[r] = "jobs" /\ tickCount' = t
      /\ \/ GoTo(r, "disk") /\ timer' = timer /\ Keeps /\ since' = n /\ disturbed' = d
         \/ TestReap(r, t, n, d)
  BY DEF CountTick, At, Continues
<1>2. t \in 0 .. Span - 1 /\ t \in Nat
  <2>1. tickCount + 1 \in Nat
    BY SpanType DEF ReaperTypeOK
  <2> QED BY <2>1, SpanType
<1>3. n \in 0 .. REAP_TICKS + 1
  BY ReaperAssumption DEF ReaperTypeOK
<1>4. d \in BOOLEAN
  BY DEF ReaperTypeOK
<1> HIDE DEF t, n, d
<1>5. CASE TestReap(r, t, n, d)
  BY <1>1, <1>2, <1>3, <1>4, <1>5, TestMoves
<1>6. CASE GoTo(r, "disk") /\ timer' = timer /\ Keeps /\ since' = n /\ disturbed' = d
  <2>1. "disk" \in RunSteps \ {"append"}
    BY DEF RunSteps
  <2>2. Moved(r) /\ step'[r] = "disk"
    BY <1>1, <1>6, <2>1, StaysMoves
  <2>3. timer' \in BOOLEAN
    BY <1>6 DEF ReaperTypeOK
  <2> QED BY <1>1, <1>2, <1>3, <1>4, <1>6, <2>2, <2>3
<1> QED BY <1>1, <1>5, <1>6

(* What an archiving finds, and what it writes.                            *)
LEMMA FindMoves ==
  ASSUME ReaperTypeOK, NEW r \in Runs, FindRows(r)
  PROVE  /\ step[r] = "find" /\ Moved(r) /\ timer' \in BOOLEAN /\ redone' \in BOOLEAN
         /\ \/ step'[r] = "idle" /\ redone' = redone
            \/ /\ step'[r] = "append" /\ rows'[r] = audit \cap old
               /\ left'[r] = {MonthOf[a] : a \in audit \cap old}
               /\ redone' = (redone \/ Archiving # {})
<1>1. CASE Found = {}
  <2>1. step[r] = "find" /\ Ends(r) /\ redone' = redone
    BY <1>1 DEF FindRows, At
  <2> QED BY <2>1, EndsMoves DEF ReaperTypeOK
<1>2. CASE Found # {}
  <2>1. /\ step[r] = "find" /\ step' = [step EXCEPT ![r] = "append"] /\ timer' = timer
        /\ rows' = [rows EXCEPT ![r] = audit \cap old]
        /\ left' = [left EXCEPT ![r] = {MonthOf[a] : a \in audit \cap old}]
        /\ redone' = (redone \/ Archiving # {})
    BY <1>2 DEF FindRows, At, Continues, GoTo, Found
  <2>2. audit \cap old \subseteq Rows /\ audit \cap old # {}
    BY <1>2 DEF Found, ReaperTypeOK
  <2> DEFINE L == {MonthOf[a] : a \in audit \cap old}
  <2>3. L \subseteq Months /\ L # {}
    BY <2>2 DEF Months
  <2> HIDE DEF L
  <2>4. left' = [left EXCEPT ![r] = L]
    BY <2>1 DEF L
  <2>5. /\ left' \in [Runs -> SUBSET Months] /\ left'[r] = L
        /\ \A v \in Runs \ {r} : left'[v] = left[v]
    BY <2>3, <2>4 DEF ReaperTypeOK
  <2>6. /\ rows' \in [Runs -> SUBSET Rows] /\ rows'[r] = audit \cap old
        /\ \A v \in Runs \ {r} : rows'[v] = rows[v]
    BY <2>1, <2>2 DEF ReaperTypeOK
  <2>7. /\ step' \in [Runs -> RunSteps] /\ step'[r] = "append"
        /\ \A v \in Runs \ {r} : step'[v] = step[v]
    BY <2>1 DEF ReaperTypeOK, RunSteps
  <2>8. Moved(r)
    BY <2>3, <2>5, <2>6, <2>7 DEF Moved
  <2>9. timer' \in BOOLEAN /\ redone' \in BOOLEAN
    BY <2>1 DEF ReaperTypeOK
  <2> QED BY <2>1, <2>5, <2>6, <2>7, <2>8, <2>9 DEF L
<1> QED BY <1>1, <1>2

LEMMA AppendMoves ==
  ASSUME ReaperTypeOK, NEW r \in Runs, AppendMonth(r)
  PROVE  /\ step[r] = "append" /\ Moved(r) /\ timer' = timer
         /\ step'[r] \in {"append", "delete"}
         /\ rows' = rows /\ left'[r] = left[r] \ {Current(r)}
         /\ Current(r) \in left[r]
         /\ torn \subseteq torn' /\ torn' \subseteq Months
         /\ copies' = IF Current(r) \in torn' THEN copies ELSE Readable(r)
         /\ UNCHANGED <<tickCount, audit, old, dirVars, faults, historyVars>>
<1>1. step[r] = "append" /\ Current(r) \in left[r] /\ Current(r) \in Months
  BY CurrentIsLeft DEF AppendMonth, At
<1>2. /\ torn' = torn \/ torn' = torn \cup {Current(r)}
      /\ copies' = IF Current(r) \in torn' THEN copies ELSE Readable(r)
      /\ left' = [left EXCEPT ![r] = left[r] \ {Current(r)}]
      /\ UNCHANGED <<tickCount, rows, audit, old, dirVars, faults, historyVars>>
  BY DEF AppendMonth
<1>3. timer' = timer /\ step' = [step EXCEPT ![r] = IF left'[r] = {} THEN "delete" ELSE "append"]
  BY DEF AppendMonth, Continues, GoTo
<1>4. /\ left' \in [Runs -> SUBSET Months] /\ left'[r] = left[r] \ {Current(r)}
      /\ \A v \in Runs \ {r} : left'[v] = left[v]
  BY <1>2 DEF ReaperTypeOK
<1>5. /\ step' \in [Runs -> RunSteps] /\ step'[r] = IF left'[r] = {} THEN "delete" ELSE "append"
      /\ \A v \in Runs \ {r} : step'[v] = step[v]
  BY <1>3 DEF ReaperTypeOK, RunSteps
<1>6. Moved(r)
  BY <1>2, <1>4, <1>5 DEF Moved, ReaperTypeOK
<1>7. torn \subseteq torn' /\ torn' \subseteq Months
  BY <1>1, <1>2 DEF ReaperTypeOK
<1> QED BY <1>1, <1>2, <1>3, <1>4, <1>5, <1>6, <1>7

(* Runs that are cut short tear the months they append to at the most.     *)
LEMMA CutEffect ==
  ASSUME ReaperTypeOK, NEW cut \in SUBSET Runs, CutShort(cut)
  PROVE  /\ torn \subseteq torn' /\ torn' \subseteq Months
         /\ redone' = (redone \/ cut \cap Archiving # {}) /\ redone' \in BOOLEAN
         /\ faults' \in 0 .. MaxFaults
         /\ UNCHANGED <<audit, copies, old, dirVars, since>>
<1>1. \A r \in {v \in cut : At(v, "append")} : Current(r) \in Months
  BY CurrentIsLeft
<1>2. PICK half \in SUBSET {Current(r) : r \in {v \in cut : At(v, "append")}} : torn' = torn \cup half
  BY DEF CutShort
<1>3. half \subseteq Months
  BY <1>1, <1>2
<1>4. torn \subseteq torn' /\ torn' \subseteq Months
  BY <1>2, <1>3 DEF ReaperTypeOK
<1>5. faults' \in 0 .. MaxFaults
  BY ReaperAssumption DEF CutShort, ReaperTypeOK
<1>6. redone' = (redone \/ cut \cap Archiving # {}) /\ redone' \in BOOLEAN
  BY DEF CutShort, ReaperTypeOK
<1> QED BY <1>4, <1>5, <1>6 DEF CutShort

(* What happens outside of the scheduler leaves its runs alone.            *)
Outside == (\E a \in Rows : RowAges(a)) \/ DirectoryChanges \/ ArchiveDirectory \/ ThirtyDaysPass

LEMMA OutsideEffect ==
  ASSUME ReaperTypeOK, Outside
  PROVE  ReaperTypeOK' /\ UNCHANGED <<runVars, auditVars, faults, historyVars>>
<1> USE DEF runVars, auditVars, dirVars, historyVars, ReaperTypeOK, At
<1>1. ASSUME NEW a \in Rows, RowAges(a)
      PROVE  ReaperTypeOK' /\ UNCHANGED <<runVars, auditVars, faults, historyVars>>
  BY <1>1 DEF RowAges
<1>2. CASE DirectoryChanges
  BY <1>2 DEF DirectoryChanges
<1>3. CASE ArchiveDirectory
  BY <1>3 DEF ArchiveDirectory
<1>4. CASE ThirtyDaysPass
  <2>1. kept' \in BOOLEAN /\ unchanged' = TRUE
    BY <1>4 DEF ThirtyDaysPass
  <2> QED BY <1>4, <2>1 DEF ThirtyDaysPass
<1> QED BY <1>1, <1>2, <1>3, <1>4 DEF Outside

(* The steps of a run that neither archive nor fail.                       *)
Plain(r) == BeginRun(r) \/ CountTick(r) \/ DiskChecked(r) \/ CleanArchive(r) \/ CountRows(r)

LEMMA PlainEffect ==
  ASSUME ReaperTypeOK, NEW r \in Runs, Plain(r)
  PROVE  /\ Moved(r) /\ step[r] \notin {"append", "delete"} /\ step'[r] \notin {"append", "delete"}
         /\ timer' \in BOOLEAN /\ tickCount' \in 0 .. Span - 1
         /\ dir' \in {"live", "archived", "removed"}
         /\ since' \in 0 .. REAP_TICKS + 1 /\ disturbed' \in BOOLEAN
         /\ UNCHANGED <<auditVars, old, unchanged, kept, faults, redone>>
<1>1. CASE BeginRun(r)
  <2>1. "jobs" \in RunSteps \ {"append"}
    BY DEF RunSteps
  <2>2. step[r] = "idle" /\ GoTo(r, "jobs") /\ Keeps
    BY <1>1 DEF BeginRun, At, Keeps
  <2> QED BY <1>1, <2>1, <2>2, StaysMoves DEF BeginRun, dirVars, historyVars, ReaperTypeOK
<1>2. CASE CountTick(r)
  <2>1. step[r] = "jobs" /\ UNCHANGED <<auditVars, old, dirVars, faults, redone>>
    BY <1>2 DEF CountTick, At
  <2> QED BY <1>2, <2>1, CountTickMoves DEF dirVars, ReaperTypeOK
<1>3. CASE DiskChecked(r)
  <2>1. /\ step[r] = "disk" /\ TestReap(r, tickCount, since, disturbed)
        /\ UNCHANGED <<tickCount, auditVars, old, dirVars, faults, redone>>
    BY <1>3 DEF DiskChecked, At
  <2>2. tickCount \in Nat /\ since \in 0 .. REAP_TICKS + 1 /\ disturbed \in BOOLEAN
    BY SpanType DEF ReaperTypeOK
  <2> QED BY <2>1, <2>2, TestMoves DEF dirVars, ReaperTypeOK
<1>4. CASE CleanArchive(r)
  <2>1. "count" \in RunSteps \ {"append"}
    BY DEF RunSteps
  <2>2. step[r] = "reap" /\ GoTo(r, "count") /\ Keeps /\ timer' = timer
    BY <1>4 DEF CleanArchive, Continues, At, Keeps
  <2>3. dir' \in {"live", "archived", "removed"}
    BY <1>4 DEF CleanArchive, ReaperTypeOK
  <2> QED BY <1>4, <2>1, <2>2, <2>3, StaysMoves DEF CleanArchive, historyVars, ReaperTypeOK
<1>5. CASE CountRows(r)
  <2>1. step[r] = "count" /\ UNCHANGED <<tickCount, auditVars, old, dirVars, faults, historyVars>>
    BY <1>5 DEF CountRows, At
  <2>2. (GoTo(r, "find") /\ Keeps /\ timer' = timer) \/ Ends(r)
    BY <1>5 DEF CountRows, Continues
  <2>3. "find" \in RunSteps \ {"append"}
    BY DEF RunSteps
  <2>4. Moved(r) /\ step'[r] \in {"find", "idle"} /\ timer' \in BOOLEAN
    BY <2>1, <2>2, <2>3, StaysMoves, EndsMoves DEF ReaperTypeOK
  <2> QED BY <2>1, <2>4 DEF dirVars, historyVars, ReaperTypeOK
<1> QED BY <1>1, <1>2, <1>3, <1>4, <1>5 DEF Plain

LEMMA MovedType ==
  ASSUME ReaperTypeOK, NEW r \in Runs, Moved(r)
  PROVE  /\ step' \in [Runs -> {"idle", "jobs", "disk", "reap", "count", "find", "append", "delete"}]
         /\ rows' \in [Runs -> SUBSET Rows] /\ left' \in [Runs -> SUBSET Months]
         /\ \A v \in Runs : ((left[v] # {}) = At(v, "append"))'
BY DEF Moved, RunSteps, ReaperTypeOK, At

LEMMA ReaperTypeStep ==
  ASSUME ReaperTypeOK, [Next]_vars
  PROVE  ReaperTypeOK'
<1>1. ASSUME NEW r \in Runs, Plain(r)
      PROVE  ReaperTypeOK'
  BY <1>1, PlainEffect, MovedType DEF ReaperTypeOK, auditVars
<1>2. ASSUME NEW r \in Runs, FindRows(r)
      PROVE  ReaperTypeOK'
  <2>1. UNCHANGED <<tickCount, auditVars, old, dirVars, faults, since, disturbed>>
    BY <1>2 DEF FindRows
  <2> QED BY <1>2, <2>1, FindMoves, MovedType DEF ReaperTypeOK, auditVars, dirVars
<1>3. ASSUME NEW r \in Runs, AppendMonth(r)
      PROVE  ReaperTypeOK'
  <2>1. copies' \in [Rows -> 0 .. 2]
    BY <1>3, AppendMoves DEF Readable, ReaperTypeOK
  <2> QED BY <1>3, <2>1, AppendMoves, MovedType DEF ReaperTypeOK, dirVars, historyVars
<1>4. ASSUME NEW r \in Runs, DeleteRows(r)
      PROVE  ReaperTypeOK'
  <2>1. /\ Ends(r) /\ audit' \subseteq audit
        /\ UNCHANGED <<tickCount, copies, torn, old, dirVars, faults, historyVars>>
    BY <1>4 DEF DeleteRows
  <2> QED BY <2>1, EndsMoves, MovedType DEF ReaperTypeOK, dirVars, historyVars
<1>5. ASSUME NEW r \in Runs, RunFails(r)
      PROVE  ReaperTypeOK'
  <2>1. Ends(r) /\ CutShort({r}) /\ disturbed' \in BOOLEAN /\ tickCount' = tickCount
    BY <1>5 DEF RunFails, ReaperTypeOK
  <2> QED BY <2>1, EndsMoves, MovedType, CutEffect DEF ReaperTypeOK, dirVars
<1>6. CASE Restart
  <2>1. CutShort(Runs) /\ timer' = FALSE /\ tickCount' = 0 /\ disturbed' = TRUE
    BY <1>6 DEF Restart
  <2>2. /\ step' = [r \in Runs |-> "idle"] /\ rows' = [r \in Runs |-> {}]
        /\ left' = [r \in Runs |-> {}]
    BY <1>6 DEF Restart
  <2>3. 0 \in 0 .. Span - 1
    BY SpanType
  <2> QED BY <2>1, <2>2, <2>3, CutEffect DEF ReaperTypeOK, dirVars, At
<1>7. CASE Outside
  BY <1>7, OutsideEffect
<1>8. CASE UNCHANGED vars
  BY <1>8 DEF vars, runVars, auditVars, dirVars, historyVars, ReaperTypeOK, At
<1> QED BY <1>1, <1>2, <1>3, <1>4, <1>5, <1>6, <1>7, <1>8 DEF Next, RunStep, Plain, Outside

THEOREM ReaperTypeCorrect == Spec => []ReaperTypeOK
<1>1. Init => ReaperTypeOK
  <2> SUFFICES ASSUME Init PROVE ReaperTypeOK
    OBVIOUS
  <2>1. 0 \in 0 .. Span - 1 /\ 0 \in 0 .. MaxFaults /\ 0 \in 0 .. REAP_TICKS + 1
    BY SpanType, ReaperAssumption
  <2>2. timer \in BOOLEAN /\ unchanged \in BOOLEAN /\ kept \in BOOLEAN
        /\ disturbed \in BOOLEAN /\ redone \in BOOLEAN
    BY DEF Init
  <2>3. /\ step \in [Runs -> {"idle", "jobs", "disk", "reap", "count", "find", "append", "delete"}]
        /\ rows \in [Runs -> SUBSET Rows] /\ left \in [Runs -> SUBSET Months]
        /\ \A r \in Runs : (left[r] # {}) = At(r, "append")
    BY DEF Init, At
  <2>4. copies \in [Rows -> 0 .. 2]
    BY DEF Init
  <2> QED BY <2>1, <2>2, <2>3, <2>4 DEF Init, ReaperTypeOK
<1>2. ReaperTypeOK /\ [Next]_vars => ReaperTypeOK'
  BY ReaperTypeStep
<1> QED BY <1>1, <1>2, PTL DEF Spec

-----------------------------------------------------------------------------
(* Where the rows of an archiving are, step by step.                       *)

(* What is known of the three other kinds of step: only the deletion takes *)
(* rows out of the table, and only a run's own steps start or end it.      *)
LEMMA FindEffect ==
  ASSUME ReaperTypeOK, NEW r \in Runs, FindRows(r)
  PROVE  UNCHANGED <<audit, copies, torn>>
BY DEF FindRows, auditVars

LEMMA DeleteEffect ==
  ASSUME ReaperTypeOK, NEW r \in Runs, DeleteRows(r)
  PROVE  /\ step[r] = "delete" /\ left[r] = {} /\ Moved(r) /\ step'[r] = "idle"
         /\ audit' = audit \ rows[r]
         /\ UNCHANGED <<copies, torn, redone>>
<1>1. step[r] = "delete" /\ Ends(r) /\ audit' = audit \ rows[r] /\ UNCHANGED <<copies, torn, redone>>
  BY DEF DeleteRows, At, Archived, historyVars
<1>2. left[r] = {}
  BY <1>1 DEF ReaperTypeOK, At
<1> QED BY <1>1, <1>2, EndsMoves

(* A failure ends the runs it cuts short and leaves the others alone.      *)
LEMMA CutMoves ==
  ASSUME ReaperTypeOK, (\E r \in Runs : RunFails(r)) \/ Restart
  PROVE  /\ \A v \in Runs : \/ step'[v] = "idle"
                            \/ step'[v] = step[v] /\ rows'[v] = rows[v] /\ left'[v] = left[v]
         /\ torn \subseteq torn' /\ UNCHANGED <<audit, copies>>
         /\ ~redone' => ~redone /\ \A v \in Archiving : step'[v] = step[v]
<1>1. ASSUME NEW r \in Runs, RunFails(r)
      PROVE  /\ \A v \in Runs : \/ step'[v] = "idle"
                                \/ step'[v] = step[v] /\ rows'[v] = rows[v] /\ left'[v] = left[v]
             /\ torn \subseteq torn' /\ UNCHANGED <<audit, copies>>
             /\ ~redone' => ~redone /\ \A v \in Archiving : step'[v] = step[v]
  <2>1. CutShort({r}) /\ Ends(r)
    BY <1>1 DEF RunFails
  <2>2. Moved(r) /\ step'[r] = "idle"
    BY <2>1, EndsMoves
  <2>3. torn \subseteq torn' /\ redone' = (redone \/ {r} \cap Archiving # {}) /\ UNCHANGED <<audit, copies>>
    BY <2>1, CutEffect
  <2>4. \A v \in Runs \ {r} : step'[v] = step[v] /\ rows'[v] = rows[v] /\ left'[v] = left[v]
    BY <2>2 DEF Moved
  <2>5. ASSUME ~redone', NEW v \in Archiving PROVE step'[v] = step[v]
    <3>1. v # r /\ v \in Runs
      BY <2>3, <2>5 DEF Archiving
    <3> QED BY <2>4, <3>1
  <2> QED BY <2>2, <2>3, <2>4, <2>5
<1>2. CASE Restart
  <2>1. CutShort(Runs) /\ step' = [r \in Runs |-> "idle"]
    BY <1>2 DEF Restart
  <2>2. torn \subseteq torn' /\ redone' = (redone \/ Runs \cap Archiving # {}) /\ UNCHANGED <<audit, copies>>
    BY <2>1, CutEffect
  <2>3. ASSUME ~redone', NEW v \in Archiving PROVE step'[v] = step[v]
    <3>1. Runs \cap Archiving # {}
      BY <2>3 DEF Archiving
    <3> QED BY <2>2, <2>3, <3>1
  <2> QED BY <2>1, <2>2, <2>3
<1> QED BY <1>1, <1>2

(* A run that archives has written, behind a tear at the worst, every row  *)
(* whose month it has no longer to write.                                  *)
Written ==
  \A r \in Runs : step[r] \in {"append", "delete"} =>
    \A a \in rows[r] : MonthOf[a] \in left[r] \/ copies[a] # 0 \/ MonthOf[a] \in torn

LEMMA WrittenStep ==
  ASSUME ReaperTypeOK, Written, LostOnlyBehindATear, [Next]_vars
  PROVE  Written' /\ LostOnlyBehindATear'
<1>1. ASSUME NEW r \in Runs, Plain(r)
      PROVE  Written' /\ LostOnlyBehindATear'
  <2>1. /\ step'[r] \notin {"append", "delete"} /\ UNCHANGED <<audit, copies, torn>>
        /\ \A v \in Runs \ {r} : step'[v] = step[v] /\ rows'[v] = rows[v] /\ left'[v] = left[v]
    BY <1>1, PlainEffect DEF Moved, auditVars
  <2> QED BY <2>1 DEF Written, LostOnlyBehindATear
<1>2. ASSUME NEW r \in Runs, FindRows(r)
      PROVE  Written' /\ LostOnlyBehindATear'
  <2>1. UNCHANGED <<audit, copies, torn>>
    BY <1>2, FindEffect
  <2>2. \A v \in Runs \ {r} : step'[v] = step[v] /\ rows'[v] = rows[v] /\ left'[v] = left[v]
    BY <1>2, FindMoves DEF Moved
  <2>3. \/ step'[r] = "idle"
        \/ rows'[r] = audit \cap old /\ left'[r] = {MonthOf[a] : a \in audit \cap old}
    BY <1>2, FindMoves
  <2>4. step'[r] = "idle" \/ \A a \in rows'[r] : MonthOf[a] \in left'[r]
    BY <2>3
  <2> QED BY <2>1, <2>2, <2>4 DEF Written, LostOnlyBehindATear
<1>3. ASSUME NEW r \in Runs, AppendMonth(r)
      PROVE  Written' /\ LostOnlyBehindATear'
  <2>1. /\ step[r] = "append" /\ rows' = rows /\ left'[r] = left[r] \ {Current(r)}
        /\ torn \subseteq torn' /\ audit' = audit
        /\ copies' = IF Current(r) \in torn' THEN copies ELSE Readable(r)
    BY <1>3, AppendMoves
  <2>2. \A v \in Runs \ {r} : step'[v] = step[v] /\ rows'[v] = rows[v] /\ left'[v] = left[v]
    BY <1>3, AppendMoves DEF Moved
  <2>3. /\ \A a \in Rows : copies[a] # 0 => copies'[a] # 0
        /\ \A a \in rows[r] : MonthOf[a] = Current(r) => copies'[a] # 0 \/ MonthOf[a] \in torn'
    <3>1. CASE Current(r) \in torn'
      BY <2>1, <3>1
    <3>2. CASE Current(r) \notin torn'
      <4>1. copies' = Readable(r)
        BY <2>1, <3>2
      <4> QED BY <4>1 DEF Readable, ReaperTypeOK
    <3> QED BY <3>1, <3>2
  <2>4. LostOnlyBehindATear'
    BY <2>1, <2>3 DEF LostOnlyBehindATear
  <2>5. ASSUME NEW v \in Runs, step'[v] \in {"append", "delete"}, NEW a \in rows'[v]
        PROVE  MonthOf[a] \in left'[v] \/ copies'[a] # 0 \/ MonthOf[a] \in torn'
    <3>1. a \in rows[v] /\ a \in Rows /\ step[v] \in {"append", "delete"}
      BY <2>1, <2>2, <2>5 DEF ReaperTypeOK
    <3>2. MonthOf[a] \in left[v] \/ copies[a] # 0 \/ MonthOf[a] \in torn
      BY <3>1 DEF Written
    <3> QED BY <2>1, <2>2, <2>3, <3>1, <3>2
  <2> QED BY <2>4, <2>5 DEF Written
<1>4. ASSUME NEW r \in Runs, DeleteRows(r)
      PROVE  Written' /\ LostOnlyBehindATear'
  <2>1. /\ step[r] = "delete" /\ left[r] = {} /\ step'[r] = "idle"
        /\ audit' = audit \ rows[r] /\ UNCHANGED <<copies, torn>>
        /\ \A v \in Runs \ {r} : step'[v] = step[v] /\ rows'[v] = rows[v] /\ left'[v] = left[v]
    BY <1>4, DeleteEffect DEF Moved
  <2>2. \A a \in rows[r] : copies[a] # 0 \/ MonthOf[a] \in torn
    BY <2>1 DEF Written
  <2> QED BY <2>1, <2>2 DEF Written, LostOnlyBehindATear
<1>5. CASE (\E r \in Runs : RunFails(r)) \/ Restart
  BY <1>5, CutMoves DEF Written, LostOnlyBehindATear
<1>6. CASE Outside \/ UNCHANGED vars
  <2>1. UNCHANGED <<runVars, auditVars>>
    BY <1>6, OutsideEffect DEF vars
  <2> QED BY <2>1 DEF runVars, auditVars, Written, LostOnlyBehindATear
<1> QED BY <1>1, <1>2, <1>3, <1>4, <1>5, <1>6 DEF Next, RunStep, Plain, Outside

(* A row that has left audit_log can be read in the archive, unless the    *)
(* file of its month was torn: archiveAuditLog deletes last, and only what *)
(* it appended.                                                            *)
THEOREM AlwaysLostOnlyBehindATear == Spec => []LostOnlyBehindATear
<1>1. Init => Written /\ LostOnlyBehindATear
  BY DEF Init, Written, LostOnlyBehindATear
<1>2. ReaperTypeOK /\ Written /\ LostOnlyBehindATear /\ [Next]_vars => Written' /\ LostOnlyBehindATear'
  BY WrittenStep
<1> QED BY <1>1, <1>2, ReaperTypeCorrect, PTL DEF Spec

-----------------------------------------------------------------------------
(* Until an archiving is cut short or overlaps another, at most one run    *)
(* archives, and the rows in the archive are those it has written and the  *)
(* table no longer, or not yet, is without.                                *)
OnlyOne == \A r, v \in Archiving : r = v
NoRowTwice == \A a \in Rows : copies[a] \in {0, 1}
InBothWhileArchiving ==
  \A a \in audit : copies[a] # 0 => \E r \in Archiving : a \in rows[r] /\ MonthOf[a] \notin left[r]
NotYetWritten == \A r \in Archiving : \A a \in rows[r] : MonthOf[a] \in left[r] => copies[a] = 0
Once == ~redone => OnlyOne /\ NoRowTwice /\ InBothWhileArchiving /\ NotYetWritten

(* Once depends on the runs that archive only.                             *)
LEMMA OnceKept ==
  ASSUME ReaperTypeOK, Once, ~redone, UNCHANGED <<audit, copies>>, Archiving' = Archiving,
         \A v \in Archiving : rows'[v] = rows[v] /\ left'[v] = left[v]
  PROVE  Once'
BY DEF Once, OnlyOne, NoRowTwice, InBothWhileArchiving, NotYetWritten

LEMMA OnceStep ==
  ASSUME ReaperTypeOK, Once, [Next]_vars
  PROVE  Once'
<1> SUFFICES ASSUME ~redone'
             PROVE  (OnlyOne /\ NoRowTwice /\ InBothWhileArchiving /\ NotYetWritten)'
  BY DEF Once
<1>1. ASSUME NEW r \in Runs, Plain(r)
      PROVE  Once'
  <2>1. /\ step[r] \notin {"append", "delete"} /\ step'[r] \notin {"append", "delete"}
        /\ UNCHANGED <<audit, copies, redone>>
        /\ \A v \in Runs \ {r} : step'[v] = step[v] /\ rows'[v] = rows[v] /\ left'[v] = left[v]
    BY <1>1, PlainEffect DEF Moved, auditVars
  <2>2. Archiving' = Archiving
    BY <2>1 DEF Archiving
  <2>3. \A v \in Archiving : rows'[v] = rows[v] /\ left'[v] = left[v]
    BY <2>1 DEF Archiving
  <2> QED BY <2>1, <2>2, <2>3, OnceKept
<1>2. ASSUME NEW r \in Runs, FindRows(r)
      PROVE  Once'
  <2>1. UNCHANGED <<audit, copies>> /\ step[r] = "find"
    BY <1>2, FindEffect, FindMoves
  <2>2. \A v \in Runs \ {r} : step'[v] = step[v] /\ rows'[v] = rows[v] /\ left'[v] = left[v]
    BY <1>2, FindMoves DEF Moved
  <2>3. CASE step'[r] = "idle" /\ redone' = redone
    <3>1. Archiving' = Archiving /\ \A v \in Archiving : rows'[v] = rows[v] /\ left'[v] = left[v]
      BY <2>1, <2>2, <2>3 DEF Archiving
    <3> QED BY <2>1, <2>3, <3>1, OnceKept
  <2>4. CASE /\ step'[r] = "append" /\ rows'[r] = audit \cap old
             /\ redone' = (redone \/ Archiving # {})
    <3>1. ~redone /\ Archiving = {}
      BY <2>4
    <3>2. Archiving' = {r}
      BY <2>2, <2>4, <3>1 DEF Archiving
    <3>3. \A a \in audit : copies[a] = 0
      BY <3>1 DEF Once, InBothWhileArchiving
    <3>4. NoRowTwice
      BY <3>1 DEF Once
    <3> QED BY <2>1, <2>4, <3>2, <3>3, <3>4
        DEF Once, OnlyOne, NoRowTwice, InBothWhileArchiving, NotYetWritten
  <2> QED BY <1>2, <2>3, <2>4, FindMoves
<1>3. ASSUME NEW r \in Runs, AppendMonth(r)
      PROVE  Once'
  <2>1. /\ step[r] = "append" /\ step'[r] \in {"append", "delete"}
        /\ rows' = rows /\ left'[r] = left[r] \ {Current(r)} /\ Current(r) \in left[r]
        /\ audit' = audit /\ redone' = redone
        /\ copies' = IF Current(r) \in torn' THEN copies ELSE Readable(r)
    BY <1>3, AppendMoves DEF historyVars
  <2>2. \A v \in Runs \ {r} : step'[v] = step[v] /\ rows'[v] = rows[v] /\ left'[v] = left[v]
    BY <1>3, AppendMoves DEF Moved
  <2>3. OnlyOne /\ NoRowTwice /\ InBothWhileArchiving /\ NotYetWritten
    BY <2>1 DEF Once
  <2>4. Archiving = {r} /\ Archiving' = {r}
    <3>1. r \in Archiving
      BY <2>1 DEF Archiving
    <3>2. Archiving = {r}
      BY <2>3, <3>1 DEF OnlyOne
    <3> QED BY <2>1, <2>2, <3>2 DEF Archiving
  <2>5. \A a \in rows[r] : MonthOf[a] = Current(r) => copies[a] = 0
    BY <2>1, <2>3, <2>4 DEF NotYetWritten
  <2>6. \A a \in Rows : \/ copies'[a] = copies[a]
                        \/ a \in rows[r] /\ MonthOf[a] = Current(r) /\ copies[a] = 0 /\ copies'[a] = 1
    BY <2>1, <2>5 DEF Readable, ReaperTypeOK
  <2>7. NoRowTwice'
    BY <2>3, <2>6 DEF NoRowTwice
  <2>8. ASSUME NEW a \in audit, copies'[a] # 0
        PROVE  a \in rows'[r] /\ MonthOf[a] \notin left'[r]
    <3>1. a \in Rows
      BY DEF ReaperTypeOK
    <3>2. CASE copies'[a] = copies[a]
      BY <2>1, <2>3, <2>4, <2>8, <3>2 DEF InBothWhileArchiving
    <3> QED BY <2>1, <2>6, <3>1, <3>2
  <2>9. ASSUME NEW a \in rows[r], MonthOf[a] \in left'[r]
        PROVE  copies'[a] = 0
    <3>1. a \in Rows /\ MonthOf[a] \in left[r] /\ MonthOf[a] # Current(r)
      BY <2>1, <2>9 DEF ReaperTypeOK
    <3> QED BY <2>3, <2>4, <2>6, <3>1 DEF NotYetWritten
  <2> QED BY <2>1, <2>4, <2>7, <2>8, <2>9
      DEF Once, OnlyOne, InBothWhileArchiving, NotYetWritten
<1>4. ASSUME NEW r \in Runs, DeleteRows(r)
      PROVE  Once'
  <2>1. /\ step[r] = "delete" /\ step'[r] = "idle" /\ audit' = audit \ rows[r]
        /\ UNCHANGED <<copies, redone>> /\ \A v \in Runs \ {r} : step'[v] = step[v]
    BY <1>4, DeleteEffect DEF Moved
  <2>2. OnlyOne /\ NoRowTwice /\ InBothWhileArchiving
    BY <2>1 DEF Once
  <2>3. r \in Archiving
    BY <2>1 DEF Archiving
  <2>4. Archiving = {r}
    BY <2>2, <2>3 DEF OnlyOne
  <2>5. Archiving' = {}
    BY <2>1, <2>4 DEF Archiving
  <2>6. \A a \in audit' : copies'[a] = 0
    BY <2>1, <2>2, <2>4 DEF InBothWhileArchiving
  <2> QED BY <2>1, <2>2, <2>5, <2>6
      DEF Once, OnlyOne, NoRowTwice, InBothWhileArchiving, NotYetWritten
<1>5. CASE (\E r \in Runs : RunFails(r)) \/ Restart
  <2>1. /\ ~redone /\ UNCHANGED <<audit, copies>> /\ \A v \in Archiving : step'[v] = step[v]
        /\ \A v \in Runs : \/ step'[v] = "idle"
                           \/ step'[v] = step[v] /\ rows'[v] = rows[v] /\ left'[v] = left[v]
    BY <1>5, CutMoves
  <2>2. Archiving' = Archiving /\ \A v \in Archiving : rows'[v] = rows[v] /\ left'[v] = left[v]
    BY <2>1 DEF Archiving
  <2> QED BY <2>1, <2>2, OnceKept DEF Once
<1>6. CASE Outside \/ UNCHANGED vars
  <2>1. UNCHANGED <<runVars, auditVars, redone>>
    BY <1>6, OutsideEffect DEF vars, historyVars
  <2> QED BY <2>1 DEF runVars, auditVars, Once, OnlyOne, NoRowTwice, InBothWhileArchiving,
                      NotYetWritten, Archiving
<1> QED BY <1>1, <1>2, <1>3, <1>4, <1>5, <1>6 DEF Next, RunStep, Plain, Outside, Once

(* No row is archived twice unless an archiving was cut short between its  *)
(* appends and its delete, or two archivings overlapped (archiveAuditLog). *)
THEOREM AlwaysArchivedOnce == Spec => []ArchivedOnce
<1>1. Init => Once
  BY DEF Init, Once, OnlyOne, NoRowTwice, InBothWhileArchiving, NotYetWritten, Archiving
<1>2. ReaperTypeOK /\ Once /\ [Next]_vars => Once'
  BY OnceStep
<1>3. Once => ArchivedOnce
  BY DEF Once, NoRowTwice, ArchivedOnce
<1> QED BY <1>1, <1>2, <1>3, ReaperTypeCorrect, PTL DEF Spec

-----------------------------------------------------------------------------
(* Remainders: tickCount is kept modulo both periods, the hourly work looks *)
(* at the remainder by one of them.                                        *)

LEMMA Division ==
  ASSUME NEW n \in Nat, NEW d \in Nat \ {0}
  PROVE  \E q \in Nat : n = d * q + (n % d) /\ n % d \in 0 .. d - 1
<1>1. n = d * (n \div d) + (n % d) /\ n % d \in 0 .. d - 1 /\ n \div d \in Nat
  BY SMTT(30)
<1> QED BY <1>1

LEMMA RemainderIs ==
  ASSUME NEW d \in Nat \ {0}, NEW q \in Nat, NEW x \in 0 .. d - 1
  PROVE  (d * q + x) % d = x
BY SMTT(30)

(* One more: the remainder grows by one or starts again.                   *)
LEMMA NextRemainder ==
  ASSUME NEW c \in Nat, NEW d \in Nat \ {0}
  PROVE  (c + 1) % d = IF (c % d) + 1 = d THEN 0 ELSE (c % d) + 1
<1> DEFINE x == c % d
<1>1. PICK q \in Nat : c = d * q + x /\ x \in 0 .. d - 1
  BY Division
<1> HIDE DEF x
<1>2. CASE x + 1 = d
  <2>1. c + 1 = d * (q + 1) + 0 /\ q + 1 \in Nat /\ 0 \in 0 .. d - 1
    BY <1>1, <1>2
  <2>2. (d * (q + 1) + 0) % d = 0
    BY <2>1, RemainderIs
  <2> QED BY <1>2, <2>1, <2>2 DEF x
<1>3. CASE x + 1 # d
  <2>1. c + 1 = d * q + (x + 1) /\ x + 1 \in 0 .. d - 1
    BY <1>1, <1>3
  <2>2. (d * q + (x + 1)) % d = x + 1
    BY <2>1, RemainderIs
  <2> QED BY <1>3, <2>1, <2>2 DEF x
<1> QED BY <1>2, <1>3

(* A count kept modulo a multiple of d has the same remainder by d.        *)
LEMMA WrappedRemainder ==
  ASSUME NEW n \in Nat \ {0}, NEW d \in Nat \ {0}, NEW c \in 0 .. (n * d) - 1
  PROVE  ((c + 1) % (n * d)) % d = (c + 1) % d
<1> DEFINE s == n * d
<1>1. s \in Nat \ {0} /\ s = d * n /\ c + 1 \in 0 .. s
  OBVIOUS
<1> HIDE DEF s
<1>2. CASE c + 1 = s
  <2>1. (s * 1 + 0) % s = 0 /\ (d * n + 0) % d = 0 /\ (d * 0 + 0) % d = 0
    BY <1>1, RemainderIs
  <2>2. s * 1 + 0 = c + 1 /\ d * n + 0 = c + 1 /\ d * 0 + 0 = 0
    BY <1>1, <1>2
  <2> QED BY <2>1, <2>2 DEF s
<1>3. CASE c + 1 # s
  <2>1. c + 1 \in 0 .. s - 1 /\ s * 0 + (c + 1) = c + 1
    BY <1>1, <1>3
  <2>2. (s * 0 + (c + 1)) % s = c + 1
    BY <1>1, <2>1, RemainderIs
  <2> QED BY <2>1, <2>2 DEF s
<1> QED BY <1>2, <1>3

-----------------------------------------------------------------------------
(* The hour. While nothing has disturbed it, what has been counted since   *)
(* the hourly work is the remainder of tickCount; only a run that checks   *)
(* the disk on the tick of the work itself is still to come to it.         *)
HourInv ==
  ~disturbed => \/ since = tickCount % REAP_TICKS
                \/ /\ since = REAP_TICKS /\ tickCount % REAP_TICKS = 0
                   /\ \E v \in Runs : step[v] = "disk"

LEMMA HourKept ==
  ASSUME HourInv, UNCHANGED <<tickCount, since>>,
         ~disturbed' => ~disturbed /\ \A v \in Runs : step[v] = "disk" => step'[v] = "disk"
  PROVE  HourInv'
BY DEF HourInv

(* A run that looks whether the work is due, with n ticks counted.         *)
LEMMA HourTested ==
  ASSUME ReaperTypeOK, NEW r \in Runs, NEW t, NEW n, NEW d, TestReap(r, t, n, d), tickCount' = t,
         ~d => n = t % REAP_TICKS \/ t % REAP_TICKS = 0
  PROVE  HourInv'
<1>1. CASE t % REAP_TICKS = 0
  BY <1>1 DEF TestReap, ReapDue, HourInv
<1>2. CASE t % REAP_TICKS # 0
  BY <1>2 DEF TestReap, ReapDue, HourInv
<1> QED BY <1>1, <1>2

LEMMA HourCounted ==
  ASSUME ReaperTypeOK, HourInv, NEW r \in Runs, CountTick(r)
  PROVE  HourInv'
<1> DEFINE t == (tickCount + 1) % Span
           n == IF since <= REAP_TICKS THEN since + 1 ELSE since
           d == disturbed \/ \E v \in Runs : At(v, "disk")
           x == tickCount % REAP_TICKS
<1>1. /\ tickCount' = t /\ step[r] = "jobs"
      /\ \/ GoTo(r, "disk") /\ since' = n /\ disturbed' = d
         \/ TestReap(r, t, n, d)
  BY DEF CountTick, At, Continues
<1>2. REAP_TICKS \in Nat \ {0} /\ DISK_CHECK_TICKS \in Nat \ {0}
      /\ tickCount \in 0 .. (DISK_CHECK_TICKS * REAP_TICKS) - 1 /\ tickCount \in Nat
  BY ReaperAssumption, SpanType DEF ReaperTypeOK, Span
<1>3. t % REAP_TICKS = (tickCount + 1) % REAP_TICKS
  BY <1>2, WrappedRemainder DEF Span
<1>4. t % REAP_TICKS = IF x + 1 = REAP_TICKS THEN 0 ELSE x + 1
  BY <1>2, <1>3, NextRemainder
<1>5. x \in 0 .. REAP_TICKS - 1
  BY <1>2, Division
<1>6. ASSUME ~d PROVE n = x + 1
  <2>1. since = x
    BY <1>6 DEF HourInv, At
  <2> HIDE DEF x
  <2> QED BY <2>1, <1>2, <1>5
<1> HIDE DEF t, n, d, x
<1>7. CASE TestReap(r, t, n, d)
  BY <1>1, <1>2, <1>4, <1>5, <1>6, <1>7, HourTested
<1>8. CASE GoTo(r, "disk") /\ since' = n /\ disturbed' = d
  <2>1. step'[r] = "disk"
    BY <1>8 DEF GoTo, ReaperTypeOK
  <2> QED BY <1>1, <1>2, <1>4, <1>5, <1>6, <1>8, <2>1 DEF HourInv
<1> QED BY <1>1, <1>7, <1>8

LEMMA HourStep ==
  ASSUME ReaperTypeOK, HourInv, [Next]_vars
  PROVE  HourInv'
<1>1. ASSUME NEW r \in Runs, BeginRun(r) \/ CleanArchive(r) \/ CountRows(r) \/ FindRows(r)
                            \/ AppendMonth(r) \/ DeleteRows(r)
      PROVE  HourInv'
  <2>1. step[r] # "disk" /\ UNCHANGED <<tickCount, since, disturbed>>
    BY <1>1 DEF BeginRun, CleanArchive, CountRows, FindRows, AppendMonth, DeleteRows, At, historyVars
  <2>2. Moved(r)
    BY <1>1, PlainEffect, FindMoves, AppendMoves, DeleteEffect DEF Plain
  <2> QED BY <2>1, <2>2, HourKept DEF Moved
<1>2. ASSUME NEW r \in Runs, CountTick(r)
      PROVE  HourInv'
  BY <1>2, HourCounted
<1>3. ASSUME NEW r \in Runs, DiskChecked(r)
      PROVE  HourInv'
  <2>1. TestReap(r, tickCount, since, disturbed) /\ tickCount' = tickCount
    BY <1>3 DEF DiskChecked
  <2>2. ~disturbed => since = tickCount % REAP_TICKS \/ tickCount % REAP_TICKS = 0
    BY DEF HourInv
  <2> QED BY <2>1, <2>2, HourTested
<1>4. ASSUME NEW r \in Runs, RunFails(r)
      PROVE  HourInv'
  <2>1. /\ disturbed' = (disturbed \/ step[r] \in {"jobs", "disk"})
        /\ tickCount' = tickCount /\ CutShort({r}) /\ Ends(r)
    BY <1>4 DEF RunFails
  <2>2. since' = since
    BY <2>1, CutEffect
  <2>3. Moved(r)
    BY <2>1, EndsMoves
  <2> QED BY <2>1, <2>2, <2>3, HourKept DEF Moved
<1>5. CASE Restart
  BY <1>5 DEF Restart, HourInv
<1>6. CASE Outside \/ UNCHANGED vars
  <2>1. UNCHANGED <<runVars, historyVars>>
    BY <1>6, OutsideEffect DEF vars
  <2> QED BY <2>1, HourKept DEF runVars, historyVars
<1> QED BY <1>1, <1>2, <1>3, <1>4, <1>5, <1>6 DEF Next, RunStep, Outside

(* The hourly work comes at every REAP_TICKS-th tick, for any periods and  *)
(* any number of overlapping runs, unless a run counted while another      *)
(* checked the disk, or a failure or a restart came in between (runJobs).  *)
THEOREM AlwaysReapedHourly == Spec => []ReapedHourly
<1>1. Init => HourInv
  <2> SUFFICES ASSUME Init PROVE since = tickCount % REAP_TICKS
    BY DEF HourInv
  <2>1. (REAP_TICKS * 0 + 0) % REAP_TICKS = 0 /\ REAP_TICKS * 0 + 0 = 0
    BY ReaperAssumption, RemainderIs
  <2> QED BY <2>1 DEF Init
<1>2. ReaperTypeOK /\ HourInv /\ [Next]_vars => HourInv'
  BY HourStep
<1>3. ReaperTypeOK /\ HourInv => ReapedHourly
  <2> SUFFICES ASSUME ReaperTypeOK, HourInv, ~disturbed PROVE ~(since > REAP_TICKS)
    BY DEF ReapedHourly
  <2>1. REAP_TICKS \in Nat \ {0} /\ tickCount \in Nat
    BY ReaperAssumption, SpanType DEF ReaperTypeOK
  <2>2. tickCount % REAP_TICKS \in 0 .. REAP_TICKS - 1
    BY <2>1, Division
  <2> QED BY <2>1, <2>2 DEF HourInv
<1> QED BY <1>1, <1>2, <1>3, ReaperTypeCorrect, PTL DEF Spec

-----------------------------------------------------------------------------
(* The refinement of AuditLedger                                           *)

(* What an archiving has read is old: rows do not grow younger.            *)
ReadWasOld ==
  \A r \in Runs : step[r] \in {"append", "delete"} => rows[r] \subseteq old

LEMMA ReadWasOldStep ==
  ASSUME ReaperTypeOK, ReadWasOld, [Next]_vars
  PROVE  ReadWasOld'
<1>1. ASSUME NEW r \in Runs, Plain(r)
      PROVE  ReadWasOld'
  BY <1>1, PlainEffect DEF Moved, ReadWasOld
<1>2. ASSUME NEW r \in Runs, FindRows(r)
      PROVE  ReadWasOld'
  <2>1. old' = old
    BY <1>2 DEF FindRows
  <2> QED BY <1>2, <2>1, FindMoves DEF Moved, ReadWasOld
<1>3. ASSUME NEW r \in Runs, AppendMonth(r)
      PROVE  ReadWasOld'
  BY <1>3, AppendMoves DEF Moved, ReadWasOld
<1>4. ASSUME NEW r \in Runs, DeleteRows(r)
      PROVE  ReadWasOld'
  <2>1. old' = old
    BY <1>4 DEF DeleteRows
  <2> QED BY <1>4, <2>1, DeleteEffect DEF Moved, ReadWasOld
<1>5. CASE (\E r \in Runs : RunFails(r)) \/ Restart
  <2>1. old' = old
    BY <1>5, CutEffect DEF RunFails, Restart
  <2> QED BY <1>5, <2>1, CutMoves DEF ReadWasOld
<1>6. CASE Outside \/ UNCHANGED vars
  <2>1. UNCHANGED runVars
    BY <1>6, OutsideEffect DEF vars
  <2>2. old \subseteq old'
    BY <1>6 DEF Outside, RowAges, DirectoryChanges, ArchiveDirectory, ThirtyDaysPass, vars
  <2> QED BY <2>1, <2>2 DEF runVars, ReadWasOld
<1> QED BY <1>1, <1>2, <1>3, <1>4, <1>5, <1>6 DEF Next, RunStep, Plain, Outside

LEMMA LedgerAppend ==
  ASSUME ReaperTypeOK, LostOnlyBehindATear, ReadWasOld, NEW r \in Runs, AppendMonth(r)
  PROVE  [Ledger!Next]_<<Place, torn, old>>
<1> DEFINE m == Current(r)
           S == {a \in rows[r] : MonthOf[a] = m}
<1>1. /\ step[r] = "append" /\ torn \subseteq torn' /\ torn' \subseteq Months
      /\ copies' = IF m \in torn' THEN copies ELSE Readable(r)
      /\ UNCHANGED <<audit, old>>
  BY AppendMoves
<1>2. torn' = torn \/ torn' = torn \cup {m}
  BY DEF AppendMonth
<1>3. m \in Months /\ S \subseteq Rows
  BY <1>1, CurrentIsLeft DEF At, ReaperTypeOK
<1>4. CASE m \in torn'
  <2>1. Place' = Place
    BY <1>1, <1>4 DEF Place
  <2>2. Ledger!Tear(torn')
    BY <1>1, <2>1 DEF Ledger!Tear
  <2> QED BY <1>1, <2>2 DEF Ledger!Next, Ledger!Months, Months
<1>5. CASE m \notin torn'
  <2>1. torn' = torn /\ m \notin torn
    BY <1>2, <1>5
  <2>2. \A a \in S : MonthOf[a] = m /\ a \in old
    BY <1>1 DEF ReadWasOld
  <2>3. \A a \in Rows : copies'[a] = 0 <=> copies[a] = 0 /\ a \notin S
    BY <1>1, <1>5 DEF Readable, ReaperTypeOK
  <2> HIDE DEF S, m
  <2>4. \A a \in S : copies[a] = 0 => a \in audit
    BY <1>3, <2>1, <2>2 DEF LostOnlyBehindATear
  <2>5. Place' = [a \in Rows |-> IF a \in S /\ Place[a] = "table" THEN "both" ELSE Place[a]]
    BY <1>1, <2>3, <2>4 DEF Place
  <2>6. Ledger!Append(m, S)
    BY <1>1, <2>1, <2>2, <2>5 DEF Ledger!Append
  <2> QED BY <1>3, <2>6 DEF Ledger!Next, Ledger!Months, Months
<1> QED BY <1>4, <1>5

LEMMA LedgerRemove ==
  ASSUME ReaperTypeOK, Written, ReadWasOld, NEW r \in Runs, DeleteRows(r)
  PROVE  [Ledger!Next]_<<Place, torn, old>>
<1>1. /\ step[r] = "delete" /\ left[r] = {} /\ audit' = audit \ rows[r]
      /\ UNCHANGED <<copies, torn, old>>
  BY DeleteEffect DEF DeleteRows
<1>2. \A a \in rows[r] : a \in old /\ (copies[a] # 0 \/ MonthOf[a] \in torn)
  BY <1>1 DEF Written, ReadWasOld
<1>3. rows[r] \subseteq Rows
  BY DEF ReaperTypeOK
<1>4. \A a \in rows[r] : Place[a] = "table" => MonthOf[a] \in torn
  BY <1>2, <1>3 DEF Place
<1>5. Place' = [a \in Rows |-> IF a \in rows[r] THEN Ledger!AfterRemoval(Place[a]) ELSE Place[a]]
  BY <1>1 DEF Place, Ledger!AfterRemoval
<1>6. Ledger!Remove(rows[r])
  BY <1>1, <1>2, <1>4, <1>5 DEF Ledger!Remove
<1> QED BY <1>3, <1>6 DEF Ledger!Next

LEMMA LedgerStep ==
  ASSUME ReaperTypeOK, Written, LostOnlyBehindATear, ReadWasOld, [Next]_vars
  PROVE  [Ledger!Next]_<<Place, torn, old>>
<1>1. CASE UNCHANGED <<audit, copies, torn, old>>
  <2>1. Place' = Place
    BY <1>1 DEF Place
  <2> QED BY <1>1, <2>1
<1>2. ASSUME NEW r \in Runs, Plain(r) \/ FindRows(r)
      PROVE  UNCHANGED <<audit, copies, torn, old>>
  BY <1>2, PlainEffect, FindEffect DEF FindRows, auditVars
<1>3. CASE (\E r \in Runs : RunFails(r)) \/ Restart
  <2>1. torn \subseteq torn' /\ torn' \subseteq Months /\ UNCHANGED <<audit, copies, old>>
    BY <1>3, CutEffect DEF RunFails, Restart
  <2>2. Place' = Place
    BY <2>1 DEF Place
  <2>3. Ledger!Tear(torn')
    BY <2>1, <2>2 DEF Ledger!Tear
  <2> QED BY <2>1, <2>3 DEF Ledger!Next, Ledger!Months, Months
<1>4. ASSUME NEW a \in Rows, RowAges(a)
      PROVE  [Ledger!Next]_<<Place, torn, old>>
  <2>1. Place' = Place /\ torn' = torn /\ old' = old \cup {a}
    BY <1>4 DEF RowAges, auditVars, Place
  <2> QED BY <2>1 DEF Ledger!Next, Ledger!Age
<1>5. CASE DirectoryChanges \/ ArchiveDirectory \/ ThirtyDaysPass \/ UNCHANGED vars
  <2>1. UNCHANGED <<audit, copies, torn, old>>
    BY <1>5 DEF DirectoryChanges, ArchiveDirectory, ThirtyDaysPass, vars, auditVars
  <2> QED BY <1>1, <2>1
<1> QED BY <1>1, <1>2, <1>3, <1>4, <1>5, LedgerAppend, LedgerRemove DEF Next, RunStep, Plain

(* Overlapping, failing and restarted runs of archiveAuditLog together     *)
(* keep the ledger: each step appends old rows of one month, tears files,  *)
(* or deletes rows that are in the archive or behind a tear; none brings a *)
(* row back.                                                               *)
THEOREM ImplementsLedger == Spec => LedgerSpec
<1> DEFINE Inv == Written /\ LostOnlyBehindATear /\ ReadWasOld
<1>1. Init => Inv
  BY DEF Init, Written, LostOnlyBehindATear, ReadWasOld
<1>2. ReaperTypeOK /\ Inv /\ [Next]_vars => Inv'
  BY WrittenStep, ReadWasOldStep
<1>3. Init => Ledger!Init
  <2> SUFFICES ASSUME Init PROVE Place = [a \in Rows |-> "table"]
    BY DEF Init, Ledger!Init
  <2> QED BY DEF Init, Place
<1>4. ReaperTypeOK /\ Inv /\ [Next]_vars => [Ledger!Next]_<<Place, torn, old>>
  BY LedgerStep
<1> QED BY <1>1, <1>2, <1>3, <1>4, ReaperTypeCorrect, PTL
        DEF Spec, LedgerSpec, Ledger!Spec, Ledger!ledgerVars

-----------------------------------------------------------------------------
(* Why runs end                                                            *)

(* The places a run has still to pass, at most.                            *)
Ahead ==
  [s \in RunSteps |->
     CASE s = "jobs" -> 7 [] s = "disk" -> 6 [] s = "reap" -> 5 [] s = "count" -> 4
       [] s = "find" -> 3 [] s = "append" -> 2 [] s = "delete" -> 1 [] s = "idle" -> 0]

(* A run that is not over goes on to a later place, or stays where it is   *)
(* and, if it writes a month, has one month less to write.                 *)
RunsAdvance ==
  [][\A r \in Runs : ~At(r, "idle") =>
       \/ UNCHANGED <<step[r], rows[r], left[r]>>
       \/ Ahead[step'[r]] < Ahead[step[r]]
       \/ /\ At(r, "append") /\ step'[r] = "append" /\ UNCHANGED rows[r]
          /\ \E m \in left[r] : left'[r] = left[r] \ {m}]_vars

LEMMA PlainAdvances ==
  ASSUME ReaperTypeOK, NEW r \in Runs, ~At(r, "idle"), Plain(r)
  PROVE  Ahead[step'[r]] < Ahead[step[r]]
<1>1. CASE CountTick(r)
  <2>1. step[r] = "jobs" /\ step'[r] \in {"disk", "reap", "idle"}
    BY <1>1, CountTickMoves DEF CountTick, At
  <2> QED BY <2>1 DEF Ahead, RunSteps
<1>2. CASE DiskChecked(r)
  <2>1. step[r] = "disk" /\ TestReap(r, tickCount, since, disturbed)
    BY <1>2 DEF DiskChecked, At
  <2>2. tickCount \in Nat /\ since \in 0 .. REAP_TICKS + 1 /\ disturbed \in BOOLEAN
    BY SpanType DEF ReaperTypeOK
  <2>3. step'[r] \in {"reap", "idle"}
    BY <2>1, <2>2, TestMoves
  <2> QED BY <2>1, <2>3 DEF Ahead, RunSteps
<1>3. CASE CleanArchive(r)
  <2>1. step[r] = "reap" /\ step'[r] = "count"
    BY <1>3 DEF CleanArchive, Continues, GoTo, At, ReaperTypeOK
  <2> QED BY <2>1 DEF Ahead, RunSteps
<1>4. CASE CountRows(r)
  <2>1. step[r] = "count" /\ step'[r] \in {"find", "idle"}
    BY <1>4 DEF CountRows, Continues, Ends, GoTo, At, ReaperTypeOK
  <2> QED BY <2>1 DEF Ahead, RunSteps
<1> QED BY <1>1, <1>2, <1>3, <1>4 DEF Plain, BeginRun

(* Whatever other runs, failures and restarts do, a run of the jobs comes  *)
(* to each of its places once, and writes each month it has found at most  *)
(* once: with fairness it ends, which OldRowsLeave needs.                  *)
THEOREM RunsAlwaysAdvance == Spec => RunsAdvance
<1> DEFINE Advance(r) ==
      \/ UNCHANGED <<step[r], rows[r], left[r]>>
      \/ Ahead[step'[r]] < Ahead[step[r]]
      \/ /\ At(r, "append") /\ step'[r] = "append" /\ UNCHANGED rows[r]
         /\ \E m \in left[r] : left'[r] = left[r] \ {m}
<1>1. ASSUME ReaperTypeOK, NEW r \in Runs, step[r] \in RunSteps \ {"idle"}, step'[r] = "idle"
      PROVE  Advance(r)
  BY <1>1 DEF Ahead, RunSteps
<1>2. ASSUME ReaperTypeOK, [Next]_vars, NEW r \in Runs, ~At(r, "idle")
      PROVE  Advance(r)
  <2>0. step[r] \in RunSteps \ {"idle"}
    BY <1>2 DEF ReaperTypeOK, RunSteps, At
  <2>1. ASSUME NEW v \in Runs, Plain(v)
        PROVE  Advance(r)
    BY <1>2, <2>1, PlainEffect, PlainAdvances DEF Moved
  <2>2. ASSUME NEW v \in Runs, FindRows(v)
        PROVE  Advance(r)
    <3>1. step[v] = "find" /\ Moved(v) /\ step'[v] \in {"idle", "append"}
      BY <1>2, <2>2, FindMoves
    <3>2. Ahead[step'[v]] < Ahead[step[v]]
      BY <3>1 DEF Ahead, RunSteps
    <3> QED BY <3>1, <3>2 DEF Moved
  <2>3. ASSUME NEW v \in Runs, AppendMonth(v)
        PROVE  Advance(r)
    <3>1. /\ step[v] = "append" /\ Moved(v) /\ step'[v] \in {"append", "delete"} /\ rows' = rows
          /\ Current(v) \in left[v] /\ left'[v] = left[v] \ {Current(v)}
      BY <1>2, <2>3, AppendMoves
    <3>2. step'[v] = "delete" => Ahead[step'[v]] < Ahead[step[v]]
      BY <3>1 DEF Ahead, RunSteps
    <3> QED BY <3>1, <3>2 DEF Moved, At
  <2>4. ASSUME NEW v \in Runs, DeleteRows(v) \/ RunFails(v)
        PROVE  Advance(r)
    <3>1. Ends(v)
      BY <2>4 DEF DeleteRows, RunFails
    <3>2. Moved(v) /\ step'[v] = "idle"
      BY <1>2, <3>1, EndsMoves
    <3> QED BY <1>1, <1>2, <2>0, <3>2 DEF Moved
  <2>5. CASE Restart
    BY <1>1, <1>2, <2>0, <2>5 DEF Restart
  <2>6. CASE Outside \/ UNCHANGED vars
    BY <1>2, <2>6, OutsideEffect DEF vars, runVars
  <2> QED BY <1>2, <2>1, <2>2, <2>3, <2>4, <2>5, <2>6 DEF Next, RunStep, Plain, Outside
<1>3. ReaperTypeOK /\ [Next]_vars => \A r \in Runs : ~At(r, "idle") => Advance(r)
  BY <1>2
<1> QED BY <1>3, ReaperTypeCorrect, PTL DEF Spec, RunsAdvance
=============================================================================
