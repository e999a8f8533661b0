-------------------------- MODULE StartupLockProofs --------------------------
(***************************************************************************)
(* Proofs about the startup lock, for any number of tenants and requests   *)
(* and any bounds.  The inductive invariant is TypeOK with HolderOwnsRow.  *)
(***************************************************************************)
EXTENDS StartupLock, TLAPS

-----------------------------------------------------------------------------
(* An INSERT, wherever it comes in acquireStartupLock, keeps the types.    *)
LEMMA InsertRowType ==
  ASSUME TypeOK, NEW r \in Requests, NEW s \in Steps, Acquiring(r),
         s \in {"idle", "select"}, InsertRow(r, s)
  PROVE  TypeOK'
<1> USE LockAssumption
<1>1. lockOf[r] \in Tenants /\ age[r] \in 0 .. DbLatency
  BY DEF TypeOK
<1>2. LockTTL - age[r] \in LeastExpiry .. LockTTL
  BY <1>1 DEF LeastExpiry
<1>3. CASE RowExists(lockOf[r])
  BY <1>3 DEF InsertRow, TypeOK, Steps, Acquiring
<1>4. CASE ~RowExists(lockOf[r])
  BY <1>1, <1>2, <1>4 DEF InsertRow, TypeOK, Steps, Acquiring
<1> QED BY <1>3, <1>4

(* Every step keeps the types: in particular the clocks stay within the    *)
(* bounds the model gives them.                                            *)
LEMMA TypeStep ==
  ASSUME TypeOK, [LockNext]_lockVars
  PROVE  TypeOK'
<1> USE LockAssumption
<1>1. ASSUME NEW r \in Requests, NEW t \in Tenants, BeginAcquire(r, t)
      PROVE  TypeOK'
  BY <1>1 DEF BeginAcquire, ReadNow, TypeOK, Steps, Acquiring
<1>2. ASSUME NEW r \in Requests, Acquire(r)
      PROVE  TypeOK'
  <2>1. CASE Insert(r)
    BY <2>1, InsertRowType DEF Insert, Acquiring, Steps
  <2>2. CASE SelectExisting(r)
    BY <2>2 DEF SelectExisting, TypeOK, Steps, Acquiring
  <2>3. CASE Reinsert(r)
    BY <2>3, InsertRowType DEF Reinsert, Acquiring, Steps
  <2>4. CASE DeleteStale(r)
    BY <2>4 DEF DeleteStale, DisplacedBy, TypeOK, Steps, Acquiring
  <2>5. CASE InsertAfterDelete(r)
    BY <2>5, InsertRowType DEF InsertAfterDelete, Acquiring, Steps
  <2> QED BY <1>2, <2>1, <2>2, <2>3, <2>4, <2>5 DEF Acquire
<1>3. ASSUME NEW r \in Requests, Release(r)
      PROVE  TypeOK'
  BY <1>3 DEF Release, TypeOK, Steps, Acquiring
<1>4. ASSUME NEW r \in Requests, ReturnWithoutRelease(r)
      PROVE  TypeOK'
  BY <1>4 DEF ReturnWithoutRelease, TypeOK, Steps, Acquiring
<1>5. ASSUME NEW t \in Deletable, PurgeLock(t)
      PROVE  TypeOK'
  BY <1>5 DEF PurgeLock, DisplacedBy, TypeOK, Acquiring
<1>6. CASE SweepExpired
  BY <1>6 DEF SweepExpired, TypeOK, Acquiring
<1>7. CASE ForgetRequests
  BY <1>7 DEF ForgetRequests, TypeOK, Steps, Acquiring
<1>8. CASE TimePasses
  <2>1. age' \in [Requests -> 0 .. HoldLimit]
    BY <1>8 DEF TimePasses, TypeOK, Steps, Acquiring, Holds
  <2>2. expiresIn' \in [Tenants -> LeastExpiry .. LockTTL]
    BY <1>8 DEF TimePasses, TypeOK, LeastExpiry
  <2>3. \A r \in Requests : Acquiring(r)' => age'[r] <= DbLatency
    BY <1>8 DEF TimePasses, TypeOK, Acquiring
  <2> QED BY <1>8, <2>1, <2>2, <2>3 DEF TimePasses, TypeOK, Acquiring
<1>9. CASE UNCHANGED lockVars
  BY <1>9 DEF lockVars, TypeOK, Acquiring
<1> QED BY <1>1, <1>2, <1>3, <1>4, <1>5, <1>6, <1>7, <1>8, <1>9 DEF LockNext

LEMMA TypeInit == LockInit => TypeOK
  BY LockAssumption DEF LockInit, TypeOK, LeastExpiry, Steps, Acquiring

(* Type correctness of the lock table and of the requests' positions.      *)
THEOREM TypeCorrect == LockSpec => []TypeOK
  BY TypeInit, TypeStep, PTL DEF LockSpec

-----------------------------------------------------------------------------
(* Startup sequences end before the lock they took expires: the health     *)
(* poll gives up after 90 seconds, the TTL is 5 minutes, and docker is     *)
(* assumed to answer in the time between.                                  *)
HoldsEndInTime == HoldLimit < LockTTL

(* The invariant speaks of the requests that hold and were not displaced;  *)
(* a step that adds none of them and keeps their rows keeps it.            *)
Secure(r) == r \notin displaced /\ Holds(r)

(* An INSERT gives its request a row of its own, and can only do so where  *)
(* there was none, hence never beside a secure holder of the same tenant.  *)
LEMMA InsertRowOwned ==
  ASSUME TypeOK, HolderOwnsRow, NEW r \in Requests, NEW s \in {"idle", "select"},
         Acquiring(r), InsertRow(r, s)
  PROVE  HolderOwnsRow'
<1> SUFFICES ASSUME NEW q \in Requests, Secure(q)'
             PROVE  lockedBy'[lockOf'[q]] = q /\ expiresIn'[lockOf'[q]] = LockTTL - age'[q]
  BY DEF HolderOwnsRow, Secure
<1>1. CASE RowExists(lockOf[r])
  BY <1>1 DEF InsertRow, HolderOwnsRow, Secure, Holds, TypeOK, Steps
<1>2. CASE ~RowExists(lockOf[r])
  <2>1. CASE q = r
    BY <1>2, <2>1 DEF InsertRow, TypeOK
  <2>2. CASE q # r
    <3>1. Secure(q)
      BY <1>2, <2>2 DEF InsertRow, Secure, Holds, TypeOK
    <3>2. lockOf[q] # lockOf[r]
      BY <1>2, <3>1, LockAssumption DEF HolderOwnsRow, Secure, RowExists
    <3> QED BY <1>2, <2>2, <3>1, <3>2 DEF InsertRow, HolderOwnsRow, Secure, TypeOK
  <2> QED BY <2>1, <2>2
<1> QED BY <1>1, <1>2

(* A handler that deletes the row of t, whoever owns it, displaces the     *)
(* secure holder of t if there is one.                                     *)
LEMMA DeletionDisplaces ==
  ASSUME TypeOK, HolderOwnsRow, HoldsEndInTime, NEW t \in Tenants,
         NEW q \in Requests, Secure(q), lockOf[q] = t
  PROVE  q \in DisplacedBy(t)
<1>1. expiresIn[t] = LockTTL - age[q] /\ lockedBy[t] = q
  BY DEF HolderOwnsRow, Secure
<1>2. expiresIn[t] >= 0
  BY <1>1, LockAssumption DEF HoldsEndInTime, TypeOK
<1> QED BY <1>1, <1>2 DEF DisplacedBy, Expired, Secure, TypeOK

LEMMA HolderStep ==
  ASSUME TypeOK, HolderOwnsRow, HoldsEndInTime, [LockNext]_lockVars
  PROVE  HolderOwnsRow'
<1> USE LockAssumption
<1>1. ASSUME NEW r \in Requests, NEW t \in Tenants, BeginAcquire(r, t)
      PROVE  HolderOwnsRow'
  BY <1>1 DEF BeginAcquire, ReadNow, HolderOwnsRow, Holds, TypeOK
<1>2. ASSUME NEW r \in Requests, Acquire(r)
      PROVE  HolderOwnsRow'
  <2>1. CASE Insert(r)
    BY <2>1, InsertRowOwned DEF Insert, Acquiring
  <2>2. CASE SelectExisting(r)
    BY <2>2 DEF SelectExisting, HolderOwnsRow, Holds, TypeOK
  <2>3. CASE Reinsert(r)
    BY <2>3, InsertRowOwned DEF Reinsert, Acquiring
  <2>4. CASE DeleteStale(r)
    <3> SUFFICES ASSUME NEW q \in Requests, Secure(q)'
                 PROVE  lockedBy'[lockOf'[q]] = q /\ expiresIn'[lockOf'[q]] = LockTTL - age'[q]
      BY DEF HolderOwnsRow, Secure
    <3>1. Secure(q) /\ q \notin DisplacedBy(lockOf[r])
      BY <2>4 DEF DeleteStale, Secure, Holds, TypeOK
    <3>2. lockOf[q] # lockOf[r]
      BY <3>1, DeletionDisplaces DEF TypeOK
    <3> QED BY <2>4, <3>1, <3>2 DEF DeleteStale, HolderOwnsRow, Secure, TypeOK
  <2>5. CASE InsertAfterDelete(r)
    BY <2>5, InsertRowOwned DEF InsertAfterDelete, Acquiring
  <2> QED BY <1>2, <2>1, <2>2, <2>3, <2>4, <2>5 DEF Acquire
<1>3. ASSUME NEW r \in Requests, Release(r)
      PROVE  HolderOwnsRow'
  BY <1>3 DEF Release, HolderOwnsRow, Holds, TypeOK
<1>4. ASSUME NEW r \in Requests, ReturnWithoutRelease(r)
      PROVE  HolderOwnsRow'
  BY <1>4 DEF ReturnWithoutRelease, HolderOwnsRow, Holds, TypeOK
<1>5. ASSUME NEW t \in Deletable, PurgeLock(t)
      PROVE  HolderOwnsRow'
  <2> SUFFICES ASSUME NEW q \in Requests, Secure(q)'
               PROVE  lockedBy'[lockOf'[q]] = q /\ expiresIn'[lockOf'[q]] = LockTTL - age'[q]
    BY DEF HolderOwnsRow, Secure
  <2>1. Secure(q) /\ q \notin DisplacedBy(t)
    BY <1>5 DEF PurgeLock, Secure, Holds, TypeOK
  <2>2. lockOf[q] # t
    BY <2>1, DeletionDisplaces
  <2> QED BY <1>5, <2>1, <2>2 DEF PurgeLock, HolderOwnsRow, Secure, TypeOK
<1>6. CASE SweepExpired
  <2> SUFFICES ASSUME NEW q \in Requests, Secure(q)
               PROVE  ~Expired(lockOf[q])
    BY <1>6 DEF SweepExpired, HolderOwnsRow, Secure, Holds, TypeOK
  <2>1. expiresIn[lockOf[q]] = LockTTL - age[q]
    BY DEF HolderOwnsRow, Secure
  <2> QED BY <2>1 DEF Expired, HoldsEndInTime, TypeOK
<1>7. CASE ForgetRequests
  BY <1>7 DEF ForgetRequests, HolderOwnsRow, Holds
<1>8. CASE TimePasses
  <2> SUFFICES ASSUME NEW q \in Requests, Secure(q)
               PROVE  expiresIn'[lockOf[q]] = LockTTL - age'[q]
    BY <1>8 DEF TimePasses, HolderOwnsRow, Secure, Holds
  <2>1. lockedBy[lockOf[q]] = q /\ expiresIn[lockOf[q]] = LockTTL - age[q]
    BY DEF HolderOwnsRow, Secure
  <2>2. RowExists(lockOf[q]) /\ expiresIn[lockOf[q]] > LeastExpiry
    BY <2>1 DEF RowExists, LeastExpiry, HoldsEndInTime, TypeOK
  <2>3. age'[q] = age[q] + 1
    BY <1>8 DEF TimePasses, Secure, Holds
  <2> QED BY <1>8, <2>1, <2>2, <2>3 DEF TimePasses, TypeOK
<1>9. CASE UNCHANGED lockVars
  BY <1>9 DEF lockVars, HolderOwnsRow, Holds
<1> QED BY <1>1, <1>2, <1>3, <1>4, <1>5, <1>6, <1>7, <1>8, <1>9 DEF LockNext

(* A startup sequence that nobody displaced has the unexpired row of its   *)
(* tenant, whatever the numbers of tenants and requests and the bounds, as *)
(* long as sequences end before the TTL.                                   *)
THEOREM HoldersOwnTheirRows ==
  ASSUME HoldsEndInTime
  PROVE  LockSpec => []HolderOwnsRow
<1>1. LockInit => HolderOwnsRow
  BY DEF LockInit, HolderOwnsRow, Holds
<1>2. TypeOK /\ HolderOwnsRow /\ [LockNext]_lockVars => HolderOwnsRow'
  BY HolderStep
<1> QED BY <1>1, <1>2, TypeCorrect, PTL DEF LockSpec

(* Two startup sequences of one tenant overlap only when a delete of a     *)
(* row by tenant_id displaced one of them.                                 *)
THEOREM OverlapNeedsDisplacement ==
  ASSUME HoldsEndInTime
  PROVE  LockSpec => []OverlapOnlyByDisplacement
<1>1. HolderOwnsRow => OverlapOnlyByDisplacement
  BY DEF HolderOwnsRow, OverlapOnlyByDisplacement
<1> QED BY <1>1, HoldersOwnTheirRows, PTL

-----------------------------------------------------------------------------
(* Who may remove the row of a running sequence                            *)

LEMMA InsertRowKeepsRows ==
  ASSUME NEW r \in Requests, NEW q \in Requests, NEW s, InsertRow(q, s),
         TypeOK, lockedBy[lockOf[r]] = r
  PROVE  lockedBy'[lockOf[r]] = r
BY LockAssumption DEF InsertRow, RowExists, TypeOK

(* Nobody takes the unexpired row of a running sequence but that sequence  *)
(* and those who displace it by a delete on tenant_id; no assumption on    *)
(* how long sequences hold is needed.                                      *)
THEOREM RowsTakenOnlySo == LockSpec => RowTakenOnlyByOwnerOrDisplacer
<1>1. ASSUME TypeOK, [LockNext]_lockVars, NEW r \in Requests, Holds(r),
             lockedBy[lockOf[r]] = r, ~Expired(lockOf[r]), lockedBy'[lockOf[r]] # r
      PROVE  lockStep'[r] = "idle" \/ r \in displaced'
  <2> DEFINE t == lockOf[r]
  <2>1. t \in Tenants /\ RowExists(t) /\ r \in DisplacedBy(t)
    BY <1>1, LockAssumption DEF TypeOK, RowExists, DisplacedBy
  <2>2. ASSUME NEW q \in Requests, NEW u \in Tenants, BeginAcquire(q, u)
        PROVE  FALSE
    BY <1>1, <2>2 DEF BeginAcquire
  <2>3. ASSUME NEW q \in Requests, Insert(q) \/ Reinsert(q) \/ InsertAfterDelete(q)
        PROVE  FALSE
    BY <1>1, <2>3, InsertRowKeepsRows DEF Insert, Reinsert, InsertAfterDelete
  <2>4. ASSUME NEW q \in Requests, SelectExisting(q)
        PROVE  FALSE
    BY <1>1, <2>4 DEF SelectExisting
  <2>5. ASSUME NEW q \in Requests, DeleteStale(q)
        PROVE  r \in displaced'
    BY <1>1, <2>1, <2>5 DEF DeleteStale, TypeOK
  <2>6. ASSUME NEW q \in Requests, Release(q)
        PROVE  lockStep'[r] = "idle"
    BY <1>1, <2>6 DEF Release, TypeOK
  <2>7. ASSUME NEW q \in Requests, ReturnWithoutRelease(q)
        PROVE  FALSE
    BY <1>1, <2>7 DEF ReturnWithoutRelease
  <2>8. ASSUME NEW u \in Deletable, PurgeLock(u)
        PROVE  r \in displaced'
    BY <1>1, <2>1, <2>8 DEF PurgeLock, TypeOK
  <2>9. CASE SweepExpired
    BY <1>1, <2>1, <2>9 DEF SweepExpired
  <2>10. CASE ForgetRequests
    BY <1>1, <2>10 DEF ForgetRequests
  <2>11. CASE TimePasses \/ UNCHANGED lockVars
    BY <1>1, <2>11 DEF TimePasses, lockVars
  <2> QED BY <1>1, <2>2, <2>3, <2>4, <2>5, <2>6, <2>7, <2>8, <2>9, <2>10, <2>11
          DEF LockNext, Acquire
<1>2. TypeOK /\ [LockNext]_lockVars =>
        [\A r \in Requests :
           LET t == lockOf[r] IN
           Holds(r) /\ lockedBy[t] = r /\ ~Expired(t) /\ lockedBy'[t] # r
             => lockStep'[r] = "idle" \/ r \in displaced']_lockVars
  BY <1>1
<1> QED BY <1>2, TypeCorrect, PTL DEF LockSpec, RowTakenOnlyByOwnerOrDisplacer

-----------------------------------------------------------------------------
(* A row that nobody holds any more is never renewed nor taken over: it    *)
(* stays as it is, grows older, or goes.                                   *)
OrphansOnlyAge ==
  [][\A r \in Requests, t \in Tenants : Orphan(r, t) =>
       \/ lockedBy'[t] # r
       \/ lockStep'[r] = "idle" /\ expiresIn'[t] <= expiresIn[t]]_lockVars

LEMMA InsertRowKeepsOrphans ==
  ASSUME TypeOK, NEW r \in Requests, NEW t \in Tenants, Orphan(r, t),
         NEW q \in Requests, NEW s \in Steps, lockStep[q] # "idle", InsertRow(q, s)
  PROVE  lockedBy'[t] = r /\ lockStep'[r] = "idle" /\ expiresIn'[t] = expiresIn[t]
<1>1. q # r /\ RowExists(t)
  BY LockAssumption DEF Orphan, RowExists
<1>2. CASE RowExists(lockOf[q])
  BY <1>1, <1>2 DEF InsertRow, Orphan, TypeOK
<1>3. CASE ~RowExists(lockOf[q])
  <2>1. lockOf[q] # t
    BY <1>1, <1>3
  <2> QED BY <1>1, <1>3, <2>1 DEF InsertRow, Orphan, TypeOK
<1> QED BY <1>2, <1>3

(* A row leaked at the capacity cap or by a crash only grows older, for    *)
(* any number of requests and whatever they do: together with the clock    *)
(* and the sweep this is why OrphanRowsGo.                                 *)
THEOREM OrphansAlwaysAge == LockSpec => OrphansOnlyAge
<1> DEFINE Ages(r, t) == \/ lockedBy'[t] # r
                         \/ lockStep'[r] = "idle" /\ expiresIn'[t] <= expiresIn[t]
<1>1. ASSUME TypeOK, [LockNext]_lockVars, NEW r \in Requests, NEW t \in Tenants, Orphan(r, t)
      PROVE  Ages(r, t)
  <2>0. lockStep[r] = "idle" /\ lockedBy[t] = r /\ expiresIn[t] \in Int
    BY <1>1, LockAssumption DEF Orphan, TypeOK, LeastExpiry
  <2>1. ASSUME NEW q \in Requests, NEW u \in Tenants, BeginAcquire(q, u)
        PROVE  Ages(r, t)
    <3>1. q # r
      BY <2>0, <2>1 DEF BeginAcquire
    <3> QED BY <1>1, <2>0, <2>1, <3>1 DEF BeginAcquire, TypeOK
  <2>2. ASSUME NEW q \in Requests, Insert(q) \/ Reinsert(q) \/ InsertAfterDelete(q)
        PROVE  Ages(r, t)
    <3>1. PICK s \in {"select", "idle"} : lockStep[q] # "idle" /\ InsertRow(q, s)
      BY <2>2 DEF Insert, Reinsert, InsertAfterDelete
    <3>2. s \in Steps
      BY <3>1 DEF Steps
    <3>3. lockStep'[r] = "idle" /\ expiresIn'[t] = expiresIn[t]
      BY <1>1, <3>1, <3>2, InsertRowKeepsOrphans
    <3> QED BY <2>0, <3>3
  <2>3. ASSUME NEW q \in Requests,
               SelectExisting(q) \/ DeleteStale(q) \/ Release(q) \/ ReturnWithoutRelease(q)
        PROVE  Ages(r, t)
    <3>1. UNCHANGED expiresIn /\ q # r /\ lockStep'[r] = lockStep[r]
      BY <1>1, <2>0, <2>3 DEF SelectExisting, DeleteStale, Release, ReturnWithoutRelease, Holds, TypeOK
    <3> QED BY <2>0, <3>1
  <2>4. CASE (\E u \in Deletable : PurgeLock(u)) \/ SweepExpired \/ ForgetRequests \/ UNCHANGED lockVars
    <3>1. UNCHANGED expiresIn /\ lockStep'[r] = "idle"
      BY <2>0, <2>4 DEF PurgeLock, SweepExpired, ForgetRequests, lockVars
    <3> QED BY <2>0, <3>1
  <2>5. CASE TimePasses
    <3>1. UNCHANGED lockStep /\ expiresIn'[t] \in {expiresIn[t], expiresIn[t] - 1}
      BY <2>5 DEF TimePasses
    <3> QED BY <2>0, <3>1
  <2> QED BY <1>1, <2>1, <2>2, <2>3, <2>4, <2>5 DEF LockNext, Acquire
<1>2. TypeOK /\ [LockNext]_lockVars =>
        \A r \in Requests, t \in Tenants : Orphan(r, t) => Ages(r, t)
  BY <1>1
<1> QED BY <1>2, TypeCorrect, PTL DEF LockSpec, OrphansOnlyAge
=============================================================================
