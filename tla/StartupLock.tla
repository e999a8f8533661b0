---------------------------- MODULE StartupLock ----------------------------
(***************************************************************************)
(* The per-tenant startup lock of the control plane: a row of the SQLite   *)
(* table startup_locks, unique on tenant_id, written by POST /start        *)
(* (acquireStartupLock, releaseStartupLock), by DELETE (purge) and by the  *)
(* scheduler and the boot of the control plane (sweep of expired rows).    *)
(*                                                                         *)
(* A step is one SQL statement: between two statements the handler awaits  *)
(* and any other handler may run.  Every start request has a uuid of its   *)
(* own, so an idle identifier is taken again only once no row bears it.    *)
(*                                                                         *)
(* Time is relative: expiresIn[t] is expires_at - Date.now() and age[r] is *)
(* the time since request r read its `now`.                                *)
(***************************************************************************)
EXTENDS Integers

CONSTANTS
  Tenants,     \* tenants, the keys of startup_locks
  Requests,    \* uuids of POST /start requests, the values of locked_by
  Deletable,   \* the tenants DELETE may be called for
  NoRow,       \* "no row for this tenant"
  LockTTL,     \* LOCK_TTL_MS, in ticks
  DbLatency,   \* bound on the ticks a request may spend inside acquireStartupLock
  HoldLimit    \* bound on the ticks between reading `now` and releasing the lock

ASSUME LockAssumption ==
  /\ Deletable \subseteq Tenants
  /\ NoRow \notin Requests
  /\ LockTTL \in Nat
  /\ DbLatency \in Nat
  /\ HoldLimit \in Nat
  /\ DbLatency <= HoldLimit

VARIABLES
  lockedBy,   \* lockedBy[t]: the request named in t's row, or NoRow
  expiresIn,  \* expiresIn[t]: ticks until t's row expires (negative: expired)
  lockStep,   \* lockStep[r]: the statement request r executes next
  lockOf,     \* lockOf[r]: the tenant request r starts
  age,        \* age[r]: ticks since r read `now`
  displaced   \* holders whose row another handler deleted before it expired (history)

lockVars == <<lockedBy, expiresIn, lockStep, lockOf, age, displaced>>

Steps == {"idle", "insert", "select", "reinsert", "deleteStale", "insertAfterDelete", "held"}

(* Below this an expired row is as expired as it can be for any request.   *)
LeastExpiry == -(DbLatency + 1)

Holds(r) == lockStep[r] = "held"
Acquiring(r) == lockStep[r] \notin {"idle", "held"}
RowExists(t) == lockedBy[t] # NoRow

(* existing.expires_at < now, with the `now` that r read on entry.         *)
StaleFor(r, t) == expiresIn[t] + age[r] < 0

(* expires_at < now, with a `now` read by the same statement.              *)
Expired(t) == RowExists(t) /\ expiresIn[t] < 0

TypeOK ==
  /\ lockedBy \in [Tenants -> Requests \cup {NoRow}]
  /\ expiresIn \in [Tenants -> LeastExpiry .. LockTTL]
  /\ lockStep \in [Requests -> Steps]
  /\ lockOf \in [Requests -> Tenants]
  /\ age \in [Requests -> 0 .. HoldLimit]
  /\ \A r \in Requests : Acquiring(r) => age[r] <= DbLatency
  /\ displaced \subseteq Requests

LockInit ==
  /\ lockedBy = [t \in Tenants |-> NoRow]
  /\ expiresIn = [t \in Tenants |-> 0]
  /\ lockStep = [r \in Requests |-> "idle"]
  /\ lockOf \in [Requests -> Tenants]
  /\ age = [r \in Requests |-> 0]
  /\ displaced = {}

-----------------------------------------------------------------------------
(* acquireStartupLock                                                      *)

(* Mutant: `now` is read once and kept.                                    *)
KeepNow(r) == UNCHANGED age

(* const now = new Date()                                                  *)
ReadNow(r) == age' = [age EXCEPT ![r] = 0]

(* r enters acquireStartupLock for t and reads `now`.                      *)
BeginAcquire(r, t) ==
  /\ lockStep[r] = "idle"
  /\ \A u \in Tenants : lockedBy[u] # r
  /\ lockStep' = [lockStep EXCEPT ![r] = "insert"]
  /\ lockOf' = [lockOf EXCEPT ![r] = t]
  /\ ReadNow(r)
  /\ displaced' = displaced \ {r}
  /\ UNCHANGED <<lockedBy, expiresIn>>

(* The INSERT of r, which the unique key refuses when a row exists: then r *)
(* goes on with step `otherwise`.                                          *)
InsertRow(r, otherwise) ==
  LET t == lockOf[r] IN
  /\ IF RowExists(t)
       THEN /\ lockStep' = [lockStep EXCEPT ![r] = otherwise]
            /\ UNCHANGED <<lockedBy, expiresIn>>
       ELSE /\ lockedBy' = [lockedBy EXCEPT ![t] = r]
            /\ expiresIn' = [expiresIn EXCEPT ![t] = LockTTL - age[r]]
            /\ lockStep' = [lockStep EXCEPT ![r] = "held"]
  /\ UNCHANGED <<lockOf, age, displaced>>

Insert(r) == lockStep[r] = "insert" /\ InsertRow(r, "select")

(* findUnique after the refused insert: gone, stale, or held by another.   *)
SelectExisting(r) ==
  LET t == lockOf[r] IN
  /\ lockStep[r] = "select"
  /\ lockStep' = [lockStep EXCEPT ![r] =
       IF ~RowExists(t) THEN "reinsert"
       ELSE IF StaleFor(r, t) THEN "deleteStale" ELSE "idle"]
  /\ UNCHANGED <<lockedBy, expiresIn, lockOf, age, displaced>>

Reinsert(r) == lockStep[r] = "reinsert" /\ InsertRow(r, "idle")

(* The holders of t that lose an unexpired row when the row of t goes.     *)
DisplacedBy(t) == {q \in Requests : Holds(q) /\ lockedBy[t] = q /\ ~Expired(t)}

(* delete by tenant_id: it removes whatever row is there now, and throws   *)
(* when there is none.                                                     *)
DeleteStale(r) ==
  LET t == lockOf[r] IN
  /\ lockStep[r] = "deleteStale"
  /\ lockStep' = [lockStep EXCEPT ![r] = IF RowExists(t) THEN "insertAfterDelete" ELSE "idle"]
  /\ lockedBy' = [lockedBy EXCEPT ![t] = NoRow]
  /\ displaced' = displaced \cup DisplacedBy(t)
  /\ UNCHANGED <<expiresIn, lockOf, age>>

InsertAfterDelete(r) == lockStep[r] = "insertAfterDelete" /\ InsertRow(r, "idle")

Acquire(r) ==
  Insert(r) \/ SelectExisting(r) \/ Reinsert(r) \/ DeleteStale(r) \/ InsertAfterDelete(r)

-----------------------------------------------------------------------------
(* The ends of a startup sequence, and those who delete rows of others     *)

(* Mutant: the release deletes by tenant_id alone.                         *)
ReleaseByTenant(r) ==
  LET t == lockOf[r] IN
  /\ Holds(r)
  /\ lockedBy' = [lockedBy EXCEPT ![t] = NoRow]
  /\ lockStep' = [lockStep EXCEPT ![r] = "idle"]
  /\ UNCHANGED <<expiresIn, lockOf, age, displaced>>

(* deleteMany on tenant_id and locked_by: only a row of r's own.           *)
Release(r) ==
  LET t == lockOf[r] IN
  /\ Holds(r)
  /\ lockedBy' = [lockedBy EXCEPT ![t] = IF @ = r THEN NoRow ELSE @]
  /\ lockStep' = [lockStep EXCEPT ![r] = "idle"]
  /\ UNCHANGED <<expiresIn, lockOf, age, displaced>>

(* The return of POST /start at the capacity cap: no release.              *)
ReturnWithoutRelease(r) ==
  /\ Holds(r)
  /\ lockStep' = [lockStep EXCEPT ![r] = "idle"]
  /\ UNCHANGED <<lockedBy, expiresIn, lockOf, age, displaced>>

(* Mutants: the sweep compares with the wrong sign, or never sweeps.       *)
SweepUnexpired ==
  /\ lockedBy' = [t \in Tenants |-> IF Expired(t) THEN lockedBy[t] ELSE NoRow]
  /\ UNCHANGED <<expiresIn, lockStep, lockOf, age, displaced>>
SweepNothing == UNCHANGED lockVars

(* sweepStaleLocks of the scheduler, and the same statement at boot.       *)
SweepExpired ==
  /\ lockedBy' = [t \in Tenants |-> IF Expired(t) THEN NoRow ELSE lockedBy[t]]
  /\ UNCHANGED <<expiresIn, lockStep, lockOf, age, displaced>>

(* DELETE /v1/tenants/:id purges the lock whoever owns it.                 *)
PurgeLock(t) ==
  /\ lockedBy' = [lockedBy EXCEPT ![t] = NoRow]
  /\ displaced' = displaced \cup DisplacedBy(t)
  /\ UNCHANGED <<expiresIn, lockStep, lockOf, age>>

(* The control plane dies: its requests are gone, the rows are not.        *)
ForgetRequests ==
  /\ lockStep' = [r \in Requests |-> "idle"]
  /\ UNCHANGED <<lockedBy, expiresIn, lockOf, age, displaced>>

(* Time passes, within the bounds on statements and on startup sequences.  *)
TimePasses ==
  /\ \A r \in Requests : Acquiring(r) => age[r] < DbLatency
  /\ \A r \in Requests : Holds(r) => age[r] < HoldLimit
  /\ age' = [r \in Requests |-> IF lockStep[r] = "idle" THEN age[r] ELSE age[r] + 1]
  /\ expiresIn' = [t \in Tenants |->
       IF RowExists(t) /\ expiresIn[t] > LeastExpiry THEN expiresIn[t] - 1 ELSE expiresIn[t]]
  /\ UNCHANGED <<lockedBy, lockStep, lockOf, displaced>>

LockNext ==
  \/ \E r \in Requests :
       \/ \E t \in Tenants : BeginAcquire(r, t)
       \/ Acquire(r)
       \/ Release(r)
       \/ ReturnWithoutRelease(r)
  \/ \E t \in Deletable : PurgeLock(t)
  \/ SweepExpired
  \/ ForgetRequests
  \/ TimePasses

LockSpec == LockInit /\ [][LockNext]_lockVars

(* Statements complete, startup sequences end (the poll has a deadline),   *)
(* the scheduler ticks and time passes.                                    *)
FairLockSpec ==
  /\ LockSpec
  /\ \A r \in Requests : WF_lockVars(Acquire(r)) /\ WF_lockVars(Release(r))
  /\ WF_lockVars(SweepExpired)
  /\ WF_lockVars(TimePasses)

-----------------------------------------------------------------------------
(* A startup sequence that was not displaced has the row of its tenant,    *)
(* with what is left of the TTL since it read `now`: expiry, sweeps,       *)
(* crashes, leaks and late releases never take the lock from it.           *)
HolderOwnsRow ==
  \A r \in Requests \ displaced : Holds(r) =>
    /\ lockedBy[lockOf[r]] = r
    /\ expiresIn[lockOf[r]] = LockTTL - age[r]

(* Two startup sequences of one tenant run together only when one of them  *)
(* was displaced: no other order of inserts, reads, sweeps, releases,      *)
(* crashes and ticks lets a second request in.                             *)
OverlapOnlyByDisplacement ==
  \A r, q \in Requests :
    r # q /\ Holds(r) /\ Holds(q) /\ lockOf[r] = lockOf[q] => r \in displaced \/ q \in displaced

(* Nobody removes the unexpired row of a running startup sequence but that *)
(* sequence itself, a request that saw a stale row before, or a deletion   *)
(* of the tenant; in particular no late release of another request does.   *)
RowTakenOnlyByOwnerOrDisplacer ==
  [][\A r \in Requests :
       LET t == lockOf[r] IN
       Holds(r) /\ lockedBy[t] = r /\ ~Expired(t) /\ lockedBy'[t] # r
         => lockStep'[r] = "idle" \/ r \in displaced']_lockVars

(* A row left behind (leaked at the capacity cap, or by a crash) does not  *)
(* block its tenant for ever: it expires and goes.                         *)
Orphan(r, t) == lockedBy[t] = r /\ lockStep[r] = "idle"
OrphanRowsGo ==
  \A r \in Requests, t \in Tenants : Orphan(r, t) ~> lockedBy[t] # r
=============================================================================
