-------------------------- MODULE TenantLifecycle --------------------------
(***************************************************************************)
(* The control plane's tenant table, the tenants' containers and the       *)
(* handlers that move them: POST /provision, /start with its background    *)
(* health poll, /stop, DELETE, the crash of the control plane and the      *)
(* reconciliation of its boot, and the scheduler's host-disk check, on top *)
(* of the startup lock.                                                    *)
(*                                                                         *)
(* A handler is a sequence of steps, one per await: what it read before an *)
(* await may be stale when it writes after it.  No write of the status     *)
(* column is conditional in the code, so none is here.                     *)
(***************************************************************************)
EXTENDS StartupLock, FiniteSets

CONSTANTS
  Jobs,        \* the other HTTP requests in flight: provision, stop, delete
  Stoppable,   \* the tenants POST /stop may be called for
  MaxActive,   \* MAX_ACTIVE_TENANTS
  MaxCrashes   \* bound on the crashes of the control plane

ASSUME LifecycleAssumption ==
  /\ IsFiniteSet(Tenants)
  /\ IsFiniteSet(Requests)
  /\ Stoppable \subseteq Tenants
  /\ MaxActive \in Nat \ {0}
  /\ MaxCrashes \in Nat

VARIABLES
  status,      \* tenants.status, or "ABSENT" when there is no row
  deleted,     \* tenants.deleted_at is set
  queued,      \* tenants.queued_for_start_at is set
  container,   \* claw-tenant-<id> as docker sees it
  startStep,   \* what start request r does next once it has the lock
  wasNew,      \* previousStatus === NEW, as read before the lock
  jobStep,     \* what job j does next
  jobOf,       \* the tenant of job j
  resumed,     \* the health poll the last boot resumed for t, which has no lock
  up,          \* the control plane runs and listens
  crashes      \* crashes so far

tenantVars == <<status, deleted, queued, container>>
startVars == <<startStep, wasNew>>
jobVars == <<jobStep, jobOf>>
serverVars == <<resumed, up, crashes>>
vars == <<lockVars, tenantVars, startVars, jobVars, serverVars>>

Statuses == {"NEW", "PROVISIONING", "STARTING", "ACTIVE", "STOPPED", "UNHEALTHY",
             "FAILED", "DELETING"}
StartSteps == {"count", "enqueue", "markStarting", "launch", "poll", "markActive", "release"}
ProvisionSteps == {"create", "prepare", "markNew", "markFailed"}
StopSteps == {"stopContainer", "markStopped"}
DeleteSteps == {"markDeleting", "removeContainer", "purge", "softDelete"}

LifecycleTypeOK ==
  /\ status \in [Tenants -> Statuses \cup {"ABSENT"}]
  /\ deleted \in [Tenants -> BOOLEAN]
  /\ queued \in [Tenants -> BOOLEAN]
  /\ container \in [Tenants -> {"none", "stopped", "running"}]
  /\ startStep \in [Requests -> StartSteps]
  /\ wasNew \in [Requests -> BOOLEAN]
  /\ jobStep \in [Jobs -> {"idle"} \cup ProvisionSteps \cup StopSteps \cup DeleteSteps]
  /\ jobOf \in [Jobs -> Tenants]
  /\ \A j \in Jobs : jobStep[j] \in DeleteSteps => jobOf[j] \in Deletable
  /\ resumed \in [Tenants -> {"none", "poll", "markActive"}]
  /\ up \in BOOLEAN
  /\ crashes \in 0 .. MaxCrashes

Init ==
  /\ LockInit
  /\ status = [t \in Tenants |-> "ABSENT"]
  /\ deleted = [t \in Tenants |-> FALSE]
  /\ queued = [t \in Tenants |-> FALSE]
  /\ container = [t \in Tenants |-> "none"]
  /\ startStep = [r \in Requests |-> "count"]
  /\ wasNew = [r \in Requests |-> FALSE]
  /\ jobStep = [j \in Jobs |-> "idle"]
  /\ jobOf \in [Jobs -> Tenants]
  /\ resumed = [t \in Tenants |-> "none"]
  /\ up = TRUE
  /\ crashes = 0

SetStatus(t, s) == status' = [status EXCEPT ![t] = s]
ActiveTenants == {t \in Tenants : status[t] = "ACTIVE"}

-----------------------------------------------------------------------------
(* POST /v1/tenants/:id/start                                              *)

(* The handler reads the row, answers at once for a missing, DELETING or   *)
(* ACTIVE tenant, and otherwise goes for the lock.                         *)
StartRequest(r, t) ==
  /\ up
  /\ status[t] \notin {"ABSENT", "DELETING", "ACTIVE"}
  /\ BeginAcquire(r, t)
  /\ wasNew' = [wasNew EXCEPT ![r] = status[t] = "NEW"]
  /\ UNCHANGED <<tenantVars, startStep, jobVars, serverVars>>

TakeLock(r) ==
  /\ Acquire(r)
  /\ UNCHANGED <<tenantVars, startVars, jobVars, serverVars>>

At(r, step) == Holds(r) /\ startStep[r] = step
GoTo(r, step) == startStep' = [startStep EXCEPT ![r] = step]

(* The cap is reached by the ACTIVE tenants alone (mutant: off by one).    *)
AtCapacityOffByOne == Cardinality(ActiveTenants) > MaxActive
AtCapacity == Cardinality(ActiveTenants) >= MaxActive

CheckCapacity(r) ==
  /\ At(r, "count")
  /\ GoTo(r, IF AtCapacity THEN "enqueue" ELSE "markStarting")
  /\ UNCHANGED <<lockVars, tenantVars, wasNew, jobVars, serverVars>>

(* At the cap: note the wish and answer "queued", keeping the lock.        *)
Enqueue(r) ==
  /\ At(r, "enqueue")
  /\ queued' = [queued EXCEPT ![lockOf[r]] = TRUE]
  /\ ReturnWithoutRelease(r)
  /\ GoTo(r, "count")
  /\ UNCHANGED <<status, deleted, container, wasNew, jobVars, serverVars>>

MarkStarting(r) ==
  /\ At(r, "markStarting")
  /\ SetStatus(lockOf[r], "STARTING")
  /\ GoTo(r, "launch")
  /\ UNCHANGED <<lockVars, deleted, queued, container, wasNew, jobVars, serverVars>>

(* docker run wants the name to be free; when it fails it may leave a      *)
(* container that was created and not started.                             *)
DockerRun(r, t) ==
  /\ wasNew[r]
  /\ \/ /\ container[t] = "none"
        /\ container' = [container EXCEPT ![t] = "running"]
        /\ GoTo(r, "poll")
     \/ /\ \/ UNCHANGED container
           \/ container[t] = "none" /\ container' = [container EXCEPT ![t] = "stopped"]
        /\ GoTo(r, "release")

(* docker start wants the container to exist.                              *)
DockerStart(r, t) ==
  /\ ~wasNew[r]
  /\ \/ /\ container[t] # "none"
        /\ container' = [container EXCEPT ![t] = "running"]
        /\ GoTo(r, "poll")
     \/ UNCHANGED container /\ GoTo(r, "release")

Launch(r) ==
  /\ At(r, "launch")
  /\ DockerRun(r, lockOf[r]) \/ DockerStart(r, lockOf[r])
  /\ UNCHANGED <<lockVars, status, deleted, queued, wasNew, jobVars, serverVars>>

(* pollUntilHealthy: only a running container can answer; the poll may     *)
(* also time out, which changes no status here (previousStatus is never    *)
(* ACTIVE when it comes from /start).                                      *)
SeeHealthy(r) ==
  /\ At(r, "poll")
  /\ container[lockOf[r]] = "running"
  /\ GoTo(r, "markActive")
  /\ UNCHANGED <<lockVars, tenantVars, wasNew, jobVars, serverVars>>

PollTimesOut(r) ==
  /\ At(r, "poll")
  /\ GoTo(r, "release")
  /\ UNCHANGED <<lockVars, tenantVars, wasNew, jobVars, serverVars>>

MarkActive(r) ==
  /\ At(r, "markActive")
  /\ SetStatus(lockOf[r], "ACTIVE")
  /\ GoTo(r, "release")
  /\ UNCHANGED <<lockVars, deleted, queued, container, wasNew, jobVars, serverVars>>

(* Mutant: the end of a sequence deletes its row by tenant_id alone.       *)
FinishStartByTenant(r) ==
  /\ At(r, "release")
  /\ ReleaseByTenant(r)
  /\ GoTo(r, "count")
  /\ UNCHANGED <<tenantVars, wasNew, jobVars, serverVars>>

FinishStart(r) ==
  /\ At(r, "release")
  /\ Release(r)
  /\ GoTo(r, "count")
  /\ UNCHANGED <<tenantVars, wasNew, jobVars, serverVars>>

StartSequence(r) ==
  \/ CheckCapacity(r) \/ Enqueue(r) \/ MarkStarting(r) \/ Launch(r)
  \/ SeeHealthy(r) \/ PollTimesOut(r) \/ MarkActive(r) \/ FinishStart(r)

-----------------------------------------------------------------------------
(* Provision, stop and delete                                              *)

JobAt(j, step) == jobStep[j] = step
JobGoTo(j, step) == jobStep' = [jobStep EXCEPT ![j] = step]
Accept(j, t, step) ==
  /\ up
  /\ JobAt(j, "idle")
  /\ JobGoTo(j, step)
  /\ jobOf' = [jobOf EXCEPT ![j] = t]
  /\ UNCHANGED <<lockVars, tenantVars, startVars, serverVars>>

(* POST /provision answers with the row when there is one, whatever its    *)
(* status; only a missing row starts a provisioning.                       *)
ProvisionRequest(j, t) == status[t] = "ABSENT" /\ Accept(j, t, "create")

(* The principal is unique: of two concurrent creates one fails, outside   *)
(* the try block.                                                          *)
CreateTenant(j) ==
  LET t == jobOf[j] IN
  /\ JobAt(j, "create")
  /\ \/ status[t] = "ABSENT" /\ SetStatus(t, "PROVISIONING") /\ JobGoTo(j, "prepare")
     \/ status[t] # "ABSENT" /\ JobGoTo(j, "idle") /\ UNCHANGED status
  /\ UNCHANGED <<lockVars, deleted, queued, container, startVars, jobOf, serverVars>>

(* Directories, auth files, token and workspace; rolled back on an error.  *)
PrepareDirectories(j) ==
  /\ JobAt(j, "prepare")
  /\ JobGoTo(j, "markNew") \/ JobGoTo(j, "markFailed")
  /\ UNCHANGED <<lockVars, tenantVars, startVars, jobOf, serverVars>>

(* NEW is written inside the try block: when the audit row after it fails, *)
(* the directories go and the tenant is FAILED, whatever happened since.   *)
MarkProvisioned(j) ==
  /\ \/ /\ JobAt(j, "markNew")
        /\ SetStatus(jobOf[j], "NEW")
        /\ JobGoTo(j, "idle") \/ JobGoTo(j, "markFailed")
     \/ /\ JobAt(j, "markFailed")
        /\ SetStatus(jobOf[j], "FAILED")
        /\ JobGoTo(j, "idle")
  /\ UNCHANGED <<lockVars, deleted, queued, container, startVars, jobOf, serverVars>>

StopRequest(j, t) == status[t] \notin {"ABSENT", "STOPPED"} /\ Accept(j, t, "stopContainer")

(* Best effort: a failing docker stop changes nothing and is only logged.  *)
StopContainer(j) ==
  LET t == jobOf[j] IN
  /\ JobAt(j, "stopContainer")
  /\ \/ container[t] = "running" /\ container' = [container EXCEPT ![t] = "stopped"]
     \/ UNCHANGED container
  /\ JobGoTo(j, "markStopped")
  /\ UNCHANGED <<lockVars, status, deleted, queued, startVars, jobOf, serverVars>>

MarkStopped(j) ==
  LET t == jobOf[j] IN
  /\ JobAt(j, "markStopped")
  /\ SetStatus(t, "STOPPED")
  /\ queued' = [queued EXCEPT ![t] = FALSE]
  /\ JobGoTo(j, "idle")
  /\ UNCHANGED <<lockVars, deleted, container, startVars, jobOf, serverVars>>

DeleteRequest(j, t) ==
  /\ status[t] \notin {"ABSENT", "DELETING"}
  /\ ~deleted[t]
  /\ Accept(j, t, "markDeleting")

MarkDeleting(j) ==
  /\ JobAt(j, "markDeleting")
  /\ SetStatus(jobOf[j], "DELETING")
  /\ JobGoTo(j, "removeContainer")
  /\ UNCHANGED <<lockVars, deleted, queued, container, startVars, jobOf, serverVars>>

(* docker stop, then docker rm -f, each best effort: gone, only stopped,   *)
(* or untouched.                                                           *)
RemoveContainer(j) ==
  LET t == jobOf[j] IN
  /\ JobAt(j, "removeContainer")
  /\ \/ container' = [container EXCEPT ![t] = "none"]
     \/ container[t] = "running" /\ container' = [container EXCEPT ![t] = "stopped"]
     \/ UNCHANGED container
  /\ JobGoTo(j, "purge")
  /\ UNCHANGED <<lockVars, status, deleted, queued, startVars, jobOf, serverVars>>

(* Mutant: an archive that fails ends the deletion.                        *)
AfterPurgeMaybe(j) == JobGoTo(j, "softDelete") \/ JobGoTo(j, "idle")
AfterPurge(j) == JobGoTo(j, "softDelete")

(* The purge of the lock.  Before it the handler renames the directory,    *)
(* best effort, and purges the tenant's messages: neither touches what is  *)
(* kept here (module Reaper has the archive, MessageDelivery and           *)
(* PendingReplay the messages).                                            *)
PurgeTenant(j) ==
  /\ JobAt(j, "purge")
  /\ PurgeLock(jobOf[j])
  /\ AfterPurge(j)
  /\ UNCHANGED <<tenantVars, startVars, jobOf, serverVars>>

SoftDelete(j) ==
  /\ JobAt(j, "softDelete")
  /\ deleted' = [deleted EXCEPT ![jobOf[j]] = TRUE]
  /\ JobGoTo(j, "idle")
  /\ UNCHANGED <<lockVars, status, queued, container, startVars, jobOf, serverVars>>

ProvisionStep(j) == CreateTenant(j) \/ PrepareDirectories(j) \/ MarkProvisioned(j)
StopStep(j) == StopContainer(j) \/ MarkStopped(j)
DeleteStep(j) == MarkDeleting(j) \/ RemoveContainer(j) \/ PurgeTenant(j) \/ SoftDelete(j)
JobStep(j) == ProvisionStep(j) \/ StopStep(j) \/ DeleteStep(j)

-----------------------------------------------------------------------------
(* The process dies with its handlers and polls; rows and containers stay. *)
Crash ==
  /\ up
  /\ crashes < MaxCrashes
  /\ ForgetRequests
  /\ startStep' = [r \in Requests |-> "count"]
  /\ jobStep' = [j \in Jobs |-> "idle"]
  /\ resumed' = [t \in Tenants |-> "none"]
  /\ up' = FALSE
  /\ crashes' = crashes + 1
  /\ UNCHANGED <<tenantVars, wasNew, jobOf>>

(* Mutants: boot forgets interrupted provisionings, or writes a status of  *)
(* its own for a tenant without container.                                 *)
ReconciledWithoutProvisioning(s, c) ==
  CASE s = "STARTING" /\ c # "running" -> "FAILED"
    [] s = "ACTIVE" /\ c = "stopped" -> "STOPPED"
    [] s = "ACTIVE" /\ c = "none" -> "NEW"
    [] OTHER -> s
ReconciledUnknown(s, c) == IF s = "ACTIVE" /\ c # "running" THEN "CRASHED" ELSE s

(* What reconcile makes of a tenant when docker inspect shows it container *)
(* c ("none" also when inspect fails).                                     *)
Reconciled(s, c) ==
  CASE s = "PROVISIONING" -> "FAILED"
    [] s = "STARTING" /\ c # "running" -> "FAILED"
    [] s = "ACTIVE" /\ c = "stopped" -> "STOPPED"
    [] s = "ACTIVE" /\ c = "none" -> "NEW"
    [] OTHER -> s

(* reconcile, then the resumption of polls, before the server listens.     *)
(* Nothing of the control plane runs beside it, and what others may do in  *)
(* between commutes with it.                                               *)
Boot ==
  \E inspected \in SUBSET Tenants :
    LET seen(t) == IF t \in inspected THEN container[t] ELSE "none" IN
    /\ ~up
    /\ SweepExpired
    /\ status' = [t \in Tenants |-> Reconciled(status[t], seen(t))]
    /\ resumed' = [t \in Tenants |-> IF status'[t] = "STARTING" THEN "poll" ELSE "none"]
    /\ up' = TRUE
    /\ UNCHANGED <<deleted, queued, container, startVars, jobVars, crashes>>

(* The resumed polls of boot: as above, without a lock to release.         *)
ResumedSeeHealthy(t) ==
  /\ resumed[t] = "poll"
  /\ container[t] = "running"
  /\ resumed' = [resumed EXCEPT ![t] = "markActive"]
  /\ UNCHANGED <<lockVars, tenantVars, startVars, jobVars, up, crashes>>

ResumedTimesOut(t) ==
  /\ resumed[t] = "poll"
  /\ resumed' = [resumed EXCEPT ![t] = "none"]
  /\ UNCHANGED <<lockVars, tenantVars, startVars, jobVars, up, crashes>>

ResumedMarkActive(t) ==
  /\ resumed[t] = "markActive"
  /\ SetStatus(t, "ACTIVE")
  /\ resumed' = [resumed EXCEPT ![t] = "none"]
  /\ UNCHANGED <<lockVars, deleted, queued, container, startVars, jobVars, up, crashes>>

ResumedPoll(t) == ResumedSeeHealthy(t) \/ ResumedTimesOut(t) \/ ResumedMarkActive(t)

-----------------------------------------------------------------------------
(* The world around: a container exits, the scheduler sweeps locks or      *)
(* finds the host disk full, time passes.                                  *)
ContainerExits(t) ==
  /\ container[t] = "running"
  /\ container' = [container EXCEPT ![t] = "stopped"]
  /\ UNCHANGED <<lockVars, status, deleted, queued, startVars, jobVars, serverVars>>

SchedulerSweep ==
  /\ SweepExpired
  /\ UNCHANGED <<tenantVars, startVars, jobVars, serverVars>>

HostDiskFull ==
  /\ status' = [t \in Tenants |->
       IF status[t] = "ACTIVE" /\ ~deleted[t] THEN "UNHEALTHY" ELSE status[t]]
  /\ UNCHANGED <<lockVars, deleted, queued, container, startVars, jobVars, serverVars>>

Tick ==
  /\ TimePasses
  /\ UNCHANGED <<tenantVars, startVars, jobVars, serverVars>>

Next ==
  \/ \E r \in Requests :
       \/ \E t \in Tenants : StartRequest(r, t)
       \/ TakeLock(r)
       \/ StartSequence(r)
  \/ \E j \in Jobs :
       \/ \E t \in Tenants : ProvisionRequest(j, t)
       \/ \E t \in Stoppable : StopRequest(j, t)
       \/ \E t \in Deletable : DeleteRequest(j, t)
       \/ JobStep(j)
  \/ \E t \in Tenants : ResumedPoll(t) \/ ContainerExits(t)
  \/ Crash \/ Boot \/ SchedulerSweep \/ HostDiskFull \/ Tick

Spec == Init /\ [][Next]_vars

-----------------------------------------------------------------------------
(* What holds                                                              *)

(* Provisioning jobs that have made their row and not yet settled it.      *)
Provisioning(t) ==
  {j \in Jobs : jobOf[j] = t /\ jobStep[j] \in ProvisionSteps \ {"create"}}

(* While the control plane listens, a PROVISIONING row always has a        *)
(* handler at work on it: the create race, crashes at every step and other *)
(* handlers' writes never leave one behind (relays poll on that status).   *)
ProvisioningIsAttended ==
  up => \A t \in Tenants : status[t] = "PROVISIONING" => Provisioning(t) # {}

(* A deletion under way is never lost but to a crash: whatever stops,      *)
(* starts and polls do meanwhile, and whichever docker command fails, a    *)
(* tenant that is DELETING is soft-deleted or has a handler on its way to  *)
(* that.  After a crash nobody takes it up (DELETE refuses it).            *)
Deleting(t) == {j \in Jobs : jobOf[j] = t /\ jobStep[j] \in DeleteSteps \ {"markDeleting"}}
DeletingIsAttended ==
  crashes = 0 => \A t \in Tenants : status[t] = "DELETING" => deleted[t] \/ Deleting(t) # {}

(* Starts that passed the capacity check and have not ended.               *)
Committed ==
  {r \in Requests : Holds(r) /\ startStep[r] \in {"markStarting", "launch", "poll", "markActive"}}

(* The cap is overshot by no more than the starts in flight beside the one *)
(* that was counted last.  Polls resumed after a crash are not counted at  *)
(* all, so this is for a control plane that has not crashed.               *)
OvershootBounded ==
  crashes = 0 =>
    Cardinality(ActiveTenants) + Cardinality(Committed) < MaxActive + Cardinality(Requests)

-----------------------------------------------------------------------------
(* What the documents say and the code does not do                         *)

(* SPEC.md section 12: once deletion is requested no new messages are      *)
(* accepted; POST /message accepts them exactly when the tenant is ACTIVE. *)
DeletedIsNeverActive == \A t \in Tenants : deleted[t] => status[t] # "ACTIVE"
=============================================================================
