------------------------ MODULE TenantLifecycleProofs ------------------------
(***************************************************************************)
(* Proofs about the control plane: the composition drives the lock only    *)
(* through the lock's own operations, so what is proved of the lock holds  *)
(* of it; types; and no provisioning row is left without its handler.      *)
(***************************************************************************)
EXTENDS TenantLifecycle, StartupLockProofs, FiniteSetTheorems

-----------------------------------------------------------------------------
(* Every step of the control plane is a step of the lock or leaves it.     *)
LEMMA LockStepOfNext ==
  ASSUME LifecycleTypeOK, [Next]_vars
  PROVE  [LockNext]_lockVars
<1>1. ASSUME NEW r \in Requests, NEW t \in Tenants, StartRequest(r, t)
      PROVE  LockNext
  BY <1>1 DEF StartRequest, LockNext
<1>2. ASSUME NEW r \in Requests, TakeLock(r)
      PROVE  LockNext
  BY <1>2 DEF TakeLock, LockNext
<1>3. ASSUME NEW r \in Requests, StartSequence(r)
      PROVE  [LockNext]_lockVars
  <2>1. CASE Enqueue(r)
    BY <2>1 DEF Enqueue, LockNext
  <2>2. CASE FinishStart(r)
    BY <2>2 DEF FinishStart, LockNext
  <2>3. CASE CheckCapacity(r) \/ MarkStarting(r) \/ Launch(r) \/ SeeHealthy(r)
             \/ PollTimesOut(r) \/ MarkActive(r)
    BY <2>3 DEF CheckCapacity, MarkStarting, Launch, SeeHealthy, PollTimesOut, MarkActive
  <2> QED BY <1>3, <2>1, <2>2, <2>3 DEF StartSequence
<1>4. ASSUME NEW j \in Jobs, NEW t \in Tenants,
             ProvisionRequest(j, t) \/ StopRequest(j, t) \/ DeleteRequest(j, t)
      PROVE  UNCHANGED lockVars
  BY <1>4 DEF ProvisionRequest, StopRequest, DeleteRequest, Accept
<1>5. ASSUME NEW j \in Jobs, JobStep(j)
      PROVE  [LockNext]_lockVars
  <2>1. CASE PurgeTenant(j)
    BY <2>1 DEF PurgeTenant, JobAt, DeleteSteps, LifecycleTypeOK, LockNext
  <2>2. CASE ~PurgeTenant(j)
    BY <1>5, <2>2 DEF JobStep, ProvisionStep, StopStep, DeleteStep, CreateTenant,
       PrepareDirectories, MarkProvisioned, StopContainer,
       MarkStopped, MarkDeleting, RemoveContainer, SoftDelete
  <2> QED BY <2>1, <2>2
<1>6. ASSUME NEW t \in Tenants, ResumedPoll(t) \/ ContainerExits(t)
      PROVE  UNCHANGED lockVars
  BY <1>6 DEF ResumedPoll, ResumedSeeHealthy, ResumedTimesOut, ResumedMarkActive, ContainerExits
<1>7. CASE Crash
  BY <1>7 DEF Crash, LockNext
<1>8. CASE Boot \/ SchedulerSweep
  BY <1>8 DEF Boot, SchedulerSweep, LockNext
<1>9. CASE HostDiskFull
  BY <1>9 DEF HostDiskFull
<1>10. CASE Tick
  BY <1>10 DEF Tick, LockNext
<1>11. CASE UNCHANGED vars
  BY <1>11 DEF vars, lockVars
<1> QED
  BY <1>1, <1>2, <1>3, <1>4, <1>5, <1>6, <1>7, <1>8, <1>9, <1>10, <1>11, LifecycleAssumption,
     LockAssumption
  DEF Next, StopRequest, DeleteRequest

-----------------------------------------------------------------------------
(* Types: a start, step by step.                                           *)
LEMMA StartSequenceType ==
  ASSUME TypeOK, LifecycleTypeOK, NEW r \in Requests, StartSequence(r)
  PROVE  LifecycleTypeOK'
<1>1. lockOf[r] \in Tenants
  BY DEF TypeOK
<1>2. CASE CheckCapacity(r)
  BY <1>2 DEF CheckCapacity, GoTo, StartSteps, LifecycleTypeOK, tenantVars, jobVars, serverVars
<1>3. CASE Enqueue(r)
  BY <1>1, <1>3 DEF Enqueue, GoTo, StartSteps, LifecycleTypeOK, jobVars, serverVars
<1>4. CASE MarkStarting(r)
  BY <1>1, <1>4 DEF MarkStarting, SetStatus, Statuses, GoTo, StartSteps, LifecycleTypeOK,
     jobVars, serverVars
<1>5. CASE Launch(r)
  BY <1>1, <1>5 DEF Launch, DockerRun, DockerStart, GoTo, StartSteps, LifecycleTypeOK,
     jobVars, serverVars
<1>6. CASE SeeHealthy(r)
  BY <1>6 DEF SeeHealthy, GoTo, StartSteps, LifecycleTypeOK, tenantVars, jobVars, serverVars
<1>7. CASE PollTimesOut(r)
  BY <1>7 DEF PollTimesOut, GoTo, StartSteps, LifecycleTypeOK, tenantVars, jobVars, serverVars
<1>8. CASE MarkActive(r)
  BY <1>1, <1>8 DEF MarkActive, SetStatus, Statuses, GoTo, StartSteps, LifecycleTypeOK,
     jobVars, serverVars
<1>9. CASE FinishStart(r)
  BY <1>9 DEF FinishStart, GoTo, StartSteps, LifecycleTypeOK, tenantVars, jobVars, serverVars
<1> QED BY <1>2, <1>3, <1>4, <1>5, <1>6, <1>7, <1>8, <1>9 DEF StartSequence

(* Types: a job's next step.                                               *)
LEMMA JobStepType ==
  ASSUME LifecycleTypeOK, NEW j \in Jobs, JobStep(j)
  PROVE  LifecycleTypeOK'
<1> USE DEF JobAt, JobGoTo, SetStatus, Statuses, ProvisionSteps, StopSteps, DeleteSteps,
            startVars, serverVars
<1>1. jobOf[j] \in Tenants
  BY DEF LifecycleTypeOK
<1>2. CASE CreateTenant(j)
  BY <1>1, <1>2 DEF CreateTenant, LifecycleTypeOK
<1>3. CASE PrepareDirectories(j)
  BY <1>3 DEF PrepareDirectories, LifecycleTypeOK, tenantVars
<1>4. CASE MarkProvisioned(j)
  BY <1>1, <1>4 DEF MarkProvisioned, LifecycleTypeOK
<1>5. CASE StopContainer(j)
  BY <1>1, <1>5 DEF StopContainer, LifecycleTypeOK
<1>6. CASE MarkStopped(j)
  BY <1>1, <1>6 DEF MarkStopped, LifecycleTypeOK
<1>7. CASE MarkDeleting(j)
  BY <1>1, <1>7 DEF MarkDeleting, LifecycleTypeOK
<1>8. CASE RemoveContainer(j)
  BY <1>1, <1>8 DEF RemoveContainer, LifecycleTypeOK
<1>9. CASE PurgeTenant(j)
  BY <1>9 DEF PurgeTenant, AfterPurge, LifecycleTypeOK, tenantVars
<1>10. CASE SoftDelete(j)
  BY <1>1, <1>10 DEF SoftDelete, LifecycleTypeOK
<1> QED BY <1>2, <1>3, <1>4, <1>5, <1>6, <1>7, <1>8, <1>9, <1>10 DEF JobStep, ProvisionStep,
          StopStep, DeleteStep

(* Types: a new job of any of the three kinds.                             *)
LEMMA AcceptType ==
  ASSUME LifecycleTypeOK, NEW j \in Jobs, NEW t \in Tenants,
         NEW s \in ProvisionSteps \cup StopSteps \cup DeleteSteps,
         s \in DeleteSteps => t \in Deletable, Accept(j, t, s)
  PROVE  LifecycleTypeOK'
BY DEF Accept, JobAt, JobGoTo, ProvisionSteps, StopSteps, DeleteSteps, LifecycleTypeOK,
   tenantVars, startVars, serverVars

LEMMA LifecycleTypeStep ==
  ASSUME TypeOK, LifecycleTypeOK, [Next]_vars
  PROVE  LifecycleTypeOK'
<1> USE LockAssumption, LifecycleAssumption
<1>1. ASSUME NEW r \in Requests, NEW t \in Tenants, StartRequest(r, t)
      PROVE  LifecycleTypeOK'
  BY <1>1 DEF StartRequest, LifecycleTypeOK, tenantVars, jobVars, serverVars
<1>2. ASSUME NEW r \in Requests, TakeLock(r)
      PROVE  LifecycleTypeOK'
  BY <1>2 DEF TakeLock, LifecycleTypeOK, tenantVars, startVars, jobVars, serverVars
<1>3. ASSUME NEW j \in Jobs, NEW t \in Tenants, ProvisionRequest(j, t)
      PROVE  LifecycleTypeOK'
  BY <1>3, AcceptType DEF ProvisionRequest, ProvisionSteps, DeleteSteps
<1>4. ASSUME NEW j \in Jobs, NEW t \in Stoppable, StopRequest(j, t)
      PROVE  LifecycleTypeOK'
  BY <1>4, AcceptType DEF StopRequest, StopSteps, DeleteSteps
<1>5. ASSUME NEW j \in Jobs, NEW t \in Deletable, DeleteRequest(j, t)
      PROVE  LifecycleTypeOK'
  BY <1>5, AcceptType DEF DeleteRequest, DeleteSteps
<1>6. ASSUME NEW t \in Tenants, ResumedPoll(t) \/ ContainerExits(t)
      PROVE  LifecycleTypeOK'
  BY <1>6 DEF ResumedPoll, ResumedSeeHealthy, ResumedTimesOut, ResumedMarkActive, ContainerExits,
     SetStatus, Statuses, LifecycleTypeOK, tenantVars, startVars, jobVars, serverVars
<1>7. CASE Crash
  <2>1. crashes' \in 0 .. MaxCrashes
    BY <1>7 DEF Crash, LifecycleTypeOK
  <2>2. up' \in BOOLEAN
    BY <1>7 DEF Crash
  <2>3. startStep' \in [Requests -> StartSteps] /\ wasNew' \in [Requests -> BOOLEAN]
    BY <1>7 DEF Crash, StartSteps, LifecycleTypeOK
  <2>4. /\ jobStep' \in [Jobs -> {"idle"} \cup ProvisionSteps \cup StopSteps \cup DeleteSteps]
        /\ \A j \in Jobs : jobStep'[j] \notin DeleteSteps
    BY <1>7 DEF Crash, DeleteSteps
  <2>5. jobOf' = jobOf /\ resumed' \in [Tenants -> {"none", "poll", "markActive"}]
    BY <1>7 DEF Crash
  <2> QED BY <1>7, <2>1, <2>2, <2>3, <2>4, <2>5 DEF Crash, LifecycleTypeOK, tenantVars
<1>8. CASE Boot
  <2>1. \A s \in Statuses \cup {"ABSENT"}, c \in {"none", "stopped", "running"} :
          Reconciled(s, c) \in Statuses \cup {"ABSENT"}
    BY DEF Reconciled, Statuses
  <2>2. status' \in [Tenants -> Statuses \cup {"ABSENT"}]
    BY <1>8, <2>1 DEF Boot, LifecycleTypeOK
  <2> QED BY <1>8, <2>2 DEF Boot, LifecycleTypeOK, startVars, jobVars
<1>9. CASE SchedulerSweep
  BY <1>9 DEF SchedulerSweep, LifecycleTypeOK, tenantVars, startVars, jobVars, serverVars
<1>10. CASE HostDiskFull
  BY <1>10 DEF HostDiskFull, Statuses, LifecycleTypeOK, startVars, jobVars, serverVars
<1>11. CASE Tick
  BY <1>11 DEF Tick, LifecycleTypeOK, tenantVars, startVars, jobVars, serverVars
<1>12. CASE UNCHANGED vars
  BY <1>12 DEF vars, LifecycleTypeOK, tenantVars, startVars, jobVars, serverVars
<1> QED
  BY <1>1, <1>2, <1>3, <1>4, <1>5, <1>6, <1>7, <1>8, <1>9, <1>10, <1>11, <1>12,
     StartSequenceType, JobStepType DEF Next

LEMMA LifecycleTypeInit == Init => LifecycleTypeOK
  BY LifecycleAssumption DEF Init, LifecycleTypeOK, StartSteps, Statuses, DeleteSteps

(* The types of the lock and of the lifecycle are invariant together: a    *)
(* step of the composition is a step of the lock because the jobs that     *)
(* purge are deletions, and a start's tenant is a tenant because of the    *)
(* lock's types.                                                           *)
THEOREM LifecycleTypeCorrect == Spec => [](TypeOK /\ LifecycleTypeOK)
<1>1. Init => TypeOK /\ LifecycleTypeOK
  BY TypeInit, LifecycleTypeInit DEF Init
<1>2. TypeOK /\ LifecycleTypeOK /\ [Next]_vars => TypeOK' /\ LifecycleTypeOK'
  BY LockStepOfNext, TypeStep, LifecycleTypeStep
<1> QED BY <1>1, <1>2, PTL DEF Spec

(* The control plane implements the lock's specification.                  *)
THEOREM ImplementsLock == Spec => LockSpec
<1>1. Init => LockInit
  BY DEF Init
<1>2. LifecycleTypeOK /\ [Next]_vars => [LockNext]_lockVars
  BY LockStepOfNext
<1> QED BY <1>1, <1>2, LifecycleTypeCorrect, PTL DEF Spec, LockSpec

(* So what is proved of the lock holds of the control plane.               *)
THEOREM StartsOverlapOnlyByDisplacement ==
  ASSUME HoldsEndInTime
  PROVE  Spec => []OverlapOnlyByDisplacement
BY ImplementsLock, OverlapNeedsDisplacement, PTL

(* A startup sequence of the control plane owns its row, with what is left *)
(* of the TTL, until it ends or is displaced.                              *)
THEOREM StartersOwnTheirRows ==
  ASSUME HoldsEndInTime
  PROVE  Spec => []HolderOwnsRow
BY ImplementsLock, HoldersOwnTheirRows, PTL

(* Stops, deletions, sweeps, crashes and reconciliations included, nobody  *)
(* takes an unexpired row from a startup sequence but itself, as it ends,  *)
(* or a request that displaces it.                                         *)
THEOREM StartersRowsTakenOnlySo == Spec => RowTakenOnlyByOwnerOrDisplacer
BY ImplementsLock, RowsTakenOnlySo

-----------------------------------------------------------------------------
AtWork == {"prepare", "markNew", "markFailed"}

(* ProvisioningIsAttended, with the job named.                             *)
LEMMA AttendedByJob ==
  ProvisioningIsAttended <=>
    (up => \A t \in Tenants : status[t] = "PROVISIONING" =>
             \E j \in Jobs : jobOf[j] = t /\ jobStep[j] \in AtWork)
BY DEF ProvisioningIsAttended, Provisioning, ProvisionSteps, AtWork

(* A step that makes no row PROVISIONING, and takes no job away, is safe.  *)
LEMMA ProvisioningFrame ==
  ASSUME ProvisioningIsAttended, up' => up,
         \A t \in Tenants : status'[t] = "PROVISIONING" => status[t] = "PROVISIONING",
         \A j \in Jobs : jobStep[j] \in AtWork =>
           jobStep'[j] \in AtWork /\ jobOf'[j] = jobOf[j]
  PROVE  ProvisioningIsAttended'
<1> SUFFICES ASSUME up', NEW t \in Tenants, status'[t] = "PROVISIONING"
             PROVE  \E j \in Jobs : jobOf'[j] = t /\ jobStep'[j] \in AtWork
  BY DEF ProvisioningIsAttended, Provisioning, ProvisionSteps, AtWork
<1>1. PICK j \in Jobs : jobOf[j] = t /\ jobStep[j] \in AtWork
  BY AttendedByJob
<1> QED BY <1>1

(* Who may write PROVISIONING, and who ends a provisioning: the creating   *)
(* job, which then is at work, and the job itself, which writes another    *)
(* status; a crash takes the server down and its boot rewrites the status. *)
LEMMA ProvisioningStep ==
  ASSUME LifecycleTypeOK, ProvisioningIsAttended, [Next]_vars
  PROVE  ProvisioningIsAttended'
<1>1. ASSUME NEW r \in Requests, (\E t \in Tenants : StartRequest(r, t)) \/ TakeLock(r)
      PROVE  ProvisioningIsAttended'
  BY <1>1, ProvisioningFrame DEF StartRequest, TakeLock, tenantVars, jobVars, serverVars
<1>2. ASSUME NEW r \in Requests, StartSequence(r)
      PROVE  ProvisioningIsAttended'
  <2>1. UNCHANGED <<jobVars, serverVars>>
    BY <1>2 DEF StartSequence, CheckCapacity, Enqueue, MarkStarting, Launch, SeeHealthy,
       PollTimesOut, MarkActive, FinishStart
  <2>2. CASE MarkStarting(r) \/ MarkActive(r)
    <3>1. \A t \in Tenants : status'[t] = "PROVISIONING" => status[t] = "PROVISIONING"
      BY <2>2 DEF MarkStarting, MarkActive, SetStatus, LifecycleTypeOK
    <3> QED BY <2>1, <3>1, ProvisioningFrame DEF jobVars, serverVars
  <2>3. CASE ~(MarkStarting(r) \/ MarkActive(r))
    <3>1. status' = status
      BY <1>2, <2>3 DEF StartSequence, CheckCapacity, Enqueue, Launch, SeeHealthy,
         PollTimesOut, FinishStart, tenantVars
    <3> QED BY <2>1, <3>1, ProvisioningFrame DEF jobVars, serverVars
  <2> QED BY <2>2, <2>3
<1>3. ASSUME NEW j \in Jobs, NEW t \in Tenants,
             ProvisionRequest(j, t) \/ StopRequest(j, t) \/ DeleteRequest(j, t)
      PROVE  ProvisioningIsAttended'
  BY <1>3, ProvisioningFrame
  DEF ProvisionRequest, StopRequest, DeleteRequest, Accept, JobAt, JobGoTo, AtWork,
      LifecycleTypeOK, tenantVars, serverVars
<1>4. ASSUME NEW j \in Jobs, JobStep(j)
      PROVE  ProvisioningIsAttended'
  <2>1. UNCHANGED <<up, jobOf>>
    BY <1>4 DEF JobStep, ProvisionStep, StopStep, DeleteStep, CreateTenant, PrepareDirectories,
       MarkProvisioned, StopContainer,
       MarkStopped, MarkDeleting, RemoveContainer, PurgeTenant, SoftDelete, serverVars
  <2>2. \A k \in Jobs \ {j} : jobStep'[k] = jobStep[k]
    BY <1>4 DEF JobStep, ProvisionStep, StopStep, DeleteStep, CreateTenant, PrepareDirectories,
       MarkProvisioned, StopContainer,
       MarkStopped, MarkDeleting, RemoveContainer, PurgeTenant, AfterPurge, SoftDelete, JobGoTo,
       LifecycleTypeOK
  <2>3. \A u \in Tenants \ {jobOf[j]} : status'[u] = status[u]
    BY <1>4 DEF JobStep, ProvisionStep, StopStep, DeleteStep, CreateTenant, PrepareDirectories,
       MarkProvisioned, StopContainer,
       MarkStopped, MarkDeleting, RemoveContainer, PurgeTenant, SoftDelete, SetStatus,
       LifecycleTypeOK, tenantVars
  <2>4. CASE CreateTenant(j)
    <3>1. jobStep[j] = "create"
      BY <2>4 DEF CreateTenant, JobAt
    <3>2. CASE status[jobOf[j]] = "ABSENT"
      <4>1. jobStep'[j] = "prepare"
        BY <2>4, <3>2 DEF CreateTenant, JobGoTo, LifecycleTypeOK
      <4> SUFFICES ASSUME up', NEW t \in Tenants, status'[t] = "PROVISIONING"
                   PROVE  \E k \in Jobs : jobOf'[k] = t /\ jobStep'[k] \in AtWork
        BY DEF ProvisioningIsAttended, Provisioning, ProvisionSteps, AtWork
      <4>2. CASE t = jobOf[j]
        BY <2>1, <4>1, <4>2 DEF AtWork
      <4>3. CASE t # jobOf[j]
        <5>1. PICK k \in Jobs : jobOf[k] = t /\ jobStep[k] \in AtWork
          BY <2>1, <2>3, <4>3, AttendedByJob
        <5> QED BY <2>1, <2>2, <4>3, <5>1
      <4> QED BY <4>2, <4>3
    <3>3. CASE status[jobOf[j]] # "ABSENT"
      BY <2>1, <2>2, <2>4, <3>1, <3>3, ProvisioningFrame DEF CreateTenant, AtWork
    <3> QED BY <3>2, <3>3
  <2>5. CASE PrepareDirectories(j)
    <3>1. jobStep'[j] \in AtWork
      BY <2>5 DEF PrepareDirectories, JobGoTo, AtWork, LifecycleTypeOK
    <3> QED BY <2>1, <2>2, <2>5, <3>1, ProvisioningFrame DEF PrepareDirectories, tenantVars
  <2>6. CASE MarkProvisioned(j)
    <3>1. status'[jobOf[j]] # "PROVISIONING"
      BY <2>6 DEF MarkProvisioned, SetStatus, LifecycleTypeOK
    <3> SUFFICES ASSUME up', NEW t \in Tenants, status'[t] = "PROVISIONING"
                 PROVE  \E k \in Jobs : jobOf'[k] = t /\ jobStep'[k] \in AtWork
      BY DEF ProvisioningIsAttended, Provisioning, ProvisionSteps, AtWork
    <3>2. PICK k \in Jobs : jobOf[k] = t /\ jobStep[k] \in AtWork
      BY <2>1, <2>3, <3>1, AttendedByJob
    <3> QED BY <2>1, <2>2, <3>1, <3>2
  <2>7. CASE \/ StopContainer(j) \/ MarkStopped(j)
             \/ MarkDeleting(j) \/ RemoveContainer(j) \/ PurgeTenant(j) \/ SoftDelete(j)
    <3>1. jobStep[j] \notin AtWork
      BY <2>7 DEF StopContainer, MarkStopped, MarkDeleting, RemoveContainer, PurgeTenant,
         SoftDelete, JobAt, AtWork
    <3>2. \A t \in Tenants : status'[t] = "PROVISIONING" => status[t] = "PROVISIONING"
      BY <2>7 DEF StopContainer, MarkStopped, MarkDeleting, RemoveContainer, PurgeTenant,
         SoftDelete, SetStatus, LifecycleTypeOK, tenantVars
    <3> QED BY <2>1, <2>2, <3>1, <3>2, ProvisioningFrame
  <2> QED BY <1>4, <2>4, <2>5, <2>6, <2>7 DEF JobStep, ProvisionStep, StopStep, DeleteStep
<1>5. ASSUME NEW t \in Tenants, ResumedPoll(t) \/ ContainerExits(t)
      PROVE  ProvisioningIsAttended'
  <2>1. UNCHANGED <<up, jobVars>>
    BY <1>5 DEF ResumedPoll, ResumedSeeHealthy, ResumedTimesOut, ResumedMarkActive,
       ContainerExits, serverVars
  <2>2. \A u \in Tenants : status'[u] = "PROVISIONING" => status[u] = "PROVISIONING"
    BY <1>5 DEF ResumedPoll, ResumedSeeHealthy, ResumedTimesOut, ResumedMarkActive,
       ContainerExits, SetStatus, LifecycleTypeOK, tenantVars
  <2> QED BY <2>1, <2>2, ProvisioningFrame DEF jobVars
<1>6. CASE Crash
  BY <1>6 DEF Crash, ProvisioningIsAttended
<1>7. CASE Boot
  <2>1. \A t \in Tenants : status'[t] # "PROVISIONING"
    BY <1>7 DEF Boot, Reconciled
  <2> QED BY <2>1 DEF ProvisioningIsAttended
<1>8. CASE SchedulerSweep \/ Tick
  BY <1>8, ProvisioningFrame DEF SchedulerSweep, Tick, tenantVars, jobVars, serverVars
<1>9. CASE HostDiskFull
  BY <1>9, ProvisioningFrame DEF HostDiskFull, jobVars, serverVars
<1>10. CASE UNCHANGED vars
  BY <1>10, ProvisioningFrame DEF vars, tenantVars, jobVars, serverVars
<1> QED
  BY <1>1, <1>2, <1>3, <1>4, <1>5, <1>6, <1>7, <1>8, <1>9, <1>10, LifecycleAssumption,
     LockAssumption DEF Next

(* No crash, no create race and no other handler leaves a PROVISIONING row *)
(* without the job that settles it, for any number of tenants and jobs.    *)
THEOREM ProvisioningAlwaysAttended == Spec => []ProvisioningIsAttended
<1>1. Init => ProvisioningIsAttended
  BY DEF Init, ProvisioningIsAttended
<1>2. LifecycleTypeOK /\ ProvisioningIsAttended /\ [Next]_vars => ProvisioningIsAttended'
  BY ProvisioningStep
<1> QED BY <1>1, <1>2, LifecycleTypeCorrect, PTL DEF Spec

-----------------------------------------------------------------------------
InDeletion == {"removeContainer", "purge", "softDelete"}

(* DeletingIsAttended, with the job named.                                 *)
LEMMA AttendedByDeletion ==
  DeletingIsAttended <=>
    (crashes = 0 => \A t \in Tenants : status[t] = "DELETING" =>
       deleted[t] \/ \E j \in Jobs : jobOf[j] = t /\ jobStep[j] \in InDeletion)
BY DEF DeletingIsAttended, Deleting, DeleteSteps, InDeletion

(* A step that makes no row DELETING, undeletes none and takes no job away *)
(* is safe.                                                                *)
LEMMA DeletingFrame ==
  ASSUME DeletingIsAttended, crashes' = crashes,
         \A t \in Tenants : status'[t] = "DELETING" => status[t] = "DELETING",
         \A t \in Tenants : deleted[t] => deleted'[t],
         \A j \in Jobs : jobStep[j] \in InDeletion =>
           jobStep'[j] \in InDeletion /\ jobOf'[j] = jobOf[j]
  PROVE  DeletingIsAttended'
<1> SUFFICES ASSUME crashes = 0, NEW t \in Tenants, status[t] = "DELETING", ~deleted[t]
             PROVE  \E j \in Jobs : jobOf'[j] = t /\ jobStep'[j] \in InDeletion
  BY DEF DeletingIsAttended, Deleting, DeleteSteps, InDeletion
<1>1. PICK j \in Jobs : jobOf[j] = t /\ jobStep[j] \in InDeletion
  BY AttendedByDeletion
<1> QED BY <1>1

(* A job other than a deletion leaves the deletions and their rows alone;  *)
(* a deletion goes on to its next step, and ends by setting deleted_at.    *)
LEMMA DeletingJobStep ==
  ASSUME LifecycleTypeOK, DeletingIsAttended, NEW j \in Jobs, JobStep(j)
  PROVE  DeletingIsAttended'
<1>1. UNCHANGED <<jobOf, crashes>>
  BY DEF JobStep, ProvisionStep, StopStep, DeleteStep, CreateTenant, PrepareDirectories,
     MarkProvisioned, StopContainer,
     MarkStopped, MarkDeleting, RemoveContainer, PurgeTenant, SoftDelete, serverVars
<1>2. \A k \in Jobs \ {j} : jobStep'[k] = jobStep[k]
  BY DEF JobStep, ProvisionStep, StopStep, DeleteStep, CreateTenant, PrepareDirectories,
     MarkProvisioned, StopContainer,
     MarkStopped, MarkDeleting, RemoveContainer, PurgeTenant, AfterPurge, SoftDelete, JobGoTo,
     LifecycleTypeOK
<1>3. \A u \in Tenants \ {jobOf[j]} : status'[u] = status[u]
  BY DEF JobStep, ProvisionStep, StopStep, DeleteStep, CreateTenant, PrepareDirectories,
     MarkProvisioned, StopContainer,
     MarkStopped, MarkDeleting, RemoveContainer, PurgeTenant, SoftDelete, SetStatus,
     LifecycleTypeOK, tenantVars
<1>4. \A t \in Tenants : deleted[t] => deleted'[t]
  BY DEF JobStep, ProvisionStep, StopStep, DeleteStep, CreateTenant, PrepareDirectories,
     MarkProvisioned, StopContainer,
     MarkStopped, MarkDeleting, RemoveContainer, PurgeTenant, SoftDelete, LifecycleTypeOK,
     tenantVars
<1>5. CASE CreateTenant(j) \/ PrepareDirectories(j) \/ MarkProvisioned(j)
           \/ StopContainer(j) \/ MarkStopped(j)
  <2>1. jobStep[j] \notin InDeletion
    BY <1>5 DEF CreateTenant, PrepareDirectories, MarkProvisioned, StopContainer, MarkStopped,
       JobAt, InDeletion
  <2>2. \A t \in Tenants : status'[t] = "DELETING" => status[t] = "DELETING"
    BY <1>5 DEF CreateTenant, PrepareDirectories, MarkProvisioned, StopContainer, MarkStopped,
       SetStatus, LifecycleTypeOK, tenantVars
  <2> QED BY <1>1, <1>2, <1>4, <2>1, <2>2, DeletingFrame
<1>6. CASE MarkDeleting(j)
  <2>1. jobStep'[j] \in InDeletion
    BY <1>6 DEF MarkDeleting, JobGoTo, LifecycleTypeOK, InDeletion
  <2> SUFFICES ASSUME crashes = 0, NEW t \in Tenants, status'[t] = "DELETING", ~deleted'[t]
               PROVE  \E k \in Jobs : jobOf'[k] = t /\ jobStep'[k] \in InDeletion
    BY <1>1 DEF DeletingIsAttended, Deleting, DeleteSteps, InDeletion
  <2>2. CASE t = jobOf[j]
    BY <1>1, <2>1, <2>2
  <2>3. CASE t # jobOf[j]
    <3>1. PICK k \in Jobs : jobOf[k] = t /\ jobStep[k] \in InDeletion
      BY <1>3, <1>4, <2>3, AttendedByDeletion
    <3> QED BY <1>1, <1>2, <2>3, <3>1
  <2> QED BY <2>2, <2>3
<1>7. CASE RemoveContainer(j) \/ PurgeTenant(j)
  <2>1. jobStep'[j] \in InDeletion
    BY <1>7 DEF RemoveContainer, PurgeTenant, AfterPurge, JobGoTo, LifecycleTypeOK, InDeletion
  <2>2. status' = status
    BY <1>7 DEF RemoveContainer, PurgeTenant, tenantVars
  <2> QED BY <1>1, <1>2, <1>4, <2>1, <2>2, DeletingFrame
<1>8. CASE SoftDelete(j)
  <2>1. status' = status /\ deleted'[jobOf[j]]
    BY <1>8 DEF SoftDelete, LifecycleTypeOK
  <2> SUFFICES ASSUME crashes = 0, NEW t \in Tenants, status[t] = "DELETING", ~deleted'[t]
               PROVE  \E k \in Jobs : jobOf'[k] = t /\ jobStep'[k] \in InDeletion
    BY <1>1, <2>1 DEF DeletingIsAttended, Deleting, DeleteSteps, InDeletion
  <2>2. PICK k \in Jobs : jobOf[k] = t /\ jobStep[k] \in InDeletion
    BY <1>4, AttendedByDeletion
  <2> QED BY <1>1, <1>2, <2>1, <2>2
<1> QED BY <1>5, <1>6, <1>7, <1>8 DEF JobStep, ProvisionStep, StopStep, DeleteStep

LEMMA DeletingStep ==
  ASSUME LifecycleTypeOK, DeletingIsAttended, [Next]_vars
  PROVE  DeletingIsAttended'
<1>1. ASSUME NEW r \in Requests,
             (\E t \in Tenants : StartRequest(r, t)) \/ TakeLock(r) \/ StartSequence(r)
      PROVE  DeletingIsAttended'
  <2>1. UNCHANGED <<jobVars, serverVars, deleted>>
    BY <1>1 DEF StartRequest, TakeLock, StartSequence, CheckCapacity, Enqueue, MarkStarting,
       Launch, SeeHealthy, PollTimesOut, MarkActive, FinishStart, tenantVars
  <2>2. \A t \in Tenants : status'[t] = "DELETING" => status[t] = "DELETING"
    BY <1>1 DEF StartRequest, TakeLock, StartSequence, CheckCapacity, Enqueue, MarkStarting,
       Launch, SeeHealthy, PollTimesOut, MarkActive, FinishStart, SetStatus, LifecycleTypeOK,
       tenantVars
  <2> QED BY <2>1, <2>2, DeletingFrame DEF jobVars, serverVars
<1>2. ASSUME NEW j \in Jobs, NEW t \in Tenants,
             ProvisionRequest(j, t) \/ StopRequest(j, t) \/ DeleteRequest(j, t)
      PROVE  DeletingIsAttended'
  BY <1>2, DeletingFrame
  DEF ProvisionRequest, StopRequest, DeleteRequest, Accept, JobAt, JobGoTo, InDeletion,
      LifecycleTypeOK, tenantVars, serverVars
<1>3. ASSUME NEW j \in Jobs, JobStep(j)
      PROVE  DeletingIsAttended'
  BY <1>3, DeletingJobStep
<1>4. ASSUME NEW t \in Tenants, ResumedPoll(t) \/ ContainerExits(t)
      PROVE  DeletingIsAttended'
  <2>1. UNCHANGED <<jobVars, crashes, deleted>>
    BY <1>4 DEF ResumedPoll, ResumedSeeHealthy, ResumedTimesOut, ResumedMarkActive,
       ContainerExits, serverVars, tenantVars
  <2>2. \A u \in Tenants : status'[u] = "DELETING" => status[u] = "DELETING"
    BY <1>4 DEF ResumedPoll, ResumedSeeHealthy, ResumedTimesOut, ResumedMarkActive,
       ContainerExits, SetStatus, LifecycleTypeOK, tenantVars
  <2> QED BY <2>1, <2>2, DeletingFrame DEF jobVars
<1>5. CASE Crash
  BY <1>5 DEF Crash, LifecycleTypeOK, DeletingIsAttended
<1>6. CASE Boot
  <2>1. \A t \in Tenants : status'[t] = "DELETING" => status[t] = "DELETING"
    BY <1>6 DEF Boot, Reconciled
  <2> QED BY <1>6, <2>1, DeletingFrame DEF Boot, jobVars
<1>7. CASE SchedulerSweep \/ Tick
  BY <1>7, DeletingFrame DEF SchedulerSweep, Tick, tenantVars, jobVars, serverVars
<1>8. CASE HostDiskFull
  BY <1>8, DeletingFrame DEF HostDiskFull, jobVars, serverVars
<1>9. CASE UNCHANGED vars
  BY <1>9, DeletingFrame DEF vars, tenantVars, jobVars, serverVars
<1> QED
  BY <1>1, <1>2, <1>3, <1>4, <1>5, <1>6, <1>7, <1>8, <1>9, LifecycleAssumption,
     LockAssumption DEF Next

(* Without a crash, no interleaving of handlers, failing docker commands   *)
(* and polls leaves a tenant DELETING with nobody to finish the deletion.  *)
THEOREM DeletingAlwaysAttended == Spec => []DeletingIsAttended
<1>1. Init => DeletingIsAttended
  BY DEF Init, DeletingIsAttended
<1>2. LifecycleTypeOK /\ DeletingIsAttended /\ [Next]_vars => DeletingIsAttended'
  BY DeletingStep
<1> QED BY <1>1, <1>2, LifecycleTypeCorrect, PTL DEF Spec

-----------------------------------------------------------------------------
(* The bound on the capacity overshoot needs two more facts to be          *)
(* inductive: a request without the lock starts from the capacity check,   *)
(* and only a crash leaves polls to resume.                                *)
OvershootInv ==
  /\ OvershootBounded
  /\ \A r \in Requests : ~Holds(r) => startStep[r] = "count"
  /\ crashes = 0 => up /\ \A t \in Tenants : resumed[t] = "none"

LEMMA FiniteCounts ==
  /\ IsFiniteSet(ActiveTenants) /\ Cardinality(ActiveTenants) \in Nat
  /\ IsFiniteSet(Committed) /\ Cardinality(Committed) \in Nat
  /\ Cardinality(Requests) \in Nat /\ Cardinality(Committed) <= Cardinality(Requests)
<1>1. ActiveTenants \subseteq Tenants /\ Committed \subseteq Requests
  BY DEF ActiveTenants, Committed
<1> QED BY <1>1, LifecycleAssumption, FS_Subset, FS_CardinalityType

(* A step that adds no ACTIVE tenant and commits no start keeps the bound. *)
LEMMA OvershootFrame ==
  ASSUME OvershootBounded, crashes' = 0 => crashes = 0,
         ActiveTenants' \subseteq ActiveTenants, Committed' \subseteq Committed
  PROVE  OvershootBounded'
<1>1. Cardinality(ActiveTenants') <= Cardinality(ActiveTenants)
  BY FiniteCounts, FS_Subset
<1>2. Cardinality(Committed') <= Cardinality(Committed)
  BY FiniteCounts, FS_Subset
<1>3. Cardinality(ActiveTenants') \in Nat /\ Cardinality(Committed') \in Nat
  BY FiniteCounts, FS_Subset, FS_CardinalityType
<1> QED BY <1>1, <1>2, <1>3, FiniteCounts, LifecycleAssumption DEF OvershootBounded

(* The check lets a start in only below the cap, when at most every        *)
(* request is committed.                                                   *)
LEMMA OvershootAtCheck ==
  ASSUME TypeOK, LifecycleTypeOK, OvershootInv, NEW r \in Requests, CheckCapacity(r)
  PROVE  OvershootBounded'
<1>1. ActiveTenants' = ActiveTenants /\ crashes' = crashes
  BY DEF CheckCapacity, ActiveTenants, tenantVars, serverVars
<1>2. CASE Cardinality(ActiveTenants) >= MaxActive
  <2>1. Committed' \subseteq Committed
    BY <1>2 DEF CheckCapacity, AtCapacity, GoTo, Committed, Holds, lockVars, LifecycleTypeOK
  <2> QED BY <1>1, <2>1, OvershootFrame DEF OvershootInv
<1>3. CASE ~(Cardinality(ActiveTenants) >= MaxActive)
  <2>1. Committed' \subseteq Requests
    BY DEF Committed
  <2>2. Cardinality(Committed') \in Nat /\ Cardinality(Committed') <= Cardinality(Requests)
    BY <2>1, LifecycleAssumption, FS_Subset, FS_CardinalityType
  <2> QED BY <1>1, <1>3, <2>2, FiniteCounts, LifecycleAssumption DEF OvershootBounded
<1> QED BY <1>2, <1>3

(* A start that marks its tenant ACTIVE stops being committed.             *)
LEMMA OvershootAtMarkActive ==
  ASSUME TypeOK, LifecycleTypeOK, OvershootInv, NEW r \in Requests, MarkActive(r)
  PROVE  OvershootBounded'
<1>1. lockOf[r] \in Tenants /\ r \in Committed
  BY DEF TypeOK, MarkActive, At, Committed
<1>2. ActiveTenants' = ActiveTenants \cup {lockOf[r]}
  BY <1>1 DEF MarkActive, SetStatus, ActiveTenants, LifecycleTypeOK
<1>3. Committed' = Committed \ {r}
  BY DEF MarkActive, At, GoTo, Committed, Holds, lockVars, LifecycleTypeOK
<1>4. /\ Cardinality(ActiveTenants') \in Nat
      /\ Cardinality(ActiveTenants') <= Cardinality(ActiveTenants) + 1
  <2>1. Cardinality(ActiveTenants \cup {lockOf[r]}) =
          IF lockOf[r] \in ActiveTenants THEN Cardinality(ActiveTenants)
          ELSE Cardinality(ActiveTenants) + 1
    BY FiniteCounts, FS_AddElement, Zenon
  <2> QED BY <1>2, <2>1, FiniteCounts
<1>5. /\ Cardinality(Committed') \in Nat
      /\ Cardinality(Committed') = Cardinality(Committed) - 1
  <2>1. Cardinality(Committed \ {r}) =
          IF r \in Committed THEN Cardinality(Committed) - 1 ELSE Cardinality(Committed)
    BY FiniteCounts, FS_RemoveElement, Zenon
  <2>2. IsFiniteSet(Committed \ {r})
    BY FiniteCounts, FS_RemoveElement, Zenon
  <2>3. Cardinality(Committed \ {r}) \in Nat
    BY <2>2, FS_CardinalityType
  <2> QED BY <1>1, <1>3, <2>1, <2>3
<1>6. crashes' = crashes
  BY DEF MarkActive, serverVars
<1> QED BY <1>4, <1>5, <1>6, FiniteCounts, LifecycleAssumption DEF OvershootInv, OvershootBounded

(* The two facts about where starts begin and where polls come from.       *)
LEMMA OvershootHelpers ==
  ASSUME TypeOK, LifecycleTypeOK, OvershootInv, [Next]_vars
  PROVE  /\ \A r \in Requests : ~Holds(r)' => startStep'[r] = "count"
         /\ crashes' = 0 => up' /\ \A t \in Tenants : resumed'[t] = "none"
<1> USE LockAssumption, LifecycleAssumption
<1>1. ASSUME NEW r \in Requests, NEW t \in Tenants, StartRequest(r, t)
      PROVE  UNCHANGED <<startStep, serverVars>> /\ \A q \in Requests : Holds(q) <=> Holds(q)'
  BY <1>1 DEF StartRequest, BeginAcquire, ReadNow, Holds, TypeOK
<1>2. ASSUME NEW r \in Requests, TakeLock(r)
      PROVE  UNCHANGED <<startStep, serverVars>> /\ \A q \in Requests : Holds(q) => Holds(q)'
  BY <1>2 DEF TakeLock, startVars, Acquire, Insert, SelectExisting, Reinsert, DeleteStale,
     InsertAfterDelete, InsertRow, Holds, TypeOK
<1>3. ASSUME NEW r \in Requests, StartSequence(r)
      PROVE  /\ UNCHANGED serverVars
             /\ \A q \in Requests : ~Holds(q)' => startStep'[q] = "count"
  <2>1. UNCHANGED serverVars
    BY <1>3 DEF StartSequence, CheckCapacity, Enqueue, MarkStarting, Launch, SeeHealthy,
       PollTimesOut, MarkActive, FinishStart
  <2>2. CASE Enqueue(r)
    BY <2>2 DEF Enqueue, ReturnWithoutRelease, GoTo, Holds, OvershootInv, TypeOK, LifecycleTypeOK
  <2>3. CASE FinishStart(r)
    BY <2>3 DEF FinishStart, Release, GoTo, Holds, OvershootInv, TypeOK, LifecycleTypeOK
  <2>4. CASE \/ CheckCapacity(r) \/ MarkStarting(r) \/ Launch(r)
             \/ SeeHealthy(r) \/ PollTimesOut(r) \/ MarkActive(r)
    <3>1. lockStep' = lockStep /\ Holds(r)
      BY <2>4 DEF CheckCapacity, MarkStarting, Launch, SeeHealthy, PollTimesOut, MarkActive, At,
         lockVars
    <3>2. \A q \in Requests \ {r} : startStep'[q] = startStep[q]
      BY <2>4 DEF CheckCapacity, MarkStarting, Launch, DockerRun, DockerStart, SeeHealthy,
         PollTimesOut, MarkActive, GoTo, LifecycleTypeOK
    <3>3. \A q \in Requests : Holds(q)' <=> Holds(q)
      BY <3>1 DEF Holds
    <3>4. \A q \in Requests : ~Holds(q) => startStep[q] = "count"
      BY DEF OvershootInv
    <3> QED BY <2>1, <3>1, <3>2, <3>3, <3>4
  <2> QED BY <1>3, <2>1, <2>2, <2>3, <2>4 DEF StartSequence
<1>4. ASSUME NEW j \in Jobs, NEW t \in Tenants,
             ProvisionRequest(j, t) \/ StopRequest(j, t) \/ DeleteRequest(j, t)
      PROVE  UNCHANGED <<lockStep, startStep, serverVars>>
  BY <1>4 DEF ProvisionRequest, StopRequest, DeleteRequest, Accept, lockVars, startVars
<1>5. ASSUME NEW j \in Jobs, JobStep(j)
      PROVE  UNCHANGED <<lockStep, startStep, serverVars>>
  BY <1>5 DEF JobStep, ProvisionStep, StopStep, DeleteStep, CreateTenant, PrepareDirectories,
     MarkProvisioned, StopContainer,
     MarkStopped, MarkDeleting, RemoveContainer, PurgeTenant, PurgeLock, SoftDelete, lockVars,
     startVars
<1>6. ASSUME NEW t \in Tenants, ContainerExits(t)
      PROVE  UNCHANGED <<lockStep, startStep, serverVars>>
  BY <1>6 DEF ContainerExits, lockVars, startVars
<1>7. ASSUME NEW t \in Tenants, ResumedPoll(t)
      PROVE  UNCHANGED <<lockStep, startStep, up, crashes>> /\ crashes # 0
  BY <1>7 DEF ResumedPoll, ResumedSeeHealthy, ResumedTimesOut, ResumedMarkActive, OvershootInv,
     lockVars, startVars
<1>8. CASE Crash
  <2>1. crashes' # 0
    BY <1>8 DEF Crash, LifecycleTypeOK
  <2> QED BY <1>8, <2>1 DEF Crash
<1>9. CASE Boot
  BY <1>9 DEF Boot, SweepExpired, OvershootInv, Holds, startVars
<1>10. CASE SchedulerSweep \/ HostDiskFull \/ Tick
  BY <1>10 DEF SchedulerSweep, SweepExpired, HostDiskFull, Tick, TimePasses, OvershootInv, Holds,
     lockVars, startVars, serverVars
<1>11. CASE UNCHANGED vars
  BY <1>11 DEF vars, lockVars, startVars, serverVars, OvershootInv, Holds
<1>12. ASSUME UNCHANGED <<startStep, serverVars>>, \A q \in Requests : Holds(q) => Holds(q)'
       PROVE  /\ \A r \in Requests : ~Holds(r)' => startStep'[r] = "count"
              /\ crashes' = 0 => up' /\ \A t \in Tenants : resumed'[t] = "none"
  BY <1>12 DEF OvershootInv, serverVars
<1>13. ASSUME UNCHANGED <<lockStep, startStep, serverVars>>
       PROVE  /\ \A r \in Requests : ~Holds(r)' => startStep'[r] = "count"
              /\ crashes' = 0 => up' /\ \A t \in Tenants : resumed'[t] = "none"
  BY <1>12, <1>13 DEF Holds
<1>14. ASSUME NEW j \in Jobs, JobStep(j) \/ \E t \in Tenants :
                ProvisionRequest(j, t) \/ StopRequest(j, t) \/ DeleteRequest(j, t)
       PROVE  UNCHANGED <<lockStep, startStep, serverVars>>
  BY <1>4, <1>5, <1>14
<1>15. ASSUME NEW t \in Tenants, ResumedPoll(t)
       PROVE  \A r \in Requests : ~Holds(r)' => startStep'[r] = "count"
  BY <1>7, <1>15 DEF OvershootInv, Holds
<1>16. CASE \E r \in Requests : (\E t \in Tenants : StartRequest(r, t)) \/ TakeLock(r)
  BY <1>1, <1>2, <1>12, <1>16
<1>17. CASE \E r \in Requests : StartSequence(r)
  BY <1>3, <1>17 DEF OvershootInv, serverVars
<1>18. CASE \E j \in Jobs : JobStep(j) \/ \E t \in Tenants :
              ProvisionRequest(j, t) \/ StopRequest(j, t) \/ DeleteRequest(j, t)
  BY <1>13, <1>14, <1>18
<1>19. CASE \E t \in Tenants : ResumedPoll(t) \/ ContainerExits(t)
  BY <1>6, <1>7, <1>13, <1>15, <1>19
<1> QED
  BY <1>8, <1>9, <1>10, <1>11, <1>16, <1>17, <1>18, <1>19 DEF Next

(* Every other step adds no ACTIVE tenant and commits no start: the first  *)
(* steps of a start happen before it has the lock, and jobs, the sweeps    *)
(* and the world write other statuses.                                     *)
LEMMA OvershootStep ==
  ASSUME TypeOK, LifecycleTypeOK, OvershootInv, [Next]_vars
  PROVE  OvershootBounded'
<1> USE LockAssumption, LifecycleAssumption
<1> DEFINE Quiet == ActiveTenants' \subseteq ActiveTenants /\ Committed' \subseteq Committed
<1>1. ASSUME NEW r \in Requests, (\E t \in Tenants : StartRequest(r, t)) \/ TakeLock(r)
      PROVE  Quiet
  <2>1. UNCHANGED <<tenantVars, startStep>>
    BY <1>1 DEF StartRequest, TakeLock, startVars
  <2>2. \A q \in Requests : Holds(q)' /\ ~Holds(q) => startStep'[q] = "count"
    BY <2>1 DEF OvershootInv
  <2> QED BY <2>1, <2>2 DEF ActiveTenants, Committed, tenantVars
<1>2. ASSUME NEW r \in Requests, StartSequence(r), ~CheckCapacity(r), ~MarkActive(r)
      PROVE  Quiet
  <2>1. \A q \in Requests : Holds(q)' => Holds(q)
    BY <1>2 DEF StartSequence, Enqueue, ReturnWithoutRelease, MarkStarting, Launch, SeeHealthy,
       PollTimesOut, FinishStart, Release, Holds, TypeOK, lockVars
  <2>2. \A q \in Requests \ {r} : startStep'[q] = startStep[q]
    BY <1>2 DEF StartSequence, Enqueue, MarkStarting, Launch, DockerRun, DockerStart, SeeHealthy,
       PollTimesOut, FinishStart, GoTo, LifecycleTypeOK
  <2>3. startStep'[r] \in {"markStarting", "launch", "poll", "markActive"} => r \in Committed
    BY <1>2 DEF StartSequence, Enqueue, MarkStarting, Launch, DockerRun, DockerStart, SeeHealthy,
       PollTimesOut, FinishStart, GoTo, At, LifecycleTypeOK, Committed
  <2>4. ActiveTenants' \subseteq ActiveTenants
    BY <1>2 DEF StartSequence, Enqueue, MarkStarting, Launch, SeeHealthy, PollTimesOut,
       FinishStart, SetStatus, ActiveTenants, LifecycleTypeOK, tenantVars
  <2> QED BY <2>1, <2>2, <2>3, <2>4 DEF Committed
<1>3. ASSUME NEW j \in Jobs, JobStep(j) \/ \E t \in Tenants :
               ProvisionRequest(j, t) \/ StopRequest(j, t) \/ DeleteRequest(j, t)
      PROVE  Quiet
  <2>1. UNCHANGED <<lockStep, startStep>>
    BY <1>3 DEF ProvisionRequest, StopRequest, DeleteRequest, Accept, JobStep, ProvisionStep,
       StopStep,
       DeleteStep, CreateTenant,
       PrepareDirectories, MarkProvisioned, StopContainer, MarkStopped, MarkDeleting,
       RemoveContainer, PurgeTenant, PurgeLock, SoftDelete, lockVars, startVars
  <2>2. ActiveTenants' \subseteq ActiveTenants
    BY <1>3 DEF ProvisionRequest, StopRequest, DeleteRequest, Accept, JobStep, ProvisionStep,
       StopStep,
       DeleteStep, CreateTenant,
       PrepareDirectories, MarkProvisioned, StopContainer, MarkStopped, MarkDeleting,
       RemoveContainer, PurgeTenant, SoftDelete, SetStatus, ActiveTenants, LifecycleTypeOK,
       tenantVars
  <2> QED BY <2>1, <2>2 DEF Committed, Holds
<1>4. ASSUME NEW t \in Tenants, ResumedPoll(t)
      PROVE  crashes' # 0
  BY <1>4 DEF ResumedPoll, ResumedSeeHealthy, ResumedTimesOut, ResumedMarkActive, OvershootInv
<1>5. ASSUME NEW t \in Tenants, ContainerExits(t)
      PROVE  Quiet
  BY <1>5 DEF ContainerExits, ActiveTenants, Committed, Holds, lockVars, startVars
<1>6. CASE Crash
  BY <1>6 DEF Crash, LifecycleTypeOK, OvershootBounded
<1>7. ASSUME Boot
      PROVE  Quiet
  <2>1. \A t \in Tenants : status'[t] = "ACTIVE" => status[t] = "ACTIVE"
    BY <1>7 DEF Boot, Reconciled
  <2>2. UNCHANGED <<lockStep, startStep>>
    BY <1>7 DEF Boot, SweepExpired, startVars
  <2> QED BY <2>1, <2>2 DEF ActiveTenants, Committed, Holds
<1>8. ASSUME SchedulerSweep \/ HostDiskFull \/ Tick \/ UNCHANGED vars
      PROVE  Quiet
  BY <1>8 DEF SchedulerSweep, SweepExpired, HostDiskFull, Tick, TimePasses, ActiveTenants,
     Committed, Holds, vars, lockVars, tenantVars, startVars
<1>9. crashes' = 0 => crashes = 0
  <2>1. ASSUME ~Crash
        PROVE  crashes' = crashes
    BY <2>1 DEF Next, StartRequest, TakeLock, StartSequence, CheckCapacity, Enqueue, MarkStarting,
       Launch, SeeHealthy, PollTimesOut, MarkActive, FinishStart, ProvisionRequest, StopRequest,
       DeleteRequest, Accept, JobStep, ProvisionStep, StopStep,
       DeleteStep, CreateTenant, PrepareDirectories, MarkProvisioned,
       StopContainer, MarkStopped, MarkDeleting, RemoveContainer, PurgeTenant, SoftDelete,
       ResumedPoll, ResumedSeeHealthy, ResumedTimesOut, ResumedMarkActive, ContainerExits, Boot,
       SchedulerSweep, HostDiskFull, Tick, serverVars, vars
  <2>2. Crash => crashes' # 0
    BY DEF Crash, LifecycleTypeOK
  <2> QED BY <2>1, <2>2
<1>10. Quiet => OvershootBounded'
  BY <1>9, OvershootFrame DEF OvershootInv
<1>11. ASSUME NEW r \in Requests, StartSequence(r)
       PROVE  OvershootBounded'
  BY <1>2, <1>10, <1>11, OvershootAtCheck, OvershootAtMarkActive
<1>12. ASSUME NEW t \in Tenants, ResumedPoll(t)
       PROVE  OvershootBounded'
  BY <1>4, <1>12 DEF OvershootBounded
<1> QED
  BY <1>1, <1>3, <1>5, <1>6, <1>7, <1>8, <1>10, <1>11, <1>12 DEF Next

LEMMA OvershootInit == Init => OvershootInv
<1> SUFFICES ASSUME Init
             PROVE  OvershootInv
  OBVIOUS
<1>1. ActiveTenants = {} /\ Committed = {}
  BY DEF Init, LockInit, ActiveTenants, Committed, Holds
<1>2. Cardinality(ActiveTenants) = 0 /\ Cardinality(Committed) = 0
  BY <1>1, FS_EmptySet
<1> QED BY <1>2, FiniteCounts, LifecycleAssumption DEF Init, OvershootInv, OvershootBounded

(* Whatever the numbers of tenants and of requests, a control plane that   *)
(* has not crashed has fewer than MaxActive + Cardinality(Requests) ACTIVE *)
(* tenants: concurrent starts overshoot the cap, but by a bounded amount.  *)
THEOREM OvershootAlwaysBounded == Spec => []OvershootBounded
<1>1. TypeOK /\ LifecycleTypeOK /\ OvershootInv /\ [Next]_vars => OvershootInv'
  BY OvershootStep, OvershootHelpers DEF OvershootInv, Holds
<1>2. OvershootInv => OvershootBounded
  BY DEF OvershootInv
<1> QED BY <1>1, <1>2, OvershootInit, LifecycleTypeCorrect, PTL DEF Spec
=============================================================================
