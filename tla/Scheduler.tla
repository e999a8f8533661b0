----------------------------- MODULE Scheduler -----------------------------
(***************************************************************************)
(* The jobs of the scheduler that act on tenants: stopIdleTenants, which   *)
(* stops ACTIVE tenants whose last_activity_at is old, and                 *)
(* retryQueuedTenants, which starts the tenant that has waited longest for *)
(* a place under the capacity cap; and checkHostDisk, which the same runs  *)
(* call.  setInterval starts a run of the jobs every minute whether or not *)
(* the last one has ended.                                                 *)
(*                                                                         *)
(* The scheduler reads the tenants table and then calls POST /start and    *)
(* POST /stop, as users and operators do.  A stop is one step here, and a  *)
(* start two, with its poll: TenantLifecycle has their insides.            *)
(***************************************************************************)
EXTENDS Integers, FiniteSets, Sequences

CONSTANTS
  Tenants,
  Runs,         \* runs of runJobs that may overlap
  MaxActive,    \* MAX_ACTIVE_TENANTS
  IdleStop,     \* IDLE_STOP_HOURS, in ticks
  Ghosts,       \* deleted tenants that a late poll has left ACTIVE
  MaxQueued,    \* bound on the tenants that wait at the start
  MaxRequests,  \* bound on messages of users and on starts and stops by operators
  MaxFaults     \* bound on calls and runs that fail and restarts of the control plane

ASSUME SchedulerAssumption ==
  /\ IsFiniteSet(Tenants)
  /\ MaxActive \in Nat \ {0}
  /\ IdleStop \in Nat
  /\ Ghosts \in Nat
  /\ MaxQueued \in Nat
  /\ MaxRequests \in Nat
  /\ MaxFaults \in Nat

VARIABLES
  status,      \* tenants.status
  idleFor,     \* time since last_activity_at, or Never when it is null
  queue,       \* the tenants with queued_for_start_at, the earliest first
  locked,      \* the startup lock: "free", "held" by a start and its poll, or "left"
               \* behind by the start that was queued
  talk,        \* the message of a tenant: none, waiting for ACTIVE, or with the agent
  asked,       \* a user or operator has asked for a start since it was last ACTIVE (history)
  due,         \* the interval timer has fired and its run has not begun
  runStep,     \* what a run does next
  listed,      \* listed[k]: the rows of tenants run k has read and not yet acted on
  raced,       \* tenants stopped while they were the candidate of a run, or by a
               \* restart, since they were last ACTIVE (history)
  requests,    \* messages, starts and stops so far
  faults       \* faults so far

tenantVars == <<status, idleFor, queue, locked>>
userVars == <<talk, asked, requests>>
runVars == <<runStep, listed>>
vars == <<tenantVars, userVars, runVars, raced, due, faults>>

Never == -1
Old == IdleStop + 1
Queued(t) == \E i \in 1 .. Len(queue) : queue[i] = t
Place(t) == CHOOSE i \in 1 .. Len(queue) : queue[i] = t

Statuses == {"NEW", "STARTING", "ACTIVE", "UNHEALTHY", "STOPPED"}

TypeOK ==
  /\ status \in [Tenants -> Statuses]
  /\ idleFor \in [Tenants -> Never .. Old]
  /\ queue \in Seq(Tenants) /\ \A i, j \in 1 .. Len(queue) : i # j => queue[i] # queue[j]
  /\ locked \in [Tenants -> {"free", "held", "left"}]
  /\ talk \in [Tenants -> {"none", "waiting", "running"}]
  /\ asked \in [Tenants -> BOOLEAN]
  /\ due \in BOOLEAN
  /\ runStep \in [Runs -> {"idle", "stop", "count", "start", "host"}]
  /\ listed \in [Runs -> SUBSET Tenants]
  /\ raced \subseteq Tenants
  /\ requests \in 0 .. MaxRequests
  /\ faults \in 0 .. MaxFaults

(* The orders in which tenants of S may wait.                              *)
Orders(S) ==
  {q \in UNION {[1 .. n -> S] : n \in 0 .. MaxQueued} :
     \A i, j \in DOMAIN q : q[i] = q[j] => i = j}

(* Some were asked for before the scheduler began, and had to wait.        *)
Init ==
  /\ status \in [Tenants -> {"NEW", "ACTIVE", "STOPPED"}]
  /\ Cardinality({t \in Tenants : status[t] = "ACTIVE"}) <= MaxActive
  /\ idleFor = [t \in Tenants |->
       CASE status[t] = "NEW" -> Never [] status[t] = "ACTIVE" -> 0 [] status[t] = "STOPPED" -> Old]
  /\ queue \in Orders({t \in Tenants : status[t] = "STOPPED"})
  /\ locked = [t \in Tenants |-> "free"]
  /\ talk = [t \in Tenants |-> "none"]
  /\ asked = [t \in Tenants |-> Queued(t)]
  /\ due = TRUE
  /\ runStep = [k \in Runs |-> "idle"]
  /\ listed = [k \in Runs |-> {}]
  /\ raced = {}
  /\ requests = 0
  /\ faults = 0

-----------------------------------------------------------------------------
(* POST /start and POST /stop                                              *)

Active == {t \in Tenants : status[t] = "ACTIVE"}

(* Mutant: an entry that is set again is there twice.                      *)
WithoutNothing(t) == queue
Without(t) ==
  IF Queued(t)
    THEN [i \in 1 .. Len(queue) - 1 |-> IF i < Place(t) THEN queue[i] ELSE queue[i + 1]]
    ELSE queue

(* An ACTIVE tenant, and one whose lock is not free, is left alone; at the *)
(* cap, where a deleted tenant counts too, it gets a new                   *)
(* queued_for_start_at.                                                    *)
CallStart(t) ==
  \/ /\ status[t] = "ACTIVE" \/ locked[t] # "free"
     /\ UNCHANGED tenantVars
  \/ /\ status[t] # "ACTIVE" /\ locked[t] = "free"
     /\ \/ /\ Cardinality(Active) + Ghosts >= MaxActive
           /\ queue' = Append(Without(t), t)
           /\ locked' = [locked EXCEPT ![t] = "left"]
           /\ UNCHANGED <<status, idleFor>>
        \/ /\ Cardinality(Active) + Ghosts < MaxActive
           /\ status' = [status EXCEPT ![t] = "STARTING"]
           /\ locked' = [locked EXCEPT ![t] = "held"]
           /\ UNCHANGED <<idleFor, queue>>

(* The run k has t as its one candidate for a start.                       *)
Candidate(k, t) == runStep[k] \in {"count", "start"} /\ t \in listed[k]

(* What a stop does with the container: the agent's work is gone.          *)
StopContainer(t) ==
  /\ status' = [status EXCEPT ![t] = "STOPPED"]
  /\ talk' = [talk EXCEPT ![t] = IF @ = "running" THEN "none" ELSE @]

(* Mutants: the stop keeps the wish to be started, or clears the others'.  *)
CallStopKeepingQueue(t) ==
  StopContainer(t) /\ UNCHANGED <<idleFor, queue, locked, raced>>


(* The queue entry goes too, unless the tenant is STOPPED already.         *)
CallStop(t) ==
  \/ status[t] = "STOPPED" /\ UNCHANGED <<tenantVars, talk, raced>>
  \/ /\ status[t] # "STOPPED"
     /\ StopContainer(t)
     /\ queue' = Without(t)
     /\ raced' = IF \E k \in Runs : Candidate(k, t) THEN raced \cup {t} ELSE raced
     /\ UNCHANGED <<idleFor, locked>>

Fault == faults < MaxFaults /\ faults' = faults + 1

(* The poll of a start writes ACTIVE over whatever the status is by then.  *)
BecomeActive(t) ==
  /\ locked[t] = "held"
  /\ status' = [status EXCEPT ![t] = "ACTIVE"]
  /\ locked' = [locked EXCEPT ![t] = "free"]
  /\ asked' = [asked EXCEPT ![t] = FALSE]
  /\ raced' = raced \ {t}
  /\ UNCHANGED <<idleFor, queue, talk, requests, runVars, due, faults>>

(* The container does not become healthy, or was stopped.                  *)
PollGivesUp(t) ==
  /\ locked[t] = "held"
  /\ (status[t] # "STARTING" /\ UNCHANGED faults) \/ Fault
  /\ locked' = [locked EXCEPT ![t] = "free"]
  /\ UNCHANGED <<status, idleFor, queue, userVars, runVars, raced, due>>

(* The sweep of expired locks.                                             *)
LockExpires(t) ==
  /\ locked[t] = "left"
  /\ locked' = [locked EXCEPT ![t] = "free"]
  /\ UNCHANGED <<status, idleFor, queue, userVars, runVars, raced, due, faults>>

(* The control plane restarts and finds the container of t stopped, or     *)
(* gone: the queue entry stays as it was.                                  *)
RestartFindsStopped(t) ==
  /\ Fault
  /\ status[t] = "ACTIVE"
  /\ \E s \in {"STOPPED", "NEW"} : status' = [status EXCEPT ![t] = s]
  /\ talk' = [talk EXCEPT ![t] = IF @ = "running" THEN "none" ELSE @]
  /\ raced' = raced \cup {t}
  /\ UNCHANGED <<idleFor, queue, locked, asked, requests, runVars, due>>

-----------------------------------------------------------------------------
(* Users and operators                                                     *)

Request == requests < MaxRequests /\ requests' = requests + 1

OperatorStarts(t) ==
  /\ Request /\ CallStart(t)
  /\ asked' = [asked EXCEPT ![t] = @ \/ status[t] # "ACTIVE"]
  /\ UNCHANGED <<talk, runVars, raced, due, faults>>

OperatorStops(t) ==
  /\ Request /\ CallStop(t)
  /\ UNCHANGED <<asked, runVars, due, faults>>

(* A message for an ACTIVE tenant goes to the agent; for another one the   *)
(* relay calls POST /start, unless it is STARTING already, and waits.      *)
SendMessage(t) ==
  /\ Request
  /\ talk[t] = "none"
  /\ \/ /\ status[t] = "ACTIVE"
        /\ talk' = [talk EXCEPT ![t] = "running"] /\ UNCHANGED <<tenantVars, asked>>
     \/ /\ status[t] # "ACTIVE"
        /\ talk' = [talk EXCEPT ![t] = "waiting"]
        /\ asked' = [asked EXCEPT ![t] = TRUE]
        /\ IF status[t] = "STARTING" THEN UNCHANGED tenantVars ELSE CallStart(t)
  /\ UNCHANGED <<runVars, raced, due, faults>>

(* The relay sees ACTIVE, or gives up after three minutes.                 *)
EndWait(t) ==
  /\ talk[t] = "waiting"
  /\ \/ status[t] = "ACTIVE" /\ talk' = [talk EXCEPT ![t] = "running"]
     \/ talk' = [talk EXCEPT ![t] = "none"]
  /\ UNCHANGED <<tenantVars, asked, requests, runVars, raced, due, faults>>

(* last_activity_at is written after the answer, and only then.            *)
EndRun(t) ==
  /\ talk[t] = "running"
  /\ talk' = [talk EXCEPT ![t] = "none"]
  /\ \/ idleFor' = [idleFor EXCEPT ![t] = 0]
     \/ UNCHANGED idleFor
  /\ UNCHANGED <<status, queue, locked, asked, requests, runVars, raced, due, faults>>

-----------------------------------------------------------------------------
(* runJobs                                                                 *)

At(k, s) == runStep[k] = s
GoTo(k, s) == runStep' = [runStep EXCEPT ![k] = s]
Read(k, rows) == listed' = [listed EXCEPT ![k] = rows]

(* Mutant: the threshold is on the wrong side.                             *)
IdleIsRecent(t) == status[t] = "ACTIVE" /\ idleFor[t] \in 0 .. IdleStop

(* A null last_activity_at is less than nothing.                           *)
Idle(t) == status[t] = "ACTIVE" /\ idleFor[t] > IdleStop

ListIdle(k) ==
  /\ due
  /\ At(k, "idle")
  /\ due' = FALSE
  /\ Read(k, {t \in Tenants : Idle(t)})
  /\ GoTo(k, "stop")
  /\ UNCHANGED <<tenantVars, userVars, raced, faults>>

(* One call after the other, each logged when it fails.                    *)
StopNext(k) ==
  /\ At(k, "stop")
  /\ \E t \in listed[k] :
       /\ Read(k, listed[k] \ {t})
       /\ \/ CallStop(t) /\ UNCHANGED faults
          \/ Fault /\ UNCHANGED <<tenantVars, talk, raced>>
  /\ UNCHANGED <<asked, requests, runStep, due>>

(* The rows the query of retryQueuedTenants matches, and their order.      *)
Queue == {t \in Tenants : status[t] = "STOPPED" /\ Queued(t)}

Earliest(t) == t \in Queue /\ \A u \in Queue : Place(t) <= Place(u)

(* findMany with take: 1, after the stops of this run.                     *)
ReadQueue(k) ==
  /\ At(k, "stop")
  /\ listed[k] = {}
  /\ \/ \E t \in Tenants : Earliest(t) /\ Read(k, {t}) /\ GoTo(k, "count")
     \/ Queue = {} /\ GoTo(k, "host") /\ UNCHANGED listed
  /\ UNCHANGED <<tenantVars, userVars, raced, due, faults>>

(* getActiveCount leaves deleted tenants out.                              *)
CountActive(k) ==
  /\ At(k, "count")
  /\ \/ Cardinality(Active) < MaxActive /\ GoTo(k, "start") /\ UNCHANGED listed
     \/ Cardinality(Active) >= MaxActive /\ GoTo(k, "host") /\ Read(k, {})
  /\ UNCHANGED <<tenantVars, userVars, raced, due, faults>>

StartCandidate(k) ==
  /\ At(k, "start")
  /\ \/ (\E t \in listed[k] : CallStart(t)) /\ UNCHANGED faults
     \/ Fault /\ UNCHANGED tenantVars
  /\ Read(k, {})
  /\ GoTo(k, "host")
  /\ UNCHANGED <<userVars, raced, due>>

(* checkHostDisk, on the ticks that check the disk: every ACTIVE tenant    *)
(* becomes UNHEALTHY when the host's is over 95 percent.                   *)
CheckHost(k) ==
  /\ At(k, "host")
  /\ status' \in {status, [t \in Tenants |-> IF status[t] = "ACTIVE" THEN "UNHEALTHY" ELSE status[t]]}
  /\ GoTo(k, "idle")
  /\ UNCHANGED <<idleFor, queue, locked, userVars, listed, raced, due, faults>>

(* A query throws, and nobody but the caller of runJobs catches it: the    *)
(* rest of the run is left out.                                            *)
RunFails(k) ==
  /\ Fault
  /\ \/ At(k, "idle") /\ due /\ due' = FALSE
     \/ /\ At(k, "count") \/ At(k, "host") \/ (At(k, "stop") /\ listed[k] = {})
        /\ UNCHANGED due
  /\ Read(k, {}) /\ GoTo(k, "idle")
  /\ UNCHANGED <<tenantVars, userVars, raced>>

Run(k) ==
  \/ ListIdle(k) \/ StopNext(k) \/ ReadQueue(k) \/ CountActive(k) \/ StartCandidate(k)
  \/ CheckHost(k)

-----------------------------------------------------------------------------
(* The timer fires, which also moves the 48 hours on.  The calls that stop *)
(* containers and the disk check may span ticks, the two queries and the   *)
(* one call of retryQueuedTenants do not.                                  *)
Older(age) == IF age \in 0 .. IdleStop THEN age + 1 ELSE age
Tick ==
  /\ \A k \in Runs : runStep[k] \in {"idle", "stop", "host"}
  /\ idleFor' = [t \in Tenants |-> Older(idleFor[t])]
  /\ due' = TRUE
  /\ UNCHANGED <<status, queue, locked, userVars, runVars, raced, faults>>

Next ==
  \/ \E t \in Tenants :
       \/ SendMessage(t) \/ EndWait(t) \/ EndRun(t) \/ OperatorStarts(t) \/ OperatorStops(t)
       \/ BecomeActive(t) \/ PollGivesUp(t) \/ LockExpires(t) \/ RestartFindsStopped(t)
  \/ \E k \in Runs : Run(k) \/ RunFails(k)
  \/ Tick

Spec == Init /\ [][Next]_vars

(* The timer goes on, runs of the jobs proceed, polls end and locks expire; *)
(* nobody has to send a message, to answer one, to start or to stop.       *)
FairSpec ==
  /\ Spec
  /\ \A k \in Runs : WF_vars(Run(k))
  /\ \A t \in Tenants : WF_vars(BecomeActive(t) \/ LockExpires(t))
  /\ WF_vars(Tick)

-----------------------------------------------------------------------------
(* Nobody who is STOPPED waits in the queue, or is the candidate of a run, *)
(* for a start nobody has asked for since the tenant was last ACTIVE: a    *)
(* stop clears the wish, whoever calls it.  The exceptions are a tenant    *)
(* that a restart of the control plane found stopped, whose old entry      *)
(* stays, and one that was started, became ACTIVE and was stopped between  *)
(* the reading of its row by a run and the call of /start by that run.     *)
QueuedWasAsked ==
  \A t \in Tenants :
    status[t] = "STOPPED" /\ (Queued(t) \/ \E k \in Runs : Candidate(k, t)) =>
      asked[t] \/ t \in raced

(* A tenant that has answered once and is not written to any more does not *)
(* stay ACTIVE, whatever the runs overlap with and whichever of them or of *)
(* their calls fail.  It need not be stopped: one that checkHostDisk made  *)
(* UNHEALTHY is not among those that stopIdleTenants reads.                *)
IdleTenantsLeaveActive ==
  \A t \in Tenants : status[t] = "ACTIVE" /\ idleFor[t] # Never ~> status[t] # "ACTIVE"

(* When users fall silent a STOPPED tenant in the queue is started, though *)
(* a start that finds the cap reached again sends it to the back of the    *)
(* queue.  ACTIVE tenants that never answered are in the way for ever:     *)
(* they are never idle; so are as many deleted ones as there are places.   *)
(* A NEW tenant in the queue is never retried.                             *)
PlacesComeFree == <>[](\A t \in Tenants : status[t] = "ACTIVE" => idleFor[t] # Never)

(* SPEC.md section 8.3: a tenant is stopped "If no incoming messages for   *)
(* 48 hours".  A message that waits for its tenant, or is with the agent,  *)
(* came minutes ago: its tenant is not idle.                               *)
StoppedWasIdle ==
  [][\A k \in Runs, t \in Tenants :
       StopNext(k) /\ status[t] = "ACTIVE" /\ status'[t] = "STOPPED" => talk[t] = "none"]_vars
=============================================================================
