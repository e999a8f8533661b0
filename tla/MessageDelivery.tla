-------------------------- MODULE MessageDelivery --------------------------
(***************************************************************************)
(* The way of a Slack message: the relay's events endpoint with its dedup  *)
(* map, the handler it fires and forgets (provision, wait until ACTIVE,    *)
(* enqueue, forward, reply), POST /v1/tenants/:id/message in the control   *)
(* plane, and the agent run in the tenant's container.  The messages are   *)
(* those of one tenant: handlers of different tenants share nothing.       *)
(*                                                                         *)
(* deployed = FALSE is buildSlackRelayApp with a prisma client, which the  *)
(* tests run; deployed = TRUE is the relay that index.ts starts, without   *)
(* dedup, retry filter and message_queue.                                  *)
(***************************************************************************)
EXTENDS Integers, FiniteSets

CONSTANTS
  Events,        \* event_ids of one tenant
  Slots,         \* places for a relay handler and the call it makes
  MaxSends,      \* bound on the copies Slack sends of an event
  DedupTTL,      \* EVENT_ID_TTL_MS, in ticks
  HandlerLimit,  \* bound on the life of a handler and its call: 3 min + 4 min + requests
  MaxCrashes     \* bound on the crashes of the relay and of the control plane together

ASSUME DeliveryAssumption ==
  /\ IsFiniteSet(Slots) /\ MaxSends \in Nat
  /\ DedupTTL \in Nat
  /\ HandlerLimit \in Nat
  /\ MaxCrashes \in Nat

VARIABLES
  sent,       \* sent[e]: copies Slack has sent
  taken,      \* events a handler was started for (history)
  seen,       \* seen[e]: age of e in processedEventIds, or NotSeen
  relayUp,    \* the relay listens
  step,       \* step[h]: what handler h does next
  eventOf,    \* eventOf[h]: its event
  age,        \* age[h]: ticks since slot h was taken
  hasRow,     \* hasRow[h]: messageQueueId is set and its row is still there
  call,       \* call[h]: what POST /message for h does next, or how it ended
  attemptsRead, \* attemptsRead[h]: queueRow.attempts as the call read it, or NoRow: it went since
  cpUp,       \* the control plane listens
  active,     \* the tenant is ACTIVE
  row,        \* row[e]: message_queue.status of e, or "none"
  attempts,   \* attempts[e]: message_queue.attempts
  queueFailed, \* some statement on message_queue has failed (history)
  purged,     \* events whose row went with the tenant (history)
  reaped,     \* events whose DELIVERED row the reaper deleted (history)
  given,      \* events the agent was given (history)
  failures,   \* failures[e]: calls for e whose forward failed (history)
  answered,   \* events the agent answered with 200 (history)
  replied,    \* events whose answer was posted to Slack (history)
  promised,   \* events the user was told "I'll follow up when complete." about (history)
  crashes,    \* crashes so far
  deployed    \* which of the two relays runs: settled at the start

slackVars == <<sent, taken>>
relayVars == <<seen, relayUp, step, eventOf, age, hasRow>>
callVars == <<call, attemptsRead>>
removalVars == <<purged, reaped>>
queueVars == <<row, attempts, queueFailed, removalVars>>
agentVars == <<given, failures, answered>>
userVars == <<replied, promised>>
worldVars == <<cpUp, active, crashes, deployed>>
vars == <<slackVars, relayVars, callVars, queueVars, agentVars, userVars, worldVars>>

NotSeen == -1
NoRow == -1
RelaySteps == {"idle", "provision", "poll", "welcome", "enqueue", "mark", "send", "wait",
               "markDelivered", "reply"}
CallSteps == {"none", "check", "forward", "record", "readRow", "bump", "ok", "error", "reset"}

Running(h) == call[h] \in {"check", "forward", "record", "readRow", "bump"}
Busy(h) == step[h] # "idle" \/ Running(h)

TypeOK ==
  /\ sent \in [Events -> 0 .. MaxSends]
  /\ taken \subseteq Events
  /\ seen \in [Events -> NotSeen .. DedupTTL + 1]
  /\ relayUp \in BOOLEAN /\ cpUp \in BOOLEAN /\ active \in BOOLEAN
  /\ step \in [Slots -> RelaySteps]
  /\ eventOf \in [Slots -> Events]
  /\ age \in [Slots -> 0 .. HandlerLimit]
  /\ hasRow \in [Slots -> BOOLEAN]
  /\ call \in [Slots -> CallSteps]
  /\ attemptsRead \in [Slots -> Nat \cup {NoRow}]
  /\ row \in [Events -> {"none", "PENDING", "PROCESSING", "DELIVERED"}]
  /\ attempts \in [Events -> Nat]
  /\ queueFailed \in BOOLEAN
  /\ purged \subseteq Events /\ reaped \subseteq Events
  /\ failures \in [Events -> Nat]
  /\ given \subseteq Events /\ answered \subseteq Events
  /\ replied \subseteq Events /\ promised \subseteq Events
  /\ crashes \in 0 .. MaxCrashes
  /\ deployed \in BOOLEAN

Init ==
  /\ sent = [e \in Events |-> 0] /\ taken = {}
  /\ seen = [e \in Events |-> NotSeen]
  /\ relayUp = TRUE
  /\ step = [h \in Slots |-> "idle"]
  /\ eventOf \in [Slots -> Events]
  /\ age = [h \in Slots |-> 0]
  /\ hasRow = [h \in Slots |-> FALSE]
  /\ call = [h \in Slots |-> "none"]
  /\ attemptsRead = [h \in Slots |-> 0]
  /\ cpUp = TRUE /\ active \in BOOLEAN
  /\ row = [e \in Events |-> "none"]
  /\ attempts = [e \in Events |-> 0]
  /\ queueFailed = FALSE
  /\ purged = {} /\ reaped = {}
  /\ given = {}
  /\ failures = [e \in Events |-> 0]
  /\ answered = {} /\ replied = {} /\ promised = {}
  /\ crashes = 0
  /\ deployed \in BOOLEAN

-----------------------------------------------------------------------------
(* POST /slack/events                                                      *)

Send(e) == sent[e] < MaxSends /\ sent' = [sent EXCEPT ![e] = @ + 1]

Unheard == UNCHANGED <<callVars, queueVars, agentVars, userVars, worldVars>>

(* Nobody listens, the copy gets lost on its way, or the relay refuses its *)
(* signature: Slack will retry.                                            *)
LoseCopy(e) ==
  /\ Send(e)
  /\ UNCHANGED <<taken, relayVars>> /\ Unheard

(* Anything with x-slack-retry-num is answered and dropped, also when the  *)
(* first copy did not arrive and no handler has seen the event.            *)
IgnoreRetry(e) ==
  /\ relayUp /\ ~deployed
  /\ sent[e] > 0
  /\ Send(e)
  /\ UNCHANGED <<taken, relayVars>> /\ Unheard

Duplicate(e) == seen[e] # NotSeen

IgnoreDuplicate(e) ==
  /\ relayUp /\ ~deployed
  /\ Duplicate(e)
  /\ Send(e)
  /\ UNCHANGED <<taken, relayVars>> /\ Unheard

(* Mark as seen, answer 200 and start a handler.                           *)
AcceptEvent(h, e) ==
  /\ relayUp
  /\ ~Busy(h)
  /\ deployed \/ ~Duplicate(e)
  /\ Send(e)
  /\ taken' = taken \cup {e}
  /\ seen' = IF deployed THEN seen ELSE [seen EXCEPT ![e] = 0]
  /\ step' = [step EXCEPT ![h] = "provision"]
  /\ eventOf' = [eventOf EXCEPT ![h] = e]
  /\ age' = [age EXCEPT ![h] = 0]
  /\ hasRow' = [hasRow EXCEPT ![h] = FALSE]
  /\ call' = [call EXCEPT ![h] = "none"]
  /\ UNCHANGED <<relayUp, attemptsRead, queueVars, agentVars, userVars, worldVars>>

(* The timer that forgets old event ids (mutant: at any age).              *)
OldAnyAge(e) == seen[e] # NotSeen
Old(e) == seen[e] > DedupTTL

Evict ==
  /\ seen' = [e \in Events |-> IF Old(e) THEN NotSeen ELSE seen[e]]
  /\ UNCHANGED <<slackVars, relayUp, step, eventOf, age, hasRow>> /\ Unheard

-----------------------------------------------------------------------------
(* processSlackEvent(WithConfig): one step per await                       *)

At(h, s) == step[h] = s
GoTo(h, s) ==
  /\ step' = [step EXCEPT ![h] = s]
  /\ hasRow' = [hasRow EXCEPT ![h] = @ /\ s # "idle"]
RelayStep == UNCHANGED <<slackVars, seen, relayUp, eventOf, age, worldVars>>

(* Provision says ACTIVE, or something else and the tenant is woken, best  *)
(* effort; refused (allowlist) or unreachable, the handler ends here.      *)
Provision(h) ==
  /\ At(h, "provision")
  /\ \/ cpUp /\ active /\ GoTo(h, "enqueue")
     \/ cpUp /\ ~active /\ GoTo(h, "poll")
     \/ GoTo(h, "idle")
  /\ RelayStep /\ UNCHANGED <<callVars, queueVars, agentVars, userVars>>

(* Every 2 s the status is asked for; a connection error ends the handler, *)
(* and so does the deadline, with "please wait a moment and try again".    *)
SeeActive(h) ==
  /\ At(h, "poll")
  /\ cpUp /\ active
  /\ GoTo(h, "welcome")
  /\ RelayStep /\ UNCHANGED <<callVars, queueVars, agentVars, userVars>>

(* Mutant: the wait has no deadline.                                       *)
GiveUpNever(h) == FALSE

GiveUp(h) ==
  /\ At(h, "poll")
  /\ GoTo(h, "idle")
  /\ RelayStep /\ UNCHANGED <<callVars, queueVars, agentVars, userVars>>

(* The welcome message (app-factory only), whose connection error is not   *)
(* caught.                                                                 *)
Welcome(h) ==
  /\ At(h, "welcome")
  /\ \/ GoTo(h, "enqueue")
     \/ ~deployed /\ GoTo(h, "idle")
  /\ RelayStep /\ UNCHANGED <<callVars, queueVars, agentVars, userVars>>

(* A statement on message_queue throws.                                    *)
QueueFails == ~deployed /\ queueFailed' = TRUE /\ UNCHANGED <<row, attempts, removalVars>>
WriteRow(e, s) == row' = [row EXCEPT ![e] = s] /\ UNCHANGED <<attempts, queueFailed, removalVars>>

(* On with the row of the event, if it has one now.                        *)
GoToMark(h) ==
  /\ step' = [step EXCEPT ![h] = "mark"]
  /\ hasRow' = [hasRow EXCEPT ![h] = row'[eventOf[h]] # "none"]

(* Insert the row; a row that exists is used as it is.  A failed insert is *)
(* logged and the message goes on without a row, unless the lookup of an   *)
(* existing row throws too.                                                *)
Enqueue(h) ==
  LET e == eventOf[h] IN
  /\ At(h, "enqueue")
  /\ \/ /\ WriteRow(e, IF ~deployed /\ row[e] = "none" THEN "PENDING" ELSE row[e])
        /\ GoToMark(h)
     \/ /\ QueueFails
        /\ GoToMark(h) \/ GoTo(h, "idle")
  /\ RelayStep /\ UNCHANGED <<callVars, agentVars, userVars>>

(* Best effort: the row, if there still is one, whatever it was.           *)
Mark(h, s) ==
  \/ WriteRow(eventOf[h], IF hasRow[h] THEN s ELSE row[eventOf[h]])
  \/ hasRow[h] /\ QueueFails

MarkProcessing(h) ==
  /\ At(h, "mark")
  /\ Mark(h, "PROCESSING")
  /\ GoTo(h, "send")
  /\ RelayStep /\ UNCHANGED <<callVars, agentVars, userVars>>

Forward(h) ==
  /\ At(h, "send")
  /\ call' = [call EXCEPT ![h] = IF cpUp THEN "check" ELSE "reset"]
  /\ GoTo(h, "wait")
  /\ RelayStep /\ UNCHANGED <<attemptsRead, queueVars, agentVars, userVars>>

(* Mutant: any HTTP answer is a delivery.                                  *)
AnsweredAny(h) ==
  /\ At(h, "wait")
  /\ call[h] \in {"ok", "error"} /\ GoTo(h, "markDelivered")
  /\ RelayStep /\ UNCHANGED <<callVars, queueVars, agentVars, userVars>>

(* 200: DELIVERED next.  Any other status: "please try again" (the deployed *)
(* relay says nothing).                                                    *)
Answered(h) ==
  /\ At(h, "wait")
  /\ \/ call[h] = "ok" /\ GoTo(h, "markDelivered")
     \/ call[h] = "error" /\ GoTo(h, "idle")
  /\ RelayStep /\ UNCHANGED <<callVars, queueVars, agentVars, userVars>>

(* The 4-minute timer, a connection error, or a 200 whose body cannot be   *)
(* read: "I'll follow up".  The call itself is not aborted.                *)
GiveUpWaiting(h) ==
  /\ At(h, "wait")
  /\ Running(h) \/ call[h] \in {"reset", "ok"}
  /\ promised' = promised \cup {eventOf[h]}
  /\ GoTo(h, "idle")
  /\ RelayStep /\ UNCHANGED <<callVars, queueVars, agentVars, replied>>

MarkDelivered(h) ==
  /\ At(h, "markDelivered")
  /\ Mark(h, "DELIVERED")
  /\ GoTo(h, "reply")
  /\ RelayStep /\ UNCHANGED <<callVars, agentVars, userVars>>

(* Post the answer, when it is not empty; when Slack cannot be reached the *)
(* catch block promises.                                                   *)
Reply(h) ==
  LET e == eventOf[h] IN
  /\ At(h, "reply")
  /\ \/ replied' = replied \cup {e} /\ UNCHANGED promised
     \/ promised' = promised \cup {e} /\ UNCHANGED replied
     \/ UNCHANGED <<replied, promised>>
  /\ GoTo(h, "idle")
  /\ RelayStep /\ UNCHANGED <<callVars, queueVars, agentVars>>

HandlerStep(h) ==
  \/ Provision(h) \/ SeeActive(h) \/ GiveUp(h) \/ Welcome(h) \/ Enqueue(h)
  \/ MarkProcessing(h) \/ Forward(h) \/ Answered(h) \/ GiveUpWaiting(h)
  \/ MarkDelivered(h) \/ Reply(h)

-----------------------------------------------------------------------------
(* POST /v1/tenants/:id/message                                            *)

CallAt(h, s) == call[h] = s
CallTo(h, s) == call' = [call EXCEPT ![h] = s]
CallStep == UNCHANGED <<slackVars, relayVars, userVars, worldVars>>

(* Token, allowlist, quota and status; a refusal counts as no attempt.     *)
CheckTenant(h) ==
  /\ CallAt(h, "check")
  /\ \/ active /\ CallTo(h, "forward")
     \/ CallTo(h, "error")
  /\ CallStep /\ UNCHANGED <<attemptsRead, queueVars, agentVars>>

(* The container runs the agent, up to three times, and answers 200; or    *)
(* the forward fails, before the agent got the message or after.           *)
ForwardToRuntime(h) ==
  LET e == eventOf[h] IN
  /\ CallAt(h, "forward")
  /\ \/ /\ given' = given \cup {e}
        /\ answered' = answered \cup {e}
        /\ CallTo(h, "record")
        /\ UNCHANGED failures
     \/ /\ \/ given' = given \cup {e}
           \/ UNCHANGED given
        /\ failures' = [failures EXCEPT ![e] = @ + 1]
        /\ CallTo(h, "readRow")
        /\ UNCHANGED answered
  /\ CallStep /\ UNCHANGED <<attemptsRead, queueVars>>

(* last_activity_at and the audit row: when they fail the call answers 502 *)
(* although the agent has answered.                                        *)
RecordDelivery(h) ==
  /\ CallAt(h, "record")
  /\ CallTo(h, "ok") \/ CallTo(h, "error")
  /\ CallStep /\ UNCHANGED <<attemptsRead, queueVars, agentVars>>

ReadRow(h) ==
  LET e == eventOf[h] IN
  /\ CallAt(h, "readRow")
  /\ \/ /\ row[e] # "none"
        /\ attemptsRead' = [attemptsRead EXCEPT ![h] = attempts[e]]
        /\ CallTo(h, "bump")
        /\ UNCHANGED queueVars
     \/ row[e] = "none" /\ CallTo(h, "error") /\ UNCHANGED <<attemptsRead, queueVars>>
     \/ QueueFails /\ CallTo(h, "error") /\ UNCHANGED attemptsRead
  /\ CallStep /\ UNCHANGED agentVars

(* Mutant: the failure is counted twice.                                   *)
NextAttempt2(h) == attemptsRead[h] + 2
NextAttempt(h) == attemptsRead[h] + 1

(* The update is by the id that was read: it throws when that row is gone. *)
BumpAttempts(h) ==
  /\ CallAt(h, "bump")
  /\ \/ /\ attemptsRead[h] # NoRow
        /\ attempts' = [attempts EXCEPT ![eventOf[h]] = NextAttempt(h)]
        /\ UNCHANGED <<row, queueFailed, removalVars>>
     \/ attemptsRead[h] = NoRow /\ UNCHANGED queueVars
     \/ QueueFails
  /\ attemptsRead' = [attemptsRead EXCEPT ![h] = 0]
  /\ CallTo(h, "error")
  /\ CallStep /\ UNCHANGED agentVars

CallProgress(h) ==
  CheckTenant(h) \/ ForwardToRuntime(h) \/ RecordDelivery(h) \/ ReadRow(h) \/ BumpAttempts(h)

-----------------------------------------------------------------------------
(* Restarts, the tenant's status and time                                  *)

MayCrash == crashes < MaxCrashes /\ crashes' = crashes + 1

(* The relay dies with its handlers and its dedup map; calls go on.        *)
RelayCrash ==
  /\ relayUp /\ MayCrash
  /\ relayUp' = FALSE
  /\ seen' = [e \in Events |-> NotSeen]
  /\ step' = [h \in Slots |-> "idle"]
  /\ hasRow' = [h \in Slots |-> FALSE]
  /\ UNCHANGED <<slackVars, eventOf, age, callVars, queueVars, agentVars, userVars, cpUp, active,
                 deployed>>

(* The relay's own startup sweep only logs.                                *)
RelayBoot ==
  /\ ~relayUp
  /\ relayUp' = TRUE
  /\ UNCHANGED <<slackVars, seen, step, eventOf, age, hasRow, worldVars>>
  /\ UNCHANGED <<callVars, queueVars, agentVars, userVars>>

(* Calls in progress end in a connection reset.                            *)
ControlPlaneCrash ==
  /\ cpUp /\ MayCrash
  /\ cpUp' = FALSE
  /\ call' = [h \in Slots |-> IF Running(h) THEN "reset" ELSE call[h]]
  /\ UNCHANGED <<slackVars, relayVars, attemptsRead, queueVars, agentVars, userVars, active,
                 deployed>>

(* Mutant: boot gives interrupted rows up.                                 *)
AfterBootFailed(s) == IF s = "PROCESSING" THEN "FAILED" ELSE s
AfterBoot(s) == IF s = "PROCESSING" THEN "PENDING" ELSE s

(* Reconciliation turns PROCESSING rows of over two minutes ago back into  *)
(* PENDING; which rows are so old is left open.                            *)
ControlPlaneBoot ==
  /\ ~cpUp
  /\ cpUp' = TRUE
  /\ \E old \in SUBSET Events : row' = [e \in Events |-> IF e \in old THEN AfterBoot(row[e]) ELSE row[e]]
  /\ UNCHANGED <<slackVars, relayVars, callVars, attempts, queueFailed, removalVars, agentVars,
                 userVars, active, crashes, deployed>>

(* A start or a health poll writes ACTIVE, a stop, a deletion or a failed  *)
(* poll something else: at any time.                                       *)
TenantChanges ==
  /\ active' = ~active
  /\ UNCHANGED <<slackVars, relayVars, callVars, queueVars, agentVars, userVars, cpUp, crashes,
                 deployed>>

(* The rows of S go: who goes on with one by its id finds nothing.         *)
RemoveRows(S) ==
  /\ S # {}
  /\ row' = [e \in Events |-> IF e \in S THEN "none" ELSE row[e]]
  /\ attempts' = [e \in Events |-> IF e \in S THEN 0 ELSE attempts[e]]
  /\ hasRow' = [h \in Slots |-> hasRow[h] /\ eventOf[h] \notin S]
  /\ attemptsRead' = [h \in Slots |-> IF CallAt(h, "bump") /\ eventOf[h] \in S THEN NoRow
                                      ELSE attemptsRead[h]]
  /\ UNCHANGED <<slackVars, seen, relayUp, step, eventOf, age, call, queueFailed, agentVars, userVars,
                 worldVars>>

(* DELETE /v1/tenants/:id, whatever handlers and calls are under way: the  *)
(* container is stopped with best effort only.                             *)
Purge ==
  LET S == {e \in Events : row[e] # "none"} IN
  /\ cpUp
  /\ RemoveRows(S)
  /\ purged' = purged \cup S /\ UNCHANGED reaped

(* Mutant: old rows go whatever their status.                              *)
ReapableAny == {e \in Events : row[e] # "none"}
Reapable == {e \in Events : row[e] = "DELIVERED"}

(* The scheduler's reaper, when they are old; no row here is ever FAILED.  *)
Reap ==
  \E S \in SUBSET Reapable :
    /\ RemoveRows(S)
    /\ reaped' = reaped \cup S /\ UNCHANGED purged

Tick ==
  /\ \A h \in Slots : Busy(h) => age[h] < HandlerLimit
  /\ age' = [h \in Slots |-> IF Busy(h) THEN age[h] + 1 ELSE age[h]]
  /\ seen' = [e \in Events |-> IF seen[e] \in 0 .. DedupTTL THEN seen[e] + 1 ELSE seen[e]]
  /\ UNCHANGED <<slackVars, relayUp, step, eventOf, hasRow>> /\ Unheard

Next ==
  \/ \E e \in Events :
       \/ LoseCopy(e) \/ IgnoreRetry(e) \/ IgnoreDuplicate(e)
       \/ \E h \in Slots : AcceptEvent(h, e)
  \/ Evict
  \/ \E h \in Slots : HandlerStep(h) \/ CallProgress(h)
  \/ RelayCrash \/ RelayBoot \/ ControlPlaneCrash \/ ControlPlaneBoot
  \/ TenantChanges \/ Purge \/ Reap \/ Tick

Spec == Init /\ [][Next]_vars

(* Timers and requests of a living process end; nothing obliges Slack to   *)
(* send, the tenant to become ACTIVE or a process to crash.                *)
FairSpec ==
  /\ Spec
  /\ \A h \in Slots : WF_vars(HandlerStep(h)) /\ WF_vars(CallProgress(h))
  /\ WF_vars(RelayBoot) /\ WF_vars(ControlPlaneBoot)

-----------------------------------------------------------------------------
(* What holds                                                              *)

(* No two handlers of the relay with dedup work on one event: the map      *)
(* outlives every handler of its process, and a restart, which loses the   *)
(* map, ends them all.                                                     *)
OneHandlerPerEvent ==
  ~deployed => \A h, k \in Slots :
    h # k /\ ~At(h, "idle") /\ ~At(k, "idle") => eventOf[h] # eventOf[k]

(* The attempts column never counts a failure that did not happen, and     *)
(* without crashes, failing statements or a removal of the row its         *)
(* read-then-write loses none: two calls for one event never overlap.      *)
Counting(e) == \E h \in Slots : eventOf[h] = e /\ call[h] \in {"readRow", "bump"}
Undisturbed(e) == crashes = 0 /\ ~queueFailed /\ ~deployed /\ e \notin purged \cup reaped
AttemptsAreFailures ==
  \A e \in Events :
    /\ attempts[e] <= failures[e]
    /\ Undisturbed(e) /\ ~Counting(e) => attempts[e] = failures[e]

(* A row says DELIVERED, and the user sees an answer, only after the agent *)
(* answered that event, whatever was lost, retried or restarted between.   *)
DeliveredWasAnswered ==
  /\ \A e \in Events : row[e] = "DELIVERED" => e \in answered
  /\ replied \subseteq answered

(* A message the agent got and did not answer is in the queue as open,     *)
(* through every restart, repeat and reaping.  Only the deletion of its    *)
(* tenant, which purges the queue while calls may still be under way, and  *)
(* a failing statement, after which the message is forwarded without a     *)
(* row, make it disappear (and the deployed relay has no queue).           *)
Open(e) == row[e] \in {"PENDING", "PROCESSING"}
RunsAreQueued ==
  \A e \in given \ answered : Open(e) \/ e \in purged \/ queueFailed \/ deployed

(* Every handler ends, whether or not the tenant wakes or answers.         *)
HandlersEnd == \A h \in Slots : ~At(h, "idle") ~> At(h, "idle")

-----------------------------------------------------------------------------
(* What the message path implements                                        *)

(* How far an event has come.                                              *)
Phase ==
  [e \in Events |-> IF e \in replied THEN "replied"
                    ELSE IF e \in answered THEN "answered"
                    ELSE IF e \in given THEN "given"
                    ELSE IF e \in taken THEN "taken"
                    ELSE "sent"]

Path == INSTANCE MessagePath WITH Events <- Events, phase <- Phase, row <- row

(* Each step of relay, control plane, agent, reaper and Slack is one of    *)
(* module MessagePath or leaves the events where they are: none is         *)
(* answered that was not taken, replied to or marked DELIVERED that was    *)
(* not answered, and none falls back, whatever is repeated, lost or        *)
(* restarted; a row goes only with its tenant or after DELIVERED.          *)
PathSpec == Path!Spec
=============================================================================
