--------------------------- MODULE PendingReplay ---------------------------
(***************************************************************************)
(* Message queueing and replay in the relay (event-handler.ts) against the *)
(* message server of the tenant's container: enqueueMessage,               *)
(* deliverPendingMessages and the startup sweep resetStuckProcessingRows.  *)
(* A call of deliverPendingMessages reads the PENDING rows once and works  *)
(* through that list; several calls may be in progress, since nothing      *)
(* keeps them apart.  Three others write the same rows: the startup sweep  *)
(* of the control plane, the deletion of the tenant and the reaper.        *)
(***************************************************************************)
EXTENDS TenantRuntime

CONSTANTS
  MAX_ATTEMPTS,  \* failed deliveries of a message before it is given up
  MaxFaults      \* bound on relay crashes, boots of the control plane and failing statements

ASSUME ReplayAssumption == MAX_ATTEMPTS \in Nat \ {0} /\ MaxFaults \in Nat

VARIABLES
  row,        \* row[m]: message_queue.status, "none", or "gone" when it was removed
  attempts,   \* attempts[m]: message_queue.attempts
  step,       \* step[c]: what call c of deliverPendingMessages does next
  todo,       \* todo[c]: messages of its list it is not done with
  attemptsRead, \* attemptsRead[c][m]: msg.attempts in its list
  up,         \* the relay runs
  faults,     \* faults so far
  refused,    \* messages for which enqueueMessage returned false (history)
  tried,      \* messages marked PROCESSING at least once (history)
  failures,   \* failures[m]: failed deliveries of m written down, counted up to MAX_ATTEMPTS (history)
  shared,     \* calls overlap, or one that overlapped is not over (history)
  swept       \* rows a startup sweep turned PENDING that no call has written since (history)

rowVars == <<row, attempts>>
callVars == <<step, todo, attemptsRead>>
relayVars == <<up, faults>>
historyVars == <<refused, tried, failures, shared, swept>>
vars == <<runtimeVars, rowVars, callVars, relayVars, historyVars>>

Statuses == {"none", "PENDING", "PROCESSING", "DELIVERED", "FAILED", "gone"}
Steps == {"idle", "send", "await"}
NoAttempts == [m \in Messages |-> 0]

TypeOK ==
  /\ RuntimeTypeOK
  /\ row \in [Messages -> Statuses]
  /\ attempts \in [Messages -> Nat]
  /\ step \in [Calls -> Steps]
  /\ todo \in [Calls -> SUBSET Messages]
  /\ attemptsRead \in [Calls -> [Messages -> Nat]]
  /\ up \in BOOLEAN /\ faults \in 0 .. MaxFaults
  /\ refused \subseteq Messages /\ tried \subseteq Messages
  /\ failures \in [Messages -> 0 .. MAX_ATTEMPTS]
  /\ shared \in BOOLEAN /\ swept \subseteq Messages

Init ==
  /\ RuntimeInit
  /\ row = [m \in Messages |-> "none"]
  /\ attempts = NoAttempts
  /\ step = [c \in Calls |-> "idle"]
  /\ todo = [c \in Calls |-> {}]
  /\ attemptsRead = [c \in Calls |-> NoAttempts]
  /\ up = TRUE /\ faults = 0
  /\ refused = {} /\ tried = {}
  /\ failures = NoAttempts
  /\ shared = FALSE /\ swept = {}

At(c, s) == step[c] = s
GoTo(c, s) == step' = [step EXCEPT ![c] = s]
Becomes(m, s) == row' = [row EXCEPT ![m] = s]
Fault == faults < MaxFaults /\ faults' = faults + 1

-----------------------------------------------------------------------------
(* enqueueMessage                                                          *)

(* created_at is read just before the insert: rows come in in that order.  *)
(* An event that comes again after its row has gone gets a new row, and is *)
(* a new message here.                                                     *)
IsNew(m) ==
  /\ up /\ row[m] = "none" /\ m \notin refused
  /\ \A n \in Messages : n < m => row[n] # "none" \/ n \in refused

Enqueue(m) ==
  /\ IsNew(m)
  /\ Becomes(m, "PENDING")
  /\ UNCHANGED <<runtimeVars, attempts, callVars, relayVars, historyVars>>

(* Any error of the insert is taken for a duplicate: no row, and false.    *)
EnqueueFails(m) ==
  /\ IsNew(m) /\ Fault
  /\ refused' = refused \cup {m}
  /\ UNCHANGED <<runtimeVars, rowVars, callVars, up, tried, failures, shared, swept>>

-----------------------------------------------------------------------------
(* deliverPendingMessages                                                  *)

Pending == {m \in Messages : row[m] = "PENDING"}
Others(c) == Calls \ {c}

ListPending(c) ==
  /\ up /\ At(c, "idle")
  /\ Pending # {}
  /\ todo' = [todo EXCEPT ![c] = Pending]
  /\ attemptsRead' = [attemptsRead EXCEPT ![c] = [m \in Messages |-> IF m \in Pending THEN attempts[m] ELSE 0]]
  /\ GoTo(c, "send")
  /\ shared' = (\E d \in Others(c) : ~At(d, "idle"))
  /\ UNCHANGED <<runtimeVars, rowVars, relayVars, refused, tried, failures, swept>>

(* Mutant: the list is not ordered.                                        *)
IsCurrentUnordered(c, m) == m \in todo[c] /\ \A n \in todo[c] : n <= m
(* m is the next of the list, by created_at.                               *)
IsCurrent(c, m) == m \in todo[c] /\ \A n \in todo[c] : m <= n

(* Mutant: the row is not marked before the POST.                          *)
MarkedNot == "PENDING"
Marked == "PROCESSING"

(* The update to PROCESSING and the POST that follows it at once: the POST *)
(* touches nothing but the request of this call.                           *)
SendNext(c) ==
  /\ At(c, "send")
  /\ \E m \in Messages :
       /\ IsCurrent(c, m) /\ row[m] # "gone"
       /\ Becomes(m, Marked)
       /\ tried' = tried \cup {m} /\ swept' = swept \ {m}
       /\ Accept(c, m) \/ Refuse(c, m)
  /\ GoTo(c, "await")
  /\ UNCHANGED <<attempts, todo, attemptsRead, relayVars, refused, failures, shared>>

(* Mutant: the message stays the next one of the list.                     *)
FinishedStays(c, m) == GoTo(c, "send") /\ UNCHANGED <<todo, attemptsRead>>
Finished(c, m) ==
  /\ todo' = [todo EXCEPT ![c] = @ \ {m}]
  /\ attemptsRead' = [attemptsRead EXCEPT ![c][m] = 0]
  /\ GoTo(c, IF todo[c] = {m} THEN "idle" ELSE "send")

(* Mutant: given up one delivery early.                                    *)
IsLastEarly(n) == n + 1 >= MAX_ATTEMPTS
IsLast(n) == n >= MAX_ATTEMPTS

NewAttempts(c, m) == attemptsRead[c][m] + 1
CountedUp(n) == IF n < MAX_ATTEMPTS THEN n + 1 ELSE n

RecordSuccess(c, m) ==
  /\ row[m] # "gone"
  /\ Becomes(m, "DELIVERED") /\ swept' = swept \ {m}
  /\ UNCHANGED <<attempts, failures>>

RecordFailure(c, m) ==
  /\ row[m] # "gone" /\ swept' = swept \ {m}
  /\ attempts' = [attempts EXCEPT ![m] = NewAttempts(c, m)]
  /\ Becomes(m, IF IsLast(NewAttempts(c, m)) THEN "FAILED" ELSE "PENDING")
  /\ failures' = [failures EXCEPT ![m] = CountedUp(@)]

(* Mutant: any response counts.                                            *)
IsSuccessAnyResponse(r) == r \in Responses
(* Only a 200 whose body says ok is a success.                             *)
IsSuccess(r) == r = "answered"

(* The response and the update it leads to: a response that is not written *)
(* down yet is as good as one not taken yet.                               *)
TakeResponse(c) ==
  /\ At(c, "await")
  /\ Collect(c)
  /\ \E m \in Messages :
       /\ IsCurrent(c, m)
       /\ IF IsSuccess(request[c]) THEN RecordSuccess(c, m) ELSE RecordFailure(c, m)
       /\ Finished(c, m)
  /\ UNCHANGED <<relayVars, refused, tried, shared>>

(* fetch gives up waiting for the headers (its own default); the server    *)
(* works on.                                                               *)
FetchTimesOut(c) ==
  /\ At(c, "await") /\ Working(c)
  /\ Leave({c})
  /\ \E m \in Messages : IsCurrent(c, m) /\ RecordFailure(c, m) /\ Finished(c, m)
  /\ UNCHANGED <<relayVars, refused, tried, shared>>

(* An update throws, before the POST or after the response or the timeout: *)
(* the call rejects, and the rest of its list is left alone.               *)
Reject(c) ==
  /\ \/ At(c, "send") /\ UNCHANGED runtimeVars
     \/ At(c, "await") /\ (Collect(c) \/ (Working(c) /\ Leave({c})))
  /\ GoTo(c, "idle")
  /\ todo' = [todo EXCEPT ![c] = {}]
  /\ attemptsRead' = [attemptsRead EXCEPT ![c] = NoAttempts]
  /\ UNCHANGED <<rowVars, up, historyVars>>

UpdateFails(c) == Reject(c) /\ Fault

(* There is no row to update.                                              *)
FindsRowGone(c) ==
  /\ \E m \in todo[c] : IsCurrent(c, m) /\ row[m] = "gone"
  /\ Reject(c) /\ UNCHANGED faults

CallStep(c) == SendNext(c) \/ TakeResponse(c) \/ FetchTimesOut(c) \/ FindsRowGone(c)

-----------------------------------------------------------------------------
(* Crash and restart of the relay                                          *)

Crash ==
  /\ up /\ Fault
  /\ up' = FALSE
  /\ step' = [c \in Calls |-> "idle"]
  /\ todo' = [c \in Calls |-> {}]
  /\ attemptsRead' = [c \in Calls |-> NoAttempts]
  /\ Leave(Calls)
  /\ UNCHANGED <<rowVars, historyVars>>

(* Mutant: the sweep does not look at the status.                          *)
AfterSweepAny(s) == IF s = "none" THEN s ELSE "PENDING"
AfterSweep(s) == IF s = "PROCESSING" THEN "PENDING" ELSE s

(* PROCESSING rows of over two minutes ago become PENDING; which rows are  *)
(* so old is left open.                                                    *)
Sweep ==
  /\ \E old \in SUBSET Messages :
       /\ row' = [m \in Messages |-> IF m \in old THEN AfterSweep(row[m]) ELSE row[m]]
       /\ swept' = swept \cup {m \in old : row[m] = "PROCESSING"}
  /\ UNCHANGED <<runtimeVars, attempts, callVars, refused, tried, failures, shared>>

(* resetStuckProcessingRows, called at startup.                            *)
Restart ==
  /\ ~up /\ up' = TRUE
  /\ Sweep
  /\ UNCHANGED faults

-----------------------------------------------------------------------------
(* Other writers of message_queue                                          *)

(* The control plane boots, and sweeps whatever calls are at work.         *)
ControlPlaneBoots == Fault /\ Sweep /\ UNCHANGED up

(* The deletion of the tenant removes every row, the reaper old DELIVERED  *)
(* and FAILED ones; how old they are is left open.                         *)
RowsGo(S) ==
  /\ row' = [m \in Messages |-> IF m \in S THEN "gone" ELSE row[m]]
  /\ swept' = swept \ S
  /\ UNCHANGED <<runtimeVars, attempts, callVars, relayVars, refused, tried, failures, shared>>

Purge == RowsGo({m \in Messages : row[m] # "none"})
Reap == \E S \in SUBSET {m \in Messages : row[m] \in {"DELIVERED", "FAILED"}} : RowsGo(S)

-----------------------------------------------------------------------------

ReplayUnchanged == UNCHANGED <<rowVars, callVars, relayVars, historyVars>>

RuntimeStep(c) == RequestStep(c) /\ ReplayUnchanged
RuntimeAlone == (OrphanEnds \/ ContainerStops) /\ ReplayUnchanged

Next ==
  \/ \E m \in Messages : Enqueue(m) \/ EnqueueFails(m)
  \/ \E c \in Calls : ListPending(c) \/ CallStep(c) \/ UpdateFails(c) \/ RuntimeStep(c)
  \/ RuntimeAlone \/ Crash \/ Restart \/ ControlPlaneBoots \/ Purge \/ Reap

Spec == Init /\ [][Next]_vars

-----------------------------------------------------------------------------
(* What holds                                                              *)

(* The attempts column never counts a failure that did not happen, however *)
(* many calls write what they read before, so that a row is FAILED only    *)
(* after MAX_ATTEMPTS deliveries of it have failed.                        *)
FailedWasTried ==
  \A m \in Messages :
    /\ attempts[m] <= failures[m] \/ failures[m] = MAX_ATTEMPTS
    /\ row[m] = "FAILED" => failures[m] = MAX_ATTEMPTS

(* The relay says DELIVERED only of a message to which the agent gave a    *)
(* text, whichever of the tenant's requests it was that got the answer.    *)
DeliveredWasAnswered ==
  \A m \in Messages : row[m] = "DELIVERED" => m \in answered

(* First tries come in created_at order, across calls, overlapping calls,  *)
(* failed updates, restarts and sweeps: only a message without a row, or   *)
(* whose row has gone, is passed over.                                     *)
TriedInOrder ==
  \A m \in tried, n \in Messages : n < m => n \in tried \/ n \in refused \/ row[n] = "gone"

(* The agent works behind the back of the queue only when its caller has   *)
(* gone or calls overlap: otherwise the row of the message it works on is  *)
(* PROCESSING, and stays so until the response is written down, unless a   *)
(* startup sweep took it for one left behind or the row has gone.          *)
RunsAreProcessing ==
  \A c \in Calls : Working(c) /\ ~shared =>
    row[body[c]] \in {"PROCESSING", "gone"} \/ body[c] \in swept

Queue == INSTANCE QueueLifecycle WITH
  Messages <- Messages, MAX_ATTEMPTS <- MAX_ATTEMPTS,
  row <- row, attempts <- attempts, shared <- shared, swept <- swept

(* Rows live the life of module QueueLifecycle: while calls do not overlap *)
(* DELIVERED and FAILED are final until the row is removed, and every      *)
(* failure is counted.                                                     *)
QueueSpec == Queue!Spec

(* No message keeps a call for ever, whatever the agent does and whoever   *)
(* else writes the rows: the list a call has read only shrinks, in         *)
(* created_at order, and each message of it is posted at most once by that *)
(* call, so that it is over after two steps per message.                   *)
CallsAdvance ==
  [][\A c \in Calls : ~At(c, "idle") =>
       \/ UNCHANGED <<step[c], todo[c]>>
       \/ step[c] = "send" /\ step'[c] = "await" /\ UNCHANGED todo[c]
       \/ \E m \in todo[c] :
            /\ step[c] = "await" /\ \A n \in todo[c] : m <= n
            /\ todo'[c] = todo[c] \ {m} /\ step'[c] \in {"send", "idle"}
       \/ todo'[c] = {} /\ step'[c] = "idle"]_vars
=============================================================================
