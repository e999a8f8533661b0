----------------------------- MODULE DiskQuota -----------------------------
(***************************************************************************)
(* The disk checks of the scheduler (apps/scheduler/src/disk-quota.ts) for *)
(* one tenant: runs of checkDiskQuotas and checkHostDisk, which may        *)
(* overlap because the timer does not wait for them, and the flag they     *)
(* keep, which makes POST /message answer 507.                             *)
(***************************************************************************)
EXTENDS Integers

CONSTANTS
  Runs,     \* checks that may be going on at once
  Percents, \* the usages considered, in percent of QUOTA_BYTES
  MaxFaults \* bound on failing statements

ASSUME QuotaAssumption == Percents \subseteq Nat /\ MaxFaults \in Nat

VARIABLES
  usage,  \* the size of the tenant's directory
  status, \* tenants.status: "ACTIVE", "STARTING", or "other", which is not checked
  flag,   \* disk_quota_exceeded
  step,   \* step[r]: what run r does next
  seen,   \* seen[r]: the flag as the run read it
  faults, \* failing statements so far
  low,    \* the lowest measure since the last of 100 percent or more, 0 before there
          \* is one (history)
  full,   \* the last measure of 100 percent or more, or of less than 90, was of
          \* 100 percent or more (history)
  upset   \* since the checks were last all at rest, two have overlapped or a
          \* write has failed (history)

vars == <<usage, status, flag, step, seen, faults, low, full, upset>>

At(r, s) == step[r] = s
GoTo(r, s) == step' = [step EXCEPT ![r] = s]

QuotaTypeOK ==
  /\ usage \in Percents /\ status \in {"ACTIVE", "STARTING", "other"}
  /\ flag \in {0, 1}
  /\ step \in [Runs -> {"idle", "measure", "set", "warn", "clear", "host"}]
  /\ seen \in [Runs -> {0, 1}]
  /\ \A r \in Runs : At(r, "clear") => seen[r] = 1
  /\ faults \in 0 .. MaxFaults
  /\ low \in Percents \cup {0}
  /\ full \in BOOLEAN /\ upset \in BOOLEAN

Init ==
  /\ usage \in Percents /\ status = "other"
  /\ flag = 0
  /\ step = [r \in Runs |-> "idle"] /\ seen = [r \in Runs |-> 0]
  /\ faults = 0 /\ low = 0 /\ full = FALSE /\ upset = FALSE

-----------------------------------------------------------------------------
(* A check                                                                 *)

(* Mutant: the flag is left out of the select.                             *)
SelectedNot == 0
Selected == flag

(* Tenants that are neither ACTIVE nor STARTING are not measured.          *)
BeginCheck(r) ==
  LET atRest == \A v \in Runs : At(v, "idle") IN
  /\ At(r, "idle")
  /\ GoTo(r, IF status = "other" THEN "host" ELSE "measure")
  /\ seen' = [seen EXCEPT ![r] = Selected]
  /\ upset' = ~atRest
  /\ full' = IF atRest THEN flag = 1 ELSE full
  /\ UNCHANGED <<usage, status, flag, faults, low>>

(* Mutants: the flag is cleared unread; the warning comes before the limit. *)
VerdictUnread(r) ==
  CASE usage >= 100 -> "set"
    [] usage >= 90 /\ usage < 100 -> "warn"
    [] OTHER -> "clear"
VerdictWarnFirst(r) ==
  CASE usage >= 90 -> "warn"
    [] usage < 90 /\ seen[r] = 1 -> "clear"
    [] OTHER -> "host"
Verdict(r) ==
  CASE usage >= 100 -> "set"
    [] usage >= 90 /\ usage < 100 -> "warn"
    [] usage < 90 /\ usage < 95 /\ seen[r] = 1 -> "clear"
    [] OTHER -> "host"

Measure(r) ==
  /\ At(r, "measure")
  /\ GoTo(r, Verdict(r))
  /\ low' = IF usage >= 100 \/ usage < low THEN usage ELSE low
  /\ full' = (usage >= 100 \/ (usage >= 90 /\ full))
  /\ UNCHANGED <<usage, status, flag, seen, faults, upset>>

Fault == faults < MaxFaults /\ faults' = faults + 1

(* du fails: the tenant is passed over.                                    *)
MeasureFails(r) ==
  /\ At(r, "measure") /\ Fault
  /\ GoTo(r, "host")
  /\ UNCHANGED <<usage, status, flag, seen, low, full, upset>>

Write(r) ==
  /\ step[r] \in {"set", "warn", "clear"}
  /\ flag' = CASE At(r, "set") -> 1 [] At(r, "warn") -> flag [] At(r, "clear") -> 0
  /\ GoTo(r, "host")
  /\ UNCHANGED <<usage, status, seen, faults, low, full, upset>>

(* checkHostDisk: df fails or finds room, or every ACTIVE tenant becomes   *)
(* UNHEALTHY.  The run ends here.                                          *)
CheckHost(r) ==
  /\ At(r, "host") /\ GoTo(r, "idle")
  /\ seen' = [seen EXCEPT ![r] = 0]
  /\ \/ UNCHANGED status
     \/ status = "ACTIVE" /\ status' = "other"
  /\ UNCHANGED <<usage, flag, faults, low, full, upset>>

(* A statement throws, and with it the whole run: the update, or, once the *)
(* flag is set, the audit row after it.                                    *)
WriteFails(r) ==
  /\ step[r] \in {"set", "warn", "clear"}
  /\ Fault
  /\ GoTo(r, "idle") /\ seen' = [seen EXCEPT ![r] = 0]
  /\ \/ UNCHANGED flag
     \/ At(r, "set") /\ flag' = 1
  /\ upset' = TRUE
  /\ UNCHANGED <<usage, status, low, full>>

-----------------------------------------------------------------------------
(* Outside                                                                 *)

UsageChanges ==
  /\ usage' \in Percents \ {usage}
  /\ UNCHANGED <<status, flag, step, seen, faults, low, full, upset>>

(* Starts, stops and polls of the control plane.                           *)
StatusChanges ==
  /\ status' \in {"ACTIVE", "STARTING", "other"} \ {status}
  /\ UNCHANGED <<usage, flag, step, seen, faults, low, full, upset>>

CheckStep(r) == Measure(r) \/ Write(r) \/ CheckHost(r)

Next ==
  \/ \E r \in Runs : BeginCheck(r) \/ CheckStep(r) \/ MeasureFails(r) \/ WriteFails(r)
  \/ UsageChanges \/ StatusChanges

Spec == Init /\ [][Next]_vars

(* The timer fires, and the statements of a run end.                       *)
FairSpec == Spec /\ \A r \in Runs : WF_vars(BeginCheck(r)) /\ WF_vars(CheckStep(r))

-----------------------------------------------------------------------------
(* What holds                                                              *)

(* When no check is going on, POST /message is blocked only if some        *)
(* measure was of 100 percent or more and none since of less than 90, and  *)
(* it is blocked if there was such a one and all since were of 95 percent  *)
(* or more; unless two checks have overlapped, so that the older one wrote *)
(* last or had read an older flag, or a write has failed.  What a measure  *)
(* between 90 and 95 percent does, where the comments and the code         *)
(* disagree, it does not say.                                              *)
FlagFollowsMeasures ==
  (\A r \in Runs : At(r, "idle")) /\ ~upset =>
    /\ flag = 1 => full
    /\ full /\ low >= 95 => flag = 1

(* A tenant that is checked and stays below 90 percent does not stay       *)
(* blocked, whatever overlapped before.                                    *)
FlagClears == []<>(flag = 0 \/ usage >= 90 \/ status = "other")
=============================================================================
