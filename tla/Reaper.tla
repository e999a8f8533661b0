------------------------------- MODULE Reaper ------------------------------
(***************************************************************************)
(* The hourly work of the scheduler (apps/scheduler/src/index.ts and       *)
(* reaper.ts): runs of runJobs, which the timer starts whether or not the  *)
(* one before has ended, count the ticks they share, and every REAP_TICKS  *)
(* ticks one of them cleans the archive of deleted tenants and moves old   *)
(* audit rows to one compressed file per month.                            *)
(***************************************************************************)
EXTENDS Integers, FiniteSets

CONSTANTS
  Rows,                         \* audit_log rows
  MonthOf,                      \* MonthOf[a]: the month in which row a was created
  Runs,                         \* runs of runJobs that may be going on at once
  DISK_CHECK_TICKS, REAP_TICKS,
  AUDIT_LOG_ARCHIVE_THRESHOLD,
  MaxFaults                     \* bound on failing runs and restarts

Months == {MonthOf[a] : a \in Rows}

ASSUME ReaperAssumption ==
  /\ IsFiniteSet(Rows) /\ MonthOf \in [Rows -> Nat]
  /\ DISK_CHECK_TICKS \in Nat \ {0} /\ REAP_TICKS \in Nat \ {0}
  /\ AUDIT_LOG_ARCHIVE_THRESHOLD \in Nat /\ MaxFaults \in Nat

VARIABLES
  timer,     \* the interval has been set: the first run has ended
  tickCount, \* tickCount, modulo both periods
  step,      \* step[r]: what run r does next
  rows,      \* rows[r]: the audit rows run r has read
  left,      \* left[r]: the months it has still to write
  audit,     \* the rows of audit_log
  old,       \* the rows created more than 90 days ago
  copies,    \* copies[a]: complete copies of a readable in the archive, up to 2
  torn,      \* months whose file holds half a member: what is appended after it cannot be read
  dir,       \* a tenant's directory: "live", "archived" or "removed"
  unchanged, \* its mtime is more than 30 days ago
  kept,      \* it was archived more than 30 days ago (history)
  faults,    \* failing runs and restarts so far
  since,     \* ticks counted since a run last came to the hourly work (history)
  disturbed, \* since then a run has counted while another checked the disk, or
             \* one has failed before it came to the work (history)
  redone     \* an archiving was cut short, or two went on at once (history)

runVars == <<timer, tickCount, step, rows, left>>
auditVars == <<audit, copies, torn>>
dirVars == <<dir, unchanged, kept>>
historyVars == <<since, disturbed, redone>>
vars == <<runVars, auditVars, old, dirVars, faults, historyVars>>

At(r, s) == step[r] = s

Span == DISK_CHECK_TICKS * REAP_TICKS

ReaperTypeOK ==
  /\ timer \in BOOLEAN /\ tickCount \in 0 .. Span - 1
  /\ step \in [Runs -> {"idle", "jobs", "disk", "reap", "count", "find", "append", "delete"}]
  /\ rows \in [Runs -> SUBSET Rows] /\ left \in [Runs -> SUBSET Months]
  /\ \A r \in Runs : (left[r] # {}) = At(r, "append")
  /\ audit \subseteq Rows /\ old \subseteq Rows
  /\ copies \in [Rows -> 0 .. 2] /\ torn \subseteq Months
  /\ dir \in {"live", "archived", "removed"}
  /\ unchanged \in BOOLEAN /\ kept \in BOOLEAN
  /\ faults \in 0 .. MaxFaults
  /\ since \in 0 .. REAP_TICKS + 1 /\ disturbed \in BOOLEAN /\ redone \in BOOLEAN

Init ==
  /\ timer = FALSE /\ tickCount = 0
  /\ step = [r \in Runs |-> "idle"]
  /\ rows = [r \in Runs |-> {}] /\ left = [r \in Runs |-> {}]
  /\ audit = Rows /\ old = {}
  /\ copies = [a \in Rows |-> 0] /\ torn = {}
  /\ dir = "live" /\ unchanged = FALSE /\ kept = FALSE
  /\ faults = 0
  /\ since = 0 /\ disturbed = FALSE /\ redone = FALSE

GoTo(r, s) == step' = [step EXCEPT ![r] = s]
Ends(r) ==
  /\ GoTo(r, "idle") /\ timer' = TRUE
  /\ rows' = [rows EXCEPT ![r] = {}] /\ left' = [left EXCEPT ![r] = {}]
Continues(r, s) == GoTo(r, s) /\ UNCHANGED timer
Keeps == UNCHANGED <<rows, left>>
Archiving == {r \in Runs : step[r] \in {"append", "delete"}}

-----------------------------------------------------------------------------
(* Ticks                                                                   *)

(* The first run is awaited before the interval is set.                    *)
BeginRun(r) ==
  /\ At(r, "idle") /\ (timer \/ \A v \in Runs : At(v, "idle"))
  /\ GoTo(r, "jobs")
  /\ UNCHANGED <<timer, tickCount, rows, left, auditVars, old, dirVars, faults, historyVars>>

(* Mutant: the hours counted in disk checks.                               *)
ReapDueInChecks(t) == t % Span = 0
ReapDue(t) == t % REAP_TICKS = 0

(* tickCount is read again when the disk checks have ended.                *)
TestReap(r, t, n, d) ==
  IF ReapDue(t)
  THEN Continues(r, "reap") /\ Keeps /\ since' = 0 /\ disturbed' = FALSE
  ELSE Ends(r) /\ since' = n /\ disturbed' = d

(* The sweep, the idle stops and the retries have ended.                   *)
CountTick(r) ==
  LET t == (tickCount + 1) % Span
      n == IF since <= REAP_TICKS THEN since + 1 ELSE since
      d == disturbed \/ \E v \in Runs : At(v, "disk")
  IN /\ At(r, "jobs")
     /\ tickCount' = t
     /\ IF t % DISK_CHECK_TICKS = 0
        THEN Continues(r, "disk") /\ Keeps /\ since' = n /\ disturbed' = d
        ELSE TestReap(r, t, n, d)
     /\ UNCHANGED <<auditVars, old, dirVars, faults, redone>>

DiskChecked(r) ==
  /\ At(r, "disk")
  /\ TestReap(r, tickCount, since, disturbed)
  /\ UNCHANGED <<tickCount, auditVars, old, dirVars, faults, redone>>

-----------------------------------------------------------------------------
(* The hourly work                                                         *)

(* After the message_queue, the archive: what counts is when the directory *)
(* itself was last changed.                                                *)
CleanArchive(r) ==
  /\ At(r, "reap") /\ Continues(r, "count")
  /\ dir' = IF dir = "archived" /\ unchanged THEN "removed" ELSE dir
  /\ UNCHANGED <<tickCount, rows, left, auditVars, old, unchanged, kept, faults, historyVars>>

(* Mutant: the threshold itself is not enough.                             *)
EnoughMore == Cardinality(audit) > AUDIT_LOG_ARCHIVE_THRESHOLD
Enough == Cardinality(audit) >= AUDIT_LOG_ARCHIVE_THRESHOLD

CountRows(r) ==
  /\ At(r, "count")
  /\ IF Enough THEN Continues(r, "find") /\ Keeps ELSE Ends(r)
  /\ UNCHANGED <<tickCount, auditVars, old, dirVars, faults, historyVars>>

(* Mutant: without the cutoff.                                             *)
FoundAny == audit
Found == audit \cap old

FindRows(r) ==
  /\ At(r, "find")
  /\ IF Found = {}
     THEN Ends(r) /\ UNCHANGED redone
     ELSE /\ Continues(r, "append")
          /\ rows' = [rows EXCEPT ![r] = Found]
          /\ left' = [left EXCEPT ![r] = {MonthOf[a] : a \in Found}]
          /\ redone' = (redone \/ Archiving # {})
  /\ UNCHANGED <<tickCount, auditVars, old, dirVars, faults, since, disturbed>>

(* The months are written in the order of created_at.                      *)
Current(r) == CHOOSE m \in left[r] : \A n \in left[r] : m <= n

(* Two streams that append to one file at once may mix their bytes.        *)
MayMix(r) == \E v \in Archiving \ {r} : At(v, "append") /\ Current(v) = Current(r)

Readable(r) ==
  [a \in Rows |-> IF a \in rows[r] /\ MonthOf[a] = Current(r) /\ copies[a] < 2
                  THEN copies[a] + 1 ELSE copies[a]]

AppendMonth(r) ==
  /\ At(r, "append")
  /\ \/ UNCHANGED torn
     \/ MayMix(r) /\ torn' = torn \cup {Current(r)}
  /\ copies' = IF Current(r) \in torn' THEN copies ELSE Readable(r)
  /\ left' = [left EXCEPT ![r] = @ \ {Current(r)}]
  /\ Continues(r, IF left'[r] = {} THEN "delete" ELSE "append")
  /\ UNCHANGED <<tickCount, rows, audit, old, dirVars, faults, historyVars>>

(* Mutants: the cutoff instead of the ids; no row.                         *)
ArchivedNow(r) == old
ArchivedNone(r) == {}
Archived(r) == rows[r]

DeleteRows(r) ==
  /\ At(r, "delete") /\ Ends(r)
  /\ audit' = audit \ Archived(r)
  /\ UNCHANGED <<tickCount, copies, torn, old, dirVars, faults, historyVars>>

-----------------------------------------------------------------------------
(* Failures, and the world outside                                         *)

(* An append that does not end may leave half a member, or nothing.        *)
CutShort(cut) ==
  /\ \E half \in SUBSET {Current(r) : r \in {v \in cut : At(v, "append")}} : torn' = torn \cup half
  /\ redone' = (redone \/ cut \cap Archiving # {})
  /\ faults < MaxFaults /\ faults' = faults + 1
  /\ UNCHANGED <<audit, copies, old, dirVars, since>>

(* A statement or a stream throws: runJobs is logged and over.             *)
RunFails(r) ==
  /\ ~At(r, "idle") /\ CutShort({r}) /\ Ends(r)
  /\ disturbed' = (disturbed \/ step[r] \in {"jobs", "disk"})
  /\ UNCHANGED tickCount

(* A crash, or SIGTERM: shutdown waits for no run.                         *)
Restart ==
  /\ CutShort(Runs)
  /\ timer' = FALSE /\ tickCount' = 0
  /\ step' = [r \in Runs |-> "idle"]
  /\ rows' = [r \in Runs |-> {}] /\ left' = [r \in Runs |-> {}]
  /\ disturbed' = TRUE

RowAges(a) ==
  /\ a \notin old /\ old' = old \cup {a}
  /\ UNCHANGED <<runVars, auditVars, dirVars, faults, historyVars>>

(* The tenant's agent adds or removes an entry of the directory.           *)
DirectoryChanges ==
  /\ dir = "live" /\ unchanged /\ unchanged' = FALSE
  /\ UNCHANGED <<runVars, auditVars, old, dir, kept, faults, historyVars>>

(* The deletion renames the directory, which leaves its own mtime alone.   *)
ArchiveDirectory ==
  /\ dir = "live" /\ dir' = "archived"
  /\ UNCHANGED <<runVars, auditVars, old, unchanged, kept, faults, historyVars>>

ThirtyDaysPass ==
  /\ dir # "removed"
  /\ unchanged' = TRUE /\ kept' = (dir = "archived")
  /\ UNCHANGED <<runVars, auditVars, old, dir, faults, historyVars>>

RunStep(r) ==
  \/ CountTick(r) \/ DiskChecked(r) \/ CleanArchive(r) \/ CountRows(r) \/ FindRows(r)
  \/ AppendMonth(r) \/ DeleteRows(r)

Next ==
  \/ \E r \in Runs : BeginRun(r) \/ RunStep(r) \/ RunFails(r)
  \/ Restart
  \/ \E a \in Rows : RowAges(a)
  \/ DirectoryChanges \/ ArchiveDirectory \/ ThirtyDaysPass

Spec == Init /\ [][Next]_vars

(* The timer fires, and the statements of a run end.                       *)
FairSpec == Spec /\ \A r \in Runs : WF_vars(BeginRun(r)) /\ WF_vars(RunStep(r))

-----------------------------------------------------------------------------
(* What holds                                                              *)

(* No audit row is lost but behind a torn member: a row that has left the  *)
(* database can be read in its month's file, or that file was torn by an   *)
(* append cut short or by two appends at once (archiveAuditLog).           *)
LostOnlyBehindATear ==
  \A a \in Rows : a \notin audit /\ copies[a] = 0 => MonthOf[a] \in torn

(* A row is archived twice only when an archiving was cut short between    *)
(* its appends and its delete, or two archivings went on at once.          *)
ArchivedOnce == (\E a \in Rows : copies[a] = 2) => redone

(* The hourly work comes every REAP_TICKS ticks, unless a run counted its  *)
(* tick while another was checking the disk, which makes that one read a   *)
(* later count, or a run or the process failed in between.                 *)
ReapedHourly == since > REAP_TICKS => disturbed

(* While the table is long enough, an old row leaves the database, unless  *)
(* the hourly work was put off as above.                                   *)
OldRowsLeave ==
  \A a \in Rows :
    a \in audit \cap old
      ~> a \notin audit \/ Cardinality(audit) < AUDIT_LOG_ARCHIVE_THRESHOLD \/ disturbed

-----------------------------------------------------------------------------
(* What the archiving implements                                           *)

(* Where an audit row can be read.                                         *)
Place ==
  [a \in Rows |-> IF a \in audit
                  THEN IF copies[a] = 0 THEN "table" ELSE "both"
                  ELSE IF copies[a] = 0 THEN "lost" ELSE "archive"]

Ledger == INSTANCE AuditLedger WITH
  Rows <- Rows, MonthOf <- MonthOf, place <- Place, torn <- torn, old <- old

(* However runs overlap, fail and start again, each of their steps is one  *)
(* of module AuditLedger: a row is deleted only when it is old and can be  *)
(* read in the archive, or behind a torn member, and never comes back.     *)
LedgerSpec == Ledger!Spec

-----------------------------------------------------------------------------
(* What the documents say and the code does not do                         *)

(* SPEC.md section 13: the archive of a deleted tenant is kept "30 days,   *)
(* then `rm -rf` by a scheduled cleanup job".                              *)
ArchiveKeptThirtyDays == [][dir' = "removed" => kept]_dir
=============================================================================
