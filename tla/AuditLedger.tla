---------------------------- MODULE AuditLedger ----------------------------
(***************************************************************************)
(* What the archiving of audit rows promises, whoever runs it and however  *)
(* often it fails: a row goes from the table to table and archive, when it *)
(* is old, and from there to the archive alone, never back.  The exception *)
(* is a month whose file was torn: what is appended behind the tear cannot *)
(* be read, so a row of that month may be lost when it leaves the table.   *)
(***************************************************************************)
CONSTANTS Rows, MonthOf

VARIABLES
  place,  \* place[a]: row a can be read in the "table", in "both", in the "archive", or is "lost"
  torn,   \* months with a torn file
  old     \* rows old enough to be archived

ledgerVars == <<place, torn, old>>

Months == {MonthOf[a] : a \in Rows}

Init ==
  /\ place = [a \in Rows |-> "table"]
  /\ torn = {} /\ old = {}

Age(a) ==
  /\ old' = old \cup {a}
  /\ UNCHANGED <<place, torn>>

(* Rows of one month are appended to its file.                             *)
Append(m, S) ==
  /\ m \notin torn /\ \A a \in S : MonthOf[a] = m /\ a \in old
  /\ place' = [a \in Rows |-> IF a \in S /\ place[a] = "table" THEN "both" ELSE place[a]]
  /\ UNCHANGED <<torn, old>>

(* An append is cut short, or mixed with another.                          *)
Tear(M) ==
  /\ torn' = torn \cup M
  /\ UNCHANGED <<place, old>>

AfterRemoval(p) ==
  CASE p = "both" -> "archive"
    [] p = "table" -> "lost"
    [] OTHER -> p

(* Rows are deleted that can be read in the archive, or whose month is torn. *)
Remove(S) ==
  /\ \A a \in S : a \in old /\ (place[a] = "table" => MonthOf[a] \in torn)
  /\ place' = [a \in Rows |-> IF a \in S THEN AfterRemoval(place[a]) ELSE place[a]]
  /\ UNCHANGED <<torn, old>>

Next ==
  \/ \E a \in Rows : Age(a)
  \/ \E m \in Months, S \in SUBSET Rows : Append(m, S)
  \/ \E M \in SUBSET Months : Tear(M)
  \/ \E S \in SUBSET Rows : Remove(S)

Spec == Init /\ [][Next]_ledgerVars
=============================================================================
