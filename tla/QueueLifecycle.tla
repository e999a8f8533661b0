--------------------------- MODULE QueueLifecycle --------------------------
(***************************************************************************)
(* What the replay of pending messages promises about message_queue rows:  *)
(*   PENDING -> PROCESSING -> DELIVERED                                    *)
(*                         -> PENDING, or FAILED after MAX_ATTEMPTS        *)
(* and DELIVERED and FAILED are final until the row is removed.  The       *)
(* promise is made for times when replays of the tenant do not overlap;    *)
(* while shared is TRUE two of them have worked on the same rows and only  *)
(* the shape of a row is promised.                                         *)
(***************************************************************************)
EXTENDS Integers

CONSTANTS Messages, MAX_ATTEMPTS

VARIABLES
  row,       \* row[m]: status, "none", or "gone"
  attempts,  \* attempts[m]
  shared,    \* replays overlap, or one that did is not over
  swept      \* rows taken back from PROCESSING that nobody has written since

queueVars == <<row, attempts, shared, swept>>

Statuses == {"none", "PENDING", "PROCESSING", "DELIVERED", "FAILED", "gone"}
Becomes(m, s) == row' = [row EXCEPT ![m] = s]

Init ==
  /\ row = [m \in Messages |-> "none"]
  /\ attempts = [m \in Messages |-> 0]
  /\ shared = FALSE /\ swept = {}

Insert(m) ==
  /\ row[m] = "none" /\ Becomes(m, "PENDING")
  /\ UNCHANGED <<attempts, shared, swept>>

Claim(m) ==
  /\ row[m] = "PENDING" /\ Becomes(m, "PROCESSING")
  /\ swept' = swept \ {m}
  /\ UNCHANGED <<attempts, shared>>

(* A replay may be at work on a row that was taken back as well.           *)
InWork(m) == row[m] = "PROCESSING" \/ (row[m] = "PENDING" /\ m \in swept)

Deliver(m) ==
  /\ InWork(m) /\ Becomes(m, "DELIVERED")
  /\ swept' = swept \ {m}
  /\ UNCHANGED <<attempts, shared>>

Fail(m) ==
  /\ InWork(m)
  /\ attempts' = [attempts EXCEPT ![m] = @ + 1]
  /\ Becomes(m, IF attempts[m] + 1 < MAX_ATTEMPTS THEN "PENDING" ELSE "FAILED")
  /\ swept' = swept \ {m}
  /\ UNCHANGED shared

(* A boot takes rows for left behind and gives them another chance.        *)
Reset ==
  /\ \E S \in SUBSET {m \in Messages : row[m] = "PROCESSING"} :
       /\ row' = [m \in Messages |-> IF m \in S THEN "PENDING" ELSE row[m]]
       /\ swept' = swept \cup S
  /\ UNCHANGED <<attempts, shared>>

(* The rows of a deleted tenant go, and settled ones that are old; none    *)
(* comes back.                                                             *)
Remove ==
  /\ \E S \in SUBSET Messages :
       /\ \/ S = {m \in Messages : row[m] # "none"}
          \/ \A m \in S : row[m] \in {"DELIVERED", "FAILED"}
       /\ row' = [m \in Messages |-> IF m \in S THEN "gone" ELSE row[m]]
       /\ swept' = swept \ S
  /\ UNCHANGED <<attempts, shared>>

(* Replays begin or cease to overlap; the rows do not change.              *)
Share ==
  /\ shared' \in BOOLEAN
  /\ UNCHANGED <<row, attempts, swept>>

(* A replay that overlapped writes what it believes of a row.              *)
Overwrite(m) ==
  /\ shared /\ row[m] \notin {"none", "gone"}
  /\ row'[m] \in Statuses \ {"none", "gone"} /\ attempts'[m] \in Nat
  /\ row' = [row EXCEPT ![m] = row'[m]]
  /\ attempts' = [attempts EXCEPT ![m] = attempts'[m]]
  /\ swept' = swept \ {m}
  /\ UNCHANGED shared

Next ==
  \/ \E m \in Messages : Insert(m) \/ Claim(m) \/ Deliver(m) \/ Fail(m) \/ Overwrite(m)
  \/ Reset \/ Remove \/ Share

Spec == Init /\ [][Next]_queueVars
=============================================================================
