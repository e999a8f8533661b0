---------------------------- MODULE MessagePath ----------------------------
(***************************************************************************)
(* What the way of a Slack message promises, whichever relay runs and      *)
(* whatever is sent again, lost, timed out or restarted: a message is      *)
(* taken, given to the agent, answered and replied to in that order, and   *)
(* its row in message_queue, if it has one, never runs ahead of it: it is  *)
(* there only for a message that was taken, DELIVERED only for one that    *)
(* was answered, and it goes with the whole queue of the tenant or after   *)
(* it was DELIVERED.  A message never falls back; its row may come again.  *)
(***************************************************************************)
CONSTANT Events

VARIABLES
  phase,  \* phase[e]: how far event e has come: "sent", "taken", "given", "answered" or "replied"
  row     \* row[e]: message_queue.status of e, or "none"

pathVars == <<phase, row>>

Init ==
  /\ phase = [e \in Events |-> "sent"]
  /\ row = [e \in Events |-> "none"]

Comes(e, from, to) ==
  /\ phase[e] \in from /\ phase' = [phase EXCEPT ![e] = to]
  /\ UNCHANGED row

Take(e) == Comes(e, {"sent"}, "taken")

(* A run of the agent that fails after it began.                           *)
Give(e) == Comes(e, {"taken"}, "given")

Answer(e) == Comes(e, {"taken", "given"}, "answered")
Reply(e) == Comes(e, {"answered"}, "replied")

Writes(e, s) ==
  /\ row' = [row EXCEPT ![e] = s]
  /\ UNCHANGED phase

Store(e) == phase[e] # "sent" /\ row[e] = "none" /\ Writes(e, "PENDING")

(* By any handler of the event, also by one that comes after DELIVERED.    *)
Claim(e) == row[e] # "none" /\ Writes(e, "PROCESSING")

Deliver(e) == phase[e] \in {"answered", "replied"} /\ row[e] # "none" /\ Writes(e, "DELIVERED")

(* A restart takes rows back.                                              *)
Sweep ==
  /\ \E S \in SUBSET {e \in Events : row[e] = "PROCESSING"} :
       row' = [e \in Events |-> IF e \in S THEN "PENDING" ELSE row[e]]
  /\ UNCHANGED phase

(* The rows of a tenant go with it, and DELIVERED ones when they are old.  *)
Purge ==
  /\ row' = [e \in Events |-> "none"]
  /\ UNCHANGED phase

Reap ==
  /\ \E S \in SUBSET {e \in Events : row[e] = "DELIVERED"} :
       row' = [e \in Events |-> IF e \in S THEN "none" ELSE row[e]]
  /\ UNCHANGED phase

Next ==
  \/ \E e \in Events :
       Take(e) \/ Give(e) \/ Answer(e) \/ Reply(e) \/ Store(e) \/ Claim(e) \/ Deliver(e)
  \/ Sweep \/ Purge \/ Reap

Spec == Init /\ [][Next]_pathVars
=============================================================================
