--------------------------- MODULE TenantRuntime ---------------------------
(***************************************************************************)
(* The message server in a tenant's container (message-server.js): each    *)
(* POST /message is a request of its own, which runs the agent up to       *)
(* MAX_RETRIES times with a pause in between and answers 200, 500 or, when *)
(* the request does not pass its checks, 401 or 400.  The server keeps no  *)
(* queue and does not notice a caller that has gone: its runs go on, beside *)
(* those of the caller's next request.                                     *)
(***************************************************************************)
EXTENDS Integers, FiniteSets

CONSTANTS
  Messages,     \* messages of the tenant, numbered by created_at
  Calls,        \* callers, each with at most one request it waits for
  MAX_RETRIES   \* agent runs per request

ASSUME RuntimeAssumption ==
  /\ Messages \subseteq Nat \ {0}
  /\ MAX_RETRIES \in Nat \ {0}

VARIABLES
  request,    \* request[c]: how far the request of caller c is, or how it ended
  body,       \* body[c]: the message it carries, or 0
  tries,      \* tries[c]: attempt, the loop variable
  orphans,    \* messages of requests at work whose caller has gone
  answered    \* messages for which an agent run gave a text (history)

runtimeVars == <<request, body, tries, orphans, answered>>

(* 200 with a text; or 400, 401, 500 or no response at all.                *)
Responses == {"answered", "failed"}
Working(c) == request[c] = "running"

RuntimeTypeOK ==
  /\ request \in [Calls -> {"none", "running"} \cup Responses]
  /\ body \in [Calls -> Messages \cup {0}]
  /\ tries \in [Calls -> 0 .. MAX_RETRIES]
  /\ orphans \subseteq Messages
  /\ answered \subseteq Messages

RuntimeInit ==
  /\ request = [c \in Calls |-> "none"]
  /\ body = [c \in Calls |-> 0]
  /\ tries = [c \in Calls |-> 0]
  /\ orphans = {} /\ answered = {}

-----------------------------------------------------------------------------
(* A request                                                               *)

(* The loop variable is gone with the loop.                                *)
Ended(c) == tries' = [tries EXCEPT ![c] = 0]

Accept(c, m) ==
  /\ request[c] = "none"
  /\ request' = [request EXCEPT ![c] = "running"]
  /\ body' = [body EXCEPT ![c] = m]
  /\ tries' = [tries EXCEPT ![c] = 1]
  /\ UNCHANGED <<orphans, answered>>

(* A wrong token or a body that is no RelayMessageRequest: 401 or 400; no  *)
(* container, or one that is not up yet: no connection.                    *)
Refuse(c, m) ==
  /\ request[c] = "none"
  /\ request' = [request EXCEPT ![c] = "failed"]
  /\ body' = [body EXCEPT ![c] = m]
  /\ UNCHANGED <<tries, orphans, answered>>

(* The agent exits with 0 and some text.                                   *)
RunAnswers(c) ==
  /\ Working(c)
  /\ request' = [request EXCEPT ![c] = "answered"]
  /\ answered' = answered \cup {body[c]}
  /\ Ended(c)
  /\ UNCHANGED <<body, orphans>>

(* Mutant: one run too many.                                               *)
TriesLeftOffByOne(c) == tries[c] <= MAX_RETRIES
TriesLeft(c) == tries[c] < MAX_RETRIES

(* The agent exits with 0 and no text, exits otherwise or cannot be        *)
(* spawned: after a pause it is run again, or the end of the loop answers  *)
(* 500.                                                                    *)
RunFails(c) ==
  /\ Working(c)
  /\ \/ TriesLeft(c) /\ tries' = [tries EXCEPT ![c] = @ + 1] /\ UNCHANGED request
     \/ ~TriesLeft(c) /\ request' = [request EXCEPT ![c] = "failed"] /\ Ended(c)
  /\ UNCHANGED <<body, orphans, answered>>

RequestStep(c) == RunAnswers(c) \/ RunFails(c)

(* The caller takes the response.                                          *)
Collect(c) ==
  /\ request[c] \in Responses
  /\ request' = [request EXCEPT ![c] = "none"]
  /\ body' = [body EXCEPT ![c] = 0]
  /\ UNCHANGED <<tries, orphans, answered>>

(* Callers go: nothing tells the loops of their requests.                  *)
Leave(gone) ==
  /\ orphans' = orphans \cup {body[c] : c \in {d \in gone : Working(d)}}
  /\ request' = [c \in Calls |-> IF c \in gone THEN "none" ELSE request[c]]
  /\ body' = [c \in Calls |-> IF c \in gone THEN 0 ELSE body[c]]
  /\ tries' = [c \in Calls |-> IF c \in gone THEN 0 ELSE tries[c]]
  /\ UNCHANGED answered

(* A request nobody waits for any more gets its text, or none; there may   *)
(* be another one with the same message.                                   *)
OrphanEnds ==
  /\ \E m \in orphans :
       /\ orphans' \in {orphans, orphans \ {m}}
       /\ answered' \in {answered, answered \cup {m}}
  /\ UNCHANGED <<request, body, tries>>

(* The container is stopped or dies, with every run in it.                 *)
ContainerStops ==
  /\ request' = [c \in Calls |-> IF Working(c) THEN "failed" ELSE request[c]]
  /\ tries' = [c \in Calls |-> 0]
  /\ orphans' = {}
  /\ UNCHANGED <<body, answered>>
=============================================================================
