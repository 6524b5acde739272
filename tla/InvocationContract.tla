------------------------- MODULE InvocationContract -------------------------
(***************************************************************************)
(* What every language runtime of the repository promises the platform     *)
(* about one request: it is handed out once, and it is answered at most    *)
(* once, with a result or with an error, after it was handed out.  The     *)
(* runtimes differ in how they get there (an event loop, a thread per      *)
(* request, a blocking loop); each runtime module maps its own state onto  *)
(* these two variables and is checked to implement Spec.                   *)
(*                                                                         *)
(* The contract does not promise that every request is answered: a user    *)
(* function that never replies leaves its request open for good.           *)
(***************************************************************************)
CONSTANTS
  Requests,   \* the requests the platform may hand out
  Kinds       \* what an answer may be, e.g. {"result", "error"}

VARIABLES
  waiting,    \* requests the platform still holds
  answer      \* answer[r]: the answers the platform got for r

contractVars == <<waiting, answer>>

Init ==
  /\ waiting = Requests
  /\ answer = [r \in Requests |-> <<>>]

\* A runtime receives request r from the platform.
Take(r) ==
  /\ r \in waiting
  /\ waiting' = waiting \ {r}
  /\ UNCHANGED answer

\* A runtime answers r, once.
Answer(r, k) ==
  /\ r \in Requests \ waiting
  /\ answer[r] = <<>>
  /\ answer' = [answer EXCEPT ![r] = <<k>>]
  /\ UNCHANGED waiting

Next ==
  \E r \in Requests :
    \/ Take(r)
    \/ \E k \in Kinds : Answer(r, k)

Spec == Init /\ [][Next]_contractVars
=============================================================================
