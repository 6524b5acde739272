---------------------------- MODULE MCPhpRuntime ----------------------------
(***************************************************************************)
(* PhpRuntime for TLC: the platform's replies, and requests whose headers  *)
(* and files differ.                                                       *)
(***************************************************************************)
EXTENDS PhpRuntime, TLC

CONSTANTS r1, r2, r3, r4, main_php, other_php

Reply(status, body) == [made |-> TRUE, status |-> status, body |-> body]
NoReply == [made |-> FALSE, status |-> 0, body |-> FALSE]

\* At the borders of a success, with no connection, and with an error page.
AnyReplies ==
  {Reply(200, FALSE), Reply(299, TRUE), Reply(199, FALSE), Reply(300, TRUE), NoReply}

\* r2 is an HTTP request; r3 lacks its security token, r4 its handler.  In
\* PhpLoop.cfg r1 has a bad type, which ends it with the extension.
TheHeadersOf ==
  [r \in Requests |->
     Headers \ CASE r = r2 -> {}
                  [] r = r3 -> {"http-params", "security-token"}
                  [] r = r4 -> {"handler"}
                  [] OTHER  -> {"http-params"}]

\* The function of r1 is in the file of r3, if that was included; the file of r3
\* may also declare the one of r2 and r4, which is in theirs.
TheFileOf == [r \in Requests |-> IF r = r3 THEN other_php ELSE main_php]
TheFunctionOf == [r \in Requests |-> IF r \in {r1, r3} THEN "hook" ELSE "handler"]
TheDeclarations ==
  {[f \in Files |-> IF f = main_php THEN {"handler"} ELSE d] : d \in {{"hook"}, {"hook", "handler"}}}
=============================================================================
