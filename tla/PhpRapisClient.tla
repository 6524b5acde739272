--------------------------- MODULE PhpRapisClient ---------------------------
(***************************************************************************)
(* The client with which the PHP runtime polls the platform and posts      *)
(* answers.  "native" is the extension native_rapis_client.so; "fallback"  *)
(* is rapis.php, used where the extension lacks get_next: a process has    *)
(* one of them, from its start to its end.  The operators say what one     *)
(* HTTP exchange with the platform comes to: which headers of a polled     *)
(* request reach the runtime, and whether a posted answer arrives, as what, *)
(* and what the caller sees of it.                                         *)
(***************************************************************************)
EXTENDS Integers

VARIABLE client   \* the client of this process

Clients == {"native", "fallback"}

Credentials == {"access-key-id", "access-key-secret", "security-token", "instance-id"}

\* The request headers that the runtime tells apart.
Headers ==
  Credentials \cup {"request-id", "function-type", "handler", "http-params", "deadline"}

\* One exchange: whether the platform replied, with which status, and whether
\* its reply has a body.
Replies == [made : BOOLEAN, status : Int, body : BOOLEAN]

isSuccess(code) == code \in 200 .. 299

-----------------------------------------------------------------------------
(* Polling.                                                                *)

\* The headers that the fallback copies one by one; the deadline is written
\* back to the reply by mistake, and the instance id is not known to it.
CopiedHeaders == Headers \ {"deadline", "instance-id"}

\* The headers that get_next hands to the runtime.
Given(headers) ==
  IF client = "fallback" THEN headers \cap CopiedHeaders ELSE headers

\* get_next returns a request.  Anything else comes back as a string.
Polled(reply, headers) ==
  /\ reply.made
  /\ isSuccess(reply.status)
  /\ "request-id" \in headers

-----------------------------------------------------------------------------
(* Posting.                                                                *)

Kinds == {"result", "http", "error"}

\* What the platform takes a posted answer for.  The fallback compares the
\* HTTP parameters with 0 before it takes their length: they are never sent.
ArrivesAs(kind) ==
  IF client = "fallback" /\ kind = "http" THEN "result" ELSE kind

\* The platform accepted the answer.
Delivered(reply) ==
  /\ reply.made
  /\ isSuccess(reply.status)

\* do_post gives curl an array without the element that writeData appends to.
\* Once user code's error handler is installed, the notice is an exception:
\* a reply with a body makes a post raise, delivered or not.
PostRaises(reply, strict) ==
  /\ client = "fallback"
  /\ strict
  /\ reply.made
  /\ reply.body
=============================================================================
