-------------------------- MODULE MCPythonRuntime --------------------------
(***************************************************************************)
(* PythonRuntime for TLC, in both of its ways to serve requests:           *)
(*                                                                         *)
(*   threads   a thread per request, which is what the constants of the    *)
(*             configuration say;                                          *)
(*   single    one request at a time, for which the constants that differ  *)
(*             are given here.                                             *)
(*                                                                         *)
(* The mode is chosen by the initial state and never changes; the          *)
(* properties of PythonRuntime are checked in both.  The initializer and   *)
(* the handler are functions of one module, as they usually are.           *)
(***************************************************************************)
EXTENDS PythonRuntime, TLC

CONSTANTS
  r1, r2, r3, r4, initializer, handler, other, main_py, other_py

VARIABLE mode

TheModuleOf ==
  initializer :> main_py @@ handler :> main_py @@ other :> other_py

\* The initializer, then requests for the handler.
SameModule ==
  [r \in Requests |-> IF r = r1 THEN initializer ELSE handler]

\* One request names no handler, another lacks a header of the context.
NamelessHandler ==
  [r \in Requests |-> CASE r = r3 -> "handler" [] r = r4 -> "context" [] OTHER -> "none"]

\* One request has a bad function type, another lacks a header of the context.
HeaderFaults ==
  [r \in Requests |-> CASE r = r1 -> "type" [] r = r4 -> "context" [] OTHER -> "none"]

\* Every credential is set, or each is set, empty or absent.
SetCredentials == {[c \in 1 .. Credentials |-> "set"]}
AnyCredentials == [1 .. Credentials -> {"set", "empty", "absent"}]

Single == INSTANCE PythonRuntime WITH
  RequestFault <- HeaderFaults, MissingHandlers <- {},
  Concurrent <- FALSE, LockCreated <- FALSE, CredentialHeaders <- AnyCredentials

-----------------------------------------------------------------------------
\* The modes start alike.
ModesInit == mode \in {"threads", "single"} /\ Init

ModesNext ==
  \/ mode = "threads" /\ Next /\ UNCHANGED mode
  \/ mode = "single" /\ Single!Next /\ UNCHANGED mode

ModesSpec == ModesInit /\ [][ModesNext]_<<vars, mode>>
=============================================================================
