---------------------------- MODULE MCPythonLive ----------------------------
(***************************************************************************)
(* PythonRuntime with several threads, in two modes for the properties     *)
(* that depend on what user code does:                                     *)
(*                                                                         *)
(*   exits     module bodies may raise SystemExit, which ends their thread *)
(*             while it holds the lock;                                    *)
(*   replies   user code ends, with or without an error, and handlers are  *)
(*             missing in every way.                                       *)
(*                                                                         *)
(* The mode is chosen by the initial state and never changes; each mode is *)
(* an instance of PythonRuntime with constants of its own.                 *)
(***************************************************************************)
EXTENDS Naturals, Sequences, TLC

CONSTANTS
  Modes, r1, r2, r3, r4, NoRequest, initializer, handler, other, main_py, other_py

VARIABLES
  mode, main, phase, lock, modules, cached, endLog, replies, postFailures,
  redirect, workdir, credentials, brought

Requests == {r1, r2, r3, r4}
TheModuleOf ==
  initializer :> main_py @@ handler :> main_py @@ other :> other_py
NoFault == [r \in Requests |-> "none"]

\* Every handler, one of them twice.
AllHandlers ==
  [r \in Requests |-> CASE r = r1 -> initializer [] r = r4 -> other [] OTHER -> handler]

Exits == INSTANCE PythonRuntime WITH
  HandlerOf <- AllHandlers, ModuleOf <- TheModuleOf, UnfoundHandlers <- {},
  MissingHandlers <- {initializer}, RequestFault <- NoFault, Concurrent <- TRUE,
  LockCreated <- TRUE, FromSnapshot <- FALSE,
  LoadOutcomes <- {"done", "fails", "exits"}, RunOutcomes <- {"result"},
  Credentials <- 1, CredentialHeaders <- {<<"set">>}, Sigterm <- FALSE, MaxPostFailures <- 1

Replies == INSTANCE PythonRuntime WITH
  HandlerOf <- AllHandlers, ModuleOf <- TheModuleOf, UnfoundHandlers <- {other},
  MissingHandlers <- {initializer}, RequestFault <- NoFault, Concurrent <- TRUE,
  LockCreated <- TRUE, FromSnapshot <- FALSE,
  LoadOutcomes <- {"done", "fails"}, RunOutcomes <- {"result", "error"},
  Credentials <- 1, CredentialHeaders <- {<<"set">>}, Sigterm <- FALSE, MaxPostFailures <- 1

vars == <<mode, main, phase, lock, modules, cached, endLog, replies, postFailures,
          redirect, workdir, credentials, brought>>

\* The modes start alike.
Init == mode \in Modes /\ Exits!Init

Next ==
  \/ mode = "exits" /\ Exits!Next /\ UNCHANGED mode
  \/ mode = "replies" /\ Replies!Next /\ UNCHANGED mode

\* A step of the mode's own instance.
Step(exits, replying) ==
  \/ mode = "exits" /\ exits /\ UNCHANGED mode
  \/ mode = "replies" /\ replying /\ UNCHANGED mode

\* PythonRuntime's ThreadFairness.
Fairness ==
  \A r \in Requests :
    /\ WF_vars(Step(Exits!StartHandler(r), Replies!StartHandler(r)))
    /\ WF_vars(Step(Exits!HandleRequest(r), Replies!HandleRequest(r)))

ThreadSpec == Init /\ [][Next]_vars /\ Fairness

-----------------------------------------------------------------------------
\* A thread that died while it held global_concurrent_lock does not keep
\* requests from being served whose handler has been loaded (_get_handler).
CachedIsServed ==
  \A r \in Requests :
    mode = "exits" /\ phase[r] = "lookup" /\ AllHandlers[r] \in cached
      ~> replies[r] # <<>>

\* Every request that was taken is answered, even if one post fails on the way:
\* loading errors, missing handlers and errors of user code release what they
\* hold (handle_request of bootstrap.py).
TakenIsAnswered ==
  \A r \in Requests : mode = "replies" /\ phase[r] # "inbox" ~> replies[r] # <<>>
=============================================================================
