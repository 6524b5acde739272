--------------------------- MODULE Python2Runtime ---------------------------
(***************************************************************************)
(* The Python 2 runtime, python2/bootstrap.py: the start, and the loop     *)
(* that polls, loads, calls and answers, one request after another.  It    *)
(* looks for the file of a module before every load that its own cache     *)
(* does not spare, also if the module is in sys.modules.                   *)
(***************************************************************************)
EXTENDS Naturals, Sequences

CONSTANTS
  Requests, NoRequest,
  HandlerOf,       \* the x-fc-function-handler of a request
  ModuleOf,        \* the module of a handler
  WithoutDot,      \* handlers that are no "<module>.<function>"
  Missing,         \* handlers that their module does not define
  HttpRequests,    \* requests with x-fc-http-params
  BadContext,      \* requests without a header that the context needs
  Environments,    \* sets of names of variables that the process may start with
  MaxPostFailures

Handlers == DOMAIN ModuleOf
Modules == {ModuleOf[h] : h \in Handlers}
Tellings == Handlers \X {"called", "not found"}

ASSUME Python2Assumption ==
  /\ NoRequest \notin Requests
  /\ HandlerOf \in [Requests -> Handlers]
  /\ MaxPostFailures \in Nat

VARIABLES
  env,             \* the names in os.environ
  stage,           \* "boot", "poll", "body", "run", "result", "error",
                   \* "lastError" or "ended"
  request,         \* the request at hand
  inbox,           \* requests that were not polled yet
  files,           \* modules whose file exists
  modules,         \* user modules in sys.modules
  global_handlers, \* the cache
  endLog,          \* the last end line of every request
  replies,         \* what was posted for every request, in order
  told,            \* history: <<handler, "called" or "not found">>, in order
  postFailures

vars == <<env, stage, request, inbox, files, modules, global_handlers, endLog,
          replies, told, postFailures>>
loaded == <<files, modules, global_handlers, told>>
posted == <<endLog, replies, postFailures>>

\* The type of every variable.
TypeOK ==
  /\ stage \in {"boot", "poll", "body", "run", "result", "error", "lastError", "ended"}
  /\ request \in Requests \cup {NoRequest}
  /\ inbox \subseteq Requests
  /\ files \subseteq Modules /\ modules \subseteq Modules
  /\ global_handlers \subseteq Handlers
  /\ told \in Seq(Tellings)
  /\ endLog \in [Requests -> {"none", "handled", "unhandled"}]
  /\ replies \in [Requests -> Seq({"result", "error"})]
  /\ postFailures \in 0 .. MaxPostFailures

Init ==
  /\ env \in Environments
  /\ stage = "boot"
  /\ request = NoRequest
  /\ inbox = Requests
  /\ files \in SUBSET Modules
  /\ modules = {}
  /\ global_handlers = {}
  /\ endLog = [r \in Requests |-> "none"]
  /\ replies = [r \in Requests |-> <<>>]
  /\ told = <<>>
  /\ postFailures = 0

-----------------------------------------------------------------------------

\* The names in use here that begin with FC_ and are not in SAFE_ENV.
UnsafeNames == {"FC_RUNTIME_API", "FC_SERVER_PATH"}

\* main() up to its loop.  Without the log descriptor the sink raises and the
\* except clause has no logger yet; without the address there is no client to
\* post the init error: the process ends, and its environment with it.
Boot ==
  /\ stage = "boot"
  /\ IF {"FC_FUNC_CODE_PATH", "_FC_LOG_FD", "FC_RUNTIME_API"} \subseteq env
     THEN stage' = "poll" /\ env' = env \ (UnsafeNames \cup {"_FC_LOG_FD"})
     ELSE stage' = "ended" /\ UNCHANGED env
  /\ UNCHANGED <<request, inbox, loaded, posted>>

LogEnd(r, how) == endLog' = [endLog EXCEPT ![r] = how]

\* print_end_log(True); the result is posted next.
SendResult(r) ==
  /\ LogEnd(r, "handled")
  /\ stage' = "result"
  /\ UNCHANGED <<replies, postFailures>>

\* The answer of invalid_handler, or send_error inside the try of
\* handle_request.
SendError(r) ==
  /\ LogEnd(r, "unhandled")
  /\ stage' = "error"
  /\ UNCHANGED <<replies, postFailures>>

\* The except clause of handle_request.
SendLastError(r) ==
  /\ LogEnd(r, "unhandled")
  /\ stage' = "lastError"
  /\ UNCHANGED <<replies, postFailures>>

Tell(h, what) == told' = Append(told, <<h, what>>)

\* invalid_handler: request r's handler cannot be found or loaded.
NotFound(r) == SendError(r) /\ Tell(HandlerOf[r], "not found")

\* Mutant of Cache: a found handler is not kept.
CacheNothing(h) == UNCHANGED global_handlers

Cache(h) == global_handlers' = global_handlers \cup {h}

\* wsgi_wrapper builds the environment before its try and before the handler.
Call(r) ==
  \/ /\ stage' = "run"
     /\ Tell(HandlerOf[r], "called")
     /\ UNCHANGED posted
  \/ r \in HttpRequests /\ SendLastError(r) /\ UNCHANGED told

\* The end of _get_handler: what the module defines.
Bind(r) ==
  IF HandlerOf[r] \in Missing
  THEN NotFound(r) /\ UNCHANGED global_handlers
  ELSE Cache(HandlerOf[r]) /\ Call(r)

\* gen_fc_context raises for a header that is missing or no number.
ContextRaises(r) == r \in BadContext

\* A poll returns with r: handle_request up to user code.
Take(r) ==
  LET h == HandlerOf[r] IN
  /\ stage = "poll"
  /\ r \in inbox
  /\ inbox' = inbox \ {r}
  /\ request' = r
  /\ \/ ContextRaises(r) /\ SendLastError(r) /\ UNCHANGED <<global_handlers, told>>
     \/ /\ ~ContextRaises(r) /\ h \in global_handlers
        /\ Call(r) /\ UNCHANGED global_handlers
     \/ /\ ~ContextRaises(r) /\ h \notin global_handlers
        /\ \/ /\ h \in WithoutDot \/ ModuleOf[h] \notin files
              /\ NotFound(r) /\ UNCHANGED global_handlers
           \/ /\ h \notin WithoutDot /\ ModuleOf[h] \in files \cap modules
              /\ Bind(r)
           \/ /\ h \notin WithoutDot /\ ModuleOf[h] \in files \ modules
              /\ stage' = "body" /\ UNCHANGED <<global_handlers, told, posted>>
  /\ UNCHANGED <<env, files, modules>>

\* The module's body ends, or raises: then it is not in sys.modules.
EndBody ==
  /\ stage = "body"
  /\ modules' = modules \cup {ModuleOf[HandlerOf[request]]}
  /\ Bind(request)
  /\ UNCHANGED <<env, request, inbox, files>>

BodyRaises ==
  /\ stage = "body"
  /\ NotFound(request)
  /\ UNCHANGED <<env, request, inbox, files, modules, global_handlers>>

\* User code removes the file of a module.
RemoveFile(m) ==
  /\ stage = "run"
  /\ m \in files
  /\ files' = files \ {m}
  /\ UNCHANGED <<env, stage, request, inbox, modules, global_handlers, told, posted>>

\* The handler returns, raises what its wrapper reports, or a result that only
\* the except clause of handle_request reports.
EndRun ==
  /\ stage = "run"
  /\ SendResult(request) \/ SendError(request) \/ SendLastError(request)
  /\ UNCHANGED <<env, request, inbox, loaded>>

\* Mutant of AfterPost: handle_request does not return after a result.
AfterPostFallThrough(s) == IF s = "result" THEN "error" ELSE "poll"

AfterPost(s) == "poll"

PostSucceeds ==
  /\ stage \in {"result", "error", "lastError"}
  /\ replies' = [replies EXCEPT ![request] =
                   Append(@, IF stage = "result" THEN "result" ELSE "error")]
  /\ stage' = AfterPost(stage)
  /\ UNCHANGED <<env, request, inbox, loaded, endLog, postFailures>>

\* Inside the try an error is posted instead; the exception of the last post
\* goes to the loop, which logs it.
PostRaises ==
  /\ stage \in {"result", "error", "lastError"}
  /\ postFailures < MaxPostFailures
  /\ postFailures' = postFailures + 1
  /\ IF stage = "lastError"
     THEN stage' = "poll" /\ UNCHANGED endLog
     ELSE stage' = "lastError" /\ LogEnd(request, "unhandled")
  /\ UNCHANGED <<env, request, inbox, loaded, replies>>

\* SystemExit, of user code or of dump_stacks, is no Exception.
Exit ==
  /\ stage \in {"body", "run", "result", "error", "lastError"}
  /\ stage' = "ended"
  /\ UNCHANGED <<env, request, inbox, loaded, posted>>

\* The poll blocks, or the process has ended.
Rest ==
  /\ stage = "ended" \/ (stage = "poll" /\ inbox = {})
  /\ UNCHANGED vars

Next ==
  \/ Boot
  \/ \E r \in Requests : Take(r)
  \/ EndBody \/ BodyRaises
  \/ \E m \in Modules : RemoveFile(m)
  \/ EndRun \/ PostSucceeds \/ PostRaises \/ Exit \/ Rest

Spec == Init /\ [][Next]_vars

-----------------------------------------------------------------------------
(* Properties.                                                             *)

Contract == INSTANCE InvocationContract WITH
  Kinds <- {"result", "error"}, waiting <- inbox, answer <- replies

\* Each request is handed out once and answered at most once, also when posts
\* raise after the end line was printed.
ContractSpec == Contract!Spec

\* A request's answer and its last end line agree, and once a handler was
\* called no later request is told that it cannot be found, whatever became of
\* its file.
ServedStaysServed ==
  /\ \A r \in Requests : replies[r] # <<>> =>
       endLog[r] = IF replies[r][1] = "result" THEN "handled" ELSE "unhandled"
  /\ \A i, j \in DOMAIN told :
       i < j /\ told[i][1] = told[j][1] /\ told[i][2] = "called" => told[j][2] = "called"

-----------------------------------------------------------------------------
(* Inductive strengthenings, proved in PythonPartsProofs.               *)

\* A request has no answer while the platform holds it or while it is at hand;
\* the end line that was printed last announces the post that comes next, and
\* the answer that arrived.
LogInv ==
  /\ \A r \in inbox : replies[r] = <<>>
  /\ stage \in {"body", "run", "result", "error", "lastError"} =>
       request \in Requests \ inbox /\ replies[request] = <<>>
  /\ stage = "result" => endLog[request] = "handled"
  /\ stage \in {"error", "lastError"} => endLog[request] = "unhandled"
  /\ \A r \in Requests : replies[r] # <<>> =>
       endLog[r] = IF replies[r][1] = "result" THEN "handled" ELSE "unhandled"

\* Every handler that was called is in the cache, and a module's body only runs
\* for a handler that is not.
CacheInv ==
  /\ stage = "body" => HandlerOf[request] \notin global_handlers
  /\ \A i \in DOMAIN told : told[i][2] = "called" => told[i][1] \in global_handlers
  /\ \A i, j \in DOMAIN told :
       i < j /\ told[i][1] = told[j][1] /\ told[i][2] = "called" => told[j][2] = "called"
=============================================================================
