--------------------------- MODULE PythonRuntime ---------------------------
(***************************************************************************)
(* The invocation loop of the Python 3 runtimes (python3 and python3.9     *)
(* share bootstrap.py and fc_rapis_client.py).  The main thread polls for  *)
(* requests.  With a concurrency limit of 1 it also serves them; with any  *)
(* other limit it starts one thread per request and polls again at once.   *)
(* The threads share the handler cache, sys.modules, the lock that guards  *)
(* loading, and the process environment.                                   *)
(*                                                                         *)
(* A request's phase says where its handle_request stands; each action is  *)
(* the code between two points where another thread may run or where the   *)
(* process may be told to stop.                                            *)
(***************************************************************************)
EXTENDS Naturals, Sequences

CONSTANTS
  Requests,         \* requests the platform holds for this container
  NoRequest,        \* nobody
  HandlerOf,        \* HandlerOf[r]: the x-fc-function-handler of r
  ModuleOf,         \* ModuleOf[h]: the Python module that handler h names
  UnfoundHandlers,  \* handlers without a dot in their name or a file for their module
  MissingHandlers,  \* handlers their module does not define
  RequestFault,     \* what is wrong with r's headers, see Faults
  Concurrent,       \* FC_CONCURRENT_LIMIT is a number other than 1
  LockCreated,      \* FC_CONCURRENT_LIMIT is a number
  FromSnapshot      \* FC_SNAPSHOT_FLAG was "1" when the process started

\* What user code and the platform may do in a run, and how often.
CONSTANTS
  LoadOutcomes,      \* how a module body may end
  RunOutcomes,       \* how a handler may end
  Credentials,       \* how many credentials a restore replaces, in their order
  CredentialHeaders, \* which of them a request brings: "set", "empty" or "absent"
  Sigterm,           \* the platform may send SIGTERM
  MaxPostFailures    \* posts of the native client that raise

Handlers == DOMAIN ModuleOf
Modules == {ModuleOf[h] : h \in Handlers}

\* "type": x-fc-function-type is not a number; "context": another header that
\* the context needs is missing; "handler": x-fc-function-handler is missing.
Faults == {"none", "type", "context", "handler"}

ASSUME ModeAssumption ==
  /\ NoRequest \notin Requests
  /\ HandlerOf \in [Requests -> Handlers]
  /\ UnfoundHandlers \subseteq Handlers
  /\ MissingHandlers \subseteq Handlers
  /\ RequestFault \in [Requests -> Faults]
  /\ Concurrent \in BOOLEAN
  /\ LockCreated \in BOOLEAN
  /\ FromSnapshot \in BOOLEAN
  /\ Concurrent => LockCreated

ASSUME EnvironmentAssumption ==
  /\ LoadOutcomes \subseteq {"done", "fails", "exits"}
  /\ RunOutcomes \subseteq {"result", "error", "raises", "exits"}
  /\ Credentials \in Nat
  /\ CredentialHeaders \subseteq [1 .. Credentials -> {"set", "empty", "absent"}]
  /\ Sigterm \in BOOLEAN
  /\ MaxPostFailures \in Nat

VARIABLES
  main,         \* what the main thread does: "polling", "busy", "stopped"
  phase,        \* phase[r]: how far r's handling has come
  lock,         \* the request whose thread holds global_concurrent_lock
  modules,      \* user modules in sys.modules
  cached,       \* handlers in global_handlers
  endLog,       \* endLog[r]: r's last "End RequestId" line
  replies,      \* replies[r]: what was posted for r, in order
  postFailures, \* how many posts have raised
  redirect,     \* global_fc_workdir_redirect
  workdir,      \* the working directory: "root" or "default"
  credentials,  \* each in os.environ: "placeholder" or "request"
  brought       \* history: the headers of the reply that a restore was made with

loadVars == <<lock, modules, cached>>
postVars == <<endLog, replies, postFailures>>
snapshotVars == <<redirect, workdir, credentials, brought>>
vars == <<main, phase, loadVars, postVars, snapshotVars>>

-----------------------------------------------------------------------------
Loading == {"recheck", "import", "body", "bind"}
Posting == {"result", "error", "lastError"}
Ended == {"done", "dropped", "dead"}
Phases == {"inbox", "taken", "begin", "lookup", "acquire", "run"}
            \cup Loading \cup Posting \cup Ended

\* The type of every variable.
TypeOK ==
  /\ main \in {"polling", "busy", "stopped"}
  /\ phase \in [Requests -> Phases]
  /\ lock \in Requests \cup {NoRequest}
  /\ modules \subseteq Modules
  /\ cached \subseteq Handlers
  /\ endLog \in [Requests -> {"none", "handled", "unhandled"}]
  /\ replies \in [Requests -> Seq({"result", "error"})]
  /\ postFailures \in 0 .. MaxPostFailures
  /\ redirect \in BOOLEAN
  /\ workdir \in {"root", "default"}
  /\ credentials \in [1 .. Credentials -> {"placeholder", "request"}]
  /\ brought \in [1 .. Credentials -> {"set", "empty", "absent"}]

\* main() up to its loop: a process that is to be snapshotted goes to the root
\* directory and has placeholders for credentials.
Init ==
  /\ main = "polling"
  /\ phase = [r \in Requests |-> "inbox"]
  /\ lock = NoRequest
  /\ modules = {}
  /\ cached = {}
  /\ endLog = [r \in Requests |-> "none"]
  /\ replies = [r \in Requests |-> <<>>]
  /\ postFailures = 0
  /\ redirect = FromSnapshot
  /\ workdir = IF FromSnapshot THEN "root" ELSE "default"
  /\ credentials = [c \in 1 .. Credentials |-> IF FromSnapshot THEN "placeholder" ELSE "request"]
  /\ brought = [c \in 1 .. Credentials |-> "set"]

-----------------------------------------------------------------------------
(* Threads.                                                                *)

\* The thread that serves r exists and may take a step.
Serving(r) == Concurrent \/ main = "busy"

Enter(r, p) == phase' = [phase EXCEPT ![r] = p]

Continue(r, p) ==
  /\ Enter(r, p)
  /\ UNCHANGED main

\* handle_request returns, or an Exception leaves it: the thread ends, and in
\* single mode main() takes the next turn of its loop.
EndHandling(r, p) ==
  /\ Enter(r, p)
  /\ main' = IF Concurrent THEN main ELSE "polling"

\* SystemExit leaves handle_request: it is no Exception.  The thread ends
\* without a word; in single mode it is the main thread.
Exit(r) ==
  /\ Enter(r, "dead")
  /\ main' = IF Concurrent THEN main ELSE "stopped"

-----------------------------------------------------------------------------
(* main(): polling, restoring after a snapshot, starting handle_request.   *)
(* A poll that raises is logged and repeated: it changes nothing.          *)

\* A poll returns with r.
Take(r) ==
  /\ main = "polling"
  /\ ~redirect
  /\ phase[r] = "inbox"
  /\ main' = "busy"
  /\ Enter(r, "taken")
  /\ UNCHANGED <<loadVars, postVars, snapshotVars>>

\* Mutant of RestoreEnvironment: an empty header ends it as an absent one does.
RestoreEnvironmentToGap(header) ==
  /\ credentials' = [c \in 1 .. Credentials |->
       IF \A d \in 1 .. c : header[d] = "set" THEN "request" ELSE credentials[c]]
  /\ brought' = header

\* Only an empty header is skipped.  os.environ takes no None: at an absent one
\* a TypeError leaves the rest as it was.
RestoreEnvironment(header) ==
  /\ credentials' = [c \in 1 .. Credentials |->
       IF header[c] = "set" /\ \A d \in 1 .. c : header[d] # "absent"
       THEN "request" ELSE credentials[c]]
  /\ brought' = header

\* Mutant of RestoreWorkdir: the flag is cleared, the directory is kept.
ForgetWorkdir ==
  /\ redirect' = FALSE
  /\ UNCHANGED workdir

\* os.chdir(global_default_workdir), once.
RestoreWorkdir ==
  /\ redirect' = FALSE
  /\ workdir' = "default"

\* The first poll after a restore.  With an absent header a TypeError ends the
\* turn of the loop: r is dropped and the environment is never restored.
TakeAfterRestore(r, header) ==
  /\ main = "polling"
  /\ redirect
  /\ phase[r] = "inbox"
  /\ RestoreWorkdir
  /\ RestoreEnvironment(header)
  /\ IF \E c \in 1 .. Credentials : header[c] = "absent"
       THEN EndHandling(r, "dropped") /\ UNCHANGED <<loadVars, postVars>>
       ELSE /\ main' = "busy"
            /\ Enter(r, "taken")
            /\ UNCHANGED <<loadVars, postVars>>

\* The unblocking client does not look at the status of a reply: one without an
\* invocation is taken for an invocation without headers.  It has nobody to
\* answer, and nothing comes of its thread, but it is what a restore is made
\* with: the directory is restored and no credential is.
TakeErrorReply ==
  /\ Concurrent
  /\ main = "polling"
  /\ redirect
  /\ RestoreWorkdir
  /\ RestoreEnvironment([c \in 1 .. Credentials |-> "absent"])
  /\ UNCHANGED <<main, phase, loadVars, postVars>>

\* FCHandler(...) and handle_request() or Thread(...).start().  int() of a bad
\* function type raises, and main() goes on with the next request.
StartHandler(r) ==
  /\ main = "busy"
  /\ phase[r] = "taken"
  /\ Enter(r, IF RequestFault[r] = "type" THEN "dropped" ELSE "begin")
  /\ main' = IF RequestFault[r] = "type" \/ Concurrent THEN "polling" ELSE "busy"
  /\ UNCHANGED <<loadVars, postVars, snapshotVars>>

\* dump_stacks: sys.exit in the main thread, which is not inside the native
\* client.  Other threads are no daemons and run on.
Terminate ==
  /\ Sigterm
  /\ \/ main = "busy"
     \/ main = "polling" /\ Concurrent
  /\ main' = "stopped"
  /\ UNCHANGED <<phase, loadVars, postVars, snapshotVars>>

-----------------------------------------------------------------------------
(* Answering: print_end_log, then a post of the native client.             *)

\* Mutant of LogEnd: the error path does not print its own end line.
LogEndOnce(r, how) ==
  endLog' = [endLog EXCEPT ![r] = IF @ = "none" THEN how ELSE @]

\* print_end_log.
LogEnd(r, how) == endLog' = [endLog EXCEPT ![r] = how]

\* print_end_log(True); the result is posted next.
SendResult(r) ==
  /\ LogEnd(r, "handled")
  /\ Continue(r, "result")
  /\ UNCHANGED <<replies, postFailures>>

\* invalid_handler, or send_error inside the try of handle_request.
SendError(r) ==
  /\ LogEnd(r, "unhandled")
  /\ Continue(r, "error")
  /\ UNCHANGED <<replies, postFailures>>

\* The except of handle_request: send_error outside of the try.
SendLastError(r) ==
  /\ LogEnd(r, "unhandled")
  /\ Continue(r, "lastError")
  /\ UNCHANGED <<replies, postFailures>>

\* Mutant of PostSucceeds: handle_request goes on after it posted the result.
PostFallsThrough(r) ==
  /\ Serving(r)
  /\ phase[r] \in Posting
  /\ replies' = [replies EXCEPT ![r] =
                   Append(@, IF phase[r] = "result" THEN "result" ELSE "error")]
  /\ IF phase[r] = "result" THEN Continue(r, "error") ELSE EndHandling(r, "done")
  /\ UNCHANGED <<loadVars, endLog, postFailures, snapshotVars>>

\* The post that r's phase calls for succeeds.
PostSucceeds(r) ==
  /\ Serving(r)
  /\ phase[r] \in Posting
  /\ replies' = [replies EXCEPT ![r] =
                   Append(@, IF phase[r] = "result" THEN "result" ELSE "error")]
  /\ EndHandling(r, "done")
  /\ UNCHANGED <<loadVars, endLog, postFailures, snapshotVars>>

\* It raises, and nothing was delivered.  Inside the try, an error is posted in
\* place of what was lost; outside, the exception leaves handle_request.
PostRaises(r) ==
  /\ Serving(r)
  /\ phase[r] \in Posting
  /\ postFailures < MaxPostFailures
  /\ postFailures' = postFailures + 1
  /\ IF phase[r] = "lastError"
       THEN EndHandling(r, "dropped") /\ UNCHANGED endLog
       ELSE Continue(r, "lastError") /\ LogEnd(r, "unhandled")
  /\ UNCHANGED <<loadVars, replies, snapshotVars>>

-----------------------------------------------------------------------------
(* handle_request up to the handler: the context, and loading under a lock *)
(* with a check of the cache before and after taking it.                   *)

\* print_start_log and get_handler.
Begin(r) ==
  /\ Serving(r)
  /\ phase[r] = "begin"
  /\ IF RequestFault[r] = "context"
       THEN SendLastError(r)
       ELSE Continue(r, "lookup") /\ UNCHANGED postVars
  /\ UNCHANGED <<loadVars, snapshotVars>>

\* Mutant of LookupPhase: the cache is only consulted under the lock.
LookupUnderLock(r) == "acquire"

\* Mutant of LookupPhase: the lock is never taken.
LookupWithoutLock(r) ==
  IF HandlerOf[r] \in cached THEN "run" ELSE "recheck"

\* _concurrent_get_handler's own check of the cache.  The cache never holds
\* the handler None.
LookupPhase(r) ==
  CASE HandlerOf[r] \in cached /\ RequestFault[r] # "handler" -> "run"
    [] LockCreated -> "acquire"
    [] OTHER -> "recheck"

Lookup(r) ==
  /\ Serving(r)
  /\ phase[r] = "lookup"
  /\ Continue(r, LookupPhase(r))
  /\ UNCHANGED <<loadVars, postVars, snapshotVars>>

\* global_concurrent_lock.acquire().
Acquire(r) ==
  /\ Serving(r)
  /\ phase[r] = "acquire"
  /\ lock = NoRequest
  /\ lock' = r
  /\ Continue(r, "recheck")
  /\ UNCHANGED <<modules, cached, postVars, snapshotVars>>

\* Mutant of Release: the lock is kept.
NoRelease == UNCHANGED lock

\* global_concurrent_lock.release(), where there is a lock.
Release == lock' = NoRequest

\* _get_handler up to the check of sys.modules.  None has no rsplit: the
\* AttributeError passes by the release of the lock.
Recheck(r) ==
  /\ Serving(r)
  /\ phase[r] = "recheck"
  /\ \/ /\ RequestFault[r] = "handler"
        /\ SendLastError(r)
        /\ UNCHANGED lock
     \/ /\ RequestFault[r] # "handler"
        /\ HandlerOf[r] \in cached
        /\ Release
        /\ Continue(r, "run")
        /\ UNCHANGED postVars
     \/ /\ RequestFault[r] # "handler"
        /\ HandlerOf[r] \in UnfoundHandlers \ cached
        /\ Release
        /\ SendError(r)
     \/ /\ RequestFault[r] # "handler"
        /\ HandlerOf[r] \notin UnfoundHandlers \cup cached
        /\ Continue(r, IF ModuleOf[HandlerOf[r]] \in modules THEN "bind" ELSE "import")
        /\ UNCHANGED <<lock, postVars>>
  /\ UNCHANGED <<modules, cached, snapshotVars>>

\* imp.load_module enters the module in sys.modules and runs its body.
StartBody(r) ==
  /\ Serving(r)
  /\ phase[r] = "import"
  /\ modules' = modules \cup {ModuleOf[HandlerOf[r]]}
  /\ Continue(r, "body")
  /\ UNCHANGED <<lock, cached, postVars, snapshotVars>>

\* The body ends.  A failure, or SystemExit, takes the module out of
\* sys.modules again; only an Exception is answered and releases the lock.
EndBody(r, outcome) ==
  /\ Serving(r)
  /\ phase[r] = "body"
  /\ modules' = IF outcome = "done" THEN modules
                                    ELSE modules \ {ModuleOf[HandlerOf[r]]}
  /\ CASE outcome = "done"  -> Continue(r, "bind") /\ UNCHANGED <<lock, postVars>>
       [] outcome = "fails" -> SendError(r) /\ Release
       [] outcome = "exits" -> Exit(r) /\ UNCHANGED <<lock, postVars>>
  /\ UNCHANGED <<cached, snapshotVars>>

\* The module's body has run to its end.
Initialised(m) ==
  /\ m \in modules
  /\ \A r \in Requests : phase[r] = "body" => ModuleOf[HandlerOf[r]] # m

\* getattr(m, fname), and the cache.
Bind(r) ==
  /\ Serving(r)
  /\ phase[r] = "bind"
  /\ Release
  /\ IF HandlerOf[r] \in MissingHandlers \/ ~Initialised(ModuleOf[HandlerOf[r]])
       THEN SendError(r) /\ UNCHANGED cached
       ELSE /\ cached' = cached \cup {HandlerOf[r]}
            /\ Continue(r, "run")
            /\ UNCHANGED postVars
  /\ UNCHANGED <<modules, snapshotVars>>

\* The handler ends: with a value or an error that execute_request_handler (or
\* wsgi_wrapper) turns into a response, with an Exception it does not catch
\* (a result that json refuses with a ValueError), or with SystemExit.
EndRun(r, outcome) ==
  /\ Serving(r)
  /\ phase[r] = "run"
  /\ CASE outcome = "result" -> SendResult(r)
       [] outcome = "error"  -> SendError(r)
       [] outcome = "raises" -> SendLastError(r)
       [] outcome = "exits"  -> Exit(r) /\ UNCHANGED postVars
  /\ UNCHANGED <<loadVars, snapshotVars>>

-----------------------------------------------------------------------------
\* The states the process may rest in: the poll blocks because the platform
\* has nothing more to hand out, or the main thread has ended.
Rest ==
  /\ \/ main = "polling" /\ \A r \in Requests : phase[r] # "inbox"
     \/ main = "stopped"
  /\ UNCHANGED vars

HandleRequest(r) ==
  \/ Begin(r)
  \/ Lookup(r)
  \/ Acquire(r)
  \/ Recheck(r)
  \/ StartBody(r)
  \/ \E outcome \in LoadOutcomes : EndBody(r, outcome)
  \/ Bind(r)
  \/ \E outcome \in RunOutcomes : EndRun(r, outcome)
  \/ PostSucceeds(r)
  \/ PostRaises(r)

Next ==
  \/ \E r \in Requests :
       \/ Take(r)
       \/ \E header \in CredentialHeaders : TakeAfterRestore(r, header)
       \/ StartHandler(r)
       \/ HandleRequest(r)
  \/ TakeErrorReply
  \/ Terminate
  \/ Rest

Spec == Init /\ [][Next]_vars

-----------------------------------------------------------------------------
(* Safety.                                                                 *)

\* The End line of a request and its answer agree, also when the post of a
\* result raised after "End" had been printed and an error went out instead
\* (handle_request, send_error).
AnswerAgreesWithLog ==
  \A r \in Requests :
    replies[r] # <<>> =>
      endLog[r] = IF replies[r][1] = "result" THEN "handled" ELSE "unhandled"

\* The body of a module is not run while the module is loaded or being loaded
\* by another thread (the lock, and _get_handler's check of sys.modules).
ModuleBodyRunsOnce ==
  [][\A r \in Requests :
       phase[r] = "import" /\ phase'[r] = "body"
         => ModuleOf[HandlerOf[r]] \notin modules]_vars

\* HandlerNotFound is only answered for handlers that do not exist, never
\* because another thread had not finished loading the module.
NotFoundIsTrue ==
  [][\A r \in Requests :
       phase[r] = "bind" /\ phase'[r] = "error"
         => HandlerOf[r] \in MissingHandlers]_vars

\* "restore the workspace to default before invoke user function": no user code,
\* not even a module body, runs in the directory that the snapshot was made in.
\* Nor does it with a placeholder for a credential that the restoring request
\* brought, whichever of the others are empty.  (If one is absent, user code of
\* every later request runs with the placeholders behind it.)
RestoredBeforeUserCode ==
  \A r \in Requests :
    phase[r] \in {"body", "run"} =>
      /\ workdir = "default"
      /\ (\A c \in 1 .. Credentials : brought[c] # "absent") =>
           \A c \in 1 .. Credentials : brought[c] = "set" => credentials[c] = "request"

Contract == INSTANCE InvocationContract WITH
  Kinds <- {"result", "error"},
  waiting <- {r \in Requests : phase[r] = "inbox"},
  answer <- replies

\* Each request is handed out once and answered at most once.
ContractSpec == Contract!Spec

-----------------------------------------------------------------------------
(* Inductive strengthenings, proved in PythonRuntimeProofs.                *)

\* Requests that some thread is working on.
Active == {r \in Requests : phase[r] \notin {"inbox"} \cup Ended}

\* In single mode the main thread serves one request, or polls.
SingleInv ==
  ~Concurrent =>
    /\ \A r, s \in Active : r = s
    /\ main = "polling" => Active = {}

\* Whoever is loading holds the lock, if there is one; what it saw of
\* sys.modules is still so.
LockInv ==
  /\ LockCreated => \A r \in Requests : phase[r] \in Loading => lock = r
  /\ \A r \in Requests :
       /\ phase[r] = "import" => ModuleOf[HandlerOf[r]] \notin modules
       /\ phase[r] \in {"body", "bind"} => ModuleOf[HandlerOf[r]] \in modules

\* An answer is the end of a request, and the End line is printed before it.
AnswerInv ==
  \A r \in Requests :
    /\ phase[r] # "done" => replies[r] = <<>>
    /\ phase[r] = "done" =>
         \/ replies[r] = <<"result">> /\ endLog[r] = "handled"
         \/ replies[r] = <<"error">> /\ endLog[r] = "unhandled"
    /\ phase[r] = "result" => endLog[r] = "handled"
    /\ phase[r] \in {"error", "lastError"} => endLog[r] = "unhandled"

\* Nothing is taken before the restore, and the restore is done once.
RestoreInv ==
  /\ redirect => \A r \in Requests : phase[r] = "inbox"
  /\ ~redirect => workdir = "default"
  /\ ~redirect =>
       \A c \in 1 .. Credentials :
         brought[c] = "set" /\ (\A d \in 1 .. c : brought[d] # "absent") => credentials[c] = "request"
=============================================================================
