--------------------------- MODULE NodeEnvironment ---------------------------
(***************************************************************************)
(* The process around the Node.js invocation loop: what bootstrap.js reads *)
(* from the environment, what it removes from it, the snapshot and the     *)
(* restore, the functions that prepare_code.js loads and keeps, and the    *)
(* stack of an error that sanitizer.js washes.  One request at a time.     *)
(***************************************************************************)
EXTENDS Integers, Sequences, SequencesExt

CONSTANTS
  Environments,  \* environments the process may be started with
  Invocations,   \* strings: also the credentials that a request hands over
  HandlerOf,     \* its x-fc-function-handler
  HeadersOf,     \* those of Headers that it has
  Nameless,      \* requests without x-fc-request-id
  WithoutDot     \* handlers that are no "<file>.<function>"

Handlers == {HandlerOf[r] : r \in Invocations}
Headers == {"access-key-id", "access-key-secret", "security-token", "instance-id"}

VARIABLES
  given,              \* the environment the process was started with
  env,                \* process.env
  stage,              \* "load", "wash", "start", "idle", "body", "handler", "ended"
  settings,           \* what was read of the environment
  cwd,                \* the working directory: "work", "root" or "user"
  CreateFromSnapshot,
  request,            \* the request at hand, or the last one
  fileThere,          \* the user's file exists
  required,           \* it is in the module cache of node
  exports,            \* its exports: 0 is no function, others are functions
  globalModule,       \* the functions that loadFunction keeps, 0 if none
  called,             \* history: the functions called for every handler
  restoredBy,         \* history: the request whose headers were restored, or "none"
  answers             \* history: how every request ended

\* Requests have the headers that a restore knows.
ASSUME ProcessAssumption ==
  /\ "none" \notin Invocations /\ Invocations # {}
  /\ \A r \in Invocations : HeadersOf[r] \subseteq Headers

processVars == <<given, env, stage, settings, cwd, CreateFromSnapshot, request, fileThere,
          required, exports, globalModule, called, restoredBy, answers>>
start == <<given, settings>>
user == <<fileThere, required, exports>>
history == <<called, restoredBy, answers>>

-----------------------------------------------------------------------------
(* The environment.                                                        *)

\* The names in use here that begin with FC_, and with _FC_.
FcNames == {"FC_RUNTIME_API", "FC_USE_UNBLOCK_CLIENT", "FC_ENABLE_CONCURRENT_INVOKE",
            "FC_FUNC_CODE_PATH", "FC_INSTANCE_ID", "FC_SNAPSHOT_FLAG"}
UnderscoreFcNames == {"_FC_LOG_FD"}

SAFE_ENV == {"FC_FUNC_CODE_PATH", "FC_INSTANCE_ID", "FC_SNAPSHOT_FLAG"}

\* Where the restore puts a header.
NamesOf(header) ==
  CASE header = "access-key-id"     -> {"ALIBABA_CLOUD_ACCESS_KEY_ID", "accessKeyID"}
    [] header = "access-key-secret" -> {"ALIBABA_CLOUD_ACCESS_KEY_SECRET", "accessKeySecret"}
    [] header = "security-token"    -> {"ALIBABA_CLOUD_SECURITY_TOKEN", "securityToken"}
    [] header = "instance-id"       -> {"FC_INSTANCE_ID"}

Only(e, names) == [n \in DOMAIN e \cap names |-> e[n]]
Is(e, name, value) == name \in DOMAIN e /\ e[name] = value

\* Mutant of washEnv: everything that begins with FC_ goes.
washAllEnv(e) == Only(e, DOMAIN e \ ((FcNames \cup UnderscoreFcNames) \ {"FC_INSTANCE_ID"}))

washEnv(e) == Only(e, DOMAIN e \ ((FcNames \cup UnderscoreFcNames) \ SAFE_ENV))

\* Variables that exist take the value of the header, if the request has it.
RestoreEnv(e, r) ==
  [n \in DOMAIN e \ {"FC_SNAPSHOT_FLAG"} |->
     IF \E h \in HeadersOf[r] : n \in NamesOf(h) THEN r ELSE e[n]]

-----------------------------------------------------------------------------
(* The stack of an error.  A frame is where its file lies.                 *)

\* The index of the first frame of the runtime, or the one behind the last frame.
FirstRuntimeFrame(frames) ==
  CHOOSE i \in 1 .. Len(frames) + 1 :
    /\ i <= Len(frames) => frames[i] = "runtime"
    /\ \A j \in 1 .. Len(frames) : j < i => frames[j] # "runtime"

\* Mutant of WashStack: only errors of the runtime's own making are washed.
WashStackMarked(frames, shouldSanitize) ==
  IF shouldSanitize
  THEN SubSeq(frames, 1, FirstRuntimeFrame(frames) - 1)
  ELSE frames

\* What is reported of frames: all if neither the runtime asked for it nor
\* user code is in them, else those in front of the first of the runtime.
WashStack(frames, shouldSanitize) ==
  IF shouldSanitize \/ Contains(frames, "user")
  THEN SubSeq(frames, 1, FirstRuntimeFrame(frames) - 1)
  ELSE frames

\* The stacks of errors: thrown by the runtime; by user code that the runtime
\* called, by node for it, and by user code in a promise; by a method of the
\* response that user code called; and one of the errors that httpparam.js made
\* when it was loaded, whose stack is still that of the loading.
RuntimeFrames == <<"runtime", "runtime">>
UserFrames == {<<"user", "runtime">>, <<"node", "user", "node", "runtime">>, <<"user">>,
               <<"runtime", "user", "runtime">>, <<"runtime", "node", "runtime">>}

-----------------------------------------------------------------------------

ProcessInit ==
  /\ given \in Environments
  /\ env = given
  /\ stage = "load"
  /\ settings = <<>>
  /\ cwd = "work"
  /\ CreateFromSnapshot = FALSE
  /\ request = CHOOSE r \in Invocations : TRUE
  /\ fileThere \in BOOLEAN
  /\ required = FALSE
  /\ exports = [h \in Handlers |-> 0]
  /\ globalModule = exports
  /\ called = [h \in Handlers |-> {}]
  /\ restoredBy = "none"
  /\ answers = <<>>

\* The sink of the runtime's log: frames for the platform, or a file in /tmp.
createSysLog(e) == IF "_FC_LOG_FD" \in DOMAIN e THEN "framed" ELSE "debug file"

UseUnblockClient(e) == Is(e, "FC_USE_UNBLOCK_CLIENT", "true")

HasCodePath(e) == "FC_FUNC_CODE_PATH" \in DOMAIN e

\* The modules read the environment as they are loaded, before it is washed.
\* The unblocking client throws without an address, which ends the process.
Load ==
  /\ stage = "load"
  /\ settings' = [sysLog |-> createSysLog(env),
                  concurrent |-> Is(env, "FC_ENABLE_CONCURRENT_INVOKE", "true"),
                  codePath |-> HasCodePath(env)]
  /\ stage' = IF UseUnblockClient(env) /\ "FC_RUNTIME_API" \notin DOMAIN env THEN "ended" ELSE "wash"
  /\ UNCHANGED <<given, env, cwd, CreateFromSnapshot, request, user, globalModule, history>>

\* The sanitizer, and the early return without a code path.
Wash ==
  /\ stage = "wash"
  /\ env' = washEnv(env)
  /\ stage' = IF settings.codePath THEN "start" ELSE "ended"
  /\ UNCHANGED <<start, cwd, CreateFromSnapshot, request, user, globalModule, history>>

\* The rest of bootstrap.js: the root directory for the snapshot.
Start ==
  /\ stage = "start"
  /\ CreateFromSnapshot' = Is(env, "FC_SNAPSHOT_FLAG", "1")
  /\ cwd' = IF CreateFromSnapshot' THEN "root" ELSE cwd
  /\ stage' = "idle"
  /\ UNCHANGED <<start, env, request, user, globalModule, history>>

\* The answer of request r: an error with its stack, or none.
Answer(r, kind, frames, shouldSanitize) ==
  /\ stage' = "idle"
  /\ answers' = [a \in DOMAIN answers \cup {r} |->
       IF a = r
       THEN [kind |-> kind, frames |-> frames, stack |-> WashStack(frames, shouldSanitize),
             own |-> shouldSanitize \/ Contains(frames, "user"), known |-> called[HandlerOf[r]] # {}]
       ELSE answers[a]]

\* Mutant of Keep: what was found is not kept.
KeepNothing(h, f) == globalModule

Keep(h, f) == [globalModule EXCEPT ![h] = f]

\* context.create comes after the function was loaded and before it is called.
CallFunction(r, f) ==
  IF r \in Nameless
  THEN Answer(r, "no id", RuntimeFrames, FALSE) /\ UNCHANGED called
  ELSE /\ stage' = "handler"
       /\ called' = [called EXCEPT ![HandlerOf[r]] = @ \cup {f}]
       /\ UNCHANGED answers

\* The end of loadFunction: f is what the module exports under the name.
FindFunction(r, f) ==
  IF f # 0 THEN globalModule' = Keep(HandlerOf[r], f) /\ CallFunction(r, f)
  ELSE /\ Answer(r, "HandlerNotFound", RuntimeFrames, TRUE)
       /\ UNCHANGED <<globalModule, called>>

\* loadFunction up to the code of the module, if that is not loaded yet.
LoadFunction(r) ==
  LET h == HandlerOf[r]
      Fails(kind) == Answer(r, kind, RuntimeFrames, TRUE) /\ UNCHANGED <<globalModule, called>>
  IN \/ /\ globalModule[h] # 0
        /\ CallFunction(r, globalModule[h])
        /\ UNCHANGED globalModule
     \/ /\ globalModule[h] = 0
        /\ \/ h \in WithoutDot /\ Fails("InvalidHandlerName")
           \/ h \notin WithoutDot /\ ~fileThere /\ Fails("ImportModuleError")
           \/ h \notin WithoutDot /\ fileThere /\ required /\ FindFunction(r, exports[h])
           \/ /\ h \notin WithoutDot /\ fileThere /\ ~required
              /\ stage' = "body"
              /\ UNCHANGED <<globalModule, called, answers>>

\* invokeFunction restores, then loads and calls the function.
InvokeFunction(r) ==
  /\ stage = "idle"
  /\ r \notin DOMAIN answers
  /\ request' = r
  /\ CreateFromSnapshot' = FALSE
  /\ IF CreateFromSnapshot
     THEN cwd' = "work" /\ env' = RestoreEnv(env, r) /\ restoredBy' = r
     ELSE UNCHANGED <<cwd, env, restoredBy>>
  /\ LoadFunction(r)
  /\ UNCHANGED <<start, user>>

\* chdir throws: the request is answered and the next one restores.
ChdirThrows(r) ==
  /\ stage = "idle"
  /\ CreateFromSnapshot
  /\ r \notin DOMAIN answers
  /\ request' = r
  /\ Answer(r, "ENOENT", RuntimeFrames, FALSE)
  /\ UNCHANGED <<start, env, cwd, CreateFromSnapshot, user, globalModule, called, restoredBy>>

\* The code of the module ends and exports found, or it throws: require
\* forgets the module then.
EndBody(found) ==
  /\ stage = "body"
  /\ required' = TRUE
  /\ exports' = found
  /\ FindFunction(request, found[HandlerOf[request]])
  /\ UNCHANGED <<start, env, cwd, CreateFromSnapshot, request, fileThere, restoredBy>>

BodyThrows(frames) ==
  /\ stage = "body"
  /\ Answer(request, "body", frames, FALSE)
  /\ UNCHANGED <<start, env, cwd, CreateFromSnapshot, request, user, globalModule, called, restoredBy>>

\* The handler answers or throws.
EndHandler ==
  /\ stage = "handler"
  /\ \/ Answer(request, "result", <<>>, FALSE)
     \/ \E frames \in UserFrames : Answer(request, "error", frames, FALSE)
  /\ UNCHANGED <<start, env, cwd, CreateFromSnapshot, request, user, globalModule, called, restoredBy>>

\* User code removes its file, changes directory, or its exports.
UserChanges ==
  /\ stage = "handler"
  /\ \/ fileThere' = FALSE /\ UNCHANGED <<cwd, exports>>
     \/ cwd' = "user" /\ UNCHANGED <<fileThere, exports>>
     \/ \E h \in Handlers, f \in 0 .. 2 :
          exports' = [exports EXCEPT ![h] = f] /\ UNCHANGED <<fileThere, cwd>>
  /\ UNCHANGED <<start, env, stage, CreateFromSnapshot, request, required, globalModule, history>>

\* The process ended, or waits for a request.
ProcessRest == stage \in {"idle", "ended"} /\ UNCHANGED processVars

ProcessNext ==
  \/ Load \/ Wash \/ Start
  \/ \E r \in Invocations : InvokeFunction(r) \/ ChdirThrows(r)
  \/ \E found \in [Handlers -> 0 .. 1] : EndBody(found)
  \/ \E frames \in UserFrames : BodyThrows(frames)
  \/ EndHandler \/ UserChanges \/ ProcessRest

ProcessSpec == ProcessInit /\ [][ProcessNext]_processVars

-----------------------------------------------------------------------------
(* Properties.                                                             *)

\* A process that was started for a snapshot knows it, although the variables
\* are washed before the flag is read, and waits in the root directory.  User
\* code then finds its own directory, no trace of the snapshot, and in each
\* variable that was there what the restoring request handed over.
SnapshotIsRestored ==
  /\ stage = "idle" /\ answers = <<>> =>
       (CreateFromSnapshot /\ cwd = "root" <=> Is(given, "FC_SNAPSHOT_FLAG", "1"))
  /\ stage \in {"body", "handler"} =>
       /\ ~CreateFromSnapshot /\ cwd # "root"
       /\ Is(given, "FC_SNAPSHOT_FLAG", "1") =>
            /\ restoredBy # "none" /\ "FC_SNAPSHOT_FLAG" \notin DOMAIN env
            /\ \A h \in HeadersOf[restoredBy] : \A n \in NamesOf(h) \cap DOMAIN given :
                 Is(env, n, restoredBy)

\* The stack that is reported of an error with user code in it, or of one that
\* the runtime marked, names no frame of the runtime, and keeps every frame that
\* was reached before the first of them: where the user's own code threw, the
\* user reads where.  Where a method of the response threw, nothing is left.
RuntimeStaysHidden ==
  \A r \in DOMAIN answers :
    LET stack == answers[r].stack
        frames == answers[r].frames
    IN answers[r].own =>
         /\ ~Contains(stack, "runtime")
         /\ \A i \in 1 .. Len(frames) :
              (\A j \in 1 .. i : frames[j] # "runtime") => i <= Len(stack) /\ stack[i] = frames[i]

\* Whatever user code does to its file and its exports: a handler that was
\* called once is found by every later request, and is the same function.
OnceFoundAlwaysFound ==
  /\ \A h \in Handlers : \A f, g \in called[h] : f = g
  /\ \A r \in DOMAIN answers :
       answers[r].known => answers[r].kind \notin {"HandlerNotFound", "ImportModuleError", "body"}
=============================================================================
