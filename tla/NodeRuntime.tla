---------------------------- MODULE NodeRuntime ----------------------------
(***************************************************************************)
(* The invocation loop of the Node.js runtimes for versions 8 and later    *)
(* (nodejs8, 10, 12, 14_alinode and 16_alinode share the files modelled    *)
(* here): bootstrap.js, callback.js, client.js, invoke.js and the parts of *)
(* context.js that the loop reads.                                         *)
(*                                                                         *)
(* One JavaScript thread runs everything.  A step is either a macrotask    *)
(* the event loop picks while no code runs (a setImmediate callback, the   *)
(* end of a poll, a user timer, the end of a body stream, "beforeExit"),   *)
(* or something the user code that is now running does: call its callback, *)
(* throw, return to the loop.                                              *)
(*                                                                         *)
(* The order of the setImmediate queue is left open (its members are a     *)
(* counter and a set): Node versions differ in whether promise             *)
(* continuations run between two immediates.                               *)
(***************************************************************************)
EXTENDS Naturals, Sequences

CONSTANTS
  Requests,                \* requests the platform holds for this container
  HttpRequests,            \* those that carry x-fc-http-params
  NoRequest,               \* no request
  EnableConcurrentInvoke,  \* several requests at a time (config.js)
  Clients,                 \* values of useUnblockClient that a process may start with
  RejectionsRaise,         \* an unhandled rejection is an uncaught exception (Node >= 15)
  FromSnapshot             \* FC_SNAPSHOT_FLAG was "1" when the process started

\* What user code and the platform may do in a run, and how often.
CONSTANTS
  ReplyValues,      \* what user code passes to its callback
  Faults,           \* how user code may fail, see the actions
  HandleKinds,      \* the pending work user code may leave: "ref", "unref"
  HandlesEnd,       \* user code does not leave work behind for good
  UserAlwaysReplies,\* user code finishes only after it called its callback
  StreamEnds,       \* how a body stream may end: "result", "error", "stall"
  PostsMayRaise,    \* the native client may throw instead of posting
  MaxTurns,         \* event-loop turns of one request's user code
  MaxPollFailures   \* failures of waitForInvocation

\* What becomes of a callback's arguments: a body, an error, a stream that is
\* read first, or an exception of _formatErr or _formatData.
Values == {"result", "error", "stream", "broken"}

ASSUME ModeAssumption ==
  /\ NoRequest \notin Requests
  /\ HttpRequests \subseteq Requests
  /\ EnableConcurrentInvoke \in BOOLEAN
  /\ Clients \subseteq BOOLEAN
  /\ RejectionsRaise \in BOOLEAN
  /\ FromSnapshot \in BOOLEAN

ASSUME EnvironmentAssumption ==
  /\ ReplyValues \subseteq Values
  /\ Faults \subseteq {"error", "uncaught", "nullish", "exit"}
  /\ HandleKinds \subseteq {"ref", "unref"}
  /\ HandlesEnd \in BOOLEAN
  /\ UserAlwaysReplies \in BOOLEAN
  /\ StreamEnds \subseteq {"result", "error", "stall"}
  /\ PostsMayRaise \in BOOLEAN
  /\ MaxTurns \in Nat
  /\ MaxPollFailures \in Nat

VARIABLES
  alive,        \* the process has not exited
  inbox,        \* requests the platform has not handed out (external)
  iterations,   \* setImmediate callbacks waiting to start a poll
  polls,        \* calls of waitForInvocation that have not ended
  pollFailures, \* how many have failed so far
  scheduled,    \* requests whose invokeFunction waits in setImmediate
  current,      \* the request of global[CALLBACK], this.callback, process._fc
  consumed,     \* requests whose callback has been consumed
  streams,      \* consumed requests whose body stream is being read
  replies,      \* replies[r]: what was posted for r, in order
  running,      \* the request whose user code has the thread, or NoRequest
  frame,        \* how that code was entered: "sync", "task" or "promise"
  handles,      \* handles[r]: the pending work of r's user code
  turns,        \* turns[r]: how often the loop re-entered r's user code
  stray,        \* the request whose error nobody caught and which
                \* process.on("uncaughtException") is about to get
  useUnblockClient, \* client.js polls with node's http (FC_USE_UNBLOCK_CLIENT)
  waitForEmpty, \* global.FCWaitForEmptyEventLoop
  createFromSnapshot \* global.CreateFromSnapshot

loopVars == <<iterations, polls, scheduled>>
replyVars == <<iterations, consumed, streams, replies>>
userVars == <<running, frame, handles, turns, stray>>
modeVars == <<alive, useUnblockClient, waitForEmpty, createFromSnapshot>>
platformVars == <<inbox, pollFailures>>
vars == <<loopVars, consumed, streams, replies, current, userVars, modeVars,
          platformVars>>

-----------------------------------------------------------------------------
\* The type of every variable; the two counters have no other bound.
TypeOK ==
  /\ alive \in BOOLEAN
  /\ inbox \subseteq Requests
  /\ iterations \in Nat
  /\ polls \in Nat
  /\ pollFailures \in 0 .. MaxPollFailures
  /\ scheduled \subseteq Requests
  /\ current \in Requests \cup {NoRequest}
  /\ consumed \subseteq Requests
  /\ streams \subseteq Requests
  /\ replies \in [Requests -> Seq({"result", "error"})]
  /\ running \in Requests \cup {NoRequest}
  /\ frame \in {"sync", "task", "promise"}
  /\ handles \in [Requests -> {"none", "ref", "unref"}]
  /\ turns \in [Requests -> 0 .. MaxTurns]
  /\ stray \in Requests \cup {NoRequest}
  /\ useUnblockClient \in BOOLEAN
  /\ waitForEmpty \in BOOLEAN
  /\ createFromSnapshot \in BOOLEAN

\* bootstrap.js up to line 229: the first iteration is scheduled.
Init ==
  /\ alive = TRUE
  /\ inbox = Requests
  /\ iterations = 1
  /\ polls = 0
  /\ pollFailures = 0
  /\ scheduled = {}
  /\ current = NoRequest
  /\ consumed = {}
  /\ streams = {}
  /\ replies = [r \in Requests |-> <<>>]
  /\ running = NoRequest
  /\ frame = "sync"
  /\ handles = [r \in Requests |-> "none"]
  /\ turns = [r \in Requests |-> 0]
  /\ stray = NoRequest
  /\ useUnblockClient \in Clients
  /\ waitForEmpty = FALSE
  /\ createFromSnapshot = FromSnapshot

-----------------------------------------------------------------------------
(* The event loop.                                                         *)

\* Mutant of Frozen: the unblocking client blocks the thread as well.
FrozenByAnyPoll == polls > 0

\* The native client blocks the thread inside WaitForInvocation.
Frozen == polls > 0 /\ ~useUnblockClient

\* No code runs, nor is an error on its way to the uncaughtException handler.
Idle == alive /\ running = NoRequest /\ stray = NoRequest

\* The event loop may pick a macrotask that is not the end of a poll.
LoopIsFree == Idle /\ ~Frozen

\* Work that keeps the process from "beforeExit".
LoopIsEmpty ==
  /\ iterations = 0
  /\ polls = 0
  /\ scheduled = {}
  /\ streams = {}
  /\ \A r \in Requests : handles[r] # "ref"

-----------------------------------------------------------------------------
(* callback.js: the callback handed to user code.                          *)

\* Mutant of Post: the continuation schedules an iteration in concurrent mode too.
PostAlwaysContinues(r, kind) ==
  \/ /\ replies' = [replies EXCEPT ![r] = Append(@, kind)]
     /\ iterations' = iterations + 1
  \/ /\ PostsMayRaise
     /\ UNCHANGED <<replies, iterations>>

\* Mutant of Post: the continuation runs before the native call.
PostContinuesFirst(r, kind) ==
  /\ iterations' = IF waitForEmpty \/ EnableConcurrentInvoke
                     THEN iterations
                     ELSE iterations + 1
  /\ \/ replies' = [replies EXCEPT ![r] = Append(@, kind)]
     \/ PostsMayRaise /\ UNCHANGED replies

\* client.postInvocationResult / postInvocationError and the continuation
\* that bootstrap.js passed to createInvokeCallback.  When the native call
\* throws, nothing is posted and the continuation is not called; where the
\* exception goes depends on the caller.
Post(r, kind) ==
  \/ /\ replies' = [replies EXCEPT ![r] = Append(@, kind)]
     /\ iterations' = IF waitForEmpty \/ EnableConcurrentInvoke
                        THEN iterations
                        ELSE iterations + 1
  \/ /\ PostsMayRaise
     /\ UNCHANGED <<replies, iterations>>

\* _invokeDone.  A "broken" value (a circular object, an error without a
\* stack) makes _formatData or _formatErr throw before anything is posted.
Digest(r, v) ==
  \/ /\ v \in {"result", "error"}
     /\ Post(r, v)
     /\ UNCHANGED streams
  \/ /\ v = "stream"
     /\ streams' = streams \cup {r}
     /\ UNCHANGED <<replies, iterations>>
  \/ /\ v = "broken"
     /\ UNCHANGED <<replies, iterations, streams>>

\* Mutant of Consume: isConsumed is set and never tested.
ConsumeEveryCall(r, v) ==
  /\ consumed' = consumed \cup {r}
  /\ Digest(r, v)

\* createInvokeCallback: only the first call of a request's callback counts.
Consume(r, v) ==
  IF r \in consumed
    THEN UNCHANGED replyVars
    ELSE /\ consumed' = consumed \cup {r}
         /\ Digest(r, v)

\* In a step that consumes r with an error: the native call threw.
Raised(r) == r \notin consumed /\ replies' = replies

\* global[CALLBACK](err), this.callback(err).  Before the first request the
\* handler's callback is a no-op.
FailCurrent ==
  IF current = NoRequest
    THEN UNCHANGED replyVars
    ELSE Consume(current, "error")

-----------------------------------------------------------------------------
(* bootstrap.js: polling for a request and starting its user function.     *)

\* Mutant of StartPoll: polls without having been scheduled.
StartPollUnscheduled ==
  /\ LoopIsFree
  /\ iterations' = iterations - 1
  /\ polls' = polls + 1
  /\ UNCHANGED <<scheduled, consumed, streams, replies, current, userVars,
                 modeVars, platformVars>>

\* The setImmediate callback of invokeIteration / invokeConcurrentIteration.
StartPoll ==
  /\ LoopIsFree
  /\ iterations > 0
  /\ iterations' = iterations - 1
  /\ polls' = polls + 1
  /\ UNCHANGED <<scheduled, consumed, streams, replies, current, userVars,
                 modeVars, platformVars>>

\* A poll ends with request r (the platform's choice).
EndPoll(r) ==
  /\ Idle
  /\ polls > 0
  /\ r \in inbox
  /\ polls' = polls - 1
  /\ inbox' = inbox \ {r}
  /\ UNCHANGED pollFailures

\* Mutant of InvokeFunction: the previous request's callback stays current.
InvokeFunctionKeepsCallback(r) ==
  /\ current' = IF current = NoRequest THEN r ELSE current
  /\ running' = r
  /\ frame' = "sync"
  /\ createFromSnapshot' = FALSE
  /\ UNCHANGED <<handles, turns, alive, useUnblockClient, waitForEmpty, consumed,
                 streams, replies, stray>>

\* invokeFunction up to the call of the user's handler: the callback becomes
\* the current one, and the first request after a restore ends snapshot mode.
InvokeFunction(r) ==
  /\ current' = r
  /\ running' = r
  /\ frame' = "sync"
  /\ createFromSnapshot' = FALSE
  /\ UNCHANGED <<handles, turns, alive, useUnblockClient, waitForEmpty, consumed,
                 streams, replies, stray>>

\* Mutant of TakeBlocking: schedules the next iteration like concurrent mode.
TakeBlockingAndIterate(r) ==
  /\ ~EnableConcurrentInvoke
  /\ ~useUnblockClient
  /\ EndPoll(r)
  /\ scheduled' = scheduled \cup {r}
  /\ iterations' = iterations + 1
  /\ UNCHANGED <<consumed, streams, replies, current, userVars, modeVars>>

\* handleInvocation with the native client: invokeFunction is put off once more.
TakeBlocking(r) ==
  /\ ~EnableConcurrentInvoke
  /\ ~useUnblockClient
  /\ EndPoll(r)
  /\ scheduled' = scheduled \cup {r}
  /\ UNCHANGED <<iterations, consumed, streams, replies, current, userVars,
                 modeVars>>

\* handleInvocation with the unblocking client.
TakeUnblock(r) ==
  /\ ~EnableConcurrentInvoke
  /\ useUnblockClient
  /\ EndPoll(r)
  /\ InvokeFunction(r)
  /\ UNCHANGED <<iterations, scheduled>>

\* handleConcurrentInvocation: the next iteration is scheduled first.
TakeConcurrent(r) ==
  /\ EnableConcurrentInvoke
  /\ EndPoll(r)
  /\ iterations' = iterations + 1
  /\ InvokeFunction(r)
  /\ UNCHANGED scheduled

\* The setImmediate callback of handleInvocation.
RunScheduled(r) ==
  /\ LoopIsFree
  /\ r \in scheduled
  /\ scheduled' = scheduled \ {r}
  /\ InvokeFunction(r)
  /\ UNCHANGED <<iterations, polls, platformVars>>

\* waitForInvocation fails.  In single mode invokeIteration hands the error to
\* this.callback; in concurrent mode it is only printed.  A post that throws
\* here rejects the promise of catch(), and an uncaughtException that follows
\* finds the same callback, consumed.
PollFails ==
  /\ Idle
  /\ polls > 0
  /\ pollFailures < MaxPollFailures
  /\ polls' = polls - 1
  /\ pollFailures' = pollFailures + 1
  /\ IF EnableConcurrentInvoke THEN UNCHANGED replyVars ELSE FailCurrent
  /\ UNCHANGED <<inbox, scheduled, current, userVars, modeVars>>

\* Mutant of BeforeExit: the handler was never replaced by a restart of the loop.
BeforeExitDoesNothing ==
  /\ LoopIsFree
  /\ LoopIsEmpty
  /\ UNCHANGED vars

\* process.on("beforeExit"): nothing keeps the loop alive, poll again.
BeforeExit ==
  /\ LoopIsFree
  /\ LoopIsEmpty
  /\ iterations' = iterations + 1
  /\ UNCHANGED <<polls, scheduled, consumed, streams, replies, current,
                 userVars, modeVars, platformVars>>

-----------------------------------------------------------------------------
(* User code.                                                              *)

\* What the running code leaves pending when it gives the thread back, and
\* whether an error left it that nobody catches.
Leave(h, escapes) ==
  /\ h \in {"none"} \cup HandleKinds
  /\ (HandlesEnd /\ turns[running] = MaxTurns) => h = "none"
  /\ handles' = [handles EXCEPT ![running] = h]
  /\ running' = NoRequest
  /\ stray' = IF escapes THEN running ELSE NoRequest
  /\ UNCHANGED <<frame, turns>>

\* The callback is called with v.  Only HTTP functions can send a stream.  What
\* the native call or the conversion throws comes back to the calling code,
\* which may catch it or fail by it (the actions Throw...).
CallCallback(v) ==
  /\ alive
  /\ running \in Requests \ consumed
  /\ v \in ReplyValues
  /\ v = "stream" => running \in HttpRequests
  /\ Consume(running, v)
  /\ UNCHANGED <<polls, scheduled, current, userVars, modeVars, platformVars>>

\* context.waitsForEmptyEventLoopBeforeCallback = b.
SetWaitForEmpty(b) ==
  /\ alive
  /\ running \in Requests
  /\ waitForEmpty' = b
  /\ UNCHANGED <<loopVars, consumed, streams, replies, current, userVars, alive,
                 useUnblockClient, createFromSnapshot, platformVars>>

\* The handler, or one of its later callbacks, returns.
Return(h) ==
  /\ alive
  /\ running \in Requests
  /\ (UserAlwaysReplies /\ h # "ref") => running \in consumed
  /\ Leave(h, FALSE)
  /\ UNCHANGED <<loopVars, consumed, streams, replies, current, modeVars,
                 platformVars>>

\* An exception leaves the handler synchronously (or loading its module or
\* parsing its request throws), or the promise it returned is rejected:
\* _handlerError passes it to the request's own callback.  If that throws in
\* its turn, a synchronous one only finds the same callback again, consumed;
\* out of the promise's catch it is an unhandled rejection.
ThrowCaught(h) ==
  /\ alive
  /\ running \in Requests
  /\ "error" \in Faults
  /\ frame \in {"sync", "promise"}
  /\ \E v \in {"error"} \cup (ReplyValues \cap {"broken"}) : Consume(running, v)
  /\ Leave(h, frame = "promise" /\ RejectionsRaise /\ Raised(running))
  /\ UNCHANGED <<polls, scheduled, current, modeVars, platformVars>>

\* The same with null or undefined thrown: err.code in _handlerError throws a
\* TypeError.  Out of invokeFunction, the unblocking client's promise hands it
\* to this.callback and the native client's setImmediate lets it escape; in
\* concurrent mode it is printed.  Out of the promise's catch it is an
\* unhandled rejection.
NullishEscapes ==
  \/ frame = "sync" /\ ~EnableConcurrentInvoke /\ ~useUnblockClient
  \/ frame = "promise" /\ RejectionsRaise

ThrowNullish(h) ==
  /\ alive
  /\ running \in Requests
  /\ "nullish" \in Faults
  /\ frame \in {"sync", "promise"}
  /\ IF frame = "sync" /\ ~EnableConcurrentInvoke /\ useUnblockClient
       THEN FailCurrent
       ELSE UNCHANGED replyVars
  /\ Leave(h, NullishEscapes)
  /\ UNCHANGED <<polls, scheduled, current, modeVars, platformVars>>

\* An exception in a timer or I/O callback.
ThrowUncaught(h) ==
  /\ alive
  /\ running \in Requests
  /\ "uncaught" \in Faults
  /\ frame = "task"
  /\ Leave(h, TRUE)
  /\ UNCHANGED <<polls, scheduled, consumed, iterations, streams, replies, current,
                 modeVars, platformVars>>

\* process.on("uncaughtException"): the error goes to whichever callback is
\* current.  What the handler itself throws ends the process.
HandleUncaught ==
  /\ alive
  /\ stray # NoRequest
  /\ FailCurrent
  /\ stray' = NoRequest
  /\ alive' = ~Raised(current)
  /\ UNCHANGED <<polls, scheduled, current, running, frame, handles, turns,
                 useUnblockClient, waitForEmpty, createFromSnapshot, platformVars>>

\* process.exit, or null thrown from a task: err.stack throws inside the
\* uncaughtException handler, which ends the process.
Exit ==
  /\ alive
  /\ running \in Requests
  /\ \/ "exit" \in Faults
     \/ "nullish" \in Faults /\ frame = "task"
  /\ alive' = FALSE
  /\ UNCHANGED <<loopVars, consumed, streams, replies, current, userVars,
                 useUnblockClient, waitForEmpty, createFromSnapshot, platformVars>>

\* A timer, an I/O callback or a promise continuation of r's user code runs.
Resume(r, f) ==
  /\ LoopIsFree
  /\ handles[r] # "none"
  /\ turns[r] < MaxTurns
  /\ running' = r
  /\ frame' = f
  /\ turns' = [turns EXCEPT ![r] = @ + 1]
  /\ handles' = [handles EXCEPT ![r] = "none"]
  /\ UNCHANGED <<loopVars, consumed, streams, replies, current, stray, modeVars,
                 platformVars>>

\* Mutant of EndStream: the body's callback can come twice.
EndStreamTwice(r, end) ==
  /\ LoopIsFree
  /\ r \in streams
  /\ \/ streams' = streams
     \/ streams' = streams \ {r}
  /\ IF end = "stall" THEN UNCHANGED <<replies, iterations>> ELSE Post(r, end)
  /\ stray' = IF end # "stall" /\ replies' = replies THEN r ELSE NoRequest
  /\ UNCHANGED <<polls, scheduled, consumed, current, running, frame, handles, turns,
                 modeVars, platformVars>>

\* getRawBody's callback in _invokeDone: the body is complete, or reading it
\* failed or passed the size limit.  A "stall" is a source that goes away
\* without an "end" or "error" event: the callback never comes.  Nobody catches
\* what the native call throws here.
EndStream(r, end) ==
  /\ LoopIsFree
  /\ r \in streams
  /\ streams' = streams \ {r}
  /\ IF end = "stall" THEN UNCHANGED <<replies, iterations>> ELSE Post(r, end)
  /\ stray' = IF end # "stall" /\ replies' = replies THEN r ELSE NoRequest
  /\ UNCHANGED <<polls, scheduled, consumed, current, running, frame, handles, turns,
                 modeVars, platformVars>>

-----------------------------------------------------------------------------
\* The two states the process may rest in: the platform has nothing more to
\* hand out, or the process is gone.
Rest ==
  /\ \/ polls > 0 /\ inbox = {} /\ pollFailures = MaxPollFailures
     \/ ~alive
  /\ UNCHANGED vars

RuntimeStep(r) ==
  \/ TakeBlocking(r)
  \/ TakeUnblock(r)
  \/ TakeConcurrent(r)
  \/ RunScheduled(r)
  \/ \E f \in {"task", "promise"} : Resume(r, f)
  \/ \E end \in StreamEnds : EndStream(r, end)

UserStep ==
  \/ \E v \in Values : CallCallback(v)
  \/ \E b \in BOOLEAN : SetWaitForEmpty(b)
  \/ \E h \in {"none", "ref", "unref"} :
       \/ Return(h)
       \/ ThrowCaught(h)
       \/ ThrowNullish(h)
       \/ ThrowUncaught(h)
  \/ Exit

Next ==
  \/ StartPoll
  \/ PollFails
  \/ BeforeExit
  \/ HandleUncaught
  \/ \E r \in Requests : RuntimeStep(r)
  \/ UserStep
  \/ Rest

Spec == Init /\ [][Next]_vars

-----------------------------------------------------------------------------
(* Safety.                                                                 *)

\* However the callback, a throw, a rejection, an uncaught exception of another
\* request and a failed poll race, the platform is sent at most one answer per
\* request (isConsumed and isDigested in callback.js).
AtMostOneReply == \A r \in Requests : Len(replies[r]) <= 1

\* Requests taken whose answer is outstanding and whose code can still run.
InFlight ==
  scheduled \cup streams
    \cup {r \in Requests \ consumed : running = r \/ handles[r] = "ref"}

\* In single mode the runtime works on one request at a time, and does not ask
\* for another while one is in flight: every path that leads to a next
\* iteration (the callback's continuation, "beforeExit", a failed poll)
\* together schedules exactly one.  Claimed without unref'd user handles.
OneInFlight ==
  ~EnableConcurrentInvoke =>
    /\ \A r, s \in InFlight : r = s
    /\ InFlight # {} => iterations + polls = 0
    /\ iterations + polls <= 1

\* In single mode, code of a request that is not answered yet runs under its
\* own name: log lines carry its id (process._fc) and a stray exception is
\* reported to its own callback (global[CALLBACK]).
OwnAttribution ==
  ~EnableConcurrentInvoke /\ running \in Requests \ consumed => current = running

\* In concurrent mode one poll at most is open or about to start, so that
\* finished requests cannot multiply the pollers.
OnePoller == EnableConcurrentInvoke => iterations + polls <= 1

\* In single mode a request pays for its own errors only.  An uncaught error
\* answers another request only if it comes from leftover code of a request
\* that was answered before; code whose answer is missing (a body that stalled, a
\* value or a post that raised) never does, as the loop does not go on before
\* that code is done.  A failed poll answers nobody whose code could still do
\* so.  Claimed without unref'd user handles, like OneInFlight.
ErrorsStayHome ==
  [][\A r \in Requests :
       ~EnableConcurrentInvoke /\ replies'[r] # replies[r] =>
         /\ stray \in Requests \ {r} => replies[stray] # <<>>
         /\ pollFailures' # pollFailures => r \notin InFlight]_vars

-----------------------------------------------------------------------------
(* What the runtime promises the platform.                                 *)

Contract == INSTANCE InvocationContract WITH
  Kinds <- {"result", "error"},
  waiting <- inbox,
  answer <- replies

\* The loop hands out each request once and answers it at most once.
ContractSpec == Contract!Spec

-----------------------------------------------------------------------------
(* Inductive strengthenings, proved in NodeRuntimeProofs.                  *)

\* A request the platform still holds, or whose start is only scheduled, has
\* left no trace in the process.
Untouched(r) ==
  /\ r # running
  /\ r # current
  /\ r \notin consumed
  /\ handles[r] = "none"

FreshInv ==
  /\ \A r \in inbox : Untouched(r) /\ r \notin scheduled
  /\ \A r \in scheduled : Untouched(r)

\* A request is answered only after it was consumed, and a stream only while
\* its answer is still owed.
ReplyInv ==
  \A r \in Requests :
    /\ Len(replies[r]) <= 1
    /\ r \notin consumed => replies[r] = <<>>
    /\ r \in streams => r \in consumed /\ replies[r] = <<>>

\* Why single mode serves one request at a time, and errors stay with theirs:
\* what is left of a request that was not answered belongs to the current one,
\* and once an iteration is on its way while the current one has no answer,
\* nothing is left that could give it one.
Leftover(r) == running = r \/ handles[r] = "ref" \/ r \in streams \/ stray = r

Restarting == iterations + polls > 0 \/ scheduled # {}

SingleInv ==
  /\ \A r \in Requests : handles[r] # "unref"
  /\ \A r \in Requests : replies[r] = <<>> /\ Leftover(r) => current = r
  /\ Restarting /\ current \in Requests /\ replies[current] = <<>> =>
       /\ running = NoRequest
       /\ stray = NoRequest
       /\ streams = {}
       /\ \A r \in Requests : handles[r] = "none"
  /\ OneInFlight

-----------------------------------------------------------------------------
(* What a comment of the code says, and the code does not do.              *)

\* "Function will be terminated once the callback is invoked" (callback.js:15):
\* the event loop does not enter the code of an answered request again.
CallbackEndsFunction ==
  [][\A r \in Requests : replies[r] # <<>> => ~(running # r /\ running' = r)]_vars
=============================================================================
