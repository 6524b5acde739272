----------------------------- MODULE NodeLegacy -----------------------------
(***************************************************************************)
(* The invocation loop of the Node.js 4 and 6 runtimes (nodejs4 and        *)
(* nodejs6 share their files).  It differs from NodeRuntime in three ways: *)
(* the callback is digested in process.nextTick, answers are posted over   *)
(* HTTP while the event loop goes on, and the loop continues only when the *)
(* reply to the post has ended.  A post that fails throws out of an event  *)
(* listener, into the same uncaughtException handler that serves user code. *)
(***************************************************************************)
EXTENDS Naturals, Sequences

CONSTANTS
  Requests,                \* requests the platform holds for this container
  HttpRequests,            \* those with x-fc-http-params, which may send streams
  NoRequest,               \* no request
  Modes,                   \* values of EnableConcurrentInvoke to start with
  ReplyValues,             \* what user code passes to its callback
  HandleUses,              \* which handles user code may leave: sets of "ref", "unref"
  HandlesEnd,              \* user code does not leave work behind for good
  MaxTurns,                \* event-loop turns of one request's user code
  MaxFailures              \* polls and posts that fail

ASSUME LegacyAssumption ==
  /\ NoRequest \notin Requests
  /\ Modes \subseteq BOOLEAN
  /\ ReplyValues \subseteq {"result", "error", "stream", "broken"}
  /\ HandleUses \subseteq SUBSET {"ref", "unref"}
  /\ MaxTurns \in Nat
  /\ MaxFailures \in Nat

VARIABLES
  EnableConcurrentInvoke, \* FC_ENABLE_CONCURRENT_INVOKE, read once
  handleKinds,  \* the handles that user code leaves, in this behaviour
  alive,        \* the process has not exited
  inbox,        \* requests the platform has not handed out (external)
  iterations,   \* setImmediate callbacks waiting to start a poll
  polls,        \* waitForInvocation calls that have not ended
  current,      \* the request of global[CALLBACK]
  consumed,     \* requests whose isConsumed is set
  ticks,        \* ticks[r]: the value a nextTick will digest, or "none"
  streams,      \* requests whose body is being read by raw-body
  sending,      \* requests whose post has no reply yet
  posted,       \* posted[r]: what was posted for r, in order
  running,      \* the request whose user code has the thread, or NoRequest
  frame,        \* how it was entered: "sync", "task" or "promise"
  handles,      \* handles[r]: the work r's code left pending, or "none"
  turns,        \* turns[r]: how often the loop re-entered r's code
  waitForEmpty, \* global.FCWaitForEmptyEventLoop
  failures      \* polls and posts that failed so far

loopVars == <<iterations, polls>>
callbackVars == <<consumed, ticks>>
postVars == <<streams, sending, posted>>
userVars == <<running, frame, handles, turns>>
startVars == <<EnableConcurrentInvoke, handleKinds>>
vars == <<startVars, alive, inbox, loopVars, current, callbackVars,
          postVars, userVars, waitForEmpty, failures>>

\* As in NodeRuntime.
Values == {"result", "error", "stream", "broken"}

\* The type of every variable.
TypeOK ==
  /\ EnableConcurrentInvoke \in BOOLEAN
  /\ handleKinds \subseteq {"ref", "unref"}
  /\ alive \in BOOLEAN
  /\ inbox \subseteq Requests
  /\ iterations \in Nat /\ polls \in Nat
  /\ current \in Requests \cup {NoRequest}
  /\ consumed \subseteq Requests
  /\ ticks \in [Requests -> Values \cup {"none"}]
  /\ streams \subseteq Requests
  /\ sending \subseteq Requests
  /\ posted \in [Requests -> Seq({"result", "error"})]
  /\ running \in Requests \cup {NoRequest}
  /\ frame \in {"sync", "task", "promise"}
  /\ handles \in [Requests -> {"none", "ref", "unref"}]
  /\ turns \in [Requests -> 0 .. MaxTurns]
  /\ waitForEmpty \in BOOLEAN
  /\ failures \in 0 .. MaxFailures

\* bootstrap.js to its end: the first iteration is scheduled.
Init ==
  /\ EnableConcurrentInvoke \in Modes
  /\ handleKinds \in HandleUses
  /\ alive = TRUE
  /\ inbox = Requests
  /\ iterations = 1
  /\ polls = 0
  /\ current = NoRequest
  /\ consumed = {}
  /\ ticks = [r \in Requests |-> "none"]
  /\ streams = {}
  /\ sending = {}
  /\ posted = [r \in Requests |-> <<>>]
  /\ running = NoRequest
  /\ frame = "sync"
  /\ handles = [r \in Requests |-> "none"]
  /\ turns = [r \in Requests |-> 0]
  /\ waitForEmpty = FALSE
  /\ failures = 0

-----------------------------------------------------------------------------
(* The event loop.                                                         *)

\* No code runs, and the nextTick queue, which goes first, is empty.
LoopIsFree ==
  /\ alive
  /\ running = NoRequest
  /\ \A r \in Requests : ticks[r] = "none"

\* Nothing keeps the process from "beforeExit".  Idle keep-alive sockets do not,
\* nor does a timer that user code has unref'd: it may still fire later on.
LoopIsEmpty ==
  /\ iterations + polls = 0
  /\ streams \cup sending = {}
  /\ \A r \in Requests : handles[r] # "ref"

StartPoll ==
  /\ LoopIsFree
  /\ iterations > 0
  /\ iterations' = iterations - 1
  /\ polls' = polls + 1
  /\ UNCHANGED <<alive, inbox, current, callbackVars, postVars, userVars,
                 waitForEmpty, failures>>

\* Mutant of BeforeExit: the handler is not set, nothing restarts the loop.
BeforeExitIdles == LoopIsFree /\ LoopIsEmpty /\ UNCHANGED vars

\* global[BEFORE_EXIT_HANDLER]: before the first request and after it.
BeforeExit ==
  /\ LoopIsFree
  /\ LoopIsEmpty
  /\ iterations' = iterations + 1
  /\ UNCHANGED <<alive, inbox, polls, current, callbackVars, postVars, userVars,
                 waitForEmpty, failures>>

\* Mutant of EndPoll: the next iteration is scheduled first in any mode.
EndPollEager(r) ==
  /\ LoopIsFree
  /\ polls > 0
  /\ r \in inbox
  /\ polls' = polls - 1
  /\ inbox' = inbox \ {r}
  /\ iterations' = iterations + 1
  /\ current' = r
  /\ running' = r
  /\ frame' = "sync"
  /\ UNCHANGED <<alive, callbackVars, postVars, handles, turns, waitForEmpty, failures>>

\* The promise of waitForInvocation is resolved.  In concurrent mode the next
\* iteration is scheduled first; then success() starts the user function.
EndPoll(r) ==
  /\ LoopIsFree
  /\ polls > 0
  /\ r \in inbox
  /\ polls' = polls - 1
  /\ inbox' = inbox \ {r}
  /\ iterations' = iterations + IF EnableConcurrentInvoke THEN 1 ELSE 0
  /\ current' = r
  /\ running' = r
  /\ frame' = "sync"
  /\ UNCHANGED <<alive, callbackVars, postVars, handles, turns, waitForEmpty, failures>>

\* It is rejected: the error is printed, and no iteration is scheduled.
PollFails ==
  /\ LoopIsFree
  /\ polls > 0
  /\ failures < MaxFailures
  /\ polls' = polls - 1
  /\ failures' = failures + 1
  /\ UNCHANGED <<alive, inbox, iterations, current, callbackVars, postVars, userVars,
                 waitForEmpty>>

-----------------------------------------------------------------------------
(* callback.js and client.js.                                              *)

\* Mutant of Consume: isConsumed is not looked at.
ConsumeAgain(r, v) ==
  /\ consumed' = consumed \cup {r}
  /\ ticks' = [ticks EXCEPT ![r] = v]

\* consume: the first call counts, and is digested after the code that runs.
Consume(r, v) ==
  IF r \in consumed THEN UNCHANGED callbackVars
  ELSE /\ consumed' = consumed \cup {r}
       /\ ticks' = [ticks EXCEPT ![r] = v]

\* The uncaughtException handler: whoever's callback is current gets the error.
\* No exception can come before the first request.
FailCurrent ==
  IF current = NoRequest THEN UNCHANGED callbackVars ELSE Consume(current, "error")

\* postResult writes the request; what follows it comes with the reply.
Send(r, kind) ==
  /\ sending' = sending \cup {r}
  /\ posted' = [posted EXCEPT ![r] = Append(@, kind)]

\* digest, _invokeDone.  A value that _formatData or _formatErr cannot turn
\* into a string is thrown out of nextTick: the answer is lost, and the request
\* that is current by now is failed.
Digest(r) ==
  /\ alive
  /\ running = NoRequest
  /\ ticks[r] # "none"
  /\ LET done == [ticks EXCEPT ![r] = "none"] IN
       \/ /\ ticks[r] \in {"result", "error"}
          /\ Send(r, ticks[r])
          /\ ticks' = done
          /\ UNCHANGED <<consumed, streams>>
       \/ /\ ticks[r] = "stream"
          /\ streams' = streams \cup {r}
          /\ ticks' = done
          /\ UNCHANGED <<consumed, sending, posted>>
       \/ /\ ticks[r] = "broken"
          /\ IF current \in consumed
               THEN ticks' = done /\ UNCHANGED consumed
               ELSE /\ ticks' = [done EXCEPT ![current] = "error"]
                    /\ consumed' = consumed \cup {current}
          /\ UNCHANGED postVars
  /\ UNCHANGED <<alive, inbox, loopVars, current, userVars, waitForEmpty, failures>>

\* raw-body is done: the body, or an error that is posted in its place.  A
\* stream that stops without an "end" or an "error" never calls back: nothing
\* is posted, nothing waits for it, and the request stays without an answer.
EndStream(r, end) ==
  /\ LoopIsFree
  /\ r \in streams
  /\ streams' = streams \ {r}
  /\ IF end = "stall" THEN UNCHANGED <<sending, posted>> ELSE Send(r, end)
  /\ UNCHANGED <<alive, inbox, loopVars, current, callbackVars, userVars, waitForEmpty,
                 failures>>

\* The continuation that success() hands to createInvokeCallback.
Continues == ~waitForEmpty /\ ~EnableConcurrentInvoke

\* The reply to a post has ended, whatever its status.
PostEnds(r) ==
  /\ LoopIsFree
  /\ r \in sending
  /\ sending' = sending \ {r}
  /\ iterations' = iterations + IF Continues THEN 1 ELSE 0
  /\ UNCHANGED <<alive, inbox, polls, current, callbackVars, streams, posted, userVars,
                 waitForEmpty, failures>>

\* The connection failed, before or after the platform got the answer, such as
\* a keep-alive socket that died while the container was frozen.
PostFails(r) ==
  /\ LoopIsFree
  /\ r \in sending
  /\ failures < MaxFailures
  /\ sending' = sending \ {r}
  /\ FailCurrent
  /\ failures' = failures + 1
  /\ UNCHANGED <<alive, inbox, loopVars, current, streams, posted, userVars, waitForEmpty>>

-----------------------------------------------------------------------------
(* User code.                                                              *)

CallCallback(v) ==
  /\ alive
  /\ running \in Requests \ consumed
  /\ v = "stream" => running \in HttpRequests
  /\ Consume(running, v)
  /\ UNCHANGED <<alive, inbox, loopVars, current, postVars, userVars, waitForEmpty, failures>>

\* The flag is a global that only user code can set in these versions.
SetWaitForEmpty(b) ==
  /\ alive
  /\ running \in Requests
  /\ waitForEmpty' = b
  /\ UNCHANGED <<alive, inbox, loopVars, current, callbackVars, postVars, userVars, failures>>

\* Code gives the thread back, with work left behind or not.
Leave(h) ==
  /\ alive
  /\ running \in Requests
  /\ h \in {"none"} \cup handleKinds
  /\ HandlesEnd /\ turns[running] = MaxTurns => h = "none"
  /\ handles' = [handles EXCEPT ![running] = h]
  /\ running' = NoRequest
  /\ UNCHANGED <<alive, inbox, loopVars, current, postVars, frame, turns, waitForEmpty,
                 failures>>

Return(h) == Leave(h) /\ UNCHANGED callbackVars

\* An error is thrown.  Where it ends depends on how the code was entered:
\* _handlerError fails the own request, the uncaughtException handler the
\* current one.
Throw(h) ==
  /\ Leave(h)
  /\ IF frame = "task" THEN FailCurrent ELSE Consume(running, "error")

\* null or a string is thrown: _handlerError cannot set its name and throws a
\* TypeError.  Out of success() that is printed; out of the first handler of a
\* promise the second one reports it.
ThrowOdd(h) ==
  /\ Leave(h)
  /\ frame # "task"
  /\ IF frame = "sync" THEN UNCHANGED callbackVars ELSE Consume(running, "error")

\* process.exit, or null thrown in a task, whose stack the handler reads.
Exit ==
  /\ alive
  /\ running \in Requests
  /\ alive' = FALSE
  /\ UNCHANGED <<inbox, loopVars, current, callbackVars, postVars, userVars, waitForEmpty,
                 failures>>

\* The loop enters r's code again.
Resume(r, f) ==
  /\ LoopIsFree
  /\ handles[r] # "none"
  /\ turns[r] < MaxTurns
  /\ running' = r
  /\ frame' = f
  /\ turns' = [turns EXCEPT ![r] = @ + 1]
  /\ handles' = [handles EXCEPT ![r] = "none"]
  /\ UNCHANGED <<alive, inbox, loopVars, current, callbackVars, postVars, waitForEmpty,
                 failures>>

-----------------------------------------------------------------------------
\* The platform has nothing more to hand out, or the process is gone.
Rest == (~alive \/ (polls > 0 /\ inbox = {})) /\ UNCHANGED vars

\* A step of the loop or of user code.
Step ==
  \/ StartPoll
  \/ BeforeExit
  \/ PollFails
  \/ \E r \in Requests :
       \/ EndPoll(r)
       \/ Digest(r)
       \/ \E end \in {"result", "error", "stall"} : EndStream(r, end)
       \/ PostEnds(r)
       \/ PostFails(r)
       \/ \E f \in {"task", "promise"} : Resume(r, f)
  \/ \E v \in ReplyValues : CallCallback(v)
  \/ \E b \in BOOLEAN : SetWaitForEmpty(b)
  \/ \E h \in {"none", "ref", "unref"} : Return(h) \/ Throw(h) \/ ThrowOdd(h)
  \/ Exit
  \/ Rest

\* The setting is read when the process starts, and never again.
Next == Step /\ UNCHANGED startVars

Spec == Init /\ [][Next]_vars

-----------------------------------------------------------------------------
(* Properties.                                                             *)

Contract == INSTANCE InvocationContract WITH
  Kinds <- {"result", "error"}, waiting <- inbox, answer <- posted

\* The loop implements the contract: however callbacks, ticks, uncaught
\* exceptions and failed posts race, a request is posted an answer at most once.
ContractSpec == Contract!Spec

\* One request is served at a time: not in concurrent mode, and not if user code
\* unrefs a timer, whose late callback continues the loop a second time after
\* "beforeExit" has already started the next iteration.
ServesOne == ~EnableConcurrentInvoke /\ "unref" \notin handleKinds

\* Then no further request is asked for while an answer is on its way or still
\* to be made by code that can run: the continuation of a post and "beforeExit"
\* never both schedule an iteration.
OneAtATime ==
  ServesOne =>
    /\ iterations + polls <= 1
    /\ iterations + polls = 1 =>
         /\ streams \cup sending = {}
         /\ \A r \in Requests \ consumed : handles[r] = "none"

-----------------------------------------------------------------------------
(* Inductive strengthenings, proved in NodeLegacyProofs.                   *)

\* A request that the platform still holds has left no trace in the process.
FreshInv ==
  /\ current = NoRequest => inbox = Requests
  /\ \A r \in inbox : r # running /\ r # current /\ r \notin consumed /\ handles[r] = "none"

\* A consumed callback owes at most one post: by the tick, by the stream, or
\* none any more.
ReplyInv ==
  \A r \in Requests :
    /\ r \notin consumed => ticks[r] = "none" /\ r \notin streams \cup sending
    /\ r \notin consumed \/ ticks[r] # "none" \/ r \in streams => posted[r] = <<>>
    /\ ticks[r] # "none" => r \notin streams
    /\ r \in sending => posted[r] # <<>>

\* Where one request is served at a time, everything that can still lead to an
\* answer belongs to the current one, and none of it is left while an iteration
\* is on its way.
SingleInv ==
  ServesOne =>
    /\ \A r \in Requests : handles[r] # "unref"
    /\ \A r \in Requests \ consumed : running = r \/ handles[r] # "none" => current = r
    /\ \A r \in Requests : ticks[r] # "none" \/ r \in streams \cup sending => current = r
    /\ iterations + polls <= 1
    /\ iterations + polls = 1 =>
         /\ streams \cup sending = {}
         /\ \A r \in Requests : ticks[r] = "none"
         /\ \A r \in Requests \ consumed : running # r /\ handles[r] = "none"
         /\ current \in Requests \ consumed =>
              running = NoRequest /\ \A r \in Requests : handles[r] = "none"
=============================================================================
