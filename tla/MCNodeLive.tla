----------------------------- MODULE MCNodeLive -----------------------------
(***************************************************************************)
(* NodeRuntime in two modes of use, for the liveness properties that hold  *)
(* only under what a mode says of user code and of the platform:           *)
(*                                                                         *)
(*   single      one request at a time, either client, every fault;        *)
(*   concurrent  several requests, the unblocking client, posts that do    *)
(*               not raise, user code that always calls its callback with  *)
(*               a value JSON can represent.                               *)
(*                                                                         *)
(* The mode is chosen by the initial state and never changes; each mode is *)
(* an instance of NodeRuntime with constants of its own.                   *)
(***************************************************************************)
EXTENDS Naturals, Sequences

CONSTANTS Requests, NoRequest, Modes

VARIABLES
  mode, alive, inbox, iterations, polls, pollFailures, scheduled, current,
  consumed, streams, replies, running, frame, handles, turns, stray,
  useUnblockClient, waitForEmpty, createFromSnapshot

Single == INSTANCE NodeRuntime WITH
  HttpRequests <- Requests, EnableConcurrentInvoke <- FALSE,
  Clients <- {FALSE, TRUE}, RejectionsRaise <- FALSE, FromSnapshot <- FALSE,
  ReplyValues <- {"result", "error", "stream", "broken"},
  Faults <- {"error", "uncaught", "nullish", "exit"},
  HandleKinds <- {"ref"}, HandlesEnd <- TRUE, UserAlwaysReplies <- FALSE,
  StreamEnds <- {"result", "error", "stall"}, PostsMayRaise <- TRUE,
  MaxTurns <- 1, MaxPollFailures <- 1

Concurrent == INSTANCE NodeRuntime WITH
  HttpRequests <- Requests, EnableConcurrentInvoke <- TRUE,
  Clients <- {TRUE}, RejectionsRaise <- TRUE, FromSnapshot <- FALSE,
  ReplyValues <- {"result", "error", "stream"}, Faults <- {"error"},
  HandleKinds <- {"ref"}, HandlesEnd <- TRUE, UserAlwaysReplies <- TRUE,
  StreamEnds <- {"result", "error"}, PostsMayRaise <- FALSE,
  MaxTurns <- 2, MaxPollFailures <- 1

vars == <<mode, Single!vars>>

Init ==
  /\ mode \in Modes
  /\ \/ mode = "single" /\ Single!Init
     \/ mode = "concurrent" /\ Concurrent!Init

Next ==
  \/ mode = "single" /\ Single!Next /\ UNCHANGED mode
  \/ mode = "concurrent" /\ Concurrent!Next /\ UNCHANGED mode

\* A step of the mode's own instance.
Step(single, concurrent) ==
  \/ mode = "single" /\ single /\ UNCHANGED mode
  \/ mode = "concurrent" /\ concurrent /\ UNCHANGED mode

\* The event loop is fair: what waits in it runs, pending work of user code and
\* streams end, and user code that is running goes on.
Fairness ==
  /\ WF_vars(Step(Single!StartPoll, Concurrent!StartPoll))
  /\ WF_vars(Step(Single!BeforeExit, Concurrent!BeforeExit))
  /\ WF_vars(Step(Single!HandleUncaught, Concurrent!HandleUncaught))
  /\ \A r \in Requests :
       /\ WF_vars(Step(Single!RunScheduled(r), Concurrent!RunScheduled(r)))
       /\ SF_vars(\E f \in {"task", "promise"} :
                    Step(Single!Resume(r, f), Concurrent!Resume(r, f)))
       /\ SF_vars(\E end \in {"result", "error", "stall"} :
                    Step(Single!EndStream(r, end),
                         end # "stall" /\ Concurrent!EndStream(r, end)))
  /\ WF_vars(\E v \in Single!Values :
               Step(Single!CallCallback(v), Concurrent!CallCallback(v)))
  /\ WF_vars(\E h \in {"none", "ref", "unref"} :
               Step(Single!Return(h), Concurrent!Return(h)))

LoopSpec == Init /\ [][Next]_vars /\ Fairness

-----------------------------------------------------------------------------
\* Whatever user code did to its requests, the runtime comes back to ask for
\* the next one: no lost answer, failed poll or sticky FCWaitForEmptyEventLoop
\* (context.js) leaves it neither polling nor working (beforeExit handler of
\* bootstrap.js).
PollsAgain == []<>(mode # "single" \/ polls > 0 \/ ~alive)

\* In concurrent mode a request handed to user code which replies is answered
\* even if no further request ever arrives (waitForInvocation of client.js,
\* _invokeDone of callback.js).
TakenIsAnswered ==
  \A r \in Requests :
    mode = "concurrent" /\ r \notin inbox ~> (replies[r] # <<>> \/ ~alive)
=============================================================================
