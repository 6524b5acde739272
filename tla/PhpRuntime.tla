----------------------------- MODULE PhpRuntime -----------------------------
(***************************************************************************)
(* The invocation loop of the PHP runtime: bootstrap.php and the           *)
(* InvocationHandler of invoke.php.  One thread polls for a request,       *)
(* restores the environment after a snapshot, includes the file of the     *)
(* handler, calls it and posts the answer; each action is the code between *)
(* two calls of the client or of user code.  Three catches lie around one  *)
(* another, and an error that leaves the outermost ends the process.       *)
(***************************************************************************)
EXTENDS PhpRapisClient, Sequences

CONSTANTS
  Requests,      \* requests the platform holds for this container
  NoRequest,     \* nobody
  HeadersOf,     \* HeadersOf[r]: the headers the platform sends with r
  BadType,       \* requests whose function type is not a number
  UnfoundFile,   \* requests whose handler has no dot or names no file
  FileOf,        \* FileOf[r]: the file of r's handler
  FunctionOf,    \* FunctionOf[r]: its function
  PhpFunctions,  \* functions of PHP itself and of the runtime
  Declarations,  \* what each file may declare: functions from files to sets
  FromSnapshot   \* FC_SNAPSHOT_FLAG was "1" when the process started

\* What user code and the platform may do in a run, and how often.
CONSTANTS
  LoadOutcomes,  \* how the code of an included file may end
  CallOutcomes,  \* how a handler may end
  PollReplies,   \* what a poll may come to
  PostReplies,   \* what a post may come to
  MaxLosses      \* how many posts may fail to deliver

Files == {FileOf[r] : r \in Requests}

ASSUME ModeAssumption ==
  /\ NoRequest \notin Requests
  /\ HeadersOf \in [Requests -> SUBSET Headers]
  /\ BadType \subseteq Requests
  /\ UnfoundFile \subseteq Requests
  /\ DOMAIN FileOf = Requests
  /\ \A d \in Declarations : DOMAIN d = Files
  /\ FromSnapshot \in BOOLEAN

ASSUME EnvironmentAssumption ==
  /\ LoadOutcomes \subseteq {"done", "throws", "refused", "exits"}
  /\ CallOutcomes \subseteq {"returns", "throws", "exits"}
  /\ PollReplies \subseteq Replies
  /\ PostReplies \subseteq Replies
  /\ MaxLosses \in Nat

VARIABLES
  at,        \* where the loop stands, see Places
  current,   \* the request in hand
  inbox,     \* requests the platform still holds
  replies,   \* replies[r]: what the platform accepted for r, in order
  endLines,  \* endLines[r]: how many times printEndLog ran for r
  declares,  \* declares[f]: the functions that f declares
  files,     \* files[f]: what include_once made of f
  strict,    \* fc_exception_error_handler is installed
  snapshot,  \* $GLOBALS["CreateFromSnapshot"]
  workdir,   \* the working directory: "root" or "default"
  stale,     \* credentials in the environment that are the snapshot's
  losses     \* how many posts did not deliver

snapshotVars == <<snapshot, workdir, stale>>
postVars == <<replies, endLines, losses>>
loadVars == <<declares, files, strict>>
vars == <<client, at, current, inbox, postVars, loadVars, snapshotVars>>

-----------------------------------------------------------------------------
\* Where an answer is posted: "result" and "refused" inside the try of
\* handleInvocation, "error" in its catch, "outer" in the catch of bootstrap.php.
Posting == {"result", "refused", "error", "outer"}
Places == {"poll", "begin", "load", "call", "ended"} \cup Posting

FileStates == {"unseen", "loaded", "half", "empty"}

\* The type of every variable.
TypeOK ==
  /\ client \in Clients
  /\ at \in Places
  /\ current \in Requests \cup {NoRequest}
  /\ inbox \subseteq Requests
  /\ replies \in [Requests -> Seq(Kinds)]
  /\ endLines \in [Requests -> Nat]
  /\ declares \in Declarations
  /\ files \in [Files -> FileStates]
  /\ strict \in BOOLEAN
  /\ snapshot \in BOOLEAN
  /\ workdir \in {"root", "default"}
  /\ stale \subseteq Credentials
  /\ losses \in 0 .. MaxLosses

\* bootstrap.php up to its loop.
Init ==
  /\ client \in Clients
  /\ at = "poll"
  /\ current = NoRequest
  /\ inbox = Requests
  /\ replies = [r \in Requests |-> <<>>]
  /\ endLines = [r \in Requests |-> 0]
  /\ declares \in Declarations
  /\ files = [f \in Files |-> "unseen"]
  /\ strict = FALSE
  /\ snapshot = FromSnapshot
  /\ workdir = IF FromSnapshot THEN "root" ELSE "default"
  /\ stale = IF FromSnapshot THEN Credentials ELSE {}
  /\ losses = 0

-----------------------------------------------------------------------------
\* Control leaves the request, or the process.  unset($GLOBALS['requestId']).
Leave(place) ==
  /\ at' = place
  /\ current' = NoRequest
  /\ UNCHANGED <<client, inbox>>

Continue(place) ==
  /\ at' = place
  /\ UNCHANGED <<client, current, inbox>>

\* Mutant of LogEnd: only the try logs the end.
LogEndOfCall ==
  endLines' = [endLines EXCEPT ![current] = @ + IF at = "call" THEN 1 ELSE 0]

\* printEndLog.
LogEnd == endLines' = [endLines EXCEPT ![current] = @ + 1]

\* printEndLog, then a post.
Answer(place) ==
  /\ Continue(place)
  /\ LogEnd
  /\ UNCHANGED <<replies, losses>>

-----------------------------------------------------------------------------
(* Polling.                                                                *)

\* The string is no array: a TypeError before the request id is known.  The
\* outer catch passes null for the id, and the second TypeError is not caught.
PollFails(reply) ==
  /\ at = "poll"
  /\ \E r \in inbox : ~Polled(reply, HeadersOf[r])
  /\ Leave("ended")
  /\ UNCHANGED <<postVars, loadVars, snapshotVars>>

\* Mutant of Restore: the flag is cleared before the environment is restored.
RestoreNothing(given) ==
  /\ snapshot' = FALSE
  /\ workdir' = IF snapshot THEN "default" ELSE workdir
  /\ UNCHANGED stale

\* The block under $GLOBALS["CreateFromSnapshot"].  A missing header leaves its
\* variable alone.
Restore(given) ==
  /\ snapshot' = FALSE
  /\ workdir' = IF snapshot THEN "default" ELSE workdir
  /\ stale' = IF snapshot THEN stale \ given ELSE stale

\* printStartLog takes an int: a bad type raises outside of the try of
\* handleInvocation.  The fallback has made it an integer.
TypeRaises(r) == r \in BadType /\ client = "native"

\* The poll returns with r.
Take(r, reply) ==
  /\ at = "poll"
  /\ r \in inbox
  /\ Polled(reply, HeadersOf[r])
  /\ at' = IF TypeRaises(r) THEN "outer" ELSE "begin"
  /\ current' = r
  /\ inbox' = inbox \ {r}
  /\ Restore(Given(HeadersOf[r]))
  /\ UNCHANGED <<client, postVars, loadVars>>

-----------------------------------------------------------------------------
(* Handling.                                                               *)

\* get_module_path returns an error: a handler without a header is ''.
Unfound == "handler" \notin Given(HeadersOf[current]) \/ current \in UnfoundFile

\* The try of handleInvocation up to the handler's file.
Begin ==
  /\ at = "begin"
  /\ IF Unfound
       THEN Answer("refused")
       ELSE Continue("load") /\ UNCHANGED postVars
  /\ UNCHANGED <<loadVars, snapshotVars>>

File == FileOf[current]

\* include_once has met the file.
Seen == files[File] # "unseen"

\* set_fc_error_handler: from now on a notice is an exception.
SetErrorHandler == strict' = TRUE

\* Mutant of LoadSeen: the request waits for the file to be loaded.
LoadSeenAgain ==
  /\ at = "load"
  /\ Seen
  /\ SetErrorHandler
  /\ Continue(IF files[File] = "loaded" THEN "call" ELSE "load")
  /\ UNCHANGED <<declares, files, postVars, snapshotVars>>

\* The constructor of NormalHandler or HttpInvokeHandler, for a file it knows.
LoadSeen ==
  /\ at = "load"
  /\ Seen
  /\ SetErrorHandler
  /\ Continue("call")
  /\ UNCHANGED <<declares, files, postVars, snapshotVars>>

\* The functions of the process, which files have added to.
Functions ==
  PhpFunctions \cup UNION {declares[f] : f \in {g \in Files : files[g] \in {"loaded", "half"}}}

\* The code of the file exits, or is not run, because it declares a function
\* again, which PHP ends the process for, unless the file does not parse.
EndsProcess(outcome) ==
  outcome = "exits" \/ (outcome # "refused" /\ declares[File] \cap Functions # {})

\* It includes a new file.  The functions of a file are declared before its
\* code runs, unless the file does not parse.
LoadNew(outcome) ==
  /\ at = "load"
  /\ ~Seen
  /\ SetErrorHandler
  /\ files' = [files EXCEPT ![File] = CASE outcome = "throws"  -> "half"
                                       [] outcome = "refused" -> "empty"
                                       [] OTHER               -> "loaded"]
  /\ IF EndsProcess(outcome) THEN Leave("ended") /\ UNCHANGED postVars
     ELSE IF outcome = "done" THEN Continue("call") /\ UNCHANGED postVars
     ELSE Answer("error")
  /\ UNCHANGED <<declares, snapshotVars>>

\* function_exists($fname), whichever file declared it.
FunctionExists == FunctionOf[current] \in Functions

\* invoke, invokeHook or handle.  A value that json_encode refuses is posted
\* as an empty result.
Call(outcome) ==
  /\ at = "call"
  /\ \/ /\ ~FunctionExists
        /\ Answer("error")
     \/ /\ FunctionExists
        /\ outcome = "returns"
        /\ Answer("result")
     \/ /\ FunctionExists
        /\ outcome = "throws"
        /\ Answer("error")
     \/ /\ FunctionExists
        /\ outcome = "exits"
        /\ Leave("ended")
        /\ UNCHANGED postVars
  /\ UNCHANGED <<loadVars, snapshotVars>>

-----------------------------------------------------------------------------
(* Answering.                                                              *)

\* The kind of answer posted here.
Kind ==
  IF at # "result" THEN "error"
  ELSE IF "http-params" \in Given(HeadersOf[current]) THEN "http" ELSE "result"

\* Mutant of CaughtAt: the catch of handleInvocation goes back to its try.
CaughtInTry == IF at = "outer" THEN "ended" ELSE "result"

\* Where an exception out of a post is caught.
CaughtAt ==
  CASE at \in {"result", "refused"} -> "error"
    [] at = "error" -> "outer"
    [] at = "outer" -> "ended"

\* Mutant of AfterPost: handleInvocation goes on into its catch.
FallThrough(reply) == IF at = "result" THEN "error" ELSE "poll"

\* The outcome of a post is dropped.
AfterPost(reply) == "poll"

\* The platform takes the answer in.
TakeIn(reply) ==
  IF Delivered(reply)
    THEN /\ replies' = [replies EXCEPT ![current] = Append(@, ArrivesAs(Kind))]
         /\ UNCHANGED losses
    ELSE /\ losses < MaxLosses
         /\ losses' = losses + 1
         /\ UNCHANGED replies

\* returnResult, returnHttpResult or returnError.  An exception inside the try
\* logs the end once more, in the catch.
Post(reply) ==
  /\ at \in Posting
  /\ TakeIn(reply)
  /\ IF PostRaises(reply, strict)
       THEN IF CaughtAt = "ended" THEN Leave("ended") ELSE Continue(CaughtAt)
       ELSE IF AfterPost(reply) = "poll" THEN Leave("poll")
                                         ELSE Continue(AfterPost(reply))
  /\ IF PostRaises(reply, strict) /\ CaughtAt = "error"
       THEN LogEnd
       ELSE UNCHANGED endLines
  /\ UNCHANGED <<loadVars, snapshotVars>>

-----------------------------------------------------------------------------
\* The poll blocks because the platform has nothing more, or the process ended.
Rest ==
  /\ at = "ended" \/ (at = "poll" /\ inbox = {})
  /\ UNCHANGED vars

Handle ==
  \/ Begin
  \/ LoadSeen
  \/ \E outcome \in LoadOutcomes : LoadNew(outcome)
  \/ \E outcome \in CallOutcomes : Call(outcome)
  \/ \E reply \in PostReplies : Post(reply)

Poll ==
  \E reply \in PollReplies :
    \/ PollFails(reply)
    \/ \E r \in Requests : Take(r, reply)

Next == Poll \/ Handle \/ Rest

Spec == Init /\ [][Next]_vars

\* The loop does not stop by itself, user code ends and so do exchanges.
FairSpec == Spec /\ WF_vars(Handle)

-----------------------------------------------------------------------------
(* Properties.                                                             *)

\* The answers that count: with the fallback, whose posts may raise after they
\* were delivered, the first one.
Counted ==
  [r \in Requests |->
     IF client = "native" \/ replies[r] = <<>> THEN replies[r] ELSE <<replies[r][1]>>]

\* handleInvocation posts one answer per request, or none, and only for a
\* request that it polled.
Contract == INSTANCE InvocationContract
              WITH waiting <- inbox, answer <- Counted

ContractSpec == Contract!Spec

\* With the extension every end line belongs to an answer: a request that is
\* answered has one end line, unless its type is bad and it has neither start
\* nor end line, and nothing is printed for a request the loop has not polled.
EndLineMatchesAnswer ==
  client = "native" => \A r \in Requests :
    /\ Len(replies[r]) <= IF TypeRaises(r) THEN 1 ELSE endLines[r]
    /\ endLines[r] <= IF TypeRaises(r) \/ r \in inbox THEN 0 ELSE 1

\* User code runs in the working directory of the function, and with every
\* credential of the request after the restore that the client handed over
\* with each request.
RestoredBeforeUserCode ==
  at \in {"load", "call"} =>
    /\ ~snapshot
    /\ workdir = "default"
    /\ \A c \in stale : \E r \in Requests : c \notin Given(HeadersOf[r])

\* The code of a file runs once in the life of the process, whatever became of
\* it: no request, and no failure, has include_once run it again.
NoSecondRun ==
  [][\A f \in Files : files[f] # "unseen" => files'[f] = files[f]]_vars

\* An answer that says the handler succeeded follows a handler that ended, of
\* the request's function, when include_once had been given its file: the
\* function may be that of another file, or of PHP, even if its own file does
\* not parse; in a try that failed only errors are posted.
ResultFromHandler ==
  [][\A r \in Requests :
       replies'[r] # replies[r] /\ Kind # "error" =>
         r = current /\ files[FileOf[r]] # "unseen" /\ FunctionOf[r] \in Functions]_vars

\* Posts may raise after they were delivered: a request is then answered again,
\* at most three times, once by each catch around it, and always as an error.
AnswersPerCatch ==
  \A r \in Requests :
    /\ Len(replies[r]) <= 3
    /\ \A i, j \in DOMAIN replies[r] :
         i < j => replies[r][j] = "error"

\* The loop returns to its poll, or the process ends, however requests fail.
ComesBack == []<>(at \in {"poll", "ended"})
=============================================================================
