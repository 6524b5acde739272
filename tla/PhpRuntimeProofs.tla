-------------------------- MODULE PhpRuntimeProofs --------------------------
(***************************************************************************)
(* Safety of PhpRuntime for any set of requests and files, and for any     *)
(* replies of the platform.                                                *)
(***************************************************************************)
EXTENDS PhpRuntime, TLAPS

-----------------------------------------------------------------------------
(* Types.                                                                  *)

\* Init establishes the type invariant.
LEMMA TypeInit == Init => TypeOK
  <1> SUFFICES ASSUME Init PROVE TypeOK
    OBVIOUS
  <1>1. replies \in [Requests -> Seq(Kinds)] /\ endLines \in [Requests -> Nat]
    BY DEF Init
  <1>2. declares \in Declarations /\ files \in [Files -> FileStates]
    BY DEF Init, FileStates
  <1>3. /\ snapshot \in BOOLEAN
        /\ workdir \in {"root", "default"}
        /\ stale \subseteq Credentials
    BY ModeAssumption DEF Init
  <1>4. losses \in 0 .. MaxLosses
    BY EnvironmentAssumption DEF Init
  <1> QED
    BY <1>1, <1>2, <1>3, <1>4 DEF Init, TypeOK, Places

\* The kinds of answer are closed under what the client makes of them.
LEMMA KindArrives == Kind \in Kinds /\ ArrivesAs(Kind) \in Kinds
  BY DEF Kind, ArrivesAs, Kinds

\* The file of the request in hand.
LEMMA FileType == \A r \in Requests : FileOf[r] \in Files
  BY DEF Files

\* A request is in hand while the loop is neither polling nor at its end.
InHand ==
  IF at \in {"poll", "ended"} THEN current = NoRequest
                              ELSE current \in Requests \ inbox

\* Logging the end of a request keeps the counters natural numbers.
LEMMA TypeLogEnd ==
  ASSUME TypeOK, LogEnd
  PROVE  endLines' \in [Requests -> Nat]
  <1>1. CASE current \in Requests
    BY <1>1 DEF TypeOK, LogEnd
  <1>2. CASE current \notin Requests
    BY <1>2 DEF TypeOK, LogEnd
  <1> QED
    BY <1>1, <1>2

\* The platform's books stay sequences of kinds.
LEMMA TypeTakeIn ==
  ASSUME TypeOK, NEW reply, TakeIn(reply)
  PROVE  replies' \in [Requests -> Seq(Kinds)] /\ losses' \in 0 .. MaxLosses
  <1>1. CASE Delivered(reply)
    <2> DEFINE kind == ArrivesAs(Kind)
    <2>1. kind \in Kinds
      BY KindArrives
    <2>2. \A r \in Requests : Append(replies[r], kind) \in Seq(Kinds)
      BY <2>1 DEF TypeOK
    <2> HIDE DEF kind
    <2>3. replies' = [replies EXCEPT ![current] = Append(@, kind)] /\ UNCHANGED losses
      BY <1>1 DEF TakeIn, kind
    <2> QED
      BY <2>2, <2>3 DEF TypeOK
  <1>2. CASE ~Delivered(reply)
    BY <1>2, EnvironmentAssumption DEF TypeOK, TakeIn
  <1> QED
    BY <1>1, <1>2

\* After it has included a file the loop calls the handler, reports an error,
\* or ends with the process.
LEMMA LoadNewShape ==
  ASSUME NEW outcome, LoadNew(outcome)
  PROVE  /\ at = "load"
         /\ strict' = TRUE
         /\ UNCHANGED <<declares, snapshotVars>>
         /\ \/ Leave("ended") /\ UNCHANGED postVars
            \/ Continue("call") /\ UNCHANGED postVars
            \/ Answer("error")
  <1>1. at = "load" /\ strict' = TRUE /\ UNCHANGED <<declares, snapshotVars>>
    BY DEF LoadNew, SetErrorHandler
  <1>2. CASE EndsProcess(outcome)
    BY <1>1, <1>2 DEF LoadNew
  <1>3. CASE ~EndsProcess(outcome) /\ outcome = "done"
    BY <1>1, <1>3 DEF LoadNew
  <1>4. CASE ~EndsProcess(outcome) /\ outcome # "done"
    BY <1>1, <1>4 DEF LoadNew
  <1> QED
    BY <1>2, <1>3, <1>4

\* Every step keeps the type invariant and the request in hand.
LEMMA TypeStep == TypeOK /\ InHand /\ [Next]_vars => TypeOK' /\ InHand'
  <1> SUFFICES ASSUME TypeOK, InHand, [Next]_vars PROVE TypeOK' /\ InHand'
    OBVIOUS
  <1>1. ASSUME NEW reply \in PollReplies, PollFails(reply) PROVE TypeOK' /\ InHand'
    BY <1>1 DEF PollFails, Leave, TypeOK, InHand, Places, postVars, loadVars, snapshotVars
  <1>2. ASSUME NEW reply \in PollReplies, NEW r \in Requests, Take(r, reply)
        PROVE  TypeOK' /\ InHand'
    BY <1>2 DEF Take, Restore, TypeOK, InHand, Places, Posting, postVars, loadVars
  <1>3. CASE Begin
    <2>1. CASE Continue("load") /\ UNCHANGED postVars
      BY <1>3, <2>1 DEF Begin, Continue, TypeOK, InHand, Places, postVars, loadVars, snapshotVars
    <2>2. CASE Answer("refused")
      BY <1>3, <2>2, TypeLogEnd DEF Begin, Answer, Continue, TypeOK, InHand, Places, Posting,
                                    loadVars, snapshotVars
    <2> QED
      BY <1>3, <2>1, <2>2 DEF Begin
  <1>4. CASE LoadSeen
    BY <1>4 DEF LoadSeen, SetErrorHandler, Continue, TypeOK, InHand, Places, postVars, snapshotVars
  <1>5. ASSUME NEW outcome \in LoadOutcomes, LoadNew(outcome) PROVE TypeOK' /\ InHand'
    <2>1. files' \in [Files -> FileStates]
      BY <1>5 DEF LoadNew, TypeOK, FileStates
    <2>2. /\ at = "load"
          /\ strict' = TRUE
          /\ UNCHANGED <<declares, snapshotVars>>
          /\ \/ Leave("ended") /\ UNCHANGED postVars
             \/ Continue("call") /\ UNCHANGED postVars
             \/ Answer("error")
      BY <1>5, LoadNewShape
    <2>3. CASE Continue("call") /\ UNCHANGED postVars
      BY <2>1, <2>2, <2>3 DEF Continue, TypeOK, InHand, Places, postVars, snapshotVars
    <2>4. CASE Answer("error")
      BY <2>1, <2>2, <2>4, TypeLogEnd DEF Answer, Continue, TypeOK, InHand, Places, Posting, snapshotVars
    <2>5. CASE Leave("ended") /\ UNCHANGED postVars
      BY <2>1, <2>2, <2>5 DEF Leave, TypeOK, InHand, Places, postVars, snapshotVars
    <2> QED
      BY <2>2, <2>3, <2>4, <2>5
  <1>6. ASSUME NEW outcome \in CallOutcomes, Call(outcome) PROVE TypeOK' /\ InHand'
    <2>1. CASE \E place \in {"error", "result"} : Answer(place)
      BY <1>6, <2>1, TypeLogEnd DEF Call, Answer, Continue, TypeOK, InHand, Places, Posting,
                                    loadVars, snapshotVars
    <2>2. CASE Leave("ended") /\ UNCHANGED postVars
      BY <1>6, <2>2 DEF Call, Leave, TypeOK, InHand, Places, postVars, loadVars, snapshotVars
    <2> QED
      BY <1>6, <2>1, <2>2 DEF Call
  <1>7. ASSUME NEW reply \in PostReplies, Post(reply) PROVE TypeOK' /\ InHand'
    <2>1. replies' \in [Requests -> Seq(Kinds)] /\ losses' \in 0 .. MaxLosses
      BY <1>7, TypeTakeIn DEF Post
    <2>2. endLines' \in [Requests -> Nat]
      BY <1>7, TypeLogEnd DEF Post, TypeOK
    <2>3. \/ \E place \in {"poll", "ended"} : Leave(place)
          \/ \E place \in {"error", "outer"} : Continue(place)
      BY <1>7 DEF Post, CaughtAt, AfterPost, Posting
    <2> QED
      BY <1>7, <2>1, <2>2, <2>3 DEF Post, Leave, Continue, TypeOK, InHand, Places, Posting,
                                    loadVars, snapshotVars
  <1>8. CASE UNCHANGED vars
    BY <1>8 DEF TypeOK, InHand, vars, loadVars, postVars, snapshotVars
  <1> QED
    BY <1>1, <1>2, <1>3, <1>4, <1>5, <1>6, <1>7, <1>8 DEF Next, Poll, Handle, Rest

\* At the start nothing is in hand.
LEMMA InHandInit == Init => InHand
  BY DEF Init, InHand

\* Every reachable state is well typed.
THEOREM TypeCorrect == Spec => []TypeOK
  BY TypeInit, InHandInit, TypeStep, PTL DEF Spec

-----------------------------------------------------------------------------
(* What the steps do to the request in hand, whatever else they do.        *)

\* The steps of Handle that post nothing.
Prepare ==
  \/ Begin
  \/ LoadSeen
  \/ \E outcome \in LoadOutcomes : LoadNew(outcome)
  \/ \E outcome \in CallOutcomes : Call(outcome)

\* Such a step goes on, decides on an answer and logs the end, or ends the
\* process; it keeps the books of the platform and the environment.
LEMMA PrepareShape ==
  ASSUME Prepare
  PROVE  /\ at \in {"begin", "load", "call"}
         /\ UNCHANGED <<client, replies, losses, inbox, snapshotVars>>
         /\ \/ UNCHANGED endLines /\ \E place \in {"load", "call"} : Continue(place)
            \/ LogEnd /\ \E place \in {"result", "refused", "error"} : Continue(place)
            \/ UNCHANGED endLines /\ Leave("ended")
  <1>1. CASE Begin
    BY <1>1 DEF Begin, Answer, Continue, postVars
  <1>2. CASE LoadSeen
    BY <1>2 DEF LoadSeen, Continue, postVars
  <1>3. ASSUME NEW outcome \in LoadOutcomes, LoadNew(outcome)
        PROVE  /\ at = "load"
               /\ UNCHANGED <<client, replies, losses, inbox, snapshotVars>>
               /\ \/ UNCHANGED endLines /\ Continue("call")
                  \/ LogEnd /\ Continue("error")
                  \/ UNCHANGED endLines /\ Leave("ended")
    <2>1. CASE Continue("call") /\ UNCHANGED postVars
      BY <1>3, <2>1, LoadNewShape DEF Continue, postVars
    <2>2. CASE Answer("error")
      BY <1>3, <2>2, LoadNewShape DEF Answer, Continue
    <2>3. CASE Leave("ended") /\ UNCHANGED postVars
      BY <1>3, <2>3, LoadNewShape DEF Leave, postVars
    <2> QED
      BY <1>3, <2>1, <2>2, <2>3, LoadNewShape
  <1>4. ASSUME NEW outcome \in CallOutcomes, Call(outcome)
        PROVE  /\ at = "call"
               /\ UNCHANGED <<client, replies, losses, inbox, snapshotVars>>
               /\ \/ LogEnd /\ \E place \in {"result", "error"} : Continue(place)
                  \/ UNCHANGED endLines /\ Leave("ended")
    BY <1>4 DEF Call, Answer, Continue, Leave, postVars
  <1> QED
    BY <1>1, <1>2, <1>3, <1>4 DEF Prepare

\* A post moves control to the poll, to the next catch, or out of the process.
LEMMA PostShape ==
  ASSUME NEW reply, Post(reply)
  PROVE  /\ at \in Posting
         /\ UNCHANGED <<client, inbox, snapshotVars, files>>
         /\ \/ Leave("poll") /\ UNCHANGED endLines
            \/ PostRaises(reply, strict) /\ at = "outer" /\ Leave("ended") /\ UNCHANGED endLines
            \/ PostRaises(reply, strict) /\ at = "error" /\ Continue("outer") /\ UNCHANGED endLines
            \/ /\ PostRaises(reply, strict)
               /\ at \in {"result", "refused"}
               /\ Continue("error")
               /\ LogEnd
  BY DEF Post, CaughtAt, AfterPost, Posting, Leave, Continue, loadVars

-----------------------------------------------------------------------------
(* The environment after a snapshot.                                       *)

\* Once the flag is cleared, the environment is restored; it is cleared
\* whenever a request is in hand.
RestoreInv ==
  /\ at \notin {"poll", "ended"} => ~snapshot
  /\ snapshot \/ workdir = "default"
  /\ snapshot \/ \A c \in stale : \E r \in Requests : c \notin Given(HeadersOf[r])

LEMMA RestoreInit == Init => RestoreInv
  BY ModeAssumption DEF Init, RestoreInv

\* Only taking a request touches the environment.
LEMMA RestoreStep == RestoreInv /\ [Next]_vars => RestoreInv'
  <1> SUFFICES ASSUME RestoreInv, [Next]_vars PROVE RestoreInv'
    OBVIOUS
  <1>1. ASSUME NEW reply \in PollReplies, NEW r \in Requests, Take(r, reply)
        PROVE  RestoreInv'
    <2>1. CASE snapshot
      BY <1>1, <2>1 DEF Take, Restore, RestoreInv, Given
    <2>2. CASE ~snapshot
      BY <1>1, <2>2 DEF Take, Restore, RestoreInv, Given
    <2> QED
      BY <2>1, <2>2
  <1>2. ASSUME NEW reply \in PollReplies, PollFails(reply) PROVE RestoreInv'
    BY <1>2 DEF PollFails, Leave, snapshotVars, RestoreInv, Given
  <1>3. CASE Prepare
    <2>1. UNCHANGED <<client, snapshotVars>> /\ at \notin {"poll", "ended"}
      BY <1>3, PrepareShape
    <2> QED
      BY <2>1 DEF snapshotVars, RestoreInv, Given
  <1>4. ASSUME NEW reply \in PostReplies, Post(reply) PROVE RestoreInv'
    BY <1>4, PostShape DEF Posting, snapshotVars, RestoreInv, Given
  <1>5. CASE UNCHANGED vars
    BY <1>5 DEF vars, snapshotVars, RestoreInv, Given
  <1> QED
    BY <1>1, <1>2, <1>3, <1>4, <1>5 DEF Next, Poll, Handle, Rest, Prepare

\* User code runs in a restored environment.
THEOREM RestoresFirst == Spec => []RestoredBeforeUserCode
  <1>1. RestoreInv => RestoredBeforeUserCode
    BY DEF RestoreInv, RestoredBeforeUserCode
  <1> QED
    BY <1>1, RestoreInit, RestoreStep, PTL DEF Spec

-----------------------------------------------------------------------------
(* Loading.                                                                *)

\* No step runs a file again.
LEMMA LoadStep ==
  ASSUME TypeOK, [Next]_vars, NEW f \in Files, files[f] # "unseen"
  PROVE  files'[f] = files[f]
  <1>1. ASSUME NEW outcome \in LoadOutcomes, LoadNew(outcome) PROVE files'[f] = files[f]
    BY <1>1 DEF LoadNew, Seen, TypeOK
  <1>2. CASE ~\E outcome \in LoadOutcomes : LoadNew(outcome)
    <2>1. UNCHANGED files
      BY <1>2 DEF Next, Poll, Handle, Rest, PollFails, Take, Begin, LoadSeen, Call, Post,
                  loadVars, vars
    <2> QED
      BY <2>1
  <1> QED
    BY <1>1, <1>2

\* The code of a file runs once in the life of the process.
THEOREM RunsFileOnce == Spec => NoSecondRun
  <1>1. TypeOK /\ [Next]_vars =>
          [\A f \in Files : files[f] # "unseen" => files'[f] = files[f]]_vars
    BY LoadStep
  <1> QED
    BY <1>1, TypeCorrect, PTL DEF Spec, NoSecondRun

-----------------------------------------------------------------------------
(* Answers that say the handler succeeded.                                 *)

\* A result is posted only for a function that exists.
ResultInv == at = "result" => files[File] # "unseen" /\ FunctionExists

\* A file that is called has been seen.
CallInv == at \in {"call"} => files[File] # "unseen"

LEMMA ResultStep ==
  TypeOK /\ InHand /\ ResultInv /\ CallInv /\ [Next]_vars => ResultInv' /\ CallInv'
  <1> SUFFICES ASSUME TypeOK, InHand, ResultInv, CallInv, [Next]_vars
               PROVE  ResultInv' /\ CallInv'
    OBVIOUS
  <1>1. ASSUME NEW reply \in PollReplies, NEW r \in Requests, Take(r, reply)
        PROVE  ResultInv' /\ CallInv'
    BY <1>1 DEF Take, ResultInv, CallInv
  <1>2. ASSUME NEW reply \in PollReplies, PollFails(reply) PROVE ResultInv' /\ CallInv'
    BY <1>2 DEF PollFails, Leave, ResultInv, CallInv
  <1>3. CASE Begin
    BY <1>3 DEF Begin, Answer, Continue, ResultInv, CallInv
  <1>4. CASE LoadSeen
    BY <1>4 DEF LoadSeen, Seen, Continue, File, ResultInv, CallInv
  <1>5. ASSUME NEW outcome \in LoadOutcomes, LoadNew(outcome) PROVE ResultInv' /\ CallInv'
    <2>1. CASE Continue("call")
      <3>1. File \in Files /\ files'[File] # "unseen"
        BY <1>5, FileType DEF LoadNew, InHand, File, TypeOK
      <3>2. current' = current /\ at' = "call"
        BY <2>1 DEF Continue
      <3> QED
        BY <3>1, <3>2 DEF File, ResultInv, CallInv
    <2>2. CASE Answer("error")
      BY <2>2 DEF Answer, Continue, ResultInv, CallInv
    <2>3. CASE Leave("ended")
      BY <2>3 DEF Leave, ResultInv, CallInv
    <2> QED
      BY <1>5, <2>1, <2>2, <2>3, LoadNewShape
  <1>6. ASSUME NEW outcome \in CallOutcomes, Call(outcome) PROVE ResultInv' /\ CallInv'
    <2>1. files[File] # "unseen"
      BY <1>6 DEF Call, CallInv
    <2>2. CASE FunctionExists /\ Answer("result")
      <3>1. UNCHANGED <<current, files, declares>> /\ at' = "result"
        BY <1>6, <2>2 DEF Call, Answer, Continue, loadVars
      <3>2. FunctionExists'
        BY <2>2, <3>1 DEF FunctionExists, Functions
      <3> QED
        BY <2>1, <3>1, <3>2 DEF File, ResultInv, CallInv
    <2>3. CASE Answer("error")
      BY <2>3 DEF Answer, Continue, ResultInv, CallInv
    <2>4. CASE Leave("ended")
      BY <2>4 DEF Leave, ResultInv, CallInv
    <2> QED
      BY <1>6, <2>2, <2>3, <2>4 DEF Call
  <1>7. ASSUME NEW reply \in PostReplies, Post(reply) PROVE ResultInv' /\ CallInv'
    <2>1. at' \notin {"result", "call"}
      BY <1>7, PostShape DEF Leave, Continue
    <2> QED
      BY <2>1 DEF ResultInv, CallInv
  <1>8. CASE UNCHANGED vars
    <2>1. UNCHANGED <<at, current, files, declares>>
      BY <1>8 DEF vars, loadVars
    <2> QED
      BY <2>1 DEF File, FunctionExists, Functions, ResultInv, CallInv
  <1> QED
    BY <1>1, <1>2, <1>3, <1>4, <1>5, <1>6, <1>7, <1>8 DEF Next, Poll, Handle, Rest

LEMMA ResultInit == Init => ResultInv /\ CallInv
  BY DEF Init, ResultInv, CallInv

\* Only a post touches the books, and only for the request in hand.
LEMMA BooksStep ==
  ASSUME TypeOK, [Next]_vars, NEW r \in Requests, replies'[r] # replies[r]
  PROVE  r = current /\ at \in Posting
  <1>1. PICK reply \in PostReplies : Post(reply)
    <2>1. ASSUME Prepare PROVE UNCHANGED replies
      BY <2>1, PrepareShape
    <2>2. ASSUME Poll PROVE UNCHANGED replies
      BY <2>2 DEF Poll, PollFails, Take, postVars
    <2> QED
      BY <2>1, <2>2 DEF Next, Handle, Prepare, Rest, vars, postVars
  <1>2. at \in Posting
    BY <1>1 DEF Post
  <1>3. r = current
    BY <1>1 DEF Post, TakeIn, TypeOK
  <1> QED
    BY <1>2, <1>3

\* An answer that says the handler succeeded follows a handler that ended.
THEOREM ResultsAreEarned == Spec => ResultFromHandler
  <1> DEFINE Earned(r) ==
        replies'[r] # replies[r] /\ Kind # "error" =>
          r = current /\ files[FileOf[r]] # "unseen" /\ FunctionOf[r] \in Functions
  <1>1. TypeOK /\ ResultInv /\ [Next]_vars => [\A r \in Requests : Earned(r)]_vars
    <2> SUFFICES ASSUME TypeOK, ResultInv, [Next]_vars, NEW r \in Requests,
                        replies'[r] # replies[r], Kind # "error"
                 PROVE  r = current /\ files[FileOf[r]] # "unseen" /\ FunctionOf[r] \in Functions
      OBVIOUS
    <2>1. at = "result"
      BY DEF Kind
    <2>2. r = current
      BY BooksStep
    <2>3. files[File] # "unseen" /\ FunctionExists
      BY <2>1 DEF ResultInv
    <2> QED
      BY <2>2, <2>3 DEF FunctionExists, File
  <1>2. Spec => [](TypeOK /\ InHand /\ ResultInv /\ CallInv)
    BY TypeInit, InHandInit, TypeStep, ResultInit, ResultStep, PTL DEF Spec
  <1>3. [][TypeOK /\ ResultInv /\ Next]_vars => ResultFromHandler
    BY <1>1, PTL DEF ResultFromHandler, Earned
  <1> QED
    BY <1>2, <1>3, PTL DEF Spec

-----------------------------------------------------------------------------
(* One answer for each catch.                                              *)

\* Only errors follow the first answer.
ErrorsFollow(s) == \A i, j \in DOMAIN s : i < j => s[j] = "error"

\* How many answers there may be of the request that was posted for here.
Before(place) ==
  IF place = "error" THEN 1 ELSE IF place = "outer" THEN 2 ELSE 0

\* Each catch posts once: a request in hand has as many answers as there were
\* posts before this place, at most.
CatchInv ==
  /\ \A r \in inbox : replies[r] = <<>>
  /\ \A r \in Requests : Len(replies[r]) <= 3 /\ ErrorsFollow(replies[r])
  /\ at \notin {"poll", "ended"} => Len(replies[current]) <= Before(at)

\* One more answer, an error unless it is the first.
LEMMA ErrorFollows ==
  ASSUME NEW T, NEW s \in Seq(T), NEW k \in T, ErrorsFollow(s), s = <<>> \/ k = "error"
  PROVE  /\ Append(s, k) \in Seq(T) /\ Len(Append(s, k)) = Len(s) + 1
         /\ ErrorsFollow(Append(s, k))
<1>1. /\ Len(s) \in Nat /\ Append(s, k) \in Seq(T) /\ Len(Append(s, k)) = Len(s) + 1
      /\ Append(s, k)[Len(s) + 1] = k
      /\ \A i \in 1 .. Len(s) : Append(s, k)[i] = s[i]
      /\ DOMAIN s = 1 .. Len(s) /\ DOMAIN Append(s, k) = 1 .. Len(s) + 1
  OBVIOUS
<1>2. ASSUME NEW i \in 1 .. Len(s) + 1, NEW j \in 1 .. Len(s) + 1, i < j
      PROVE  Append(s, k)[j] = "error"
  <2>1. CASE j = Len(s) + 1
    <3>1. Len(s) # 0
      BY <1>1, <1>2, <2>1
    <3>2. s # <<>>
      BY <3>1
    <3> QED
      BY <1>1, <2>1, <3>2
  <2>2. CASE j # Len(s) + 1
    BY <1>1, <1>2, <2>2 DEF ErrorsFollow
  <2> QED
    BY <2>1, <2>2
<1> QED
  BY <1>1, <1>2 DEF ErrorsFollow

LEMMA CatchInit == Init => CatchInv
<1> SUFFICES ASSUME Init PROVE CatchInv
  OBVIOUS
<1>1. at = "poll" /\ inbox = Requests /\ \A r \in Requests : replies[r] = <<>>
  BY DEF Init
<1>2. \A r \in Requests : Len(replies[r]) = 0 /\ DOMAIN replies[r] = {}
  BY <1>1
<1> QED
  BY <1>1, <1>2 DEF CatchInv, ErrorsFollow

\* Every step keeps it.
LEMMA CatchStep ==
  ASSUME TypeOK, InHand, CatchInv, [Next]_vars
  PROVE  CatchInv'
<1>0. ASSUME UNCHANGED replies, inbox' \subseteq inbox,
             \/ at' \in {"poll", "ended"}
             \/ current' = current /\ at \notin {"poll", "ended"} /\ Before(at) <= Before(at')
             \/ current' \in inbox
      PROVE  CatchInv'
  <2>1. at' \notin {"poll", "ended"} => Len(replies[current']) <= Before(at')
    BY <1>0 DEF CatchInv, Before
  <2> QED
    BY <1>0, <2>1 DEF CatchInv
<1>1. ASSUME NEW reply \in PollReplies, NEW r \in Requests, Take(r, reply)
      PROVE  CatchInv'
  BY <1>0, <1>1 DEF Take, postVars
<1>2. ASSUME NEW reply \in PollReplies, PollFails(reply) PROVE CatchInv'
  BY <1>0, <1>2 DEF PollFails, Leave, postVars
<1>3. CASE Prepare
  BY <1>0, <1>3, PrepareShape DEF Continue, Leave, Before
<1>4. ASSUME NEW reply \in PostReplies, Post(reply) PROVE CatchInv'
  <2> DEFINE kind == ArrivesAs(Kind)
  <2>1. /\ at \in Posting /\ UNCHANGED inbox
        /\ \/ at' \in {"poll", "ended"}
           \/ current' = current /\ at' \in {"error", "outer"} /\ Before(at') = Before(at) + 1
    BY <1>4, PostShape DEF Continue, Leave, Before, Posting
  <2>2. current \in Requests \ inbox /\ Len(replies[current]) <= Before(at)
    BY <2>1 DEF InHand, CatchInv, Posting
  <2>3. kind \in Kinds /\ (at # "result" => kind = "error")
    BY KindArrives DEF Kind, ArrivesAs
  <2>4. \/ replies' = [replies EXCEPT ![current] = Append(@, kind)]
        \/ UNCHANGED replies
    BY <1>4 DEF Post, TakeIn
  <2> HIDE DEF kind
  <2>5. replies[current] \in Seq(Kinds)
    BY <2>2 DEF TypeOK
  <2>6. replies[current] = <<>> \/ kind = "error"
    <3>1. CASE at = "result"
      <4>1. Len(replies[current]) = 0
        BY <2>2, <2>5, <3>1 DEF Before
      <4> QED
        BY <2>5, <4>1
    <3>2. CASE at # "result"
      BY <2>3, <3>2
    <3> QED
      BY <3>1, <3>2
  <2>7. /\ Append(replies[current], kind) \in Seq(Kinds)
        /\ Len(Append(replies[current], kind)) = Len(replies[current]) + 1
        /\ ErrorsFollow(Append(replies[current], kind))
    BY <2>2, <2>3, <2>5, <2>6, ErrorFollows DEF CatchInv
  <2>8. /\ Len(replies'[current]) <= Len(replies[current]) + 1 /\ ErrorsFollow(replies'[current])
        /\ \A r \in Requests : r # current => replies'[r] = replies[r]
    <3>1. CASE replies' = [replies EXCEPT ![current] = Append(@, kind)]
      BY <2>2, <2>5, <2>7, <3>1 DEF TypeOK
    <3>2. CASE UNCHANGED replies
      BY <2>2, <2>5, <3>2 DEF CatchInv
    <3> QED
      BY <2>4, <3>1, <3>2
  <2>9. Len(replies[current]) \in Nat /\ Len(replies'[current]) \in Nat
    BY <2>2, <2>4, <2>5, <2>7 DEF TypeOK
  <2>10. Len(replies'[current]) <= 3
    BY <2>1, <2>2, <2>8, <2>9 DEF Before, Posting
  <2>11. \A r \in Requests : Len(replies'[r]) <= 3 /\ ErrorsFollow(replies'[r])
    BY <2>8, <2>10 DEF CatchInv
  <2>12. \A r \in inbox' : replies'[r] = <<>>
    BY <2>1, <2>2, <2>8 DEF CatchInv, TypeOK
  <2>13. at' \notin {"poll", "ended"} => Len(replies'[current']) <= Before(at')
    BY <2>1, <2>2, <2>8, <2>9 DEF Before, Posting
  <2> QED
    BY <2>11, <2>12, <2>13 DEF CatchInv
<1>5. CASE UNCHANGED vars
  BY <1>5 DEF vars, postVars, CatchInv, Before
<1> QED
  BY <1>1, <1>2, <1>3, <1>4, <1>5 DEF Next, Poll, Handle, Rest, Prepare

\* For any replies of the platform, delivered or not, with a body or not: a
\* request is answered at most three times, and after the first as an error.
THEOREM AnswersAreCaught == Spec => []AnswersPerCatch
<1>1. TypeOK /\ InHand /\ CatchInv /\ [Next]_vars => TypeOK' /\ InHand' /\ CatchInv'
  BY TypeStep, CatchStep
<1>2. CatchInv => AnswersPerCatch
  BY DEF CatchInv, ErrorsFollow, AnswersPerCatch
<1> QED
  BY <1>1, <1>2, TypeInit, InHandInit, CatchInit, PTL DEF Spec

-----------------------------------------------------------------------------
(* One answer and one end line with the extension, whose posts do not raise. *)

\* Nothing happened to r yet.
Fresh(r) == replies[r] = <<>> /\ endLines[r] = 0

\* The end line comes first; a bad type has none.
Settled(r) ==
  /\ Len(replies[r]) <= IF TypeRaises(r) THEN 1 ELSE endLines[r]
  /\ endLines[r] <= IF TypeRaises(r) THEN 0 ELSE 1

\* The request in hand is not answered, and the places that follow an end line
\* are told from those before it.
QuietInv ==
  client = "native" =>
  /\ \A r \in inbox : Fresh(r)
  /\ \A r \in Requests : Settled(r)
  /\ at \notin {"poll", "ended"} =>
       /\ replies[current] = <<>>
       /\ (at = "outer") <=> TypeRaises(current)
       /\ endLines[current] = IF at \in {"result", "refused", "error"} THEN 1 ELSE 0

LEMMA QuietInit == Init => QuietInv
  BY DEF Init, QuietInv, Fresh, Settled

\* A process keeps the client it started with.
LEMMA ClientStays == [Next]_vars => UNCHANGED client
  <1>1. ASSUME NEW reply \in PostReplies, Post(reply) PROVE UNCHANGED client
    BY <1>1, PostShape
  <1>2. CASE Prepare
    BY <1>2, PrepareShape
  <1> QED
    BY <1>1, <1>2 DEF Next, Poll, Handle, Rest, Prepare, PollFails, Leave, Take, vars

\* A post of the extension ends the request.
LEMMA QuietPost ==
  ASSUME client = "native", NEW reply \in PostReplies, Post(reply)
  PROVE  Leave("poll") /\ UNCHANGED endLines
  BY PostShape DEF PostRaises

\* No step of a process with the extension breaks it.
LEMMA QuietNativeStep ==
  ASSUME client = "native", TypeOK, InHand, QuietInv, [Next]_vars
  PROVE  QuietInv'
  <1>0. client' = "native" /\ \A r \in Requests : TypeRaises(r)' = TypeRaises(r)
    BY ClientStays DEF TypeRaises
  <1>1. ASSUME NEW reply \in PollReplies, NEW r \in Requests, Take(r, reply)
        PROVE  QuietInv'
    BY <1>1 DEF Take, QuietInv, Fresh, Settled, TypeOK, TypeRaises, postVars
  <1>2. ASSUME NEW reply \in PollReplies, PollFails(reply) PROVE QuietInv'
    BY <1>2 DEF PollFails, Leave, QuietInv, Fresh, Settled, TypeRaises, postVars
  <1>3. CASE Prepare
    <2>0. /\ current \in Requests \ inbox
          /\ ~TypeRaises(current)
          /\ replies[current] = <<>>
          /\ endLines[current] = 0
          /\ UNCHANGED <<replies, inbox>>
      BY <1>3, PrepareShape DEF InHand, QuietInv
    <2>1. CASE UNCHANGED endLines /\ \E place \in {"load", "call"} : Continue(place)
      BY <2>0, <2>1 DEF Continue, QuietInv, Fresh, Settled, TypeRaises
    <2>2. CASE LogEnd /\ \E place \in {"result", "refused", "error"} : Continue(place)
      <3>1. endLines' = [endLines EXCEPT ![current] = 1]
        BY <2>0, <2>2 DEF LogEnd, TypeOK
      <3>2. at' \in {"result", "refused", "error"} /\ current' = current
        BY <2>2 DEF Continue
      <3>3. \A r \in inbox : Fresh(r)'
        BY <2>0, <3>1 DEF QuietInv, Fresh, TypeOK
      <3>4. \A r \in Requests : Settled(r)'
        BY <1>0, <2>0, <3>1 DEF QuietInv, Settled, TypeOK
      <3> QED
        BY <2>0, <3>1, <3>2, <3>3, <3>4 DEF QuietInv, TypeOK, TypeRaises
    <2>3. CASE UNCHANGED endLines /\ Leave("ended")
      BY <1>0, <2>0, <2>3 DEF Leave, QuietInv, Fresh, Settled
    <2> QED
      BY <1>3, <2>1, <2>2, <2>3, PrepareShape
  <1>4. ASSUME NEW reply \in PostReplies, Post(reply) PROVE QuietInv'
    <2>1. Leave("poll") /\ UNCHANGED endLines
      BY <1>4, QuietPost
    <2>2. current \in Requests \ inbox /\ replies[current] = <<>>
      BY <1>4, PostShape DEF InHand, QuietInv, Posting
    <2>3. Len(replies'[current]) <= 1
      <3> DEFINE kind == ArrivesAs(Kind)
      <3>1. \/ replies' = [replies EXCEPT ![current] = Append(@, kind)]
            \/ UNCHANGED replies
        BY <1>4 DEF Post, TakeIn
      <3> HIDE DEF kind
      <3>2. Append(replies[current], kind) = <<kind>>
        BY <2>2
      <3>3. CASE replies' = [replies EXCEPT ![current] = Append(@, kind)]
        <4>1. replies'[current] = <<kind>>
          BY <2>2, <3>2, <3>3 DEF TypeOK
        <4> QED
          BY <4>1
      <3>4. CASE UNCHANGED replies
        BY <2>2, <3>4
      <3> QED
        BY <3>1, <3>3, <3>4
    <2>4. \A r \in Requests : r # current => replies'[r] = replies[r]
      BY <1>4 DEF Post, TakeIn, TypeOK
    <2>5. IF TypeRaises(current) THEN endLines[current] = 0 ELSE endLines[current] = 1
      BY <1>4, PostShape DEF QuietInv, Posting
    <2>6. \A r \in inbox : Fresh(r)'
      BY <2>1, <2>2, <2>4 DEF QuietInv, Fresh, TypeOK
    <2>7. \A r \in Requests : Settled(r)'
      <3> SUFFICES ASSUME NEW r \in Requests PROVE Settled(r)'
        OBVIOUS
      <3>1. CASE r = current
        BY <1>0, <2>1, <2>3, <2>5, <3>1 DEF Settled
      <3>2. CASE r # current
        BY <1>0, <2>1, <2>4, <3>2 DEF QuietInv, Settled
      <3> QED
        BY <3>1, <3>2
    <2> QED
      BY <2>1, <2>6, <2>7 DEF Leave, QuietInv
  <1>5. CASE UNCHANGED vars
    BY <1>5 DEF vars, postVars, QuietInv, Fresh, Settled, TypeRaises
  <1> QED
    BY <1>1, <1>2, <1>3, <1>4, <1>5 DEF Next, Poll, Handle, Rest, Prepare

\* No step breaks it: the other client never has to keep it.
LEMMA QuietStep ==
  ASSUME TypeOK, InHand, QuietInv, [Next]_vars
  PROVE  QuietInv'
  <1>1. CASE client = "native"
    BY <1>1, QuietNativeStep
  <1>2. CASE client # "native"
    BY <1>2, ClientStays DEF QuietInv
  <1> QED
    BY <1>1, <1>2

LEMMA QuietInvariant == Spec => [](TypeOK /\ InHand /\ QuietInv)
  <1>1. TypeOK /\ InHand /\ QuietInv /\ [Next]_vars => TypeOK' /\ InHand' /\ QuietInv'
    BY TypeStep, QuietStep
  <1> QED
    BY <1>1, TypeInit, InHandInit, QuietInit, PTL DEF Spec

\* With the extension every end line belongs to an answer.
THEOREM EndLinesMatch == Spec => []EndLineMatchesAnswer
  <1>1. TypeOK /\ QuietInv => EndLineMatchesAnswer
    BY DEF TypeOK, QuietInv, Fresh, Settled, EndLineMatchesAnswer
  <1> QED
    BY <1>1, QuietInvariant, PTL

-----------------------------------------------------------------------------
(* The loop implements InvocationContract.                                 *)

\* An answer of the request in hand changes what counts for this request, from
\* nothing to this answer, or not at all.
LEMMA AnswerCounts ==
  ASSUME TypeOK, QuietInv, NEW reply \in PostReplies, Post(reply), current \in Requests \ inbox
  PROVE  \/ UNCHANGED Counted
         \/ /\ Counted[current] = <<>>
            /\ \E k \in Kinds : Counted' = [Counted EXCEPT ![current] = <<k>>]
  <1> DEFINE kind == ArrivesAs(Kind)
             first(s) == IF client = "native" \/ s = <<>> THEN s ELSE <<s[1]>>
  <1>1. client' = client /\ at \in Posting
    BY PostShape
  <1>2. /\ Counted = [r \in Requests |-> first(replies[r])]
        /\ Counted' = [r \in Requests |-> first(replies'[r])]
    BY <1>1 DEF Counted
  <1>3. kind \in Kinds
    BY KindArrives
  <1>4. \/ replies' = [replies EXCEPT ![current] = Append(@, kind)]
        \/ UNCHANGED replies
    BY DEF Post, TakeIn
  <1>5. replies[current] \in Seq(Kinds) /\ Append(replies[current], kind) \in Seq(Kinds)
    BY <1>3 DEF TypeOK
  <1>6. first(<<>>) = <<>> /\ first(<<kind>>) = <<kind>>
    BY DEF first
  <1>7. replies[current] # <<>> => first(Append(replies[current], kind)) = first(replies[current])
    <2>1. replies[current] # <<>> => client # "native"
      BY <1>1 DEF QuietInv, Posting
    <2> QED
      BY <1>5, <2>1 DEF first
  <1> HIDE DEF kind, first
  <1>8. ASSUME replies' = [replies EXCEPT ![current] = Append(@, kind)]
        PROVE  /\ replies'[current] = Append(replies[current], kind)
               /\ \A r \in Requests : r # current => replies'[r] = replies[r]
    BY <1>8 DEF TypeOK
  <1>9. CASE UNCHANGED replies
    BY <1>2, <1>9
  <1>10. CASE replies' = [replies EXCEPT ![current] = Append(@, kind)] /\ replies[current] = <<>>
    <2>1. replies'[current] = <<kind>>
      BY <1>8, <1>10
    <2>2. Counted' = [Counted EXCEPT ![current] = <<kind>>] /\ Counted[current] = <<>>
      BY <1>2, <1>6, <1>8, <1>10, <2>1
    <2> QED
      BY <1>3, <2>2
  <1>11. CASE replies' = [replies EXCEPT ![current] = Append(@, kind)] /\ replies[current] # <<>>
    <2>1. \A r \in Requests : first(replies'[r]) = first(replies[r])
      BY <1>7, <1>8, <1>11
    <2> QED
      BY <1>2, <2>1
  <1> QED
    BY <1>4, <1>9, <1>10, <1>11

\* With the extension a request is handed out once and answered at most once,
\* whatever else fails; with the fallback the first answer stands for all.
THEOREM LoopImplementsContract == Spec => ContractSpec
  <1>1. Init => Contract!Init
    BY DEF Init, Counted, Contract!Init
  <1>2. TypeOK /\ InHand /\ QuietInv /\ [Next]_vars => [Contract!Next]_(Contract!contractVars)
    <2> SUFFICES ASSUME TypeOK, InHand, QuietInv, [Next]_vars
                 PROVE  Contract!Next \/ UNCHANGED Contract!contractVars
      OBVIOUS
    <2>0. UNCHANGED replies => UNCHANGED Counted
      BY ClientStays DEF Counted
    <2>1. ASSUME NEW reply \in PollReplies, NEW r \in Requests, Take(r, reply)
          PROVE  Contract!Next
      <3>1. r \in inbox /\ inbox' = inbox \ {r} /\ UNCHANGED Counted
        BY <2>0, <2>1 DEF Take, postVars
      <3> QED
        BY <3>1 DEF Contract!Take, Contract!Next
    <2>2. ASSUME NEW reply \in PollReplies, PollFails(reply)
          PROVE  UNCHANGED Contract!contractVars
      BY <2>0, <2>2 DEF PollFails, Leave, postVars, Contract!contractVars
    <2>3. CASE Prepare
      BY <2>0, <2>3, PrepareShape DEF Contract!contractVars
    <2>4. ASSUME NEW reply \in PostReplies, Post(reply)
          PROVE  Contract!Next \/ UNCHANGED Contract!contractVars
      <3>1. current \in Requests \ inbox /\ UNCHANGED inbox
        BY <2>4, PostShape DEF InHand, Posting
      <3>2. \/ UNCHANGED Counted
            \/ /\ Counted[current] = <<>>
               /\ \E k \in Kinds : Counted' = [Counted EXCEPT ![current] = <<k>>]
        BY <2>4, <3>1, AnswerCounts
      <3> QED
        BY <3>1, <3>2 DEF Contract!Answer, Contract!Next, Contract!contractVars
    <2>5. CASE UNCHANGED vars
      BY <2>0, <2>5 DEF vars, postVars, Contract!contractVars
    <2> QED
      BY <2>1, <2>2, <2>3, <2>4, <2>5 DEF Next, Poll, Handle, Rest, Prepare
  <1> QED
    BY <1>1, <1>2, QuietInvariant, PTL DEF Spec, ContractSpec, Contract!Spec
=============================================================================
