------------------------- MODULE PythonPartsProofs -------------------------
(***************************************************************************)
(* Theorems about the components of the Python runtimes that are checked   *)
(* side by side: Python2Runtime, for any requests, handlers and user code; *)
(* PythonLogs, for any loggers, messages and failing flushes; and          *)
(* PythonWsgi, for any headers and any calls of the application.           *)
(***************************************************************************)
EXTENDS Python2Runtime, PythonLogs, PythonWsgi, FiniteSetTheorems,
        SequenceTheorems, TLAPS

-----------------------------------------------------------------------------
(* Python2Runtime.                                                         *)

\* The stages in which a request is at hand.
Active == {"body", "run", "result", "error", "lastError"}

Invariants == TypeOK /\ LogInv /\ CacheInv

-----------------------------------------------------------------------------
(* What handle_request does next, whichever way it got there.              *)

\* Request r is sent to stage s with the end line that s needs.
GoesTo(r, s) ==
  /\ stage' = s
  /\ \/ s \in {"body", "run"} /\ UNCHANGED endLog
     \/ s = "result" /\ endLog' = [endLog EXCEPT ![r] = "handled"]
     \/ s \in {"error", "lastError"} /\ endLog' = [endLog EXCEPT ![r] = "unhandled"]
  /\ UNCHANGED <<replies, postFailures>>

\* The handler h of the request is called, reported as not found, or neither.
Tells(h) ==
  \/ UNCHANGED told
  \/ Tell(h, "called") /\ h \in global_handlers'
  \/ Tell(h, "not found") /\ h \notin global_handlers

\* A found handler is called, or its request fails before.
LEMMA CallShape ==
  ASSUME NEW r, Call(r), HandlerOf[r] \in global_handlers'
  PROVE  (\E s \in Active \ {"body"} : GoesTo(r, s)) /\ Tells(HandlerOf[r])
BY DEF Call, SendLastError, LogEnd, GoesTo, Tells, Active, posted

\* A handler that is not in the cache is not found, or cached and called.
LEMMA BindShape ==
  ASSUME NEW r, Bind(r), HandlerOf[r] \notin global_handlers
  PROVE  /\ \E s \in Active \ {"body"} : GoesTo(r, s)
         /\ Tells(HandlerOf[r])
         /\ global_handlers' \in {global_handlers, global_handlers \cup {HandlerOf[r]}}
<1>1. CASE HandlerOf[r] \in Missing
  BY <1>1 DEF Bind, NotFound, SendError, LogEnd, GoesTo, Tells, Active
<1>2. CASE HandlerOf[r] \notin Missing
  <2>1. global_handlers' = global_handlers \cup {HandlerOf[r]} /\ Call(r)
    BY <1>2 DEF Bind, Cache
  <2> QED
    BY <2>1, CallShape
<1> QED
  BY <1>1, <1>2

\* One step of handle_request for request r, from any of its stages.
Handles(r) ==
  /\ r = request'
  /\ \E s \in Active : GoesTo(r, s) /\ (s = "body" => HandlerOf[r] \notin global_handlers')
  /\ Tells(HandlerOf[r])
  /\ global_handlers' \in {global_handlers, global_handlers \cup {HandlerOf[r]}}
  /\ UNCHANGED files

\* A request that was polled is handled.
LEMMA TakeShape ==
  ASSUME NEW r \in Requests, Take(r)
  PROVE  stage = "poll" /\ r \in inbox /\ inbox' = inbox \ {r} /\ Handles(r) /\ UNCHANGED modules
<1> DEFINE h == HandlerOf[r]
<1>0. /\ stage = "poll" /\ r \in inbox /\ inbox' = inbox \ {r} /\ request' = r
      /\ UNCHANGED <<files, modules>>
  BY DEF Take
<1>1. CASE SendLastError(r) /\ UNCHANGED <<global_handlers, told>>
  BY <1>0, <1>1 DEF SendLastError, LogEnd, Handles, GoesTo, Tells, Active
<1>2. CASE h \in global_handlers /\ Call(r) /\ UNCHANGED global_handlers
  BY <1>0, <1>2, CallShape DEF Handles
<1>3. CASE h \notin global_handlers /\ NotFound(r) /\ UNCHANGED global_handlers
  BY <1>0, <1>3 DEF NotFound, SendError, LogEnd, Handles, GoesTo, Tells, Active
<1>4. CASE h \notin global_handlers /\ Bind(r)
  BY <1>0, <1>4, BindShape DEF Handles
<1>5. CASE /\ h \notin global_handlers
           /\ stage' = "body" /\ UNCHANGED <<global_handlers, told, posted>>
  BY <1>0, <1>5 DEF Handles, GoesTo, Tells, Active, posted
<1> QED
  BY <1>0, <1>1, <1>2, <1>3, <1>4, <1>5 DEF Take

\* So is one whose module's body or whose handler ends.
LEMMA EndShape ==
  ASSUME CacheInv, EndBody \/ BodyRaises \/ EndRun
  PROVE  /\ stage \in Active /\ Handles(request) /\ UNCHANGED <<request, inbox>>
         /\ modules' \in {modules, modules \cup {ModuleOf[HandlerOf[request]]}}
<1>1. CASE EndBody
  BY <1>1, BindShape DEF EndBody, Handles, CacheInv, Active
<1>2. CASE BodyRaises
  BY <1>2 DEF BodyRaises, NotFound, SendError, LogEnd, Handles, GoesTo, Tells, Active, CacheInv
<1>3. CASE EndRun
  BY <1>3 DEF EndRun, SendResult, SendError, SendLastError, LogEnd, Handles, GoesTo, Tells,
              Active, loaded
<1> QED
  BY <1>1, <1>2, <1>3

-----------------------------------------------------------------------------
(* The invariants.                                                         *)

\* What is told of a request keeps the cache's invariant: only a handler that
\* was never called is reported as not found.
LEMMA TellsKeepsCacheInv ==
  ASSUME TypeOK, CacheInv, NEW r \in Requests, Handles(r)
  PROVE  /\ told' \in Seq(Tellings)
         /\ CacheInv'
<1> DEFINE h == HandlerOf[r]
<1>0. h \in Handlers /\ told \in Seq(Tellings)
  BY Python2Assumption DEF TypeOK
<1>1. stage' = "body" => HandlerOf[request'] \notin global_handlers'
  BY DEF Handles, GoesTo
<1>2. global_handlers \subseteq global_handlers'
  BY DEF Handles
<1>3. CASE UNCHANGED told
  BY <1>0, <1>1, <1>2, <1>3 DEF CacheInv
<1>4. ASSUME NEW t \in Tellings, told' = Append(told, t), t[1] = h,
             t[2] = "called" => h \in global_handlers',
             t[2] # "called" => h \notin global_handlers
      PROVE  told' \in Seq(Tellings) /\ CacheInv'
  <2> HIDE DEF h
  <2>2. told' \in Seq(Tellings)
    BY <1>0, <1>4
  <2>3. /\ DOMAIN told = 1 .. Len(told) /\ DOMAIN told' = 1 .. Len(told) + 1
        /\ Len(told) \in Nat
        /\ \A i \in 1 .. Len(told) : told'[i] = told[i]
        /\ told'[Len(told) + 1] = t
    BY <1>0, <1>4
  <2>4. ASSUME NEW i \in DOMAIN told', told'[i][2] = "called"
        PROVE  told'[i][1] \in global_handlers'
    <3>1. CASE i \in 1 .. Len(told)
      BY <1>2, <2>3, <2>4, <3>1 DEF CacheInv
    <3>2. CASE i = Len(told) + 1
      BY <1>4, <2>3, <2>4, <3>2
    <3> QED
      BY <2>3, <3>1, <3>2
  <2>5. ASSUME NEW i \in DOMAIN told', NEW j \in DOMAIN told', i < j,
               told'[i][1] = told'[j][1], told'[i][2] = "called"
        PROVE  told'[j][2] = "called"
    <3>0. i \in 1 .. Len(told)
      BY <2>3, <2>5
    <3>1. CASE j \in 1 .. Len(told)
      BY <2>3, <2>5, <3>0, <3>1 DEF CacheInv
    <3>2. CASE j = Len(told) + 1
      <4>0. told'[i] = told[i] /\ told'[j] = t
        BY <2>3, <3>0, <3>2
      <4>1. told[i][1] \in global_handlers
        BY <2>3, <2>5, <3>0 DEF CacheInv
      <4>2. h \in global_handlers
        BY <1>4, <2>5, <4>0, <4>1, Zenon
      <4> QED
        BY <1>4, <2>3, <3>2, <4>2
    <3> QED
      BY <2>3, <3>1, <3>2
  <2> QED
    BY <1>1, <2>2, <2>4, <2>5 DEF CacheInv
<1>5. ASSUME NEW what \in {"called", "not found"}, Tell(h, what),
             what = "called" => h \in global_handlers',
             what = "not found" => h \notin global_handlers
      PROVE  told' \in Seq(Tellings) /\ CacheInv'
  <2>1. <<h, what>> \in Tellings
    BY <1>0 DEF Tellings
  <2>2. told' = Append(told, <<h, what>>)
    BY <1>5, Zenon DEF Tell
  <2>3. <<h, what>>[1] = h /\ <<h, what>>[2] = what
    OBVIOUS
  <2>4. PICK t \in Tellings : t = <<h, what>>
    BY <2>1, Zenon
  <2>5. t[1] = h /\ t[2] = what
    BY <2>3, <2>4, Zenon
  <2>6. told' = Append(told, t)
    BY <2>2, <2>4, Zenon
  <2> QED
    BY <1>4, <1>5, <2>5, <2>6
<1>6. \/ UNCHANGED told
      \/ Tell(h, "called") /\ h \in global_handlers'
      \/ Tell(h, "not found") /\ h \notin global_handlers
  BY Zenon DEF Handles, Tells
<1> QED
  BY <1>3, <1>5, <1>6

\* A step of handle_request keeps the types.
LEMMA HandlesType ==
  ASSUME TypeOK, CacheInv, NEW r \in Requests, Handles(r),
         inbox' \subseteq Requests,
         modules' \in {modules, modules \cup {ModuleOf[HandlerOf[r]]}}
  PROVE  TypeOK'
<1>1. HandlerOf[r] \in Handlers /\ ModuleOf[HandlerOf[r]] \in Modules
  BY Python2Assumption DEF Modules
<1>2. told' \in Seq(Tellings)
  BY TellsKeepsCacheInv
<1>3. endLog' \in [Requests -> {"none", "handled", "unhandled"}]
  BY DEF TypeOK, Handles, GoesTo
<1>4. /\ replies' \in [Requests -> Seq({"result", "error"})]
      /\ postFailures' \in 0 .. MaxPostFailures
  BY DEF TypeOK, Handles, GoesTo
<1> QED
  BY <1>1, <1>2, <1>3, <1>4 DEF TypeOK, Handles, GoesTo, Active

\* It keeps the log's invariant, if its request has no answer yet.
LEMMA HandlesLog ==
  ASSUME TypeOK, LogInv, NEW r \in Requests, Handles(r), replies[r] = <<>>,
         inbox' \subseteq inbox \ {r}
  PROVE  LogInv'
<1>1. request' = r /\ replies' = replies
  BY DEF Handles, GoesTo
<1>2. /\ \A q \in Requests \ {r} : endLog'[q] = endLog[q]
      /\ stage' = "result" => endLog'[r] = "handled"
      /\ stage' \in {"error", "lastError"} => endLog'[r] = "unhandled"
  BY DEF Handles, GoesTo, TypeOK
<1>3. inbox' \subseteq inbox /\ r \notin inbox'
  OBVIOUS
<1> QED
  BY <1>1, <1>2, <1>3 DEF LogInv

\* The invariants hold initially.
LEMMA InitInvariants == Init => Invariants
<1> SUFFICES ASSUME Init PROVE Invariants
  OBVIOUS
<1>1. /\ endLog \in [Requests -> {"none", "handled", "unhandled"}]
      /\ replies \in [Requests -> Seq({"result", "error"})]
      /\ told \in Seq(Tellings)
      /\ postFailures \in 0 .. MaxPostFailures
  BY Python2Assumption DEF Init
<1>2. TypeOK
  BY <1>1 DEF Init, TypeOK
<1>3. LogInv
  BY DEF Init, LogInv
<1>4. CacheInv
  BY DEF Init, CacheInv
<1> QED
  BY <1>2, <1>3, <1>4 DEF Invariants

\* Every step keeps them.
LEMMA NextInvariants == Invariants /\ [Next]_vars => Invariants'
<1> SUFFICES ASSUME TypeOK, LogInv, CacheInv, [Next]_vars PROVE Invariants'
  BY DEF Invariants
<1>1. CASE Boot
  BY <1>1 DEF Boot, Invariants, TypeOK, LogInv, CacheInv, loaded, posted
<1>2. ASSUME NEW r \in Requests, Take(r) PROVE Invariants'
  <2>1. r \in inbox /\ inbox' = inbox \ {r} /\ Handles(r) /\ UNCHANGED modules
    BY <1>2, TakeShape
  <2>2. inbox' \subseteq Requests /\ replies[r] = <<>>
    BY <2>1 DEF TypeOK, LogInv
  <2> QED
    BY <2>1, <2>2, HandlesType, HandlesLog, TellsKeepsCacheInv DEF Invariants
<1>3. CASE EndBody \/ BodyRaises \/ EndRun
  <2>1. /\ stage \in Active /\ Handles(request) /\ inbox' = inbox
        /\ modules' \in {modules, modules \cup {ModuleOf[HandlerOf[request]]}}
    BY <1>3, EndShape
  <2>2. request \in Requests \ inbox /\ replies[request] = <<>> /\ inbox \subseteq Requests
    BY <2>1 DEF TypeOK, LogInv, Active
  <2> QED
    BY <2>1, <2>2, HandlesType, HandlesLog, TellsKeepsCacheInv DEF Invariants
<1>4. ASSUME NEW m \in Modules, RemoveFile(m) PROVE Invariants'
  BY <1>4 DEF RemoveFile, Invariants, TypeOK, LogInv, CacheInv, posted
<1>5. CASE PostSucceeds
  <2> DEFINE kind == IF stage = "result" THEN "result" ELSE "error"
  <2>1. /\ stage \in {"result", "error", "lastError"} /\ stage' = "poll"
        /\ replies' = [replies EXCEPT ![request] = Append(@, kind)]
        /\ UNCHANGED <<request, inbox, files, modules, global_handlers, told, endLog, postFailures>>
    BY <1>5 DEF PostSucceeds, AfterPost, loaded
  <2>2. request \in Requests \ inbox /\ replies[request] = <<>>
    BY <2>1 DEF LogInv
  <2>3. kind \in {"result", "error"} /\ (kind = "result" => endLog[request] = "handled")
    BY <2>1 DEF LogInv
  <2>4. kind # "result" => endLog[request] = "unhandled"
    BY <2>1 DEF LogInv
  <2> HIDE DEF kind
  <2>5. replies' = [replies EXCEPT ![request] = <<kind>>]
    BY <2>1, <2>2
  <2>6. TypeOK'
    BY <2>1, <2>2, <2>3, <2>5 DEF TypeOK
  <2>7. \A r \in Requests : replies'[r] = IF r = request THEN <<kind>> ELSE replies[r]
    BY <2>2, <2>5 DEF TypeOK
  <2>8. LogInv'
    BY <2>1, <2>2, <2>3, <2>4, <2>7 DEF LogInv, TypeOK
  <2>9. CacheInv'
    BY <2>1 DEF CacheInv
  <2> QED
    BY <2>6, <2>8, <2>9 DEF Invariants
<1>6. CASE PostRaises
  <2>1. /\ stage \in {"result", "error", "lastError"}
        /\ postFailures' = postFailures + 1 /\ postFailures < MaxPostFailures
        /\ UNCHANGED <<request, inbox, files, modules, global_handlers, told, replies>>
        /\ \/ stage' = "poll" /\ UNCHANGED endLog
           \/ stage' = "lastError" /\ endLog' = [endLog EXCEPT ![request] = "unhandled"]
    BY <1>6 DEF PostRaises, LogEnd, loaded
  <2>2. request \in Requests \ inbox /\ replies[request] = <<>>
    BY <2>1 DEF LogInv
  <2>3. postFailures' \in 0 .. MaxPostFailures
    BY <2>1, Python2Assumption DEF TypeOK
  <2>4. endLog' \in [Requests -> {"none", "handled", "unhandled"}]
    BY <2>1 DEF TypeOK
  <2>5. TypeOK'
    BY <2>1, <2>3, <2>4 DEF TypeOK
  <2>6. LogInv'
    BY <2>1, <2>2 DEF LogInv, TypeOK
  <2>7. CacheInv'
    BY <2>1 DEF CacheInv
  <2> QED
    BY <2>5, <2>6, <2>7 DEF Invariants
<1>7. CASE Exit
  BY <1>7 DEF Exit, Invariants, TypeOK, LogInv, CacheInv, loaded, posted
<1>8. CASE UNCHANGED vars
  BY <1>8 DEF vars, Invariants, TypeOK, LogInv, CacheInv
<1> QED
  BY <1>1, <1>2, <1>3, <1>4, <1>5, <1>6, <1>7, <1>8 DEF Next, Rest

\* They are invariants of the specification.
LEMMA InvariantsHold == Spec => []Invariants
  BY InitInvariants, NextInvariants, PTL DEF Spec

\* Every variable of the loop keeps its type, whatever user code and the
\* platform do.
THEOREM TypeCorrect == Spec => []TypeOK
  BY InvariantsHold, PTL DEF Invariants

\* Answer and end line agree, and a handler that was called once is found by
\* every later request, for any number of modules whose files come and go.
THEOREM ServedHolds == Spec => []ServedStaysServed
<1>1. Invariants => ServedStaysServed
  BY DEF Invariants, LogInv, CacheInv, ServedStaysServed
<1> QED
  BY <1>1, InvariantsHold, PTL

\* The Python 2 loop implements the contract of all runtimes: a post that raises
\* after the end line was printed is followed by one error at most, and no
\* request is ever answered twice.
THEOREM Python2ImplementsContract == Spec => ContractSpec
<1>1. Init => Contract!Init
  BY DEF Init, Contract!Init
<1>2. Invariants /\ [Next]_vars => [Contract!Next]_(Contract!contractVars)
  <2> SUFFICES ASSUME TypeOK, LogInv, CacheInv, [Next]_vars
               PROVE  [Contract!Next]_(Contract!contractVars)
    BY DEF Invariants
  <2>1. ASSUME NEW r \in Requests, Take(r) PROVE [Contract!Next]_(Contract!contractVars)
    <3>1. r \in inbox /\ inbox' = inbox \ {r} /\ UNCHANGED replies
      BY <2>1, TakeShape DEF Handles, GoesTo
    <3> QED
      BY <3>1 DEF Contract!Next, Contract!Take
  <2>2. CASE EndBody \/ BodyRaises \/ EndRun
    BY <2>2, EndShape DEF Handles, GoesTo, Contract!contractVars
  <2>3. CASE PostSucceeds
    <3>1. PICK kind \in {"result", "error"} :
            replies' = [replies EXCEPT ![request] = Append(@, kind)]
      BY <2>3 DEF PostSucceeds
    <3>2. request \in Requests \ inbox /\ replies[request] = <<>> /\ UNCHANGED inbox
      BY <2>3 DEF PostSucceeds, LogInv
    <3>3. replies' = [replies EXCEPT ![request] = <<kind>>]
      BY <3>1, <3>2
    <3> QED
      BY <3>2, <3>3 DEF Contract!Next, Contract!Answer
  <2>4. CASE Boot \/ (\E m \in Modules : RemoveFile(m)) \/ PostRaises \/ Exit \/ UNCHANGED vars
    BY <2>4 DEF Boot, RemoveFile, PostRaises, Exit, vars, posted, Contract!contractVars
  <2> QED
    BY <2>1, <2>2, <2>3, <2>4 DEF Next, Rest
<1> QED
  BY <1>1, <1>2, InvariantsHold, PTL DEF Spec, ContractSpec, Contract!Spec

-----------------------------------------------------------------------------
(* Sequences.                                                              *)

\* Where the elements of two sequences are in the one of both.
LEMMA Concatenation ==
  ASSUME NEW T, NEW s \in Seq(T), NEW t \in Seq(T)
  PROVE  /\ s \o t \in Seq(T) /\ Len(s \o t) = Len(s) + Len(t)
         /\ \A i \in 1 .. Len(s) : (s \o t)[i] = s[i]
         /\ \A i \in 1 .. Len(t) : (s \o t)[Len(s) + i] = t[i]
OBVIOUS

\* Sequences of the same length with the same elements are the same.
LEMMA SameElements ==
  ASSUME NEW T, NEW s \in Seq(T), NEW t \in Seq(T), Len(s) = Len(t),
         \A i \in 1 .. Len(s) : s[i] = t[i]
  PROVE  s = t
<1>1. s = [i \in 1 .. Len(s) |-> s[i]] /\ t = [i \in 1 .. Len(t) |-> t[i]]
  OBVIOUS
<1>2. [i \in 1 .. Len(s) |-> s[i]] = [i \in 1 .. Len(t) |-> t[i]]
  OBVIOUS
<1> QED
  BY <1>1, <1>2

\* The first n elements of a sequence and the others.
LEMMA Split ==
  ASSUME NEW T, NEW b \in Seq(T), NEW n \in 0 .. Len(b)
  PROVE  /\ SubSeq(b, 1, n) \in Seq(T) /\ Len(SubSeq(b, 1, n)) = n
         /\ \A i \in 1 .. n : SubSeq(b, 1, n)[i] = b[i]
         /\ SubSeq(b, n + 1, Len(b)) \in Seq(T)
         /\ Len(SubSeq(b, n + 1, Len(b))) = Len(b) - n
         /\ \A i \in 1 .. Len(b) - n : SubSeq(b, n + 1, Len(b))[i] = b[n + i]
OBVIOUS

\* Together they are the sequence, behind whatever comes before.
LEMMA Rejoined ==
  ASSUME NEW T, NEW a \in Seq(T), NEW b \in Seq(T), NEW n \in 0 .. Len(b)
  PROVE  (a \o SubSeq(b, 1, n)) \o SubSeq(b, n + 1, Len(b)) = a \o b
<1> DEFINE left == SubSeq(b, 1, n)
           right == SubSeq(b, n + 1, Len(b))
<1>0. Len(a) \in Nat /\ Len(b) \in Nat /\ n \in Nat /\ n <= Len(b)
  OBVIOUS
<1>1. /\ left \in Seq(T) /\ Len(left) = n /\ \A i \in 1 .. n : left[i] = b[i]
      /\ right \in Seq(T) /\ Len(right) = Len(b) - n
      /\ \A i \in 1 .. Len(b) - n : right[i] = b[n + i]
  BY Split
<1> HIDE DEF left, right
<1>2. /\ a \o left \in Seq(T) /\ Len(a \o left) = Len(a) + n
      /\ \A i \in 1 .. Len(a) : (a \o left)[i] = a[i]
      /\ \A i \in 1 .. n : (a \o left)[Len(a) + i] = left[i]
  <2>1. /\ a \o left \in Seq(T) /\ Len(a \o left) = Len(a) + Len(left)
        /\ \A i \in 1 .. Len(a) : (a \o left)[i] = a[i]
        /\ \A i \in 1 .. Len(left) : (a \o left)[Len(a) + i] = left[i]
    <3>1. a \in Seq(T) /\ left \in Seq(T)
      BY <1>1
    <3> QED
      BY <3>1, Concatenation
  <2> QED
    BY <1>1, <2>1
<1> DEFINE start == a \o left
<1> HIDE DEF start
<1>3. /\ start \in Seq(T) /\ Len(start) = Len(a) + n
      /\ \A i \in 1 .. Len(a) : start[i] = a[i]
      /\ \A i \in 1 .. n : start[Len(a) + i] = left[i]
  BY <1>2 DEF start
<1>4. /\ start \o right \in Seq(T) /\ Len(start \o right) = Len(a) + n + (Len(b) - n)
      /\ \A i \in 1 .. Len(a) + n : (start \o right)[i] = start[i]
      /\ \A i \in 1 .. Len(b) - n : (start \o right)[Len(a) + n + i] = right[i]
  <2>0. start \in Seq(T) /\ right \in Seq(T)
    BY <1>1, <1>3
  <2>1. /\ start \o right \in Seq(T) /\ Len(start \o right) = Len(start) + Len(right)
        /\ \A i \in 1 .. Len(start) : (start \o right)[i] = start[i]
        /\ \A i \in 1 .. Len(right) : (start \o right)[Len(start) + i] = right[i]
    BY <2>0, Concatenation
  <2> QED
    BY <1>1, <1>3, <2>1
<1>5. /\ a \o b \in Seq(T) /\ Len(a \o b) = Len(a) + Len(b)
      /\ \A i \in 1 .. Len(a) : (a \o b)[i] = a[i]
      /\ \A i \in 1 .. Len(b) : (a \o b)[Len(a) + i] = b[i]
  BY Concatenation
<1> DEFINE whole == start \o right
           both == a \o b
<1> HIDE DEF whole, both
<1>6. ASSUME NEW i \in 1 .. Len(a) + Len(b) PROVE whole[i] = both[i]
  <2>1. CASE i <= Len(a)
    BY <1>0, <1>3, <1>4, <1>5, <2>1 DEF whole, both
  <2>2. CASE i > Len(a) /\ i <= Len(a) + n
    <3> DEFINE k == i - Len(a)
    <3>1. k \in 1 .. n /\ k \in 1 .. Len(b) /\ i = Len(a) + k /\ i \in 1 .. Len(a) + n
      BY <1>0, <2>2
    <3> HIDE DEF k
    <3>2. whole[i] = start[i] /\ both[i] = b[k]
      BY <1>4, <1>5, <3>1 DEF whole, both
    <3>3. start[i] = left[k] /\ left[k] = b[k]
      BY <1>1, <1>3, <3>1
    <3> QED
      BY <3>2, <3>3
  <2>3. CASE i > Len(a) + n
    <3> DEFINE k == i - Len(a) - n
    <3>1. /\ k \in 1 .. Len(b) - n /\ n + k \in 1 .. Len(b)
          /\ i = Len(a) + n + k /\ i = Len(a) + (n + k)
      BY <1>0, <2>3
    <3> HIDE DEF k
    <3>2. whole[i] = right[k] /\ right[k] = b[n + k]
      BY <1>1, <1>4, <3>1 DEF whole
    <3>3. both[i] = b[n + k]
      BY <1>5, <3>1 DEF both
    <3> QED
      BY <3>2, <3>3
  <2> QED
    BY <1>0, <2>1, <2>2, <2>3
<1>7. /\ whole \in Seq(T) /\ Len(whole) = Len(a) + Len(b)
      /\ both \in Seq(T) /\ Len(both) = Len(a) + Len(b)
  BY <1>0, <1>4, <1>5 DEF whole, both
<1>8. whole = both
  BY <1>6, <1>7, SameElements
<1> QED
  BY <1>8 DEF whole, both, start, left, right

\* Three sequences.
LEMMA Associates ==
  ASSUME NEW T, NEW a \in Seq(T), NEW b \in Seq(T), NEW c \in Seq(T)
  PROVE  a \o (b \o c) = (a \o b) \o c
BY ConcatAssociative, SMTT(40)

-----------------------------------------------------------------------------
(* PythonLogs.                                                             *)

ByteType == [line : Nat, place : Nat]
LineType == [sink : Sinks, announced : Nat, size : Nat, kept : Nat]

LogsType ==
  /\ lines \in Seq(LineType)
  /\ \A i \in DOMAIN lines : lines[i].kept <= lines[i].size
  /\ buffer \in [Sinks -> Seq(ByteType)]
  /\ \A s \in Sinks : Len(buffer[s]) <= Capacity
  /\ current \in [Sinks -> Nat]
  /\ phase \in [Sinks -> {"idle", "write", "flush", "retry"}]
  /\ pipe \in [{"stdout", "syslog"} -> Seq(ByteType)]
  /\ raised \subseteq DOMAIN lines
  /\ \A s \in Sinks : \A i \in DOMAIN lines : lines[i].sink = s => i <= current[s]
  /\ \A s \in Sinks : phase[s] # "idle" =>
       current[s] \in DOMAIN lines /\ lines[current[s]].sink = s

\* A message has a byte at least, also when it is cut, and a frame of the
\* runtime is as long as its header says.
LEMMA Sizes ==
  ASSUME NEW s \in Sinks, NEW m \in Messages
  PROVE  /\ Announced(s, m) \in Nat /\ Size(s, m) \in Nat \ {0}
         /\ s = Sys => Size(s, m) = Header + Announced(s, m)
<1>1. ASSUME NEW c \in Nat \ {0}, NEW w \in Nat \ {0} PROVE Encoded(c, w) \in Nat \ {0}
  <2>1. ASSUME NEW a \in Nat PROVE a * w \in Nat
    OBVIOUS
  <2>2. (c - 1) * w \in Nat
    BY <2>1
  <2> QED
    BY <2>2 DEF Encoded
<1>2. m.chars \in Nat \ {0} /\ m.width \in Nat \ {0} /\ Header \in Nat /\ Sys # Stdout
  BY LogsAssumption
<1>3. MAX_LOG_BYTES \in Nat \ {0, 1}
  BY LogsAssumption
<1>4. Cut(m) \in Nat \ {0}
  BY <1>2, <1>3 DEF Cut
<1>5. Encoded(Cut(m), m.width) \in Nat \ {0} /\ Encoded(m.chars, m.width) \in Nat \ {0}
  BY <1>1, <1>2, <1>4
<1>6. MAX_LOG_BYTES * m.width \in Nat \ {0}
  BY <1>2, <1>3
<1>7. ASSUME NEW a \in Nat \ {0}, NEW b \in Nat \ {0} PROVE AtMost(a, b) \in Nat \ {0}
  BY DEF AtMost
<1>8. Header + Encoded(Cut(m), m.width) \in Nat \ {0}
  BY <1>2, <1>5
<1>9. AtMost(Encoded(m.chars, m.width), MAX_LOG_BYTES * m.width) \in Nat \ {0}
  BY <1>5, <1>6, <1>7
<1>10. AtMost(Header + Encoded(Cut(m), m.width), MAX_LOG_BYTES) \in Nat \ {0}
  BY <1>3, <1>7, <1>8
<1> QED
  BY <1>2, <1>5, <1>8, <1>9, <1>10 DEF Announced, Size

\* A line's bytes.
LEMMA BytesType ==
  ASSUME NEW i \in Nat, NEW taken \in Nat, NEW size \in Nat, taken <= size
  PROVE  /\ Bytes(i, taken, size) \in Seq(ByteType) /\ Len(Bytes(i, taken, size)) = size - taken
         /\ \A k \in 1 .. size - taken :
              Bytes(i, taken, size)[k] = [line |-> i, place |-> taken + k]
<1>1. size - taken \in Nat
  OBVIOUS
<1>2. \A k \in 1 .. size - taken : [line |-> i, place |-> taken + k] \in ByteType
  BY DEF ByteType
<1> QED
  BY <1>1, <1>2 DEF Bytes

\* The first of them.
LEMMA FirstBytes ==
  ASSUME NEW i \in Nat, NEW taken \in Nat, NEW size \in Nat, taken <= size, NEW n \in 0 .. size - taken
  PROVE  SubSeq(Bytes(i, taken, size), 1, n) = Bytes(i, taken, taken + n)
<1> DEFINE all == Bytes(i, taken, size)
           some == Bytes(i, taken, taken + n)
<1>1. n \in Nat /\ taken + n \in Nat /\ taken <= taken + n /\ (taken + n) - taken = n
  OBVIOUS
<1>2. /\ all \in Seq(ByteType) /\ Len(all) = size - taken
      /\ \A k \in 1 .. size - taken : all[k] = [line |-> i, place |-> taken + k]
  BY BytesType
<1>3. /\ some \in Seq(ByteType) /\ Len(some) = n
      /\ \A k \in 1 .. n : some[k] = [line |-> i, place |-> taken + k]
  <2>1. /\ some \in Seq(ByteType) /\ Len(some) = (taken + n) - taken
        /\ \A k \in 1 .. (taken + n) - taken : some[k] = [line |-> i, place |-> taken + k]
    BY <1>1, BytesType
  <2> QED
    BY <1>1, <2>1
<1> HIDE DEF all, some
<1>4. n \in 0 .. Len(all)
  BY <1>2
<1> DEFINE start == SubSeq(all, 1, n)
<1>5. start \in Seq(ByteType) /\ Len(start) = n /\ \A k \in 1 .. n : start[k] = all[k]
  BY <1>2, <1>4, Split
<1> HIDE DEF start
<1>6. \A k \in 1 .. n : start[k] = some[k]
  BY <1>1, <1>2, <1>3, <1>5
<1>7. start = some
  BY <1>3, <1>5, <1>6, SameElements
<1> QED
  BY <1>7 DEF start, all, some

\* The sink s takes k bytes more of its line, and moves n of those it has then.
Moves(s, k, n) ==
  LET c == current[s]
      whole == buffer[s] \o Bytes(c, lines[c].kept, lines[c].kept + k)
  IN  /\ lines' = [lines EXCEPT ![c].kept = @ + k]
      /\ pipe' = [pipe EXCEPT ![PipeOf(s)] = @ \o SubSeq(whole, 1, n)]
      /\ buffer' = [buffer EXCEPT ![s] = SubSeq(whole, n + 1, Len(whole))]

Steps(s) ==
  Hold(s) \/ WriteHeld(s) \/ WriteThrough(s) \/ WriteRaises(s) \/ Flush(s) \/ FlushRaises(s)

\* What a sink has when it took k bytes more.
LEMMA WholeType ==
  ASSUME LogsType, NEW s \in Sinks, phase[s] # "idle",
         NEW k \in 0 .. lines[current[s]].size - lines[current[s]].kept
  PROVE  LET c == current[s]
             new == Bytes(c, lines[c].kept, lines[c].kept + k)
         IN  /\ c \in DOMAIN lines /\ c \in Nat /\ lines[c] \in LineType
             /\ lines[c].kept \in Nat /\ lines[c].size \in Nat /\ lines[c].kept <= lines[c].size
             /\ k \in Nat /\ lines[c].kept + k <= lines[c].size
             /\ buffer[s] \in Seq(ByteType) /\ new \in Seq(ByteType) /\ Len(new) = k
             /\ \A i \in 1 .. k : new[i] = [line |-> c, place |-> lines[c].kept + i]
             /\ buffer[s] \o new \in Seq(ByteType) /\ Len(buffer[s] \o new) = Len(buffer[s]) + k
             /\ (k = 0 => buffer[s] \o new = buffer[s])
<1> DEFINE c == current[s]
           kept == lines[c].kept
           new == Bytes(c, kept, kept + k)
<1>1. c \in DOMAIN lines /\ c \in Nat /\ lines[c] \in LineType /\ kept <= lines[c].size
  BY DEF LogsType
<1>2. kept \in Nat /\ lines[c].size \in Nat
  BY <1>1 DEF LineType
<1>3. k \in Nat /\ kept + k \in Nat /\ kept <= kept + k /\ (kept + k) - kept = k /\ kept + k <= lines[c].size
  BY <1>1, <1>2
<1>4. buffer[s] \in Seq(ByteType)
  BY DEF LogsType
<1>5. new \in Seq(ByteType) /\ Len(new) = k
      /\ \A i \in 1 .. k : new[i] = [line |-> c, place |-> kept + i]
  <2>1. /\ new \in Seq(ByteType) /\ Len(new) = (kept + k) - kept
        /\ \A i \in 1 .. (kept + k) - kept : new[i] = [line |-> c, place |-> kept + i]
    BY <1>1, <1>2, <1>3, BytesType
  <2> QED
    BY <1>3, <2>1
<1> HIDE DEF new
<1>6. buffer[s] \o new \in Seq(ByteType) /\ Len(buffer[s] \o new) = Len(buffer[s]) + k
  <2>1. buffer[s] \o new \in Seq(ByteType) /\ Len(buffer[s] \o new) = Len(buffer[s]) + Len(new)
    BY <1>4, <1>5, Concatenation
  <2> QED
    BY <1>5, <2>1
<1>7. k = 0 => buffer[s] \o new = buffer[s]
  BY <1>4, <1>5
<1> QED
  BY <1>1, <1>2, <1>3, <1>4, <1>5, <1>6, <1>7 DEF new

\* Nothing moves, all moves.
LEMMA Nothing ==
  ASSUME NEW T, NEW b \in Seq(T)
  PROVE  /\ SubSeq(b, 1, 0) = <<>> /\ SubSeq(b, 1, Len(b)) = b
         /\ SubSeq(b, 0 + 1, Len(b)) = b /\ SubSeq(b, Len(b) + 1, Len(b)) = <<>>
         /\ b \o <<>> = b /\ <<>> \o b = b
OBVIOUS

LEMMA AcceptedType ==
  ASSUME NEW b \in Seq(ByteType), NEW n \in Accepted(b)
  PROVE  n \in 0 .. Len(b)
<1>1. Len(b) \in Nat
  OBVIOUS
<1>2. CASE Len(b) <= PipeBuf
  BY <1>1, <1>2 DEF Accepted
<1>3. CASE ~(Len(b) <= PipeBuf)
  BY <1>1, <1>3 DEF Accepted
<1> QED
  BY <1>2, <1>3

\* The line that s writes, of which its writer did not take everything yet.
LEMMA UntakenType ==
  ASSUME LogsType, NEW s \in Sinks, phase[s] # "idle"
  PROVE  LET c == current[s]
         IN  /\ Untaken(s) \in Seq(ByteType)
             /\ lines[c].size - lines[c].kept \in Nat
             /\ Len(Untaken(s)) = lines[c].size - lines[c].kept
             /\ \A n \in 0 .. lines[c].size - lines[c].kept :
                  SubSeq(Untaken(s), 1, n) = Bytes(c, lines[c].kept, lines[c].kept + n)
<1> DEFINE c == current[s]
<1>1. c \in DOMAIN lines /\ c \in Nat /\ lines[c] \in LineType /\ lines[c].kept <= lines[c].size
  BY DEF LogsType
<1>2. lines[c].kept \in Nat /\ lines[c].size \in Nat
  BY <1>1 DEF LineType
<1>3. Untaken(s) \in Seq(ByteType) /\ Len(Untaken(s)) = lines[c].size - lines[c].kept
  BY <1>1, <1>2, BytesType DEF Untaken
<1>4. \A n \in 0 .. lines[c].size - lines[c].kept :
        SubSeq(Untaken(s), 1, n) = Bytes(c, lines[c].kept, lines[c].kept + n)
  BY <1>1, <1>2, FirstBytes DEF Untaken
<1> QED
  BY <1>1, <1>2, <1>3, <1>4

LEMMA StepMoves ==
  ASSUME LogsType, NEW s \in Sinks, Steps(s)
  PROVE  /\ phase[s] # "idle" /\ current' = current
         /\ \E k \in 0 .. lines[current[s]].size - lines[current[s]].kept :
              /\ k # 0 => phase[s] = "write"
              /\ \E n \in 0 .. Len(buffer[s]) + k :
                   Len(buffer[s]) + k - n <= Capacity /\ Moves(s, k, n)
<1> DEFINE c == current[s]
           kept == lines[c].kept
           size == lines[c].size
           new(k) == Bytes(c, kept, kept + k)
           whole(k) == buffer[s] \o new(k)
<1>1. phase[s] # "idle" /\ current' = current
  BY DEF Steps, Hold, WriteHeld, WriteThrough, WriteRaises, Flush, FlushRaises, Flushing
<1>2. /\ c \in DOMAIN lines /\ lines[c] \in LineType /\ kept \in Nat /\ size \in Nat /\ kept <= size
      /\ size - kept \in Nat /\ 0 \in 0 .. size - kept /\ size - kept \in 0 .. size - kept
  <2>1. c \in DOMAIN lines /\ lines[c] \in LineType /\ kept <= size
    BY <1>1 DEF LogsType
  <2>2. kept \in Nat /\ size \in Nat
    BY <2>1 DEF LineType
  <2> QED
    BY <2>1, <2>2
<1>3. \A k \in 0 .. size - kept :
        /\ k \in Nat /\ new(k) \in Seq(ByteType) /\ whole(k) \in Seq(ByteType)
        /\ Len(whole(k)) = Len(buffer[s]) + k /\ (k = 0 => whole(k) = buffer[s])
  BY <1>1, WholeType
<1>4. /\ Untaken(s) \in Seq(ByteType) /\ Len(Untaken(s)) = size - kept
      /\ \A n \in 0 .. size - kept : SubSeq(Untaken(s), 1, n) = new(n)
  BY <1>1, UntakenType
<1>5. /\ buffer[s] \in Seq(ByteType) /\ Len(buffer[s]) \in Nat /\ Len(buffer[s]) <= Capacity
      /\ pipe[PipeOf(s)] \in Seq(ByteType) /\ PipeOf(s) \in {"stdout", "syslog"}
      /\ buffer \in [Sinks -> Seq(ByteType)] /\ pipe \in [{"stdout", "syslog"} -> Seq(ByteType)]
  BY DEF LogsType, PipeOf
<1>6. /\ SubSeq(whole(0), 1, 0) = <<>> /\ SubSeq(whole(0), 0 + 1, Len(whole(0))) = buffer[s]
      /\ pipe = [pipe EXCEPT ![PipeOf(s)] = @ \o <<>>]
      /\ buffer = [buffer EXCEPT ![s] = buffer[s]]
  BY <1>2, <1>3, <1>5, Nothing
<1>7. lines = [lines EXCEPT ![c].kept = @ + 0]
  <2>1. [lines[c] EXCEPT !.kept = @ + 0] = lines[c]
    BY <1>2 DEF LineType
  <2> QED
    BY <1>2, <2>1 DEF LogsType
<1>8. \A k \in 0 .. size - kept : Moves(s, k, 0) <=>
        /\ lines' = [lines EXCEPT ![c].kept = @ + k]
        /\ pipe' = pipe
        /\ buffer' = [buffer EXCEPT ![s] = whole(k)]
  <2>1. \A k \in 0 .. size - kept :
          SubSeq(whole(k), 1, 0) = <<>> /\ SubSeq(whole(k), 0 + 1, Len(whole(k))) = whole(k)
    BY <1>3, Nothing
  <2> HIDE DEF whole
  <2>2. \A k \in 0 .. size - kept : Moves(s, k, 0) <=>
        /\ lines' = [lines EXCEPT ![c].kept = @ + k]
        /\ pipe' = [pipe EXCEPT ![PipeOf(s)] = @ \o SubSeq(whole(k), 1, 0)]
        /\ buffer' = [buffer EXCEPT ![s] = SubSeq(whole(k), 0 + 1, Len(whole(k)))]
    BY Zenon DEF Moves, whole
  <2> QED
    BY <1>6, <2>1, <2>2
<1>9. \A n : Moves(s, 0, n) <=>
        /\ lines' = lines
        /\ pipe' = [pipe EXCEPT ![PipeOf(s)] = @ \o SubSeq(buffer[s], 1, n)]
        /\ buffer' = [buffer EXCEPT ![s] = SubSeq(buffer[s], n + 1, Len(buffer[s]))]
  <2>1. whole(0) = buffer[s]
    BY <1>2, <1>3
  <2> HIDE DEF whole
  <2>2. \A n : Moves(s, 0, n) <=>
        /\ lines' = [lines EXCEPT ![c].kept = @ + 0]
        /\ pipe' = [pipe EXCEPT ![PipeOf(s)] = @ \o SubSeq(whole(0), 1, n)]
        /\ buffer' = [buffer EXCEPT ![s] = SubSeq(whole(0), n + 1, Len(whole(0)))]
    BY Zenon DEF Moves, whole
  <2> QED
    BY <1>7, <2>1, <2>2, Zenon
<1>10. CASE Hold(s)
  <2> DEFINE k == size - kept
  <2>1. Untaken(s) = new(k)
    BY <1>2, <1>4, Nothing
  <2>2. phase[s] = "write" /\ Moves(s, k, 0)
    <3>1. /\ lines' = [lines EXCEPT ![c].kept = @ + k] /\ pipe' = pipe
          /\ buffer' = [buffer EXCEPT ![s] = @ \o Untaken(s)]
      BY <1>4, <1>10 DEF Hold, Keep
    <3> QED
      BY <1>2, <1>8, <1>10, <2>1, <3>1 DEF Hold
  <2>3. 0 \in 0 .. Len(buffer[s]) + k /\ Len(buffer[s]) + k - 0 <= Capacity
    BY <1>2, <1>4, <1>5, <1>10 DEF Hold, Fits
  <2>4. k \in 0 .. size - kept
    BY <1>2
  <2> HIDE DEF k
  <2>5. \E n \in 0 .. Len(buffer[s]) + k :
          Len(buffer[s]) + k - n <= Capacity /\ Moves(s, k, n)
    BY <2>2, <2>3
  <2> QED
    BY <1>1, <2>2, <2>4, <2>5
<1>11. CASE WriteHeld(s) \/ Flush(s)
  <2>1. PICK n \in Accepted(buffer[s]) :
          /\ lines' = lines
          /\ pipe' = [pipe EXCEPT ![PipeOf(s)] = @ \o SubSeq(buffer[s], 1, n)]
          /\ buffer' = [buffer EXCEPT ![s] = SubSeq(@, n + 1, Len(@))]
    BY <1>11 DEF WriteHeld, Flush, Arrive
  <2>2. n \in 0 .. Len(buffer[s]) + 0 /\ Len(buffer[s]) + 0 - n <= Capacity
    BY <1>5, <2>1, AcceptedType, LogsAssumption
  <2>3. Moves(s, 0, n)
    BY <1>9, <2>1, Zenon
  <2> QED
    BY <1>1, <1>2, <2>2, <2>3
<1>12. CASE WriteThrough(s)
  <2>1. PICK n \in Accepted(Untaken(s)) :
          /\ phase[s] = "write" /\ buffer[s] = <<>> /\ buffer' = buffer
          /\ lines' = [lines EXCEPT ![c].kept = @ + n]
          /\ pipe' = [pipe EXCEPT ![PipeOf(s)] = @ \o SubSeq(Untaken(s), 1, n)]
    BY <1>12 DEF WriteThrough, Arrive, Keep
  <2>2. n \in 0 .. size - kept
    BY <1>4, AcceptedType
  <2>3. SubSeq(Untaken(s), 1, n) = new(n) /\ new(n) \in Seq(ByteType) /\ whole(n) = <<>> \o new(n)
    BY <1>3, <1>4, <2>1, <2>2
  <2>4. /\ whole(n) \in Seq(ByteType) /\ Len(whole(n)) = n /\ whole(n) = new(n) /\ n \in Nat
    BY <1>3, <2>1, <2>2, <2>3, Nothing
  <2>5. SubSeq(whole(n), 1, n) = new(n) /\ SubSeq(whole(n), n + 1, Len(whole(n))) = <<>>
    <3> HIDE DEF new, whole
    <3> QED
      BY <2>4, Nothing
  <2>6. buffer = [buffer EXCEPT ![s] = <<>>]
    BY <1>5, <2>1
  <2>7. Moves(s, n, n)
    <3> HIDE DEF new, whole
    <3>1. Moves(s, n, n) <=>
        /\ lines' = [lines EXCEPT ![c].kept = @ + n]
        /\ pipe' = [pipe EXCEPT ![PipeOf(s)] = @ \o SubSeq(whole(n), 1, n)]
        /\ buffer' = [buffer EXCEPT ![s] = SubSeq(whole(n), n + 1, Len(whole(n)))]
      BY Zenon DEF Moves, whole, new
    <3> QED
      BY <2>1, <2>3, <2>5, <2>6, <3>1
  <2>8. n \in 0 .. Len(buffer[s]) + n /\ Len(buffer[s]) + n - n <= Capacity
    BY <1>5, <2>4, LogsAssumption
  <2> QED
    BY <1>1, <2>1, <2>2, <2>7, <2>8
<1>13. CASE WriteRaises(s)
  <2>1. PICK n \in {0} \cup (IF Fits(s) THEN {} ELSE {Capacity - Len(buffer[s])}) :
          /\ phase[s] = "write" /\ pipe' = pipe
          /\ buffer' = [buffer EXCEPT ![s] = @ \o SubSeq(Untaken(s), 1, n)]
          /\ lines' = [lines EXCEPT ![c].kept = @ + n]
    BY <1>13 DEF WriteRaises, Keep
  <2>2. n \in 0 .. size - kept /\ Len(buffer[s]) + n <= Capacity
    <3>1. CASE n = 0
      BY <1>2, <1>5, <3>1
    <3>2. CASE n = Capacity - Len(buffer[s]) /\ ~Fits(s)
      <4>1. ~(Len(buffer[s]) + (size - kept) <= Capacity)
        BY <1>4, <3>2 DEF Fits
      <4>2. size - kept \in Nat /\ Len(buffer[s]) \in Nat /\ Capacity \in Nat
            /\ Len(buffer[s]) <= Capacity
        BY <1>2, <1>5, LogsAssumption
      <4> QED
        BY <3>2, <4>1, <4>2
    <3> QED
      BY <2>1, <3>1, <3>2
  <2>3. Moves(s, n, 0)
    BY <1>4, <1>8, <2>1, <2>2
  <2>4. 0 \in 0 .. Len(buffer[s]) + n /\ Len(buffer[s]) + n - 0 <= Capacity
    BY <1>5, <2>2
  <2>5. \E j \in 0 .. Len(buffer[s]) + n :
          Len(buffer[s]) + n - j <= Capacity /\ Moves(s, n, j)
    BY <2>3, <2>4
  <2> QED
    BY <1>1, <2>1, <2>2, <2>5
<1>14. CASE FlushRaises(s)
  <2>1. lines' = lines /\ pipe' = pipe /\ buffer' = buffer
    BY <1>5, <1>14 DEF FlushRaises, AfterFailure
  <2>2. Moves(s, 0, 0)
    <3>1. Moves(s, 0, 0) <=>
        /\ lines' = [lines EXCEPT ![c].kept = @ + 0]
        /\ pipe' = pipe
        /\ buffer' = [buffer EXCEPT ![s] = whole(0)]
      BY <1>2, <1>8
    <3>2. whole(0) = buffer[s]
      BY <1>2, <1>3
    <3> HIDE DEF whole
    <3> QED
      BY <1>6, <1>7, <2>1, <3>1, <3>2, Zenon
  <2>3. 0 \in 0 .. Len(buffer[s]) + 0 /\ Len(buffer[s]) + 0 - 0 <= Capacity
    BY <1>5
  <2>4. \E n \in 0 .. Len(buffer[s]) + 0 :
          Len(buffer[s]) + 0 - n <= Capacity /\ Moves(s, 0, n)
    BY <2>2, <2>3
  <2> QED
    BY <1>1, <1>2, <2>4
<1> QED
  BY <1>10, <1>11, <1>12, <1>13, <1>14 DEF Steps

\* What a move leaves of the lines,
LEMMA LinesMoved ==
  ASSUME LogsType, NEW c \in DOMAIN lines, NEW k \in Nat,
         lines' = [lines EXCEPT ![c].kept = @ + k]
  PROVE  /\ lines' \in Seq(LineType) /\ DOMAIN lines' = DOMAIN lines
         /\ \A i \in DOMAIN lines :
              /\ lines'[i].sink = lines[i].sink /\ lines'[i].announced = lines[i].announced
              /\ lines'[i].size = lines[i].size
              /\ i # c => lines'[i] = lines[i]
         /\ lines'[c].kept = lines[c].kept + k
<1>0. lines \in Seq(LineType) /\ lines[c] \in LineType
  BY DEF LogsType
<1>1. lines \in Seq(LineType) /\ lines[c] \in LineType /\ lines[c].kept + k \in Nat
  BY <1>0 DEF LineType
<1>2. [lines[c] EXCEPT !.kept = @ + k] \in LineType
  BY <1>1 DEF LineType
<1>3. lines' = [lines EXCEPT ![c] = [lines[c] EXCEPT !.kept = @ + k]]
  BY <1>1
<1>4. /\ DOMAIN lines' = DOMAIN lines
      /\ \A i \in DOMAIN lines : i # c => lines'[i] = lines[i]
      /\ lines'[c] = [lines[c] EXCEPT !.kept = @ + k]
  BY <1>1, <1>3
<1>5. lines' \in Seq(LineType)
  BY <1>1, <1>2, <1>3
<1>6. /\ lines'[c].sink = lines[c].sink /\ lines'[c].announced = lines[c].announced
      /\ lines'[c].size = lines[c].size /\ lines'[c].kept = lines[c].kept + k
  BY <1>1, <1>4 DEF LineType
<1> QED
  BY <1>4, <1>5, <1>6

\* and of the pipe and the writers.
LEMMA BytesMoved ==
  ASSUME LogsType, NEW s \in Sinks, phase[s] # "idle",
         NEW k \in 0 .. lines[current[s]].size - lines[current[s]].kept,
         NEW n \in 0 .. Len(buffer[s]) + k, Moves(s, k, n)
  PROVE  LET c == current[s]
             whole == buffer[s] \o Bytes(c, lines[c].kept, lines[c].kept + k)
             left == SubSeq(whole, 1, n)
             right == SubSeq(whole, n + 1, Len(whole))
         IN  /\ left \in Seq(ByteType) /\ right \in Seq(ByteType)
             /\ Len(left) = n /\ Len(right) = Len(buffer[s]) + k - n
             /\ pipe'[PipeOf(s)] = pipe[PipeOf(s)] \o left
             /\ pipe'[PipeOf(s)] \in Seq(ByteType)
             /\ \A p \in {"stdout", "syslog"} : p # PipeOf(s) => pipe'[p] = pipe[p]
             /\ pipe' \in [{"stdout", "syslog"} -> Seq(ByteType)]
             /\ buffer'[s] = right
             /\ \A t \in Sinks : t # s => buffer'[t] = buffer[t]
             /\ buffer' \in [Sinks -> Seq(ByteType)]
<1> DEFINE c == current[s]
           whole == buffer[s] \o Bytes(c, lines[c].kept, lines[c].kept + k)
           left == SubSeq(whole, 1, n)
           right == SubSeq(whole, n + 1, Len(whole))
           more == pipe[PipeOf(s)] \o left
<1>1. whole \in Seq(ByteType) /\ Len(whole) = Len(buffer[s]) + k
  BY WholeType
<1>2. /\ buffer \in [Sinks -> Seq(ByteType)] /\ pipe \in [{"stdout", "syslog"} -> Seq(ByteType)]
      /\ PipeOf(s) \in {"stdout", "syslog"} /\ pipe[PipeOf(s)] \in Seq(ByteType)
  BY DEF LogsType, PipeOf
<1>3. /\ pipe' = [pipe EXCEPT ![PipeOf(s)] = more]
      /\ buffer' = [buffer EXCEPT ![s] = right]
  BY Zenon DEF Moves
<1> HIDE DEF whole
<1>4. /\ left \in Seq(ByteType) /\ right \in Seq(ByteType)
      /\ Len(left) = n /\ Len(right) = Len(buffer[s]) + k - n
  <2>1. n \in 0 .. Len(whole)
    BY <1>1
  <2> QED
    BY <1>1, <2>1, Split
<1> HIDE DEF left, right
<1>5. more \in Seq(ByteType)
  BY <1>2, <1>4, Concatenation
<1> HIDE DEF more
<1>6. /\ pipe'[PipeOf(s)] = more
      /\ \A p \in {"stdout", "syslog"} : p # PipeOf(s) => pipe'[p] = pipe[p]
      /\ pipe' \in [{"stdout", "syslog"} -> Seq(ByteType)]
      /\ buffer'[s] = right
      /\ \A t \in Sinks : t # s => buffer'[t] = buffer[t]
      /\ buffer' \in [Sinks -> Seq(ByteType)]
  BY <1>2, <1>3, <1>4, <1>5
<1> QED
  BY <1>4, <1>5, <1>6 DEF more, left, right, whole

\* How a step ends.
LEMMA StepEnds ==
  ASSUME LogsType, NEW s \in Sinks, Steps(s)
  PROVE  /\ \A t \in Sinks : t # s => phase'[t] = phase[t]
         /\ phase' \in [Sinks -> {"idle", "write", "flush", "retry"}]
         /\ \/ raised' = raised
            \/ raised' = raised \cup {current[s]} /\ phase'[s] = "idle"
<1>1. phase \in [Sinks -> {"idle", "write", "flush", "retry"}]
  BY DEF LogsType
<1>2. CASE Hold(s) \/ WriteHeld(s) \/ WriteThrough(s)
  BY <1>1, <1>2 DEF Hold, WriteHeld, WriteThrough
<1>3. CASE Flush(s)
  BY <1>1, <1>3 DEF Flush
<1>4. CASE WriteRaises(s)
  BY <1>1, <1>4 DEF WriteRaises
<1>5. CASE FlushRaises(s)
  BY <1>1, <1>5 DEF FlushRaises
<1> QED
  BY <1>2, <1>3, <1>4, <1>5 DEF Steps

\* A line more.
LEMMA LineMore ==
  ASSUME NEW logged \in Seq(LineType), NEW e \in LineType
  PROVE  /\ Append(logged, e) \in Seq(LineType)
         /\ Len(logged) \in Nat /\ DOMAIN logged = 1 .. Len(logged)
         /\ DOMAIN Append(logged, e) = 1 .. Len(logged) + 1
         /\ \A i \in 1 .. Len(logged) : Append(logged, e)[i] = logged[i]
         /\ Append(logged, e)[Len(logged) + 1] = e
OBVIOUS

\* A step is a line more or one of the others.
LEMMA LogAppends ==
  ASSUME LogsType, NEW s \in Sinks, NEW m \in Messages, Log(s, m)
  PROVE  LET e == [sink |-> s, announced |-> Announced(s, m), size |-> Size(s, m), kept |-> 0]
         IN  /\ e \in LineType /\ e.sink = s /\ e.kept = 0 /\ e.size \in Nat
             /\ (s = Sys => e.size = Header + e.announced)
             /\ lines' = Append(lines, e) /\ lines' \in Seq(LineType)
             /\ Len(lines) \in Nat /\ DOMAIN lines = 1 .. Len(lines)
             /\ DOMAIN lines' = 1 .. Len(lines) + 1
             /\ \A i \in DOMAIN lines : i \in DOMAIN lines' /\ lines'[i] = lines[i]
             /\ lines'[Len(lines) + 1] = e
             /\ current'[s] = Len(lines) + 1 /\ phase'[s] = "write" /\ phase[s] = "idle"
             /\ \A t \in Sinks : t # s => current'[t] = current[t] /\ phase'[t] = phase[t]
             /\ buffer' = buffer /\ pipe' = pipe /\ raised' = raised
<1> DEFINE e == [sink |-> s, announced |-> Announced(s, m), size |-> Size(s, m), kept |-> 0]
<1>1. e \in LineType /\ e.sink = s /\ e.kept = 0 /\ e.size \in Nat
      /\ (s = Sys => e.size = Header + e.announced)
  BY Sizes DEF LineType
<1>2. /\ lines' = Append(lines, e) /\ phase[s] = "idle"
      /\ current' = [current EXCEPT ![s] = Len(lines) + 1]
      /\ phase' = [phase EXCEPT ![s] = "write"]
      /\ buffer' = buffer /\ pipe' = pipe /\ raised' = raised
  BY DEF Log
<1>3. lines \in Seq(LineType)
  BY DEF LogsType
<1> HIDE DEF e
<1>4. /\ lines' \in Seq(LineType) /\ Len(lines) \in Nat /\ DOMAIN lines = 1 .. Len(lines)
      /\ DOMAIN lines' = 1 .. Len(lines) + 1 /\ lines'[Len(lines) + 1] = e
      /\ \A i \in 1 .. Len(lines) : lines'[i] = lines[i]
  BY <1>1, <1>2, <1>3, LineMore
<1>5. /\ current'[s] = Len(lines) + 1 /\ phase'[s] = "write"
      /\ \A t \in Sinks : t # s => current'[t] = current[t] /\ phase'[t] = phase[t]
  BY <1>2 DEF LogsType
<1>6. \A i \in DOMAIN lines : i \in DOMAIN lines' /\ lines'[i] = lines[i]
  BY <1>4
<1> QED
  BY <1>1, <1>2, <1>4, <1>5, <1>6 DEF e

LEMMA LogsTypeInit == LogsInit => LogsType
<1> SUFFICES ASSUME LogsInit PROVE LogsType
  OBVIOUS
<1>1. <<>> \in Seq(ByteType) /\ <<>> \in Seq(LineType) /\ Len(<<>>) = 0
  OBVIOUS
<1>2. buffer \in [Sinks -> Seq(ByteType)] /\ pipe \in [{"stdout", "syslog"} -> Seq(ByteType)]
  BY <1>1, Zenon DEF LogsInit
<1>3. phase \in [Sinks -> {"idle", "write", "flush", "retry"}] /\ \A s \in Sinks : phase[s] = "idle"
  BY Zenon DEF LogsInit
<1>4. \A s \in Sinks : buffer[s] = <<>>
  BY DEF LogsInit
<1>5. \A s \in Sinks : Len(buffer[s]) <= Capacity
  BY <1>1, <1>4, LogsAssumption
<1>6. current \in [Sinks -> Nat]
  BY DEF LogsInit
<1>7. lines = <<>> /\ raised = {} /\ DOMAIN lines = {}
  BY DEF LogsInit
<1> QED
  BY <1>1, <1>2, <1>3, <1>5, <1>6, <1>7 DEF LogsType

LEMMA LogsTypeLog ==
  ASSUME LogsType, NEW s \in Sinks, NEW m \in Messages, Log(s, m)
  PROVE  LogsType'
<1> DEFINE e == [sink |-> s, announced |-> Announced(s, m), size |-> Size(s, m), kept |-> 0]
<1>1. /\ e.sink = s /\ e.kept = 0 /\ e.size \in Nat
      /\ lines' \in Seq(LineType)
      /\ Len(lines) \in Nat /\ DOMAIN lines = 1 .. Len(lines)
      /\ DOMAIN lines' = 1 .. Len(lines) + 1
      /\ \A i \in DOMAIN lines : i \in DOMAIN lines' /\ lines'[i] = lines[i]
      /\ lines'[Len(lines) + 1] = e
      /\ current'[s] = Len(lines) + 1 /\ phase'[s] = "write" /\ phase[s] = "idle"
      /\ \A t \in Sinks : t # s => current'[t] = current[t] /\ phase'[t] = phase[t]
      /\ buffer' = buffer /\ pipe' = pipe /\ raised' = raised
  BY LogAppends
<1> HIDE DEF e
<1>2. \A i \in DOMAIN lines' : i \in DOMAIN lines \/ (i = Len(lines) + 1 /\ lines'[i] = e)
  BY <1>1
<1>3. \A i \in DOMAIN lines' : lines'[i].kept <= lines'[i].size
  <2>1. e.kept <= e.size
    BY <1>1
  <2> QED
    BY <1>1, <1>2, <2>1 DEF LogsType
<1>4. current' \in [Sinks -> Nat] /\ phase' \in [Sinks -> {"idle", "write", "flush", "retry"}]
  BY <1>1 DEF Log, LogsType
<1>5. \A t \in Sinks : \A i \in DOMAIN lines' : lines'[i].sink = t => i <= current'[t]
  <2> SUFFICES ASSUME NEW t \in Sinks, NEW i \in DOMAIN lines', lines'[i].sink = t
               PROVE  i <= current'[t]
    OBVIOUS
  <2>1. CASE t = s
    BY <1>1, <2>1
  <2>2. CASE t # s
    BY <1>1, <1>2, <2>2 DEF LogsType
  <2> QED
    BY <2>1, <2>2
<1>6. \A t \in Sinks : phase'[t] # "idle" =>
        current'[t] \in DOMAIN lines' /\ lines'[current'[t]].sink = t
  <2> SUFFICES ASSUME NEW t \in Sinks, phase'[t] # "idle"
               PROVE  current'[t] \in DOMAIN lines' /\ lines'[current'[t]].sink = t
    OBVIOUS
  <2>1. CASE t = s
    BY <1>1, <2>1
  <2>2. CASE t # s
    BY <1>1, <2>2 DEF LogsType
  <2> QED
    BY <2>1, <2>2
<1>7. raised' \subseteq DOMAIN lines'
  BY <1>1 DEF LogsType
<1> QED
  BY <1>1, <1>3, <1>4, <1>5, <1>6, <1>7 DEF LogsType

LEMMA LogsTypeSteps ==
  ASSUME LogsType, NEW s \in Sinks, Steps(s)
  PROVE  LogsType'
<1> DEFINE c == current[s]
<1>1. phase[s] # "idle" /\ current' = current
  BY StepMoves
<1>2. PICK k \in 0 .. lines[c].size - lines[c].kept :
        \E n \in 0 .. Len(buffer[s]) + k : Len(buffer[s]) + k - n <= Capacity /\ Moves(s, k, n)
  BY StepMoves
<1>3. PICK n \in 0 .. Len(buffer[s]) + k : Len(buffer[s]) + k - n <= Capacity /\ Moves(s, k, n)
  BY <1>2
<1>4. c \in DOMAIN lines /\ k \in Nat /\ lines[c].kept + k <= lines[c].size
  BY <1>1, WholeType
<1>5. /\ lines' \in Seq(LineType) /\ DOMAIN lines' = DOMAIN lines
      /\ \A i \in DOMAIN lines :
           /\ lines'[i].sink = lines[i].sink /\ lines'[i].size = lines[i].size
           /\ i # c => lines'[i] = lines[i]
      /\ lines'[c].kept = lines[c].kept + k
  <2>1. lines' = [lines EXCEPT ![c].kept = @ + k]
    BY <1>3, Zenon DEF Moves
  <2> QED
    BY <1>4, <2>1, LinesMoved
<1>6. /\ pipe' \in [{"stdout", "syslog"} -> Seq(ByteType)]
      /\ buffer' \in [Sinks -> Seq(ByteType)] /\ Len(buffer'[s]) = Len(buffer[s]) + k - n
      /\ \A t \in Sinks : t # s => buffer'[t] = buffer[t]
  BY <1>1, <1>3, BytesMoved
<1>7. /\ \A t \in Sinks : t # s => phase'[t] = phase[t]
      /\ phase' \in [Sinks -> {"idle", "write", "flush", "retry"}]
      /\ raised' = raised \/ raised' = raised \cup {current[s]}
  BY StepEnds
<1>8. \A i \in DOMAIN lines' : lines'[i].kept <= lines'[i].size
  <2> SUFFICES ASSUME NEW i \in DOMAIN lines PROVE lines'[i].kept <= lines'[i].size
    BY <1>5
  <2>1. CASE i = c
    BY <1>4, <1>5, <2>1
  <2>2. CASE i # c
    BY <1>5, <2>2 DEF LogsType
  <2> QED
    BY <2>1, <2>2
<1>9. \A t \in Sinks : Len(buffer'[t]) <= Capacity
  BY <1>3, <1>6 DEF LogsType
<1>10. \A t \in Sinks : \A i \in DOMAIN lines' : lines'[i].sink = t => i <= current'[t]
  BY <1>1, <1>5 DEF LogsType
<1>11. \A t \in Sinks : phase'[t] # "idle" =>
         current'[t] \in DOMAIN lines' /\ lines'[current'[t]].sink = t
  BY <1>1, <1>5, <1>7 DEF LogsType
<1>12. raised' \subseteq DOMAIN lines' /\ current' \in [Sinks -> Nat]
  BY <1>1, <1>4, <1>5, <1>7 DEF LogsType
<1> QED
  BY <1>5, <1>6, <1>7, <1>8, <1>9, <1>10, <1>11, <1>12 DEF LogsType

LEMMA LogsCases ==
  LogsNext => \/ \E s \in Sinks, m \in Messages : Log(s, m)
              \/ \E s \in Sinks : Steps(s)
              \/ UNCHANGED logVars
BY DEF LogsNext, LogsRest, Steps

LEMMA LogsTypeStep == LogsType /\ [LogsNext]_logVars => LogsType'
<1>1. LogsType /\ UNCHANGED logVars => LogsType'
  BY DEF logVars, LogsType
<1> QED
  BY <1>1, LogsTypeLog, LogsTypeSteps, LogsCases

-----------------------------------------------------------------------------
(* PythonLogs: every byte once, and in order.                              *)

\* What BytesOnceInOrder says of the bytes of one sink.
IsIn(logged, b, s) ==
  /\ b.line \in DOMAIN logged /\ logged[b.line].sink = s
  /\ b.place \in 1 .. logged[b.line].kept

Found(logged, arrived, held, s) ==
  \A i \in DOMAIN logged : logged[i].sink = s =>
    \A k \in 1 .. logged[i].kept :
      \/ \E n \in DOMAIN arrived : arrived[n] = [line |-> i, place |-> k]
      \/ \E n \in DOMAIN held : held[n] = [line |-> i, place |-> k]

Known(logged, arrived, held, s) ==
  /\ \A n \in DOMAIN held : IsIn(logged, held[n], s)
  /\ \A n \in DOMAIN arrived :
       \E t \in Sinks : PipeOf(t) = PipeOf(s) /\ IsIn(logged, arrived[n], t)

Ordered(logged, arrived, held, s) ==
  /\ \A n, m \in DOMAIN held : n < m => Before(held[n], held[m])
  /\ \A n, m \in DOMAIN arrived :
       n < m /\ IsIn(logged, arrived[n], s) /\ IsIn(logged, arrived[m], s) =>
         Before(arrived[n], arrived[m])
  /\ \A n \in DOMAIN arrived, m \in DOMAIN held :
       IsIn(logged, arrived[n], s) => Before(arrived[n], held[m])

OnceIn(logged, arrived, held, s) ==
  Found(logged, arrived, held, s) /\ Known(logged, arrived, held, s)
    /\ Ordered(logged, arrived, held, s)

\* The bytes of the lines before it are still those of their sinks, and they come
\* before its bytes.
LEMMA OldBytes ==
  ASSUME NEW logged \in Seq(LineType), NEW e \in LineType, NEW b, NEW s,
         b.line \in DOMAIN logged
  PROVE  /\ IsIn(logged, b, s) <=> IsIn(Append(logged, e), b, s)
         /\ \A k : Before(b, [line |-> Len(logged) + 1, place |-> k])
<1>1. b.line \in 1 .. Len(logged) /\ Len(logged) \in Nat
  BY LineMore
<1>2. b.line \in DOMAIN Append(logged, e) /\ Append(logged, e)[b.line] = logged[b.line]
  BY <1>1, LineMore
<1>3. IsIn(logged, b, s) <=> IsIn(Append(logged, e), b, s)
  BY <1>2 DEF IsIn
<1>4. b.line < Len(logged) + 1
  BY <1>1
<1> QED
  BY <1>3, <1>4 DEF Before

\* A line of which nothing was taken yet.
LEMMA OnceLog ==
  ASSUME NEW logged \in Seq(LineType), NEW arrived, NEW held,
         NEW s \in Sinks, NEW e \in LineType, e.kept = 0, OnceIn(logged, arrived, held, s)
  PROVE  OnceIn(Append(logged, e), arrived, held, s)
<1> DEFINE more == Append(logged, e)
<1>0. /\ Len(logged) \in Nat /\ DOMAIN logged = 1 .. Len(logged)
      /\ DOMAIN more = 1 .. Len(logged) + 1 /\ more[Len(logged) + 1] = e
      /\ \A i \in 1 .. Len(logged) : more[i] = logged[i]
  BY LineMore
<1>1. \A b, t : b.line \in DOMAIN logged => (IsIn(logged, b, t) <=> IsIn(more, b, t))
  BY OldBytes
<1> HIDE DEF more
<1>2. /\ \A n \in DOMAIN held : held[n].line \in DOMAIN logged
      /\ \A n \in DOMAIN arrived : arrived[n].line \in DOMAIN logged
  BY DEF OnceIn, Known, IsIn
<1>3. Found(more, arrived, held, s)
  <2> SUFFICES ASSUME NEW i \in DOMAIN more, more[i].sink = s, NEW k \in 1 .. more[i].kept
               PROVE  \/ \E n \in DOMAIN arrived : arrived[n] = [line |-> i, place |-> k]
                      \/ \E n \in DOMAIN held : held[n] = [line |-> i, place |-> k]
    BY DEF Found
  <2>1. i # Len(logged) + 1
    BY <1>0
  <2>2. i \in DOMAIN logged /\ more[i] = logged[i]
    BY <1>0, <2>1
  <2> QED
    BY <2>2 DEF OnceIn, Found
<1>4. Known(more, arrived, held, s)
  BY <1>1, <1>2 DEF OnceIn, Known
<1>5. Ordered(more, arrived, held, s)
  BY <1>1, <1>2 DEF OnceIn, Ordered
<1> QED
  BY <1>3, <1>4, <1>5 DEF OnceIn, more

\* Two states of the lines between which a writer took more of the line c.
Grown(logged, more, c) ==
  /\ DOMAIN more = DOMAIN logged
  /\ \A i \in DOMAIN logged : more[i].sink = logged[i].sink /\ (i # c => more[i] = logged[i])
  /\ logged[c].kept \in Nat /\ more[c].kept \in Nat /\ logged[c].kept <= more[c].kept

\* Another sink than that of c.
LEMMA OnceOther ==
  ASSUME NEW logged, NEW more, NEW c \in DOMAIN logged, Grown(logged, more, c),
         NEW s \in Sinks, logged[c].sink # s, NEW arrived, NEW held,
         OnceIn(logged, arrived, held, s)
  PROVE  OnceIn(more, arrived, held, s)
<1>1. \A b : IsIn(logged, b, s) <=> IsIn(more, b, s)
  BY DEF IsIn, Grown
<1>2. \A b, t : IsIn(logged, b, t) => IsIn(more, b, t)
  <2> SUFFICES ASSUME NEW b, NEW t, IsIn(logged, b, t) PROVE IsIn(more, b, t)
    OBVIOUS
  <2>1. b.line \in DOMAIN more /\ more[b.line].sink = t
    BY DEF IsIn, Grown
  <2>2. b.place \in 1 .. more[b.line].kept
    <3>1. CASE b.line = c
      BY <3>1 DEF IsIn, Grown
    <3>2. CASE b.line # c
      BY <3>2 DEF IsIn, Grown
    <3> QED
      BY <3>1, <3>2
  <2> QED
    BY <2>1, <2>2 DEF IsIn
<1>3. Found(more, arrived, held, s)
  BY DEF OnceIn, Found, Grown
<1>4. Known(more, arrived, held, s)
  BY <1>1, <1>2 DEF OnceIn, Known
<1>5. Ordered(more, arrived, held, s)
  BY <1>1 DEF OnceIn, Ordered
<1> QED
  BY <1>3, <1>4, <1>5 DEF OnceIn

\* k elements more.
LEMMA Joined ==
  ASSUME NEW T, NEW held \in Seq(T), NEW new \in Seq(T), NEW k \in Nat, Len(new) = k
  PROVE  /\ held \o new \in Seq(T) /\ Len(held \o new) = Len(held) + k
         /\ \A i \in 1 .. Len(held) : (held \o new)[i] = held[i]
         /\ \A i \in 1 .. k : (held \o new)[Len(held) + i] = new[i]
OBVIOUS

\* The writer of s takes k bytes more of its last line c.
LEMMA OnceKeep ==
  ASSUME NEW logged, NEW more, NEW c \in DOMAIN logged, c \in Nat, Grown(logged, more, c),
         NEW s \in Sinks, logged[c].sink = s, NEW k \in Nat,
         more[c].kept = logged[c].kept + k,
         \A i \in DOMAIN logged : i \in Nat /\ (logged[i].sink = s => i <= c),
         NEW arrived \in Seq(ByteType), NEW held \in Seq(ByteType), NEW new \in Seq(ByteType),
         Len(new) = k,
         \A i \in 1 .. k : new[i] = [line |-> c, place |-> logged[c].kept + i],
         OnceIn(logged, arrived, held, s)
  PROVE  OnceIn(more, arrived, held \o new, s)
<1> DEFINE both == held \o new
           kept == logged[c].kept
<1>0. kept \in Nat /\ more[c].kept = kept + k /\ DOMAIN more = DOMAIN logged
  BY DEF Grown
<1>1. /\ both \in Seq(ByteType) /\ Len(both) = Len(held) + k
      /\ \A i \in 1 .. Len(held) : both[i] = held[i]
      /\ \A i \in 1 .. k : both[Len(held) + i] = new[i]
  <2> HIDE DEF kept
  <2>1. held \in Seq(ByteType) /\ new \in Seq(ByteType) /\ k \in Nat /\ Len(new) = k
    OBVIOUS
  <2> QED
    BY ONLY <2>1, Joined DEF both
<1> HIDE DEF both
<1>a. \A i \in 1 .. k : both[Len(held) + i] = [line |-> c, place |-> kept + i]
  BY <1>1
<1>2. Len(held) \in Nat /\ DOMAIN held = 1 .. Len(held) /\ DOMAIN both = 1 .. Len(held) + k
  BY <1>1
<1>3. ASSUME NEW n \in DOMAIN both
      PROVE  \/ n \in DOMAIN held /\ both[n] = held[n]
             \/ \E i \in 1 .. k : n = Len(held) + i /\ both[n] = [line |-> c, place |-> kept + i]
  <2>1. CASE n <= Len(held)
    BY <1>1, <1>2, <2>1
  <2>2. CASE n > Len(held)
    <3> DEFINE i == n - Len(held)
    <3>1. i \in 1 .. k /\ n = Len(held) + i
      BY <1>2, <2>2
    <3> HIDE DEF i
    <3> QED
      BY <1>a, <3>1
  <2> QED
    BY <1>2, <2>1, <2>2
\* The bytes before are those of their sinks still, and before the new ones.
<1>4. ASSUME NEW b, NEW t, IsIn(logged, b, t) PROVE IsIn(more, b, t)
  <2>1. b.line \in DOMAIN more /\ more[b.line].sink = t
    BY <1>4 DEF IsIn, Grown
  <2>2. b.place \in 1 .. more[b.line].kept
    <3>1. CASE b.line = c
      BY <1>0, <1>4, <3>1 DEF IsIn
    <3>2. CASE b.line # c
      BY <1>4, <3>2 DEF IsIn, Grown
    <3> QED
      BY <3>1, <3>2
  <2> QED
    BY <2>1, <2>2 DEF IsIn
<1>5. ASSUME NEW b, IsIn(logged, b, s), NEW i \in 1 .. k
      PROVE  Before(b, [line |-> c, place |-> kept + i])
  <2>1. b.line \in Nat /\ b.line <= c
    BY <1>5 DEF IsIn
  <2>2. CASE b.line = c
    <3>1. b.place \in 1 .. kept
      BY <1>5, <2>2 DEF IsIn
    <3>2. b.place < kept + i
      BY <1>0, <3>1
    <3> QED
      BY <2>2, <3>2 DEF Before
  <2>3. CASE b.line # c
    BY <2>1, <2>3 DEF Before
  <2> QED
    BY <2>2, <2>3
<1>6. \A i \in 1 .. k : IsIn(more, [line |-> c, place |-> kept + i], s)
  <2> SUFFICES ASSUME NEW i \in 1 .. k PROVE IsIn(more, [line |-> c, place |-> kept + i], s)
    OBVIOUS
  <2>1. more[c].sink = s /\ c \in DOMAIN more
    BY DEF Grown
  <2>2. kept + i \in 1 .. more[c].kept
    BY <1>0
  <2> QED
    BY <2>1, <2>2 DEF IsIn
<1>7. /\ \A n \in DOMAIN held : IsIn(logged, held[n], s)
      /\ \A n \in DOMAIN arrived :
           \E t \in Sinks : PipeOf(t) = PipeOf(s) /\ IsIn(logged, arrived[n], t)
  BY DEF OnceIn, Known
\* A byte that arrived is one of s only if it was.
<1>8. ASSUME NEW n \in DOMAIN arrived, IsIn(more, arrived[n], s)
      PROVE  IsIn(logged, arrived[n], s)
  <2>1. PICK t \in Sinks : IsIn(logged, arrived[n], t)
    BY <1>7
  <2>2. t = s
    BY <1>8, <2>1 DEF IsIn, Grown
  <2> QED
    BY <2>1, <2>2
<1> HIDE DEF kept
<1>9. Found(more, arrived, both, s)
  <2> SUFFICES ASSUME NEW i \in DOMAIN more, more[i].sink = s, NEW p \in 1 .. more[i].kept
               PROVE  \/ \E n \in DOMAIN arrived : arrived[n] = [line |-> i, place |-> p]
                      \/ \E n \in DOMAIN both : both[n] = [line |-> i, place |-> p]
    BY DEF Found
  <2>0. \A n \in DOMAIN held : n \in DOMAIN both /\ both[n] = held[n]
    BY <1>1, <1>2
  <2>1. CASE p \in 1 .. logged[i].kept
    <3>1. \/ \E n \in DOMAIN arrived : arrived[n] = [line |-> i, place |-> p]
          \/ \E n \in DOMAIN held : held[n] = [line |-> i, place |-> p]
      BY <2>1 DEF OnceIn, Found, Grown
    <3> QED
      BY <2>0, <3>1
  <2>2. CASE ~(p \in 1 .. logged[i].kept)
    <3>1. i = c
      BY <2>2 DEF Grown
    <3> DEFINE j == p - kept
    <3>2. j \in 1 .. k /\ p = kept + j
      BY <1>0, <2>2, <3>1 DEF kept
    <3> HIDE DEF j
    <3>3. Len(held) + j \in DOMAIN both /\ both[Len(held) + j] = [line |-> c, place |-> kept + j]
      BY <1>a, <1>2, <3>2
    <3> QED
      BY <3>1, <3>2, <3>3
  <2> QED
    BY <2>1, <2>2
<1>10. Known(more, arrived, both, s)
  <2>1. ASSUME NEW n \in DOMAIN both PROVE IsIn(more, both[n], s)
    BY <1>3, <1>4, <1>6, <1>7
  <2>2. ASSUME NEW n \in DOMAIN arrived
        PROVE  \E t \in Sinks : PipeOf(t) = PipeOf(s) /\ IsIn(more, arrived[n], t)
    BY <1>4, <1>7
  <2> QED
    BY <2>1, <2>2 DEF Known
<1>11. Ordered(more, arrived, both, s)
  <2>1. ASSUME NEW n \in DOMAIN both, NEW m \in DOMAIN both, n < m PROVE Before(both[n], both[m])
    <3>1. CASE m \in DOMAIN held /\ both[m] = held[m]
      <4>1. n \in DOMAIN held /\ both[n] = held[n]
        BY <1>1, <1>2, <2>1, <3>1
      <4> QED
        BY <2>1, <3>1, <4>1 DEF OnceIn, Ordered
    <3>2. ASSUME NEW j \in 1 .. k, m = Len(held) + j, both[m] = [line |-> c, place |-> kept + j]
          PROVE  Before(both[n], both[m])
      <4>1. CASE n \in DOMAIN held /\ both[n] = held[n]
        BY <1>5, <1>7, <3>2, <4>1
      <4>2. ASSUME NEW i \in 1 .. k, n = Len(held) + i, both[n] = [line |-> c, place |-> kept + i]
            PROVE  Before(both[n], both[m])
        <5>1. kept + i < kept + j
          BY <1>0, <1>2, <2>1, <3>2, <4>2
        <5> QED
          BY <3>2, <4>2, <5>1 DEF Before
      <4> QED
        BY <1>3, <4>1, <4>2
    <3> QED
      BY <1>3, <3>1, <3>2
  <2>2. ASSUME NEW n \in DOMAIN arrived, NEW m \in DOMAIN arrived, n < m,
               IsIn(more, arrived[n], s), IsIn(more, arrived[m], s)
        PROVE  Before(arrived[n], arrived[m])
    BY <1>8, <2>2 DEF OnceIn, Ordered
  <2>3. ASSUME NEW n \in DOMAIN arrived, NEW m \in DOMAIN both, IsIn(more, arrived[n], s)
        PROVE  Before(arrived[n], both[m])
    <3>0. IsIn(logged, arrived[n], s)
      BY <1>8, <2>3
    <3>1. CASE m \in DOMAIN held /\ both[m] = held[m]
      BY <3>0, <3>1 DEF OnceIn, Ordered
    <3>2. ASSUME NEW j \in 1 .. k, both[m] = [line |-> c, place |-> kept + j]
          PROVE  Before(arrived[n], both[m])
      BY <1>5, <3>0, <3>2
    <3> QED
      BY <1>3, <3>1, <3>2
  <2> QED
    BY <2>1, <2>2, <2>3 DEF Ordered
<1> QED
  BY <1>9, <1>10, <1>11 DEF OnceIn, both

\* A flush of s that moves n bytes.
LEMMA OnceFlush ==
  ASSUME NEW logged, NEW arrived \in Seq(ByteType), NEW held \in Seq(ByteType),
         NEW s \in Sinks, NEW n \in 0 .. Len(held), OnceIn(logged, arrived, held, s)
  PROVE  OnceIn(logged, arrived \o SubSeq(held, 1, n), SubSeq(held, n + 1, Len(held)), s)
<1> DEFINE left == SubSeq(held, 1, n)
           right == SubSeq(held, n + 1, Len(held))
           both == arrived \o left
           size == Len(arrived)
<1>0. /\ size \in Nat /\ Len(held) \in Nat /\ n \in Nat /\ n <= Len(held)
      /\ DOMAIN arrived = 1 .. size /\ DOMAIN held = 1 .. Len(held)
  OBVIOUS
<1>1. /\ left \in Seq(ByteType) /\ Len(left) = n /\ \A i \in 1 .. n : left[i] = held[i]
      /\ right \in Seq(ByteType) /\ Len(right) = Len(held) - n
      /\ \A i \in 1 .. Len(held) - n : right[i] = held[n + i]
  BY Split
<1> HIDE DEF left, right
<1>2. /\ both \in Seq(ByteType) /\ Len(both) = size + Len(left)
      /\ \A i \in 1 .. size : both[i] = arrived[i]
      /\ \A i \in 1 .. Len(left) : both[size + i] = left[i]
  <2>1. arrived \in Seq(ByteType) /\ left \in Seq(ByteType)
    BY <1>1
  <2> QED
    BY <2>1, Concatenation
<1> HIDE DEF both
<1>3. DOMAIN both = 1 .. size + n /\ DOMAIN right = 1 .. Len(held) - n
  BY <1>1, <1>2
<1> HIDE DEF size
<1>4. ASSUME NEW i \in DOMAIN both
      PROVE  \/ i \in DOMAIN arrived /\ both[i] = arrived[i]
             \/ i > size /\ i - size \in 1 .. n /\ both[i] = held[i - size]
  <2>1. CASE i <= size
    BY <1>0, <1>2, <1>3, <2>1
  <2>2. CASE i > size
    <3> DEFINE k == i - size
    <3>1. k \in 1 .. n /\ i = size + k
      BY <1>0, <1>3, <2>2
    <3> HIDE DEF k
    <3>2. both[i] = left[k] /\ left[k] = held[k]
      BY <1>1, <1>2, <3>1
    <3> QED
      BY <2>2, <3>1, <3>2 DEF k
  <2> QED
    BY <1>0, <1>3, <2>1, <2>2
<1>5. ASSUME NEW i \in DOMAIN right
      PROVE  right[i] = held[n + i] /\ n + i \in DOMAIN held /\ n + i > n
  BY <1>0, <1>1, <1>3
<1>6. \A i \in DOMAIN held : IsIn(logged, held[i], s)
  BY DEF OnceIn, Known
<1>7. ASSUME NEW i \in 1 .. n PROVE i \in DOMAIN held
  BY <1>0
<1>8. Found(logged, both, right, s)
  <2> SUFFICES ASSUME NEW i \in DOMAIN logged, logged[i].sink = s, NEW k \in 1 .. logged[i].kept
               PROVE  \/ \E m \in DOMAIN both : both[m] = [line |-> i, place |-> k]
                      \/ \E m \in DOMAIN right : right[m] = [line |-> i, place |-> k]
    BY DEF Found
  <2>1. CASE \E m \in DOMAIN arrived : arrived[m] = [line |-> i, place |-> k]
    <3>1. PICK m \in DOMAIN arrived : arrived[m] = [line |-> i, place |-> k]
      BY <2>1
    <3>2. m \in DOMAIN both /\ both[m] = arrived[m]
      BY <1>0, <1>2, <1>3
    <3> QED
      BY <3>1, <3>2
  <2>2. CASE \E m \in DOMAIN held : held[m] = [line |-> i, place |-> k]
    <3>1. PICK m \in DOMAIN held : held[m] = [line |-> i, place |-> k]
      BY <2>2
    <3>2. CASE m <= n
      <4>1. m \in 1 .. n /\ size + m \in DOMAIN both
        BY <1>0, <1>3, <3>2
      <4>2. both[size + m] = held[m]
        BY <1>1, <1>2, <4>1
      <4> QED
        BY <3>1, <4>1, <4>2
    <3>3. CASE m > n
      <4>1. m - n \in DOMAIN right /\ n + (m - n) = m
        BY <1>0, <1>3, <3>3
      <4>2. right[m - n] = held[m]
        BY <1>5, <4>1
      <4> QED
        BY <3>1, <4>1, <4>2
    <3> QED
      BY <1>0, <3>2, <3>3
  <2> QED
    BY <2>1, <2>2 DEF OnceIn, Found
<1>9. Known(logged, both, right, s)
  <2>1. ASSUME NEW i \in DOMAIN right PROVE IsIn(logged, right[i], s)
    BY <1>5, <1>6
  <2>2. ASSUME NEW i \in DOMAIN both
        PROVE  \E t \in Sinks : PipeOf(t) = PipeOf(s) /\ IsIn(logged, both[i], t)
    <3>1. CASE i \in DOMAIN arrived /\ both[i] = arrived[i]
      BY <3>1 DEF OnceIn, Known
    <3>2. CASE i - size \in 1 .. n /\ both[i] = held[i - size]
      BY <1>6, <1>7, <3>2
    <3> QED
      BY <1>4, <3>1, <3>2
  <2> QED
    BY <2>1, <2>2 DEF Known
<1>10. Ordered(logged, both, right, s)
  <2>1. ASSUME NEW i \in DOMAIN right, NEW j \in DOMAIN right, i < j
        PROVE  Before(right[i], right[j])
    <3>1. n + i < n + j
      BY <1>0, <1>3, <2>1
    <3> QED
      BY <1>5, <3>1 DEF OnceIn, Ordered
  <2>2. ASSUME NEW i \in DOMAIN both, NEW j \in DOMAIN both, i < j,
               IsIn(logged, both[i], s), IsIn(logged, both[j], s)
        PROVE  Before(both[i], both[j])
    <3>1. CASE j \in DOMAIN arrived /\ both[j] = arrived[j]
      <4>1. i \in DOMAIN arrived /\ both[i] = arrived[i]
        BY <1>0, <1>2, <1>3, <2>2, <3>1
      <4> QED
        BY <2>2, <3>1, <4>1 DEF OnceIn, Ordered
    <3>2. CASE j > size /\ j - size \in 1 .. n /\ both[j] = held[j - size]
      <4>1. CASE i \in DOMAIN arrived /\ both[i] = arrived[i]
        BY <1>7, <2>2, <3>2, <4>1 DEF OnceIn, Ordered
      <4>2. CASE i > size /\ i - size \in 1 .. n /\ both[i] = held[i - size]
        <5>1. i - size < j - size
          BY <1>0, <1>3, <2>2
        <5> QED
          BY <1>7, <3>2, <4>2, <5>1 DEF OnceIn, Ordered
      <4> QED
        BY <1>4, <4>1, <4>2
    <3> QED
      BY <1>4, <3>1, <3>2
  <2>3. ASSUME NEW i \in DOMAIN both, NEW j \in DOMAIN right, IsIn(logged, both[i], s)
        PROVE  Before(both[i], right[j])
    <3>0. right[j] = held[n + j] /\ n + j \in DOMAIN held /\ n + j > n
      BY <1>5
    <3>1. CASE i \in DOMAIN arrived /\ both[i] = arrived[i]
      BY <2>3, <3>0, <3>1 DEF OnceIn, Ordered
    <3>2. CASE i - size \in 1 .. n /\ both[i] = held[i - size]
      <4>1. i - size < n + j
        BY <1>0, <1>3, <3>2
      <4> QED
        BY <1>7, <3>0, <3>2, <4>1 DEF OnceIn, Ordered
    <3> QED
      BY <1>4, <3>1, <3>2
  <2> QED
    BY <2>1, <2>2, <2>3 DEF Ordered
<1> QED
  BY <1>8, <1>9, <1>10 DEF OnceIn, left, right, both

\* A flush of another sink t with the same pipe.
LEMMA OnceFlushOther ==
  ASSUME NEW logged, NEW arrived \in Seq(ByteType), NEW held, NEW more \in Seq(ByteType),
         NEW s \in Sinks, NEW t \in Sinks, t # s, PipeOf(t) = PipeOf(s),
         \A i \in DOMAIN more : IsIn(logged, more[i], t),
         OnceIn(logged, arrived, held, s)
  PROVE  OnceIn(logged, arrived \o more, held, s)
<1> DEFINE both == arrived \o more
           size == Len(arrived)
<1>0. /\ size \in Nat /\ Len(more) \in Nat
      /\ DOMAIN arrived = 1 .. size /\ DOMAIN more = 1 .. Len(more)
  OBVIOUS
<1>2. /\ both \in Seq(ByteType) /\ Len(both) = size + Len(more)
      /\ \A i \in 1 .. size : both[i] = arrived[i]
      /\ \A i \in 1 .. Len(more) : both[size + i] = more[i]
  BY Concatenation
<1> HIDE DEF both
<1>3. DOMAIN both = 1 .. size + Len(more)
  BY <1>2
<1> HIDE DEF size
<1>4. ASSUME NEW i \in DOMAIN both
      PROVE  \/ i \in DOMAIN arrived /\ both[i] = arrived[i]
             \/ i > size /\ IsIn(logged, both[i], t)
  <2>1. CASE i <= size
    BY <1>0, <1>2, <1>3, <2>1
  <2>2. CASE i > size
    <3> DEFINE k == i - size
    <3>1. k \in 1 .. Len(more) /\ i = size + k
      BY <1>0, <1>3, <2>2
    <3> HIDE DEF k
    <3>2. both[i] = more[k] /\ k \in DOMAIN more
      BY <1>0, <1>2, <3>1
    <3> QED
      BY <2>2, <3>2
  <2> QED
    BY <1>0, <1>3, <2>1, <2>2
<1>5. ASSUME NEW b, IsIn(logged, b, t) PROVE ~IsIn(logged, b, s)
  BY <1>5 DEF IsIn
<1>6. \A i \in DOMAIN arrived : i \in DOMAIN both /\ both[i] = arrived[i]
  BY <1>0, <1>2, <1>3
<1>7. Found(logged, both, held, s)
  BY <1>6 DEF OnceIn, Found
<1>8. Known(logged, both, held, s)
  <2>1. ASSUME NEW i \in DOMAIN both
        PROVE  \E u \in Sinks : PipeOf(u) = PipeOf(s) /\ IsIn(logged, both[i], u)
    BY <1>4 DEF OnceIn, Known
  <2> QED
    BY <2>1 DEF OnceIn, Known
<1>9. Ordered(logged, both, held, s)
  <2>1. ASSUME NEW i \in DOMAIN both, IsIn(logged, both[i], s)
        PROVE  i \in DOMAIN arrived /\ both[i] = arrived[i]
    BY <1>4, <1>5, <2>1
  <2> QED
    BY <2>1 DEF OnceIn, Ordered
<1> QED
  BY <1>7, <1>8, <1>9 DEF OnceIn, both

\* What a step of one sink s does, in one place.
LEMMA StepEffect ==
  ASSUME LogsType, NEW s \in Sinks, Steps(s)
  PROVE  LET c == current[s]
         IN  /\ phase[s] # "idle" /\ current' = current
             /\ c \in DOMAIN lines /\ c \in Nat /\ lines[c].sink = s
             /\ DOMAIN lines' = DOMAIN lines
             /\ \A i \in DOMAIN lines :
                  /\ lines'[i].sink = lines[i].sink /\ lines'[i].announced = lines[i].announced
                  /\ lines'[i].size = lines[i].size
                  /\ i # c => lines'[i] = lines[i]
             /\ \A t \in Sinks : t # s =>
                  phase'[t] = phase[t] /\ buffer'[t] = buffer[t]
             /\ \/ raised' = raised
                \/ raised' = raised \cup {c} /\ phase'[s] = "idle"
             /\ \A t \in Sinks : t # s /\ phase[t] # "idle" => current[t] # c
<1> DEFINE c == current[s]
<1>1. phase[s] # "idle" /\ current' = current
  BY StepMoves
<1>2. c \in DOMAIN lines /\ c \in Nat /\ lines[c].sink = s
  BY <1>1 DEF LogsType
<1>3. PICK k \in 0 .. lines[c].size - lines[c].kept :
        \E n \in 0 .. Len(buffer[s]) + k : Moves(s, k, n)
  BY StepMoves
<1>4. PICK n \in 0 .. Len(buffer[s]) + k : Moves(s, k, n)
  BY <1>3
<1>5. /\ DOMAIN lines' = DOMAIN lines
      /\ \A i \in DOMAIN lines :
           /\ lines'[i].sink = lines[i].sink /\ lines'[i].announced = lines[i].announced
           /\ lines'[i].size = lines[i].size
           /\ i # c => lines'[i] = lines[i]
  <2>1. lines' = [lines EXCEPT ![c].kept = @ + k]
    BY <1>4, Zenon DEF Moves
  <2>2. k \in Nat
    BY <1>1, WholeType
  <2> QED
    BY <1>2, <2>1, <2>2, LinesMoved
<1>6. \A t \in Sinks : t # s => buffer'[t] = buffer[t]
  BY <1>1, <1>4, BytesMoved
<1>7. \A t \in Sinks : t # s /\ phase[t] # "idle" => current[t] # c
  BY <1>2 DEF LogsType
<1> QED
  BY <1>1, <1>2, <1>5, <1>6, <1>7, StepEnds

LEMMA OnceLogStep ==
  ASSUME LogsType, NEW s \in Sinks, NEW m \in Messages, Log(s, m),
         \A t \in Sinks : OnceIn(lines, pipe[PipeOf(t)], buffer[t], t), NEW t \in Sinks
  PROVE  OnceIn(lines', pipe'[PipeOf(t)], buffer'[t], t)
<1> DEFINE e == [sink |-> s, announced |-> Announced(s, m), size |-> Size(s, m), kept |-> 0]
<1>1. /\ e \in LineType /\ e.kept = 0 /\ lines' = Append(lines, e) /\ buffer' = buffer /\ pipe' = pipe
  BY LogAppends
<1> HIDE DEF e
<1>2. lines \in Seq(LineType)
  BY DEF LogsType
<1>3. OnceIn(Append(lines, e), pipe[PipeOf(t)], buffer[t], t)
  BY <1>1, <1>2, OnceLog
<1> QED
  BY <1>1, <1>3

LEMMA OnceSteps ==
  ASSUME LogsType, NEW s \in Sinks, Steps(s),
         \A t \in Sinks : OnceIn(lines, pipe[PipeOf(t)], buffer[t], t), NEW t \in Sinks
  PROVE  OnceIn(lines', pipe'[PipeOf(t)], buffer'[t], t)
<1> DEFINE c == current[s]
           kept == lines[c].kept
<1>1. phase[s] # "idle"
  BY StepMoves
<1>2. PICK k \in 0 .. lines[c].size - lines[c].kept :
        \E n \in 0 .. Len(buffer[s]) + k : Moves(s, k, n)
  BY StepMoves
<1>3. PICK n \in 0 .. Len(buffer[s]) + k : Moves(s, k, n)
  BY <1>2
<1> DEFINE new == Bytes(c, kept, kept + k)
           whole == buffer[s] \o new
           left == SubSeq(whole, 1, n)
           right == SubSeq(whole, n + 1, Len(whole))
<1>4. /\ c \in DOMAIN lines /\ c \in Nat /\ kept \in Nat /\ k \in Nat /\ lines[c].sink = s
      /\ buffer[s] \in Seq(ByteType) /\ new \in Seq(ByteType) /\ Len(new) = k
      /\ \A i \in 1 .. k : new[i] = [line |-> c, place |-> kept + i]
      /\ whole \in Seq(ByteType) /\ Len(whole) = Len(buffer[s]) + k
  BY <1>1, WholeType DEF LogsType
<1>5. /\ left \in Seq(ByteType)
      /\ pipe'[PipeOf(s)] = pipe[PipeOf(s)] \o left
      /\ \A p \in {"stdout", "syslog"} : p # PipeOf(s) => pipe'[p] = pipe[p]
      /\ buffer'[s] = right
      /\ \A u \in Sinks : u # s => buffer'[u] = buffer[u]
  BY <1>1, <1>3, BytesMoved
<1>6. lines' = [lines EXCEPT ![c].kept = @ + k]
  BY <1>3, Zenon DEF Moves
<1> HIDE DEF new
<1>7. /\ Grown(lines, lines', c) /\ lines'[c].kept = kept + k
  <2>1. /\ DOMAIN lines' = DOMAIN lines /\ lines'[c].kept = kept + k
        /\ \A i \in DOMAIN lines : lines'[i].sink = lines[i].sink /\ (i # c => lines'[i] = lines[i])
    BY <1>4, <1>6, LinesMoved
  <2>2. kept + k \in Nat /\ kept <= kept + k
    BY <1>4
  <2> QED
    BY <1>4, <2>1, <2>2 DEF Grown
<1>8. pipe[PipeOf(t)] \in Seq(ByteType) /\ PipeOf(t) \in {"stdout", "syslog"}
      /\ pipe[PipeOf(s)] \in Seq(ByteType)
  BY DEF LogsType, PipeOf
<1>9. \A i \in DOMAIN lines : i \in Nat /\ (lines[i].sink = s => i <= c)
  BY DEF LogsType
<1> HIDE DEF c, kept
<1>10. OnceIn(lines', pipe[PipeOf(s)], whole, s)
  BY <1>4, <1>7, <1>8, <1>9, OnceKeep DEF kept
<1> HIDE DEF whole
<1>11. OnceIn(lines', pipe[PipeOf(s)] \o left, right, s)
  <2>1. n \in 0 .. Len(whole)
    BY <1>4
  <2> QED
    BY <1>4, <1>8, <1>10, <2>1, OnceFlush
<1>12. CASE t = s
  BY <1>5, <1>11, <1>12
<1>13. CASE t # s
  <2>1. OnceIn(lines', pipe[PipeOf(t)], buffer[t], t)
    BY <1>4, <1>7, <1>13, OnceOther
  <2>2. CASE PipeOf(t) # PipeOf(s)
    BY <1>5, <1>8, <1>13, <2>1, <2>2
  <2>3. CASE PipeOf(t) = PipeOf(s)
    <3>1. \A i \in DOMAIN whole : IsIn(lines', whole[i], s)
      BY <1>10 DEF OnceIn, Known
    <3>2. \A i \in DOMAIN left : i \in DOMAIN whole /\ left[i] = whole[i]
      <4>1. n \in 0 .. Len(whole) /\ Len(whole) \in Nat /\ n \in Nat /\ n <= Len(whole)
            /\ DOMAIN whole = 1 .. Len(whole)
        BY <1>4
      <4>2. Len(left) = n /\ \A i \in 1 .. n : left[i] = whole[i]
        BY <1>4, <4>1, Split
      <4> HIDE DEF left
      <4>3. DOMAIN left = 1 .. n
        BY <1>5, <4>2
      <4> QED
        BY <4>1, <4>2, <4>3
    <3> HIDE DEF left
    <3>3. \A i \in DOMAIN left : IsIn(lines', left[i], s)
      BY <3>1, <3>2
    <3>4. OnceIn(lines', pipe[PipeOf(t)] \o left, buffer[t], t)
      BY <1>5, <1>8, <1>13, <2>1, <2>3, <3>3, OnceFlushOther
    <3> QED
      BY <1>5, <1>13, <2>3, <3>4
  <2> QED
    BY <2>2, <2>3
<1> QED
  BY <1>12, <1>13

-----------------------------------------------------------------------------
(* PythonLogs: which lines lose bytes.                                     *)

\* The line i or one before it of the sink s raised.
Blamed(i, s) == \E j \in raised : j <= i /\ lines[j].sink = s

\* Why bytes of the i-th line are not taken.
Excused(i) ==
  \/ lines[i].kept = lines[i].size
  \/ i = current[lines[i].sink] /\ phase[lines[i].sink] = "write"
  \/ i \in raised /\ lines[i].size > Capacity
  \/ \E j \in raised : j < i /\ lines[j].sink = lines[i].sink

\* Between its lines a writer holds bytes only if a line raised.
LossInv ==
  /\ \A s \in Sinks : phase[s] # "idle" => current[s] \notin raised
  /\ \A s \in Sinks : phase[s] = "write" =>
       lines[current[s]].kept = 0 \/ lines[current[s]].size > Capacity
  /\ \A s \in Sinks : \A n \in DOMAIN buffer[s] :
       \/ Blamed(buffer[s][n].line, s)
       \/ Flushing(s) /\ buffer[s][n].line = current[s]
  /\ \A i \in DOMAIN lines : Excused(i)

LEMMA LossInit == LogsInit => LossInv
<1> SUFFICES ASSUME LogsInit PROVE LossInv
  OBVIOUS
<1>1. /\ lines = <<>> /\ \A s \in Sinks : phase[s] = "idle" /\ buffer[s] = <<>>
  BY DEF LogsInit
<1> QED
  BY <1>1 DEF LossInv

\* Who was to blame still is.
LEMMA BlamedStays ==
  ASSUME LogsType, \A i \in DOMAIN lines : lines'[i].sink = lines[i].sink,
         raised \subseteq raised', NEW i, NEW s, Blamed(i, s)
  PROVE  Blamed(i, s)'
BY DEF Blamed, LogsType

LEMMA LossLog ==
  ASSUME LogsType, LossInv, NEW s \in Sinks, NEW m \in Messages, Log(s, m)
  PROVE  LossInv'
<1> DEFINE e == [sink |-> s, announced |-> Announced(s, m), size |-> Size(s, m), kept |-> 0]
<1>1. /\ e.sink = s /\ e.kept = 0
      /\ Len(lines) \in Nat /\ DOMAIN lines = 1 .. Len(lines)
      /\ DOMAIN lines' = 1 .. Len(lines) + 1
      /\ \A i \in DOMAIN lines : i \in DOMAIN lines' /\ lines'[i] = lines[i]
      /\ lines'[Len(lines) + 1] = e
      /\ current'[s] = Len(lines) + 1 /\ phase'[s] = "write" /\ phase[s] = "idle"
      /\ \A t \in Sinks : t # s => current'[t] = current[t] /\ phase'[t] = phase[t]
      /\ buffer' = buffer /\ raised' = raised
  BY LogAppends
<1> HIDE DEF e
<1>2. raised \subseteq DOMAIN lines
  BY DEF LogsType
<1>3. \A t \in Sinks : phase'[t] # "idle" => current'[t] \notin raised'
  <2>1. Len(lines) + 1 \notin DOMAIN lines
    BY <1>1
  <2> QED
    BY <1>1, <1>2, <2>1 DEF LossInv
<1>4. \A t \in Sinks : phase'[t] = "write" =>
        lines'[current'[t]].kept = 0 \/ lines'[current'[t]].size > Capacity
  <2> SUFFICES ASSUME NEW t \in Sinks, phase'[t] = "write"
               PROVE  lines'[current'[t]].kept = 0 \/ lines'[current'[t]].size > Capacity
    OBVIOUS
  <2>1. CASE t = s
    BY <1>1, <2>1
  <2>2. CASE t # s
    <3>1. current[t] \in DOMAIN lines
      BY <1>1, <2>2 DEF LogsType
    <3> QED
      BY <1>1, <2>2, <3>1 DEF LossInv
  <2> QED
    BY <2>1, <2>2
<1>5. \A t \in Sinks : \A n \in DOMAIN buffer'[t] :
        \/ Blamed(buffer[t][n].line, t)'
        \/ Flushing(t)' /\ buffer'[t][n].line = current'[t]
  <2> SUFFICES ASSUME NEW t \in Sinks, NEW n \in DOMAIN buffer[t]
               PROVE  \/ Blamed(buffer[t][n].line, t)'
                      \/ Flushing(t)' /\ buffer[t][n].line = current'[t]
    BY <1>1
  <2>1. CASE Blamed(buffer[t][n].line, t)
    <3>1. \A b : Blamed(b, t) => \E j \in raised' : j <= b /\ lines'[j].sink = t
      BY <1>1, <1>2 DEF Blamed
    <3> QED
      BY <1>1, <2>1, <3>1 DEF Blamed
  <2>2. CASE Flushing(t) /\ buffer[t][n].line = current[t]
    BY <1>1, <2>2 DEF Flushing
  <2> QED
    BY <2>1, <2>2 DEF LossInv
<1>6. \A i \in DOMAIN lines' : Excused(i)'
  <2> SUFFICES ASSUME NEW i \in DOMAIN lines' PROVE Excused(i)'
    OBVIOUS
  <2>1. CASE i = Len(lines) + 1
    BY <1>1, <2>1 DEF Excused
  <2>2. CASE i \in DOMAIN lines
    <3>0. lines[i] \in LineType
      BY <2>2 DEF LogsType
    <3>1. lines[i].sink \in Sinks
      BY <3>0 DEF LineType
    <3>2. phase[lines[i].sink] = "write" => lines[i].sink # s
      BY <1>1
    <3> QED
      BY <1>1, <1>2, <2>2, <3>1, <3>2 DEF Excused, LossInv
  <2> QED
    BY <1>1, <2>1, <2>2
<1> QED
  BY <1>3, <1>4, <1>5, <1>6 DEF LossInv

\* What a step leaves in its writer are bytes of the line it flushes or of one
\* that is blamed.
LEMMA StepHolds ==
  ASSUME LogsType, LossInv, NEW s \in Sinks, Steps(s), NEW n \in DOMAIN buffer'[s]
  PROVE  Blamed(buffer[s][n].line, s)' \/ (Flushing(s)' /\ buffer'[s][n].line = current[s])
<1> DEFINE c == current[s]
           kept == lines[c].kept
<1>1. phase[s] # "idle"
  BY StepMoves
<1>2. PICK k \in 0 .. lines[c].size - lines[c].kept :
        (k # 0 => phase[s] = "write") /\ \E j \in 0 .. Len(buffer[s]) + k : Moves(s, k, j)
  BY StepMoves
<1>3. PICK j \in 0 .. Len(buffer[s]) + k : Moves(s, k, j)
  BY <1>2
<1> DEFINE new == Bytes(c, kept, kept + k)
           whole == buffer[s] \o new
           right == SubSeq(whole, j + 1, Len(whole))
<1>4. /\ c \in DOMAIN lines /\ kept \in Nat /\ k \in Nat /\ lines[c].sink = s
      /\ buffer[s] \in Seq(ByteType) /\ new \in Seq(ByteType) /\ Len(new) = k
      /\ \A i \in 1 .. k : new[i] = [line |-> c, place |-> kept + i]
      /\ whole \in Seq(ByteType) /\ Len(whole) = Len(buffer[s]) + k
      /\ (k = 0 => whole = buffer[s])
  BY <1>1, WholeType DEF LogsType
<1>5. buffer'[s] = right
  BY <1>1, <1>3, BytesMoved
<1>6. lines'[c].kept = kept + k
  <2>1. lines' = [lines EXCEPT ![c].kept = @ + k]
    BY <1>3, Zenon DEF Moves
  <2> QED
    BY <1>4, <2>1, LinesMoved
<1> HIDE DEF new
<1>7. \A i \in 1 .. Len(buffer[s]) + k :
        \/ i \in DOMAIN buffer[s] /\ whole[i] = buffer[s][i]
        \/ k # 0 /\ whole[i].line = c
  <2>1. /\ \A i \in 1 .. Len(buffer[s]) : whole[i] = buffer[s][i]
        /\ \A i \in 1 .. k : whole[Len(buffer[s]) + i] = new[i]
    BY <1>4, Joined
  <2> HIDE DEF whole
  <2> SUFFICES ASSUME NEW i \in 1 .. Len(buffer[s]) + k
               PROVE  \/ i \in DOMAIN buffer[s] /\ whole[i] = buffer[s][i]
                      \/ k # 0 /\ whole[i].line = c
    OBVIOUS
  <2>2. Len(buffer[s]) \in Nat /\ DOMAIN buffer[s] = 1 .. Len(buffer[s])
    BY <1>4
  <2>3. CASE i <= Len(buffer[s])
    BY <2>1, <2>2, <2>3
  <2>4. CASE i > Len(buffer[s])
    <3> DEFINE d == i - Len(buffer[s])
    <3>1. d \in 1 .. k /\ i = Len(buffer[s]) + d /\ k # 0
      BY <1>4, <2>2, <2>4
    <3> HIDE DEF d
    <3>2. whole[i] = new[d] /\ new[d].line = c
      BY <1>4, <2>1, <3>1
    <3> QED
      BY <3>1, <3>2
  <2> QED
    BY <2>2, <2>3, <2>4
<1> HIDE DEF whole
<1>8. buffer'[s] \in Seq(ByteType) /\ \E i \in 1 .. Len(buffer[s]) + k : buffer'[s][n] = whole[i]
  <2>1. j \in 0 .. Len(whole) /\ Len(whole) \in Nat /\ j \in Nat
    BY <1>4
  <2>2. /\ right \in Seq(ByteType) /\ Len(right) = Len(whole) - j
        /\ \A i \in 1 .. Len(whole) - j : right[i] = whole[j + i]
    BY <1>4, <2>1, Split
  <2> HIDE DEF right
  <2>3. n \in 1 .. Len(whole) - j
    BY <1>5, <2>2
  <2>4. buffer'[s][n] = whole[j + n]
    BY <1>5, <2>2, <2>3
  <2>5. j + n \in 1 .. Len(whole)
    BY <2>1, <2>3
  <2>6. j + n \in 1 .. Len(buffer[s]) + k
    BY <1>4, <2>5
  <2> QED
    BY <1>5, <2>2, <2>4, <2>6
<1>9. PICK i \in 1 .. Len(buffer[s]) + k : buffer'[s][n] = whole[i]
  BY <1>8
<1>10. /\ raised \subseteq raised' /\ \A d \in DOMAIN lines : lines'[d].sink = lines[d].sink
       /\ raised \subseteq DOMAIN lines /\ c \in Nat
  BY StepEffect DEF LogsType
<1>11. \A d : Blamed(d, s) => \E r \in raised' : r <= d /\ lines'[r].sink = s
  BY <1>10 DEF Blamed
<1>12. \/ \E r \in raised' : r <= buffer'[s][n].line /\ lines'[r].sink = s
       \/ buffer'[s][n].line = c /\ (Flushing(s) \/ k # 0)
  <2>1. CASE i \in DOMAIN buffer[s] /\ whole[i] = buffer[s][i]
    BY <1>9, <1>11, <2>1 DEF LossInv
  <2>2. CASE k # 0 /\ whole[i].line = c
    BY <1>9, <2>2
  <2> QED
    BY <1>7, <2>1, <2>2
<1>13. CASE \E r \in raised' : r <= buffer'[s][n].line /\ lines'[r].sink = s
  BY <1>13 DEF Blamed
<1>14. CASE buffer'[s][n].line = c /\ (Flushing(s) \/ k # 0)
  <2>1. CASE c \in raised'
    <3>1. c <= c /\ lines'[c].sink = s
      BY <1>4, <1>10
    <3> QED
      BY <1>14, <2>1, <3>1 DEF Blamed
  <2>2. CASE c \notin raised'
    <3>1. DOMAIN buffer'[s] # {}
      OBVIOUS
    <3>2. ~Flush(s) \/ phase'[s] = phase[s]
      <4> SUFFICES ASSUME Flush(s) PROVE phase'[s] = phase[s]
        OBVIOUS
      <4>1. PICK d \in Accepted(buffer[s]) :
              /\ buffer' = [buffer EXCEPT ![s] = SubSeq(@, d + 1, Len(@))]
              /\ phase' = [phase EXCEPT ![s] = IF d = Len(buffer[s]) THEN "idle" ELSE @]
        BY DEF Flush
      <4>2. d # Len(buffer[s])
        <5>1. SubSeq(buffer[s], Len(buffer[s]) + 1, Len(buffer[s])) = <<>>
          BY <1>4, Nothing
        <5>2. buffer'[s] = SubSeq(buffer[s], d + 1, Len(buffer[s]))
          BY <4>1 DEF LogsType
        <5> QED
          BY <3>1, <5>1, <5>2
      <4> QED
        BY <4>1, <4>2 DEF LogsType
    <3>3. CASE Hold(s)
      BY <1>14, <3>3 DEF Hold, Flushing, LogsType
    <3>4. CASE WriteHeld(s)
      <4>1. lines' = lines /\ phase[s] = "write"
        BY <3>4 DEF WriteHeld
      <4>2. k = 0 /\ ~Flushing(s)
        BY <1>4, <1>6, <4>1 DEF Flushing
      <4> QED
        BY <1>14, <4>2
    <3>5. CASE WriteThrough(s)
      <4>1. buffer'[s] = <<>>
        BY <3>5 DEF WriteThrough
      <4> QED
        BY <3>1, <4>1
    <3>6. CASE WriteRaises(s)
      BY <1>14, <2>2, <3>6 DEF WriteRaises, Flushing, LogsType
    <3>7. CASE Flush(s)
      BY <1>14, <3>2, <3>7 DEF Flush, Flushing
    <3>8. CASE FlushRaises(s)
      BY <1>14, <2>2, <3>8 DEF FlushRaises, Flushing, LogsType
    <3> QED
      BY <3>3, <3>4, <3>5, <3>6, <3>7, <3>8 DEF Steps
  <2> QED
    BY <2>1, <2>2
<1> QED
  BY <1>12, <1>13, <1>14

\* The line at hand after a step.
LEMMA ExcusedAtHand ==
  ASSUME LogsType, LossInv, NEW s \in Sinks, Steps(s)
  PROVE  /\ Excused(current[s])'
         /\ phase'[s] = "write" =>
              lines'[current[s]].kept = 0 \/ lines[current[s]].size > Capacity
<1> DEFINE c == current[s]
           size == lines[c].size
           kept == lines[c].kept
<1>1. /\ phase[s] # "idle" /\ current' = current
      /\ c \in DOMAIN lines /\ c \in Nat /\ lines[c].sink = s
      /\ lines'[c].sink = s /\ lines'[c].size = size /\ c \in DOMAIN lines'
      /\ \A i \in DOMAIN lines : lines'[i].sink = lines[i].sink
      /\ raised \subseteq raised' /\ raised \subseteq DOMAIN lines
  BY StepEffect DEF LogsType
<1>2. /\ kept \in Nat /\ size \in Nat /\ kept <= size
      /\ Len(Untaken(s)) = size - kept /\ buffer[s] \in Seq(ByteType) /\ Len(buffer[s]) \in Nat
  <2>1. lines[c] \in LineType /\ kept <= size
    BY <1>1 DEF LogsType
  <2>2. Len(Untaken(s)) = size - kept
    BY <1>1, UntakenType
  <2> QED
    BY <2>1, <2>2 DEF LineType, LogsType
\* A writer that is not empty when a line is written holds bytes of another line.
<1>3. ASSUME phase[s] = "write", buffer[s] # <<>>
      PROVE  \E j \in raised : j < c /\ lines[j].sink = s
  <2>1. 1 \in DOMAIN buffer[s]
    BY <1>2, <1>3
  <2>2. ~Flushing(s)
    BY <1>3 DEF Flushing
  <2>3. Blamed(buffer[s][1].line, s)
    BY <2>1, <2>2 DEF LossInv
  <2>4. PICK j \in raised : lines[j].sink = s
    BY <2>3 DEF Blamed
  <2>5. j \in DOMAIN lines /\ j <= c /\ j # c /\ j \in Nat
    BY <1>1, <2>4 DEF LogsType, LossInv
  <2> QED
    BY <1>1, <2>4, <2>5
<1>4. ASSUME \E j \in raised : j < c /\ lines[j].sink = s PROVE Excused(c)'
  <2>1. \E j \in raised' : j < c /\ lines'[j].sink = lines'[c].sink
    BY <1>1, <1>4
  <2> QED
    BY <1>1, <2>1 DEF Excused
<1>5. CASE Hold(s)
  <2>1. lines' = [lines EXCEPT ![c].kept = @ + (size - kept)] /\ phase'[s] = "flush"
    BY <1>2, <1>5 DEF Hold, Keep, LogsType
  <2>2. lines'[c].kept = kept + (size - kept)
    <3>1. size - kept \in Nat
      BY <1>2
    <3> QED
      BY <1>1, <2>1, <3>1, LinesMoved
  <2>3. lines'[c].kept = lines'[c].size
    BY <1>1, <1>2, <2>2
  <2> QED
    BY <1>1, <2>1, <2>3 DEF Excused
<1>6. CASE WriteHeld(s)
  <2>1. lines' = lines /\ phase' = phase /\ phase[s] = "write"
    BY <1>6 DEF WriteHeld
  <2>2. Excused(c)'
    BY <1>1, <2>1 DEF Excused
  <2> QED
    BY <2>1, <2>2 DEF LossInv
<1>7. CASE WriteThrough(s)
  <2>1. phase' = phase /\ phase[s] = "write" /\ buffer[s] = <<>> /\ ~Fits(s)
    BY <1>7 DEF WriteThrough
  <2>2. Excused(c)'
    BY <1>1, <2>1 DEF Excused
  <2>3. size > Capacity
    <3>1. Len(buffer[s]) = 0
      BY <2>1
    <3> QED
      BY <1>2, <2>1, <3>1, LogsAssumption DEF Fits
  <2> QED
    BY <2>2, <2>3
<1>8. CASE WriteRaises(s)
  <2>1. phase[s] = "write" /\ (buffer[s] # <<>> \/ ~Fits(s)) /\ phase'[s] # "write"
    BY <1>8 DEF WriteRaises, LogsType
  <2>2. CASE buffer[s] # <<>>
    BY <1>3, <1>4, <2>1, <2>2
  <2>3. CASE buffer[s] = <<>>
    <3>1. size > Capacity
      <4>1. Len(buffer[s]) = 0
        BY <2>3
      <4> QED
        BY <1>2, <2>1, <2>3, <4>1, LogsAssumption DEF Fits
    <3>2. ~(size <= Capacity)
      BY <1>2, <3>1, LogsAssumption
    <3>3. c \in raised'
      BY <1>8, <3>2 DEF WriteRaises
    <3> QED
      BY <1>1, <2>1, <3>1, <3>3 DEF Excused
  <2> QED
    BY <2>2, <2>3
<1>9. CASE Flush(s) \/ FlushRaises(s)
  <2>1. lines' = lines /\ phase[s] # "write"
    BY <1>9 DEF Flush, FlushRaises, Flushing
  <2>2. phase'[s] # "write"
    <3>1. CASE Flush(s)
      BY <2>1, <3>1 DEF Flush, LogsType
    <3>2. CASE FlushRaises(s)
      BY <3>2 DEF FlushRaises, LogsType
    <3> QED
      BY <1>9, <3>1, <3>2
  <2>3. \/ kept = size
        \/ c \in raised /\ size > Capacity
        \/ \E j \in raised : j < c /\ lines[j].sink = s
    BY <1>1, <2>1 DEF LossInv, Excused
  <2>4. Excused(c)'
    BY <1>1, <2>1, <2>3 DEF Excused
  <2> QED
    BY <2>2, <2>4
<1> QED
  BY <1>5, <1>6, <1>7, <1>8, <1>9 DEF Steps

LEMMA LossSteps ==
  ASSUME LogsType, LossInv, NEW s \in Sinks, Steps(s)
  PROVE  LossInv'
<1> DEFINE c == current[s]
<1>1. /\ phase[s] # "idle" /\ current' = current
      /\ c \in DOMAIN lines /\ c \in Nat /\ lines[c].sink = s
      /\ DOMAIN lines' = DOMAIN lines
      /\ \A i \in DOMAIN lines :
           /\ lines'[i].sink = lines[i].sink /\ lines'[i].size = lines[i].size
           /\ i # c => lines'[i] = lines[i]
      /\ \A t \in Sinks : t # s => phase'[t] = phase[t] /\ buffer'[t] = buffer[t]
      /\ (raised' = raised \/ (raised' = raised \cup {c} /\ phase'[s] = "idle"))
      /\ \A t \in Sinks : t # s /\ phase[t] # "idle" => current[t] # c
  BY StepEffect
<1>2. raised \subseteq raised' /\ raised \subseteq DOMAIN lines
  BY <1>1 DEF LogsType
<1>3. \A t \in Sinks : phase'[t] # "idle" => current'[t] \notin raised'
  BY <1>1 DEF LossInv
<1>4. \A t \in Sinks : phase'[t] = "write" =>
        lines'[current'[t]].kept = 0 \/ lines'[current'[t]].size > Capacity
  <2> SUFFICES ASSUME NEW t \in Sinks, phase'[t] = "write"
               PROVE  lines'[current[t]].kept = 0 \/ lines'[current[t]].size > Capacity
    BY <1>1
  <2>1. CASE t = s
    BY <1>1, <2>1, ExcusedAtHand
  <2>2. CASE t # s
    <3>1. phase[t] = "write" /\ current[t] \in DOMAIN lines /\ current[t] # c
      BY <1>1, <2>2 DEF LogsType
    <3> QED
      BY <1>1, <3>1 DEF LossInv
  <2> QED
    BY <2>1, <2>2
<1>5. \A t \in Sinks : \A n \in DOMAIN buffer'[t] :
        \/ Blamed(buffer[t][n].line, t)'
        \/ Flushing(t)' /\ buffer'[t][n].line = current'[t]
  <2> SUFFICES ASSUME NEW t \in Sinks, NEW n \in DOMAIN buffer'[t]
               PROVE  \/ Blamed(buffer[t][n].line, t)'
                      \/ Flushing(t)' /\ buffer'[t][n].line = current[t]
    BY <1>1
  <2>1. CASE t = s
    BY <2>1, StepHolds
  <2>2. CASE t # s
    <3>1. buffer'[t] = buffer[t] /\ n \in DOMAIN buffer[t] /\ (Flushing(t)' <=> Flushing(t))
      BY <1>1, <2>2 DEF Flushing
    <3>2. CASE Blamed(buffer[t][n].line, t)
      <4>1. \A b : Blamed(b, t) => \E j \in raised' : j <= b /\ lines'[j].sink = t
        BY <1>1, <1>2 DEF Blamed
      <4> QED
        BY <3>1, <3>2, <4>1 DEF Blamed
    <3> QED
      BY <3>1, <3>2 DEF LossInv
  <2> QED
    BY <2>1, <2>2
<1>6. \A i \in DOMAIN lines' : Excused(i)'
  <2> SUFFICES ASSUME NEW i \in DOMAIN lines PROVE Excused(i)'
    BY <1>1
  <2>1. CASE i = c
    BY <1>1, <2>1, ExcusedAtHand
  <2>2. CASE i # c
    <3>1. Excused(i) /\ lines'[i] = lines[i]
      BY <1>1, <2>2 DEF LossInv
    <3>2. lines[i].sink \in Sinks
      <4>1. lines[i] \in LineType
        BY DEF LogsType
      <4> QED
        BY <4>1 DEF LineType
    <3>3. CASE i = current[lines[i].sink] /\ phase[lines[i].sink] = "write"
      <4>1. lines[i].sink # s
        BY <2>2, <3>3
      <4> QED
        BY <1>1, <3>1, <3>2, <3>3, <4>1 DEF Excused
    <3>4. CASE \E j \in raised : j < i /\ lines[j].sink = lines[i].sink
      <4>1. \E j \in raised' : j < i /\ lines'[j].sink = lines'[i].sink
        BY <1>1, <1>2, <3>4
      <4> QED
        BY <4>1 DEF Excused
    <3>5. CASE lines[i].kept = lines[i].size \/ (i \in raised /\ lines[i].size > Capacity)
      BY <1>2, <3>1, <3>5 DEF Excused
    <3> QED
      BY <3>1, <3>3, <3>4, <3>5 DEF Excused
  <2> QED
    BY <2>1, <2>2
<1> QED
  BY <1>3, <1>4, <1>5, <1>6 DEF LossInv

LEMMA LossStep == LogsType /\ LossInv /\ [LogsNext]_logVars => LossInv'
<1>1. LogsType /\ LossInv /\ UNCHANGED logVars => LossInv'
  BY DEF logVars, LossInv, Blamed, Excused, Flushing
<1> QED
  BY <1>1, LossLog, LossSteps, LogsCases

\* Every byte that a writer took, of every sink.
OnceInv == \A s \in Sinks : OnceIn(lines, pipe[PipeOf(s)], buffer[s], s)

LEMMA OnceInit == LogsInit => OnceInv
BY DEF LogsInit, OnceInv, OnceIn, Found, Known, Ordered, PipeOf

LEMMA OnceStep == LogsType /\ OnceInv /\ [LogsNext]_logVars => OnceInv'
<1> SUFFICES ASSUME LogsType, OnceInv, [LogsNext]_logVars
             PROVE  \A t \in Sinks : OnceIn(lines', pipe'[PipeOf(t)], buffer'[t], t)
  BY DEF OnceInv
<1>0. \A t \in Sinks : OnceIn(lines, pipe[PipeOf(t)], buffer[t], t)
  BY DEF OnceInv
<1>1. ASSUME NEW s \in Sinks, NEW m \in Messages, Log(s, m)
      PROVE  \A t \in Sinks : OnceIn(lines', pipe'[PipeOf(t)], buffer'[t], t)
  BY <1>0, <1>1, OnceLogStep
<1>2. ASSUME NEW s \in Sinks, Steps(s)
      PROVE  \A t \in Sinks : OnceIn(lines', pipe'[PipeOf(t)], buffer'[t], t)
  BY <1>0, <1>2, OnceSteps
<1>3. CASE UNCHANGED logVars
  BY <1>0, <1>3 DEF logVars
<1> QED
  BY <1>1, <1>2, <1>3, LogsCases

\* Whatever writes and flushes fail, and wherever they stop: every byte that a
\* writer took is in the pipe or still in the writer, once and in order, and bytes
\* are lost only of a line that raised and is longer than a writer, or of one
\* behind a line of its sink that raised.
THEOREM BytesArriveOnce == LogsSpec => []BytesOnceInOrder
<1>1. OnceInv /\ LossInv => BytesOnceInOrder
  <2> SUFFICES ASSUME OnceInv, LossInv, NEW s \in Sinks
               PROVE  LET arrived == pipe[PipeOf(s)]
                          held == buffer[s]
                      IN  /\ \A i \in DOMAIN lines : lines[i].sink = s =>
                               /\ \A k \in 1 .. lines[i].kept :
                                    \/ \E n \in DOMAIN arrived : arrived[n] = [line |-> i, place |-> k]
                                    \/ \E n \in DOMAIN held : held[n] = [line |-> i, place |-> k]
                               /\ \/ lines[i].kept = lines[i].size
                                  \/ i = current[s] /\ phase[s] = "write"
                                  \/ i \in raised /\ lines[i].size > Capacity
                                  \/ \E j \in raised : j < i /\ lines[j].sink = s
                          /\ \A n \in DOMAIN held : IsOf(held[n], s)
                          /\ \A n \in DOMAIN arrived :
                               \E t \in Sinks : PipeOf(t) = PipeOf(s) /\ IsOf(arrived[n], t)
                          /\ \A n, m \in DOMAIN held : n < m => Before(held[n], held[m])
                          /\ \A n, m \in DOMAIN arrived :
                               n < m /\ IsOf(arrived[n], s) /\ IsOf(arrived[m], s) =>
                                 Before(arrived[n], arrived[m])
                          /\ \A n \in DOMAIN arrived, m \in DOMAIN held :
                               IsOf(arrived[n], s) => Before(arrived[n], held[m])
    BY DEF BytesOnceInOrder
  <2>1. \A b, t : IsOf(b, t) <=> IsIn(lines, b, t)
    BY DEF IsOf, IsIn
  <2>2. OnceIn(lines, pipe[PipeOf(s)], buffer[s], s)
    BY DEF OnceInv
  <2>3. \A i \in DOMAIN lines : lines[i].sink = s =>
          \/ lines[i].kept = lines[i].size
          \/ i = current[s] /\ phase[s] = "write"
          \/ i \in raised /\ lines[i].size > Capacity
          \/ \E j \in raised : j < i /\ lines[j].sink = s
    BY DEF LossInv, Excused
  <2> QED
    BY <2>1, <2>2, <2>3 DEF OnceIn, Found, Known, Ordered
<1> QED
  BY <1>1, LogsTypeInit, LogsTypeStep, LossInit, LossStep, OnceInit, OnceStep, PTL DEF LogsSpec

-----------------------------------------------------------------------------
(* PythonLogs: a reader of stdout.                                         *)

\* A sound line that is flushed is all that its writer holds.
FlushInv ==
  \A s \in Sinks : Flushing(s) /\ Sound(current[s]) =>
    buffer[s] = Bytes(current[s], 0, lines[current[s]].size)

\* The line of the n-th byte is in one piece there.
InOnePiece(stream, n, size) ==
  \A k \in 1 .. size :
    /\ n - stream[n].place + k \in DOMAIN stream
    /\ stream[n - stream[n].place + k] = [line |-> stream[n].line, place |-> k]

PieceInv ==
  \A n \in DOMAIN pipe["stdout"] : Sound(pipe["stdout"][n].line) =>
    InOnePiece(pipe["stdout"], n, lines[pipe["stdout"][n].line].size)

\* A line that is sound was so before.
LEMMA SoundBefore ==
  ASSUME LogsType, raised \subseteq raised',
         \A i \in DOMAIN lines : /\ lines'[i].sink = lines[i].sink
                                 /\ lines'[i].announced = lines[i].announced
                                 /\ lines'[i].size = lines[i].size,
         NEW i \in DOMAIN lines,
         /\ lines'[i].sink \in Framed => lines'[i].size = Header + lines'[i].announced
         /\ lines'[i].size <= PipeBuf
         /\ ~ \E j \in raised' : j <= i /\ lines'[j].sink = lines'[i].sink
  PROVE  Sound(i)
<1>1. raised \subseteq DOMAIN lines
  BY DEF LogsType
<1> QED
  BY <1>1 DEF Sound, RaisedUpTo

\* A writer that is not empty when a line is written blames it.
LEMMA HeldBlames ==
  ASSUME LogsType, OnceInv, LossInv, NEW s \in Sinks, phase[s] = "write", buffer[s] # <<>>
  PROVE  ~Sound(current[s])
<1> DEFINE c == current[s]
<1>1. buffer[s] \in Seq(ByteType) /\ c \in DOMAIN lines /\ lines[c].sink = s /\ c \in Nat
  BY DEF LogsType
<1>2. 1 \in DOMAIN buffer[s]
  BY <1>1
<1>3. Blamed(buffer[s][1].line, s)
  BY <1>2 DEF LossInv, Flushing
<1>4. PICK j \in raised : lines[j].sink = s
  BY <1>3 DEF Blamed
<1>5. j <= c
  BY <1>4 DEF LogsType
<1> QED
  BY <1>1, <1>4, <1>5 DEF Sound, RaisedUpTo

\* A byte that a writer holds between its lines, or of another line than that it
\* flushes, is of no sound line.
LEMMA HeldUnsound ==
  ASSUME LogsType, OnceInv, LossInv, NEW s \in Sinks, NEW n \in DOMAIN buffer[s],
         ~(Flushing(s) /\ buffer[s][n].line = current[s])
  PROVE  ~Sound(buffer[s][n].line)
<1>1. Blamed(buffer[s][n].line, s)
  BY DEF LossInv
<1>2. IsIn(lines, buffer[s][n], s)
  BY DEF OnceInv, OnceIn, Known
<1> QED
  BY <1>1, <1>2 DEF IsIn, Blamed, Sound, RaisedUpTo

\* All bytes of a line.
LEMMA AllBytes ==
  ASSUME NEW i \in Nat, NEW size \in Nat
  PROVE  /\ Bytes(i, 0, size) \in Seq(ByteType) /\ Len(Bytes(i, 0, size)) = size
         /\ \A k \in 1 .. size : Bytes(i, 0, size)[k] = [line |-> i, place |-> k]
BY DEF Bytes, ByteType

\* What arrives: nothing, bytes of lines that are not sound, or a sound line.
LEMMA ArrivesSound ==
  ASSUME LogsType, OnceInv, LossInv, FlushInv, NEW s \in Sinks, Steps(s)
  PROVE  \E left \in Seq(ByteType) :
           /\ pipe' = [pipe EXCEPT ![PipeOf(s)] = @ \o left]
           /\ \A j \in DOMAIN left :
                /\ left[j].line \in DOMAIN lines
                /\ Sound(left[j].line) =>
                     left = Bytes(left[j].line, 0, lines[left[j].line].size)
<1> DEFINE c == current[s]
<1>1. /\ phase[s] # "idle" /\ c \in DOMAIN lines /\ c \in Nat /\ lines[c].sink = s
      /\ buffer[s] \in Seq(ByteType) /\ Len(buffer[s]) \in Nat
      /\ DOMAIN buffer[s] = 1 .. Len(buffer[s])
      /\ pipe \in [{"stdout", "syslog"} -> Seq(ByteType)] /\ PipeOf(s) \in {"stdout", "syslog"}
  BY StepEffect DEF LogsType, PipeOf
<1>2. lines[c].size \in Nat /\ lines[c].kept \in Nat /\ lines[c].kept <= lines[c].size
  <2>1. lines[c] \in LineType /\ lines[c].kept <= lines[c].size
    BY <1>1 DEF LogsType
  <2> QED
    BY <2>1 DEF LineType
<1>3. \A j \in DOMAIN buffer[s] : buffer[s][j].line \in DOMAIN lines
  BY DEF OnceInv, OnceIn, Known, IsIn
<1>4. CASE Hold(s) \/ WriteRaises(s) \/ FlushRaises(s)
  <2>1. pipe' = pipe
    BY <1>4 DEF Hold, WriteRaises, FlushRaises
  <2> DEFINE left == <<>>
  <2>2. left \in Seq(ByteType) /\ DOMAIN left = {}
        /\ pipe = [pipe EXCEPT ![PipeOf(s)] = @ \o left]
    BY <1>1, Nothing
  <2> HIDE DEF left
  <2> QED
    BY <2>1, <2>2
<1>5. CASE WriteHeld(s) \/ Flush(s)
  <2>1. PICK n \in Accepted(buffer[s]) :
          pipe' = [pipe EXCEPT ![PipeOf(s)] = @ \o SubSeq(buffer[s], 1, n)]
    BY <1>5 DEF WriteHeld, Flush, Arrive
  <2> DEFINE left == SubSeq(buffer[s], 1, n)
  <2>2. n \in 0 .. Len(buffer[s])
    BY <1>1, AcceptedType
  <2>3. left \in Seq(ByteType) /\ Len(left) = n /\ \A j \in 1 .. n : left[j] = buffer[s][j]
    BY <1>1, <2>2, Split
  <2>4. n = Len(buffer[s]) => left = buffer[s]
    BY <1>1, Nothing
  <2> HIDE DEF left
  <2>5. ASSUME NEW j \in DOMAIN left
        PROVE  /\ left[j].line \in DOMAIN lines
               /\ Sound(left[j].line) => left = Bytes(left[j].line, 0, lines[left[j].line].size)
    <3>1. j \in DOMAIN buffer[s] /\ left[j] = buffer[s][j]
      BY <1>1, <2>2, <2>3
    <3>2. ASSUME Sound(left[j].line)
          PROVE  left = Bytes(left[j].line, 0, lines[left[j].line].size)
      <4>1. Flushing(s) /\ left[j].line = c
        BY <3>1, <3>2, HeldUnsound
      <4>2. buffer[s] = Bytes(c, 0, lines[c].size) /\ lines[c].size <= PipeBuf
        BY <3>2, <4>1 DEF FlushInv, Sound
      <4>3. Len(buffer[s]) = lines[c].size
        <5>1. Len(Bytes(c, 0, lines[c].size)) = lines[c].size
          BY <1>1, <1>2, AllBytes
        <5> QED
          BY <4>2, <5>1
      <4>4. n = Len(buffer[s])
        BY <2>1, <4>2, <4>3 DEF Accepted
      <4> QED
        BY <2>4, <4>1, <4>2, <4>4
    <3> QED
      BY <1>3, <3>1, <3>2
  <2>6. pipe' = [pipe EXCEPT ![PipeOf(s)] = @ \o left]
    BY <2>1 DEF left
  <2> QED
    BY <2>3, <2>5, <2>6
<1>6. CASE WriteThrough(s)
  <2>1. PICK n \in Accepted(Untaken(s)) :
          pipe' = [pipe EXCEPT ![PipeOf(s)] = @ \o SubSeq(Untaken(s), 1, n)]
    BY <1>6 DEF WriteThrough, Arrive
  <2>2. /\ Untaken(s) \in Seq(ByteType) /\ Len(Untaken(s)) = lines[c].size - lines[c].kept
        /\ \A i \in 1 .. lines[c].size - lines[c].kept : Untaken(s)[i].line = c
    <3>1. Untaken(s) \in Seq(ByteType) /\ Len(Untaken(s)) = lines[c].size - lines[c].kept
      BY <1>1, UntakenType
    <3>2. \A i \in 1 .. lines[c].size - lines[c].kept : Untaken(s)[i].line = c
      BY DEF Untaken, Bytes
    <3> QED
      BY <3>1, <3>2
  <2>3. ~Sound(c)
    <3>1. Len(buffer[s]) = 0 /\ ~Fits(s)
      BY <1>6 DEF WriteThrough
    <3>2. ~(lines[c].size <= PipeBuf)
      BY <1>2, <2>2, <3>1, LogsAssumption DEF Fits
    <3> QED
      BY <3>2 DEF Sound
  <2> DEFINE left == SubSeq(Untaken(s), 1, n)
  <2>4. n \in 0 .. Len(Untaken(s))
    BY <2>2, AcceptedType
  <2>5. left \in Seq(ByteType) /\ Len(left) = n /\ \A j \in 1 .. n : left[j] = Untaken(s)[j]
    BY <2>2, <2>4, Split
  <2> HIDE DEF left
  <2>6. ASSUME NEW j \in DOMAIN left PROVE left[j].line = c
    <3>1. j \in 1 .. n /\ j \in 1 .. lines[c].size - lines[c].kept
      BY <1>2, <2>2, <2>4, <2>5
    <3> QED
      BY <2>2, <2>5, <3>1
  <2>7. pipe' = [pipe EXCEPT ![PipeOf(s)] = @ \o left]
    BY <2>1 DEF left
  <2> QED
    BY <1>1, <2>3, <2>5, <2>6, <2>7
<1> QED
  BY <1>4, <1>5, <1>6 DEF Steps

\* A piece stays one when more arrives, and a line that arrives is one.
LEMMA PieceStays ==
  ASSUME NEW a \in Seq(ByteType), NEW b \in Seq(ByteType), NEW n \in DOMAIN a, NEW size \in Nat,
         InOnePiece(a, n, size)
  PROVE  (a \o b)[n] = a[n] /\ InOnePiece(a \o b, n, size)
<1> DEFINE both == a \o b
<1>1. /\ Len(a) \in Nat /\ DOMAIN a = 1 .. Len(a) /\ both \in Seq(ByteType)
      /\ Len(b) \in Nat /\ DOMAIN both = 1 .. Len(a) + Len(b)
      /\ \A i \in 1 .. Len(a) : both[i] = a[i]
  OBVIOUS
<1> HIDE DEF both
<1>2. \A i \in DOMAIN a : i \in DOMAIN both /\ both[i] = a[i]
  BY <1>1
<1>3. both[n] = a[n] /\ InOnePiece(both, n, size)
  BY <1>2 DEF InOnePiece
<1> QED
  BY <1>3 DEF both

LEMMA PieceArrives ==
  ASSUME NEW a \in Seq(ByteType), NEW i \in Nat, NEW size \in Nat,
         NEW n \in DOMAIN (a \o Bytes(i, 0, size)), n \notin DOMAIN a
  PROVE  (a \o Bytes(i, 0, size))[n].line = i /\ InOnePiece(a \o Bytes(i, 0, size), n, size)
<1> DEFINE b == Bytes(i, 0, size)
           both == a \o b
<1>1. b \in Seq(ByteType) /\ Len(b) = size /\ \A k \in 1 .. size : b[k] = [line |-> i, place |-> k]
  BY AllBytes
<1> HIDE DEF b
<1>2. /\ both \in Seq(ByteType) /\ Len(both) = Len(a) + size
      /\ \A k \in 1 .. size : both[Len(a) + k] = b[k]
  BY <1>1, Joined
<1>3. n \in DOMAIN both
  BY DEF b
<1> HIDE DEF both
<1> DEFINE d == n - Len(a)
<1>4. Len(a) \in Nat /\ d \in 1 .. size /\ n = Len(a) + d /\ DOMAIN both = 1 .. Len(a) + size
  BY <1>2, <1>3
<1> HIDE DEF d
<1>5. both[n] = [line |-> i, place |-> d]
  BY <1>1, <1>2, <1>4
<1>6. ASSUME NEW k \in 1 .. size
      PROVE  n - both[n].place + k \in DOMAIN both
             /\ both[n - both[n].place + k] = [line |-> both[n].line, place |-> k]
  <2>1. both[n].place = d /\ both[n].line = i
    BY <1>5
  <2>2. n - both[n].place + k = Len(a) + k /\ Len(a) + k \in DOMAIN both
    BY <1>4, <2>1
  <2>3. both[Len(a) + k] = [line |-> i, place |-> k]
    BY <1>1, <1>2
  <2> QED
    BY <2>1, <2>2, <2>3
<1> QED
  BY <1>5, <1>6 DEF InOnePiece, both, b

LEMMA PieceInit == LogsInit => FlushInv /\ PieceInv
<1> SUFFICES ASSUME LogsInit PROVE FlushInv /\ PieceInv
  OBVIOUS
<1>1. (\A s \in Sinks : phase[s] = "idle") /\ pipe["stdout"] = <<>>
  BY DEF LogsInit
<1> QED
  BY <1>1 DEF FlushInv, PieceInv, Flushing

LEMMA PieceLog ==
  ASSUME LogsType, OnceInv, FlushInv, PieceInv, NEW s \in Sinks, NEW m \in Messages, Log(s, m)
  PROVE  FlushInv' /\ PieceInv'
<1>1. /\ \A i \in DOMAIN lines : i \in DOMAIN lines' /\ lines'[i] = lines[i]
      /\ phase'[s] = "write"
      /\ \A t \in Sinks : t # s => current'[t] = current[t] /\ phase'[t] = phase[t]
      /\ buffer' = buffer /\ pipe' = pipe /\ raised' = raised
  BY LogAppends
<1>2. \A i \in DOMAIN lines : Sound(i)' => Sound(i)
  <2>1. raised \subseteq DOMAIN lines
    BY DEF LogsType
  <2> QED
    BY <1>1, <2>1 DEF Sound, RaisedUpTo
<1>3. FlushInv'
  <2> SUFFICES ASSUME NEW t \in Sinks, Flushing(t)', Sound(current[t])'
               PROVE  buffer'[t] = Bytes(current'[t], 0, lines'[current'[t]].size)
    BY DEF FlushInv
  <2>1. t # s /\ Flushing(t) /\ current'[t] = current[t]
    BY <1>1 DEF Flushing
  <2>2. current[t] \in DOMAIN lines
    BY <2>1 DEF Flushing, LogsType
  <2>3. Sound(current[t])
    <3> DEFINE c == current[t]
    <3>1. ASSUME NEW i \in DOMAIN lines, i = current'[t] PROVE Sound(i)
      BY <1>2, <3>1 DEF Sound, RaisedUpTo
    <3> QED
      BY <2>1, <2>2, <3>1
  <2> QED
    BY <1>1, <2>1, <2>2, <2>3 DEF FlushInv
<1>4. PieceInv'
  <2> SUFFICES ASSUME NEW n \in DOMAIN pipe["stdout"],
                      Sound(pipe["stdout"][n].line)'
               PROVE  InOnePiece(pipe["stdout"], n, lines'[pipe["stdout"][n].line].size)
    BY <1>1 DEF PieceInv
  <2>1. pipe["stdout"][n].line \in DOMAIN lines
    <3>1. Stdout \in Sinks /\ PipeOf(Stdout) = "stdout"
      BY LogsAssumption DEF Sinks, PipeOf
    <3> QED
      BY <3>1 DEF OnceInv, OnceIn, Known, IsIn
  <2>2. Sound(pipe["stdout"][n].line)
    <3>1. ASSUME NEW i \in DOMAIN lines, i = pipe'["stdout"][n].line PROVE Sound(i)
      BY <1>2, <3>1 DEF Sound, RaisedUpTo
    <3> QED
      BY <1>1, <2>1, <3>1
  <2> QED
    BY <1>1, <2>1, <2>2 DEF PieceInv
<1> QED
  BY <1>3, <1>4

LEMMA PieceSteps ==
  ASSUME LogsType, OnceInv, LossInv, FlushInv, PieceInv, NEW s \in Sinks, Steps(s)
  PROVE  FlushInv' /\ PieceInv'
<1> DEFINE c == current[s]
<1>1. /\ phase[s] # "idle" /\ current' = current
      /\ c \in DOMAIN lines /\ c \in Nat /\ lines[c].sink = s
      /\ DOMAIN lines' = DOMAIN lines
      /\ \A i \in DOMAIN lines :
           /\ lines'[i].sink = lines[i].sink /\ lines'[i].announced = lines[i].announced
           /\ lines'[i].size = lines[i].size
      /\ \A t \in Sinks : t # s => phase'[t] = phase[t] /\ buffer'[t] = buffer[t]
      /\ raised \subseteq raised'
      /\ buffer[s] \in Seq(ByteType) /\ Len(buffer[s]) \in Nat
  <2>1. LET d == current[s]
        IN  phase[s] # "idle" /\ current' = current /\ d \in DOMAIN lines /\ lines[d].sink = s
    BY StepEffect DEF LogsType
  <2>2. current[s] \in Nat /\ buffer[s] \in Seq(ByteType) /\ Len(buffer[s]) \in Nat
    BY DEF LogsType
  <2> QED
    BY <2>1, <2>2, StepEffect
<1>2. lines[c].size \in Nat /\ lines[c].kept \in Nat
  <2>1. lines[c] \in LineType
    BY <1>1 DEF LogsType
  <2> QED
    BY <2>1 DEF LineType
<1>3. ASSUME NEW i \in DOMAIN lines,
             /\ lines'[i].sink \in Framed => lines'[i].size = Header + lines'[i].announced
             /\ lines'[i].size <= PipeBuf
             /\ ~ \E j \in raised' : j <= i /\ lines'[j].sink = lines'[i].sink
      PROVE  Sound(i)
  BY <1>1, <1>3, SoundBefore
<1>4. FlushInv'
  <2> SUFFICES ASSUME NEW t \in Sinks, Flushing(t)', Sound(current[t])'
               PROVE  buffer'[t] = Bytes(current[t], 0, lines'[current[t]].size)
    BY <1>1 DEF FlushInv
  <2>1. ASSUME current[t] \in DOMAIN lines PROVE Sound(current[t])
    <3>1. ASSUME NEW i \in DOMAIN lines, i = current'[t] PROVE Sound(i)
      BY <1>3, <3>1 DEF Sound, RaisedUpTo
    <3> QED
      BY <1>1, <2>1, <3>1
  <2>2. CASE t # s
    <3>1. Flushing(t) /\ buffer'[t] = buffer[t]
      BY <1>1, <2>2 DEF Flushing
    <3>2. current[t] \in DOMAIN lines
      BY <3>1 DEF Flushing, LogsType
    <3> QED
      BY <1>1, <2>1, <3>1, <3>2 DEF FlushInv
  <2>3. CASE t = s
    <3>0. Sound(c)
      BY <1>1, <2>1, <2>3
    <3>1. lines[c].size <= PipeBuf /\ lines[c].size <= Capacity
      BY <1>2, <3>0, LogsAssumption DEF Sound
    <3>2. phase[s] = "write" => buffer[s] = <<>> /\ lines[c].kept = 0
      <4>1. phase[s] = "write" => buffer[s] = <<>>
        BY <3>0, HeldBlames
      <4> QED
        BY <1>2, <3>1, <4>1, LogsAssumption DEF LossInv
    <3>3. CASE Hold(s)
      <4>1. phase[s] = "write" /\ buffer'[s] = buffer[s] \o Untaken(s)
        BY <3>3 DEF Hold, LogsType
      <4>2. buffer'[s] = <<>> \o Bytes(c, 0, lines[c].size)
        BY <3>2, <4>1 DEF Untaken
      <4>3. Bytes(c, 0, lines[c].size) \in Seq(ByteType)
        BY <1>1, <1>2, AllBytes
      <4>4. <<>> \o Bytes(c, 0, lines[c].size) = Bytes(c, 0, lines[c].size)
        BY <4>3, Nothing
      <4> QED
        BY <1>1, <2>3, <4>2, <4>4
    <3>4. CASE WriteHeld(s) \/ WriteThrough(s)
      BY <2>3, <3>4 DEF WriteHeld, WriteThrough, Flushing
    <3>5. CASE WriteRaises(s)
      <4>1. buffer[s] = <<>> /\ lines[c].kept = 0 /\ ~Fits(s)
        BY <3>2, <3>5 DEF WriteRaises
      <4>2. Len(buffer[s]) = 0 /\ Len(Untaken(s)) = lines[c].size - 0
        BY <1>1, <4>1, UntakenType
      <4> QED
        BY <1>2, <3>1, <4>1, <4>2, LogsAssumption DEF Fits
    <3>6. CASE Flush(s)
      <4>1. PICK n \in Accepted(buffer[s]) :
              phase' = [phase EXCEPT ![s] = IF n = Len(buffer[s]) THEN "idle" ELSE @]
        BY <3>6 DEF Flush
      <4>2. Flushing(s) /\ buffer[s] = Bytes(c, 0, lines[c].size)
        BY <3>0, <3>6 DEF Flush, FlushInv
      <4>3. Len(buffer[s]) <= PipeBuf
        <5>1. Len(Bytes(c, 0, lines[c].size)) = lines[c].size
          BY <1>1, <1>2, AllBytes
        <5> QED
          BY <3>1, <4>2, <5>1
      <4>4. n = Len(buffer[s])
        BY <4>1, <4>3 DEF Accepted
      <4>5. phase'[s] = "idle"
        BY <4>1, <4>4 DEF LogsType
      <4> QED
        BY <2>3, <4>5 DEF Flushing
    <3>7. CASE FlushRaises(s)
      <4>1. Flushing(s) /\ buffer'[s] = buffer[s]
        BY <3>7 DEF FlushRaises, AfterFailure, LogsType
      <4> QED
        BY <1>1, <2>3, <3>0, <4>1 DEF FlushInv
    <3> QED
      BY <3>3, <3>4, <3>5, <3>6, <3>7 DEF Steps
  <2> QED
    BY <2>2, <2>3
<1>5. PieceInv'
  <2>1. PICK left \in Seq(ByteType) :
          /\ pipe' = [pipe EXCEPT ![PipeOf(s)] = @ \o left]
          /\ \A j \in DOMAIN left :
               /\ left[j].line \in DOMAIN lines
               /\ Sound(left[j].line) => left = Bytes(left[j].line, 0, lines[left[j].line].size)
    BY ArrivesSound
  <2>2. /\ pipe["stdout"] \in Seq(ByteType)
        /\ pipe'["stdout"] = pipe["stdout"] \/ pipe'["stdout"] = pipe["stdout"] \o left
    BY <2>1 DEF LogsType, PipeOf
  <2>3. \A n \in DOMAIN pipe["stdout"] : pipe["stdout"][n].line \in DOMAIN lines
    <3>1. Stdout \in Sinks /\ PipeOf(Stdout) = "stdout"
      BY LogsAssumption DEF Sinks, PipeOf
    <3> QED
      BY <3>1 DEF OnceInv, OnceIn, Known, IsIn
  <2>4. \A i \in DOMAIN lines : lines'[i].size = lines[i].size /\ lines[i].size \in Nat /\ i \in Nat
    <3>1. \A i \in DOMAIN lines : lines[i] \in LineType /\ i \in Nat
      BY DEF LogsType
    <3> QED
      BY <1>1, <3>1 DEF LineType
  <2> DEFINE old == pipe["stdout"]
             new == pipe'["stdout"]
  <2> SUFFICES ASSUME NEW n \in DOMAIN new, Sound(pipe["stdout"][n].line)'
               PROVE  InOnePiece(new, n, lines'[new[n].line].size)
    BY DEF PieceInv
  <2>5. ASSUME new[n].line \in DOMAIN lines PROVE Sound(new[n].line)
    <3>1. ASSUME NEW i \in DOMAIN lines, i = pipe'["stdout"][n].line PROVE Sound(i)
      BY <1>3, <3>1 DEF Sound, RaisedUpTo
    <3> QED
      BY <2>5, <3>1
  <2>a. old \in Seq(ByteType) /\ (new = old \/ new = old \o left)
    BY <2>2
  <2>6. CASE new = old
    <3>1. InOnePiece(old, n, lines[old[n].line].size)
      BY <2>3, <2>5, <2>6 DEF PieceInv
    <3> QED
      BY <2>3, <2>4, <2>6, <3>1
  <2>7. CASE new = old \o left /\ n \in DOMAIN old
    <3>1. new[n] = old[n]
      BY <2>a, <2>7
    <3>2. old[n].line \in DOMAIN lines
      BY <2>3, <2>7
    <3>3. InOnePiece(old, n, lines[old[n].line].size)
      BY <2>5, <2>7, <3>1, <3>2 DEF PieceInv
    <3>4. lines[old[n].line].size \in Nat
      BY <2>4, <3>2
    <3> HIDE DEF old, new
    <3>5. InOnePiece(old \o left, n, lines[old[n].line].size)
      BY <2>a, <2>7, <3>3, <3>4, PieceStays
    <3> QED
      BY <2>4, <2>7, <3>1, <3>2, <3>5
  <2>8. CASE new = old \o left /\ n \notin DOMAIN old
    <3> HIDE DEF old, new
    <3>1. PICK j \in DOMAIN left : new[n] = left[j]
      <4>1. /\ Len(old) \in Nat /\ Len(left) \in Nat /\ DOMAIN old = 1 .. Len(old)
            /\ DOMAIN left = 1 .. Len(left) /\ DOMAIN new = 1 .. Len(old) + Len(left)
            /\ \A i \in 1 .. Len(left) : new[Len(old) + i] = left[i]
        BY <2>a, <2>8
      <4> DEFINE d == n - Len(old)
      <4>2. d \in 1 .. Len(left) /\ n = Len(old) + d
        BY <2>8, <4>1
      <4> HIDE DEF d
      <4> QED
        BY <4>1, <4>2
    <3> DEFINE i == left[j].line
    <3>2. i \in DOMAIN lines /\ new[n].line = i
      BY <2>1, <3>1
    <3>3. Sound(i)
      BY <2>5, <3>2
    <3>4. left = Bytes(i, 0, lines[i].size)
      BY <2>1, <3>3
    <3> HIDE DEF i
    <3>5. i \in Nat /\ lines[i].size \in Nat
      BY <2>4, <3>2
    <3>6. n \in DOMAIN (old \o Bytes(i, 0, lines[i].size))
      BY <2>8, <3>4
    <3>7. InOnePiece(old \o Bytes(i, 0, lines[i].size), n, lines[i].size)
      BY <2>a, <2>8, <3>5, <3>6, PieceArrives
    <3> QED
      BY <2>4, <2>8, <3>2, <3>4, <3>7
  <2> QED
    BY <2>a, <2>6, <2>7, <2>8
<1> QED
  BY <1>4, <1>5

LEMMA PieceStep ==
  LogsType /\ OnceInv /\ LossInv /\ FlushInv /\ PieceInv /\ [LogsNext]_logVars =>
    FlushInv' /\ PieceInv'
<1>1. FlushInv /\ PieceInv /\ UNCHANGED logVars => FlushInv' /\ PieceInv'
  BY DEF logVars, FlushInv, PieceInv, InOnePiece, Sound, RaisedUpTo, Flushing
<1> QED
  BY <1>1, PieceLog, PieceSteps, LogsCases


-----------------------------------------------------------------------------
(* PythonLogs: a reader of the log descriptor.                             *)

\* b is the last byte that the writer took of its line.
Ends(logged, b) == b.place = logged[b.line].kept

\* The n-th byte of the log descriptor follows the one before it, or is the first
\* of its line and that one the last of a line before it.
FollowsAt(logged, stream, n) ==
  /\ IsIn(logged, stream[n], Sys)
  /\ \/ /\ stream[n].place = 1
        /\ n > 1 => Ends(logged, stream[n - 1]) /\ stream[n - 1].line < stream[n].line
     \/ n > 1 /\ stream[n - 1] = [line |-> stream[n].line, place |-> stream[n].place - 1]

Follows(logged, stream) ==
  /\ \A n \in DOMAIN stream : FollowsAt(logged, stream, n)
  /\ stream # <<>> => Ends(logged, stream[Len(stream)])

\* What arrived on the log descriptor and what its writer holds.
SysBytes == pipe["syslog"] \o buffer[Sys]

SysInv ==
  /\ Follows(lines, SysBytes)
  /\ current[Sys] \in DOMAIN lines /\ lines[current[Sys]].sink = Sys
       /\ lines[current[Sys]].kept > 0 =>
       SysBytes # <<>> /\ SysBytes[Len(SysBytes)].line = current[Sys]
  /\ \A i \in DOMAIN lines : lines[i].sink = Sys => lines[i].size = Header + lines[i].announced

\* Lines that change only where the runtime does not write.
LEMMA FollowsSame ==
  ASSUME NEW logged, NEW more, NEW stream \in Seq(ByteType), Follows(logged, stream),
         \A i \in DOMAIN logged : logged[i].sink = Sys => i \in DOMAIN more /\ more[i] = logged[i]
  PROVE  Follows(more, stream)
<1>0. Len(stream) \in Nat /\ DOMAIN stream = 1 .. Len(stream)
  OBVIOUS
<1>1. \A b : IsIn(logged, b, Sys) => IsIn(more, b, Sys) /\ more[b.line] = logged[b.line]
  BY DEF IsIn
<1>2. \A n \in DOMAIN stream :
        IsIn(more, stream[n], Sys) /\ more[stream[n].line] = logged[stream[n].line]
  BY <1>1 DEF Follows, FollowsAt
<1>3. ASSUME NEW n \in DOMAIN stream PROVE FollowsAt(more, stream, n)
  <2>1. n > 1 => n - 1 \in DOMAIN stream
    BY <1>0
  <2>2. n > 1 => (Ends(logged, stream[n - 1]) <=> Ends(more, stream[n - 1]))
    BY <1>2, <2>1 DEF Ends
  <2> QED
    BY <1>2, <2>2 DEF Follows, FollowsAt
<1>4. stream # <<>> => Ends(more, stream[Len(stream)])
  <2>1. stream # <<>> => Len(stream) \in DOMAIN stream
    BY <1>0
  <2> QED
    BY <1>2, <2>1 DEF Follows, Ends
<1> QED
  BY <1>3, <1>4 DEF Follows

\* The runtime's writer takes k bytes more of its last line c.
LEMMA FollowsMore ==
  ASSUME NEW logged, NEW more, NEW c \in DOMAIN logged, c \in Nat, Grown(logged, more, c),
         logged[c].sink = Sys, NEW k \in Nat \ {0}, more[c].kept = logged[c].kept + k,
         \A i \in DOMAIN logged : i \in Nat /\ (logged[i].sink = Sys => i <= c),
         NEW stream \in Seq(ByteType), NEW new \in Seq(ByteType), Len(new) = k,
         \A i \in 1 .. k : new[i] = [line |-> c, place |-> logged[c].kept + i],
         Follows(logged, stream),
         logged[c].kept > 0 => stream # <<>> /\ stream[Len(stream)].line = c
  PROVE  Follows(more, stream \o new)
<1> DEFINE both == stream \o new
           L == Len(stream)
           kept == logged[c].kept
<1>0. /\ L \in Nat /\ k \in Nat /\ k > 0 /\ DOMAIN stream = 1 .. L /\ Len(both) = L + k
      /\ DOMAIN both = 1 .. L + k
      /\ \A i \in 1 .. L : both[i] = stream[i]
      /\ \A i \in 1 .. k : both[L + i] = new[i]
  <2>1. k \in Nat
    OBVIOUS
  <2>2. /\ both \in Seq(ByteType) /\ Len(both) = L + k
        /\ \A i \in 1 .. L : both[i] = stream[i]
        /\ \A i \in 1 .. k : both[L + i] = new[i]
    BY <2>1, Joined
  <2> HIDE DEF both
  <2> QED
    BY <2>2
<1> HIDE DEF both
<1>1. /\ kept \in Nat /\ kept = logged[c].kept /\ more[c].kept = kept + k /\ c \in DOMAIN more /\ more[c].sink = Sys
      /\ \A i \in 1 .. k : new[i] = [line |-> c, place |-> kept + i]
  BY DEF Grown
<1>a. /\ stream # <<>> <=> L # 0
      /\ stream # <<>> => Ends(logged, stream[L])
      /\ kept > 0 => stream # <<>> /\ stream[L].line = c
  BY DEF Follows
<1>2. \A b : IsIn(logged, b, Sys) =>
        /\ IsIn(more, b, Sys) /\ b.line <= c /\ b.line \in Nat
        /\ (b.line # c /\ Ends(logged, b) => Ends(more, b))
  <2> SUFFICES ASSUME NEW b, IsIn(logged, b, Sys)
               PROVE  /\ IsIn(more, b, Sys) /\ b.line <= c /\ b.line \in Nat
                      /\ (b.line # c /\ Ends(logged, b) => Ends(more, b))
    OBVIOUS
  <2>1. /\ b.line \in DOMAIN logged /\ b.line <= c /\ b.line \in Nat
        /\ b.line \in DOMAIN more /\ more[b.line].sink = Sys
    BY DEF IsIn, Grown
  <2>2. b.line # c => more[b.line] = logged[b.line]
    BY <2>1 DEF Grown
  <2>3. b.place \in 1 .. more[b.line].kept
    <3>1. CASE b.line = c
      BY <1>1, <3>1 DEF IsIn
    <3>2. CASE b.line # c
      BY <2>2, <3>2 DEF IsIn
    <3> QED
      BY <3>1, <3>2
  <2> QED
    BY <2>1, <2>2, <2>3 DEF IsIn, Ends
<1> HIDE DEF L, kept
<1>3. \A n \in 1 .. L : FollowsAt(logged, stream, n)
  BY <1>0 DEF Follows
<1>4. \A i \in 1 .. k : both[L + i] = [line |-> c, place |-> kept + i] /\ IsIn(more, both[L + i], Sys)
  <2> SUFFICES ASSUME NEW i \in 1 .. k
               PROVE  both[L + i] = [line |-> c, place |-> kept + i] /\ IsIn(more, both[L + i], Sys)
    OBVIOUS
  <2>1. both[L + i] = [line |-> c, place |-> kept + i]
    BY <1>0, <1>1
  <2>2. kept + i \in 1 .. kept + k
    BY <1>1
  <2> QED
    BY <1>1, <2>1, <2>2 DEF IsIn
<1>5. ASSUME NEW n \in 1 .. L PROVE FollowsAt(more, both, n)
  <2>1. both[n] = stream[n] /\ (n > 1 => n - 1 \in 1 .. L /\ both[n - 1] = stream[n - 1])
    <3>1. n > 1 => n - 1 \in 1 .. L
      BY ONLY <1>0
    <3> QED
      BY <1>0, <3>1
  <2>2. IsIn(logged, stream[n], Sys)
    BY <1>3 DEF FollowsAt
  <2>3. IsIn(more, stream[n], Sys) /\ stream[n].line <= c
    BY <1>2, <2>2
  <2>4. n > 1 /\ Ends(logged, stream[n - 1]) /\ stream[n - 1].line < stream[n].line =>
          Ends(more, stream[n - 1])
    <3> SUFFICES ASSUME n > 1, Ends(logged, stream[n - 1]), stream[n - 1].line < stream[n].line
                 PROVE  Ends(more, stream[n - 1])
      OBVIOUS
    <3>1. IsIn(logged, stream[n - 1], Sys)
      BY <1>3, <2>1 DEF FollowsAt
    <3>2. stream[n - 1].line \in Nat /\ stream[n].line \in Nat
      BY <1>2, <2>2, <3>1
    <3>3. stream[n - 1].line # c
      BY <2>3, <3>2
    <3> QED
      BY <1>2, <3>1, <3>3
  <2> QED
    BY <1>3, <2>1, <2>3, <2>4 DEF FollowsAt
<1>6. FollowsAt(more, both, L + 1)
  <2>1. both[L + 1] = [line |-> c, place |-> kept + 1] /\ IsIn(more, both[L + 1], Sys)
    BY <1>4
  <2>2. stream # <<>> => /\ L \in 1 .. L /\ both[L] = stream[L] /\ (L + 1) - 1 = L
                         /\ IsIn(logged, stream[L], Sys) /\ Ends(logged, stream[L])
                         /\ stream[L] \in ByteType
    <3>1. stream # <<>> => L \in 1 .. L /\ (L + 1) - 1 = L
      BY <1>0, <1>a
    <3>2. L \in 1 .. L => stream[L] \in ByteType
      BY <1>0
    <3> QED
      BY <1>0, <1>3, <1>a, <3>1, <3>2 DEF FollowsAt
  <2>3. CASE kept = 0
    <3>1. both[L + 1].place = 1 /\ both[L + 1].line = c
      BY <2>1, <2>3
    <3>2. ASSUME L + 1 > 1
          PROVE  Ends(more, both[(L + 1) - 1]) /\ both[(L + 1) - 1].line < c
      <4>1. stream # <<>>
        BY <1>0, <1>a, <3>2
      <4>2. stream[L].line # c
        <5>1. stream[L].place \in 1 .. logged[stream[L].line].kept
              /\ stream[L].place = logged[stream[L].line].kept
          BY <2>2, <4>1 DEF IsIn, Ends
        <5>2. stream[L].place # 0
          BY <5>1
        <5> QED
          BY <1>1, <2>3, <5>1, <5>2
      <4>3. stream[L].line <= c /\ stream[L].line \in Nat /\ Ends(more, stream[L])
        BY <1>2, <2>2, <4>1, <4>2
      <4> QED
        BY <2>2, <4>1, <4>2, <4>3
    <3> QED
      BY <2>1, <3>1, <3>2 DEF FollowsAt
  <2>4. CASE kept # 0
    <3>1. stream # <<>> /\ stream[L].line = c
      BY <1>1, <1>a, <2>4
    <3>2. stream[L].place = kept
      BY <1>1, <2>2, <3>1 DEF Ends
    <3>3. stream[L] = [line |-> c, place |-> kept]
      BY <2>2, <3>1, <3>2 DEF ByteType
    <3>4. both[(L + 1) - 1] = [line |-> both[L + 1].line, place |-> both[L + 1].place - 1]
      BY <1>1, <2>1, <2>2, <3>1, <3>3
    <3> QED
      BY <1>0, <1>a, <2>1, <2>2, <3>1, <3>4 DEF FollowsAt
  <2> QED
    BY <2>3, <2>4
<1>7. ASSUME NEW i \in 2 .. k PROVE FollowsAt(more, both, L + i)
  <2>1. i \in 1 .. k /\ i - 1 \in 1 .. k /\ (L + i) - 1 = L + (i - 1) /\ L + i > 1
    BY <1>0
  <2>2. both[L + i] = [line |-> c, place |-> kept + i] /\ IsIn(more, both[L + i], Sys)
    BY <1>4, <2>1
  <2>3. both[L + (i - 1)] = [line |-> c, place |-> kept + (i - 1)]
    BY <1>4, <2>1
  <2>4. kept + (i - 1) = (kept + i) - 1
    <3>1. kept \in Int /\ i \in Int
      BY <1>0, <1>1
    <3> QED
      BY ONLY <3>1
  <2> QED
    BY <2>1, <2>2, <2>3, <2>4 DEF FollowsAt
<1>8. \A n \in DOMAIN both : FollowsAt(more, both, n)
  <2> SUFFICES ASSUME NEW n \in DOMAIN both PROVE FollowsAt(more, both, n)
    OBVIOUS
  <2>1. n \in 1 .. L \/ n = L + 1 \/ n - L \in 2 .. k
    BY <1>0
  <2>2. ASSUME n - L \in 2 .. k PROVE FollowsAt(more, both, n)
    <3>1. n = L + (n - L)
      BY <1>0
    <3> QED
      BY <1>7, <2>2, <3>1
  <2> QED
    BY <1>5, <1>6, <2>1, <2>2
<1>9. Ends(more, both[Len(both)])
  <2>1. both[Len(both)] = [line |-> c, place |-> kept + k]
    BY <1>0, <1>4
  <2> QED
    BY <1>1, <2>1 DEF Ends
<1> QED
  BY <1>8, <1>9 DEF Follows, both

\* What two sequences start with.
LEMMA Starts ==
  ASSUME NEW T, NEW a \in Seq(T), NEW b \in Seq(T)
  PROVE  \A i \in 1 .. Len(a) : i \in DOMAIN (a \o b) /\ (a \o b)[i] = a[i]
OBVIOUS

\* k more elements make a sequence longer.
LEMMA Longer ==
  ASSUME NEW T, NEW a \in Seq(T), NEW new \in Seq(T), Len(new) # 0
  PROVE  a \o new # <<>> /\ (a \o new)[Len(a \o new)] = new[Len(new)]
OBVIOUS

LEMMA SysInit == LogsInit => SysInv
<1> SUFFICES ASSUME LogsInit PROVE SysInv
  OBVIOUS
<1>1. lines = <<>> /\ pipe["syslog"] = <<>> /\ buffer[Sys] = <<>>
  BY DEF LogsInit, Sinks
<1>2. SysBytes = <<>>
  BY <1>1 DEF SysBytes
<1> QED
  BY <1>1, <1>2 DEF SysInv, Follows

LEMMA SysBytesType == LogsType => SysBytes \in Seq(ByteType)
<1> SUFFICES ASSUME LogsType PROVE SysBytes \in Seq(ByteType)
  OBVIOUS
<1>1. pipe["syslog"] \in Seq(ByteType) /\ buffer[Sys] \in Seq(ByteType)
  BY DEF LogsType, Sinks
<1> QED
  BY <1>1, Concatenation DEF SysBytes

LEMMA SysLog ==
  ASSUME LogsType, SysInv, NEW s \in Sinks, NEW m \in Messages, Log(s, m)
  PROVE  SysInv'
<1> DEFINE e == [sink |-> s, announced |-> Announced(s, m), size |-> Size(s, m), kept |-> 0]
           N == Len(lines) + 1
<1>1. /\ e.sink = s /\ e.kept = 0 /\ (s = Sys => e.size = Header + e.announced)
      /\ Len(lines) \in Nat /\ DOMAIN lines = 1 .. Len(lines) /\ DOMAIN lines' = 1 .. N
      /\ \A i \in DOMAIN lines : i \in DOMAIN lines' /\ lines'[i] = lines[i]
      /\ lines'[N] = e /\ current'[s] = N
      /\ \A t \in Sinks : t # s => current'[t] = current[t]
      /\ buffer' = buffer /\ pipe' = pipe
  BY LogAppends
<1> HIDE DEF e, N
<1>2. SysBytes' = SysBytes /\ SysBytes \in Seq(ByteType)
  BY <1>1, SysBytesType DEF SysBytes
<1>3. Follows(lines', SysBytes)
  BY <1>1, <1>2, FollowsSame DEF SysInv
<1>4. \A i \in DOMAIN lines' : i = N \/ i \in DOMAIN lines
  BY <1>1 DEF N
<1>5. ASSUME current'[Sys] \in DOMAIN lines', lines'[current'[Sys]].sink = Sys,
             lines'[current'[Sys]].kept > 0
      PROVE  SysBytes # <<>> /\ SysBytes[Len(SysBytes)].line = current'[Sys]
  <2>1. current'[Sys] # N
    BY <1>1, <1>5
  <2>2. current'[Sys] \in DOMAIN lines /\ s # Sys
    BY <1>1, <1>4, <1>5, <2>1
  <2>3. current'[Sys] = current[Sys]
    BY <1>1, <2>2 DEF Sinks
  <2> QED
    BY <1>1, <1>5, <2>2, <2>3 DEF SysInv
<1>6. \A i \in DOMAIN lines' :
        lines'[i].sink = Sys => lines'[i].size = Header + lines'[i].announced
  BY <1>1, <1>4 DEF SysInv
<1> QED
  BY <1>2, <1>3, <1>5, <1>6 DEF SysInv

LEMMA SysSteps ==
  ASSUME LogsType, SysInv, NEW s \in Sinks, Steps(s)
  PROVE  SysInv'
<1> DEFINE c == current[s]
           kept == lines[c].kept
<1>1. phase[s] # "idle" /\ current' = current
  BY StepMoves
<1>2. PICK k \in 0 .. lines[c].size - lines[c].kept : \E j \in 0 .. Len(buffer[s]) + k : Moves(s, k, j)
  BY StepMoves
<1>3. PICK j \in 0 .. Len(buffer[s]) + k : Moves(s, k, j)
  BY <1>2
<1> DEFINE new == Bytes(c, kept, kept + k)
           whole == buffer[s] \o new
<1>4. /\ c \in DOMAIN lines /\ c \in Nat /\ kept \in Nat /\ k \in Nat
      /\ new \in Seq(ByteType) /\ Len(new) = k
      /\ \A i \in 1 .. k : new[i] = [line |-> c, place |-> kept + i]
      /\ whole \in Seq(ByteType) /\ Len(whole) = Len(buffer[s]) + k
      /\ (k = 0 => whole = buffer[s])
  BY <1>1, <1>2, WholeType
<1>5. /\ lines' = [lines EXCEPT ![c].kept = @ + k]
      /\ pipe' = [pipe EXCEPT ![PipeOf(s)] = @ \o SubSeq(whole, 1, j)]
      /\ buffer' = [buffer EXCEPT ![s] = SubSeq(whole, j + 1, Len(whole))]
  BY <1>3 DEF Moves
<1> HIDE DEF new, whole
<1>6. /\ DOMAIN lines' = DOMAIN lines
      /\ \A i \in DOMAIN lines :
           /\ lines'[i].sink = lines[i].sink /\ lines'[i].announced = lines[i].announced
           /\ lines'[i].size = lines[i].size
           /\ i # c => lines'[i] = lines[i]
      /\ lines[c].sink = s
  BY StepEffect
<1>7. lines'[c].kept = kept + k
  <2>1. lines[c] \in LineType
    BY <1>4 DEF LogsType
  <2> QED
    BY <1>4, <1>5, <2>1 DEF LineType
<1>8. \A i \in DOMAIN lines' : lines'[i].sink = Sys => lines'[i].size = Header + lines'[i].announced
  BY <1>6 DEF SysInv
<1>9. Sys \in Sinks /\ pipe["syslog"] \in Seq(ByteType) /\ buffer[Sys] \in Seq(ByteType)
      /\ buffer \in [Sinks -> Seq(ByteType)] /\ SysBytes \in Seq(ByteType)
  BY SysBytesType DEF LogsType, Sinks
<1>10. CASE s # Sys
  <2>1. PipeOf(s) = "stdout" /\ pipe'["syslog"] = pipe["syslog"] /\ buffer'[Sys] = buffer[Sys]
    BY <1>5, <1>9, <1>10 DEF PipeOf, LogsType
  <2>2. SysBytes' = SysBytes
    BY <2>1 DEF SysBytes
  <2>3. \A i \in DOMAIN lines : lines[i].sink = Sys => i \in DOMAIN lines' /\ lines'[i] = lines[i]
    BY <1>6, <1>10
  <2>4. Follows(lines', SysBytes)
    BY <1>9, <2>3, FollowsSame DEF SysInv
  <2>5. current'[Sys] \in DOMAIN lines' /\ lines'[current'[Sys]].sink = Sys
          /\ lines'[current'[Sys]].kept > 0 =>
          SysBytes # <<>> /\ SysBytes[Len(SysBytes)].line = current'[Sys]
    <3>1. CASE current[Sys] = c
      <4>1. PICK d \in DOMAIN lines : d = current[Sys] /\ lines[d].sink = s
        BY <1>4, <1>6, <3>1
      <4> QED
        BY <1>1, <1>6, <1>10, <3>1 DEF SysInv
    <3>2. CASE current[Sys] # c
      BY <1>1, <1>6, <3>2 DEF SysInv
    <3> QED
      BY <3>1, <3>2
  <2> QED
    BY <1>8, <2>2, <2>4, <2>5 DEF SysInv
<1>11. CASE s = Sys
  <2>1. SysBytes' = SysBytes \o new
    <3>1. /\ pipe'["syslog"] = pipe["syslog"] \o SubSeq(whole, 1, j)
          /\ buffer'[Sys] = SubSeq(whole, j + 1, Len(whole))
      BY <1>5, <1>9, <1>11 DEF PipeOf, LogsType
    <3>2. SysBytes' = (pipe["syslog"] \o SubSeq(whole, 1, j)) \o SubSeq(whole, j + 1, Len(whole))
      BY <3>1 DEF SysBytes
    <3>3. j \in 0 .. Len(whole)
      BY <1>4
    <3> DEFINE a == pipe["syslog"]
               b == buffer[Sys]
    <3>4. whole = b \o new /\ SysBytes = a \o b
      BY <1>11 DEF whole, SysBytes
    <3>5. a \in Seq(ByteType) /\ b \in Seq(ByteType) /\ new \in Seq(ByteType)
      BY <1>4, <1>9
    <3>6. SysBytes' = (a \o SubSeq(whole, 1, j)) \o SubSeq(whole, j + 1, Len(whole))
      BY <3>2
    <3> HIDE DEF a, b
    <3>7. (a \o SubSeq(whole, 1, j)) \o SubSeq(whole, j + 1, Len(whole)) = a \o whole
      BY <1>4, <3>3, <3>5, Rejoined
    <3>8. a \o (b \o new) = (a \o b) \o new
      BY ONLY <3>5, Associates
    <3> QED
      BY <3>4, <3>6, <3>7, <3>8
  <2>2. CASE k = 0
    <3>1. SysBytes' = SysBytes
      BY <1>4, <1>9, <2>1, <2>2
    <3>2. lines'[c].kept = kept
      BY <1>4, <1>7, <2>2
    <3>3. \A i \in DOMAIN lines : i \in DOMAIN lines' /\ lines'[i] = lines[i]
      <4>1. lines'[c] = lines[c]
        <5>1. lines[c] \in LineType
          BY <1>4 DEF LogsType
        <5>2. lines'[c] = [lines[c] EXCEPT !.kept = @ + 0]
          BY <1>4, <1>5, <2>2 DEF LogsType
        <5> QED
          BY <1>4, <5>1, <5>2 DEF LineType
      <4> QED
        BY <1>6, <4>1
    <3>4. Follows(lines', SysBytes)
      BY <1>9, <3>3, FollowsSame DEF SysInv
    <3> QED
      BY <1>1, <1>6, <1>8, <3>1, <3>3, <3>4 DEF SysInv
  <2>3. CASE k # 0
    <3>1. Grown(lines, lines', c)
      <4>1. lines'[c].kept \in Nat /\ lines[c].kept <= lines'[c].kept
        BY <1>4, <1>7
      <4> QED
        BY <1>4, <1>6, <4>1 DEF Grown
    <3>2. \A i \in DOMAIN lines : i \in Nat /\ (lines[i].sink = Sys => i <= c)
      BY <1>9, <1>11 DEF LogsType
    <3>3. kept > 0 => SysBytes # <<>> /\ SysBytes[Len(SysBytes)].line = c
      BY <1>4, <1>6, <1>11 DEF SysInv
    <3>4. k \in Nat \ {0} /\ Follows(lines, SysBytes) /\ lines[c].sink = Sys
      BY <1>4, <1>6, <1>11, <2>3 DEF SysInv
    <3>5. Follows(lines', SysBytes \o new)
      BY <1>4, <1>7, <1>9, <3>1, <3>2, <3>3, <3>4, FollowsMore
    <3>6. SysBytes \o new # <<>> /\ (SysBytes \o new)[Len(SysBytes \o new)].line = c
      <4>1. SysBytes \in Seq(ByteType) /\ new \in Seq(ByteType) /\ Len(new) # 0
            /\ new[Len(new)].line = c
        BY <1>4, <1>9, <3>4
      <4> QED
        BY ONLY <4>1, Longer
    <3> QED
      BY <1>1, <1>8, <1>11, <2>1, <3>5, <3>6 DEF SysInv
  <2> QED
    BY <2>2, <2>3
<1> QED
  BY <1>10, <1>11

LEMMA SysStep == LogsType /\ SysInv /\ [LogsNext]_logVars => SysInv'
<1>1. SysInv /\ UNCHANGED logVars => SysInv'
  BY DEF logVars, SysInv, SysBytes
<1> QED
  BY <1>1, SysLog, SysSteps, LogsCases

\* Whatever writes fail, are split and come between: a reader of the log descriptor
\* loses step only behind a line of which a write dropped the end, and one
\* of stdout only at a line that is cut, too long for one raw write, or of a sink
\* that raised.
THEOREM ReadersKeepStep == LogsSpec => []FramesInStep
<1>1. LogsType /\ SysInv =>
        LET stream == pipe["syslog"]
        IN  \A n \in DOMAIN stream :
              \/ InStep(stream, n)
              \/ /\ n > 1 /\ stream[n].place = 1
                 /\ lines[stream[n - 1].line].kept < lines[stream[n - 1].line].size
  <2> SUFFICES ASSUME LogsType, SysInv, NEW n \in DOMAIN pipe["syslog"],
                      ~ /\ n > 1 /\ pipe["syslog"][n].place = 1
                        /\ lines[pipe["syslog"][n - 1].line].kept
                             < lines[pipe["syslog"][n - 1].line].size
               PROVE  InStep(pipe["syslog"], n)
    OBVIOUS
  <2> DEFINE stream == pipe["syslog"]
             b == stream[n]
             a == stream[n - 1]
  <2>1. stream \in Seq(ByteType) /\ buffer[Sys] \in Seq(ByteType) /\ n \in 1 .. Len(stream)
    BY DEF LogsType, Sinks
  <2>2. \A i \in 1 .. Len(stream) : i \in DOMAIN SysBytes /\ SysBytes[i] = stream[i]
    <3>1. pipe["syslog"] \in Seq(ByteType) /\ buffer[Sys] \in Seq(ByteType)
      BY <2>1
    <3> QED
      BY ONLY <3>1, Starts DEF SysBytes
  <2>3. n > 1 => n - 1 \in 1 .. Len(stream)
    BY <2>1
  <2>4. FollowsAt(lines, SysBytes, n) /\ (n > 1 => FollowsAt(lines, SysBytes, n - 1))
    BY <2>1, <2>2, <2>3 DEF SysInv, Follows
  <2>5. IsIn(lines, b, Sys) /\ (n > 1 => IsIn(lines, a, Sys))
    BY <2>1, <2>2, <2>3, <2>4 DEF FollowsAt
  <2>6. \/ b.place = 1 /\ (n > 1 => Ends(lines, a))
        \/ n > 1 /\ a = [line |-> b.line, place |-> b.place - 1]
    BY <2>1, <2>2, <2>3, <2>4 DEF FollowsAt
  <2>7. \A i \in DOMAIN lines : lines[i].sink = Sys =>
          /\ lines[i].kept \in Nat /\ lines[i].size \in Nat /\ lines[i].kept <= lines[i].size
          /\ lines[i].size = Header + lines[i].announced
    <3>1. \A i \in DOMAIN lines : lines[i] \in LineType /\ lines[i].kept <= lines[i].size
      BY DEF LogsType
    <3> QED
      BY <3>1 DEF LineType, SysInv
  <2>8. n > 1 => (EndsFrame(a) <=> a.place = lines[a.line].size)
    BY <2>5, <2>7, LogsAssumption DEF EndsFrame, IsIn
  <2>9. n > 1 => /\ a.place \in Nat /\ a.place > 0 /\ a.place <= lines[a.line].kept
                 /\ lines[a.line].kept \in Nat /\ lines[a.line].size \in Nat
                 /\ lines[a.line].kept <= lines[a.line].size
    BY <2>5, <2>7 DEF IsIn
  <2>10. b.place \in Nat /\ b.place > 0 /\ b.place <= lines[b.line].size
    BY <2>5, <2>7 DEF IsIn
  <2>11. n \in Nat /\ n >= 1
    BY <2>1
  <2> HIDE DEF a, b, stream
  <2>12. ~(n > 1 /\ b.place = 1 /\ lines[a.line].kept < lines[a.line].size)
    BY DEF a, b, stream
  <2>13. CASE b.place = 1
    <3>1. n > 1 => Ends(lines, a)
      BY <2>6, <2>9, <2>13
    <3>2. n = 1 \/ EndsFrame(a)
      BY <2>8, <2>9, <2>11, <2>12, <2>13, <3>1 DEF Ends
    <3> QED
      BY <2>13, <3>2 DEF InStep, a, b, stream
  <2>14. CASE b.place # 1
    <3>1. n > 1 /\ a = [line |-> b.line, place |-> b.place - 1]
      BY <2>6, <2>14
    <3>2. a.line = b.line /\ b.place = a.place + 1
      BY <2>10, <3>1
    <3>3. ~EndsFrame(a) /\ n # 1
      BY <2>8, <2>9, <2>10, <3>1, <3>2
    <3> QED
      BY <2>14, <3>2, <3>3 DEF InStep, a, b, stream
  <2> QED
    BY <2>13, <2>14
<1>2. LogsType /\ OnceInv /\ PieceInv =>
        LET stream == pipe["stdout"]
        IN  \A n \in DOMAIN stream :
              Sound(stream[n].line) /\ (n > 1 => Sound(stream[n - 1].line)) => InStep(stream, n)
  <2> SUFFICES ASSUME LogsType, OnceInv, PieceInv, NEW n \in DOMAIN pipe["stdout"],
                      Sound(pipe["stdout"][n].line),
                      n > 1 => Sound(pipe["stdout"][n - 1].line)
               PROVE  InStep(pipe["stdout"], n)
    OBVIOUS
  <2> DEFINE stream == pipe["stdout"]
             b == stream[n]
             a == stream[n - 1]
             size(i) == lines[i].size
  <2>1. stream \in Seq(ByteType) /\ n \in 1 .. Len(stream) /\ DOMAIN stream = 1 .. Len(stream)
        /\ Len(stream) \in Nat
    BY DEF LogsType
  <2>2. n > 1 => n - 1 \in DOMAIN stream
    BY <2>1
  <2>3. \A i \in DOMAIN stream : \E t \in Sinks : PipeOf(t) = "stdout" /\ IsIn(lines, stream[i], t)
    <3>1. Stdout \in Sinks /\ PipeOf(Stdout) = "stdout"
      BY LogsAssumption DEF Sinks, PipeOf
    <3> QED
      BY <3>1 DEF OnceInv, OnceIn, Known
  <2>4. \A i \in DOMAIN lines : lines[i].kept <= lines[i].size /\ lines[i].kept \in Nat /\ lines[i].size \in Nat
    <3>1. \A i \in DOMAIN lines : lines[i] \in LineType /\ lines[i].kept <= lines[i].size
      BY DEF LogsType
    <3> QED
      BY <3>1 DEF LineType
  <2>5. \A i \in DOMAIN stream :
          /\ stream[i].line \in DOMAIN lines /\ lines[stream[i].line].sink \in Framed \cup {Stdout}
          /\ stream[i].place \in 1 .. lines[stream[i].line].size
    <3> SUFFICES ASSUME NEW i \in DOMAIN stream
                 PROVE  /\ stream[i].line \in DOMAIN lines
                        /\ lines[stream[i].line].sink \in Framed \cup {Stdout}
                        /\ stream[i].place \in 1 .. lines[stream[i].line].size
      OBVIOUS
    <3>1. PICK t \in Sinks : PipeOf(t) = "stdout" /\ IsIn(lines, stream[i], t)
      BY <2>3
    <3>2. t \in Framed \cup {Stdout}
      BY <3>1 DEF Sinks, PipeOf
    <3>3. stream[i].line \in DOMAIN lines /\ lines[stream[i].line].sink = t
          /\ stream[i].place \in 1 .. lines[stream[i].line].kept
      BY <3>1 DEF IsIn
    <3> QED
      BY <2>4, <3>2, <3>3
  <2>6. \A i \in DOMAIN stream : Sound(stream[i].line) =>
          /\ EndsFrame(stream[i]) <=> stream[i].place = lines[stream[i].line].size
          /\ InOnePiece(stream, i, lines[stream[i].line].size)
    BY <2>5, LogsAssumption DEF EndsFrame, Sound, PieceInv
  <2>7. n \in Nat /\ n >= 1 /\ stream[n] \in ByteType /\ (n > 1 => stream[n - 1] \in ByteType)
    BY <2>1, <2>2
  <2> HIDE DEF stream
  <2>8. Sound(b.line) /\ (n > 1 => Sound(a.line))
    BY DEF stream
  <2>9. /\ b.place \in 1 .. lines[b.line].size /\ lines[b.line].size \in Nat
        /\ n > 1 => a.place \in 1 .. lines[a.line].size /\ lines[a.line].size \in Nat
    BY <2>1, <2>2, <2>4, <2>5
  <2>10. \A k \in 1 .. lines[b.line].size :
           /\ n - b.place + k \in DOMAIN stream
           /\ stream[n - b.place + k] = [line |-> b.line, place |-> k]
    BY <2>1, <2>6, <2>8 DEF InOnePiece
  <2>11. n > 1 => \A k \in 1 .. lines[a.line].size :
           /\ (n - 1) - a.place + k \in DOMAIN stream
           /\ stream[(n - 1) - a.place + k] = [line |-> a.line, place |-> k]
    BY <2>2, <2>6, <2>8 DEF InOnePiece
  <2> HIDE DEF a, b
  <2>12. CASE b.place = 1
    <3>1. ASSUME n > 1 PROVE EndsFrame(a)
      <4>1. ASSUME a.place # lines[a.line].size PROVE FALSE
        <5>1. a.place + 1 \in 1 .. lines[a.line].size
          BY <2>9, <3>1, <4>1
        <5>2. (n - 1) - a.place + (a.place + 1) = n
          BY <2>7, <2>9, <3>1
        <5>3. b = [line |-> a.line, place |-> a.place + 1]
          BY <2>11, <3>1, <5>1, <5>2 DEF b
        <5> QED
          BY <2>9, <2>12, <3>1, <5>3
      <4> QED
        BY <2>2, <2>6, <2>8, <3>1, <4>1 DEF a
    <3> QED
      BY <2>7, <2>12, <3>1 DEF InStep, a, b, stream
  <2>13. CASE b.place # 1
    <3>1. b.place - 1 \in 1 .. lines[b.line].size
      BY <2>9, <2>13
    <3>2. n - b.place + (b.place - 1) = n - 1
      BY <2>7, <2>9
    <3>3. n - 1 \in DOMAIN stream /\ a = [line |-> b.line, place |-> b.place - 1]
      BY <2>10, <3>1, <3>2 DEF a
    <3>4. n > 1
      BY <2>1, <3>3
    <3>5. a.line = b.line /\ b.place = a.place + 1
      BY <2>9, <3>3
    <3>6. ~EndsFrame(a)
      <4>1. a.place # lines[a.line].size
        BY <2>9, <3>5
      <4> QED
        BY <2>2, <2>6, <2>8, <3>4, <4>1 DEF a
    <3> QED
      BY <2>7, <2>13, <3>4, <3>5, <3>6 DEF InStep, a, b, stream
  <2> QED
    BY <2>12, <2>13
<1>3. LogsType /\ OnceInv /\ SysInv /\ PieceInv => FramesInStep
  BY <1>1, <1>2 DEF FramesInStep
<1> QED
  BY <1>3, LogsTypeInit, LogsTypeStep, LossInit, LossStep, OnceInit, OnceStep, PieceInit, PieceStep,
     SysInit, SysStep, PTL DEF LogsSpec

-----------------------------------------------------------------------------
(* PythonWsgi: counting.                                                   *)

\* How many of the first n numbers are in S.
Among(S, n) == Cardinality(S \cap (1 .. n))

LEMMA AmongFinite ==
  ASSUME NEW S, NEW n \in Nat
  PROVE  IsFiniteSet(S \cap (1 .. n)) /\ Among(S, n) \in Nat
<1>1. IsFiniteSet(1 .. n)
  BY FS_Interval
<1>2. IsFiniteSet(S \cap (1 .. n))
  BY <1>1, FS_Subset
<1> QED
  BY <1>2, FS_CardinalityType DEF Among

LEMMA AmongMore ==
  ASSUME NEW S, NEW n \in Nat
  PROVE  /\ Among(S, 0) = 0
         /\ Among(S, n + 1) = Among(S, n) + (IF n + 1 \in S THEN 1 ELSE 0)
<1>1. S \cap (1 .. 0) = {}
  OBVIOUS
<1>2. CASE n + 1 \in S
  <2>1. S \cap (1 .. n + 1) = (S \cap (1 .. n)) \cup {n + 1} /\ n + 1 \notin S \cap (1 .. n)
    BY <1>2
  <2>2. IsFiniteSet(S \cap (1 .. n))
    BY AmongFinite
  <2>3. Among(S, n + 1) = Among(S, n) + 1
    BY <2>1, <2>2, FS_AddElement DEF Among
  <2> QED
    BY <1>1, <1>2, <2>3, FS_EmptySet DEF Among
<1>3. CASE n + 1 \notin S
  <2>1. S \cap (1 .. n + 1) = S \cap (1 .. n)
    BY <1>3
  <2>2. Among(S, n) \in Nat
    BY AmongFinite
  <2> QED
    BY <1>1, <1>3, <2>1, <2>2, FS_EmptySet DEF Among
<1> QED
  BY <1>2, <1>3

LEMMA AmongRange ==
  ASSUME NEW S, NEW n \in Nat, NEW i \in 1 .. n, i \in S
  PROVE  Among(S, i) \in 1 .. Among(S, n)
<1>1. /\ IsFiniteSet(S \cap (1 .. n)) /\ IsFiniteSet(S \cap (1 .. i))
      /\ Among(S, i) \in Nat /\ Among(S, n) \in Nat
  BY AmongFinite
<1>2. S \cap (1 .. i) \subseteq S \cap (1 .. n) /\ i \in S \cap (1 .. i)
  OBVIOUS
<1>3. Among(S, i) <= Among(S, n)
  BY <1>1, <1>2, FS_Subset DEF Among
<1>4. Among(S, i) # 0
  BY <1>1, <1>2, FS_EmptySet DEF Among
<1> QED
  BY <1>1, <1>3, <1>4

\* Count of the model.
LEMMA CountIsAmong ==
  ASSUME NEW headers, NEW key, NEW n \in Nat
  PROVE  Count(headers, key, n) = Among({i \in Nat : headers[i].key = key}, n)
<1>1. {i \in 1 .. n : headers[i].key = key} = {i \in Nat : headers[i].key = key} \cap (1 .. n)
  OBVIOUS
<1> QED
  BY <1>1 DEF Count, Among

LEMMA CountMore ==
  ASSUME NEW headers, NEW key, NEW n \in Nat
  PROVE  /\ Count(headers, key, 0) = 0
         /\ Count(headers, key, n) \in Nat
         /\ headers[n + 1].key = key =>
              Count(headers, key, n + 1) = Count(headers, key, n) + 1
         /\ headers[n + 1].key # key =>
              Count(headers, key, n + 1) = Count(headers, key, n)
<1> DEFINE S == {i \in Nat : headers[i].key = key}
<1>1. n + 1 \in S <=> headers[n + 1].key = key
  OBVIOUS
<1>2. /\ Count(headers, key, 0) = Among(S, 0) /\ Count(headers, key, n) = Among(S, n)
      /\ Count(headers, key, n + 1) = Among(S, n + 1)
  BY CountIsAmong
<1> HIDE DEF S
<1>3. /\ Among(S, 0) = 0 /\ Among(S, n) \in Nat
      /\ Among(S, n + 1) = Among(S, n) + (IF n + 1 \in S THEN 1 ELSE 0)
  BY AmongMore, AmongFinite, Zenon
<1>4. n + 1 \in S => Among(S, n + 1) = Among(S, n) + 1
  BY <1>3
<1>5. n + 1 \notin S => Among(S, n + 1) = Among(S, n)
  BY <1>3
<1> QED
  BY <1>1, <1>2, <1>3, <1>4, <1>5, Zenon

LEMMA CountRange ==
  ASSUME NEW headers, NEW n \in Nat, NEW i \in 1 .. n
  PROVE  Count(headers, headers[i].key, i) \in 1 .. Count(headers, headers[i].key, n)
<1> DEFINE S == {j \in Nat : headers[j].key = headers[i].key}
<1>1. i \in S /\ i \in Nat
  OBVIOUS
<1>2. Count(headers, headers[i].key, i) = Among(S, i) /\ Count(headers, headers[i].key, n) = Among(S, n)
  BY <1>1, CountIsAmong
<1> HIDE DEF S
<1> QED
  BY <1>1, <1>2, AmongRange

-----------------------------------------------------------------------------
(* PythonWsgi: start_response.                                             *)

HeaderType == [key : Keys, value : Values]

LEMMA GroupedNone ==
  ASSUME NEW headers
  PROVE  NoHeaders \in [Keys -> Seq(Values)] /\ GroupedTo(NoHeaders, headers, 0)
<1>1. \A key : Count(headers, key, 0) = 0
  BY CountMore
<1>2. <<>> \in Seq(Values) /\ Len(<<>>) = 0
  OBVIOUS
<1> QED
  BY <1>1, <1>2 DEF NoHeaders, GroupedTo

\* A turn of the loop groups a header more.
LEMMA GroupedMore ==
  ASSUME NEW headers \in Seq(HeaderType), NEW n \in Nat, n < Len(headers),
         NEW groups \in [Keys -> Seq(Values)], GroupedTo(groups, headers, n)
  PROVE  LET header == headers[n + 1]
             more == [groups EXCEPT ![header.key] = Grouped(@, header.value)]
         IN  more \in [Keys -> Seq(Values)] /\ GroupedTo(more, headers, n + 1)
<1> DEFINE header == headers[n + 1]
           k == header.key
           v == header.value
           more == [groups EXCEPT ![k] = Grouped(@, v)]
<1>0. n + 1 \in 1 .. Len(headers) /\ n + 1 \in Nat /\ DOMAIN headers = 1 .. Len(headers)
  OBVIOUS
<1>1. k \in Keys /\ v \in Values
  <2>1. header \in HeaderType
    BY <1>0
  <2> HIDE DEF header
  <2> QED
    BY <2>1 DEF HeaderType
<1>2. headers[n + 1].key = k /\ headers[n + 1].value = v
  OBVIOUS
<1>3. more = [groups EXCEPT ![k] = Append(@, v)]
  BY DEF Grouped
<1> HIDE DEF k, v
<1>4. groups[k] \in Seq(Values) /\ Len(groups[k]) = Count(headers, k, n)
  BY <1>1 DEF GroupedTo
<1>b. /\ Count(headers, k, n + 1) = Count(headers, k, n) + 1
      /\ \A key : key # k => Count(headers, key, n + 1) = Count(headers, key, n)
  BY <1>2, CountMore, Zenon
<1>5. /\ Append(groups[k], v) \in Seq(Values) /\ Len(Append(groups[k], v)) = Len(groups[k]) + 1
      /\ Append(groups[k], v)[Len(groups[k]) + 1] = v
      /\ \A i \in 1 .. Len(groups[k]) : Append(groups[k], v)[i] = groups[k][i]
  BY <1>1, <1>4
<1>6. /\ more \in [Keys -> Seq(Values)] /\ more[k] = Append(groups[k], v)
      /\ \A key \in Keys \ {k} : more[key] = groups[key]
  BY <1>1, <1>3, <1>5
<1> HIDE DEF more
<1>7. ASSUME NEW key \in Keys PROVE Len(more[key]) = Count(headers, key, n + 1)
  <2>1. CASE key = k
    BY <1>b, <1>4, <1>5, <1>6, <2>1
  <2>2. CASE key # k
    <3>1. Count(headers, key, n + 1) = Count(headers, key, n)
      BY <1>b, <2>2
    <3>2. Len(groups[key]) = Count(headers, key, n)
      BY DEF GroupedTo
    <3> QED
      BY <1>6, <2>2, <3>1, <3>2
  <2> QED
    BY <2>1, <2>2
<1>8. ASSUME NEW i \in 1 .. n + 1
      PROVE  more[headers[i].key][Count(headers, headers[i].key, i)] = headers[i].value
  <2> DEFINE key == headers[i].key
             c == Count(headers, key, i)
  <2>0. key \in Keys
    <3>1. i \in 1 .. Len(headers)
      BY <1>0
    <3>2. headers[i] \in HeaderType
      BY <3>1
    <3> QED
      BY <3>2 DEF HeaderType
  <2>1. CASE i = n + 1
    <3>1. key = k /\ headers[i].value = v
      BY <1>2, <2>1
    <3>2. c = Count(headers, k, n) + 1
      BY <1>b, <2>1, <3>1
    <3> HIDE DEF key, c
    <3>3. c = Len(groups[k]) + 1
      BY <1>4, <3>2
    <3>4. more[key][c] = v
      BY <1>5, <1>6, <3>1, <3>3
    <3> QED
      BY <3>1, <3>4 DEF key, c
  <2>2. CASE i \in 1 .. n
    <3>1. c \in 1 .. Count(headers, key, n)
      BY <2>2, CountRange
    <3>2. groups[key][c] = headers[i].value
      BY <2>2 DEF GroupedTo
    <3> HIDE DEF key, c
    <3>3. CASE key = k
      <4>1. c \in 1 .. Len(groups[k])
        BY <1>4, <3>1, <3>3
      <4>2. more[key][c] = groups[key][c]
        BY <1>5, <1>6, <3>3, <4>1
      <4> QED
        BY <3>2, <4>2 DEF key, c
    <3>4. CASE key # k
      BY <1>6, <2>0, <3>2, <3>4 DEF key, c
    <3> QED
      BY <3>3, <3>4
  <2>3. i \in 1 .. n \/ i = n + 1
    OBVIOUS
  <2> QED
    BY <2>1, <2>2, <2>3
<1>9. GroupedTo(more, headers, n + 1)
  BY <1>7, <1>8 DEF GroupedTo
<1> QED
  BY <1>6, <1>9 DEF more, k, v

-----------------------------------------------------------------------------
(* PythonWsgi: get_environ.                                                *)

CallType == [kind : {"start", "write"}, status : Statuses \cup {0},
             headers : Responses \cup {<<>>}, piece : Pieces \cup {"none"}]

WsgiType ==
  /\ wsgiAt \in {"type", "environ", "app", "start", "answered"}
  /\ headersMap \in HeadersMaps
  /\ turn \in Nat
  /\ ctKey \in 0 .. Len(headersMap)
  /\ environ = [name \in EnvironNames |-> environ[name]]
  /\ written \in Seq(Pieces)
  /\ calls \in Seq(CallType)
  /\ result = [kind |-> result.kind, params |-> result.params, body |-> result.body]

\* The name in the environment of the i-th header.
Named(i) == NameOf[headersMap[i].name]

\* The first t headers are in the environment, as far as its names go.
EnvironTo(t, names) ==
  /\ \A i \in 1 .. t :
       /\ Named(i) \in names /\ i # ctKey
       /\ \A j \in 1 .. t : j > i /\ j # ctKey => Named(j) # Named(i)
       => environ[Named(i)] = headersMap[i].values
  /\ \A name \in names :
       (\A i \in 1 .. t : i # ctKey => Named(i) # name) => environ[name] = OsEnviron[name]

\* The names that headers decide before the handler's name is set and after.
Decided == EnvironNames \ {"CONTENT_TYPE"}
DecidedLast == Decided \ {FunctionHandler}

\* The last content type among the first turns is remembered, and replaced that
\* of the process when the other headers are added.
EnvInv ==
  /\ ctKey # 0 => headersMap[ctKey].name \in ContentTypes
  /\ wsgiAt \in {"type", "environ"} => turn <= Len(headersMap)
  /\ wsgiAt = "type" =>
       /\ ctKey <= turn
       /\ \A i \in 1 .. turn : headersMap[i].name \in ContentTypes => i <= ctKey
       /\ environ = [OsEnviron EXCEPT !["CONTENT_TYPE"] = OctetStream]
  /\ wsgiAt # "type" =>
       /\ \A i \in DOMAIN headersMap : headersMap[i].name \in ContentTypes => i <= ctKey
       /\ environ["CONTENT_TYPE"] =
            IF ctKey # 0 /\ headersMap[ctKey].values # <<>>
              THEN headersMap[ctKey].values ELSE OctetStream
       /\ wsgiAt = "environ" => EnvironTo(turn, Decided)
       /\ wsgiAt # "environ" =>
            environ[FunctionHandler] = Handler /\ EnvironTo(Len(headersMap), DecidedLast)

\* The headers of a request, and their names in the environment.
LEMMA SentHeaders ==
  ASSUME WsgiType
  PROVE  /\ Len(headersMap) \in Nat /\ DOMAIN headersMap = 1 .. Len(headersMap)
         /\ \A i \in 1 .. Len(headersMap) : Named(i) \in EnvironNames \ {"CONTENT_TYPE"}
<1>1. headersMap \in Seq([name : HeaderNames, values : Seq(Values)])
  BY WsgiAssumption DEF WsgiType
<1>2. ASSUME NEW i \in 1 .. Len(headersMap) PROVE headersMap[i].name \in HeaderNames
  <2>1. ASSUME NEW T, NEW s \in Seq(T), NEW k \in 1 .. Len(s) PROVE s[k] \in T
    OBVIOUS
  <2>2. headersMap[i] \in [name : HeaderNames, values : Seq(Values)]
    BY <1>1, <2>1
  <2> QED
    BY <2>2
<1>3. NameOf \in [HeaderNames -> EnvironNames \ {"CONTENT_TYPE"}]
  BY WsgiAssumption
<1> QED
  BY <1>1, <1>2, <1>3 DEF Named

LEMMA WsgiTypeInit == WsgiInit => WsgiType /\ EnvInv
<1> SUFFICES ASSUME WsgiInit PROVE WsgiType /\ EnvInv
  OBVIOUS
<1>1. headersMap \in HeadersMaps /\ turn = 0 /\ ctKey = 0 /\ wsgiAt = "type"
  BY DEF WsgiInit
<1>2. Len(headersMap) \in Nat
  <2>1. headersMap \in Seq([name : HeaderNames, values : Seq(Values)])
    BY <1>1, WsgiAssumption
  <2> QED
    BY <2>1
<1>3. environ = [OsEnviron EXCEPT !["CONTENT_TYPE"] = OctetStream]
  BY DEF WsgiInit
<1>4. environ = [name \in EnvironNames |-> environ[name]]
  BY <1>3, WsgiAssumption
<1>5. written \in Seq(Pieces) /\ calls \in Seq(CallType)
  BY DEF WsgiInit
<1>6. result = [kind |-> result.kind, params |-> result.params, body |-> result.body]
  BY DEF WsgiInit
<1>7. WsgiType
  <2>1. ctKey \in 0 .. Len(headersMap) /\ turn \in Nat
    BY <1>1, <1>2
  <2> QED
    BY <1>1, <1>4, <1>5, <1>6, <2>1 DEF WsgiType
<1>8. EnvInv
  <2>1. turn <= Len(headersMap) /\ ctKey <= turn /\ 1 .. turn = {}
    BY <1>1, <1>2
  <2> QED
    BY <1>1, <1>3, <2>1 DEF EnvInv
<1> QED
  BY <1>7, <1>8

\* The other actions leave the environment alone.
LEMMA EnvKept ==
  ASSUME EnvInv, wsgiAt \in {"app", "start", "answered"}, wsgiAt' \in {"app", "start", "answered"},
         UNCHANGED requestVars
  PROVE  EnvInv'
<1>1. headersMap' = headersMap /\ ctKey' = ctKey /\ environ' = environ
  BY DEF requestVars
<1>2. environ[FunctionHandler] = Handler /\ EnvironTo(Len(headersMap), DecidedLast)
  BY DEF EnvInv
<1>3. EnvironTo(Len(headersMap), DecidedLast)'
  BY <1>1, <1>2 DEF EnvironTo, Named, DecidedLast, Decided
<1> QED
  BY <1>1, <1>2, <1>3 DEF EnvInv

LEMMA EnvFind == ASSUME WsgiType, EnvInv, FindContentType PROVE EnvInv' /\ ctKey' \in 0 .. Len(headersMap)
<1>1. /\ wsgiAt = "type" /\ wsgiAt' = wsgiAt /\ headersMap' = headersMap /\ environ' = environ
      /\ turn < Len(headersMap) /\ turn' = turn + 1
      /\ ctKey' = IF headersMap[turn + 1].name \in ContentTypes THEN turn + 1 ELSE ctKey
  BY DEF FindContentType
<1>2. turn \in Nat /\ Len(headersMap) \in Nat /\ ctKey \in 0 .. turn /\ turn' <= Len(headersMap)
  BY <1>1, SentHeaders DEF WsgiType, EnvInv
<1>3. ctKey' \in 0 .. turn' /\ ctKey' \in 0 .. Len(headersMap) /\ ctKey' <= turn'
  BY <1>1, <1>2
<1>4. ctKey' # 0 => headersMap[ctKey'].name \in ContentTypes
  BY <1>1 DEF EnvInv
<1>5. ASSUME NEW i \in 1 .. turn', headersMap[i].name \in ContentTypes PROVE i <= ctKey'
  <2>1. CASE i = turn + 1
    BY <1>1, <1>2, <1>5, <2>1
  <2>2. CASE i # turn + 1
    <3>1. i \in 1 .. turn
      BY <1>1, <1>2, <2>2
    <3>2. i <= ctKey
      BY <1>1, <1>5, <3>1 DEF EnvInv
    <3> QED
      BY <1>1, <1>2, <3>1, <3>2
  <2> QED
    BY <2>1, <2>2
<1> QED
  BY <1>1, <1>2, <1>3, <1>4, <1>5 DEF EnvInv

LEMMA EnvPop == ASSUME WsgiType, EnvInv, PopContentType PROVE EnvInv'
<1>1. /\ wsgiAt = "type" /\ wsgiAt' = "environ" /\ headersMap' = headersMap /\ ctKey' = ctKey
      /\ turn = Len(headersMap) /\ turn' = 0
  BY DEF PopContentType
<1>2. environ = [OsEnviron EXCEPT !["CONTENT_TYPE"] = OctetStream]
  BY <1>1 DEF EnvInv
<1>3. "CONTENT_TYPE" \in DOMAIN OsEnviron /\ DOMAIN OsEnviron = EnvironNames
  BY WsgiAssumption
<1>4. /\ environ'["CONTENT_TYPE"] =
           IF ctKey # 0 /\ headersMap[ctKey].values # <<>>
             THEN headersMap[ctKey].values ELSE OctetStream
      /\ \A name \in EnvironNames \ {"CONTENT_TYPE"} : environ'[name] = OsEnviron[name]
  BY <1>2, <1>3 DEF PopContentType
<1>5. EnvironTo(0, Decided)'
  BY <1>4 DEF EnvironTo, Decided
<1>6. Len(headersMap) \in Nat /\ DOMAIN headersMap = 1 .. Len(headersMap)
  BY SentHeaders
<1> QED
  BY <1>1, <1>4, <1>5, <1>6 DEF EnvInv

LEMMA EnvAdd == ASSUME WsgiType, EnvInv, AddHeader PROVE EnvInv'
<1> DEFINE n == turn + 1
<1>1. /\ wsgiAt = "environ" /\ wsgiAt' = wsgiAt /\ headersMap' = headersMap /\ ctKey' = ctKey
      /\ turn < Len(headersMap) /\ turn' = n
      /\ IF n # ctKey THEN environ' = [environ EXCEPT ![Named(n)] = headersMap[n].values]
         ELSE environ' = environ
  BY DEF AddHeader, Named
<1>2. /\ turn \in Nat /\ Len(headersMap) \in Nat /\ n \in 1 .. Len(headersMap)
      /\ n \in Nat /\ turn' <= Len(headersMap)
      /\ Named(n) \in EnvironNames \ {"CONTENT_TYPE"}
  <2>1. turn \in Nat /\ Len(headersMap) \in Nat
    BY SentHeaders DEF WsgiType
  <2>2. n \in 1 .. Len(headersMap) /\ n \in Nat /\ turn' <= Len(headersMap)
    BY <1>1, <2>1
  <2> QED
    BY <2>1, <2>2, SentHeaders
<1>3. EnvironTo(turn, Decided) /\ environ = [name \in EnvironNames |-> environ[name]]
  BY <1>1 DEF EnvInv, WsgiType
<1>4. /\ n # ctKey => environ'[Named(n)] = headersMap[n].values
      /\ \A name \in EnvironNames : (n = ctKey \/ name # Named(n)) => environ'[name] = environ[name]
  BY <1>1, <1>2, <1>3
<1>5. \A i : Named(i)' = Named(i)
  BY <1>1 DEF Named
<1>6. \A i \in 1 .. n : i \in 1 .. turn \/ i = n
  BY <1>2
<1>7. \A i \in 1 .. turn : i \in 1 .. n /\ n > i /\ Named(i) \in EnvironNames
  BY <1>2, SentHeaders
<1>8. n \in 1 .. n
  BY <1>2
<1> HIDE DEF n
<1>9. ASSUME NEW i \in 1 .. n, i # ctKey,
             \A j \in 1 .. n : j > i /\ j # ctKey => Named(j) # Named(i),
             Named(i) \in Decided
      PROVE  environ'[Named(i)] = headersMap[i].values
  <2>1. CASE i = n
    BY <1>4, <1>9, <2>1
  <2>2. CASE i \in 1 .. turn
    <3>1. environ[Named(i)] = headersMap[i].values
      BY <1>3, <1>7, <1>9, <2>2 DEF EnvironTo
    <3>2. n = ctKey \/ Named(i) # Named(n)
      BY <1>7, <1>8, <1>9, <2>2
    <3> QED
      BY <1>4, <1>7, <2>2, <3>1, <3>2
  <2> QED
    BY <1>6, <2>1, <2>2
<1>10. ASSUME NEW name \in EnvironNames \ {"CONTENT_TYPE"},
              \A i \in 1 .. n : i # ctKey => Named(i) # name
       PROVE  environ'[name] = OsEnviron[name]
  <2>1. environ[name] = OsEnviron[name]
    BY <1>3, <1>7, <1>10 DEF EnvironTo, Decided
  <2>2. n = ctKey \/ name # Named(n)
    BY <1>8, <1>10
  <2> QED
    BY <1>4, <2>1, <2>2
<1>12. environ'["CONTENT_TYPE"] = environ["CONTENT_TYPE"]
  BY <1>2, <1>4, WsgiAssumption
<1>13. EnvironTo(turn, Decided)'
  BY <1>1, <1>5, <1>9, <1>10 DEF EnvironTo, Decided
<1> QED
  BY <1>1, <1>2, <1>12, <1>13 DEF EnvInv

-----------------------------------------------------------------------------
(* PythonWsgi: the calls of the application and the response.              *)

\* How many of the first n calls of a sequence wrote.
WritesOf(called, n) == Cardinality({i \in 1 .. n : ~IsStart(called[i])})

LEMMA WritesMore ==
  ASSUME NEW called \in Seq(CallType), NEW c \in CallType
  PROVE  LET n == Len(called)
             more == Append(called, c)
         IN  /\ more \in Seq(CallType) /\ n \in Nat /\ DOMAIN called = 1 .. n
             /\ DOMAIN more = 1 .. n + 1 /\ Len(more) = n + 1
             /\ more[n + 1] = c /\ \A i \in 1 .. n : more[i] = called[i]
             /\ WritesOf(called, n) \in Nat
             /\ \A i \in 0 .. n : WritesOf(more, i) = WritesOf(called, i)
             /\ IsStart(c) => WritesOf(more, n + 1) = WritesOf(called, n)
             /\ ~IsStart(c) => WritesOf(more, n + 1) = WritesOf(called, n) + 1
<1> DEFINE n == Len(called)
           more == Append(called, c)
           S == {i \in Nat : ~IsStart(more[i])}
<1>1. /\ more \in Seq(CallType) /\ n \in Nat /\ DOMAIN called = 1 .. n
      /\ DOMAIN more = 1 .. n + 1 /\ Len(more) = n + 1
      /\ more[n + 1] = c /\ \A i \in 1 .. n : more[i] = called[i]
  OBVIOUS
<1> HIDE DEF n, more
<1>2. ASSUME NEW i \in 0 .. n PROVE WritesOf(more, i) = WritesOf(called, i)
  <2>1. \A k \in 1 .. i : more[k] = called[k]
    BY <1>1
  <2>2. {k \in 1 .. i : ~IsStart(more[k])} = {k \in 1 .. i : ~IsStart(called[k])}
    BY <2>1
  <2> QED
    BY <2>2 DEF WritesOf
<1>3. ASSUME NEW m \in Nat PROVE WritesOf(more, m) = Among(S, m)
  <2>1. {i \in 1 .. m : ~IsStart(more[i])} = S \cap (1 .. m)
    OBVIOUS
  <2> QED
    BY <2>1 DEF WritesOf, Among
<1>4. n + 1 \in S <=> ~IsStart(c)
  BY <1>1
<1> HIDE DEF S
<1>5. /\ Among(S, n) \in Nat
      /\ Among(S, n + 1) = Among(S, n) + (IF n + 1 \in S THEN 1 ELSE 0)
  BY <1>1, AmongMore, AmongFinite
<1>6. /\ n + 1 \in S => Among(S, n + 1) = Among(S, n) + 1
      /\ n + 1 \notin S => Among(S, n + 1) = Among(S, n)
  BY <1>5
<1>7. /\ WritesOf(more, n) = Among(S, n) /\ WritesOf(more, n + 1) = Among(S, n + 1)
      /\ WritesOf(more, n) = WritesOf(called, n)
  BY <1>1, <1>2, <1>3
<1> QED
  BY <1>1, <1>2, <1>4, <1>5, <1>6, <1>7 DEF n, more

\* The i-th call is the last one that started a response.
LastStart(called, i) ==
  IsStart(called[i]) /\ \A j \in DOMAIN called : j > i => ~IsStart(called[j])

\* What the calls so far have started and written.
CallsDone(called, response, out) ==
  /\ (\A i \in DOMAIN called : ~IsStart(called[i])) => response = NotStarted
  /\ \A i \in DOMAIN called : LastStart(called, i) =>
       /\ response.status = called[i].status
       /\ GroupedTo(response.headers, called[i].headers, Len(called[i].headers))
  /\ Len(out) = WritesOf(called, Len(called))
  /\ \A i \in DOMAIN called : ~IsStart(called[i]) =>
       /\ WritesOf(called, i) \in 1 .. Len(out)
       /\ out[WritesOf(called, i)] = called[i].piece

\* A start_response that goes on has grouped the headers of its first turns; the
\* response is what was started, and begins with what was written.
AppInv ==
  /\ wsgiAt = "start" =>
       /\ IsStart(starting) /\ starting \in CallType
       /\ starting.headers \in Seq(HeaderType)
       /\ turn <= Len(starting.headers)
       /\ grouped \in [Keys -> Seq(Values)]
       /\ GroupedTo(grouped, starting.headers, turn)
  /\ CallsDone(calls, started, written)
  /\ result.kind = "response" =>
       /\ wsgiAt = "answered" /\ result.params = started
       /\ Len(written) <= Len(result.body)
       /\ \A k \in 1 .. Len(written) : result.body[k] = written[k]

LEMMA AppInit == WsgiInit => AppInv
<1> SUFFICES ASSUME WsgiInit PROVE AppInv
  OBVIOUS
<1>1. calls = <<>> /\ written = <<>> /\ started = NotStarted /\ wsgiAt = "type"
  BY DEF WsgiInit
<1>2. {i \in 1 .. 0 : ~IsStart(calls[i])} = {}
  OBVIOUS
<1>3. WritesOf(calls, 0) = 0
  BY <1>2, FS_EmptySet DEF WritesOf
<1>4. Len(<<>>) = 0 /\ DOMAIN <<>> = {}
  OBVIOUS
<1>5. CallsDone(calls, started, written)
  BY <1>1, <1>3, <1>4 DEF CallsDone
<1>6. result.kind = "none"
  BY DEF WsgiInit
<1> QED
  BY <1>1, <1>5, <1>6 DEF AppInv

\* start_response returns.
LEMMA StartDone ==
  ASSUME NEW called \in Seq(CallType), NEW response, NEW out, CallsDone(called, response, out),
         NEW c \in CallType, IsStart(c), NEW groups, GroupedTo(groups, c.headers, Len(c.headers))
  PROVE  CallsDone(Append(called, c), [status |-> c.status, headers |-> groups], out)
<1> DEFINE n == Len(called)
           more == Append(called, c)
           new == [status |-> c.status, headers |-> groups]
<1>1. /\ n \in Nat /\ DOMAIN called = 1 .. n /\ DOMAIN more = 1 .. n + 1 /\ Len(more) = n + 1
      /\ more[n + 1] = c /\ \A i \in 1 .. n : more[i] = called[i]
      /\ \A i \in 0 .. n : WritesOf(more, i) = WritesOf(called, i)
      /\ WritesOf(more, n + 1) = WritesOf(called, n)
  BY WritesMore
<1>2. new.status = c.status /\ new.headers = groups
  OBVIOUS
<1> HIDE DEF n, more, new
<1>3. n + 1 \in DOMAIN more /\ \A i \in DOMAIN more : i = n + 1 \/ (i \in 1 .. n /\ n + 1 > i)
  BY <1>1
<1>4. ~(\A i \in DOMAIN more : ~IsStart(more[i]))
  BY <1>1, <1>3
<1>5. ASSUME NEW i \in DOMAIN more, LastStart(more, i)
      PROVE  /\ new.status = more[i].status
             /\ GroupedTo(new.headers, more[i].headers, Len(more[i].headers))
  <2>1. i = n + 1
    BY <1>1, <1>3, <1>5 DEF LastStart
  <2> QED
    BY <1>1, <1>2, <2>1
<1>6. Len(out) = WritesOf(more, Len(more))
  BY <1>1 DEF CallsDone, n
<1>7. ASSUME NEW i \in DOMAIN more, ~IsStart(more[i])
      PROVE  WritesOf(more, i) \in 1 .. Len(out) /\ out[WritesOf(more, i)] = more[i].piece
  <2>1. i \in 1 .. n /\ i \in 0 .. n
    BY <1>1, <1>3, <1>7
  <2>2. more[i] = called[i] /\ WritesOf(more, i) = WritesOf(called, i) /\ i \in DOMAIN called
    BY <1>1, <2>1
  <2> QED
    BY <1>7, <2>2 DEF CallsDone
<1> QED
  BY <1>4, <1>5, <1>6, <1>7 DEF CallsDone, more, new

\* The application writes a piece.
LEMMA WriteDone ==
  ASSUME NEW called \in Seq(CallType), NEW response, NEW out \in Seq(Pieces),
         CallsDone(called, response, out),
         NEW c \in CallType, ~IsStart(c), c.piece \in Pieces
  PROVE  CallsDone(Append(called, c), response, Append(out, c.piece))
<1> DEFINE n == Len(called)
           more == Append(called, c)
           m == Len(out)
           longer == Append(out, c.piece)
<1>1. /\ n \in Nat /\ DOMAIN called = 1 .. n /\ DOMAIN more = 1 .. n + 1 /\ Len(more) = n + 1
      /\ more[n + 1] = c /\ \A i \in 1 .. n : more[i] = called[i]
      /\ \A i \in 0 .. n : WritesOf(more, i) = WritesOf(called, i)
      /\ WritesOf(more, n + 1) = WritesOf(called, n) + 1
  BY WritesMore
<1>2. /\ m \in Nat /\ Len(longer) = m + 1 /\ longer[m + 1] = c.piece
      /\ \A i \in 1 .. m : longer[i] = out[i]
  OBVIOUS
<1>3. WritesOf(called, n) = m
  BY DEF CallsDone
<1> HIDE DEF n, more, m, longer
<1>4. \A i \in DOMAIN more : i = n + 1 \/ (i \in 1 .. n /\ i \in 0 .. n /\ n + 1 > i)
  BY <1>1
<1>4a. n + 1 \in DOMAIN more /\ \A i \in DOMAIN called : i \in DOMAIN more /\ more[i] = called[i]
  BY <1>1
<1>5. ASSUME \A i \in DOMAIN more : ~IsStart(more[i]) PROVE response = NotStarted
  BY <1>4a, <1>5 DEF CallsDone
<1>6. ASSUME NEW i \in DOMAIN more, LastStart(more, i)
      PROVE  /\ response.status = more[i].status
             /\ GroupedTo(response.headers, more[i].headers, Len(more[i].headers))
  <2>1. i \in DOMAIN called /\ more[i] = called[i]
    BY <1>1, <1>4, <1>6 DEF LastStart
  <2>2. LastStart(called, i)
    BY <1>4a, <1>6, <2>1 DEF LastStart
  <2> QED
    BY <2>1, <2>2 DEF CallsDone
<1>7. Len(longer) = WritesOf(more, Len(more))
  BY <1>1, <1>2, <1>3
<1>8. ASSUME NEW i \in DOMAIN more, ~IsStart(more[i])
      PROVE  /\ WritesOf(more, i) \in 1 .. Len(longer)
             /\ longer[WritesOf(more, i)] = more[i].piece
  <2>1. CASE i = n + 1
    <3>1. WritesOf(more, i) = m + 1 /\ more[i] = c
      BY <1>1, <1>3, <2>1
    <3> QED
      BY <1>2, <3>1
  <2>2. CASE i \in 1 .. n /\ i \in 0 .. n
    <3>1. more[i] = called[i] /\ WritesOf(more, i) = WritesOf(called, i) /\ i \in DOMAIN called
      BY <1>1, <2>2
    <3>2. WritesOf(called, i) \in 1 .. m /\ out[WritesOf(called, i)] = called[i].piece
      BY <1>8, <3>1 DEF CallsDone, m
    <3> QED
      BY <1>2, <3>1, <3>2
  <2> QED
    BY <1>4, <2>1, <2>2
<1> QED
  BY <1>5, <1>6, <1>7, <1>8 DEF CallsDone, more, longer

WsgiInv == WsgiType /\ EnvInv /\ AppInv

LEMMA WsgiInvInit == WsgiInit => WsgiInv
BY WsgiTypeInit, AppInit DEF WsgiInv

\* get_environ.
LEMMA RequestStep ==
  ASSUME WsgiInv, FindContentType \/ PopContentType \/ AddHeader \/ CallApplication
  PROVE  WsgiInv'
<1>0. WsgiType /\ EnvInv /\ AppInv /\ turn \in Nat /\ Len(headersMap) \in Nat
  BY SentHeaders DEF WsgiInv, WsgiType
<1>1. /\ UNCHANGED <<headersMap, started, written, calls, result>>
      /\ wsgiAt \in {"type", "environ"} /\ wsgiAt' \in {"type", "environ", "app"}
  BY DEF FindContentType, PopContentType, AddHeader, CallApplication, requestVars, startVars
<1>2. AppInv'
  <2>1. wsgiAt # "answered" /\ wsgiAt' # "start"
    BY <1>1
  <2>2. result.kind # "response"
    BY <1>0, <2>1 DEF AppInv
  <2> QED
    BY <1>0, <1>1, <2>1, <2>2 DEF AppInv
<1>3. turn' \in Nat
  BY <1>0 DEF FindContentType, PopContentType, AddHeader, CallApplication, startVars
<1>4. ctKey' \in 0 .. Len(headersMap)
  <2>1. FindContentType => ctKey' \in 0 .. Len(headersMap)
    BY <1>0, EnvFind
  <2>2. ~FindContentType => ctKey' = ctKey
    BY DEF PopContentType, AddHeader, CallApplication, requestVars
  <2> QED
    BY <1>0, <2>1, <2>2 DEF WsgiType
<1>5. environ' = [name \in EnvironNames |-> environ'[name]]
  <2>1. environ = [name \in EnvironNames |-> environ[name]]
    BY <1>0 DEF WsgiType
  <2>2. environ' = environ \/ \E n, v : environ' = [environ EXCEPT ![n] = v]
    BY DEF FindContentType, PopContentType, AddHeader, CallApplication, requestVars
  <2> QED
    BY <2>1, <2>2
<1>6. WsgiType'
  BY <1>0, <1>1, <1>3, <1>4, <1>5 DEF WsgiType
<1>7. EnvInv'
  <2>1. CASE CallApplication
    <3>1. /\ wsgiAt = "environ" /\ wsgiAt' = "app" /\ turn = Len(headersMap)
          /\ headersMap' = headersMap /\ ctKey' = ctKey
          /\ environ' = [environ EXCEPT ![FunctionHandler] = Handler]
      BY <2>1 DEF CallApplication, requestVars
    <3>2. /\ environ'[FunctionHandler] = Handler
          /\ \A name \in EnvironNames \ {FunctionHandler} : environ'[name] = environ[name]
          /\ "CONTENT_TYPE" \in EnvironNames \ {FunctionHandler}
      BY <1>0, <3>1, WsgiAssumption DEF WsgiType, FunctionHandler
    <3>3. EnvironTo(Len(headersMap), Decided)
      BY <1>0, <3>1 DEF EnvInv
    <3>4. \A i : Named(i)' = Named(i)
      BY <3>1 DEF Named
    <3>5. EnvironTo(Len(headersMap), DecidedLast)'
      BY <3>1, <3>2, <3>3, <3>4 DEF EnvironTo, Decided, DecidedLast
    <3> QED
      BY <1>0, <3>1, <3>2, <3>5 DEF EnvInv
  <2> QED
    BY <1>0, <2>1, EnvFind, EnvPop, EnvAdd
<1> QED
  BY <1>2, <1>6, <1>7 DEF WsgiInv

\* What the application and the response leave of the invariant to show.
LEMMA AppStep ==
  ASSUME WsgiInv, wsgiAt \in {"app", "start"}, wsgiAt' \in {"app", "start", "answered"},
         UNCHANGED requestVars, turn' \in Nat, written' \in Seq(Pieces), calls' \in Seq(CallType),
         result' = [kind |-> result'.kind, params |-> result'.params, body |-> result'.body],
         AppInv'
  PROVE  WsgiInv'
<1>1. EnvInv'
  BY EnvKept DEF WsgiInv
<1>2. WsgiType'
  BY DEF WsgiInv, WsgiType, requestVars
<1> QED
  BY <1>1, <1>2 DEF WsgiInv

\* start_response.
LEMMA StartStep ==
  ASSUME WsgiInv, NEW status \in Statuses, NEW headers \in Responses, StartResponse(status, headers)
  PROVE  WsgiInv'
<1>0. WsgiType /\ AppInv
  BY DEF WsgiInv
<1>1. /\ wsgiAt = "app" /\ wsgiAt' = "start" /\ turn' = 0 /\ grouped' = NoHeaders
      /\ starting' = [kind |-> "start", status |-> status, headers |-> headers, piece |-> "none"]
      /\ UNCHANGED <<requestVars, started, written, calls, result>>
  BY DEF StartResponse
<1>2. headers \in Seq(HeaderType)
  BY WsgiAssumption DEF HeaderType
<1>3. IsStart(starting') /\ starting' \in CallType /\ starting'.headers = headers
  BY <1>1 DEF IsStart, CallType
<1>4. grouped' \in [Keys -> Seq(Values)] /\ GroupedTo(grouped', starting'.headers, turn')
  BY <1>1, GroupedNone
<1>5. turn' <= Len(starting'.headers)
  BY <1>1, <1>2, <1>3
<1>6. result.kind # "response"
  BY <1>0, <1>1 DEF AppInv
<1>7. AppInv'
  BY <1>0, <1>1, <1>2, <1>3, <1>4, <1>5, <1>6 DEF AppInv
<1> QED
  BY <1>0, <1>1, <1>7, AppStep DEF WsgiType

LEMMA GroupStep == ASSUME WsgiInv, GroupHeader PROVE WsgiInv'
<1>0. WsgiType /\ AppInv
  BY DEF WsgiInv
<1>1. /\ wsgiAt = "start" /\ wsgiAt' = wsgiAt /\ turn < Len(starting.headers) /\ turn' = turn + 1
      /\ grouped' = [grouped EXCEPT ![starting.headers[turn + 1].key] =
                       Grouped(@, starting.headers[turn + 1].value)]
      /\ UNCHANGED <<requestVars, starting, started, written, calls, result>>
  BY DEF GroupHeader
<1>2. /\ IsStart(starting) /\ starting \in CallType /\ starting.headers \in Seq(HeaderType)
      /\ grouped \in [Keys -> Seq(Values)] /\ GroupedTo(grouped, starting.headers, turn)
      /\ turn \in Nat
  BY <1>0, <1>1 DEF AppInv, WsgiType
<1>3. grouped' \in [Keys -> Seq(Values)] /\ GroupedTo(grouped', starting.headers, turn + 1)
  BY <1>1, <1>2, GroupedMore
<1>4. starting' = starting /\ turn' \in Nat /\ turn' <= Len(starting'.headers)
  <2>1. Len(starting.headers) \in Nat
    BY <1>2
  <2> QED
    BY <1>1, <1>2, <2>1
<1>5. GroupedTo(grouped', starting'.headers, turn')
  BY <1>1, <1>3, <1>4
<1>6. AppInv'
  BY <1>0, <1>1, <1>2, <1>3, <1>4, <1>5 DEF AppInv
<1> QED
  BY <1>0, <1>1, <1>4, <1>6, AppStep DEF WsgiType

LEMMA EndStartStep == ASSUME WsgiInv, EndStart \/ StartRaises PROVE WsgiInv'
<1>0. WsgiType /\ AppInv
  BY DEF WsgiInv
<1>1. /\ wsgiAt = "start" /\ wsgiAt' = "app"
      /\ UNCHANGED <<requestVars, startVars, written, result>>
  BY DEF EndStart, StartRaises
<1>2. result.kind # "response" /\ turn' = turn
  BY <1>0, <1>1 DEF AppInv, startVars
<1>3. CASE StartRaises
  <2>1. calls' = calls /\ started' = started
    BY <1>3 DEF StartRaises
  <2>2. AppInv'
    BY <1>0, <1>1, <1>2, <2>1 DEF AppInv
  <2> QED
    BY <1>0, <1>1, <1>2, <2>1, <2>2, AppStep DEF WsgiType
<1>4. CASE EndStart
  <2>1. /\ calls' = Append(calls, starting) /\ turn = Len(starting.headers)
        /\ started' = [status |-> starting.status, headers |-> grouped]
    BY <1>4 DEF EndStart
  <2>2. /\ IsStart(starting) /\ starting \in CallType /\ calls \in Seq(CallType)
        /\ GroupedTo(grouped, starting.headers, Len(starting.headers))
        /\ CallsDone(calls, started, written)
    BY <1>0, <1>1, <2>1 DEF AppInv, WsgiType
  <2>3. CallsDone(calls', started', written)
    BY <2>1, <2>2, StartDone
  <2>4. calls' \in Seq(CallType) /\ written' = written /\ result' = result
    BY <1>1, <2>1, <2>2
  <2>5. AppInv'
    BY <1>0, <1>1, <1>2, <2>3, <2>4 DEF AppInv
  <2> QED
    BY <1>0, <1>1, <1>2, <2>4, <2>5, AppStep DEF WsgiType
<1> QED
  BY <1>3, <1>4

LEMMA WriteStep == ASSUME WsgiInv, NEW piece \in Pieces, Write(piece) PROVE WsgiInv'
<1> DEFINE c == [kind |-> "write", status |-> 0, headers |-> <<>>, piece |-> piece]
<1>0. WsgiType /\ AppInv
  BY DEF WsgiInv
<1>1. /\ wsgiAt = "app" /\ wsgiAt' = "app"
      /\ written' = Append(written, piece) /\ calls' = Append(calls, c)
      /\ UNCHANGED <<requestVars, startVars, started, result>>
  BY DEF Write
<1>2. c \in CallType /\ ~IsStart(c) /\ c.piece = piece
  BY DEF CallType, IsStart
<1> HIDE DEF c
<1>3. written \in Seq(Pieces) /\ calls \in Seq(CallType) /\ CallsDone(calls, started, written)
  BY <1>0 DEF WsgiType, AppInv
<1>4. CallsDone(calls', started, written')
  <2>1. CallsDone(Append(calls, c), started, Append(written, c.piece))
    BY <1>2, <1>3, WriteDone
  <2> QED
    BY <1>1, <1>2, <2>1
<1>5. written' \in Seq(Pieces) /\ calls' \in Seq(CallType)
  BY <1>1, <1>2, <1>3
<1>6. result.kind # "response" /\ turn' = turn
  BY <1>0, <1>1 DEF AppInv, startVars
<1>7. AppInv'
  BY <1>0, <1>1, <1>4, <1>6 DEF AppInv
<1> QED
  BY <1>0, <1>1, <1>5, <1>6, <1>7, AppStep DEF WsgiType

\* The response.
LEMMA AnswerStep ==
  ASSUME WsgiInv,
         ApplicationRaises \/ \E output \in {<<>>} \cup {<<v>> : v \in Pieces} : Respond(output)
  PROVE  WsgiInv'
<1>0. WsgiType /\ AppInv
  BY DEF WsgiInv
<1>1. /\ wsgiAt = "app" /\ wsgiAt' = "answered"
      /\ UNCHANGED <<requestVars, startVars, started, written, calls>>
  BY DEF ApplicationRaises, Respond
<1>2. turn' = turn
  BY <1>1 DEF startVars
<1>3. CASE ApplicationRaises
  <2>1. result' = [result EXCEPT !.kind = "error"]
    BY <1>3 DEF ApplicationRaises
  <2>2. result = [kind |-> result.kind, params |-> result.params, body |-> result.body]
    BY <1>0 DEF WsgiType
  <2>3. /\ result'.kind = "error"
        /\ result' = [kind |-> result'.kind, params |-> result'.params, body |-> result'.body]
    BY <2>1, <2>2
  <2>4. AppInv'
    BY <1>0, <1>1, <2>3 DEF AppInv
  <2> QED
    BY <1>0, <1>1, <1>2, <2>3, <2>4, AppStep DEF WsgiType
<1>4. ASSUME NEW output \in {<<>>} \cup {<<v>> : v \in Pieces}, Respond(output) PROVE WsgiInv'
  <2>1. result' = [kind |-> "response", params |-> started, body |-> written \o output]
    BY <1>4 DEF Respond
  <2>2. written \in Seq(Pieces) /\ output \in Seq(Pieces)
    <3>1. output = <<>> \/ \E v \in Pieces : output = <<v>>
      BY Zenon
    <3>2. <<>> \in Seq(Pieces) /\ \A v \in Pieces : <<v>> \in Seq(Pieces)
      OBVIOUS
    <3>3. written \in Seq(Pieces)
      BY <1>0 DEF WsgiType
    <3> QED
      BY <3>1, <3>2, <3>3, Zenon
  <2>3. /\ Len(written \o output) = Len(written) + Len(output)
        /\ \A k \in 1 .. Len(written) : (written \o output)[k] = written[k]
        /\ Len(written) \in Nat /\ Len(output) \in Nat
    BY <2>2, Concatenation
  <2>4. Len(written) <= Len(written \o output)
    BY <2>3
  <2>5. /\ result'.params = started /\ result'.body = written \o output
        /\ result' = [kind |-> result'.kind, params |-> result'.params, body |-> result'.body]
    BY <2>1
  <2>6. AppInv'
    BY <1>0, <1>1, <2>3, <2>4, <2>5 DEF AppInv
  <2> QED
    BY <1>0, <1>1, <1>2, <2>5, <2>6, AppStep DEF WsgiType
<1> QED
  BY <1>3, <1>4

LEMMA WsgiInvStep == WsgiInv /\ [WsgiNext]_wsgiVars => WsgiInv'
<1>1. WsgiInv /\ UNCHANGED wsgiVars => WsgiInv'
  <2> SUFFICES ASSUME WsgiInv, UNCHANGED wsgiVars PROVE WsgiInv'
    OBVIOUS
  <2>0. UNCHANGED <<wsgiAt, headersMap, ctKey, environ, turn, starting, grouped, started, written,
                    calls, result>>
    BY DEF wsgiVars, requestVars, startVars
  <2>1. WsgiType'
    BY <2>0 DEF WsgiInv, WsgiType
  <2>2. EnvironTo(turn, Decided)' <=> EnvironTo(turn, Decided)
    BY <2>0 DEF EnvironTo, Named, Decided
  <2>3. EnvironTo(Len(headersMap), DecidedLast)' <=> EnvironTo(Len(headersMap), DecidedLast)
    BY <2>0 DEF EnvironTo, Named, DecidedLast, Decided
  <2>4. EnvInv'
    BY <2>0, <2>2, <2>3 DEF WsgiInv, EnvInv
  <2>5. AppInv'
    BY <2>0 DEF WsgiInv, AppInv
  <2> QED
    BY <2>1, <2>4, <2>5 DEF WsgiInv
<1> QED
  BY <1>1, RequestStep, StartStep, GroupStep, EndStartStep, WriteStep, AnswerStep
  DEF WsgiNext, WsgiRest

\* Whatever headers arrive and whatever the application calls, in any order: it
\* gets the request that was sent, with the handler of the invocation, and what
\* leaves is what it started, wrote and returned.
THEOREM ExchangesAreWhole == WsgiSpec => []ExchangeIsWhole
<1>1. WsgiInv => ExchangeIsWhole
  <2> SUFFICES ASSUME WsgiInv PROVE ExchangeIsWhole
    OBVIOUS
  <2>0. WsgiType /\ EnvInv /\ AppInv
    BY DEF WsgiInv
  <2>1. ASSUME wsgiAt \in {"app", "start", "answered"} PROVE EnvironIsWhole
    <3>1. /\ EnvironTo(Len(headersMap), DecidedLast) /\ environ[FunctionHandler] = Handler
          /\ \A i \in DOMAIN headersMap : headersMap[i].name \in ContentTypes => i <= ctKey
          /\ environ["CONTENT_TYPE"] =
               IF ctKey # 0 /\ headersMap[ctKey].values # <<>>
                 THEN headersMap[ctKey].values ELSE OctetStream
      BY <2>0, <2>1 DEF EnvInv
    <3>2. DOMAIN headersMap = 1 .. Len(headersMap) /\ Len(headersMap) \in Nat
      BY <2>0, SentHeaders
    <3>3. ctKey # 0 => ctKey \in DOMAIN headersMap /\ headersMap[ctKey].name \in ContentTypes
      BY <2>0, <3>2 DEF WsgiType, EnvInv
    <3>4. \A i \in DOMAIN headersMap :
            Wins(i) /\ NameOf[headersMap[i].name] # FunctionHandler =>
              environ[NameOf[headersMap[i].name]] = headersMap[i].values
      BY <2>0, <3>1, <3>2, SentHeaders DEF EnvironTo, Named, Wins, Decided, DecidedLast
    <3>5. \A name \in EnvironNames \ {"CONTENT_TYPE", FunctionHandler} :
            (\A i \in DOMAIN headersMap : i # ctKey => NameOf[headersMap[i].name] # name) =>
              environ[name] = OsEnviron[name]
      BY <3>1, <3>2 DEF EnvironTo, Named, Decided, DecidedLast
    <3> QED
      BY <3>1, <3>3, <3>4, <3>5 DEF EnvironIsWhole
  <2>2. ASSUME result.kind = "response"
        PROVE  /\ (\A i \in DOMAIN calls : ~IsStart(calls[i])) => result.params = NotStarted
               /\ \A i \in DOMAIN calls :
                    IsStart(calls[i]) /\ (\A j \in DOMAIN calls : j > i => ~IsStart(calls[j])) =>
                      /\ result.params.status = calls[i].status
                      /\ GroupedTo(result.params.headers, calls[i].headers, Len(calls[i].headers))
               /\ Writes(Len(calls)) <= Len(result.body)
               /\ \A i \in DOMAIN calls :
                    ~IsStart(calls[i]) => result.body[Writes(i)] = calls[i].piece
    <3>1. /\ CallsDone(calls, started, written) /\ result.params = started
          /\ Len(written) <= Len(result.body)
          /\ \A k \in 1 .. Len(written) : result.body[k] = written[k]
      BY <2>0, <2>2 DEF AppInv
    <3>2. \A n : Writes(n) = WritesOf(calls, n)
      BY DEF Writes, WritesOf
    <3> QED
      BY <3>1, <3>2 DEF CallsDone, LastStart
  <2> QED
    BY <2>1, <2>2 DEF ExchangeIsWhole
<1> QED
  BY <1>1, WsgiInvInit, WsgiInvStep, PTL DEF WsgiSpec
=============================================================================
