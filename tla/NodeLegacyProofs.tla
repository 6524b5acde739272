-------------------------- MODULE NodeLegacyProofs --------------------------
(***************************************************************************)
(* Theorems about NodeLegacy, for any number of requests, any user code    *)
(* and any number of failing polls and posts.                              *)
(***************************************************************************)
EXTENDS NodeLegacy, TLAPS

-----------------------------------------------------------------------------
(* What the callback's operators do to the variables they assign.          *)

\* r's callback is called for the first time, with v.
FirstCall(r, v) ==
  /\ r \notin consumed
  /\ consumed' = consumed \cup {r}
  /\ ticks' = [ticks EXCEPT ![r] = v]

\* A call of a callback is its first call or has no effect.
LEMMA ConsumeIsFirstCall ==
  ASSUME NEW r, NEW v, Consume(r, v)
  PROVE  UNCHANGED callbackVars \/ FirstCall(r, v)
BY DEF Consume, FirstCall

\* An error without an owner is given to the current request, or is lost.
LEMMA FailCurrentIsFirstCall ==
  ASSUME TypeOK, FailCurrent
  PROVE  UNCHANGED callbackVars \/ (current \in Requests /\ FirstCall(current, "error"))
BY ConsumeIsFirstCall, LegacyAssumption DEF FailCurrent, TypeOK

\* A throw of the running code calls one callback at most, of a request that
\* was started.
LEMMA ThrowIsFirstCall ==
  ASSUME TypeOK, NEW h \in {"none", "ref", "unref"}, Throw(h) \/ ThrowOdd(h)
  PROVE  \/ UNCHANGED callbackVars
         \/ running \in Requests /\ FirstCall(running, "error")
         \/ current \in Requests /\ FirstCall(current, "error")
BY ConsumeIsFirstCall, FailCurrentIsFirstCall DEF Throw, ThrowOdd, Leave

\* The types of the callbacks survive a first call.
LEMMA FirstCallType ==
  ASSUME TypeOK, NEW r \in Requests, NEW v \in Values, FirstCall(r, v)
  PROVE  consumed' \subseteq Requests /\ ticks' \in [Requests -> Values \cup {"none"}]
BY DEF FirstCall, TypeOK

\* What was posted stays a sequence of answers.
LEMMA SendType ==
  ASSUME TypeOK, NEW r \in Requests, NEW kind \in {"result", "error"}, Send(r, kind)
  PROVE  sending' \subseteq Requests /\ posted' \in [Requests -> Seq({"result", "error"})]
BY DEF Send, TypeOK

-----------------------------------------------------------------------------
(* Type correctness, fresh requests and owed posts.                        *)

\* The three invariants, each of which needs the others: a value that cannot be
\* formatted is charged to the current request, which exists because some
\* callback was consumed.
Invariants == TypeOK /\ FreshInv /\ ReplyInv

\* They hold initially.
LEMMA InitInvariants == Init => Invariants
<1> SUFFICES ASSUME Init PROVE Invariants
  OBVIOUS
<1>1. TypeOK
  <2>1. /\ posted \in [Requests -> Seq({"result", "error"})]
        /\ ticks \in [Requests -> Values \cup {"none"}]
        /\ handles \in [Requests -> {"none", "ref", "unref"}]
        /\ turns \in [Requests -> 0 .. MaxTurns]
    BY LegacyAssumption DEF Init
  <2>2. /\ alive \in BOOLEAN /\ waitForEmpty \in BOOLEAN /\ EnableConcurrentInvoke \in BOOLEAN
        /\ handleKinds \subseteq {"ref", "unref"}
    BY Zenon, LegacyAssumption DEF Init
  <2>3. /\ inbox \subseteq Requests /\ consumed \subseteq Requests
        /\ streams \subseteq Requests /\ sending \subseteq Requests
        /\ current = NoRequest /\ running = NoRequest /\ frame = "sync"
    BY DEF Init
  <2>4. iterations \in Nat /\ polls \in Nat /\ failures \in 0 .. MaxFailures
    BY LegacyAssumption DEF Init
  <2> QED
    BY <2>1, <2>2, <2>3, <2>4 DEF TypeOK
<1>2. FreshInv /\ ReplyInv
  BY LegacyAssumption DEF Init, FreshInv, ReplyInv
<1> QED
  BY <1>1, <1>2 DEF Invariants

\* A consumed request was started, so some request is current.
LEMMA ConsumedMeansStarted ==
  ASSUME Invariants, NEW r \in Requests, r \in consumed \/ ticks[r] # "none"
  PROVE  current \in Requests /\ r \notin inbox /\ r \in consumed
BY DEF Invariants, TypeOK, FreshInv, ReplyInv

\* A step of Digest is a post, the start of a stream, or a value that is
\* charged to the current request.
LEMMA DigestCases ==
  ASSUME Invariants, NEW r \in Requests, Digest(r)
  PROVE  /\ r \in consumed /\ r \notin inbox /\ current \in Requests
         /\ \/ /\ ticks' = [ticks EXCEPT ![r] = "none"]
               /\ ticks[r] \in {"result", "error"} /\ Send(r, ticks[r])
               /\ UNCHANGED <<consumed, streams>>
            \/ /\ ticks' = [ticks EXCEPT ![r] = "none"]
               /\ streams' = streams \cup {r}
               /\ UNCHANGED <<consumed, sending, posted>>
            \/ /\ ticks' = [ticks EXCEPT ![r] = "none"]
               /\ current \in consumed
               /\ UNCHANGED <<consumed, postVars>>
            \/ /\ ticks' = [[ticks EXCEPT ![r] = "none"] EXCEPT ![current] = "error"]
               /\ current \notin consumed
               /\ consumed' = consumed \cup {current}
               /\ UNCHANGED postVars
BY ConsumedMeansStarted DEF Digest

\* The types survive every step.
LEMMA NextTypeOK == Invariants /\ [Next]_vars => TypeOK'
<1> SUFFICES ASSUME Invariants, [Next]_vars PROVE TypeOK'
  OBVIOUS
<1>0. TypeOK /\ EnableConcurrentInvoke' = EnableConcurrentInvoke /\ handleKinds' = handleKinds
  BY DEF Invariants, Next, vars, startVars
<1> USE <1>0 DEF loopVars, callbackVars, postVars, userVars
<1>1. CASE StartPoll
  BY <1>1 DEF StartPoll, TypeOK
<1>2. CASE BeforeExit
  BY <1>2 DEF BeforeExit, TypeOK
<1>3. CASE PollFails
  BY <1>3, LegacyAssumption DEF PollFails, TypeOK
<1>4. ASSUME NEW r \in Requests, EndPoll(r) PROVE TypeOK'
  BY <1>4 DEF EndPoll, TypeOK
<1>5. ASSUME NEW r \in Requests, Digest(r) PROVE TypeOK'
  <2>1. UNCHANGED <<alive, inbox, loopVars, current, userVars, waitForEmpty, failures>>
    BY <1>5 DEF Digest
  <2>2. /\ consumed' \subseteq Requests /\ streams' \subseteq Requests
        /\ ticks' \in [Requests -> Values \cup {"none"}]
        /\ sending' \subseteq Requests /\ posted' \in [Requests -> Seq({"result", "error"})]
    <3>1. /\ consumed' \subseteq Requests /\ streams' \subseteq Requests
          /\ ticks' \in [Requests -> Values \cup {"none"}]
      BY <1>5, DigestCases DEF TypeOK, Values, Send
    <3>2. sending' \subseteq Requests /\ posted' \in [Requests -> Seq({"result", "error"})]
      BY <1>5, DigestCases, SendType DEF TypeOK
    <3> QED
      BY <3>1, <3>2
  <2> QED
    BY <2>1, <2>2 DEF TypeOK
<1>6. ASSUME NEW r \in Requests, NEW end \in {"result", "error", "stall"}, EndStream(r, end) PROVE TypeOK'
  <2>1. sending' \subseteq Requests /\ posted' \in [Requests -> Seq({"result", "error"})]
    BY <1>6, SendType DEF EndStream, TypeOK
  <2> QED
    BY <1>6, <2>1 DEF EndStream, TypeOK
<1>7. ASSUME NEW r \in Requests, PostEnds(r) PROVE TypeOK'
  BY <1>7 DEF PostEnds, TypeOK
<1>8. ASSUME NEW r \in Requests, PostFails(r) PROVE TypeOK'
  <2>1. consumed' \subseteq Requests /\ ticks' \in [Requests -> Values \cup {"none"}]
    BY <1>8, FailCurrentIsFirstCall, FirstCallType DEF PostFails, TypeOK, Values
  <2> QED
    BY <1>8, <2>1, LegacyAssumption DEF PostFails, TypeOK
<1>9. ASSUME NEW r \in Requests, NEW f \in {"task", "promise"}, Resume(r, f) PROVE TypeOK'
  BY <1>9, LegacyAssumption DEF Resume, TypeOK
<1>10. ASSUME NEW v \in ReplyValues, CallCallback(v) PROVE TypeOK'
  <2>0. v \in Values /\ running \in Requests
    BY <1>10, LegacyAssumption DEF CallCallback, Values
  <2>1. consumed' \subseteq Requests /\ ticks' \in [Requests -> Values \cup {"none"}]
    BY <1>10, <2>0, ConsumeIsFirstCall, FirstCallType DEF CallCallback, TypeOK, callbackVars
  <2> QED
    BY <1>10, <2>1 DEF CallCallback, TypeOK
<1>11. ASSUME NEW b \in BOOLEAN, SetWaitForEmpty(b) PROVE TypeOK'
  BY <1>11 DEF SetWaitForEmpty, TypeOK
<1>12. ASSUME NEW h \in {"none", "ref", "unref"}, Leave(h), consumed' \subseteq Requests,
              ticks' \in [Requests -> Values \cup {"none"}]
       PROVE  TypeOK'
  BY <1>12 DEF Leave, TypeOK
<1>13. ASSUME NEW h \in {"none", "ref", "unref"}, Return(h) PROVE TypeOK'
  BY <1>12, <1>13 DEF Return, TypeOK
<1>14. ASSUME NEW h \in {"none", "ref", "unref"}, Throw(h) \/ ThrowOdd(h) PROVE TypeOK'
  <2>1. consumed' \subseteq Requests /\ ticks' \in [Requests -> Values \cup {"none"}]
    BY <1>14, ThrowIsFirstCall, FirstCallType DEF TypeOK, Values
  <2> QED
    BY <1>12, <1>14, <2>1 DEF Throw, ThrowOdd
<1>15. CASE Exit
  BY <1>15 DEF Exit, TypeOK
<1>16. CASE UNCHANGED vars
  BY <1>16 DEF vars, TypeOK
<1> QED
  BY <1>1, <1>2, <1>3, <1>4, <1>5, <1>6, <1>7, <1>8, <1>9, <1>10, <1>11, <1>13, <1>14,
     <1>15, <1>16 DEF Next, Step, Rest

\* A step that starts no request, marks only started ones, and leaves work only
\* with the running one, leaves the waiting ones alone.
LEMMA FreshKept ==
  ASSUME Invariants, inbox' = inbox, current' = current,
         running' \in {running, NoRequest},
         \A r \in Requests : r \in consumed' => r \notin inbox,
         \A r \in Requests \ {running} : handles'[r] = handles[r]
  PROVE  FreshInv'
BY LegacyAssumption DEF Invariants, TypeOK, FreshInv

\* Every step keeps FreshInv.
LEMMA NextFreshInv == Invariants /\ [Next]_vars => FreshInv'
<1> SUFFICES ASSUME Invariants, [Next]_vars PROVE FreshInv'
  OBVIOUS
<1>0. /\ TypeOK /\ FreshInv
      /\ \A r \in consumed : r \notin inbox
      /\ running \in Requests => running \notin inbox
      /\ current \in Requests => current \notin inbox
  BY DEF Invariants, FreshInv, TypeOK
<1>a. ASSUME UNCHANGED <<inbox, current, userVars, consumed>> PROVE FreshInv'
  BY <1>a, <1>0, FreshKept DEF userVars
<1>1. CASE StartPoll \/ BeforeExit \/ PollFails
  BY <1>1, <1>a DEF StartPoll, BeforeExit, PollFails, callbackVars
<1>2. ASSUME NEW r \in Requests, EndPoll(r) PROVE FreshInv'
  <2>1. /\ current' = r /\ running' = r /\ r \in inbox /\ inbox' = inbox \ {r}
        /\ UNCHANGED <<consumed, handles>>
    BY <1>2 DEF EndPoll, callbackVars
  <2> QED
    BY <1>0, <2>1, LegacyAssumption DEF FreshInv
<1>3. ASSUME NEW r \in Requests, Digest(r) PROVE FreshInv'
  <2>1. UNCHANGED <<inbox, current, userVars>>
    BY <1>3 DEF Digest
  <2>2. \A s \in Requests : s \in consumed' => s \notin inbox
    BY <1>0, <1>3, DigestCases
  <2> QED
    BY <2>1, <2>2, FreshKept DEF userVars
<1>4. ASSUME NEW r \in Requests, NEW end \in {"result", "error", "stall"}, EndStream(r, end) PROVE FreshInv'
  BY <1>4, <1>a DEF EndStream, callbackVars
<1>5. ASSUME NEW r \in Requests, PostEnds(r) PROVE FreshInv'
  BY <1>5, <1>a DEF PostEnds, callbackVars
<1>6. ASSUME NEW r \in Requests, PostFails(r) PROVE FreshInv'
  <2>1. \A s \in Requests : s \in consumed' => s \notin inbox
    BY <1>0, <1>6, FailCurrentIsFirstCall DEF PostFails, FirstCall, callbackVars
  <2> QED
    BY <1>6, <2>1, FreshKept DEF PostFails, userVars
<1>7. ASSUME NEW r \in Requests, NEW f \in {"task", "promise"}, Resume(r, f) PROVE FreshInv'
  <2>1. /\ running' = r /\ handles[r] # "none" /\ handles' = [handles EXCEPT ![r] = "none"]
        /\ UNCHANGED <<inbox, current, consumed>>
    BY <1>7 DEF Resume, callbackVars
  <2> QED
    BY <1>0, <2>1 DEF FreshInv, TypeOK
<1>8. ASSUME NEW v \in ReplyValues, CallCallback(v) PROVE FreshInv'
  <2>1. \A s \in Requests : s \in consumed' => s \notin inbox
    BY <1>0, <1>8, ConsumeIsFirstCall DEF CallCallback, FirstCall, callbackVars
  <2> QED
    BY <1>8, <2>1, FreshKept DEF CallCallback, userVars
<1>9. ASSUME NEW b \in BOOLEAN, SetWaitForEmpty(b) PROVE FreshInv'
  BY <1>9, <1>a DEF SetWaitForEmpty, callbackVars
<1>10. ASSUME NEW h \in {"none", "ref", "unref"}, Leave(h), \A s \in Requests : s \in consumed' => s \notin inbox
       PROVE  FreshInv'
  BY <1>10, <1>0, FreshKept DEF Leave, TypeOK
<1>11. ASSUME NEW h \in {"none", "ref", "unref"}, Return(h) PROVE FreshInv'
  BY <1>0, <1>10, <1>11 DEF Return, callbackVars
<1>12. ASSUME NEW h \in {"none", "ref", "unref"}, Throw(h) \/ ThrowOdd(h) PROVE FreshInv'
  <2>1. \A s \in Requests : s \in consumed' => s \notin inbox
    BY <1>0, <1>12, ThrowIsFirstCall DEF FirstCall, callbackVars
  <2> QED
    BY <1>10, <1>12, <2>1 DEF Throw, ThrowOdd
<1>13. CASE Exit \/ UNCHANGED vars
  BY <1>13, <1>a DEF Exit, vars, callbackVars
<1> QED
  BY <1>1, <1>2, <1>3, <1>4, <1>5, <1>6, <1>7, <1>8, <1>9, <1>11, <1>12, <1>13
  DEF Next, Step, Rest
-----------------------------------------------------------------------------
(* One post per request.                                                   *)

\* The step posts the first answer of r, which was started.
FirstAnswer(r) ==
  /\ r \in Requests \ inbox
  /\ posted[r] = <<>>
  /\ \E kind \in {"result", "error"} : posted' = [posted EXCEPT ![r] = <<kind>>]

\* What every step does to the platform's view.
Visible ==
  \/ UNCHANGED <<inbox, posted>>
  \/ posted' = posted /\ \E r \in inbox : inbox' = inbox \ {r}
  \/ inbox' = inbox /\ \E r \in Requests : FirstAnswer(r)

\* Sending the answer of a started request that has none is its first answer.
LEMMA SendAnswers ==
  ASSUME TypeOK, NEW r \in Requests \ inbox, NEW kind \in {"result", "error"},
         posted[r] = <<>>, Send(r, kind)
  PROVE  FirstAnswer(r) /\ posted'[r] # <<>>
<1>1. Append(posted[r], kind) = <<kind>> /\ <<kind>> # <<>>
  OBVIOUS
<1>2. posted' = [posted EXCEPT ![r] = <<kind>>]
  BY <1>1 DEF Send
<1> QED
  BY <1>1, <1>2 DEF FirstAnswer, TypeOK

\* It keeps ReplyInv if r's tick and stream are over with it.
LEMMA SendKeepsReplyInv ==
  ASSUME TypeOK, ReplyInv, NEW r \in Requests \ inbox, NEW kind \in {"result", "error"},
         posted[r] = <<>>, Send(r, kind), r \in consumed, consumed' = consumed,
         ticks'[r] = "none", r \notin streams',
         \A s \in Requests \ {r} : ticks'[s] = ticks[s] /\ (s \in streams' <=> s \in streams)
  PROVE  ReplyInv'
<1>1. posted'[r] # <<>> /\ \A s \in Requests \ {r} : posted'[s] = posted[s]
  BY SendAnswers DEF Send, TypeOK
<1>2. sending' = sending \cup {r}
  BY DEF Send
<1> QED
  BY <1>1, <1>2 DEF ReplyInv

\* A first call keeps ReplyInv: nothing can have been posted before it.
LEMMA FirstCallKeepsReplyInv ==
  ASSUME TypeOK, ReplyInv, NEW r \in Requests, NEW v \in Values, FirstCall(r, v),
         UNCHANGED <<streams, posted>>, sending' \subseteq sending
  PROVE  ReplyInv'
BY DEF FirstCall, TypeOK, ReplyInv

\* Every step keeps ReplyInv, and shows the platform nothing, a request that is
\* taken, or a first answer.
LEMMA NextReplyInv ==
  ASSUME Invariants, [Next]_vars
  PROVE  ReplyInv' /\ Visible
<1>0. TypeOK /\ ReplyInv
  BY DEF Invariants
<1>a. ASSUME UNCHANGED <<inbox, callbackVars, streams, posted>>, sending' \subseteq sending
      PROVE  ReplyInv' /\ Visible
  BY <1>a, <1>0 DEF ReplyInv, Visible, callbackVars
<1>b. ASSUME NEW r \in Requests, NEW v \in Values, FirstCall(r, v),
             UNCHANGED <<inbox, streams, posted>>, sending' \subseteq sending
      PROVE  ReplyInv' /\ Visible
  BY <1>b, <1>0, FirstCallKeepsReplyInv DEF Visible
<1>1. CASE StartPoll \/ BeforeExit \/ PollFails
  BY <1>1, <1>a DEF StartPoll, BeforeExit, PollFails, postVars
<1>2. ASSUME NEW r \in Requests, EndPoll(r) PROVE ReplyInv' /\ Visible
  BY <1>2, <1>0 DEF EndPoll, ReplyInv, Visible, callbackVars, postVars
<1>3. ASSUME NEW r \in Requests, Digest(r) PROVE ReplyInv' /\ Visible
  <2>1. /\ inbox' = inbox /\ ticks[r] # "none"
        /\ r \in consumed /\ r \notin inbox /\ current \in Requests
        /\ posted[r] = <<>> /\ r \notin streams
    BY <1>0, <1>3, DigestCases DEF Digest, ReplyInv
  <2>2. CASE /\ ticks' = [ticks EXCEPT ![r] = "none"]
             /\ ticks[r] \in {"result", "error"} /\ Send(r, ticks[r])
             /\ UNCHANGED <<consumed, streams>>
    <3>1. ReplyInv'
      BY <1>0, <2>1, <2>2, SendKeepsReplyInv DEF TypeOK
    <3>2. FirstAnswer(r)
      BY <1>0, <2>1, <2>2, SendAnswers
    <3> QED
      BY <2>1, <3>1, <3>2 DEF Visible
  <2>3. CASE /\ ticks' = [ticks EXCEPT ![r] = "none"]
             /\ streams' = streams \cup {r}
             /\ UNCHANGED <<consumed, sending, posted>>
    BY <1>0, <2>1, <2>3 DEF ReplyInv, TypeOK, Visible
  <2>4. CASE /\ ticks' = [ticks EXCEPT ![r] = "none"]
             /\ UNCHANGED <<consumed, postVars>>
    BY <1>0, <2>1, <2>4 DEF ReplyInv, TypeOK, Visible, postVars
  <2>5. CASE /\ ticks' = [[ticks EXCEPT ![r] = "none"] EXCEPT ![current] = "error"]
             /\ current \notin consumed
             /\ consumed' = consumed \cup {current}
             /\ UNCHANGED postVars
    BY <1>0, <2>1, <2>5 DEF ReplyInv, TypeOK, Visible, postVars
  <2> QED
    BY <1>3, <2>2, <2>3, <2>4, <2>5, DigestCases
<1>4. ASSUME NEW r \in Requests, NEW end \in {"result", "error", "stall"}, EndStream(r, end)
      PROVE  ReplyInv' /\ Visible
  <2>0. CASE end = "stall"
    BY <1>0, <1>4, <2>0 DEF EndStream, ReplyInv, Visible, callbackVars
  <2> SUFFICES ASSUME end \in {"result", "error"} PROVE ReplyInv' /\ Visible
    BY <2>0
  <2>1. /\ Send(r, end) /\ streams' = streams \ {r} /\ UNCHANGED <<inbox, consumed, ticks>>
        /\ r \in consumed /\ r \notin inbox /\ posted[r] = <<>> /\ ticks[r] = "none"
    BY <1>4 DEF EndStream, Invariants, ReplyInv, FreshInv, callbackVars
  <2>2. ReplyInv'
    BY <1>0, <2>1, SendKeepsReplyInv
  <2>3. FirstAnswer(r)
    BY <1>0, <2>1, SendAnswers
  <2> QED
    BY <2>1, <2>2, <2>3 DEF Visible
<1>5. ASSUME NEW r \in Requests, PostEnds(r) PROVE ReplyInv' /\ Visible
  BY <1>5, <1>a DEF PostEnds
<1>6. ASSUME NEW r \in Requests, PostFails(r) PROVE ReplyInv' /\ Visible
  <2>1. UNCHANGED <<inbox, streams, posted>> /\ sending' \subseteq sending
    BY <1>6 DEF PostFails
  <2> QED
    BY <1>0, <1>6, <1>a, <1>b, <2>1, FailCurrentIsFirstCall DEF PostFails, Values
<1>7. ASSUME NEW r \in Requests, NEW f \in {"task", "promise"}, Resume(r, f)
      PROVE  ReplyInv' /\ Visible
  BY <1>7, <1>a DEF Resume, postVars
<1>8. ASSUME NEW v \in ReplyValues, CallCallback(v) PROVE ReplyInv' /\ Visible
  <2>1. UNCHANGED <<inbox, postVars>> /\ running \in Requests /\ v \in Values
    BY <1>8, LegacyAssumption DEF CallCallback, Values
  <2> QED
    BY <1>8, <1>a, <1>b, <2>1, ConsumeIsFirstCall DEF CallCallback, postVars
<1>9. ASSUME NEW b \in BOOLEAN, SetWaitForEmpty(b) PROVE ReplyInv' /\ Visible
  BY <1>9, <1>a DEF SetWaitForEmpty, postVars
<1>10. ASSUME NEW h \in {"none", "ref", "unref"}, Return(h) PROVE ReplyInv' /\ Visible
  BY <1>10, <1>a DEF Return, Leave, postVars
<1>11. ASSUME NEW h \in {"none", "ref", "unref"}, Throw(h) \/ ThrowOdd(h) PROVE ReplyInv' /\ Visible
  <2>1. UNCHANGED <<inbox, postVars>>
    BY <1>11 DEF Throw, ThrowOdd, Leave
  <2> QED
    BY <1>0, <1>11, <1>a, <1>b, <2>1, ThrowIsFirstCall DEF postVars, Values
<1>12. CASE Exit \/ UNCHANGED vars
  BY <1>12, <1>a DEF Exit, vars, postVars
<1> QED
  BY <1>1, <1>2, <1>3, <1>4, <1>5, <1>6, <1>7, <1>8, <1>9, <1>10, <1>11, <1>12
  DEF Next, Step, Rest

\* The three invariants hold in every reachable state.
LEMMA InvariantsHold == Spec => []Invariants
<1>1. Init => Invariants
  BY InitInvariants
<1>2. Invariants /\ [Next]_vars => Invariants'
  BY NextTypeOK, NextFreshInv, NextReplyInv DEF Invariants
<1> QED
  BY <1>1, <1>2, PTL DEF Spec

\* Every state of the loop of Node.js 4 and 6 is well typed, with no bound on
\* the number of scheduled iterations and open polls.
THEOREM TypeCorrect == Spec => []TypeOK
<1>1. Invariants => TypeOK
  BY DEF Invariants
<1> QED
  BY <1>1, InvariantsHold, PTL

\* The loop of Node.js 4 and 6 implements the contract: a request is taken once
\* and a first answer is posted for it at most once, however ticks, streams,
\* failed posts and exceptions of other requests race.
THEOREM LegacyImplementsContract == Spec => ContractSpec
<1>1. Init => Contract!Init
  BY DEF Init, Contract!Init
<1>2. Invariants /\ [Next]_vars => [Contract!Next]_(Contract!contractVars)
  <2> SUFFICES ASSUME Invariants, [Next]_vars PROVE [Contract!Next]_(Contract!contractVars)
    OBVIOUS
  <2>1. CASE UNCHANGED <<inbox, posted>>
    BY <2>1 DEF Contract!contractVars
  <2>2. CASE posted' = posted /\ \E r \in inbox : inbox' = inbox \ {r}
    BY <2>2 DEF Invariants, TypeOK, Contract!Next, Contract!Take
  <2>3. CASE inbox' = inbox /\ \E r \in Requests : FirstAnswer(r)
    BY <2>3 DEF FirstAnswer, Contract!Next, Contract!Answer
  <2> QED
    BY <2>1, <2>2, <2>3, NextReplyInv DEF Visible
<1> QED
  BY <1>1, <1>2, InvariantsHold, PTL DEF Spec, ContractSpec, Contract!Spec
-----------------------------------------------------------------------------
(* One request at a time.                                                  *)

\* A first call while user code runs, or while a post of the current request is
\* out, belongs to the current request, and no iteration is on its way then.
LEMMA FirstCallKeepsSingle ==
  ASSUME ServesOne, Invariants, SingleInv,
         current \in Requests, NEW v, FirstCall(current, v),
         iterations + polls = 0, UNCHANGED <<loopVars, current, streams, sending>>,
         \A r \in Requests : handles'[r] # "unref",
         \A r \in Requests \ {current} :
           r \notin consumed => running' # r /\ handles'[r] = "none"
  PROVE  SingleInv'
<1>1. \A r \in Requests \ {current} : ticks'[r] = ticks[r]
  BY DEF FirstCall, Invariants, TypeOK
<1>2. /\ \A r \in Requests \ consumed' : running' = r \/ handles'[r] # "none" => current = r
      /\ \A r \in Requests : ticks'[r] # "none" \/ r \in streams \cup sending => current = r
  BY <1>1 DEF FirstCall, SingleInv
<1>3. iterations' + polls' = 0
  BY DEF loopVars
<1> QED
  BY <1>2, <1>3 DEF SingleInv

\* While code runs that is not answered, or the current request is not answered
\* and any code runs, no iteration is on its way.
LEMMA BusyMeansNoIteration ==
  ASSUME ServesOne, Invariants, SingleInv,
         \/ running \in Requests \ consumed
         \/ running # NoRequest /\ current \in Requests \ consumed
         \/ \E r \in Requests : ticks[r] # "none" \/ r \in streams \cup sending
  PROVE  iterations = 0 /\ polls = 0
<1>1. iterations \in Nat /\ polls \in Nat /\ iterations + polls <= 1
  BY DEF Invariants, TypeOK, SingleInv
<1>2. iterations + polls # 1
  BY DEF SingleInv
<1> QED
  BY <1>1, <1>2

\* Where one request is served at a time, code that gives the thread back leaves
\* no handle that the event loop would not wait for.
LEMMA LeaveUnrefsNothing ==
  ASSUME ServesOne, Invariants, SingleInv, NEW h \in {"none", "ref", "unref"}, Leave(h)
  PROVE  \A r \in Requests : handles'[r] # "unref"
<1>1. h # "unref" /\ handles' = [handles EXCEPT ![running] = h]
  BY DEF Leave, ServesOne
<1>2. \A r \in Requests : handles[r] # "unref"
  BY DEF SingleInv
<1> QED
  BY <1>1, <1>2 DEF Invariants, TypeOK

\* Code that gives the thread back without a first call.
LEMMA LeaveKeepsSingle ==
  ASSUME ServesOne, Invariants, SingleInv,
         NEW h \in {"none", "ref", "unref"}, Leave(h), UNCHANGED callbackVars
  PROVE  SingleInv'
<1>1. /\ running \in Requests /\ running' = NoRequest /\ running # NoRequest
      /\ handles' = [handles EXCEPT ![running] = h]
      /\ UNCHANGED <<iterations, polls, current, consumed, ticks, streams, sending>>
  BY LegacyAssumption DEF Leave, loopVars, callbackVars, postVars
<1>2. /\ \A r \in Requests \ {running} : handles'[r] = handles[r]
      /\ \A r \in Requests : handles'[r] # "unref"
  BY <1>1, LeaveUnrefsNothing DEF Invariants, TypeOK
<1>3. iterations + polls = 1 => running \notin Requests \ consumed /\ current \notin Requests \ consumed
  BY <1>1 DEF SingleInv
<1> QED
  BY <1>1, <1>2, <1>3, LegacyAssumption DEF SingleInv

\* Code that gives the thread back and calls a callback for the first time: it is
\* that of the current request.
LEMMA ThrowKeepsSingle ==
  ASSUME ServesOne, Invariants, SingleInv,
         NEW h \in {"none", "ref", "unref"}, Leave(h), NEW v,
         \/ running \in Requests /\ FirstCall(running, v)
         \/ current \in Requests /\ FirstCall(current, v)
  PROVE  SingleInv'
<1>1. /\ running \in Requests /\ running' = NoRequest /\ running # NoRequest
      /\ handles' = [handles EXCEPT ![running] = h]
      /\ UNCHANGED <<loopVars, current, streams, sending>>
  BY LegacyAssumption DEF Leave, postVars
<1>2. current \in Requests \ consumed /\ FirstCall(current, v)
  BY <1>1 DEF FirstCall, SingleInv
<1>3. iterations + polls = 0
  BY <1>1, <1>2, BusyMeansNoIteration
<1>4. \A r \in Requests \ {current} : r \notin consumed => running' # r /\ handles'[r] = "none"
  <2> TAKE r \in Requests \ {current}
  <2>1. SUFFICES ASSUME r \notin consumed PROVE running' # r /\ handles'[r] = "none"
    OBVIOUS
  <2>2. running # r /\ handles[r] = "none"
    BY <2>1 DEF SingleInv
  <2> QED
    BY <1>1, <2>2, LegacyAssumption DEF Invariants, TypeOK
<1> QED
  BY <1>1, <1>2, <1>3, <1>4, FirstCallKeepsSingle, LeaveUnrefsNothing

\* Every step of single mode keeps SingleInv.
LEMMA NextSingleInv ==
  ASSUME Invariants, SingleInv, [Next]_vars
  PROVE  SingleInv'
<1>e. ServesOne' = ServesOne
  BY DEF Next, vars, startVars, ServesOne
<1> SUFFICES ASSUME ServesOne PROVE SingleInv'
  BY <1>e DEF SingleInv
<1>u. ~EnableConcurrentInvoke /\ \A r \in Requests : handles[r] # "unref"
  BY DEF ServesOne, SingleInv
<1>0. TypeOK /\ ReplyInv /\ iterations \in Nat /\ polls \in Nat
  BY DEF Invariants, TypeOK
<1>a. ASSUME UNCHANGED <<loopVars, current, callbackVars, streams, sending, running, handles>>
      PROVE  SingleInv'
  BY <1>a DEF SingleInv, loopVars, callbackVars
<1>1. CASE StartPoll
  <2>1. /\ iterations > 0 /\ iterations' = iterations - 1 /\ polls' = polls + 1
        /\ UNCHANGED <<current, consumed, ticks, streams, sending, running, handles>>
    BY <1>1 DEF StartPoll, callbackVars, postVars, userVars
  <2>2. iterations' + polls' = iterations + polls
    BY <1>0, <2>1
  <2> QED
    BY <2>1, <2>2 DEF SingleInv
<1>2. CASE BeforeExit
  <2>1. /\ running = NoRequest /\ iterations + polls = 0 /\ streams \cup sending = {}
        /\ \A r \in Requests : ticks[r] = "none" /\ handles[r] = "none"
        /\ iterations' = iterations + 1
        /\ UNCHANGED <<polls, current, consumed, ticks, streams, sending, running, handles>>
    BY <1>0, <1>2, <1>u DEF TypeOK, BeforeExit, LoopIsFree, LoopIsEmpty, callbackVars, postVars, userVars
  <2>2. iterations' + polls' = 1
    BY <1>0, <2>1
  <2> QED
    BY <2>1, <2>2, LegacyAssumption DEF SingleInv
<1>3. CASE PollFails
  <2>1. /\ polls > 0 /\ polls' = polls - 1
        /\ UNCHANGED <<iterations, current, consumed, ticks, streams, sending, running, handles>>
    BY <1>3 DEF PollFails, callbackVars, postVars, userVars
  <2>2. iterations + polls <= 1
    BY DEF SingleInv
  <2>3. iterations' + polls' = 0
    BY <1>0, <2>1, <2>2
  <2> QED
    BY <2>1, <2>3 DEF SingleInv
<1>4. ASSUME NEW r \in Requests, EndPoll(r) PROVE SingleInv'
  <2>1. /\ polls > 0 /\ polls' = polls - 1 /\ current' = r /\ running' = r
        /\ UNCHANGED <<iterations, consumed, ticks, streams, sending, handles>>
    BY <1>0, <1>u, <1>4 DEF EndPoll, callbackVars, postVars
  <2>2. iterations + polls <= 1
    BY DEF SingleInv
  <2>3. iterations + polls = 1 /\ iterations' + polls' = 0
    BY <1>0, <2>1, <2>2
  <2> QED
    BY <2>1, <2>3 DEF SingleInv
<1>5. ASSUME NEW r \in Requests, Digest(r) PROVE SingleInv'
  <2>1. /\ ticks[r] # "none" /\ r \in consumed
        /\ UNCHANGED <<loopVars, current, running, handles>>
    BY <1>5, DigestCases DEF Digest, userVars
  <2>2. r = current /\ current \in consumed
    BY <2>1 DEF SingleInv
  <2>3. /\ consumed' = consumed /\ streams' \cup sending' \subseteq streams \cup sending \cup {r}
        /\ ticks' = [ticks EXCEPT ![r] = "none"]
    BY <1>5, <2>2, DigestCases DEF Send, postVars
  <2>4. iterations' + polls' = 0
    BY <2>1, BusyMeansNoIteration DEF loopVars
  <2>5. \A s \in Requests : ticks'[s] # "none" => ticks[s] # "none"
    BY <1>0, <2>3 DEF TypeOK
  <2> QED
    BY <2>1, <2>2, <2>3, <2>4, <2>5 DEF SingleInv, loopVars
<1>6. ASSUME NEW r \in Requests, NEW end \in {"result", "error", "stall"}, EndStream(r, end) PROVE SingleInv'
  <2>1. /\ r \in streams /\ streams' \cup sending' \subseteq streams \cup sending
        /\ UNCHANGED <<loopVars, current, consumed, ticks, running, handles>>
    BY <1>6 DEF EndStream, Send, callbackVars, userVars
  <2>2. iterations' + polls' = 0
    BY <2>1, BusyMeansNoIteration DEF loopVars
  <2> QED
    BY <2>1, <2>2 DEF SingleInv, loopVars
<1>7. ASSUME NEW r \in Requests, PostEnds(r) PROVE SingleInv'
  <2>1. /\ r \in sending /\ sending' = sending \ {r}
        /\ iterations' = iterations \/ iterations' = iterations + 1
        /\ \A s \in Requests : ticks[s] = "none"
        /\ UNCHANGED <<polls, current, consumed, ticks, streams, running, handles>>
    BY <1>0, <1>7 DEF PostEnds, LoopIsFree, callbackVars, userVars
  <2>2. iterations = 0 /\ polls = 0
    BY <2>1, BusyMeansNoIteration
  <2>3. iterations' + polls' <= 1
    BY <2>1, <2>2
  <2>4. current = r /\ r \in consumed /\ r \notin streams
    BY <1>0, <2>1 DEF SingleInv, ReplyInv
  <2>5. streams' \cup sending' = {}
    BY <1>0, <2>1, <2>4 DEF SingleInv, TypeOK
  <2>6. \A s \in Requests \ consumed : running # s /\ handles[s] = "none"
    BY <2>4 DEF SingleInv
  <2> QED
    BY <2>1, <2>3, <2>4, <2>5, <2>6 DEF SingleInv
<1>8. ASSUME NEW r \in Requests, PostFails(r) PROVE SingleInv'
  <2>1. /\ r \in sending /\ sending' = sending \ {r} /\ FailCurrent
        /\ UNCHANGED <<loopVars, current, streams, running, handles>>
    BY <1>8 DEF PostFails, userVars
  <2>2. current = r /\ r \in consumed
    BY <1>0, <2>1 DEF SingleInv, ReplyInv
  <2>3. UNCHANGED callbackVars
    BY <2>1, <2>2 DEF FailCurrent, Consume
  <2>4. iterations' + polls' = 0
    BY <2>1, BusyMeansNoIteration DEF loopVars
  <2> QED
    BY <2>1, <2>3, <2>4 DEF SingleInv, callbackVars, loopVars
<1>9. ASSUME NEW r \in Requests, NEW f \in {"task", "promise"}, Resume(r, f) PROVE SingleInv'
  <2>1. /\ handles[r] # "none" /\ running = NoRequest /\ running' = r
        /\ handles' = [handles EXCEPT ![r] = "none"]
        /\ UNCHANGED <<iterations, polls, current, consumed, ticks, streams, sending>>
    BY <1>9 DEF Resume, LoopIsFree, loopVars, callbackVars, postVars
  <2>2. \A s \in Requests : handles'[s] # "none" => handles'[s] = handles[s]
    BY <1>0, <2>1 DEF TypeOK
  <2>3. iterations + polls = 1 => r \in consumed /\ current \notin Requests \ consumed
    BY <2>1 DEF SingleInv
  <2> QED
    BY <2>1, <2>2, <2>3 DEF SingleInv
<1>10. ASSUME NEW v \in ReplyValues, CallCallback(v) PROVE SingleInv'
  <2>1. /\ running \in Requests \ consumed /\ FirstCall(running, v)
        /\ UNCHANGED <<loopVars, current, streams, sending, running, handles>>
    BY <1>10 DEF CallCallback, Consume, FirstCall, postVars, userVars
  <2>2. current = running
    BY <2>1 DEF SingleInv
  <2>3. iterations + polls = 0
    BY <2>1, BusyMeansNoIteration
  <2>4. \A s \in Requests \ {current} : s \notin consumed => running' # s /\ handles'[s] = "none"
    BY <2>1 DEF SingleInv
  <2>5. \A s \in Requests : handles'[s] # "unref"
    BY <1>u, <2>1
  <2> QED
    BY <2>1, <2>2, <2>3, <2>4, <2>5, FirstCallKeepsSingle
<1>11. ASSUME NEW b \in BOOLEAN, SetWaitForEmpty(b) PROVE SingleInv'
  BY <1>11, <1>a DEF SetWaitForEmpty, postVars, userVars
<1>12. ASSUME NEW h \in {"none", "ref", "unref"}, Return(h) PROVE SingleInv'
  BY <1>12, LeaveKeepsSingle DEF Return
<1>13. ASSUME NEW h \in {"none", "ref", "unref"}, Throw(h) \/ ThrowOdd(h) PROVE SingleInv'
  <2>1. Leave(h)
    BY <1>13 DEF Throw, ThrowOdd
  <2> QED
    BY <1>0, <1>13, <2>1, ThrowIsFirstCall, LeaveKeepsSingle, ThrowKeepsSingle
<1>14. CASE Exit \/ UNCHANGED vars
  BY <1>14, <1>a DEF Exit, vars, postVars, userVars
<1> QED
  BY <1>1, <1>2, <1>3, <1>4, <1>5, <1>6, <1>7, <1>8, <1>9, <1>10, <1>11, <1>12, <1>13,
     <1>14 DEF Next, Step, Rest

\* In single mode, and as long as user code unrefs no timer, Node.js 4 and 6 ask
\* for no further request while an answer is on its way or still to be made by
\* code that can run: the reply to a post, a failed post and "beforeExit" never
\* schedule two iterations between them.
THEOREM LegacyServesOne == Spec => []OneAtATime
<1>1. Init => SingleInv
  BY LegacyAssumption DEF Init, SingleInv
<1>2. Invariants /\ SingleInv /\ [Next]_vars => SingleInv'
  BY NextSingleInv
<1>3. SingleInv => OneAtATime
  BY DEF SingleInv, OneAtATime
<1> QED
  BY <1>1, <1>2, <1>3, InvariantsHold, PTL DEF Spec
=============================================================================
