------------------------- MODULE NodeRuntimeProofs -------------------------
(***************************************************************************)
(* Theorems about NodeRuntime, for any number of requests, any user code   *)
(* and any number of poll failures.                                        *)
(***************************************************************************)
EXTENDS NodeRuntime, TLAPS

-----------------------------------------------------------------------------
(* What the callback's operators do to the variables they assign.          *)

\* The part of TypeOK about the variables Consume and Post assign.
ReplyTypeOK ==
  /\ iterations \in Nat
  /\ consumed \subseteq Requests
  /\ streams \subseteq Requests
  /\ replies \in [Requests -> Seq({"result", "error"})]

\* Posting an answer, or failing to, keeps the types.
LEMMA PostType ==
  ASSUME ReplyTypeOK, NEW r \in Requests, NEW k \in {"result", "error"}, Post(r, k)
  PROVE  /\ iterations' \in Nat
         /\ replies' \in [Requests -> Seq({"result", "error"})]
<1>1. CASE UNCHANGED <<replies, iterations>>
  BY <1>1 DEF ReplyTypeOK
<1>2. CASE /\ replies' = [replies EXCEPT ![r] = Append(@, k)]
           /\ iterations' \in {iterations, iterations + 1}
  <2>1. Append(replies[r], k) \in Seq({"result", "error"})
    BY DEF ReplyTypeOK
  <2> QED
    BY <1>2, <2>1 DEF ReplyTypeOK
<1> QED
  BY <1>1, <1>2 DEF Post

\* So does a call of a request's callback.
LEMMA ConsumeType ==
  ASSUME ReplyTypeOK, NEW r \in Requests, NEW v \in Values, Consume(r, v)
  PROVE  ReplyTypeOK'
<1>1. CASE r \in consumed
  BY <1>1 DEF Consume, replyVars, ReplyTypeOK
<1>2. CASE r \notin consumed
  <2>1. consumed' = consumed \cup {r} /\ Digest(r, v)
    BY <1>2 DEF Consume
  <2>2. CASE v \in {"result", "error"} /\ Post(r, v) /\ UNCHANGED streams
    BY <2>1, <2>2, PostType DEF ReplyTypeOK
  <2>3. CASE v = "stream"
    BY <2>1, <2>3 DEF Digest, ReplyTypeOK
  <2>4. CASE v = "broken"
    BY <2>1, <2>4 DEF Digest, ReplyTypeOK
  <2> QED
    BY <2>1, <2>2, <2>3, <2>4 DEF Digest, Values
<1> QED
  BY <1>1, <1>2

\* And an error reported to the current callback.
LEMMA FailCurrentType ==
  ASSUME ReplyTypeOK, current \in Requests \cup {NoRequest}, FailCurrent
  PROVE  ReplyTypeOK'
<1>1. CASE current = NoRequest
  BY <1>1 DEF FailCurrent, replyVars, ReplyTypeOK
<1>2. CASE current # NoRequest
  <2>1. current \in Requests /\ Consume(current, "error")
    BY <1>2 DEF FailCurrent
  <2> QED
    BY <2>1, ConsumeType DEF Values
<1> QED
  BY <1>1, <1>2

-----------------------------------------------------------------------------
(* Type correctness.                                                       *)

\* TypeOK holds initially.
LEMMA InitTypeOK == Init => TypeOK
<1> SUFFICES ASSUME Init PROVE TypeOK
  OBVIOUS
<1>1. replies \in [Requests -> Seq({"result", "error"})]
  BY DEF Init
<1>2. handles \in [Requests -> {"none", "ref", "unref"}] /\ turns \in [Requests -> 0 .. MaxTurns]
  BY EnvironmentAssumption DEF Init
<1>3. alive \in BOOLEAN /\ useUnblockClient \in BOOLEAN /\ waitForEmpty \in BOOLEAN /\ createFromSnapshot \in BOOLEAN
  BY ModeAssumption, Zenon DEF Init
<1>4. /\ inbox \subseteq Requests /\ scheduled \subseteq Requests
      /\ consumed \subseteq Requests /\ streams \subseteq Requests
      /\ current = NoRequest /\ running = NoRequest /\ stray = NoRequest /\ frame = "sync"
  BY DEF Init
<1>5. iterations \in Nat /\ polls \in Nat /\ pollFailures \in 0 .. MaxPollFailures
  BY EnvironmentAssumption DEF Init
<1> QED
  BY <1>1, <1>2, <1>3, <1>4, <1>5 DEF TypeOK

\* Every step keeps it.
LEMMA NextTypeOK == TypeOK /\ [Next]_vars => TypeOK'
<1> SUFFICES ASSUME TypeOK, [Next]_vars PROVE TypeOK'
  OBVIOUS
<1> USE ModeAssumption, EnvironmentAssumption
<1>0. ReplyTypeOK /\ current \in Requests \cup {NoRequest}
  BY DEF TypeOK, ReplyTypeOK
<1>1. CASE StartPoll
  BY <1>1 DEF StartPoll, TypeOK, userVars, modeVars, platformVars
<1>2. CASE PollFails
  <2>1. ReplyTypeOK'
    BY <1>0, <1>2, FailCurrentType DEF PollFails, replyVars, ReplyTypeOK
  <2>2. /\ polls' = polls - 1 /\ polls > 0
        /\ pollFailures < MaxPollFailures /\ pollFailures' = pollFailures + 1
        /\ UNCHANGED <<inbox, scheduled, current, userVars, modeVars>>
    BY <1>2 DEF PollFails
  <2> QED
    BY <2>1, <2>2 DEF TypeOK, ReplyTypeOK, userVars, modeVars
<1>3. CASE BeforeExit
  BY <1>3 DEF BeforeExit, TypeOK, userVars, modeVars, platformVars
<1>4. ASSUME NEW r \in Requests, TakeBlocking(r) PROVE TypeOK'
  BY <1>4 DEF TakeBlocking, EndPoll, TypeOK, userVars, modeVars
<1>5. ASSUME NEW r \in Requests, TakeUnblock(r) PROVE TypeOK'
  <2>1. polls' \in Nat /\ inbox' \subseteq Requests /\ pollFailures' = pollFailures
    BY <1>5 DEF TakeUnblock, EndPoll, TypeOK
  <2>2. InvokeFunction(r) /\ iterations' \in Nat /\ scheduled' = scheduled
    BY <1>5 DEF TakeUnblock, TypeOK
  <2> QED
    BY <2>1, <2>2 DEF InvokeFunction, TypeOK
<1>6. ASSUME NEW r \in Requests, TakeConcurrent(r) PROVE TypeOK'
  <2>1. polls' \in Nat /\ inbox' \subseteq Requests /\ pollFailures' = pollFailures
    BY <1>6 DEF TakeConcurrent, EndPoll, TypeOK
  <2>2. InvokeFunction(r) /\ iterations' \in Nat /\ scheduled' = scheduled
    BY <1>6 DEF TakeConcurrent, TypeOK
  <2> QED
    BY <2>1, <2>2 DEF InvokeFunction, TypeOK
<1>7. ASSUME NEW r \in Requests, RunScheduled(r) PROVE TypeOK'
  BY <1>7 DEF RunScheduled, InvokeFunction, TypeOK, platformVars
<1>8. ASSUME NEW r \in Requests, NEW f \in {"task", "promise"}, Resume(r, f) PROVE TypeOK'
  BY <1>8 DEF Resume, TypeOK, loopVars, modeVars, platformVars
<1>9. ASSUME NEW r \in Requests, NEW end \in StreamEnds, EndStream(r, end) PROVE TypeOK'
  <2>1. iterations' \in Nat /\ replies' \in [Requests -> Seq({"result", "error"})]
    BY <1>0, <1>9, PostType DEF EndStream, ReplyTypeOK
  <2>2. stray' \in Requests \cup {NoRequest}
    BY <1>9 DEF EndStream
  <2> QED
    BY <1>9, <2>1, <2>2 DEF EndStream, TypeOK, modeVars, platformVars
<1>10. ASSUME NEW v \in Values, CallCallback(v) PROVE TypeOK'
  <2>1. running \in Requests /\ Consume(running, v)
    BY <1>10 DEF CallCallback
  <2>2. ReplyTypeOK'
    BY <1>0, <2>1, ConsumeType
  <2> QED
    BY <1>10, <2>2 DEF CallCallback, TypeOK, ReplyTypeOK, userVars, modeVars, platformVars
<1>11. ASSUME NEW x \in BOOLEAN, SetWaitForEmpty(x) PROVE TypeOK'
  BY <1>11 DEF SetWaitForEmpty, TypeOK, loopVars, userVars, platformVars
<1>12. ASSUME NEW h \in {"none", "ref", "unref"}, Return(h) PROVE TypeOK'
  BY <1>12 DEF Return, Leave, TypeOK, loopVars, modeVars, platformVars
<1>13. ASSUME NEW h \in {"none", "ref", "unref"}, ThrowCaught(h) PROVE TypeOK'
  <2>1. running \in Requests /\ \E v \in Values : Consume(running, v)
    BY <1>13 DEF ThrowCaught, Values
  <2>2. ReplyTypeOK'
    BY <1>0, <2>1, ConsumeType
  <2> QED
    BY <1>13, <2>2 DEF ThrowCaught, Leave, TypeOK, ReplyTypeOK, modeVars, platformVars
<1>14. ASSUME NEW h \in {"none", "ref", "unref"}, ThrowNullish(h) PROVE TypeOK'
  <2>1. ReplyTypeOK'
    BY <1>0, <1>14, FailCurrentType DEF ThrowNullish, replyVars, ReplyTypeOK
  <2> QED
    BY <1>14, <2>1 DEF ThrowNullish, Leave, TypeOK, ReplyTypeOK, modeVars, platformVars
<1>15. ASSUME NEW h \in {"none", "ref", "unref"}, ThrowUncaught(h) PROVE TypeOK'
  BY <1>15 DEF ThrowUncaught, Leave, TypeOK, modeVars, platformVars
<1>16. CASE Exit
  BY <1>16 DEF Exit, TypeOK, loopVars, userVars, platformVars
<1>17. CASE UNCHANGED vars
  BY <1>17 DEF vars, TypeOK, loopVars, userVars, modeVars, platformVars
<1>18. CASE Rest
  BY <1>17, <1>18 DEF Rest
<1>19. CASE HandleUncaught
  <2>1. ReplyTypeOK'
    BY <1>0, <1>19, FailCurrentType DEF HandleUncaught
  <2> QED
    BY <1>19, <2>1 DEF HandleUncaught, TypeOK, ReplyTypeOK, platformVars
<1> QED
  BY <1>1, <1>2, <1>3, <1>4, <1>5, <1>6, <1>7, <1>8, <1>9, <1>10, <1>11, <1>12,
     <1>13, <1>14, <1>15, <1>16, <1>17, <1>18, <1>19 DEF Next, RuntimeStep, UserStep

\* Every state of the invocation loop is well typed, with no bound on the
\* number of scheduled iterations and open polls.
THEOREM TypeCorrect == Spec => []TypeOK
<1>1. Init => TypeOK
  BY InitTypeOK
<1>2. TypeOK /\ [Next]_vars => TypeOK'
  BY NextTypeOK
<1> QED
  BY <1>1, <1>2, PTL DEF Spec

-----------------------------------------------------------------------------
(* Requests that are not started yet.                                      *)

\* Calling r's callback can only mark r as consumed.
LEMMA ConsumeMarks ==
  ASSUME NEW r, NEW v, Consume(r, v)
  PROVE  consumed' = consumed \/ consumed' = consumed \cup {r}
BY DEF Consume, replyVars

\* Reporting an error can only mark the current request.
LEMMA FailCurrentMarks ==
  ASSUME FailCurrent
  PROVE  consumed' = consumed \/ consumed' = consumed \cup {current}
BY ConsumeMarks DEF FailCurrent, replyVars

\* A step that starts no request, and touches only the running and the current
\* one, leaves the requests that are not started alone.
LEMMA FreshKept ==
  ASSUME TypeOK, FreshInv, inbox' = inbox, scheduled' = scheduled, current' = current,
         running' \in {running, NoRequest},
         consumed' \subseteq consumed \cup {running, current},
         \A r \in Requests \ {running} : handles'[r] = handles[r]
  PROVE  FreshInv'
BY ModeAssumption DEF TypeOK, FreshInv, Untouched

\* A request that starts leaves the inbox or the set of scheduled requests.
LEMMA FreshStarts ==
  ASSUME TypeOK, FreshInv, NEW r \in Requests, running' = r, current' = r,
         consumed' = consumed, handles' = handles,
         \/ inbox' = inbox \ {r} /\ scheduled' = scheduled /\ r \in inbox
         \/ scheduled' = scheduled \ {r} /\ inbox' = inbox /\ r \in scheduled
  PROVE  FreshInv'
BY DEF TypeOK, FreshInv, Untouched

\* Every step keeps FreshInv.
LEMMA NextFreshInv == TypeOK /\ FreshInv /\ [Next]_vars => FreshInv'
<1> SUFFICES ASSUME TypeOK, FreshInv, [Next]_vars PROVE FreshInv'
  OBVIOUS
<1>1. CASE StartPoll
  BY <1>1, FreshKept DEF StartPoll, userVars, platformVars
<1>2. CASE PollFails
  <2>1. consumed' \subseteq consumed \cup {running, current}
    BY <1>2, FailCurrentMarks DEF PollFails, replyVars
  <2> QED
    BY <1>2, <2>1, FreshKept DEF PollFails, userVars
<1>3. CASE BeforeExit
  BY <1>3, FreshKept DEF BeforeExit, userVars, platformVars
<1>4. ASSUME NEW r \in Requests, TakeBlocking(r) PROVE FreshInv'
  BY <1>4 DEF TakeBlocking, EndPoll, FreshInv, Untouched, userVars
<1>5. ASSUME NEW r \in Requests, TakeUnblock(r) PROVE FreshInv'
  BY <1>5, FreshStarts DEF TakeUnblock, EndPoll, InvokeFunction
<1>6. ASSUME NEW r \in Requests, TakeConcurrent(r) PROVE FreshInv'
  BY <1>6, FreshStarts DEF TakeConcurrent, EndPoll, InvokeFunction
<1>7. ASSUME NEW r \in Requests, RunScheduled(r) PROVE FreshInv'
  BY <1>7, FreshStarts DEF RunScheduled, InvokeFunction, platformVars
<1>8. ASSUME NEW r \in Requests, NEW f \in {"task", "promise"}, Resume(r, f) PROVE FreshInv'
  <2>1. /\ running' = r /\ handles[r] # "none"
        /\ handles' = [handles EXCEPT ![r] = "none"]
        /\ UNCHANGED <<inbox, scheduled, current, consumed>>
    BY <1>8 DEF Resume, loopVars, platformVars
  <2> QED
    BY <2>1 DEF TypeOK, FreshInv, Untouched
<1>9. ASSUME NEW r \in Requests, NEW end \in StreamEnds, EndStream(r, end) PROVE FreshInv'
  BY <1>9, FreshKept DEF EndStream, platformVars
<1>10. ASSUME NEW v \in Values, CallCallback(v) PROVE FreshInv'
  <2>1. consumed' \subseteq consumed \cup {running, current}
    BY <1>10, ConsumeMarks DEF CallCallback
  <2> QED
    BY <1>10, <2>1, FreshKept DEF CallCallback, userVars, platformVars
<1>11. ASSUME NEW x \in BOOLEAN, SetWaitForEmpty(x) PROVE FreshInv'
  BY <1>11, FreshKept DEF SetWaitForEmpty, loopVars, userVars, platformVars
<1>12. ASSUME NEW h \in {"none", "ref", "unref"}, NEW e, Leave(h, e),
              consumed' \subseteq consumed \cup {running, current},
              inbox' = inbox, scheduled' = scheduled, current' = current
       PROVE  FreshInv'
  <2>1. \A r \in Requests \ {running} : handles'[r] = handles[r]
    BY <1>12 DEF Leave, TypeOK
  <2> QED
    BY <1>12, <2>1, FreshKept DEF Leave
<1>13. ASSUME NEW h \in {"none", "ref", "unref"}, Return(h) PROVE FreshInv'
  BY <1>12, <1>13 DEF Return, loopVars, platformVars
<1>14. ASSUME NEW h \in {"none", "ref", "unref"}, ThrowCaught(h) PROVE FreshInv'
  <2>1. consumed' \subseteq consumed \cup {running, current}
    BY <1>14, ConsumeMarks DEF ThrowCaught
  <2> QED
    BY <1>12, <1>14, <2>1 DEF ThrowCaught, platformVars
<1>15. ASSUME NEW h \in {"none", "ref", "unref"}, ThrowNullish(h) PROVE FreshInv'
  <2>1. consumed' \subseteq consumed \cup {running, current}
    BY <1>15, FailCurrentMarks DEF ThrowNullish, replyVars
  <2> QED
    BY <1>12, <1>15, <2>1 DEF ThrowNullish, platformVars
<1>16. ASSUME NEW h \in {"none", "ref", "unref"}, ThrowUncaught(h) PROVE FreshInv'
  BY <1>12, <1>16 DEF ThrowUncaught, platformVars
<1>17. CASE Exit
  BY <1>17, FreshKept DEF Exit, loopVars, userVars, platformVars
<1>18. CASE UNCHANGED vars
  BY <1>18, FreshKept DEF vars, loopVars, userVars, platformVars
<1>19. CASE Rest
  BY <1>18, <1>19 DEF Rest
<1>20. CASE HandleUncaught
  <2>1. consumed' \subseteq consumed \cup {running, current}
    BY <1>20, FailCurrentMarks DEF HandleUncaught
  <2> QED
    BY <1>20, <2>1, FreshKept DEF HandleUncaught, platformVars
<1> QED
  BY <1>1, <1>2, <1>3, <1>4, <1>5, <1>6, <1>7, <1>8, <1>9, <1>10, <1>11, <1>13,
     <1>14, <1>15, <1>16, <1>17, <1>18, <1>19, <1>20 DEF Next, RuntimeStep, UserStep

-----------------------------------------------------------------------------
(* At most one answer, and the contract with the platform.                 *)

\* The step answers r for the first time.
FirstAnswer(r) ==
  /\ replies[r] = <<>>
  /\ \E k \in {"result", "error"} : replies' = [replies EXCEPT ![r] = <<k>>]

\* Posting for a request that has no answer yet is its first answer, unless the
\* native call throws.
LEMMA PostAnswers ==
  ASSUME TypeOK, NEW r \in Requests, NEW k \in {"result", "error"},
         replies[r] = <<>>, Post(r, k)
  PROVE  FirstAnswer(r) \/ replies' = replies
<1>1. Append(replies[r], k) = <<k>>
  OBVIOUS
<1>2. replies' = [replies EXCEPT ![r] = <<k>>] \/ replies' = replies
  BY <1>1 DEF Post
<1> QED
  BY <1>2 DEF FirstAnswer

\* A first answer to a consumed request whose stream is done keeps ReplyInv.
LEMMA FirstAnswerKeeps ==
  ASSUME TypeOK, ReplyInv, NEW r \in Requests, FirstAnswer(r),
         r \in consumed', r \notin streams', consumed \subseteq consumed',
         consumed' \subseteq consumed \cup {r}, streams' \subseteq streams
  PROVE  ReplyInv'
<1>1. PICK k \in {"result", "error"} : replies' = [replies EXCEPT ![r] = <<k>>]
  BY DEF FirstAnswer
<1>2. Len(<<k>>) = 1
  OBVIOUS
<1>3. replies'[r] = <<k>> /\ \A s \in Requests \ {r} : replies'[s] = replies[s]
  BY <1>1 DEF TypeOK
<1>4. /\ Len(replies'[r]) <= 1
      /\ r \in consumed' /\ r \notin streams'
  BY <1>2, <1>3
<1>5. ASSUME NEW s \in Requests \ {r}
      PROVE  /\ Len(replies'[s]) <= 1
             /\ s \notin consumed' => replies'[s] = <<>>
             /\ s \in streams' => s \in consumed' /\ replies'[s] = <<>>
  BY <1>3 DEF ReplyInv
<1> QED
  BY <1>4, <1>5 DEF ReplyInv

\* The callback keeps ReplyInv and answers its own request or nobody.
LEMMA ConsumeKeeps ==
  ASSUME TypeOK, ReplyInv, NEW r \in Requests, NEW v \in Values, Consume(r, v)
  PROVE  ReplyInv' /\ (replies' = replies \/ FirstAnswer(r))
<1>1. CASE r \in consumed
  BY <1>1 DEF Consume, replyVars, ReplyInv
<1>2. CASE r \notin consumed
  <2>1. consumed' = consumed \cup {r} /\ Digest(r, v) /\ replies[r] = <<>> /\ r \notin streams
    BY <1>2 DEF Consume, ReplyInv
  <2>2. CASE v \in {"result", "error"} /\ Post(r, v) /\ UNCHANGED streams
    <3>1. CASE FirstAnswer(r)
      BY <2>1, <2>2, <3>1, FirstAnswerKeeps
    <3>2. CASE replies' = replies
      BY <2>1, <2>2, <3>2 DEF ReplyInv
    <3> QED
      BY <2>1, <2>2, <3>1, <3>2, PostAnswers
  <2>3. CASE v = "stream"
    BY <2>1, <2>3 DEF Digest, ReplyInv
  <2>4. CASE v = "broken"
    BY <2>1, <2>4 DEF Digest, ReplyInv
  <2> QED
    BY <2>1, <2>2, <2>3, <2>4 DEF Digest, Values
<1> QED
  BY <1>1, <1>2

\* So does an error reported to the current callback.
LEMMA FailCurrentKeeps ==
  ASSUME TypeOK, ReplyInv, FailCurrent
  PROVE  /\ ReplyInv'
         /\ \/ replies' = replies
            \/ current \in Requests /\ FirstAnswer(current)
<1>1. CASE current = NoRequest
  BY <1>1 DEF FailCurrent, replyVars, ReplyInv
<1>2. CASE current # NoRequest
  BY <1>2, ConsumeKeeps DEF FailCurrent, TypeOK, Values
<1> QED
  BY <1>1, <1>2

\* Nothing changes for a step that leaves the callbacks alone.
LEMMA ReplyKept ==
  ASSUME ReplyInv, UNCHANGED <<consumed, streams, replies>>
  PROVE  ReplyInv'
BY DEF ReplyInv

\* Every step keeps ReplyInv, and answers at most one request, which is not
\* waiting any more, for the first time.  The inbox changes only in steps that
\* answer nobody.
LEMMA NextReplyInv ==
  ASSUME TypeOK, FreshInv, ReplyInv, [Next]_vars
  PROVE  /\ ReplyInv'
         /\ \/ replies' = replies /\ inbox' = inbox
            \/ replies' = replies /\ \E r \in inbox : inbox' = inbox \ {r}
            \/ inbox' = inbox /\ \E r \in Requests \ inbox : FirstAnswer(r)
<1> DEFINE Goal == /\ ReplyInv'
                   /\ \/ replies' = replies /\ inbox' = inbox
                      \/ replies' = replies /\ \E r \in inbox : inbox' = inbox \ {r}
                      \/ inbox' = inbox /\ \E r \in Requests \ inbox : FirstAnswer(r)
<1>a. running \notin inbox /\ current \notin inbox /\ \A r \in streams : r \notin inbox
  BY DEF FreshInv, Untouched, ReplyInv, TypeOK
<1>b. ASSUME UNCHANGED <<inbox, consumed, streams, replies>> PROVE Goal
  BY <1>b, ReplyKept
<1>c. ASSUME NEW r \in Requests, EndPoll(r), UNCHANGED <<consumed, streams, replies>> PROVE Goal
  BY <1>c, ReplyKept DEF EndPoll
<1>1. CASE StartPoll
  BY <1>1, <1>b DEF StartPoll, platformVars
<1>2. CASE PollFails
  <2>1. inbox' = inbox /\ (FailCurrent \/ UNCHANGED replyVars)
    BY <1>2 DEF PollFails
  <2>2. CASE FailCurrent
    BY <1>a, <2>1, <2>2, FailCurrentKeeps
  <2>3. CASE UNCHANGED replyVars
    BY <1>b, <2>1, <2>3 DEF replyVars
  <2> QED
    BY <2>1, <2>2, <2>3
<1>3. CASE BeforeExit
  BY <1>3, <1>b DEF BeforeExit, platformVars
<1>4. ASSUME NEW r \in Requests, TakeBlocking(r) PROVE Goal
  BY <1>4, <1>c DEF TakeBlocking
<1>5. ASSUME NEW r \in Requests, TakeUnblock(r) PROVE Goal
  BY <1>5, <1>c DEF TakeUnblock, InvokeFunction
<1>6. ASSUME NEW r \in Requests, TakeConcurrent(r) PROVE Goal
  BY <1>6, <1>c DEF TakeConcurrent, InvokeFunction
<1>7. ASSUME NEW r \in Requests, RunScheduled(r) PROVE Goal
  BY <1>7, <1>b DEF RunScheduled, InvokeFunction, platformVars
<1>8. ASSUME NEW r \in Requests, NEW f \in {"task", "promise"}, Resume(r, f) PROVE Goal
  BY <1>8, <1>b DEF Resume, platformVars
<1>9. ASSUME NEW r \in Requests, NEW end \in StreamEnds, EndStream(r, end) PROVE Goal
  <2>1. /\ inbox' = inbox /\ r \notin inbox /\ r \in streams /\ r \in consumed
        /\ replies[r] = <<>> /\ streams' = streams \ {r} /\ consumed' = consumed
    BY <1>9, <1>a DEF EndStream, platformVars, ReplyInv
  <2>2. CASE end = "stall"
    BY <1>9, <2>1, <2>2 DEF EndStream, ReplyInv
  <2>3. CASE end # "stall"
    <3>1. end \in {"result", "error"} /\ Post(r, end)
      BY <1>9, <2>3, EnvironmentAssumption DEF EndStream
    <3>2. CASE FirstAnswer(r)
      BY <2>1, <3>2, FirstAnswerKeeps
    <3>3. CASE replies' = replies
      BY <2>1, <3>3 DEF ReplyInv
    <3> QED
      BY <2>1, <3>1, <3>2, <3>3, PostAnswers
  <2> QED
    BY <2>2, <2>3
<1>d. ASSUME NEW v \in Values, running \in Requests, Consume(running, v), inbox' = inbox PROVE Goal
  BY <1>a, <1>d, ConsumeKeeps
<1>e. ASSUME FailCurrent, inbox' = inbox PROVE Goal
  BY <1>a, <1>e, FailCurrentKeeps
<1>10. ASSUME NEW v \in Values, CallCallback(v) PROVE Goal
  BY <1>10, <1>d DEF CallCallback, platformVars
<1>11. ASSUME NEW x \in BOOLEAN, SetWaitForEmpty(x) PROVE Goal
  BY <1>11, <1>b DEF SetWaitForEmpty, platformVars
<1>12. ASSUME NEW h \in {"none", "ref", "unref"}, Return(h) PROVE Goal
  BY <1>12, <1>b DEF Return, platformVars
<1>13. ASSUME NEW h \in {"none", "ref", "unref"}, ThrowCaught(h) PROVE Goal
  <2>1. running \in Requests /\ inbox' = inbox /\ \E v \in Values : Consume(running, v)
    BY <1>13 DEF ThrowCaught, platformVars, Values
  <2> QED
    BY <1>d, <2>1
<1>14. ASSUME NEW h \in {"none", "ref", "unref"}, ThrowNullish(h) PROVE Goal
  BY <1>14, <1>b, <1>e DEF ThrowNullish, platformVars, replyVars
<1>15. ASSUME NEW h \in {"none", "ref", "unref"}, ThrowUncaught(h) PROVE Goal
  BY <1>15, <1>b DEF ThrowUncaught, platformVars
<1>16. CASE Exit
  BY <1>16, <1>b DEF Exit, platformVars
<1>17. CASE UNCHANGED vars
  BY <1>17, <1>b DEF vars, platformVars
<1>18. CASE Rest
  BY <1>17, <1>18 DEF Rest
<1>19. CASE HandleUncaught
  BY <1>19, <1>e DEF HandleUncaught, platformVars
<1> QED
  BY <1>1, <1>2, <1>3, <1>4, <1>5, <1>6, <1>7, <1>8, <1>9, <1>10, <1>11, <1>12, <1>13,
     <1>14, <1>15, <1>16, <1>17, <1>18, <1>19 DEF Next, RuntimeStep, UserStep

\* The two invariants hold in every reachable state.
LEMMA RepliesInvariant == Spec => [](TypeOK /\ FreshInv /\ ReplyInv)
<1>1. Init => TypeOK /\ FreshInv /\ ReplyInv
  <2> SUFFICES ASSUME Init PROVE FreshInv /\ ReplyInv
    BY InitTypeOK
  <2>1. Len(<<>>) = 0
    OBVIOUS
  <2> QED
    BY <2>1, ModeAssumption DEF Init, FreshInv, Untouched, ReplyInv
<1>2. TypeOK /\ FreshInv /\ ReplyInv /\ [Next]_vars => (TypeOK /\ FreshInv /\ ReplyInv)'
  BY NextTypeOK, NextFreshInv, NextReplyInv
<1> QED
  BY <1>1, <1>2, PTL DEF Spec

\* No request is answered twice, in single and in concurrent mode, whatever
\* user code, the platform and the poll do.
THEOREM NeverAnsweredTwice == Spec => []AtMostOneReply
<1>1. ReplyInv => AtMostOneReply
  BY DEF ReplyInv, AtMostOneReply
<1> QED
  BY <1>1, RepliesInvariant, PTL

\* The invocation loop implements the contract with the platform: every step
\* takes one waiting request, answers one taken request for the first time, or
\* is invisible to the platform.
THEOREM LoopImplementsContract == Spec => ContractSpec
<1>1. Init => Contract!Init
  BY DEF Init, Contract!Init
<1>2. TypeOK /\ FreshInv /\ ReplyInv /\ [Next]_vars => [Contract!Next]_(Contract!contractVars)
  <2> SUFFICES ASSUME TypeOK, FreshInv, ReplyInv, [Next]_vars
               PROVE  [Contract!Next]_(Contract!contractVars)
    OBVIOUS
  <2>1. CASE replies' = replies /\ inbox' = inbox
    BY <2>1 DEF Contract!contractVars
  <2>2. CASE replies' = replies /\ \E r \in inbox : inbox' = inbox \ {r}
    BY <2>2 DEF TypeOK, Contract!Next, Contract!Take
  <2>3. CASE inbox' = inbox /\ \E r \in Requests \ inbox : FirstAnswer(r)
    BY <2>3 DEF FirstAnswer, Contract!Next, Contract!Answer
  <2> QED
    BY <2>1, <2>2, <2>3, NextReplyInv
<1> QED
  BY <1>1, <1>2, RepliesInvariant, PTL DEF Spec, ContractSpec, Contract!Spec

-----------------------------------------------------------------------------
(* One request at a time.                                                  *)

\* Single mode, and user code whose pending work keeps the loop alive.
SingleMode == ~EnableConcurrentInvoke /\ "unref" \notin HandleKinds

\* A posted answer is an answer, and nobody else's; a post that throws and a
\* stream that is only opened are none.
LEMMA PostIsAnswer ==
  ASSUME TypeOK, NEW r \in Requests, NEW k \in {"result", "error"}, Post(r, k)
  PROVE  /\ replies'[r] # <<>> \/ (replies' = replies /\ iterations' = iterations)
         /\ \A s \in Requests \ {r} : replies'[s] = replies[s]
         /\ iterations' \in {iterations, iterations + 1}
<1>1. replies[r] \in Seq({"result", "error"})
  BY DEF TypeOK
<1>2. Append(replies[r], k) # <<>>
  <2>1. Len(Append(replies[r], k)) = Len(replies[r]) + 1 /\ Len(replies[r]) \in Nat
    BY <1>1
  <2>2. Len(Append(replies[r], k)) # 0
    BY <2>1
  <2>3. Append(replies[r], k) = <<>> => Len(Append(replies[r], k)) = 0
    OBVIOUS
  <2> QED
    BY <2>2, <2>3, Zenon
<1> QED
  BY <1>2 DEF Post, TypeOK

\* While user code runs, or an error of it is on its way, and the current
\* request is unanswered, nothing else is: no iteration, no poll, no scheduled
\* start, no open stream.
LEMMA BusyCurrent ==
  ASSUME SingleMode, TypeOK, ReplyInv, SingleInv, running # NoRequest \/ stray # NoRequest,
         current \in Requests \ consumed
  PROVE  streams = {} /\ scheduled = {} /\ iterations = 0 /\ polls = 0
<1>1. replies[current] = <<>>
  BY DEF ReplyInv
<1>2. ~Restarting
  BY <1>1 DEF SingleInv
<1>3. \A r \in streams : r \in Requests /\ r \in consumed /\ replies[r] = <<>> /\ Leftover(r)
  BY DEF ReplyInv, TypeOK, Leftover
<1>4. streams = {}
  BY <1>3 DEF SingleInv
<1> QED
  BY <1>2, <1>4 DEF Restarting, TypeOK

\* Once an iteration is on its way and no code runs, nothing is left of a
\* request without an answer.
LEMMA NothingLeft ==
  ASSUME TypeOK, SingleInv, Restarting, running = NoRequest, stray = NoRequest,
         NEW r \in Requests, replies[r] = <<>>
  PROVE  ~Leftover(r)
<1>1. CASE current = r
  <2>1. streams = {} /\ handles[r] = "none"
    BY <1>1 DEF SingleInv
  <2> QED
    BY <2>1, ModeAssumption DEF Leftover
<1>2. CASE current # r
  BY <1>2 DEF SingleInv
<1> QED
  BY <1>1, <1>2

\* What the callback of the current request does when it is its first call.
LEMMA ConsumeCurrent ==
  ASSUME SingleMode, TypeOK, current \in Requests \ consumed, streams = {},
         NEW v \in Values, Consume(current, v)
  PROVE  /\ consumed' = consumed \cup {current}
         /\ \A r \in Requests \ {current} : replies'[r] = replies[r]
         /\ replies'[current] # <<>> \/ iterations' = iterations
         /\ \/ streams' = {} /\ iterations' \in {iterations, iterations + 1}
            \/ streams' = {current} /\ iterations' = iterations
<1>1. consumed' = consumed \cup {current} /\ Digest(current, v)
  BY DEF Consume
<1>2. CASE v \in {"result", "error"} /\ Post(current, v) /\ UNCHANGED streams
  BY <1>1, <1>2, PostIsAnswer
<1>3. CASE UNCHANGED <<replies, iterations>> /\ streams' \in {streams, streams \cup {current}}
  BY <1>1, <1>3
<1> QED
  BY <1>1, <1>2, <1>3 DEF Digest

\* Answering the current request while user code runs, or because an error of
\* some request was not caught, hands the baton over: to the next iteration, to
\* the body stream, or to "beforeExit".
LEMMA AnswerKeepsSingle ==
  ASSUME SingleMode, TypeOK, ReplyInv, SingleInv, running # NoRequest \/ stray # NoRequest,
         current \in Requests \ consumed, NEW v \in Values, Consume(current, v),
         current' = current, scheduled' = scheduled, polls' = polls,
         running' \in {running, NoRequest}, stray' \in {stray, running, NoRequest},
         \A r \in Requests : handles'[r] # "unref",
         \A r \in Requests \ {running} : handles'[r] = handles[r]
  PROVE  SingleInv'
<1>1. streams = {} /\ scheduled = {} /\ iterations = 0 /\ polls = 0
  BY BusyCurrent
<1>2. /\ consumed' = consumed \cup {current}
      /\ \A r \in Requests \ {current} : replies'[r] = replies[r]
      /\ replies'[current] # <<>> \/ iterations' = 0
      /\ \/ streams' = {} /\ iterations' \in {0, 1}
         \/ streams' = {current} /\ iterations' = 0
  BY <1>1, ConsumeCurrent
<1>3. ASSUME NEW r \in Requests, r # current, Leftover(r)', replies'[r] = <<>> PROVE FALSE
  <2>1. Leftover(r) /\ replies[r] = <<>>
    BY <1>1, <1>2, <1>3, ModeAssumption DEF Leftover
  <2> QED
    BY <1>3, <2>1 DEF SingleInv
<1>4. \A r \in Requests \ consumed' : running' # r /\ handles'[r] # "ref"
  <2> TAKE r \in Requests \ consumed'
  <2>1. r # current /\ replies'[r] = <<>>
    BY <1>2 DEF ReplyInv
  <2> QED
    BY <1>3, <2>1 DEF Leftover
<1>5. InFlight' = streams'
  BY <1>1, <1>4 DEF InFlight
<1>6. OneInFlight'
  BY <1>1, <1>2, <1>5 DEF OneInFlight
<1>7. ~(Restarting' /\ replies'[current] = <<>>)
  BY <1>1, <1>2 DEF Restarting
<1> QED
  BY <1>3, <1>6, <1>7 DEF SingleInv

\* Giving the thread back without answering anything.
LEMMA LeaveKeepsSingle ==
  ASSUME SingleMode, TypeOK, SingleInv, running \in Requests,
         NEW h \in {"none", "ref", "unref"}, NEW e, Leave(h, e),
         UNCHANGED <<loopVars, consumed, streams, replies, current>>
  PROVE  SingleInv'
<1>1. /\ h # "unref" /\ running' = NoRequest /\ NoRequest \notin Requests
      /\ handles' = [handles EXCEPT ![running] = h]
      /\ stray' \in {running, NoRequest}
  BY ModeAssumption DEF Leave, SingleMode
<1>2. InFlight' \subseteq InFlight
  BY <1>1 DEF InFlight, loopVars, TypeOK
<1>3. OneInFlight'
  BY <1>2 DEF OneInFlight, SingleInv, loopVars
<1>4. \A r \in Requests : Leftover(r)' => Leftover(r)
  BY <1>1 DEF Leftover, TypeOK
<1>5. ~(Restarting /\ current \in Requests /\ replies[current] = <<>>)
  BY <1>1 DEF SingleInv
<1>6. Restarting' = Restarting
  BY DEF Restarting, loopVars
<1> QED
  BY <1>1, <1>3, <1>4, <1>5, <1>6 DEF SingleInv, TypeOK

\* Nothing is answered by an error when the current request cannot be.
LEMMA FailNobody ==
  ASSUME TypeOK, current \notin Requests \ consumed, FailCurrent
  PROVE  UNCHANGED replyVars
BY DEF FailCurrent, Consume, TypeOK

\* Reporting an error to the current callback and giving the thread back.
LEMMA FailAndLeaveKeepsSingle ==
  ASSUME SingleMode, TypeOK, ReplyInv, SingleInv, running \in Requests,
         NEW h \in {"none", "ref", "unref"}, NEW e, Leave(h, e), FailCurrent,
         UNCHANGED <<polls, scheduled, current>>
  PROVE  SingleInv'
<1>1. running # NoRequest
  BY ModeAssumption
<1>2. CASE current \in Requests \ consumed
  <2>1. Consume(current, "error")
    BY <1>2, ModeAssumption DEF FailCurrent
  <2>2. /\ running' = NoRequest /\ stray' \in {running, NoRequest}
        /\ \A r \in Requests : handles'[r] # "unref"
        /\ \A r \in Requests \ {running} : handles'[r] = handles[r]
    BY DEF Leave, SingleMode, SingleInv, TypeOK
  <2> QED
    BY <1>1, <1>2, <2>1, <2>2, AnswerKeepsSingle DEF Values
<1>3. CASE current \notin Requests \ consumed
  BY <1>3, FailNobody, LeaveKeepsSingle DEF replyVars, loopVars
<1> QED
  BY <1>2, <1>3

\* The uncaughtException handler.
LEMMA UncaughtKeepsSingle ==
  ASSUME SingleMode, TypeOK, ReplyInv, SingleInv, HandleUncaught
  PROVE  SingleInv'
<1>1. /\ stray # NoRequest /\ FailCurrent /\ stray' = NoRequest
      /\ UNCHANGED <<polls, scheduled, current, running, handles>>
  BY DEF HandleUncaught
<1>2. CASE current \in Requests \ consumed
  <2>1. Consume(current, "error")
    BY <1>1, <1>2, ModeAssumption DEF FailCurrent
  <2>2. \A r \in Requests : handles'[r] # "unref" /\ handles'[r] = handles[r]
    BY <1>1 DEF SingleInv
  <2> QED
    BY <1>1, <1>2, <2>1, <2>2, AnswerKeepsSingle DEF Values
<1>3. CASE current \notin Requests \ consumed
  <2>1. UNCHANGED <<iterations, consumed, streams, replies>>
    BY <1>1, <1>3, FailNobody DEF replyVars
  <2>2. InFlight' = InFlight /\ Restarting' = Restarting
    BY <1>1, <2>1 DEF InFlight, Restarting
  <2>3. \A r \in Requests : Leftover(r)' => Leftover(r)
    BY <1>1, <2>1, ModeAssumption DEF Leftover
  <2> QED
    BY <1>1, <2>1, <2>2, <2>3 DEF SingleInv, OneInFlight
<1> QED
  BY <1>2, <1>3

\* A request that starts is then the only one in flight.
LEMMA StartKeepsSingle ==
  ASSUME SingleMode, TypeOK, ReplyInv, SingleInv, NEW r \in Requests,
         running = NoRequest, stray = NoRequest, Untouched(r), InvokeFunction(r),
         \/ /\ polls > 0 /\ polls' = polls - 1 /\ UNCHANGED <<iterations, scheduled>>
         \/ /\ r \in scheduled /\ scheduled' = scheduled \ {r}
            /\ UNCHANGED <<iterations, polls>>
  PROVE  SingleInv'
<1>1. /\ running' = r /\ current' = r
      /\ UNCHANGED <<handles, consumed, streams, replies, stray>>
  BY DEF InvokeFunction
<1>2. iterations' + polls' = 0 /\ scheduled' = {} /\ streams = {} /\ InFlight \subseteq {r}
  <2>1. CASE polls > 0 /\ polls' = polls - 1 /\ UNCHANGED <<iterations, scheduled>>
    BY <2>1 DEF SingleInv, OneInFlight, SingleMode, InFlight, TypeOK
  <2>2. CASE r \in scheduled /\ scheduled' = scheduled \ {r} /\ UNCHANGED <<iterations, polls>>
    <3>1. r \in InFlight /\ streams \subseteq InFlight /\ scheduled \subseteq InFlight
      BY <2>2 DEF InFlight
    <3>2. InFlight \subseteq {r} /\ iterations + polls = 0
      BY <3>1 DEF SingleInv, OneInFlight, SingleMode
    <3>3. r \notin streams
      BY DEF Untouched, ReplyInv
    <3> QED
      BY <2>2, <3>1, <3>2, <3>3
  <2> QED
    BY <2>1, <2>2
<1>3. \A s \in Requests \ consumed : s # r => handles[s] # "ref"
  BY <1>2 DEF InFlight
<1>4. InFlight' = {r}
  BY <1>1, <1>2, <1>3 DEF InFlight, Untouched
<1>5. Restarting
  BY DEF Restarting, TypeOK
<1>6. \A s \in Requests : replies[s] = <<>> => ~Leftover(s)
  BY <1>5, NothingLeft
<1>7. \A s \in Requests \ {r} : Leftover(s)' => Leftover(s)
  BY <1>1 DEF Leftover
<1>8. ~Restarting'
  BY <1>2 DEF Restarting
<1>9. OneInFlight'
  BY <1>2, <1>4 DEF OneInFlight
<1>10. \A s \in Requests : replies'[s] = <<>> /\ Leftover(s)' => current' = s
  BY <1>1, <1>6, <1>7
<1> QED
  BY <1>1, <1>8, <1>9, <1>10 DEF SingleInv

\* A failed poll may answer the current request, of which nothing is left.
LEMMA PollFailsKeepsSingle ==
  ASSUME SingleMode, TypeOK, FreshInv, ReplyInv, SingleInv, PollFails
  PROVE  SingleInv'
<1>1. /\ FailCurrent /\ polls > 0 /\ polls' = polls - 1
      /\ running = NoRequest /\ stray = NoRequest
      /\ UNCHANGED <<scheduled, current, running, stray, handles>>
  BY DEF PollFails, Idle, SingleMode, userVars
<1>2. InFlight = {} /\ iterations = 0 /\ polls' = 0 /\ scheduled = {} /\ streams = {}
  BY <1>1 DEF SingleInv, OneInFlight, SingleMode, InFlight, TypeOK
<1>3. Restarting
  BY <1>1, <1>2 DEF Restarting, TypeOK
<1>4. \A r \in Requests : replies[r] = <<>> => ~Leftover(r)
  BY <1>1, <1>3, NothingLeft
<1>5. /\ iterations' \in {0, 1} /\ streams' = {} /\ consumed \subseteq consumed'
      /\ \A r \in Requests : replies'[r] = <<>> => replies[r] = <<>>
  <2>1. CASE current \in Requests \ consumed
    <3>1. Consume(current, "error")
      BY <1>1, <2>1, ModeAssumption DEF FailCurrent
    <3>2. \A r \in Requests \ {current} : replies'[r] = replies[r]
      BY <1>2, <2>1, <3>1, ConsumeCurrent DEF Values
    <3>3. replies[current] = <<>>
      BY <2>1 DEF ReplyInv
    <3>4. consumed' = consumed \cup {current} /\ streams' = {} /\ iterations' \in {0, 1}
      <4>1. Post(current, "error") /\ streams' = streams /\ consumed' = consumed \cup {current}
        BY <2>1, <3>1 DEF Consume, Digest
      <4> QED
        BY <1>2, <2>1, <4>1, PostIsAnswer
    <3> QED
      BY <3>2, <3>3, <3>4
  <2>2. CASE current \notin Requests \ consumed
    BY <1>1, <1>2, <2>2, FailNobody DEF replyVars
  <2> QED
    BY <2>1, <2>2
<1>6. \A r \in Requests : Leftover(r)' => Leftover(r)
  BY <1>1, <1>5 DEF Leftover
<1>7. InFlight' = {}
  BY <1>1, <1>2, <1>5 DEF InFlight
<1>8. OneInFlight'
  <2>1. (iterations' = 0 \/ iterations' = 1) /\ polls' = 0
    BY <1>2, <1>5
  <2>2. iterations' + polls' <= 1
    BY <2>1
  <2> QED
    BY <1>7, <2>2 DEF OneInFlight
<1>9. current \in Requests /\ replies'[current] = <<>> => \A r \in Requests : handles[r] = "none"
  BY <1>3, <1>5 DEF SingleInv
<1> QED
  BY <1>1, <1>4, <1>5, <1>6, <1>8, <1>9 DEF SingleInv

\* The end of a stream answers the current request, or nobody.
LEMMA EndStreamKeepsSingle ==
  ASSUME SingleMode, TypeOK, FreshInv, ReplyInv, SingleInv,
         NEW r \in Requests, NEW end \in StreamEnds, EndStream(r, end)
  PROVE  SingleInv'
<1>1. /\ r \in streams /\ streams' = streams \ {r} /\ stray' \in {r, NoRequest}
      /\ UNCHANGED <<polls, scheduled, consumed, current, running, handles>>
  BY DEF EndStream
<1>2. /\ replies'[r] # <<>> \/ iterations' = iterations
      /\ iterations' \in {iterations, iterations + 1}
      /\ \A s \in Requests \ {r} : replies'[s] = replies[s]
  <2>1. CASE end = "stall"
    BY <2>1 DEF EndStream, TypeOK
  <2>2. CASE end # "stall"
    <3>1. end \in {"result", "error"} /\ Post(r, end)
      BY <2>2, EnvironmentAssumption DEF EndStream
    <3> QED
      BY <3>1, PostIsAnswer
  <2> QED
    BY <2>1, <2>2
<1>3. r \in consumed /\ replies[r] = <<>> /\ Leftover(r)
  BY <1>1 DEF ReplyInv, Leftover
<1>4. current = r
  BY <1>3 DEF SingleInv
<1>5. InFlight = {r} /\ iterations + polls = 0
  BY <1>1 DEF SingleInv, OneInFlight, SingleMode, InFlight
<1>6. InFlight' = {} /\ streams' = {} /\ scheduled = {}
  <2>1. r \notin scheduled
    BY <1>3 DEF FreshInv, Untouched
  <2> QED
    BY <1>1, <1>3, <1>5, <2>1 DEF InFlight
<1>7. iterations = 0 /\ polls = 0
  BY <1>5 DEF TypeOK
<1>8. OneInFlight'
  <2>1. (iterations' = 0 \/ iterations' = 1) /\ polls' = 0
    BY <1>1, <1>2, <1>7
  <2>2. iterations' + polls' <= 1
    BY <2>1
  <2> QED
    BY <1>6, <2>2 DEF OneInFlight
<1>9. ~(Restarting' /\ replies'[r] = <<>>)
  <2> SUFFICES ASSUME replies'[r] = <<>> PROVE ~Restarting'
    OBVIOUS
  <2>1. iterations' = 0 /\ polls' = 0 /\ scheduled' = {}
    BY <1>1, <1>2, <1>6, <1>7
  <2> QED
    BY <2>1 DEF Restarting
<1>10. \A s \in Requests \ {r} : Leftover(s)' => Leftover(s)
  BY <1>1, ModeAssumption DEF Leftover
<1>11. \A s \in Requests : replies'[s] = <<>> /\ Leftover(s)' => current' = s
  BY <1>1, <1>2, <1>4, <1>10 DEF SingleInv
<1> QED
  BY <1>1, <1>4, <1>8, <1>9, <1>11 DEF SingleInv

\* Unanswered code runs for the current request.
LEMMA RunningIsCurrent ==
  ASSUME ReplyInv, SingleInv, running \in Requests \ consumed
  PROVE  current = running
BY DEF ReplyInv, SingleInv, Leftover

\* Every step of single mode keeps SingleInv.
LEMMA NextSingleInv ==
  ASSUME SingleMode, TypeOK, FreshInv, ReplyInv, SingleInv, [Next]_vars
  PROVE  SingleInv'
<1>1. CASE StartPoll
  <2>1. /\ iterations' + polls' = iterations + polls /\ iterations > 0
        /\ UNCHANGED <<scheduled, consumed, streams, replies, current, running, handles, stray>>
    BY <1>1 DEF StartPoll, TypeOK, userVars
  <2>2. InFlight' = InFlight /\ Restarting' = Restarting
    BY <2>1 DEF InFlight, Restarting
  <2>3. \A r \in Requests : Leftover(r)' = Leftover(r)
    BY <2>1 DEF Leftover
  <2> QED
    BY <2>1, <2>2, <2>3 DEF SingleInv, OneInFlight, TypeOK
<1>2. CASE PollFails
  BY <1>2, PollFailsKeepsSingle
<1>3. CASE BeforeExit
  <2>1. /\ iterations = 0 /\ polls = 0 /\ scheduled = {} /\ streams = {}
        /\ running = NoRequest /\ stray = NoRequest
        /\ \A r \in Requests : handles[r] = "none"
        /\ iterations' = 1
        /\ UNCHANGED <<polls, scheduled, consumed, streams, replies, current, running,
                       handles, stray>>
    BY <1>3 DEF BeforeExit, LoopIsFree, Idle, LoopIsEmpty, SingleInv, TypeOK, userVars
  <2>2. InFlight' = {}
    BY <2>1, ModeAssumption DEF InFlight
  <2>3. \A r \in Requests : ~Leftover(r)'
    BY <2>1, ModeAssumption DEF Leftover
  <2>4. OneInFlight'
    BY <2>1, <2>2 DEF OneInFlight
  <2> QED
    BY <2>1, <2>3, <2>4 DEF SingleInv
<1>4. ASSUME NEW r \in Requests, TakeBlocking(r) PROVE SingleInv'
  <2>1. /\ polls > 0 /\ polls' = polls - 1 /\ running = NoRequest
        /\ scheduled' = scheduled \cup {r}
        /\ UNCHANGED <<iterations, consumed, streams, replies, current, running, handles, stray>>
    BY <1>4 DEF TakeBlocking, EndPoll, Idle, userVars
  <2>2. InFlight = {} /\ iterations' + polls' = 0
    BY <2>1 DEF SingleInv, OneInFlight, SingleMode, TypeOK
  <2>3. InFlight' = {r}
    BY <2>1, <2>2 DEF InFlight
  <2>4. Restarting /\ \A s \in Requests : Leftover(s)' = Leftover(s)
    BY <2>1 DEF Restarting, Leftover, TypeOK
  <2>5. OneInFlight'
    BY <2>2, <2>3 DEF OneInFlight
  <2> QED
    BY <2>1, <2>4, <2>5 DEF SingleInv
<1>5. ASSUME NEW r \in Requests, TakeUnblock(r) PROVE SingleInv'
  <2>1. Untouched(r)
    BY <1>5 DEF TakeUnblock, EndPoll, FreshInv
  <2> QED
    BY <1>5, <2>1, StartKeepsSingle DEF TakeUnblock, EndPoll, Idle
<1>6. ASSUME NEW r \in Requests, TakeConcurrent(r) PROVE SingleInv'
  BY <1>6 DEF TakeConcurrent, SingleMode
<1>7. ASSUME NEW r \in Requests, RunScheduled(r) PROVE SingleInv'
  <2>1. Untouched(r)
    BY <1>7 DEF RunScheduled, FreshInv
  <2> QED
    BY <1>7, <2>1, StartKeepsSingle DEF RunScheduled, LoopIsFree, Idle
<1>8. ASSUME NEW r \in Requests, NEW f \in {"task", "promise"}, Resume(r, f) PROVE SingleInv'
  <2>1. /\ running = NoRequest /\ handles[r] = "ref" /\ running' = r
        /\ handles' = [handles EXCEPT ![r] = "none"]
        /\ UNCHANGED <<iterations, polls, scheduled, consumed, streams, replies, current, stray>>
    BY <1>8 DEF Resume, LoopIsFree, Idle, loopVars, SingleInv, TypeOK
  <2>2. InFlight' \subseteq InFlight
    BY <2>1 DEF InFlight, TypeOK
  <2>3. OneInFlight'
    BY <2>1, <2>2 DEF SingleInv, OneInFlight
  <2>4. \A s \in Requests : Leftover(s)' => Leftover(s)
    BY <2>1 DEF Leftover, TypeOK
  <2>5. ~(Restarting /\ current \in Requests /\ replies[current] = <<>>)
    BY <2>1 DEF SingleInv
  <2>6. Restarting' = Restarting
    BY <2>1 DEF Restarting
  <2>7. \A s \in Requests : handles'[s] # "unref"
    BY <2>1 DEF SingleInv, TypeOK
  <2> QED
    BY <2>1, <2>3, <2>4, <2>5, <2>6, <2>7 DEF SingleInv
<1>9. ASSUME NEW r \in Requests, NEW end \in StreamEnds, EndStream(r, end) PROVE SingleInv'
  BY <1>9, EndStreamKeepsSingle
<1>10. ASSUME NEW v \in Values, CallCallback(v) PROVE SingleInv'
  <2>1. /\ running \in Requests \ consumed /\ running # NoRequest
        /\ UNCHANGED <<polls, scheduled, current, running, handles, stray>>
    BY <1>10, ModeAssumption DEF CallCallback, userVars
  <2>2. current = running
    BY <2>1, RunningIsCurrent
  <2>3. Consume(current, v)
    BY <1>10, <2>2 DEF CallCallback
  <2>4. \A s \in Requests : handles'[s] # "unref" /\ handles'[s] = handles[s]
    BY <2>1 DEF SingleInv
  <2> QED
    BY <2>1, <2>2, <2>3, <2>4, AnswerKeepsSingle
<1>11. ASSUME UNCHANGED <<loopVars, consumed, streams, replies, current, running, handles, stray>>
       PROVE  SingleInv'
  BY <1>11 DEF SingleInv, OneInFlight, InFlight, Leftover, Restarting, loopVars
<1>12. ASSUME NEW x \in BOOLEAN, SetWaitForEmpty(x) PROVE SingleInv'
  BY <1>11, <1>12 DEF SetWaitForEmpty, userVars
<1>13. ASSUME NEW h \in {"none", "ref", "unref"}, Return(h) PROVE SingleInv'
  BY <1>13, LeaveKeepsSingle DEF Return
<1>14. ASSUME NEW h \in {"none", "ref", "unref"}, ThrowCaught(h) PROVE SingleInv'
  <2>1. PICK v \in Values : Consume(running, v)
    BY <1>14 DEF ThrowCaught, Values
  <2>2. PICK e \in BOOLEAN : Leave(h, e)
    BY <1>14 DEF ThrowCaught
  <2>3. running \in Requests /\ UNCHANGED <<polls, scheduled, current>>
    BY <1>14 DEF ThrowCaught
  <2>4. CASE running \in consumed
    <3>1. UNCHANGED <<loopVars, consumed, streams, replies, current>>
      BY <2>1, <2>3, <2>4 DEF Consume, replyVars, loopVars
    <3> QED
      BY <2>2, <2>3, <3>1, LeaveKeepsSingle
  <2>5. CASE running \notin consumed
    <3>1. current = running
      BY <2>3, <2>5, RunningIsCurrent
    <3>2. /\ running' = NoRequest /\ stray' \in {running, NoRequest}
          /\ \A r \in Requests : handles'[r] # "unref"
          /\ \A r \in Requests \ {running} : handles'[r] = handles[r]
      BY <2>2, <2>3 DEF Leave, SingleMode, SingleInv, TypeOK
    <3>3. Consume(current, v) /\ running # NoRequest
      BY <2>1, <2>3, <3>1, ModeAssumption
    <3> QED
      BY <2>3, <2>5, <3>1, <3>2, <3>3, AnswerKeepsSingle
  <2> QED
    BY <2>4, <2>5
<1>15. ASSUME NEW h \in {"none", "ref", "unref"}, ThrowNullish(h) PROVE SingleInv'
  <2>1. /\ running \in Requests /\ Leave(h, NullishEscapes)
        /\ FailCurrent \/ UNCHANGED replyVars
        /\ UNCHANGED <<polls, scheduled, current>>
    BY <1>15 DEF ThrowNullish
  <2>2. CASE FailCurrent
    BY <2>1, <2>2, FailAndLeaveKeepsSingle
  <2>3. CASE UNCHANGED replyVars
    BY <2>1, <2>3, LeaveKeepsSingle DEF loopVars, replyVars
  <2> QED
    BY <2>1, <2>2, <2>3
<1>16. ASSUME NEW h \in {"none", "ref", "unref"}, ThrowUncaught(h) PROVE SingleInv'
  BY <1>16, LeaveKeepsSingle DEF ThrowUncaught, loopVars
<1>17. CASE Exit
  BY <1>11, <1>17 DEF Exit, userVars
<1>18. CASE UNCHANGED vars
  BY <1>11, <1>18 DEF vars, userVars
<1>19. CASE Rest
  BY <1>18, <1>19 DEF Rest
<1>20. CASE HandleUncaught
  BY <1>20, UncaughtKeepsSingle
<1> QED
  BY <1>1, <1>2, <1>3, <1>4, <1>5, <1>6, <1>7, <1>8, <1>9, <1>10, <1>12, <1>13,
     <1>14, <1>15, <1>16, <1>17, <1>18, <1>19, <1>20 DEF Next, RuntimeStep, UserStep

\* SingleInv holds in every reachable state of single mode.
LEMMA SingleInvariant == ASSUME SingleMode PROVE Spec => []SingleInv
<1>1. Init => SingleInv
  <2> SUFFICES ASSUME Init PROVE SingleInv
    OBVIOUS
  <2>1. InFlight = {}
    BY ModeAssumption DEF Init, InFlight
  <2>2. \A r \in Requests : ~Leftover(r)
    BY ModeAssumption DEF Init, Leftover
  <2> QED
    BY <2>1, <2>2, ModeAssumption DEF Init, SingleInv, OneInFlight
<1>2. TypeOK /\ FreshInv /\ ReplyInv /\ SingleInv /\ [Next]_vars => SingleInv'
  BY NextSingleInv
<1> QED
  BY <1>1, <1>2, RepliesInvariant, PTL DEF Spec

\* In single mode the runtime never works on two requests at once, nor asks
\* for a new one while the answer of another can still come, however the
\* callback, the stream, "beforeExit", stray exceptions and poll failures are
\* interleaved.
THEOREM OneRequestInFlight == ASSUME SingleMode PROVE Spec => []OneInFlight
<1>1. SingleInv => OneInFlight
  BY DEF SingleInv
<1> QED
  BY <1>1, SingleInvariant, PTL

\* In single mode unanswered code runs under its own request's name, so its
\* log lines and its uncaught exceptions are its own.
THEOREM ErrorsAreOwn == ASSUME SingleMode PROVE Spec => []OwnAttribution
<1>1. ReplyInv /\ SingleInv => OwnAttribution
  BY RunningIsCurrent DEF OwnAttribution
<1> QED
  BY <1>1, RepliesInvariant, SingleInvariant, PTL
-----------------------------------------------------------------------------
(* Who pays for whose errors.                                              *)

\* In single mode an answer is always the current request's.
LEMMA OnlyCurrentIsAnswered ==
  ASSUME SingleMode, TypeOK, FreshInv, ReplyInv, SingleInv, Next,
         NEW r \in Requests, replies'[r] # replies[r]
  PROVE  r = current /\ replies[r] = <<>>
<1>a. ASSUME NEW v \in Values, running \in Requests, Consume(running, v)
      PROVE  r = current /\ replies[r] = <<>>
  <2>1. running \notin consumed
    BY <1>a DEF Consume, replyVars
  <2>2. current = running /\ replies[running] = <<>>
    BY <1>a, <2>1, RunningIsCurrent DEF ReplyInv
  <2>3. Digest(running, v)
    BY <1>a, <2>1 DEF Consume
  <2> QED
    BY <1>a, <2>2, <2>3 DEF Digest, Post, TypeOK
<1>b. ASSUME FailCurrent PROVE r = current /\ replies[r] = <<>>
  <2>1. current \in Requests \ consumed
    BY <1>b, FailNobody DEF replyVars
  <2>2. Consume(current, "error")
    BY <1>b, <2>1, ModeAssumption DEF FailCurrent
  <2>3. Post(current, "error")
    BY <2>1, <2>2 DEF Consume, Digest
  <2> QED
    BY <2>1, <2>3 DEF Post, ReplyInv, TypeOK
<1>1. CASE StartPoll \/ BeforeExit \/ Exit \/ Rest
  BY <1>1 DEF StartPoll, BeforeExit, Exit, Rest, vars
<1>2. CASE PollFails
  BY <1>2, <1>b DEF PollFails, replyVars
<1>3. ASSUME NEW s \in Requests, TakeBlocking(s) \/ TakeUnblock(s) \/ TakeConcurrent(s) \/ RunScheduled(s)
      PROVE  FALSE
  BY <1>3 DEF TakeBlocking, TakeUnblock, TakeConcurrent, RunScheduled, InvokeFunction
<1>4. ASSUME NEW s \in Requests, NEW f \in {"task", "promise"}, Resume(s, f) PROVE FALSE
  BY <1>4 DEF Resume
<1>5. ASSUME NEW s \in Requests, NEW end \in StreamEnds, EndStream(s, end)
      PROVE  r = current /\ replies[r] = <<>>
  <2>1. s \in streams /\ (UNCHANGED replies \/ Post(s, end))
    BY <1>5 DEF EndStream
  <2>2. r = s
    BY <2>1 DEF Post, TypeOK
  <2> QED
    BY <2>1, <2>2 DEF SingleInv, Leftover, ReplyInv
<1>6. ASSUME NEW v \in Values, CallCallback(v) PROVE r = current /\ replies[r] = <<>>
  BY <1>6, <1>a DEF CallCallback
<1>7. ASSUME NEW x \in BOOLEAN, SetWaitForEmpty(x) PROVE FALSE
  BY <1>7 DEF SetWaitForEmpty
<1>8. ASSUME NEW h \in {"none", "ref", "unref"}, Return(h) \/ ThrowUncaught(h) PROVE FALSE
  BY <1>8 DEF Return, ThrowUncaught
<1>9. ASSUME NEW h \in {"none", "ref", "unref"}, ThrowCaught(h)
      PROVE  r = current /\ replies[r] = <<>>
  <2>1. running \in Requests /\ \E v \in Values : Consume(running, v)
    BY <1>9 DEF ThrowCaught, Values
  <2> QED
    BY <1>a, <2>1
<1>10. ASSUME NEW h \in {"none", "ref", "unref"}, ThrowNullish(h)
       PROVE  r = current /\ replies[r] = <<>>
  BY <1>10, <1>b DEF ThrowNullish, replyVars
<1>11. CASE HandleUncaught
  BY <1>11, <1>b DEF HandleUncaught
<1> QED
  BY <1>1, <1>2, <1>3, <1>4, <1>5, <1>6, <1>7, <1>8, <1>9, <1>10, <1>11
  DEF Next, RuntimeStep, UserStep

\* Only a failed poll counts as one.
LEMMA OnlyPollFails ==
  ASSUME TypeOK, Next, pollFailures' # pollFailures
  PROVE  PollFails
BY DEF Next, RuntimeStep, UserStep, StartPoll, BeforeExit, HandleUncaught, TakeBlocking,
       TakeUnblock, TakeConcurrent, EndPoll, RunScheduled, Resume, EndStream, CallCallback,
       SetWaitForEmpty, Return, ThrowCaught, ThrowNullish, ThrowUncaught, Exit, Rest, vars,
       platformVars

\* In single mode, for any number of requests and any user code: an error that
\* nobody catches fails its own request, and another one only if its own was
\* answered long ago; a failed poll fails only a request of which nothing is
\* left.
THEOREM ErrorsFailTheirOwn == ASSUME SingleMode PROVE Spec => ErrorsStayHome
<1> DEFINE Home ==
      \A r \in Requests :
        ~EnableConcurrentInvoke /\ replies'[r] # replies[r] =>
          /\ stray \in Requests \ {r} => replies[stray] # <<>>
          /\ pollFailures' # pollFailures => r \notin InFlight
<1>1. ASSUME TypeOK, FreshInv, ReplyInv, SingleInv, Next PROVE Home
  <2> SUFFICES ASSUME NEW r \in Requests, replies'[r] # replies[r]
               PROVE  /\ stray \in Requests \ {r} => replies[stray] # <<>>
                      /\ pollFailures' # pollFailures => r \notin InFlight
    OBVIOUS
  <2>1. r = current /\ replies[r] = <<>>
    BY <1>1, OnlyCurrentIsAnswered
  <2>2. ASSUME stray \in Requests \ {r} PROVE replies[stray] # <<>>
    BY <1>1, <2>1, <2>2 DEF SingleInv, Leftover
  <2>3. ASSUME pollFailures' # pollFailures PROVE r \notin InFlight
    <3>1. PollFails
      BY <1>1, <2>3, OnlyPollFails
    <3>2. Restarting /\ running = NoRequest
      BY <1>1, <3>1 DEF PollFails, Idle, Restarting, TypeOK
    <3>3. streams = {} /\ handles[r] = "none"
      BY <1>1, <2>1, <3>2 DEF SingleInv
    <3>4. r \notin scheduled
      BY <1>1, <2>1 DEF FreshInv, Untouched
    <3> QED
      BY <3>2, <3>3, <3>4, ModeAssumption DEF InFlight
  <2> QED
    BY <2>2, <2>3
<1>2. TypeOK /\ FreshInv /\ ReplyInv /\ SingleInv /\ [Next]_vars => [Home]_vars
  BY <1>1
<1>3. Spec => [][Home]_vars
  BY <1>2, RepliesInvariant, SingleInvariant, PTL DEF Spec
<1> QED
  BY <1>3 DEF ErrorsStayHome

-----------------------------------------------------------------------------
(* The pollers of concurrent mode.                                         *)

\* In concurrent mode an answer schedules no iteration.
LEMMA ConcurrentConsume ==
  ASSUME EnableConcurrentInvoke, NEW r, NEW v, Consume(r, v)
  PROVE  iterations' = iterations
BY DEF Consume, Digest, Post, replyVars

\* Concurrent mode never has two pollers: a poll hands its turn to the one
\* iteration that handleConcurrentInvocation schedules, and "beforeExit" comes
\* only when there is neither.
THEOREM OnePollerOnly == Spec => []OnePoller
<1>1. Init => OnePoller
  BY DEF Init, OnePoller
<1>2. TypeOK /\ OnePoller /\ [Next]_vars => OnePoller'
  <2> SUFFICES ASSUME TypeOK, OnePoller, [Next]_vars, EnableConcurrentInvoke PROVE OnePoller'
    BY DEF OnePoller
  <2>a. ASSUME iterations' = iterations, polls' = polls \/ polls' = polls - 1
        PROVE  OnePoller'
    <3>1. iterations + polls <= 1
      BY DEF OnePoller
    <3>2. iterations \in Nat /\ polls \in Nat
      BY DEF TypeOK
    <3>3. iterations' + polls' <= 1
      BY <2>a, <3>1, <3>2
    <3> QED
      BY <3>3 DEF OnePoller
  <2>b. ASSUME FailCurrent PROVE iterations' = iterations
    BY <2>b, ConcurrentConsume DEF FailCurrent, replyVars
  <2>1. CASE StartPoll
    BY <2>1 DEF StartPoll, OnePoller, TypeOK
  <2>2. CASE PollFails
    BY <2>2, <2>a DEF PollFails, replyVars, TypeOK
  <2>3. CASE BeforeExit
    BY <2>3 DEF BeforeExit, LoopIsEmpty, OnePoller
  <2>4. ASSUME NEW r \in Requests, TakeBlocking(r) \/ TakeUnblock(r) PROVE OnePoller'
    BY <2>4 DEF TakeBlocking, TakeUnblock
  <2>5. ASSUME NEW r \in Requests, TakeConcurrent(r) PROVE OnePoller'
    BY <2>5 DEF TakeConcurrent, EndPoll, OnePoller, TypeOK
  <2>6. ASSUME NEW r \in Requests, RunScheduled(r) PROVE OnePoller'
    BY <2>6, <2>a DEF RunScheduled, TypeOK
  <2>7. ASSUME NEW r \in Requests, NEW f \in {"task", "promise"}, Resume(r, f) PROVE OnePoller'
    BY <2>7, <2>a DEF Resume, loopVars, TypeOK
  <2>8. ASSUME NEW r \in Requests, NEW end \in StreamEnds, EndStream(r, end) PROVE OnePoller'
    BY <2>8, <2>a DEF EndStream, Post, TypeOK
  <2>9. ASSUME NEW v \in Values, CallCallback(v) PROVE OnePoller'
    BY <2>9, <2>a, ConcurrentConsume DEF CallCallback, TypeOK
  <2>11. ASSUME NEW x \in BOOLEAN, SetWaitForEmpty(x) PROVE OnePoller'
    BY <2>11, <2>a DEF SetWaitForEmpty, loopVars, TypeOK
  <2>12. ASSUME NEW h \in {"none", "ref", "unref"}, Return(h) PROVE OnePoller'
    BY <2>12, <2>a DEF Return, loopVars, TypeOK
  <2>13. ASSUME NEW h \in {"none", "ref", "unref"}, ThrowCaught(h) PROVE OnePoller'
    BY <2>13, <2>a, ConcurrentConsume DEF ThrowCaught, TypeOK
  <2>14. ASSUME NEW h \in {"none", "ref", "unref"}, ThrowNullish(h) PROVE OnePoller'
    BY <2>14, <2>a, <2>b DEF ThrowNullish, replyVars, TypeOK
  <2>15. ASSUME NEW h \in {"none", "ref", "unref"}, ThrowUncaught(h) PROVE OnePoller'
    BY <2>15, <2>a DEF ThrowUncaught, TypeOK
  <2>17. CASE HandleUncaught
    BY <2>17, <2>a, <2>b DEF HandleUncaught, TypeOK
  <2>16. CASE Exit \/ Rest \/ UNCHANGED vars
    BY <2>16, <2>a DEF Exit, Rest, vars, loopVars, TypeOK
  <2> QED
    BY <2>1, <2>2, <2>3, <2>4, <2>5, <2>6, <2>7, <2>8, <2>9, <2>11, <2>12, <2>13, <2>14,
       <2>15, <2>16, <2>17 DEF Next, RuntimeStep, UserStep
<1> QED
  BY <1>1, <1>2, TypeCorrect, PTL DEF Spec
=============================================================================
