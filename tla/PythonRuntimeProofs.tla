------------------------ MODULE PythonRuntimeProofs ------------------------
(***************************************************************************)
(* Safety of PythonRuntime for any set of requests and handlers, in single *)
(* and in concurrent mode.                                                 *)
(***************************************************************************)
EXTENDS PythonRuntime, TLAPS

-----------------------------------------------------------------------------
(* Types.                                                                  *)

\* Init establishes the type invariant.
LEMMA TypeInit == Init => TypeOK
  BY ModeAssumption, EnvironmentAssumption
  DEF Init, TypeOK, Phases, Loading, Posting, Ended

\* Entering a phase keeps phase a function into Phases.
LEMMA TypePhase ==
  ASSUME TypeOK, NEW r \in Requests, NEW p \in Phases, Enter(r, p)
  PROVE  phase' \in [Requests -> Phases]
  BY DEF TypeOK, Enter

\* A restore keeps the types of the credentials.
LEMMA RestoreType ==
  ASSUME TypeOK, NEW header \in [1 .. Credentials -> {"set", "empty", "absent"}],
         RestoreEnvironment(header)
  PROVE  /\ credentials' \in [1 .. Credentials -> {"placeholder", "request"}]
         /\ brought' \in [1 .. Credentials -> {"set", "empty", "absent"}]
  BY DEF TypeOK, RestoreEnvironment

\* Every step keeps the type invariant.
LEMMA TypeStep == TypeOK /\ [Next]_vars => TypeOK'
  <1> SUFFICES ASSUME TypeOK, [Next]_vars PROVE TypeOK'
    OBVIOUS
  <1>1. ASSUME NEW r \in Requests, Take(r) PROVE TypeOK'
    BY <1>1, TypePhase DEF Take, TypeOK, Enter, Phases, loadVars, postVars, snapshotVars
  <1>2. ASSUME NEW r \in Requests, NEW header \in CredentialHeaders,
               TakeAfterRestore(r, header)
        PROVE  TypeOK'
    <2>1. header \in [1 .. Credentials -> {"set", "empty", "absent"}]
      BY EnvironmentAssumption
    <2>2. /\ credentials' \in [1 .. Credentials -> {"placeholder", "request"}]
          /\ brought' \in [1 .. Credentials -> {"set", "empty", "absent"}]
      BY <1>2, <2>1, RestoreType DEF TakeAfterRestore
    <2>3. phase' \in [Requests -> Phases] /\ main' \in {"polling", "busy", "stopped"}
      BY <1>2 DEF TakeAfterRestore, EndHandling, Enter, TypeOK, Phases, Ended
    <2> QED
      BY <1>2, <2>2, <2>3 DEF TakeAfterRestore, RestoreWorkdir, TypeOK, loadVars, postVars
  <1>3. ASSUME NEW r \in Requests, StartHandler(r) PROVE TypeOK'
    BY <1>3 DEF StartHandler, Enter, TypeOK, Phases, Ended, loadVars, postVars, snapshotVars
  <1>4. CASE Terminate \/ TakeErrorReply
    <2>1. CASE Terminate
      BY <2>1 DEF Terminate, TypeOK, loadVars, postVars, snapshotVars
    <2>2. CASE TakeErrorReply
      <3>1. credentials' \in [1 .. Credentials -> {"placeholder", "request"}]
        BY <2>2, RestoreType DEF TakeErrorReply
      <3>2. brought' \in [1 .. Credentials -> {"set", "empty", "absent"}]
        BY <2>2, RestoreType DEF TakeErrorReply
      <3> QED
        BY <2>2, <3>1, <3>2 DEF TakeErrorReply, RestoreWorkdir, TypeOK, loadVars, postVars
    <2> QED
      BY <1>4, <2>1, <2>2
  <1>5. ASSUME NEW r \in Requests, Begin(r) PROVE TypeOK'
    BY <1>5 DEF Begin, SendLastError, LogEnd, Continue, Enter, TypeOK, Phases, Posting,
                loadVars, postVars, snapshotVars
  <1>6. ASSUME NEW r \in Requests, Lookup(r) PROVE TypeOK'
    BY <1>6 DEF Lookup, LookupPhase, Continue, Enter, TypeOK, Phases, Loading,
                loadVars, postVars, snapshotVars
  <1>7. ASSUME NEW r \in Requests, Acquire(r) PROVE TypeOK'
    BY <1>7 DEF Acquire, Continue, Enter, TypeOK, Phases, Loading, postVars, snapshotVars
  <1>8. ASSUME NEW r \in Requests, Recheck(r) PROVE TypeOK'
    BY <1>8 DEF Recheck, SendLastError, SendError, LogEnd, Release, Continue, Enter, TypeOK,
                Phases, Loading, Posting, postVars, snapshotVars
  <1>9. ASSUME NEW r \in Requests, StartBody(r) PROVE TypeOK'
    BY <1>9, ModeAssumption DEF StartBody, Continue, Enter, TypeOK, Phases, Loading, Modules, Handlers,
                postVars, snapshotVars
  <1>10. ASSUME NEW r \in Requests, NEW outcome \in LoadOutcomes, EndBody(r, outcome)
         PROVE  TypeOK'
    <2>0. outcome \in {"done", "fails", "exits"}
      BY EnvironmentAssumption
    <2>1. CASE outcome = "done"
      BY <1>10, <2>1 DEF EndBody, Continue, Enter, TypeOK, Phases, Loading, postVars, snapshotVars
    <2>2. CASE outcome = "fails"
      BY <1>10, <2>2 DEF EndBody, SendError, LogEnd, Release, Continue, Enter, TypeOK,
                         Phases, Posting, snapshotVars
    <2>3. CASE outcome = "exits"
      BY <1>10, <2>3 DEF EndBody, Exit, Enter, TypeOK, Phases, Ended, postVars, snapshotVars
    <2> QED
      BY <2>0, <2>1, <2>2, <2>3
  <1>11. ASSUME NEW r \in Requests, Bind(r) PROVE TypeOK'
    <2>1. HandlerOf[r] \in Handlers
      BY ModeAssumption
    <2>2. CASE HandlerOf[r] \in MissingHandlers \/ ~Initialised(ModuleOf[HandlerOf[r]])
      BY <1>11, <2>2 DEF Bind, SendError, LogEnd, Release, Continue, Enter, TypeOK, Phases,
                         Posting, postVars, snapshotVars
    <2>3. CASE ~(HandlerOf[r] \in MissingHandlers \/ ~Initialised(ModuleOf[HandlerOf[r]]))
      BY <1>11, <2>1, <2>3 DEF Bind, Release, Continue, Enter, TypeOK, Phases, postVars,
                               snapshotVars
    <2> QED
      BY <2>2, <2>3
  <1>12. ASSUME NEW r \in Requests, NEW outcome \in RunOutcomes, EndRun(r, outcome)
         PROVE  TypeOK'
    <2>0. outcome \in {"result", "error", "raises", "exits"}
      BY EnvironmentAssumption
    <2>1. CASE outcome = "result"
      BY <1>12, <2>1 DEF EndRun, SendResult, LogEnd, Continue, Enter, TypeOK, Phases, Posting,
                         loadVars, snapshotVars
    <2>2. CASE outcome = "error"
      BY <1>12, <2>2 DEF EndRun, SendError, LogEnd, Continue, Enter, TypeOK, Phases, Posting,
                         loadVars, snapshotVars
    <2>3. CASE outcome = "raises"
      BY <1>12, <2>3 DEF EndRun, SendLastError, LogEnd, Continue, Enter, TypeOK, Phases,
                         Posting, loadVars, snapshotVars
    <2>4. CASE outcome = "exits"
      BY <1>12, <2>4 DEF EndRun, Exit, Enter, TypeOK, Phases, Ended, loadVars, postVars,
                         snapshotVars
    <2> QED
      BY <2>0, <2>1, <2>2, <2>3, <2>4
  <1>13. ASSUME NEW r \in Requests, PostSucceeds(r) PROVE TypeOK'
    BY <1>13 DEF PostSucceeds, EndHandling, Enter, TypeOK, Phases, Ended, loadVars, snapshotVars
  <1>14. ASSUME NEW r \in Requests, PostRaises(r) PROVE TypeOK'
    <2>1. postFailures' \in 0 .. MaxPostFailures
      BY <1>14, EnvironmentAssumption DEF PostRaises, TypeOK
    <2>2. CASE phase[r] = "lastError"
      BY <1>14, <2>1, <2>2 DEF PostRaises, EndHandling, Enter, TypeOK, Phases, Ended,
                               loadVars, snapshotVars
    <2>3. CASE phase[r] # "lastError"
      BY <1>14, <2>1, <2>3 DEF PostRaises, LogEnd, Continue, Enter, TypeOK, Phases, Posting,
                               loadVars, snapshotVars
    <2> QED
      BY <2>2, <2>3
  <1>15. CASE UNCHANGED vars
    BY <1>15 DEF TypeOK, vars, loadVars, postVars, snapshotVars
  <1> QED
    BY <1>1, <1>2, <1>3, <1>4, <1>5, <1>6, <1>7, <1>8, <1>9, <1>10, <1>11, <1>12,
       <1>13, <1>14, <1>15 DEF Next, HandleRequest, Rest

\* Every reachable state is well typed.
THEOREM TypeCorrect == Spec => []TypeOK
  BY TypeInit, TypeStep, PTL DEF Spec

-----------------------------------------------------------------------------
(* What a step of handle_request does to its request and to the main       *)
(* thread, whatever else it does.                                          *)

\* The phases of a request that somebody is working on.
ActivePhases == {"taken", "begin", "lookup", "acquire", "run"} \cup Loading \cup Posting

\* The phases that handle_request itself goes through.
Handling == ActivePhases \ {"taken"}

\* A step of handle_request goes on, ends the handling, or dies.
LEMMA HandlingShape ==
  ASSUME TypeOK, NEW r \in Requests, HandleRequest(r)
  PROVE  /\ Serving(r)
         /\ phase[r] \in Handling
         /\ UNCHANGED snapshotVars
         /\ \/ \E p \in Handling : Continue(r, p)
            \/ \E p \in {"done", "dropped"} : EndHandling(r, p)
            \/ Exit(r)
  <1>1. CASE Begin(r)
    BY <1>1 DEF Begin, SendLastError, Handling, ActivePhases, Posting
  <1>2. CASE Lookup(r)
    <2>1. LookupPhase(r) \in Handling
      BY DEF LookupPhase, Handling, ActivePhases, Loading
    <2> QED
      BY <1>2, <2>1 DEF Lookup, Handling, ActivePhases
  <1>3. CASE Acquire(r)
    BY <1>3 DEF Acquire, Handling, ActivePhases, Loading
  <1>4. CASE Recheck(r)
    BY <1>4 DEF Recheck, SendLastError, SendError, Handling, ActivePhases, Loading, Posting
  <1>5. CASE StartBody(r)
    BY <1>5 DEF StartBody, Handling, ActivePhases, Loading
  <1>6. ASSUME NEW outcome \in LoadOutcomes, EndBody(r, outcome)
        PROVE  /\ Serving(r)
               /\ phase[r] \in Handling
               /\ UNCHANGED snapshotVars
               /\ Continue(r, "bind") \/ Continue(r, "error") \/ Exit(r)
    <2>0. outcome \in {"done", "fails", "exits"}
      BY EnvironmentAssumption
    <2> QED
      BY <1>6, <2>0 DEF EndBody, SendError, Handling, ActivePhases, Loading
  <1>7. CASE Bind(r)
    BY <1>7 DEF Bind, SendError, Handling, ActivePhases, Loading, Posting
  <1>8. ASSUME NEW outcome \in RunOutcomes, EndRun(r, outcome)
        PROVE  /\ Serving(r)
               /\ phase[r] \in Handling
               /\ UNCHANGED snapshotVars
               /\ \/ Continue(r, "result") \/ Continue(r, "error")
                  \/ Continue(r, "lastError") \/ Exit(r)
    <2>0. outcome \in {"result", "error", "raises", "exits"}
      BY EnvironmentAssumption
    <2> QED
      BY <1>8, <2>0 DEF EndRun, SendResult, SendError, SendLastError, Handling, ActivePhases
  <1>9. CASE PostSucceeds(r)
    BY <1>9 DEF PostSucceeds, Handling, ActivePhases, Posting
  <1>10. CASE PostRaises(r)
    BY <1>10 DEF PostRaises, Handling, ActivePhases, Posting
  <1>11. {"bind", "error", "result", "lastError"} \subseteq Handling
    BY DEF Handling, ActivePhases, Loading, Posting
  <1> QED
    BY <1>1, <1>2, <1>3, <1>4, <1>5, <1>6, <1>7, <1>8, <1>9, <1>10, <1>11 DEF HandleRequest

-----------------------------------------------------------------------------
(* Single mode serves one request at a time.                               *)

\* Init establishes SingleInv.
LEMMA SingleInit == Init => SingleInv
  BY DEF Init, SingleInv, Active

\* A step of one request, described by what it does to phase and main.
LEMMA SingleKept ==
  ASSUME ~Concurrent, TypeOK, SingleInv, NEW r \in Requests, NEW p \in Phases, Enter(r, p),
         \A s \in Active : s = r,
         p \in {"inbox"} \cup Ended \/ main' # "polling"
  PROVE  SingleInv'
  <1>1. phase' = [phase EXCEPT ![r] = p] /\ phase \in [Requests -> Phases]
    BY DEF Enter, TypeOK
  <1>2. \A s \in Active' : s = r
    BY <1>1 DEF Active
  <1>3. p \in {"inbox"} \cup Ended => r \notin Active'
    BY <1>1 DEF Active
  <1> QED
    BY <1>2, <1>3 DEF SingleInv

\* Every step keeps SingleInv.
LEMMA SingleStep == TypeOK /\ SingleInv /\ [Next]_vars => SingleInv'
  <1> SUFFICES ASSUME ~Concurrent, TypeOK, SingleInv, [Next]_vars PROVE SingleInv'
    BY DEF SingleInv
  <1>1. ASSUME NEW r \in Requests, Take(r) PROVE SingleInv'
    <2>1. Active = {}
      BY <1>1 DEF Take, SingleInv
    <2> QED
      BY <1>1, <2>1, SingleKept DEF Take, Phases
  <1>2. ASSUME NEW r \in Requests, NEW header \in CredentialHeaders,
               TakeAfterRestore(r, header)
        PROVE  SingleInv'
    <2>1. Active = {}
      BY <1>2 DEF TakeAfterRestore, SingleInv
    <2> QED
      BY <1>2, <2>1, SingleKept DEF TakeAfterRestore, EndHandling, Phases, Ended
  <1>3. ASSUME NEW r \in Requests, StartHandler(r) PROVE SingleInv'
    <2>1. r \in Active
      BY <1>3 DEF StartHandler, Active, Ended
    <2>2. \A s \in Active : s = r
      BY <2>1 DEF SingleInv
    <2> QED
      BY <1>3, <2>2, SingleKept DEF StartHandler, Phases, Ended
  <1>4. CASE Terminate \/ TakeErrorReply
    BY <1>4 DEF Terminate, TakeErrorReply, SingleInv, Active
  <1>5. ASSUME NEW r \in Requests, HandleRequest(r) PROVE SingleInv'
    <2>1. main = "busy" /\ phase[r] \in Handling
      BY <1>5, HandlingShape DEF Serving
    <2>2. r \in Active
      BY <2>1 DEF Active, Handling, ActivePhases, Loading, Posting, Ended
    <2>3. \A s \in Active : s = r
      BY <2>2 DEF SingleInv
    <2>4. ASSUME NEW p \in Handling, Continue(r, p) PROVE SingleInv'
      <3>1. p \in Phases
        BY DEF Handling, ActivePhases, Phases
      <3> QED
        BY <2>1, <2>3, <2>4, <3>1, SingleKept DEF Continue
    <2>5. ASSUME NEW p \in {"done", "dropped"}, EndHandling(r, p) PROVE SingleInv'
      <3>1. p \in Phases /\ p \in Ended
        BY DEF Phases, Ended
      <3> QED
        BY <2>3, <2>5, <3>1, SingleKept DEF EndHandling
    <2>6. CASE Exit(r)
      <3>1. "dead" \in Phases /\ "dead" \in Ended
        BY DEF Phases, Ended
      <3> QED
        BY <2>3, <2>6, <3>1, SingleKept DEF Exit
    <2> QED
      BY <1>5, <2>4, <2>5, <2>6, HandlingShape
  <1>6. CASE UNCHANGED vars
    BY <1>6 DEF vars, SingleInv, Active
  <1> QED
    BY <1>1, <1>2, <1>3, <1>4, <1>5, <1>6 DEF Next, Rest

-----------------------------------------------------------------------------
(* Restoring after a snapshot.                                             *)

\* Init establishes RestoreInv.
LEMMA RestoreInit == Init => RestoreInv
  BY ModeAssumption DEF Init, RestoreInv

\* Every step keeps RestoreInv.
LEMMA RestoreStep == TypeOK /\ RestoreInv /\ [Next]_vars => RestoreInv'
  <1> SUFFICES ASSUME TypeOK, RestoreInv, [Next]_vars PROVE RestoreInv'
    OBVIOUS
  <1>1. ASSUME ~redirect, UNCHANGED snapshotVars PROVE RestoreInv'
    BY <1>1 DEF RestoreInv, snapshotVars
  <1>2. ASSUME NEW r \in Requests, Take(r) PROVE RestoreInv'
    BY <1>1, <1>2 DEF Take
  <1>r. ASSUME NEW header, RestoreWorkdir, RestoreEnvironment(header) PROVE RestoreInv'
    BY <1>r DEF RestoreWorkdir, RestoreEnvironment, RestoreInv
  <1>3. ASSUME NEW r \in Requests, NEW header \in CredentialHeaders,
               TakeAfterRestore(r, header)
        PROVE  RestoreInv'
    BY <1>3, <1>r DEF TakeAfterRestore
  <1>4. ASSUME NEW r \in Requests, StartHandler(r) PROVE RestoreInv'
    BY <1>1, <1>4 DEF StartHandler, RestoreInv
  <1>5. CASE Terminate \/ TakeErrorReply
    <2>1. CASE Terminate
      BY <2>1 DEF Terminate, RestoreInv, snapshotVars
    <2>2. CASE TakeErrorReply
      BY <1>r, <2>2 DEF TakeErrorReply
    <2> QED
      BY <1>5, <2>1, <2>2
  <1>6. ASSUME NEW r \in Requests, HandleRequest(r) PROVE RestoreInv'
    <2>1. phase[r] \in Handling /\ UNCHANGED snapshotVars
      BY <1>6, HandlingShape
    <2>2. phase[r] # "inbox"
      BY <2>1 DEF Handling, ActivePhases, Loading, Posting
    <2> QED
      BY <1>1, <2>1, <2>2 DEF RestoreInv
  <1>7. CASE UNCHANGED vars
    BY <1>7 DEF vars, RestoreInv, snapshotVars
  <1> QED
    BY <1>2, <1>3, <1>4, <1>5, <1>6, <1>7 DEF Next, Rest

\* After a restore with any headers, no user code runs before the workspace is the
\* default one, nor, unless a header was absent, before the credentials are the
\* request's own.
THEOREM WorkspaceRestoredFirst == Spec => []RestoredBeforeUserCode
  <1>1. RestoreInv => RestoredBeforeUserCode
    <2> SUFFICES ASSUME RestoreInv, NEW r \in Requests, phase[r] \in {"body", "run"}
                 PROVE  /\ workdir = "default"
                        /\ (\A c \in 1 .. Credentials : brought[c] # "absent") =>
                             \A c \in 1 .. Credentials :
                               brought[c] = "set" => credentials[c] = "request"
      BY DEF RestoredBeforeUserCode
    <2>1. ~redirect
      BY DEF RestoreInv
    <2>2. ASSUME NEW c \in 1 .. Credentials
          PROVE  \A d \in 1 .. c : d \in 1 .. Credentials
      BY EnvironmentAssumption
    <2> QED
      BY <2>1, <2>2 DEF RestoreInv
  <1> QED
    BY <1>1, TypeInit, TypeStep, RestoreInit, RestoreStep, PTL DEF Spec

-----------------------------------------------------------------------------
(* Loading.                                                                *)

\* Init establishes LockInv.
LEMMA LockInit == Init => LockInv
  BY DEF Init, LockInv, Loading

\* At most one request is loading: the lock sees to it, or there is one thread.
LEMMA OneLoader ==
  ASSUME SingleInv, LockInv, NEW r \in Requests, NEW s \in Requests,
         phase[r] \in Loading, phase[s] \in Loading
  PROVE  r = s
  <1>1. CASE LockCreated
    BY <1>1 DEF LockInv
  <1>2. CASE ~LockCreated
    <2>1. ~Concurrent
      BY <1>2, ModeAssumption
    <2>2. r \in Active /\ s \in Active
      BY DEF Active, Loading, Ended
    <2> QED
      BY <2>1, <2>2 DEF SingleInv
  <1> QED
    BY <1>1, <1>2

\* A step that neither loads nor takes or releases the lock.
LEMMA LockKept ==
  ASSUME TypeOK, LockInv, NEW r \in Requests, NEW p \in Phases \ Loading, Enter(r, p),
         UNCHANGED <<lock, modules>>
  PROVE  LockInv'
  BY DEF LockInv, TypeOK, Enter, Loading

\* The loading request leaves: nobody else's view of lock or modules matters.
LEMMA LockLeft ==
  ASSUME TypeOK, SingleInv, LockInv, NEW r \in Requests, phase[r] \in Loading,
         NEW p \in Phases \ Loading, Enter(r, p)
  PROVE  LockInv'
  <1>1. \A s \in Requests : phase'[s] \notin Loading
    <2> SUFFICES ASSUME NEW s \in Requests, phase'[s] \in Loading PROVE FALSE
      OBVIOUS
    <2>1. s # r /\ phase[s] \in Loading
      BY DEF Enter, TypeOK
    <2> QED
      BY <2>1, OneLoader
  <1> QED
    BY <1>1 DEF LockInv, Loading

\* The loading request goes on: what matters is its own new phase.
LEMMA LockLoads ==
  ASSUME TypeOK, SingleInv, LockInv, NEW r \in Requests, phase[r] \in Loading,
         NEW p \in Loading, Enter(r, p), UNCHANGED lock,
         p = "import" => ModuleOf[HandlerOf[r]] \notin modules',
         p \in {"body", "bind"} => ModuleOf[HandlerOf[r]] \in modules'
  PROVE  LockInv'
  <1>1. \A s \in Requests : phase'[s] \in Loading => s = r
    <2> SUFFICES ASSUME NEW s \in Requests, phase'[s] \in Loading, s # r PROVE FALSE
      OBVIOUS
    <2>1. phase[s] \in Loading
      BY DEF Enter, TypeOK
    <2> QED
      BY <2>1, OneLoader
  <1>2. phase'[r] = p
    BY DEF Enter, TypeOK
  <1>3. LockCreated => lock' = r
    BY DEF LockInv
  <1> QED
    BY <1>1, <1>2, <1>3 DEF LockInv, Loading

\* Every step keeps LockInv.
LEMMA LockStep == TypeOK /\ SingleInv /\ LockInv /\ [Next]_vars => LockInv'
  <1> SUFFICES ASSUME TypeOK, SingleInv, LockInv, [Next]_vars PROVE LockInv'
    OBVIOUS
  <1>1. \A p \in {"taken", "begin", "lookup", "acquire", "run"} \cup Posting \cup Ended :
          p \in Phases \ Loading
    BY DEF Phases, Loading, Posting, Ended
  <1>2. ASSUME NEW r \in Requests, Take(r) PROVE LockInv'
    BY <1>1, <1>2, LockKept DEF Take, loadVars
  <1>3. ASSUME NEW r \in Requests, NEW header \in CredentialHeaders,
               TakeAfterRestore(r, header)
        PROVE  LockInv'
    <2>1. UNCHANGED <<lock, modules>> /\ (Enter(r, "dropped") \/ Enter(r, "taken"))
      BY <1>3 DEF TakeAfterRestore, EndHandling, loadVars
    <2> QED
      BY <1>1, <2>1, LockKept DEF Ended
  <1>4. ASSUME NEW r \in Requests, StartHandler(r) PROVE LockInv'
    <2>1. UNCHANGED <<lock, modules>> /\ (Enter(r, "dropped") \/ Enter(r, "begin"))
      BY <1>4 DEF StartHandler, loadVars
    <2> QED
      BY <1>1, <2>1, LockKept DEF Ended
  <1>5. CASE Terminate \/ TakeErrorReply
    BY <1>5 DEF Terminate, TakeErrorReply, LockInv, loadVars
  <1>6. ASSUME NEW r \in Requests, Begin(r) PROVE LockInv'
    <2>1. UNCHANGED <<lock, modules>> /\ (Enter(r, "lastError") \/ Enter(r, "lookup"))
      BY <1>6 DEF Begin, SendLastError, Continue, loadVars
    <2> QED
      BY <1>1, <2>1, LockKept DEF Posting
  <1>7. ASSUME NEW r \in Requests, Lookup(r) PROVE LockInv'
    <2>1. CASE LookupPhase(r) \in {"run", "acquire"}
      BY <1>1, <1>7, <2>1, LockKept DEF Lookup, Continue, loadVars
    <2>2. CASE LookupPhase(r) = "recheck" /\ ~LockCreated
      BY <1>7, <2>2 DEF Lookup, Continue, Enter, LockInv, TypeOK, loadVars
    <2> QED
      BY <2>1, <2>2 DEF LookupPhase
  <1>8. ASSUME NEW r \in Requests, Acquire(r) PROVE LockInv'
    <2>1. LockCreated => \A s \in Requests : phase[s] \notin Loading
      BY <1>8, ModeAssumption DEF Acquire, LockInv
    <2> QED
      BY <1>8, <2>1 DEF Acquire, Continue, Enter, LockInv, TypeOK
  <1>9. ASSUME NEW r \in Requests, Recheck(r) PROVE LockInv'
    <2>1. phase[r] \in Loading /\ UNCHANGED modules
      BY <1>9 DEF Recheck, Loading
    <2>2. CASE Enter(r, "lastError") \/ Enter(r, "error") \/ Enter(r, "run")
      BY <1>1, <2>1, <2>2, LockLeft DEF Posting
    <2>3. CASE /\ UNCHANGED lock
               /\ Enter(r, IF ModuleOf[HandlerOf[r]] \in modules THEN "bind" ELSE "import")
      BY <2>1, <2>3, LockLoads DEF Loading
    <2> QED
      BY <1>9, <2>2, <2>3 DEF Recheck, SendLastError, SendError, Continue
  <1>10. ASSUME NEW r \in Requests, StartBody(r) PROVE LockInv'
    BY <1>10, LockLoads DEF StartBody, Continue, Loading
  <1>11. ASSUME NEW r \in Requests, NEW outcome \in LoadOutcomes, EndBody(r, outcome)
         PROVE  LockInv'
    <2>0. outcome \in {"done", "fails", "exits"}
      BY EnvironmentAssumption
    <2>1. phase[r] = "body" /\ phase[r] \in Loading
      BY <1>11 DEF EndBody, Loading
    <2>2. CASE outcome = "done"
      <3>1. Enter(r, "bind") /\ UNCHANGED <<lock, modules>>
        BY <1>11, <2>2 DEF EndBody, Continue
      <3>2. ModuleOf[HandlerOf[r]] \in modules
        BY <2>1 DEF LockInv
      <3> QED
        BY <2>1, <3>1, <3>2, LockLoads DEF Loading
    <2>3. CASE outcome \in {"fails", "exits"}
      <3>1. Enter(r, "error") \/ Enter(r, "dead")
        BY <1>11, <2>3 DEF EndBody, SendError, Continue, Exit
      <3> QED
        BY <1>1, <2>1, <3>1, LockLeft DEF Posting, Ended
    <2> QED
      BY <2>0, <2>2, <2>3
  <1>12. ASSUME NEW r \in Requests, Bind(r) PROVE LockInv'
    <2>1. phase[r] \in Loading /\ (Enter(r, "error") \/ Enter(r, "run"))
      BY <1>12 DEF Bind, SendError, Continue, Loading
    <2> QED
      BY <1>1, <2>1, LockLeft DEF Posting
  <1>13. ASSUME NEW r \in Requests, NEW outcome \in RunOutcomes, EndRun(r, outcome)
         PROVE  LockInv'
    <2>0. outcome \in {"result", "error", "raises", "exits"}
      BY EnvironmentAssumption
    <2>1. /\ UNCHANGED <<lock, modules>>
          /\ \/ Enter(r, "result") \/ Enter(r, "error")
             \/ Enter(r, "lastError") \/ Enter(r, "dead")
      BY <1>13, <2>0 DEF EndRun, SendResult, SendError, SendLastError, Exit, Continue, loadVars
    <2> QED
      BY <1>1, <2>1, LockKept DEF Posting, Ended
  <1>14. ASSUME NEW r \in Requests, PostSucceeds(r) PROVE LockInv'
    BY <1>1, <1>14, LockKept DEF PostSucceeds, EndHandling, Ended, loadVars
  <1>15. ASSUME NEW r \in Requests, PostRaises(r) PROVE LockInv'
    <2>1. UNCHANGED <<lock, modules>> /\ (Enter(r, "dropped") \/ Enter(r, "lastError"))
      BY <1>15 DEF PostRaises, EndHandling, Continue, loadVars
    <2> QED
      BY <1>1, <2>1, LockKept DEF Posting, Ended
  <1>16. CASE UNCHANGED vars
    BY <1>16 DEF vars, loadVars, LockInv
  <1> QED
    BY <1>2, <1>3, <1>4, <1>5, <1>6, <1>7, <1>8, <1>9, <1>10, <1>11, <1>12, <1>13,
       <1>14, <1>15, <1>16 DEF Next, HandleRequest, Rest

\* What loading relies on, in every reachable state.
LEMMA LoadingInvariant == Spec => [](TypeOK /\ SingleInv /\ LockInv)
  BY TypeInit, TypeStep, SingleInit, SingleStep, LockInit, LockStep, PTL DEF Spec

\* A module's body is never started while the module is in sys.modules, however
\* many threads load handlers of it, and however its loading ends.
THEOREM NoSecondBody == Spec => ModuleBodyRunsOnce
  <1>1. TypeOK /\ SingleInv /\ LockInv =>
          [\A r \in Requests : phase[r] = "import" /\ phase'[r] = "body"
             => ModuleOf[HandlerOf[r]] \notin modules]_vars
    BY DEF LockInv
  <1> QED
    BY <1>1, LoadingInvariant, PTL DEF ModuleBodyRunsOnce

\* A step of another request leaves a request's phase alone.
LEMMA OthersKeepPhase ==
  ASSUME TypeOK, NEW r \in Requests, NEW s \in Requests, r # s,
         \/ Take(s)
         \/ \E header \in CredentialHeaders : TakeAfterRestore(s, header)
         \/ StartHandler(s)
         \/ HandleRequest(s)
  PROVE  phase'[r] = phase[r]
  <1>1. ASSUME NEW p, Enter(s, p) PROVE phase'[r] = phase[r]
    BY <1>1 DEF Enter, TypeOK
  <1>2. CASE Take(s)
    BY <1>1, <1>2 DEF Take
  <1>3. ASSUME NEW header \in CredentialHeaders, TakeAfterRestore(s, header)
        PROVE  phase'[r] = phase[r]
    BY <1>1, <1>3 DEF TakeAfterRestore, EndHandling
  <1>4. CASE StartHandler(s)
    BY <1>1, <1>4 DEF StartHandler
  <1>5. CASE HandleRequest(s)
    BY <1>1, <1>5, HandlingShape DEF Continue, EndHandling, Exit
  <1> QED
    BY <1>2, <1>3, <1>4, <1>5

\* Only Bind moves a request out of phase "bind".
LEMMA OnlyBind ==
  ASSUME TypeOK, NEW r \in Requests, [Next]_vars, phase[r] = "bind", phase'[r] # "bind"
  PROVE  Bind(r)
  <1>1. PICK s \in Requests : \/ Take(s)
                              \/ \E header \in CredentialHeaders : TakeAfterRestore(s, header)
                              \/ StartHandler(s)
                              \/ HandleRequest(s)
    BY DEF Next, Terminate, TakeErrorReply, Rest, vars
  <1>2. s = r
    BY <1>1, OthersKeepPhase
  <1> QED
    BY <1>1, <1>2 DEF Take, TakeAfterRestore, StartHandler, HandleRequest, Begin, Lookup,
                      Acquire, Recheck, StartBody, EndBody, EndRun, PostSucceeds, PostRaises,
                      Posting

\* HandlerNotFound is only answered for a handler that its module lacks.
THEOREM NotFoundOnlyIfMissing == Spec => NotFoundIsTrue
  <1>1. TypeOK /\ SingleInv /\ LockInv /\ [Next]_vars =>
          [\A r \in Requests : phase[r] = "bind" /\ phase'[r] = "error"
             => HandlerOf[r] \in MissingHandlers]_vars
    <2> SUFFICES ASSUME TypeOK, SingleInv, LockInv, [Next]_vars,
                        NEW r \in Requests, phase[r] = "bind", phase'[r] = "error"
                 PROVE  HandlerOf[r] \in MissingHandlers
      OBVIOUS
    <2>1. Bind(r)
      BY OnlyBind
    <2>2. Initialised(ModuleOf[HandlerOf[r]])
      <3>1. ModuleOf[HandlerOf[r]] \in modules
        BY DEF LockInv
      <3>2. \A s \in Requests : phase[s] # "body"
        BY OneLoader DEF Loading
      <3> QED
        BY <3>1, <3>2 DEF Initialised
    <2> QED
      BY <2>1, <2>2 DEF Bind, Continue, Enter, TypeOK
  <1> QED
    BY <1>1, LoadingInvariant, PTL DEF Spec, NotFoundIsTrue

-----------------------------------------------------------------------------
(* Answers.                                                                *)

\* Init establishes AnswerInv.
LEMMA AnswerInit == Init => AnswerInv
  BY DEF Init, AnswerInv

\* A step that neither prints an End line nor posts, and ends no request well.
LEMMA AnswerKept ==
  ASSUME TypeOK, AnswerInv, NEW r \in Requests, phase[r] # "done",
         NEW p \in Phases \ ({"done"} \cup Posting), Enter(r, p), UNCHANGED <<endLog, replies>>
  PROVE  AnswerInv'
  BY DEF AnswerInv, TypeOK, Enter, Posting

\* A step that prints an End line and goes on to the post it announces.
LEMMA AnswerAnnounced ==
  ASSUME TypeOK, AnswerInv, NEW r \in Requests, phase[r] # "done", UNCHANGED replies,
         \/ LogEnd(r, "handled") /\ Enter(r, "result")
         \/ LogEnd(r, "unhandled") /\ Enter(r, "error")
         \/ LogEnd(r, "unhandled") /\ Enter(r, "lastError")
  PROVE  AnswerInv'
  <1>1. \A s \in Requests \ {r} : endLog'[s] = endLog[s] /\ phase'[s] = phase[s]
    BY DEF LogEnd, Enter, TypeOK
  <1>2. /\ phase'[r] \in Posting
        /\ endLog'[r] = IF phase'[r] = "result" THEN "handled" ELSE "unhandled"
    BY DEF LogEnd, Enter, TypeOK, Posting
  <1> QED
    BY <1>1, <1>2 DEF AnswerInv, Posting

\* A post that succeeds keeps AnswerInv.
LEMMA AnswerPosted ==
  ASSUME TypeOK, AnswerInv, NEW r \in Requests, PostSucceeds(r)
  PROVE  AnswerInv'
  <1>1. phase[r] \in Posting /\ replies[r] = <<>>
    BY DEF PostSucceeds, AnswerInv, Posting
  <1>2. \A s \in Requests \ {r} : /\ phase'[s] = phase[s]
                                  /\ replies'[s] = replies[s]
                                  /\ endLog'[s] = endLog[s]
    BY DEF PostSucceeds, EndHandling, Enter, TypeOK
  <1>3. phase'[r] = "done" /\ endLog'[r] = endLog[r]
    BY DEF PostSucceeds, EndHandling, Enter, TypeOK
  <1>4. CASE phase[r] = "result"
    <2>1. replies'[r] = <<"result">>
      BY <1>1, <1>4 DEF PostSucceeds, TypeOK
    <2>2. endLog[r] = "handled"
      BY <1>4 DEF AnswerInv
    <2> QED
      BY <1>2, <1>3, <2>1, <2>2 DEF AnswerInv
  <1>5. CASE phase[r] # "result"
    <2>1. replies'[r] = <<"error">>
      BY <1>1, <1>5 DEF PostSucceeds, TypeOK
    <2>2. endLog[r] = "unhandled"
      BY <1>1, <1>5 DEF AnswerInv, Posting
    <2> QED
      BY <1>2, <1>3, <2>1, <2>2 DEF AnswerInv
  <1> QED
    BY <1>4, <1>5

\* Every step keeps AnswerInv.
LEMMA AnswerStep == TypeOK /\ AnswerInv /\ [Next]_vars => AnswerInv'
  <1> SUFFICES ASSUME TypeOK, AnswerInv, [Next]_vars PROVE AnswerInv'
    OBVIOUS
  <1>1. \A p \in {"taken", "begin", "lookup", "acquire", "run", "dropped", "dead"} \cup Loading :
          p \in Phases \ ({"done"} \cup Posting)
    BY DEF Phases, Loading, Posting, Ended
  <1>2. ASSUME NEW r \in Requests, Take(r) PROVE AnswerInv'
    BY <1>1, <1>2, AnswerKept DEF Take, postVars
  <1>3. ASSUME NEW r \in Requests, NEW header \in CredentialHeaders,
               TakeAfterRestore(r, header)
        PROVE  AnswerInv'
    <2>1. /\ phase[r] # "done" /\ UNCHANGED <<endLog, replies>>
          /\ Enter(r, "dropped") \/ Enter(r, "taken")
      BY <1>3 DEF TakeAfterRestore, EndHandling, postVars
    <2> QED
      BY <1>1, <2>1, AnswerKept
  <1>4. ASSUME NEW r \in Requests, StartHandler(r) PROVE AnswerInv'
    <2>1. /\ phase[r] # "done" /\ UNCHANGED <<endLog, replies>>
          /\ Enter(r, "dropped") \/ Enter(r, "begin")
      BY <1>4 DEF StartHandler, postVars
    <2> QED
      BY <1>1, <2>1, AnswerKept
  <1>5. CASE Terminate \/ TakeErrorReply
    BY <1>5 DEF Terminate, TakeErrorReply, AnswerInv, postVars
  <1>6. ASSUME NEW r \in Requests, Begin(r) PROVE AnswerInv'
    <2>1. CASE SendLastError(r)
      BY <1>6, <2>1, AnswerAnnounced DEF Begin, SendLastError, Continue
    <2>2. CASE Continue(r, "lookup") /\ UNCHANGED postVars
      BY <1>1, <1>6, <2>2, AnswerKept DEF Begin, Continue, postVars
    <2> QED
      BY <1>6, <2>1, <2>2 DEF Begin
  <1>7. ASSUME NEW r \in Requests, Lookup(r) PROVE AnswerInv'
    <2>1. LookupPhase(r) \in {"run", "acquire", "recheck"}
      BY DEF LookupPhase
    <2> QED
      BY <1>1, <1>7, <2>1, AnswerKept DEF Lookup, Continue, Loading, postVars
  <1>8. ASSUME NEW r \in Requests, Acquire(r) PROVE AnswerInv'
    BY <1>1, <1>8, AnswerKept DEF Acquire, Continue, Loading, postVars
  <1>9. ASSUME NEW r \in Requests, Recheck(r) PROVE AnswerInv'
    <2>1. CASE SendLastError(r) \/ SendError(r)
      BY <1>9, <2>1, AnswerAnnounced DEF Recheck, SendLastError, SendError, Continue
    <2>2. CASE /\ UNCHANGED postVars
               /\ Enter(r, "run") \/ Enter(r, "bind") \/ Enter(r, "import")
      BY <1>1, <1>9, <2>2, AnswerKept DEF Recheck, Loading, postVars
    <2> QED
      BY <1>9, <2>1, <2>2 DEF Recheck, Continue
  <1>10. ASSUME NEW r \in Requests, StartBody(r) PROVE AnswerInv'
    BY <1>1, <1>10, AnswerKept DEF StartBody, Continue, Loading, postVars
  <1>11. ASSUME NEW r \in Requests, NEW outcome \in LoadOutcomes, EndBody(r, outcome)
         PROVE  AnswerInv'
    <2>0. outcome \in {"done", "fails", "exits"}
      BY EnvironmentAssumption
    <2>1. CASE SendError(r)
      BY <1>11, <2>1, AnswerAnnounced DEF EndBody, SendError, Continue
    <2>2. CASE UNCHANGED postVars /\ (Enter(r, "bind") \/ Enter(r, "dead"))
      BY <1>1, <1>11, <2>2, AnswerKept DEF EndBody, Loading, postVars
    <2> QED
      BY <1>11, <2>0, <2>1, <2>2 DEF EndBody, Continue, Exit
  <1>12. ASSUME NEW r \in Requests, Bind(r) PROVE AnswerInv'
    <2>1. CASE SendError(r)
      BY <1>12, <2>1, AnswerAnnounced DEF Bind, SendError, Continue
    <2>2. CASE UNCHANGED postVars /\ Enter(r, "run")
      BY <1>1, <1>12, <2>2, AnswerKept DEF Bind, postVars
    <2> QED
      BY <1>12, <2>1, <2>2 DEF Bind, Continue
  <1>13. ASSUME NEW r \in Requests, NEW outcome \in RunOutcomes, EndRun(r, outcome)
         PROVE  AnswerInv'
    <2>0. outcome \in {"result", "error", "raises", "exits"}
      BY EnvironmentAssumption
    <2>1. CASE SendResult(r) \/ SendError(r) \/ SendLastError(r)
      BY <1>13, <2>1, AnswerAnnounced
      DEF EndRun, SendResult, SendError, SendLastError, Continue
    <2>2. CASE Exit(r) /\ UNCHANGED postVars
      BY <1>1, <1>13, <2>2, AnswerKept DEF EndRun, Exit, postVars
    <2> QED
      BY <1>13, <2>0, <2>1, <2>2 DEF EndRun
  <1>14. ASSUME NEW r \in Requests, PostSucceeds(r) PROVE AnswerInv'
    BY <1>14, AnswerPosted
  <1>15. ASSUME NEW r \in Requests, PostRaises(r) PROVE AnswerInv'
    <2>1. phase[r] # "done" /\ UNCHANGED replies
      BY <1>15 DEF PostRaises, Posting
    <2>2. CASE phase[r] = "lastError"
      BY <1>1, <1>15, <2>1, <2>2, AnswerKept DEF PostRaises, EndHandling
    <2>3. CASE phase[r] # "lastError"
      BY <1>15, <2>1, <2>3, AnswerAnnounced DEF PostRaises, Continue
    <2> QED
      BY <2>2, <2>3
  <1>16. CASE UNCHANGED vars
    BY <1>16 DEF vars, postVars, AnswerInv
  <1> QED
    BY <1>2, <1>3, <1>4, <1>5, <1>6, <1>7, <1>8, <1>9, <1>10, <1>11, <1>12, <1>13,
       <1>14, <1>15, <1>16 DEF Next, HandleRequest, Rest

\* What answering relies on, in every reachable state.
LEMMA AnswerInvariant == Spec => [](TypeOK /\ AnswerInv)
  BY TypeInit, TypeStep, AnswerInit, AnswerStep, PTL DEF Spec

\* The End line and the answer of a request agree, also when a post raised.
THEOREM LogAgreesWithAnswer == Spec => []AnswerAgreesWithLog
  <1>1. TypeOK /\ AnswerInv => AnswerAgreesWithLog
    BY DEF AnswerInv, AnswerAgreesWithLog
  <1> QED
    BY <1>1, AnswerInvariant, PTL

-----------------------------------------------------------------------------
(* The loop implements InvocationContract.                                 *)

\* Steps of handle_request that do not post leave the contract's view alone.
LEMMA HandlingStutters ==
  ASSUME TypeOK, NEW r \in Requests, HandleRequest(r), ~PostSucceeds(r)
  PROVE  UNCHANGED replies
  <1>1. ASSUME NEW outcome \in LoadOutcomes, EndBody(r, outcome) PROVE UNCHANGED replies
    <2>0. outcome \in {"done", "fails", "exits"}
      BY EnvironmentAssumption
    <2> QED
      BY <1>1, <2>0 DEF EndBody, SendError, postVars
  <1>2. ASSUME NEW outcome \in RunOutcomes, EndRun(r, outcome) PROVE UNCHANGED replies
    <2>0. outcome \in {"result", "error", "raises", "exits"}
      BY EnvironmentAssumption
    <2> QED
      BY <1>2, <2>0 DEF EndRun, SendResult, SendError, SendLastError, postVars
  <1> QED
    BY <1>1, <1>2 DEF HandleRequest, Begin, Lookup, Acquire, Recheck, StartBody, Bind,
                      PostRaises, SendError, SendLastError, postVars

\* Every run of the loop is a run of the contract, whatever raises, exits or is
\* terminated, and in whatever order the threads run.
THEOREM LoopImplementsContract == Spec => ContractSpec
  <1>1. Init => Contract!Init
    BY DEF Init, Contract!Init
  <1>2. TypeOK /\ AnswerInv /\ [Next]_vars => [Contract!Next]_(Contract!contractVars)
    <2> SUFFICES ASSUME TypeOK, AnswerInv, [Next]_vars
                 PROVE  Contract!Next \/ UNCHANGED Contract!contractVars
      OBVIOUS
    <2> DEFINE waiting == {r \in Requests : phase[r] = "inbox"}
    <2>1. ASSUME NEW r \in Requests, phase[r] = "inbox", UNCHANGED replies,
                 NEW p, p # "inbox", Enter(r, p)
          PROVE  Contract!Next
      <3>1. waiting' = waiting \ {r}
        BY <2>1 DEF Enter, TypeOK
      <3>2. r \in waiting
        BY <2>1
      <3>3. Contract!Take(r)
        BY <2>1, <3>1, <3>2 DEF Contract!Take
      <3> QED
        BY <3>3 DEF Contract!Next
    <2>2. ASSUME NEW r \in Requests, phase[r] # "inbox", NEW p, p # "inbox", Enter(r, p)
          PROVE  waiting' = waiting
      BY <2>2 DEF Enter, TypeOK
    <2>3. ASSUME NEW r \in Requests, Take(r) PROVE Contract!Next
      BY <2>1, <2>3 DEF Take, postVars
    <2>4. ASSUME NEW r \in Requests, NEW header \in CredentialHeaders,
                 TakeAfterRestore(r, header)
          PROVE  Contract!Next
      <3>1. phase[r] = "inbox" /\ UNCHANGED replies /\ (Enter(r, "dropped") \/ Enter(r, "taken"))
        BY <2>4 DEF TakeAfterRestore, EndHandling, postVars
      <3> QED
        BY <2>1, <3>1
    <2>5. ASSUME NEW r \in Requests, StartHandler(r)
          PROVE  UNCHANGED Contract!contractVars
      <3>1. /\ phase[r] # "inbox" /\ UNCHANGED replies
            /\ Enter(r, "dropped") \/ Enter(r, "begin")
        BY <2>5 DEF StartHandler, postVars
      <3>2. waiting' = waiting
        BY <2>2, <3>1
      <3> QED
        BY <3>1, <3>2 DEF Contract!contractVars
    <2>6. ASSUME NEW r \in Requests, HandleRequest(r)
          PROVE  waiting' = waiting
      <3>1. phase[r] # "inbox"
        BY <2>6, HandlingShape DEF Handling, ActivePhases, Loading, Posting
      <3>2. PICK p \in Handling \cup {"done", "dropped", "dead"} : Enter(r, p)
        BY <2>6, HandlingShape DEF Continue, EndHandling, Exit
      <3>3. p # "inbox"
        BY <3>2 DEF Handling, ActivePhases, Loading, Posting
      <3> QED
        BY <2>2, <3>1, <3>2, <3>3
    <2>7. ASSUME NEW r \in Requests, PostSucceeds(r) PROVE Contract!Next
      <3> DEFINE kind == IF phase[r] = "result" THEN "result" ELSE "error"
      <3>1. phase[r] \in Posting /\ replies[r] = <<>>
        BY <2>7 DEF PostSucceeds, AnswerInv, Posting
      <3>2. r \in Requests \ waiting
        BY <3>1 DEF Posting
      <3>3. Append(replies[r], kind) = <<kind>>
        BY <3>1
      <3>4. replies' = [replies EXCEPT ![r] = <<kind>>]
        BY <2>7, <3>3 DEF PostSucceeds, TypeOK
      <3>5. waiting' = waiting
        BY <2>6, <2>7 DEF HandleRequest
      <3>6. kind \in {"result", "error"}
        OBVIOUS
      <3>7. Contract!Answer(r, kind)
        BY <3>1, <3>2, <3>4, <3>5 DEF Contract!Answer
      <3> QED
        BY <3>6, <3>7 DEF Contract!Next
    <2>8. ASSUME NEW r \in Requests, HandleRequest(r), ~PostSucceeds(r)
          PROVE  UNCHANGED Contract!contractVars
      BY <2>6, <2>8, HandlingStutters DEF Contract!contractVars
    <2>9. CASE Terminate \/ TakeErrorReply
      BY <2>9 DEF Terminate, TakeErrorReply, postVars, Contract!contractVars
    <2>10. CASE UNCHANGED vars
      BY <2>10 DEF vars, postVars, Contract!contractVars
    <2> QED
      BY <2>3, <2>4, <2>5, <2>7, <2>8, <2>9, <2>10 DEF Next, Rest
  <1> QED
    BY <1>1, <1>2, AnswerInvariant, PTL DEF Spec, ContractSpec, Contract!Spec
=============================================================================
