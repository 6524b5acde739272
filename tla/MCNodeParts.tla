----------------------------- MODULE MCNodeParts -----------------------------
(***************************************************************************)
(* Three components of the Node.js runtimes that share no state, checked   *)
(* side by side: the initial state chooses one of the parts, and only the  *)
(* variables of that part ever change.                                     *)
(*                                                                         *)
(*   legacy        the loop of Node.js 4 and 6, in both modes;             *)
(*   http          one request and response of an HTTP function;           *)
(*   environment   the process environment and the loading of handlers.    *)
(***************************************************************************)
EXTENDS NodeLegacy, NodeHttpParam, NodeEnvironment

VARIABLE part

-----------------------------------------------------------------------------
(* NodeHttpParam: a unique header, an array header and a plain one, twice  *)
(* in two spellings and with an empty value, in headers or in headersMap.  *)

Lower(name) == [lower |-> name, as |-> "lower"]
Mixed(name) == [lower |-> name, as |-> "mixed"]
SomeHeaderNames == {"etag", "accept", "set-cookie"}
PairsOf(name) == {Lower(name), Mixed(name)} \X {"", "a"}

AsHeaders(p, q) ==
  [headers |-> <<p, q, <<Lower("accept"), "c">>>>, headersMap |-> <<>>, mapKeys |-> 0,
   queries |-> "q" :> "1", queriesMap |-> <<>>]
AsMaps(name, v, w) ==
  [headers |-> <<>>, mapKeys |-> 2,
   headersMap |-> [i \in DOMAIN v |-> <<Lower(name), v[i]>>] \o [i \in DOMAIN w |-> <<Mixed(name), w[i]>>],
   queries |-> <<>>, queriesMap |-> "q" :> v]

SomeParams ==
  {AsHeaders(p, q) : p, q \in UNION {PairsOf(name) : name \in SomeHeaderNames}}
    \cup {AsMaps(name, v, w) : name \in SomeHeaderNames,
                               v \in {<<>>, <<"a">>, <<"", "b">>, <<"a", "b">>},
                               w \in {<<>>, <<"">>, <<"c", "d">>}}

SomeValues == {<<"a">>, <<"b">>, <<"array", "c", "d">>, <<"array">>, <<>>}

-----------------------------------------------------------------------------
(* NodeEnvironment: containers with and without a snapshot, an unblocking  *)
(* client, a concurrency setting; a request without x-fc-instance-id and   *)
(* the like, one for a handler without a dot, one without a name.          *)

With(names, value) == [n \in names |-> value]
Container ==
  With({"FC_FUNC_CODE_PATH", "FC_RUNTIME_API", "ALIBABA_CLOUD_ACCESS_KEY_ID",
        "accessKeySecret", "FC_INSTANCE_ID", "_FC_LOG_FD"}, "placeholder")
SomeEnvironments ==
  {Container,
   With({"FC_SNAPSHOT_FLAG"}, "1") @@ Container,
   With({"FC_SNAPSHOT_FLAG"}, "0") @@ Container,
   With({"FC_USE_UNBLOCK_CLIENT", "FC_ENABLE_CONCURRENT_INVOKE"}, "true") @@ Container,
   With({"FC_USE_UNBLOCK_CLIENT"}, "true"),
   With({"FC_RUNTIME_API"}, "addr")}

Named == {"q1", "q2", "q3"}
SomeHandlers == [r \in Named |-> IF r = "q3" THEN "plain" ELSE "index.handler"]
SomeHeaders ==
  [r \in Named |->
     IF r = "q2" THEN {"instance-id"}
     ELSE {"access-key-id", "access-key-secret", "security-token", "instance-id"}]

-----------------------------------------------------------------------------
legacyVars == <<startVars, alive, inbox, loopVars, current, callbackVars,
                postVars, userVars, waitForEmpty, failures>>
partsVars == <<part, legacyVars, httpVars, processVars>>

PartsInit ==
  /\ part \in {"legacy", "http", "environment"}
  /\ Init /\ HttpInit /\ ProcessInit
  /\ part # "legacy" => ~EnableConcurrentInvoke /\ "unref" \in handleKinds
  /\ part # "http" => httpParams = AsHeaders(<<Lower("etag"), "a">>, <<Lower("etag"), "a">>)
  /\ part # "environment" => given = Container /\ fileThere

\* A step of the loop of Node.js 4 and 6.
Loop(step) ==
  /\ part = "legacy"
  /\ step
  /\ UNCHANGED <<part, startVars, httpVars, processVars>>

PartsNext ==
  \/ Loop(Step)
  \/ part = "http" /\ HttpNext /\ UNCHANGED <<part, legacyVars, processVars>>
  \/ part = "environment" /\ ProcessNext /\ UNCHANGED <<part, legacyVars, httpVars>>

\* The event loop goes on; streams, posts and pending handles that keep it busy
\* come to an end.
LoopFairness ==
  /\ WF_partsVars(Loop(StartPoll))
  /\ WF_partsVars(Loop(BeforeExit))
  /\ WF_partsVars(\E h \in {"none", "ref", "unref"} : Loop(Return(h)))
  /\ WF_partsVars(\E r \in Requests : Loop(Digest(r)))
  /\ SF_partsVars(\E r \in Requests, end \in {"result", "error", "stall"} : Loop(EndStream(r, end)))
  /\ SF_partsVars(\E r \in Requests : Loop(PostEnds(r) \/ PostFails(r)))
  /\ SF_partsVars(\E r \in Requests, f \in {"task", "promise"} : Loop(Resume(r, f)))

PartsSpec == PartsInit /\ [][PartsNext]_partsVars /\ LoopFairness

-----------------------------------------------------------------------------

\* Whatever happened to its requests, the runtime asks for the next one: lost
\* answers, failed polls and failed posts are made up for by "beforeExit".
LegacyPollsAgain == []<>(part # "legacy" \/ polls > 0 \/ ~alive)
=============================================================================
