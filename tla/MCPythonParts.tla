--------------------------- MODULE MCPythonParts ---------------------------
(***************************************************************************)
(* Three components of the Python runtimes that share no state, checked    *)
(* side by side: the initial state chooses one of the parts, and only the  *)
(* variables of that part ever change.                                     *)
(*                                                                         *)
(*   python2   the loop of Python 2;                                       *)
(*   logs      the log sinks of Python 3;                                  *)
(*   wsgi      one request and response of a Python 3 HTTP function.       *)
(***************************************************************************)
EXTENDS Python2Runtime, PythonLogs, PythonWsgi, TLC

VARIABLE part

-----------------------------------------------------------------------------
(* Python2Runtime: two requests for one handler, of which one is an HTTP   *)
(* request, one for a handler its module does not define, one without a    *)
(* dot in its handler, and one that lacks a header.                        *)

SomeHandlers ==
  "a" :> "m.f" @@ "b" :> "m.f" @@ "c" :> "m.g" @@ "d" :> "plain" @@ "e" :> "m.f"
SomeModules == "m.f" :> "m" @@ "m.g" :> "m" @@ "plain" :> "plain"
Full == {"FC_FUNC_CODE_PATH", "_FC_LOG_FD", "FC_RUNTIME_API", "FC_SERVER_PATH"}
SomeEnvironments == {Full} \cup {Full \ {n} : n \in Full}

-----------------------------------------------------------------------------
\* PythonLogs: a line of two bytes per character that a raw write takes whole,
\* one that is longer than that, and one that is cut twice, longer than a writer.
SomeMessages ==
  {[chars |-> 2, width |-> 2], [chars |-> 4, width |-> 1], [chars |-> 9, width |-> 1]}

-----------------------------------------------------------------------------
(* PythonWsgi: spellings of a header and of the content type, one that is  *)
(* no content type but has its name, with and without values, next to a    *)
(* variable of os.environ of the same name, and a header that has the name *)
(* of the handler.                                                         *)

SomeNames ==
  "x-a" :> "HTTP_X_A" @@ "X-A" :> "HTTP_X_A" @@ "content_type" :> "HTTP_CONTENT_TYPE"
    @@ "content-type" :> "HTTP_CONTENT_TYPE" @@ "Content-Type" :> "HTTP_CONTENT_TYPE"
    @@ "x-fc-function-handler" :> FunctionHandler
Sent(name, values) == [name |-> name, values |-> values]
SomeMaps ==
  {<<>>, <<Sent("x-a", <<"u", "v">>), Sent("X-A", <<"w">>)>>,
   <<Sent("x-fc-function-handler", <<"u">>), Sent("x-a", <<"v">>)>>}
    \cup {<<Sent("content-type", <<"u">>), Sent("x-a", <<>>), Sent("Content-Type", w),
            Sent("content_type", <<"v">>)>> : w \in {<<>>, <<"w">>}}
SomeEnviron ==
  "HTTP_X_A" :> <<"os">> @@ "PATH" :> <<"/">> @@ "HTTP_CONTENT_TYPE" :> <<>>
    @@ "CONTENT_TYPE" :> <<"os">> @@ FunctionHandler :> <<>>
SomeHandler == <<"m.f">>

Pair(key, value) == [key |-> key, value |-> value]
SomeResponses ==
  {<<>>, <<Pair("x-b", "v")>>,
   <<Pair("set-cookie", "u"), Pair("x-b", "u"), Pair("set-cookie", "v")>>}

-----------------------------------------------------------------------------
partsVars == <<part, vars, logVars, wsgiVars>>

PartsInit ==
  /\ part \in {"python2", "logs", "wsgi"}
  /\ Init /\ LogsInit /\ WsgiInit
  /\ part # "python2" => env = Full /\ files = {}
  /\ part # "wsgi" => headersMap = <<>>

PartsNext ==
  \/ part = "python2" /\ Next /\ UNCHANGED <<part, logVars, wsgiVars>>
  \/ part = "logs" /\ LogsNext /\ UNCHANGED <<part, vars, wsgiVars>>
  \/ part = "wsgi" /\ WsgiNext /\ UNCHANGED <<part, vars, logVars>>

PartsSpec == PartsInit /\ [][PartsNext]_partsVars
=============================================================================
