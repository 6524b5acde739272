----------------------------- MODULE PythonWsgi -----------------------------
(***************************************************************************)
(* HTTP functions of Python 3, fc_rapis_wsgi.py: the environment that is   *)
(* made of x-fc-http-params, and the response that a WSGI application      *)
(* starts, writes and returns.  A turn of a loop over headers is a step.   *)
(* Several spellings of a header share a name in the environment; joined   *)
(* values are the sequence of them, and a key without values is missing.   *)
(***************************************************************************)
EXTENDS Integers, Sequences, FiniteSets

CONSTANTS
  EnvironNames, \* names of variables that matter here
  Values,       \* values of headers
  HeaderNames,  \* spellings of the request's headers
  NameOf,       \* NameOf[h]: "HTTP_" and the rest of h in capitals
  ContentTypes, \* spellings of Content-Type
  HeadersMaps,  \* headersMap: sequences of [name, values], each name once
  OsEnviron,    \* os.environ with the defaults, but for CONTENT_TYPE
  Handler,      \* context.function.handler
  Keys,         \* header names of a response
  Responses,    \* its header lists: sequences of [key, value]
  Statuses,     \* its status codes
  Pieces,       \* pieces of its body
  MaxCalls      \* calls of start_response and write

OctetStream == <<"application/octet-stream">>

FunctionHandler == "HTTP_X_FC_FUNCTION_HANDLER"

ASSUME WsgiAssumption ==
  /\ {"CONTENT_TYPE", FunctionHandler} \subseteq EnvironNames
  /\ NameOf \in [HeaderNames -> EnvironNames \ {"CONTENT_TYPE"}]
  /\ HeadersMaps \subseteq Seq([name : HeaderNames, values : Seq(Values)])
  /\ DOMAIN OsEnviron = EnvironNames
  /\ Responses \subseteq Seq([key : Keys, value : Values])

VARIABLES
  wsgiAt,      \* "type", "environ", "app", "start", "answered"
  headersMap,  \* the headers of the request
  turn,        \* how many turns of the loop were made
  ctKey,       \* ct_key: the content type that is popped, 0 for none
  environ,     \* what the application gets
  starting,    \* the call of start_response that is going on
  grouped,     \* its headersMap, as far as it is made
  started,     \* self.http_params: the status and the headersMap
  written,     \* self.body
  calls,       \* history: the calls of the application that ended, in order
  result       \* what is answered: params and body

requestVars == <<headersMap, ctKey, environ>>
startVars == <<turn, starting, grouped>>
wsgiVars == <<wsgiAt, requestVars, startVars, started, written, calls, result>>

NoHeaders == [key \in Keys |-> <<>>]
NotStarted == [status |-> 0, headers |-> NoHeaders]
NoCall == [kind |-> "none", status |-> 0, headers |-> <<>>, piece |-> "none"]

WsgiInit ==
  /\ wsgiAt = "type"
  /\ headersMap \in HeadersMaps
  /\ turn = 0
  /\ ctKey = 0
  /\ environ = [OsEnviron EXCEPT !["CONTENT_TYPE"] = OctetStream]
  /\ starting = NoCall
  /\ grouped = NoHeaders
  /\ started = NotStarted
  /\ written = <<>>
  /\ calls = <<>>
  /\ result = [kind |-> "none", params |-> NotStarted, body |-> <<>>]

-----------------------------------------------------------------------------
(* get_environ.                                                            *)

\* The loop that looks for the content type: the last spelling is popped.
FindContentType ==
  /\ wsgiAt = "type"
  /\ turn < Len(headersMap)
  /\ turn' = turn + 1
  /\ ctKey' = IF headersMap[turn + 1].name \in ContentTypes THEN turn + 1 ELSE ctKey
  /\ UNCHANGED <<wsgiAt, headersMap, environ, starting, grouped, started, written, calls, result>>

\* It is popped, and taken if it has a value.
PopContentType ==
  /\ wsgiAt = "type"
  /\ turn = Len(headersMap)
  /\ wsgiAt' = "environ"
  /\ turn' = 0
  /\ IF ctKey # 0 /\ headersMap[ctKey].values # <<>>
       THEN environ' = [environ EXCEPT !["CONTENT_TYPE"] = headersMap[ctKey].values]
       ELSE UNCHANGED environ
  /\ UNCHANGED <<headersMap, ctKey, starting, grouped, started, written, calls, result>>

\* The loop over the headers that are left: the last spelling of a name wins.
AddHeader ==
  /\ wsgiAt = "environ"
  /\ turn < Len(headersMap)
  /\ turn' = turn + 1
  /\ LET header == headersMap[turn + 1]
     IN  IF turn + 1 # ctKey
           THEN environ' = [environ EXCEPT ![NameOf[header.name]] = header.values]
           ELSE UNCHANGED environ
  /\ UNCHANGED <<wsgiAt, headersMap, ctKey, starting, grouped, started, written, calls, result>>

\* The handler's name replaces a header of that name, and the application is called.
CallApplication ==
  /\ wsgiAt = "environ"
  /\ turn = Len(headersMap)
  /\ wsgiAt' = "app"
  /\ environ' = [environ EXCEPT ![FunctionHandler] = Handler]
  /\ UNCHANGED <<headersMap, ctKey, startVars, started, written, calls, result>>

-----------------------------------------------------------------------------
(* The application and StartResponseWrapper.                               *)

\* start_response is called, perhaps again.  A status that is no number raises
\* and changes nothing, so that it is no step.
StartResponse(status, headers) ==
  /\ wsgiAt = "app"
  /\ Len(calls) < MaxCalls
  /\ wsgiAt' = "start"
  /\ turn' = 0
  /\ starting' = [kind |-> "start", status |-> status, headers |-> headers, piece |-> "none"]
  /\ grouped' = NoHeaders
  /\ UNCHANGED <<requestVars, started, written, calls, result>>

\* Mutant of Grouped: a header that comes again replaces the first one.
GroupedLast(values, value) == <<value>>

\* The values of a header with one more.
Grouped(values, value) == Append(values, value)

\* A turn of its loop.
GroupHeader ==
  /\ wsgiAt = "start"
  /\ turn < Len(starting.headers)
  /\ turn' = turn + 1
  /\ LET header == starting.headers[turn + 1]
     IN  grouped' = [grouped EXCEPT ![header.key] = Grouped(@, header.value)]
  /\ UNCHANGED <<wsgiAt, requestVars, starting, started, written, calls, result>>

\* A header that is no pair, or a value that is no JSON: start_response raises,
\* and what was started before stays.
StartRaises ==
  /\ wsgiAt = "start"
  /\ wsgiAt' = "app"
  /\ UNCHANGED <<requestVars, startVars, started, written, calls, result>>

\* start_response returns: its headers replace those of an earlier call.
EndStart ==
  /\ wsgiAt = "start"
  /\ turn = Len(starting.headers)
  /\ wsgiAt' = "app"
  /\ started' = [status |-> starting.status, headers |-> grouped]
  /\ calls' = Append(calls, starting)
  /\ UNCHANGED <<requestVars, startVars, written, result>>

IsStart(call) == call.kind = "start"

\* The write that start_response returned.
Write(piece) ==
  /\ wsgiAt = "app"
  /\ \E i \in DOMAIN calls : IsStart(calls[i])
  /\ Len(calls) < MaxCalls
  /\ written' = Append(written, piece)
  /\ calls' = Append(calls, [kind |-> "write", status |-> 0, headers |-> <<>>, piece |-> piece])
  /\ UNCHANGED <<wsgiAt, requestVars, startVars, started, result>>

\* The application's output is exhausted: what was written comes first.
Respond(output) ==
  /\ wsgiAt = "app"
  /\ wsgiAt' = "answered"
  /\ result' = [kind |-> "response", params |-> started, body |-> written \o output]
  /\ UNCHANGED <<requestVars, startVars, started, written, calls>>

\* The application raises, or its output holds something else than text.
ApplicationRaises ==
  /\ wsgiAt = "app"
  /\ wsgiAt' = "answered"
  /\ result' = [result EXCEPT !.kind = "error"]
  /\ UNCHANGED <<requestVars, startVars, started, written, calls>>

\* The request is answered.
WsgiRest == wsgiAt = "answered" /\ UNCHANGED wsgiVars

WsgiNext ==
  \/ FindContentType \/ PopContentType \/ AddHeader \/ CallApplication
  \/ \E status \in Statuses, headers \in Responses : StartResponse(status, headers)
  \/ GroupHeader \/ StartRaises \/ EndStart
  \/ \E piece \in Pieces : Write(piece)
  \/ \E output \in {<<>>} \cup {<<v>> : v \in Pieces} : Respond(output)
  \/ ApplicationRaises
  \/ WsgiRest

WsgiSpec == WsgiInit /\ [][WsgiNext]_wsgiVars

-----------------------------------------------------------------------------
(* Properties.                                                             *)

\* The i-th header is added and no later one has its name.
Wins(i) ==
  /\ i # ctKey
  /\ \A j \in DOMAIN headersMap :
       j > i /\ j # ctKey => NameOf[headersMap[j].name] # NameOf[headersMap[i].name]

\* What arrives is what was sent: each name has the values of its last spelling,
\* CONTENT_TYPE those of the last content type, and a name that no header has is
\* that of the process.  The handler's name alone is that of the invocation,
\* whatever header a client sends (get_environ).
EnvironIsWhole ==
  /\ \A i \in DOMAIN headersMap : Wins(i) /\ NameOf[headersMap[i].name] # FunctionHandler =>
       environ[NameOf[headersMap[i].name]] = headersMap[i].values
  /\ environ[FunctionHandler] = Handler
  /\ \A i \in DOMAIN headersMap : headersMap[i].name \in ContentTypes => i <= ctKey
  /\ ctKey # 0 =>
       ctKey \in DOMAIN headersMap /\ headersMap[ctKey].name \in ContentTypes
  /\ environ["CONTENT_TYPE"] =
       IF ctKey # 0 /\ headersMap[ctKey].values # <<>>
         THEN headersMap[ctKey].values ELSE OctetStream
  /\ \A name \in EnvironNames \ {"CONTENT_TYPE", FunctionHandler} :
       (\A i \in DOMAIN headersMap : i # ctKey => NameOf[headersMap[i].name] # name) =>
         environ[name] = OsEnviron[name]

\* How many of the first n headers have the key.
Count(headers, key, n) == Cardinality({i \in 1 .. n : headers[i].key = key})

\* The first n headers are grouped: every value is in its place among those of
\* its key, and there is no other.
GroupedTo(groups, headers, n) ==
  /\ \A key \in Keys : Len(groups[key]) = Count(headers, key, n)
  /\ \A i \in 1 .. n : LET key == headers[i].key
                       IN  groups[key][Count(headers, key, i)] = headers[i].value

\* How many of the first n calls wrote.
Writes(n) == Cardinality({i \in 1 .. n : ~IsStart(calls[i])})

\* The application gets its request as it was sent, but for a header that poses as
\* the handler's name, and what leaves is what it
\* said: the status and every value of the headers of its last start_response
\* that did not raise, in order, or no headers at all, and all that it wrote
\* before what it returned (start_response, wsgi_wrapper).
ExchangeIsWhole ==
  /\ wsgiAt \in {"app", "start", "answered"} => EnvironIsWhole
  /\ result.kind = "response" =>
       /\ (\A i \in DOMAIN calls : ~IsStart(calls[i])) => result.params = NotStarted
       /\ \A i \in DOMAIN calls :
            IsStart(calls[i]) /\ (\A j \in DOMAIN calls : j > i => ~IsStart(calls[j])) =>
              /\ result.params.status = calls[i].status
              /\ GroupedTo(result.params.headers, calls[i].headers, Len(calls[i].headers))
       /\ Writes(Len(calls)) <= Len(result.body)
       /\ \A i \in DOMAIN calls :
            ~IsStart(calls[i]) => result.body[Writes(i)] = calls[i].piece
=============================================================================
