--------------------------- MODULE NodeHttpParam ---------------------------
(***************************************************************************)
(* The request and the response of a Node.js HTTP function, httpparam.js:  *)
(* headers and queries are parsed out of x-fc-http-params before the       *)
(* handler runs, and the handler fills in a response and sends it.  Names  *)
(* of request headers are pairs of a lower-case name and a spelling; a     *)
(* header that was joined by ", " is the sequence of what was joined.      *)
(***************************************************************************)
EXTENDS Integers, Sequences, TLC

CONSTANTS
  HttpParams,   \* what x-fc-http-params may hold: records with headers and
                \* headersMap, as sequences of <<name, value>> in the order of
                \* their keys and values, mapKeys, how many keys headersMap has
                \* (some may have no value), queries and queriesMap
  HeaderNames,  \* lower-case names of request headers
  Unique,       \* those in headerKeyUniqTypeMap
  Arrays,       \* those in headerKeyArrayTypeMap
  HeaderKeys,   \* names the handler uses, as it spells them
  HeaderValues, \* what it sets: sequences, of which <<v>> stands for a string,
                \* <<"array", ...>> for an array and <<>> for anything else
  Empty,        \* the empty string
  StatusCodes,  \* what it sets as the status; 0 is not an integer
  MaxCalls      \* calls of the handler about headers

VARIABLES
  httpParams,  \* the x-fc-http-params of this request
  next,        \* the pair that parseRequestHeader is at
  message,     \* the IncomingMessage: [headers, queries]
  seen,        \* history: the pairs met for a name
  ready,       \* the message is complete, and the handler may run
  response,    \* the Response: [statusCode, headers, headersMap, sent]
  dumped,      \* the http params of the posted answers, in order
  said         \* history: the handler's calls about headers that did not throw

\* A header has a string for a value, and an array header is not a unique one.
ASSUME HttpAssumption ==
  /\ Unique \cap Arrays = {}
  /\ HeaderValues \subseteq Seq(STRING)
  /\ \A json \in HttpParams : \A pairs \in {json.headers, json.headersMap} :
       /\ Len(pairs) \in Nat /\ DOMAIN pairs = 1 .. Len(pairs)
       /\ \A i \in DOMAIN pairs : pairs[i][1].lower \in HeaderNames /\ pairs[i][2] \in STRING

requestVars == <<httpParams, next, message, seen, ready>>
responseVars == <<response, dumped, said>>
httpVars == <<requestVars, responseVars>>

-----------------------------------------------------------------------------
(* The request.                                                            *)

\* The headers that the loops of parseRequestHeader take: those of headersMap,
\* each with all its values, if it has any key, or those of headers.
Pairs(json) == IF json.mapKeys = 0 THEN json.headers ELSE json.headersMap

\* Mutant of Exists: an empty value is a value.
ExistsIfEmpty(h, name) == name \in DOMAIN h

\* headerValue is truthy: an empty string is not, an array is.
Exists(h, name) == name \in DOMAIN h /\ (name \in Arrays \/ h[name] # <<Empty>>)

Put(f, key, value) == [k \in DOMAIN f \cup {key} |-> IF k = key THEN value ELSE f[k]]
Drop(f, key) == [k \in DOMAIN f \ {key} |-> f[k]]

\* putHeader: the first value of a unique header, all values of the others.
PutHeader(h, name, v) ==
  IF ~Exists(h, name) THEN Put(h, name, <<v>>)
  ELSE IF name \in Unique THEN h
  ELSE Put(h, name, Append(h[name], v))

\* A query of queriesMap is an array if it has several values, else its first,
\* which an empty array does not have.
QueryValue(v) ==
  IF Len(v) > 1 THEN v ELSE IF v = <<>> THEN "undefined" ELSE v[1]

Queries(json) ==
  IF json.queriesMap = <<>> THEN json.queries
  ELSE [k \in DOMAIN json.queriesMap |-> QueryValue(json.queriesMap[k])]

-----------------------------------------------------------------------------

NewResponse == [statusCode |-> 200, headers |-> <<>>, headersMap |-> <<>>, sent |-> FALSE]

\* parseRequest: the IncomingMessage has no headers and queries yet.
HttpInit ==
  /\ httpParams \in HttpParams
  /\ next = 1
  /\ message = [headers |-> <<>>, queries |-> <<>>]
  /\ seen = [name \in HeaderNames |-> <<>>]
  /\ ready = FALSE
  /\ response = NewResponse
  /\ dumped = <<>>
  /\ said = <<>>

\* The loops put the next value of a header.
PutNext ==
  /\ next \in DOMAIN Pairs(httpParams)
  /\ LET pair == Pairs(httpParams)[next] IN
       /\ message' = [message EXCEPT !.headers = PutHeader(@, pair[1].lower, pair[2])]
       /\ seen' = [seen EXCEPT ![pair[1].lower] = Append(@, next)]
  /\ next' = next + 1
  /\ UNCHANGED <<httpParams, ready, responseVars>>

\* They have put them all; the queries follow, and the handler is called.
FinishMessage ==
  /\ ~ready
  /\ next \notin DOMAIN Pairs(httpParams)
  /\ message' = [message EXCEPT !.queries = Queries(httpParams)]
  /\ ready' = TRUE
  /\ UNCHANGED <<httpParams, next, seen, responseVars>>

-----------------------------------------------------------------------------
(* The response.  A call that throws leaves no trace: it is not a step.    *)

\* The handler may still say something about a header, and does.
Says(key, value) ==
  /\ ready
  /\ ~response.sent
  /\ Len(said) < MaxCalls
  /\ said' = Append(said, [key |-> key, value |-> value])
  /\ UNCHANGED <<requestVars, dumped>>

IsArray(value) == value # <<>> /\ value[1] = "array"

\* What goes to headersMap: all strings of an array, or the one string.
Strings(value) == IF IsArray(value) THEN Tail(value) ELSE value

\* Mutant of SetHeader: an array takes the string out of headers.
SetHeaderTidy(key, value) ==
  /\ value # <<>>
  /\ Says(key, value)
  /\ response' =
       [response EXCEPT
          !.headersMap = Put(@, key, Strings(value)),
          !.headers = IF IsArray(value) THEN Drop(@, key) ELSE Put(@, key, value[1])]

\* setHeader: a string goes to both maps.  An array goes to headersMap only,
\* and headers keeps the string it had.
SetHeader(key, value) ==
  /\ value # <<>>
  /\ Says(key, value)
  /\ response' =
       [response EXCEPT
          !.headersMap = Put(@, key, Strings(value)),
          !.headers = IF IsArray(value) THEN @ ELSE Put(@, key, value[1])]

DeleteHeader(key) ==
  /\ Says(key, <<>>)
  /\ response' = [response EXCEPT !.headers = Drop(@, key), !.headersMap = Drop(@, key)]

SetStatusCode(code) ==
  /\ ready
  /\ ~response.sent
  /\ code # 0
  /\ response' = [response EXCEPT !.statusCode = code]
  /\ UNCHANGED <<requestVars, dumped, said>>

dumpHTTPParams ==
  [status |-> response.statusCode, headers |-> response.headers,
   headersMap |-> response.headersMap]

\* send, with a string, a Buffer or a stream; with anything else it throws.
SendResponse ==
  /\ ready
  /\ ~response.sent
  /\ response' = [response EXCEPT !.sent = TRUE]
  /\ dumped' = Append(dumped, dumpHTTPParams)
  /\ UNCHANGED <<requestVars, said>>

\* The handler makes no more calls.
HttpRest == ready /\ UNCHANGED httpVars

HttpNext ==
  \/ PutNext \/ FinishMessage
  \/ \E key \in HeaderKeys, value \in HeaderValues : SetHeader(key, value)
  \/ \E key \in HeaderKeys : DeleteHeader(key)
  \/ \E code \in StatusCodes : SetStatusCode(code)
  \/ SendResponse
  \/ HttpRest

HttpSpec == HttpInit /\ [][HttpNext]_httpVars

-----------------------------------------------------------------------------
(* Properties.                                                             *)

\* The history has every value of the request under its header, whatever the
\* spelling of the name, once and in order.
SeenInOrder ==
  /\ \A i \in DOMAIN Pairs(httpParams) :
       LET met == seen[Pairs(httpParams)[i][1].lower] IN \E k \in DOMAIN met : met[k] = i
  /\ \A name \in HeaderNames :
       /\ \A k \in DOMAIN seen[name] :
            seen[name][k] \in DOMAIN Pairs(httpParams) /\ Pairs(httpParams)[seen[name][k]][1].lower = name
       /\ \A k, l \in DOMAIN seen[name] : k < l => seen[name][k] < seen[name][l]

\* The values that were met for a header.
ValuesOf(name) == [k \in DOMAIN seen[name] |-> Pairs(httpParams)[seen[name][k]][2]]

\* The index of the first value that is not empty, or of the last one.
FirstFilled(s) ==
  LET filled == {i \in DOMAIN s : s[i] # Empty}
  IN  IF filled = {} THEN Len(s) ELSE CHOOSE i \in filled : \A j \in filled : i <= j

\* What the message has of the values of a header.
KeptOf(name, all) ==
  IF name \in Arrays THEN all
  ELSE IF name \in Unique THEN <<all[FirstFilled(all)]>>
  ELSE SubSeq(all, FirstFilled(all), Len(all))

\* The handler sees every header that was sent, in whatever spelling: all
\* cookies, the first value of a header that is unique, and all values of the
\* others in the order they came in, of which only leading empty ones are lost.
RequestHeadersKept ==
  ready =>
    /\ SeenInOrder
    /\ DOMAIN message.headers = {name \in HeaderNames : seen[name] # <<>>}
    /\ \A name \in DOMAIN message.headers :
         message.headers[name] = KeptOf(name, ValuesOf(name))

\* The i-th call is the last one about this header, and the last one that
\* concerns its string.
LastWord(key, i) ==
  said[i].key = key /\ \A j \in DOMAIN said : j > i => said[j].key # key
LastText(key, i) ==
  /\ said[i].key = key /\ ~IsArray(said[i].value)
  /\ \A j \in DOMAIN said : j > i /\ said[j].key = key => IsArray(said[j].value)

\* What is posted is what the handler said before it sent, once and for all:
\* headersMap holds the last word on every header, and headers the last string
\* that was set and not deleted since, also where an array came after it.
ResponseAsCalled ==
  /\ Len(dumped) <= 1
  /\ dumped # <<>> <=> response.sent
  /\ dumped # <<>> => dumped[1] = dumpHTTPParams
  /\ \A key \in HeaderKeys :
       /\ key \in DOMAIN response.headersMap <=>
            \E i \in DOMAIN said : LastWord(key, i) /\ said[i].value # <<>>
       /\ key \in DOMAIN response.headers <=>
            \E i \in DOMAIN said : LastText(key, i) /\ said[i].value # <<>>
       /\ \A i \in DOMAIN said : said[i].value # <<>> =>
            /\ LastWord(key, i) => response.headersMap[key] = Strings(said[i].value)
            /\ LastText(key, i) => response.headers[key] = said[i].value[1]
=============================================================================
