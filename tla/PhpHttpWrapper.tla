--------------------------- MODULE PhpHttpWrapper ---------------------------
(***************************************************************************)
(* HTTP functions of the PHP runtime: http_wrapper.php makes a request     *)
(* object of the HTTP parameters, the user's handler makes a response, and *)
(* parserOutResult decides on the headers and the body that are posted.    *)
(***************************************************************************)
EXTENDS Integers

CONSTANTS
  Params,      \* what the HTTP parameters may be
  Methods,     \* methods of a request
  Codes,       \* status codes that handlers give
  Sizes        \* lengths of a body

ASSUME WrapperAssumption == Codes \subseteq Int /\ Sizes \subseteq Nat

VARIABLES
  wrapperAt,   \* "begin", "handler", "output", "posted", "raised"
  params,      \* the HTTP parameters of the request
  method,      \* its method
  hasType,     \* the request object has a content type, and whose
  httpResponse,  \* the handler's: code, body, headers
  length,      \* Content-Length of the output: or NoLength, or EmptyLength
  transfer,    \* Transfer-Encoding of the output is there
  postedBody   \* how many bytes of body are posted

outVars == <<length, transfer, postedBody>>
wrapperVars == <<wrapperAt, params, method, hasType, httpResponse, outVars>>

\* No Content-Length, or one without a value.
NoLength == -1
EmptyLength == -2

\* A body of some size, which it knows or, like a PumpStream, does not, and that
\* may have been read or written up to some position.
Responses ==
  {r \in [code : Codes, size : Sizes, sized : BOOLEAN, position : Sizes, transfer : BOOLEAN] :
     r.position <= r.size}

NoResponse ==
  [code |-> 0, size |-> 0, sized |-> TRUE, position |-> 0, transfer |-> FALSE]

WrapperInit ==
  /\ wrapperAt = "begin"
  /\ params \in Params
  /\ method \in Methods
  /\ hasType = "no"
  /\ httpResponse = NoResponse
  /\ length = NoLength
  /\ transfer = FALSE
  /\ postedBody = 0

\* createHttpRequest.  Parameters that are no base64 decode to false, which is
\* no JSON either.  PHP 7 adds a content type where the client sent none.
CreateHttpRequest ==
  /\ wrapperAt = "begin"
  /\ IF params \in {"plain", "typed"}
       THEN /\ wrapperAt' = "handler"
            /\ hasType' = IF params = "typed" THEN "own" ELSE "default"
       ELSE wrapperAt' = "raised" /\ UNCHANGED hasType
  /\ UNCHANGED <<params, method, httpResponse, outVars>>

\* The user's handler returns a response.
Handle(r) ==
  /\ wrapperAt = "handler"
  /\ wrapperAt' = "output"
  /\ httpResponse' = r
  /\ UNCHANGED <<params, method, hasType, outVars>>

\* Mutant of Unframed: 204 is taken for a response with a length.
UnframedWithout204 ==
  \/ method = "CONNECT" /\ httpResponse.code \in 200 .. 299
  \/ httpResponse.code \in 100 .. 199

\* 2xx response to CONNECT and 1xx and 204: no length and no encoding.
Unframed ==
  \/ method = "CONNECT" /\ httpResponse.code \in 200 .. 299
  \/ httpResponse.code \in 100 .. 199
  \/ httpResponse.code = 204

\* (string) $body->getSize(), which may be null.
SizeHeader == IF httpResponse.sized THEN httpResponse.size ELSE EmptyLength

\* Content-Length is the size of the body.  No body is an HttpBodyStream,
\* because the name is looked up in the namespace of the runtime: the branches
\* for chunked responses are never taken.
Length == IF Unframed THEN NoLength ELSE SizeHeader

\* HEAD and 1xx, except 101, 204 and 304.
Bodiless ==
  \/ method = "HEAD"
  \/ httpResponse.code \in {100, 204, 304}
  \/ httpResponse.code \in 102 .. 199

\* getContents() reads from the position on.
Contents == IF Bodiless THEN 0 ELSE httpResponse.size - httpResponse.position

\* parserOutResult.
ParserOutResult ==
  /\ wrapperAt = "output"
  /\ wrapperAt' = "posted"
  /\ length' = Length
  /\ transfer' = FALSE
  /\ postedBody' = Contents
  /\ UNCHANGED <<params, method, hasType, httpResponse>>

WrapperRest == wrapperAt \in {"posted", "raised"} /\ UNCHANGED wrapperVars

WrapperNext ==
  \/ CreateHttpRequest
  \/ \E r \in Responses : Handle(r)
  \/ ParserOutResult
  \/ WrapperRest

WrapperSpec == WrapperInit /\ [][WrapperNext]_wrapperVars

-----------------------------------------------------------------------------
(* Properties.                                                             *)

\* A response whose body knows its size and stands at its start, as those that
\* http_cgi.php makes do: as many bytes are sent as the length announces, unless
\* it answers HEAD or is a 304, which announce a length and have no body.
WholeBody ==
  httpResponse.sized /\ httpResponse.position = 0 /\ length # NoLength =>
    postedBody = IF method = "HEAD" \/ httpResponse.code = 304 THEN 0 ELSE length

\* The rules of which responses have a length and which have a body agree: a whole
\* body has its length, and any response that has a body but no length, so that
\* its end is unknown, is an upgrade, answers CONNECT, or has a body of which the
\* handler did not give the size.
LengthIsBody ==
  wrapperAt = "posted" =>
    /\ WholeBody
    /\ length < 0 /\ postedBody > 0 =>
         \/ httpResponse.code = 101
         \/ method = "CONNECT" /\ httpResponse.code \in 200 .. 299
         \/ ~httpResponse.sized
=============================================================================
