----------------------------- MODULE PhpCgiProxy -----------------------------
(***************************************************************************)
(* The proxy with which PHP functions use php-cgi: http_cgi.php starts     *)
(* php-cgi before the first request, remembers that it did, sends each     *)
(* request over a new connection and takes the reply apart.  php-cgi may   *)
(* not come up, or die at any time, and user code may run php-cgi          *)
(* processes of its own.                                                   *)
(***************************************************************************)
EXTENDS Integers, Sequences

CONSTANTS
  Launches,      \* what a launch may come to
  MaxOthers,     \* php-cgi processes of user code
  Replies,       \* what php-cgi may reply: sequences of lines
  MaxRequests,   \* requests in a run
  MaxDeaths      \* how often php-cgi is killed

Lines == {"header", "status", "blank", "text"}
HeaderLines == {"header", "status"}

\* A reply need not be headers and a blank line: the client joins to it what
\* php-cgi writes to STDERR, which may look like a header.
ASSUME ProxyAssumption ==
  /\ Launches \subseteq {"up", "fails", "not forked"}
  /\ Replies \subseteq Seq(Lines)

VARIABLES
  is_start_php_cgi,
  proxyAt,    \* "idle", "start", "launch", "request"
  owner,      \* who listens on the port: "proxy", "user", "nobody"
  goneBy,     \* why nobody does: "launch", "kill" of the proxy, "death"
  others,     \* further php-cgi processes in the list of ps
  proxyOutcome,  \* of the last request: "none", "response", "raised"
  headers,    \* lines of the last reply that became headers
  body,       \* lines that became the body
  reply,      \* the last reply
  requests,   \* how many requests there were
  deaths      \* how often php-cgi was killed

replyVars == <<proxyOutcome, headers, body, reply>>
proxyVars == <<is_start_php_cgi, proxyAt, owner, goneBy, others, replyVars, requests, deaths>>

ProxyInit ==
  /\ is_start_php_cgi = FALSE
  /\ proxyAt = "idle"
  /\ owner = "nobody"
  /\ goneBy = "launch"
  /\ others = 0
  /\ proxyOutcome = "none"
  /\ headers = <<>>
  /\ body = <<>>
  /\ reply = <<>>
  /\ requests = 0
  /\ deaths = 0

-----------------------------------------------------------------------------
(* The processes around it.                                                *)

\* php-cgi is killed, for want of memory or by user code.
CgiDies ==
  /\ owner # "nobody"
  /\ deaths < MaxDeaths
  /\ owner' = "nobody"
  /\ goneBy' = "death"
  /\ deaths' = deaths + 1
  /\ UNCHANGED <<is_start_php_cgi, proxyAt, others, replyVars, requests>>

\* User code runs one more php-cgi; it gets the port if the port is free.
UserStarts ==
  /\ others < MaxOthers
  /\ IF owner = "nobody" THEN owner' = "user" /\ UNCHANGED others
                         ELSE others' = others + 1 /\ UNCHANGED owner
  /\ UNCHANGED <<is_start_php_cgi, proxyAt, goneBy, replyVars, requests, deaths>>

-----------------------------------------------------------------------------
(* tryStartPhpCgi.                                                         *)

\* Mutant of TryStartPhpCgi: php-cgi is started for each request.
TryStartAgain ==
  /\ proxyAt = "idle"
  /\ requests < MaxRequests
  /\ proxyAt' = "start"
  /\ proxyOutcome' = "none"
  /\ requests' = requests + 1
  /\ UNCHANGED <<is_start_php_cgi, owner, goneBy, others, headers, body, reply, deaths>>

\* Whether it was started is remembered, not looked at.
TryStartPhpCgi ==
  /\ proxyAt = "idle"
  /\ requests < MaxRequests
  /\ proxyAt' = IF is_start_php_cgi THEN "request" ELSE "start"
  /\ proxyOutcome' = "none"
  /\ requests' = requests + 1
  /\ UNCHANGED <<is_start_php_cgi, owner, goneBy, others, headers, body, reply, deaths>>

\* The lines of ps that name php-cgi.
Running == others + IF owner = "nobody" THEN 0 ELSE 1

\* count($output) == 1
MustKill == Running = 1

\* kill -s 9, of every process in the list.
ForceRestart ==
  /\ proxyAt = "start"
  /\ IF MustKill THEN owner' = "nobody" /\ goneBy' = "kill" /\ others' = 0
                 ELSE UNCHANGED <<owner, goneBy, others>>
  /\ proxyAt' = "launch"
  /\ UNCHANGED <<is_start_php_cgi, replyVars, requests, deaths>>

\* nohup php-cgi -b, in the background: the status is that of a shell that was
\* able to fork.  It says nothing of a php-cgi that is not there, or ends at once
\* because the port is taken.
Launch(outcome) ==
  /\ proxyAt = "launch"
  /\ IF outcome = "up" /\ owner = "nobody" THEN owner' = "proxy" /\ UNCHANGED goneBy
     ELSE /\ UNCHANGED owner
          /\ goneBy' = IF owner = "nobody" THEN "launch" ELSE goneBy
  /\ is_start_php_cgi' = (outcome # "not forked")
  /\ proxyAt' = "request"
  /\ UNCHANGED <<others, replyVars, requests, deaths>>

-----------------------------------------------------------------------------
(* requestPhpCgi.                                                          *)

\* Lines that match the pattern of a header, from the first on.
HeaderCount(lines) ==
  LET ends == {i \in DOMAIN lines : lines[i] \notin HeaderLines}
  IN  IF ends = {} THEN Len(lines) ELSE (CHOOSE i \in ends : \A j \in ends : i <= j) - 1

\* Mutant of Offset: the index counts lines from 1.
OffsetFromOne(lines) == HeaderCount(lines)

\* $offset: the index, from 0, of the last header; 0 also if there is none.
Offset(lines) == IF HeaderCount(lines) = 0 THEN 0 ELSE HeaderCount(lines) - 1

\* What becomes of the lines of headers: the status is kept elsewhere.
Parsed(lines) == SelectSeq(lines, LAMBDA l : l # "status")

\* php-cgi replied.  The body starts two lines after the offset.
Respond(lines) ==
  /\ proxyAt = "request"
  /\ owner # "nobody"
  /\ reply' = lines
  /\ headers' = Parsed(SubSeq(lines, 1, HeaderCount(lines)))
  /\ body' = SubSeq(lines, Offset(lines) + 3, Len(lines))
  /\ proxyOutcome' = "response"
  /\ proxyAt' = "idle"
  /\ UNCHANGED <<is_start_php_cgi, owner, goneBy, others, requests, deaths>>

\* The connection or the reply failed, whether somebody listens or not.  The catch
\* names the class Exception of the namespace ServerlessFC, which does not exist:
\* the exception goes on to the user's handler.
Fail ==
  /\ proxyAt = "request"
  /\ proxyOutcome' = "raised"
  /\ proxyAt' = "idle"
  /\ UNCHANGED <<is_start_php_cgi, owner, goneBy, others, headers, body, reply, requests, deaths>>

\* No more requests.
ProxyRest == proxyAt = "idle" /\ requests = MaxRequests /\ UNCHANGED proxyVars

Proxy ==
  \/ TryStartPhpCgi
  \/ ForceRestart
  \/ \E outcome \in Launches : Launch(outcome)
  \/ \E lines \in Replies : Respond(lines)
  \/ Fail

ProxyNext == CgiDies \/ UserStarts \/ Proxy \/ ProxyRest

ProxySpec == ProxyInit /\ [][ProxyNext]_proxyVars

-----------------------------------------------------------------------------
(* Properties.                                                             *)

\* The proxy never takes away itself, by a forced restart, the php-cgi that it
\* counts as started: if nobody listens, php-cgi died or did not come up.
ProxyServes == is_start_php_cgi /\ owner = "nobody" => goneBy # "kill"

\* Whatever lines come from STDOUT and STDERR, the headers are all the lines that
\* look like one before the first that does not, but for the status, and the
\* body is the rest of the lines but one, blank or not, after the headers; a
\* reply that does not begin with a header loses two lines.
LinesKept ==
  proxyOutcome = "response" =>
    \E n, lost \in 0 .. Len(reply) :
      /\ lost <= IF n > 0 THEN 1 ELSE 2
      /\ n + lost <= Len(reply)
      /\ \A i \in 1 .. n : reply[i] \in HeaderLines
      /\ n = Len(reply) \/ reply[n + 1] \notin HeaderLines
      /\ headers = Parsed(SubSeq(reply, 1, n))
      /\ body = SubSeq(reply, n + lost + 1, Len(reply))

\* After a failure php-cgi is started again: "try to restart whatever went wrong".
FailureRestarts == proxyOutcome = "raised" => ~is_start_php_cgi
=============================================================================
