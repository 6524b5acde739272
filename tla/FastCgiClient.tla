---------------------------- MODULE FastCgiClient ----------------------------
(***************************************************************************)
(* A connection of the FastCGI client to php-cgi: client.php sends requests *)
(* under ids it draws, then waits for one response at a time and reads     *)
(* whatever packets come, of any request.  The other side may send output  *)
(* and errors of several requests in turn, without end, end them in any    *)
(* order with any status, and stall or die between packets or inside one.  *)
(***************************************************************************)
EXTENDS Integers, Sequences

CONSTANTS
  Ids,            \* requests of one client, one at a time or several
  NoId,           \* no request
  ReadDelays,     \* milliseconds it may take to read a packet
  Deaths,         \* where php-cgi may die: "between" packets, "inside" one
  Stalls,         \* php-cgi may stall inside a packet
  WritesErrors,   \* php-cgi may write to STDERR
  MaxOutputs,     \* packets of output of a request that are told apart
  Endless,        \* php-cgi may write more than these
  MaxWire         \* packets under way that are not read yet

\* setReadWriteTimeout, in milliseconds.
Timeout == 5

VARIABLES
  state,      \* state[id] in _requests: "none", "written", "ok", "err"
  response,   \* response[id] in _requests: the packets it was joined of
  waiting,    \* whom wait_for_response waits for
  clock,      \* milliseconds since it began; 0 if it does not wait
  outcome,    \* outcome[id]: what wait_for_response came to
  given,      \* given[id]: the response it returned
  wire,       \* packets on their way
  outputs,    \* outputs[id]: what php-cgi wrote for id
  ended,      \* ended[id]: the status in its END_REQUEST
  backend,    \* "up", "stalled" inside a packet, or how php-cgi died
  redrawn     \* an id was drawn that was in use

clientVars == <<state, response, waiting, clock, outcome, given, redrawn>>
backendVars == <<wire, outputs, ended, backend>>
vars == <<clientVars, backendVars>>

Statuses == {"REQUEST_COMPLETE", "OVERLOADED"}
Types == {"STDOUT", "STDERR", "END_REQUEST"}

Init ==
  /\ state = [id \in Ids |-> "none"]
  /\ response = [id \in Ids |-> <<>>]
  /\ waiting = NoId
  /\ clock = 0
  /\ outcome = [id \in Ids |-> "none"]
  /\ given = [id \in Ids |-> <<>>]
  /\ wire = <<>>
  /\ outputs = [id \in Ids |-> <<>>]
  /\ ended = [id \in Ids |-> "no"]
  /\ backend = "up"
  /\ redrawn = FALSE

-----------------------------------------------------------------------------
(* php-cgi.                                                                *)

\* php-cgi works on the request.
Open(id) == state[id] # "none" /\ ended[id] = "no"

\* A packet is sent, or the rest of one.
Send(type, id) ==
  /\ backend \in {"up", "stalled"}
  /\ Open(id)
  /\ Len(wire) < MaxWire
  /\ wire' = Append(wire, [type |-> type, id |-> id, n |-> Len(outputs[id]) + 1])
  /\ backend' = "up"
  /\ UNCHANGED clientVars

SendOutput(type, id) ==
  /\ Len(outputs[id]) < MaxOutputs
  /\ type = "STDERR" => WritesErrors
  /\ Send(type, id)
  /\ outputs' = [outputs EXCEPT ![id] = Append(@, <<type, id, Len(@) + 1>>)]
  /\ UNCHANGED ended

SendEnd(status, id) ==
  /\ Send("END_REQUEST", id)
  /\ ended' = [ended EXCEPT ![id] = status]
  /\ UNCHANGED outputs

\* The content of the next packet does not follow its header, for now.
Stall ==
  /\ Stalls
  /\ backend = "up"
  /\ \E id \in Ids : Open(id)
  /\ backend' = "stalled"
  /\ UNCHANGED <<clientVars, wire, outputs, ended>>

Die(where) ==
  /\ backend = "up" \/ (backend = "stalled" /\ where = "inside")
  /\ backend' = where
  /\ UNCHANGED <<clientVars, wire, outputs, ended>>

-----------------------------------------------------------------------------
(* The client.                                                             *)

\* async_request.  A write to a broken connection raises and leaves no trace.
AsyncRequest(id) ==
  /\ waiting = NoId
  /\ state[id] = "none"
  /\ outcome[id] = "none"
  /\ IF backend \in {"up", "stalled"}
       THEN state' = [state EXCEPT ![id] = "written"] /\ UNCHANGED outcome
       ELSE outcome' = [outcome EXCEPT ![id] = "raised"] /\ UNCHANGED state
  /\ UNCHANGED <<response, waiting, clock, given, redrawn, backendVars>>

\* async_request, if mt_rand draws an id again: the slot in _requests is
\* overwritten, and packets of both requests have the same id from now on.  It
\* happens once on a connection.
AsyncRequestAgain(id) ==
  /\ waiting = NoId
  /\ state[id] # "none"
  /\ backend \in {"up", "stalled"}
  /\ ~redrawn
  /\ redrawn' = TRUE
  /\ state' = [state EXCEPT ![id] = "written"]
  /\ response' = [response EXCEPT ![id] = <<>>]
  /\ outcome' = [outcome EXCEPT ![id] = "none"]
  /\ ended' = [ended EXCEPT ![id] = "no"]
  /\ UNCHANGED <<waiting, clock, given, wire, outputs, backend>>

\* wait_for_response ends with the response, as far as it was read.
Return(id) ==
  /\ outcome' = [outcome EXCEPT ![id] = "returned"]
  /\ given' = [given EXCEPT ![id] = response[id]]
  /\ waiting' = NoId
  /\ clock' = 0

Raise(id) ==
  /\ outcome' = [outcome EXCEPT ![id] = "raised"]
  /\ waiting' = NoId
  /\ clock' = 0
  /\ UNCHANGED given

\* It goes on.
Wait(delay) ==
  /\ clock' = clock + delay
  /\ UNCHANGED <<waiting, outcome, given>>

\* It begins.  A response that was read while waiting for another is returned
\* at once: by its state, not by the status of its end.
WaitForResponse(id) ==
  /\ waiting = NoId
  /\ state[id] # "none"
  /\ outcome[id] = "none"
  /\ IF state[id] \in {"ok", "err"}
       THEN Return(id)
       ELSE waiting' = id /\ UNCHANGED <<clock, outcome, given>>
  /\ UNCHANGED <<state, response, redrawn, backendVars>>

\* Mutant of Joined: output goes to the request that is waited for.
JoinedToWaiting(p) ==
  [response EXCEPT ![waiting] = Append(@, <<p.type, p.id, p.n>>)]

\* Output and errors are joined to the response of their request.
Joined(p) ==
  IF p.type = "END_REQUEST" THEN response
  ELSE [response EXCEPT ![p.id] = Append(@, <<p.type, p.id, p.n>>)]

\* An error marks a request, until its end takes the mark away.
Marked(p) ==
  CASE p.type = "STDERR"      -> [state EXCEPT ![p.id] = "err"]
    [] p.type = "END_REQUEST" -> [state EXCEPT ![p.id] = "ok"]
    [] OTHER                  -> state

\* microtime(true) counts seconds: the limit is 10^6 times the timeout.
TimedOut(time) == time \div 1000 >= Timeout * 1000

\* The switch over the status, after the loop.
AfterEnd(id) ==
  IF ended[id] = "REQUEST_COMPLETE" THEN Return(id) ELSE Raise(id)

\* One turn of the loop that reads a packet.  The limit of a read holds between
\* packets only: to read one may take any time.
ReadPacket(delay) ==
  /\ waiting # NoId
  /\ wire # <<>>
  /\ LET p == Head(wire) IN
       /\ response' = Joined(p)
       /\ state' = Marked(p)
       /\ IF p.type = "END_REQUEST" /\ p.id = waiting THEN AfterEnd(waiting)
          ELSE IF TimedOut(clock + delay) THEN Raise(waiting)
          ELSE Wait(delay)
  /\ wire' = Tail(wire)
  /\ UNCHANGED <<redrawn, outputs, ended, backend>>

\* A turn that reads output beyond that which is told apart, of which there is
\* no end but which takes time.
ReadMore(delay) ==
  /\ waiting # NoId
  /\ Endless
  /\ backend = "up"
  /\ wire = <<>>
  /\ \E id \in Ids : Open(id) /\ Len(outputs[id]) = MaxOutputs
  /\ delay > 0
  /\ IF TimedOut(clock + delay) THEN Raise(waiting) ELSE Wait(delay)
  /\ UNCHANGED <<state, response, redrawn, backendVars>>

\* The content of a packet does not come.  fread returns "" and not false,
\* after its timeout and at the end of the stream: readPacket goes on.
InsidePacket == wire = <<>> /\ backend \in {"inside", "stalled"}

\* Mutant of ReadFails: an end of the stream is waited out.
ReadFailsNever ==
  /\ waiting # NoId
  /\ wire = <<>>
  /\ ~InsidePacket
  /\ UNCHANGED vars

\* The header of the next packet does not come: the read timed out, or php-cgi
\* is gone.
ReadFails ==
  /\ waiting # NoId
  /\ wire = <<>>
  /\ ~InsidePacket
  /\ Raise(waiting)
  /\ UNCHANGED <<state, response, redrawn, backendVars>>

\* The loop of readPacket, which looks at no clock.
ReadContent == waiting # NoId /\ InsidePacket /\ UNCHANGED vars

\* All requests are settled.
Rest ==
  /\ \A id \in Ids : outcome[id] # "none"
  /\ UNCHANGED vars

-----------------------------------------------------------------------------
Client ==
  \/ \E id \in Ids : AsyncRequest(id) \/ AsyncRequestAgain(id) \/ WaitForResponse(id)
  \/ \E delay \in ReadDelays : ReadPacket(delay) \/ ReadMore(delay)
  \/ ReadFails
  \/ ReadContent

Backend ==
  \/ \E id \in Ids, type \in {"STDOUT", "STDERR"} : SendOutput(type, id)
  \/ \E id \in Ids, status \in Statuses : SendEnd(status, id)
  \/ Stall
  \/ \E where \in Deaths : Die(where)

Next == Client \/ Backend \/ Rest

Spec == Init /\ [][Next]_vars

-----------------------------------------------------------------------------
(* Properties.                                                             *)

\* While no id is drawn twice, a response holds the output of its own request and
\* no other, in order, with nothing missing before its end, whatever packets of
\* others lie between; one that is returned without an error in it is the whole
\* output.
OwnOutputInOrder ==
  ~redrawn => \A id \in Ids :
    /\ given[id] = SubSeq(outputs[id], 1, Len(given[id]))
    /\ state[id] = "ok" => response[id] = outputs[id]
    /\ outcome[id] = "returned" /\ (\A i \in DOMAIN given[id] : given[id][i][1] # "STDERR") =>
         ended[id] # "no" /\ given[id] = outputs[id]

\* "The number of milliseconds to wait": who still waits for a response has not
\* waited longer than the timeout.
WaitsNoLonger == waiting # NoId => clock < Timeout

-----------------------------------------------------------------------------
(* Types and inductive strengthenings, proved in FastCgiClientProofs.      *)

Pieces == {"STDOUT", "STDERR"} \X Ids \X Nat
Packets == [type : Types, id : Ids, n : Nat]

TypeOK ==
  /\ state \in [Ids -> {"none", "written", "ok", "err"}]
  /\ response \in [Ids -> Seq(Pieces)] /\ given \in [Ids -> Seq(Pieces)]
  /\ outputs \in [Ids -> Seq(Pieces)]
  /\ waiting \in Ids \cup {NoId}
  /\ outcome \in [Ids -> {"none", "returned", "raised"}]
  /\ wire \in Seq(Packets)
  /\ ended \in [Ids -> {"no"} \cup Statuses]

Starts(s, t) == Len(s) <= Len(t) /\ \A i \in 1 .. Len(s) : s[i] = t[i]

\* What was returned starts what was read, which starts what was written.
ReadInv ==
  \A id \in Ids : Starts(given[id], response[id]) /\ Starts(response[id], outputs[id])

\* A packet carries the piece of output of its number, or the end after it.
InPlace(p) ==
  /\ Len(response[p.id]) < p.n
  /\ p.type = "END_REQUEST" => p.n = Len(outputs[p.id]) + 1 /\ ended[p.id] # "no"
  /\ p.type # "END_REQUEST" =>
       p.n <= Len(outputs[p.id]) /\ outputs[p.id][p.n] = <<p.type, p.id, p.n>>

\* The packets on the wire are the rest of what was written, each request's in
\* order, and the end of a request comes after all its output.
WireInv ==
  /\ \A k \in DOMAIN wire : InPlace(wire[k])
  /\ \A k, l \in DOMAIN wire : k < l /\ wire[k].id = wire[l].id => wire[k].n < wire[l].n
  /\ \A id \in Ids : \A n \in Len(response[id]) + 1 .. Len(outputs[id]) :
       \E k \in DOMAIN wire : wire[k].id = id /\ wire[k].n = n

HasError(s) == \E i \in DOMAIN s : s[i][1] = "STDERR"
Whole(s, id) == ended[id] # "no" /\ s = outputs[id]

\* A request is marked as good when all of it was read, and as bad only after
\* an error was read.
MarkInv ==
  \A id \in Ids :
    /\ state[id] = "ok" => Whole(response[id], id)
    /\ state[id] = "err" => HasError(response[id])
    /\ outcome[id] = "returned" => HasError(given[id]) \/ Whole(given[id], id)
=============================================================================
