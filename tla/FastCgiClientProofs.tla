------------------------ MODULE FastCgiClientProofs ------------------------
(***************************************************************************)
(* FastCgiClient reads responses apart: for any number of requests on one  *)
(* connection whose ids differ, any number and order of packets, and any   *)
(* stall or death of php-cgi.                                              *)
(***************************************************************************)
EXTENDS FastCgiClient, TLAPS

Invariants == TypeOK /\ ReadInv /\ WireInv /\ MarkInv

-----------------------------------------------------------------------------
(* Sequences.                                                              *)

\* What an appended sequence holds.
LEMMA AppendFacts ==
  ASSUME NEW S, NEW s \in Seq(S), NEW e \in S
  PROVE  /\ Append(s, e) \in Seq(S)
         /\ Len(s) \in Nat /\ Len(Append(s, e)) = Len(s) + 1
         /\ DOMAIN s = 1 .. Len(s) /\ DOMAIN Append(s, e) = 1 .. Len(s) + 1
         /\ \A i \in 1 .. Len(s) : Append(s, e)[i] = s[i]
         /\ Append(s, e)[Len(s) + 1] = e
OBVIOUS

\* What is left of a sequence without its head.
LEMMA TailFacts ==
  ASSUME NEW S, NEW s \in Seq(S), s # <<>>
  PROVE  /\ Tail(s) \in Seq(S) /\ Head(s) = s[1] /\ Head(s) \in S /\ 1 \in DOMAIN s
         /\ DOMAIN s = 1 .. Len(s) /\ Len(s) \in Nat \ {0}
         /\ DOMAIN Tail(s) = 1 .. Len(s) - 1
         /\ \A k \in DOMAIN Tail(s) : Tail(s)[k] = s[k + 1] /\ k + 1 \in DOMAIN s
OBVIOUS

\* A start of a sequence that is as long is the sequence.
LEMMA WholeStart ==
  ASSUME NEW S, NEW s \in Seq(S), NEW t \in Seq(S), Starts(s, t), Len(s) = Len(t)
  PROVE  s = t
BY DEF Starts

\* A start of a sequence is a subsequence of it.
LEMMA StartIsSubSeq ==
  ASSUME NEW S, NEW s \in Seq(S), NEW t \in Seq(S), Starts(s, t)
  PROVE  s = SubSeq(t, 1, Len(s))
<1>1. Len(s) \in Nat /\ Len(s) <= Len(t)
  BY DEF Starts
<1>2. SubSeq(t, 1, Len(s)) \in Seq(S) /\ Len(SubSeq(t, 1, Len(s))) = Len(s)
  BY <1>1
<1>3. \A i \in 1 .. Len(s) : SubSeq(t, 1, Len(s))[i] = s[i]
  BY <1>1 DEF Starts
<1> QED
  BY <1>2, <1>3

\* The fields of a packet on the wire.
LEMMA PacketFields ==
  ASSUME TypeOK, NEW k \in DOMAIN wire
  PROVE  /\ wire[k] \in Packets
         /\ wire[k].id \in Ids /\ wire[k].n \in Nat /\ wire[k].type \in Types
<1>1. wire[k] \in Packets
  BY DEF TypeOK
<1> QED
  BY <1>1 DEF Packets

-----------------------------------------------------------------------------
(* What php-cgi sends.                                                     *)

\* A packet that is sent, and what was written for its request.
Sends(id, p) ==
  /\ ended[id] = "no"
  /\ p \in Packets /\ p.id = id /\ p.n = Len(outputs[id]) + 1
  /\ wire' = Append(wire, p)
  /\ UNCHANGED clientVars

\* The number of a packet in its request is beyond what was sent before.
LEMMA SendKeepsOrder ==
  ASSUME Invariants, NEW id \in Ids, NEW p \in Packets, Sends(id, p)
  PROVE  /\ wire' \in Seq(Packets)
         /\ Len(wire) \in Nat /\ DOMAIN wire = 1 .. Len(wire) /\ DOMAIN wire' = 1 .. Len(wire) + 1
         /\ \A k \in 1 .. Len(wire) : wire'[k] = wire[k]
         /\ wire'[Len(wire) + 1] = p
         /\ \A k \in DOMAIN wire : wire[k].id = id =>
              wire[k].type # "END_REQUEST" /\ wire[k].n < p.n
         /\ \A k, l \in DOMAIN wire' :
              k < l /\ wire'[k].id = wire'[l].id => wire'[k].n < wire'[l].n
<1>1. wire \in Seq(Packets) /\ wire' = Append(wire, p)
  BY DEF Invariants, TypeOK, Sends
<1>2. /\ wire' \in Seq(Packets)
      /\ Len(wire) \in Nat /\ DOMAIN wire = 1 .. Len(wire) /\ DOMAIN wire' = 1 .. Len(wire) + 1
      /\ \A k \in 1 .. Len(wire) : wire'[k] = wire[k]
      /\ wire'[Len(wire) + 1] = p
  BY <1>1, AppendFacts
<1>3. \A k \in DOMAIN wire : wire[k] \in Packets /\ wire[k].n \in Nat
  BY PacketFields DEF Invariants
<1>4. Len(outputs[id]) \in Nat /\ p.n = Len(outputs[id]) + 1 /\ p.id = id
  BY DEF Invariants, TypeOK, Sends
<1>5. ASSUME NEW k \in DOMAIN wire, wire[k].id = id
      PROVE  wire[k].type # "END_REQUEST" /\ wire[k].n < p.n
  <2>1. wire[k].type # "END_REQUEST"
    BY <1>5 DEF Invariants, WireInv, InPlace, Sends
  <2>2. wire[k].n <= Len(outputs[id])
    BY <1>5, <2>1 DEF Invariants, WireInv, InPlace
  <2> QED
    BY <1>3, <1>4, <2>1, <2>2
<1>6. ASSUME NEW k \in DOMAIN wire', NEW l \in DOMAIN wire', k < l, wire'[k].id = wire'[l].id
      PROVE  wire'[k].n < wire'[l].n
  <2>1. k \in 1 .. Len(wire)
    BY <1>2, <1>6
  <2>2. CASE l \in 1 .. Len(wire)
    <3>1. wire[k].id = wire[l].id
      BY <1>2, <1>6, <2>1, <2>2
    <3>2. wire[k].n < wire[l].n
      BY <1>2, <1>6, <2>1, <2>2, <3>1 DEF Invariants, WireInv
    <3> QED
      BY <1>2, <2>1, <2>2, <3>2
  <2>3. CASE l = Len(wire) + 1
    BY <1>2, <1>4, <1>5, <1>6, <2>1, <2>3
  <2> QED
    BY <1>2, <2>2, <2>3
<1> QED
  BY <1>2, <1>5, <1>6

\* Output is sent.
LEMMA SendOutputStep ==
  ASSUME Invariants, NEW id \in Ids, NEW type \in {"STDOUT", "STDERR"}, SendOutput(type, id)
  PROVE  Invariants'
<1> DEFINE n == Len(outputs[id]) + 1
           p == [type |-> type, id |-> id, n |-> n]
<1>1. n \in Nat /\ outputs[id] \in Seq(Pieces)
  BY DEF Invariants, TypeOK
<1>2. p \in Packets /\ p.type = type /\ p.id = id /\ p.n = n
  BY <1>1 DEF Packets, Types
<1>3. Sends(id, p)
  BY <1>2 DEF SendOutput, Send, Open, Sends
<1>4. PICK e \in Pieces : e = <<type, id, n>>
  BY <1>1 DEF Pieces
<1>5. outputs' = [outputs EXCEPT ![id] = Append(@, <<type, id, n>>)] /\ ended' = ended
  BY DEF SendOutput
<1>6. outputs' = [outputs EXCEPT ![id] = Append(outputs[id], e)]
  BY <1>4, <1>5, Zenon
<1> HIDE DEF n, p
<1>7. /\ outputs' \in [Ids -> Seq(Pieces)]
      /\ Len(outputs'[id]) = n /\ outputs'[id][n] = e
      /\ \A i \in 1 .. n - 1 : outputs'[id][i] = outputs[id][i]
      /\ \A o \in Ids \ {id} : outputs'[o] = outputs[o]
  <2>1. /\ outputs \in [Ids -> Seq(Pieces)] /\ Append(outputs[id], e) \in Seq(Pieces)
        /\ Len(Append(outputs[id], e)) = n /\ Append(outputs[id], e)[n] = e
        /\ \A i \in 1 .. n - 1 : Append(outputs[id], e)[i] = outputs[id][i]
    BY <1>1, AppendFacts DEF Invariants, TypeOK, n
  <2>2. outputs'[id] = Append(outputs[id], e) /\ \A o \in Ids \ {id} : outputs'[o] = outputs[o]
    BY <1>6, <2>1
  <2>3. outputs' \in [Ids -> Seq(Pieces)]
    BY <1>6, <2>1
  <2> QED
    BY <2>1, <2>2, <2>3
<1>8. n = Len(outputs[id]) + 1 /\ ended[id] = "no" /\ ended' = ended
      /\ UNCHANGED <<state, response, given, outcome, waiting>>
  BY <1>3, <1>5 DEF n, Sends, clientVars
<1>9. \A o \in Ids : response[o] \in Seq(Pieces) /\ given[o] \in Seq(Pieces)
                     /\ outputs[o] \in Seq(Pieces)
  BY DEF Invariants, TypeOK
<1>10. TypeOK'
  BY <1>2, <1>3, <1>7, <1>8, SendKeepsOrder DEF Invariants, TypeOK
<1>11. ASSUME NEW o \in Ids, NEW s \in Seq(Pieces), Starts(s, outputs[o])
       PROVE  Starts(s, outputs'[o])
  <2>1. CASE o = id
    BY <1>1, <1>7, <1>8, <1>11, <2>1 DEF Starts
  <2>2. CASE o # id
    BY <1>7, <1>11, <2>2
  <2> QED
    BY <2>1, <2>2
<1>12. ReadInv'
  BY <1>8, <1>9, <1>11 DEF Invariants, ReadInv
<1>13. Len(response[id]) < n /\ Len(response[id]) \in Nat
  BY <1>8, <1>9 DEF Invariants, ReadInv, Starts
<1>14. WireInv'
  <2>1. /\ wire' \in Seq(Packets)
        /\ Len(wire) \in Nat /\ DOMAIN wire = 1 .. Len(wire) /\ DOMAIN wire' = 1 .. Len(wire) + 1
        /\ \A k \in 1 .. Len(wire) : wire'[k] = wire[k]
        /\ wire'[Len(wire) + 1] = p
        /\ \A k \in DOMAIN wire : wire[k].id = id =>
             wire[k].type # "END_REQUEST" /\ wire[k].n < p.n
        /\ \A k, l \in DOMAIN wire' :
             k < l /\ wire'[k].id = wire'[l].id => wire'[k].n < wire'[l].n
    BY <1>2, <1>3, SendKeepsOrder
  <2>2. ASSUME NEW k \in DOMAIN wire'
        PROVE  InPlace(wire[k])'
    <3>1. CASE k = Len(wire) + 1
      <4>1. wire'[k] = p /\ wire'[k].id = id /\ wire'[k].n = n /\ wire'[k].type = type
        BY <1>2, <2>1, <3>1
      <4>2. Len(response'[id]) < n /\ n <= Len(outputs'[id]) /\ outputs'[id][n] = <<type, id, n>>
        BY <1>1, <1>4, <1>7, <1>8, <1>13
      <4> QED
        BY <4>1, <4>2 DEF InPlace
    <3>2. CASE k \in 1 .. Len(wire)
      <4> DEFINE q == wire[k]
      <4>1. q \in Packets /\ q.id \in Ids /\ q.n \in Nat /\ wire'[k] = q
        BY <2>1, <3>2, PacketFields DEF Invariants
      <4>2. /\ Len(response[q.id]) < q.n
            /\ q.type = "END_REQUEST" => q.n = Len(outputs[q.id]) + 1 /\ ended[q.id] # "no"
            /\ q.type # "END_REQUEST" =>
                 q.n <= Len(outputs[q.id]) /\ outputs[q.id][q.n] = <<q.type, q.id, q.n>>
        BY <2>1, <3>2 DEF Invariants, WireInv, InPlace
      <4>3. CASE q.id # id
        <5>1. outputs'[q.id] = outputs[q.id]
          BY <1>7, <4>1, <4>3
        <5> QED
          BY <1>8, <4>1, <4>2, <5>1 DEF InPlace
      <4>4. CASE q.id = id
        <5>1. q.type # "END_REQUEST" /\ q.n < n
          BY <1>2, <2>1, <3>2, <4>4
        <5>2. q.n \in 1 .. n - 1
          BY <1>1, <1>9, <4>1, <4>2, <5>1
        <5>3. outputs'[id][q.n] = outputs[id][q.n] /\ q.n <= Len(outputs'[id])
          BY <1>1, <1>7, <5>2
        <5> HIDE DEF q
        <5> QED
          BY <1>8, <4>1, <4>2, <4>4, <5>1, <5>3 DEF InPlace
      <4> QED
        BY <4>3, <4>4
    <3> QED
      BY <2>1, <3>1, <3>2
  <2>3. ASSUME NEW o \in Ids, NEW m \in Len(response'[o]) + 1 .. Len(outputs'[o])
        PROVE  \E k \in DOMAIN wire' : wire'[k].id = o /\ wire'[k].n = m
    <3>0. Len(response[o]) \in Nat /\ Len(outputs[o]) \in Nat
      BY <1>9
    <3>1. CASE o = id /\ m = n
      BY <1>2, <2>1, <3>1
    <3>2. CASE ~(o = id /\ m = n)
      <4>1. m \in Len(response[o]) + 1 .. Len(outputs[o])
        BY <1>1, <1>7, <1>8, <2>3, <3>0, <3>2
      <4>2. PICK k \in DOMAIN wire : wire[k].id = o /\ wire[k].n = m
        BY <4>1 DEF Invariants, WireInv
      <4> QED
        BY <2>1, <4>2
    <3> QED
      BY <3>1, <3>2
  <2> QED
    BY <2>1, <2>2, <2>3 DEF WireInv
<1>15. MarkInv'
  BY <1>7, <1>8 DEF Invariants, MarkInv, Whole, HasError
<1> QED
  BY <1>10, <1>12, <1>14, <1>15 DEF Invariants

\* The end of a request is sent.
LEMMA SendEndStep ==
  ASSUME Invariants, NEW id \in Ids, NEW status \in Statuses, SendEnd(status, id)
  PROVE  Invariants'
<1> DEFINE n == Len(outputs[id]) + 1
           p == [type |-> "END_REQUEST", id |-> id, n |-> n]
<1>1. n \in Nat /\ Len(response[id]) < n
  BY DEF Invariants, TypeOK, ReadInv, Starts
<1>2. p \in Packets /\ p.type = "END_REQUEST" /\ p.id = id /\ p.n = n
  BY <1>1 DEF Packets, Types
<1>3. Sends(id, p)
  BY <1>2 DEF SendEnd, Send, Open, Sends
<1>4. outputs' = outputs /\ ended' = [ended EXCEPT ![id] = status] /\ status # "no"
  BY DEF SendEnd, Statuses
<1>5. n = Len(outputs[id]) + 1
  OBVIOUS
<1> HIDE DEF n, p
<1>6. /\ ended' \in [Ids -> {"no"} \cup Statuses] /\ ended'[id] # "no"
      /\ \A o \in Ids \ {id} : ended'[o] = ended[o]
  BY <1>4 DEF Invariants, TypeOK
<1>7. UNCHANGED <<state, response, given, outcome, waiting, outputs>>
  BY <1>3, <1>4 DEF Sends, clientVars
<1>8. /\ wire' \in Seq(Packets)
      /\ Len(wire) \in Nat /\ DOMAIN wire = 1 .. Len(wire) /\ DOMAIN wire' = 1 .. Len(wire) + 1
      /\ \A k \in 1 .. Len(wire) : wire'[k] = wire[k]
      /\ wire'[Len(wire) + 1] = p
      /\ \A k, l \in DOMAIN wire' :
           k < l /\ wire'[k].id = wire'[l].id => wire'[k].n < wire'[l].n
  BY <1>2, <1>3, SendKeepsOrder
<1>9. TypeOK'
  BY <1>6, <1>7, <1>8 DEF Invariants, TypeOK
<1>10. ReadInv'
  BY <1>7 DEF Invariants, ReadInv
<1>11. WireInv'
  <2>1. ASSUME NEW k \in DOMAIN wire'
        PROVE  InPlace(wire[k])'
    <3>1. CASE k = Len(wire) + 1
      <4>1. wire'[k] = p /\ wire'[k].id = id /\ wire'[k].n = n
            /\ wire'[k].type = "END_REQUEST"
        BY <1>2, <1>8, <3>1
      <4> QED
        BY <1>1, <1>5, <1>6, <1>7, <4>1 DEF InPlace
    <3>2. CASE k \in 1 .. Len(wire)
      <4> DEFINE q == wire[k]
      <4>1. q \in Packets /\ q.id \in Ids /\ wire'[k] = q
        BY <1>8, <3>2, PacketFields DEF Invariants
      <4>2. /\ Len(response[q.id]) < q.n
            /\ q.type = "END_REQUEST" => q.n = Len(outputs[q.id]) + 1 /\ ended[q.id] # "no"
            /\ q.type # "END_REQUEST" =>
                 q.n <= Len(outputs[q.id]) /\ outputs[q.id][q.n] = <<q.type, q.id, q.n>>
        BY <1>8, <3>2 DEF Invariants, WireInv, InPlace
      <4>3. ended[q.id] # "no" => ended'[q.id] # "no"
        BY <1>6, <4>1
      <4> HIDE DEF q
      <4> QED
        BY <1>7, <4>1, <4>2, <4>3 DEF InPlace
    <3> QED
      BY <1>8, <3>1, <3>2
  <2>2. ASSUME NEW o \in Ids, NEW m \in Len(response'[o]) + 1 .. Len(outputs'[o])
        PROVE  \E k \in DOMAIN wire' : wire'[k].id = o /\ wire'[k].n = m
    <3>1. PICK k \in DOMAIN wire : wire[k].id = o /\ wire[k].n = m
      BY <1>7, <2>2 DEF Invariants, WireInv
    <3> QED
      BY <1>8, <3>1
  <2> QED
    BY <1>8, <2>1, <2>2 DEF WireInv
<1>12. MarkInv'
  BY <1>6, <1>7 DEF Invariants, MarkInv, Whole, HasError
<1> QED
  BY <1>9, <1>10, <1>11, <1>12 DEF Invariants

-----------------------------------------------------------------------------
(* What the client does.                                                   *)

\* The wire's invariant is about four variables.
LEMMA WireUnchanged ==
  ASSUME WireInv, UNCHANGED <<response, wire, outputs, ended>>
  PROVE  WireInv'
<1>1. response' = response /\ wire' = wire /\ outputs' = outputs /\ ended' = ended
  OBVIOUS
<1>2. \A k \in DOMAIN wire' : InPlace(wire[k])'
  BY <1>1 DEF WireInv, InPlace
<1>3. \A k, l \in DOMAIN wire' :
        k < l /\ wire'[k].id = wire'[l].id => wire'[k].n < wire'[l].n
  BY <1>1 DEF WireInv
<1>4. \A id \in Ids : \A n \in Len(response'[id]) + 1 .. Len(outputs'[id]) :
        \E k \in DOMAIN wire' : wire'[k].id = id /\ wire'[k].n = n
  BY <1>1 DEF WireInv
<1> QED
  BY <1>2, <1>3, <1>4 DEF WireInv

\* A request is written.
LEMMA AsyncRequestStep ==
  ASSUME Invariants, NEW id \in Ids, AsyncRequest(id)
  PROVE  Invariants'
<1>1. /\ state[id] = "none" /\ outcome[id] = "none"
      /\ \/ state' = [state EXCEPT ![id] = "written"] /\ UNCHANGED outcome
         \/ outcome' = [outcome EXCEPT ![id] = "raised"] /\ UNCHANGED state
      /\ UNCHANGED <<response, waiting, given, wire, outputs, ended>>
  BY DEF AsyncRequest, backendVars
<1>2. TypeOK'
  BY <1>1 DEF Invariants, TypeOK
<1>3. ReadInv' /\ WireInv'
  BY <1>1, WireUnchanged DEF Invariants, ReadInv
<1>4. MarkInv'
  BY <1>1 DEF Invariants, TypeOK, MarkInv, Whole, HasError
<1> QED
  BY <1>2, <1>3, <1>4 DEF Invariants

\* A request is given what was read of its response, which is all of it or
\* holds an error.
LEMMA ReturnFacts ==
  ASSUME Invariants, NEW id \in Ids, Return(id),
         HasError(response[id]) \/ Whole(response[id], id)
  PROVE  /\ given' \in [Ids -> Seq(Pieces)]
         /\ outcome' \in [Ids -> {"none", "returned", "raised"}]
         /\ \A o \in Ids : Starts(given'[o], response[o])
         /\ \A o \in Ids : outcome'[o] = "returned" => HasError(given'[o]) \/ Whole(given'[o], o)
<1>1. /\ given' = [given EXCEPT ![id] = response[id]]
      /\ outcome' = [outcome EXCEPT ![id] = "returned"]
  BY DEF Return
<1>2. response[id] \in Seq(Pieces)
  BY DEF Invariants, TypeOK
<1>3. /\ given' \in [Ids -> Seq(Pieces)] /\ outcome' \in [Ids -> {"none", "returned", "raised"}]
      /\ given'[id] = response[id]
      /\ \A o \in Ids \ {id} : given'[o] = given[o] /\ outcome'[o] = outcome[o]
  BY <1>1, <1>2 DEF Invariants, TypeOK
<1>4. Starts(response[id], response[id])
  BY <1>2 DEF Starts
<1>5. \A o \in Ids : Starts(given'[o], response[o])
  BY <1>3, <1>4 DEF Invariants, ReadInv
<1>6. ASSUME NEW o \in Ids, outcome'[o] = "returned"
      PROVE  HasError(given'[o]) \/ Whole(given'[o], o)
  <2>1. CASE o = id
    BY <1>3, <2>1
  <2>2. CASE o # id
    BY <1>3, <1>6, <2>2 DEF Invariants, MarkInv
  <2> QED
    BY <2>1, <2>2
<1> QED
  BY <1>3, <1>5, <1>6

\* The wait for a response begins.
LEMMA WaitStep ==
  ASSUME Invariants, NEW id \in Ids, WaitForResponse(id)
  PROVE  Invariants'
<1>1. UNCHANGED <<state, response, wire, outputs, ended>>
  BY DEF WaitForResponse, backendVars
<1>2. WireInv'
  BY <1>1, WireUnchanged DEF Invariants
<1>3. CASE state[id] \in {"ok", "err"}
  <2>1. Return(id)
    BY <1>3 DEF WaitForResponse
  <2>2. HasError(response[id]) \/ Whole(response[id], id)
    BY <1>3 DEF Invariants, MarkInv
  <2>3. /\ given' \in [Ids -> Seq(Pieces)]
        /\ outcome' \in [Ids -> {"none", "returned", "raised"}]
        /\ \A o \in Ids : Starts(given'[o], response[o])
        /\ \A o \in Ids : outcome'[o] = "returned" => HasError(given'[o]) \/ Whole(given'[o], o)
    BY <2>1, <2>2, ReturnFacts
  <2>4. waiting' = NoId
    BY <2>1 DEF Return
  <2>5. TypeOK'
    BY <1>1, <2>3, <2>4 DEF Invariants, TypeOK
  <2>6. ReadInv'
    BY <1>1, <2>3 DEF Invariants, ReadInv
  <2>7. MarkInv'
    BY <1>1, <2>3 DEF Invariants, MarkInv, Whole
  <2> QED
    BY <1>2, <2>5, <2>6, <2>7 DEF Invariants
<1>4. CASE state[id] \notin {"ok", "err"}
  <2>1. waiting' = id /\ UNCHANGED <<outcome, given>>
    BY <1>4 DEF WaitForResponse
  <2> QED
    BY <1>1, <1>2, <2>1 DEF Invariants, TypeOK, ReadInv, MarkInv, Whole, HasError
<1> QED
  BY <1>3, <1>4

\* A packet that is read: what is left on the wire, and how far the response of
\* its request has come.
LEMMA HeadFacts ==
  ASSUME Invariants, wire # <<>>
  PROVE  /\ Head(wire) = wire[1] /\ 1 \in DOMAIN wire /\ wire[1] \in Packets
         /\ wire[1].id \in Ids /\ wire[1].n \in Nat /\ wire[1].type \in Types
         /\ wire[1].type # "END_REQUEST" => wire[1].n = Len(response[wire[1].id]) + 1
         /\ wire[1].type = "END_REQUEST" => Whole(response[wire[1].id], wire[1].id)
<1> DEFINE p == wire[1]
           id == p.id
<1>1. Head(wire) = p /\ 1 \in DOMAIN wire /\ DOMAIN wire = 1 .. Len(wire) /\ Len(wire) \in Nat
  BY TailFacts DEF Invariants, TypeOK
<1>2. p \in Packets /\ id \in Ids /\ p.n \in Nat /\ p.type \in Types
  BY <1>1, PacketFields DEF Invariants
<1>3. /\ Len(response[id]) < p.n
      /\ p.type = "END_REQUEST" => p.n = Len(outputs[id]) + 1 /\ ended[id] # "no"
      /\ p.type # "END_REQUEST" => p.n <= Len(outputs[id])
  BY <1>1 DEF Invariants, WireInv, InPlace
<1>4. /\ response[id] \in Seq(Pieces) /\ outputs[id] \in Seq(Pieces)
      /\ Len(response[id]) \in Nat /\ Len(outputs[id]) \in Nat
      /\ Len(response[id]) <= Len(outputs[id])
  BY <1>2 DEF Invariants, TypeOK, ReadInv, Starts
<1>5. ASSUME NEW m \in Len(response[id]) + 1 .. Len(outputs[id]) PROVE p.n <= m
  <2>1. PICK k \in DOMAIN wire : wire[k].id = id /\ wire[k].n = m
    BY <1>2 DEF Invariants, WireInv
  <2>2. CASE k = 1
    BY <1>2, <1>4, <2>1, <2>2
  <2>3. CASE k # 1
    <3>1. 1 < k
      BY <1>1, <2>3
    <3>2. p.n < wire[k].n
      BY <1>1, <2>1, <3>1 DEF Invariants, WireInv
    <3> QED
      BY <1>2, <1>4, <2>1, <3>2
  <2> QED
    BY <2>2, <2>3
<1>6. p.type # "END_REQUEST" => p.n = Len(response[id]) + 1
  <2> SUFFICES ASSUME p.type # "END_REQUEST" PROVE p.n = Len(response[id]) + 1
    OBVIOUS
  <2> DEFINE read == Len(response[id])
             written == Len(outputs[id])
             n == p.n
  <2>1. read + 1 \in read + 1 .. written
    <3>1. read \in Nat /\ written \in Nat /\ n \in Nat /\ read < n /\ n <= written
      BY <1>2, <1>3, <1>4
    <3> HIDE DEF read, written, n
    <3> QED
      BY <3>1
  <2>2. p.n <= Len(response[id]) + 1
    BY <1>5, <2>1
  <2> QED
    BY <1>2, <1>3, <1>4, <2>2
<1>7. p.type = "END_REQUEST" => Whole(response[id], id)
  <2> SUFFICES ASSUME p.type = "END_REQUEST" PROVE Whole(response[id], id)
    OBVIOUS
  <2>1. CASE Len(response[id]) = Len(outputs[id])
    <3>1. response[id] = outputs[id]
      BY <1>2, <1>4, <2>1, WholeStart DEF Invariants, ReadInv
    <3> QED
      BY <1>3, <3>1 DEF Whole
  <2>2. CASE Len(response[id]) # Len(outputs[id])
    <3>1. Len(outputs[id]) \in Len(response[id]) + 1 .. Len(outputs[id])
      BY <1>4, <2>2
    <3>2. p.n <= Len(outputs[id])
      BY <1>5, <3>1
    <3> QED
      BY <1>3, <1>4, <3>2
  <2> QED
    BY <2>1, <2>2
<1> QED
  BY <1>1, <1>2, <1>6, <1>7

\* What is left of the wire keeps its order.
LEMMA PopKeepsOrder ==
  ASSUME Invariants, wire # <<>>, wire' = Tail(wire)
  PROVE  /\ wire' \in Seq(Packets)
         /\ \A k \in DOMAIN wire' : wire'[k] = wire[k + 1] /\ k + 1 \in DOMAIN wire /\ 1 < k + 1
         /\ \A k \in DOMAIN wire \ {1} : \E l \in DOMAIN wire' : wire'[l] = wire[k]
         /\ \A k, l \in DOMAIN wire' :
              k < l /\ wire'[k].id = wire'[l].id => wire'[k].n < wire'[l].n
         /\ \A k \in DOMAIN wire' : wire'[k].id = wire[1].id => wire[1].n < wire'[k].n
<1>1. /\ wire' \in Seq(Packets) /\ 1 \in DOMAIN wire
      /\ DOMAIN wire = 1 .. Len(wire) /\ Len(wire) \in Nat \ {0}
      /\ DOMAIN wire' = 1 .. Len(wire) - 1
      /\ \A k \in DOMAIN wire' : wire'[k] = wire[k + 1] /\ k + 1 \in DOMAIN wire
  BY TailFacts DEF Invariants, TypeOK
<1>2. \A k \in DOMAIN wire' : 1 < k + 1
  BY <1>1
<1>3. ASSUME NEW k \in DOMAIN wire \ {1} PROVE \E l \in DOMAIN wire' : wire'[l] = wire[k]
  <2>1. k - 1 \in DOMAIN wire' /\ (k - 1) + 1 = k
    BY <1>1
  <2> QED
    BY <1>1, <2>1
<1>4. ASSUME NEW k \in DOMAIN wire', NEW l \in DOMAIN wire', k < l, wire'[k].id = wire'[l].id
      PROVE  wire'[k].n < wire'[l].n
  <2>1. k + 1 < l + 1 /\ k + 1 \in DOMAIN wire /\ l + 1 \in DOMAIN wire
    BY <1>1, <1>4
  <2>2. wire[k + 1].n < wire[l + 1].n
    BY <1>1, <1>4, <2>1 DEF Invariants, WireInv
  <2> QED
    BY <1>1, <2>2
<1>5. ASSUME NEW k \in DOMAIN wire', wire'[k].id = wire[1].id PROVE wire[1].n < wire'[k].n
  <2>1. wire[1].n < wire[k + 1].n
    BY <1>1, <1>2, <1>5 DEF Invariants, WireInv
  <2> QED
    BY <1>1, <2>1
<1> QED
  BY <1>1, <1>2, <1>3, <1>4, <1>5

\* What is left of the wire is what is left to read.
LEMMA PopKeepsWire ==
  ASSUME Invariants, wire # <<>>, wire' = Tail(wire), UNCHANGED <<outputs, ended>>,
         NEW id \in Ids, id = wire[1].id,
         \A o \in Ids \ {id} : response'[o] = response[o],
         Len(response'[id]) \in Nat, Len(response[id]) <= Len(response'[id]),
         Len(response'[id]) <= wire[1].n,
         Len(response'[id]) = wire[1].n \/ wire[1].n = Len(outputs[id]) + 1
  PROVE  WireInv'
<1>0. \A o \in Ids : Len(response[o]) \in Nat /\ Len(outputs[o]) \in Nat
  BY DEF Invariants, TypeOK
<1>1. /\ \A k \in DOMAIN wire' : wire'[k] = wire[k + 1] /\ k + 1 \in DOMAIN wire /\ 1 < k + 1
      /\ \A k \in DOMAIN wire \ {1} : \E l \in DOMAIN wire' : wire'[l] = wire[k]
      /\ \A k, l \in DOMAIN wire' :
           k < l /\ wire'[k].id = wire'[l].id => wire'[k].n < wire'[l].n
      /\ \A k \in DOMAIN wire' : wire'[k].id = wire[1].id => wire[1].n < wire'[k].n
      /\ wire[1].n \in Nat
  BY PopKeepsOrder, HeadFacts
<1>2. ASSUME NEW k \in DOMAIN wire' PROVE InPlace(wire[k])'
  <2> DEFINE q == wire[k + 1]
  <2>1. wire'[k] = q /\ q.id \in Ids /\ q.n \in Nat
    BY <1>1, PacketFields DEF Invariants
  <2>2. InPlace(q)
    BY <1>1 DEF Invariants, WireInv
  <2>3. Len(response'[q.id]) < q.n
    <3>1. CASE q.id = id
      BY <1>1, <2>1, <3>1
    <3>2. CASE q.id # id
      BY <2>1, <2>2, <3>2 DEF InPlace
    <3> QED
      BY <3>1, <3>2
  <2> HIDE DEF q
  <2> QED
    BY <2>1, <2>2, <2>3 DEF InPlace
<1>3. ASSUME NEW o \in Ids, NEW m \in Len(response'[o]) + 1 .. Len(outputs'[o])
      PROVE  \E k \in DOMAIN wire' : wire'[k].id = o /\ wire'[k].n = m
  <2>1. m \in Len(response[o]) + 1 .. Len(outputs[o])
    BY <1>0, <1>3
  <2>2. PICK k \in DOMAIN wire : wire[k].id = o /\ wire[k].n = m
    BY <2>1 DEF Invariants, WireInv
  <2>3. k # 1
    <3> SUFFICES ASSUME k = 1 PROVE FALSE
      OBVIOUS
    <3>1. o = id /\ m = wire[1].n
      BY <2>2
    <3> QED
      BY <1>0, <1>1, <1>3, <3>1
  <2> QED
    BY <1>1, <2>2, <2>3
<1> QED
  BY <1>1, <1>2, <1>3 DEF WireInv

\* The end of a request is read.
LEMMA ReadEndStep ==
  ASSUME Invariants, NEW delay, ReadPacket(delay), Head(wire).type = "END_REQUEST"
  PROVE  Invariants'
<1> DEFINE id == wire[1].id
<1>1. /\ waiting \in Ids /\ wire # <<>> /\ wire' = Tail(wire)
      /\ UNCHANGED <<response, outputs, ended>>
      /\ state' = [state EXCEPT ![Head(wire).id] = "ok"]
      /\ \/ Head(wire).id = waiting /\ AfterEnd(waiting)
         \/ Raise(waiting)
         \/ UNCHANGED <<waiting, outcome, given>>
  BY DEF ReadPacket, Wait, Joined, Marked, Invariants, TypeOK
<1>2. /\ id \in Ids /\ Head(wire) = wire[1] /\ wire[1].n \in Nat /\ 1 \in DOMAIN wire
      /\ Whole(response[id], id)
  BY <1>1, HeadFacts
<1>3. Len(response[id]) < wire[1].n /\ wire[1].n = Len(outputs[id]) + 1
  BY <1>2 DEF Invariants, WireInv, InPlace
<1>4. Len(response[id]) \in Nat
  BY <1>2 DEF Invariants, TypeOK
<1>5. WireInv'
  <2>1. Len(response'[id]) \in Nat /\ Len(response[id]) <= Len(response'[id])
        /\ Len(response'[id]) <= wire[1].n
    BY <1>1, <1>2, <1>3, <1>4
  <2> QED
    BY <1>1, <1>2, <1>3, <2>1, PopKeepsWire
<1> HIDE DEF id
<1>6. /\ given' \in [Ids -> Seq(Pieces)] /\ outcome' \in [Ids -> {"none", "returned", "raised"}]
      /\ \A o \in Ids : Starts(given'[o], response[o])
      /\ \A o \in Ids : outcome'[o] = "returned" => HasError(given'[o]) \/ Whole(given'[o], o)
      /\ waiting' \in Ids \cup {NoId}
  <2>1. CASE Head(wire).id = waiting /\ Return(waiting)
    <3>1. Whole(response[waiting], waiting) /\ waiting' = NoId
      BY <1>2, <2>1 DEF Return, id
    <3> QED
      BY <1>1, <2>1, <3>1, ReturnFacts
  <2>2. CASE Raise(waiting)
    BY <1>1, <2>2 DEF Raise, Invariants, TypeOK, ReadInv, MarkInv
  <2>3. CASE UNCHANGED <<waiting, outcome, given>>
    BY <1>1, <2>3 DEF Invariants, TypeOK, ReadInv, MarkInv
  <2> QED
    BY <1>1, <2>1, <2>2, <2>3 DEF AfterEnd
<1>7. state' = [state EXCEPT ![id] = "ok"]
  BY <1>1, <1>2 DEF id
<1>8. TypeOK'
  <2>1. wire' \in Seq(Packets)
    BY <1>1, TailFacts DEF Invariants, TypeOK
  <2> QED
    BY <1>1, <1>6, <1>7, <2>1 DEF Invariants, TypeOK
<1>9. ReadInv'
  BY <1>1, <1>6 DEF Invariants, ReadInv
<1>10. MarkInv'
  <2>1. \A o \in Ids : /\ state'[o] = "ok" => Whole(response[o], o)
                       /\ state'[o] = "err" => HasError(response[o])
    BY <1>2, <1>7 DEF Invariants, TypeOK, MarkInv, id
  <2> QED
    BY <1>1, <1>6, <2>1 DEF MarkInv, Whole
<1> QED
  BY <1>5, <1>8, <1>9, <1>10 DEF Invariants

\* Output is read: it is the next piece of its request's output.
LEMMA ReadOutputStep ==
  ASSUME Invariants, NEW delay, ReadPacket(delay), Head(wire).type # "END_REQUEST"
  PROVE  Invariants'
<1> DEFINE p == wire[1]
           id == p.id
           e == outputs[id][p.n]
<1>1. /\ waiting \in Ids /\ wire # <<>> /\ wire' = Tail(wire) /\ UNCHANGED <<outputs, ended>>
      /\ response' = [response EXCEPT ![Head(wire).id] =
                        Append(@, <<Head(wire).type, Head(wire).id, Head(wire).n>>)]
      /\ \/ Head(wire).type = "STDERR" /\ state' = [state EXCEPT ![Head(wire).id] = "err"]
         \/ state' = state
      /\ Raise(waiting) \/ UNCHANGED <<waiting, outcome, given>>
  BY DEF ReadPacket, Wait, Joined, Marked, Invariants, TypeOK
<1>2. /\ id \in Ids /\ Head(wire) = p /\ p.n \in Nat /\ 1 \in DOMAIN wire
      /\ p.type # "END_REQUEST" /\ p.n = Len(response[id]) + 1
  BY <1>1, HeadFacts
<1>3. p.n <= Len(outputs[id]) /\ e = <<p.type, id, p.n>>
  BY <1>2 DEF Invariants, WireInv, InPlace
<1>4. /\ response \in [Ids -> Seq(Pieces)] /\ outputs[id] \in Seq(Pieces)
      /\ response[id] \in Seq(Pieces) /\ Len(response[id]) \in Nat /\ Len(outputs[id]) \in Nat
  BY <1>2 DEF Invariants, TypeOK
<1>5. e \in Pieces
  <2>1. p.n \in DOMAIN outputs[id]
    BY <1>2, <1>3, <1>4
  <2> QED
    BY <1>4, <2>1
<1>6. e[1] = p.type
  BY <1>3
<1>7. response' = [response EXCEPT ![id] = Append(response[id], e)]
  BY <1>1, <1>2, <1>3, Zenon
<1> HIDE DEF p, id, e
<1>8. /\ response' \in [Ids -> Seq(Pieces)]
      /\ Len(response'[id]) = Len(response[id]) + 1
      /\ \A i \in 1 .. Len(response[id]) : response'[id][i] = response[id][i]
      /\ response'[id][Len(response[id]) + 1] = e
      /\ \A o \in Ids \ {id} : response'[o] = response[o]
  <2>1. /\ Append(response[id], e) \in Seq(Pieces)
        /\ Len(Append(response[id], e)) = Len(response[id]) + 1
        /\ \A i \in 1 .. Len(response[id]) : Append(response[id], e)[i] = response[id][i]
        /\ Append(response[id], e)[Len(response[id]) + 1] = e
    BY <1>4, <1>5, AppendFacts
  <2>2. /\ response'[id] = Append(response[id], e)
        /\ \A o \in Ids \ {id} : response'[o] = response[o]
        /\ response' \in [Ids -> Seq(Pieces)]
    BY <1>2, <1>4, <1>7, <2>1
  <2> QED
    BY <2>1, <2>2
<1>9. WireInv'
  <2>1. /\ Len(response'[id]) \in Nat /\ Len(response[id]) <= Len(response'[id])
        /\ Len(response'[id]) <= wire[1].n /\ Len(response'[id]) = wire[1].n
    BY <1>2, <1>4, <1>8 DEF p
  <2>2. id = wire[1].id
    BY DEF id, p
  <2> QED
    BY <1>1, <1>2, <1>8, <2>1, <2>2, PopKeepsWire
<1>10. /\ given' = given /\ outcome' \in [Ids -> {"none", "returned", "raised"}]
       /\ \A o \in Ids : outcome'[o] = "returned" => outcome[o] = "returned"
       /\ waiting' \in Ids \cup {NoId}
  BY <1>1 DEF Raise, Invariants, TypeOK
<1>11. \/ p.type = "STDERR" /\ state' = [state EXCEPT ![id] = "err"]
       \/ state' = state
  BY <1>1, <1>2 DEF id
<1>12. TypeOK'
  <2>1. wire' \in Seq(Packets)
    BY <1>1, TailFacts DEF Invariants, TypeOK
  <2>2. state' \in [Ids -> {"none", "written", "ok", "err"}]
    BY <1>11 DEF Invariants, TypeOK
  <2> QED
    BY <1>1, <1>8, <1>10, <2>1, <2>2 DEF Invariants, TypeOK
<1>13. ReadInv'
  <2> SUFFICES ASSUME NEW o \in Ids
               PROVE  Starts(given[o], response'[o]) /\ Starts(response'[o], outputs[o])
    BY <1>1, <1>10 DEF ReadInv
  <2>1. Starts(given[o], response[o]) /\ Starts(response[o], outputs[o])
    BY DEF Invariants, ReadInv
  <2>2. given[o] \in Seq(Pieces)
    BY DEF Invariants, TypeOK
  <2>3. CASE o # id
    BY <1>8, <2>1, <2>3
  <2>4. CASE o = id
    <3>1. Starts(given[id], response'[id])
      BY <1>4, <1>8, <2>1, <2>2, <2>4 DEF Starts
    <3>2. e = outputs[id][Len(response[id]) + 1] /\ Len(response'[id]) <= Len(outputs[id])
      BY <1>2, <1>3, <1>8 DEF e
    <3>3. \A i \in 1 .. Len(response[id]) + 1 : response'[id][i] = outputs[id][i]
      BY <1>4, <1>8, <2>1, <2>4, <3>2 DEF Starts
    <3> QED
      BY <1>8, <2>4, <3>1, <3>2, <3>3 DEF Starts
  <2> QED
    BY <2>3, <2>4
<1>14. MarkInv'
  <2> SUFFICES ASSUME NEW o \in Ids
               PROVE  /\ state'[o] = "ok" => Whole(response[o], o)' 
                      /\ state'[o] = "err" => HasError(response'[o])
                      /\ outcome'[o] = "returned" => HasError(given[o]) \/ Whole(given[o], o)
    BY <1>1, <1>10 DEF MarkInv, Whole
  <2>1. outcome'[o] = "returned" => HasError(given[o]) \/ Whole(given[o], o)
    BY <1>10 DEF Invariants, MarkInv
  <2>2. CASE o # id
    <3>1. state'[o] = state[o] /\ response'[o] = response[o]
      BY <1>8, <1>11, <2>2 DEF Invariants, TypeOK
    <3> QED
      BY <1>1, <2>1, <3>1 DEF Invariants, MarkInv, Whole
  <2>3. CASE o = id
    <3>1. state[id] # "ok"
      BY <1>2, <1>3, <1>4 DEF Invariants, MarkInv, Whole
    <3>2. state'[id] # "ok"
      BY <1>2, <1>11, <3>1 DEF Invariants, TypeOK
    <3>3. DOMAIN response'[id] = 1 .. Len(response[id]) + 1
      <4>1. response'[id] \in Seq(Pieces)
        BY <1>2, <1>8
      <4> QED
        BY <1>8, <4>1
    <3>4. state[id] = "err" => HasError(response'[id])
      <4> SUFFICES ASSUME state[id] = "err" PROVE HasError(response'[id])
        OBVIOUS
      <4>1. PICK i \in DOMAIN response[id] : response[id][i][1] = "STDERR"
        BY <1>2 DEF Invariants, MarkInv, HasError
      <4>2. i \in 1 .. Len(response[id]) /\ i \in DOMAIN response'[id]
        BY <1>4, <3>3
      <4>3. response'[id][i] = response[id][i]
        BY <1>8, <4>2
      <4> QED
        BY <4>1, <4>2, <4>3, Zenon DEF HasError
    <3>5. p.type = "STDERR" => HasError(response'[id])
      <4> SUFFICES ASSUME p.type = "STDERR" PROVE HasError(response'[id])
        OBVIOUS
      <4> DEFINE last == Len(response[id]) + 1
      <4>1. last \in DOMAIN response'[id]
        BY <1>4, <3>3
      <4>2. response'[id][last] = e /\ e[1] = "STDERR"
        BY <1>6, <1>8
      <4> HIDE DEF last
      <4> QED
        BY <4>1, <4>2, Zenon DEF HasError
    <3> QED
      BY <1>11, <2>1, <2>3, <3>2, <3>4, <3>5
  <2> QED
    BY <2>2, <2>3
<1> QED
  BY <1>9, <1>12, <1>13, <1>14 DEF Invariants

-----------------------------------------------------------------------------
(* Theorems.                                                               *)

\* The invariants hold initially.
LEMMA InitInvariants == Init => Invariants
<1> SUFFICES ASSUME Init PROVE Invariants
  OBVIOUS
<1>1. <<>> \in Seq(Pieces) /\ <<>> \in Seq(Packets)
  OBVIOUS
<1>2. TypeOK
  BY <1>1 DEF Init, TypeOK
<1>3. ReadInv /\ WireInv
  BY DEF Init, ReadInv, WireInv, Starts
<1>4. MarkInv
  BY DEF Init, MarkInv
<1> QED
  BY <1>2, <1>3, <1>4 DEF Invariants

\* A wait that goes on, or ends in an exception, without a packet.
LEMMA RaiseStep ==
  ASSUME Invariants, waiting \in Ids, UNCHANGED <<state, response, wire, outputs, ended>>,
         Raise(waiting) \/ UNCHANGED <<waiting, outcome, given>>
  PROVE  Invariants'
<1>1. WireInv'
  BY WireUnchanged DEF Invariants
<1>2. CASE Raise(waiting)
  <2>1. /\ outcome' = [outcome EXCEPT ![waiting] = "raised"] /\ waiting' = NoId /\ given' = given
    BY <1>2 DEF Raise
  <2>2. TypeOK' /\ ReadInv'
    BY <2>1 DEF Invariants, TypeOK, ReadInv
  <2>3. MarkInv'
    BY <2>1 DEF Invariants, TypeOK, MarkInv, Whole
  <2> QED
    BY <1>1, <2>2, <2>3 DEF Invariants
<1>3. CASE UNCHANGED <<waiting, outcome, given>>
  BY <1>1, <1>3 DEF Invariants, TypeOK, ReadInv, MarkInv, Whole
<1> QED
  BY <1>2, <1>3

\* An id that was drawn twice stays drawn twice.
LEMMA RedrawnStays == redrawn /\ [Next]_vars => redrawn'
<1> SUFFICES ASSUME redrawn, [Next]_vars PROVE redrawn'
  OBVIOUS
<1>1. CASE Backend
  BY <1>1 DEF Backend, SendOutput, SendEnd, Send, Stall, Die, clientVars
<1>2. CASE Client
  BY <1>2 DEF Client, AsyncRequest, AsyncRequestAgain, WaitForResponse, ReadPacket, ReadMore,
              ReadFails, ReadContent, vars, clientVars
<1> QED
  BY <1>1, <1>2 DEF Next, Rest, vars, clientVars

\* While no id is drawn twice every step keeps the invariants.
LEMMA NextInvariants == (redrawn \/ Invariants) /\ [Next]_vars => (redrawn \/ Invariants)'
<1> SUFFICES ASSUME Invariants, [Next]_vars, ~redrawn' PROVE Invariants'
  BY RedrawnStays
<1>1. ASSUME NEW delay, ReadPacket(delay) PROVE Invariants'
  BY <1>1, ReadEndStep, ReadOutputStep
<1>2. ASSUME NEW delay, ReadFails \/ ReadMore(delay) PROVE Invariants'
  <2>1. /\ waiting \in Ids
        /\ Raise(waiting) \/ UNCHANGED <<waiting, outcome, given>>
        /\ UNCHANGED <<state, response, wire, outputs, ended>>
    BY <1>2 DEF ReadFails, ReadMore, Wait, backendVars, Invariants, TypeOK
  <2> QED
    BY <2>1, RaiseStep
<1>3. ASSUME UNCHANGED <<clientVars, wire, outputs, ended>> PROVE Invariants'
  <2>1. UNCHANGED <<state, response, waiting, outcome, given, wire, outputs, ended>>
    BY <1>3 DEF clientVars
  <2>2. WireInv'
    BY <2>1, WireUnchanged DEF Invariants
  <2> QED
    BY <2>1, <2>2 DEF Invariants, TypeOK, ReadInv, MarkInv, Whole
<1>4. ASSUME NEW where, Die(where) \/ Stall PROVE Invariants'
  BY <1>3, <1>4 DEF Die, Stall
<1>5. CASE ReadContent \/ Rest \/ UNCHANGED vars
  BY <1>3, <1>5 DEF ReadContent, Rest, vars, backendVars
<1>6. ASSUME NEW id \in Ids PROVE ~AsyncRequestAgain(id)
  BY DEF AsyncRequestAgain
<1>7. CASE Client
  BY <1>1, <1>2, <1>5, <1>6, <1>7, AsyncRequestStep, WaitStep DEF Client
<1>8. CASE Backend
  BY <1>4, <1>8, SendOutputStep, SendEndStep DEF Backend
<1> QED
  BY <1>5, <1>7, <1>8 DEF Next

\* They are invariants of the specification while no id is drawn twice.
LEMMA InvariantsHold == Spec => [](redrawn \/ Invariants)
  BY InitInvariants, NextInvariants, PTL DEF Spec

\* While no id is drawn twice, a response is the output of its own request, in order and without a gap, and
\* the whole of it unless it shows an error: wait_for_response never hands out
\* packets of another request or stops short at another's end.
THEOREM ResponsesAreOwn == Spec => []OwnOutputInOrder
<1>1. redrawn \/ Invariants => OwnOutputInOrder
  <2> SUFFICES ASSUME Invariants, NEW id \in Ids
               PROVE  /\ given[id] = SubSeq(outputs[id], 1, Len(given[id]))
                      /\ state[id] = "ok" => response[id] = outputs[id]
                      /\ outcome[id] = "returned"
                           /\ (\A i \in DOMAIN given[id] : given[id][i][1] # "STDERR") =>
                           ended[id] # "no" /\ given[id] = outputs[id]
    BY DEF OwnOutputInOrder
  <2>1. /\ given[id] \in Seq(Pieces) /\ outputs[id] \in Seq(Pieces) /\ response[id] \in Seq(Pieces)
        /\ Starts(given[id], response[id]) /\ Starts(response[id], outputs[id])
    BY DEF Invariants, TypeOK, ReadInv
  <2>2. Starts(given[id], outputs[id])
    BY <2>1 DEF Starts
  <2>3. given[id] = SubSeq(outputs[id], 1, Len(given[id]))
    BY <2>1, <2>2, StartIsSubSeq
  <2>4. state[id] = "ok" => response[id] = outputs[id]
    BY DEF Invariants, MarkInv, Whole
  <2>5. outcome[id] = "returned" /\ ~HasError(given[id]) =>
          ended[id] # "no" /\ given[id] = outputs[id]
    BY DEF Invariants, MarkInv, Whole
  <2> QED
    BY <2>3, <2>4, <2>5 DEF HasError
<1> QED
  BY <1>1, InvariantsHold, PTL
=============================================================================
