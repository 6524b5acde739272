---------------------------- MODULE PhpPartsProofs ----------------------------
(***************************************************************************)
(* Theorems about the components around the loop of the PHP runtime:       *)
(* FastCgiRecords, for streams, names and values of any length;            *)
(* PhpCgiProxy, for any replies, launches and deaths of php-cgi; and       *)
(* PhpHttpWrapper, for any responses of the user's handler.                *)
(***************************************************************************)
EXTENDS FastCgiRecords, PhpCgiProxy, PhpHttpWrapper, WellFoundedInduction, TLAPS

-----------------------------------------------------------------------------
(* Sequences.                                                              *)

\* Where the elements of two sequences are in the one of both.
LEMMA Concatenation ==
  ASSUME NEW T, NEW s \in Seq(T), NEW t \in Seq(T)
  PROVE  /\ s \o t \in Seq(T) /\ Len(s \o t) = Len(s) + Len(t)
         /\ \A i \in 1 .. Len(s) : (s \o t)[i] = s[i]
         /\ \A i \in 1 .. Len(t) : (s \o t)[Len(s) + i] = t[i]
OBVIOUS

-----------------------------------------------------------------------------
(* Packets.                                                                *)

\* Two bytes hold the length of a part.
LEMMA AnnouncedIsPart == ASSUME NEW len \in Nat, len <= 65535 PROVE Announced(len) = len
BY DEF Announced, Byte

\* buildPacket goes through the stream in parts that fit, and makes an empty
\* one of the empty stream only.
PacketInv ==
  /\ total \in Nat /\ nlen \in Nat /\ vlen \in Nat
  /\ offset \in 0 .. total
  /\ packets \in Seq([announced : Nat, part : Nat])
  /\ packets = <<>> => offset = 0
  /\ \A i \in DOMAIN packets :
       packets[i].announced = packets[i].part /\ (packets[i].part = 0 <=> total = 0)

LEMMA PacketInit == RecordsInit => PacketInv
BY LengthsAssumption DEF RecordsInit, PacketInv

LEMMA PacketStep == PacketInv /\ [RecordsNext]_recordsVars => PacketInv'
<1> SUFFICES ASSUME PacketInv, [RecordsNext]_recordsVars PROVE PacketInv'
  OBVIOUS
<1>1. CASE BuildPart
  <2> DEFINE packet == [announced |-> Announced(Part), part |-> Part]
  <2>0. total \in Nat /\ offset \in Nat /\ offset <= total
    BY DEF PacketInv
  <2>1. /\ Part \in Nat /\ offset + Part \in 0 .. total
        /\ (Part = 0 <=> total = 0)
    <3>1. Part \in Nat
      BY <2>0 DEF Part, MaxPart
    <3>2. offset + Part \in 0 .. total
      BY <2>0 DEF Part, MaxPart
    <3>3. total - offset = 0 <=> total = 0
      BY <1>1, <2>0 DEF BuildPart, Complete, PacketInv
    <3>4. Part = 0 <=> total = 0
      BY <2>0, <3>3 DEF Part, MaxPart
    <3> QED
      BY <3>1, <3>2, <3>4
  <2>2. Announced(Part) = Part
    <3>1. Part <= 65535
      BY <2>0 DEF Part, MaxPart
    <3> QED
      BY <2>1, <3>1, AnnouncedIsPart
  <2>3. /\ packet \in [announced : Nat, part : Nat]
        /\ packet.announced = packet.part /\ (packet.part = 0 <=> total = 0)
    BY <2>1, <2>2
  <2>4. packets' = Append(packets, packet) /\ offset' = offset + Part
        /\ UNCHANGED <<total, nlen, vlen>>
    BY <1>1 DEF BuildPart
  <2> HIDE DEF packet
  <2>5. packets' \in Seq([announced : Nat, part : Nat]) /\ packets' # <<>>
    BY <2>3, <2>4 DEF PacketInv
  <2>6. \A i \in DOMAIN packets' :
          packets'[i].announced = packets'[i].part /\ (packets'[i].part = 0 <=> total = 0)
    <3>1. \A i \in DOMAIN packets' : IF i = Len(packets) + 1 THEN packets'[i] = packet
            ELSE i \in DOMAIN packets /\ packets'[i] = packets[i]
      BY <2>3, <2>4 DEF PacketInv
    <3> QED
      BY <2>3, <3>1 DEF PacketInv
  <2>7. total' = total /\ nlen' \in Nat /\ vlen' \in Nat
    BY <2>4 DEF PacketInv
  <2>8. offset' \in 0 .. total'
    BY <2>1, <2>4, <2>7
  <2> QED
    BY <2>0, <2>5, <2>6, <2>7, <2>8 DEF PacketInv
<1>2. CASE RecordsRest \/ UNCHANGED recordsVars
  BY <1>2 DEF RecordsRest, recordsVars, PacketInv
<1> QED
  BY <1>1, <1>2 DEF RecordsNext

-----------------------------------------------------------------------------
(* Name-value pairs.                                                       *)

\* A length of up to 24 bits is in the lower three of four bytes.
LEMMA BytesOf ==
  ASSUME NEW n \in Nat, n < TooLong
  PROVE  /\ Byte(n, TooLong) = 0
         /\ Byte(n, 65536) \in Nat /\ Byte(n, 256) \in Nat /\ Byte(n, 1) \in Nat
         /\ Byte(n, 65536) * 65536 + Byte(n, 256) * 256 + Byte(n, 1) = n
BY SMT DEF Byte, TooLong

\* The bytes of n are in data from p on.
Holds(data, p, n) ==
  /\ data[p] = LengthBytes(n)[1]
  /\ n >= 128 => /\ data[p + 1] = LengthBytes(n)[2]
                 /\ data[p + 2] = LengthBytes(n)[3]
                 /\ data[p + 3] = LengthBytes(n)[4]

\* The length that starts at p is read back, and so is where the next starts.
LEMMA LengthReadsBack ==
  ASSUME NEW n \in Nat, n < TooLong, NEW data, NEW p \in Nat, Holds(data, p, n)
  PROVE  LengthAt(data, p) = [size |-> Len(LengthBytes(n)), len |-> n]
<1>1. CASE n < 128
  <2>1. Len(LengthBytes(n)) = 1 /\ LengthBytes(n)[1] = n
    BY <1>1 DEF LengthBytes
  <2>2. data[p] = n
    BY <2>1 DEF Holds
  <2> QED
    BY <1>1, <2>1, <2>2 DEF LengthAt
<1>2. CASE n >= 128
  <2>1. LengthBytes(n) = <<Byte(n, TooLong) + 128, Byte(n, 65536), Byte(n, 256), Byte(n, 1)>>
    BY <1>2 DEF LengthBytes
  <2>2. /\ Len(LengthBytes(n)) = 4 /\ LengthBytes(n)[1] = Byte(n, TooLong) + 128
        /\ LengthBytes(n)[2] = Byte(n, 65536) /\ LengthBytes(n)[3] = Byte(n, 256)
        /\ LengthBytes(n)[4] = Byte(n, 1)
    BY <2>1
  <2>3. /\ data[p] = 128 /\ data[p + 1] = Byte(n, 65536) /\ data[p + 2] = Byte(n, 256)
        /\ data[p + 3] = Byte(n, 1)
    BY <1>2, <2>2, BytesOf DEF Holds
  <2>4. data[p + 1] * 65536 + data[p + 2] * 256 + data[p + 3] = n
    BY <2>3, BytesOf
  <2>5. ~(data[p] < 128)
    BY <2>3
  <2> QED
    BY <2>2, <2>4, <2>5 DEF LengthAt
<1> QED
  BY <1>1, <1>2

\* Both lengths of a pair are read back.
LEMMA PairReadsBack ==
  ASSUME NEW n \in Nat, n < TooLong, NEW v \in Nat, v < TooLong
  PROVE  readNvpair(buildNvpair(n, v)) = <<n, v>>
<1> DEFINE first == LengthBytes(n)
           second == LengthBytes(v)
           data == first \o second
<1>1. ASSUME NEW k \in Nat, k < TooLong
      PROVE  /\ LengthBytes(k) \in Seq(Nat)
             /\ Len(LengthBytes(k)) = IF k < 128 THEN 1 ELSE 4
  BY <1>1, BytesOf DEF LengthBytes
<1>2. /\ first \in Seq(Nat) /\ second \in Seq(Nat)
      /\ Len(first) = (IF n < 128 THEN 1 ELSE 4) /\ Len(second) = IF v < 128 THEN 1 ELSE 4
  BY <1>1
<1>0. LengthBytes(n) = first /\ LengthBytes(v) = second /\ buildNvpair(n, v) = data
  BY DEF buildNvpair
<1> HIDE DEF first, second
<1>3. Holds(data, 1, n)
  <2>1. data[1] = first[1]
    BY <1>2
  <2>2. n >= 128 => data[1 + 1] = first[2] /\ data[1 + 2] = first[3] /\ data[1 + 3] = first[4]
    BY <1>2
  <2> HIDE DEF data
  <2> QED
    BY <1>0, <2>1, <2>2 DEF Holds
<1>4. Holds(data, 1 + Len(first), v)
  <2>0. first \in Seq(Nat) /\ second \in Seq(Nat)
    BY <1>2
  <2>1. \A i \in 1 .. Len(second) : data[Len(first) + i] = second[i]
    BY <2>0, Concatenation
  <2> HIDE DEF data
  <2>2. data[1 + Len(first)] = second[1]
    <3>1. 1 \in 1 .. Len(second) /\ 1 + Len(first) = Len(first) + 1
      BY <1>2
    <3> QED
      BY <2>1, <3>1
  <2>3. ASSUME v >= 128, NEW i \in 1 .. 3 PROVE data[1 + Len(first) + i] = second[i + 1]
    <3>1. i + 1 \in 1 .. Len(second) /\ 1 + Len(first) + i = Len(first) + (i + 1)
      BY <1>2, <2>3
    <3> QED
      BY <2>1, <3>1
  <2> DEFINE p == 1 + Len(first)
  <2>4. v >= 128 => /\ data[p + 1] = second[2] /\ data[p + 2] = second[3]
                   /\ data[p + 3] = second[4]
    <3>1. v >= 128 => data[p + 1] = second[1 + 1]
      BY <2>3
    <3>2. v >= 128 => data[p + 2] = second[2 + 1]
      BY <2>3
    <3>3. v >= 128 => data[p + 3] = second[3 + 1]
      BY <2>3
    <3> QED
      BY <3>1, <3>2, <3>3
  <2> QED
    BY <1>0, <2>2, <2>4 DEF Holds
<1> HIDE DEF data
<1>5. LengthAt(data, 1) = [size |-> Len(first), len |-> n]
  BY <1>0, <1>3, LengthReadsBack
<1>6. LengthAt(data, 1 + Len(first)) = [size |-> Len(second), len |-> v]
  <2>1. 1 + Len(first) \in Nat
    BY <1>2
  <2> QED
    BY <1>0, <1>4, <2>1, LengthReadsBack
<1> QED
  BY <1>0, <1>5, <1>6 DEF readNvpair

\* The other side gets back what client.php wrote.
THEOREM StreamIsReadBack == RecordsSpec => []StreamReadsBack
<1>1. PacketInv => StreamReadsBack
  <2> SUFFICES ASSUME PacketInv PROVE StreamReadsBack
    OBVIOUS
  <2>1. nlen < TooLong /\ vlen < TooLong => readNvpair(buildNvpair(nlen, vlen)) = <<nlen, vlen>>
    BY PairReadsBack DEF PacketInv
  <2>2. Complete => offset = total /\ packets # <<>>
    BY DEF PacketInv, Complete
  <2> QED
    BY <2>1, <2>2 DEF PacketInv, StreamReadsBack
<1> QED
  BY <1>1, PacketInit, PacketStep, PTL DEF RecordsSpec

-----------------------------------------------------------------------------
(* php-cgi.                                                                *)

\* A set of natural numbers that is not empty has a least element.
LEMMA LeastElement ==
  ASSUME NEW S \in SUBSET Nat, S # {}
  PROVE  \E n \in S : \A k \in S : n <= k
<1>1. PICK n \in S : \A k \in S : ~(<<k, n>> \in OpToRel(<, Nat))
  BY NatLessThanWellFounded, WFMin, Zenon
<1>2. \A k \in S : ~(k < n)
  BY <1>1 DEF OpToRel
<1> QED
  BY <1>2

\* HeaderCount finds where the headers end, in any lines.
LEMMA HeadersEnd ==
  ASSUME NEW lines \in Seq(Lines)
  PROVE  /\ HeaderCount(lines) \in 0 .. Len(lines)
         /\ \A i \in 1 .. HeaderCount(lines) : lines[i] \in HeaderLines
         /\ \/ HeaderCount(lines) = Len(lines)
            \/ lines[HeaderCount(lines) + 1] \notin HeaderLines
<1> DEFINE ends == {i \in DOMAIN lines : lines[i] \notin HeaderLines}
           first == CHOOSE i \in ends : \A j \in ends : i <= j
<1>1. Len(lines) \in Nat /\ DOMAIN lines = 1 .. Len(lines)
  OBVIOUS
<1>2. CASE ends = {}
  BY <1>1, <1>2 DEF HeaderCount
<1>3. CASE ends # {}
  <2>1. ends \in SUBSET Nat
    BY <1>1
  <2>2. \E i \in ends : \A j \in ends : i <= j
    BY <1>3, <2>1, LeastElement
  <2>3. first \in ends /\ \A j \in ends : first <= j
    BY <2>2
  <2>4. HeaderCount(lines) = first - 1
    BY <1>3 DEF HeaderCount
  <2> HIDE DEF first
  <2> QED
    BY <1>1, <2>3, <2>4
<1> QED
  BY <1>2, <1>3

\* Beyond its end nothing is left of a sequence.
LEMMA NothingBeyond ==
  ASSUME NEW T, NEW s \in Seq(T), NEW m \in Nat, NEW n \in Nat, m > Len(s), n > Len(s)
  PROVE  SubSeq(s, m, Len(s)) = SubSeq(s, n, Len(s))
<1>1. Len(s) \in Nat
  OBVIOUS
<1>2. SubSeq(s, m, Len(s)) = <<>> /\ SubSeq(s, n, Len(s)) = <<>>
  BY <1>1
<1> QED
  BY <1>2

\* How many lines Respond drops after the headers.
Dropped(lines) ==
  LET n == HeaderCount(lines)
      most == IF n > 0 THEN 1 ELSE 2
  IN  IF n + most <= Len(lines) THEN most ELSE Len(lines) - n

\* What Respond takes for the body is all that follows these lines.
LEMMA BodyIsRest ==
  ASSUME NEW lines \in Seq(Lines)
  PROVE  /\ Dropped(lines) \in 0 .. Len(lines)
         /\ Dropped(lines) <= IF HeaderCount(lines) > 0 THEN 1 ELSE 2
         /\ HeaderCount(lines) + Dropped(lines) <= Len(lines)
         /\ SubSeq(lines, Offset(lines) + 3, Len(lines))
              = SubSeq(lines, HeaderCount(lines) + Dropped(lines) + 1, Len(lines))
<1> DEFINE n == HeaderCount(lines)
           most == IF n > 0 THEN 1 ELSE 2
           from == Offset(lines) + 3
           back == n + Dropped(lines) + 1
<1>1. n \in 0 .. Len(lines) /\ Len(lines) \in Nat
  BY HeadersEnd
<1>2. Dropped(lines) = IF n + most <= Len(lines) THEN most ELSE Len(lines) - n
  BY DEF Dropped
<1>3. from = n + most + 1
  BY <1>1 DEF Offset
<1>4. from = back \/ (from \in Nat /\ back \in Nat /\ from > Len(lines) /\ back > Len(lines))
  BY <1>1, <1>2, <1>3
<1>5. SubSeq(lines, from, Len(lines)) = SubSeq(lines, back, Len(lines))
  <2>1. CASE from = back
    BY <2>1
  <2>2. CASE from \in Nat /\ back \in Nat /\ from > Len(lines) /\ back > Len(lines)
    BY <2>2, NothingBeyond
  <2> QED
    BY <1>4, <2>1, <2>2
<1>6. /\ Dropped(lines) \in 0 .. Len(lines)
      /\ Dropped(lines) <= most
      /\ n + Dropped(lines) <= Len(lines)
  BY <1>1, <1>2
<1> QED
  BY <1>5, <1>6, Zenon

\* A reply is taken apart as LinesKept says.
LEMMA RespondKeepsLines ==
  ASSUME NEW lines \in Replies, Respond(lines)
  PROVE  LinesKept'
<1> DEFINE n == HeaderCount(lines)
           lost == Dropped(lines)
<1>1. lines \in Seq(Lines)
  BY ProxyAssumption
<1>2. /\ reply' = lines
      /\ headers' = Parsed(SubSeq(lines, 1, n))
      /\ body' = SubSeq(lines, Offset(lines) + 3, Len(lines))
  BY DEF Respond
<1>3. /\ n \in 0 .. Len(lines)
      /\ \A i \in 1 .. n : lines[i] \in HeaderLines
      /\ n = Len(lines) \/ lines[n + 1] \notin HeaderLines
  BY <1>1, HeadersEnd
<1>4. /\ lost \in 0 .. Len(lines)
      /\ lost <= IF n > 0 THEN 1 ELSE 2
      /\ n + lost <= Len(lines)
      /\ body' = SubSeq(lines, n + lost + 1, Len(lines))
  BY <1>1, <1>2, BodyIsRest
<1>5. n \in 0 .. Len(reply') /\ lost \in 0 .. Len(reply')
  BY <1>2, <1>3, <1>4
<1> HIDE DEF n, lost
<1>6. \E k, d \in 0 .. Len(reply') :
        /\ d <= IF k > 0 THEN 1 ELSE 2
        /\ k + d <= Len(reply')
        /\ \A i \in 1 .. k : reply'[i] \in HeaderLines
        /\ k = Len(reply') \/ reply'[k + 1] \notin HeaderLines
        /\ headers' = Parsed(SubSeq(reply', 1, k))
        /\ body' = SubSeq(reply', k + d + 1, Len(reply'))
  BY <1>2, <1>3, <1>4, <1>5, Zenon
<1> QED
  BY <1>6 DEF LinesKept

\* While php-cgi is being started it does not count as started, so that a forced
\* restart kills none that does.
CgiInv ==
  /\ proxyAt \in {"start", "launch"} => ~is_start_php_cgi
  /\ ProxyServes
  /\ LinesKept

LEMMA CgiInit == ProxyInit => CgiInv
BY DEF ProxyInit, CgiInv, ProxyServes, LinesKept

\* A step that leaves the last reply alone.
LEMMA SameReply == LinesKept /\ UNCHANGED replyVars => LinesKept'
BY DEF replyVars, LinesKept

LEMMA CgiStep == CgiInv /\ [ProxyNext]_proxyVars => CgiInv'
<1> SUFFICES ASSUME CgiInv, [ProxyNext]_proxyVars PROVE CgiInv'
  OBVIOUS
<1>1. CASE CgiDies
  BY <1>1, SameReply DEF CgiDies, CgiInv, ProxyServes
<1>2. CASE UserStarts
  BY <1>2, SameReply DEF UserStarts, CgiInv, ProxyServes
<1>3. CASE TryStartPhpCgi
  BY <1>3 DEF TryStartPhpCgi, CgiInv, ProxyServes, LinesKept
<1>4. CASE ForceRestart
  BY <1>4, SameReply DEF ForceRestart, CgiInv, ProxyServes
<1>5. ASSUME NEW outcome \in Launches, Launch(outcome) PROVE CgiInv'
  <2>1. owner' = "nobody" => goneBy' # "kill"
    BY <1>5 DEF Launch
  <2> QED
    BY <1>5, <2>1, SameReply DEF Launch, CgiInv, ProxyServes
<1>6. ASSUME NEW lines \in Replies, Respond(lines) PROVE CgiInv'
  BY <1>6, RespondKeepsLines DEF Respond, CgiInv, ProxyServes
<1>7. CASE Fail
  BY <1>7 DEF Fail, CgiInv, ProxyServes, LinesKept
<1>8. CASE ProxyRest \/ UNCHANGED proxyVars
  <2>1. UNCHANGED <<is_start_php_cgi, proxyAt, owner, goneBy, replyVars>>
    BY <1>8 DEF ProxyRest, proxyVars
  <2> QED
    BY <2>1, SameReply DEF CgiInv, ProxyServes
<1> QED
  BY <1>1, <1>2, <1>3, <1>4, <1>5, <1>6, <1>7, <1>8 DEF ProxyNext, Proxy

\* The proxy never kills the php-cgi that it counts as started.
THEOREM ProxyKillsNoneStarted == ProxySpec => []ProxyServes
<1>1. CgiInv => ProxyServes
  BY DEF CgiInv
<1> QED
  BY <1>1, CgiInit, CgiStep, PTL DEF ProxySpec

\* Any reply, with headers or without and whatever STDERR added to it, is taken
\* apart with the loss of one line after its headers, or of two lines.
THEOREM RepliesAreKept == ProxySpec => []LinesKept
<1>1. CgiInv => LinesKept
  BY DEF CgiInv
<1> QED
  BY <1>1, CgiInit, CgiStep, PTL DEF ProxySpec

-----------------------------------------------------------------------------
(* HTTP responses.                                                         *)

\* What parserOutResult posts is what it makes of the response and the method.
FramedInv ==
  /\ wrapperAt \in {"output", "posted"} => httpResponse \in Responses
  /\ wrapperAt = "posted" => length = Length /\ postedBody = Contents

LEMMA FramedInit == WrapperInit => FramedInv
BY DEF WrapperInit, FramedInv

LEMMA FramedStep == FramedInv /\ [WrapperNext]_wrapperVars => FramedInv'
<1> SUFFICES ASSUME FramedInv, [WrapperNext]_wrapperVars PROVE FramedInv'
  OBVIOUS
<1>1. CASE CreateHttpRequest
  BY <1>1 DEF CreateHttpRequest, FramedInv
<1>2. ASSUME NEW r \in Responses, Handle(r) PROVE FramedInv'
  BY <1>2 DEF Handle, FramedInv
<1>3. CASE ParserOutResult
  BY <1>3 DEF ParserOutResult, FramedInv, Length, SizeHeader, Contents, Unframed, Bodiless
<1>4. CASE WrapperRest \/ UNCHANGED wrapperVars
  BY <1>4 DEF WrapperRest, wrapperVars, outVars, FramedInv, Length, SizeHeader, Contents,
              Unframed, Bodiless
<1> QED
  BY <1>1, <1>2, <1>3, <1>4 DEF WrapperNext

\* For any status code and method, and any body: one that is whole is sent with its
\* length, and only certain responses are sent without one.
THEOREM LengthsAreBodies == WrapperSpec => []LengthIsBody
<1>1. FramedInv => LengthIsBody
  <2> SUFFICES ASSUME FramedInv, wrapperAt = "posted" PROVE LengthIsBody
    BY DEF LengthIsBody
  <2>1. /\ httpResponse.code \in Int /\ httpResponse.size \in Nat
        /\ httpResponse.position \in Nat /\ httpResponse.position <= httpResponse.size
    BY WrapperAssumption DEF FramedInv, Responses
  <2>2. length = Length /\ postedBody = Contents
    BY DEF FramedInv
  <2> QED
    BY <2>1, <2>2 DEF LengthIsBody, WholeBody, Length, SizeHeader, Contents, Unframed,
                      Bodiless, NoLength, EmptyLength
<1> QED
  BY <1>1, FramedInit, FramedStep, PTL DEF WrapperSpec
=============================================================================
