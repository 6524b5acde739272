--------------------------- MODULE FastCgiRecords ---------------------------
(***************************************************************************)
(* The wire format of the FastCGI client: how client.php cuts a stream      *)
(* into packets, announces their lengths in 16 bits, and writes and reads  *)
(* the lengths of name-value pairs.  A string is its length.               *)
(***************************************************************************)
EXTENDS Integers, Sequences

CONSTANT Lengths   \* lengths of a stream, a name and a value

ASSUME LengthsAssumption == Lengths \subseteq Nat

VARIABLES
  total,    \* the length of the stream that buildPacket cuts
  offset,   \* how much of it is in packets
  packets,  \* announced and real length of each packet
  nlen,     \* the length of a name
  vlen      \* the length of its value

recordsVars == <<total, offset, packets, nlen, vlen>>

\* The least number that does not fit in 24 bits.
TooLong == 16777216

\* chr(($n >> $k) & 0xFF), for a shift by as many bits as unit has.
Byte(n, unit) == (n \div unit) % 256

-----------------------------------------------------------------------------
(* Packets.                                                                *)

\* Mutant of MaxPart: one more than the length of a packet can say.
MaxPartTooLong == 65536

\* Packets can be a maximum of 65535 bytes, with a header of 8.
MaxPart == 65535 - 8

\* The length of the next part.
Part == IF total - offset > MaxPart THEN MaxPart ELSE total - offset

\* The length as decodePacketHeader reads it back.
Announced(len) == Byte(len, 256) * 256 + Byte(len, 1)

RecordsInit ==
  /\ total \in Lengths
  /\ nlen \in Lengths
  /\ vlen \in Lengths
  /\ offset = 0
  /\ packets = <<>>

\* The condition of the do-while loop: it runs once at least.
Complete == packets # <<>> /\ offset >= total

\* One turn of the loop of buildPacket.
BuildPart ==
  /\ ~Complete
  /\ packets' = Append(packets, [announced |-> Announced(Part), part |-> Part])
  /\ offset' = offset + Part
  /\ UNCHANGED <<total, nlen, vlen>>

\* The stream is written.
RecordsRest == Complete /\ UNCHANGED recordsVars

RecordsNext == BuildPart \/ RecordsRest

RecordsSpec == RecordsInit /\ [][RecordsNext]_recordsVars

-----------------------------------------------------------------------------
(* Name-value pairs.                                                       *)

\* One byte below 128; otherwise four, the first with its high bit set.
LengthBytes(n) ==
  IF n < 128
    THEN <<n>>
    ELSE <<Byte(n, TooLong) + 128, Byte(n, 65536), Byte(n, 256), Byte(n, 1)>>

\* buildNvpair, up to the data.
buildNvpair(n, v) == LengthBytes(n) \o LengthBytes(v)

\* How many bytes the length takes, and the length itself.  The shift of the
\* mask binds tighter than the mask: the top byte of a long length is dropped,
\* for the value it is taken from the length of the name, where it is 0 too.
LengthAt(data, p) ==
  IF data[p] < 128
    THEN [size |-> 1, len |-> data[p]]
    ELSE [size |-> 4, len |-> data[p + 1] * 65536 + data[p + 2] * 256 + data[p + 3]]

\* readNvpair, up to the data.
readNvpair(data) ==
  LET name  == LengthAt(data, 1)
      value == LengthAt(data, 1 + name.size)
  IN  <<name.len, value.len>>

-----------------------------------------------------------------------------
(* Properties.                                                             *)

\* The other side gets the whole stream back from the announced lengths, and
\* reads an empty packet, which ends a stream, for the empty stream only.
\* Lengths of names and values of up to 24 bits survive being written and read.
StreamReadsBack ==
  /\ \A i \in DOMAIN packets :
       /\ packets[i].announced = packets[i].part
       /\ packets[i].announced = 0 <=> total = 0
  /\ Complete => offset = total /\ packets # <<>>
  /\ nlen < TooLong /\ vlen < TooLong =>
       readNvpair(buildNvpair(nlen, vlen)) = <<nlen, vlen>>
=============================================================================
