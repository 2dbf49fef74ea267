---------------------------- MODULE MySQLPackets ----------------------------
(***************************************************************************)
(* The MySQL wire format (src/utility/encoding/mysqlpackets): fixed-length  *)
(* and length-encoded integers, strings, and packets with their four-byte   *)
(* header, written into and read from byte buffers.                         *)
(*                                                                          *)
(* A byte is 0..Base-1 (Base is 256 in the code; a smaller base keeps the   *)
(* eight-byte integers within the integers of the model checker, and moves  *)
(* the thresholds and markers with it).  A buffer being written is a record *)
(* w = [data, pos], pos being the zero-based position of the code; log.Fatal *)
(* and an index out of range end the process and are the buffer Fatal.      *)
(***************************************************************************)
EXTENDS Integers, Sequences, SequencesExt

CONSTANTS Base,            \* values of one byte
          MaxPacketSize    \* MAX_PACKET_SIZE, the longest payload of one packet

HEADER_SIZE == 4
FixedWidths == {1, 2, 3, 4, 6, 8}
Fatal == [data |-> << >>, pos |-> -1]

Zeros(n) == [i \in 1..n |-> 0]
Buffer(n) == [data |-> Zeros(n), pos |-> 0]
Room(w) == Len(w.data) - w.pos
Skip(s, n) == SubSeq(s, n + 1, Len(s))

\* Bytes at and after the position are overwritten and the position moves on.
Put(w, bytes) ==
    IF w = Fatal \/ Room(w) < Len(bytes) THEN Fatal
    ELSE [data |-> [i \in 1..Len(w.data) |->
                      IF i \in w.pos + 1 .. w.pos + Len(bytes)
                      THEN bytes[i - w.pos] ELSE w.data[i]],
          pos |-> w.pos + Len(bytes)]

-----------------------------------------------------------------------------
(* Integers *)

WriteFixedLenInt(w, l, n) ==
    IF l \notin FixedWidths THEN Fatal
    ELSE Put(w, [i \in 1..l |-> (n \div Base^(i - 1)) % Base])

\* What ReadFixedLenInt returns, and the position it leaves.
ReadFixedLenInt(data, l, pos) ==
    IF Len(data) - pos < l THEN [n |-> -1, pos |-> -1]
    ELSE LET value[i \in 0..l] ==
                 IF i = 0 THEN 0
                 ELSE value[i - 1] + data[pos + i] * Base^(i - 1)
         IN  [n |-> value[l], pos |-> pos + l]

\* 251 in the code: the values above it, but for the null marker, announce a width.
SmallLimit == Base - 5
Marker(l) == CASE l = 3 -> Base - 4 [] l = 4 -> Base - 3 [] l = 9 -> Base - 2

calculateLenEnc(n) ==
    CASE n < SmallLimit -> 1
      [] n >= SmallLimit /\ n < Base^2 -> 3
      [] n >= Base^2 /\ n < Base^3 -> 4
      [] OTHER -> 9

WriteLenEncInt(w, n) ==
    LET l == calculateLenEnc(n)
    IN  IF l = 1 THEN WriteFixedLenInt(w, 1, n)
        ELSE WriteFixedLenInt(Put(w, <<Marker(l)>>), l - 1, n)

ReadLenEncInt(data, pos) ==
    LET fb == data[pos + 1]
    IN  CASE fb < SmallLimit -> ReadFixedLenInt(data, 1, pos)
          [] fb = Marker(3)  -> ReadFixedLenInt(data, 2, pos + 1)
          [] fb = Marker(4)  -> ReadFixedLenInt(data, 3, pos + 1)
          [] OTHER           -> ReadFixedLenInt(data, 8, pos + 1)

-----------------------------------------------------------------------------
(* Strings and response payloads *)

Upto(n, max) == IF n < max THEN n ELSE max

\* copy(data[pos:], str) takes what fits; the position then moves by n.
Copy(w, str, n) ==
    IF w = Fatal THEN Fatal
    ELSE [Put(w, SubSeq(str, 1, Upto(Len(str), Room(w)))) EXCEPT !.pos = w.pos + n]

\* FIXEDSTR slices data[pos:pos+l]; it is also what LENENCSTR ends with, with
\* the l it was given and not with the length of the string.
WriteFixed(w, str, l) ==
    IF w = Fatal \/ Room(w) < l THEN Fatal
    ELSE Copy(w, SubSeq(str, 1, Upto(Len(str), l)), l)

WriteNullOpen(w, str) == Copy(w, str, Len(str))
WriteNull(w, str) == Put(Copy(w, str, Len(str)), <<0>>)

WriteString(w, str, stype, l) ==
    CASE stype = "NULLSTR"   -> WriteNull(w, str)
      [] stype = "LENENCSTR" -> WriteFixed(WriteLenEncInt(w, Len(str)), str, l)
      [] stype = "FIXEDSTR"  -> WriteFixed(w, str, l)
      [] stype = "EOFSTR"    -> Copy(w, str, Upto(Len(str), Room(w)))
      [] OTHER               -> w

\* n bytes from the position, zeros past the end of the data.
Bytes(data, pos, n) == [i \in 1..n |-> IF pos + i <= Len(data) THEN data[pos + i] ELSE 0]

\* NULLSTR keeps the terminator; LENENCSTR skips one byte of length, however
\* many the length took, and moves by the string alone; VARSTR has no branch.
ReadString(data, stype, pos, l) ==
    LET zeros == {i \in pos + 1 .. Len(data) : data[i] = 0}
        end == CHOOSE i \in zeros : \A j \in zeros : i <= j
        enc == ReadLenEncInt(data, pos)
    IN  CASE stype = "NULLSTR" /\ zeros = {} -> [str |-> << >>, pos |-> -1]
          [] stype = "NULLSTR" /\ zeros # {} ->
                 [str |-> SubSeq(data, pos + 1, end), pos |-> end]
          [] stype = "LENENCSTR" /\ enc.n = 0 -> [str |-> << >>, pos |-> enc.pos]
          [] stype = "LENENCSTR" /\ enc.n # 0 ->
                 [str |-> Bytes(data, pos + 1, enc.n), pos |-> enc.pos + enc.n]
          [] stype \in {"FIXEDSTR", "EOFSTR"} ->
                 [str |-> Bytes(data, pos, l), pos |-> pos + l]
          [] OTHER -> [str |-> << >>, pos |-> pos]

OKLengthShort(affectedRows, lastInsertId, protocol41) ==
    1 + calculateLenEnc(affectedRows) + 1 + (IF protocol41 THEN 4 ELSE 0)
OKLength(affectedRows, lastInsertId, protocol41) ==
    1 + calculateLenEnc(affectedRows) + calculateLenEnc(lastInsertId)
      + (IF protocol41 THEN 4 ELSE 0)
OKPacket(affectedRows, lastInsertId, protocol41, msg) ==
    LET w1 == WriteFixedLenInt(Buffer(OKLength(affectedRows, lastInsertId, protocol41)), 1, 0)
        w2 == WriteLenEncInt(w1, affectedRows)
        w3 == WriteLenEncInt(w2, lastInsertId)
        w4 == IF protocol41
              THEN WriteFixedLenInt(WriteFixedLenInt(w3, 2, 0), 2, 0) ELSE w3
    IN  WriteString(w4, msg, "EOFSTR", 0)

ERRPacket(errcode, msg) ==
    LET w1 == WriteFixedLenInt(Buffer(3 + Len(msg)), 1, Base - 1)
        w2 == WriteFixedLenInt(w1, 2, errcode)
    IN  WriteString(w2, msg, "EOFSTR", 0)

-----------------------------------------------------------------------------
(* Packets.  A packet is [cmd, sqid, payload, serialized]; serialized begins *)
(* with the indicator byte 0 that the client's socket does not carry.        *)

Empty == [cmd |-> 0, sqid |-> 0, payload |-> << >>, serialized |-> << >>]

NewMySQLPacketFrom(sqid, payload) ==
    IF payload = << >> THEN Empty
    ELSE LET w1 == [data |-> Zeros(HEADER_SIZE + Len(payload) + 1), pos |-> 1]
             w2 == WriteFixedLenInt(w1, 3, Len(payload))
             w3 == WriteFixedLenInt(w2, 1, sqid)
         IN  [cmd |-> payload[1], sqid |-> sqid, payload |-> payload,
              serialized |-> Put(w3, payload).data]

\* One payload as the packets that carry it, numbered on from sqid.
Chunk(payload, i) ==
    SubSeq(payload, (i - 1) * MaxPacketSize + 1, Upto(i * MaxPacketSize, Len(payload)))
WritePacketUncounted(sqid, payload) ==
    [i \in 1 .. (Len(payload) + MaxPacketSize - 1) \div MaxPacketSize |->
        NewMySQLPacketFrom(sqid, Chunk(payload, i))]
WritePacket(sqid, payload) ==
    [i \in 1 .. (Len(payload) + MaxPacketSize - 1) \div MaxPacketSize |->
        NewMySQLPacketFrom(sqid + i - 1, Chunk(payload, i))]

\* What a read leaves: the packet, the bytes still in the stream, and how it
\* ended: "ok", "nil" (no packet and no error), "eof", "wrong", "unknown" or
\* "panic" (index out of range).
Read(err, packet, rest) == [err |-> err, packet |-> packet, rest |-> rest]

\* The common part: header and payload, the header's single Read having
\* returned its first h bytes only (its count and its error are not looked at).
ReadBody(src, h) ==
    LET got == Upto(h, Len(src))
        tmp == [i \in 1..HEADER_SIZE |-> IF i <= got THEN src[i] ELSE 0]
        length == ReadFixedLenInt(tmp, 3, 0).n
        sqid == ReadFixedLenInt(tmp, 1, 3).n
        body == Skip(src, got)
        payload == SubSeq(body, 1, length)
    IN  CASE length > Len(body) -> Read("eof", Empty, << >>)
          [] length = 0         -> Read("panic", Empty, body)
          [] OTHER -> Read("ok", [cmd |-> payload[1], sqid |-> sqid, payload |-> payload,
                                  serialized |-> <<0>> \o tmp \o payload],
                           Skip(body, length))

NewInitSQLPacket(src, h) ==
    LET r == ReadBody(src, h)
    IN  IF r.err = "panic" THEN [r EXCEPT !.err = "nil"] ELSE r

NewMySQLPacket(src, h) ==
    CASE src = << >>       -> ReadBody(src, h)
      [] src # << >> /\ src[1] = 0 -> ReadBody(Skip(src, 1), h)
      [] src # << >> /\ src[1] = 1 -> Read("wrong", Empty, Skip(src, 1))
      [] OTHER             -> Read("unknown", Empty, Skip(src, 1))

\* The packets that consecutive reads take from a stream, and what is left.
Packets(src) ==
    LET take[n \in 0..Len(src)] ==
            IF n = 0 THEN [packets |-> << >>, rest |-> src]
            ELSE LET p == take[n - 1]
                     r == NewMySQLPacket(p.rest, HEADER_SIZE)
                 IN  IF p.rest = << >> \/ r.err # "ok" THEN p
                     ELSE [packets |-> Append(p.packets, r.packet), rest |-> r.rest]
    IN  take[Len(src)]

-----------------------------------------------------------------------------
(* What a reader makes of what was written *)

\* The integer reads back, and the reader stops where the writer did.
LenEncReadsBack(n) ==
    LET w == WriteLenEncInt(Buffer(9), n)
        r == ReadLenEncInt(w.data, 0)
    IN  r.n = n /\ r.pos = w.pos

\* Room for the integers was reserved exactly, and both read back.
OKReadsBack(rows, id, p41, msg) ==
    LET w == OKPacket(rows, id, p41, msg)
        r1 == ReadLenEncInt(w.data, 1)
        r2 == ReadLenEncInt(w.data, r1.pos)
    IN  w # Fatal /\ r1.n = rows /\ r2.n = id
          /\ r2.pos = Len(w.data) - (IF p41 THEN 4 ELSE 0)

\* An error packet, and a null-terminated, a fixed-length and a final string one
\* after the other, are read back field by field, each where the last ended.
StringsReadBack(code, str) ==
    LET e == ERRPacket(code, str).data
        w1 == WriteString(Buffer(3 * Len(str) + 3), str, "NULLSTR", 0)
        w2 == WriteString(w1, str, "FIXEDSTR", Len(str) + 2)
        w3 == WriteString(w2, str, "EOFSTR", 0)
        r1 == ReadString(w3.data, "NULLSTR", 0, 0)
        r2 == ReadString(w3.data, "FIXEDSTR", r1.pos, Len(str) + 2)
        r3 == ReadString(w3.data, "EOFSTR", r2.pos, Len(str))
    IN  /\ ReadFixedLenInt(e, 2, 1).n = code /\ ReadString(e, "EOFSTR", 3, Len(str)).str = str
        /\ r1.str = Append(str, 0) /\ r2.str = str \o <<0, 0>> /\ r3.str = str
        /\ r3.pos = w3.pos

\* The payload is put together again from its packets, numbered on from sqid,
\* and no byte is left over.
Reassembles(sqid, payload) ==
    LET sent == WritePacket(sqid, payload)
        got == Packets(FlattenSeq([i \in DOMAIN sent |-> sent[i].serialized]))
    IN  /\ FlattenSeq([i \in DOMAIN got.packets |-> got.packets[i].payload]) = payload
        /\ \A i \in DOMAIN got.packets : got.packets[i].sqid = (sqid + i - 1) % Base
        /\ got.rest = << >>

=============================================================================
