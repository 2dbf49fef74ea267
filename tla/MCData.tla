------------------------------- MODULE MCData -------------------------------
(* The data structures: the ring queue of a pool, driven by its operations,  *)
(* and the two wire formats, which are pure functions: before the first      *)
(* operation of the ring a sample of their inputs may be drawn, and the      *)
(* properties below are about the sample.                                    *)
EXTENDS RingQueue, TLC

CONSTANTS Base, MaxPacketSize, BufSize

VARIABLE sample

MySQL == INSTANCE MySQLPackets
Net == INSTANCE Netstring

ElementSymmetry == Permutations(Element)

NoSample == [kind |-> "none"]

\* Both sides of every threshold of the length encoding, for bytes of Base values.
Edges == {0, 1, Base^8 - 1}
           \cup UNION {{e - 1, e, e + 1} : e \in {Base - 5, Base, Base^2, Base^3}}

\* Up to three packets of the longest size and one byte more.
Payloads == {[i \in 1..n |-> 1 + (i % (Base - 1))] : n \in 1 .. 3 * MaxPacketSize + 1}

\* Payloads with digits, separators and the indicator bytes in them, and one
\* long enough for a length of two digits.
Texts == {<< >>, <<49>>, <<Net!Space, Net!Comma>>, <<Net!Colon, 1, 0>>, [i \in 1..11 |-> 50]}
Packs == {Net!NewNetstringFrom(c, p) : c \in {0, 5, 502}, p \in Texts}

Samples ==
    {[kind |-> "ok", rows |-> r, id |-> i, p41 |-> b] :
        r \in Edges, i \in Edges, b \in BOOLEAN}
      \cup {[kind |-> "payload", sqid |-> q, bytes |-> p] :
              q \in {1, Base - 2}, p \in Payloads}
      \cup {[kind |-> "nss", nss |-> n, late |-> l] :
              n \in {<< >>} \cup {<<p>> : p \in Packs} \cup (Packs \X Packs), l \in SUBSET {1, 2}}

DataInit == NewQueue /\ sample = NoSample
Draw == /\ sample = NoSample /\ NewQueue
        /\ sample' \in Samples
        /\ UNCHANGED ringVars
Operate == sample = NoSample /\ RingNext /\ UNCHANGED sample
Return == sample # NoSample /\ sample' = NoSample /\ UNCHANGED ringVars
DataNext == Draw \/ Return \/ Operate
DataSpec == DataInit /\ [][DataNext]_<<ringVars, sample>>

\* A length-encoded integer reads back as written, at every width and on both
\* sides of the thresholds, and the reader stops exactly where the writer did
\* (WriteLenEncInt, ReadLenEncInt); OKPacket reserves exactly the bytes its
\* integers take (calculateLenEnc): it never runs out of room, whatever the row
\* count and the insert id, and both read back.
OKRoundTrip ==
    sample.kind = "ok" =>
        /\ MySQL!LenEncReadsBack(sample.rows)
        /\ MySQL!OKReadsBack(sample.rows, sample.id, sample.p41, <<1, 2>>)

\* A payload of any length, cut by WritePacket into packets no longer than
\* MAX_PACKET_SIZE, is put together again by the reader of the stream, packet
\* after packet, numbered on from the first and with no byte left over.
SplitReassembles == sample.kind = "payload" => MySQL!Reassembles(sample.sqid, sample.bytes)

\* What is written as null-terminated, fixed-length or final string, or as the
\* fields of an error packet, reads back where it was written, whatever the
\* error code and the length (WriteString, ReadString, ERRPacket).
StringRoundTrip ==
    sample.kind = "payload" => MySQL!StringsReadBack(sample.sqid + Base, sample.bytes)

\* Netstring requests back to back on the client's socket are read as they were
\* built, whether or not they carry a payload and whatever bytes it holds.  A
\* comma that the network delivers late stays in the socket (the loop of
\* NewInitNetstring is content without it): the reader then fails on it, and
\* never reads a request that was not sent (NewNetstringFrom, NewInitNetstring).
InitStreamExact ==
    sample.kind = "nss" =>
        Net!ReadsBack(sample.nss, sample.late \cap DOMAIN sample.nss)

\* A composite carries the packets it was made of: its payload is their bytes,
\* a reader of the composite recovers command 0 and exactly that payload, and
\* its first packet comes out of it unharmed (NewNetstringEmbedded, NewNetstring,
\* SubNetstrings).  That the others do not come out is the subject of SplitsAll.
EmbeddedExact ==
    sample.kind = "nss" =>
        /\ Net!EmbedsWhole(sample.nss)
        /\ sample.nss # << >> => Net!Split(sample.nss)[1] = sample.nss[1]

\* "SubNetstrings parses the embedded Netstrings" (netstring.go:239), and
\* "Expected 3 sub-netstrings" (netstring_test.go:121) of a composite of three:
\* every packet of a composite comes out of it, in order.
SplitsAll == sample.kind = "nss" => Net!Split(sample.nss) = sample.nss
=============================================================================
