----------------------------- MODULE Netstring -----------------------------
(***************************************************************************)
(* Netstrings (src/utility/encoding/netstring), the framing between the     *)
(* multiplexer and its workers: "<length>:<cmd> <payload>," after an        *)
(* indicator byte 1.  Bytes are their values in the code.  A packet is      *)
(* [cmd, payload, serialized]; NewNetstringEmbedded puts whole packets,     *)
(* indicator bytes included, into the payload of a packet of command 0.     *)
(***************************************************************************)
EXTENDS Integers, Sequences, SequencesExt

CONSTANT BufSize       \* bufio.NewReader's buffer (4096)

Comma == 44
Colon == 58
Space == 32
CodeSubCommand == 48
Digits == 48..57

\* fmt.Sprintf("%d", n)
Decimal[n \in Nat] ==
    IF n < 10 THEN <<48 + n>> ELSE Append(Decimal[n \div 10], 48 + (n % 10))

\* The number a run of digits stands for.
Number(digits) ==
    LET upTo[i \in 0..Len(digits)] ==
            IF i = 0 THEN 0 ELSE upTo[i - 1] * 10 + (digits[i] - 48)
    IN  upTo[Len(digits)]

\* The first position at which a byte of s stops the digits, 0 if none does.
FirstNonDigit(s) ==
    LET stops == {i \in DOMAIN s : s[i] \notin Digits}
    IN  IF stops = {} THEN 0 ELSE CHOOSE i \in stops : \A j \in stops : i <= j

Drop(s, n) == SubSeq(s, n + 1, Len(s))

-----------------------------------------------------------------------------
(* Building packets *)

NewNetstringFrom(cmd, payload) ==
    LET cmdStr == Decimal[cmd]
        str == IF payload = << >>
               THEN Decimal[Len(cmdStr)] \o <<Colon>> \o cmdStr \o <<Comma>>
               ELSE Decimal[Len(payload) + Len(cmdStr) + 1] \o <<Colon>>
                      \o cmdStr \o <<Space>> \o payload \o <<Comma>>
        totalLen == Len(str)
    IN  [cmd |-> cmd, serialized |-> <<1>> \o str,
         payload |-> SubSeq(<<1>> \o str, totalLen - Len(payload) + 1, totalLen)]

Bytes(nss) == FlattenSeq([i \in DOMAIN nss |-> nss[i].serialized])

NewNetstringEmbeddedShifted(nss) ==
    LET inner == Bytes(nss)
        lenStr == Append(Decimal[Len(inner) + 2], Colon)
        totalLen == Len(lenStr) + Len(inner) + 2
        all == <<1>> \o lenStr \o <<CodeSubCommand, Space>> \o inner \o <<Comma>>
    IN  [cmd |-> 0, serialized |-> all,
         payload |-> SubSeq(all, totalLen - Len(inner) + 1, totalLen)]
NewNetstringEmbedded(nss) ==
    LET inner == Bytes(nss)
        lenStr == Append(Decimal[Len(inner) + 2], Colon)
        totalLen == Len(lenStr) + Len(inner) + 2 + 1
        all == <<1>> \o lenStr \o <<CodeSubCommand, Space>> \o inner \o <<Comma>>
    IN  [cmd |-> 0, serialized |-> all,
         payload |-> SubSeq(all, totalLen - Len(inner) + 1, totalLen)]

-----------------------------------------------------------------------------
(* Reading packets *)

NoPacket == [cmd |-> 0, payload |-> << >>, serialized |-> << >>]
Result(err, ns, rest) == [err |-> err, ns |-> ns, rest |-> rest]

\* The bytes taken after the colon, have of them being there.  The last Read asks
\* for the comma too, but the loop is content once the payload is there, and for
\* a length of 0 it does not run at all: "fragmented" says that the Read that
\* completes the payload stopped before the comma.
TakenNoComma(length, have, fragmented) == length
Taken(length, have, fragmented) ==
    IF length = 0 \/ fragmented \/ have = length THEN length ELSE length + 1

\* Length, command and payload, from the bytes after the indicator.
ReadRest(src, fragmented) ==
    LET stop == FirstNonDigit(src)
        length == Number(SubSeq(src, 1, stop - 1))
        body == Drop(src, stop)
        text == SubSeq(body, 1, length)
        last == FirstNonDigit(text)
        cmdLen == IF last = 0 THEN length ELSE last - 1
        taken == Taken(length, Len(body), fragmented)
        tail == IF taken = length + 1 THEN <<body[length + 1]>> ELSE <<0>>
    IN  CASE stop = 0 -> Result("eof", NoPacket, << >>)
          [] stop # 0 /\ src[stop] # Colon -> Result("digit", NoPacket, Drop(src, stop))
          [] stop # 0 /\ src[stop] = Colon /\ Len(body) < length ->
                 Result("eof", NoPacket, << >>)
          [] stop # 0 /\ src[stop] = Colon /\ Len(body) >= length
               /\ last # 0 /\ text[last] # Space ->
                 Result("digit", NoPacket, Drop(body, taken))
          [] OTHER ->
                 Result("ok", [cmd |-> Number(SubSeq(text, 1, cmdLen)),
                               payload |-> Drop(text, cmdLen + 1),
                               serialized |-> <<1>> \o SubSeq(src, 1, stop) \o text \o tail],
                        Drop(body, taken))

\* From the client's socket: no indicator byte, no buffering.
NewInitNetstring(src, fragmented) == ReadRest(src, fragmented)

\* The reader is wrapped in a buffer of this call's own: what the buffer took
\* from the stream beyond the packet is gone when the call returns.  (Packets
\* fit in the buffer here, so it is filled once.)
NewNetstring(src) ==
    LET buffered == SubSeq(src, 1, IF BufSize < Len(src) THEN BufSize ELSE Len(src))
        beyond == Drop(src, BufSize)
        r == ReadRest(Drop(buffered, 1), FALSE)
    IN  CASE src = << >> -> Result("eof", NoPacket, << >>)
          [] src # << >> /\ src[1] = 0 -> Result("wrong", NoPacket, beyond)
          [] src # << >> /\ src[1] = 1 -> Result(r.err, r.ns, beyond)
          [] OTHER -> Result("unknown", NoPacket, beyond)

\* The packets embedded in ns, << >> when one of them cannot be read.
SubNetstrings(ns) ==
    LET take[n \in 0..Len(ns.payload)] ==
            IF n = 0 THEN Result("ok", << >>, ns.payload)
            ELSE LET p == take[n - 1]
                     r == NewNetstring(p.rest)
                 IN  CASE p.err # "ok" -> p
                       [] p.err = "ok" /\ r.err = "ok" ->
                              Result("ok", Append(p.ns, r.ns), r.rest)
                       [] p.err = "ok" /\ r.err = "eof" -> Result("eof", p.ns, << >>)
                       [] OTHER -> Result(r.err, << >>, << >>)
    IN  take[Len(ns.payload)].ns

\* Packets read from the client's socket one after the other until it is empty or
\* a read fails; the commas of the packets in late arrive after their payloads.
InitStream(src, late) ==
    LET take[n \in 0..Len(src)] ==
            IF n = 0 THEN [nss |-> << >>, rest |-> src]
            ELSE LET p == take[n - 1]
                     r == NewInitNetstring(p.rest, n \in late)
                 IN  IF p.rest = << >> \/ r.err # "ok" THEN p
                     ELSE [nss |-> Append(p.nss, r.ns), rest |-> r.rest]
    IN  take[Len(src)]

-----------------------------------------------------------------------------
(* What a reader makes of the packets nss *)

Request(ns) == <<ns.cmd, ns.payload>>

\* Requests on the client's socket are read as they were built, one after the
\* other.  A comma that arrives late is left behind: the reader refuses it when
\* it is asked for the next request, and takes no later byte for a request.
ReadsBack(nss, late) ==
    LET unmarked == [i \in DOMAIN nss |-> Tail(nss[i].serialized)]
        stop == IF late = {} THEN Len(nss) ELSE CHOOSE i \in late : \A j \in late : i <= j
        read == InitStream(FlattenSeq(unmarked), late)
    IN  /\ Len(read.nss) = stop
        /\ \A i \in 1..stop : Request(read.nss[i]) = Request(nss[i])
        /\ \A i \in (1..stop) \ late : read.nss[i] = nss[i]
        /\ IF late = {} THEN read.rest = << >>
           ELSE /\ read.rest = <<Comma>> \o FlattenSeq(Drop(unmarked, stop))
                /\ NewInitNetstring(read.rest, FALSE).err = "digit"

\* The payload of the composite is the bytes of the packets, and a reader of the
\* composite recovers command 0 and exactly that payload.
EmbedsWhole(nss) ==
    LET ns == NewNetstringEmbedded(nss)
        r == NewNetstring(ns.serialized)
    IN  /\ ns.payload = Bytes(nss)
        /\ r.err = "ok" /\ r.ns = ns

\* What the composite is split into.
Split(nss) == SubNetstrings(NewNetstringEmbedded(nss))

=============================================================================
