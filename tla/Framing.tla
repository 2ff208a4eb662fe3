-------------------------------- MODULE Framing --------------------------------
(***************************************************************************)
(* The receiving end of a connection to the bridge                         *)
(* (judge/bridge/base_handler.py): packets preceded by their size, after a *)
(* PROXY line when the connection comes through a proxy.  A recv returns   *)
(* any part of what was asked for; bytes are known by their offset in the  *)
(* stream.                                                                 *)
(***************************************************************************)
EXTENDS Integers, FiniteSetsExt, SequencesExt

CONSTANTS
    SizeLen,        \* size_pack.size.
    HeaderLen,      \* Length of the PROXY line, its end included; it starts with SizeLen bytes of tag.
    HeaderMax,      \* Longest PROXY line: 107.
    MaxPacket,      \* MAX_ALLOWED_PACKET_SIZE.
    PacketEnds      \* Where the packets of the peer end, counted from where the first one begins with its size.

\* What the constants are.
FramingAssumption == /\ {SizeLen, HeaderLen, HeaderMax} \subseteq Nat \ {0} /\ MaxPacket \in Nat
                     /\ SizeLen < HeaderLen /\ PacketEnds \in Seq(Nat)
                     /\ \A k \in DOMAIN PacketEnds : SizeLen < PacketEnds[k]
                     /\ \A j, k \in DOMAIN PacketEnds : j < k => PacketEnds[j] + SizeLen < PacketEnds[k]

VARIABLES
    fr_proxied,     \* The peer is a proxy and sends a PROXY line.
    fr_sent,        \* Bytes that have arrived so far.
    fr_open,        \* The peer has not closed.
    fr_at,          \* Where handle is.
    fr_lo, fr_hi,   \* Offsets of the bytes held: from fr_lo up to, not including, fr_hi.
    fr_size,        \* Size of the packet being read.
    fr_got          \* Packets handed to on_packet: <<offset, length>>.

frvars == <<fr_proxied, fr_sent, fr_open, fr_at, fr_lo, fr_hi, fr_size, fr_got>>

FirstPacket == IF fr_proxied THEN HeaderLen ELSE 0

\* Offset of the payload of packet k and its length, and the packets the peer sends.
EndBefore(k) == IF k = 1 THEN 0 ELSE PacketEnds[k - 1]
OffsetOf(k) == FirstPacket + EndBefore(k) + SizeLen
PacketLen(k) == PacketEnds[k] - EndBefore(k) - SizeLen
Sent == [k \in DOMAIN PacketEnds |-> <<OffsetOf(k), PacketLen(k)>>]
StreamLen == FirstPacket + EndBefore(Len(PacketEnds) + 1)

\* What the bytes at an offset say as a size; 1 stands for whatever other bytes say.
SizeAt(o) == IF \E k \in DOMAIN PacketEnds : OffsetOf(k) = o + SizeLen
             THEN PacketLen(CHOOSE k \in DOMAIN PacketEnds : OffsetOf(k) = o + SizeLen)
             ELSE 1

Held == fr_hi - fr_lo

FrInit ==
    /\ fr_proxied \in BOOLEAN
    /\ fr_sent = 0 /\ fr_open = TRUE
    /\ fr_at = "tag"
    /\ fr_lo = 0 /\ fr_hi = 0 /\ fr_size = 0
    /\ fr_got = <<>>

Arrive == /\ fr_open /\ fr_sent < StreamLen /\ fr_at \notin {"dropped", "crashed"}
          /\ fr_sent' = fr_sent + 1
          /\ UNCHANGED <<fr_proxied, fr_open, fr_at, fr_lo, fr_hi, fr_size, fr_got>>

PeerCloses == /\ fr_open
              /\ fr_open' = FALSE
              /\ UNCHANGED <<fr_proxied, fr_sent, fr_at, fr_lo, fr_hi, fr_size, fr_got>>

\* recv(n) returns at least one byte and at most n of those that have arrived.
Recv(n) == fr_hi' \in fr_hi + 1 .. Min({fr_hi + n, fr_sent})
NothingLeft == ~fr_open /\ fr_hi = fr_sent

Goto(at) == fr_at' = at

-----------------------------------------------------------------------------
(* read_size: the tag, the size of a packet, or the rest of a size of which *)
(* the first bytes came along with the PROXY line.                         *)

Sizing == fr_at \in {"tag", "size", "short"}

ReadSize ==
    /\ Sizing /\ Held < SizeLen
    /\ IF NothingLeft THEN Goto("dropped") /\ UNCHANGED fr_hi
                      ELSE Recv(SizeLen - Held) /\ UNCHANGED fr_at
    /\ UNCHANGED <<fr_proxied, fr_sent, fr_open, fr_lo, fr_size, fr_got>>

\* The tag is a size, unless a proxy sent it.
GotTag ==
    /\ fr_at = "tag" /\ fr_proxied /\ Held = SizeLen
    /\ Goto("header")
    /\ UNCHANGED <<fr_proxied, fr_sent, fr_open, fr_lo, fr_hi, fr_size, fr_got>>

\* read_sized_packet disconnects.
TooLarge(size) == size > MaxPacket

GotSize ==
    /\ Sizing /\ Held = SizeLen /\ ~(fr_at = "tag" /\ fr_proxied)
    /\ IF TooLarge(SizeAt(fr_lo))
       THEN Goto("dropped") /\ UNCHANGED <<fr_lo, fr_size>>
       ELSE /\ Goto(IF fr_at = "short" THEN "shortbody" ELSE "body")
            /\ fr_size' = SizeAt(fr_lo)
            /\ fr_lo' = fr_hi
    /\ UNCHANGED <<fr_proxied, fr_sent, fr_open, fr_hi, fr_got>>

ReadHeader ==
    /\ fr_at = "header" /\ fr_hi < HeaderLen
    /\ IF NothingLeft \/ fr_hi > HeaderMax THEN Goto("dropped") /\ UNCHANGED fr_hi
                                           ELSE Recv(HeaderMax) /\ UNCHANGED fr_at
    /\ UNCHANGED <<fr_proxied, fr_sent, fr_open, fr_lo, fr_size, fr_got>>

GotHeader ==
    /\ fr_at = "header" /\ fr_hi >= HeaderLen
    /\ Goto("rest")
    /\ fr_lo' = HeaderLen
    /\ UNCHANGED <<fr_proxied, fr_sent, fr_open, fr_hi, fr_size, fr_got>>

-----------------------------------------------------------------------------
(* What came along with the PROXY line.                                    *)

\* Mutant: the payload that came along with the line is read again.
DropsRest == fr_lo' = fr_hi

\* The payload received so far is kept.
KeepsRest == fr_lo' = fr_lo + SizeLen

RestEmpty == /\ fr_at = "rest" /\ Held = 0
             /\ Goto("size")
             /\ UNCHANGED <<fr_proxied, fr_sent, fr_open, fr_lo, fr_hi, fr_size, fr_got>>

RestShort == /\ fr_at = "rest" /\ 0 < Held /\ Held < SizeLen
             /\ Goto("short")
             /\ UNCHANGED <<fr_proxied, fr_sent, fr_open, fr_lo, fr_hi, fr_size, fr_got>>

\* A packet that is not complete, or just complete, is read as any other.
RestPartial ==
    /\ fr_at = "rest" /\ Held >= SizeLen /\ Held - SizeLen <= SizeAt(fr_lo)
    /\ IF TooLarge(SizeAt(fr_lo))
       THEN Goto("dropped") /\ UNCHANGED <<fr_lo, fr_size>>
       ELSE Goto("body") /\ fr_size' = SizeAt(fr_lo) /\ KeepsRest
    /\ UNCHANGED <<fr_proxied, fr_sent, fr_open, fr_hi, fr_got>>

\* A whole packet is not held against the limit.
RestWhole ==
    /\ fr_at = "rest" /\ Held >= SizeLen /\ Held - SizeLen > SizeAt(fr_lo)
    /\ fr_got' = Append(fr_got, <<fr_lo + SizeLen, SizeAt(fr_lo)>>)
    /\ fr_lo' = fr_lo + SizeLen + SizeAt(fr_lo)
    /\ UNCHANGED <<fr_proxied, fr_sent, fr_open, fr_at, fr_hi, fr_size>>

-----------------------------------------------------------------------------
(* read_sized_packet.                                                      *)

Reading == fr_at \in {"body", "shortbody"}

\* The end of the stream is not noticed: recv goes on returning nothing.
ReadBody ==
    /\ Reading /\ Held < fr_size /\ ~NothingLeft
    /\ Recv(fr_size - Held)
    /\ UNCHANGED <<fr_proxied, fr_sent, fr_open, fr_at, fr_lo, fr_size, fr_got>>

\* After the packet whose size came in two parts, handle unpacks a size from those first
\* bytes again: struct.error, which nothing catches.
GotBody ==
    /\ Reading /\ Held = fr_size
    /\ fr_got' = Append(fr_got, <<fr_lo, fr_size>>)
    /\ fr_lo' = fr_hi
    /\ Goto(IF fr_at = "shortbody" THEN "crashed" ELSE "size")
    /\ UNCHANGED <<fr_proxied, fr_sent, fr_open, fr_hi, fr_size>>

\* Nothing arrives within the timeout of the socket while handle waits in a recv.
TimesOut ==
    /\ fr_open /\ fr_hi = fr_sent
    /\ (Sizing /\ Held < SizeLen) \/ (fr_at = "header" /\ fr_hi < HeaderLen) \/ (Reading /\ Held < fr_size)
    /\ Goto("dropped")
    /\ UNCHANGED <<fr_proxied, fr_sent, fr_open, fr_lo, fr_hi, fr_size, fr_got>>

FrNext == \/ Arrive \/ PeerCloses \/ TimesOut
          \/ ReadSize \/ GotTag \/ GotSize \/ ReadHeader \/ GotHeader
          \/ RestEmpty \/ RestShort \/ RestPartial \/ RestWhole
          \/ ReadBody \/ GotBody

FrSpec == FrInit /\ [][FrNext]_frvars

-----------------------------------------------------------------------------
(* Properties.                                                             *)

\* However the stream is cut, with or without a PROXY line, the packets handed on are those
\* that were sent, whole and in order.
PacketsAreWhole == IsPrefix(fr_got, Sent)

NextIsTooLarge == Len(fr_got) < Len(PacketEnds) /\ PacketLen(Len(fr_got) + 1) > MaxPacket

\* No packet is passed over: between two packets, all bytes read belong to packets handed on;
\* and the connection is given up only when all that arrived has been read, before a packet that
\* is too large, or after a PROXY line that brought the first bytes of a size with it.
NothingIsSkipped ==
    /\ fr_at = "size" /\ Held = 0 =>
         fr_hi = IF fr_got = <<>> THEN FirstPacket ELSE Last(fr_got)[1] + Last(fr_got)[2]
    /\ fr_at = "dropped" => fr_hi = fr_sent \/ HeaderLen > HeaderMax \/ NextIsTooLarge
    /\ fr_at = "crashed" => fr_proxied /\ Len(fr_got) > 0

FramingHolds == PacketsAreWhole /\ NothingIsSkipped
=============================================================================
