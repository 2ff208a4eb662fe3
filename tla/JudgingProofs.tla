--------------------------- MODULE JudgingProofs ---------------------------
(***************************************************************************)
(* What Site says of each of the components around the judges holds for    *)
(* every value of their constants.  Each has its own inductive invariant;  *)
(* they meet in the last theorem.                                          *)
(***************************************************************************)
EXTENDS Site, TLAPS, FiniteSetTheorems, WellFoundedInduction

-----------------------------------------------------------------------------
(* Packets of a connection.                                                *)

FrAts == {"tag", "size", "short", "header", "rest", "body", "shortbody", "dropped", "crashed"}

FramingTypeOK ==
    /\ fr_proxied \in BOOLEAN /\ fr_open \in BOOLEAN
    /\ fr_sent \in Nat /\ fr_lo \in Nat /\ fr_hi \in Nat /\ fr_size \in Nat
    /\ fr_at \in FrAts
    /\ fr_got \in Seq(Nat \X Nat)

\* The packets handed on are the first that were sent.
FirstOnes ==
    /\ Len(fr_got) <= Len(PacketEnds)
    /\ \A k \in 1 .. Len(fr_got) : fr_got[k] = Sent[k]

\* Where the packet begins that is to be handed on next.
NextStart == FirstPacket + EndBefore(Len(fr_got) + 1)

\* What handle has read of it, wherever it is.
ReadSoFar ==
    /\ fr_lo <= fr_hi /\ fr_hi <= fr_sent /\ fr_sent <= StreamLen
    /\ fr_at \in {"tag", "header"} => fr_lo = 0 /\ fr_got = <<>>
    /\ fr_at \in {"header", "rest", "short", "shortbody", "crashed"} => fr_proxied
    /\ fr_at \in {"size", "rest", "short"} => fr_lo = NextStart
    /\ fr_at \in {"tag", "size", "short"} => Held <= SizeLen
    /\ fr_at \in {"body", "shortbody"} =>
          /\ Len(fr_got) < Len(PacketEnds)
          /\ fr_lo = NextStart + SizeLen
          /\ fr_size = PacketLen(Len(fr_got) + 1)
          /\ Held <= fr_size
    /\ fr_at = "dropped" => fr_hi = fr_sent \/ HeaderLen > HeaderMax \/ NextIsTooLarge
    /\ fr_at = "crashed" => Len(fr_got) > 0

FramingInv == FramingTypeOK /\ FirstOnes /\ ReadSoFar

\* Packets follow one another, none is empty, and the stream ends with the last.
LEMMA PacketsFollow ==
    ASSUME FramingAssumption
    PROVE  /\ SizeLen \in Nat \ {0} /\ HeaderLen \in Nat \ {0} /\ HeaderMax \in Nat \ {0} /\ SizeLen < HeaderLen
           /\ Len(PacketEnds) \in Nat /\ DOMAIN PacketEnds = 1 .. Len(PacketEnds)
           /\ \A k \in 1 .. Len(PacketEnds) + 1 : EndBefore(k) \in Nat
           /\ \A k \in 1 .. Len(PacketEnds) : PacketLen(k) \in Nat \ {0}
           /\ \A k \in 1 .. Len(PacketEnds) : EndBefore(k + 1) = EndBefore(k) + SizeLen + PacketLen(k)
           /\ \A j, k \in 1 .. Len(PacketEnds) + 1 : j < k => EndBefore(j) < EndBefore(k)
<1>1. /\ SizeLen \in Nat \ {0} /\ HeaderLen \in Nat \ {0} /\ HeaderMax \in Nat \ {0} /\ SizeLen < HeaderLen
      /\ Len(PacketEnds) \in Nat /\ DOMAIN PacketEnds = 1 .. Len(PacketEnds)
  BY DEF FramingAssumption
<1>2. \A k \in 1 .. Len(PacketEnds) : PacketEnds[k] \in Nat /\ SizeLen < PacketEnds[k]
  BY <1>1 DEF FramingAssumption
<1>3. \A k \in 1 .. Len(PacketEnds) + 1 : EndBefore(k) \in Nat
  BY <1>1, <1>2 DEF EndBefore
<1>4. \A k \in 1 .. Len(PacketEnds) : EndBefore(k + 1) = PacketEnds[k]
  BY <1>1 DEF EndBefore
<1>5. ASSUME NEW k \in 1 .. Len(PacketEnds)
      PROVE  EndBefore(k) + SizeLen < PacketEnds[k]
  <2>1. CASE k = 1
    BY <2>1, <1>1, <1>2 DEF EndBefore
  <2>2. CASE k # 1
    <3>1. k - 1 \in DOMAIN PacketEnds /\ k \in DOMAIN PacketEnds /\ k - 1 < k
      BY <2>2, <1>1
    <3>2. PacketEnds[k - 1] + SizeLen < PacketEnds[k]
      BY <3>1 DEF FramingAssumption
    <3> QED BY <3>2, <2>2 DEF EndBefore
  <2> QED BY <2>1, <2>2
<1>6. \A k \in 1 .. Len(PacketEnds) : PacketLen(k) \in Nat \ {0} /\ EndBefore(k + 1) = EndBefore(k) + SizeLen + PacketLen(k)
  BY <1>1, <1>2, <1>3, <1>4, <1>5 DEF PacketLen
<1>7. ASSUME NEW j \in 1 .. Len(PacketEnds) + 1, NEW k \in 1 .. Len(PacketEnds) + 1, j < k
      PROVE  EndBefore(j) < EndBefore(k)
  <2>1. k - 1 \in 1 .. Len(PacketEnds) /\ EndBefore(k) = PacketEnds[k - 1]
    BY <1>1, <1>7 DEF EndBefore
  <2>2. CASE j = 1
    BY <2>1, <2>2, <1>1, <1>2 DEF EndBefore
  <2>3. CASE j # 1
    <3>1. j - 1 \in 1 .. Len(PacketEnds) /\ j - 1 < k - 1 /\ EndBefore(j) = PacketEnds[j - 1]
      BY <1>1, <1>7, <2>3 DEF EndBefore
    <3>2. PacketEnds[j - 1] + SizeLen < PacketEnds[k - 1]
      BY <3>1, <2>1, <1>1 DEF FramingAssumption
    <3> QED BY <3>1, <3>2, <2>1, <1>1, <1>2
  <2> QED BY <2>2, <2>3
<1> QED
  BY <1>1, <1>3, <1>6, <1>7

\* What stands where a packet begins is its size, and it does not begin at the end.
LEMMA SizeIsThere ==
    ASSUME FramingAssumption, FramingInv,
           NextStart + SizeLen <= StreamLen
    PROVE  /\ Len(fr_got) < Len(PacketEnds)
           /\ SizeAt(NextStart) = PacketLen(Len(fr_got) + 1)
<1> DEFINE n == Len(fr_got)
           N == Len(PacketEnds)
<1>1. n \in Nat /\ N \in Nat /\ n <= N /\ FirstPacket \in Nat /\ SizeLen \in Nat \ {0}
  BY PacketsFollow DEF FramingInv, FramingTypeOK, FirstOnes, FirstPacket
<1>2. n + 1 \in 1 .. N + 1 /\ N + 1 \in 1 .. N + 1
  BY <1>1
<1>3. EndBefore(n + 1) \in Nat /\ EndBefore(N + 1) \in Nat
  BY <1>2, PacketsFollow
<1>4. n < N
  <2>1. EndBefore(n + 1) + SizeLen <= EndBefore(N + 1)
    BY <1>1, <1>3 DEF NextStart, StreamLen
  <2>2. n # N
    BY <2>1, <1>1, <1>3
  <2> QED BY <2>2, <1>1
<1>5. n + 1 \in DOMAIN PacketEnds /\ OffsetOf(n + 1) = NextStart + SizeLen
  BY <1>1, <1>4, PacketsFollow DEF OffsetOf, NextStart
<1>6. ASSUME NEW k \in DOMAIN PacketEnds, OffsetOf(k) = NextStart + SizeLen
      PROVE  k = n + 1
  <2>1. k \in 1 .. N + 1 /\ k \in 1 .. N
    BY <1>1, PacketsFollow
  <2>2. EndBefore(k) \in Nat
    BY <2>1, PacketsFollow
  <2>3. EndBefore(k) = EndBefore(n + 1)
    BY <1>6, <2>2, <1>1, <1>3 DEF OffsetOf, NextStart
  <2>m. \A i, j \in 1 .. N + 1 : i < j => EndBefore(i) < EndBefore(j)
    BY PacketsFollow
  <2>a. k < n + 1 => EndBefore(k) < EndBefore(n + 1)
    BY <2>m, <2>1, <1>2
  <2>b. n + 1 < k => EndBefore(n + 1) < EndBefore(k)
    BY <2>m, <2>1, <1>2
  <2>4. ~(k < n + 1) /\ ~(n + 1 < k)
    BY <2>a, <2>b, <2>3, <1>3
  <2> QED BY <2>1, <2>4, <1>1
<1>7. (CHOOSE k \in DOMAIN PacketEnds : OffsetOf(k) = NextStart + SizeLen) = n + 1
  BY <1>5, <1>6
<1> QED
  BY <1>4, <1>5, <1>7 DEF SizeAt

\* A packet handed on whole is the next one.
LEMMA HandedOn ==
    ASSUME FramingAssumption, FramingInv, Len(fr_got) < Len(PacketEnds), fr_proxied' = fr_proxied,
           fr_got' = Append(fr_got, <<NextStart + SizeLen, PacketLen(Len(fr_got) + 1)>>)
    PROVE  /\ fr_got' \in Seq(Nat \X Nat) /\ FirstOnes' /\ Len(fr_got') = Len(fr_got) + 1
           /\ NextStart' = NextStart + SizeLen + PacketLen(Len(fr_got) + 1)
<1> DEFINE n == Len(fr_got)
<1>1. n \in Nat /\ Len(PacketEnds) \in Nat /\ n + 1 \in 1 .. Len(PacketEnds) /\ n + 1 \in 1 .. Len(PacketEnds) + 1
  BY PacketsFollow DEF FramingInv, FramingTypeOK
<1>2. FirstPacket \in Nat /\ SizeLen \in Nat /\ EndBefore(n + 1) \in Nat /\ PacketLen(n + 1) \in Nat
      /\ EndBefore(n + 1 + 1) = EndBefore(n + 1) + SizeLen + PacketLen(n + 1)
  BY <1>1, PacketsFollow DEF FramingInv, FramingTypeOK, FirstPacket
<1>3. NextStart + SizeLen \in Nat /\ <<NextStart + SizeLen, PacketLen(n + 1)>> \in Nat \X Nat
  BY <1>2 DEF NextStart
<1>4. fr_got' \in Seq(Nat \X Nat) /\ Len(fr_got') = n + 1
      /\ fr_got'[n + 1] = <<NextStart + SizeLen, PacketLen(n + 1)>>
      /\ \A k \in 1 .. n : fr_got'[k] = fr_got[k]
  BY <1>3 DEF FramingInv, FramingTypeOK
<1>5. Sent' = Sent
  BY DEF Sent, OffsetOf, FirstPacket
<1>6. Sent[n + 1] = <<NextStart + SizeLen, PacketLen(n + 1)>>
  BY <1>1, <1>2, PacketsFollow DEF Sent, OffsetOf, NextStart
<1>7. FirstOnes'
  <2>1. ASSUME NEW k \in 1 .. n + 1 PROVE fr_got'[k] = Sent[k]
    <3>1. CASE k = n + 1
      BY <3>1, <1>4, <1>6
    <3>2. CASE k # n + 1
      <4>1. k \in 1 .. n
        BY <3>2, <1>1
      <4> QED BY <4>1, <1>4 DEF FramingInv, FirstOnes
    <3> QED BY <3>1, <3>2
  <2>2. n + 1 <= Len(PacketEnds)
    BY <1>1
  <2> HIDE DEF n
  <2> QED BY <2>1, <2>2, <1>4, <1>5 DEF FirstOnes
<1>8. NextStart' = FirstPacket + EndBefore(n + 1 + 1)
  BY <1>4 DEF NextStart, FirstPacket
<1> QED
  BY <1>2, <1>4, <1>7, <1>8 DEF NextStart

\* recv returns some of what has arrived.
LEMMA RecvIsBounded ==
    ASSUME FramingTypeOK, fr_hi <= fr_sent, NEW n \in Int, Recv(n)
    PROVE  fr_hi' \in Nat /\ fr_hi < fr_hi' /\ fr_hi' <= fr_hi + n /\ fr_hi' <= fr_sent
<1> DEFINE S == {fr_hi + n, fr_sent}
<1>1. \E x \in S : \A y \in S : x <= y
  BY DEF FramingTypeOK
<1>2. Min(S) \in S /\ \A y \in S : Min(S) <= y
  BY <1>1 DEF Min
<1>3. Min(S) \in Int /\ Min(S) <= fr_hi + n /\ Min(S) <= fr_sent
  BY <1>2 DEF FramingTypeOK
<1>4. fr_hi' \in fr_hi + 1 .. Min(S)
  BY DEF Recv
<1> HIDE DEF S
<1> QED
  BY <1>3, <1>4 DEF FramingTypeOK

\* What was received of an object does not go beyond it.
LEMMA NotBeyond ==
    ASSUME NEW lo \in Int, NEW hi \in Int, NEW size \in Int, hi <= size + lo
    PROVE  hi - lo <= size
OBVIOUS

\* Before anything has arrived nothing was read or handed on.
LEMMA FramingInit == FramingAssumption /\ FrInit => FramingInv
<1> SUFFICES ASSUME FramingAssumption, FrInit PROVE FramingInv
  OBVIOUS
<1>1. FramingTypeOK
  BY DEF FrInit, FramingTypeOK, FrAts
<1>2. 1 \in 1 .. Len(PacketEnds) + 1 /\ Len(PacketEnds) + 1 \in 1 .. Len(PacketEnds) + 1 /\ Len(PacketEnds) \in Nat
  BY PacketsFollow
<1>3. FirstOnes
  BY <1>2 DEF FrInit, FirstOnes
<1>4. 0 <= StreamLen
  <2>1. EndBefore(Len(PacketEnds) + 1) \in Nat
    BY <1>2, PacketsFollow
  <2>2. FirstPacket \in Nat
    BY <1>1, PacketsFollow DEF FramingTypeOK, FirstPacket
  <2> QED BY <2>1, <2>2 DEF StreamLen
<1>5. ReadSoFar
  BY <1>4, PacketsFollow DEF FrInit, ReadSoFar, Held
<1> QED
  BY <1>1, <1>3, <1>5 DEF FramingInv

\* Whatever recv returns, and whenever the peer closes or is silent, what was read belongs to the packet
\* that is to be handed on next.
LEMMA FramingStep == FramingAssumption /\ FramingInv /\ [FrNext]_frvars => FramingInv'
<1> SUFFICES ASSUME FramingAssumption, FramingInv, [FrNext]_frvars
             PROVE  FramingInv'
  OBVIOUS
<1> USE DEF FramingInv
<1>p. UNCHANGED fr_proxied => UNCHANGED <<FirstPacket, StreamLen, Sent>>
  BY DEF FirstPacket, StreamLen, Sent, OffsetOf
<1>g. UNCHANGED <<fr_proxied, fr_got>> => FirstOnes' /\ NextStart' = NextStart
  BY <1>p DEF FirstOnes, NextStart
<1>c. SizeLen \in Nat \ {0} /\ HeaderLen \in Nat \ {0} /\ HeaderMax \in Nat \ {0} /\ SizeLen < HeaderLen
  BY PacketsFollow
<1>n. /\ Len(fr_got) \in Nat /\ Len(PacketEnds) \in Nat /\ FirstPacket \in Nat
      /\ NextStart \in Nat /\ StreamLen \in Nat
      /\ Len(fr_got) < Len(PacketEnds) => PacketLen(Len(fr_got) + 1) \in Nat \ {0}
  <2>1. /\ Len(fr_got) \in Nat /\ Len(PacketEnds) \in Nat /\ FirstPacket \in Nat
        /\ Len(fr_got) <= Len(PacketEnds)
    BY PacketsFollow DEF FramingTypeOK, FirstOnes, FirstPacket
  <2>2. Len(fr_got) + 1 \in 1 .. Len(PacketEnds) + 1 /\ Len(PacketEnds) + 1 \in 1 .. Len(PacketEnds) + 1
        /\ (Len(fr_got) < Len(PacketEnds) => Len(fr_got) + 1 \in 1 .. Len(PacketEnds))
    BY <2>1
  <2>3. EndBefore(Len(fr_got) + 1) \in Nat /\ EndBefore(Len(PacketEnds) + 1) \in Nat
    BY <2>2, PacketsFollow
  <2> QED BY <2>1, <2>2, <2>3, PacketsFollow DEF NextStart, StreamLen
<1>b. /\ fr_lo \in Nat /\ fr_hi \in Nat /\ fr_sent \in Nat /\ fr_size \in Nat
      /\ fr_lo <= fr_hi /\ fr_hi <= fr_sent /\ fr_sent <= StreamLen
  BY DEF FramingTypeOK, ReadSoFar
<1>1. CASE Arrive
  <2>1. FramingTypeOK' /\ FirstOnes' /\ NextStart' = NextStart /\ StreamLen' = StreamLen
    BY <1>1, <1>p, <1>g DEF Arrive, FramingTypeOK
  <2>2. ReadSoFar'
    BY <1>1, <2>1, <1>n DEF Arrive, ReadSoFar, FramingTypeOK, Held
  <2> QED BY <2>1, <2>2
<1>2. CASE PeerCloses
  BY <1>2, <1>p, <1>g DEF PeerCloses, FramingTypeOK, ReadSoFar, NextIsTooLarge, Held
<1>3. CASE TimesOut
  <2>1. FramingTypeOK' /\ FirstOnes' /\ NextStart' = NextStart /\ StreamLen' = StreamLen
    BY <1>3, <1>p, <1>g DEF TimesOut, FramingTypeOK, Goto, FrAts
  <2>2. ReadSoFar'
    BY <1>3, <2>1 DEF TimesOut, ReadSoFar, Goto, Held
  <2> QED BY <2>1, <2>2
<1>4. CASE ReadSize
  <2>0. /\ fr_at \in {"tag", "size", "short"} /\ Held < SizeLen
        /\ UNCHANGED <<fr_proxied, fr_sent, fr_open, fr_lo, fr_size, fr_got>>
    BY <1>4 DEF ReadSize, Sizing
  <2>1. CASE NothingLeft
    <3>1. fr_at' = "dropped" /\ fr_hi' = fr_hi /\ fr_hi = fr_sent
      BY <1>4, <2>1 DEF ReadSize, Goto, NothingLeft
    <3> QED BY <2>0, <3>1, <1>p, <1>g DEF FramingTypeOK, FrAts, ReadSoFar
  <2>2. CASE ~NothingLeft
    <3>1. Recv(SizeLen - Held) /\ fr_at' = fr_at
      BY <1>4, <2>2 DEF ReadSize
    <3>2. SizeLen - Held \in Int /\ fr_hi <= fr_sent
      BY <1>c DEF Held, FramingTypeOK, ReadSoFar
    <3>3. fr_hi' \in Nat /\ fr_hi < fr_hi' /\ fr_hi' <= fr_hi + (SizeLen - Held) /\ fr_hi' <= fr_sent
      BY <3>1, <3>2, RecvIsBounded
    <3>4. FramingTypeOK' /\ FirstOnes' /\ NextStart' = NextStart /\ StreamLen' = StreamLen
      BY <2>0, <3>1, <3>3, <1>p, <1>g DEF FramingTypeOK
    <3>5. Held' <= SizeLen /\ fr_lo' <= fr_hi' /\ fr_hi' <= fr_sent' /\ fr_sent' <= StreamLen'
      <4>1. fr_lo' = fr_lo /\ fr_sent' = fr_sent
        BY <2>0
      <4>2. fr_hi' <= fr_hi + (SizeLen - (fr_hi - fr_lo)) /\ fr_hi' \in Nat /\ fr_hi < fr_hi' /\ fr_hi' <= fr_sent
        BY <3>3 DEF Held
      <4>3. fr_hi' - fr_lo <= SizeLen /\ fr_lo <= fr_hi'
        <5>1. fr_hi \in Int /\ fr_lo \in Int /\ SizeLen \in Int /\ fr_hi' \in Int /\ fr_lo <= fr_hi
          BY <4>2, <1>b, <1>c
        <5>2. fr_hi + (SizeLen - (fr_hi - fr_lo)) = SizeLen + fr_lo
          BY <5>1
        <5>3. fr_hi' <= SizeLen + fr_lo
          BY <4>2, <5>2
        <5>4. fr_lo <= fr_hi'
          BY <4>2, <5>1
        <5>5. fr_hi' - fr_lo <= SizeLen
          BY <5>1, <5>3, NotBeyond
        <5> QED BY <5>4, <5>5
      <4> QED BY <4>1, <4>2, <4>3, <3>4, <1>b DEF Held
    <3>6. ReadSoFar'
      BY <2>0, <3>1, <3>4, <3>5 DEF ReadSoFar
    <3> QED BY <3>4, <3>6
  <2> QED BY <2>1, <2>2
<1>5. CASE GotSize
  <2>0. /\ fr_at \in {"tag", "size", "short"} /\ Held = SizeLen
        /\ UNCHANGED <<fr_proxied, fr_sent, fr_open, fr_hi, fr_got>>
    BY <1>5 DEF GotSize, Sizing
  <2>1. fr_lo = NextStart
    <3>1. CASE fr_at = "tag"
      <4>1. fr_lo = 0 /\ Len(fr_got) = 0 /\ ~fr_proxied
        BY <3>1, <1>5 DEF GotSize, ReadSoFar
      <4> QED BY <4>1 DEF NextStart, FirstPacket, EndBefore
    <3>2. CASE fr_at \in {"size", "short"}
      BY <3>2 DEF ReadSoFar
    <3> QED BY <3>1, <3>2, <2>0
  <2>2. fr_hi = NextStart + SizeLen /\ NextStart + SizeLen <= StreamLen
    BY <2>0, <2>1, <1>c, <1>n DEF Held, ReadSoFar, FramingTypeOK
  <2>3. Len(fr_got) < Len(PacketEnds) /\ SizeAt(fr_lo) = PacketLen(Len(fr_got) + 1)
    BY <2>1, <2>2, SizeIsThere
  <2>4. CASE TooLarge(SizeAt(fr_lo))
    <3>1. fr_at' = "dropped" /\ UNCHANGED <<fr_lo, fr_size>>
      BY <1>5, <2>4 DEF GotSize, Goto
    <3>2. NextIsTooLarge'
      BY <2>0, <2>3, <2>4 DEF NextIsTooLarge, TooLarge
    <3> QED BY <2>0, <3>1, <3>2, <1>p, <1>g DEF FramingTypeOK, FrAts, ReadSoFar
  <2>5. CASE ~TooLarge(SizeAt(fr_lo))
    <3>1. /\ fr_at' = IF fr_at = "short" THEN "shortbody" ELSE "body"
          /\ fr_size' = SizeAt(fr_lo) /\ fr_lo' = fr_hi
      BY <1>5, <2>5 DEF GotSize, Goto
    <3>3. fr_hi = NextStart + SizeLen /\ NextStart + SizeLen <= StreamLen
      BY <2>2
    <3>4. Len(fr_got) < Len(PacketEnds) /\ fr_size' = PacketLen(Len(fr_got) + 1)
      BY <3>1, <2>3
    <3>5. FramingTypeOK' /\ FirstOnes' /\ NextStart' = NextStart /\ StreamLen' = StreamLen
      BY <2>0, <3>1, <3>4, <1>n, <1>p, <1>g DEF FramingTypeOK, FrAts
    <3>6. Held' = 0 /\ fr_lo' <= fr_hi'
      BY <2>0, <3>1 DEF Held, FramingTypeOK
    <3>7. ReadSoFar'
      BY <2>0, <3>1, <3>3, <3>4, <3>5, <3>6, <1>n DEF ReadSoFar
    <3> QED BY <3>5, <3>7
  <2> QED BY <2>4, <2>5
<1>t. CASE GotTag
  <2>1. /\ fr_at = "tag" /\ fr_proxied /\ fr_at' = "header"
        /\ UNCHANGED <<fr_proxied, fr_sent, fr_open, fr_lo, fr_hi, fr_size, fr_got>>
    BY <1>t DEF GotTag, Goto
  <2> QED BY <2>1, <1>p, <1>g DEF FramingTypeOK, FrAts, ReadSoFar
<1>6. CASE ReadHeader
  <2>0. /\ fr_at = "header" /\ fr_hi < HeaderLen
        /\ UNCHANGED <<fr_proxied, fr_sent, fr_open, fr_lo, fr_size, fr_got>>
    BY <1>6 DEF ReadHeader
  <2>1. CASE NothingLeft \/ fr_hi > HeaderMax
    <3>1. fr_at' = "dropped" /\ fr_hi' = fr_hi /\ (fr_hi = fr_sent \/ HeaderLen > HeaderMax)
      BY <1>6, <2>0, <2>1, <1>c DEF ReadHeader, Goto, NothingLeft, FramingTypeOK
    <3> QED BY <2>0, <3>1, <1>p, <1>g DEF FramingTypeOK, FrAts, ReadSoFar
  <2>2. CASE ~(NothingLeft \/ fr_hi > HeaderMax)
    <3>1. Recv(HeaderMax) /\ fr_at' = fr_at
      BY <1>6, <2>2 DEF ReadHeader
    <3>2. HeaderMax \in Int /\ fr_hi <= fr_sent
      BY <1>c DEF ReadSoFar
    <3>3. fr_hi' \in Nat /\ fr_hi < fr_hi' /\ fr_hi' <= fr_sent
      BY <3>1, <3>2, RecvIsBounded
    <3>4. FramingTypeOK' /\ FirstOnes' /\ NextStart' = NextStart /\ StreamLen' = StreamLen
      BY <2>0, <3>1, <3>3, <1>p, <1>g DEF FramingTypeOK
    <3>5. fr_lo' <= fr_hi' /\ fr_hi' <= fr_sent' /\ fr_sent' <= StreamLen'
      BY <2>0, <3>3, <3>4 DEF FramingTypeOK, ReadSoFar
    <3>6. ReadSoFar'
      BY <2>0, <3>1, <3>4, <3>5 DEF ReadSoFar
    <3> QED BY <3>4, <3>6
  <2> QED BY <2>1, <2>2
<1>7. CASE GotHeader
  <2>0. /\ fr_at = "header" /\ fr_hi >= HeaderLen /\ fr_at' = "rest" /\ fr_lo' = HeaderLen
        /\ UNCHANGED <<fr_proxied, fr_sent, fr_open, fr_hi, fr_size, fr_got>>
    BY <1>7 DEF GotHeader, Goto
  <2>1. fr_proxied /\ Len(fr_got) = 0
    BY <2>0 DEF ReadSoFar
  <2>2. NextStart = HeaderLen
    BY <2>1, <1>c DEF NextStart, FirstPacket, EndBefore
  <2>3. FramingTypeOK' /\ FirstOnes' /\ NextStart' = NextStart /\ StreamLen' = StreamLen
    BY <2>0, <1>c, <1>p, <1>g DEF FramingTypeOK, FrAts
  <2>4. ReadSoFar'
    BY <2>0, <2>1, <2>2, <2>3, <1>c DEF ReadSoFar, FramingTypeOK
  <2> QED BY <2>3, <2>4
<1>8. CASE RestEmpty \/ RestShort
  <2>0. /\ fr_at = "rest" /\ fr_at' \in {"size", "short"} /\ Held <= SizeLen
        /\ UNCHANGED <<fr_proxied, fr_sent, fr_open, fr_lo, fr_hi, fr_size, fr_got>>
    BY <1>8, <1>c DEF RestEmpty, RestShort, Goto, Held, FramingTypeOK
  <2> QED
    BY <2>0, <1>p, <1>g DEF FramingTypeOK, FrAts, ReadSoFar, Held
<1>9. CASE RestPartial
  <2>0. /\ fr_at = "rest" /\ Held >= SizeLen /\ Held - SizeLen <= SizeAt(fr_lo)
        /\ UNCHANGED <<fr_proxied, fr_sent, fr_open, fr_hi, fr_got>>
    BY <1>9 DEF RestPartial
  <2>1. fr_lo = NextStart
    BY <2>0 DEF ReadSoFar
  <2>2. NextStart + SizeLen <= StreamLen /\ fr_lo + SizeLen <= fr_hi
    BY <2>0, <2>1, <1>c, <1>n DEF Held, ReadSoFar, FramingTypeOK
  <2>3. Len(fr_got) < Len(PacketEnds) /\ SizeAt(fr_lo) = PacketLen(Len(fr_got) + 1)
    BY <2>1, <2>2, SizeIsThere
  <2>4. CASE TooLarge(SizeAt(fr_lo))
    <3>1. fr_at' = "dropped" /\ UNCHANGED <<fr_lo, fr_size>>
      BY <1>9, <2>4 DEF RestPartial, Goto
    <3>2. NextIsTooLarge'
      BY <2>0, <2>3, <2>4 DEF NextIsTooLarge, TooLarge
    <3> QED BY <2>0, <3>1, <3>2, <1>p, <1>g DEF FramingTypeOK, FrAts, ReadSoFar
  <2>5. CASE ~TooLarge(SizeAt(fr_lo))
    <3>0. fr_at' = "body" /\ fr_size' = SizeAt(fr_lo) /\ fr_lo' = fr_lo + SizeLen
      BY <1>9, <2>5 DEF RestPartial, Goto, KeepsRest
    <3>1. FramingTypeOK' /\ FirstOnes' /\ NextStart' = NextStart /\ StreamLen' = StreamLen
      BY <2>0, <3>0, <2>3, <1>c, <1>n, <1>p, <1>g DEF FramingTypeOK, FrAts
    <3>2. Held' <= fr_size'
      BY <2>0, <3>0, <2>3, <1>c, <1>n DEF Held, FramingTypeOK
    <3>3. ReadSoFar'
      BY <2>0, <3>0, <2>1, <2>2, <2>3, <3>1, <3>2 DEF ReadSoFar
    <3> QED BY <3>1, <3>3
  <2> QED BY <2>4, <2>5
<1>10. CASE RestWhole
  <2>0. /\ fr_at = "rest" /\ Held >= SizeLen /\ Held - SizeLen > SizeAt(fr_lo)
        /\ fr_got' = Append(fr_got, <<fr_lo + SizeLen, SizeAt(fr_lo)>>)
        /\ fr_lo' = fr_lo + SizeLen + SizeAt(fr_lo)
        /\ UNCHANGED <<fr_proxied, fr_sent, fr_open, fr_at, fr_hi, fr_size>>
    BY <1>10 DEF RestWhole
  <2>1. fr_lo = NextStart
    BY <2>0 DEF ReadSoFar
  <2>2. NextStart + SizeLen <= StreamLen
    BY <2>0, <2>1, <1>c, <1>n DEF Held, ReadSoFar, FramingTypeOK
  <2>3. Len(fr_got) < Len(PacketEnds) /\ SizeAt(fr_lo) = PacketLen(Len(fr_got) + 1)
    BY <2>1, <2>2, SizeIsThere
  <2>4. /\ fr_got' \in Seq(Nat \X Nat) /\ FirstOnes'
        /\ NextStart' = NextStart + SizeLen + PacketLen(Len(fr_got) + 1)
    BY <2>0, <2>1, <2>3, HandedOn
  <2>5. FramingTypeOK' /\ StreamLen' = StreamLen
    BY <2>0, <2>3, <2>4, <1>c, <1>n, <1>p DEF FramingTypeOK
  <2>6. fr_lo' = NextStart' /\ fr_lo' <= fr_hi'
    BY <2>0, <2>1, <2>3, <2>4, <1>c, <1>n DEF Held, FramingTypeOK
  <2>7. ReadSoFar'
    BY <2>0, <2>5, <2>6 DEF ReadSoFar
  <2> QED BY <2>4, <2>5, <2>7
<1>11. CASE ReadBody
  <2>0. /\ fr_at \in {"body", "shortbody"} /\ Held < fr_size /\ Recv(fr_size - Held)
        /\ UNCHANGED <<fr_proxied, fr_sent, fr_open, fr_at, fr_lo, fr_size, fr_got>>
    BY <1>11 DEF ReadBody, Reading
  <2>1. fr_size - Held \in Int /\ fr_hi <= fr_sent
    BY DEF Held, FramingTypeOK, ReadSoFar
  <2>2. fr_hi' \in Nat /\ fr_hi < fr_hi' /\ fr_hi' <= fr_hi + (fr_size - Held) /\ fr_hi' <= fr_sent
    BY <2>0, <2>1, RecvIsBounded
  <2>3. FramingTypeOK' /\ FirstOnes' /\ NextStart' = NextStart /\ StreamLen' = StreamLen
    BY <2>0, <2>2, <1>p, <1>g DEF FramingTypeOK
  <2>4. Held' <= fr_size' /\ fr_lo' <= fr_hi' /\ fr_hi' <= fr_sent'
    <3>1. fr_lo' = fr_lo /\ fr_sent' = fr_sent /\ fr_size' = fr_size
      BY <2>0
    <3>2. fr_hi' <= fr_hi + (fr_size - (fr_hi - fr_lo)) /\ fr_hi' \in Nat /\ fr_hi < fr_hi' /\ fr_hi' <= fr_sent
      BY <2>2 DEF Held
    <3>3. fr_hi' - fr_lo <= fr_size /\ fr_lo <= fr_hi'
      <4>1. fr_hi \in Int /\ fr_lo \in Int /\ fr_size \in Int /\ fr_hi' \in Int /\ fr_lo <= fr_hi
        BY <3>2, <1>b
      <4>2. fr_hi + (fr_size - (fr_hi - fr_lo)) = fr_size + fr_lo
        BY <4>1
      <4>3. fr_hi' <= fr_size + fr_lo
        BY <3>2, <4>2
      <4>4. fr_lo <= fr_hi'
        BY <3>2, <4>1
      <4>5. fr_hi' - fr_lo <= fr_size
        BY <4>1, <4>3, NotBeyond
      <4> QED BY <4>4, <4>5
    <3> QED BY <3>1, <3>2, <3>3 DEF Held
  <2>5. ReadSoFar'
    BY <2>0, <2>3, <2>4 DEF ReadSoFar
  <2> QED BY <2>3, <2>5
<1>12. CASE GotBody
  <2>0. /\ fr_at \in {"body", "shortbody"} /\ Held = fr_size
        /\ fr_got' = Append(fr_got, <<fr_lo, fr_size>>) /\ fr_lo' = fr_hi
        /\ fr_at' = (IF fr_at = "shortbody" THEN "crashed" ELSE "size")
        /\ UNCHANGED <<fr_proxied, fr_sent, fr_open, fr_hi, fr_size>>
    BY <1>12 DEF GotBody, Reading, Goto
  <2>1. /\ Len(fr_got) < Len(PacketEnds) /\ fr_lo = NextStart + SizeLen
        /\ fr_size = PacketLen(Len(fr_got) + 1)
    BY <2>0 DEF ReadSoFar
  <2>2. /\ fr_got' \in Seq(Nat \X Nat) /\ FirstOnes' /\ Len(fr_got') = Len(fr_got) + 1
        /\ NextStart' = NextStart + SizeLen + PacketLen(Len(fr_got) + 1)
    BY <2>0, <2>1, HandedOn
  <2>3. FramingTypeOK' /\ StreamLen' = StreamLen
    BY <2>0, <2>2, <1>p DEF FramingTypeOK, FrAts
  <2>4. fr_lo' = NextStart' /\ Held' = 0 /\ fr_lo' <= fr_hi' /\ fr_hi' <= fr_sent'
    BY <2>0, <2>1, <2>2, <1>c, <1>n DEF Held, FramingTypeOK, ReadSoFar
  <2>5. ReadSoFar'
    BY <2>0, <2>2, <2>3, <2>4, <1>c, <1>n DEF ReadSoFar
  <2> QED BY <2>2, <2>3, <2>5
<1>13. CASE UNCHANGED frvars
  BY <1>13, <1>p, <1>g DEF frvars, FramingTypeOK, ReadSoFar, NextIsTooLarge, Held
<1> QED
  BY <1>1, <1>2, <1>3, <1>4, <1>5, <1>t, <1>6, <1>7, <1>8, <1>9, <1>10, <1>11, <1>12, <1>13 DEF FrNext

\* Sequences that agree as far as the shorter one goes begin alike.
LEMMA SameBeginnings ==
    ASSUME NEW S, NEW T, NEW s \in Seq(S), NEW t \in Seq(T), Len(s) <= Len(t), \A k \in 1 .. Len(s) : s[k] = t[k]
    PROVE  SubSeq(s, 1, Len(s)) = SubSeq(t, 1, Len(s))
<1>1. Len(s) \in Nat /\ Len(t) \in Nat
  OBVIOUS
<1>2. SubSeq(s, 1, Len(s)) = [i \in 1 .. Len(s) |-> s[i]]
  BY <1>1
<1>3. SubSeq(t, 1, Len(s)) = [i \in 1 .. Len(s) |-> t[i]]
  BY <1>1
<1> QED
  BY <1>2, <1>3

\* What was read of the packets makes those handed on whole.
LEMMA FramingSafe == FramingAssumption /\ FramingInv => FramingHolds
<1> SUFFICES ASSUME FramingAssumption, FramingInv PROVE FramingHolds
  OBVIOUS
<1>0. Len(fr_got) \in Nat /\ Len(PacketEnds) \in Nat /\ Len(fr_got) <= Len(PacketEnds)
      /\ DOMAIN PacketEnds = 1 .. Len(PacketEnds)
  BY PacketsFollow DEF FramingInv, FramingTypeOK, FirstOnes
<1>1. PacketsAreWhole
  <2>1. Sent \in Seq(Nat \X Int) /\ Len(Sent) = Len(PacketEnds)
    <3>1. \A k \in 1 .. Len(PacketEnds) : <<OffsetOf(k), PacketLen(k)>> \in Nat \X Int
      <4>1. ASSUME NEW k \in 1 .. Len(PacketEnds)
            PROVE  OffsetOf(k) \in Nat /\ PacketLen(k) \in Int
        <5>1. k \in 1 .. Len(PacketEnds) + 1
          BY <1>0
        <5>2. EndBefore(k) \in Nat /\ PacketLen(k) \in Nat /\ SizeLen \in Nat /\ FirstPacket \in Nat
          BY <5>1, PacketsFollow DEF FramingInv, FramingTypeOK, FirstPacket
        <5> QED BY <5>2 DEF OffsetOf
      <4> QED BY <4>1
    <3>2. Sent = [k \in 1 .. Len(PacketEnds) |-> <<OffsetOf(k), PacketLen(k)>>]
      BY <1>0 DEF Sent
    <3> QED BY <3>1, <3>2, <1>0
  <2>2. SubSeq(fr_got, 1, Len(fr_got)) = SubSeq(Sent, 1, Len(fr_got))
    <3>1. \A k \in 1 .. Len(fr_got) : fr_got[k] = Sent[k]
      BY DEF FramingInv, FirstOnes
    <3>2. fr_got \in Seq(Nat \X Nat)
      BY DEF FramingInv, FramingTypeOK
    <3> QED BY <3>1, <3>2, <2>1, <1>0, SameBeginnings
  <2> QED BY <2>1, <2>2, <1>0 DEF PacketsAreWhole, IsPrefix
<1>2. ASSUME fr_at = "size", Held = 0
      PROVE  fr_hi = IF fr_got = <<>> THEN FirstPacket ELSE Last(fr_got)[1] + Last(fr_got)[2]
  <2>1. fr_hi = NextStart
    BY <1>2 DEF FramingInv, FramingTypeOK, ReadSoFar, Held
  <2>2. FirstPacket \in Nat /\ SizeLen \in Nat
    BY PacketsFollow DEF FramingInv, FramingTypeOK, FirstPacket
  <2>3. CASE fr_got = <<>>
    BY <2>1, <2>2, <2>3 DEF NextStart, EndBefore
  <2>4. CASE fr_got # <<>>
    <3> DEFINE n == Len(fr_got)
    <3>1. n \in 1 .. Len(PacketEnds) /\ n \in 1 .. Len(PacketEnds) + 1 /\ n \in 1 .. n
      BY <2>4, <1>0 DEF FramingInv, FramingTypeOK
    <3>2. Last(fr_got) = <<OffsetOf(n), PacketLen(n)>>
      BY <3>1, <1>0 DEF FramingInv, FirstOnes, Last, Sent
    <3>3. EndBefore(n) \in Nat /\ PacketLen(n) \in Nat /\ EndBefore(n + 1) = EndBefore(n) + SizeLen + PacketLen(n)
      BY <3>1, PacketsFollow
    <3>4. fr_hi = OffsetOf(n) + PacketLen(n)
      BY <2>1, <2>2, <3>3 DEF NextStart, OffsetOf
    <3> QED BY <2>4, <3>2, <3>4
  <2> QED BY <2>3, <2>4
<1>3. NothingIsSkipped
  BY <1>2 DEF NothingIsSkipped, FramingInv, ReadSoFar
<1> QED BY <1>1, <1>3 DEF FramingHolds

\* handle of the bridge's connections (base_handler.py): however the stream is cut, with or without a
\* PROXY line, packets are handed on whole and in order and none is passed over, up to one that is too large.
THEOREM PacketsArriveWhole == ASSUME FramingAssumption PROVE FrSpec => []FramingHolds
<1>1. FrInit => FramingInv
  BY FramingInit
<1>2. FramingInv /\ [FrNext]_frvars => FramingInv'
  BY FramingStep
<1>3. FramingInv => FramingHolds
  BY FramingSafe
<1> QED
  BY <1>1, <1>2, <1>3, PTL DEF FrSpec

-----------------------------------------------------------------------------
(* The row of a judge.                                                     *)

JmRow == [online : BOOLEAN, disabled : BOOLEAN, blocked : BOOLEAN]
JmAts == {"new", "named", "listed", "loaded", "cleared", "stored", "connected", "leaving",
          "offline", "gone"}
Listed == {"listed", "loaded", "cleared", "stored", "connected"}
Idle == [at |-> "idle"]
Over == [at |-> "done"]

MachinesTypeOK ==
    /\ jm_row \in JmRow
    /\ jm_conns \in [JmConns -> [at : JmAts, disabled : BOOLEAN, row : JmRow]]
    /\ jm_list \subseteq JmConns
    /\ jm_admins \in [JmAdmins -> {Idle, Over} \cup [at : {"tell", "save"}, value : BOOLEAN]
                                    \cup [at : {"form"}, row : JmRow]]
    /\ jm_overlap \subseteq JmConns /\ jm_outlived \subseteq JmConns /\ jm_crossed \in BOOLEAN

\* A connection is listed from register to remove, or until a dispatch to it fails.
ListIsOfConns == \A c \in jm_list : jm_conns[c].at \in Listed

Up == Shaking \cup {"connected"}

\* Beside a connection that none overlapped, no other one is in its handshake.
ShakesAlone ==
    \A c \in JmConns \ jm_overlap : jm_conns[c].at \in Up =>
       \A d \in JmConns \ {c} : jm_conns[d].at \notin Shaking

\* Nobody touches the versions from the handshake of such a connection on.
VersionsFollow ==
    \A c \in JmConns \ (jm_overlap \cup jm_outlived) :
       /\ jm_conns[c].at = "cleared" => jm_versions = {}
       /\ jm_conns[c].at \in {"stored", "connected"} => jm_versions = {c}

Informed == {"loaded", "cleared", "stored", "connected"}

\* One change of is_disabled at a time; the connections know the row until one of them
\* is told, and know the new value from then on.
DisabledFollows ==
    ~jm_crossed =>
       /\ \A a, b \in JmAdmins : Disabling(a) /\ Disabling(b) => a = b
       /\ (\A a \in JmAdmins : jm_admins[a].at # "save") =>
             \A c \in jm_list : jm_conns[c].at \in Informed => jm_conns[c].disabled = jm_row.disabled
       /\ \A a \in JmAdmins : jm_admins[a].at = "save" =>
             \A c \in jm_list : jm_conns[c].at \in Informed => jm_conns[c].disabled = jm_admins[a].value

MachinesInv ==
    /\ MachinesTypeOK /\ ListIsOfConns /\ ShakesAlone
    /\ VersionsFollow /\ OnlineIsTrue /\ DisabledFollows

\* The row of a judge that never connected.
LEMMA MachinesInit == JmInit => MachinesInv
<1> SUFFICES ASSUME JmInit PROVE MachinesInv
  OBVIOUS
<1>1. jm_row \in JmRow /\ ~jm_row.online
  BY DEF JmInit, JmRow
<1>2. \A c \in JmConns : jm_conns[c].at = "new" /\ jm_conns[c] \in [at : JmAts, disabled : BOOLEAN, row : JmRow]
  BY <1>1 DEF JmInit, JmAts
<1>3. MachinesTypeOK
  BY <1>1, <1>2 DEF JmInit, MachinesTypeOK, Idle
<1>4. \A a \in JmAdmins : jm_admins[a].at = "idle"
  BY DEF JmInit
<1>5. jm_list = {} /\ \A a \in JmAdmins : ~Disabling(a)
  BY <1>4 DEF JmInit, Disabling
<1>6. ListIsOfConns
  BY <1>5 DEF ListIsOfConns
<1>7. ShakesAlone /\ VersionsFollow
  BY <1>2 DEF ShakesAlone, VersionsFollow, Up, Shaking
<1>8. OnlineIsTrue
  BY <1>1, <1>2 DEF OnlineIsTrue
<1>9. DisabledFollows
  BY <1>4, <1>5 DEF DisabledFollows, Disabling
<1> QED
  BY <1>3, <1>6, <1>7, <1>8, <1>9 DEF MachinesInv

\* What a request of the administration holds is told by where it is.
LEMMA AdminsHold ==
    ASSUME MachinesTypeOK, NEW a \in JmAdmins
    PROVE  /\ jm_admins[a].at \in {"tell", "save"} =>
                 jm_admins[a] \in [at : {"tell", "save"}, value : BOOLEAN]
           /\ jm_admins[a].at = "form" => jm_admins[a] \in [at : {"form"}, row : JmRow]
<1>1. jm_admins[a] \in {Idle, Over} \cup [at : {"tell", "save"}, value : BOOLEAN]
                                    \cup [at : {"form"}, row : JmRow]
  BY DEF MachinesTypeOK
<1>2. Idle.at = "idle" /\ Over.at = "done"
  BY DEF Idle, Over
<1> QED BY <1>1, <1>2

\* Steps of one connection that leave the other variables of the judges' side alone.
LEMMA ConnMoves ==
    ASSUME MachinesTypeOK, NEW c \in JmConns, NEW at \in JmAts, ConnTo(c, at)
    PROVE  /\ jm_conns' \in [JmConns -> [at : JmAts, disabled : BOOLEAN, row : JmRow]]
           /\ jm_conns'[c] = [jm_conns[c] EXCEPT !.at = at]
           /\ jm_conns'[c].at = at
           /\ jm_conns'[c].disabled = jm_conns[c].disabled
           /\ \A d \in JmConns \ {c} : jm_conns'[d] = jm_conns[d]
<1>1. jm_conns[c] \in [at : JmAts, disabled : BOOLEAN, row : JmRow]
  BY DEF MachinesTypeOK
<1>2. jm_conns'[c] = [jm_conns[c] EXCEPT !.at = at]
  BY DEF ConnTo, MachinesTypeOK
<1>3. \A d \in JmConns \ {c} : jm_conns'[d] = jm_conns[d]
  BY DEF ConnTo, MachinesTypeOK
<1>4. jm_conns' \in [JmConns -> [at : JmAts, disabled : BOOLEAN, row : JmRow]]
  BY <1>1 DEF ConnTo, MachinesTypeOK
<1> QED BY <1>1, <1>2, <1>3, <1>4

\* The handshake.
LEMMA HandshakeKeeps ==
    ASSUME MachinesInv, NEW c \in JmConns,
           Authenticate(c) \/ JmRegister(c) \/ Unlist(c) \/ LoadJudge(c) \/ ClearVersions(c)
             \/ StoreVersions(c) \/ SaveJudge(c)
    PROVE  MachinesInv'
<1> USE DEF MachinesInv, Shaking
<1>l. jm_list \subseteq JmConns /\ jm_list' \subseteq jm_list \cup {c}
  BY DEF MachinesTypeOK, Authenticate, JmRegister, Unlist, LoadJudge, ClearVersions, StoreVersions, SaveJudge
<1>t. jm_conns[c] \in [at : JmAts, disabled : BOOLEAN, row : JmRow]
  BY DEF MachinesTypeOK
<1>1. CASE Authenticate(c)
  <2>0. jm_conns[c].at = "new" /\ UNCHANGED <<jm_row, jm_versions, jm_list, jm_admins, jm_outlived, jm_crossed>>
    BY <1>1 DEF Authenticate
  <2>1. PICK at \in {"named", "gone"} :
          /\ ConnTo(c, at)
          /\ at = "gone" => UNCHANGED jm_overlap
          /\ at = "named" => jm_overlap' = jm_overlap \cup OthersUp(c) \cup (IF InHandshake = {} THEN {} ELSE {c})
    BY <1>1 DEF Authenticate
  <2>2. /\ jm_conns' \in [JmConns -> [at : JmAts, disabled : BOOLEAN, row : JmRow]]
        /\ jm_conns'[c].at = at
        /\ \A d \in JmConns \ {c} : jm_conns'[d] = jm_conns[d]
    BY <2>1, ConnMoves DEF JmAts
  <2>3. jm_overlap' \subseteq JmConns /\ jm_overlap \subseteq jm_overlap'
    BY <2>1 DEF OthersUp, MachinesTypeOK
  <2>4. MachinesTypeOK' /\ ListIsOfConns' /\ c \notin jm_list
    BY <2>0, <2>2, <2>3 DEF MachinesTypeOK, ListIsOfConns, Listed
  <2>5. ShakesAlone'
    <3>1. CASE at = "gone"
      BY <3>1, <2>0, <2>2, <2>3 DEF ShakesAlone, Up, Shaking
    <3>2. CASE at = "named"
      <4>1. \A d \in JmConns \ {c} : jm_conns[d].at \in Up => d \in jm_overlap'
        BY <3>2, <2>1 DEF OthersUp, Up
      <4>2. c \notin jm_overlap' => \A d \in JmConns : jm_conns[d].at \notin Shaking
        BY <3>2, <2>1 DEF InHandshake
      <4> QED BY <4>1, <4>2, <2>2 DEF ShakesAlone
    <3> QED BY <3>1, <3>2
  <2>6. VersionsFollow'
    BY <2>0, <2>2, <2>3 DEF VersionsFollow
  <2>7. OnlineIsTrue' /\ DisabledFollows'
    BY <2>0, <2>2, <2>4 DEF OnlineIsTrue, DisabledFollows, Disabling, MachinesTypeOK
  <2> QED BY <2>4, <2>5, <2>6, <2>7
<1>2. CASE JmRegister(c)
  <2>1. UNCHANGED <<jm_row, jm_versions, jm_admins, jm_overlap, jm_outlived, jm_crossed>> /\ jm_conns[c].at = "named"
        /\ jm_list' = jm_list \cup {c} /\ ConnTo(c, "listed")
    BY <1>2 DEF JmRegister
  <2>2. /\ jm_conns' \in [JmConns -> [at : JmAts, disabled : BOOLEAN, row : JmRow]]
        /\ jm_conns'[c].at = "listed"
        /\ \A d \in JmConns \ {c} : jm_conns'[d] = jm_conns[d]
    BY <2>1, ConnMoves DEF JmAts
  <2>3. MachinesTypeOK' /\ ListIsOfConns'
    BY <2>1, <2>2 DEF MachinesTypeOK, ListIsOfConns, Listed
  <2>4. ShakesAlone' /\ VersionsFollow'
    BY <2>1, <2>2 DEF ShakesAlone, Up, Shaking, VersionsFollow
  <2>5. OnlineIsTrue' /\ DisabledFollows'
    BY <2>1, <2>2 DEF OnlineIsTrue, DisabledFollows, Disabling, Informed, MachinesTypeOK
  <2> QED BY <2>3, <2>4, <2>5
<1>u. CASE Unlist(c)
  <2>1. UNCHANGED <<jm_row, jm_versions, jm_conns, jm_admins, jm_overlap, jm_outlived, jm_crossed>>
        /\ jm_list' = jm_list \ {c}
    BY <1>u DEF Unlist
  <2> QED
    BY <2>1 DEF MachinesTypeOK, ListIsOfConns, ShakesAlone, VersionsFollow, OnlineIsTrue, DisabledFollows, Disabling
<1>3. CASE LoadJudge(c)
  <2>1. UNCHANGED <<jm_row, jm_versions, jm_list, jm_admins, jm_overlap, jm_outlived>> /\ jm_conns[c].at = "listed"
        /\ jm_crossed' = (jm_crossed \/ \E a \in JmAdmins : Disabling(a))
    BY <1>3 DEF LoadJudge
  <2>2. /\ jm_conns'[c].at = "loaded"
        /\ jm_conns'[c].disabled = jm_row.disabled
        /\ \A d \in JmConns \ {c} : jm_conns'[d] = jm_conns[d]
    BY <1>3, <1>t DEF LoadJudge, MachinesTypeOK
  <2>3. MachinesTypeOK'
    <3>1. [jm_conns[c] EXCEPT !.at = "loaded", !.row = jm_row, !.disabled = jm_row.disabled]
            \in [at : JmAts, disabled : BOOLEAN, row : JmRow]
      BY <1>t DEF MachinesTypeOK, JmAts, JmRow
    <3>2. jm_conns' = [jm_conns EXCEPT ![c] = [jm_conns[c] EXCEPT !.at = "loaded", !.row = jm_row, !.disabled = jm_row.disabled]]
      BY <1>3 DEF LoadJudge, MachinesTypeOK
    <3>3. jm_crossed' \in BOOLEAN
      BY <2>1
    <3> QED BY <2>1, <3>1, <3>2, <3>3 DEF MachinesTypeOK
  <2>4. ListIsOfConns' /\ ShakesAlone'
    BY <1>l, <2>1, <2>2 DEF ListIsOfConns, Listed, ShakesAlone, Up
  <2>7. VersionsFollow'
    BY <2>1, <2>2 DEF VersionsFollow
  <2>5. OnlineIsTrue'
    BY <2>1, <2>2 DEF OnlineIsTrue, MachinesTypeOK
  <2>6. DisabledFollows'
    BY <1>l, <2>1, <2>2 DEF DisabledFollows, Disabling, Informed
  <2> QED BY <2>3, <2>4, <2>5, <2>6, <2>7
<1>4. CASE ClearVersions(c)
  <2>1. UNCHANGED <<jm_row, jm_list, jm_admins, jm_overlap, jm_outlived, jm_crossed>> /\ jm_conns[c].at = "loaded"
        /\ jm_versions' = {} /\ ConnTo(c, "cleared")
    BY <1>4 DEF ClearVersions
  <2>2. /\ jm_conns' \in [JmConns -> [at : JmAts, disabled : BOOLEAN, row : JmRow]]
        /\ jm_conns'[c].at = "cleared"
        /\ jm_conns'[c].disabled = jm_conns[c].disabled
        /\ \A d \in JmConns \ {c} : jm_conns'[d] = jm_conns[d]
    BY <2>1, ConnMoves DEF JmAts
  <2>3. MachinesTypeOK'
    BY <2>1, <2>2 DEF MachinesTypeOK
  <2>4. ListIsOfConns' /\ ShakesAlone'
    BY <1>l, <2>1, <2>2 DEF ListIsOfConns, Listed, ShakesAlone, Up
  <2>6. VersionsFollow'
    BY <2>1, <2>2 DEF VersionsFollow, ShakesAlone, Up, MachinesTypeOK
  <2>7. OnlineIsTrue'
    BY <2>1, <2>2 DEF OnlineIsTrue
  <2>8. DisabledFollows'
    BY <1>l, <2>1, <2>2 DEF DisabledFollows, Disabling, Informed
  <2> QED BY <2>3, <2>4, <2>6, <2>7, <2>8
<1>5. CASE StoreVersions(c)
  <2>1. UNCHANGED <<jm_row, jm_list, jm_admins, jm_overlap, jm_outlived, jm_crossed>> /\ jm_conns[c].at = "cleared"
        /\ jm_versions' = jm_versions \cup {c} /\ ConnTo(c, "stored")
    BY <1>5 DEF StoreVersions
  <2>2. /\ jm_conns' \in [JmConns -> [at : JmAts, disabled : BOOLEAN, row : JmRow]]
        /\ jm_conns'[c].at = "stored"
        /\ jm_conns'[c].disabled = jm_conns[c].disabled
        /\ \A d \in JmConns \ {c} : jm_conns'[d] = jm_conns[d]
    BY <2>1, ConnMoves DEF JmAts
  <2>3. MachinesTypeOK'
    BY <2>1, <2>2 DEF MachinesTypeOK
  <2>4. ListIsOfConns' /\ ShakesAlone'
    BY <1>l, <2>1, <2>2 DEF ListIsOfConns, Listed, ShakesAlone, Up
  <2>6. VersionsFollow'
    BY <2>1, <2>2 DEF VersionsFollow, ShakesAlone, Up, MachinesTypeOK
  <2>7. OnlineIsTrue'
    BY <2>1, <2>2 DEF OnlineIsTrue
  <2>8. DisabledFollows'
    BY <1>l, <2>1, <2>2 DEF DisabledFollows, Disabling, Informed
  <2> QED BY <2>3, <2>4, <2>6, <2>7, <2>8
<1>6. CASE SaveJudge(c)
  <2>1. UNCHANGED <<jm_versions, jm_list, jm_admins, jm_overlap, jm_outlived>> /\ jm_conns[c].at = "stored"
        /\ jm_row' = [jm_conns[c].row EXCEPT !.online = TRUE] /\ ConnTo(c, "connected")
        /\ jm_crossed' = (jm_crossed \/ jm_row # [jm_conns[c].row EXCEPT !.online = jm_row.online])
    BY <1>6 DEF SaveJudge
  <2>2. /\ jm_conns' \in [JmConns -> [at : JmAts, disabled : BOOLEAN, row : JmRow]]
        /\ jm_conns'[c].at = "connected"
        /\ jm_conns'[c].disabled = jm_conns[c].disabled
        /\ \A d \in JmConns \ {c} : jm_conns'[d] = jm_conns[d]
    BY <2>1, ConnMoves DEF JmAts
  <2>a. jm_conns[c].row \in JmRow /\ jm_row \in JmRow
    BY <1>t DEF MachinesTypeOK
  <2>b. jm_row' \in JmRow /\ jm_row'.online /\ (~jm_crossed' => jm_row'.disabled = jm_row.disabled)
    <3>1. jm_row' \in JmRow /\ jm_row'.online /\ jm_row'.disabled = jm_conns[c].row.disabled
      BY <2>1, <2>a DEF JmRow
    <3>2. ~jm_crossed' => jm_row = [jm_conns[c].row EXCEPT !.online = jm_row.online]
      BY <2>1
    <3>3. [jm_conns[c].row EXCEPT !.online = jm_row.online].disabled = jm_conns[c].row.disabled
      BY <2>a DEF JmRow
    <3> QED BY <3>1, <3>2, <3>3
  <2>3. MachinesTypeOK'
    BY <2>1, <2>2, <2>b DEF MachinesTypeOK
  <2>4. ListIsOfConns' /\ ShakesAlone'
    BY <1>l, <2>1, <2>2 DEF ListIsOfConns, Listed, ShakesAlone, Up
  <2>6. VersionsFollow'
    BY <2>1, <2>2 DEF VersionsFollow, MachinesTypeOK
  <2>7. OnlineIsTrue'
    BY <2>1, <2>2, <2>b DEF OnlineIsTrue
  <2>8. DisabledFollows'
    <3>1. ~jm_crossed' => ~jm_crossed
      BY <2>1
    <3> QED BY <3>1, <1>l, <2>1, <2>2, <2>b DEF DisabledFollows, Disabling, Informed
  <2> QED BY <2>3, <2>4, <2>6, <2>7, <2>8
<1> QED BY <1>1, <1>2, <1>u, <1>3, <1>4, <1>5, <1>6

\* The end of a connection.
LEMMA EndKeeps ==
    ASSUME MachinesInv, NEW c \in JmConns, LeaveList(c) \/ SetOffline(c) \/ DeleteVersions(c)
    PROVE  MachinesInv'
<1> USE DEF MachinesInv, Shaking
<1>l. jm_list \subseteq JmConns
  BY DEF MachinesTypeOK
<1>1. CASE LeaveList(c)
  <2>1. UNCHANGED <<jm_row, jm_versions, jm_admins, jm_overlap, jm_outlived, jm_crossed>> /\ jm_conns[c].at = "connected"
        /\ jm_list' = jm_list \ {c} /\ ConnTo(c, "leaving")
    BY <1>1 DEF LeaveList
  <2>2. /\ jm_conns' \in [JmConns -> [at : JmAts, disabled : BOOLEAN, row : JmRow]]
        /\ jm_conns'[c].at = "leaving"
        /\ \A d \in JmConns \ {c} : jm_conns'[d] = jm_conns[d]
    BY <2>1, ConnMoves DEF JmAts
  <2>3. MachinesTypeOK' /\ ListIsOfConns'
    BY <2>1, <2>2 DEF MachinesTypeOK, ListIsOfConns, Listed
  <2>4. ShakesAlone' /\ VersionsFollow'
    BY <2>1, <2>2 DEF ShakesAlone, Up, VersionsFollow, MachinesTypeOK
  <2>5. OnlineIsTrue'
    BY <2>1, <2>2 DEF OnlineIsTrue
  <2>6. DisabledFollows'
    BY <1>l, <2>1, <2>2 DEF DisabledFollows, Disabling, Informed
  <2> QED BY <2>3, <2>4, <2>5, <2>6
<1>2. CASE SetOffline(c)
  <2>1. UNCHANGED <<jm_versions, jm_list, jm_admins, jm_overlap, jm_crossed>> /\ jm_conns[c].at = "leaving"
        /\ jm_row' = [jm_row EXCEPT !.online = FALSE] /\ ConnTo(c, "offline")
        /\ jm_outlived' = jm_outlived \cup OthersUp(c)
    BY <1>2 DEF SetOffline, WentOffline
  <2>2. /\ jm_conns' \in [JmConns -> [at : JmAts, disabled : BOOLEAN, row : JmRow]]
        /\ jm_conns'[c].at = "offline"
        /\ \A d \in JmConns \ {c} : jm_conns'[d] = jm_conns[d]
    BY <2>1, ConnMoves DEF JmAts
  <2>a. jm_row' \in JmRow /\ ~jm_row'.online /\ jm_row'.disabled = jm_row.disabled
    BY <2>1 DEF JmRow, MachinesTypeOK
  <2>b. c \notin jm_list
    BY <2>1 DEF ListIsOfConns, Listed
  <2>3. MachinesTypeOK' /\ ListIsOfConns'
    <3>1. MachinesTypeOK'
      BY <2>1, <2>2, <2>a DEF MachinesTypeOK, OthersUp
    <3>2. ListIsOfConns'
      BY <1>l, <2>1, <2>2, <2>b DEF ListIsOfConns
    <3> QED BY <3>1, <3>2
  <2>4. ShakesAlone' /\ VersionsFollow'
    BY <2>1, <2>2 DEF ShakesAlone, Up, VersionsFollow, MachinesTypeOK, ListIsOfConns, Listed
  <2>5. OnlineIsTrue'
    <3>1. \A d \in JmConns \ jm_outlived' : jm_conns'[d].at # "connected"
      BY <2>1, <2>2 DEF OthersUp
    <3> QED BY <3>1, <2>a DEF OnlineIsTrue
  <2>6. DisabledFollows'
    BY <1>l, <2>1, <2>2, <2>a DEF DisabledFollows, Disabling, Informed
  <2> QED BY <2>3, <2>4, <2>5, <2>6
<1>3. CASE DeleteVersions(c)
  <2>1. UNCHANGED <<jm_row, jm_list, jm_admins, jm_overlap, jm_crossed>> /\ jm_conns[c].at = "offline"
        /\ jm_versions' = {} /\ ConnTo(c, "gone")
        /\ jm_outlived' = jm_outlived \cup OthersUp(c)
    BY <1>3 DEF DeleteVersions
  <2>2. /\ jm_conns' \in [JmConns -> [at : JmAts, disabled : BOOLEAN, row : JmRow]]
        /\ jm_conns'[c].at = "gone"
        /\ \A d \in JmConns \ {c} : jm_conns'[d] = jm_conns[d]
    BY <2>1, ConnMoves DEF JmAts
  <2>b. c \notin jm_list
    BY <2>1 DEF ListIsOfConns, Listed
  <2>3. MachinesTypeOK' /\ ListIsOfConns'
    <3>1. MachinesTypeOK'
      BY <2>1, <2>2 DEF MachinesTypeOK, OthersUp
    <3>2. ListIsOfConns'
      BY <1>l, <2>1, <2>2, <2>b DEF ListIsOfConns
    <3> QED BY <3>1, <3>2
  <2>4. ShakesAlone'
    BY <2>1, <2>2 DEF ShakesAlone, Up, MachinesTypeOK, ListIsOfConns, Listed
  <2>5. VersionsFollow'
    <3>1. \A d \in JmConns \ jm_outlived' : jm_conns'[d].at \notin {"cleared", "stored", "connected"}
      BY <2>1, <2>2 DEF OthersUp, Shaking
    <3> QED BY <3>1 DEF VersionsFollow
  <2>6. OnlineIsTrue'
    BY <2>1, <2>2 DEF OnlineIsTrue
  <2>7. DisabledFollows'
    BY <1>l, <2>1, <2>2 DEF DisabledFollows, Disabling, Informed
  <2> QED BY <2>3, <2>4, <2>5, <2>6, <2>7
<1> QED BY <1>1, <1>2, <1>3

\* The administration.
LEMMA AdminKeeps ==
    ASSUME MachinesInv, NEW a \in JmAdmins,
           AdminStart(a) \/ TellBridge(a) \/ SaveDisabled(a) \/ SaveForm(a)
    PROVE  MachinesInv'
<1> USE DEF MachinesInv
<1> DEFINE Kept == [at : {"tell", "save"}, value : BOOLEAN]
<1>a. ASSUME NEW state \in {Idle, Over} \cup [at : {"tell", "save"}, value : BOOLEAN] \cup [at : {"form"}, row : JmRow],
             AdminTo(a, state)
      PROVE  /\ jm_admins' \in [JmAdmins -> {Idle, Over} \cup [at : {"tell", "save"}, value : BOOLEAN]
                                    \cup [at : {"form"}, row : JmRow]]
             /\ jm_admins'[a] = state
             /\ \A b \in JmAdmins \ {a} : jm_admins'[b] = jm_admins[b]
  BY <1>a DEF AdminTo, MachinesTypeOK
<1>r. jm_row \in JmRow
  BY DEF MachinesTypeOK
<1>i. Idle.at = "idle" /\ Over.at = "done"
  BY DEF Idle, Over
<1>1. CASE AdminStart(a)
  <2>0. UNCHANGED <<jm_row, jm_versions, jm_conns, jm_list, jm_overlap, jm_outlived>> /\ jm_admins[a] = Idle
    BY <1>1 DEF AdminStart, Idle
  <2>s. /\ ListIsOfConns' /\ ShakesAlone' /\ VersionsFollow'
    BY <2>0 DEF ListIsOfConns, ShakesAlone, Up, VersionsFollow
  <2>1. CASE /\ AdminTo(a, [at |-> "tell", value |-> ~jm_row.disabled])
             /\ jm_crossed' = (jm_crossed \/ InHandshake # {} \/ \E b \in JmAdmins : Disabling(b))
    <3>1. [at |-> "tell", value |-> ~jm_row.disabled] \in [at : {"tell", "save"}, value : BOOLEAN]
      OBVIOUS
    <3>2. /\ jm_admins' \in [JmAdmins -> {Idle, Over} \cup [at : {"tell", "save"}, value : BOOLEAN]
                                    \cup [at : {"form"}, row : JmRow]]
          /\ jm_admins'[a].at = "tell"
          /\ \A b \in JmAdmins \ {a} : jm_admins'[b] = jm_admins[b]
      BY <2>1, <3>1, <1>a
    <3>3. MachinesTypeOK'
      BY <2>0, <2>1, <3>2 DEF MachinesTypeOK, InHandshake
    <3>4. OnlineIsTrue'
      BY <2>0, <2>1 DEF OnlineIsTrue
    <3>5. DisabledFollows'
      <4>1. ~jm_crossed' => ~jm_crossed /\ \A b \in JmAdmins : ~Disabling(b)
        BY <2>1
      <4>2. \A b \in JmAdmins : (~jm_crossed' => jm_admins'[b].at # "save") /\ (~jm_crossed' /\ Disabling(b)' => b = a)
        BY <4>1, <3>2 DEF Disabling
      <4>3. ~jm_crossed' => \A c \in jm_list : jm_conns[c].at \in Informed => jm_conns[c].disabled = jm_row.disabled
        BY <4>1 DEF DisabledFollows, Disabling
      <4> QED BY <2>0, <4>2, <4>3 DEF DisabledFollows
    <3> QED BY <3>3, <3>4, <3>5, <2>s
  <2>2. CASE AdminTo(a, [at |-> "form", row |-> jm_row]) /\ UNCHANGED jm_crossed
    <3>1. [at |-> "form", row |-> jm_row] \in [at : {"form"}, row : JmRow]
      BY <1>r
    <3>2. /\ jm_admins' \in [JmAdmins -> {Idle, Over} \cup [at : {"tell", "save"}, value : BOOLEAN]
                                    \cup [at : {"form"}, row : JmRow]]
          /\ jm_admins'[a].at = "form"
          /\ \A b \in JmAdmins \ {a} : jm_admins'[b] = jm_admins[b]
      BY <2>2, <3>1, <1>a
    <3>3. MachinesTypeOK'
      BY <2>0, <2>2, <3>2 DEF MachinesTypeOK
    <3>4. OnlineIsTrue'
      BY <2>0, <2>2 DEF OnlineIsTrue
    <3>5. DisabledFollows'
      BY <2>0, <2>2, <3>2, <1>i DEF DisabledFollows, Disabling
    <3> QED BY <3>3, <3>4, <3>5, <2>s
  <2> QED BY <2>1, <2>2, <1>1 DEF AdminStart
<1>2. CASE TellBridge(a)
  <2>0. /\ UNCHANGED <<jm_row, jm_versions, jm_list, jm_overlap, jm_outlived>> /\ jm_admins[a].at = "tell"
        /\ jm_conns' = [c \in JmConns |-> IF c \in jm_list THEN [jm_conns[c] EXCEPT !.disabled = jm_admins[a].value] ELSE jm_conns[c]]
        /\ AdminTo(a, [jm_admins[a] EXCEPT !.at = "save"])
        /\ jm_crossed' = (jm_crossed \/ InHandshake # {})
    BY <1>2 DEF TellBridge, Told
  <2>1. jm_admins[a] \in [at : {"tell", "save"}, value : BOOLEAN]
    BY <2>0, AdminsHold
  <2>2. /\ [jm_admins[a] EXCEPT !.at = "save"] \in [at : {"tell", "save"}, value : BOOLEAN]
        /\ [jm_admins[a] EXCEPT !.at = "save"].at = "save"
        /\ [jm_admins[a] EXCEPT !.at = "save"].value = jm_admins[a].value
    BY <2>1
  <2>3. /\ jm_admins' \in [JmAdmins -> {Idle, Over} \cup [at : {"tell", "save"}, value : BOOLEAN]
                                    \cup [at : {"form"}, row : JmRow]]
        /\ jm_admins'[a].at = "save" /\ jm_admins'[a].value = jm_admins[a].value
        /\ \A b \in JmAdmins \ {a} : jm_admins'[b] = jm_admins[b]
    BY <2>0, <2>2, <1>a
  <2>4. \A c \in JmConns : /\ jm_conns'[c].at = jm_conns[c].at
                           /\ c \in jm_list => jm_conns'[c].disabled = jm_admins[a].value
    BY <2>0 DEF MachinesTypeOK
  <2>5. MachinesTypeOK'
    <3>1. \A c \in JmConns : jm_conns'[c] \in [at : JmAts, disabled : BOOLEAN, row : JmRow]
      BY <2>0, <2>1 DEF MachinesTypeOK
    <3> QED BY <2>0, <2>3, <3>1 DEF MachinesTypeOK, InHandshake
  <2>6. ListIsOfConns' /\ ShakesAlone' /\ VersionsFollow'
    BY <2>0, <2>4 DEF ListIsOfConns, ShakesAlone, Up, VersionsFollow, MachinesTypeOK
  <2>7. OnlineIsTrue'
    BY <2>0, <2>4 DEF OnlineIsTrue
  <2>8. DisabledFollows'
    <3>1. ~jm_crossed' => ~jm_crossed
      BY <2>0
    <3>2. \A b \in JmAdmins : Disabling(b)' <=> Disabling(b)
      BY <2>0, <2>3 DEF Disabling
    <3>3. ~jm_crossed => \A b \in JmAdmins : Disabling(b) => b = a
      BY <2>0 DEF DisabledFollows, Disabling
    <3>4. \A c \in jm_list : jm_conns'[c].disabled = jm_admins'[a].value
      BY <2>3, <2>4 DEF MachinesTypeOK
    <3>5. ~jm_crossed => \A b \in JmAdmins : jm_admins'[b].at = "save" => b = a
      BY <2>3, <3>3 DEF Disabling
    <3> QED BY <2>0, <2>3, <3>1, <3>2, <3>3, <3>4, <3>5 DEF DisabledFollows
  <2> QED BY <2>5, <2>6, <2>7, <2>8
<1>3. CASE SaveDisabled(a)
  <2>0. /\ UNCHANGED <<jm_versions, jm_conns, jm_list, jm_overlap, jm_outlived>> /\ jm_admins[a].at = "save"
        /\ jm_row' = [jm_row EXCEPT !.disabled = jm_admins[a].value]
        /\ AdminTo(a, Over) /\ jm_crossed' = (jm_crossed \/ InHandshake # {})
    BY <1>3 DEF SaveDisabled, Over
  <2>1. jm_admins[a] \in [at : {"tell", "save"}, value : BOOLEAN]
    BY <2>0, AdminsHold
  <2>2. jm_row' \in JmRow /\ jm_row'.online = jm_row.online /\ jm_row'.disabled = jm_admins[a].value
    BY <2>0, <2>1, <1>r DEF JmRow
  <2>3. /\ jm_admins' \in [JmAdmins -> {Idle, Over} \cup [at : {"tell", "save"}, value : BOOLEAN]
                                    \cup [at : {"form"}, row : JmRow]]
        /\ jm_admins'[a].at = "done"
        /\ \A b \in JmAdmins \ {a} : jm_admins'[b] = jm_admins[b]
    BY <2>0, <1>a, <1>i
  <2>4. MachinesTypeOK'
    BY <2>0, <2>2, <2>3 DEF MachinesTypeOK, InHandshake
  <2>5. ListIsOfConns' /\ ShakesAlone' /\ VersionsFollow'
    BY <2>0 DEF ListIsOfConns, ShakesAlone, Up, VersionsFollow
  <2>6. OnlineIsTrue'
    BY <2>0, <2>2 DEF OnlineIsTrue
  <2>7. DisabledFollows'
    <3>1. ~jm_crossed' => ~jm_crossed
      BY <2>0
    <3>2. ~jm_crossed => \A b \in JmAdmins : Disabling(b) => b = a
      BY <2>0 DEF DisabledFollows, Disabling
    <3>3. ~jm_crossed => \A b \in JmAdmins : jm_admins'[b].at \notin {"tell", "save"}
      BY <2>3, <3>2 DEF Disabling
    <3>4. ~jm_crossed => \A c \in jm_list : jm_conns'[c].at \in Informed => jm_conns'[c].disabled = jm_row'.disabled
      BY <2>0, <2>2 DEF DisabledFollows
    <3> QED BY <2>0, <3>1, <3>3, <3>4 DEF DisabledFollows, Disabling
  <2> QED BY <2>4, <2>5, <2>6, <2>7
<1>4. CASE SaveForm(a)
  <2>0. /\ UNCHANGED <<jm_versions, jm_conns, jm_list, jm_overlap, jm_outlived>> /\ jm_admins[a].at = "form"
        /\ jm_row' = [jm_admins[a].row EXCEPT !.blocked = ~@]
        /\ AdminTo(a, Over) /\ jm_crossed' = (jm_crossed \/ jm_row # jm_admins[a].row)
    BY <1>4 DEF SaveForm, Over
  <2>1. jm_admins[a].row \in JmRow
    BY <2>0, AdminsHold
  <2>2. /\ jm_row' \in JmRow /\ jm_row'.online = jm_admins[a].row.online
        /\ jm_row'.disabled = jm_admins[a].row.disabled
    BY <2>0, <2>1 DEF JmRow
  <2>3. /\ jm_admins' \in [JmAdmins -> {Idle, Over} \cup [at : {"tell", "save"}, value : BOOLEAN]
                                    \cup [at : {"form"}, row : JmRow]]
        /\ jm_admins'[a].at = "done"
        /\ \A b \in JmAdmins \ {a} : jm_admins'[b] = jm_admins[b]
    BY <2>0, <1>a, <1>i
  <2>4. MachinesTypeOK'
    BY <2>0, <2>2, <2>3 DEF MachinesTypeOK
  <2>5. ListIsOfConns' /\ ShakesAlone' /\ VersionsFollow'
    BY <2>0 DEF ListIsOfConns, ShakesAlone, Up, VersionsFollow
  <2>6. OnlineIsTrue'
    BY <2>0, <2>2 DEF OnlineIsTrue
  <2>7. DisabledFollows'
    <3>1. ~jm_crossed' => ~jm_crossed /\ jm_row = jm_admins[a].row
      BY <2>0
    <3>2. \A b \in JmAdmins : jm_admins'[b].at \in {"tell", "save"} => b # a
      BY <2>3
    <3>3. \A b \in JmAdmins : jm_admins[b].at \in {"tell", "save"} => b # a
      BY <2>0
    <3>4. \A b \in JmAdmins : /\ jm_admins'[b].at = "save" <=> jm_admins[b].at = "save"
                              /\ Disabling(b)' <=> Disabling(b)
                              /\ jm_admins'[b].at = "save" => jm_admins'[b].value = jm_admins[b].value
      BY <2>3, <3>2, <3>3 DEF Disabling
    <3> QED BY <2>0, <2>2, <3>1, <3>4 DEF DisabledFollows
  <2> QED BY <2>4, <2>5, <2>6, <2>7
<1> QED BY <1>1, <1>2, <1>3, <1>4

\* A restart of the bridge: the connections end, rows are cleared.
LEMMA RestartKeeps ==
    ASSUME MachinesInv, Restart
    PROVE  MachinesInv'
<1> USE DEF MachinesInv
<1>1. /\ UNCHANGED <<jm_versions, jm_overlap, jm_outlived, jm_crossed>> /\ jm_list' = {}
      /\ jm_row' = [jm_row EXCEPT !.online = FALSE]
      /\ jm_conns' = [c \in JmConns |-> IF jm_conns[c].at = "new" THEN jm_conns[c]
                                        ELSE [jm_conns[c] EXCEPT !.at = "gone"]]
      /\ jm_admins' = [a \in JmAdmins |-> IF jm_admins[a].at = "tell" THEN Over ELSE jm_admins[a]]
  BY DEF Restart, Over
<1>2. jm_row' \in JmRow /\ ~jm_row'.online
  BY <1>1 DEF JmRow, MachinesTypeOK
<1>3. \A c \in JmConns : jm_conns'[c].at \in {"new", "gone"}
  BY <1>1 DEF MachinesTypeOK
<1>4. MachinesTypeOK'
  <2>1. \A c \in JmConns : jm_conns'[c] \in [at : JmAts, disabled : BOOLEAN, row : JmRow]
    BY <1>1 DEF MachinesTypeOK, JmAts
  <2> QED BY <1>1, <1>2, <2>1 DEF MachinesTypeOK
<1>5. ListIsOfConns' /\ OnlineIsTrue'
  BY <1>1, <1>2, <1>3 DEF ListIsOfConns, OnlineIsTrue
<1>8. ShakesAlone' /\ VersionsFollow'
  BY <1>3 DEF ShakesAlone, Up, Shaking, VersionsFollow
<1>6. \A a \in JmAdmins : Disabling(a)' => Disabling(a)
  BY <1>1 DEF Disabling, Over
<1>7. DisabledFollows'
  BY <1>1, <1>3, <1>6 DEF DisabledFollows, Informed
<1> QED BY <1>4, <1>5, <1>7, <1>8

\* Handshakes, ends, the administration and restarts.
LEMMA MachinesStep == MachinesInv /\ [JmNext]_jmvars => MachinesInv'
<1> SUFFICES ASSUME MachinesInv, [JmNext]_jmvars PROVE MachinesInv'
  OBVIOUS
<1>1. CASE UNCHANGED jmvars
  BY <1>1 DEF jmvars, MachinesInv, MachinesTypeOK, ListIsOfConns, ShakesAlone, Up, VersionsFollow,
     OnlineIsTrue, DisabledFollows, Disabling
<1> QED
  BY <1>1, HandshakeKeeps, EndKeeps, AdminKeeps, RestartKeeps DEF JmNext

\* A row and versions that follow a connection are true of it.
LEMMA MachinesSafe == MachinesInv => MachinesHold
<1> SUFFICES ASSUME MachinesInv PROVE MachinesHold
  OBVIOUS
<1>1. OnlineIsTrue
  BY DEF MachinesInv
<1>2. VersionsAreOwn
  BY DEF MachinesInv, VersionsFollow, VersionsAreOwn
<1>3. DisabledIsKnown
  BY DEF MachinesInv, DisabledFollows, DisabledIsKnown, Disabling, Informed, MachinesTypeOK
<1> QED BY <1>1, <1>2, <1>3 DEF MachinesHold

\* The row of a judge (judge_handler.py, judge_list.py): whatever the order of handshakes, ends of
\* connections, failed dispatches, restarts and changes of the administration, it follows the newest
\* connection, but for one during which an older connection of the judge recorded its end.
THEOREM RowsFollowConnections == JmSpec => []MachinesHold
<1>1. JmInit => MachinesInv
  BY MachinesInit
<1>2. MachinesInv /\ [JmNext]_jmvars => MachinesInv'
  BY MachinesStep
<1>3. MachinesInv => MachinesHold
  BY MachinesSafe
<1> QED
  BY <1>1, <1>2, <1>3, PTL DEF JmSpec

-----------------------------------------------------------------------------
(* The announcements of a submission.                                      *)

\* Where the window of the counter c begins among the announcements p.
WindowStart(p, c) == Len(p) + 1 - (IF c[1] <= RateLimit THEN c[1] ELSE RateLimit)

\* Announcements are in the order of their times; those no further apart than the window is are
\* fewer than twice the limit; and of those before the present window, those that are no
\* further from its beginning are fewer than the limit.
Posted(p, c, now) ==
    /\ p \in Seq(Nat)
    /\ \A i \in 1 .. Len(p) : p[i] <= now
    /\ \A i, j \in 1 .. Len(p) : i <= j => p[i] <= p[j]
    /\ \A i, j \in 1 .. Len(p) : i < j /\ p[j] <= p[i] + RateTime => j <= i + 2 * RateLimit - 2
    /\ c = <<>> => p = <<>>
    /\ c # <<>> =>
          /\ c \in (Nat \ {0}) \X Nat
          /\ WindowStart(p, c) \in 1 .. Len(p)
          /\ p[WindowStart(p, c)] = c[2]
          /\ \A i \in 1 .. Len(p) :
                i < WindowStart(p, c) /\ c[2] <= p[i] + RateTime => WindowStart(p, c) <= i + RateLimit - 1

\* What holds of them goes on holding as time passes.
LEMMA PostedLater ==
    ASSUME NEW p, NEW c, NEW now \in Nat, NEW then \in Nat, now <= then, Posted(p, c, now)
    PROVE  Posted(p, c, then)
<1>1. \A i \in 1 .. Len(p) : p[i] <= then
  <2> SUFFICES ASSUME NEW i \in 1 .. Len(p) PROVE p[i] <= then
    OBVIOUS
  <2>1. p[i] \in Nat /\ p[i] <= now
    BY DEF Posted
  <2> QED BY <2>1
<1> QED
  BY <1>1 DEF Posted

\* A place counted back from the next entry.
LEMMA LessThanSum ==
    ASSUME NEW a \in Int, NEW b \in Int
    PROVE  a + 1 = (a + 1 - b) + b
OBVIOUS

\* A new window begins with an announcement.
LEMMA NewWindow ==
    ASSUME ProgressAssumption, NEW p, NEW c, NEW now \in Nat, Posted(p, c, now),
           c = <<>> \/ now - c[2] > RateTime
    PROVE  Posted(Append(p, now), <<1, now>>, now)
<1> DEFINE q == Append(p, now)
           n == Len(p) + 1
           d == <<1, now>>
<1>0. RateLimit \in Nat /\ 1 <= RateLimit /\ RateTime \in Nat
  BY DEF ProgressAssumption
<1>1. p \in Seq(Nat) /\ Len(p) \in Nat /\ q \in Seq(Nat) /\ Len(q) = n
  BY DEF Posted
<1>2. \A i \in 1 .. Len(p) : q[i] = p[i] /\ p[i] \in Nat
  BY <1>1
<1>3. q[n] = now /\ n \in Nat
  BY <1>1
<1>4. \A i \in 1 .. n : i = n \/ i \in 1 .. Len(p)
  BY <1>1
<1>5. WindowStart(q, d) = n
  BY <1>0, <1>1 DEF WindowStart
\* An announcement that recent came after the beginning of the window before.
<1>6. ASSUME NEW i \in 1 .. Len(p), now <= p[i] + RateTime
      PROVE  n <= i + RateLimit - 1
  <2>1. c # <<>>
    <3>1. p # <<>>
      BY <1>1
    <3> QED BY <3>1 DEF Posted
  <2> DEFINE w == WindowStart(p, c)
  <2>2. /\ c[1] \in Nat \ {0} /\ c[2] \in Nat /\ w \in 1 .. Len(p) /\ p[w] = c[2]
        /\ w = Len(p) + 1 - (IF c[1] <= RateLimit THEN c[1] ELSE RateLimit)
    BY <2>1 DEF Posted, WindowStart
  <2>3. w \in Nat /\ Len(p) + 1 <= w + RateLimit
    <3>1. w \in Nat
      BY <2>2
    <3>2. CASE c[1] <= RateLimit
      <4>1. w = Len(p) + 1 - c[1]
        BY <2>2, <3>2
      <4>2. Len(p) + 1 = w + c[1]
        <5>1. Len(p) \in Int /\ c[1] \in Int
          BY <2>2, <1>1
        <5> QED BY <4>1, <5>1, LessThanSum
      <4> HIDE DEF w
      <4> QED BY <2>2, <3>1, <3>2, <4>2, <1>0
    <3>3. CASE ~(c[1] <= RateLimit)
      <4>1. w = Len(p) + 1 - RateLimit
        BY <2>2, <3>3
      <4>2. Len(p) + 1 = w + RateLimit
        <5>1. Len(p) \in Int /\ RateLimit \in Int
          BY <1>0, <1>1
        <5> QED BY <4>1, <5>1, LessThanSum
      <4> HIDE DEF w
      <4> QED BY <3>1, <4>2, <1>0
    <3> QED BY <3>2, <3>3
  <2>4. now - c[2] > RateTime
    BY <2>1
  <2>5. c[2] < p[i]
    BY <2>2, <2>4, <1>2, <1>6, <1>0
  <2>6. ~(i <= w)
    <3>1. i <= w => p[i] <= p[w]
      BY <2>2 DEF Posted
    <3> HIDE DEF w
    <3> QED BY <3>1, <2>2, <2>5, <1>2
  <2> HIDE DEF w
  <2> QED BY <2>3, <2>6, <1>0, <1>1
<1>7. \A i \in 1 .. n : q[i] <= now
  BY <1>1, <1>2, <1>3, <1>4 DEF Posted
<1>8. ASSUME NEW i \in 1 .. n, NEW j \in 1 .. n, i <= j
      PROVE  q[i] <= q[j]
  <2>1. CASE j = n
    BY <2>1, <1>7, <1>3
  <2>2. CASE j # n
    <3>1. i \in 1 .. Len(p) /\ j \in 1 .. Len(p)
      BY <2>2, <1>8, <1>1
    <3> QED BY <3>1, <1>2, <1>8 DEF Posted
  <2> QED BY <2>1, <2>2
<1>9. ASSUME NEW i \in 1 .. n, NEW j \in 1 .. n, i < j, q[j] <= q[i] + RateTime
      PROVE  j <= i + 2 * RateLimit - 2
  <2>1. i \in 1 .. Len(p)
    BY <1>9, <1>1
  <2>2. CASE j = n
    <3>1. n <= i + RateLimit - 1
      BY <2>1, <2>2, <1>2, <1>3, <1>6, <1>9
    <3> HIDE DEF n
    <3> QED BY <3>1, <2>2, <1>0, <1>3
  <2>3. CASE j # n
    <3>1. j \in 1 .. Len(p)
      BY <2>3, <1>1
    <3> QED BY <2>1, <3>1, <1>2, <1>9 DEF Posted
  <2> QED BY <2>2, <2>3
<1>10. ASSUME NEW i \in 1 .. n, i < n, d[2] <= q[i] + RateTime
       PROVE  n <= i + RateLimit - 1
  <2>1. i \in 1 .. Len(p)
    BY <1>10, <1>1
  <2> QED BY <2>1, <1>10, <1>6, <1>2
<1>11. d \in (Nat \ {0}) \X Nat /\ d # <<>> /\ d[2] = now /\ n \in 1 .. n
  BY <1>3
<1> HIDE DEF q, d
<1>12. /\ \A i \in 1 .. Len(q) : q[i] <= now
       /\ \A i, j \in 1 .. Len(q) : i <= j => q[i] <= q[j]
       /\ \A i, j \in 1 .. Len(q) : i < j /\ q[j] <= q[i] + RateTime => j <= i + 2 * RateLimit - 2
       /\ \A i \in 1 .. Len(q) : i < n /\ d[2] <= q[i] + RateTime => n <= i + RateLimit - 1
  BY <1>1, <1>7, <1>8, <1>9, <1>10
<1> HIDE DEF n
<1> QED
  BY <1>1, <1>3, <1>5, <1>11, <1>12 DEF Posted, q, d

\* An entry more and an update more in the window leave its beginning where it is.
LEMMA OneLessOfOneMore ==
    ASSUME NEW a \in Int, NEW b \in Int
    PROVE  a + 1 + 1 - (b + 1) = a + 1 - b
OBVIOUS

\* The distance between two places.
LEMMA LengthOfInterval ==
    ASSUME NEW a \in Int, NEW b \in Int, NEW k \in Int, b = a + k
    PROVE  b - a = k
OBVIOUS

\* One more announcement in the window.
LEMMA SameWindow ==
    ASSUME ProgressAssumption, NEW p, NEW c, NEW now \in Nat, Posted(p, c, now),
           c # <<>>, now - c[2] <= RateTime, c[1] + 1 <= RateLimit
    PROVE  Posted(Append(p, now), <<c[1] + 1, c[2]>>, now)
<1> DEFINE q == Append(p, now)
           n == Len(p) + 1
           d == <<c[1] + 1, c[2]>>
           w == WindowStart(p, c)
<1>0. RateLimit \in Nat /\ 1 <= RateLimit /\ RateTime \in Nat
  BY DEF ProgressAssumption
<1>1. p \in Seq(Nat) /\ Len(p) \in Nat /\ q \in Seq(Nat) /\ Len(q) = n
  BY DEF Posted
<1>2. \A i \in 1 .. Len(p) : q[i] = p[i] /\ p[i] \in Nat
  BY <1>1
<1>3. q[n] = now /\ n \in Nat
  BY <1>1
<1>4. \A i \in 1 .. n : i = n \/ i \in 1 .. Len(p)
  BY <1>1
<1>5. c[1] \in Nat \ {0} /\ c[2] \in Nat /\ w \in 1 .. Len(p) /\ p[w] = c[2] /\ c[1] <= RateLimit
  <2>1. c[1] \in Nat \ {0} /\ c[2] \in Nat /\ w \in 1 .. Len(p) /\ p[w] = c[2]
    BY DEF Posted
  <2> QED BY <2>1, <1>0
<1>6. w = Len(p) + 1 - c[1] /\ WindowStart(q, d) = w
  <2>1. w = Len(p) + 1 - c[1]
    BY <1>5 DEF WindowStart
  <2>2. d[1] = c[1] + 1 /\ d[1] <= RateLimit
    OBVIOUS
  <2>3. WindowStart(q, d) = n + 1 - (c[1] + 1)
    BY <2>2, <1>1 DEF WindowStart
  <2>4. n + 1 - (c[1] + 1) = Len(p) + 1 - c[1]
    <3>1. Len(p) \in Int /\ c[1] \in Int
      BY <1>1, <1>5
    <3> QED BY <3>1, OneLessOfOneMore
  <2> QED BY <2>1, <2>3, <2>4
<1>7. \A i \in 1 .. n : q[i] <= now
  BY <1>1, <1>2, <1>3, <1>4 DEF Posted
<1>8. ASSUME NEW i \in 1 .. n, NEW j \in 1 .. n, i <= j
      PROVE  q[i] <= q[j]
  <2>1. CASE j = n
    BY <2>1, <1>7, <1>3
  <2>2. CASE j # n
    <3>1. i \in 1 .. Len(p) /\ j \in 1 .. Len(p)
      BY <2>2, <1>8, <1>1
    <3> QED BY <3>1, <1>2, <1>8 DEF Posted
  <2> QED BY <2>1, <2>2
<1>10. ASSUME NEW i \in 1 .. n, i < w, c[2] <= q[i] + RateTime
       PROVE  w <= i + RateLimit - 1
  <2>1. i \in 1 .. Len(p)
    <3> HIDE DEF w
    <3> QED BY <1>10, <1>1, <1>5
  <2> QED BY <2>1, <1>10, <1>2 DEF Posted
<1>9. ASSUME NEW i \in 1 .. n, NEW j \in 1 .. n, i < j, q[j] <= q[i] + RateTime
      PROVE  j <= i + 2 * RateLimit - 2
  <2>1. i \in 1 .. Len(p)
    BY <1>9, <1>1
  <2>2. CASE j = n
    <3>1. n + 1 <= w + RateLimit
      <4> HIDE DEF w
      <4> QED BY <1>0, <1>1, <1>5, <1>6
    <3>2. CASE w <= i
      <4>1. c[1] + 1 <= RateLimit
        OBVIOUS
      <4> HIDE DEF w, n
      <4> QED BY <3>1, <3>2, <2>2, <2>1, <4>1, <1>0, <1>3, <1>5
    <3>3. CASE i < w
      <4>1. c[2] <= now
        BY <1>5 DEF Posted
      <4>2. c[2] <= q[i] + RateTime
        BY <4>1, <2>1, <2>2, <1>2, <1>3, <1>5, <1>0, <1>9
      <4>3. w <= i + RateLimit - 1
        BY <3>3, <4>2, <1>10
      <4> HIDE DEF w, n
      <4> QED BY <3>1, <4>3, <2>2, <2>1, <1>0, <1>3, <1>5
    <3>4. w \in Nat /\ i \in Nat
      BY <1>5
    <3> HIDE DEF w
    <3> QED BY <3>2, <3>3, <3>4
  <2>3. CASE j # n
    <3>1. j \in 1 .. Len(p)
      BY <2>3, <1>1
    <3> QED BY <2>1, <3>1, <1>2, <1>9 DEF Posted
  <2> QED BY <2>2, <2>3
<1>11. d \in (Nat \ {0}) \X Nat /\ d # <<>> /\ d[2] = c[2]
  BY <1>5
<1>13. w \in 1 .. n /\ q[w] = c[2]
  <2> HIDE DEF w
  <2> QED BY <1>1, <1>2, <1>5
<1> HIDE DEF q, d, w
<1>12. /\ \A i \in 1 .. Len(q) : q[i] <= now
       /\ \A i, j \in 1 .. Len(q) : i <= j => q[i] <= q[j]
       /\ \A i, j \in 1 .. Len(q) : i < j /\ q[j] <= q[i] + RateTime => j <= i + 2 * RateLimit - 2
       /\ \A i \in 1 .. Len(q) : i < w /\ d[2] <= q[i] + RateTime => w <= i + RateLimit - 1
  BY <1>1, <1>7, <1>8, <1>9, <1>10, <1>11
<1> HIDE DEF n
<1> QED
  BY <1>1, <1>3, <1>6, <1>11, <1>12, <1>13 DEF Posted, q, d

\* One more update in the window, past the limit.
LEMMA PastTheLimit ==
    ASSUME ProgressAssumption, NEW p, NEW c, NEW now \in Nat, Posted(p, c, now),
           c # <<>>, ~(c[1] + 1 <= RateLimit)
    PROVE  Posted(p, <<c[1] + 1, c[2]>>, now)
<1> DEFINE d == <<c[1] + 1, c[2]>>
<1>0. RateLimit \in Nat /\ 1 <= RateLimit
  BY DEF ProgressAssumption
<1>1. c[1] \in Nat \ {0} /\ c[2] \in Nat
  BY DEF Posted
<1>2. ~(d[1] <= RateLimit) /\ (c[1] <= RateLimit => c[1] = RateLimit)
  BY <1>0, <1>1
<1>3. WindowStart(p, d) = WindowStart(p, c)
  BY <1>2 DEF WindowStart
<1>4. d \in (Nat \ {0}) \X Nat /\ d # <<>> /\ d[2] = c[2]
  BY <1>1
<1> HIDE DEF d
<1> QED
  BY <1>3, <1>4 DEF Posted, d

\* As many as the length of the interval the limit of announcements falls into.
LEMMA FewerThanTwice ==
    ASSUME ProgressAssumption, NEW p, NEW c, NEW now \in Nat, Posted(p, c, now), NEW t \in Nat
    PROVE  Cardinality({i \in DOMAIN p : t <= p[i] /\ p[i] <= t + RateTime}) < 2 * RateLimit
<1> DEFINE I == {i \in DOMAIN p : t <= p[i] /\ p[i] <= t + RateTime}
<1>0. RateLimit \in Nat /\ 1 <= RateLimit /\ RateTime \in Nat
  BY DEF ProgressAssumption
<1>1. p \in Seq(Nat) /\ Len(p) \in Nat /\ DOMAIN p = 1 .. Len(p) /\ \A i \in 1 .. Len(p) : p[i] \in Nat
  BY DEF Posted
<1>2. CASE I = {}
  BY <1>2, <1>0, FS_EmptySet
<1>3. CASE I # {}
  <2>1. I \subseteq Nat
    BY <1>1
  <2>2. PICK m \in I : \A i \in I : ~(<<i, m>> \in OpToRel(<, Nat))
    BY <1>3, <2>1, NatLessThanWellFounded, WFMin
  <2>3. \A i \in I : m <= i
    <3> SUFFICES ASSUME NEW i \in I, ~(m <= i) PROVE FALSE
      OBVIOUS
    <3>1. i \in Nat /\ m \in Nat /\ i < m
      BY <2>1
    <3>2. <<i, m>> \in OpToRel(<, Nat)
      BY <3>1 DEF OpToRel
    <3> QED BY <2>2, <3>2
  <2> DEFINE e == m + 2 * RateLimit - 2
  <2>4. m \in Nat /\ e \in Nat /\ m \in 1 .. Len(p) /\ t <= p[m]
    BY <2>1, <1>0, <1>1
  <2>5. I \subseteq m .. e
    <3> SUFFICES ASSUME NEW i \in I PROVE i \in m .. e
      OBVIOUS
    <3>1. i \in 1 .. Len(p) /\ m <= i /\ p[i] <= t + RateTime
      BY <2>3, <1>1
    <3>2. CASE i = m
      BY <3>2, <2>4, <1>0
    <3>3. CASE i # m
      <4>1. m < i /\ p[i] <= p[m] + RateTime
        BY <3>1, <3>3, <2>4, <1>0, <1>1
      <4>2. i <= e
        BY <4>1, <3>1, <2>4 DEF Posted
      <4> QED BY <4>2, <3>1, <2>4
    <3> QED BY <3>2, <3>3
  <2>6. IsFiniteSet(m .. e) /\ Cardinality(m .. e) = 2 * RateLimit - 1
    <3>1. m \in Int /\ e \in Int /\ ~(m > e) /\ e = m + (2 * RateLimit - 2) /\ 2 * RateLimit - 2 \in Int
      BY <2>4, <1>0
    <3>2. e - m = 2 * RateLimit - 2
      <4> HIDE DEF e
      <4> QED BY <3>1, LengthOfInterval
    <3> HIDE DEF e
    <3>3. IsFiniteSet(m .. e) /\ Cardinality(m .. e) = e - m + 1
      BY <3>1, FS_Interval
    <3> QED BY <3>2, <3>3, <1>0
  <2>7. Cardinality(I) <= Cardinality(m .. e)
    BY <2>5, <2>6, FS_Subset
  <2>8. IsFiniteSet(I) /\ Cardinality(I) \in Nat
    BY <2>5, <2>6, FS_Subset, FS_CardinalityType
  <2>9. 2 * RateLimit - 1 < 2 * RateLimit /\ 2 * RateLimit - 1 \in Int /\ 2 * RateLimit \in Int
    BY <1>0
  <2>10. Cardinality(I) < 2 * RateLimit
    <3> HIDE DEF I, e
    <3> QED BY <2>6, <2>7, <2>8, <2>9
  <2> QED BY <2>10
<1> QED
  BY <1>2, <1>3


-----------------------------------------------------------------------------
(* Gradings.                                                               *)

PrRow == [batch : BOOLEAN, cases : SUBSET (Nat \X Nat), truth : SUBSET (Nat \X Nat), last : Nat]
PrWork == [sub : PrSubs, in : Nat, batches : Nat, cases : Nat]

ProgressTypeOK ==
    /\ pr_judge = Nobody \/ pr_judge \in PrWork
    /\ pr_batch \in Nat /\ pr_in \in BOOLEAN
    /\ pr_rows \in [PrSubs -> PrRow]
    /\ DOMAIN pr_counter = PrSubs /\ DOMAIN pr_posts = PrSubs
    /\ pr_clock \in Nat

\* batch_id is the number of batches of the grading, in_batch says that the judge is in the
\* last one - or, after a grading cut short, that there is none yet -, and the row says that
\* there are batches as soon as there is one.
BatchKept ==
    pr_judge # Nobody =>
       /\ pr_batch = pr_judge.batches
       /\ pr_judge.in = (IF pr_in THEN pr_batch ELSE NoBatch)
       /\ pr_batch # NoBatch => pr_rows[pr_judge.sub].batch

ProgressInv ==
    /\ ProgressTypeOK /\ BatchKept /\ BatchesAreTheJudges /\ SilenceIsShort
    /\ \A s \in PrSubs : Posted(pr_posts[s], pr_counter[s], pr_clock)

\* Before the first grading nothing was announced.
LEMMA ProgressBegins == ProgressAssumption /\ PrInit => ProgressInv
<1> SUFFICES ASSUME ProgressAssumption, PrInit PROVE ProgressInv
  OBVIOUS
<1>1. ProgressTypeOK
  <2>1. [batch |-> FALSE, cases |-> {}, truth |-> {}, last |-> 0] \in PrRow
    BY DEF PrRow
  <2>2. pr_rows \in [PrSubs -> PrRow]
    BY <2>1 DEF PrInit
  <2> QED BY <2>2 DEF PrInit, ProgressTypeOK, NoBatch
<1>2. BatchKept /\ BatchesAreTheJudges /\ SilenceIsShort
  BY DEF PrInit, BatchKept, BatchesAreTheJudges, SilenceIsShort
<1>3. ASSUME NEW s \in PrSubs PROVE Posted(pr_posts[s], pr_counter[s], pr_clock)
  <2>1. pr_posts[s] = <<>> /\ pr_counter[s] = <<>> /\ pr_clock = 0
    BY DEF PrInit
  <2> QED BY <2>1 DEF Posted
<1> QED
  BY <1>1, <1>2, <1>3 DEF ProgressInv

\* Every packet of a grading, and time, keep what the connection knows of its batch and its windows.
LEMMA ProgressStep == ProgressAssumption /\ ProgressInv /\ [PrNext]_prvars => ProgressInv'
<1> SUFFICES ASSUME ProgressAssumption, ProgressInv, [PrNext]_prvars
             PROVE  ProgressInv'
  OBVIOUS
<1>t. ProgressTypeOK /\ BatchKept /\ BatchesAreTheJudges /\ SilenceIsShort
  BY DEF ProgressInv
<1>q. \A s \in PrSubs : Posted(pr_posts[s], pr_counter[s], pr_clock)
  BY DEF ProgressInv
\* What leaves the announcements alone, and the cases but for those of a row made empty.
<1>u. ASSUME pr_clock' \in Nat, pr_clock <= pr_clock', UNCHANGED <<pr_counter, pr_posts>>
      PROVE  \A s \in PrSubs : Posted(pr_posts[s], pr_counter[s], pr_clock)'
  <2> SUFFICES ASSUME NEW s \in PrSubs PROVE Posted(pr_posts'[s], pr_counter'[s], pr_clock')
    OBVIOUS
  <2>1. pr_clock \in Nat
    BY <1>t DEF ProgressTypeOK
  <2>2. Posted(pr_posts[s], pr_counter[s], pr_clock')
    BY <1>q, <1>u, <2>1, PostedLater
  <2> QED BY <2>2, <1>u
<1>v. pr_clock \in Nat /\ pr_clock <= pr_clock
  BY <1>t DEF ProgressTypeOK
<1>1. ASSUME NEW s \in PrSubs, GradingBegin(s)
      PROVE  ProgressInv'
  <2>0. /\ pr_judge' = [sub |-> s, in |-> 0, batches |-> 0, cases |-> 0]
        /\ pr_batch' = 0 /\ pr_in' = pr_in
        /\ pr_rows' = [pr_rows EXCEPT ![s] = [batch |-> FALSE, cases |-> {}, truth |-> {}, last |-> 0]]
        /\ UNCHANGED <<pr_counter, pr_clock, pr_posts>>
    BY <1>1 DEF GradingBegin, FreshBatch, NoBatch
  <2>1. ProgressTypeOK'
    BY <2>0, <1>t DEF ProgressTypeOK, PrRow, PrWork
  <2>2. BatchKept'
    BY <2>0 DEF BatchKept, NoBatch
  <2>3. ASSUME NEW r \in PrSubs
        PROVE  pr_rows'[r] = pr_rows[r] \/ (pr_rows'[r].cases = {} /\ pr_rows'[r].truth = {})
    BY <2>0, <1>t DEF ProgressTypeOK
  <2>4. BatchesAreTheJudges' /\ SilenceIsShort'
    BY <2>0, <2>3, <1>t DEF BatchesAreTheJudges, SilenceIsShort
  <2> QED BY <2>0, <2>1, <2>2, <2>4, <1>u, <1>v DEF ProgressInv
<1>2. CASE BatchBegin
  <2>0. /\ pr_judge # Nobody /\ pr_judge \in PrWork /\ pr_judge.in = 0
        /\ pr_judge' = [pr_judge EXCEPT !.in = pr_judge.batches + 1, !.batches = @ + 1]
        /\ pr_in' = TRUE /\ pr_batch' = pr_batch + 1
        /\ pr_rows' = IF pr_batch = 0 THEN [pr_rows EXCEPT ![pr_judge.sub].batch = TRUE] ELSE pr_rows
        /\ UNCHANGED <<pr_counter, pr_clock, pr_posts>>
    BY <1>2, <1>t DEF BatchBegin, ProgressTypeOK, NoBatch
  <2>1. pr_judge.sub \in PrSubs /\ pr_judge.batches \in Nat /\ pr_judge.cases \in Nat /\ pr_batch \in Nat
    BY <2>0, <1>t DEF ProgressTypeOK, PrWork
  <2>2. pr_judge' = [sub |-> pr_judge.sub, in |-> pr_judge.batches + 1,
                     batches |-> pr_judge.batches + 1, cases |-> pr_judge.cases]
    BY <2>0 DEF PrWork
  <2>3. pr_judge' \in PrWork /\ pr_batch' \in Nat
    BY <2>0, <2>1, <2>2 DEF PrWork
  <2>4. /\ pr_rows' \in [PrSubs -> PrRow]
        /\ pr_rows'[pr_judge.sub].batch
        /\ \A r \in PrSubs : /\ pr_rows'[r].cases = pr_rows[r].cases /\ pr_rows'[r].truth = pr_rows[r].truth
                             /\ pr_rows'[r].last = pr_rows[r].last
                             /\ pr_rows[r].batch => pr_rows'[r].batch
    <3>1. pr_rows \in [PrSubs -> PrRow]
      BY <1>t DEF ProgressTypeOK
    <3>2. CASE pr_batch = 0
      BY <2>0, <2>1, <3>1, <3>2 DEF PrRow
    <3>3. CASE pr_batch # 0
      BY <2>0, <2>1, <3>1, <3>3, <1>t DEF BatchKept, NoBatch
    <3> QED BY <3>2, <3>3
  <2>5. ProgressTypeOK'
    BY <2>0, <2>3, <2>4, <1>t DEF ProgressTypeOK
  <2>6. BatchKept'
    BY <2>0, <2>1, <2>2, <2>4, <1>t DEF BatchKept
  <2>7. BatchesAreTheJudges' /\ SilenceIsShort'
    BY <2>0, <2>4, <1>t DEF BatchesAreTheJudges, SilenceIsShort
  <2> QED BY <2>0, <2>5, <2>6, <2>7, <1>u, <1>v DEF ProgressInv
<1>3. CASE BatchEnd
  <2>0. /\ pr_judge # Nobody /\ pr_judge \in PrWork
        /\ pr_judge' = [pr_judge EXCEPT !.in = 0]
        /\ pr_in' = FALSE
        /\ UNCHANGED <<pr_batch, pr_rows, pr_counter, pr_clock, pr_posts>>
    BY <1>3, <1>t DEF BatchEnd, ProgressTypeOK, NoBatch
  <2>2. pr_judge' = [sub |-> pr_judge.sub, in |-> 0, batches |-> pr_judge.batches, cases |-> pr_judge.cases]
    BY <2>0 DEF PrWork
  <2>3. pr_judge' \in PrWork
    BY <2>0, <2>2 DEF PrWork
  <2>5. ProgressTypeOK'
    BY <2>0, <2>3, <1>t DEF ProgressTypeOK
  <2>6. BatchKept'
    BY <2>0, <2>2, <1>t DEF BatchKept, NoBatch
  <2>7. BatchesAreTheJudges' /\ SilenceIsShort'
    BY <2>0, <1>t DEF BatchesAreTheJudges, SilenceIsShort
  <2> QED BY <2>0, <2>5, <2>6, <2>7, <1>u, <1>v DEF ProgressInv
<1>4. CASE TestCase
  <2> DEFINE s == pr_judge.sub
             case == pr_judge.cases + 1
             new == CaseCounted(pr_counter[s])
             in == IF pr_in THEN pr_batch ELSE NoBatch
  <2>a. pr_judge # Nobody
    BY <1>4 DEF TestCase
  <2>b. s \in PrSubs /\ pr_judge \in PrWork /\ case \in Nat /\ in \in Nat /\ pr_judge.in = in
        /\ (in # NoBatch => pr_rows[s].batch)
    BY <2>a, <1>t DEF ProgressTypeOK, PrWork, BatchKept, NoBatch
  <2>0. /\ pr_judge' = [pr_judge EXCEPT !.cases = case]
        /\ pr_rows' = [pr_rows EXCEPT ![s] =
              [batch |-> @.batch, last |-> pr_clock, cases |-> @.cases \cup {<<case, in>>},
               truth |-> @.truth \cup {<<case, pr_judge.in>>}]]
        /\ pr_counter' = [pr_counter EXCEPT ![s] = new]
        /\ pr_posts' = IF Announced(new) THEN [pr_posts EXCEPT ![s] = Append(@, pr_clock)] ELSE pr_posts
        /\ UNCHANGED <<pr_batch, pr_in, pr_clock>>
    BY <1>4 DEF TestCase
  <2>2. pr_judge' = [sub |-> s, in |-> pr_judge.in, batches |-> pr_judge.batches, cases |-> case]
    BY <2>0, <2>b DEF PrWork
  <2>3. pr_judge' \in PrWork
    BY <2>b, <2>2 DEF PrWork
  <2>4. pr_rows \in [PrSubs -> PrRow] /\ pr_clock \in Nat
    BY <1>t DEF ProgressTypeOK
  <2>5. /\ pr_rows' \in [PrSubs -> PrRow]
        /\ pr_rows'[s].cases = pr_rows[s].cases \cup {<<case, in>>}
        /\ pr_rows'[s].truth = pr_rows[s].truth \cup {<<case, in>>}
        /\ pr_rows'[s].last = pr_clock
        /\ pr_rows'[s].batch = pr_rows[s].batch
        /\ \A r \in PrSubs : r # s => pr_rows'[r] = pr_rows[r]
    <3> DEFINE row == [batch |-> pr_rows[s].batch, last |-> pr_clock,
                       cases |-> pr_rows[s].cases \cup {<<case, in>>},
                       truth |-> pr_rows[s].truth \cup {<<case, in>>}]
    <3> HIDE DEF case, in, new
    <3>1. pr_rows' = [pr_rows EXCEPT ![s] = row]
      BY <2>0, <2>b
    <3>2. row \in PrRow
      BY <2>b, <2>4 DEF PrRow
    <3> HIDE DEF s
    <3> QED BY <3>1, <3>2, <2>b, <2>4
  <2>6. ProgressTypeOK'
    BY <2>0, <2>3, <2>5, <1>t DEF ProgressTypeOK
  <2>7. BatchKept'
    <3>1. /\ pr_judge'.sub = s /\ pr_judge'.in = pr_judge.in /\ pr_judge'.batches = pr_judge.batches
      BY <2>2
    <3>2. pr_batch' = pr_batch /\ pr_in' = pr_in
      BY <2>0
    <3>3. pr_batch = pr_judge.batches /\ (pr_batch # NoBatch => pr_rows[s].batch) /\ pr_judge.in = in
      BY <2>a, <2>b, <1>t DEF BatchKept
    <3>4. pr_rows'[s].batch = pr_rows[s].batch
      BY <2>5
    <3> HIDE DEF s
    <3> QED BY <3>1, <3>2, <3>3, <3>4 DEF BatchKept
  <2>8. BatchesAreTheJudges'
    <3> SUFFICES ASSUME NEW r \in PrSubs
                 PROVE  /\ pr_rows'[r].cases = pr_rows'[r].truth
                        /\ (\E x \in pr_rows'[r].cases : x[2] # NoBatch) => pr_rows'[r].batch
      BY DEF BatchesAreTheJudges
    <3>1. /\ pr_rows[r].cases = pr_rows[r].truth
          /\ (\E x \in pr_rows[r].cases : x[2] # NoBatch) => pr_rows[r].batch
      BY <1>t DEF BatchesAreTheJudges
    <3>2. CASE r = s
      <4> HIDE DEF case, in, s
      <4> QED BY <2>5, <2>b, <3>1, <3>2
    <3>3. CASE r # s
      BY <2>5, <3>1, <3>3
    <3> QED BY <3>2, <3>3
  <2> DEFINE c == pr_counter[s]
             p == pr_posts[s]
             q == IF Announced(new) THEN Append(p, pr_clock) ELSE p
  <2>9. Posted(p, c, pr_clock) /\ RateLimit \in Nat \ {0} /\ RateTime \in Nat
    BY <1>q, <2>b DEF ProgressAssumption
  <2>10. /\ Posted(q, new, pr_clock)
         /\ \E i \in DOMAIN q : pr_clock <= q[i] + RateTime
    <3>0. p \in Seq(Nat) /\ (c # <<>> => c[1] \in Nat /\ c[2] \in Nat)
      BY <2>9 DEF Posted
    <3>1. CASE c = <<>> \/ WindowOver(c[2])
      <4>1. new = <<1, pr_clock>> /\ Announced(new)
        BY <3>1, <2>9 DEF CaseCounted, Announced
      <4>2. c = <<>> \/ pr_clock - c[2] > RateTime
        BY <3>1 DEF WindowOver
      <4>3. q = Append(p, pr_clock)
        BY <4>1
      <4>4. Posted(q, <<1, pr_clock>>, pr_clock)
        <5> HIDE DEF c, p, q
        <5> QED BY <4>2, <4>3, <2>9, <2>4, NewWindow
      <4>5. Len(p) + 1 \in DOMAIN q /\ q[Len(p) + 1] = pr_clock
        <5> HIDE DEF p, q
        <5> QED BY <4>3, <3>0, <2>4
      <4>6. pr_clock <= pr_clock + RateTime
        BY <2>4, <2>9
      <4> QED BY <4>1, <4>4, <4>5, <4>6
    <3>2. CASE ~(c = <<>> \/ WindowOver(c[2]))
      <4>1. new = <<c[1] + 1, c[2]>> /\ c # <<>>
        BY <3>2 DEF CaseCounted
      <4>2. pr_clock - c[2] <= RateTime
        BY <3>2, <3>0, <2>4, <2>9 DEF WindowOver
      <4>3. pr_clock <= c[2] + RateTime
        BY <4>2, <4>1, <3>0, <2>4, <2>9
      <4>4. WindowStart(p, c) \in 1 .. Len(p) /\ p[WindowStart(p, c)] = c[2]
        BY <4>1, <2>9 DEF Posted
      <4>5. CASE Announced(new)
        <5>1. c[1] + 1 <= RateLimit /\ q = Append(p, pr_clock)
          BY <4>1, <4>5 DEF Announced
        <5>2. Posted(q, <<c[1] + 1, c[2]>>, pr_clock)
          <6> HIDE DEF c, p, q
          <6> QED BY <5>1, <4>1, <4>2, <2>4, <2>9, SameWindow
        <5>3. WindowStart(p, c) \in DOMAIN q /\ q[WindowStart(p, c)] = c[2]
          <6> HIDE DEF c, p, q
          <6> QED BY <4>4, <5>1, <3>0, <2>4
        <5> QED BY <4>1, <4>3, <5>2, <5>3
      <4>6. CASE ~Announced(new)
        <5>1. ~(c[1] + 1 <= RateLimit) /\ q = p
          BY <4>1, <4>6 DEF Announced
        <5>2. Posted(q, <<c[1] + 1, c[2]>>, pr_clock)
          <6> HIDE DEF c, p, q
          <6> QED BY <5>1, <4>1, <2>4, <2>9, PastTheLimit
        <5>3. WindowStart(p, c) \in DOMAIN q /\ q[WindowStart(p, c)] = c[2]
          <6> HIDE DEF c, p, q
          <6> QED BY <4>4, <5>1, <3>0
        <5> QED BY <4>1, <4>3, <5>2, <5>3
      <4> QED BY <4>5, <4>6
    <3> QED BY <3>1, <3>2
  <2>11. /\ pr_counter'[s] = new /\ pr_posts'[s] = q
         /\ \A r \in PrSubs : r # s => pr_counter'[r] = pr_counter[r] /\ pr_posts'[r] = pr_posts[r]
    <3>1. DOMAIN pr_counter = PrSubs /\ DOMAIN pr_posts = PrSubs
      BY <1>t DEF ProgressTypeOK
    <3> HIDE DEF new, s
    <3> QED BY <3>1, <2>0, <2>b DEF p, q
  <2>12. \A r \in PrSubs : Posted(pr_posts[r], pr_counter[r], pr_clock)'
    <3> HIDE DEF s, p, c, q, new
    <3> QED BY <2>10, <2>11, <2>0, <1>q
  <2>13. SilenceIsShort'
    <3> SUFFICES ASSUME NEW r \in PrSubs, pr_rows'[r].cases # {}
                 PROVE  \E i \in DOMAIN pr_posts'[r] : pr_rows'[r].last - pr_posts'[r][i] <= RateTime
      BY DEF SilenceIsShort
    <3>1. CASE r = s
      <4>1. PICK i \in DOMAIN q : pr_clock <= q[i] + RateTime
        BY <2>10
      <4>2. q \in Seq(Nat)
        BY <2>10 DEF Posted
      <4> HIDE DEF q, s, new, p, c
      <4>3. q[i] \in Nat
        BY <4>1, <4>2
      <4>4. pr_clock - q[i] <= RateTime
        BY <4>1, <4>3, <2>4, <2>9
      <4> QED BY <4>1, <4>4, <3>1, <2>5, <2>11
    <3>2. CASE r # s
      BY <3>2, <2>5, <2>11, <1>t DEF SilenceIsShort
    <3> QED BY <3>1, <3>2
  <2> QED BY <2>6, <2>7, <2>8, <2>12, <2>13 DEF ProgressInv
<1>5. CASE GradingEnd \/ CutShort
  <2>0. /\ pr_judge' = Nobody /\ pr_batch' \in Nat
        /\ UNCHANGED <<pr_in, pr_rows, pr_counter, pr_clock, pr_posts>>
    BY <1>5, <1>t DEF GradingEnd, CutShort, NoBatch, ProgressTypeOK
  <2>1. ProgressTypeOK' /\ BatchKept'
    BY <2>0, <1>t DEF ProgressTypeOK, BatchKept
  <2>2. BatchesAreTheJudges' /\ SilenceIsShort'
    BY <2>0, <1>t DEF BatchesAreTheJudges, SilenceIsShort
  <2> QED BY <2>0, <2>1, <2>2, <1>u, <1>v DEF ProgressInv
<1>6. CASE PrTick
  <2>0. /\ pr_clock' = pr_clock + 1
        /\ UNCHANGED <<pr_judge, pr_batch, pr_in, pr_rows, pr_counter, pr_posts>>
    BY <1>6 DEF PrTick
  <2>1. pr_clock' \in Nat /\ pr_clock <= pr_clock'
    BY <2>0, <1>v
  <2>2. ProgressTypeOK' /\ BatchKept'
    BY <2>0, <2>1, <1>t DEF ProgressTypeOK, BatchKept
  <2>3. BatchesAreTheJudges' /\ SilenceIsShort'
    BY <2>0, <1>t DEF BatchesAreTheJudges, SilenceIsShort
  <2> QED BY <2>0, <2>1, <2>2, <2>3, <1>u DEF ProgressInv
<1>7. CASE UNCHANGED prvars
  <2>1. UNCHANGED <<pr_judge, pr_batch, pr_in, pr_rows, pr_counter, pr_clock, pr_posts>>
    BY <1>7 DEF prvars
  <2>2. ProgressTypeOK' /\ BatchKept' /\ BatchesAreTheJudges' /\ SilenceIsShort'
    BY <2>1, <1>t DEF ProgressTypeOK, BatchKept, BatchesAreTheJudges, SilenceIsShort
  <2> QED BY <2>1, <2>2, <1>u, <1>v DEF ProgressInv
<1> QED
  BY <1>1, <1>2, <1>3, <1>4, <1>5, <1>6, <1>7 DEF PrNext

\* Windows kept apart make announcements few.
LEMMA ProgressSafe == ProgressAssumption /\ ProgressInv => ProgressHolds
<1> SUFFICES ASSUME ProgressAssumption, ProgressInv PROVE ProgressHolds
  OBVIOUS
<1>1. AnnouncementsAreFew
  <2> SUFFICES ASSUME NEW s \in PrSubs, NEW t \in 0 .. LastTick
               PROVE  Cardinality({i \in DOMAIN pr_posts[s] : t <= pr_posts[s][i] /\ pr_posts[s][i] <= t + RateTime})
                        < 2 * RateLimit
    BY DEF AnnouncementsAreFew
  <2>1. t \in Nat /\ pr_clock \in Nat /\ Posted(pr_posts[s], pr_counter[s], pr_clock)
    BY DEF ProgressInv, ProgressTypeOK, ProgressAssumption
  <2> QED BY <2>1, FewerThanTwice
<1> QED BY <1>1 DEF ProgressHolds, ProgressInv

\* A grading on a connection (judge_handler.py): cases are stored in the batch the judge ran them in, whatever
\* was cut short before; announcements are fewer than twice the limit in any interval as long as the window, and
\* no case arrives long after the last of them.
THEOREM ProgressIsKept == ASSUME ProgressAssumption PROVE PrSpec => []ProgressHolds
<1>1. PrInit => ProgressInv
  BY ProgressBegins
<1>2. ProgressInv /\ [PrNext]_prvars => ProgressInv'
  BY ProgressStep
<1>3. ProgressInv => ProgressHolds
  BY ProgressSafe
<1> QED
  BY <1>1, <1>2, <1>3, PTL DEF PrSpec

-----------------------------------------------------------------------------
(* Locks of submissions.                                                   *)

LkRow == [lock : Int, was : BOOLEAN]
LkRejudges == UNION {[kind : {"rejudge"}, rows : [D -> LkRow]] : D \in SUBSET LkSubs}
LkWorks == {NoWork} \cup [kind : {"save"}, lock : Int] \cup [kind : {"grade"}, sub : LkSubs, lock : Int]
              \cup [kind : {"submit"}, of : {"live", "virtual"}, lock : Int] \cup LkRejudges

LocksTypeOK ==
    /\ lk_clock \in Int /\ lk_contest \in Int
    /\ lk_subs \in [LkSubs -> [of : {"none", "live", "virtual"}, lock : Int]]
    /\ lk_requests \in [LkRequests -> LkWorks]

\* What was locked when its row was read is locked by that row from then on.
RowsStayLocked ==
    \A r \in LkRequests : lk_requests[r].kind = "rejudge" =>
       \A s \in DOMAIN lk_requests[r].rows :
          lk_requests[r].rows[s].was => Locked(lk_requests[r].rows[s].lock, lk_clock)

LocksInv == LocksTypeOK /\ RowsStayLocked /\ LocksHold

\* Which kind a request is of tells what it loaded.
LEMMA KindsOfWork ==
    ASSUME NEW w \in LkWorks
    PROVE  /\ w.kind = "save" => w.lock \in Int
           /\ w.kind = "grade" => w.sub \in LkSubs /\ w.lock \in Int
           /\ w.kind = "submit" => w.of \in {"live", "virtual"} /\ w.lock \in Int
           /\ w.kind = "rejudge" => \E D \in SUBSET LkSubs :
                  w \in [kind : {"rejudge"}, rows : [D -> LkRow]]
<1>1. CASE w = NoWork
  <2>1. w.kind = "none"
    BY <1>1 DEF NoWork
  <2> QED BY <2>1
<1>2. CASE w \in [kind : {"save"}, lock : Int]
  BY <1>2
<1>3. CASE w \in [kind : {"submit"}, of : {"live", "virtual"}, lock : Int]
  BY <1>3
<1>4. CASE w \in LkRejudges
  <2>1. PICK D \in SUBSET LkSubs : w \in [kind : {"rejudge"}, rows : [D -> LkRow]]
    BY <1>4 DEF LkRejudges
  <2>2. w.kind = "rejudge"
    BY <2>1
  <2> QED BY <2>1, <2>2
<1>5. CASE w \in [kind : {"grade"}, sub : LkSubs, lock : Int]
  BY <1>5
<1> QED
  BY <1>1, <1>2, <1>3, <1>4, <1>5 DEF LkWorks

\* Before the first submission.
LEMMA LocksInit == LocksAssumption /\ LkInit => LocksInv
<1> SUFFICES ASSUME LkInit PROVE LocksInv
  OBVIOUS
<1>1. LocksTypeOK
  BY DEF LkInit, LocksTypeOK, LkWorks, NoLock
<1>2. RowsStayLocked
  BY DEF LkInit, RowsStayLocked, NoWork
<1>3. LocksHold
  BY DEF LkInit, LocksHold, LockReachesSubmissions, LockedStayGraded, Stored
<1> QED
  BY <1>1, <1>2, <1>3 DEF LocksInv

\* A request that starts, or ends, leaves the other rows locked as they are.
LEMMA RowsOfOthers ==
    ASSUME LocksTypeOK, RowsStayLocked, NEW r \in LkRequests, NEW w \in LkWorks,
           lk_requests' = [lk_requests EXCEPT ![r] = w], lk_clock' = lk_clock,
           w.kind = "rejudge" => \A s \in DOMAIN w.rows : w.rows[s].was => Locked(w.rows[s].lock, lk_clock)
    PROVE  lk_requests' \in [LkRequests -> LkWorks] /\ RowsStayLocked'
<1>1. lk_requests' \in [LkRequests -> LkWorks]
  BY DEF LocksTypeOK
<1>2. \A q \in LkRequests : lk_requests'[q] = IF q = r THEN w ELSE lk_requests[q]
  BY DEF LocksTypeOK
<1>3. RowsStayLocked'
  BY <1>2 DEF RowsStayLocked, Locked
<1> QED
  BY <1>1, <1>3

\* Requests that work on rows loaded before keep to what those rows said.
LEMMA LocksStep == LocksAssumption /\ LocksInv /\ [LkNext]_lkvars => LocksInv'
<1> SUFFICES ASSUME LocksAssumption, LocksInv, [LkNext]_lkvars
             PROVE  LocksInv'
  OBVIOUS
<1> USE DEF LocksInv
<1>n. NoWork \in LkWorks /\ NoWork.kind = "none"
  BY DEF LkWorks, NoWork
<1>1. CASE LkTick
  <2>1. LocksTypeOK'
    BY <1>1 DEF LkTick, LocksTypeOK
  <2>2. RowsStayLocked'
    <3>1. ASSUME NEW r \in LkRequests, lk_requests[r].kind = "rejudge",
                 NEW s \in DOMAIN lk_requests[r].rows, lk_requests[r].rows[s].was
          PROVE  Locked(lk_requests[r].rows[s].lock, lk_clock + 1)
      <4>1. lk_requests[r] \in LkWorks
        BY DEF LocksTypeOK
      <4>2. PICK D \in SUBSET LkSubs : lk_requests[r] \in [kind : {"rejudge"}, rows : [D -> LkRow]]
        BY <4>1, <3>1, KindsOfWork
      <4>3. lk_requests[r].rows[s].lock \in Int
        BY <4>2 DEF LkRow
      <4>4. Locked(lk_requests[r].rows[s].lock, lk_clock)
        BY <3>1 DEF RowsStayLocked
      <4> QED
        BY <4>3, <4>4 DEF Locked, LocksTypeOK
    <3> QED
      BY <3>1, <1>1 DEF LkTick, RowsStayLocked
  <2>3. LocksHold'
    BY <1>1 DEF LkTick, LocksHold, LockReachesSubmissions, LockedStayGraded, Stored
  <2> QED BY <2>1, <2>2, <2>3
<1>2. ASSUME NEW lock \in Int, SetLockedAfter(lock)
      PROVE  LocksInv'
  <2>1. LocksTypeOK'
    BY <1>2 DEF SetLockedAfter, LocksTypeOK
  <2>2. RowsStayLocked'
    BY <1>2 DEF SetLockedAfter, RowsStayLocked
  <2>3. LocksHold'
    BY <1>2 DEF SetLockedAfter, LocksHold, LockReachesSubmissions, LockedStayGraded, Stored, TakesLock, LocksTypeOK
  <2> QED BY <2>1, <2>2, <2>3
<1>3. ASSUME NEW r \in LkRequests, NEW w \in LkWorks, StartWork(r, w),
             w.kind = "rejudge" => \A s \in DOMAIN w.rows : w.rows[s].was => Locked(w.rows[s].lock, lk_clock)
      PROVE  LocksInv'
  <2>1. LocksTypeOK' /\ RowsStayLocked'
    BY <1>3, RowsOfOthers DEF StartWork, LocksTypeOK
  <2>2. LocksHold'
    BY <1>3 DEF StartWork, LocksHold, LockReachesSubmissions, LockedStayGraded, Stored
  <2> QED BY <2>1, <2>2
<1>4. ASSUME NEW r \in LkRequests, LoadContest(r)
      PROVE  LocksInv'
  <2>1. [kind |-> "save", lock |-> lk_contest] \in LkWorks
    BY DEF LkWorks, LocksTypeOK
  <2> QED BY <2>1, <1>3, <1>4 DEF LoadContest
<1>5. ASSUME NEW r \in LkRequests, SaveLoaded(r)
      PROVE  LocksInv'
  <2>1. lk_requests[r].lock \in Int
    BY <1>5, KindsOfWork DEF SaveLoaded, LocksTypeOK
  <2>2. LocksTypeOK' /\ RowsStayLocked'
    BY <2>1, <1>5, <1>n, RowsOfOthers DEF SaveLoaded, Done, LocksTypeOK
  <2>3. LocksHold'
    BY <1>5 DEF SaveLoaded, LocksHold, LockReachesSubmissions, LockedStayGraded, Stored
  <2> QED BY <2>2, <2>3
<1>6. ASSUME NEW r \in LkRequests, NEW subs \in SUBSET LkSubs,
             StartWork(r, [kind |-> "rejudge", rows |-> Rows(subs)])
      PROVE  LocksInv'
  <2>1. Rows(subs) \in [subs -> LkRow]
    BY DEF Rows, LkRow, Locked, LocksTypeOK
  <2>2. [kind |-> "rejudge", rows |-> Rows(subs)] \in LkWorks
    BY <2>1 DEF LkWorks, LkRejudges
  <2>3. \A s \in DOMAIN Rows(subs) : Rows(subs)[s].was => Locked(Rows(subs)[s].lock, lk_clock)
    BY DEF Rows
  <2> QED BY <2>2, <2>3, <1>3, <1>6
<1>7. ASSUME NEW r \in LkRequests, LoadRejudge(r)
      PROVE  LocksInv'
  BY <1>6, <1>7 DEF LoadRejudge, Stored
<1>8. ASSUME NEW r \in LkRequests, LoadBatch(r)
      PROVE  LocksInv'
  BY <1>6, <1>8 DEF LoadBatch, Stored
<1>9. ASSUME NEW r \in LkRequests, NEW of \in {"live", "virtual"}, StartSubmit(r, of)
      PROVE  LocksInv'
  <2>1. [kind |-> "submit", of |-> of, lock |-> lk_contest] \in LkWorks
    BY DEF LkWorks, LocksTypeOK
  <2> QED BY <2>1, <1>3, <1>9 DEF StartSubmit
<1>10. ASSUME NEW r \in LkRequests, NEW s \in LkSubs, Submit(r, s)
       PROVE  LocksInv'
  <2>1. lk_requests[r].of \in {"live", "virtual"} /\ lk_requests[r].lock \in Int
    BY <1>10, KindsOfWork DEF Submit, LocksTypeOK
  <2>2. LocksTypeOK' /\ RowsStayLocked'
    <3>1. lk_requests' = [lk_requests EXCEPT ![r] = NoWork] /\ lk_clock' = lk_clock
      BY <1>10 DEF Submit, Done
    <3>2. lk_requests' \in [LkRequests -> LkWorks] /\ RowsStayLocked'
      BY <3>1, <1>n, RowsOfOthers
    <3>3. lk_subs' \in [LkSubs -> [of : {"none", "live", "virtual"}, lock : Int]]
      BY <1>10, <2>1 DEF Submit, LocksTypeOK, NoLock
    <3> QED BY <3>2, <3>3, <1>10 DEF Submit, LocksTypeOK
  <2>3. LocksHold'
    BY <1>10, <2>1 DEF Submit, LocksHold, LockReachesSubmissions, LockedStayGraded, Stored, LocksTypeOK
  <2> QED BY <2>2, <2>3
<1>11. ASSUME NEW r \in LkRequests, NEW s \in LkSubs, RejudgeNext(r, s)
       PROVE  LocksInv'
  <2> DEFINE work == lk_requests[r]
             rest == IF DOMAIN work.rows = {s} THEN NoWork
                     ELSE [work EXCEPT !.rows = [o \in DOMAIN work.rows \ {s} |-> work.rows[o]]]
  <2>1. PICK D \in SUBSET LkSubs : work \in [kind : {"rejudge"}, rows : [D -> LkRow]]
    BY <1>11, KindsOfWork DEF RejudgeNext, LocksTypeOK
  <2>2. rest \in LkWorks
    <3>1. CASE DOMAIN work.rows = {s}
      BY <3>1, <1>n
    <3>2. CASE DOMAIN work.rows # {s}
      <4>1. rest \in [kind : {"rejudge"}, rows : [D \ {s} -> LkRow]]
        BY <2>1, <3>2
      <4> QED BY <4>1 DEF LkWorks, LkRejudges
    <3> QED BY <3>1, <3>2
  <2>3. rest.kind = "rejudge" => \A o \in DOMAIN rest.rows : rest.rows[o].was => Locked(rest.rows[o].lock, lk_clock)
    <3>1. CASE DOMAIN work.rows = {s}
      BY <3>1, <1>n
    <3>2. CASE DOMAIN work.rows # {s}
      <4>1. /\ DOMAIN rest.rows = DOMAIN work.rows \ {s}
            /\ \A o \in DOMAIN rest.rows : rest.rows[o] = work.rows[o]
        BY <2>1, <3>2
      <4>2. \A o \in DOMAIN work.rows : work.rows[o].was => Locked(work.rows[o].lock, lk_clock)
        BY <1>11 DEF RejudgeNext, RowsStayLocked
      <4> HIDE DEF rest, work
      <4> QED BY <4>1, <4>2
    <3> QED BY <3>1, <3>2
  <2>4. LocksTypeOK' /\ RowsStayLocked'
    <3>1. lk_requests' = [lk_requests EXCEPT ![r] = rest] /\ lk_clock' = lk_clock
      BY <1>11 DEF RejudgeNext
    <3> HIDE DEF rest
    <3>2. lk_requests' \in [LkRequests -> LkWorks] /\ RowsStayLocked'
      BY <2>2, <2>3, <3>1, RowsOfOthers
    <3> QED BY <3>2, <1>11 DEF RejudgeNext, LocksTypeOK
  <2>5. lk_wrong' = lk_wrong
    <3>1. work.rows[s].was => ~MayRejudge(work.rows[s])
      BY <1>11 DEF RejudgeNext, RowsStayLocked, MayRejudge
    <3> QED BY <3>1, <1>11 DEF RejudgeNext
  <2>6. LocksHold'
    BY <1>11, <2>5 DEF RejudgeNext, LocksHold, LockReachesSubmissions, LockedStayGraded, Stored
  <2> QED BY <2>4, <2>6
<1>12. ASSUME NEW s \in LkSubs, NEW lock \in {NoLock} \cup 0 .. LastClock, SaveSubmissionLock(s, lock)
       PROVE  LocksInv'
  <2>1. lock \in Int
    BY DEF NoLock, LocksAssumption
  <2>2. LocksTypeOK'
    BY <2>1, <1>12 DEF SaveSubmissionLock, LocksTypeOK
  <2>3. RowsStayLocked'
    BY <1>12 DEF SaveSubmissionLock, RowsStayLocked
  <2>4. LocksHold'
    BY <1>12 DEF SaveSubmissionLock, LocksHold, LockReachesSubmissions, LockedStayGraded, Stored, LocksTypeOK
  <2> QED BY <2>2, <2>3, <2>4
<1>g. ASSUME NEW r \in LkRequests, NEW s \in LkSubs, LoadGraded(r, s)
      PROVE  LocksInv'
  <2>1. [kind |-> "grade", sub |-> s, lock |-> lk_subs[s].lock] \in LkWorks
    BY DEF LkWorks, LocksTypeOK
  <2> QED BY <2>1, <1>3, <1>g DEF LoadGraded
<1>h. ASSUME NEW r \in LkRequests, SaveGraded(r)
      PROVE  LocksInv'
  <2>1. lk_requests[r].sub \in LkSubs /\ lk_requests[r].lock \in Int
    BY <1>h, KindsOfWork DEF SaveGraded, LocksTypeOK
  <2>2. LocksTypeOK' /\ RowsStayLocked'
    <3>1. lk_requests' = [lk_requests EXCEPT ![r] = NoWork] /\ lk_clock' = lk_clock
      BY <1>h DEF SaveGraded, Done
    <3>2. lk_requests' \in [LkRequests -> LkWorks] /\ RowsStayLocked'
      BY <3>1, <1>n, RowsOfOthers
    <3>3. lk_subs' \in [LkSubs -> [of : {"none", "live", "virtual"}, lock : Int]]
      BY <1>h, <2>1 DEF SaveGraded, LocksTypeOK
    <3> QED BY <3>2, <3>3, <1>h DEF SaveGraded, LocksTypeOK
  <2>3. LocksHold'
    BY <1>h, <2>1 DEF SaveGraded, LocksHold, LockReachesSubmissions, LockedStayGraded, Stored, LocksTypeOK
  <2> QED BY <2>2, <2>3
<1>13. CASE UNCHANGED lkvars
  BY <1>13 DEF lkvars, LocksTypeOK, RowsStayLocked, LocksHold, LockReachesSubmissions, LockedStayGraded, Stored
<1>14. CASE SetLocked \/ SetUnlocked \/ SaveContestForm
  <2>1. lk_clock \in Int /\ NoLock \in Int /\ 0 .. LastClock \subseteq Int
    BY DEF LocksTypeOK, NoLock, LocksAssumption
  <2> QED
    BY <2>1, <1>2, <1>14 DEF SetLocked, SetUnlocked, SaveContestForm
<1> QED
  BY <1>1, <1>4, <1>5, <1>7, <1>8, <1>9, <1>10, <1>11, <1>12, <1>13, <1>14, <1>g, <1>h DEF LkNext

\* The lock of a contest (admin/contest.py, models/submission.py): submissions have the lock they should,
\* but for requests and gradings that overlapped its change, and none is graded again that was locked when it was read.
THEOREM LocksAreKept == ASSUME LocksAssumption PROVE LkSpec => []LocksHold
<1>1. LkInit => LocksInv
  BY LocksInit
<1>2. LocksInv /\ [LkNext]_lkvars => LocksInv'
  BY LocksStep
<1>3. LocksInv => LocksHold
  BY DEF LocksInv
<1> QED
  BY <1>1, <1>2, <1>3, PTL DEF LkSpec

-----------------------------------------------------------------------------
(* Limits of submissions.                                                  *)

LimitsTypeOK ==
    /\ li_subs \in [LiSubs -> [in : {"none", "archive", "contest"},
                               status : {"none", "QU", "D", "IE"}, rejudged : BOOLEAN]]
    /\ li_requests \in [LiRequests -> {NoPost} \cup
          [pc : {"count", "store"}, in : {"archive", "contest"}, many : BOOLEAN, late : BOOLEAN]]

\* What the limits apply to.
Pressing == PendingOnes \ li_many
Weighing == InContest \ (li_late \cup li_revived)

\* A request that counted, and after which nothing was stored, found room, and there is
\* still room: what is graded and what is graded again take none.
RoomFound ==
    /\ \A r \in LiRequests : li_requests[r] # NoPost /\ ~li_requests[r].many
                             => Cardinality(Pressing) < SubmissionLimit
    /\ \A r \in LiRequests : li_requests[r] # NoPost /\ li_requests[r].pc = "store"
                             /\ li_requests[r].in = "contest" /\ ~li_requests[r].late
                             => Cardinality(Weighing) < MaxInContest

LimitsInv == LimitsTypeOK /\ LimitsHold /\ RoomFound

\* Fewer things take less room, one more takes at most one more place.
LEMMA RoomOfSubset ==
    ASSUME LimitsAssumption, NEW S \in SUBSET LiSubs, NEW T \in SUBSET LiSubs, NEW s \in LiSubs
    PROVE  /\ Cardinality(S) \in Nat
           /\ T \subseteq S => Cardinality(T) <= Cardinality(S)
           /\ T \subseteq S \cup {s} => Cardinality(T) <= Cardinality(S) + 1
<1>1. IsFiniteSet(S)
  BY FS_Subset DEF LimitsAssumption
<1>2. Cardinality(S) \in Nat
  BY <1>1, FS_CardinalityType
<1>3. ASSUME NEW X, X \subseteq LiSubs, T \subseteq X
      PROVE  Cardinality(T) <= Cardinality(X)
  BY <1>3, FS_Subset DEF LimitsAssumption
<1>4. IsFiniteSet(S \cup {s}) /\ Cardinality(S \cup {s}) \in Nat /\ Cardinality(S \cup {s}) <= Cardinality(S) + 1
  BY <1>1, <1>2, FS_AddElement, FS_CardinalityType
<1>5. IsFiniteSet(T) /\ Cardinality(T) \in Nat
  BY FS_Subset, FS_CardinalityType DEF LimitsAssumption
<1> QED
  BY <1>2, <1>3, <1>4, <1>5

\* Before the first submission.
LEMMA LimitsInit == LimitsAssumption /\ LiInit => LimitsInv
<1> SUFFICES ASSUME LimitsAssumption, LiInit PROVE LimitsInv
  OBVIOUS
<1>1. Made = {}
  BY DEF LiInit, Made
<1>2. PendingOnes = {} /\ InContest = {}
  BY <1>1 DEF PendingOnes, InContest
<1>3. Cardinality(PendingOnes \ li_many) = 0 /\ Cardinality(InContest \ (li_late \cup li_revived)) = 0
  BY <1>2, FS_EmptySet
<1> QED
  BY <1>3 DEF LiInit, LimitsInv, LimitsTypeOK, LimitsHold, RoomFound, NoPost, LimitsAssumption

\* Requests of the user that count, store and are overtaken leave room as they found it.
LEMMA LimitsStep == LimitsAssumption /\ LimitsInv /\ [LiNext]_livars => LimitsInv'
<1> SUFFICES ASSUME LimitsAssumption, LimitsInv, [LiNext]_livars
             PROVE  LimitsInv'
  OBVIOUS
<1> USE DEF Made, PendingOnes, InContest, Pressing, Weighing
<1>a. Pressing \subseteq LiSubs /\ Weighing \subseteq LiSubs /\ Pressing' \subseteq LiSubs /\ Weighing' \subseteq LiSubs
  OBVIOUS
<1>b. SubmissionLimit \in Nat /\ MaxInContest \in Nat
  BY DEF LimitsAssumption
<1>c. Cardinality(Pressing) \in Nat /\ Cardinality(Weighing) \in Nat
      /\ Cardinality(Pressing') \in Nat /\ Cardinality(Weighing') \in Nat
  BY <1>a, FS_Subset, FS_CardinalityType DEF LimitsAssumption
<1>d. Cardinality(Pressing) <= SubmissionLimit /\ Cardinality(Weighing) <= MaxInContest
  BY DEF LimitsInv, LimitsHold
\* The steps after which there is no less room.
<1>e. ASSUME LimitsTypeOK', Pressing' \subseteq Pressing, Weighing' \subseteq Weighing,
             UNCHANGED li_requests
      PROVE  LimitsInv'
  <2>1. Cardinality(Pressing') <= Cardinality(Pressing) /\ Cardinality(Weighing') <= Cardinality(Weighing)
    BY <1>e, <1>a, FS_Subset DEF LimitsAssumption
  <2> HIDE DEF Pressing, Weighing
  <2>2. LimitsHold'
    <3>1. Cardinality(Pressing') <= SubmissionLimit /\ Cardinality(Weighing') <= MaxInContest
      BY <2>1, <1>b, <1>c, <1>d
    <3> QED BY <3>1 DEF LimitsHold, Pressing, Weighing
  <2>3. RoomFound'
    BY <2>1, <1>e, <1>b, <1>c DEF LimitsInv, RoomFound
  <2> QED
    BY <1>e, <2>2, <2>3 DEF LimitsInv
<1>1. ASSUME NEW r \in LiRequests, NEW in \in {"archive", "contest"}, CountPending(r, in)
      PROVE  LimitsInv'
  <2>1. LimitsTypeOK'
    BY <1>1 DEF CountPending, LimitsInv, LimitsTypeOK
  <2>2. Cardinality(Pressing) <= Cardinality(PendingOnes) /\ Cardinality(PendingOnes) \in Nat
    BY FS_Subset, FS_CardinalityType DEF LimitsAssumption
  <2>3. Cardinality(Pressing) < SubmissionLimit
    <3>1. Cardinality(PendingOnes) < SubmissionLimit
      BY <1>1 DEF CountPending
    <3> HIDE DEF Pressing, PendingOnes
    <3> QED BY <3>1, <2>2, <1>b, <1>c
  <2>4. Pressing' = Pressing /\ Weighing' = Weighing
    BY <1>1 DEF CountPending
  <2> HIDE DEF Pressing, Weighing
  <2>5. RoomFound'
    BY <2>3, <2>4, <1>1 DEF CountPending, LimitsInv, RoomFound, LimitsTypeOK, NoPost
  <2>6. LimitsHold'
    BY <1>d, <2>4 DEF LimitsHold, Pressing, Weighing
  <2> QED
    BY <2>1, <2>5, <2>6 DEF LimitsInv
<1>2. ASSUME NEW r \in LiRequests, CountInContest(r)
      PROVE  LimitsInv'
  <2>0. li_requests[r] # NoPost /\ li_requests[r] \in [pc : {"count", "store"}, in : {"archive", "contest"}, many : BOOLEAN, late : BOOLEAN]
    BY <1>2 DEF CountInContest, LimitsInv, LimitsTypeOK, NoPost
  <2>1. LimitsTypeOK'
    BY <1>2, <2>0 DEF CountInContest, LimitsInv, LimitsTypeOK
  <2>2. Cardinality(Weighing) <= Cardinality(InContest) /\ Cardinality(InContest) \in Nat
    BY FS_Subset, FS_CardinalityType DEF LimitsAssumption
  <2>3. Pressing' = Pressing /\ Weighing' = Weighing
    BY <1>2 DEF CountInContest
  <2>4. ASSUME li_requests'[r] # NoPost, li_requests[r].in = "contest"
        PROVE  Cardinality(Weighing) < MaxInContest
    <3>1. ~(Cardinality(InContest) >= MaxInContest)
      BY <1>2, <2>4 DEF CountInContest, LimitsInv, LimitsTypeOK
    <3> HIDE DEF Weighing, InContest
    <3> QED BY <3>1, <2>2, <1>b, <1>c
  <2>5. li_requests'[r] # NoPost => /\ li_requests'[r].in = li_requests[r].in
                                    /\ li_requests'[r].many = li_requests[r].many
    BY <1>2, <2>0 DEF CountInContest, LimitsInv, LimitsTypeOK
  <2>6. \A q \in LiRequests \ {r} : li_requests'[q] = li_requests[q]
    BY <1>2 DEF CountInContest, LimitsInv, LimitsTypeOK
  <2> HIDE DEF Pressing, Weighing
  <2>7. RoomFound'
    BY <2>0, <2>3, <2>4, <2>5, <2>6 DEF LimitsInv, RoomFound
  <2>8. LimitsHold'
    BY <1>d, <2>3 DEF LimitsHold, Pressing, Weighing
  <2> QED
    BY <2>1, <2>7, <2>8 DEF LimitsInv
<1>3. ASSUME NEW r \in LiRequests, NEW s \in LiSubs, Store(r, s)
      PROVE  LimitsInv'
  <2>0. li_requests[r] # NoPost /\ li_requests[r] \in [pc : {"count", "store"}, in : {"archive", "contest"}, many : BOOLEAN, late : BOOLEAN]
    <3>1. li_requests[r].pc = "store"
      BY <1>3 DEF Store
    <3>2. li_requests[r] # NoPost
      BY <3>1 DEF NoPost
    <3> QED BY <3>2 DEF LimitsInv, LimitsTypeOK
  <2>1. LimitsTypeOK'
    <3>1. li_subs' \in [LiSubs -> [in : {"none", "archive", "contest"},
                               status : {"none", "QU", "D", "IE"}, rejudged : BOOLEAN]]
      BY <1>3, <2>0 DEF Store, LimitsInv, LimitsTypeOK
    <3>2. ASSUME NEW q \in LiRequests, li_requests[q] # NoPost
          PROVE  [li_requests[q] EXCEPT !.many = TRUE, !.late = @ \/ li_requests[q].pc = "store"]
                   \in [pc : {"count", "store"}, in : {"archive", "contest"}, many : BOOLEAN, late : BOOLEAN]
      BY <3>2 DEF LimitsInv, LimitsTypeOK
    <3>3. li_requests' \in [LiRequests -> {NoPost} \cup
          [pc : {"count", "store"}, in : {"archive", "contest"}, many : BOOLEAN, late : BOOLEAN]]
      BY <1>3, <3>2 DEF Store
    <3> QED
      BY <3>1, <3>3 DEF LimitsTypeOK
  <2>2. /\ li_requests[r].many => Pressing' \subseteq Pressing
        /\ Pressing' \subseteq Pressing \cup {s}
    BY <1>3, <2>0 DEF Store, LimitsInv, LimitsTypeOK
  <2>3. /\ li_requests[r].late \/ li_requests[r].in = "archive" => Weighing' \subseteq Weighing
        /\ Weighing' \subseteq Weighing \cup {s}
    BY <1>3, <2>0 DEF Store, LimitsInv, LimitsTypeOK
  <2>4. /\ li_requests'[r] = NoPost
        /\ \A q \in LiRequests : li_requests'[q] # NoPost =>
              /\ li_requests'[q].many
              /\ li_requests'[q].pc = "store" => li_requests'[q].late
    <3>1. ASSUME NEW q \in LiRequests, li_requests'[q] # NoPost
          PROVE  /\ li_requests'[q].many
                 /\ li_requests'[q].pc = "store" => li_requests'[q].late
      <4>1. /\ li_requests[q] # NoPost
            /\ li_requests'[q] = [li_requests[q] EXCEPT !.many = TRUE, !.late = @ \/ li_requests[q].pc = "store"]
        BY <1>3, <3>1 DEF Store
      <4>2. li_requests[q] \in [pc : {"count", "store"}, in : {"archive", "contest"}, many : BOOLEAN, late : BOOLEAN]
        BY <4>1 DEF LimitsInv, LimitsTypeOK
      <4> QED BY <4>1, <4>2
    <3> QED BY <1>3, <3>1 DEF Store
  <2>5. RoomFound'
    BY <2>4 DEF RoomFound
  <2>6. Cardinality(Pressing') <= SubmissionLimit
    <3>1. CASE li_requests[r].many
      <4>1. Cardinality(Pressing') <= Cardinality(Pressing)
        BY <3>1, <2>2, <1>a, RoomOfSubset
      <4> HIDE DEF Pressing
      <4> QED BY <4>1, <1>b, <1>c, <1>d
    <3>2. CASE ~li_requests[r].many
      <4>1. Cardinality(Pressing') <= Cardinality(Pressing) + 1
        BY <2>2, <1>a, RoomOfSubset
      <4> HIDE DEF Pressing
      <4>2. Cardinality(Pressing) < SubmissionLimit
        BY <3>2, <2>0 DEF LimitsInv, RoomFound
      <4> QED BY <4>1, <4>2, <1>b, <1>c
    <3> QED BY <3>1, <3>2
  <2>7. Cardinality(Weighing') <= MaxInContest
    <3>1. CASE li_requests[r].late \/ li_requests[r].in = "archive"
      <4>1. Cardinality(Weighing') <= Cardinality(Weighing)
        BY <3>1, <2>3, <1>a, RoomOfSubset
      <4> HIDE DEF Weighing
      <4> QED BY <4>1, <1>b, <1>c, <1>d
    <3>2. CASE ~(li_requests[r].late \/ li_requests[r].in = "archive")
      <4>1. Cardinality(Weighing') <= Cardinality(Weighing) + 1
        BY <2>3, <1>a, RoomOfSubset
      <4> HIDE DEF Weighing
      <4>2. li_requests[r].pc = "store" /\ li_requests[r].in = "contest"
        BY <3>2, <2>0, <1>3 DEF Store
      <4>3. Cardinality(Weighing) < MaxInContest
        BY <3>2, <2>0, <4>2 DEF LimitsInv, RoomFound
      <4> QED BY <4>1, <4>3, <1>b, <1>c
    <3> QED BY <3>1, <3>2
  <2>8. LimitsHold'
    BY <2>6, <2>7 DEF LimitsHold
  <2> QED
    BY <2>1, <2>5, <2>8 DEF LimitsInv
<1>4. ASSUME NEW s \in LiSubs, Settle(s)
      PROVE  LimitsInv'
  <2>1. PICK status \in {"D", "IE"} : li_subs' = [li_subs EXCEPT ![s].status = status]
    BY <1>4 DEF Settle
  <2>2. LimitsTypeOK'
    BY <2>1, <1>4 DEF Settle, LimitsInv, LimitsTypeOK
  <2>3. Pressing' \subseteq Pressing /\ Weighing' \subseteq Weighing
    BY <2>1, <1>4 DEF Settle, LimitsInv, LimitsTypeOK
  <2> QED
    BY <2>2, <2>3, <1>4, <1>e DEF Settle
<1>5. ASSUME NEW s \in LiSubs, JudgeAgain(s)
      PROVE  LimitsInv'
  <2>1. LimitsTypeOK'
    BY <1>5 DEF JudgeAgain, LimitsInv, LimitsTypeOK
  <2>2. Pressing' \subseteq Pressing /\ Weighing' \subseteq Weighing
    BY <1>5 DEF JudgeAgain, LimitsInv, LimitsTypeOK
  <2> QED
    BY <2>1, <2>2, <1>5, <1>e DEF JudgeAgain
<1>g. ASSUME NEW s \in LiSubs, GoesOn(s)
      PROVE  LimitsInv'
  <2>1. PICK status \in {"QU", "D", "IE"} : li_subs' = [li_subs EXCEPT ![s].status = status]
    BY <1>g DEF GoesOn
  <2>2. LimitsTypeOK'
    BY <2>1, <1>g DEF GoesOn, LimitsInv, LimitsTypeOK
  <2>3. Pressing' \subseteq Pressing /\ Weighing' \subseteq Weighing
    BY <2>1, <1>g DEF GoesOn, LimitsInv, LimitsTypeOK
  <2> QED
    BY <2>2, <2>3, <1>g, <1>e DEF GoesOn
<1>6. CASE UNCHANGED livars
  BY <1>6, <1>e DEF livars, LimitsInv, LimitsTypeOK
<1> QED
  BY <1>1, <1>2, <1>3, <1>4, <1>5, <1>6, <1>g DEF LiNext

\* The limits of submissions hold (views/problem.py), but for requests that overlapped, and for
\* submissions that were judged on or again after they had been marked as over.
THEOREM LimitsAreKept == ASSUME LimitsAssumption PROVE LiSpec => []LimitsHold
<1>1. LiInit => LimitsInv
  BY LimitsInit
<1>2. LimitsInv /\ [LiNext]_livars => LimitsInv'
  BY LimitsStep
<1>3. LimitsInv => LimitsHold
  BY DEF LimitsInv
<1> QED
  BY <1>1, <1>2, <1>3, PTL DEF LiSpec

-----------------------------------------------------------------------------
(* Reports on plagiarism.                                                  *)

MsStates == {"none", "PENDING", "deleted", "PROGRESS", "SUCCESS", "FAILURE"}
MsRun == [state : MsStates, total : Nat, done : Nat,
          left : SUBSET MossPairs, made : SUBSET MossPairs]

MossTypeOK ==
    /\ ms_problems \in SUBSET MossProblems
    /\ ms_rows \in SUBSET [pair : MossPairs, by : MossTasks]
    /\ ms_tasks \in [MossTasks -> MsRun]
    /\ ms_pages \in [MossTasks -> MsStates \cup {"WORKING"}]
    /\ ms_edits \in Nat

Pairs == ms_problems \X MossLangs

\* The results stored are those of tasks that ended well, all that they made, one of
\* a pair; as long as nothing was edited, a task is about all pairs.
RowsOfRuns ==
    /\ \A row \in ms_rows : /\ ms_tasks[row.by].state = "SUCCESS"
                            /\ row.pair \in ms_tasks[row.by].made
                            /\ \A p \in ms_tasks[row.by].made : [pair |-> p, by |-> row.by] \in ms_rows
    /\ \A one, other \in ms_rows : one.pair = other.pair => one = other
    /\ \A t \in MossTasks : ms_tasks[t].state = "deleted" => ms_tasks[t].made = {}
    /\ ms_edits = 0 => \A t \in MossTasks :
          /\ ms_tasks[t].state = "PROGRESS" => ms_tasks[t].made \cup ms_tasks[t].left = Pairs
          /\ ms_tasks[t].state = "SUCCESS" => ms_tasks[t].made = Pairs

\* What a task has done and has left to do is its length, unless the problems changed.
LengthIsRight ==
    \A t \in MossTasks \ ms_changed :
       /\ ms_tasks[t].done <= ms_tasks[t].total
       /\ ms_tasks[t].state = "deleted" => ms_tasks[t].done = 0
       /\ t \in Running => ms_tasks[t].total = Cardinality(Pairs)
       /\ ms_tasks[t].state = "PROGRESS" =>
             ms_tasks[t].done + Cardinality(ms_tasks[t].left) = ms_tasks[t].total

\* Two tasks that run crossed each other, and so did one that finds results stored since
\* it deleted those there were.
CrossedAreKnown ==
    /\ \A t, u \in Running : t # u => t \in ms_crossed
    /\ ms_rows # {} => Running \subseteq ms_crossed
    /\ ms_refused \subseteq ms_crossed

LedRight == \A t \in MossTasks : ms_pages[t] = "SUCCESS" => ms_tasks[t].state = "SUCCESS"

MossInv == MossTypeOK /\ RowsOfRuns /\ LengthIsRight /\ CrossedAreKnown /\ LedRight

\* A contest with finitely many problems has finitely many results.
LEMMA PairsAreCounted ==
    ASSUME MossAssumption, MossTypeOK
    PROVE  /\ Pairs \subseteq MossPairs
           /\ IsFiniteSet(Pairs) /\ Cardinality(Pairs) \in Nat
           /\ Cardinality(ms_problems) * Cardinality(MossLangs) = Cardinality(Pairs)
           /\ \A S \in SUBSET MossPairs : IsFiniteSet(S) /\ Cardinality(S) \in Nat
<1>1. IsFiniteSet(ms_problems) /\ IsFiniteSet(MossLangs) /\ IsFiniteSet(MossProblems)
  BY FS_Subset DEF MossAssumption, MossTypeOK
<1>2. IsFiniteSet(MossPairs)
  BY <1>1, FS_Product DEF MossPairs
<1>3. IsFiniteSet(Pairs) /\ Cardinality(Pairs) = Cardinality(ms_problems) * Cardinality(MossLangs)
  BY <1>1, FS_Product DEF Pairs
<1>4. Cardinality(Pairs) \in Nat
  BY <1>3, FS_CardinalityType
<1>5. \A S \in SUBSET MossPairs : IsFiniteSet(S) /\ Cardinality(S) \in Nat
  BY <1>2, FS_Subset, FS_CardinalityType
<1>6. Pairs \subseteq MossPairs
  BY DEF Pairs, MossPairs, MossTypeOK
<1> QED
  BY <1>3, <1>4, <1>5, <1>6

\* Before the first run there are no results.
LEMMA MossInit == MossAssumption /\ MsInit => MossInv
<1> SUFFICES ASSUME MossAssumption, MsInit PROVE MossInv
  OBVIOUS
<1>1. NoRun \in MsRun /\ NoRun.state = "none" /\ NoRun.done = 0 /\ NoRun.total = 0
  BY DEF NoRun, MsRun, MsStates
<1>2. MossTypeOK
  BY <1>1 DEF MsInit, MossTypeOK, MsStates
<1>3. Running = {}
  BY <1>1 DEF MsInit, Running
<1> QED
  BY <1>1, <1>2, <1>3 DEF MsInit, MossInv, RowsOfRuns, LengthIsRight, CrossedAreKnown, LedRight

\* Runs, deletions and changes of the problems keep results, progress and pages together.
LEMMA MossStep == MossAssumption /\ MossInv /\ [MsNext]_msvars => MossInv'
<1> SUFFICES ASSUME MossAssumption, MossInv, [MsNext]_msvars
             PROVE  MossInv'
  OBVIOUS
<1> USE DEF MossInv
<1>t. \A t \in MossTasks : ms_tasks[t] \in MsRun
  BY DEF MossTypeOK
<1>c. /\ Pairs \subseteq MossPairs
      /\ IsFiniteSet(Pairs) /\ Cardinality(Pairs) \in Nat
      /\ Cardinality(ms_problems) * Cardinality(MossLangs) = Cardinality(Pairs)
      /\ \A S \in SUBSET MossPairs : IsFiniteSet(S) /\ Cardinality(S) \in Nat
  BY PairsAreCounted
<1>s. ASSUME NEW t \in MossTasks, NEW run, SetRun(t, run)
      PROVE  /\ ms_tasks'[t] = run
             /\ \A u \in MossTasks \ {t} : ms_tasks'[u] = ms_tasks[u]
             /\ run.state \in {"deleted", "PROGRESS"} => Running' = Running \cup {t}
             /\ run.state \notin {"deleted", "PROGRESS"} => Running' = Running \ {t}
  BY <1>s DEF SetRun, Running, MossTypeOK
<1>1. ASSUME NEW t \in MossTasks, AskMoss(t)
      PROVE  MossInv'
  <2> DEFINE run == [NoRun EXCEPT !.state = "PENDING"]
  <2>1. run \in MsRun /\ run.state = "PENDING" /\ run.done = 0 /\ run.total = 0
    BY DEF NoRun, MsRun, MsStates
  <2> HIDE DEF run
  <2>2. SetRun(t, run)
    BY <1>1 DEF AskMoss, run
  <2>3. MossTypeOK'
    BY <1>1, <2>1, <2>2 DEF AskMoss, SetRun, MossTypeOK, mshistory
  <2>4. /\ ms_tasks'[t] = run /\ Running' = Running \ {t}
        /\ \A u \in MossTasks \ {t} : ms_tasks'[u] = ms_tasks[u]
    BY <2>1, <2>2, <1>s
  <2>5. UNCHANGED <<ms_problems, ms_rows, ms_edits, ms_changed, ms_crossed, ms_refused>> /\ UNCHANGED Pairs
    BY <1>1 DEF AskMoss, mshistory, Pairs
  <2>6. RowsOfRuns'
    BY <1>1, <2>1, <2>4, <2>5 DEF AskMoss, RowsOfRuns, MossTypeOK
  <2>7. LengthIsRight'
    BY <2>1, <2>4, <2>5, <1>c DEF LengthIsRight, Running
  <2>8. CrossedAreKnown' /\ LedRight'
    BY <1>1, <2>4, <2>5 DEF AskMoss, CrossedAreKnown, LedRight, MossTypeOK
  <2> QED BY <2>3, <2>6, <2>7, <2>8
<1>2. CASE DeleteMoss
  <2>1. MossTypeOK'
    BY <1>2 DEF DeleteMoss, MossTypeOK
  <2>2. RowsOfRuns'
    BY <1>2 DEF DeleteMoss, RowsOfRuns, MossTypeOK
  <2>3. LengthIsRight' /\ CrossedAreKnown' /\ LedRight'
    BY <1>2 DEF DeleteMoss, LengthIsRight, CrossedAreKnown, LedRight, Running, Pairs
  <2> QED BY <2>1, <2>2, <2>3
<1>3. ASSUME NEW problems \in SUBSET MossProblems, EditProblems(problems)
      PROVE  MossInv'
  <2>1. MossTypeOK'
    BY <1>3 DEF EditProblems, MossTypeOK
  <2>2. RowsOfRuns'
    BY <1>3 DEF EditProblems, RowsOfRuns, MossTypeOK
  <2>3. LengthIsRight' /\ CrossedAreKnown' /\ LedRight'
    BY <1>3 DEF EditProblems, LengthIsRight, CrossedAreKnown, LedRight, Running
  <2> QED BY <2>1, <2>2, <2>3
<1>4. ASSUME NEW t \in MossTasks, BeginMoss(t)
      PROVE  MossInv'
  <2> DEFINE run == [NoRun EXCEPT !.state = "deleted", !.total = Cardinality(ms_problems) * Cardinality(MossLangs)]
  <2>1. /\ run \in MsRun /\ run.state = "deleted" /\ run.done = 0
        /\ run.total = Cardinality(Pairs) /\ run.made = {}
    BY <1>c DEF NoRun, MsRun, MsStates
  <2>2. SetRun(t, run)
    BY <1>4 DEF BeginMoss
  <2> HIDE DEF run
  <2>3. MossTypeOK'
    BY <1>4, <2>1, <2>2 DEF BeginMoss, SetRun, MossTypeOK, Deleted
  <2>4. /\ ms_tasks'[t] = run /\ Running' = Running \cup {t}
        /\ \A u \in MossTasks \ {t} : ms_tasks'[u] = ms_tasks[u]
    BY <2>1, <2>2, <1>s
  <2>5. ms_rows' = {} /\ UNCHANGED <<ms_problems, ms_edits, ms_changed, ms_refused>> /\ UNCHANGED Pairs
    BY <1>4 DEF BeginMoss, Deleted, Pairs
  <2>6. RowsOfRuns'
    BY <2>1, <2>4, <2>5 DEF RowsOfRuns
  <2>7. LengthIsRight'
    BY <2>1, <2>4, <2>5, <1>c DEF LengthIsRight
  <2>8. CrossedAreKnown'
    BY <1>4, <2>4, <2>5 DEF BeginMoss, CrossedAreKnown
  <2>9. LedRight'
    BY <1>4, <2>4 DEF BeginMoss, LedRight
  <2> QED BY <2>3, <2>6, <2>7, <2>8, <2>9
<1>5. ASSUME NEW t \in MossTasks, ReadProblems(t)
      PROVE  MossInv'
  <2> DEFINE run == [ms_tasks[t] EXCEPT !.state = "PROGRESS", !.left = ms_problems \X MossLangs]
  <2>0. ms_tasks[t] \in MsRun /\ ms_tasks[t].state = "deleted" /\ t \in Running
    BY <1>5, <1>t DEF ReadProblems, Running
  <2>1. /\ run \in MsRun /\ run.state = "PROGRESS" /\ run.done = ms_tasks[t].done
        /\ run.total = ms_tasks[t].total /\ run.left = Pairs /\ run.made = ms_tasks[t].made
    BY <2>0, <1>c DEF MsRun, MsStates, Pairs
  <2>2. SetRun(t, run)
    BY <1>5 DEF ReadProblems
  <2> HIDE DEF run
  <2>3. MossTypeOK'
    BY <1>5, <2>1, <2>2 DEF ReadProblems, SetRun, MossTypeOK, mshistory
  <2>4. /\ ms_tasks'[t] = run /\ Running' = Running
        /\ \A u \in MossTasks \ {t} : ms_tasks'[u] = ms_tasks[u]
    BY <2>0, <2>1, <2>2, <1>s
  <2>5. UNCHANGED <<ms_problems, ms_rows, ms_pages, ms_edits, ms_changed, ms_crossed, ms_refused>> /\ UNCHANGED Pairs
    BY <1>5 DEF ReadProblems, mshistory, Pairs
  <2>6. ms_edits = 0 => run.made \cup run.left = Pairs
    BY <2>0, <2>1 DEF RowsOfRuns
  <2>7. RowsOfRuns'
    BY <2>0, <2>1, <2>4, <2>5, <2>6 DEF RowsOfRuns, MossTypeOK
  <2>8. LengthIsRight'
    BY <2>0, <2>1, <2>4, <2>5, <1>c DEF LengthIsRight
  <2>9. CrossedAreKnown' /\ LedRight'
    BY <2>0, <2>4, <2>5 DEF CrossedAreKnown, LedRight
  <2> QED BY <2>3, <2>7, <2>8, <2>9
<1>6. ASSUME NEW t \in MossTasks, NEW pair \in MossPairs, MossOne(t, pair)
      PROVE  MossInv'
  <2> DEFINE old == ms_tasks[t]
             run == [old EXCEPT !.done = @ + 1, !.left = @ \ {pair}, !.made = @ \cup {pair}]
  <2>0. old \in MsRun /\ old.state = "PROGRESS" /\ t \in Running /\ pair \in old.left
    BY <1>6, <1>t DEF MossOne, Running
  <2>1. /\ run \in MsRun /\ run.state = "PROGRESS" /\ run.done = old.done + 1
        /\ run.total = old.total /\ run.left = old.left \ {pair} /\ run.made = old.made \cup {pair}
    <3>1. /\ old.done + 1 \in Nat /\ old.left \ {pair} \in SUBSET MossPairs
          /\ old.made \cup {pair} \in SUBSET MossPairs
      BY <2>0 DEF MsRun
    <3> HIDE DEF old
    <3> QED BY <3>1, <2>0 DEF MsRun
  <2>2. SetRun(t, run)
    BY <1>6 DEF MossOne
  <2>a. old.left \in SUBSET MossPairs /\ old.done \in Nat /\ old.total \in Nat
    BY <2>0 DEF MsRun
  <2>b. Cardinality(old.left \ {pair}) = Cardinality(old.left) - 1
    BY <2>a, <2>0, <1>c, FS_RemoveElement
  <2>c. Cardinality(old.left) \in Nat /\ Cardinality(old.left \ {pair}) \in Nat
    BY <2>a, <1>c
  <2> HIDE DEF run
  <2>3. MossTypeOK'
    BY <1>6, <2>1, <2>2 DEF MossOne, SetRun, MossTypeOK, mshistory
  <2>4. /\ ms_tasks'[t] = run /\ Running' = Running
        /\ \A u \in MossTasks \ {t} : ms_tasks'[u] = ms_tasks[u]
    BY <2>0, <2>1, <2>2, <1>s
  <2>5. UNCHANGED <<ms_problems, ms_rows, ms_pages, ms_edits, ms_changed, ms_crossed, ms_refused>> /\ UNCHANGED Pairs
    BY <1>6 DEF MossOne, mshistory, Pairs
  <2>6. run.made \cup run.left = old.made \cup old.left
    BY <2>0, <2>1
  <2>7. RowsOfRuns'
    BY <2>0, <2>1, <2>4, <2>5, <2>6 DEF RowsOfRuns, MossTypeOK
  <2>8. LengthIsRight'
    <3>1. ASSUME t \notin ms_changed
          PROVE  /\ run.done + Cardinality(run.left) = run.total
                 /\ run.done <= run.total
                 /\ run.total = Cardinality(Pairs)
      <4>1. /\ old.done + Cardinality(old.left) = old.total
            /\ old.total = Cardinality(Pairs)
        BY <3>1, <2>0 DEF LengthIsRight
      <4> QED
        BY <4>1, <2>1, <2>a, <2>b, <2>c
    <3> QED
      BY <3>1, <2>1, <2>4, <2>5 DEF LengthIsRight
  <2>9. CrossedAreKnown' /\ LedRight'
    BY <2>0, <2>4, <2>5 DEF CrossedAreKnown, LedRight
  <2> QED BY <2>3, <2>7, <2>8, <2>9
<1>7. ASSUME NEW t \in MossTasks, StoreMoss(t)
      PROVE  MossInv'
  <2> DEFINE old == ms_tasks[t]
             taken == {row.pair : row \in ms_rows}
  <2>0. old \in MsRun /\ old.state = "PROGRESS" /\ t \in Running /\ old.left = {}
    BY <1>7, <1>t DEF StoreMoss, Running
  <2>a. UNCHANGED <<ms_problems, ms_pages, ms_edits, ms_changed, ms_crossed>> /\ UNCHANGED Pairs
    BY <1>7 DEF StoreMoss, Pairs
  <2>1. CASE old.made \cap taken = {}
    <3> DEFINE run == [old EXCEPT !.state = "SUCCESS", !.done = old.total]
               new == {[pair |-> p, by |-> t] : p \in old.made}
    <3>1. /\ run \in MsRun /\ run.state = "SUCCESS" /\ run.done = old.total
          /\ run.total = old.total /\ run.made = old.made
      BY <2>0 DEF MsRun, MsStates
    <3>2. SetRun(t, run) /\ ms_rows' = ms_rows \cup new /\ ms_refused' = ms_refused
      BY <1>7, <2>1 DEF StoreMoss
    <3>3. old.made \in SUBSET MossPairs /\ old.total \in Nat
      BY <2>0 DEF MsRun
    <3> HIDE DEF run
    <3>4. MossTypeOK'
      <4>1. new \in SUBSET [pair : MossPairs, by : MossTasks]
        BY <3>3
      <4> HIDE DEF new
      <4> QED BY <4>1, <3>1, <3>2, <2>a DEF SetRun, MossTypeOK
    <3>5. /\ ms_tasks'[t] = run /\ Running' = Running \ {t}
          /\ \A u \in MossTasks \ {t} : ms_tasks'[u] = ms_tasks[u]
      BY <3>1, <3>2, <1>s
    <3>6. ASSUME NEW row \in ms_rows
          PROVE  row.by # t /\ row.by \in MossTasks
      BY <2>0 DEF RowsOfRuns, MossTypeOK
    <3>7. RowsOfRuns'
      <4>1. ASSUME NEW row \in ms_rows'
            PROVE  /\ ms_tasks'[row.by].state = "SUCCESS"
                   /\ row.pair \in ms_tasks'[row.by].made
                   /\ \A p \in ms_tasks'[row.by].made : [pair |-> p, by |-> row.by] \in ms_rows'
        <5>1. CASE row \in ms_rows
          BY <5>1, <3>2, <3>5, <3>6 DEF RowsOfRuns
        <5>2. CASE row \in new
          BY <5>2, <3>1, <3>2, <3>5
        <5> QED BY <5>1, <5>2, <3>2
      <4>2. ASSUME NEW one \in ms_rows', NEW other \in ms_rows', one.pair = other.pair
            PROVE  one = other
        <5>1. CASE one \in ms_rows /\ other \in ms_rows
          BY <5>1, <4>2 DEF RowsOfRuns
        <5>2. CASE one \in new /\ other \in new
          BY <5>2, <4>2
        <5>3. CASE one \in ms_rows /\ other \in new
          BY <5>3, <4>2, <2>1
        <5>4. CASE one \in new /\ other \in ms_rows
          BY <5>4, <4>2, <2>1
        <5> QED BY <5>1, <5>2, <5>3, <5>4, <3>2
      <4>3. ms_edits = 0 => run.made = Pairs
        <5>1. ms_edits = 0 => old.made \cup old.left = Pairs
          BY <2>0 DEF RowsOfRuns
        <5>2. old.made \cup old.left = old.made
          BY <2>0
        <5> QED BY <5>1, <5>2, <3>1
      <4> HIDE DEF new, taken
      <4> QED
        BY <4>1, <4>2, <4>3, <3>1, <3>5, <2>a DEF RowsOfRuns
    <3>8. LengthIsRight'
      BY <2>0, <2>a, <3>1, <3>3, <3>5 DEF LengthIsRight
    <3>9. CrossedAreKnown'
      BY <2>0, <2>a, <3>2, <3>5 DEF CrossedAreKnown
    <3>10. LedRight'
      BY <2>a, <3>1, <3>5 DEF LedRight
    <3> QED BY <3>4, <3>7, <3>8, <3>9, <3>10
  <2>2. CASE old.made \cap taken # {}
    <3> DEFINE run == [old EXCEPT !.state = "FAILURE"]
    <3>1. /\ run \in MsRun /\ run.state = "FAILURE" /\ run.done = old.done /\ run.total = old.total
      BY <2>0 DEF MsRun, MsStates
    <3>2. SetRun(t, run) /\ ms_rows' = ms_rows /\ ms_refused' = ms_refused \cup {t}
      BY <1>7, <2>2 DEF StoreMoss
    <3>3. t \in ms_crossed
      BY <2>0, <2>2 DEF CrossedAreKnown
    <3> HIDE DEF run
    <3>4. MossTypeOK'
      BY <3>1, <3>2, <2>a DEF SetRun, MossTypeOK
    <3>5. /\ ms_tasks'[t] = run /\ Running' = Running \ {t}
          /\ \A u \in MossTasks \ {t} : ms_tasks'[u] = ms_tasks[u]
      BY <3>1, <3>2, <1>s
    <3>6. RowsOfRuns'
      BY <2>0, <2>a, <3>1, <3>2, <3>5 DEF RowsOfRuns, MossTypeOK
    <3>7. LengthIsRight'
      BY <2>0, <2>a, <3>1, <3>5 DEF LengthIsRight
    <3>8. CrossedAreKnown'
      BY <2>a, <3>2, <3>3, <3>5 DEF CrossedAreKnown
    <3>9. LedRight'
      BY <2>0, <2>a, <3>5 DEF LedRight
    <3> QED BY <3>4, <3>6, <3>7, <3>8, <3>9
  <2> QED BY <2>1, <2>2
<1>8. ASSUME NEW t \in MossTasks, MossFails(t)
      PROVE  MossInv'
  <2> DEFINE old == ms_tasks[t]
             run == [old EXCEPT !.state = "FAILURE"]
  <2>0. old \in MsRun /\ old.state # "SUCCESS"
    BY <1>8, <1>t DEF MossFails
  <2>1. /\ run \in MsRun /\ run.state = "FAILURE" /\ run.done = old.done /\ run.total = old.total
    BY <2>0 DEF MsRun, MsStates
  <2>2. SetRun(t, run) /\ UNCHANGED <<ms_rows, ms_problems, ms_pages, ms_edits, ms_changed, ms_crossed, ms_refused>> /\ UNCHANGED Pairs
    BY <1>8 DEF MossFails, mshistory, Pairs
  <2> HIDE DEF run
  <2>4. MossTypeOK'
    BY <2>1, <2>2 DEF SetRun, MossTypeOK
  <2>5. /\ ms_tasks'[t] = run /\ Running' = Running \ {t}
        /\ \A u \in MossTasks \ {t} : ms_tasks'[u] = ms_tasks[u]
    BY <2>1, <2>2, <1>s
  <2>6. RowsOfRuns'
    BY <2>0, <2>1, <2>2, <2>5 DEF RowsOfRuns, MossTypeOK
  <2>7. LengthIsRight'
    BY <2>0, <2>1, <2>2, <2>5 DEF LengthIsRight
  <2>8. CrossedAreKnown' /\ LedRight'
    BY <2>0, <2>2, <2>5 DEF CrossedAreKnown, LedRight
  <2> QED BY <2>4, <2>6, <2>7, <2>8
<1>9. ASSUME NEW t \in MossTasks, FollowTask(t)
      PROVE  MossInv'
  <2>1. MossTypeOK'
    BY <1>9, <1>t DEF FollowTask, MossTypeOK, mshistory, MsRun
  <2>2. RowsOfRuns' /\ LengthIsRight' /\ CrossedAreKnown'
    BY <1>9 DEF FollowTask, mshistory, RowsOfRuns, LengthIsRight, CrossedAreKnown, Running, Pairs
  <2>3. LedRight'
    BY <1>9 DEF FollowTask, LedRight, MossTypeOK
  <2> QED BY <2>1, <2>2, <2>3
<1>10. CASE UNCHANGED msvars
  BY <1>10 DEF msvars, MossTypeOK, RowsOfRuns, LengthIsRight, CrossedAreKnown, LedRight, Running, Pairs
<1> QED
  BY <1>1, <1>2, <1>3, <1>4, <1>5, <1>6, <1>7, <1>8, <1>9, <1>10 DEF MsNext

\* With nothing edited, tasks with results stored are one: each is about all pairs.
LEMMA OneRunUnlessEdited ==
    ASSUME MossInv
    PROVE  Cardinality({row.by : row \in ms_rows}) > 1 => ms_edits > 0
<1> DEFINE runs == {row.by : row \in ms_rows}
<1>1. ASSUME ms_edits = 0, NEW one \in ms_rows, NEW other \in ms_rows
      PROVE  one.by = other.by
  <2>1. one.by \in MossTasks /\ other.by \in MossTasks
    BY DEF MossInv, MossTypeOK
  <2>2. one.pair \in Pairs /\ ms_tasks[other.by].made = Pairs
    BY <1>1, <2>1 DEF MossInv, RowsOfRuns
  <2>3. [pair |-> one.pair, by |-> other.by] \in ms_rows
    BY <2>2 DEF MossInv, RowsOfRuns
  <2>4. [pair |-> one.pair, by |-> other.by] = one
    BY <2>3 DEF MossInv, RowsOfRuns
  <2> QED BY <2>4
<1>2. ASSUME ms_edits = 0
      PROVE  Cardinality(runs) \in {0, 1}
  <2>1. CASE ms_rows = {}
    BY <2>1, FS_EmptySet
  <2>2. CASE ms_rows # {}
    <3>1. PICK first \in ms_rows : TRUE
      BY <2>2
    <3>2. runs = {first.by}
      BY <1>1, <1>2, <3>1
    <3>3. Cardinality({first.by}) = 1
      BY FS_Singleton
    <3> QED BY <3>2, <3>3
  <2> QED BY <2>1, <2>2
<1> HIDE DEF runs
<1>3. Cardinality(runs) > 1 => ms_edits > 0
  BY <1>2 DEF MossInv, MossTypeOK
<1> QED
  BY <1>3 DEF runs

\* Results that are of runs are of one run.
LEMMA MossSafe == MossAssumption /\ MossInv => MossHolds
<1> SUFFICES ASSUME MossAssumption, MossInv PROVE MossHolds
  OBVIOUS
<1>1. ResultsOfOneRun
  BY OneRunUnlessEdited DEF MossInv, RowsOfRuns, ResultsOfOneRun
<1>2. ProgressInBounds
  <2>1. \A t \in MossTasks : ms_tasks[t].done \in Nat /\ ms_tasks[t].total \in Nat
    BY DEF MossInv, MossTypeOK, MsRun
  <2> QED BY <2>1 DEF MossInv, LengthIsRight, ProgressInBounds
<1>3. LedToResults /\ OnlyCrossedRefused
  BY DEF MossInv, LedRight, RowsOfRuns, CrossedAreKnown, LedToResults, OnlyCrossedRefused
<1> QED BY <1>1, <1>2, <1>3 DEF MossHolds

\* run_moss and the page that follows it (tasks/contest.py, views/tasks.py): the results stored are of one
\* run and complete when the page leads to them, but for runs that overlapped or whose problems changed.
THEOREM ReportsAreOfOneRun == ASSUME MossAssumption PROVE MsSpec => []MossHolds
<1>1. MsInit => MossInv
  BY MossInit
<1>2. MossInv /\ [MsNext]_msvars => MossInv'
  BY MossStep
<1>3. MossInv => MossHolds
  BY MossSafe
<1> QED
  BY <1>1, <1>2, <1>3, PTL DEF MsSpec

-----------------------------------------------------------------------------
(* Side by side.                                                           *)

\* What is invariant of the component a behaviour is of.
JudgingInv ==
    /\ part = "framing" => FramingInv
    /\ part = "machines" => MachinesInv
    /\ part = "progress" => ProgressInv
    /\ part = "locks" => LocksInv
    /\ part = "limits" => LimitsInv
    /\ part = "plagiarism" => MossInv

\* A step is of the component the behaviour is of, or of none.
LEMMA JudgingStep == JudgingAssumption /\ JudgingInv /\ [JudgingNext]_jdvars => JudgingInv'
<1> SUFFICES ASSUME JudgingAssumption, JudgingInv, [JudgingNext]_jdvars
             PROVE  JudgingInv'
  OBVIOUS
<1>0. part' = part
  BY DEF JudgingNext, jdvars
<1>1. part = "framing" => [FrNext]_frvars
  BY DEF JudgingNext, jdvars
<1>2. part = "machines" => [JmNext]_jmvars
  BY DEF JudgingNext, jdvars
<1>3. part = "progress" => [PrNext]_prvars
  BY DEF JudgingNext, jdvars
<1>4. part = "locks" => [LkNext]_lkvars
  BY DEF JudgingNext, jdvars
<1>5. part = "limits" => [LiNext]_livars
  BY DEF JudgingNext, jdvars
<1>6. part = "plagiarism" => [MsNext]_msvars
  BY DEF JudgingNext, jdvars
<1> QED
  BY <1>0, <1>1, <1>2, <1>3, <1>4, <1>5, <1>6, FramingStep, MachinesStep, ProgressStep, LocksStep, LimitsStep,
     MossStep DEF JudgingInv, JudgingAssumption

\* Whichever component a behaviour is of, what is said of it holds: packets, rows of judges, announcements,
\* locks, limits and reports, for any number of connections, judges, submissions, requests and runs.
THEOREM JudgingIsRight == ASSUME JudgingAssumption PROVE JudgingSpec => []JudgingHolds
<1>1. JudgingInit => JudgingInv
  BY FramingInit, MachinesInit, ProgressBegins, LocksInit, LimitsInit, MossInit
     DEF JudgingInit, JudgingInv, JudgingAssumption
<1>2. JudgingInv /\ [JudgingNext]_jdvars => JudgingInv'
  BY JudgingStep
<1>3. JudgingInv => JudgingHolds
  BY FramingSafe, MachinesSafe, ProgressSafe, MossSafe
     DEF JudgingInv, JudgingHolds, JudgingAssumption, LocksInv, LimitsInv
<1> QED
  BY <1>1, <1>2, <1>3, PTL DEF JudgingSpec
=============================================================================
