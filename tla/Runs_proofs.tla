----------------------------- MODULE Runs_proofs -----------------------------
(***************************************************************************)
(* The two kinds of runs that go through a source out of order: a run over *)
(* an HLS file (HlsPipeline) writes no packet too early and, undisturbed,  *)
(* every packet once and in order; a run over a set of frames (FrameReads) *)
(* that ends in success has every frame the source can deliver.  For every *)
(* source, segment length, request and repair.                             *)
(***************************************************************************)
EXTENDS FrameReads, HlsPipeline, WellFoundedInduction, SequenceTheorems, TLAPS

-----------------------------------------------------------------------------
(* Frame sets. *)

\* A worker between its start and its end.
Working == worker \in {"loop", "seek", "decode"}

\* A run that has not seeked has come to its position frame by frame: what lies
\* behind it is in the cache, except what cannot be decoded.  A run that has
\* seeked is nowhere trusted, because it does not end in success.
Passed ==
    Working /\ ~jumped =>
        next \in 1..Count + 1 /\ (1..next - 1) \ source.missing \subseteq have

FrameInv == Passed /\ SuccessHasAll

-----------------------------------------------------------------------------
LEMMA InitInv == FrameReadsInit => FrameInv
BY DEF FrameReadsInit, FrameInv, Passed, Working, SuccessHasAll

\* The cache is erased only by a run that starts over, which has no result yet.
LEMMA OpenedInv == ASSUME FrameInv, Opened PROVE FrameInv'
<1>1. next' = 1 /\ result' = "none" /\ source' = source
  BY DEF Opened
<1>2. (1..next' - 1) = {} /\ next' \in 1..Count + 1
  BY <1>1, FrameReadsAssumption
<1> QED
  BY <1>1, <1>2 DEF FrameInv, Passed, SuccessHasAll

\* A read changes at most what is asked for, and takes back an incomplete result.
LEMMA ReadInv ==
    ASSUME FrameInv, NEW r \in Readers, ReadStep(r) \/ TimeOut(r)
    PROVE  FrameInv'
<1>1. UNCHANGED <<source, worker, have, next, jumped>> /\ (result' = result \/ result' = "none")
  BY DEF ReadStep, TimeOut, Probe, Request, Look, Start, Poll, Check, cacheVars, decoderVars
<1> QED
  BY <1>1 DEF FrameInv, Passed, Working, SuccessHasAll

LEMMA WorkInv == ASSUME FrameInv, WorkStep PROVE FrameInv'
<1>1. CASE Begin
  BY <1>1, OpenedInv DEF Begin
<1>2. CASE Loop
  BY <1>2 DEF Loop, FrameInv, Passed, Working, SuccessHasAll
<1>3. CASE SeekFrame
  <2>1. /\ worker = "seek" /\ UNCHANGED <<source, have, result>>
        /\ UNCHANGED <<next, jumped>> \/ jumped'
    BY <1>3 DEF SeekFrame, cacheVars
  <2> QED
    BY <2>1 DEF FrameInv, Passed, Working, SuccessHasAll
<1>4. CASE DecodeFrame
  <2>1. /\ worker = "decode" /\ next <= Count /\ next' = next + 1
        /\ UNCHANGED <<source, result, jumped>>
        /\ have' = IF next \in source.missing THEN have ELSE have \cup {next}
    BY <1>4 DEF DecodeFrame
  <2>2. SuccessHasAll'
    BY <2>1 DEF FrameInv, SuccessHasAll
  <2>3. ASSUME ~jumped PROVE Passed'
    <3>1. next \in 1..Count + 1 /\ (1..next - 1) \ source.missing \subseteq have
      BY <2>1, <2>3 DEF FrameInv, Passed, Working
    <3>2. next' \in 1..Count + 1 /\ 1..next' - 1 = (1..next - 1) \cup {next}
      BY <2>1, <3>1, FrameReadsAssumption
    <3> QED
      BY <2>1, <3>1, <3>2 DEF Passed
  <2> QED
    BY <2>1, <2>2, <2>3 DEF FrameInv, Passed
<1>5. CASE EndOfSource
  <2>1. /\ worker = "decode" /\ next > Count /\ result' = IF jumped THEN "incomplete" ELSE "success"
        /\ UNCHANGED <<source, have, next, jumped>>
    BY <1>5 DEF EndOfSource, decoderVars
  <2>2. ASSUME ~jumped PROVE Frames \ source.missing \subseteq have
    <3>1. next \in 1..Count + 1 /\ (1..next - 1) \ source.missing \subseteq have
      BY <2>1, <2>2 DEF FrameInv, Passed, Working
    <3>2. 1..next - 1 = Frames
      BY <2>1, <3>1, FrameReadsAssumption DEF Frames
    <3> QED
      BY <3>1, <3>2
  <2> QED
    BY <2>1, <2>2 DEF FrameInv, Passed, Working, SuccessHasAll, Frames
<1>6. CASE Leave
  <2>1. CASE wanted # 0 /\ ~jumped
    BY <1>6, <2>1, OpenedInv DEF Leave
  <2>2. CASE ~(wanted # 0 /\ ~jumped)
    BY <1>6, <2>2 DEF Leave, FrameInv, Passed, Working, SuccessHasAll
  <2> QED
    BY <2>1, <2>2
<1>7. CASE Undecode
  BY <1>7 DEF Undecode, FrameInv, Passed, Working, SuccessHasAll
<1> QED
  BY <1>1, <1>2, <1>3, <1>4, <1>5, <1>6, <1>7 DEF WorkStep

\* A frame set that was transcoded to its end without a seek, or whose missing
\* frames were asked for one by one, is marked as complete only if every frame
\* that can be decoded is there: m_result of transcode_finish (transcode.cc).
THEOREM SuccessHasAllHolds == FrameReadsSpec => []SuccessHasAll
<1>1. FrameInv /\ [FrameReadsNext]_frameVars => FrameInv'
  <2> SUFFICES ASSUME FrameInv, [FrameReadsNext]_frameVars PROVE FrameInv'
    OBVIOUS
  <2>1. CASE UNCHANGED frameVars
    BY <2>1 DEF frameVars, cacheVars, decoderVars, FrameInv, Passed, Working, SuccessHasAll
  <2> QED
    BY <2>1, WorkInv, ReadInv DEF FrameReadsNext
<1>2. FrameInv => SuccessHasAll
  BY DEF FrameInv
<1> QED
  BY InitInv, <1>1, <1>2, PTL DEF FrameReadsSpec

-----------------------------------------------------------------------------
(* Segments of positions. *)

LEMMA ProductGrows == ASSUME NEW a \in Int, NEW b \in Int, NEW d \in Nat, a <= b PROVE a * d <= b * d
<1>1. (b - a) * d >= 0
  <2> DEFINE e == b - a
  <2>1. e \in Nat
    OBVIOUS
  <2>2. e * d >= 0
    BY <2>1
  <2> QED
    BY <2>2
<1>2. (b - a) * d = b * d - a * d
  OBVIOUS
<1> QED
  BY <1>1, <1>2

LEMMA SegmentIs ==
    ASSUME NEW x \in Nat
    PROVE  /\ SegmentOf(x) \in Nat \ {0}
           /\ (SegmentOf(x) - 1) * SegDur <= x /\ x < SegmentOf(x) * SegDur
BY PipelineAssumption DEF SegmentOf

\* A position in front of the start of segment i is in a segment before it.
LEMMA SegmentBefore ==
    ASSUME NEW x \in Nat, NEW i \in Nat, x < i * SegDur PROVE SegmentOf(x) <= i
<1> DEFINE n == SegmentOf(x)
<1>1. n \in Nat \ {0} /\ (n - 1) * SegDur <= x /\ SegDur \in Nat
  BY SegmentIs, PipelineAssumption
<1> HIDE DEF n
<1>2. CASE i <= n - 1
  <2>1. i * SegDur <= (n - 1) * SegDur
    BY <1>1, <1>2, ProductGrows
  <2>2. i * SegDur \in Int /\ (n - 1) * SegDur \in Int
    BY <1>1
  <2> QED
    BY <1>1, <2>1, <2>2
<1>3. CASE n <= i
  BY <1>3 DEF n
<1> QED
  BY <1>1, <1>2, <1>3

LEMMA SegmentGrows ==
    ASSUME NEW x \in Nat, NEW y \in Nat, x <= y PROVE SegmentOf(x) <= SegmentOf(y)
<1> DEFINE n == SegmentOf(y)
<1>1. n \in Nat /\ y < n * SegDur /\ n * SegDur \in Int
  BY SegmentIs, PipelineAssumption
<1> HIDE DEF n
<1>2. SegmentOf(x) <= n
  BY <1>1, SegmentBefore
<1> QED
  BY <1>2 DEF n

\* A step of at most a segment leads at most into the next one.
LEMMA SegmentStep ==
    ASSUME NEW x \in Nat, NEW y \in Nat, y <= x + SegDur PROVE SegmentOf(y) <= SegmentOf(x) + 1
<1> DEFINE n == SegmentOf(x)
<1>1. n \in Nat /\ x < n * SegDur /\ n * SegDur \in Int /\ SegDur \in Nat
  BY SegmentIs, PipelineAssumption
<1> HIDE DEF n
<1>2. (n + 1) * SegDur = n * SegDur + SegDur
  BY <1>1
<1>3. y < (n + 1) * SegDur
  BY <1>1, <1>2
<1>4. SegmentOf(y) <= n + 1
  BY <1>1, <1>3, SegmentBefore
<1> QED
  BY <1>4 DEF n

-----------------------------------------------------------------------------
(* What a queue of packets holds. *)

Elems(s) == {s[k] : k \in DOMAIN s}

LEMMA ElemsOf == ASSUME NEW s \in Seq(Packet) PROVE Elems(s) \subseteq Packet
BY LenProperties DEF Elems

LEMMA PacketIs ==
    ASSUME NEW p \in Packet
    PROVE  p.pos \in Nat /\ p.len \in Nat /\ p.media \in Media /\ p.key \in BOOLEAN
BY DEF Packet

LEMMA PacketsOf ==
    ASSUME NEW s \in Seq(Packet)
    PROVE  \A k \in DOMAIN s : s[k] \in Packet /\ s[k].pos \in Nat /\ s[k].len \in Nat
<1>1. \A k \in DOMAIN s : s[k] \in Packet
  BY LenProperties
<1> QED
  BY <1>1, PacketIs

LEMMA ElemsEmpty == Elems(<<>>) = {}
BY EmptySeq DEF Elems

LEMMA ElemsAppend ==
    ASSUME NEW s \in Seq(Packet), NEW p \in Packet
    PROVE  Append(s, p) \in Seq(Packet) /\ Elems(Append(s, p)) = Elems(s) \cup {p}
<1> DEFINE a == Append(s, p)
<1>1. /\ a \in Seq(Packet) /\ Len(a) = Len(s) + 1 /\ a[Len(s) + 1] = p
      /\ \A i \in 1..Len(s) : a[i] = s[i]
  BY AppendProperties
<1>2. DOMAIN s = 1..Len(s) /\ DOMAIN a = 1..Len(s) + 1 /\ Len(s) \in Nat
  BY <1>1, LenProperties
<1> HIDE DEF a
<1>3. \A i : i \in 1..Len(s) + 1 <=> i \in 1..Len(s) \/ i = Len(s) + 1
  BY <1>2
<1>4. Elems(a) = Elems(s) \cup {p}
  BY <1>1, <1>2, <1>3 DEF Elems
<1> QED
  BY <1>1, <1>4 DEF a

LEMMA ElemsTail ==
    ASSUME NEW s \in Seq(Packet), s # <<>>
    PROVE  /\ Tail(s) \in Seq(Packet) /\ s[1] \in Packet /\ s[1] \in Elems(s)
           /\ Elems(s) = Elems(Tail(s)) \cup {s[1]}
<1> DEFINE t == Tail(s)
<1>1. t \in Seq(Packet) /\ Len(t) = Len(s) - 1 /\ \A i \in 1..Len(t) : t[i] = s[i + 1]
  BY HeadTailProperties
<1>2. DOMAIN s = 1..Len(s) /\ DOMAIN t = 1..Len(s) - 1 /\ Len(s) \in Nat \ {0}
  BY <1>1, LenProperties, EmptySeq
<1> HIDE DEF t
<1>3. s[1] \in Packet /\ s[1] \in Elems(s)
  BY <1>2, ElementOfSeq DEF Elems
<1>4. Elems(t) \subseteq Elems(s)
  <2>1. \A i \in 1..Len(s) - 1 : t[i] = s[i + 1] /\ i + 1 \in 1..Len(s)
    BY <1>1, <1>2
  <2> QED
    BY <1>2, <2>1 DEF Elems
<1>5. ASSUME NEW k \in DOMAIN s, k # 1 PROVE s[k] \in Elems(t)
  <2>1. k - 1 \in 1..Len(s) - 1 /\ (k - 1) + 1 = k
    BY <1>2, <1>5
  <2>2. t[k - 1] = s[k]
    BY <1>1, <1>2, <2>1
  <2> QED
    BY <1>2, <2>1, <2>2 DEF Elems
<1>6. Elems(s) = Elems(t) \cup {s[1]}
  BY <1>3, <1>4, <1>5 DEF Elems
<1> QED
  BY <1>1, <1>3, <1>6 DEF t

LEMMA ElemsConcat ==
    ASSUME NEW s \in Seq(Packet), NEW t \in Seq(Packet)
    PROVE  s \o t \in Seq(Packet) /\ Elems(s \o t) = Elems(s) \cup Elems(t)
<1> DEFINE c == s \o t
<1>1. /\ c \in Seq(Packet) /\ Len(c) = Len(s) + Len(t)
      /\ \A i \in 1..Len(s) + Len(t) : c[i] = IF i <= Len(s) THEN s[i] ELSE t[i - Len(s)]
  BY ConcatProperties
<1>2. /\ DOMAIN s = 1..Len(s) /\ DOMAIN t = 1..Len(t) /\ DOMAIN c = 1..Len(s) + Len(t)
      /\ Len(s) \in Nat /\ Len(t) \in Nat
  BY <1>1, LenProperties
<1> HIDE DEF c
<1>3. ASSUME NEW i \in 1..Len(s) + Len(t) PROVE c[i] \in Elems(s) \cup Elems(t)
  <2>1. CASE i <= Len(s)
    <3>1. i \in DOMAIN s /\ c[i] = s[i]
      BY <1>1, <1>2, <2>1
    <3> QED
      BY <3>1 DEF Elems
  <2>2. CASE ~(i <= Len(s))
    <3>1. i - Len(s) \in DOMAIN t /\ c[i] = t[i - Len(s)]
      BY <1>1, <1>2, <2>2
    <3> QED
      BY <3>1 DEF Elems
  <2> QED
    BY <2>1, <2>2
<1>4. ASSUME NEW i \in 1..Len(s) PROVE s[i] \in Elems(c)
  <2>1. i \in 1..Len(s) + Len(t) /\ i <= Len(s)
    BY <1>2
  <2>2. i \in DOMAIN c /\ c[i] = s[i]
    BY <1>1, <1>2, <2>1
  <2> QED
    BY <2>2 DEF Elems
<1>5. ASSUME NEW i \in 1..Len(t) PROVE t[i] \in Elems(c)
  <2>1. i + Len(s) \in 1..Len(s) + Len(t) /\ ~(i + Len(s) <= Len(s)) /\ (i + Len(s)) - Len(s) = i
    BY <1>2
  <2>2. c[i + Len(s)] = t[i]
    BY <1>1, <2>1
  <2> QED
    BY <1>2, <2>1, <2>2 DEF Elems
<1>6. Elems(c) = Elems(s) \cup Elems(t)
  BY <1>2, <1>3, <1>4, <1>5 DEF Elems
<1> QED
  BY <1>1, <1>6 DEF c

-----------------------------------------------------------------------------
(* The map of frames. *)

Sorted(s) == \A k, l \in DOMAIN s : k <= l => s[k].pos <= s[l].pos

LEMMA LeastOf == ASSUME NEW S \in SUBSET Nat, S # {} PROVE \E x \in S : \A y \in S : x <= y
<1>1. PICK x \in S : \A y \in S : ~(<<y, x>> \in OpToRel(<, Nat))
  BY NatLessThanWellFounded, WFMin
<1>2. \A y \in S : ~(y < x)
  BY <1>1 DEF OpToRel
<1> QED
  BY <1>2

\* Whether n frames of the map go before f.
Precede(n, f) == \A k \in DOMAIN frames : frames[k].pos <= f.pos <=> k <= n

LEMMA BeforeIs ==
    ASSUME frames \in Seq(Packet), Sorted(frames), NEW f \in Packet
    PROVE  Before(f) \in 0..Len(frames) /\ Precede(Before(f), f)
<1>1. DOMAIN frames = 1..Len(frames) /\ Len(frames) \in Nat
  BY LenProperties
<1>2. \A k \in DOMAIN frames : frames[k].pos \in Nat
  BY PacketsOf
<1>3. f.pos \in Nat
  BY DEF Packet
<1> DEFINE S == {k \in DOMAIN frames : ~(frames[k].pos <= f.pos)}
<1>4. \E n \in 0..Len(frames) : Precede(n, f)
  <2>1. CASE S = {}
    <3>1. Precede(Len(frames), f)
      BY <1>1, <2>1 DEF Precede
    <3> QED
      BY <1>1, <3>1
  <2>2. CASE S # {}
    <3>1. S \in SUBSET Nat
      BY <1>1
    <3>2. PICK x \in S : \A y \in S : x <= y
      BY <2>2, <3>1, LeastOf
    <3>3. x \in 1..Len(frames) /\ x - 1 \in 0..Len(frames)
      BY <1>1, <3>2
    <3>4. ASSUME NEW k \in DOMAIN frames PROVE frames[k].pos <= f.pos <=> k <= x - 1
      <4>1. CASE k <= x - 1
        <5>1. ~(x <= k)
          BY <1>1, <3>3, <4>1
        <5> QED
          BY <3>2, <4>1, <5>1
      <4>2. CASE ~(k <= x - 1)
        <5>1. x <= k /\ x \in DOMAIN frames
          BY <1>1, <3>3, <4>2
        <5>2. frames[x].pos <= frames[k].pos
          BY <5>1 DEF Sorted
        <5>3. ~(frames[x].pos <= f.pos)
          BY <3>2
        <5>4. ~(frames[k].pos <= f.pos)
          BY <1>2, <1>3, <5>1, <5>2, <5>3
        <5> QED
          BY <4>2, <5>4
      <4> QED
        BY <4>1, <4>2
    <3>5. Precede(x - 1, f)
      BY <3>4 DEF Precede
    <3> QED
      BY <3>3, <3>5
  <2> QED
    BY <2>1, <2>2
<1>5. Before(f) = CHOOSE n \in 0..Len(frames) : Precede(n, f)
  BY DEF Before, Precede
<1> HIDE DEF Precede
<1> QED
  BY <1>4, <1>5

\* Where the elements of the map are after f has been inserted.
LEMMA InsertedPlaces ==
    ASSUME frames \in Seq(Packet), Sorted(frames), NEW f \in Packet
    PROVE  LET n == Before(f)
               t == Inserted(f)
           IN  /\ t \in Seq(Packet) /\ DOMAIN t = 1..Len(frames) + 1
               /\ n \in 0..Len(frames) /\ Len(frames) \in Nat /\ DOMAIN frames = 1..Len(frames)
               /\ t[n + 1] = f
               /\ \A k \in 1..n : t[k] = frames[k] /\ k \in DOMAIN frames /\ frames[k].pos <= f.pos
               /\ \A k \in n + 2..Len(frames) + 1 :
                    t[k] = frames[k - 1] /\ k - 1 \in DOMAIN frames /\ ~(frames[k - 1].pos <= f.pos)
<1> DEFINE n == Before(f)
<1> DEFINE t == Inserted(f)
<1>1. DOMAIN frames = 1..Len(frames) /\ Len(frames) \in Nat
  BY LenProperties
<1>2. n \in 0..Len(frames) /\ \A k \in DOMAIN frames : frames[k].pos <= f.pos <=> k <= n
  BY BeforeIs DEF Precede
<1>3. t = [k \in 1..Len(frames) + 1 |->
             IF k <= n THEN frames[k] ELSE IF k = n + 1 THEN f ELSE frames[k - 1]]
  BY DEF Inserted
<1> HIDE DEF n, t
<1>4. DOMAIN t = 1..Len(frames) + 1
  BY <1>3
<1>5. t[n + 1] = f
  BY <1>1, <1>2, <1>3
<1>6. ASSUME NEW k \in 1..n PROVE t[k] = frames[k] /\ k \in DOMAIN frames /\ frames[k].pos <= f.pos
  <2>1. k \in 1..Len(frames) + 1 /\ k <= n /\ k \in DOMAIN frames
    BY <1>1, <1>2
  <2> QED
    BY <1>2, <1>3, <2>1
<1>7. ASSUME NEW k \in n + 2..Len(frames) + 1
      PROVE  t[k] = frames[k - 1] /\ k - 1 \in DOMAIN frames /\ ~(frames[k - 1].pos <= f.pos)
  <2>1. /\ k \in 1..Len(frames) + 1 /\ ~(k <= n) /\ k # n + 1 /\ k - 1 \in DOMAIN frames
        /\ ~(k - 1 <= n)
    BY <1>1, <1>2
  <2> QED
    BY <1>2, <1>3, <2>1
<1>8. t \in Seq(Packet)
  <2>1. ASSUME NEW k \in 1..Len(frames) + 1 PROVE t[k] \in Packet
    <3>1. k \in 1..n \/ k = n + 1 \/ k \in n + 2..Len(frames) + 1
      BY <1>1, <1>2
    <3> QED
      BY <1>1, <1>5, <1>6, <1>7, <3>1, ElementOfSeq
  <2>2. Len(frames) + 1 \in Nat /\ t \in [1..Len(frames) + 1 -> Packet]
    BY <1>1, <1>3, <2>1
  <2> QED
    BY <2>2, SeqDef
<1>9. t \in Seq(Packet) /\ DOMAIN t = 1..Len(frames) + 1
      /\ n \in 0..Len(frames) /\ Len(frames) \in Nat /\ DOMAIN frames = 1..Len(frames)
  BY <1>1, <1>2, <1>4, <1>8
<1> QED
  BY <1>5, <1>6, <1>7, <1>9 DEF n, t

\* The map has the frame in addition, and stays sorted.
LEMMA InsertedIs ==
    ASSUME frames \in Seq(Packet), Sorted(frames), NEW f \in Packet
    PROVE  /\ Inserted(f) \in Seq(Packet)
           /\ Elems(Inserted(f)) = Elems(frames) \cup {f}
           /\ Sorted(Inserted(f))
<1> DEFINE n == Before(f)
<1> DEFINE t == Inserted(f)
<1>1. /\ t \in Seq(Packet) /\ DOMAIN t = 1..Len(frames) + 1
      /\ n \in 0..Len(frames) /\ Len(frames) \in Nat /\ DOMAIN frames = 1..Len(frames)
      /\ t[n + 1] = f
  BY InsertedPlaces
<1>2. \A k \in 1..n : t[k] = frames[k] /\ k \in DOMAIN frames /\ frames[k].pos <= f.pos
  BY InsertedPlaces
<1>3. \A k \in n + 2..Len(frames) + 1 :
        t[k] = frames[k - 1] /\ k - 1 \in DOMAIN frames /\ ~(frames[k - 1].pos <= f.pos)
  BY InsertedPlaces
<1> HIDE DEF n, t
<1>4. ASSUME NEW k \in DOMAIN t PROVE k \in 1..n \/ k = n + 1 \/ k \in n + 2..Len(frames) + 1
  BY <1>1
<1>5. f.pos \in Nat /\ \A k \in DOMAIN frames : frames[k].pos \in Nat
  BY PacketsOf, PacketIs
<1>6. Elems(t) = Elems(frames) \cup {f}
  <2>1. ASSUME NEW k \in DOMAIN t PROVE t[k] \in Elems(frames) \cup {f}
    BY <1>1, <1>2, <1>3, <1>4 DEF Elems
  <2>2. ASSUME NEW k \in DOMAIN frames PROVE frames[k] \in Elems(t)
    <3>1. CASE k <= n
      <4>1. k \in 1..n /\ k \in DOMAIN t
        BY <1>1, <3>1
      <4> QED
        BY <1>2, <4>1 DEF Elems
    <3>2. CASE ~(k <= n)
      <4>1. k + 1 \in n + 2..Len(frames) + 1 /\ k + 1 \in DOMAIN t /\ (k + 1) - 1 = k
        BY <1>1, <3>2
      <4>2. t[k + 1] = frames[k]
        BY <1>3, <4>1
      <4> QED
        BY <4>1, <4>2 DEF Elems
    <3> QED
      BY <3>1, <3>2
  <2>3. f \in Elems(t)
    <3>1. n + 1 \in DOMAIN t
      BY <1>1
    <3> QED
      BY <1>1, <3>1 DEF Elems
  <2> QED
    BY <2>1, <2>2, <2>3 DEF Elems
<1>7. Sorted(t)
  <2> SUFFICES ASSUME NEW k \in DOMAIN t, NEW l \in DOMAIN t, k <= l PROVE t[k].pos <= t[l].pos
    BY DEF Sorted
  <2>1. CASE k \in 1..n /\ l \in 1..n
    BY <1>2, <2>1 DEF Sorted
  <2>2. CASE k \in 1..n /\ l = n + 1
    BY <1>1, <1>2, <2>2
  <2>3. CASE k \in 1..n /\ l \in n + 2..Len(frames) + 1
    <3>1. /\ t[k] = frames[k] /\ k \in DOMAIN frames /\ frames[k].pos <= f.pos
          /\ t[l] = frames[l - 1] /\ l - 1 \in DOMAIN frames /\ ~(frames[l - 1].pos <= f.pos)
      BY <1>2, <1>3, <2>3
    <3> QED
      BY <1>5, <3>1
  <2>4. CASE k = n + 1 /\ l = n + 1
    BY <1>1, <1>5, <2>4
  <2>5. CASE k = n + 1 /\ l \in n + 2..Len(frames) + 1
    <3>1. /\ t[k] = f /\ t[l] = frames[l - 1] /\ l - 1 \in DOMAIN frames
          /\ ~(frames[l - 1].pos <= f.pos)
      BY <1>1, <1>3, <2>5
    <3> QED
      BY <1>5, <3>1
  <2>6. CASE k \in n + 2..Len(frames) + 1 /\ l \in n + 2..Len(frames) + 1
    <3>1. /\ t[k] = frames[k - 1] /\ k - 1 \in DOMAIN frames
          /\ t[l] = frames[l - 1] /\ l - 1 \in DOMAIN frames
      BY <1>3, <2>6
    <3>2. k - 1 <= l - 1
      BY <1>1
    <3> QED
      BY <3>1, <3>2 DEF Sorted
  <2>7. \/ k \in 1..n /\ l \in 1..n
        \/ k \in 1..n /\ l = n + 1
        \/ k \in 1..n /\ l \in n + 2..Len(frames) + 1
        \/ k = n + 1 /\ l = n + 1
        \/ k = n + 1 /\ l \in n + 2..Len(frames) + 1
        \/ k \in n + 2..Len(frames) + 1 /\ l \in n + 2..Len(frames) + 1
    BY <1>1
  <2> QED
    BY <2>1, <2>2, <2>3, <2>4, <2>5, <2>6, <2>7
<1> QED
  BY <1>1, <1>6, <1>7 DEF t

\* Without its first frame the map is sorted too, and the first is the earliest.
LEMMA SortedTail ==
    ASSUME NEW s \in Seq(Packet), s # <<>>, Sorted(s)
    PROVE  Sorted(Tail(s)) /\ \A p \in Elems(s) : s[1].pos <= p.pos
<1> DEFINE t == Tail(s)
<1>1. t \in Seq(Packet) /\ Len(t) = Len(s) - 1 /\ \A i \in 1..Len(t) : t[i] = s[i + 1]
  BY HeadTailProperties
<1>2. DOMAIN s = 1..Len(s) /\ DOMAIN t = 1..Len(s) - 1 /\ Len(s) \in Nat \ {0}
  BY <1>1, LenProperties, EmptySeq
<1> HIDE DEF t
<1>3. ASSUME NEW k \in DOMAIN t, NEW l \in DOMAIN t, k <= l PROVE t[k].pos <= t[l].pos
  <2>1. k + 1 \in DOMAIN s /\ l + 1 \in DOMAIN s /\ k + 1 <= l + 1
    BY <1>2, <1>3
  <2>2. t[k] = s[k + 1] /\ t[l] = s[l + 1]
    BY <1>1, <1>2
  <2> QED
    BY <2>1, <2>2 DEF Sorted
<1>4. ASSUME NEW k \in DOMAIN s PROVE s[1].pos <= s[k].pos
  <2>1. 1 \in DOMAIN s /\ 1 <= k
    BY <1>2
  <2> QED
    BY <2>1 DEF Sorted
<1> QED
  BY <1>3, <1>4 DEF Sorted, Elems, t

-----------------------------------------------------------------------------
(* Where reading goes on after a seek. *)

LEMMA SetupIs ==
    ASSUME setup \in Setups
    PROVE  /\ Input \in Seq(Packet) /\ DOMAIN Input = 1..Len(Input) /\ Len(Input) \in Nat
           /\ \A k \in 1..Len(Input) : Input[k] \in Packet /\ Input[k].pos \in Nat /\ Input[k].len \in Nat
           /\ setup.copied \in SUBSET AV /\ setup.index \in [AV -> Int]
           /\ setup.first \in 0..Segments /\ setup.minSeek \in Nat /\ setup.lag \in Nat
<1>1. /\ Input \in Seq(Packet)
      /\ setup.copied \in SUBSET AV /\ setup.index \in [AV -> Int]
      /\ setup.first \in 0..Segments /\ setup.minSeek \in Nat /\ setup.lag \in Nat
  BY PipelineAssumption DEF Input
<1>2. DOMAIN Input = 1..Len(Input) /\ Len(Input) \in Nat
  BY <1>1, LenProperties
<1> QED
  BY <1>1, <1>2, PacketsOf

\* The first packet from a position on: all before it lie before the position.
AllBefore(k, pos) == \A l \in 1..k - 1 : Input[l].pos < pos

LEMMA PacketAtIs ==
    ASSUME setup \in Setups, NEW pos \in Int
    PROVE  PacketAt(pos) \in 1..Len(Input) + 1 /\ AllBefore(PacketAt(pos), pos)
<1> DEFINE Found(k) == (k \in DOMAIN Input => Input[k].pos >= pos) /\ AllBefore(k, pos)
<1> DEFINE S == {k \in 1..Len(Input) : Input[k].pos >= pos}
<1>1. DOMAIN Input = 1..Len(Input) /\ Len(Input) \in Nat
      /\ \A k \in 1..Len(Input) : Input[k].pos \in Nat
  BY SetupIs
<1>2. \E k \in 1..Len(Input) + 1 : Found(k)
  <2>1. CASE S = {}
    <3>1. AllBefore(Len(Input) + 1, pos) /\ Len(Input) + 1 \notin DOMAIN Input
      BY <1>1, <2>1 DEF AllBefore
    <3>2. Len(Input) + 1 \in 1..Len(Input) + 1
      BY <1>1
    <3> QED
      BY <3>1, <3>2
  <2>2. CASE S # {}
    <3>1. S \in SUBSET Nat
      BY <1>1
    <3>2. PICK x \in S : \A y \in S : x <= y
      BY <2>2, <3>1, LeastOf
    <3>3. x \in 1..Len(Input) + 1 /\ x \in Nat
      BY <1>1, <3>2
    <3>4. ASSUME NEW l \in 1..x - 1 PROVE Input[l].pos < pos
      <4>1. l \in 1..Len(Input) /\ ~(x <= l)
        BY <1>1, <3>2
      <4>2. l \notin S
        BY <3>2, <4>1
      <4> QED
        BY <1>1, <4>1, <4>2
    <3>5. AllBefore(x, pos)
      BY <3>4 DEF AllBefore
    <3> QED
      BY <3>2, <3>3, <3>5
  <2> QED
    BY <2>1, <2>2
<1>3. PacketAt(pos) = CHOOSE k \in 1..Len(Input) + 1 : Found(k)
  BY DEF PacketAt, AllBefore
<1> HIDE DEF Found
<1>4. PacketAt(pos) \in 1..Len(Input) + 1 /\ Found(PacketAt(pos))
  BY <1>2, <1>3
<1> QED
  BY <1>4 DEF Found

LEMMA LatestOf ==
    ASSUME NEW S \in SUBSET Nat, S # {}, NEW b \in Nat, \A x \in S : x <= b
    PROVE  \E x \in S : \A y \in S : y <= x
<1> DEFINE T == {b - x : x \in S}
<1>1. T \in SUBSET Nat /\ T # {}
  <2>1. \A x \in S : b - x \in Nat
    OBVIOUS
  <2> QED
    BY <2>1
<1>2. PICK t \in T : \A u \in T : t <= u
  BY <1>1, LeastOf
<1>3. PICK x \in S : t = b - x
  BY <1>2
<1>4. \A y \in S : b - x <= b - y
  BY <1>2, <1>3
<1> QED
  BY <1>3, <1>4

StartOf(i) == (i - 1) * SegDur

LEMMA StartIs == ASSUME NEW i \in Nat \ {0} PROVE StartOf(i) \in Nat
<1> DEFINE j == i - 1
<1>1. j \in Nat
  OBVIOUS
<1>2. j * SegDur \in Nat
  BY <1>1, PipelineAssumption
<1> QED
  BY <1>2 DEF StartOf

\* A seek goes to a position that is not behind the start of the segment.
LEMMA KeyPositionIs ==
    ASSUME setup \in Setups, NEW m \in AV, NEW i \in 1..Segments
    PROVE  KeyPosition(m, i) \in Nat /\ KeyPosition(m, i) <= StartOf(i)
<1> DEFINE keys == {Input[k].pos : k \in {k \in DOMAIN Input :
                       /\ Input[k].media = m /\ Input[k].pos <= StartOf(i)
                       /\ Input[k].key \/ m = "audio"}}
<1>1. StartOf(i) \in Nat
  BY StartIs, PipelineAssumption
<1>2. \A k \in DOMAIN Input : Input[k].pos \in Nat
  BY SetupIs
<1>3. keys \in SUBSET Nat /\ \A x \in keys : x <= StartOf(i)
  BY <1>2
<1>4. KeyPosition(m, i) = IF keys = {} THEN 0 ELSE CHOOSE x \in keys : \A y \in keys : y <= x
  BY DEF KeyPosition, StartOf
<1> HIDE DEF keys
<1>5. CASE keys = {}
  BY <1>1, <1>4, <1>5
<1>6. CASE keys # {}
  <2>1. \E x \in keys : \A y \in keys : y <= x
    BY <1>1, <1>3, <1>6, LatestOf
  <2>2. KeyPosition(m, i) \in keys
    BY <1>4, <1>6, <2>1
  <2> QED
    BY <1>3, <2>2
<1> QED
  BY <1>5, <1>6

\* What lies before the position of a seek is in an earlier segment.
Behind(k, i) == \A l \in 1..k - 1 : SegmentOf(Input[l].pos) < i

LEMMA SeekBehind ==
    ASSUME setup \in Setups, NEW m \in AV, NEW i \in 1..Segments
    PROVE  PacketAt(KeyPosition(m, i)) \in 1..Len(Input) + 1 /\ Behind(PacketAt(KeyPosition(m, i)), i)
<1> DEFINE pos == KeyPosition(m, i)
<1> DEFINE k == PacketAt(pos)
<1>1. pos \in Nat /\ pos <= StartOf(i) /\ StartOf(i) \in Nat /\ i - 1 \in Nat
  BY KeyPositionIs, StartIs, PipelineAssumption
<1>2. k \in 1..Len(Input) + 1 /\ AllBefore(k, pos)
  BY <1>1, PacketAtIs
<1>3. Len(Input) \in Nat /\ \A l \in 1..Len(Input) : Input[l].pos \in Nat
  BY SetupIs
<1> HIDE DEF pos, k
<1>4. ASSUME NEW l \in 1..k - 1 PROVE SegmentOf(Input[l].pos) < i
  <2>1. l \in 1..Len(Input) /\ Input[l].pos < pos
    BY <1>2, <1>3 DEF AllBefore
  <2> DEFINE x == Input[l].pos
  <2>2. x \in Nat /\ x < (i - 1) * SegDur
    <3>1. x \in Nat /\ x < StartOf(i)
      BY <1>1, <1>3, <2>1
    <3> QED
      BY <3>1 DEF StartOf
  <2> HIDE DEF x
  <2>3. SegmentOf(x) <= i - 1
    BY <1>1, <2>2, SegmentBefore
  <2>4. SegmentOf(x) < i
    BY <2>2, <2>3, SegmentIs
  <2> QED
    BY <2>4 DEF x
<1> QED
  BY <1>2, <1>4 DEF Behind, pos, k

LEMMA SeekPositionIs ==
    ASSUME setup \in Setups, at \in 1..Len(Input) + 1, NEW i \in 1..Segments
    PROVE  /\ SeekPosition(i, TRUE) \in 1..Len(Input) + 1
           /\ (\E m \in AV : setup.index[m] > 0) => Behind(SeekPosition(i, TRUE), i)
<1>1. "video" \in AV /\ "audio" \in AV /\ AV = {"audio", "video"}
  BY DEF AV
<1>2. \/ SeekPosition(i, TRUE) = PacketAt(KeyPosition("video", i))
      \/ SeekPosition(i, TRUE) = PacketAt(KeyPosition("audio", i))
      \/ /\ SeekPosition(i, TRUE) = at
         /\ ~Seekable("video", TRUE) /\ ~Seekable("audio", TRUE)
  BY DEF SeekPosition
<1>3. setup.index \in [AV -> Int]
  BY SetupIs
<1>4. (\E m \in AV : setup.index[m] > 0) => Seekable("video", TRUE) \/ Seekable("audio", TRUE)
  BY <1>1, <1>3 DEF Seekable, Has
<1> QED
  BY <1>1, <1>2, <1>4, SeekBehind

-----------------------------------------------------------------------------
(* Types of the run. *)

Counters ==
    /\ setup \in Setups
    /\ pc \in {"call", "fill", "frames", "encode", "cut", "flush", "done"}
    /\ cur \in 1..Segments /\ ended \in SUBSET (1..Segments)
    /\ at \in 1..Len(Input) + 1 /\ samples \in Nat /\ audioPts \in Nat
    /\ resetPts \in SUBSET AV

Queues ==
    /\ frames \in Seq(Packet) /\ held \in Seq(Packet) /\ encoder \in [AV -> Seq(Packet)]
    /\ files \in [1..Segments -> Seq(Packet)] /\ seeks \in Seq(1..Segments)

OfStream(p) == p.media \in AV => Has(p.media)

\* The map is sorted, a packet waits only for the next segment, every packet is
\* of a stream that exists, and streams are marked only if there is a next
\* segment.
Contents ==
    /\ Sorted(frames)
    /\ \A p \in Elems(frames) : OfStream(p)
    /\ \A p \in Elems(held) : GotoNext(SegmentOf(p.pos))
    /\ \A m \in AV : \A p \in Elems(encoder[m]) : p.media = m /\ Has(m)
    /\ samples > 0 => Has("audio")
    /\ inhibit \in SUBSET Active /\ (inhibit # {} => cur < Segments)

TypeInv == Counters /\ Queues /\ Contents

LEMMA TypeInvOK == TypeInv => PipelineTypeOK
<1> SUFFICES ASSUME TypeInv PROVE PipelineTypeOK
  OBVIOUS
<1>1. \A k \in 1..Len(frames) - 1 : frames[k].pos <= frames[k + 1].pos
  <2>1. DOMAIN frames = 1..Len(frames) /\ Len(frames) \in Nat
    BY LenProperties DEF TypeInv, Queues
  <2>2. \A k \in 1..Len(frames) - 1 : k \in DOMAIN frames /\ k + 1 \in DOMAIN frames /\ k <= k + 1
    BY <2>1
  <2> QED
    BY <2>2 DEF TypeInv, Contents, Sorted
<1>2. \A k \in DOMAIN held : GotoNext(SegmentOf(held[k].pos))
  BY DEF TypeInv, Contents, Elems
<1> QED
  BY <1>1, <1>2 DEF TypeInv, Counters, Contents, PipelineTypeOK

LEMMA InputStream ==
    ASSUME setup \in Setups
    PROVE  (\A k \in DOMAIN Input : OfStream(Input[k])) /\ Active # {}
BY PipelineAssumption DEF Input, OfStream, Has, Active

LEMMA TypeInit == PipelineInit => TypeInv
<1> SUFFICES ASSUME PipelineInit PROVE TypeInv
  OBVIOUS
<1>1. setup \in Setups /\ setup.first \in 0..Segments /\ Len(Input) \in Nat /\ Segments \in Nat \ {0}
  BY SetupIs, PipelineAssumption DEF PipelineInit
<1> DEFINE direct == setup.first > 1 /\ ~NearBeginning(setup.first)
<1>2. /\ cur = IF direct THEN setup.first ELSE 1
      /\ at = IF direct
              THEN IF Has("video") THEN PacketAt(KeyPosition("video", setup.first))
                   ELSE PacketAt(KeyPosition("audio", setup.first))
              ELSE 1
      /\ resetPts = IF direct THEN AV ELSE {}
      /\ files = [i \in 1..Segments |-> IF i \in DOMAIN setup.cached THEN setup.cached[i] ELSE <<>>]
      /\ ended = DOMAIN setup.cached
      /\ pc = "call" /\ frames = <<>> /\ samples = 0 /\ audioPts = 0
      /\ encoder = [m \in AV |-> <<>>] /\ held = <<>> /\ inhibit = {} /\ seeks = <<>>
  BY DEF PipelineInit
<1> HIDE DEF direct
<1>3. direct => setup.first \in 1..Segments
  BY <1>1 DEF direct
<1>4. at \in 1..Len(Input) + 1
  <2>1. CASE direct
    BY <1>1, <1>2, <1>3, <2>1, SeekBehind DEF AV
  <2>2. CASE ~direct
    BY <1>1, <1>2, <2>2
  <2> QED
    BY <2>1, <2>2
<1>5. /\ DOMAIN setup.cached \subseteq 1..Segments
      /\ \A i \in DOMAIN setup.cached : setup.cached[i] \in Seq(Packet)
  BY <1>1, PipelineAssumption
<1>6. Counters
  BY <1>1, <1>2, <1>3, <1>4, <1>5 DEF Counters
<1>7. Queues
  <2>1. <<>> \in Seq(Packet) /\ <<>> \in Seq(1..Segments)
    BY EmptySeq
  <2>2. files \in [1..Segments -> Seq(Packet)]
    BY <1>2, <1>5, <2>1
  <2> QED
    BY <1>2, <2>1, <2>2 DEF Queues
<1>8. Contents
  <2>1. Sorted(<<>>)
    BY EmptySeq DEF Sorted
  <2>2. \A m \in AV : Elems(encoder[m]) = {}
    BY <1>2, ElemsEmpty
  <2> QED
    BY <1>2, <2>1, <2>2, ElemsEmpty DEF Contents
<1> QED
  BY <1>6, <1>7, <1>8 DEF TypeInv

\* A packet goes to the queue of the next segment or to the current file.
Waits(p) == GotoNext(SegmentOf(p.pos))

LEMMA StoreIs ==
    ASSUME TypeInv, NEW p \in Packet, OfStream(p), StorePacket(p)
    PROVE  /\ held' \in Seq(Packet) /\ files' \in [1..Segments -> Seq(Packet)]
           /\ Elems(held') = Elems(held) \cup (IF Waits(p) THEN {p} ELSE {})
           /\ \A i \in 1..Segments :
                Elems(files'[i]) = Elems(files[i]) \cup (IF i = cur /\ ~Waits(p) THEN {p} ELSE {})
           /\ inhibit' \in SUBSET Active /\ (inhibit' # {} => cur < Segments)
<1>1. /\ held \in Seq(Packet) /\ files \in [1..Segments -> Seq(Packet)] /\ cur \in 1..Segments
      /\ inhibit \in SUBSET Active /\ (inhibit # {} => cur < Segments)
  BY DEF TypeInv, Queues, Counters, Contents
<1>2. CASE Waits(p)
  <2>1. held' = Append(held, p) /\ inhibit' = inhibit \cup ({p.media} \cap AV) /\ files' = files
    BY <1>2 DEF Waits, StorePacket
  <2>2. cur < Segments
    BY <1>1, <1>2, PipelineAssumption DEF Waits, GotoNext
  <2>3. {p.media} \cap AV \subseteq Active
    BY DEF OfStream, Active
  <2>4. held' \in Seq(Packet) /\ Elems(held') = Elems(held) \cup {p}
    BY <1>1, <2>1, ElemsAppend
  <2> QED
    BY <1>1, <1>2, <2>1, <2>2, <2>3, <2>4
<1>3. CASE ~Waits(p)
  <2>1. files' = [files EXCEPT ![cur] = Append(@, p)] /\ held' = held /\ inhibit' = inhibit
    BY <1>3 DEF Waits, StorePacket
  <2>2. files[cur] \in Seq(Packet)
    BY <1>1
  <2>3. Append(files[cur], p) \in Seq(Packet) /\ Elems(Append(files[cur], p)) = Elems(files[cur]) \cup {p}
    BY <2>2, ElemsAppend
  <2>4. \A i \in 1..Segments : files'[i] = IF i = cur THEN Append(files[cur], p) ELSE files[i]
    BY <1>1, <2>1
  <2>5. files' \in [1..Segments -> Seq(Packet)]
    BY <1>1, <2>1, <2>3
  <2> QED
    BY <1>1, <1>3, <2>1, <2>3, <2>4, <2>5
<1> QED
  BY <1>2, <1>3

\* An encoder keeps the frame, or gives out the first packet it has.
Kept(f) ==
    /\ encoder' = [encoder EXCEPT ![f.media] = Append(encoder[f.media], f)]
    /\ UNCHANGED <<held, inhibit, files>>
Given(f) ==
    /\ encoder' = [encoder EXCEPT ![f.media] = Tail(Append(encoder[f.media], f))]
    /\ StorePacket(Append(encoder[f.media], f)[1])

LEMMA DelayedIs ==
    ASSUME TypeInv, NEW f \in Packet, f.media \in AV, Has(f.media), Delayed(f)
    PROVE  LET q == Append(encoder[f.media], f) IN
           /\ q \in Seq(Packet) /\ q # <<>> /\ Elems(q) = Elems(encoder[f.media]) \cup {f}
           /\ \A p \in Elems(q) : p \in Packet /\ p.media = f.media /\ OfStream(p)
           /\ Kept(f) \/ Given(f)
<1> DEFINE q == Append(encoder[f.media], f)
<1>1. encoder \in [AV -> Seq(Packet)] /\ \A p \in Elems(encoder[f.media]) : p.media = f.media /\ Has(f.media)
  BY DEF TypeInv, Queues, Contents
<1>2. q \in Seq(Packet) /\ q # <<>> /\ Elems(q) = Elems(encoder[f.media]) \cup {f}
  BY <1>1, ElemsAppend, AppendProperties
<1>3. \A p \in Elems(q) : p \in Packet /\ p.media = f.media /\ OfStream(p)
  BY <1>1, <1>2, ElemsOf DEF OfStream
<1>4. Kept(f) \/ Given(f)
  BY DEF Delayed, Kept, Given
<1> QED
  BY <1>2, <1>3, <1>4

\* One step of the encoders takes the first frame of the map.
LEMMA EncodeIs ==
    ASSUME TypeInv, Encode
    PROVE  /\ frames # <<>> /\ frames' = Tail(frames) /\ ~Waits(frames[1])
           /\ frames[1] \in Packet /\ OfStream(frames[1]) /\ frames[1] \in Elems(frames)
           /\ UNCHANGED <<setup, pc, inVars, segVars, asked, finished>>
           /\ \/ StorePacket(frames[1]) /\ encoder' = encoder /\ frames[1].media \notin AV
              \/ frames[1].media \in AV /\ Has(frames[1].media) /\ Delayed(frames[1])
<1>1. frames \in Seq(Packet) /\ \A p \in Elems(frames) : OfStream(p)
  BY DEF TypeInv, Queues, Contents
<1>2. /\ frames # <<>> /\ frames' = Tail(frames) /\ ~Waits(frames[1])
      /\ UNCHANGED <<setup, pc, inVars, segVars, asked, finished>>
  BY DEF Encode, Waits
<1>3. frames[1] \in Packet /\ OfStream(frames[1]) /\ frames[1] \in Elems(frames)
  BY <1>1, <1>2, ElemsTail
<1>4. \/ StorePacket(frames[1]) /\ encoder' = encoder /\ frames[1].media \notin AV
      \/ frames[1].media \in AV /\ Has(frames[1].media) /\ Delayed(frames[1])
  BY <1>3 DEF Encode, EncodeAudio, EncodeVideo, EncodeSubtitle, OfStream, AV
<1> QED
  BY <1>2, <1>3, <1>4

LEMMA TypeStore ==
    ASSUME TypeInv, NEW p \in Packet, OfStream(p), StorePacket(p), UNCHANGED <<setup, cur>>
    PROVE  /\ held' \in Seq(Packet) /\ files' \in [1..Segments -> Seq(Packet)]
           /\ (\A q \in Elems(held) : GotoNext(SegmentOf(q.pos)))'
           /\ (inhibit \in SUBSET Active /\ (inhibit # {} => cur < Segments))'
<1>1. /\ held' \in Seq(Packet) /\ files' \in [1..Segments -> Seq(Packet)]
      /\ Elems(held') = Elems(held) \cup (IF Waits(p) THEN {p} ELSE {})
      /\ inhibit' \in SUBSET Active /\ (inhibit' # {} => cur < Segments)
  BY StoreIs
<1>2. \A q \in Elems(held) : Waits(q)
  BY DEF TypeInv, Contents, Waits
<1>3. \A q \in Elems(held') : Waits(q)
  BY <1>1, <1>2
<1> QED
  BY <1>1, <1>3 DEF Waits, GotoNext, Active, Has

LEMMA TypeEncode == ASSUME TypeInv, Encode PROVE TypeInv'
<1>1. /\ frames # <<>> /\ frames' = Tail(frames)
      /\ frames[1] \in Packet /\ OfStream(frames[1])
      /\ UNCHANGED <<setup, pc, inVars, segVars, asked, finished>>
      /\ \/ StorePacket(frames[1]) /\ encoder' = encoder /\ frames[1].media \notin AV
         \/ frames[1].media \in AV /\ Has(frames[1].media) /\ Delayed(frames[1])
  BY EncodeIs
<1>2. frames' \in Seq(Packet) /\ Sorted(frames') /\ Elems(frames') \subseteq Elems(frames)
  BY <1>1, SortedTail, ElemsTail DEF TypeInv, Queues, Contents
<1>3. /\ encoder' \in [AV -> Seq(Packet)]
      /\ \A m \in AV : \A p \in Elems(encoder'[m]) : p.media = m /\ Has(m)
      /\ held' \in Seq(Packet) /\ files' \in [1..Segments -> Seq(Packet)]
      /\ (\A q \in Elems(held) : GotoNext(SegmentOf(q.pos)))'
      /\ (inhibit \in SUBSET Active /\ (inhibit # {} => cur < Segments))'
  <2>1. UNCHANGED <<setup, cur>>
    BY <1>1 DEF segVars
  <2>2. CASE StorePacket(frames[1]) /\ encoder' = encoder
    BY <1>1, <2>1, <2>2, TypeStore DEF TypeInv, Queues, Contents
  <2>3. CASE frames[1].media \in AV /\ Has(frames[1].media) /\ Delayed(frames[1])
    <3> DEFINE f == frames[1]
    <3> DEFINE q == Append(encoder[f.media], f)
    <3>1. /\ q \in Seq(Packet) /\ q # <<>>
          /\ \A p \in Elems(q) : p \in Packet /\ p.media = f.media /\ OfStream(p)
          /\ Kept(f) \/ Given(f)
      BY <1>1, <2>3, DelayedIs
    <3>2. /\ encoder \in [AV -> Seq(Packet)]
          /\ \A m \in AV : \A p \in Elems(encoder[m]) : p.media = m /\ Has(m)
      BY DEF TypeInv, Queues, Contents
    <3>3. CASE Kept(f)
      <4>1. encoder' = [encoder EXCEPT ![f.media] = q] /\ UNCHANGED <<held, inhibit, files>>
        BY <3>3 DEF Kept
      <4> HIDE DEF q
      <4>2. /\ encoder' \in [AV -> Seq(Packet)]
            /\ \A m \in AV : encoder'[m] = IF m = f.media THEN q ELSE encoder[m]
        BY <3>1, <3>2, <4>1
      <4>3. \A m \in AV : \A p \in Elems(encoder'[m]) : p.media = m /\ Has(m)
        BY <2>3, <3>1, <3>2, <4>2
      <4> QED
        BY <2>1, <4>1, <4>2, <4>3 DEF TypeInv, Queues, Contents, GotoNext, Active, Has
    <3>4. CASE Given(f)
      <4>1. encoder' = [encoder EXCEPT ![f.media] = Tail(q)] /\ StorePacket(q[1])
        BY <3>4 DEF Given
      <4> HIDE DEF q
      <4>2. Tail(q) \in Seq(Packet) /\ q[1] \in Elems(q) /\ Elems(Tail(q)) \subseteq Elems(q)
        BY <3>1, ElemsTail
      <4>3. /\ encoder' \in [AV -> Seq(Packet)]
            /\ \A m \in AV : encoder'[m] = IF m = f.media THEN Tail(q) ELSE encoder[m]
        BY <3>2, <4>1, <4>2
      <4>4. \A m \in AV : \A p \in Elems(encoder'[m]) : p.media = m /\ Has(m)
        BY <2>3, <3>1, <3>2, <4>2, <4>3
      <4>5. q[1] \in Packet /\ OfStream(q[1])
        BY <3>1, <4>2
      <4> QED
        BY <2>1, <4>1, <4>3, <4>4, <4>5, TypeStore
    <3> QED
      BY <3>1, <3>3, <3>4
  <2> QED
    BY <1>1, <2>2, <2>3
<1>4. Counters'
  BY <1>1 DEF TypeInv, Counters, inVars, segVars, Input
<1>5. Queues'
  BY <1>1, <1>2, <1>3 DEF TypeInv, Queues, segVars
<1>6. Contents'
  BY <1>1, <1>2, <1>3 DEF TypeInv, Contents, inVars, segVars, OfStream, Has
<1> QED
  BY <1>4, <1>5, <1>6 DEF TypeInv

LEMMA FlushIs ==
    ASSUME TypeInv, NEW m \in AV, Flush(m)
    PROVE  /\ encoder[m] \in Seq(Packet) /\ encoder[m] # <<>> /\ encoder[m][1] \in Elems(encoder[m])
           /\ encoder[m][1] \in Packet /\ OfStream(encoder[m][1]) /\ StorePacket(encoder[m][1])
           /\ encoder' = [encoder EXCEPT ![m] = Tail(encoder[m])]
           /\ pc = "flush" /\ UNCHANGED <<setup, pc, inVars, frames, segVars, asked, finished>>
<1>1. encoder[m] # <<>> /\ StorePacket(encoder[m][1]) /\ pc = "flush"
      /\ encoder' = [encoder EXCEPT ![m] = Tail(encoder[m])]
      /\ UNCHANGED <<setup, pc, inVars, frames, segVars, asked, finished>>
  BY DEF Flush
<1>2. encoder[m] \in Seq(Packet) /\ \A p \in Elems(encoder[m]) : p.media = m /\ Has(m)
  BY DEF TypeInv, Queues, Contents
<1>3. encoder[m][1] \in Packet /\ encoder[m][1] \in Elems(encoder[m])
  BY <1>1, <1>2, ElemsTail
<1> QED
  BY <1>1, <1>2, <1>3 DEF OfStream

LEMMA TypeFlush == ASSUME TypeInv, NEW m \in AV, Flush(m) PROVE TypeInv'
<1> DEFINE p == encoder[m][1]
<1>1. /\ encoder[m] \in Seq(Packet) /\ encoder[m] # <<>>
      /\ p \in Packet /\ OfStream(p) /\ StorePacket(p)
      /\ encoder' = [encoder EXCEPT ![m] = Tail(encoder[m])]
      /\ UNCHANGED <<setup, pc, inVars, frames, segVars, asked, finished>>
  BY FlushIs
<1> HIDE DEF p
<1>2. /\ held' \in Seq(Packet) /\ files' \in [1..Segments -> Seq(Packet)]
      /\ (\A q \in Elems(held) : GotoNext(SegmentOf(q.pos)))'
      /\ (inhibit \in SUBSET Active /\ (inhibit # {} => cur < Segments))'
  BY <1>1, TypeStore DEF segVars
<1>3. Tail(encoder[m]) \in Seq(Packet) /\ Elems(Tail(encoder[m])) \subseteq Elems(encoder[m])
  BY <1>1, ElemsTail
<1>4. /\ encoder \in [AV -> Seq(Packet)]
      /\ \A l \in AV : \A q \in Elems(encoder[l]) : q.media = l /\ Has(l)
  BY DEF TypeInv, Queues, Contents
<1>5. /\ encoder' \in [AV -> Seq(Packet)]
      /\ \A l \in AV : encoder'[l] = IF l = m THEN Tail(encoder[m]) ELSE encoder[l]
  BY <1>1, <1>3, <1>4
<1>6. \A l \in AV : \A q \in Elems(encoder'[l]) : q.media = l /\ Has(l)
  BY <1>3, <1>4, <1>5
<1>7. Counters'
  BY <1>1 DEF TypeInv, Counters, inVars, segVars, Input
<1>8. Queues'
  BY <1>1, <1>2, <1>5 DEF TypeInv, Queues, segVars
<1>9. Contents'
  BY <1>1, <1>2, <1>6 DEF TypeInv, Contents, inVars, segVars, OfStream, Has
<1> QED
  BY <1>7, <1>8, <1>9 DEF TypeInv

\* What one packet read changes.
ReadPacket(p) ==
    \/ p.media = "audio" /\ ReadAudio(p)
    \/ p.media = "video" /\ ReadVideo(p)
    \/ p.media = "subtitle" /\ ReadSubtitle(p)

LEMMA ReadIs ==
    ASSUME TypeInv, Read
    PROVE  /\ at \in 1..Len(Input) /\ at' = at + 1 /\ pc \in {"call", "fill"}
           /\ Input[at] \in Packet /\ OfStream(Input[at]) /\ ReadPacket(Input[at])
           /\ pc' \in {"fill", "frames"}
           /\ UNCHANGED <<setup, encoder, segVars, asked, finished>>
<1>1. /\ pc \in {"call", "fill"} /\ at <= Len(Input) /\ at' = at + 1 /\ ReadPacket(Input[at])
      /\ pc' \in {"fill", "frames"}
      /\ UNCHANGED <<setup, encoder, segVars, asked, finished>>
  BY DEF Read, ReadPacket
<1>2. setup \in Setups /\ at \in 1..Len(Input) + 1
  BY DEF TypeInv, Counters
<1>3. at \in 1..Len(Input) /\ at \in DOMAIN Input /\ Input[at] \in Packet
  BY <1>1, <1>2, SetupIs
<1>4. OfStream(Input[at])
  BY <1>2, <1>3, InputStream
<1> QED
  BY <1>1, <1>3, <1>4

LEMMA TypeRead == ASSUME TypeInv, Read PROVE TypeInv'
<1> DEFINE p == Input[at]
<1>1. /\ at \in 1..Len(Input) /\ at' = at + 1
      /\ p \in Packet /\ OfStream(p) /\ ReadPacket(p) /\ pc' \in {"fill", "frames"}
      /\ UNCHANGED <<setup, encoder, segVars, asked, finished>>
  BY ReadIs
<1> HIDE DEF p
<1>2. p.pos \in Nat /\ p.len \in Nat
  BY <1>1, PacketIs
<1>3. at' \in 1..Len(Input) + 1 /\ UNCHANGED <<setup, cur>>
  BY <1>1, SetupIs DEF TypeInv, Counters, segVars
<1>4. ASSUME frames' = Inserted(p)
      PROVE  frames' \in Seq(Packet) /\ (Sorted(frames) /\ \A q \in Elems(frames) : OfStream(q))'
  <2>1. frames' \in Seq(Packet) /\ Elems(frames') = Elems(frames) \cup {p} /\ Sorted(frames')
    BY <1>1, <1>4, InsertedIs DEF TypeInv, Queues, Contents
  <2>2. \A q \in Elems(frames') : OfStream(q)
    BY <1>1, <2>1 DEF TypeInv, Contents
  <2> QED
    BY <1>3, <2>1, <2>2 DEF OfStream, Has
<1>5. ASSUME StorePacket(p)
      PROVE  /\ held' \in Seq(Packet) /\ files' \in [1..Segments -> Seq(Packet)]
             /\ (\A q \in Elems(held) : GotoNext(SegmentOf(q.pos)))'
             /\ (inhibit \in SUBSET Active /\ (inhibit # {} => cur < Segments))'
  BY <1>1, <1>3, <1>5, TypeStore
<1>6. ASSUME UNCHANGED <<held, inhibit, files>>
      PROVE  /\ held' \in Seq(Packet) /\ files' \in [1..Segments -> Seq(Packet)]
             /\ (\A q \in Elems(held) : GotoNext(SegmentOf(q.pos)))'
             /\ (inhibit \in SUBSET Active /\ (inhibit # {} => cur < Segments))'
  BY <1>3, <1>6 DEF TypeInv, Queues, Contents, GotoNext, Active, Has
<1>7. ASSUME frames' = frames
      PROVE  frames' \in Seq(Packet) /\ (Sorted(frames) /\ \A q \in Elems(frames) : OfStream(q))'
  BY <1>3, <1>7 DEF TypeInv, Queues, Contents, OfStream, Has
<1>8. /\ samples' \in Nat /\ audioPts' \in Nat /\ resetPts' \in SUBSET AV
      /\ (samples > 0 => Has("audio"))'
      /\ frames' = Inserted(p) \/ frames' = frames
      /\ StorePacket(p) \/ UNCHANGED <<held, inhibit, files>>
  <2>1. samples \in Nat /\ audioPts \in Nat /\ resetPts \in SUBSET AV /\ (samples > 0 => Has("audio"))
    BY DEF TypeInv, Counters, Contents
  <2>2. CASE p.media = "audio" /\ ReadAudio(p)
    <3>1. Has("audio") /\ Has("audio")'
      BY <1>1, <1>3, <2>2 DEF OfStream, AV, Has
    <3> QED
      BY <1>2, <2>1, <2>2, <3>1 DEF ReadAudio
  <2>3. CASE p.media = "video" /\ ReadVideo(p)
    BY <1>3, <2>1, <2>3 DEF ReadVideo, Has
  <2>4. CASE p.media = "subtitle" /\ ReadSubtitle(p)
    BY <1>3, <2>1, <2>4 DEF ReadSubtitle, Has
  <2> QED
    BY <1>1, <2>2, <2>3, <2>4 DEF ReadPacket
<1>9. Counters'
  BY <1>1, <1>3, <1>8 DEF TypeInv, Counters, segVars, Input
<1>10. Queues'
  BY <1>1, <1>4, <1>5, <1>6, <1>7, <1>8 DEF TypeInv, Queues, segVars
<1>11. Contents'
  <2>1. (\A m \in AV : \A q \in Elems(encoder[m]) : q.media = m /\ Has(m))'
    BY <1>1 DEF TypeInv, Contents, Has
  <2> QED
    BY <1>4, <1>5, <1>6, <1>7, <1>8, <2>1 DEF Contents
<1> QED
  BY <1>9, <1>10, <1>11 DEF TypeInv

\* The frame made of what is in the audio fifo.
AudioNow == [media |-> "audio", pos |-> audioPts, len |-> FrameSize, key |-> TRUE]

LEMMA CreateIs ==
    ASSUME TypeInv, CreateAudioFrame
    PROVE  /\ pc = "frames" /\ AudioNow \in Packet /\ AudioNow.media = "audio" /\ Has("audio")
           /\ AudioNow.pos = audioPts /\ AudioNow.len = FrameSize
           /\ FrameSize \in Nat \ {0} /\ FrameSize <= samples /\ FrameSize <= AudioFrame
           /\ frames' = Inserted(AudioNow)
           /\ samples' = samples - FrameSize /\ audioPts' = audioPts + FrameSize
           /\ samples' \in Nat /\ audioPts' \in Nat
           /\ UNCHANGED <<setup, pc, at, broken, resetPts, outVars, segVars, asked, finished>>
<1>1. samples \in Nat /\ audioPts \in Nat /\ (samples > 0 => Has("audio")) /\ AudioFrame \in Nat \ {0}
  BY PipelineAssumption DEF TypeInv, Counters, Contents
<1>2. /\ pc = "frames" /\ EnoughAudio /\ frames' = Inserted(AudioNow)
      /\ samples' = samples - FrameSize /\ audioPts' = audioPts + FrameSize
      /\ UNCHANGED <<setup, pc, at, broken, resetPts, outVars, segVars, asked, finished>>
  BY DEF CreateAudioFrame, AudioNow
<1>3. samples > 0
  BY <1>1, <1>2 DEF EnoughAudio
<1>4. FrameSize \in Nat \ {0} /\ FrameSize <= samples /\ FrameSize <= AudioFrame
  BY <1>1, <1>3 DEF FrameSize
<1>5. AudioNow \in Packet /\ AudioNow.media = "audio" /\ AudioNow.pos = audioPts /\ AudioNow.len = FrameSize
  BY <1>1, <1>4 DEF AudioNow, Packet, Media
<1> HIDE DEF FrameSize
<1>6. samples - FrameSize \in Nat /\ audioPts + FrameSize \in Nat
  BY <1>1, <1>4
<1> QED
  BY <1>1, <1>2, <1>3, <1>4, <1>5, <1>6

LEMMA TypeCreate == ASSUME TypeInv, CreateAudioFrame PROVE TypeInv'
<1>1. /\ AudioNow \in Packet /\ AudioNow.media = "audio" /\ Has("audio") /\ frames' = Inserted(AudioNow)
      /\ samples' \in Nat /\ audioPts' \in Nat
      /\ UNCHANGED <<setup, pc, at, broken, resetPts, outVars, segVars, asked, finished>>
  BY CreateIs
<1>2. frames' \in Seq(Packet) /\ Elems(frames') = Elems(frames) \cup {AudioNow} /\ Sorted(frames')
  BY <1>1, InsertedIs DEF TypeInv, Queues, Contents
<1>3. \A q \in Elems(frames') : OfStream(q)
  BY <1>1, <1>2 DEF TypeInv, Contents, OfStream
<1>4. Counters'
  BY <1>1 DEF TypeInv, Counters, segVars, Input
<1>5. Queues'
  BY <1>1, <1>2 DEF TypeInv, Queues, segVars, outVars
<1>6. Contents'
  BY <1>1, <1>2, <1>3 DEF TypeInv, Contents, segVars, outVars, OfStream, Has, Active, GotoNext
<1> QED
  BY <1>4, <1>5, <1>6 DEF TypeInv

\* The next segment, or the one of the first request that is not there yet.
LEMMA StartIsNext ==
    ASSUME TypeInv, NEW read \in SUBSET ended, StartNewSegment(read)
    PROVE  /\ pc = "cut" /\ inhibit = Active /\ pc' \in {"call", "encode", "flush"} /\ pc' = AfterCut(frames')
           /\ cur < Segments /\ ended' \in SUBSET (1..Segments) /\ inhibit' = {} /\ seeks' \in Seq(1..Segments)
           /\ UNCHANGED <<setup, asked, finished>>
           /\ Advance \/ \E i \in 1..Segments : SeekTo(i)
<1>1. /\ pc = "cut" /\ inhibit = Active /\ inhibit' = {} /\ ended' = ended \cup {cur} /\ pc' = AfterCut(frames')
      /\ UNCHANGED <<setup, asked, finished>>
  BY DEF StartNewSegment
<1>2. setup \in Setups /\ cur \in 1..Segments /\ ended \in SUBSET (1..Segments)
      /\ (inhibit # {} => cur < Segments) /\ seeks \in Seq(1..Segments)
  BY DEF TypeInv, Counters, Contents, Queues
<1>3. cur < Segments
  BY <1>1, <1>2, InputStream
<1> DEFINE chosen == {k \in DOMAIN seeks : Wanted(seeks[k], read)}
<1>4. IF chosen = {} THEN seeks' = <<>> /\ Advance
      ELSE LET k == CHOOSE k \in chosen : \A l \in chosen : k <= l IN
           seeks' = SubSeq(seeks, k + 1, Len(seeks)) /\ SeekTo(seeks[k])
  BY DEF StartNewSegment
<1>5. chosen \subseteq DOMAIN seeks
  OBVIOUS
<1> HIDE DEF chosen
<1>6. DOMAIN seeks = 1..Len(seeks) /\ Len(seeks) \in Nat /\ \A k \in 1..Len(seeks) : seeks[k] \in 1..Segments
  BY <1>2, LenProperties, ElementOfSeq
<1>7. CASE chosen = {}
  BY <1>1, <1>2, <1>3, <1>4, <1>7, EmptySeq DEF AfterCut
<1>8. CASE chosen # {}
  <2>1. chosen \in SUBSET Nat
    BY <1>5, <1>6
  <2>2. \E k \in chosen : \A l \in chosen : k <= l
    BY <1>8, <2>1, LeastOf
  <2>3. PICK k \in chosen : seeks' = SubSeq(seeks, k + 1, Len(seeks)) /\ SeekTo(seeks[k])
    BY <1>4, <1>8, <2>2
  <2>4. k \in 1..Len(seeks) /\ seeks[k] \in 1..Segments
    BY <1>5, <1>6
  <2>5. SubSeq(seeks, k + 1, Len(seeks)) \in Seq(1..Segments)
    <3>1. \A j \in k + 1..Len(seeks) : seeks[j] \in 1..Segments
      BY <1>6, <2>4
    <3> QED
      BY <1>6, <2>4, <3>1, SubSeqProperties
  <2> QED
    BY <1>1, <1>2, <1>3, <2>3, <2>4, <2>5 DEF AfterCut
<1> QED
  BY <1>7, <1>8

LEMMA AdvanceIs ==
    ASSUME TypeInv, cur < Segments, Advance
    PROVE  /\ cur' = cur + 1 /\ cur' \in 1..Segments /\ held' = <<>>
           /\ files' \in [1..Segments -> Seq(Packet)]
           /\ files[cur + 1] \o held \in Seq(Packet)
           /\ \A i \in 1..Segments : files'[i] = IF i = cur + 1 THEN files[cur + 1] \o held ELSE files[i]
           /\ Elems(files'[cur + 1]) = Elems(files[cur + 1]) \cup Elems(held)
           /\ UNCHANGED <<inVars, frames, encoder, sought>>
<1>1. cur \in 1..Segments /\ held \in Seq(Packet) /\ files \in [1..Segments -> Seq(Packet)] /\ Segments \in Nat
  BY PipelineAssumption DEF TypeInv, Counters, Queues
<1>2. /\ cur' = cur + 1 /\ held' = <<>> /\ files' = [files EXCEPT ![cur + 1] = @ \o held]
      /\ UNCHANGED <<inVars, frames, encoder, sought>>
  BY DEF Advance
<1>3. cur + 1 \in 1..Segments
  BY <1>1
<1>4. /\ files[cur + 1] \o held \in Seq(Packet)
      /\ Elems(files[cur + 1] \o held) = Elems(files[cur + 1]) \cup Elems(held)
  BY <1>1, <1>3, ElemsConcat
<1>5. /\ files' \in [1..Segments -> Seq(Packet)]
      /\ \A i \in 1..Segments : files'[i] = IF i = cur + 1 THEN files[cur + 1] \o held ELSE files[i]
  BY <1>1, <1>2, <1>3, <1>4
<1> QED
  BY <1>2, <1>3, <1>4, <1>5

LEMMA TypeStart == ASSUME TypeInv, NEW read \in SUBSET ended, StartNewSegment(read) PROVE TypeInv'
<1>1. /\ pc' \in {"call", "encode", "flush"} /\ cur < Segments
      /\ ended' \in SUBSET (1..Segments) /\ inhibit' = {} /\ seeks' \in Seq(1..Segments)
      /\ UNCHANGED <<setup, asked, finished>>
      /\ Advance \/ \E i \in 1..Segments : SeekTo(i)
  BY StartIsNext
<1>2. <<>> \in Seq(Packet) /\ Elems(<<>>) = {} /\ Sorted(<<>>)
  BY EmptySeq, ElemsEmpty DEF Sorted
<1>3. CASE Advance
  <2>1. /\ cur' \in 1..Segments /\ held' = <<>> /\ files' \in [1..Segments -> Seq(Packet)]
        /\ UNCHANGED <<inVars, frames, encoder, sought>>
    BY <1>1, <1>3, AdvanceIs
  <2>2. Counters'
    BY <1>1, <2>1 DEF TypeInv, Counters, inVars, Input
  <2>3. Queues'
    BY <1>1, <1>2, <2>1 DEF TypeInv, Queues
  <2>4. Contents'
    BY <1>1, <1>2, <2>1 DEF TypeInv, Contents, inVars, OfStream, Has
  <2> QED
    BY <2>2, <2>3, <2>4 DEF TypeInv
<1>4. ASSUME NEW i \in 1..Segments, SeekTo(i) PROVE TypeInv'
  <2>1. /\ at' = SeekPosition(i, TRUE) /\ resetPts' = AV /\ frames' = <<>> /\ samples' = 0 /\ audioPts' = 0
        /\ encoder' = [m \in AV |-> <<>>] /\ held' = <<>> /\ cur' = i /\ UNCHANGED files
    BY <1>4 DEF SeekTo
  <2>2. at' \in 1..Len(Input) + 1
    BY <2>1, SeekPositionIs DEF TypeInv, Counters
  <2>3. Counters'
    BY <1>1, <2>1, <2>2 DEF TypeInv, Counters, Input
  <2>4. Queues'
    BY <1>1, <1>2, <2>1 DEF TypeInv, Queues
  <2>5. Contents'
    <3>1. \A m \in AV : Elems(encoder'[m]) = {}
      BY <1>2, <2>1
    <3> QED
      BY <1>1, <1>2, <2>1, <3>1 DEF Contents
  <2> QED
    BY <2>3, <2>4, <2>5 DEF TypeInv
<1> QED
  BY <1>1, <1>3, <1>4

\* Steps that move nothing from one queue to another.
Quiet == ReadEnd \/ StartEncoding \/ ReachNext \/ Encoded \/ NotYet \/ Finish \/ \E i \in 1..Segments : Stack(i)

LEMMA TypeQuiet == ASSUME TypeInv, Quiet PROVE TypeInv'
<1>1. /\ UNCHANGED <<setup, cur, at, samples, audioPts, resetPts, frames, held, encoder, files>>
      /\ pc' \in {"call", "fill", "frames", "encode", "cut", "flush", "done"}
  BY DEF Quiet, ReadEnd, StartEncoding, ReachNext, Encoded, NotYet, Finish, Stack, AfterCut,
         inVars, outVars, segVars, TypeInv, Counters
<1>2. ended' \in SUBSET (1..Segments)
  BY DEF Quiet, ReadEnd, StartEncoding, ReachNext, Encoded, NotYet, Finish, Stack,
         inVars, outVars, segVars, TypeInv, Counters
<1>3. seeks' \in Seq(1..Segments)
  <2>1. CASE \E i \in 1..Segments : Stack(i)
    BY <2>1, AppendProperties DEF Stack, TypeInv, Queues
  <2>2. CASE ~\E i \in 1..Segments : Stack(i)
    BY <2>2 DEF Quiet, ReadEnd, StartEncoding, ReachNext, Encoded, NotYet, Finish, segVars, TypeInv, Queues
  <2> QED
    BY <2>1, <2>2
<1>4. inhibit' \in SUBSET Active /\ (inhibit' # {} => cur < Segments)
  <2>1. CASE ReachNext
    <3>1. inhibit' = Active /\ GotoNext(SegmentOf(frames[1].pos)) /\ cur \in 1..Segments
      BY <2>1 DEF ReachNext, TypeInv, Counters
    <3>2. cur < Segments
      BY <3>1, PipelineAssumption DEF GotoNext
    <3> QED
      BY <3>1, <3>2
  <2>2. CASE ~ReachNext
    BY <2>2 DEF Quiet, ReadEnd, StartEncoding, Encoded, NotYet, Finish, Stack, outVars, TypeInv, Contents
  <2> QED
    BY <2>1, <2>2
<1>5. Counters'
  BY <1>1, <1>2 DEF TypeInv, Counters, Input
<1>6. Queues'
  BY <1>1, <1>3 DEF TypeInv, Queues
<1>7. Contents'
  BY <1>1, <1>4 DEF TypeInv, Contents, OfStream, Has, Active, GotoNext
<1> QED
  BY <1>5, <1>6, <1>7 DEF TypeInv

LEMMA TypeNext == TypeInv /\ [PipelineNext]_pipelineVars => TypeInv'
<1> SUFFICES ASSUME TypeInv, [PipelineNext]_pipelineVars PROVE TypeInv'
  OBVIOUS
<1>1. CASE UNCHANGED pipelineVars
  BY <1>1 DEF pipelineVars, inVars, outVars, segVars, TypeInv, Counters, Queues, Contents,
              OfStream, Has, Active, GotoNext, Input
<1>2. CASE PipelineNext
  BY <1>2, TypeRead, TypeCreate, TypeEncode, TypeStart, TypeFlush, TypeQuiet DEF PipelineNext, Work, Quiet
<1> QED
  BY <1>1, <1>2

\* The run stays in its segments, the map is sorted by position, and what waits
\* in m_hls_packet_fifo is of the segment that is started next.
THEOREM PipelineTypes == PipelineSpec => []PipelineTypeOK
<1> QED
  BY TypeInit, TypeNext, TypeInvOK, PTL DEF PipelineSpec

-----------------------------------------------------------------------------
(* Packets and their segments.  The streams of a source whose segments are  *)
(* never written early go on gradually: audio, and video with its           *)
(* subtitles, enter a segment only after one of their packets has entered   *)
(* the segment before, and a key packet is at most a segment back.  A       *)
(* stream that a seek can use is not the first of the source, and all       *)
(* streams are encoded.                                                     *)

SameKind(p, q) == p.media = "audio" <=> q.media = "audio"

Gradual(s) ==
    \A l \in DOMAIN s : SegmentOf(s[l].pos) > 1 =>
        \E j \in 1..l - 1 : SameKind(s[j], s[l]) /\ SegmentOf(s[l].pos) <= SegmentOf(s[j].pos) + 1

KeysNear(s) ==
    \A l \in DOMAIN s : s[l].media = "video" =>
        \E k \in 1..l : /\ s[k].media = "video" /\ s[k].key
                        /\ SegmentOf(s[l].pos) <= SegmentOf(s[k].pos) + 1

Regular(u) ==
    /\ u.copied = {} /\ (\E m \in AV : u.index[m] > 0)
    /\ Gradual(u.input) /\ KeysNear(u.input) /\ AudioFrame <= SegDur

\* The segments after c up to n all begin in P.
Reach(P, c, n) == \A j \in c + 1..Segments : j <= n => \E p \in P : SegmentOf(p.pos) = j

Due(n) == n <= cur \/ cur = Segments

\* No segment is missing between the current one and a frame of the map.
FramesReached == \A p \in Elems(frames) : Reach(Elems(frames), cur, SegmentOf(p.pos))

\* What was read of video and subtitles is in a segment that the map has reached.
ReadReached ==
    \A k \in 1..at - 1 :
        Input[k].media # "audio" => Reach(Elems(frames), cur, SegmentOf(Input[k].pos))

\* The next frame of audio is at most one segment further than the map.
AudioNear ==
    IF "audio" \in resetPts
    THEN samples = 0 /\ \A k \in 1..at - 1 : Input[k].media = "audio" => SegmentOf(Input[k].pos) <= cur
    ELSE Reach(Elems(frames), cur, SegmentOf(audioPts) - 1)

\* The decoder waits for a key packet only if none was read in this segment or later.
KeySeen ==
    broken => \A k \in 1..at - 1 :
        Input[k].media = "video" /\ Input[k].key => SegmentOf(Input[k].pos) < cur

EncodersDue == \A m \in AV : \A p \in Elems(encoder[m]) : Due(SegmentOf(p.pos))

FilesDue == \A i \in 1..Segments : \A p \in Elems(files[i]) : SegmentOf(p.pos) <= i \/ i = Segments

EarlyParts ==
    /\ Elems(held) = {} /\ FramesReached /\ ReadReached /\ AudioNear /\ KeySeen
    /\ EncodersDue /\ FilesDue

EarlyInv == Regular(setup) => EarlyParts

LEMMA PacketSegment == ASSUME NEW p \in Packet PROVE SegmentOf(p.pos) \in Nat \ {0}
<1>1. p.pos \in Nat
  BY PacketIs
<1> QED
  BY <1>1, SegmentIs

LEMMA FilesDueIs == FilesDue => NothingEarly
BY DEF FilesDue, NothingEarly, Elems

LEMMA ReachMore ==
    ASSUME NEW P, NEW Q, P \subseteq Q, NEW c \in Nat, NEW d \in Nat, c <= d, NEW n \in Int, NEW k \in Int,
           k <= n, Reach(P, c, n)
    PROVE  Reach(Q, d, k)
<1> SUFFICES ASSUME NEW j \in d + 1..Segments, j <= k PROVE \E p \in Q : SegmentOf(p.pos) = j
  BY DEF Reach
<1>1. j \in c + 1..Segments /\ j <= n
  BY PipelineAssumption
<1> QED
  BY <1>1 DEF Reach

LEMMA ReachNone == ASSUME NEW P, NEW c \in Nat, NEW n \in Int, n <= c PROVE Reach(P, c, n)
<1> SUFFICES ASSUME NEW j \in c + 1..Segments, j <= n PROVE FALSE
  BY DEF Reach
<1> QED
  BY PipelineAssumption

LEMMA ReachAdd ==
    ASSUME NEW P, NEW c \in Nat, NEW n \in Int, Reach(P, c, n),
           NEW f \in Packet, SegmentOf(f.pos) <= n + 1
    PROVE  Reach(P \cup {f}, c, SegmentOf(f.pos))
<1> DEFINE k == SegmentOf(f.pos)
<1>1. k \in Nat
  BY PacketIs, SegmentIs
<1>2. k <= n + 1
  OBVIOUS
<1> HIDE DEF k
<1>3. ASSUME NEW j \in c + 1..Segments, j <= k PROVE j = k \/ j <= n
  BY <1>1, <1>2, <1>3, PipelineAssumption
<1>4. ASSUME NEW j \in c + 1..Segments, j <= k PROVE \E p \in P \cup {f} : SegmentOf(p.pos) = j
  BY <1>3, <1>4 DEF Reach, k
<1> QED
  BY <1>4 DEF Reach, k

\* The first frame of the map is of the current segment unless it waits.
LEMMA HeadDue ==
    ASSUME TypeInv, FramesReached, frames # <<>>, ~Waits(frames[1])
    PROVE  Due(SegmentOf(frames[1].pos))
<1> DEFINE n == SegmentOf(frames[1].pos)
<1>1. /\ frames \in Seq(Packet) /\ Sorted(frames) /\ cur \in 1..Segments /\ Segments \in Nat
  BY PipelineAssumption DEF TypeInv, Queues, Contents, Counters
<1>2. /\ frames[1] \in Packet /\ frames[1] \in Elems(frames) /\ Elems(frames) \subseteq Packet
      /\ \A p \in Elems(frames) : frames[1].pos <= p.pos
  BY <1>1, ElemsTail, SortedTail, ElemsOf
<1>3. n \in Nat
  BY <1>2, PacketIs, SegmentIs
<1>4. CASE ~(n <= cur) /\ cur # Segments
  <2>1. cur + 1 \in cur + 1..Segments /\ cur + 1 <= n
    BY <1>1, <1>3, <1>4
  <2>2. PICK p \in Elems(frames) : SegmentOf(p.pos) = cur + 1
    BY <1>2, <2>1 DEF FramesReached, Reach
  <2>3. n <= SegmentOf(p.pos)
    BY <1>2, PacketIs, SegmentGrows
  <2>4. n = cur + 1 /\ n <= Segments
    BY <1>1, <1>3, <2>1, <2>2, <2>3
  <2> QED
    BY <2>4 DEF Waits, GotoNext
<1> QED
  BY <1>4 DEF Due

LEMMA DueStays == ASSUME TypeInv, NEW p \in Packet, Due(SegmentOf(p.pos)) PROVE ~Waits(p)
<1>1. cur \in 1..Segments /\ Segments \in Nat /\ SegmentOf(p.pos) \in Nat
  BY PacketIs, SegmentIs, PipelineAssumption DEF TypeInv, Counters
<1> QED
  BY <1>1 DEF Waits, GotoNext, Due

\* A packet that is due goes to a file where it is not early.
LEMMA StoreDue ==
    ASSUME TypeInv, EarlyParts, NEW p \in Packet, OfStream(p), StorePacket(p), Due(SegmentOf(p.pos))
    PROVE  Elems(held') = {} /\ FilesDue'
<1>1. /\ Elems(held') = Elems(held) \cup (IF Waits(p) THEN {p} ELSE {})
      /\ \A i \in 1..Segments :
           Elems(files'[i]) = Elems(files[i]) \cup (IF i = cur /\ ~Waits(p) THEN {p} ELSE {})
      /\ ~Waits(p)
  BY StoreIs, DueStays
<1>2. \A i \in 1..Segments : \A q \in Elems(files'[i]) : q \in Elems(files[i]) \/ (q = p /\ i = cur)
  BY <1>1
<1>3. \A i \in 1..Segments : \A q \in Elems(files'[i]) : SegmentOf(q.pos) <= i \/ i = Segments
  BY <1>2 DEF EarlyParts, FilesDue, Due
<1> QED
  BY <1>1, <1>3 DEF EarlyParts, FilesDue

LEMMA ReachPop ==
    ASSUME NEW P, NEW f, NEW n, Reach(P \cup {f}, cur, n), Due(SegmentOf(f.pos)),
           cur \in Nat, SegmentOf(f.pos) \in Nat
    PROVE  Reach(P, cur, n)
<1> SUFFICES ASSUME NEW j \in cur + 1..Segments, j <= n PROVE \E p \in P : SegmentOf(p.pos) = j
  BY DEF Reach
<1>1. PICK p \in P \cup {f} : SegmentOf(p.pos) = j
  BY DEF Reach
<1>2. SegmentOf(f.pos) # j
  BY PipelineAssumption DEF Due
<1> QED
  BY <1>1, <1>2

\* What the map has reached stays reached while the decoders do nothing.
LEMMA ReachedStays ==
    ASSUME TypeInv, EarlyParts, UNCHANGED <<setup, at, resetPts, samples, audioPts, broken>>,
           Elems(frames') \subseteq Elems(frames), cur' \in Nat, cur <= cur',
           \A n : Reach(Elems(frames), cur, n) => Reach(Elems(frames'), cur', n)
    PROVE  (FramesReached /\ ReadReached /\ AudioNear /\ KeySeen)'
<1>1. Input' = Input
  BY DEF Input
<1>2. cur \in Nat /\ at \in Nat /\ at - 1 <= Len(Input) /\ Len(Input) \in Nat
  BY SetupIs, PipelineAssumption DEF TypeInv, Counters
<1>3. \A k \in 1..at - 1 : SegmentOf(Input[k].pos) \in Nat
  <2>1. \A k \in 1..at - 1 : k \in 1..Len(Input)
    BY <1>2
  <2> QED
    BY <2>1, SetupIs, SegmentIs DEF TypeInv, Counters
<1>4. FramesReached'
  BY DEF EarlyParts, FramesReached
<1>5. ReadReached'
  BY <1>1 DEF EarlyParts, ReadReached
<1>6. AudioNear'
  <2>1. CASE "audio" \in resetPts
    <3>1. samples = 0 /\ \A k \in 1..at - 1 : Input[k].media = "audio" => SegmentOf(Input[k].pos) <= cur
      BY <2>1 DEF EarlyParts, AudioNear
    <3>2. \A k \in 1..at - 1 : Input[k].media = "audio" => SegmentOf(Input[k].pos) <= cur'
      BY <1>2, <1>3, <3>1
    <3> QED
      BY <1>1, <2>1, <3>1, <3>2 DEF AudioNear
  <2>2. CASE "audio" \notin resetPts
    BY <2>2 DEF EarlyParts, AudioNear
  <2> QED
    BY <2>1, <2>2
<1>7. KeySeen'
  <2>1. broken => \A k \in 1..at - 1 :
          Input[k].media = "video" /\ Input[k].key => SegmentOf(Input[k].pos) < cur
    BY DEF EarlyParts, KeySeen
  <2>2. broken => \A k \in 1..at - 1 :
          Input[k].media = "video" /\ Input[k].key => SegmentOf(Input[k].pos) < cur'
    BY <1>2, <1>3, <2>1
  <2> QED
    BY <1>1, <2>2 DEF KeySeen
<1> QED
  BY <1>4, <1>5, <1>6, <1>7

LEMMA EarlyEncode == ASSUME TypeInv, EarlyParts, Encode PROVE EarlyParts'
<1> DEFINE f == frames[1]
<1>1. /\ frames # <<>> /\ frames' = Tail(frames) /\ ~Waits(f) /\ f \in Packet /\ OfStream(f)
      /\ UNCHANGED <<setup, pc, inVars, segVars, asked, finished>>
      /\ \/ StorePacket(f) /\ encoder' = encoder /\ f.media \notin AV
         \/ f.media \in AV /\ Has(f.media) /\ Delayed(f)
  BY EncodeIs
<1>2. Due(SegmentOf(f.pos))
  BY <1>1, HeadDue DEF EarlyParts
<1>3. Elems(frames) = Elems(frames') \cup {f}
  BY <1>1, ElemsTail DEF TypeInv, Queues
<1> HIDE DEF f
<1>4. cur \in Nat /\ SegmentOf(f.pos) \in Nat /\ cur' = cur
  <2>1. cur \in Nat /\ cur' = cur
    BY <1>1, PipelineAssumption DEF TypeInv, Counters, segVars
  <2> QED
    BY <1>1, <2>1, PacketSegment
<1>5. \A n : Reach(Elems(frames), cur, n) => Reach(Elems(frames'), cur', n)
  BY <1>2, <1>3, <1>4, ReachPop
<1>6. (FramesReached /\ ReadReached /\ AudioNear /\ KeySeen)'
  <2>1. UNCHANGED <<setup, at, resetPts, samples, audioPts, broken>>
    BY <1>1 DEF inVars
  <2>2. Elems(frames') \subseteq Elems(frames)
    BY <1>3
  <2>3. cur' \in Nat /\ cur <= cur'
    BY <1>4
  <2> QED
    BY <1>5, <2>1, <2>2, <2>3, ReachedStays
<1>7. CASE StorePacket(f) /\ encoder' = encoder
  <2>1. Elems(held') = {} /\ FilesDue'
    BY <1>1, <1>2, <1>7, StoreDue
  <2>2. EncodersDue'
    BY <1>4, <1>7 DEF EarlyParts, EncodersDue, Due
  <2> QED
    BY <1>6, <2>1, <2>2 DEF EarlyParts
<1>8. CASE f.media \in AV /\ Has(f.media) /\ Delayed(f)
  <2> DEFINE q == Append(encoder[f.media], f)
  <2>1. /\ q \in Seq(Packet) /\ q # <<>> /\ Elems(q) = Elems(encoder[f.media]) \cup {f}
        /\ \A p \in Elems(q) : p \in Packet /\ p.media = f.media /\ OfStream(p)
        /\ Kept(f) \/ Given(f)
    BY <1>1, <1>8, DelayedIs
  <2>2. Kept(f) => encoder' = [encoder EXCEPT ![f.media] = q] /\ UNCHANGED <<held, files>>
    BY DEF Kept
  <2>3. Given(f) => encoder' = [encoder EXCEPT ![f.media] = Tail(q)] /\ StorePacket(q[1])
    BY DEF Given
  <2> HIDE DEF q
  <2>4. encoder \in [AV -> Seq(Packet)] /\ \A m \in AV : \A p \in Elems(encoder[m]) : Due(SegmentOf(p.pos))
    BY DEF TypeInv, Queues, EarlyParts, EncodersDue
  <2>5. \A p \in Elems(q) : Due(SegmentOf(p.pos))
    BY <1>2, <1>8, <2>1, <2>4
  <2>6. q[1] \in Elems(q) /\ Elems(Tail(q)) \subseteq Elems(q)
    BY <2>1, ElemsTail
  <2>7. \A m \in AV : Elems(encoder'[m]) \subseteq Elems(encoder[m]) \cup Elems(q)
    BY <1>8, <2>1, <2>2, <2>3, <2>4, <2>6
  <2>8. EncodersDue'
    <3>1. \A m \in AV : \A p \in Elems(encoder'[m]) : Due(SegmentOf(p.pos))
      BY <2>4, <2>5, <2>7
    <3> QED
      BY <1>4, <3>1 DEF EncodersDue, Due
  <2>9. Elems(held') = {} /\ FilesDue'
    <3>1. CASE Kept(f)
      BY <2>2, <3>1 DEF EarlyParts, FilesDue
    <3>2. CASE Given(f)
      BY <2>1, <2>3, <2>5, <2>6, <3>2, StoreDue
    <3> QED
      BY <2>1, <3>1, <3>2
  <2> QED
    BY <1>6, <2>8, <2>9 DEF EarlyParts
<1> QED
  BY <1>1, <1>7, <1>8

LEMMA EarlyFlush == ASSUME TypeInv, EarlyParts, NEW m \in AV, Flush(m) PROVE EarlyParts'
<1> DEFINE p == encoder[m][1]
<1>1. /\ encoder[m] \in Seq(Packet) /\ encoder[m] # <<>> /\ p \in Elems(encoder[m])
      /\ p \in Packet /\ OfStream(p) /\ StorePacket(p)
      /\ encoder' = [encoder EXCEPT ![m] = Tail(encoder[m])]
      /\ UNCHANGED <<setup, pc, inVars, frames, segVars, asked, finished>>
  BY FlushIs
<1> HIDE DEF p
<1>2. cur' = cur /\ cur \in Nat /\ UNCHANGED <<setup, at, resetPts, samples, audioPts, broken, frames>>
  BY <1>1, PipelineAssumption DEF inVars, segVars, TypeInv, Counters
<1>3. (FramesReached /\ ReadReached /\ AudioNear /\ KeySeen)'
  BY <1>2, ReachedStays
<1>4. Due(SegmentOf(p.pos))
  BY <1>1 DEF EarlyParts, EncodersDue
<1>5. Elems(held') = {} /\ FilesDue'
  BY <1>1, <1>4, StoreDue
<1>6. Elems(Tail(encoder[m])) \subseteq Elems(encoder[m])
  BY <1>1, ElemsTail
<1>7. \A l \in AV : Elems(encoder'[l]) \subseteq Elems(encoder[l])
  BY <1>1, <1>6 DEF TypeInv, Queues
<1>8. EncodersDue'
  BY <1>2, <1>7 DEF EarlyParts, EncodersDue, Due
<1> QED
  BY <1>3, <1>5, <1>8 DEF EarlyParts

LEMMA EarlyQuiet == ASSUME TypeInv, EarlyParts, Quiet PROVE EarlyParts'
<1>1. /\ UNCHANGED <<setup, cur, at, broken, samples, audioPts, resetPts, frames, held, encoder, files>>
  BY DEF Quiet, ReadEnd, StartEncoding, ReachNext, Encoded, NotYet, Finish, Stack,
         inVars, outVars, segVars
<1>2. cur \in Nat
  BY PipelineAssumption DEF TypeInv, Counters
<1>3. (FramesReached /\ ReadReached /\ AudioNear /\ KeySeen)'
  BY <1>1, <1>2, ReachedStays
<1> QED
  BY <1>1, <1>3 DEF EarlyParts, EncodersDue, FilesDue, Due

\* A frame that is at most one segment further than the map.
LEMMA InsertReached ==
    ASSUME TypeInv, EarlyParts, NEW f \in Packet, cur' = cur, frames' = Inserted(f),
           Reach(Elems(frames), cur, SegmentOf(f.pos) - 1)
    PROVE  /\ FramesReached' /\ Elems(frames') = Elems(frames) \cup {f}
           /\ Reach(Elems(frames'), cur, SegmentOf(f.pos))
           /\ \A n \in Int : Reach(Elems(frames), cur, n) => Reach(Elems(frames'), cur, n)
<1>1. Elems(frames') = Elems(frames) \cup {f} /\ Elems(frames) \subseteq Packet
  BY InsertedIs, ElemsOf DEF TypeInv, Queues, Contents
<1>2. cur \in Nat /\ SegmentOf(f.pos) \in Nat
  BY PacketSegment, PipelineAssumption DEF TypeInv, Counters
<1>3. \A n \in Int : Reach(Elems(frames), cur, n) => Reach(Elems(frames'), cur, n)
  <2> SUFFICES ASSUME NEW n \in Int, Reach(Elems(frames), cur, n) PROVE Reach(Elems(frames'), cur, n)
    OBVIOUS
  <2>1. Elems(frames) \subseteq Elems(frames') /\ cur <= cur /\ n <= n
    BY <1>1, <1>2
  <2> QED
    BY <1>2, <2>1, ReachMore
<1>4. Reach(Elems(frames'), cur, SegmentOf(f.pos))
  <2> DEFINE n == SegmentOf(f.pos) - 1
  <2>1. n \in Int /\ SegmentOf(f.pos) <= n + 1 /\ Reach(Elems(frames), cur, n)
    BY <1>2
  <2> HIDE DEF n
  <2> QED
    BY <1>1, <1>2, <2>1, ReachAdd
<1>5. \A p \in Elems(frames') : Reach(Elems(frames'), cur, SegmentOf(p.pos))
  <2> SUFFICES ASSUME NEW p \in Elems(frames), p # f PROVE Reach(Elems(frames'), cur, SegmentOf(p.pos))
    BY <1>1, <1>4
  <2>1. p \in Packet /\ Reach(Elems(frames), cur, SegmentOf(p.pos))
    BY <1>1 DEF EarlyParts, FramesReached
  <2>2. SegmentOf(p.pos) \in Int
    BY <2>1, PacketIs, SegmentIs
  <2> QED
    BY <1>3, <2>1, <2>2
<1> QED
  BY <1>1, <1>3, <1>4, <1>5 DEF FramesReached

\* What is known of the packets that are read.
LEMMA ReadSegments ==
    ASSUME TypeInv
    PROVE  /\ cur \in Nat \ {0} /\ at \in Nat \ {0} /\ Len(Input) \in Nat /\ DOMAIN Input = 1..Len(Input)
           /\ \A k \in 1..Len(Input) : SegmentOf(Input[k].pos) \in Nat \ {0}
           /\ \A k \in 1..at - 1 : k \in 1..Len(Input)
<1>1. /\ cur \in Nat \ {0} /\ at \in Nat \ {0} /\ Len(Input) \in Nat /\ DOMAIN Input = 1..Len(Input)
      /\ at <= Len(Input) + 1
  BY SetupIs, PipelineAssumption DEF TypeInv, Counters
<1>2. \A k \in 1..Len(Input) : SegmentOf(Input[k].pos) \in Nat \ {0}
  BY SetupIs, SegmentIs DEF TypeInv, Counters
<1> QED
  BY <1>1, <1>2

LEMMA ReadNear ==
    ASSUME TypeInv, EarlyParts, Regular(setup), at \in 1..Len(Input), Input[at].media # "audio"
    PROVE  Reach(Elems(frames), cur, SegmentOf(Input[at].pos) - 1)
<1> DEFINE n == SegmentOf(Input[at].pos)
<1>1. n \in Nat \ {0} /\ cur \in Nat /\ at \in DOMAIN Input
  BY ReadSegments
<1>2. CASE n = 1
  <2>1. n - 1 \in Int /\ n - 1 <= cur
    BY <1>1, <1>2
  <2> QED
    BY <1>1, <2>1, ReachNone
<1>3. CASE n # 1
  <2>1. PICK j \in 1..at - 1 : SameKind(Input[j], Input[at]) /\ n <= SegmentOf(Input[j].pos) + 1
    BY <1>1, <1>3 DEF Regular, Gradual, Input
  <2>2. Reach(Elems(frames), cur, SegmentOf(Input[j].pos))
    BY <2>1 DEF SameKind, EarlyParts, ReadReached
  <2> DEFINE m == SegmentOf(Input[j].pos)
  <2>3. m \in Nat
    BY ReadSegments
  <2>4. n - 1 \in Int /\ n - 1 <= m /\ Reach(Elems(frames), cur, m)
    BY <1>1, <2>1, <2>2, <2>3
  <2> HIDE DEF m, n
  <2>5. Reach(Elems(frames), cur, n - 1)
    BY <1>1, <2>3, <2>4, ReachMore
  <2> QED
    BY <2>5 DEF n
<1> QED
  BY <1>2, <1>3

\* Where every stream is encoded, a packet that is read is decoded.
LEMMA ReadDecoded ==
    ASSUME TypeInv, Regular(setup), NEW p \in Packet, OfStream(p), ReadPacket(p)
    PROVE  /\ UNCHANGED <<held, inhibit, files>>
           /\ \/ /\ p.media = "audio" /\ UNCHANGED <<broken, frames>>
                 /\ resetPts' = resetPts \ {"audio"} /\ samples' = samples + p.len
                 /\ audioPts' = IF "audio" \in resetPts THEN p.pos ELSE audioPts
              \/ /\ p.media = "video" /\ resetPts' = resetPts \ {"video"}
                 /\ UNCHANGED <<samples, audioPts>>
                 /\ \/ broken /\ broken' /\ ~p.key /\ frames' = frames
                    \/ ~broken' /\ frames' = Inserted(p)
              \/ /\ p.media = "subtitle" /\ UNCHANGED <<broken, samples, audioPts, resetPts>>
                 /\ frames' = Inserted(p)
<1>1. setup.copied = {}
  BY DEF Regular
<1>2. \A m \in AV : Has(m) => Decodes(m)
  BY <1>1 DEF Decodes
<1>3. CASE p.media = "audio" /\ ReadAudio(p)
  <2>1. Decodes("audio")
    BY <1>2, <1>3 DEF OfStream, AV
  <2> QED
    BY <1>3, <2>1 DEF ReadAudio
<1>4. CASE p.media = "video" /\ ReadVideo(p)
  <2>1. Decodes("video")
    BY <1>2, <1>4 DEF OfStream, AV
  <2> QED
    BY <1>4, <2>1 DEF ReadVideo
<1>5. CASE p.media = "subtitle" /\ ReadSubtitle(p)
  BY <1>5 DEF ReadSubtitle
<1> QED
  BY <1>3, <1>4, <1>5 DEF ReadPacket

LEMMA EarlyReadAudio ==
    ASSUME TypeInv, EarlyParts, Regular(setup), at \in 1..Len(Input), Input[at].media = "audio",
           at' = at + 1, UNCHANGED <<setup, cur, broken, frames>>,
           resetPts' = resetPts \ {"audio"},
           audioPts' = IF "audio" \in resetPts THEN Input[at].pos ELSE audioPts
    PROVE  (FramesReached /\ ReadReached /\ AudioNear /\ KeySeen)'
<1>1. Input' = Input
  BY DEF Input
<1>2. cur \in Nat /\ at \in Nat \ {0}
  BY ReadSegments
<1>3. \A k \in 1..at' - 1 : k \in 1..at - 1 \/ k = at
  BY <1>2
<1>4. FramesReached'
  BY DEF EarlyParts, FramesReached
<1>5. ReadReached'
  BY <1>1, <1>3 DEF EarlyParts, ReadReached
<1>6. AudioNear'
  <2>1. "audio" \notin resetPts'
    OBVIOUS
  <2>2. CASE "audio" \notin resetPts
    BY <2>1, <2>2 DEF EarlyParts, AudioNear
  <2>3. CASE "audio" \in resetPts
    <3> DEFINE n == SegmentOf(Input[at].pos)
    <3>1. n \in Nat \ {0} /\ at \in DOMAIN Input
      BY ReadSegments
    <3>2. n - 1 <= cur
      <4>1. CASE n = 1
        BY <1>2, <4>1
      <4>2. CASE n # 1
        <5>1. PICK j \in 1..at - 1 : SameKind(Input[j], Input[at]) /\ n <= SegmentOf(Input[j].pos) + 1
          BY <3>1, <4>2 DEF Regular, Gradual, Input
        <5>2. SegmentOf(Input[j].pos) <= cur
          BY <2>3, <5>1 DEF SameKind, EarlyParts, AudioNear
        <5>3. SegmentOf(Input[j].pos) \in Nat
          BY ReadSegments
        <5> HIDE DEF n
        <5> QED
          BY <1>2, <3>1, <5>1, <5>2, <5>3
      <4> QED
        BY <4>1, <4>2
    <3>3. n - 1 \in Int
      BY <3>1
    <3>4. Reach(Elems(frames), cur, n - 1)
      <4> HIDE DEF n
      <4> QED
        BY <1>2, <3>2, <3>3, ReachNone
    <3> QED
      BY <2>1, <2>3, <3>4 DEF AudioNear
  <2> QED
    BY <2>2, <2>3
<1>7. KeySeen'
  BY <1>1, <1>3 DEF EarlyParts, KeySeen
<1> QED
  BY <1>4, <1>5, <1>6, <1>7

\* A packet of video or subtitles that is put into the map.
LEMMA EarlyReadFrame ==
    ASSUME TypeInv, EarlyParts, Regular(setup), at \in 1..Len(Input), Input[at].media # "audio",
           at' = at + 1, UNCHANGED <<setup, cur, samples, audioPts>>,
           frames' = Inserted(Input[at]), ("audio" \in resetPts') = ("audio" \in resetPts),
           ~broken' \/ (broken' = broken /\ Input[at].media # "video")
    PROVE  (FramesReached /\ ReadReached /\ AudioNear /\ KeySeen)'
<1>1. Input' = Input
  BY DEF Input
<1>2. cur \in Nat /\ at \in Nat \ {0} /\ Input[at] \in Packet
  BY ReadSegments, SetupIs DEF TypeInv, Counters
<1>3. \A k \in 1..at' - 1 : k \in 1..at - 1 \/ k = at
  BY <1>2
<1>4. Reach(Elems(frames), cur, SegmentOf(Input[at].pos) - 1)
  BY ReadNear
<1>5. /\ FramesReached' /\ Reach(Elems(frames'), cur, SegmentOf(Input[at].pos))
      /\ \A n \in Int : Reach(Elems(frames), cur, n) => Reach(Elems(frames'), cur, n)
  BY <1>2, <1>4, InsertReached
<1>6. ReadReached'
  <2>1. \A k \in 1..at - 1 : SegmentOf(Input[k].pos) \in Int
    BY ReadSegments
  <2>2. \A k \in 1..at - 1 : Input[k].media # "audio" => Reach(Elems(frames'), cur, SegmentOf(Input[k].pos))
    BY <1>5, <2>1 DEF EarlyParts, ReadReached
  <2> QED
    BY <1>1, <1>3, <1>5, <2>2 DEF ReadReached
<1>7. AudioNear'
  <2>1. CASE "audio" \in resetPts
    <3>1. samples = 0 /\ \A k \in 1..at - 1 : Input[k].media = "audio" => SegmentOf(Input[k].pos) <= cur
      BY <2>1 DEF EarlyParts, AudioNear
    <3> QED
      BY <1>1, <1>3, <2>1, <3>1 DEF AudioNear
  <2>2. CASE "audio" \notin resetPts
    <3>1. Reach(Elems(frames), cur, SegmentOf(audioPts) - 1)
      BY <2>2 DEF EarlyParts, AudioNear
    <3>2. SegmentOf(audioPts) \in Nat
      BY SegmentIs DEF TypeInv, Counters
    <3>3. SegmentOf(audioPts) - 1 \in Int
      BY <3>2
    <3>4. Reach(Elems(frames'), cur, SegmentOf(audioPts) - 1)
      BY <1>5, <3>1, <3>3
    <3> QED
      BY <2>2, <3>4 DEF AudioNear
  <2> QED
    BY <2>1, <2>2
<1>8. KeySeen'
  BY <1>1, <1>3 DEF EarlyParts, KeySeen
<1> QED
  BY <1>5, <1>6, <1>7, <1>8

\* A packet of video that the decoder drops is not behind the current segment.
LEMMA EarlyReadDropped ==
    ASSUME TypeInv, EarlyParts, Regular(setup), at \in 1..Len(Input), Input[at].media = "video",
           broken, ~Input[at].key, at' = at + 1,
           UNCHANGED <<setup, cur, samples, audioPts, frames>>,
           ("audio" \in resetPts') = ("audio" \in resetPts)
    PROVE  (FramesReached /\ ReadReached /\ AudioNear /\ KeySeen)'
<1>1. Input' = Input
  BY DEF Input
<1>2. cur \in Nat /\ at \in Nat \ {0} /\ at \in DOMAIN Input
  BY ReadSegments
<1>3. \A k \in 1..at' - 1 : k \in 1..at - 1 \/ k = at
  BY <1>2
<1> DEFINE n == SegmentOf(Input[at].pos)
<1>4. n <= cur /\ n \in Nat
  <2>1. PICK k \in 1..at : Input[k].media = "video" /\ Input[k].key /\ n <= SegmentOf(Input[k].pos) + 1
    BY <1>2 DEF Regular, KeysNear, Input
  <2>2. k # at
    BY <2>1
  <2>3. k \in 1..at - 1
    BY <1>2, <2>2
  <2>4. SegmentOf(Input[k].pos) < cur
    BY <2>1, <2>3 DEF EarlyParts, KeySeen
  <2>5. SegmentOf(Input[k].pos) \in Nat /\ n \in Nat
    BY <2>3, ReadSegments
  <2> HIDE DEF n
  <2> QED
    BY <1>2, <2>1, <2>4, <2>5
<1>5. Reach(Elems(frames), cur, n)
  <2> HIDE DEF n
  <2> QED
    BY <1>2, <1>4, ReachNone
<1>6. FramesReached'
  BY DEF EarlyParts, FramesReached
<1>7. ReadReached'
  BY <1>1, <1>3, <1>5 DEF EarlyParts, ReadReached
<1>8. AudioNear'
  BY <1>1, <1>3 DEF EarlyParts, AudioNear
<1>9. KeySeen'
  <2>1. \A k \in 1..at - 1 : Input[k].media = "video" /\ Input[k].key => SegmentOf(Input[k].pos) < cur
    BY DEF EarlyParts, KeySeen
  <2> QED
    BY <1>1, <1>3, <2>1 DEF KeySeen
<1> QED
  BY <1>6, <1>7, <1>8, <1>9

LEMMA EarlyRead == ASSUME TypeInv, EarlyParts, Regular(setup), Read PROVE EarlyParts'
<1> DEFINE p == Input[at]
<1>1. /\ at \in 1..Len(Input) /\ at' = at + 1 /\ p \in Packet /\ OfStream(p) /\ ReadPacket(p)
      /\ UNCHANGED <<setup, encoder, segVars, asked, finished>>
  BY ReadIs
<1>2. UNCHANGED <<setup, cur>>
  BY <1>1 DEF segVars
<1>3. /\ UNCHANGED <<held, inhibit, files>>
      /\ \/ /\ p.media = "audio" /\ UNCHANGED <<broken, frames>>
            /\ resetPts' = resetPts \ {"audio"}
            /\ audioPts' = IF "audio" \in resetPts THEN p.pos ELSE audioPts
         \/ /\ p.media = "video" /\ resetPts' = resetPts \ {"video"}
            /\ UNCHANGED <<samples, audioPts>>
            /\ \/ broken /\ broken' /\ ~p.key /\ frames' = frames
               \/ ~broken' /\ frames' = Inserted(p)
         \/ /\ p.media = "subtitle" /\ UNCHANGED <<broken, samples, audioPts, resetPts>>
            /\ frames' = Inserted(p)
  <2> HIDE DEF p
  <2> QED
    BY <1>1, ReadDecoded
<1>4. (FramesReached /\ ReadReached /\ AudioNear /\ KeySeen)'
  <2>1. CASE p.media = "audio"
    BY <1>1, <1>2, <1>3, <2>1, EarlyReadAudio
  <2>2. CASE p.media = "video" /\ frames' = frames /\ broken /\ ~p.key
    <3>1. ("audio" \in resetPts') = ("audio" \in resetPts)
      BY <1>3, <2>2
    <3> QED
      BY <1>1, <1>2, <1>3, <2>2, <3>1, EarlyReadDropped
  <2>3. CASE p.media = "video" /\ frames' = Inserted(p) /\ ~broken'
    <3>1. ("audio" \in resetPts') = ("audio" \in resetPts)
      BY <1>3, <2>3
    <3> QED
      BY <1>1, <1>2, <1>3, <2>3, <3>1, EarlyReadFrame
  <2>4. CASE p.media = "subtitle"
    BY <1>1, <1>2, <1>3, <2>4, EarlyReadFrame
  <2> QED
    BY <1>3, <2>1, <2>2, <2>3, <2>4
<1>5. Elems(held') = {} /\ EncodersDue' /\ FilesDue'
  BY <1>1, <1>2, <1>3 DEF EarlyParts, EncodersDue, FilesDue, Due
<1> QED
  BY <1>4, <1>5 DEF EarlyParts

\* A new frame of audio, and the position of the one behind it.
LEMMA EarlyCreate == ASSUME TypeInv, EarlyParts, Regular(setup), CreateAudioFrame PROVE EarlyParts'
<1> DEFINE f == AudioNow
<1> DEFINE n == SegmentOf(audioPts)
<1>1. /\ f \in Packet /\ f.pos = audioPts /\ FrameSize \in Nat \ {0}
      /\ FrameSize <= samples /\ FrameSize <= AudioFrame /\ frames' = Inserted(f)
      /\ samples' = samples - FrameSize /\ audioPts' = audioPts + FrameSize
      /\ UNCHANGED <<setup, pc, at, broken, resetPts, outVars, segVars, asked, finished>>
  BY CreateIs
<1> HIDE DEF f
<1>2. cur' = cur /\ Input' = Input /\ UNCHANGED <<setup, at, broken, resetPts, held, encoder, files>>
  BY <1>1 DEF segVars, outVars, Input
<1>3. samples \in Nat /\ audioPts \in Nat /\ cur \in Nat
  BY PipelineAssumption DEF TypeInv, Counters
<1>4. n \in Nat
  BY <1>3, SegmentIs
<1>5. "audio" \notin resetPts /\ Reach(Elems(frames), cur, n - 1)
  <2>1. samples # 0
    BY <1>1, <1>3
  <2> QED
    BY <2>1 DEF EarlyParts, AudioNear
<1>6. /\ FramesReached' /\ Reach(Elems(frames'), cur, n)
      /\ \A k \in Int : Reach(Elems(frames), cur, k) => Reach(Elems(frames'), cur, k)
  BY <1>1, <1>2, <1>5, InsertReached
<1>7. ReadReached'
  <2>1. \A k \in 1..at - 1 : SegmentOf(Input[k].pos) \in Int
    BY ReadSegments
  <2>2. \A k \in 1..at - 1 : Input[k].media # "audio" => Reach(Elems(frames'), cur, SegmentOf(Input[k].pos))
    BY <1>6, <2>1 DEF EarlyParts, ReadReached
  <2> QED
    BY <1>2, <2>2 DEF ReadReached
<1>8. AudioNear'
  <2> DEFINE x == audioPts + FrameSize
  <2>1. x \in Nat /\ x <= audioPts + SegDur /\ x = audioPts'
    <3> HIDE DEF FrameSize
    <3> QED
      BY <1>1, <1>3, PipelineAssumption DEF Regular
  <2> HIDE DEF x
  <2>2. SegmentOf(x) <= n + 1 /\ SegmentOf(x) \in Nat
    BY <1>3, <2>1, SegmentStep, SegmentIs
  <2> HIDE DEF n
  <2> DEFINE m == SegmentOf(x)
  <2>3. m - 1 \in Int /\ m - 1 <= n
    BY <1>4, <2>2
  <2> HIDE DEF m
  <2>4. Reach(Elems(frames'), cur, m - 1)
    BY <1>3, <1>4, <1>6, <2>3, ReachMore
  <2> QED
    BY <1>2, <1>5, <2>1, <2>4 DEF AudioNear, m
<1>9. KeySeen' /\ Elems(held') = {} /\ EncodersDue' /\ FilesDue'
  BY <1>2 DEF EarlyParts, KeySeen, EncodersDue, FilesDue, Due
<1> QED
  BY <1>6, <1>7, <1>8, <1>9 DEF EarlyParts

\* Where reading goes on behind a seek to segment i nothing has been read yet.
LEMMA EarlySeek ==
    ASSUME TypeInv, EarlyParts, Regular(setup), NEW i \in 1..Segments, SeekTo(i), setup' = setup
    PROVE  EarlyParts'
<1>1. /\ at' = SeekPosition(i, TRUE) /\ broken' = TRUE /\ resetPts' = AV
      /\ frames' = <<>> /\ samples' = 0 /\ encoder' = [m \in AV |-> <<>>] /\ held' = <<>>
      /\ cur' = i /\ files' = files
  BY DEF SeekTo
<1>2. at' \in 1..Len(Input) + 1 /\ Behind(at', i)
  BY <1>1, SeekPositionIs DEF TypeInv, Counters, Regular
<1>3. i \in Nat /\ Input' = Input /\ Elems(<<>>) = {}
  BY PipelineAssumption, ElemsEmpty DEF Input
<1>4. \A k \in 1..at' - 1 : SegmentOf(Input[k].pos) \in Nat \ {0} /\ SegmentOf(Input[k].pos) < i
  <2>1. Len(Input) \in Nat
    BY ReadSegments
  <2>2. \A k \in 1..at' - 1 : k \in 1..Len(Input)
    <3>1. \A b \in 1..Len(Input) + 1 : \A k \in 1..b - 1 : k \in 1..Len(Input)
      BY <2>1
    <3> QED
      BY <1>2, <3>1
  <2>3. \A k \in 1..Len(Input) : SegmentOf(Input[k].pos) \in Nat \ {0}
    BY ReadSegments
  <2> QED
    BY <1>2, <2>2, <2>3 DEF Behind
<1>5. \A k \in 1..at' - 1 : SegmentOf(Input[k].pos) <= i /\ SegmentOf(Input[k].pos) \in Int
  BY <1>3, <1>4
<1>6. FramesReached'
  BY <1>1, <1>3 DEF FramesReached
<1>7. ReadReached'
  BY <1>1, <1>3, <1>5, ReachNone DEF ReadReached
<1>8. AudioNear' /\ KeySeen'
  BY <1>1, <1>3, <1>4, <1>5 DEF AudioNear, KeySeen, AV
<1>9. Elems(held') = {} /\ EncodersDue' /\ FilesDue'
  BY <1>1, <1>3 DEF EarlyParts, EncodersDue, FilesDue
<1> QED
  BY <1>6, <1>7, <1>8, <1>9 DEF EarlyParts

LEMMA EarlyStart ==
    ASSUME TypeInv, EarlyParts, Regular(setup), NEW read \in SUBSET ended, StartNewSegment(read)
    PROVE  EarlyParts'
<1>1. /\ cur < Segments /\ UNCHANGED <<setup, asked, finished>>
      /\ Advance \/ \E i \in 1..Segments : SeekTo(i)
  BY StartIsNext
<1>2. CASE Advance
  <2>1. /\ cur' = cur + 1 /\ cur' \in 1..Segments /\ held' = <<>>
        /\ \A i \in 1..Segments : files'[i] = IF i = cur + 1 THEN files[cur + 1] \o held ELSE files[i]
        /\ Elems(files'[cur + 1]) = Elems(files[cur + 1]) \cup Elems(held)
        /\ UNCHANGED <<inVars, frames, encoder, sought>>
    BY <1>1, <1>2, AdvanceIs
  <2>2. cur \in Nat /\ cur' \in Nat /\ cur <= cur' /\ Segments \in Nat
    BY <2>1, PipelineAssumption DEF TypeInv, Counters
  <2>3. \A i \in 1..Segments : Elems(files'[i]) = Elems(files[i])
    BY <2>1 DEF EarlyParts
  <2>4. \A n : Reach(Elems(frames), cur, n) => Reach(Elems(frames'), cur', n)
    <3>1. \A j : j \in cur' + 1..Segments => j \in cur + 1..Segments
      BY <2>1, <2>2
    <3> QED
      BY <2>1, <3>1 DEF Reach
  <2>5. (FramesReached /\ ReadReached /\ AudioNear /\ KeySeen)'
    <3>1. UNCHANGED <<setup, at, resetPts, samples, audioPts, broken>> /\ frames' = frames
      BY <1>1, <2>1 DEF inVars
    <3> QED
      BY <2>2, <2>4, <3>1, ReachedStays
  <2>6. Elems(held') = {} /\ FilesDue'
    BY <2>1, <2>3, ElemsEmpty DEF EarlyParts, FilesDue
  <2>7. EncodersDue'
    <3> SUFFICES ASSUME NEW m \in AV, NEW p \in Elems(encoder[m]) PROVE SegmentOf(p.pos) <= cur' \/ cur' = Segments
      BY <2>1 DEF EncodersDue, Due
    <3>1. p \in Packet /\ (SegmentOf(p.pos) <= cur \/ cur = Segments)
      BY ElemsOf DEF EarlyParts, EncodersDue, Due, TypeInv, Queues
    <3>2. SegmentOf(p.pos) \in Nat
      BY <3>1, PacketSegment
    <3> DEFINE n == SegmentOf(p.pos)
    <3>3. n \in Nat /\ (n <= cur \/ cur = Segments)
      BY <3>1, <3>2
    <3> HIDE DEF n
    <3>4. n <= cur'
      BY <1>1, <2>1, <2>2, <3>3
    <3> QED
      BY <3>4 DEF n
  <2> QED
    BY <2>5, <2>6, <2>7 DEF EarlyParts
<1>3. CASE \E i \in 1..Segments : SeekTo(i)
  BY <1>1, <1>3, EarlySeek
<1> QED
  BY <1>1, <1>2, <1>3

LEMMA EarlyInit == PipelineInit => EarlyInv
<1> SUFFICES ASSUME PipelineInit, Regular(setup) PROVE EarlyParts
  BY DEF EarlyInv
<1>1. setup \in Setups /\ setup.first \in 0..Segments /\ Segments \in Nat \ {0}
  BY SetupIs, PipelineAssumption DEF PipelineInit
<1> DEFINE direct == setup.first > 1 /\ ~NearBeginning(setup.first)
<1>2. /\ cur = IF direct THEN setup.first ELSE 1
      /\ at = IF direct
              THEN IF Has("video") THEN PacketAt(KeyPosition("video", setup.first))
                   ELSE PacketAt(KeyPosition("audio", setup.first))
              ELSE 1
      /\ resetPts = IF direct THEN AV ELSE {}
      /\ files = [i \in 1..Segments |-> IF i \in DOMAIN setup.cached THEN setup.cached[i] ELSE <<>>]
      /\ broken = TRUE /\ frames = <<>> /\ samples = 0 /\ audioPts = 0
      /\ encoder = [m \in AV |-> <<>>] /\ held = <<>>
  BY DEF PipelineInit
<1> HIDE DEF direct
<1>3. TypeInv
  BY TypeInit
<1>4. cur \in 1..Segments /\ cur \in Nat /\ Elems(<<>>) = {}
  BY <1>3, PipelineAssumption, ElemsEmpty DEF TypeInv, Counters
<1>5. Behind(at, cur)
  <2>1. CASE direct
    <3>1. setup.first \in 1..Segments /\ cur = setup.first
      BY <1>2, <1>4, <2>1
    <3> QED
      BY <1>1, <1>2, <2>1, <3>1, SeekBehind DEF AV
  <2>2. CASE ~direct
    BY <1>2, <2>2 DEF Behind
  <2> QED
    BY <2>1, <2>2
<1>6. \A k \in 1..at - 1 : SegmentOf(Input[k].pos) < cur
  BY <1>5 DEF Behind
<1>7. \A k \in 1..at - 1 : SegmentOf(Input[k].pos) \in Int /\ SegmentOf(Input[k].pos) <= cur
  BY <1>3, <1>4, <1>6, ReadSegments
<1>8. FramesReached
  BY <1>2, <1>4 DEF FramesReached
<1>9. ReadReached
  BY <1>4, <1>7, ReachNone DEF ReadReached
<1>10. AudioNear
  <2>1. CASE "audio" \in resetPts
    BY <1>2, <1>7, <2>1 DEF AudioNear
  <2>2. CASE "audio" \notin resetPts
    <3> DEFINE n == SegmentOf(audioPts)
    <3>1. audioPts \in Nat /\ SegDur \in Nat \ {0} /\ audioPts < 1 * SegDur
      BY <1>2, PipelineAssumption
    <3>2. n <= 1 /\ n \in Nat
      BY <3>1, SegmentBefore, SegmentIs
    <3> HIDE DEF n
    <3>3. n - 1 \in Int /\ n - 1 <= cur
      BY <1>4, <3>2
    <3>4. Reach(Elems(frames), cur, n - 1)
      BY <1>4, <3>3, ReachNone
    <3> QED
      BY <2>2, <3>4 DEF AudioNear, n
  <2> QED
    BY <2>1, <2>2
<1>11. KeySeen
  BY <1>6 DEF KeySeen
<1>12. EncodersDue
  BY <1>2, <1>4 DEF EncodersDue
<1>13. FilesDue
  <2> SUFFICES ASSUME NEW i \in 1..Segments, NEW p \in Elems(files[i]) PROVE SegmentOf(p.pos) <= i
    BY DEF FilesDue
  <2>1. i \in DOMAIN setup.cached /\ files[i] = setup.cached[i]
    BY <1>2, <1>4
  <2>2. \A k \in DOMAIN setup.cached[i] : SegmentOf(setup.cached[i][k].pos) <= i
    BY <1>1, <2>1, PipelineAssumption
  <2> QED
    BY <2>1, <2>2 DEF Elems
<1>14. Elems(held) = {}
  BY <1>2, <1>4
<1> QED
  BY <1>8, <1>9, <1>10, <1>11, <1>12, <1>13, <1>14 DEF EarlyParts

LEMMA EarlyNext == TypeInv /\ EarlyInv /\ [PipelineNext]_pipelineVars => EarlyInv'
<1> SUFFICES ASSUME TypeInv, EarlyInv, [PipelineNext]_pipelineVars, Regular(setup') PROVE EarlyParts'
  BY DEF EarlyInv
<1>1. setup' = setup
  BY DEF PipelineNext, Work, Read, ReadEnd, CreateAudioFrame, StartEncoding, ReachNext, Encode, Encoded, NotYet,
         Finish, StartNewSegment, Flush, Stack, pipelineVars
<1>2. Regular(setup) /\ EarlyParts
  BY <1>1 DEF EarlyInv
<1>3. CASE UNCHANGED pipelineVars
  BY <1>2, <1>3 DEF pipelineVars, inVars, outVars, segVars, EarlyParts, FramesReached, ReadReached, AudioNear,
     KeySeen, EncodersDue, FilesDue, Due, Reach, Input
<1>4. CASE PipelineNext
  BY <1>2, <1>4, EarlyRead, EarlyCreate, EarlyEncode, EarlyStart, EarlyFlush, EarlyQuiet DEF PipelineNext, Work, Quiet
<1> QED
  BY <1>3, <1>4

\* For every source whose streams go on gradually and are encoded: whatever is
\* requested and wherever the run seeks, no packet is written to a segment before
\* its own by store_packet and start_new_segment.  What makes it so is that the
\* map of frames, from which the encoders are fed in order, never leaves out a
\* segment behind the current one, so that the end of a segment is not missed.
THEOREM PacketsNotEarly == PipelineSpec => [](Regular(setup) => NothingEarly)
<1>1. TypeInv /\ EarlyInv => (Regular(setup) => NothingEarly)
  BY FilesDueIs DEF EarlyInv, EarlyParts
<1>2. PipelineInit => TypeInv /\ EarlyInv
  BY TypeInit, EarlyInit
<1>3. (TypeInv /\ EarlyInv) /\ [PipelineNext]_pipelineVars => (TypeInv /\ EarlyInv)'
  BY TypeNext, EarlyNext
<1> QED
  BY <1>1, <1>2, <1>3, PTL DEF PipelineSpec

-----------------------------------------------------------------------------
(* Order and conservation.  Packets go from the source through the map and  *)
(* the encoders to the files; of one stream what is further on that way is  *)
(* the earlier part of the source.                                          *)

Leads(P, Q) == \A p \in P, q \in Q : p.media = q.media => p.pos + p.len <= q.pos

LEMMA OrderAppend ==
    ASSUME NEW s \in Seq(Packet), NEW p \in Packet, InOrder(s), Leads(Elems(s), {p})
    PROVE  InOrder(Append(s, p))
<1> DEFINE a == Append(s, p)
<1>1. /\ a \in Seq(Packet) /\ Len(a) = Len(s) + 1 /\ a[Len(s) + 1] = p
      /\ \A i \in 1..Len(s) : a[i] = s[i]
  BY AppendProperties
<1>2. DOMAIN s = 1..Len(s) /\ DOMAIN a = 1..Len(s) + 1 /\ Len(s) \in Nat
  BY <1>1, LenProperties
<1> HIDE DEF a
<1>3. ASSUME NEW k \in DOMAIN a, NEW l \in DOMAIN a, k < l, a[k].media = a[l].media
      PROVE  a[k].pos + a[k].len <= a[l].pos
  <2>1. k \in DOMAIN s /\ a[k] = s[k]
    BY <1>1, <1>2, <1>3
  <2>2. CASE l \in DOMAIN s
    <3>1. a[l] = s[l]
      BY <1>1, <1>2, <2>2
    <3> QED
      BY <1>3, <2>1, <2>2, <3>1 DEF InOrder
  <2>3. CASE l \notin DOMAIN s
    <3>1. a[l] = p
      BY <1>1, <1>2, <2>3
    <3> QED
      BY <1>3, <2>1, <3>1 DEF Leads, Elems
  <2> QED
    BY <2>2, <2>3
<1> QED
  BY <1>3 DEF InOrder, a

LEMMA OrderTail ==
    ASSUME NEW s \in Seq(Packet), s # <<>>, InOrder(s)
    PROVE  InOrder(Tail(s)) /\ Leads({s[1]}, Elems(Tail(s)))
<1> DEFINE t == Tail(s)
<1>1. t \in Seq(Packet) /\ Len(t) = Len(s) - 1 /\ \A i \in 1..Len(t) : t[i] = s[i + 1]
  BY HeadTailProperties
<1>2. DOMAIN s = 1..Len(s) /\ DOMAIN t = 1..Len(s) - 1 /\ Len(s) \in Nat \ {0}
  BY <1>1, LenProperties, EmptySeq
<1> HIDE DEF t
<1>3. \A k \in DOMAIN t : t[k] = s[k + 1] /\ k + 1 \in DOMAIN s /\ 1 < k + 1
  BY <1>1, <1>2
<1>4. ASSUME NEW k \in DOMAIN t, NEW l \in DOMAIN t, k < l, t[k].media = t[l].media
      PROVE  t[k].pos + t[k].len <= t[l].pos
  <2>1. k + 1 < l + 1
    BY <1>2, <1>4
  <2> QED
    BY <1>3, <1>4, <2>1 DEF InOrder
<1>5. ASSUME NEW k \in DOMAIN t, s[1].media = t[k].media PROVE s[1].pos + s[1].len <= t[k].pos
  <2>1. 1 \in DOMAIN s
    BY <1>2
  <2> QED
    BY <1>3, <1>5, <2>1 DEF InOrder
<1> QED
  BY <1>4, <1>5 DEF InOrder, Leads, Elems, t

LEMMA OrderInserted ==
    ASSUME frames \in Seq(Packet), Sorted(frames), InOrder(frames), NEW f \in Packet, Leads(Elems(frames), {f})
    PROVE  InOrder(Inserted(f))
<1> DEFINE n == Before(f)
<1> DEFINE t == Inserted(f)
<1>1. /\ t \in Seq(Packet) /\ DOMAIN t = 1..Len(frames) + 1
      /\ n \in 0..Len(frames) /\ Len(frames) \in Nat /\ DOMAIN frames = 1..Len(frames)
      /\ t[n + 1] = f
  BY InsertedPlaces
<1>2. \A k \in 1..n : t[k] = frames[k] /\ k \in DOMAIN frames /\ frames[k].pos <= f.pos
  BY InsertedPlaces
<1>3. \A k \in n + 2..Len(frames) + 1 :
        t[k] = frames[k - 1] /\ k - 1 \in DOMAIN frames /\ ~(frames[k - 1].pos <= f.pos)
  BY InsertedPlaces
<1> HIDE DEF n, t
<1>4. \A k \in DOMAIN t : k \in 1..n \/ k = n + 1 \/ k \in n + 2..Len(frames) + 1
  BY <1>1
<1>5. \A k \in DOMAIN frames : /\ frames[k].pos \in Nat /\ frames[k].len \in Nat
                               /\ frames[k].media = f.media => frames[k].pos + frames[k].len <= f.pos
  BY PacketsOf DEF Leads, Elems
<1>6. f.pos \in Nat
  BY PacketIs
<1>7. \A k \in n + 2..Len(frames) + 1 : t[k].media # f.media
  BY <1>3, <1>5, <1>6
<1> SUFFICES ASSUME NEW k \in DOMAIN t, NEW l \in DOMAIN t, k < l, t[k].media = t[l].media
             PROVE  t[k].pos + t[k].len <= t[l].pos
  BY DEF InOrder, t
<1>8. CASE k \in 1..n /\ l \in 1..n
  BY <1>2, <1>8 DEF InOrder
<1>9. CASE k \in 1..n /\ l = n + 1
  BY <1>1, <1>2, <1>5, <1>9
<1>10. CASE k \in 1..n /\ l \in n + 2..Len(frames) + 1
  <2>1. t[k] = frames[k] /\ k \in DOMAIN frames /\ t[l] = frames[l - 1] /\ l - 1 \in DOMAIN frames
    BY <1>2, <1>3, <1>10
  <2>2. k < l - 1
    BY <1>1, <1>10
  <2> QED
    BY <2>1, <2>2 DEF InOrder
<1>11. CASE k = n + 1
  <2>1. l \in n + 2..Len(frames) + 1
    BY <1>1, <1>11
  <2> QED
    BY <1>1, <1>7, <1>11, <2>1
<1>12. CASE k \in n + 2..Len(frames) + 1 /\ l \in n + 2..Len(frames) + 1
  <2>1. t[k] = frames[k - 1] /\ k - 1 \in DOMAIN frames /\ t[l] = frames[l - 1] /\ l - 1 \in DOMAIN frames
    BY <1>3, <1>12
  <2>2. k - 1 < l - 1
    BY <1>1, <1>12
  <2> QED
    BY <2>1, <2>2 DEF InOrder
<1>13. \/ k \in 1..n /\ l \in 1..n
       \/ k \in 1..n /\ l = n + 1
       \/ k \in 1..n /\ l \in n + 2..Len(frames) + 1
       \/ k = n + 1
       \/ k \in n + 2..Len(frames) + 1 /\ l \in n + 2..Len(frames) + 1
  BY <1>1
<1> QED
  BY <1>8, <1>9, <1>10, <1>11, <1>12, <1>13

Stored == {p \in Packet : p \in Elems(held) \/ \E i \in 1..Segments : p \in Elems(files[i])}
Queued == {p \in Packet : \E m \in AV : p \in Elems(encoder[m])}
Everything == Stored \cup Queued \cup Elems(frames)

LEMMA EverythingIs ==
    ASSUME TypeInv
    PROVE  /\ Everything \subseteq Packet
           /\ \A m \in AV : \A p \in Elems(encoder[m]) : p.media = m /\ p \in Queued
           /\ \A i \in 1..Segments : \A p \in Elems(files[i]) : p \in Stored
           /\ \A p \in Elems(held) : p \in Stored
           /\ \A p \in Queued : p.media \in AV /\ p \in Elems(encoder[p.media])
<1>1. /\ \A i \in 1..Segments : Elems(files[i]) \subseteq Packet
      /\ \A m \in AV : Elems(encoder[m]) \subseteq Packet
      /\ Elems(held) \subseteq Packet /\ Elems(frames) \subseteq Packet
  BY ElemsOf DEF TypeInv, Queues
<1>2. \A m \in AV : \A p \in Elems(encoder[m]) : p.media = m
  BY DEF TypeInv, Contents
<1> QED
  BY <1>1, <1>2 DEF Everything, Stored, Queued

QueuesInOrder ==
    /\ InOrder(frames) /\ InOrder(held)
    /\ \A m \in AV : InOrder(encoder[m])
    /\ \A i \in 1..Segments : InOrder(files[i])

\* Only what is decoded goes through the map and the encoders, and nothing is
\* written behind the current segment.
Chain ==
    /\ QueuesInOrder
    /\ Leads(Stored, Queued) /\ Leads(Stored \cup Queued, Elems(frames))
    /\ \A p \in Queued \cup Elems(frames) : p.media \in AV => Decodes(p.media)
    /\ \A i \in 1..Segments : i > cur => files[i] = <<>>

\* A packet is stored behind all that was stored of its stream.
LEMMA StoreChain ==
    ASSUME TypeInv, Chain, NEW p \in Packet, OfStream(p), StorePacket(p), Leads(Stored, {p}), cur' = cur
    PROVE  /\ Stored' = Stored \cup {p}
           /\ InOrder(held') /\ (\A i \in 1..Segments : InOrder(files'[i]))
           /\ \A i \in 1..Segments : i > cur' => files'[i] = <<>>
<1>1. /\ Elems(held') = Elems(held) \cup (IF Waits(p) THEN {p} ELSE {})
      /\ \A i \in 1..Segments :
           Elems(files'[i]) = Elems(files[i]) \cup (IF i = cur /\ ~Waits(p) THEN {p} ELSE {})
  BY StoreIs
<1>2. cur \in 1..Segments /\ held \in Seq(Packet) /\ files \in [1..Segments -> Seq(Packet)]
  BY DEF TypeInv, Counters, Queues
<1>3. Stored' = Stored \cup {p}
  BY <1>1, <1>2 DEF Stored
<1>4. Leads(Elems(held), {p}) /\ \A i \in 1..Segments : Leads(Elems(files[i]), {p})
  BY EverythingIs DEF Leads
<1>5. CASE Waits(p)
  <2>1. held' = Append(held, p) /\ files' = files
    BY <1>5 DEF Waits, StorePacket
  <2> QED
    BY <1>2, <1>3, <1>4, <2>1, OrderAppend DEF Chain, QueuesInOrder
<1>6. CASE ~Waits(p)
  <2>1. held' = held /\ files' = [files EXCEPT ![cur] = Append(files[cur], p)]
    BY <1>6 DEF Waits, StorePacket
  <2>2. \A i \in 1..Segments : files'[i] = IF i = cur THEN Append(files[cur], p) ELSE files[i]
    BY <1>2, <2>1
  <2>3. InOrder(Append(files[cur], p))
    BY <1>2, <1>4, OrderAppend DEF Chain, QueuesInOrder
  <2>4. \A i \in 1..Segments : i > cur => i # cur
    BY <1>2, PipelineAssumption
  <2> QED
    BY <1>3, <2>1, <2>2, <2>3, <2>4 DEF Chain, QueuesInOrder
<1> QED
  BY <1>5, <1>6

\* An encoder whose queue is s gives out its first packet.
LEMMA GiveOut ==
    ASSUME TypeInv, Chain, NEW m \in AV, Has(m), NEW s \in Seq(Packet), s # <<>>, InOrder(s),
           \A p \in Elems(s) : p.media = m, Elems(encoder[m]) \subseteq Elems(s),
           Leads(Stored, Elems(s)), StorePacket(s[1]), cur' = cur,
           encoder' = [encoder EXCEPT ![m] = Tail(s)]
    PROVE  /\ InOrder(held') /\ (\A i \in 1..Segments : InOrder(files'[i]))
           /\ \A i \in 1..Segments : i > cur' => files'[i] = <<>>
           /\ \A l \in AV : InOrder(encoder'[l])
           /\ Leads(Stored', Queued')
           /\ Stored' \cup Queued' = Stored \cup Queued \cup Elems(s)
           /\ Queued' \subseteq Queued \cup Elems(s)
<1>1. s[1] \in Elems(s) /\ s[1] \in Packet /\ Elems(s) = Elems(Tail(s)) \cup {s[1]}
  BY ElemsTail
<1>2. InOrder(Tail(s)) /\ Leads({s[1]}, Elems(Tail(s)))
  BY OrderTail
<1>3. OfStream(s[1]) /\ Leads(Stored, {s[1]})
  BY <1>1 DEF OfStream, Leads
<1>4. /\ Stored' = Stored \cup {s[1]}
      /\ InOrder(held') /\ (\A i \in 1..Segments : InOrder(files'[i]))
      /\ \A i \in 1..Segments : i > cur' => files'[i] = <<>>
  BY <1>1, <1>3, StoreChain
<1>5. \A l \in AV : encoder'[l] = IF l = m THEN Tail(s) ELSE encoder[l]
  BY DEF TypeInv, Queues
<1>6. \A l \in AV : InOrder(encoder'[l])
  BY <1>2, <1>5 DEF Chain, QueuesInOrder
<1>7. \A l \in AV : Elems(encoder'[l]) = IF l = m THEN Elems(Tail(s)) ELSE Elems(encoder[l])
  BY <1>5
<1>8. Queued' \cup {s[1]} = Queued \cup Elems(s) /\ Queued' \subseteq Queued \cup Elems(s)
  <2>1. Elems(s) \subseteq Packet
    BY ElemsOf
  <2>2. \A p : p \in Queued' => p \in Queued \/ p \in Elems(s)
    BY <1>1, <1>7 DEF Queued
  <2>3. \A p : p \in Queued => p \in Queued' \/ p \in Elems(s)
    BY <1>7 DEF Queued
  <2>4. \A p : p \in Elems(s) => p \in Queued' \/ p = s[1]
    BY <1>1, <1>7, <2>1 DEF Queued
  <2> QED
    BY <1>1, <2>2, <2>3, <2>4
<1>9. Stored' \cup Queued' = Stored \cup Queued \cup Elems(s)
  BY <1>4, <1>8
<1>10. Leads(Stored, Queued')
  BY <1>8 DEF Chain, Leads
<1>11. \A p \in Queued' : p.media = m => p \in Elems(Tail(s))
  BY <1>7, EverythingIs DEF Queued
<1>12. Leads({s[1]}, Queued')
  BY <1>1, <1>2, <1>11 DEF Leads
<1>13. Leads(Stored', Queued')
  BY <1>4, <1>10, <1>12 DEF Leads
<1> QED
  BY <1>4, <1>6, <1>8, <1>9, <1>13

\* One frame of the map goes to its encoder, which may give out a packet.
LEMMA ChainEncode == ASSUME TypeInv, Chain, Encode PROVE Chain' /\ Everything' = Everything
<1> DEFINE f == frames[1]
<1>1. /\ frames # <<>> /\ frames' = Tail(frames) /\ f \in Packet /\ OfStream(f) /\ f \in Elems(frames)
      /\ UNCHANGED <<setup, pc, inVars, segVars, asked, finished>>
      /\ \/ StorePacket(f) /\ encoder' = encoder /\ f.media \notin AV
         \/ f.media \in AV /\ Has(f.media) /\ Delayed(f)
  BY EncodeIs
<1>2. /\ Elems(frames) = Elems(frames') \cup {f} /\ InOrder(frames') /\ Leads({f}, Elems(frames'))
  BY <1>1, ElemsTail, OrderTail DEF TypeInv, Queues, Chain, QueuesInOrder
<1> HIDE DEF f
<1>3. cur' = cur /\ setup' = setup
  BY <1>1 DEF segVars
<1>4. Leads(Stored, {f}) /\ Leads(Queued, {f}) /\ Leads(Stored \cup Queued, Elems(frames'))
  BY <1>1, <1>2 DEF Chain, Leads
<1>5. \A p \in Queued \cup Elems(frames') \cup {f} : p.media \in AV => Decodes(p.media)'
  BY <1>2, <1>3 DEF Chain, Decodes, Has
<1>6. CASE StorePacket(f) /\ encoder' = encoder /\ f.media \notin AV
  <2>1. /\ Stored' = Stored \cup {f}
        /\ InOrder(held') /\ (\A i \in 1..Segments : InOrder(files'[i]))
        /\ \A i \in 1..Segments : i > cur' => files'[i] = <<>>
    BY <1>1, <1>3, <1>4, <1>6, StoreChain
  <2>2. Queued' = Queued
    BY <1>6 DEF Queued
  <2>3. Leads({f}, Queued)
    BY <1>6, EverythingIs DEF Leads
  <2>4. Leads(Stored', Queued') /\ Leads(Stored' \cup Queued', Elems(frames'))
    BY <1>2, <1>4, <2>1, <2>2, <2>3 DEF Chain, Leads
  <2>5. QueuesInOrder'
    BY <1>2, <1>6, <2>1 DEF Chain, QueuesInOrder
  <2>6. Everything' = Everything
    BY <1>2, <2>1, <2>2 DEF Everything
  <2> QED
    BY <1>5, <2>1, <2>2, <2>4, <2>5, <2>6 DEF Chain
<1>7. CASE f.media \in AV /\ Has(f.media) /\ Delayed(f)
  <2> DEFINE m == f.media
  <2> DEFINE q == Append(encoder[m], f)
  <2>1. /\ q \in Seq(Packet) /\ q # <<>> /\ Elems(q) = Elems(encoder[m]) \cup {f}
        /\ \A p \in Elems(q) : p \in Packet /\ p.media = m
        /\ Kept(f) \/ Given(f)
    BY <1>1, <1>7, DelayedIs
  <2>2. encoder[m] \in Seq(Packet) /\ Leads(Elems(encoder[m]), {f}) /\ InOrder(encoder[m])
        /\ encoder \in [AV -> Seq(Packet)]
    BY <1>4, <1>7, EverythingIs DEF TypeInv, Queues, Chain, QueuesInOrder, Leads
  <2>3. InOrder(q)
    BY <1>1, <2>2, OrderAppend
  <2>4. Kept(f) => encoder' = [encoder EXCEPT ![m] = q] /\ UNCHANGED <<held, inhibit, files>>
    BY DEF Kept
  <2>5. Given(f) => encoder' = [encoder EXCEPT ![m] = Tail(q)] /\ StorePacket(q[1])
    BY DEF Given
  <2> HIDE DEF q
  <2>6. Elems(q) \subseteq Queued \cup {f} /\ Elems(encoder[m]) \subseteq Elems(q)
    BY <1>7, <2>1, EverythingIs
  <2>7. Leads(Stored, Elems(q))
    BY <1>4, <2>6 DEF Chain, Leads
  <2>8. /\ InOrder(held') /\ (\A i \in 1..Segments : InOrder(files'[i]))
        /\ \A i \in 1..Segments : i > cur' => files'[i] = <<>>
        /\ \A l \in AV : InOrder(encoder'[l])
        /\ Leads(Stored', Queued')
        /\ Stored' \cup Queued' = Stored \cup Queued \cup Elems(q)
        /\ Queued' \subseteq Queued \cup Elems(q)
    <3>1. CASE Kept(f)
      <4>1. \A l \in AV : encoder'[l] = IF l = m THEN q ELSE encoder[l]
        BY <1>7, <2>2, <2>4, <3>1
      <4>2. Stored' = Stored
        BY <2>4, <3>1 DEF Stored
      <4>3. Queued' = Queued \cup Elems(q)
        <5>1. \A p : p \in Queued' => p \in Queued \/ p \in Elems(q)
          BY <4>1 DEF Queued
        <5>2. \A p : p \in Queued => p \in Queued' \/ p \in Elems(q)
          BY <2>6, <4>1 DEF Queued
        <5>3. \A p : p \in Elems(q) => p \in Queued'
          BY <1>7, <2>1, <4>1 DEF Queued
        <5>4. \A p : p \in Queued => p \in Queued'
          BY <5>2, <5>3
        <5> QED
          BY <5>1, <5>3, <5>4
      <4>4. Leads(Stored', Queued')
        BY <2>7, <4>2, <4>3 DEF Chain, Leads
      <4>5. \A l \in AV : InOrder(encoder'[l])
        BY <2>3, <4>1 DEF Chain, QueuesInOrder
      <4> QED
        BY <1>3, <2>4, <3>1, <4>2, <4>3, <4>4, <4>5 DEF Chain, QueuesInOrder
    <3>2. CASE Given(f)
      BY <1>3, <1>7, <2>1, <2>3, <2>5, <2>6, <2>7, <3>2, GiveOut
    <3> QED
      BY <2>1, <3>1, <3>2
  <2>9. Stored' \cup Queued' = Stored \cup Queued \cup {f} /\ Queued' \subseteq Queued \cup {f}
    BY <2>1, <2>6, <2>8
  <2>10. Leads(Stored' \cup Queued', Elems(frames'))
    BY <1>2, <1>4, <2>9 DEF Leads
  <2>11. Everything' = Everything
    BY <1>2, <2>9 DEF Everything
  <2>12. QueuesInOrder'
    BY <1>2, <2>8 DEF QueuesInOrder
  <2> QED
    BY <1>5, <2>8, <2>9, <2>10, <2>11, <2>12 DEF Chain
<1> QED
  BY <1>1, <1>6, <1>7

LEMMA ChainFlush == ASSUME TypeInv, Chain, NEW m \in AV, Flush(m) PROVE Chain' /\ Everything' = Everything
<1> DEFINE s == encoder[m]
<1>1. /\ s \in Seq(Packet) /\ s # <<>> /\ StorePacket(s[1]) /\ encoder' = [encoder EXCEPT ![m] = Tail(s)]
      /\ UNCHANGED <<setup, pc, inVars, frames, segVars, asked, finished>> /\ s[1] \in Elems(s)
  BY FlushIs
<1>2. InOrder(s) /\ Elems(s) \subseteq Queued /\ (\A p \in Elems(s) : p.media = m) /\ Has(m)
  BY <1>1, EverythingIs DEF Chain, QueuesInOrder, TypeInv, Contents
<1>3. cur' = cur /\ setup' = setup /\ frames' = frames
  BY <1>1 DEF segVars
<1>4. Leads(Stored, Elems(s)) /\ Elems(encoder[m]) \subseteq Elems(s)
  BY <1>2 DEF Chain, Leads
<1> HIDE DEF s
<1>5. /\ InOrder(held') /\ (\A i \in 1..Segments : InOrder(files'[i]))
      /\ \A i \in 1..Segments : i > cur' => files'[i] = <<>>
      /\ \A l \in AV : InOrder(encoder'[l])
      /\ Leads(Stored', Queued')
      /\ Stored' \cup Queued' = Stored \cup Queued \cup Elems(s)
      /\ Queued' \subseteq Queued \cup Elems(s)
  BY <1>1, <1>2, <1>3, <1>4, GiveOut
<1>6. Stored' \cup Queued' = Stored \cup Queued /\ Queued' \subseteq Queued
  BY <1>2, <1>5
<1>7. Leads(Stored' \cup Queued', Elems(frames'))
  BY <1>3, <1>6 DEF Chain
<1>8. QueuesInOrder'
  BY <1>3, <1>5 DEF Chain, QueuesInOrder
<1>9. \A p \in Queued' \cup Elems(frames') : p.media \in AV => Decodes(p.media)'
  BY <1>3, <1>6 DEF Chain, Decodes, Has
<1>10. Everything' = Everything
  BY <1>3, <1>6 DEF Everything
<1> QED
  BY <1>5, <1>7, <1>8, <1>9, <1>10 DEF Chain

\* The packets that waited are the first of the next segment.
LEMMA ChainAdvance ==
    ASSUME TypeInv, Chain, cur < Segments, Advance, setup' = setup
    PROVE  Chain' /\ Everything' = Everything
<1>1. /\ cur' = cur + 1 /\ cur' \in 1..Segments /\ held' = <<>>
      /\ \A i \in 1..Segments : files'[i] = IF i = cur + 1 THEN files[cur + 1] \o held ELSE files[i]
      /\ UNCHANGED <<inVars, frames, encoder, sought>>
  BY AdvanceIs
<1>2. cur \in Nat /\ held \in Seq(Packet) /\ Segments \in Nat
  BY PipelineAssumption DEF TypeInv, Counters, Queues
<1>3. files[cur + 1] = <<>>
  BY <1>1, <1>2 DEF Chain
<1>4. <<>> \o held = held
  BY <1>2, ConcatEmptySeq
<1>5. \A i \in 1..Segments : files'[i] = IF i = cur + 1 THEN held ELSE files[i]
  BY <1>1, <1>3, <1>4
<1>6. Elems(<<>>) = {} /\ InOrder(<<>>)
  BY ElemsEmpty DEF InOrder
<1>7. Stored' = Stored
  <2>1. \A i \in 1..Segments : Elems(files'[i]) = IF i = cur + 1 THEN Elems(held) ELSE Elems(files[i])
    BY <1>5
  <2>2. Elems(files[cur + 1]) = {} /\ Elems(held') = {} /\ cur + 1 \in 1..Segments
    BY <1>1, <1>3, <1>6
  <2>3. \A p : p \in Stored' => p \in Stored
    BY <2>1, <2>2 DEF Stored
  <2>4. \A p : p \in Stored => p \in Stored'
    BY <2>1, <2>2 DEF Stored
  <2> QED
    BY <2>3, <2>4
<1>8. Queued' = Queued /\ frames' = frames /\ encoder' = encoder
  BY <1>1 DEF Queued
<1>9. QueuesInOrder'
  BY <1>1, <1>5, <1>6, <1>8 DEF Chain, QueuesInOrder
<1>10. \A i \in 1..Segments : i > cur' => files'[i] = <<>>
  <2>1. \A i \in 1..Segments : i > cur' => i > cur /\ i # cur + 1
    BY <1>1, <1>2
  <2> QED
    BY <1>5, <2>1 DEF Chain
<1>11. \A p \in Queued' \cup Elems(frames') : p.media \in AV => Decodes(p.media)'
  BY <1>8 DEF Chain, Decodes, Has
<1> QED
  BY <1>7, <1>8, <1>9, <1>10, <1>11 DEF Chain, Everything

\* A decoded frame that follows everything of its stream.
LEMMA ChainInsert ==
    ASSUME TypeInv, Chain, NEW f \in Packet, frames' = Inserted(f), f.media \in AV => Decodes(f.media),
           Leads(Everything, {f}), UNCHANGED <<setup, cur, held, encoder, files>>
    PROVE  Chain' /\ Everything' = Everything \cup {f}
<1>1. Elems(frames') = Elems(frames) \cup {f}
  BY InsertedIs DEF TypeInv, Queues, Contents
<1>2. Leads(Stored, {f}) /\ Leads(Queued, {f}) /\ Leads(Elems(frames), {f})
  BY DEF Leads, Everything
<1>3. InOrder(frames')
  BY <1>2, OrderInserted DEF TypeInv, Queues, Contents, Chain, QueuesInOrder
<1>4. Stored' = Stored /\ Queued' = Queued
  BY DEF Stored, Queued
<1>5. Leads(Stored' \cup Queued', Elems(frames'))
  BY <1>1, <1>2, <1>4 DEF Chain, Leads
<1>6. \A p \in Queued' \cup Elems(frames') : p.media \in AV => Decodes(p.media)'
  BY <1>1, <1>4 DEF Chain, Decodes, Has
<1>7. QueuesInOrder'
  BY <1>3 DEF Chain, QueuesInOrder
<1>8. Everything' = Everything \cup {f}
  BY <1>1, <1>4 DEF Everything
<1> QED
  BY <1>4, <1>5, <1>6, <1>7, <1>8 DEF Chain

\* A packet that is copied passes no frame of its stream.
LEMMA ChainCopy ==
    ASSUME TypeInv, Chain, NEW p \in Packet, OfStream(p), StorePacket(p), p.media \in AV, ~Decodes(p.media),
           Leads(Everything, {p}), UNCHANGED <<setup, cur, frames, encoder>>
    PROVE  Chain' /\ Everything' = Everything \cup {p}
<1>1. Leads(Stored, {p})
  BY DEF Leads, Everything
<1>2. /\ Stored' = Stored \cup {p}
      /\ InOrder(held') /\ (\A i \in 1..Segments : InOrder(files'[i]))
      /\ \A i \in 1..Segments : i > cur' => files'[i] = <<>>
  BY <1>1, StoreChain
<1>3. Queued' = Queued /\ frames' = frames /\ encoder' = encoder
  BY DEF Queued
<1>4. Leads({p}, Queued) /\ Leads({p}, Elems(frames))
  BY DEF Chain, Leads
<1>5. Leads(Stored', Queued') /\ Leads(Stored' \cup Queued', Elems(frames'))
  BY <1>2, <1>3, <1>4 DEF Chain, Leads
<1>6. \A q \in Queued' \cup Elems(frames') : q.media \in AV => Decodes(q.media)'
  BY <1>3 DEF Chain, Decodes, Has
<1>7. QueuesInOrder'
  BY <1>2, <1>3 DEF Chain, QueuesInOrder
<1> QED
  BY <1>2, <1>3, <1>5, <1>6, <1>7 DEF Chain, Everything

\* Audio packets follow one another from the beginning of the source.
Contiguous(s) ==
    \A l \in DOMAIN s : s[l].media = "audio" =>
        /\ (\A j \in 1..l - 1 : s[j].media # "audio") => s[l].pos = 0
        /\ \A j \in 1..l - 1 :
             s[j].media = "audio" /\ (\A i \in j + 1..l - 1 : s[i].media # "audio")
                => s[j].pos + s[j].len = s[l].pos

\* The first packet of video is a key packet.
KeyFirst(s) ==
    \A l \in DOMAIN s : s[l].media = "video" => \E k \in 1..l : s[k].media = "video" /\ s[k].key

\* The packets of each stream are in order; audio that is encoded has no gaps
\* and video that is encoded can be decoded from its beginning.
Plain(u) ==
    /\ InOrder(u.input)
    /\ "audio" \notin u.copied => Contiguous(u.input)
    /\ "video" \notin u.copied => KeyFirst(u.input)

Covers(P, m, t) == \E p \in P : p.media = m /\ p.pos <= t /\ t < p.pos + p.len

InFifo(m, t) == m = "audio" /\ audioPts <= t /\ t < audioPts + samples

ReadSoFar == {Input[k] : k \in 1..at - 1}

\* The units that were read are those in the queues, in the files and in the fifo.
Conserved ==
    \A m \in Media : \A t \in Nat : Covers(Everything, m, t) \/ InFifo(m, t) <=> Covers(ReadSoFar, m, t)

\* What was taken lies before what follows, and before the audio that is next.
TakenInOrder ==
    \A p \in Everything :
        /\ \A l \in at..Len(Input) : p.media = Input[l].media => p.pos + p.len <= Input[l].pos
        /\ Decodes("audio") /\ p.media = "audio" => p.pos + p.len <= audioPts

\* The next packet of audio goes on where the fifo ends.
NextAudio ==
    Decodes("audio") => \A l \in at..Len(Input) : Input[l].media = "audio" =>
        /\ audioPts + samples <= Input[l].pos
        /\ (\A j \in at..l - 1 : Input[j].media # "audio") => Input[l].pos = audioPts + samples

\* The decoder of video waits only until it has seen a key packet.
NoneDropped ==
    Decodes("video") /\ broken => \A k \in 1..at - 1 : ~(Input[k].media = "video" /\ Input[k].key)

Balance ==
    /\ Conserved /\ TakenInOrder /\ NextAudio /\ NoneDropped
    /\ resetPts = {} /\ (samples > 0 => Decodes("audio"))

LEMMA BalanceStays ==
    ASSUME Balance, Everything' = Everything, UNCHANGED <<setup, at, broken, samples, audioPts, resetPts>>
    PROVE  Balance'
BY DEF Balance, Conserved, TakenInOrder, NextAudio, NoneDropped, ReadSoFar, InFifo, Input, Decodes, Has

\* What one read adds to what was read.
LEMMA ReadMore ==
    ASSUME TypeInv, at \in 1..Len(Input), at' = at + 1, setup' = setup
    PROVE  /\ Input' = Input /\ ReadSoFar' = ReadSoFar \cup {Input[at]}
           /\ \A k \in 1..at' - 1 : k \in 1..at - 1 \/ k = at
           /\ \A l \in at'..Len(Input) : l \in at..Len(Input) /\ l \in DOMAIN Input /\ at < l
           /\ \A l : \A j \in at..l - 1 : j \in at'..l - 1 \/ j = at
<1>1. at \in Nat \ {0} /\ Len(Input) \in Nat /\ DOMAIN Input = 1..Len(Input) /\ Input' = Input
  BY ReadSegments DEF Input
<1>2. \A k : k \in 1..at' - 1 <=> k \in 1..at - 1 \/ k = at
  BY <1>1
<1>3. \A l \in at'..Len(Input) : l \in at..Len(Input) /\ l \in DOMAIN Input /\ at < l
  BY <1>1
<1>4. \A l : \A j \in at..l - 1 : j \in at'..l - 1 \/ j = at
  BY <1>1
<1>5. ReadSoFar' = ReadSoFar \cup {Input[at]}
  BY <1>1, <1>2 DEF ReadSoFar
<1> QED
  BY <1>1, <1>2, <1>3, <1>4, <1>5

\* The packet that is read follows everything of its stream.
LEMMA NextFollows ==
    ASSUME TypeInv, Balance, at \in 1..Len(Input) PROVE Leads(Everything, {Input[at]})
<1>1. at \in at..Len(Input)
  BY ReadSegments
<1> QED
  BY <1>1 DEF Balance, TakenInOrder, Leads

\* The first conditions on the source, at the packet that is read.
LEMMA SourceAt ==
    ASSUME TypeInv, Plain(setup), at \in 1..Len(Input)
    PROVE  /\ \A l \in DOMAIN Input : at < l /\ Input[l].media = Input[at].media
                => Input[at].pos + Input[at].len <= Input[l].pos
           /\ Decodes("video") /\ Input[at].media = "video" =>
                \E k \in 1..at : Input[k].media = "video" /\ Input[k].key
           /\ Decodes("audio") => Contiguous(Input)
<1>1. at \in DOMAIN Input
  BY ReadSegments
<1> QED
  BY <1>1 DEF Plain, InOrder, KeyFirst, Decodes, Has, Input

\* A packet that is put into the map or copied.
LEMMA BalanceTaken ==
    ASSUME TypeInv, Balance, Plain(setup), at \in 1..Len(Input), at' = at + 1,
           UNCHANGED <<setup, samples, audioPts, resetPts>>,
           Everything' = Everything \cup {Input[at]},
           Input[at].media = "audio" => ~Decodes("audio"),
           ~broken' \/ (broken' = broken /\ (Input[at].media = "video" => ~Decodes("video")))
    PROVE  Balance'
<1> DEFINE p == Input[at]
<1>1. /\ Input' = Input /\ ReadSoFar' = ReadSoFar \cup {p}
      /\ \A k \in 1..at' - 1 : k \in 1..at - 1 \/ k = at
      /\ \A l \in at'..Len(Input) : l \in at..Len(Input) /\ l \in DOMAIN Input /\ at < l
      /\ \A l : \A j \in at..l - 1 : j \in at'..l - 1 \/ j = at
  BY ReadMore
<1>2. \A m : Decodes(m)' = Decodes(m)
  BY DEF Decodes, Has
<1>3. \A l \in DOMAIN Input : at < l /\ Input[l].media = p.media => p.pos + p.len <= Input[l].pos
  BY SourceAt
<1> HIDE DEF p
<1>4. Conserved'
  <2>1. \A m, t : Covers(Everything', m, t) <=> Covers(Everything, m, t) \/ Covers({p}, m, t)
    BY DEF Covers, p
  <2>2. \A m, t : Covers(ReadSoFar', m, t) <=> Covers(ReadSoFar, m, t) \/ Covers({p}, m, t)
    BY <1>1 DEF Covers
  <2>3. \A m, t : InFifo(m, t)' <=> InFifo(m, t)
    BY DEF InFifo
  <2> QED
    BY <2>1, <2>2, <2>3 DEF Balance, Conserved
<1>5. TakenInOrder'
  <2> SUFFICES ASSUME NEW q \in Everything \cup {p}
               PROVE  /\ \A l \in at'..Len(Input) : q.media = Input[l].media => q.pos + q.len <= Input[l].pos
                      /\ Decodes("audio") /\ q.media = "audio" => q.pos + q.len <= audioPts
    BY <1>1, <1>2 DEF TakenInOrder, p
  <2>1. CASE q \in Everything
    BY <1>1, <2>1 DEF Balance, TakenInOrder
  <2>2. CASE q = p
    BY <1>1, <1>3, <2>2 DEF p
  <2> QED
    BY <2>1, <2>2
<1>6. NextAudio'
  <2> SUFFICES ASSUME Decodes("audio"), NEW l \in at'..Len(Input), Input[l].media = "audio"
               PROVE  /\ audioPts + samples <= Input[l].pos
                      /\ (\A j \in at'..l - 1 : Input[j].media # "audio") => Input[l].pos = audioPts + samples
    BY <1>1, <1>2 DEF NextAudio
  <2>1. Input[at].media # "audio"
    BY DEF p
  <2>2. (\A j \in at'..l - 1 : Input[j].media # "audio") => \A j \in at..l - 1 : Input[j].media # "audio"
    BY <1>1, <2>1
  <2> QED
    BY <1>1, <2>2 DEF Balance, NextAudio
<1>7. NoneDropped'
  BY <1>1, <1>2 DEF Balance, NoneDropped, p
<1> QED
  BY <1>2, <1>4, <1>5, <1>6, <1>7 DEF Balance

\* A packet of audio that goes into the fifo.
LEMMA BalanceAudio ==
    ASSUME TypeInv, Balance, Plain(setup), at \in 1..Len(Input), at' = at + 1,
           UNCHANGED <<setup, broken, audioPts, resetPts>>, Everything' = Everything,
           Input[at].media = "audio", Decodes("audio"), samples' = samples + Input[at].len
    PROVE  Balance'
<1> DEFINE p == Input[at]
<1>1. /\ Input' = Input /\ ReadSoFar' = ReadSoFar \cup {p}
      /\ \A k \in 1..at' - 1 : k \in 1..at - 1 \/ k = at
      /\ \A l \in at'..Len(Input) : l \in at..Len(Input) /\ l \in DOMAIN Input /\ at < l
  BY ReadMore
<1>2. \A m : Decodes(m)' = Decodes(m)
  BY DEF Decodes, Has
<1>3. p.pos \in Nat /\ p.len \in Nat /\ samples \in Nat /\ audioPts \in Nat /\ at \in Nat \ {0}
  BY SetupIs, ReadSegments DEF TypeInv, Counters
<1>4. p.pos = audioPts + samples
  <2>1. at \in at..Len(Input) /\ \A j : j \notin at..at - 1
    BY ReadSegments
  <2> QED
    BY <2>1 DEF Balance, NextAudio
<1>5. audioPts + samples' = p.pos + p.len
  <2>1. samples' = samples + p.len
    OBVIOUS
  <2> HIDE DEF p
  <2> QED
    BY <1>3, <1>4, <2>1
<1>6. \A l \in at'..Len(Input) : Input[l].media = "audio" =>
        /\ p.pos + p.len <= Input[l].pos
        /\ (\A j \in at'..l - 1 : Input[j].media # "audio") => p.pos + p.len = Input[l].pos
  <2> SUFFICES ASSUME NEW l \in at'..Len(Input), Input[l].media = "audio"
               PROVE  /\ p.pos + p.len <= Input[l].pos
                      /\ (\A j \in at'..l - 1 : Input[j].media # "audio") => p.pos + p.len = Input[l].pos
    OBVIOUS
  <2>1. l \in DOMAIN Input /\ at < l
    BY <1>1
  <2>2. at \in 1..l - 1
    BY <1>3, <2>1, ReadSegments
  <2> QED
    BY <2>1, <2>2, SourceAt DEF Contiguous
<1>7. NextAudio'
  BY <1>1, <1>2, <1>5, <1>6 DEF NextAudio
<1>8. TakenInOrder'
  BY <1>1, <1>2 DEF Balance, TakenInOrder
<1>9. Conserved'
  <2>1. \A m, t : Covers(ReadSoFar', m, t) <=> Covers(ReadSoFar, m, t) \/ Covers({p}, m, t)
    BY <1>1 DEF Covers
  <2>2. \A m : \A t \in Nat : InFifo(m, t)' <=> InFifo(m, t) \/ Covers({p}, m, t)
    <3>1. \A t \in Nat : audioPts <= t /\ t < audioPts + samples' <=>
             (audioPts <= t /\ t < audioPts + samples) \/ (p.pos <= t /\ t < p.pos + p.len)
      <4> HIDE DEF p
      <4> QED
        BY <1>3, <1>4, <1>5
    <3>2. p.media = "audio"
      OBVIOUS
    <3> HIDE DEF p
    <3> QED
      BY <3>1, <3>2 DEF InFifo, Covers
  <2> QED
    BY <2>1, <2>2 DEF Balance, Conserved
<1>10. NoneDropped'
  BY <1>1, <1>2 DEF Balance, NoneDropped
<1> QED
  BY <1>2, <1>7, <1>8, <1>9, <1>10 DEF Balance

\* A frame that is taken out of the fifo.
LEMMA BalanceCreate ==
    ASSUME TypeInv, Balance, NEW f \in Packet, f.media = "audio", f.pos = audioPts,
           f.len \in Nat \ {0}, f.len <= samples, samples' = samples - f.len, audioPts' = audioPts + f.len,
           UNCHANGED <<setup, at, broken, resetPts>>, Everything' = Everything \cup {f}
    PROVE  Balance'
<1>1. Input' = Input /\ ReadSoFar' = ReadSoFar
  BY DEF Input, ReadSoFar
<1>2. \A m : Decodes(m)' = Decodes(m)
  BY DEF Decodes, Has
<1>3. samples \in Nat /\ audioPts \in Nat /\ samples > 0 /\ audioPts' + samples' = audioPts + samples
      /\ audioPts <= audioPts' /\ audioPts' <= audioPts + samples
  <2> DEFINE n == f.len
  <2>1. samples \in Nat /\ audioPts \in Nat
    BY DEF TypeInv, Counters
  <2>2. n \in Nat \ {0} /\ n <= samples /\ samples' = samples - n /\ audioPts' = audioPts + n
    OBVIOUS
  <2> HIDE DEF n
  <2> QED
    BY <2>1, <2>2
<1>4. Decodes("audio")
  BY <1>3 DEF Balance
<1>5. NextAudio'
  BY <1>1, <1>2, <1>3 DEF Balance, NextAudio
<1>6. TakenInOrder'
  <2> SUFFICES ASSUME NEW q \in Everything \cup {f}
               PROVE  /\ \A l \in at..Len(Input) : q.media = Input[l].media => q.pos + q.len <= Input[l].pos
                      /\ q.media = "audio" => q.pos + q.len <= audioPts'
    BY <1>1, <1>2 DEF TakenInOrder
  <2>1. CASE q \in Everything
    <3>1. q.pos \in Nat /\ q.len \in Nat
      BY <2>1, EverythingIs, PacketIs
    <3>2. q.media = "audio" => q.pos + q.len <= audioPts
      BY <1>4, <2>1 DEF Balance, TakenInOrder
    <3>3. \A l \in at..Len(Input) : q.media = Input[l].media => q.pos + q.len <= Input[l].pos
      BY <2>1 DEF Balance, TakenInOrder
    <3> DEFINE x == q.pos + q.len
    <3>4. x \in Nat /\ (q.media = "audio" => x <= audioPts)
      BY <3>1, <3>2
    <3> HIDE DEF x
    <3>5. q.media = "audio" => x <= audioPts'
      BY <1>3, <3>4
    <3> QED
      BY <3>3, <3>5 DEF x
  <2>2. CASE q = f
    <3>1. \A l \in at..Len(Input) : Input[l].media = "audio" => audioPts + samples <= Input[l].pos
      BY <1>4 DEF Balance, NextAudio
    <3>2. \A l \in at..Len(Input) : Input[l].pos \in Nat
      <4>1. \A l \in at..Len(Input) : l \in 1..Len(Input)
        BY ReadSegments
      <4> QED
        BY <4>1, SetupIs DEF TypeInv, Counters
    <3>3. f.pos + f.len = audioPts' /\ audioPts' \in Nat
      BY <1>3
    <3>4. ASSUME NEW l \in at..Len(Input), Input[l].media = "audio" PROVE audioPts' <= Input[l].pos
      <4> DEFINE x == Input[l].pos
      <4>1. x \in Nat /\ audioPts + samples <= x
        BY <3>1, <3>2, <3>4
      <4> HIDE DEF x
      <4>2. audioPts' <= x
        BY <1>3, <3>3, <4>1
      <4> QED
        BY <4>2 DEF x
    <3> QED
      BY <2>2, <3>3, <3>4
  <2> QED
    BY <2>1, <2>2
<1>7. Conserved'
  <2>1. \A m, t : Covers(Everything', m, t) <=> Covers(Everything, m, t) \/ Covers({f}, m, t)
    BY DEF Covers
  <2>2. \A m : \A t \in Nat : InFifo(m, t) <=> InFifo(m, t)' \/ Covers({f}, m, t)
    <3>1. \A t \in Nat : audioPts <= t /\ t < audioPts + samples <=>
             (audioPts' <= t /\ t < audioPts' + samples') \/ (f.pos <= t /\ t < f.pos + f.len)
      BY <1>3
    <3> QED
      BY <3>1 DEF InFifo, Covers
  <2> QED
    BY <1>1, <2>1, <2>2 DEF Balance, Conserved
<1>8. NoneDropped'
  BY <1>1, <1>2 DEF Balance, NoneDropped
<1> QED
  BY <1>2, <1>4, <1>5, <1>6, <1>7, <1>8 DEF Balance

-----------------------------------------------------------------------------
(* The run that is not disturbed by a seek or by files of an earlier run.   *)

Undisturbed == ~sought /\ DOMAIN setup.cached = {} /\ Plain(setup)

OrderInv == Undisturbed => Chain /\ Balance

LEMMA OrderInit == PipelineInit => OrderInv
<1> SUFFICES ASSUME PipelineInit, Undisturbed PROVE Chain /\ Balance
  BY DEF OrderInv
<1>1. /\ at = 1 /\ resetPts = {} /\ files = [i \in 1..Segments |-> <<>>]
      /\ frames = <<>> /\ samples = 0 /\ audioPts = 0 /\ encoder = [m \in AV |-> <<>>] /\ held = <<>>
  BY DEF PipelineInit, Undisturbed
<1>2. Elems(<<>>) = {} /\ InOrder(<<>>)
  BY ElemsEmpty DEF InOrder
<1>3. Stored = {} /\ Queued = {} /\ Elems(frames) = {} /\ Everything = {}
  BY <1>1, <1>2 DEF Stored, Queued, Everything
<1>4. Chain
  BY <1>1, <1>2, <1>3 DEF Chain, QueuesInOrder, Leads
<1>5. TypeInv
  BY TypeInit
<1>6. \A k \in 1..at - 1 : FALSE
  BY <1>1
<1>7. ReadSoFar = {}
  BY <1>6 DEF ReadSoFar
<1>8. Conserved
  BY <1>1, <1>3, <1>7 DEF Conserved, Covers, InFifo
<1>9. NextAudio
  <2> SUFFICES ASSUME Decodes("audio"), NEW l \in at..Len(Input), Input[l].media = "audio"
               PROVE  /\ audioPts + samples <= Input[l].pos
                      /\ (\A j \in at..l - 1 : Input[j].media # "audio") => Input[l].pos = audioPts + samples
    BY DEF NextAudio
  <2>1. l \in DOMAIN Input /\ Input[l].pos \in Nat
    BY <1>1, <1>5, SetupIs DEF TypeInv, Counters
  <2>2. Contiguous(Input)
    BY DEF Undisturbed, Plain, Decodes, Input
  <2>3. (\A j \in 1..l - 1 : Input[j].media # "audio") => Input[l].pos = 0
    BY <2>1, <2>2 DEF Contiguous
  <2> QED
    BY <1>1, <2>1, <2>3
<1>10. Balance
  BY <1>1, <1>3, <1>6, <1>8, <1>9 DEF Balance, TakenInOrder, NoneDropped
<1> QED
  BY <1>4, <1>10

LEMMA OrderRead ==
    ASSUME TypeInv, Chain, Balance, Plain(setup), Read PROVE Chain' /\ Balance'
<1> DEFINE p == Input[at]
<1>1. /\ at \in 1..Len(Input) /\ at' = at + 1 /\ p \in Packet /\ OfStream(p) /\ ReadPacket(p)
      /\ UNCHANGED <<setup, encoder, segVars, asked, finished>>
  BY ReadIs
<1>2. Leads(Everything, {p})
  BY <1>1, NextFollows
<1>3. resetPts = {} /\ UNCHANGED <<setup, cur, encoder>>
  BY <1>1 DEF Balance, segVars
<1>4. p.media = "video" /\ Decodes("video") => ~broken \/ p.key
  <2> SUFFICES ASSUME p.media = "video", Decodes("video"), broken, ~p.key PROVE FALSE
    OBVIOUS
  <2>1. PICK k \in 1..at : Input[k].media = "video" /\ Input[k].key
    BY <1>1, SourceAt
  <2>2. k \in 1..at - 1
    BY <2>1, ReadSegments
  <2> QED
    BY <2>1, <2>2 DEF Balance, NoneDropped
<1> HIDE DEF p
<1>5. CASE p.media = "audio" /\ Decodes("audio")
  <2>1. /\ UNCHANGED <<held, inhibit, files, broken, frames, audioPts>> /\ resetPts' = resetPts
        /\ samples' = samples + p.len
    BY <1>1, <1>3, <1>5 DEF ReadPacket, ReadAudio
  <2>2. Stored' = Stored /\ Queued' = Queued /\ \A m : Decodes(m)' = Decodes(m)
    BY <1>3, <2>1 DEF Stored, Queued, Decodes, Has
  <2>3. Everything' = Everything
    BY <2>1, <2>2 DEF Everything
  <2>4. Chain'
    BY <1>3, <2>1, <2>2 DEF Chain, QueuesInOrder
  <2>5. Balance'
    BY <1>1, <1>3, <1>5, <2>1, <2>3, BalanceAudio DEF p
  <2> QED
    BY <2>4, <2>5
<1>6. CASE p.media \in AV /\ ~Decodes(p.media)
  <2>1. StorePacket(p) /\ UNCHANGED <<broken, frames, samples, audioPts>> /\ resetPts' = resetPts
    <3>1. CASE p.media = "audio"
      BY <1>1, <1>3, <1>6, <3>1 DEF ReadPacket, ReadAudio
    <3>2. CASE p.media = "video"
      BY <1>1, <1>3, <1>6, <3>2 DEF ReadPacket, ReadVideo
    <3> QED
      BY <1>6, <3>1, <3>2 DEF AV
  <2>2. Chain' /\ Everything' = Everything \cup {p}
    BY <1>1, <1>2, <1>3, <1>6, <2>1, ChainCopy
  <2>3. Balance'
    BY <1>1, <1>3, <1>6, <2>1, <2>2, BalanceTaken DEF p
  <2> QED
    BY <2>2, <2>3
<1>7. CASE p.media = "subtitle" \/ (p.media = "video" /\ Decodes("video"))
  <2>1. /\ frames' = Inserted(p) /\ UNCHANGED <<held, inhibit, files, samples, audioPts>> /\ resetPts' = resetPts
        /\ ~broken' \/ (broken' = broken /\ p.media # "video")
    BY <1>1, <1>3, <1>4, <1>7 DEF ReadPacket, ReadVideo, ReadSubtitle
  <2>2. p.media \in AV => Decodes(p.media)
    BY <1>7 DEF AV
  <2>3. Chain' /\ Everything' = Everything \cup {p}
    BY <1>1, <1>2, <1>3, <2>1, <2>2, ChainInsert
  <2>4. Balance'
    BY <1>1, <1>3, <1>7, <2>1, <2>3, BalanceTaken DEF p
  <2> QED
    BY <2>3, <2>4
<1>8. p.media \in {"audio", "video", "subtitle"}
  BY <1>1, PacketIs DEF Media
<1> QED
  BY <1>5, <1>6, <1>7, <1>8 DEF AV

LEMMA OrderCreate ==
    ASSUME TypeInv, Chain, Balance, CreateAudioFrame PROVE Chain' /\ Balance'
<1> DEFINE f == AudioNow
<1>1. /\ f \in Packet /\ f.media = "audio" /\ f.pos = audioPts /\ f.len = FrameSize
      /\ FrameSize \in Nat \ {0} /\ FrameSize <= samples /\ frames' = Inserted(f)
      /\ samples' = samples - FrameSize /\ audioPts' = audioPts + FrameSize
      /\ UNCHANGED <<setup, pc, at, broken, resetPts, outVars, segVars, asked, finished>>
  BY CreateIs
<1> HIDE DEF f
<1>2. UNCHANGED <<setup, cur, held, encoder, files>>
  BY <1>1 DEF outVars, segVars
<1>3. samples > 0
  <2> HIDE DEF FrameSize
  <2> QED
    BY <1>1 DEF TypeInv, Counters
<1>4. Decodes("audio")
  BY <1>3 DEF Balance
<1>5. Leads(Everything, {f})
  BY <1>1, <1>4 DEF Balance, TakenInOrder, Leads
<1>6. Chain' /\ Everything' = Everything \cup {f}
  BY <1>1, <1>2, <1>4, <1>5, ChainInsert
<1>7. Balance'
  <2> HIDE DEF FrameSize
  <2>1. f.len \in Nat \ {0} /\ f.len <= samples /\ samples' = samples - f.len /\ audioPts' = audioPts + f.len
    BY <1>1
  <2> QED
    BY <1>1, <1>6, <2>1, BalanceCreate
<1> QED
  BY <1>6, <1>7

LEMMA OrderQuiet == ASSUME TypeInv, Chain, Balance, Quiet PROVE Chain' /\ Balance'
<1>1. /\ UNCHANGED <<setup, cur, at, broken, samples, audioPts, resetPts, frames, held, encoder, files>>
  BY DEF Quiet, ReadEnd, StartEncoding, ReachNext, Encoded, NotYet, Finish, Stack,
         inVars, outVars, segVars
<1>2. Stored' = Stored /\ Queued' = Queued /\ \A m : Decodes(m)' = Decodes(m)
  BY <1>1 DEF Stored, Queued, Decodes, Has
<1>3. Everything' = Everything
  BY <1>1, <1>2 DEF Everything
<1>4. Chain'
  BY <1>1, <1>2 DEF Chain, QueuesInOrder
<1> QED
  BY <1>1, <1>3, <1>4, BalanceStays

LEMMA OrderNext == TypeInv /\ OrderInv /\ [PipelineNext]_pipelineVars => OrderInv'
<1> SUFFICES ASSUME TypeInv, OrderInv, [PipelineNext]_pipelineVars, Undisturbed' PROVE (Chain /\ Balance)'
  BY DEF OrderInv
<1>1. setup' = setup
  BY DEF PipelineNext, Work, Read, ReadEnd, CreateAudioFrame, StartEncoding, ReachNext, Encode, Encoded, NotYet,
         Finish, StartNewSegment, Flush, Stack, pipelineVars
<1>2. /\ sought' => sought \/ \E read \in SUBSET ended : StartNewSegment(read)
      /\ sought => sought' \/ \E read \in SUBSET ended : StartNewSegment(read)
  BY DEF PipelineNext, Work, Read, ReadEnd, CreateAudioFrame, StartEncoding, ReachNext, Encode, Encoded, NotYet,
         Finish, Flush, Stack, pipelineVars, segVars
<1>3. Undisturbed
  <2>1. ASSUME NEW read \in SUBSET ended, StartNewSegment(read), sought PROVE FALSE
    <3>1. Advance \/ \E i \in 1..Segments : SeekTo(i)
      BY <2>1, StartIsNext
    <3>2. sought'
      BY <2>1, <3>1 DEF Advance, SeekTo
    <3> QED
      BY <3>2 DEF Undisturbed
  <2> QED
    BY <1>1, <1>2, <2>1 DEF Undisturbed
<1>4. Chain /\ Balance /\ Plain(setup)
  BY <1>3 DEF OrderInv, Undisturbed
<1>5. CASE UNCHANGED pipelineVars
  <2>1. UNCHANGED <<setup, cur, at, broken, samples, audioPts, resetPts, frames, held, encoder, files>>
    BY <1>5 DEF pipelineVars, inVars, outVars, segVars
  <2>2. Stored' = Stored /\ Queued' = Queued /\ \A m : Decodes(m)' = Decodes(m)
    BY <2>1 DEF Stored, Queued, Decodes, Has
  <2>3. Everything' = Everything
    BY <2>1, <2>2 DEF Everything
  <2>4. Chain'
    BY <1>4, <2>1, <2>2 DEF Chain, QueuesInOrder
  <2> QED
    BY <1>4, <2>1, <2>3, <2>4, BalanceStays
<1>6. CASE Read
  BY <1>4, <1>6, OrderRead
<1>7. CASE CreateAudioFrame
  BY <1>4, <1>7, OrderCreate
<1>8. CASE Encode
  <2>1. Chain' /\ Everything' = Everything
    BY <1>4, <1>8, ChainEncode
  <2>2. UNCHANGED <<setup, at, broken, samples, audioPts, resetPts>>
    BY <1>8 DEF Encode, inVars
  <2> QED
    BY <1>4, <2>1, <2>2, BalanceStays
<1>9. ASSUME NEW m \in AV, Flush(m) PROVE (Chain /\ Balance)'
  <2>1. Chain' /\ Everything' = Everything
    BY <1>4, <1>9, ChainFlush
  <2>2. UNCHANGED <<setup, at, broken, samples, audioPts, resetPts>>
    BY <1>9 DEF Flush, inVars
  <2> QED
    BY <1>4, <2>1, <2>2, BalanceStays
<1>10. ASSUME NEW read \in SUBSET ended, StartNewSegment(read) PROVE (Chain /\ Balance)'
  <2>1. cur < Segments /\ (Advance \/ \E i \in 1..Segments : SeekTo(i))
    BY <1>10, StartIsNext
  <2>2. Advance
    BY <2>1 DEF SeekTo, Undisturbed
  <2>3. Chain' /\ Everything' = Everything
    BY <1>1, <1>4, <2>1, <2>2, ChainAdvance
  <2>4. UNCHANGED <<setup, at, broken, samples, audioPts, resetPts>>
    BY <1>1, <2>2 DEF Advance, inVars
  <2> QED
    BY <1>4, <2>3, <2>4, BalanceStays
<1>11. CASE Quiet
  BY <1>4, <1>11, OrderQuiet
<1> QED
  BY <1>5, <1>6, <1>7, <1>8, <1>9, <1>10, <1>11 DEF PipelineNext, Work, Quiet

\* Where the run is says what is still queued.
Drained ==
    /\ finished => pc \notin {"call", "fill"}
    /\ pc \in {"encode", "cut", "flush", "done"} => ~EnoughAudio
    /\ pc \in {"flush", "done"} => frames = <<>> /\ finished
    /\ pc = "done" => \A m \in AV : encoder[m] = <<>>
    /\ finished => at = Len(Input) + 1 \/ sought

LEMMA DrainedInit == PipelineInit => Drained
BY DEF PipelineInit, Drained

LEMMA DrainedNext == TypeInv /\ Drained /\ [PipelineNext]_pipelineVars => Drained'
<1> SUFFICES ASSUME TypeInv, Drained, [PipelineNext]_pipelineVars PROVE Drained'
  OBVIOUS
<1>1. CASE UNCHANGED pipelineVars
  BY <1>1 DEF pipelineVars, inVars, outVars, segVars, Drained, EnoughAudio, Input
<1>2. CASE Read
  <2>1. pc \in {"call", "fill"} /\ pc' \in {"fill", "frames"} /\ finished' = finished
    BY <1>2, ReadIs
  <2> QED
    BY <2>1 DEF Drained
<1>3. CASE ReadEnd
  <2>1. at = Len(Input) + 1
    BY <1>3, ReadSegments DEF ReadEnd, TypeInv, Counters
  <2> QED
    BY <1>3, <2>1 DEF ReadEnd, Drained, inVars, Input
<1>4. CASE CreateAudioFrame
  BY <1>4 DEF CreateAudioFrame, Drained, segVars, Input
<1>5. CASE StartEncoding
  BY <1>5 DEF StartEncoding, MustWait, Drained, EnoughAudio, inVars, outVars, segVars, Input
<1>6. CASE ReachNext \/ Encoded \/ NotYet
  BY <1>6 DEF ReachNext, Encoded, NotYet, AfterCut, Drained, EnoughAudio, inVars, outVars, segVars, Input
<1>7. CASE Finish
  BY <1>7 DEF Finish, Drained, EnoughAudio, inVars, outVars, segVars, Input
<1>8. CASE \E i \in 1..Segments : Stack(i)
  BY <1>8 DEF Stack, Drained, EnoughAudio, inVars, outVars, segVars, Input
<1>9. CASE Encode
  BY <1>9 DEF Encode, Drained, EnoughAudio, inVars, segVars, Input
<1>10. CASE \E m \in AV : Flush(m)
  BY <1>10 DEF Flush, Drained, EnoughAudio, inVars, segVars, Input
<1>11. ASSUME NEW read \in SUBSET ended, StartNewSegment(read) PROVE Drained'
  <2>1. /\ pc = "cut" /\ pc' = AfterCut(frames') /\ UNCHANGED <<setup, asked, finished>>
        /\ Advance \/ \E i \in 1..Segments : SeekTo(i)
    BY <1>11, StartIsNext
  <2>2. pc' \in {"call", "encode", "flush"} /\ (finished => pc' # "call") /\ (pc' = "flush" => frames' = <<>> /\ finished)
    BY <2>1 DEF AfterCut
  <2>3. ~EnoughAudio'
    <3>1. CASE Advance
      BY <2>1, <3>1 DEF Advance, inVars, EnoughAudio, Drained
    <3>2. CASE \E i \in 1..Segments : SeekTo(i)
      BY <3>2, PipelineAssumption DEF SeekTo, EnoughAudio
    <3> QED
      BY <2>1, <3>1, <3>2
  <2>4. finished' => (at = Len(Input) + 1 \/ sought)'
    BY <2>1 DEF Advance, SeekTo, inVars, Drained, Input
  <2> QED
    BY <2>1, <2>2, <2>3, <2>4 DEF Drained
<1> QED
  BY <1>1, <1>2, <1>3, <1>4, <1>5, <1>6, <1>7, <1>8, <1>9, <1>10, <1>11 DEF PipelineNext, Work

LEMMA UnitsIs ==
    ASSUME NEW s \in Seq(Packet), NEW m
    PROVE  \A t : t \in Units(s, m) <=> t \in Nat /\ Covers(Elems(s), m, t)
<1>1. \A k \in DOMAIN s : s[k].pos \in Nat /\ s[k].len \in Nat
  BY PacketsOf
<1>2. \A t : t \in Units(s, m) <=>
         \E k \in DOMAIN s : s[k].media = m /\ t \in s[k].pos .. s[k].pos + s[k].len - 1
  BY DEF Units
<1>3. \A k \in DOMAIN s : \A t :
         t \in s[k].pos .. s[k].pos + s[k].len - 1 <=> t \in Nat /\ s[k].pos <= t /\ t < s[k].pos + s[k].len
  BY <1>1
<1>4. \A t : Covers(Elems(s), m, t) <=>
         \E k \in DOMAIN s : s[k].media = m /\ s[k].pos <= t /\ t < s[k].pos + s[k].len
  BY DEF Covers, Elems
<1> QED
  BY <1>2, <1>3, <1>4

\* At the end of a run that was not disturbed nothing is left in the queues, so
\* that what was read is in the files, or waits for a segment that is not started.
LEMMA WrittenAtEnd ==
    ASSUME TypeInv, Drained, OrderInv, Undisturbed, pc = "done", Elems(held) = {}
    PROVE  /\ \A m \in Media : Units(Input, m) = UNION {Units(files[i], m) : i \in 1..Segments}
           /\ \A i \in 1..Segments : InOrder(files[i])
<1>1. Chain /\ Balance
  BY DEF OrderInv
<1>2. frames = <<>> /\ finished /\ (\A m \in AV : encoder[m] = <<>>) /\ at = Len(Input) + 1 /\ ~(samples > 0)
  BY DEF Drained, EnoughAudio, Undisturbed
<1>3. Elems(<<>>) = {}
  BY ElemsEmpty
<1>4. Everything = Stored
  BY <1>2, <1>3 DEF Everything, Queued
<1>5. /\ Input \in Seq(Packet) /\ files \in [1..Segments -> Seq(Packet)] /\ Len(Input) \in Nat
      /\ DOMAIN Input = 1..Len(Input) /\ samples \in Nat /\ audioPts \in Nat
  BY SetupIs DEF TypeInv, Queues, Counters
<1>6. ReadSoFar = Elems(Input)
  <2>1. at - 1 = Len(Input)
    BY <1>2, <1>5
  <2> QED
    BY <1>5, <2>1 DEF ReadSoFar, Elems
<1>7. ASSUME NEW m \in Media PROVE Units(Input, m) = UNION {Units(files[i], m) : i \in 1..Segments}
  <2>1. \A t \in Nat : ~InFifo(m, t)
    BY <1>2, <1>5 DEF InFifo
  <2>2. \A t \in Nat : Covers(Stored, m, t) <=> Covers(Elems(Input), m, t)
    BY <1>1, <1>4, <1>6, <2>1 DEF Balance, Conserved
  <2>3. \A t : Covers(Stored, m, t) <=> \E i \in 1..Segments : Covers(Elems(files[i]), m, t)
    <3>1. \A p : p \in Stored <=> \E i \in 1..Segments : p \in Elems(files[i])
      BY <1>5, ElemsOf DEF Stored
    <3> QED
      BY <3>1 DEF Covers
  <2>4. \A i \in 1..Segments : \A t : t \in Units(files[i], m) <=> t \in Nat /\ Covers(Elems(files[i]), m, t)
    BY <1>5, UnitsIs
  <2>5. \A t : t \in Units(Input, m) <=> t \in Nat /\ Covers(Elems(Input), m, t)
    BY <1>5, UnitsIs
  <2>6. \A t : t \in Units(Input, m) <=> \E i \in 1..Segments : t \in Units(files[i], m)
    BY <2>2, <2>3, <2>4, <2>5
  <2> QED
    BY <2>6
<1> QED
  BY <1>1, <1>7 DEF Chain, QueuesInOrder

\* For every source whose streams are in order, without gaps in audio that is
\* encoded and with video that begins with a key packet: a run that was not
\* disturbed by a seek has written every unit of every stream at its end, each
\* stream in order and once.  A packet that still waited for the next segment
\* would be lost: there is none if the streams are encoded and go on gradually,
\* or if the run ends in the last segment.
THEOREM RunWritesAll ==
    PipelineSpec => [](Plain(setup) /\ (Regular(setup) \/ cur = Segments) => AllWritten)
<1>1. TypeInv /\ EarlyInv /\ OrderInv /\ Drained =>
        (Plain(setup) /\ (Regular(setup) \/ cur = Segments) => AllWritten)
  <2> SUFFICES ASSUME TypeInv, EarlyInv, OrderInv, Drained, Plain(setup), Regular(setup) \/ cur = Segments,
                      pc = "done", ~sought, DOMAIN setup.cached = {}
               PROVE  /\ \A m \in Media : Units(Input, m) = UNION {Units(files[i], m) : i \in 1..Segments}
                      /\ \A i \in 1..Segments : InOrder(files[i])
    BY DEF AllWritten
  <2>1. Elems(held) = {}
    <3>1. CASE Regular(setup)
      BY <3>1 DEF EarlyInv, EarlyParts
    <3>2. CASE cur = Segments
      <4>1. \A n : ~GotoNext(n)
        BY <3>2, PipelineAssumption DEF GotoNext
      <4> QED
        BY <4>1 DEF TypeInv, Contents
    <3> QED
      BY <3>1, <3>2
  <2> QED
    BY <2>1, WrittenAtEnd DEF Undisturbed
<1>2. PipelineInit => TypeInv /\ EarlyInv /\ OrderInv /\ Drained
  BY TypeInit, EarlyInit, OrderInit, DrainedInit
<1>3. (TypeInv /\ EarlyInv /\ OrderInv /\ Drained) /\ [PipelineNext]_pipelineVars
        => (TypeInv /\ EarlyInv /\ OrderInv /\ Drained)'
  BY TypeNext, EarlyNext, OrderNext, DrainedNext
<1> QED
  BY <1>1, <1>2, <1>3, PTL DEF PipelineSpec
=============================================================================
