---------------------------- MODULE Buffer_proofs ----------------------------
(***************************************************************************)
(* The cache buffer (src/src/buffer.cc).  First the cache files: for any   *)
(* number of segments and readers, any sizes and any order of calls, what  *)
(* was closed holds no padding, and what a reader has mapped stays there.  *)
(* Then the cache of a frame set, which implements the store of frames, for *)
(* every number of frames, every size they are encoded to, again and again, *)
(* and every way the file grows.                                           *)
(***************************************************************************)
EXTENDS Buffer, FrameSet, TLAPS


Full(data, n) == \A k \in 1..n : data[k] = Output

\* What holds of one CACHEINFO.  A file that is open is written without gaps up
\* to its watermark, and has all of its mapping behind it; one that is closed
\* has no position, and holds nothing else than what was written.
Sound(s) ==
    /\ s \in FileRecords
    /\ s.open  => /\ s.pos <= s.mark /\ s.mark <= s.size /\ s.size <= Len(s.data)
                  /\ Full(s.data, s.mark)
    /\ ~s.open => /\ s.pos = 0 /\ s.mark = 0 /\ s.size = 0
                  /\ Full(s.data, Len(s.data))

\* Open for a reader.
Served(s) == s.open /\ "RO" \in s.flags

\* Open for the transcoder.
Held(s) == s.open /\ "RW" \in s.flags

\* A reader who has the file open keeps it, and with it what he can read.
Kept(s, t) == Served(s) => Served(t) /\ t.mark >= s.mark

-----------------------------------------------------------------------------
LEMMA SoundMark == ASSUME NEW s, Sound(s) PROVE s \in FileRecords /\ s.mark \in Nat
BY DEF Sound, FileRecords

LEMMA KeptSame == ASSUME NEW s, Sound(s) PROVE Kept(s, s)
BY SoundMark DEF Kept

LEMMA KeptOn ==
    ASSUME NEW s, NEW t, NEW u, Sound(s), Sound(t), Sound(u), Kept(s, t), Kept(t, u)
    PROVE  Kept(s, u)
<1>1. s.mark \in Nat /\ t.mark \in Nat /\ u.mark \in Nat
  BY SoundMark
<1> QED
  BY <1>1 DEF Kept

\* ftruncate keeps what lies below the new length.
LEMMA CutIs ==
    ASSUME NEW data \in Seq({Padding, Output}), NEW n \in Nat
    PROVE  /\ Cut(data, n) \in Seq({Padding, Output}) /\ Len(Cut(data, n)) = n
           /\ \A k \in 1..n : k <= Len(data) => Cut(data, n)[k] = data[k]
<1>1. \A k \in 1..n : (IF k <= Len(data) THEN data[k] ELSE Padding) \in {Padding, Output}
  OBVIOUS
<1>2. Cut(data, n) \in [1..n -> {Padding, Output}]
  BY <1>1 DEF Cut
<1>3. Cut(data, n) \in Seq({Padding, Output})
  BY <1>2, Z3
<1>4. DOMAIN Cut(data, n) = 1..n
  BY <1>2
<1>5. Len(Cut(data, n)) = n
  BY <1>3, <1>4
<1> QED
  BY <1>3, <1>5 DEF Cut

\* Cutting above a place leaves what is written below it.
LEMMA CutFull ==
    ASSUME NEW data \in Seq({Padding, Output}), NEW n \in Nat, NEW m \in Nat,
           m <= n, m <= Len(data), Full(data, m)
    PROVE  Full(Cut(data, n), m)
<1>1. \A k \in 1..m : k \in 1..n /\ k <= Len(data)
  OBVIOUS
<1> QED
  BY <1>1, CutIs DEF Full

\* A file that was never opened.
LEMMA NoFileSound == Sound(NoFile) /\ ~Served(NoFile)
BY DEF Sound, NoFile, FileRecords, Full, Served, Padding, Output

\* reserve makes room and moves nothing.
LEMMA ReserveSound ==
    ASSUME NEW s, Sound(s), s.open, NEW n \in Nat
    PROVE  /\ Sound(Reserve(s, n)) /\ Kept(s, Reserve(s, n)) /\ Reserve(s, n).open
           /\ Reserve(s, n).size >= n /\ Reserve(s, n).size >= s.size
           /\ Reserve(s, n).pos = s.pos /\ Reserve(s, n).mark = s.mark
           /\ Reserve(s, n).flags = s.flags
<1> USE DEF Sound
<1>0. s \in FileRecords
  OBVIOUS
<1>1. CASE s.size >= n
  BY <1>1, <1>0 DEF Reserve, Kept, FileRecords
<1>2. CASE ~(s.size >= n)
  <2>1. Reserve(s, n) = [s EXCEPT !.size = n, !.data = Cut(s.data, n)]
    BY <1>2, <1>0 DEF Reserve, FileRecords
  <2>2. s.data \in Seq({Padding, Output}) /\ s.mark \in Nat /\ s.size \in Nat /\ s.pos \in Nat
    BY <1>0 DEF FileRecords
  <2>3. s.mark <= n /\ s.mark <= Len(s.data)
    BY <1>2, <2>2
  <2>4. Cut(s.data, n) \in Seq({Padding, Output}) /\ Len(Cut(s.data, n)) = n
    BY <2>2, CutIs
  <2>5. Full(Cut(s.data, n), s.mark)
    BY <2>2, <2>3, CutFull
  <2>6. Reserve(s, n) \in FileRecords
    BY <1>0, <2>1, <2>4 DEF FileRecords
  <2>7. /\ Reserve(s, n).size = n /\ Reserve(s, n).data = Cut(s.data, n)
        /\ Reserve(s, n).open = s.open /\ Reserve(s, n).pos = s.pos
        /\ Reserve(s, n).mark = s.mark /\ Reserve(s, n).flags = s.flags
    BY <1>0, <2>1 DEF FileRecords
  <2> QED
    BY <1>2, <2>2, <2>3, <2>4, <2>5, <2>6, <2>7 DEF Kept, Served
<1> QED
  BY <1>1, <1>2

\* map_file: whatever it finds, the watermark says how much of it is written.
LEMMA MapSound ==
    ASSUME NEW s, Sound(s), ~s.open, NEW flag, NEW default \in Nat, Page \in Nat \ {0}
    PROVE  Sound(Map(s, flag, default)) /\ Map(s, flag, default).open
<1> DEFINE old     == IF flag = "RW" \/ ~s.named THEN <<>> ELSE s.data
           stretch == old = <<>> \/ default > 0
           length  == IF ~stretch THEN Len(old) ELSE IF default = 0 THEN Page ELSE default
           place   == IF stretch THEN 0 ELSE length
           t       == Map(s, flag, default)
<1>0. s \in FileRecords /\ s.pos = 0 /\ s.mark = 0 /\ Full(s.data, Len(s.data))
  BY DEF Sound
<1>1. old \in Seq({Padding, Output}) /\ Full(old, Len(old)) /\ Len(old) \in Nat
  BY <1>0 DEF FileRecords, Full
<1>2. length \in Nat /\ place \in Nat /\ place <= length /\ place <= Len(old)
  BY <1>1
<1>3. Cut(old, length) \in Seq({Padding, Output}) /\ Len(Cut(old, length)) = length
  BY <1>1, <1>2, CutIs
<1>4. Full(Cut(old, length), place)
  <2>1. Full(old, place)
    BY <1>1, <1>2 DEF Full
  <2> HIDE DEF old, length, place
  <2> QED
    BY <1>1, <1>2, <2>1, CutFull
<1>5. t = [s EXCEPT !.open = TRUE, !.named = TRUE, !.size = length, !.data = Cut(old, length),
                    !.pos = place, !.mark = place, !.sum = 0, !.writes = 0]
  BY <1>0 DEF Map, FileRecords
<1> HIDE DEF old, stretch, length, place, t
<1>6. t \in FileRecords
  BY <1>0, <1>2, <1>3, <1>5 DEF FileRecords
<1>7. t.open /\ t.pos = place /\ t.mark = place /\ t.size = length /\ t.data = Cut(old, length)
  BY <1>0, <1>5 DEF FileRecords
<1>8. Sound(t) /\ t.open
  BY <1>2, <1>3, <1>4, <1>6, <1>7 DEF Sound
<1> QED
  BY <1>8 DEF t

\* Noting a flag changes nothing else.
LEMMA FlaggedSound ==
    ASSUME NEW s, Sound(s), NEW flag \in {"RO", "RW"}
    PROVE  /\ Sound(Flagged(s, flag)) /\ Kept(s, Flagged(s, flag))
           /\ Flagged(s, flag).open = s.open /\ Flagged(s, flag).flags = s.flags \cup {flag}
<1>0. s \in FileRecords
  BY DEF Sound
<1>1. Flagged(s, flag) \in FileRecords
  BY <1>0 DEF Flagged, FileRecords
<1> DEFINE t == Flagged(s, flag)
<1>2. /\ t.open = s.open /\ t.flags = s.flags \cup {flag} /\ t.pos = s.pos
      /\ t.mark = s.mark /\ t.size = s.size /\ t.data = s.data
  BY <1>0 DEF Flagged, FileRecords
<1> HIDE DEF t
<1>3. s.mark \in Nat
  BY <1>0 DEF FileRecords
<1>4. t \in FileRecords
  BY <1>1 DEF t
<1>5. Sound(t) /\ Kept(s, t)
  BY <1>2, <1>3, <1>4 DEF Sound, Kept, Served
<1> QED
  BY <1>2, <1>5 DEF t

\* unmap_file cuts what lies behind the watermark.
LEMMA UnmapSound == ASSUME NEW s, Sound(s) PROVE Sound(Unmap(s)) /\ ~Unmap(s).open
<1> DEFINE t == Unmap(s)
           d == IF s.named THEN Cut(s.data, s.mark) ELSE <<>>
<1>0. s \in FileRecords /\ s.mark \in Nat /\ s.data \in Seq({Padding, Output})
  BY DEF Sound, FileRecords
<1>1. d \in Seq({Padding, Output}) /\ Full(d, Len(d))
  <2>1. s.mark <= Len(s.data) /\ Full(s.data, s.mark)
    <3>1. s.size \in Nat /\ Len(s.data) \in Nat
      BY <1>0 DEF FileRecords
    <3>2. CASE s.open
      BY <1>0, <3>1, <3>2 DEF Sound
    <3>3. CASE ~s.open
      BY <1>0, <3>1, <3>3 DEF Sound, Full
    <3> QED
      BY <3>2, <3>3
  <2>2. Full(Cut(s.data, s.mark), s.mark)
    BY <1>0, <2>1, CutFull
  <2>3. Cut(s.data, s.mark) \in Seq({Padding, Output}) /\ Len(Cut(s.data, s.mark)) = s.mark
    BY <1>0, CutIs
  <2> QED
    BY <2>2, <2>3 DEF Full
<1>2. t = [s EXCEPT !.open = FALSE, !.pos = 0, !.mark = 0, !.size = 0,
                    !.named = s.named /\ s.mark > 0, !.data = d]
  BY <1>0 DEF Unmap, FileRecords
<1> HIDE DEF t, d
<1>3. t \in FileRecords
  BY <1>0, <1>1, <1>2 DEF FileRecords
<1>4. ~t.open /\ t.pos = 0 /\ t.mark = 0 /\ t.size = 0 /\ t.data = d
  BY <1>0, <1>2 DEF FileRecords
<1>5. Sound(t) /\ ~t.open
  BY <1>1, <1>3, <1>4 DEF Sound
<1> QED
  BY <1>5 DEF t

\* close_file never takes a file from a reader, unless it is his own flag.
LEMMA CloseSound ==
    ASSUME NEW s, Sound(s), NEW flags \in SUBSET {"RO", "RW"}
    PROVE  /\ Sound(Close(s, flags))
           /\ "RO" \notin flags => Kept(s, Close(s, flags))
           /\ "RO" \in flags => ~Served(Close(s, flags))
           /\ ~s.open => ~Close(s, flags).open
           /\ "RW" \notin flags /\ Held(s) => Held(Close(s, flags))
<1> DEFINE left == [s EXCEPT !.flags = s.flags \ flags]
<1>0. s \in FileRecords
  BY DEF Sound
<1>1. left \in FileRecords /\ left.flags = s.flags \ flags /\ left.open = s.open
      /\ left.mark = s.mark /\ left.pos = s.pos /\ left.size = s.size /\ left.data = s.data
  BY <1>0 DEF FileRecords
<1>2. Sound(left)
  BY <1>1 DEF Sound
<1>3. Close(s, flags) = IF s.flags \ flags # {} \/ ~s.open THEN left ELSE Unmap(left)
  BY <1>0 DEF Close, FileRecords
<1> HIDE DEF left
<1>4. s.mark \in Nat
  BY <1>0 DEF FileRecords
<1> QED
  BY <1>1, <1>2, <1>3, <1>4, UnmapSound DEF Kept, Served, Held

\* A file whose name is removed stays with those who have it open.
LEMMA RemovedSound ==
    ASSUME NEW s, Sound(s)
    PROVE  /\ Sound(Removed(s)) /\ Kept(s, Removed(s)) /\ Removed(s).open = s.open
           /\ Removed(s).flags = s.flags
<1> DEFINE d == IF s.open THEN s.data ELSE <<>>
           t == Removed(s)
<1>0. s \in FileRecords
  BY DEF Sound
<1>1. d \in Seq({Padding, Output})
  BY <1>0 DEF FileRecords
<1>2. t = [s EXCEPT !.named = FALSE, !.data = d]
  BY <1>0 DEF Removed, FileRecords
<1>3. /\ t \in FileRecords /\ t.open = s.open /\ t.flags = s.flags /\ t.mark = s.mark
      /\ t.pos = s.pos /\ t.size = s.size /\ t.data = d
  BY <1>0, <1>1, <1>2 DEF FileRecords
<1>4. Sound(t)
  BY <1>3 DEF Sound, Full
<1>5. s.mark \in Nat
  BY <1>0 DEF FileRecords
<1> QED
  BY <1>3, <1>4, <1>5 DEF Kept, Served

\* reallocate gives what is needed.
LEMMA GrowSound ==
    ASSUME NEW s, Sound(s), s.open, NEW need \in Nat, Factor \in Nat
    PROVE  /\ Sound(Grow(s, need)) /\ Grow(s, need).open
           /\ Grow(s, need).flags = s.flags /\ Grow(s, need).pos = s.pos
           /\ Grow(s, need).mark = s.mark /\ Grow(s, need).size >= need
<1> DEFINE ahead == IF s.writes = 0 THEN 0 ELSE Factor * (s.sum \div s.writes)
           room  == IF ahead > need - s.size THEN s.size + ahead ELSE need
<1>0. s \in FileRecords /\ s.size \in Nat /\ s.sum \in Nat /\ s.writes \in Nat
  BY DEF Sound, FileRecords
<1>1. ahead \in Nat
  <2>1. s.writes # 0 => s.sum \div s.writes \in Nat
    BY <1>0
  <2> DEFINE q == s.sum \div s.writes
  <2>2. q \in Nat => Factor * q \in Nat
    <3> HIDE DEF q
    <3> QED OBVIOUS
  <2> QED
    BY <2>1, <2>2
<1>2. Grow(s, need) = IF need <= s.size THEN s ELSE Reserve(s, room)
  BY DEF Grow
<1> HIDE DEF ahead
<1>3. ~(need <= s.size) => room \in Nat /\ room >= need
  BY <1>0, <1>1
<1> HIDE DEF room
<1>4. CASE need <= s.size
  BY <1>2, <1>4
<1>5. CASE ~(need <= s.size)
  <2>1. Grow(s, need) = Reserve(s, room) /\ room \in Nat /\ room >= need
    BY <1>2, <1>3, <1>5
  <2>2. Sound(Reserve(s, room))
    BY <2>1, ReserveSound
  <2>3. Reserve(s, room).size \in Nat
    BY <2>2 DEF Sound, FileRecords
  <2>4. /\ Reserve(s, room).open /\ Reserve(s, room).flags = s.flags
        /\ Reserve(s, room).pos = s.pos /\ Reserve(s, room).mark = s.mark
        /\ Reserve(s, room).size >= room
    BY <2>1, ReserveSound
  <2> QED
    BY <2>1, <2>2, <2>3, <2>4
<1> QED
  BY <1>4, <1>5

\* A write leaves no gap: it begins at or before the watermark.
LEMMA WrittenSound ==
    ASSUME NEW s, Sound(s), s.open, NEW n \in Nat, Factor \in Nat
    PROVE  /\ Sound(Written(s, n)) /\ Kept(s, Written(s, n))
           /\ Held(s) => Held(Written(s, n))
<1> DEFINE g   == Grow(s, s.pos + n)
           end == s.pos + n
           d   == [k \in DOMAIN g.data |-> IF s.pos < k /\ k <= end THEN Output ELSE g.data[k]]
           m   == IF s.mark < end THEN end ELSE s.mark
           t   == Written(s, n)
<1>0. s \in FileRecords /\ s.pos \in Nat /\ s.mark \in Nat /\ end \in Nat
  BY DEF Sound, FileRecords
<1>1. /\ Sound(g) /\ g.open /\ g.flags = s.flags
      /\ g.pos = s.pos /\ g.mark = s.mark /\ g.size >= end
  BY <1>0, GrowSound
<1>2. /\ g \in FileRecords /\ g.size \in Nat /\ g.data \in Seq({Padding, Output})
      /\ g.sum \in Nat /\ g.writes \in Nat
      /\ g.size <= Len(g.data) /\ Full(g.data, s.mark) /\ s.pos <= s.mark /\ s.mark <= g.size
  BY <1>1 DEF Sound, FileRecords
<1>3. t = [g EXCEPT !.data = d, !.mark = m, !.pos = end, !.sum = g.sum + n,
                    !.writes = g.writes + 1]
  BY <1>1, <1>2 DEF Written, FileRecords
<1>4. d \in Seq({Padding, Output}) /\ Len(d) = Len(g.data)
  <2>1. g.data \in [1..Len(g.data) -> {Padding, Output}] /\ Len(g.data) \in Nat
    BY <1>2
  <2>2. d \in [1..Len(g.data) -> {Padding, Output}]
    BY <2>1
  <2> HIDE DEF d
  <2> QED
    BY <2>1, <2>2, Z3
<1>5. m \in Nat /\ end <= m /\ s.mark <= m /\ m <= g.size
  BY <1>0, <1>1, <1>2
<1>6. Full(d, m)
  <2> SUFFICES ASSUME NEW k \in 1..m PROVE d[k] = Output
    BY DEF Full
  <2>1. Len(g.data) \in Nat /\ DOMAIN g.data = 1..Len(g.data)
    BY <1>2
  <2>2. k \in DOMAIN g.data
    BY <1>2, <1>5, <2>1
  <2>3. k <= s.mark => g.data[k] = Output
    BY <1>2, <1>0 DEF Full
  <2>4. ~(k <= s.mark) => s.pos < k /\ k <= end
    BY <1>0, <1>2
  <2> QED
    BY <2>2, <2>3, <2>4
<1> HIDE DEF g, end, d, m, t
<1>7. t \in FileRecords
  <2>1. g.sum + n \in Nat /\ g.writes + 1 \in Nat
    BY <1>2
  <2> QED
    BY <1>0, <1>2, <1>3, <1>4, <1>5, <2>1 DEF FileRecords
<1>8. /\ t.open = g.open /\ t.flags = g.flags /\ t.size = g.size
      /\ t.pos = end /\ t.mark = m /\ t.data = d
  BY <1>2, <1>3 DEF FileRecords
<1>9. Sound(t) /\ Kept(s, t) /\ (Held(s) => Held(t))
  BY <1>0, <1>1, <1>2, <1>4, <1>5, <1>6, <1>7, <1>8 DEF Sound, Kept, Served, Held
<1> QED
  BY <1>9 DEF t

\* The muxer goes back no further than to a place it has written.
LEMMA SoughtSound ==
    ASSUME NEW s, Sound(s), s.open, NEW offset \in {0, s.mark}
    PROVE  /\ Sound(SoughtIn(s, offset)) /\ Kept(s, SoughtIn(s, offset))
           /\ Held(s) => Held(SoughtIn(s, offset))
<1>0. /\ s \in FileRecords /\ s.mark \in Nat /\ s.size \in Nat
      /\ s.mark <= s.size /\ offset \in Nat /\ offset <= s.mark
  BY DEF Sound, FileRecords
<1>1. SoughtIn(s, offset) = [s EXCEPT !.pos = offset]
  BY <1>0 DEF SoughtIn
<1> DEFINE t == SoughtIn(s, offset)
<1>2. /\ t \in FileRecords /\ t.open = s.open /\ t.flags = s.flags /\ t.pos = offset
      /\ t.mark = s.mark /\ t.size = s.size /\ t.data = s.data
  BY <1>0, <1>1 DEF FileRecords
<1> HIDE DEF t
<1>3. Sound(t) /\ Kept(s, t) /\ (Held(s) => Held(t))
  BY <1>0, <1>2 DEF Sound, Kept, Served, Held
<1> QED
  BY <1>3 DEF t

\* clear empties the file but leaves it open to those who have it open.
LEMMA ClearedSound ==
    ASSUME NEW s, Sound(s), Page \in Nat
    PROVE  Sound(Cleared(s)) /\ Cleared(s).open = s.open
<1> DEFINE b == IF s.open THEN [s EXCEPT !.data = Cut(s.data, Page)] ELSE Removed(s)
           t == Cleared(s)
<1>0. s \in FileRecords /\ s.data \in Seq({Padding, Output})
  BY DEF Sound, FileRecords
<1>1. b \in FileRecords /\ b.open = s.open /\ (~b.open => b.data = <<>>)
  <2>0. s.open \in BOOLEAN
    BY <1>0 DEF FileRecords
  <2>1. CASE s.open
    <3>1. Cut(s.data, Page) \in Seq({Padding, Output})
      BY <1>0, CutIs
    <3>2. b = [s EXCEPT !.data = Cut(s.data, Page)]
      BY <2>1
    <3> HIDE DEF b
    <3> QED
      BY <1>0, <2>1, <3>1, <3>2 DEF FileRecords
  <2>2. CASE ~s.open
    <3>1. Removed(s) = [s EXCEPT !.named = FALSE, !.data = <<>>]
      BY <1>0, <2>2 DEF Removed, FileRecords
    <3>2. b = [s EXCEPT !.named = FALSE, !.data = <<>>]
      BY <2>2, <3>1
    <3>3. <<>> \in Seq({Padding, Output})
      OBVIOUS
    <3> HIDE DEF b
    <3>4. b \in FileRecords
      BY <1>0, <3>2, <3>3 DEF FileRecords
    <3>5. b.open = s.open /\ b.data = <<>>
      BY <1>0, <3>2 DEF FileRecords
    <3> QED
      BY <3>4, <3>5
  <2> HIDE DEF b
  <2> QED
    BY <2>1, <2>2
<1>2. t = [b EXCEPT !.pos = 0, !.mark = 0, !.size = 0, !.sum = 0, !.writes = 0, !.fin = FALSE]
  BY <1>0 DEF Cleared, FileRecords
<1> HIDE DEF b, t
<1>3. /\ t \in FileRecords /\ t.open = s.open /\ t.pos = 0 /\ t.mark = 0 /\ t.size = 0
      /\ t.data = b.data
  BY <1>1, <1>2 DEF FileRecords
<1>4. Len(t.data) \in Nat /\ Full(t.data, 0) /\ (~t.open => t.data = <<>>)
  BY <1>1, <1>3 DEF Full, FileRecords
<1>5. Sound(t) /\ t.open = s.open
  BY <1>3, <1>4 DEF Sound
<1> QED
  BY <1>5 DEF t

\* init resets a file nobody has open.
LEMMA InitialisedSound ==
    ASSUME NEW s, Sound(s), ~s.open, NEW erase \in BOOLEAN
    PROVE  Sound(Initialised(s, erase)) /\ ~Initialised(s, erase).open
<1> DEFINE reset == [s EXCEPT !.pos = 0, !.mark = 0, !.size = 0, !.sum = 0, !.writes = 0]
<1>0. s \in FileRecords
  BY DEF Sound
<1>1. /\ reset \in FileRecords /\ ~reset.open /\ reset.data = s.data
      /\ reset.pos = 0 /\ reset.mark = 0 /\ reset.size = 0
  BY <1>0 DEF FileRecords
<1>2. Sound(reset)
  BY <1>1 DEF Sound
<1>3. Initialised(s, erase) = IF erase THEN Removed(reset) ELSE reset
  BY DEF Initialised
<1> HIDE DEF reset
<1> QED
  BY <1>1, <1>2, <1>3, RemovedSound

-----------------------------------------------------------------------------
(* The whole buffer. *)

\* All files are sound; those that are not part of the entry are never opened,
\* and the one that is written to is not closed by anybody else.
FilesInv ==
    /\ BufferTypeOK
    /\ \A i \in Segments : Sound(seg[i])
    /\ \A i \in Segments \ Files : ~seg[i].open
    /\ cur \in Files /\ \A r \in Readers : rseg[r] \in Files
    /\ wpc = "writing" => Held(seg[cur])

\* open_file, on any buffer of sound files.
LEMMA OpenFileSound ==
    ASSUME NEW s \in [Segments -> FileRecords], \A i \in Segments : Sound(s[i]),
           NEW c \in Segments, NEW i \in Segments, NEW flag \in {"RO", "RW"},
           NEW default \in Nat, Page \in Nat \ {0},
           NEW t, t = OpenFile(s, c, i, flag, default)
    PROVE  /\ t \in [Segments -> FileRecords]
           /\ \A j \in Segments : Sound(t[j]) /\ Kept(s[j], t[j])
           /\ \A j \in Segments : j # i /\ ~s[j].open => ~t[j].open
           /\ \A j \in Segments : Held(s[j]) => Held(t[j])
           /\ t[i].open /\ flag \in t[i].flags
<1> DEFINE noted == [s EXCEPT ![i] = Flagged(s[i], flag)]
<1>1. \A j \in Segments : Sound(s[j]) /\ Kept(s[j], s[j])
  BY KeptSame
<1>2. Sound(Flagged(s[i], flag)) /\ Kept(s[i], Flagged(s[i], flag))
      /\ Flagged(s[i], flag).open = s[i].open
      /\ Flagged(s[i], flag).flags = s[i].flags \cup {flag}
  BY FlaggedSound
<1>3. /\ noted \in [Segments -> FileRecords]
      /\ \A j \in Segments : noted[j] = IF j = i THEN Flagged(s[i], flag) ELSE s[j]
  BY <1>2 DEF Sound
<1>4. /\ \A j \in Segments : Sound(noted[j]) /\ Kept(s[j], noted[j]) /\ noted[j].open = s[j].open
      /\ \A j \in Segments : s[j].flags \subseteq noted[j].flags
      /\ flag \in noted[i].flags
  BY <1>1, <1>2, <1>3
<1>5. CASE ~s[i].open
  <2> DEFINE m == Map(noted[i], flag, default)
  <2>1. t = [noted EXCEPT ![i] = m]
    BY <1>3, <1>5 DEF OpenFile
  <2>2. Sound(m) /\ m.open
    BY <1>4, <1>5, MapSound
  <2>3. Kept(s[i], m)
    BY <1>5 DEF Kept, Served
  <2>7. m.flags = noted[i].flags
    <3>1. noted[i] \in FileRecords
      BY <1>3
    <3> HIDE DEF noted
    <3> QED
      BY <3>1 DEF Map, FileRecords
  <2> HIDE DEF m, noted
  <2>4. m \in FileRecords
    BY <2>2 DEF Sound
  <2>5. \A j \in Segments : t[j] = IF j = i THEN m ELSE noted[j]
    BY <1>3, <2>1
  <2>6. t \in [Segments -> FileRecords]
    BY <1>3, <2>1, <2>4
  <2> QED
    BY <1>4, <1>5, <2>2, <2>3, <2>5, <2>6, <2>7 DEF Held
<1>6. CASE s[i].open /\ default > 0 /\ s[c].open
  <2> DEFINE m == Reserve(noted[c], default)
  <2>1. t = [noted EXCEPT ![c] = m]
    BY <1>3, <1>6 DEF OpenFile
  <2>2. Sound(m) /\ Kept(noted[c], m) /\ m.open /\ m.flags = noted[c].flags
    BY <1>4, <1>6, ReserveSound
  <2> HIDE DEF m, noted
  <2>3. m \in FileRecords /\ noted[c] \in FileRecords /\ s[c] \in FileRecords
    BY <1>4, <2>2 DEF Sound
  <2>4. Kept(s[c], m)
    BY <1>4, <2>2, KeptOn
  <2>5. \A j \in Segments : t[j] = IF j = c THEN m ELSE noted[j]
    BY <1>3, <2>1
  <2>6. t \in [Segments -> FileRecords]
    BY <1>3, <2>1, <2>3
  <2> QED
    BY <1>4, <1>6, <2>2, <2>4, <2>5, <2>6 DEF Held
<1>7. CASE s[i].open /\ ~(default > 0 /\ s[c].open)
  <2>1. t = noted
    BY <1>7 DEF OpenFile
  <2> HIDE DEF noted
  <2> QED
    BY <1>3, <1>4, <1>7, <2>1 DEF Held
<1> QED
  BY <1>5, <1>6, <1>7

\* The types of the parameters.
LEMMA FileAssumptions ==
    /\ Page \in Nat \ {0} /\ Expected \in Nat /\ Factor \in Nat /\ Count \in Nat \ {0}
    /\ MaxRuns \in Nat /\ MaxFaults \in Nat /\ WriteSizes \subseteq Nat
BY BufferAssumption

LEMMA FilesAre == Files \subseteq Segments /\ 1 \in Files /\ 1 \in Segments
BY FileAssumptions DEF Files, Segments

\* set_segment takes no file from a reader.
LEMMA SetSegmentSound ==
    ASSUME FilesInv, NEW i \in Files, NEW t, t = SetSegment(seg, i)
    PROVE  /\ t \in [Segments -> FileRecords]
           /\ \A j \in Segments : Sound(t[j]) /\ Kept(seg[j], t[j])
           /\ \A j \in Segments \ Files : ~t[j].open
           /\ Held(t[i])
<1> DEFINE shut   == [seg EXCEPT ![cur] = Close(seg[cur], {"RW"})]
           opened == OpenFile(shut, cur, i, "RW", Expected)
<1>0. /\ seg \in [Segments -> FileRecords] /\ cur \in Segments /\ i \in Segments
      /\ \A j \in Segments : Sound(seg[j])
  BY FilesAre DEF FilesInv, BufferTypeOK
<1>1. Sound(Close(seg[cur], {"RW"})) /\ Kept(seg[cur], Close(seg[cur], {"RW"}))
      /\ (~seg[cur].open => ~Close(seg[cur], {"RW"}).open)
  BY <1>0, CloseSound
<1>2. /\ shut \in [Segments -> FileRecords]
      /\ \A j \in Segments : shut[j] = IF j = cur THEN Close(seg[cur], {"RW"}) ELSE seg[j]
  BY <1>0, <1>1 DEF Sound
<1>3. \A j \in Segments : Sound(shut[j]) /\ Kept(seg[j], shut[j])
                          /\ (~seg[j].open => ~shut[j].open)
  BY <1>0, <1>1, <1>2, KeptSame
<1> HIDE DEF shut
<1>4. /\ opened \in [Segments -> FileRecords]
      /\ \A j \in Segments : Sound(opened[j]) /\ Kept(shut[j], opened[j])
      /\ \A j \in Segments : j # i /\ ~shut[j].open => ~opened[j].open
      /\ opened[i].open /\ "RW" \in opened[i].flags
  BY <1>0, <1>2, <1>3, OpenFileSound, FileAssumptions
<1>5. t = [opened EXCEPT ![i] = Reserve(opened[i], Expected)]
  BY <1>0, <1>4 DEF SetSegment, shut
<1> HIDE DEF opened
<1>6. /\ Sound(Reserve(opened[i], Expected)) /\ Kept(opened[i], Reserve(opened[i], Expected))
      /\ Reserve(opened[i], Expected).open
      /\ Reserve(opened[i], Expected).flags = opened[i].flags
  BY <1>0, <1>4, ReserveSound, FileAssumptions
<1>7. /\ t \in [Segments -> FileRecords]
      /\ \A j \in Segments : t[j] = IF j = i THEN Reserve(opened[i], Expected) ELSE opened[j]
  BY <1>4, <1>5, <1>6 DEF Sound
<1>8. ASSUME NEW j \in Segments PROVE Sound(t[j]) /\ Kept(seg[j], t[j])
  <2>1. Kept(seg[j], opened[j]) /\ Kept(opened[j], opened[j])
    BY <1>0, <1>3, <1>4, KeptOn, KeptSame
  <2>2. Sound(t[j]) /\ Kept(opened[j], t[j])
    BY <1>4, <1>6, <1>7, <2>1
  <2> QED
    BY <1>0, <1>4, <2>1, <2>2, KeptOn
<1>9. (\A j \in Segments \ Files : ~t[j].open) /\ Held(t[i])
  BY <1>0, <1>3, <1>4, <1>6, <1>7 DEF FilesInv, Held
<1> QED
  BY <1>7, <1>8, <1>9

\* A step leaves every file sound, and opens none that is not of the entry.
FilesStep ==
    /\ seg' \in [Segments -> FileRecords]
    /\ \A j \in Segments : Sound(seg'[j])
    /\ \A j \in Segments \ Files : ~seg'[j].open

\* No file of a reader loses anything, unless it is no longer open for one.
Advance == \A j \in Segments : Kept(seg[j], seg'[j]) \/ ~Served(seg'[j])

\* A step that touches no file.
LEMMA SameFiles == ASSUME FilesInv, UNCHANGED seg PROVE FilesStep /\ Advance
BY KeptSame DEF FilesInv, BufferTypeOK, FilesStep, Advance

\* A step that touches one file.
LEMMA OneFile ==
    ASSUME FilesInv, NEW i \in Files, NEW s, Sound(s), seg' = [seg EXCEPT ![i] = s],
           Kept(seg[i], s) \/ ~Served(s)
    PROVE  FilesStep /\ Advance
<1>1. /\ seg \in [Segments -> FileRecords] /\ i \in Segments
      /\ \A j \in Segments : Sound(seg[j])
      /\ \A j \in Segments \ Files : ~seg[j].open
  BY FilesAre DEF FilesInv, BufferTypeOK
<1>2. /\ seg' \in [Segments -> FileRecords]
      /\ \A j \in Segments : seg'[j] = IF j = i THEN s ELSE seg[j]
  BY <1>1, SoundMark
<1> QED
  BY <1>1, <1>2, KeptSame DEF FilesStep, Advance

\* release leaves no file open for anybody.
LEMMA ReleasedFiles == ASSUME FilesInv, seg' = Release(seg) PROVE FilesStep /\ Advance
<1>1. /\ \A j \in Segments : Sound(seg[j]) /\ Kept(seg[j], seg[j])
      /\ \A j \in Segments \ Files : ~seg[j].open
  BY KeptSame DEF FilesInv
<1>2. \A j \in Segments : /\ Sound(Close(seg[j], {"RO", "RW"}))
                          /\ ~Served(Close(seg[j], {"RO", "RW"}))
  BY <1>1, CloseSound
<1>3. \A j \in Segments :
        seg'[j] = IF j \in Files THEN Close(seg[j], {"RO", "RW"}) ELSE seg[j]
  BY DEF Release
<1>4. \A j \in Segments : Sound(seg'[j]) /\ (Kept(seg[j], seg'[j]) \/ ~Served(seg'[j]))
  BY <1>1, <1>2, <1>3
<1>5. seg' \in [Segments -> FileRecords]
  <2>1. \A j \in Segments : seg'[j] \in FileRecords
    BY <1>4, SoundMark
  <2> QED
    BY <2>1 DEF Release
<1> QED
  BY <1>1, <1>3, <1>4, <1>5 DEF FilesStep, Advance

\* init, by the first user: nobody has a file open.
LEMMA InitialisedFiles == ASSUME FilesInv, InitBuffer PROVE FilesStep /\ Advance
<1>1. CASE IsOpen
  BY <1>1, SameFiles DEF InitBuffer
<1>2. CASE ~IsOpen
  <2>1. \A j \in Segments : Sound(seg[j]) /\ ~seg[j].open
    BY <1>2 DEF FilesInv, IsOpen
  <2>2. (~complete) \in BOOLEAN
    BY DEF FilesInv, BufferTypeOK
  <2>3. seg' = [j \in Segments |-> Initialised(seg[j], ~complete)]
    BY <1>2 DEF InitBuffer
  <2>4. \A j \in Segments : Sound(seg'[j]) /\ ~seg'[j].open
    BY <2>1, <2>2, <2>3, InitialisedSound
  <2>5. seg' \in [Segments -> FileRecords]
    <3>1. \A j \in Segments : seg'[j] \in FileRecords
      BY <2>4, SoundMark
    <3> QED
      BY <2>3, <3>1
  <2> QED
    BY <2>4, <2>5 DEF FilesStep, Advance, Served
<1> QED
  BY <1>1, <1>2

\* clear, by a run that starts over.
LEMMA ClearedFiles ==
    ASSUME FilesInv, seg' = [i \in Segments |-> IF i \in Files THEN Cleared(seg[i]) ELSE seg[i]]
    PROVE  FilesStep
<1>1. /\ \A j \in Segments : Sound(seg[j])
      /\ \A j \in Segments \ Files : ~seg[j].open
  BY DEF FilesInv
<1>2. \A j \in Segments : Sound(Cleared(seg[j]))
  BY <1>1, ClearedSound, FileAssumptions
<1>3. \A j \in Segments : Sound(seg'[j])
  BY <1>1, <1>2
<1>4. \A j \in Segments : seg'[j] \in FileRecords
  BY <1>3, SoundMark
<1> QED
  BY <1>1, <1>3, <1>4 DEF FilesStep

\* The readers of an entry: none of their calls takes anything from another
\* reader, except a call that closes the file for all of them.
LEMMA ReaderFiles ==
    ASSUME FilesInv, NEW r \in Readers,
           \/ Invalidate(r) \/ MapForReading(r) \/ MapFails(r)
           \/ CloseHandle(r) \/ Leave(r)
           \/ \E i \in Segments : OpenHandle(r, i)
    PROVE  FilesStep /\ Advance /\ FilesInv'
<1>0. /\ BufferTypeOK /\ rseg[r] \in Files /\ rseg[r] \in Segments /\ cur \in Segments
      /\ \A j \in Segments : Sound(seg[j])
  BY FilesAre DEF FilesInv, BufferTypeOK
<1>1. CASE Invalidate(r)
  <2>1. FilesStep /\ Advance
    BY <1>0, <1>1, NoFileSound, OneFile DEF Invalidate
  <2> QED
    BY <1>1, <2>1 DEF Invalidate, FilesStep, FilesInv, BufferTypeOK, Files
<1>2. CASE MapForReading(r)
  <2>1. seg' = OpenFile(seg, cur, rseg[r], "RO", 0) /\ 0 \in Nat
    BY <1>2 DEF MapForReading
  <2>2. /\ seg' \in [Segments -> FileRecords]
        /\ \A j \in Segments : Sound(seg'[j]) /\ Kept(seg[j], seg'[j])
        /\ \A j \in Segments : j # rseg[r] /\ ~seg[j].open => ~seg'[j].open
        /\ \A j \in Segments : Held(seg[j]) => Held(seg'[j])
    <3>1. seg \in [Segments -> FileRecords]
      BY <1>0 DEF BufferTypeOK
    <3> QED
      BY <1>0, <2>1, <3>1, OpenFileSound, FileAssumptions
  <2>3. FilesStep /\ Advance
    BY <1>0, <2>2 DEF FilesStep, Advance, FilesInv
  <2> QED
    BY <1>0, <1>2, <2>2, <2>3 DEF MapForReading, FilesStep, FilesInv, BufferTypeOK, Files
<1>3. CASE MapFails(r)
  <2>1. FilesStep /\ Advance
    BY <1>0, <1>3, FlaggedSound, OneFile DEF MapFails, BufferTypeOK
  <2>2. wpc' = "writing" => Held(seg'[cur'])
    BY <1>0, <1>3 DEF MapFails, Held, FilesInv, BufferTypeOK
  <2> QED
    BY <1>3, <2>1, <2>2, FileAssumptions DEF MapFails, FilesStep, FilesInv, BufferTypeOK, Files
<1>4. CASE CloseHandle(r)
  <2>1. FilesStep /\ Advance /\ (wpc' = "writing" => Held(seg'[cur']))
    <3>1. CASE kind = "hls"
      <4> DEFINE i == Slot(rseg[r] - 1)
      <4>1. i \in Files
        BY <1>0, <3>1, FileAssumptions DEF Slot, Files, Segments
      <4>2. seg' = [seg EXCEPT ![i] = Close(seg[i], {"RO"})]
        BY <1>4, <3>1 DEF CloseHandle
      <4> HIDE DEF i
      <4>3. /\ Sound(Close(seg[i], {"RO"})) /\ ~Served(Close(seg[i], {"RO"}))
            /\ Held(seg[i]) => Held(Close(seg[i], {"RO"}))
        BY <1>0, <4>1, FilesAre, CloseSound
      <4>4. FilesStep /\ Advance
        BY <4>1, <4>2, <4>3, OneFile
      <4>5. wpc' = wpc /\ cur' = cur
        BY <1>4 DEF CloseHandle
      <4>6. wpc = "writing" => Held(seg'[cur])
        BY <1>0, <4>1, <4>2, <4>3, FilesAre DEF FilesInv, BufferTypeOK
      <4> QED
        BY <4>4, <4>5, <4>6
    <3>2. CASE kind # "hls"
      BY <1>4, <3>2, SameFiles DEF CloseHandle, FilesInv
    <3> QED
      BY <3>1, <3>2
  <2> QED
    BY <1>4, <2>1 DEF CloseHandle, FilesStep, FilesInv, BufferTypeOK, Files
<1>5. CASE Leave(r)
  <2>1. FilesStep /\ Advance
    BY <1>5, SameFiles, ReleasedFiles DEF Leave, LastCloses
  <2> QED
    BY <1>5, <2>1, FilesAre DEF Leave, FilesStep, FilesInv, BufferTypeOK, Files
<1>6. ASSUME NEW i \in Segments, OpenHandle(r, i) PROVE FilesStep /\ Advance /\ FilesInv'
  <2>1. FilesStep /\ Advance
    BY <1>6, SameFiles, InitialisedFiles DEF OpenHandle
  <2>2. cur' \in Files
    BY <1>6, FilesAre DEF OpenHandle, FilesInv
  <2> QED
    BY <1>6, <2>1, <2>2, FilesAre DEF OpenHandle, FilesStep, FilesInv, BufferTypeOK, Files
<1> QED
  BY <1>1, <1>2, <1>3, <1>4, <1>5, <1>6

\* The transcoder: only the start of a run takes what there was.
LEMMA TranscoderFiles ==
    ASSUME FilesInv,
           \/ StartRun \/ SeekOutput \/ FinishSegment \/ EndRun
           \/ \E n \in WriteSizes : WriteOutput(n)
           \/ \E i \in Segments : \/ OpenOutput(i) \/ OpenOutputFails(i)
                                  \/ NextSegment(i) \/ LoseFile(i)
    PROVE  FilesStep /\ FilesInv' /\ (Advance \/ (wpc = "idle" /\ wpc' = "opening"))
<1>0. /\ BufferTypeOK /\ cur \in Files /\ cur \in Segments /\ Files \subseteq Segments
      /\ seg \in [Segments -> FileRecords]
      /\ \A j \in Segments : Sound(seg[j])
  BY FilesAre DEF FilesInv, BufferTypeOK
<1>1. CASE StartRun
  <2>1. FilesStep
    BY <1>1, SameFiles, ClearedFiles DEF StartRun
  <2> QED
    BY <1>1, <2>1, FileAssumptions DEF StartRun, FilesStep, FilesInv, BufferTypeOK, Files
<1>2. CASE SeekOutput
  <2>1. PICK offset \in {0, seg[cur].mark} : seg' = [seg EXCEPT ![cur] = SoughtIn(seg[cur], offset)]
    BY <1>2 DEF SeekOutput
  <2>2. Held(seg[cur]) /\ wpc = "writing" /\ UNCHANGED <<kind, cur, complete, wpc, run, rpc, rseg, faults>>
    BY <1>2 DEF SeekOutput, FilesInv
  <2>3. /\ Sound(SoughtIn(seg[cur], offset)) /\ Kept(seg[cur], SoughtIn(seg[cur], offset))
        /\ Held(SoughtIn(seg[cur], offset))
    BY <1>0, <2>2, SoughtSound DEF Held
  <2>4. FilesStep /\ Advance /\ Held(seg'[cur])
    BY <1>0, <2>1, <2>3, OneFile
  <2> QED
    BY <2>2, <2>4 DEF FilesStep, FilesInv, BufferTypeOK, Files
<1>3. CASE FinishSegment
  <2> DEFINE s == [seg[cur] EXCEPT !.fin = TRUE]
  <2>1. seg' = [seg EXCEPT ![cur] = s] /\ wpc' = "next" /\ UNCHANGED <<kind, cur, complete, run, rpc, rseg, faults>>
    BY <1>0, <1>3 DEF FinishSegment
  <2>2. Sound(seg[cur]) /\ seg[cur] \in FileRecords /\ seg[cur].mark \in Nat
    BY <1>0, SoundMark
  <2>3. /\ s \in FileRecords /\ s.open = seg[cur].open /\ s.flags = seg[cur].flags
        /\ s.pos = seg[cur].pos /\ s.mark = seg[cur].mark /\ s.size = seg[cur].size
        /\ s.data = seg[cur].data
    BY <2>2 DEF FileRecords
  <2> HIDE DEF s
  <2>4. Sound(s) /\ Kept(seg[cur], s)
    BY <2>2, <2>3 DEF Sound, Kept, Served
  <2>5. FilesStep /\ Advance
    BY <1>0, <2>1, <2>4, OneFile
  <2> QED
    BY <2>1, <2>5 DEF FilesStep, FilesInv, BufferTypeOK, Files
<1>4. CASE EndRun
  <2>1. FilesStep /\ Advance
    BY <1>4, SameFiles, ReleasedFiles DEF EndRun
  <2> QED
    BY <1>4, <2>1 DEF EndRun, FilesStep, FilesInv, BufferTypeOK, Files
<1>5. ASSUME NEW n \in WriteSizes, WriteOutput(n)
      PROVE  FilesStep /\ FilesInv' /\ Advance
  <2>1. /\ seg' = [seg EXCEPT ![cur] = Written(seg[cur], n)] /\ wpc = "writing"
        /\ UNCHANGED <<kind, cur, complete, wpc, run, rpc, rseg, faults>>
    BY <1>5 DEF WriteOutput
  <2>2. n \in Nat /\ Held(seg[cur])
    BY <2>1, FileAssumptions DEF FilesInv
  <2>3. /\ Sound(Written(seg[cur], n)) /\ Kept(seg[cur], Written(seg[cur], n))
        /\ Held(Written(seg[cur], n))
    BY <1>0, <2>2, WrittenSound, FileAssumptions DEF Held
  <2>4. FilesStep /\ Advance /\ Held(seg'[cur])
    BY <1>0, <2>1, <2>3, OneFile
  <2> QED
    BY <2>1, <2>4 DEF FilesStep, FilesInv, BufferTypeOK, Files
<1>6. ASSUME NEW i \in Segments, OpenOutput(i) \/ NextSegment(i)
      PROVE  FilesStep /\ FilesInv' /\ Advance
  <2>1. i \in Files /\ cur' = i /\ UNCHANGED <<kind, complete, run, rpc, rseg, faults>>
        /\ wpc' = "writing"
    BY <1>6 DEF OpenOutput, NextSegment
  <2>2. FilesStep /\ Advance /\ Held(seg'[i])
    <3>1. CASE kind = "hls" \/ NextSegment(i)
      <4>1. seg' = SetSegment(seg, i)
        BY <1>6, <3>1 DEF OpenOutput, NextSegment
      <4> QED
        BY <2>1, <4>1, SetSegmentSound DEF FilesStep, Advance
    <3>2. CASE ~(kind = "hls" \/ NextSegment(i))
      <4>1. seg' = OpenFile(seg, cur, i, "RW", Expected)
        BY <1>6, <2>1, <3>2 DEF OpenOutput, Files
      <4>2. /\ seg' \in [Segments -> FileRecords]
            /\ \A j \in Segments : Sound(seg'[j]) /\ Kept(seg[j], seg'[j])
            /\ \A j \in Segments : j # i /\ ~seg[j].open => ~seg'[j].open
            /\ seg'[i].open /\ "RW" \in seg'[i].flags
        BY <1>0, <4>1, OpenFileSound, FileAssumptions
      <4> QED
        BY <2>1, <4>2 DEF FilesStep, Advance, Held, FilesInv
    <3> QED
      BY <3>1, <3>2
  <2> QED
    BY <2>1, <2>2 DEF FilesStep, FilesInv, BufferTypeOK, Files
<1>7. ASSUME NEW i \in Segments, OpenOutputFails(i)
      PROVE  FilesStep /\ FilesInv' /\ Advance
  <2> DEFINE shut == Close(seg[cur], {"RW"})
             noted == Flagged(seg[i], "RW")
  <2>1. /\ i \in Files /\ i # cur /\ wpc' = "failed" /\ faults' = faults + 1 /\ faults < MaxFaults
        /\ UNCHANGED <<kind, cur, complete, run, rpc, rseg>>
        /\ seg' = [seg EXCEPT ![cur] = shut, ![i] = noted]
    BY <1>0, <1>7 DEF OpenOutputFails
  <2>2. /\ Sound(shut) /\ Kept(seg[cur], shut) /\ (~seg[cur].open => ~shut.open)
        /\ Sound(noted) /\ Kept(seg[i], noted) /\ noted.open = seg[i].open
    BY <1>0, CloseSound, FlaggedSound
  <2> HIDE DEF shut, noted
  <2>3. /\ seg' \in [Segments -> FileRecords]
        /\ \A j \in Segments :
             seg'[j] = IF j = i THEN noted ELSE IF j = cur THEN shut ELSE seg[j]
    BY <1>0, <2>1, <2>2, SoundMark
  <2>4. FilesStep /\ Advance
    BY <1>0, <2>2, <2>3, KeptSame DEF FilesStep, Advance, FilesInv
  <2> QED
    BY <2>1, <2>4, FileAssumptions DEF FilesStep, FilesInv, BufferTypeOK, Files
<1>8. ASSUME NEW i \in Segments, LoseFile(i)
      PROVE  FilesStep /\ FilesInv' /\ Advance
  <2>1. /\ i \in Files /\ faults' = faults + 1 /\ faults < MaxFaults
        /\ UNCHANGED <<kind, cur, complete, wpc, run, rpc, rseg>>
        /\ seg' = [seg EXCEPT ![i] = Removed(seg[i])]
    BY <1>8 DEF LoseFile
  <2>2. /\ Sound(Removed(seg[i])) /\ Kept(seg[i], Removed(seg[i]))
        /\ Held(seg[i]) => Held(Removed(seg[i]))
    BY <1>0, RemovedSound DEF Held
  <2>3. FilesStep /\ Advance
    BY <2>1, <2>2, OneFile
  <2>4. wpc = "writing" => Held(seg'[cur])
    BY <1>0, <2>1, <2>2 DEF FilesInv
  <2> QED
    BY <2>1, <2>3, <2>4, FileAssumptions DEF FilesStep, FilesInv, BufferTypeOK, Files
<1> QED
  BY <1>1, <1>2, <1>3, <1>4, <1>5, <1>6, <1>7, <1>8

LEMMA BufferInitInv == BufferInit => FilesInv
<1> SUFFICES ASSUME BufferInit PROVE FilesInv
  OBVIOUS
<1>1. NoFile \in FileRecords /\ Sound(NoFile) /\ ~NoFile.open
  BY NoFileSound, SoundMark DEF NoFile
<1>2. BufferTypeOK
  <2>1. seg \in [Segments -> FileRecords]
    BY <1>1 DEF BufferInit
  <2>2. rpc \in [Readers -> {"closed", "open", "mapped", "leaving"}]
    BY DEF BufferInit
  <2>3. rseg \in [Readers -> Segments] /\ cur \in Segments
    BY FilesAre DEF BufferInit
  <2>4. run \in 0..MaxRuns /\ faults \in 0..MaxFaults
    BY FileAssumptions DEF BufferInit
  <2>5. /\ kind \in {"file", "hls"} /\ complete \in BOOLEAN
        /\ wpc \in {"idle", "opening", "writing", "next", "failed"}
    BY DEF BufferInit
  <2> QED
    BY <2>1, <2>2, <2>3, <2>4, <2>5 DEF BufferTypeOK
<1>3. \A i \in Segments : Sound(seg[i]) /\ ~seg[i].open
  BY <1>1 DEF BufferInit
<1>4. cur \in Files /\ (\A r \in Readers : rseg[r] \in Files) /\ wpc # "writing"
  BY FilesAre DEF BufferInit
<1> QED
  BY <1>2, <1>3, <1>4 DEF FilesInv

\* Every step keeps the invariant, and only the start of a run takes from a reader.
LEMMA BufferStep ==
    FilesInv /\ [BufferNext]_bufferVars =>
      FilesInv' /\ (Advance \/ (wpc = "idle" /\ wpc' = "opening"))
<1> SUFFICES ASSUME FilesInv, [BufferNext]_bufferVars
             PROVE  FilesInv' /\ (Advance \/ (wpc = "idle" /\ wpc' = "opening"))
  OBVIOUS
<1>1. CASE UNCHANGED bufferVars
  <2>1. Advance
    BY <1>1, SameFiles DEF bufferVars
  <2>2. FilesInv'
    BY <1>1 DEF bufferVars, FilesInv, BufferTypeOK, Files
  <2> QED
    BY <2>1, <2>2
<1>2. ASSUME NEW r \in Readers,
             \/ Invalidate(r) \/ MapForReading(r) \/ MapFails(r)
             \/ CloseHandle(r) \/ Leave(r)
             \/ \E i \in Segments : OpenHandle(r, i)
      PROVE  FilesInv' /\ Advance
  BY <1>2, ReaderFiles
<1> QED
  BY <1>1, <1>2, TranscoderFiles DEF BufferNext

LEMMA FilesInvHolds == BufferSpec => []FilesInv
<1>1. FilesInv /\ [BufferNext]_bufferVars => FilesInv'
  BY BufferStep
<1> QED
  BY BufferInitInv, <1>1, PTL DEF BufferSpec

\* A cache file that was closed, by whomever and whenever, holds nothing but
\* what was written: unmap_file cuts the file at the watermark, which no write
\* ever leaves a gap below.
THEOREM NoPaddingHolds == BufferSpec => []NoPadding
<1>1. FilesInv => NoPadding
  <2> SUFFICES ASSUME FilesInv, NEW i \in Files, ~seg[i].open,
                      NEW k \in DOMAIN seg[i].data
               PROVE  seg[i].data[k] # Padding
    BY DEF NoPadding
  <2>1. Sound(seg[i]) /\ seg[i].data \in Seq({Padding, Output})
    BY FilesAre DEF FilesInv, Sound, FileRecords
  <2>2. Full(seg[i].data, Len(seg[i].data)) /\ k \in 1..Len(seg[i].data)
    BY <2>1 DEF Sound
  <2> QED
    BY <2>2 DEF Full, Padding, Output
<1> QED
  BY FilesInvHolds, <1>1, PTL

\* What a reader has mapped is there as long as he has it mapped, whatever the
\* transcoder and the other readers do to the file, until a new run clears it.
THEOREM AvailableStaysHolds == BufferSpec => AvailableStays
<1> DEFINE Stays ==
      \A i \in Files : Reading(i) /\ Reading(i)' /\ ~(wpc = "idle" /\ wpc' = "opening")
          => /\ seg'[i].mark >= seg[i].mark
             /\ \A k \in 1..seg[i].mark :
                  seg[i].data[k] # Padding =>
                    k <= Len(seg'[i].data) /\ seg'[i].data[k] # Padding
<1>1. FilesInv /\ [BufferNext]_bufferVars => [Stays]_bufferVars
  <2> SUFFICES ASSUME FilesInv, [BufferNext]_bufferVars, NEW i \in Files,
                      Reading(i), Reading(i)', ~(wpc = "idle" /\ wpc' = "opening")
               PROVE  /\ seg'[i].mark >= seg[i].mark
                      /\ \A k \in 1..seg[i].mark :
                           k <= Len(seg'[i].data) /\ seg'[i].data[k] # Padding
    OBVIOUS
  <2>1. FilesInv' /\ Advance /\ i \in Segments
    BY BufferStep, FilesAre
  <2>2. Sound(seg[i]) /\ Sound(seg'[i]) /\ seg'[i].open
    BY <2>1 DEF FilesInv, Reading
  <2>3. seg'[i].mark >= seg[i].mark
    BY <2>1 DEF Advance, Kept, Served, Reading
  <2>4. /\ seg[i].mark \in Nat /\ seg'[i].mark \in Nat /\ seg'[i].size \in Nat
        /\ Len(seg'[i].data) \in Nat
    BY <2>2 DEF Sound, FileRecords
  <2>5. seg'[i].mark <= Len(seg'[i].data) /\ Full(seg'[i].data, seg'[i].mark)
    BY <2>2, <2>4 DEF Sound
  <2> QED
    BY <2>3, <2>4, <2>5 DEF Full, Padding, Output
<1> QED
  BY FilesInvHolds, <1>1, PTL DEF BufferSpec, AvailableStays
-----------------------------------------------------------------------------
(* The frame set. *)

SetInv == FrameTypeOK /\ FramesApart

-----------------------------------------------------------------------------
\* reallocate gives at least what was asked for, and never less than there is.
LEMMA GrownEnough ==
    ASSUME size \in Nat, written \in Nat, writes \in Nat, NEW need \in Nat
    PROVE  Grown(need) \in Nat /\ Grown(need) >= need /\ Grown(need) >= size
<1> DEFINE average == IF writes = 0 THEN 0 ELSE written \div writes
<1>1. average \in Int
  OBVIOUS
<1>2. PreallocFactor * average \in Int
  <2>1. PreallocFactor \in Int BY SizesAssumption
  <2> HIDE DEF average
  <2> QED BY <2>1, <1>1
<1> QED
  BY <1>2 DEF Grown

\* Writing n bytes at a place inside the file keeps the types.
LEMMA WriteAtType ==
    ASSUME FrameTypeOK, NEW start \in Nat, NEW b \in Bytes, NEW n \in Nat,
           start + n \in Nat, WriteAt(start, b, n)
    PROVE  /\ size' \in Nat /\ pos' \in Nat /\ watermark' \in Nat
           /\ written' \in Nat /\ writes' \in Nat
           /\ mem' \in [0 .. size' - 1 -> Bytes \cup {Blank}]
           /\ size' >= start + n /\ size' >= size
<1>1. /\ Grown(start + n) \in Nat /\ Grown(start + n) >= start + n
      /\ Grown(start + n) >= size
  BY GrownEnough DEF FrameTypeOK
<1>2. size' = Grown(start + n)
  BY DEF WriteAt
<1>3. mem' \in [0 .. size' - 1 -> Bytes \cup {Blank}]
  <2>1. ASSUME NEW k \in 0 .. size' - 1, k < size
        PROVE  mem[k] \in Bytes \cup {Blank}
    BY <2>1, <1>1, <1>2 DEF FrameTypeOK
  <2> QED BY <2>1 DEF WriteAt
<1> QED
  BY <1>1, <1>2, <1>3 DEF WriteAt, FrameTypeOK

\* The types of the parameters of a write.
LEMMA WriteParameters ==
    ASSUME SetInv, NEW f \in Frames, NEW n \in Lengths[f]
    PROVE  /\ n \in Nat /\ n > 0
           /\ index[f] # Missing =>
                /\ index[f].offset \in Nat /\ index[f].size \in Nat /\ index[f].size > 0
                /\ index[f].offset + index[f].size <= watermark
                /\ Sought(index[f].offset) = index[f].offset
           /\ Sought(watermark) = watermark
<1>1. n \in Nat /\ n > 0
  BY SizesAssumption
<1>2. ASSUME index[f] # Missing
      PROVE  /\ index[f].offset \in Nat /\ index[f].size \in Nat /\ index[f].size > 0
             /\ index[f].offset + index[f].size <= watermark
  <2>1. index[f] \in Extents
    BY <1>2 DEF SetInv, FrameTypeOK
  <2>2. Placed(f)
    BY DEF SetInv, FramesApart
  <2>3. index[f].size \in Nat /\ index[f].size > 0
    BY <2>2, <1>2, SizesAssumption DEF Placed
  <2> QED
    BY <2>1, <2>2, <2>3, <1>2 DEF Placed, Extents
<1>3. watermark \in Nat /\ size \in Nat /\ watermark <= size
  BY DEF SetInv, FrameTypeOK, FramesApart
<1> QED
  BY <1>1, <1>2, <1>3 DEF Sought

\* What write_frame does, with the two cases told apart: an image that is not
\* smaller than the old one goes over it, any other behind all images.
LEMMA WriteFrameEffect ==
    ASSUME SetInv, NEW f \in Frames, NEW b \in Bytes, NEW n \in Lengths[f],
           WriteFrame(f, b, n)
    PROVE  \E start \in Nat :
             /\ start = IF Reusable(f, n) THEN index[f].offset ELSE watermark
             /\ index' = [index EXCEPT ![f] = [offset |-> start, size |-> n]]
             /\ WriteAt(start, b, n)
<1> DEFINE start == IF Reusable(f, n) THEN index[f].offset ELSE watermark
<1>1. start \in Nat
  BY WriteParameters DEF SetInv, FrameTypeOK, Reusable
<1>3. Sought(IF Reusable(f, n) THEN index[f].offset ELSE watermark) = start
  BY WriteParameters DEF Reusable
<1>4. index' = [index EXCEPT ![f] = [offset |-> start, size |-> n]]
  BY DEF WriteFrame, SetInv, FrameTypeOK
<1> QED
  BY <1>1, <1>3, <1>4 DEF WriteFrame

\* Where no outgrown frame is concerned, a write touches no other frame.
LEMMA WriteApart ==
    ASSUME SetInv, NEW f \in Frames, NEW b \in Bytes, NEW n \in Lengths[f],
           WriteFrame(f, b, n), NEW start \in Nat,
           start = IF Reusable(f, n) THEN index[f].offset ELSE watermark,
           NEW g \in Frames, g # f, index[g] # Missing,
           ~Reusable(f, n) \/ {f, g} \cap outgrown' = {}
    PROVE  start + n <= index[g].offset \/ index[g].offset + index[g].size <= start
<1>1. /\ n \in Nat /\ index[g].offset \in Nat /\ index[g].size \in Nat
      /\ index[g].offset + index[g].size <= watermark
  <2>1. PICK m : m \in Lengths[g]
    BY DEF SetInv, FramesApart, Placed
  <2> QED
    BY <2>1, WriteParameters
<1>2. CASE ~Reusable(f, n)
  BY <1>1, <1>2
<1>3. CASE Reusable(f, n)
  <2>1. index[f] # Missing /\ index[f].size <= n /\ start = index[f].offset
    BY <1>3 DEF Reusable
  <2>2. outgrown' = IF index[f].size < n THEN outgrown \cup {f} ELSE outgrown
    BY <1>3 DEF WriteFrame, Outgrown
  <2>3. ~(index[f].size < n) /\ {f, g} \cap outgrown = {}
    BY <1>3, <2>2
  <2>4. index[f].size = n
    BY <2>1, <2>3, WriteParameters
  <2>5. Apart(f, g)
    BY <2>3 DEF SetInv, FramesApart
  <2> QED
    BY <2>1, <2>4, <2>5 DEF Apart
<1> QED
  BY <1>2, <1>3

-----------------------------------------------------------------------------
(* The invariant. *)

LEMMA FrameInitInv == FrameInit => SetInv
<1> SUFFICES ASSUME FrameInit PROVE SetInv
  OBVIOUS
<1>1. FrameTypeOK
  BY SizesAssumption DEF FrameInit, FrameTypeOK
<1>2. FramesApart
  BY SizesAssumption DEF FrameInit, FramesApart, Placed, Apart
<1> QED
  BY <1>1, <1>2 DEF SetInv

\* Cutting or stretching the file keeps the types.
LEMMA ResizedType ==
    ASSUME NEW old \in Nat, NEW new \in Nat, NEW m,
           \A k \in 0 .. old - 1 : m[k] \in Bytes \cup {Blank}
    PROVE  Resized(m, old, new) \in [0 .. new - 1 -> Bytes \cup {Blank}]
BY DEF Resized

LEMMA FrameStepInv == SetInv /\ [FrameNext]_frameVars => SetInv'
<1> SUFFICES ASSUME SetInv, [FrameNext]_frameVars
             PROVE  SetInv'
  OBVIOUS
<1> USE DEF SetInv
<1>1. CASE OpenForWriting
  <2>1. size' \in Nat /\ size' >= size
    BY <1>1, SizesAssumption DEF OpenForWriting, Reserved, FrameTypeOK
  <2>2. mem' \in [0 .. size' - 1 -> Bytes \cup {Blank}]
    BY <1>1, <2>1, ResizedType DEF OpenForWriting, FrameTypeOK
  <2>3. FrameTypeOK'
    BY <1>1, <2>1, <2>2 DEF OpenForWriting, FrameTypeOK
  <2>4. FramesApart'
    BY <1>1, <2>1 DEF OpenForWriting, FramesApart, Placed, Apart, FrameTypeOK
  <2> QED BY <2>3, <2>4
<1>2. ASSUME NEW f \in Frames, NEW b \in Bytes, NEW n \in Lengths[f],
             WriteFrame(f, b, n)
      PROVE  SetInv'
  <2>1. PICK start \in Nat :
          /\ start = IF Reusable(f, n) THEN index[f].offset ELSE watermark
          /\ index' = [index EXCEPT ![f] = [offset |-> start, size |-> n]]
          /\ WriteAt(start, b, n)
    BY <1>2, WriteFrameEffect
  <2>2. n \in Nat /\ n > 0
    BY WriteParameters
  <2>3. /\ size' \in Nat /\ pos' \in Nat /\ watermark' \in Nat
        /\ written' \in Nat /\ writes' \in Nat
        /\ mem' \in [0 .. size' - 1 -> Bytes \cup {Blank}]
        /\ size' >= start + n /\ size' >= size
    BY <2>1, <2>2, WriteAtType
  <2>4. [offset |-> start, size |-> n] \in Extents
    BY <2>2 DEF Extents
  <2>5. FrameTypeOK'
    <3>1. outgrown' \subseteq Frames
      BY <1>2 DEF WriteFrame, Outgrown, FrameTypeOK
    <3> QED
      BY <2>1, <2>3, <2>4, <3>1 DEF FrameTypeOK
  <2>6. watermark' >= watermark /\ watermark' >= start + n /\ watermark' <= size'
    BY <2>1, <2>2, <2>3 DEF WriteAt, FrameTypeOK, FramesApart
  <2>7. \A g \in Frames : g # f => index'[g] = index[g]
    BY <2>1 DEF FrameTypeOK
  <2>8. index'[f].offset = start /\ index'[f].size = n
    BY <2>1 DEF FrameTypeOK
  <2>9. ASSUME NEW g \in Frames PROVE Placed(g)'
    <3>1. CASE g = f
      BY <2>8, <2>6, <3>1 DEF Placed
    <3>2. CASE g # f
      <4>1. index'[g] = index[g]
        BY <2>7, <3>2
      <4>2. index[g] # Missing => index[g].offset \in Nat /\ index[g].size \in Nat
        BY DEF FrameTypeOK, Extents
      <4>3. Placed(g)
        BY DEF FramesApart
      <4> QED
        BY <2>3, <2>6, <4>1, <4>2, <4>3 DEF Placed, FrameTypeOK
    <3> QED BY <3>1, <3>2
  <2>10. ASSUME NEW g \in Frames, g # f, index[g] # Missing, {f, g} \cap outgrown' = {}
         PROVE  \/ start + n <= index[g].offset
                \/ index[g].offset + index[g].size <= start
    BY <1>2, <2>1, <2>10, WriteApart
  <2>11. ASSUME NEW g \in Frames, NEW h \in Frames, g # h, {g, h} \cap outgrown' = {}
         PROVE  Apart(g, h)'
    <3>1. CASE g = f
      BY <2>7, <2>8, <2>10, <2>11, <3>1 DEF Apart
    <3>2. CASE h = f
      BY <2>7, <2>8, <2>10, <2>11, <3>2 DEF Apart
    <3>3. CASE g # f /\ h # f
      <4>1. {g, h} \cap outgrown = {}
        BY <1>2, <2>11, <3>3 DEF WriteFrame, Outgrown
      <4> QED
        BY <2>7, <2>11, <3>3, <4>1 DEF Apart, FramesApart
    <3> QED BY <3>1, <3>2, <3>3
  <2>12. FramesApart'
    BY <2>6, <2>9, <2>11 DEF FramesApart
  <2> QED BY <2>5, <2>12
<1>3. CASE Clear
  <2>1. mem' \in [0 .. size' - 1 -> Bytes \cup {Blank}]
    BY <1>3, ResizedType DEF Clear, FrameTypeOK
  <2>2. FrameTypeOK'
    BY <1>3, <2>1 DEF Clear, FrameTypeOK
  <2>3. FramesApart'
    BY <1>3 DEF Clear, FramesApart, Placed, Apart
  <2> QED BY <2>2, <2>3
<1>4. CASE Reopen
  <2>1. size' \in Nat /\ size' >= watermark
    BY <1>4, SizesAssumption DEF Reopen, FrameTypeOK
  <2>2. \A k \in 0 .. watermark - 1 : mem[k] \in Bytes \cup {Blank}
    BY DEF FrameTypeOK, FramesApart
  <2>3. mem' \in [0 .. size' - 1 -> Bytes \cup {Blank}]
    BY <1>4, <2>1, <2>2, ResizedType DEF Reopen, FrameTypeOK
  <2>4. FrameTypeOK'
    BY <1>4, <2>1, <2>3 DEF Reopen, FrameTypeOK
  <2>5. FramesApart'
    BY <1>4, <2>1 DEF Reopen, FramesApart, Placed, Apart
  <2> QED BY <2>4, <2>5
<1>5. CASE UNCHANGED frameVars
  BY <1>5 DEF frameVars, FrameTypeOK, FramesApart, Placed, Apart
<1> QED
  BY <1>1, <1>2, <1>3, <1>4, <1>5 DEF FrameNext

\* Every frame has its place in the written part of the file, and two frames
\* share a byte only if one of them grew in its place: for every number of
\* frames, whatever sizes they are encoded to, and in whatever order.
THEOREM FramesStayApart == FrameSpec => [](FrameTypeOK /\ FramesApart)
<1>1. FrameInit => SetInv
  BY FrameInitInv
<1>2. SetInv /\ [FrameNext]_frameVars => SetInv'
  BY FrameStepInv
<1>3. SetInv => FrameTypeOK /\ FramesApart
  BY DEF SetInv
<1> QED
  BY <1>1, <1>2, <1>3, PTL DEF FrameSpec

-----------------------------------------------------------------------------
(* The refinement. *)

\* A frame that lies in the written part is read as it is.
LEMMA ReadPlaced ==
    ASSUME SetInv, NEW f \in Frames, index[f] # Missing
    PROVE  ReadFrame(f) = [k \in 0 .. index[f].size - 1 |-> mem[index[f].offset + k]]
<1>1. index[f].offset \in Nat /\ index[f].size \in Nat
  BY DEF SetInv, FrameTypeOK, Extents
<1>2. index[f].offset + index[f].size <= size /\ size \in Nat
  BY <1>1 DEF SetInv, FrameTypeOK, FramesApart, Placed
<1> QED
  BY <1>1, <1>2 DEF ReadFrame, Copied

\* The same after a step that keeps its record.
LEMMA ReadPlacedAfter ==
    ASSUME SetInv, SetInv', NEW f \in Frames, index'[f] = index[f], index[f] # Missing
    PROVE  ReadFrame(f)' = [k \in 0 .. index[f].size - 1 |-> mem'[index[f].offset + k]]
<1>1. index[f].offset \in Nat /\ index[f].size \in Nat
  BY DEF SetInv, FrameTypeOK, Extents
<1>2. index[f].offset + index[f].size <= size' /\ size' \in Nat
  BY <1>1 DEF SetInv, FrameTypeOK, FramesApart, Placed
<1> QED
  BY <1>1, <1>2 DEF ReadFrame, Copied

\* What is left of the file, a frame is read from as before.
LEMMA ReadKept ==
    ASSUME SetInv, SetInv', NEW f \in Frames, index'[f] = index[f],
           index[f] # Missing =>
             \A k \in 0 .. index[f].size - 1 :
               mem'[index[f].offset + k] = mem[index[f].offset + k]
    PROVE  ReadFrame(f)' = ReadFrame(f)
<1>1. CASE index[f] = Missing
  BY <1>1 DEF ReadFrame
<1>2. CASE index[f] # Missing
  <2>1. ReadFrame(f) = [k \in 0 .. index[f].size - 1 |-> mem[index[f].offset + k]]
    BY <1>2, ReadPlaced
  <2>2. ReadFrame(f)' = [k \in 0 .. index[f].size - 1 |-> mem'[index[f].offset + k]]
    BY <1>2, ReadPlacedAfter
  <2> QED BY <1>2, <2>1, <2>2
<1> QED BY <1>1, <1>2

\* What a write leaves in each byte.
LEMMA WrittenBytes ==
    ASSUME NEW start, NEW b, NEW n, WriteAt(start, b, n)
    PROVE  \A k \in 0 .. size' - 1 :
             mem'[k] = IF start <= k /\ k < start + n THEN b
                       ELSE IF k < size THEN mem[k] ELSE Blank
BY DEF WriteAt

Images == [f \in Frames |-> ReadFrame(f)]

\* What lies in an extent lies in a file that reaches to the end of it.
LEMMA InExtent ==
    ASSUME NEW start \in Nat, NEW n \in Nat, NEW k \in 0 .. n - 1,
           NEW end \in Nat, start + n <= end
    PROVE  start + k \in 0 .. end - 1 /\ start <= start + k /\ start + k < start + n
OBVIOUS

\* A write stores the picture in its frame.  Another frame is left alone, or
\* loses some of its bytes to the picture if one of the two is outgrown.
LEMMA PutStep ==
    ASSUME SetInv, SetInv', NEW f \in Frames, NEW b \in Bytes, NEW n \in Lengths[f],
           WriteFrame(f, b, n)
    PROVE  /\ ReadFrame(f)' = [k \in 0 .. n - 1 |-> b]
           /\ \A g \in Frames \ {f} :
                \/ ReadFrame(g)' = ReadFrame(g)
                \/ /\ Reusable(f, n) /\ {f, g} \cap outgrown' # {} /\ index[g] # Missing
                   /\ index'[g] # Missing /\ Store!Overwritten(ReadFrame(g), ReadFrame(g)', b)
<1>1. PICK start \in Nat :
        /\ start = IF Reusable(f, n) THEN index[f].offset ELSE watermark
        /\ index' = [index EXCEPT ![f] = [offset |-> start, size |-> n]]
        /\ WriteAt(start, b, n)
  BY WriteFrameEffect
<1>2. n \in Nat /\ n > 0
  BY WriteParameters
<1>3. size' \in Nat /\ size' >= start + n /\ size' >= size /\ size \in Nat
  <2>1. FrameTypeOK
    BY DEF SetInv
  <2>2. size' \in Nat /\ size' >= start + n /\ size' >= size
    BY <1>1, <1>2, <2>1, WriteAtType
  <2> QED BY <2>1, <2>2 DEF FrameTypeOK
<1>4. index' \in [Frames -> Extents \cup {Missing}] /\ index'[f] = [offset |-> start, size |-> n]
  BY <1>1 DEF SetInv, FrameTypeOK
<1>5. ReadFrame(f)' = [k \in 0 .. n - 1 |-> b]
  <2>1. index'[f] # Missing
    BY <1>2, <1>4, MissingAssumption DEF Extents
  <2>2. ReadFrame(f)' = [k \in 0 .. n - 1 |-> mem'[start + k]]
    <3>1. index'[f].offset = start /\ index'[f].size = n
      BY <1>4
    <3>2. ~(size' < start + n)
      BY <1>2, <1>3
    <3>3. ReadFrame(f)' = [k \in 0 .. n - 1 |-> IF k < n THEN mem'[start + k] ELSE Blank]
      BY <2>1, <3>1, <3>2 DEF ReadFrame, Copied
    <3> QED BY <1>2, <3>3
  <2>3. start \in Nat
    BY <1>1
  <2>4. \A k \in 0 .. n - 1 : mem'[start + k] = b
    <3>1. \A k \in 0 .. size' - 1 :
            mem'[k] = IF start <= k /\ k < start + n THEN b
                      ELSE IF k < size THEN mem[k] ELSE Blank
      BY <1>1, WrittenBytes
    <3>2. ASSUME NEW k \in 0 .. n - 1
          PROVE  start + k \in 0 .. size' - 1 /\ start <= start + k /\ start + k < start + n
      BY <1>2, <1>3, <2>3, InExtent
    <3> QED BY <3>1, <3>2
  <2> QED BY <2>2, <2>4
<1>6. ASSUME NEW g \in Frames, g # f, index[g] # Missing
      PROVE  \A k \in 0 .. index[g].size - 1 :
               /\ mem'[index[g].offset + k] \in {mem[index[g].offset + k], b}
               /\ ~Reusable(f, n) \/ {f, g} \cap outgrown' = {} =>
                    mem'[index[g].offset + k] = mem[index[g].offset + k]
  <2> SUFFICES ASSUME NEW k \in 0 .. index[g].size - 1
               PROVE  /\ mem'[index[g].offset + k] \in {mem[index[g].offset + k], b}
                      /\ ~Reusable(f, n) \/ {f, g} \cap outgrown' = {} =>
                           mem'[index[g].offset + k] = mem[index[g].offset + k]
    OBVIOUS
  <2>1. index[g].offset \in Nat /\ index[g].size \in Nat
    BY <1>6 DEF SetInv, FrameTypeOK, Extents
  <2>2. index[g].offset + index[g].size <= watermark /\ watermark <= size /\ watermark \in Nat
    BY <1>6 DEF SetInv, FramesApart, Placed, FrameTypeOK
  <2>3. index[g].offset + k \in 0 .. size' - 1 /\ index[g].offset + k < size
    BY <1>3, <2>1, <2>2
  <2>4. mem'[index[g].offset + k] =
          IF start <= index[g].offset + k /\ index[g].offset + k < start + n THEN b
          ELSE mem[index[g].offset + k]
    BY <1>1, <2>3, WrittenBytes
  <2>5. ASSUME ~Reusable(f, n) \/ {f, g} \cap outgrown' = {}
        PROVE  ~(start <= index[g].offset + k /\ index[g].offset + k < start + n)
    <3>1. start + n <= index[g].offset \/ index[g].offset + index[g].size <= start
      BY <1>1, <1>6, <2>5, WriteApart
    <3> QED
      BY <1>2, <2>1, <3>1
  <2> QED
    BY <2>4, <2>5
<1>7. ASSUME NEW g \in Frames \ {f}
      PROVE  \/ ReadFrame(g)' = ReadFrame(g)
             \/ /\ Reusable(f, n) /\ {f, g} \cap outgrown' # {} /\ index[g] # Missing
                /\ index'[g] # Missing /\ Store!Overwritten(ReadFrame(g), ReadFrame(g)', b)
  <2>1. index'[g] = index[g] /\ g # f
    BY <1>1, <1>7 DEF SetInv, FrameTypeOK
  <2>2. CASE index[g] = Missing \/ ~Reusable(f, n) \/ {f, g} \cap outgrown' = {}
    BY <1>6, <2>1, <2>2, ReadKept
  <2>3. CASE index[g] # Missing /\ Reusable(f, n) /\ {f, g} \cap outgrown' # {}
    <3>1. ReadFrame(g) = [k \in 0 .. index[g].size - 1 |-> mem[index[g].offset + k]]
      BY <2>3, ReadPlaced
    <3>2. ReadFrame(g)' = [k \in 0 .. index[g].size - 1 |-> mem'[index[g].offset + k]]
      BY <2>1, <2>3, ReadPlacedAfter
    <3>3. Store!Overwritten(ReadFrame(g), ReadFrame(g)', b)
      BY <1>6, <2>1, <2>3, <3>1, <3>2 DEF Store!Overwritten
    <3> QED
      BY <2>1, <2>3, <3>3
  <2> QED
    BY <2>2, <2>3
<1> QED
  BY <1>5, <1>7

\* A frame that has a record is no missing one.
LEMMA ReadIsThere ==
    ASSUME SetInv, NEW f \in Frames, index[f] # Missing
    PROVE  ReadFrame(f) # Missing
<1>1. /\ index[f].size \in Lengths[f] /\ index[f].size \in Nat
      /\ index[f].offset \in Nat /\ index[f].offset + index[f].size <= size /\ size \in Nat
  BY DEF SetInv, FramesApart, Placed, FrameTypeOK, Extents
<1>2. \A k \in 0 .. index[f].size - 1 : index[f].offset + k \in 0 .. size - 1
  BY <1>1
<1>3. ReadFrame(f) \in [0 .. index[f].size - 1 -> Bytes \cup {Blank}]
  BY <1>2, ReadPlaced DEF SetInv, FrameTypeOK
<1> QED
  BY <1>1, <1>3, MissingAssumption

LEMMA ReadIsThereAfter ==
    ASSUME SetInv, SetInv', NEW f \in Frames, index'[f] = index[f], index[f] # Missing
    PROVE  ReadFrame(f)' # Missing
<1>1. /\ index[f].size \in Lengths[f] /\ index[f].size \in Nat
      /\ index[f].offset \in Nat /\ index[f].offset + index[f].size <= size' /\ size' \in Nat
  BY DEF SetInv, FramesApart, Placed, FrameTypeOK, Extents
<1>2. \A k \in 0 .. index[f].size - 1 : index[f].offset + k \in 0 .. size' - 1
  BY <1>1
<1>3. mem' \in [0 .. size' - 1 -> Bytes \cup {Blank}]
  BY DEF SetInv, FrameTypeOK
<1>4. ReadFrame(f)' = [k \in 0 .. index[f].size - 1 |-> mem'[index[f].offset + k]]
  BY ReadPlacedAfter
<1>5. ReadFrame(f)' \in [0 .. index[f].size - 1 -> Bytes \cup {Blank}]
  BY <1>2, <1>3, <1>4
<1> QED
  BY <1>1, <1>5, MissingAssumption

\* What the store knows of an image tells whether write_frame uses its place
\* again, and whether it grows there.
LEMMA StoreSees ==
    ASSUME SetInv, NEW f \in Frames, NEW n \in Lengths[f]
    PROVE  /\ Store!InPlace(f, n) <=> Reusable(f, n)
           /\ Store!Grows(f, n) <=> Reusable(f, n) /\ index[f].size < n
<1>1. n \in Nat /\ n > 0
  BY SizesAssumption
<1>2. CASE index[f] = Missing
  <2>1. ReadFrame(f) = Missing
    BY <1>2 DEF ReadFrame
  <2> QED
    BY <1>2, <2>1 DEF Store!InPlace, Store!Grows, Reusable
<1>3. CASE index[f] # Missing
  <2>1. /\ index[f].size \in Lengths[f] /\ index[f].size \in Nat /\ index[f].size > 0
        /\ index[f].offset \in Nat /\ index[f].offset + index[f].size <= size /\ size \in Nat
    BY <1>3, WriteParameters DEF SetInv, FramesApart, Placed, FrameTypeOK
  <2>2. ReadFrame(f) = [k \in 0 .. index[f].size - 1 |-> mem[index[f].offset + k]]
    BY <1>3, ReadPlaced
  <2>4. ReadFrame(f) # Missing
    BY <1>3, ReadIsThere
  <2>5. DOMAIN ReadFrame(f) = 0 .. index[f].size - 1
    BY <2>2
  <2>6. DOMAIN ReadFrame(f) \subseteq 0 .. n - 1 <=> index[f].size <= n
    <3>1. index[f].size - 1 \in 0 .. index[f].size - 1
      BY <2>1
    <3> QED
      BY <1>1, <2>1, <2>5, <3>1
  <2>7. DOMAIN ReadFrame(f) = 0 .. n - 1 <=> index[f].size = n
    <3>1. index[f].size - 1 \in 0 .. index[f].size - 1 /\ n - 1 \in 0 .. n - 1
      BY <1>1, <2>1
    <3> QED
      BY <1>1, <2>1, <2>5, <3>1
  <2>8. Store!InPlace(f, n) <=> Reusable(f, n)
    BY <1>3, <2>4, <2>6 DEF Store!InPlace, Reusable
  <2>9. Store!Grows(f, n) <=> Reusable(f, n) /\ index[f].size < n
    BY <1>1, <2>1, <2>7, <2>8 DEF Store!Grows, Reusable
  <2> QED
    BY <2>8, <2>9
<1> QED
  BY <1>2, <1>3

\* Every step of the buffer is a step of the store or changes no image.
LEMMA StoreStep ==
    SetInv /\ SetInv' /\ [FrameNext]_frameVars => [Store!StoreNext]_<<Images, outgrown>>
<1> SUFFICES ASSUME SetInv, SetInv', [FrameNext]_frameVars
             PROVE  Store!StoreNext \/ UNCHANGED <<Images, outgrown>>
  OBVIOUS
<1>1. ASSUME NEW f \in Frames, NEW b \in Bytes, NEW n \in Lengths[f],
             WriteFrame(f, b, n)
      PROVE  Store!StoreNext
  <2>1. ReadFrame(f)' = Store!Picture(b, n)
    BY <1>1, PutStep DEF Store!Picture
  <2>2. outgrown' = (IF Store!Grows(f, n) THEN outgrown \cup {f}
                     ELSE IF Store!InPlace(f, n) THEN outgrown ELSE outgrown \ {f})
    BY <1>1, StoreSees DEF WriteFrame, Outgrown
  <2>3. ASSUME NEW g \in Frames \ {f}
        PROVE  \/ ReadFrame(g)' = ReadFrame(g)
               \/ /\ Store!InPlace(f, n) /\ {f, g} \cap outgrown' # {}
                  /\ ReadFrame(g) # Missing /\ ReadFrame(g)' # Missing
                  /\ Store!Overwritten(ReadFrame(g), ReadFrame(g)', b)
    <3>1. CASE ReadFrame(g)' = ReadFrame(g)
      BY <3>1
    <3>2. CASE ReadFrame(g)' # ReadFrame(g)
      <4>1. /\ Reusable(f, n) /\ {f, g} \cap outgrown' # {} /\ index[g] # Missing
            /\ index'[g] # Missing /\ Store!Overwritten(ReadFrame(g), ReadFrame(g)', b)
        BY <1>1, <3>2, PutStep
      <4>2. ReadFrame(g) # Missing /\ ReadFrame(g)' # Missing
        <5>1. index'[g] = index[g]
          BY <1>1 DEF WriteFrame, SetInv, FrameTypeOK
        <5> QED
          BY <4>1, <5>1, ReadIsThere, ReadIsThereAfter
      <4>3. Store!InPlace(f, n)
        BY <4>1, StoreSees
      <4> QED
        BY <4>1, <4>2, <4>3
    <3> QED
      BY <3>1, <3>2
  <2>4. Store!Put(f, b, n)
    BY <2>1, <2>2, <2>3 DEF Store!Put
  <2> QED
    BY <2>4 DEF Store!StoreNext
<1>2. CASE Clear
  <2>1. \A f \in Frames : ReadFrame(f)' = Missing
    BY <1>2 DEF Clear, ReadFrame
  <2>2. Store!Wipe
    BY <1>2, <2>1 DEF Store!Wipe, Clear
  <2> QED
    BY <2>2 DEF Store!StoreNext
<1>3. CASE OpenForWriting
  <2>1. size \in Nat /\ size' \in Nat /\ size' >= size
    BY <1>3, SizesAssumption DEF OpenForWriting, Reserved, SetInv, FrameTypeOK
  <2>2. ASSUME NEW f \in Frames PROVE ReadFrame(f)' = ReadFrame(f)
    <3>1. ASSUME index[f] # Missing, NEW k \in 0 .. index[f].size - 1
          PROVE  mem'[index[f].offset + k] = mem[index[f].offset + k]
      <4>1. index[f].offset \in Nat /\ index[f].size \in Nat
        BY <3>1 DEF SetInv, FrameTypeOK, Extents
      <4>2. index[f].offset + index[f].size <= size
        BY <3>1, <4>1 DEF SetInv, FrameTypeOK, FramesApart, Placed
      <4> QED
        BY <1>3, <2>1, <4>1, <4>2 DEF OpenForWriting, Resized
    <3>2. index'[f] = index[f]
      BY <1>3 DEF OpenForWriting
    <3> QED BY <3>1, <3>2, ReadKept
  <2> QED BY <1>3, <2>2 DEF Images, OpenForWriting
<1>4. CASE Reopen
  <2>1. watermark \in Nat /\ size' \in Nat /\ size' >= watermark
    BY <1>4, SizesAssumption DEF Reopen, SetInv, FrameTypeOK
  <2>2. ASSUME NEW f \in Frames PROVE ReadFrame(f)' = ReadFrame(f)
    <3>1. ASSUME index[f] # Missing, NEW k \in 0 .. index[f].size - 1
          PROVE  mem'[index[f].offset + k] = mem[index[f].offset + k]
      <4>1. index[f].offset \in Nat /\ index[f].size \in Nat
        BY <3>1 DEF SetInv, FrameTypeOK, Extents
      <4>2. index[f].offset + index[f].size <= watermark
        BY <3>1, <4>1 DEF SetInv, FramesApart, Placed
      <4> QED
        BY <1>4, <2>1, <4>1, <4>2 DEF Reopen, Resized
    <3>2. index'[f] = index[f]
      BY <1>4 DEF Reopen
    <3> QED BY <3>1, <3>2, ReadKept
  <2> QED BY <1>4, <2>2 DEF Images, Reopen
<1>5. CASE UNCHANGED frameVars
  <2>1. ASSUME NEW f \in Frames PROVE ReadFrame(f)' = ReadFrame(f)
    BY <1>5, ReadKept DEF frameVars
  <2> QED BY <1>5, <2>1 DEF Images, frameVars
<1> QED
  BY <1>1, <1>2, <1>3, <1>4, <1>5 DEF FrameNext

\* What was stored last in a frame is what is read from it, except for what an
\* outgrown frame and its neighbours do to each other: the index and the growing
\* file implement the store of frames, for images of any sizes.
THEOREM FramesImplementStore == FrameSpec => ImplementsStore
<1>1. FrameInit => Store!StoreInit
  BY DEF FrameInit, Store!StoreInit, ReadFrame
<1>2. FrameInit => SetInv
  BY FrameInitInv
<1>3. SetInv /\ [FrameNext]_frameVars => SetInv'
  BY FrameStepInv
<1>4. SetInv /\ SetInv' /\ [FrameNext]_frameVars => [Store!StoreNext]_<<Images, outgrown>>
  BY StoreStep
<1> QED
  BY <1>1, <1>2, <1>3, <1>4, PTL DEF FrameSpec, ImplementsStore, Store!StoreSpec, Store!storeVars, Images
=============================================================================
