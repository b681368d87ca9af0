--------------------------- MODULE VcdInput_proofs ---------------------------
(***************************************************************************)
(* The scan of a Video CD, for every disc: the first sync bytes, the binary*)
(* search for a time, and the chapters, which lie side by side on a clean  *)
(* disc and have positions on any.  What loops and searches compute is     *)
(* proved by a least counterexample, in place of induction.                *)
(***************************************************************************)
EXTENDS Source, WellFoundedInduction, SequenceTheorems, FiniteSetTheorems, TLAPS

-----------------------------------------------------------------------------
(* The loops and the search, as functions.                                 *)
LEMMA LeastOf == ASSUME NEW S \in SUBSET Nat, S # {} PROVE \E x \in S : \A y \in S : x <= y
<1>1. PICK x \in S : \A y \in S : ~(<<y, x>> \in OpToRel(<, Nat))
  BY NatLessThanWellFounded, WFMin
<1>2. \A y \in S : ~(y < x)
  BY <1>1 DEF OpToRel
<1> QED
  BY <1>2

\* The functions by which load_file, seek_sync and scan_chapters are given.
Keeps(f, entries, n) ==
    f = [k \in 0..n |-> IF k = 0 THEN [sec |-> Seconds(entries[1]), list |-> <<>>]
                        ELSE KeepNext(f[k - 1], entries[k], k)]

Matches(f, bytes, n) ==
    f = [i \in 0..n |-> IF i = 0 THEN 0 ELSE MatchNext(f[i - 1], bytes[i])]

Scans(f, d, kept, n) ==
    f = [k \in 0..n |-> IF k = 0 THEN [list |-> kept, size |-> 0, sync |-> -1, failed |-> FALSE]
                        ELSE ScanChapter(d, f[k - 1], k)]

\* Each of them exists, however long the list.
LEMMA KeepExists == ASSUME NEW entries, NEW n \in Nat PROVE \E f : Keeps(f, entries, n)
<1> DEFINE Base == [sec |-> Seconds(entries[1]), list |-> <<>>]
           Bad  == {m \in Nat : ~\E f : Keeps(f, entries, m)}
<1>1. SUFFICES ASSUME Bad # {} PROVE FALSE
  OBVIOUS
<1>2. PICK m \in Bad : \A x \in Bad : m <= x
  BY <1>1, LeastOf
<1>3. m \in Nat /\ ~\E f : Keeps(f, entries, m)
  BY <1>2
<1>4. m # 0
  <2>1. Keeps([k \in 0..0 |-> Base], entries, 0)
    BY DEF Keeps
  <2> QED
    BY <1>3, <2>1
<1>5. m - 1 \in Nat /\ m - 1 \notin Bad
  <2> HIDE DEF Bad
  <2> QED
    BY <1>2, <1>3, <1>4
<1>6. PICK f : Keeps(f, entries, m - 1)
  BY <1>5
<1> DEFINE g == [k \in 0..m |-> IF k = m THEN KeepNext(f[m - 1], entries[m], m) ELSE f[k]]
<1>7. ASSUME NEW k \in 0..m PROVE g[k] = IF k = 0 THEN Base ELSE KeepNext(g[k - 1], entries[k], k)
  <2>1. \A l \in 0..m - 1 : f[l] = IF l = 0 THEN Base ELSE KeepNext(f[l - 1], entries[l], l)
    BY <1>6 DEF Keeps
  <2>2. \A l \in 0..m - 1 : g[l] = f[l]
    BY <1>3, <1>4
  <2> HIDE DEF Base
  <2>3. CASE k = m
    <3>1. m - 1 \in 0..m - 1 /\ g[m] = KeepNext(f[m - 1], entries[m], m)
      BY <1>3, <1>5
    <3>2. g[m - 1] = f[m - 1]
      BY <2>2, <3>1
    <3> QED
      BY <1>4, <2>3, <3>1, <3>2
  <2>4. CASE k # m
    <3>1. k \in 0..m - 1 /\ (k # 0 => k - 1 \in 0..m - 1)
      BY <1>3, <2>4
    <3> QED
      BY <2>1, <2>2, <3>1
  <2> QED
    BY <2>3, <2>4
<1>8. Keeps(g, entries, m)
  <2>1. g = [k \in 0..m |-> IF k = 0 THEN Base ELSE KeepNext(g[k - 1], entries[k], k)]
    BY <1>7
  <2> QED
    BY <2>1 DEF Keeps
<1> QED
  BY <1>3, <1>8

LEMMA MatchExists == ASSUME NEW bytes, NEW n \in Nat PROVE \E f : Matches(f, bytes, n)
<1> DEFINE Base == 0
           Bad  == {m \in Nat : ~\E f : Matches(f, bytes, m)}
<1>1. SUFFICES ASSUME Bad # {} PROVE FALSE
  OBVIOUS
<1>2. PICK m \in Bad : \A x \in Bad : m <= x
  BY <1>1, LeastOf
<1>3. m \in Nat /\ ~\E f : Matches(f, bytes, m)
  BY <1>2
<1>4. m # 0
  <2>1. Matches([k \in 0..0 |-> Base], bytes, 0)
    BY DEF Matches
  <2> QED
    BY <1>3, <2>1
<1>5. m - 1 \in Nat /\ m - 1 \notin Bad
  <2> HIDE DEF Bad
  <2> QED
    BY <1>2, <1>3, <1>4
<1>6. PICK f : Matches(f, bytes, m - 1)
  BY <1>5
<1> DEFINE g == [k \in 0..m |-> IF k = m THEN MatchNext(f[m - 1], bytes[m]) ELSE f[k]]
<1>7. ASSUME NEW k \in 0..m PROVE g[k] = IF k = 0 THEN Base ELSE MatchNext(g[k - 1], bytes[k])
  <2>1. \A l \in 0..m - 1 : f[l] = IF l = 0 THEN Base ELSE MatchNext(f[l - 1], bytes[l])
    BY <1>6 DEF Matches
  <2>2. \A l \in 0..m - 1 : g[l] = f[l]
    BY <1>3, <1>4
  <2> HIDE DEF Base
  <2>3. CASE k = m
    <3>1. m - 1 \in 0..m - 1 /\ g[m] = MatchNext(f[m - 1], bytes[m])
      BY <1>3, <1>5
    <3>2. g[m - 1] = f[m - 1]
      BY <2>2, <3>1
    <3> QED
      BY <1>4, <2>3, <3>1, <3>2
  <2>4. CASE k # m
    <3>1. k \in 0..m - 1 /\ (k # 0 => k - 1 \in 0..m - 1)
      BY <1>3, <2>4
    <3> QED
      BY <2>1, <2>2, <3>1
  <2> QED
    BY <2>3, <2>4
<1>8. Matches(g, bytes, m)
  <2>1. g = [k \in 0..m |-> IF k = 0 THEN Base ELSE MatchNext(g[k - 1], bytes[k])]
    BY <1>7
  <2> QED
    BY <2>1 DEF Matches
<1> QED
  BY <1>3, <1>8

LEMMA ScanExists == ASSUME NEW d, NEW kept, NEW n \in Nat PROVE \E f : Scans(f, d, kept, n)
<1> DEFINE Base == [list |-> kept, size |-> 0, sync |-> -1, failed |-> FALSE]
           Bad  == {m \in Nat : ~\E f : Scans(f, d, kept, m)}
<1>1. SUFFICES ASSUME Bad # {} PROVE FALSE
  OBVIOUS
<1>2. PICK m \in Bad : \A x \in Bad : m <= x
  BY <1>1, LeastOf
<1>3. m \in Nat /\ ~\E f : Scans(f, d, kept, m)
  BY <1>2
<1>4. m # 0
  <2>1. Scans([k \in 0..0 |-> Base], d, kept, 0)
    BY DEF Scans
  <2> QED
    BY <1>3, <2>1
<1>5. m - 1 \in Nat /\ m - 1 \notin Bad
  <2> HIDE DEF Bad
  <2> QED
    BY <1>2, <1>3, <1>4
<1>6. PICK f : Scans(f, d, kept, m - 1)
  BY <1>5
<1> DEFINE g == [k \in 0..m |-> IF k = m THEN ScanChapter(d, f[m - 1], m) ELSE f[k]]
<1>7. ASSUME NEW k \in 0..m PROVE g[k] = IF k = 0 THEN Base ELSE ScanChapter(d, g[k - 1], k)
  <2>1. \A l \in 0..m - 1 : f[l] = IF l = 0 THEN Base ELSE ScanChapter(d, f[l - 1], l)
    BY <1>6 DEF Scans
  <2>2. \A l \in 0..m - 1 : g[l] = f[l]
    BY <1>3, <1>4
  <2> HIDE DEF Base
  <2>3. CASE k = m
    <3>1. m - 1 \in 0..m - 1 /\ g[m] = ScanChapter(d, f[m - 1], m)
      BY <1>3, <1>5
    <3>2. g[m - 1] = f[m - 1]
      BY <2>2, <3>1
    <3> QED
      BY <1>4, <2>3, <3>1, <3>2
  <2>4. CASE k # m
    <3>1. k \in 0..m - 1 /\ (k # 0 => k - 1 \in 0..m - 1)
      BY <1>3, <2>4
    <3> QED
      BY <2>1, <2>2, <3>1
  <2> QED
    BY <2>3, <2>4
<1>8. Scans(g, d, kept, m)
  <2>1. g = [k \in 0..m |-> IF k = 0 THEN Base ELSE ScanChapter(d, g[k - 1], k)]
    BY <1>7
  <2> QED
    BY <2>1 DEF Scans
<1> QED
  BY <1>3, <1>8

LEMMA KeptIs ==
    ASSUME NEW entries, Len(entries) \in Nat
    PROVE  \E f : Keeps(f, entries, Len(entries)) /\ Kept(entries) = f[Len(entries)].list
<1>1. \E f : Keeps(f, entries, Len(entries))
  BY KeepExists
<1> QED
  BY <1>1 DEF Kept, Keeps

LEMMA FirstSyncIs ==
    ASSUME NEW t, Len(Beginning(t)) \in Nat
    PROVE  \E f : /\ Matches(f, Beginning(t), Len(Beginning(t)))
                  /\ FirstSync(t) = LET found == {i \in DOMAIN f : f[i] = Len(Sync)} IN
                                    IF found = {} THEN -1 ELSE Min(found) - Len(Sync)
<1>1. \E f : Matches(f, Beginning(t), Len(Beginning(t)))
  BY MatchExists
<1> QED
  BY <1>1 DEF FirstSync, Matches

Scanned(d, f, n) ==
    IF ~f[n].failed /\ Last(d.tracks[Kept(d.entries)[n].track].stamps) >= 0
    THEN [f[n].list EXCEPT ![n].end = f[n].size] ELSE f[n].list

LEMMA ChaptersIs ==
    ASSUME NEW d, Len(Kept(d.entries)) \in Nat
    PROVE  \E f : /\ Scans(f, d, Kept(d.entries), Len(Kept(d.entries)))
                  /\ Chapters(d) = Scanned(d, f, Len(Kept(d.entries)))
<1>1. \E f : Scans(f, d, Kept(d.entries), Len(Kept(d.entries)))
  BY ScanExists
<1> QED
  BY <1>1 DEF Chapters, Scans, Scanned

-----------------------------------------------------------------------------
(* seek_sync.                                                              *)
\* The sync bytes end with the byte e, or cannot begin with the byte s.
EndsSync(b, e) == \A j \in 1..Len(Sync) : b[e - Len(Sync) + j] = Sync[j]
NotFrom(b, s, i) == \E j \in 1..Len(Sync) : s + j - 1 <= i /\ b[s + j - 1] # Sync[j]

\* After i bytes: seek_sync has found the sync bytes, or is at the only place
\* where they may have begun.
MatchInv(b, n, i) ==
    IF n = Len(Sync) THEN \E e \in Len(Sync)..i : EndsSync(b, e)
    ELSE /\ n \in 0..Len(Sync) - 1 /\ n <= i
         /\ \A j \in 1..n : b[i - n + j] = Sync[j]
         /\ \A s \in 1..i - n : NotFrom(b, s, i)

LEMMA MatchStep ==
    ASSUME NEW b, NEW i \in Nat \ {0}, NEW n, MatchInv(b, n, i - 1)
    PROVE  MatchInv(b, MatchNext(n, b[i]), i)
<1> DEFINE L == Len(Sync)
           m == MatchNext(n, b[i])
<1>1. L \in Nat /\ L > 0 /\ \A k \in 2..L - 1 : Sync[k] # Sync[1]
  BY VcdAssumption, LenProperties
<1>2. CASE n = L
  <2>1. m = L
    BY <1>2 DEF MatchNext
  <2>2. PICK e \in L..i - 1 : EndsSync(b, e)
    BY <1>2 DEF MatchInv
  <2>3. e \in L..i
    BY <1>1, <2>2
  <2> QED
    BY <2>1, <2>2, <2>3 DEF MatchInv
<1>3. CASE n # L
  <2>1. /\ n \in 0..L - 1 /\ n <= i - 1
        /\ \A j \in 1..n : b[i - 1 - n + j] = Sync[j]
        /\ \A s \in 1..i - 1 - n : NotFrom(b, s, i - 1)
    BY <1>3 DEF MatchInv
  <2>2. m = IF b[i] = Sync[n + 1] THEN n + 1 ELSE IF b[i] = Sync[1] THEN 1 ELSE 0
    BY <1>3 DEF MatchNext
  <2> HIDE DEF m
  <2>3. \A s \in 1..i - 1 - n : NotFrom(b, s, i)
    <3> SUFFICES ASSUME NEW s \in 1..i - 1 - n PROVE NotFrom(b, s, i)
      OBVIOUS
    <3>1. PICK j \in 1..L : s + j - 1 <= i - 1 /\ b[s + j - 1] # Sync[j]
      BY <2>1 DEF NotFrom
    <3>2. s + j - 1 <= i
      BY <1>1, <2>1, <3>1
    <3> QED
      BY <3>1, <3>2 DEF NotFrom
  <2>4. CASE b[i] = Sync[n + 1]
    <3>1. m = n + 1 /\ i - m = i - 1 - n
      BY <2>1, <2>2, <2>4
    <3>2. ASSUME NEW j \in 1..m PROVE b[i - m + j] = Sync[j]
      <4>1. CASE j = n + 1
        <5>1. i - m + j = i
          BY <2>1, <3>1, <4>1
        <5> QED
          BY <2>4, <4>1, <5>1
      <4>2. CASE j # n + 1
        <5>1. j \in 1..n /\ i - m + j = i - 1 - n + j
          BY <2>1, <3>1, <4>2
        <5> QED
          BY <2>1, <5>1
      <4> QED
        BY <4>1, <4>2
    <3>3. CASE m = L
      <4>1. i \in L..i
        BY <1>1, <2>1, <3>1, <3>3
      <4>2. EndsSync(b, i)
        BY <3>2, <3>3 DEF EndsSync
      <4> QED
        BY <3>3, <4>1, <4>2 DEF MatchInv, m
    <3>4. CASE m # L
      <4>1. m \in 0..L - 1 /\ m <= i
        BY <1>1, <2>1, <3>1, <3>4
      <4> QED
        BY <2>3, <3>1, <3>2, <3>4, <4>1 DEF MatchInv, m
    <3> QED
      BY <3>3, <3>4
  <2>5. CASE b[i] # Sync[n + 1]
    <3>1. NotFrom(b, i - n, i)
      <4>1. n + 1 \in 1..L /\ (i - n) + (n + 1) - 1 = i
        BY <1>1, <2>1
      <4> QED
        BY <2>5, <4>1 DEF NotFrom
    <3>2. \A s \in i - n + 1..i - 1 : NotFrom(b, s, i)
      <4> SUFFICES ASSUME NEW s \in i - n + 1..i - 1 PROVE NotFrom(b, s, i)
        OBVIOUS
      <4> DEFINE j == s - (i - 1 - n)
      <4>1. j \in 2..n /\ i - 1 - n + j = s /\ 1 \in 1..L /\ s + 1 - 1 = s /\ s <= i
        BY <1>1, <2>1
      <4>2. j \in 1..n /\ j \in 2..L - 1
        BY <1>1, <2>1, <4>1
      <4>3. b[s] = Sync[j] /\ Sync[j] # Sync[1]
        BY <1>1, <2>1, <4>1, <4>2
      <4> QED
        BY <4>1, <4>3 DEF NotFrom
    <3>3. \A s \in 1..i - 1 : NotFrom(b, s, i)
      <4> SUFFICES ASSUME NEW s \in 1..i - 1 PROVE NotFrom(b, s, i)
        OBVIOUS
      <4>1. s \in 1..i - 1 - n \/ s = i - n \/ s \in i - n + 1..i - 1
        BY <2>1
      <4> QED
        BY <2>3, <3>1, <3>2, <4>1
    <3>4. CASE b[i] = Sync[1]
      <4>1. n # 0 /\ m = 1
        BY <2>1, <2>2, <2>5, <3>4
      <4>2. m \in 0..L - 1 /\ m # L /\ m <= i /\ \A j \in 1..m : b[i - m + j] = Sync[j]
        BY <1>1, <2>1, <3>4, <4>1
      <4>3. 1..i - m = 1..i - 1
        BY <4>1
      <4> QED
        BY <3>3, <4>2, <4>3 DEF MatchInv, m
    <3>5. CASE b[i] # Sync[1]
      <4>1. m = 0 /\ m # L
        BY <1>1, <2>2, <2>5, <3>5
      <4>2. NotFrom(b, i, i)
        <5>1. 1 \in 1..L /\ i + 1 - 1 = i /\ i <= i
          BY <1>1
        <5> QED
          BY <3>5, <5>1 DEF NotFrom
      <4>3. \A s \in 1..i - m : NotFrom(b, s, i)
        BY <3>3, <4>1, <4>2
      <4>4. m \in 0..L - 1 /\ m <= i /\ \A j \in 1..m : b[i - m + j] = Sync[j]
        BY <1>1, <4>1
      <4> QED
        BY <4>1, <4>3, <4>4 DEF MatchInv, m
    <3> QED
      BY <3>4, <3>5
  <2> QED
    BY <2>4, <2>5
<1> QED
  BY <1>2, <1>3

LEMMA MatchAlways ==
    ASSUME NEW b, NEW N \in Nat, NEW f, Matches(f, b, N)
    PROVE  \A i \in 0..N : MatchInv(b, f[i], i)
<1> DEFINE Bad == {i \in 0..N : ~MatchInv(b, f[i], i)}
<1>1. SUFFICES ASSUME Bad # {} PROVE FALSE
  OBVIOUS
<1> HIDE DEF Bad
<1>2. Bad \in SUBSET Nat
  BY DEF Bad
<1>3. PICK m \in Bad : \A x \in Bad : m <= x
  BY <1>1, <1>2, LeastOf
<1> USE DEF Bad
<1>4. m \in 0..N /\ ~MatchInv(b, f[m], m)
  BY <1>3
<1>5. f[m] = IF m = 0 THEN 0 ELSE MatchNext(f[m - 1], b[m])
  BY <1>4 DEF Matches
<1>6. CASE m = 0
  <2>1. Len(Sync) \in Nat /\ Len(Sync) > 0
    BY VcdAssumption, LenProperties
  <2> QED
    BY <1>4, <1>5, <1>6, <2>1 DEF MatchInv
<1>7. CASE m # 0
  <2>1. m - 1 \in 0..N /\ m \in Nat \ {0} /\ m - 1 < m
    BY <1>4, <1>7
  <2>2. m - 1 \notin Bad
    <3> HIDE DEF Bad
    <3> QED
      BY <1>3, <1>4, <2>1
  <2>3. MatchInv(b, f[m - 1], m - 1)
    BY <2>1, <2>2
  <2> QED
    BY <1>4, <1>5, <1>7, <2>1, <2>3, MatchStep
<1> QED
  BY <1>6, <1>7

LEMMA MatchedIs ==
    ASSUME NEW b, NEW n, NEW i \in Nat, MatchInv(b, n, i)
    PROVE  n = Len(Sync) <=> \E e \in Len(Sync)..i : EndsSync(b, e)
<1> DEFINE L == Len(Sync)
<1>1. L \in Nat /\ L > 0
  BY VcdAssumption, LenProperties
<1>2. ASSUME n # L, NEW e \in L..i, EndsSync(b, e) PROVE FALSE
  <2>1. n \in 0..L - 1 /\ n <= i /\ \A s \in 1..i - n : NotFrom(b, s, i)
    BY <1>2 DEF MatchInv
  <2> DEFINE s == e - L + 1
  <2>2. s \in 1..i - n
    BY <1>1, <1>2, <2>1
  <2>3. PICK j \in 1..L : b[s + j - 1] # Sync[j]
    BY <2>1, <2>2 DEF NotFrom
  <2>4. s + j - 1 = e - L + j
    BY <1>1, <1>2, <2>3
  <2> QED
    BY <1>2, <2>3, <2>4 DEF EndsSync
<1> QED
  BY <1>2 DEF MatchInv

LEMMA SyncIs == Len(Sync) \in Nat /\ Len(Sync) > 0 /\ Sector \in Nat /\ Sector >= Len(Sync)
BY VcdAssumption, LenProperties

Bytes(t) == t.lead \in Seq(Int) /\ t.stamps \in Seq(Int)

LEMMA BeginningIs ==
    ASSUME NEW t, Bytes(t)
    PROVE  /\ Len(t.lead) \in Nat /\ Len(t.stamps) \in Nat
           /\ Len(Beginning(t)) = IF t.stamps = <<>> THEN Len(t.lead) ELSE Len(t.lead) + Len(Sync)
           /\ t.stamps # <<>> => \A j \in 1..Len(Sync) : Beginning(t)[Len(t.lead) + j] = Sync[j]
<1>1. t.lead \in Seq(Int) /\ Sync \in Seq(Int) /\ <<>> \in Seq(Int)
  BY VcdAssumption, EmptySeq DEF Bytes
<1>2. CASE t.stamps = <<>>
  <2>1. Beginning(t) = t.lead \o <<>>
    BY <1>2 DEF Beginning
  <2> QED
    BY <1>1, <1>2, <2>1, ConcatProperties, LenProperties DEF Bytes
<1>3. CASE t.stamps # <<>>
  <2>1. Beginning(t) = t.lead \o Sync
    BY <1>3 DEF Beginning
  <2>2. Len(t.lead) \in Nat /\ Len(t.stamps) \in Nat
    BY LenProperties DEF Bytes
  <2>3. Len(t.lead \o Sync) = Len(t.lead) + Len(Sync)
    BY <1>1, ConcatProperties
  <2>4. ASSUME NEW j \in 1..Len(Sync) PROVE (t.lead \o Sync)[Len(t.lead) + j] = Sync[j]
    <3>1. Len(t.lead) + j \in 1..Len(t.lead) + Len(Sync) /\ ~(Len(t.lead) + j <= Len(t.lead))
      BY <2>2, SyncIs
    <3>2. Len(t.lead) + j - Len(t.lead) = j
      BY <2>2, SyncIs
    <3> QED
      BY <1>1, <3>1, <3>2, ConcatProperties
  <2> QED
    BY <1>3, <2>1, <2>2, <2>3, <2>4
<1> QED
  BY <1>2, <1>3

\* Where the sync bytes can be found.
Found(t) == {i \in 0..Len(Beginning(t)) : \E e \in Len(Sync)..i : EndsSync(Beginning(t), e)}

LEMMA FoundIs ==
    ASSUME NEW t, Bytes(t)
    PROVE  FirstSync(t) = IF Found(t) = {} THEN -1 ELSE Min(Found(t)) - Len(Sync)
<1> DEFINE b == Beginning(t)
           N == Len(b)
<1>1. N \in Nat
  BY BeginningIs, SyncIs
<1>2. PICK f : /\ Matches(f, b, N)
               /\ FirstSync(t) = LET found == {i \in DOMAIN f : f[i] = Len(Sync)} IN
                                 IF found = {} THEN -1 ELSE Min(found) - Len(Sync)
  BY <1>1, FirstSyncIs
<1> HIDE DEF b, N
<1>3. \A i \in 0..N : MatchInv(b, f[i], i)
  BY <1>1, <1>2, MatchAlways
<1>4. \A i \in 0..N : f[i] = Len(Sync) <=> \E e \in Len(Sync)..i : EndsSync(b, e)
  BY <1>1, <1>3, MatchedIs
<1>5. DOMAIN f = 0..N
  BY <1>2 DEF Matches
<1>6. {i \in DOMAIN f : f[i] = Len(Sync)} = Found(t)
  BY <1>4, <1>5 DEF Found, b, N
<1> QED
  BY <1>2, <1>6

LEMMA MinLeast ==
    ASSUME NEW S \in SUBSET Nat, S # {}
    PROVE  Min(S) \in S /\ \A y \in S : Min(S) <= y
BY LeastOf DEF Min

LEMMA FirstSyncRange == ASSUME NEW t, Bytes(t) PROVE FirstSync(t) \in -1..Len(t.lead)
<1>1. Len(t.lead) \in Nat /\ Len(Beginning(t)) \in Nat /\ Len(Beginning(t)) <= Len(t.lead) + Len(Sync)
  BY BeginningIs, SyncIs
<1>2. CASE Found(t) = {}
  BY <1>1, <1>2, FoundIs
<1>3. CASE Found(t) # {}
  <2>1. Found(t) \in SUBSET Nat
    BY <1>1 DEF Found
  <2>2. Min(Found(t)) \in Found(t)
    BY <1>3, <2>1, MinLeast
  <2>3. Min(Found(t)) \in Len(Sync)..Len(Beginning(t))
    BY <1>1, <2>2, SyncIs DEF Found
  <2> HIDE DEF Found
  <2>4. Min(Found(t)) - Len(Sync) \in 0..Len(t.lead)
    BY <1>1, <2>3, SyncIs
  <2> QED
    BY <1>1, <1>3, <2>4, FoundIs
<1> QED
  BY <1>2, <1>3

\* The sync bytes of the first sector are the first ones.
OnlyThere(t) == \A e \in Len(Sync)..Len(t.lead) + Len(Sync) - 1 : ~EndsSync(t.lead \o Sync, e)

LEMMA FirstSyncFound ==
    ASSUME NEW t, Bytes(t), OnlyThere(t), t.stamps # <<>>
    PROVE  FirstSync(t) = Len(t.lead)
<1> DEFINE last == Len(t.lead) + Len(Sync)
<1>1. Beginning(t) = t.lead \o Sync
  BY DEF Beginning
<1>2. /\ Len(t.lead) \in Nat /\ Len(Beginning(t)) = last
      /\ \A j \in 1..Len(Sync) : Beginning(t)[Len(t.lead) + j] = Sync[j]
  BY BeginningIs
<1>3. EndsSync(Beginning(t), last)
  <2>1. \A j \in 1..Len(Sync) : last - Len(Sync) + j = Len(t.lead) + j
    BY <1>2, SyncIs
  <2> QED
    BY <1>2, <2>1 DEF EndsSync
<1>4. last \in Found(t)
  <2>1. last \in 0..last /\ last \in Len(Sync)..last
    BY <1>2, SyncIs
  <2> QED
    BY <1>2, <1>3, <2>1 DEF Found
<1>5. ASSUME NEW i \in Found(t) PROVE i \in Nat /\ last <= i
  <2>1. PICK e \in Len(Sync)..i : EndsSync(t.lead \o Sync, e)
    BY <1>1 DEF Found
  <2>2. i \in 0..last
    BY <1>2 DEF Found
  <2>3. e \notin Len(Sync)..last - 1
    BY <2>1 DEF OnlyThere
  <2> QED
    BY <1>2, <2>1, <2>2, <2>3, SyncIs
<1>6. Found(t) \in SUBSET Nat /\ Found(t) # {}
  BY <1>4, <1>5
<1>7. Min(Found(t)) \in Found(t) /\ Min(Found(t)) <= last
  BY <1>4, <1>6, MinLeast
<1>8. Min(Found(t)) = last
  BY <1>2, <1>5, <1>7, SyncIs
<1> QED
  BY <1>2, <1>6, <1>8, FoundIs, SyncIs

-----------------------------------------------------------------------------
(* The binary search of scan_chapters.                                     *)
\* The windows of the binary search over S sectors, and one step of it.
Windows(S) == (0..S) \X (-1..S - 1)
Middle(w)  == (w[1] + w[2]) \div 2
Below(f, t, time, w) ==
    IF w[1] > w[2] THEN Absent
    ELSE IF t.stamps[Middle(w) + 1] < 0 THEN Failed
    ELSE IF t.stamps[Middle(w) + 1] < time THEN f[<<Middle(w) + 1, w[2]>>]
    ELSE IF t.stamps[Middle(w) + 1] = time THEN Middle(w)
    ELSE f[<<w[1], Middle(w) - 1>>]

LEMMA WindowIs ==
    ASSUME NEW S \in Nat, NEW w \in Windows(S)
    PROVE  w = <<w[1], w[2]>> /\ w[1] \in 0..S /\ w[2] \in -1..S - 1
BY DEF Windows

LEMMA WindowsShrink ==
    ASSUME NEW S \in Nat, NEW w \in Windows(S), w[1] <= w[2]
    PROVE  /\ Middle(w) \in w[1]..w[2] /\ Middle(w) \in 0..S - 1
           /\ <<Middle(w) + 1, w[2]>> \in Windows(S) /\ <<w[1], Middle(w) - 1>> \in Windows(S)
<1>1. w[1] \in 0..S /\ w[2] \in -1..S - 1
  BY WindowIs
<1>2. Middle(w) \in w[1]..w[2]
  BY <1>1 DEF Middle
<1>3. Middle(w) \in 0..S - 1
  BY <1>1, <1>2
<1>4. Middle(w) + 1 \in 0..S /\ Middle(w) - 1 \in -1..S - 1
  BY <1>1, <1>3
<1> QED
  BY <1>1, <1>2, <1>3, <1>4 DEF Windows

Breadth(w) == w[2] - w[1]

LEMMA WidthsShrink ==
    ASSUME NEW S \in Nat, NEW w \in Windows(S), w[1] <= w[2]
    PROVE  /\ Breadth(<<Middle(w) + 1, w[2]>>) < Breadth(w)
           /\ Breadth(<<w[1], Middle(w) - 1>>) < Breadth(w)
           /\ Breadth(w) \in Int
<1>1. w[1] \in 0..S /\ w[2] \in -1..S - 1 /\ Middle(w) \in w[1]..w[2]
  BY WindowIs, WindowsShrink
<1>2. Breadth(<<Middle(w) + 1, w[2]>>) = w[2] - (Middle(w) + 1)
  BY DEF Breadth
<1>3. Breadth(<<w[1], Middle(w) - 1>>) = Middle(w) - 1 - w[1]
  BY DEF Breadth
<1>4. Breadth(w) = w[2] - w[1]
  BY DEF Breadth
<1> QED
  BY <1>1, <1>2, <1>3, <1>4

LEMMA SameBelow ==
    ASSUME NEW S \in Nat, NEW w \in Windows(S), NEW t, NEW time, NEW f, NEW g,
           \A u \in Windows(S) : Breadth(u) < Breadth(w) => f[u] = g[u]
    PROVE  Below(f, t, time, w) = Below(g, t, time, w)
<1>1. CASE w[1] <= w[2]
  <2>1. f[<<Middle(w) + 1, w[2]>>] = g[<<Middle(w) + 1, w[2]>>]
    BY <1>1, WindowsShrink, WidthsShrink
  <2>2. f[<<w[1], Middle(w) - 1>>] = g[<<w[1], Middle(w) - 1>>]
    BY <1>1, WindowsShrink, WidthsShrink
  <2> QED
    BY <2>1, <2>2 DEF Below
<1>2. CASE ~(w[1] <= w[2])
  <2>1. w[1] > w[2]
    BY <1>2, WindowIs
  <2> QED
    BY <2>1 DEF Below
<1> QED
  BY <1>1, <1>2

\* f is the search in windows up to a width.
SearchesTo(f, t, time, S, m) ==
    \A w \in Windows(S) : Breadth(w) < m => f[w] = Below(f, t, time, w)

LEMMA SearchStep ==
    ASSUME NEW S \in Nat, NEW t, NEW time, NEW m \in Nat, NEW f, SearchesTo(f, t, time, S, m)
    PROVE  \E g : SearchesTo(g, t, time, S, m + 1)
<1> DEFINE g == [w \in Windows(S) |-> IF Breadth(w) < m THEN f[w] ELSE Below(f, t, time, w)]
<1>1. ASSUME NEW w \in Windows(S), Breadth(w) < m + 1 PROVE g[w] = Below(g, t, time, w)
  <2>1. w[1] \in Int /\ w[2] \in Int
    BY WindowIs
  <2>2. Breadth(w) \in Int /\ Breadth(w) <= m
    BY <1>1, <2>1 DEF Breadth
  <2>3. ASSUME NEW u \in Windows(S), Breadth(u) < Breadth(w) PROVE f[u] = g[u]
    <3>1. u[1] \in Int /\ u[2] \in Int
      BY WindowIs
    <3>2. Breadth(u) \in Int
      BY <3>1 DEF Breadth
    <3>3. Breadth(u) < m
      BY <2>2, <2>3, <3>2
    <3> QED
      BY <3>3
  <2>4. Below(f, t, time, w) = Below(g, t, time, w)
    <3> HIDE DEF g
    <3> QED
      BY <2>3, SameBelow
  <2>5. g[w] = Below(f, t, time, w)
    <3>1. CASE Breadth(w) < m
      BY <3>1 DEF SearchesTo
    <3>2. CASE ~(Breadth(w) < m)
      BY <3>2
    <3> QED
      BY <3>1, <3>2
  <2> QED
    BY <2>4, <2>5
<1>2. SearchesTo(g, t, time, S, m + 1)
  <2> HIDE DEF g
  <2> QED
    BY <1>1 DEF SearchesTo
<1> QED
  BY <1>2

Searches(f, t, time, S) == f = [w \in Windows(S) |-> Below(f, t, time, w)]

LEMMA SearchExists ==
    ASSUME NEW S \in Nat, NEW t, NEW time PROVE \E f : Searches(f, t, time, S)
<1> DEFINE Bad == {m \in Nat : ~\E f : SearchesTo(f, t, time, S, m)}
<1>1. Bad = {}
  <2>1. SUFFICES ASSUME Bad # {} PROVE FALSE
    OBVIOUS
  <2>2. PICK m \in Bad : \A x \in Bad : m <= x
    BY <2>1, LeastOf
  <2>3. m \in Nat /\ ~\E f : SearchesTo(f, t, time, S, m)
    BY <2>2
  <2>4. m # 0
    <3> DEFINE f == [w \in Windows(S) |-> Absent]
    <3>1. ASSUME NEW w \in Windows(S), Breadth(w) < 0 PROVE f[w] = Below(f, t, time, w)
      <4>1. w[1] \in Int /\ w[2] \in Int
        BY WindowIs
      <4>2. w[1] > w[2]
        BY <3>1, <4>1 DEF Breadth
      <4> QED
        BY <4>2 DEF Below
    <3>2. SearchesTo(f, t, time, S, 0)
      <4> HIDE DEF f
      <4> QED
        BY <3>1 DEF SearchesTo
    <3> QED
      BY <2>3, <3>2
  <2>5. m - 1 \in Nat /\ m - 1 \notin Bad
    <3> HIDE DEF Bad
    <3> QED
      BY <2>2, <2>3, <2>4
  <2>6. PICK f : SearchesTo(f, t, time, S, m - 1)
    BY <2>5
  <2>7. \E g : SearchesTo(g, t, time, S, m)
    <3>1. m - 1 + 1 = m
      BY <2>3
    <3> QED
      BY <2>5, <2>6, <3>1, SearchStep
  <2> QED
    BY <2>3, <2>7
<1>2. PICK f : SearchesTo(f, t, time, S, S)
  BY <1>1
<1> DEFINE g == [w \in Windows(S) |-> f[w]]
<1>3. ASSUME NEW w \in Windows(S) PROVE g[w] = Below(g, t, time, w)
  <2>1. w[1] \in 0..S /\ w[2] \in -1..S - 1
    BY WindowIs
  <2>2. Breadth(w) < S
    BY <2>1 DEF Breadth
  <2>3. f[w] = Below(f, t, time, w)
    BY <1>2, <2>2 DEF SearchesTo
  <2>4. \A u \in Windows(S) : f[u] = g[u]
    OBVIOUS
  <2>5. Below(f, t, time, w) = Below(g, t, time, w)
    <3> HIDE DEF g
    <3> QED
      BY <2>4, SameBelow
  <2> QED
    BY <2>3, <2>4, <2>5
<1>4. Searches(g, t, time, S)
  <2>1. g = [w \in Windows(S) |-> g[w]]
    OBVIOUS
  <2> HIDE DEF g
  <2>2. [w \in Windows(S) |-> g[w]] = [w \in Windows(S) |-> Below(g, t, time, w)]
    BY <1>3
  <2> QED
    BY <2>1, <2>2 DEF Searches
<1> QED
  BY <1>4

Sectors(t, sync) == (TrackSize(t) - sync) \div Sector

LEMMA LocateIs ==
    ASSUME NEW t, NEW sync, NEW time, Sectors(t, sync) \in Nat
    PROVE  \E f : /\ Searches(f, t, time, Sectors(t, sync))
                  /\ Locate(t, sync, time) = f[<<0, Sectors(t, sync) - 1>>]
<1>1. \E f : Searches(f, t, time, Sectors(t, sync))
  BY SearchExists
<1> QED
  BY <1>1 DEF Locate, Searches, Below, Windows, Middle, Sectors

\* A window with nothing wrong in it, and one that is smaller.
LEMMA LocateRange ==
    ASSUME NEW t, NEW sync, NEW time, Sectors(t, sync) \in Nat
    PROVE  Locate(t, sync, time) \in {Absent, Failed} \cup 0..Sectors(t, sync) - 1
<1> DEFINE S == Sectors(t, sync)
           Good(x) == x \in {Absent, Failed} \cup 0..S - 1
<1>1. PICK f : Searches(f, t, time, S) /\ Locate(t, sync, time) = f[<<0, S - 1>>]
  BY LocateIs
<1> HIDE DEF S, Good
<1>2. S \in Nat
  BY DEF S
<1> DEFINE Bad == {n \in Nat : \E w \in Windows(S) : n = Breadth(w) + S + 1 /\ ~Good(f[w])}
<1>3. Bad = {}
  <2>1. SUFFICES ASSUME Bad # {} PROVE FALSE
    OBVIOUS
  <2>2. PICK n \in Bad : \A x \in Bad : n <= x
    BY <2>1, LeastOf
  <2>3. PICK w \in Windows(S) : n = Breadth(w) + S + 1 /\ ~Good(f[w])
    BY <2>2
  <2>4. f[w] = Below(f, t, time, w)
    BY <1>1, <2>3 DEF Searches
  <2>5. w[1] \in 0..S /\ w[2] \in -1..S - 1
    BY <1>2, WindowIs
  <2>6. CASE w[1] <= w[2]
    <3>1. ASSUME NEW u \in Windows(S), Breadth(u) < Breadth(w) PROVE Good(f[u])
      <4>1. u[1] \in 0..S /\ u[2] \in -1..S - 1
        BY <1>2, WindowIs
      <4>2. Breadth(u) + S + 1 \in Nat /\ Breadth(w) \in Int /\ Breadth(u) \in Int
        BY <1>2, <2>5, <4>1 DEF Breadth
      <4>3. Breadth(u) + S + 1 \notin Bad
        <5> HIDE DEF Bad
        <5> QED
          BY <1>2, <2>2, <2>3, <3>1, <4>2
      <4> QED
        BY <4>2, <4>3
    <3>2. Good(f[<<Middle(w) + 1, w[2]>>]) /\ Good(f[<<w[1], Middle(w) - 1>>]) /\ Middle(w) \in 0..S - 1
      BY <1>2, <2>6, <3>1, WindowsShrink, WidthsShrink
    <3>3. Good(Absent) /\ Good(Failed) /\ Good(Middle(w))
      BY <3>2 DEF Good
    <3> HIDE DEF Bad
    <3> QED
      BY <2>3, <2>4, <3>2, <3>3 DEF Below
  <2>7. CASE ~(w[1] <= w[2])
    <3>1. w[1] > w[2]
      BY <2>5, <2>7
    <3>2. f[w] = Absent
      BY <2>4, <3>1 DEF Below
    <3> QED
      BY <2>3, <3>2 DEF Good
  <2> QED
    BY <2>6, <2>7
<1>4. <<0, S - 1>> \in Windows(S)
  BY <1>2 DEF Windows
<1>5. Good(f[<<0, S - 1>>])
  <2>1. Breadth(<<0, S - 1>>) + S + 1 \in Nat
    BY <1>2 DEF Breadth
  <2> QED
    BY <1>3, <1>4, <2>1
<1> QED
  BY <1>1, <1>5 DEF Good, S

\* The sectors can be read and their times increase.
Increasing(s) ==
    \A i, j \in DOMAIN s : i < j /\ s[i] >= 0 /\ s[j] >= 0 => s[i] < s[j]

LEMMA LocateFinds ==
    ASSUME NEW t, NEW sync, t.stamps \in Seq(Int), Sectors(t, sync) = Len(t.stamps),
           Increasing(t.stamps), \A j \in DOMAIN t.stamps : t.stamps[j] >= 0,
           NEW i \in DOMAIN t.stamps
    PROVE  Locate(t, sync, t.stamps[i]) = i - 1
<1> DEFINE S == Len(t.stamps)
           time == t.stamps[i]
           In(w) == w[1] <= i - 1 /\ i - 1 <= w[2]
<1>1. /\ S \in Nat /\ DOMAIN t.stamps = 1..S /\ i \in 1..S
      /\ \A j \in 1..S : t.stamps[j] \in Int /\ t.stamps[j] >= 0
  BY LenProperties, ElementOfSeq
<1>2. \A j \in 1..S : j < i => t.stamps[j] < time
  BY <1>1 DEF Increasing
<1>3. \A j \in 1..S : i < j => time < t.stamps[j]
  BY <1>1 DEF Increasing
<1>4. PICK f : Searches(f, t, time, S) /\ Locate(t, sync, time) = f[<<0, S - 1>>]
  BY <1>1, LocateIs
<1> HIDE DEF S, time
<1> DEFINE Bad == {n \in Nat : \E w \in Windows(S) : n = Breadth(w) /\ In(w) /\ f[w] # i - 1}
<1>5. Bad = {}
  <2>1. SUFFICES ASSUME Bad # {} PROVE FALSE
    OBVIOUS
  <2>2. PICK n \in Bad : \A x \in Bad : n <= x
    BY <2>1, LeastOf
  <2>3. PICK w \in Windows(S) : n = Breadth(w) /\ In(w) /\ f[w] # i - 1
    BY <2>2
  <2>4. f[w] = Below(f, t, time, w)
    BY <1>4, <2>3 DEF Searches
  <2>5. w[1] \in 0..S /\ w[2] \in -1..S - 1
    BY <1>1, WindowIs
  <2>6. w[1] <= w[2] /\ ~(w[1] > w[2])
    BY <1>1, <2>3, <2>5
  <2>7. ASSUME NEW u \in Windows(S), Breadth(u) < Breadth(w), In(u) PROVE f[u] = i - 1
    <3>1. u[1] \in 0..S /\ u[2] \in -1..S - 1
      BY <1>1, WindowIs
    <3>2. Breadth(u) \in Nat /\ Breadth(w) \in Nat
      <4>1. \A a, b, c \in Int : a <= c /\ c <= b => b - a \in Nat
        OBVIOUS
      <4>2. u[1] \in Int /\ u[2] \in Int /\ w[1] \in Int /\ w[2] \in Int /\ i - 1 \in Int
        <5>1. S \in Int /\ i \in Int
          BY <1>1
        <5>2. \A a \in 0..S, b \in -1..S - 1 : a \in Int /\ b \in Int
          BY <5>1
        <5>3. u[1] \in Int /\ u[2] \in Int
          BY <3>1, <5>2
        <5>4. w[1] \in Int /\ w[2] \in Int
          BY <2>5, <5>2
        <5>5. i - 1 \in Int
          BY <5>1
        <5> QED
          BY <5>3, <5>4, <5>5
      <4>3. u[1] <= i - 1 /\ i - 1 <= u[2] /\ w[1] <= i - 1 /\ i - 1 <= w[2]
        BY <2>3, <2>7
      <4> QED
        BY <4>1, <4>2, <4>3 DEF Breadth
    <3>3. Breadth(u) \notin Bad
      <4> HIDE DEF Bad
      <4> QED
        BY <2>2, <2>3, <2>7, <3>2
    <3> QED
      BY <2>7, <3>2, <3>3
  <2> HIDE DEF Bad
  <2>8. Middle(w) \in w[1]..w[2] /\ Middle(w) \in 0..S - 1
    BY <1>1, <2>6, WindowsShrink
  <2> DEFINE stamp == t.stamps[Middle(w) + 1]
  <2>9. stamp \in Int /\ ~(stamp < 0) /\ time \in Int
    BY <1>1, <2>8 DEF time
  <2>10. /\ Middle(w) + 1 < i => stamp < time
         /\ Middle(w) + 1 = i => stamp = time
         /\ i < Middle(w) + 1 => time < stamp
    <3>1. Middle(w) + 1 \in 1..S
      BY <1>1, <2>8
    <3> QED
      BY <1>2, <1>3, <3>1 DEF time
  <2>11. CASE stamp < time
    <3>1. Middle(w) < i - 1
      BY <1>1, <2>8, <2>9, <2>11, <2>10
    <3>2. In(<<Middle(w) + 1, w[2]>>)
      BY <1>1, <2>3, <2>8, <3>1
    <3>3. f[<<Middle(w) + 1, w[2]>>] = i - 1
      BY <1>1, <2>6, <2>7, <3>2, WindowsShrink, WidthsShrink
    <3> QED
      BY <2>3, <2>4, <2>6, <2>9, <2>11, <3>3 DEF Below
  <2>12. CASE stamp = time
    <3>1. Middle(w) = i - 1
      BY <1>1, <2>8, <2>9, <2>12, <2>10
    <3> QED
      BY <2>3, <2>4, <2>6, <2>9, <2>12, <3>1 DEF Below
  <2>13. CASE ~(stamp < time) /\ stamp # time
    <3>1. i - 1 < Middle(w)
      BY <1>1, <2>8, <2>9, <2>13, <2>10
    <3>2. In(<<w[1], Middle(w) - 1>>)
      BY <1>1, <2>3, <2>5, <2>8, <3>1
    <3>3. f[<<w[1], Middle(w) - 1>>] = i - 1
      BY <1>1, <2>6, <2>7, <3>2, WindowsShrink, WidthsShrink
    <3> QED
      BY <2>3, <2>4, <2>6, <2>9, <2>13, <3>3 DEF Below
  <2> QED
    BY <2>11, <2>12, <2>13
<1>6. <<0, S - 1>> \in Windows(S)
  BY <1>1 DEF Windows
<1>7. f[<<0, S - 1>>] = i - 1
  <2>1. Breadth(<<0, S - 1>>) \in Nat /\ In(<<0, S - 1>>)
    BY <1>1 DEF Breadth
  <2> QED
    BY <1>5, <1>6, <2>1
<1> QED
  BY <1>4, <1>7 DEF time

LEMMA Quotient ==
    ASSUME NEW a \in Nat \ {0}, NEW q \in Nat, NEW r \in 0..a - 1
    PROVE  (a * q + r) \div a = q
OBVIOUS

-----------------------------------------------------------------------------
(* The list of chapters.                                                   *)
\* What becomes of the entries: chapters without positions.
LEMMA KeptList ==
    ASSUME NEW entries, Len(entries) \in Nat
    PROVE  Kept(entries) \in Seq({Chapter(entries[k]) : k \in 1..Len(entries)})
<1> DEFINE N == Len(entries)
           R == {Chapter(entries[k]) : k \in 1..N}
           Fine(a) == a = [sec |-> a.sec, list |-> a.list] /\ a.list \in Seq(R)
<1>1. PICK f : Keeps(f, entries, N) /\ Kept(entries) = f[N].list
  BY KeptIs
<1> DEFINE Bad == {m \in 0..N : ~Fine(f[m])}
<1>2. Bad = {}
  <2>1. SUFFICES ASSUME Bad # {} PROVE FALSE
    OBVIOUS
  <2>2. Bad \in SUBSET Nat
    OBVIOUS
  <2> HIDE DEF Bad
  <2>3. PICK m \in Bad : \A x \in Bad : m <= x
    BY <2>1, <2>2, LeastOf
  <2> USE DEF Bad
  <2>4. m \in 0..N /\ ~Fine(f[m])
    BY <2>3
  <2>5. CASE m = 0
    <3>1. f[0] = [sec |-> Seconds(entries[1]), list |-> <<>>]
      BY <1>1, <2>4, <2>5 DEF Keeps
    <3>2. <<>> \in Seq(R)
      BY EmptySeq
    <3> QED
      BY <2>4, <2>5, <3>1, <3>2
  <2>6. CASE m # 0
    <3>1. m - 1 \in 0..N /\ m - 1 < m
      BY <2>4, <2>6
    <3>2. m - 1 \notin Bad
      <4> HIDE DEF Bad
      <4> QED
        BY <2>3, <2>4, <3>1
    <3>3. Fine(f[m - 1])
      BY <3>1, <3>2
    <3>4. f[m] = KeepNext(f[m - 1], entries[m], m)
      BY <1>1, <2>4, <2>6 DEF Keeps
    <3>5. Chapter(entries[m]) \in R
      BY <2>4, <2>6
    <3> HIDE DEF R
    <3>6. Append(f[m - 1].list, Chapter(entries[m])) \in Seq(R)
      BY <3>3, <3>5, AppendProperties
    <3>7. Fine(f[m])
      <4> DEFINE a == f[m - 1]
      <4>1. \/ f[m] = [a EXCEPT !.sec = Seconds(entries[m])]
            \/ f[m] = [a EXCEPT !.list = Append(@, Chapter(entries[m]))]
        BY <3>4 DEF KeepNext
      <4>2. a = [sec |-> a.sec, list |-> a.list] /\ a.list \in Seq(R)
        BY <3>3
      <4>3. Append(a.list, Chapter(entries[m])) \in Seq(R)
        BY <3>6
      <4> HIDE DEF a
      <4> QED
        BY <4>1, <4>2, <4>3
    <3> QED
      BY <2>4, <3>7
  <2> QED
    BY <2>5, <2>6
<1>3. Fine(f[N])
  <2>1. N \in 0..N
    OBVIOUS
  <2>2. N \notin Bad
    <3> HIDE DEF Bad
    <3> QED
      BY <1>2
  <2> HIDE DEF Fine
  <2> QED
    BY <2>1, <2>2
<1> QED
  BY <1>1, <1>3

Whole(t) == Bytes(t) /\ t.tail \in Nat

LEMMA SizeNat == ASSUME NEW t, Whole(t) PROVE TrackSize(t) \in Nat /\ Len(t.lead) <= TrackSize(t)
<1>1. Len(t.lead) \in Nat /\ Len(t.stamps) \in Nat /\ t.tail \in Nat
  BY LenProperties DEF Whole, Bytes
<1>2. \A a, b \in Nat : a * b \in Nat
  OBVIOUS
<1>3. Sector * Len(t.stamps) \in Nat
  BY <1>1, <1>2, SyncIs
<1> DEFINE k == Sector * Len(t.stamps)
<1>4. TrackSize(t) = Len(t.lead) + k + t.tail
  BY DEF TrackSize
<1> HIDE DEF k
<1>5. k \in Nat
  BY <1>3 DEF k
<1> QED
  BY <1>1, <1>4, <1>5

LEMMA SectorsNat ==
    ASSUME NEW t, Whole(t), NEW sync \in 0..Len(t.lead)
    PROVE  Sectors(t, sync) \in Nat
<1>1. TrackSize(t) - sync \in Nat
  <2>1. Len(t.lead) \in Nat
    BY LenProperties DEF Whole, Bytes
  <2> QED
    BY <2>1, SizeNat
<1>2. \A a \in Nat, b \in Nat \ {0} : a \div b \in Nat
  OBVIOUS
<1> QED
  BY <1>1, <1>2, SyncIs DEF Sectors

LEMMA PosNat == ASSUME NEW sync \in Nat, NEW sector \in Nat PROVE sync + sector * Sector \in Nat
<1>1. \A a, b \in Nat : a * b \in Nat
  OBVIOUS
<1>2. sector * Sector \in Nat
  BY <1>1, SyncIs
<1> QED
  BY <1>2

\* Chapters of the list that was kept, with positions.
ChapterSet(kept) ==
    [track : {kept[k].track : k \in 1..Len(kept)}, time : {kept[k].time : k \in 1..Len(kept)},
     start : Nat, end : Nat]
ListOf(kept, c) ==
    /\ c \in Seq(ChapterSet(kept)) /\ Len(c) = Len(kept)
    /\ \A j \in 1..Len(kept) : c[j].track = kept[j].track /\ c[j].time = kept[j].time

SetEnd(c, k, pos)   == [c EXCEPT ![k].end = pos]
SetStart(c, k, pos) == [c EXCEPT ![k].start = pos]

EndSet(kept, c, k, pos) ==
    /\ ListOf(kept, SetEnd(c, k, pos)) /\ SetEnd(c, k, pos)[k].end = pos
    /\ \A j \in 1..Len(kept) : SetEnd(c, k, pos)[j].start = c[j].start
    /\ \A j \in 1..Len(kept) : j # k => SetEnd(c, k, pos)[j] = c[j]

StartSet(kept, c, k, pos) ==
    /\ ListOf(kept, SetStart(c, k, pos)) /\ SetStart(c, k, pos)[k].start = pos
    /\ \A j \in 1..Len(kept) : j # k => SetStart(c, k, pos)[j] = c[j]

LEMMA ListEnd ==
    ASSUME NEW kept, NEW c, ListOf(kept, c), Len(kept) \in Nat, NEW k \in 1..Len(kept), NEW pos \in Nat
    PROVE  EndSet(kept, c, k, pos)
<1> DEFINE n == Len(kept)
           R == ChapterSet(kept)
<1>1. c \in [1..n -> R]
  BY LenProperties DEF ListOf
<1>2. SetEnd(c, k, pos) = [j \in 1..n |-> IF j = k THEN [c[k] EXCEPT !.end = pos] ELSE c[j]]
  BY <1>1 DEF SetEnd
<1>3. [c[k] EXCEPT !.end = pos] \in R
  BY <1>1 DEF ChapterSet
<1> DEFINE e == SetEnd(c, k, pos)
<1> HIDE DEF e
<1>4. e \in [1..n -> R]
  BY <1>1, <1>2, <1>3 DEF e
<1>5. e \in Seq(R) /\ Len(e) = n
  <2> HIDE DEF R
  <2> QED
    BY <1>4
<1>6. \A j \in 1..n : j # k => e[j] = c[j]
  BY <1>2 DEF e
<1>7. /\ e[k].end = pos /\ e[k].start = c[k].start
      /\ e[k].track = c[k].track /\ e[k].time = c[k].time
  <2>1. e[k] = [c[k] EXCEPT !.end = pos]
    BY <1>2 DEF e
  <2>2. c[k] \in R
    BY <1>1
  <2> QED
    BY <2>1, <2>2 DEF ChapterSet
<1>8. ListOf(kept, e)
  BY <1>5, <1>6, <1>7 DEF ListOf
<1> QED
  BY <1>1, <1>6, <1>7, <1>8 DEF e, EndSet

LEMMA ListStart ==
    ASSUME NEW kept, NEW c, ListOf(kept, c), Len(kept) \in Nat, NEW k \in 1..Len(kept), NEW pos \in Nat
    PROVE  StartSet(kept, c, k, pos)
<1> DEFINE n == Len(kept)
           R == ChapterSet(kept)
<1>1. c \in [1..n -> R]
  BY LenProperties DEF ListOf
<1>2. SetStart(c, k, pos) = [j \in 1..n |-> IF j = k THEN [c[k] EXCEPT !.start = pos] ELSE c[j]]
  BY <1>1 DEF SetStart
<1>3. [c[k] EXCEPT !.start = pos] \in R
  BY <1>1 DEF ChapterSet
<1> DEFINE e == SetStart(c, k, pos)
<1> HIDE DEF e
<1>4. e \in [1..n -> R]
  BY <1>1, <1>2, <1>3 DEF e
<1>5. e \in Seq(R) /\ Len(e) = n
  <2> HIDE DEF R
  <2> QED
    BY <1>4
<1>6. \A j \in 1..n : j # k => e[j] = c[j]
  BY <1>2 DEF e
<1>7. e[k].start = pos /\ e[k].track = c[k].track /\ e[k].time = c[k].time
  <2>1. e[k] = [c[k] EXCEPT !.start = pos]
    BY <1>2 DEF e
  <2>2. c[k] \in R
    BY <1>1
  <2> QED
    BY <2>1, <2>2 DEF ChapterSet
<1>8. ListOf(kept, e)
  BY <1>5, <1>6, <1>7 DEF ListOf
<1> QED
  BY <1>6, <1>7, <1>8 DEF e, StartSet

-----------------------------------------------------------------------------
(* One round of scan_chapters, on any disc.                                *)
ScanStates(kept) == [list : Seq(ChapterSet(kept)), size : Nat, sync : Int, failed : BOOLEAN]

\* After k chapters: what the scan knows of the track it has open.
ScanInv(d, kept, s, k) ==
    /\ s \in ScanStates(kept) /\ ListOf(kept, s.list)
    /\ ~s.failed /\ k > 0 =>
        /\ kept[k].track \in DOMAIN d.tracks
        /\ s.size = TrackSize(d.tracks[kept[k].track])
        /\ s.sync = FirstSync(d.tracks[kept[k].track]) /\ s.sync >= 0

Readable(d) == \A k \in DOMAIN d.tracks : Whole(d.tracks[k])

\* One round, in terms of the list that was kept.
NewTrack(kept, k) == k = 1 \/ kept[k].track # kept[k - 1].track
SectorOf(d, kept, k) ==
    LET t == d.tracks[kept[k].track] IN Locate(t, FirstSync(t), kept[k].time)
FailedScan(s)       == [s EXCEPT !.failed = TRUE]
FailedWith(s, list) == [s EXCEPT !.failed = TRUE, !.list = list]
EndTrack(kept, s, k) == IF NewTrack(kept, k) THEN EndBefore(s.list, k, s.size) ELSE s.list
PlaceChapter(list, k, pos) == EndBefore([list EXCEPT ![k].start = pos], k, pos)
Placed(d, kept, list, k) ==
    LET sync == FirstSync(d.tracks[kept[k].track])
        sector == SectorOf(d, kept, k) IN
    IF sector < 0 THEN list ELSE PlaceChapter(list, k, sync + sector * Sector)

AfterChapter(d, kept, s, k) ==
    [list |-> Placed(d, kept, EndTrack(kept, s, k), k), size |-> TrackSize(d.tracks[kept[k].track]),
     sync |-> FirstSync(d.tracks[kept[k].track]), failed |-> SectorOf(d, kept, k) = Failed]

LEMMA RoundIs ==
    ASSUME NEW d, NEW kept, Len(kept) \in Nat, NEW k \in 1..Len(kept), NEW s,
           ScanInv(d, kept, s, k - 1)
    PROVE  \/ ScanChapter(d, s, k) = FailedScan(s)
              /\ (s.failed \/ kept[k].track \notin DOMAIN d.tracks)
           \/ ScanChapter(d, s, k) = FailedWith(s, EndTrack(kept, s, k))
              /\ kept[k].track \in DOMAIN d.tracks /\ FirstSync(d.tracks[kept[k].track]) < 0
           \/ /\ ~s.failed /\ kept[k].track \in DOMAIN d.tracks
              /\ ~(FirstSync(d.tracks[kept[k].track]) < 0)
              /\ ScanChapter(d, s, k) = AfterChapter(d, kept, s, k)
<1> DEFINE c == s.list[k]
           new == k = 1 \/ c.track # s.list[k - 1].track
           t == d.tracks[kept[k].track]
<1>1. c.track = kept[k].track /\ c.time = kept[k].time
  BY DEF ScanInv, ListOf
<1>2. new <=> NewTrack(kept, k)
  <2>1. k = 1 \/ k - 1 \in 1..Len(kept)
    OBVIOUS
  <2> QED
    BY <1>1, <2>1 DEF ScanInv, ListOf, NewTrack
<1>3. CASE s.failed \/ (new /\ c.track \notin DOMAIN d.tracks)
  <2>1. ScanChapter(d, s, k) = FailedScan(s)
    BY <1>3 DEF ScanChapter, FailedScan
  <2> QED
    BY <1>1, <1>3, <2>1
<1>4. CASE ~(s.failed \/ (new /\ c.track \notin DOMAIN d.tracks))
  <2>1. ~new => /\ k - 1 > 0 /\ kept[k].track = kept[k - 1].track
                /\ kept[k].track \in DOMAIN d.tracks /\ s.sync = FirstSync(t)
    BY <1>2, <1>4 DEF ScanInv, NewTrack
  <2>2. kept[k].track \in DOMAIN d.tracks
    BY <1>1, <1>4, <2>1
  <2>3. (IF new THEN FirstSync(t) ELSE s.sync) = FirstSync(t)
    BY <2>1
  <2>4. (IF new THEN EndBefore(s.list, k, s.size) ELSE s.list) = EndTrack(kept, s, k)
    BY <1>2 DEF EndTrack
  <2> DEFINE sync   == IF new THEN FirstSync(d.tracks[c.track]) ELSE s.sync
             list   == IF new THEN EndBefore(s.list, k, s.size) ELSE s.list
             sector == Locate(d.tracks[c.track], sync, c.time)
  <2>5. ScanChapter(d, s, k) =
          IF sync < 0 THEN FailedWith(s, list)
          ELSE [list   |-> IF sector < 0 THEN list
                           ELSE EndBefore([list EXCEPT ![k].start = sync + sector * Sector], k, sync + sector * Sector),
                size   |-> TrackSize(d.tracks[c.track]), sync   |-> sync, failed |-> sector = Failed]
    BY <1>4 DEF ScanChapter, FailedWith
  <2>6. sync = FirstSync(t) /\ list = EndTrack(kept, s, k) /\ sector = SectorOf(d, kept, k)
    BY <1>1, <2>3, <2>4 DEF SectorOf
  <2> HIDE DEF sync, list, sector
  <2>7. CASE sync < 0
    BY <2>2, <2>5, <2>6, <2>7
  <2>8. CASE ~(sync < 0)
    BY <1>1, <1>4, <2>2, <2>5, <2>6, <2>8 DEF AfterChapter, Placed, PlaceChapter
  <2> QED
    BY <2>7, <2>8
<1> QED
  BY <1>3, <1>4

\* A chapter's end is set as the next one begins.
Ended(kept, c, e, k, pos) ==
    /\ ListOf(kept, e)
    /\ k > 1 => e[k - 1].end = pos
    /\ \A j \in 1..Len(kept) : e[j].start = c[j].start
    /\ \A j \in 1..Len(kept) : j # k - 1 => e[j] = c[j]

LEMMA EndBeforeIs ==
    ASSUME NEW kept, NEW c, ListOf(kept, c), Len(kept) \in Nat, NEW k \in 1..Len(kept), NEW pos \in Nat
    PROVE  Ended(kept, c, EndBefore(c, k, pos), k, pos)
<1>1. CASE k > 1
  <2>1. PICK l \in 1..Len(kept) : l = k - 1
    BY <1>1
  <2>2. EndBefore(c, k, pos) = SetEnd(c, l, pos)
    BY <1>1, <2>1 DEF EndBefore, SetEnd
  <2>3. EndSet(kept, c, l, pos)
    BY ListEnd
  <2> QED
    BY <2>1, <2>2, <2>3 DEF EndSet, Ended
<1>2. CASE ~(k > 1)
  BY <1>2 DEF EndBefore, Ended
<1> QED
  BY <1>1, <1>2

\* p is c with its k-th chapter placed at pos.
PlaceSet(kept, c, p, k, pos) ==
    /\ ListOf(kept, p)
    /\ k > 1 => p[k - 1].end = pos
    /\ p[k].start = pos
    /\ \A j \in 1..Len(kept) : j # k => p[j].start = c[j].start
    /\ \A j \in 1..Len(kept) : j # k /\ j # k - 1 => p[j] = c[j]

LEMMA PlaceIs ==
    ASSUME NEW kept, NEW c, ListOf(kept, c), Len(kept) \in Nat, NEW k \in 1..Len(kept), NEW pos \in Nat
    PROVE  PlaceSet(kept, c, PlaceChapter(c, k, pos), k, pos)
<1>0. StartSet(kept, c, k, pos)
  BY ListStart
<1> DEFINE e == SetStart(c, k, pos)
<1>1. /\ ListOf(kept, e) /\ e[k].start = pos
      /\ \A j \in 1..Len(kept) : j # k => e[j] = c[j]
  BY <1>0 DEF StartSet
<1>2. PlaceChapter(c, k, pos) = EndBefore(e, k, pos)
  BY DEF PlaceChapter, SetStart
<1> DEFINE p == EndBefore(e, k, pos)
<1> HIDE DEF e
<1>3. Ended(kept, e, p, k, pos)
  BY <1>1, EndBeforeIs
<1> HIDE DEF p
<1>4. PlaceChapter(c, k, pos) = p
  BY <1>2 DEF p
<1>5. PlaceSet(kept, c, p, k, pos)
  BY <1>1, <1>3 DEF Ended, PlaceSet
<1> QED
  BY <1>4, <1>5

LEMMA ScanKeeps ==
    ASSUME NEW d, Readable(d), NEW kept, Len(kept) \in Nat, NEW k \in 1..Len(kept), NEW s,
           ScanInv(d, kept, s, k - 1)
    PROVE  ScanInv(d, kept, ScanChapter(d, s, k), k)
<1> DEFINE t == d.tracks[kept[k].track]
           r == ScanChapter(d, s, k)
<1> SUFFICES ScanInv(d, kept, r, k)
  OBVIOUS
<1>1. s \in ScanStates(kept) /\ ListOf(kept, s.list) /\ s.size \in Nat
  BY DEF ScanInv, ScanStates
<1>2. ListOf(kept, EndTrack(kept, s, k))
  <2>1. Ended(kept, s.list, EndBefore(s.list, k, s.size), k, s.size)
    BY <1>1, EndBeforeIs
  <2>2. ListOf(kept, EndBefore(s.list, k, s.size))
    BY <2>1 DEF Ended
  <2> QED
    BY <1>1, <2>2 DEF EndTrack
<1>3. CASE r = FailedScan(s)
  BY <1>1, <1>3 DEF ScanInv, ScanStates, FailedScan
<1>4. CASE r = FailedWith(s, EndTrack(kept, s, k))
  <2>1. EndTrack(kept, s, k) \in Seq(ChapterSet(kept))
    BY <1>2 DEF ListOf
  <2>2. r.list = EndTrack(kept, s, k) /\ r.failed /\ r \in ScanStates(kept)
    BY <1>1, <1>4, <2>1 DEF ScanStates, FailedWith
  <2> QED
    BY <1>2, <2>2 DEF ScanInv
<1>5. CASE /\ kept[k].track \in DOMAIN d.tracks /\ ~(FirstSync(t) < 0)
           /\ r = AfterChapter(d, kept, s, k)
  <2>1. Whole(t) /\ Bytes(t)
    BY <1>5 DEF Readable, Whole
  <2>2. FirstSync(t) \in 0..Len(t.lead) /\ FirstSync(t) \in Nat
    BY <1>5, <2>1, FirstSyncRange, BeginningIs
  <2>3. Sectors(t, FirstSync(t)) \in Nat /\ TrackSize(t) \in Nat
    BY <2>1, <2>2, SectorsNat, SizeNat
  <2>4. SectorOf(d, kept, k) \in Int
    BY <2>3, LocateRange DEF SectorOf, Absent, Failed
  <2>5. ListOf(kept, Placed(d, kept, EndTrack(kept, s, k), k))
    <3>1. CASE SectorOf(d, kept, k) < 0
      BY <1>2, <3>1 DEF Placed
    <3>2. CASE ~(SectorOf(d, kept, k) < 0)
      <4>1. SectorOf(d, kept, k) \in Nat
        BY <2>4, <3>2
      <4>2. FirstSync(t) + SectorOf(d, kept, k) * Sector \in Nat
        BY <2>2, <4>1, PosNat
      <4>3. Placed(d, kept, EndTrack(kept, s, k), k)
              = PlaceChapter(EndTrack(kept, s, k), k, FirstSync(t) + SectorOf(d, kept, k) * Sector)
        BY <3>2 DEF Placed
      <4> QED
        <5> DEFINE c == EndTrack(kept, s, k)
                   pos == FirstSync(t) + SectorOf(d, kept, k) * Sector
        <5>1. k \in 1..Len(kept) /\ pos \in Nat /\ ListOf(kept, c)
          BY <1>2, <4>2
        <5> HIDE DEF c, pos
        <5>2. PlaceSet(kept, c, PlaceChapter(c, k, pos), k, pos)
          BY <5>1, PlaceIs
        <5>3. ListOf(kept, PlaceChapter(c, k, pos))
          BY <5>2 DEF PlaceSet
        <5> QED
          BY <4>3, <5>3 DEF c, pos
    <3> QED
      BY <3>1, <3>2
  <2>6. Placed(d, kept, EndTrack(kept, s, k), k) \in Seq(ChapterSet(kept))
    BY <2>5 DEF ListOf
  <2>7. r \in ScanStates(kept) /\ r.list = Placed(d, kept, EndTrack(kept, s, k), k)
        /\ r.size = TrackSize(t) /\ r.sync = FirstSync(t)
    BY <1>5, <2>2, <2>3, <2>6 DEF ScanStates, AfterChapter
  <2> QED
    BY <1>5, <2>2, <2>5, <2>7 DEF ScanInv
<1>6. \/ r = FailedScan(s)
      \/ r = FailedWith(s, EndTrack(kept, s, k))
      \/ /\ kept[k].track \in DOMAIN d.tracks /\ ~(FirstSync(t) < 0)
         /\ r = AfterChapter(d, kept, s, k)
  BY RoundIs
<1> HIDE DEF r, t
<1> QED
  BY <1>3, <1>4, <1>5, <1>6

LEMMA KeptIsList ==
    ASSUME NEW entries, Len(entries) \in Nat
    PROVE  Len(Kept(entries)) \in Nat /\ ListOf(Kept(entries), Kept(entries))
<1> DEFINE kept == Kept(entries)
           R == {Chapter(entries[k]) : k \in 1..Len(entries)}
<1>1. kept \in Seq(R)
  BY KeptList
<1> HIDE DEF kept
<1>2. Len(kept) \in Nat
  BY <1>1, LenProperties
<1>3. \A j \in 1..Len(kept) : kept[j] \in ChapterSet(kept)
  <2> SUFFICES ASSUME NEW j \in 1..Len(kept) PROVE kept[j] \in ChapterSet(kept)
    OBVIOUS
  <2>1. kept[j] \in R
    BY <1>1, ElementOfSeq
  <2>2. PICK k \in 1..Len(entries) : kept[j] = [track |-> entries[k].track, time |-> entries[k].time, start |-> 0, end |-> 0]
    BY <2>1 DEF Chapter
  <2>3. kept[j].track \in {kept[i].track : i \in 1..Len(kept)} /\ kept[j].time \in {kept[i].time : i \in 1..Len(kept)}
    OBVIOUS
  <2>4. kept[j] = [track |-> kept[j].track, time |-> kept[j].time, start |-> 0, end |-> 0]
    BY <2>2
  <2> QED
    BY <2>3, <2>4 DEF ChapterSet
<1>4. kept \in Seq(ChapterSet(kept))
  <2>1. kept \in [1..Len(kept) -> ChapterSet(kept)]
    <3>1. kept \in [1..Len(kept) -> R]
      BY <1>1, LenProperties
    <3> HIDE DEF R
    <3> QED
      BY <1>3, <3>1
  <2> QED
    BY <1>2, <2>1, SeqDef
<1>5. ListOf(kept, kept)
  BY <1>4 DEF ListOf
<1> QED
  BY <1>2, <1>5 DEF kept

LEMMA ScanIs ==
    ASSUME NEW d, NEW kept, NEW f, NEW n \in Nat, Scans(f, d, kept, n)
    PROVE  \A k \in 1..n : f[k] = ScanChapter(d, f[k - 1], k)
<1> SUFFICES ASSUME NEW k \in 1..n PROVE f[k] = ScanChapter(d, f[k - 1], k)
  OBVIOUS
<1> DEFINE Base == [list |-> kept, size |-> 0, sync |-> -1, failed |-> FALSE]
<1>1. k \in 0..n /\ k # 0
  OBVIOUS
<1>2. f = [i \in 0..n |-> IF i = 0 THEN Base ELSE ScanChapter(d, f[i - 1], i)]
  BY DEF Scans
<1> HIDE DEF Base
<1> QED
  BY <1>1, <1>2

LEMMA ScanAlways ==
    ASSUME NEW d, Readable(d), NEW kept, Len(kept) \in Nat, ListOf(kept, kept),
           NEW f, Scans(f, d, kept, Len(kept))
    PROVE  \A k \in 0..Len(kept) : ScanInv(d, kept, f[k], k)
<1> DEFINE n == Len(kept)
           Bad == {k \in 0..n : ~ScanInv(d, kept, f[k], k)}
<1>1. SUFFICES ASSUME Bad # {} PROVE FALSE
  OBVIOUS
<1>2. Bad \in SUBSET Nat
  OBVIOUS
<1> HIDE DEF Bad
<1>3. PICK m \in Bad : \A x \in Bad : m <= x
  BY <1>1, <1>2, LeastOf
<1>4. m \in 0..n /\ ~ScanInv(d, kept, f[m], m)
  BY <1>3 DEF Bad
<1>5. CASE m = 0
  <2>1. f[0] = [list |-> kept, size |-> 0, sync |-> -1, failed |-> FALSE]
    BY <1>4, <1>5 DEF Scans
  <2>2. kept \in Seq(ChapterSet(kept))
    BY DEF ListOf
  <2>3. f[0] \in ScanStates(kept) /\ f[0].list = kept
    BY <2>1, <2>2 DEF ScanStates
  <2> QED
    BY <1>4, <1>5, <2>3 DEF ScanInv
<1>6. CASE m # 0
  <2>1. m \in 1..n /\ m - 1 \in 0..n /\ m - 1 < m
    BY <1>4, <1>6
  <2>2. m - 1 \notin Bad
    BY <1>3, <1>4, <2>1
  <2>3. ScanInv(d, kept, f[m - 1], m - 1)
    BY <2>1, <2>2 DEF Bad
  <2>4. f[m] = ScanChapter(d, f[m - 1], m)
    BY <2>1, ScanIs
  <2> QED
    BY <1>4, <2>1, <2>3, <2>4, ScanKeeps
<1> QED
  BY <1>5, <1>6

\* Whatever the disc, the chapters are those that were kept, with positions.
LEMMA ChaptersAre ==
    ASSUME NEW d, Readable(d), Len(d.entries) \in Nat
    PROVE  ListOf(Kept(d.entries), Chapters(d))
<1> DEFINE kept == Kept(d.entries)
           n == Len(kept)
<1>1. n \in Nat /\ ListOf(kept, kept)
  BY KeptIsList
<1>2. PICK f : Scans(f, d, kept, n) /\ Chapters(d) = Scanned(d, f, n)
  BY <1>1, ChaptersIs
<1> HIDE DEF kept
<1>3. ScanInv(d, kept, f[n], n)
  BY <1>1, <1>2, ScanAlways
<1>4. ListOf(kept, f[n].list) /\ f[n].size \in Nat
  BY <1>3 DEF ScanInv, ScanStates
<1>5. Chapters(d) \in {f[n].list, SetEnd(f[n].list, n, f[n].size)}
  BY <1>2 DEF Scanned, SetEnd
<1>6. CASE n = 0
  <2>1. f[n].list \in [1..0 -> ChapterSet(kept)]
    BY <1>4, <1>6, LenProperties DEF ListOf
  <2>2. SetEnd(f[n].list, n, f[n].size) = f[n].list
    BY <2>1 DEF SetEnd
  <2> QED
    BY <1>4, <1>5, <2>2 DEF kept
<1>7. CASE n # 0
  <2>1. n \in 1..Len(kept) /\ Len(kept) \in Nat
    BY <1>1, <1>7
  <2>2. EndSet(kept, f[n].list, n, f[n].size)
    BY <1>4, <2>1, ListEnd
  <2> QED
    BY <1>4, <1>5, <2>2 DEF EndSet, kept
<1> QED
  BY <1>6, <1>7

-----------------------------------------------------------------------------
(* A clean disc.                                                           *)
\* A track as it is pressed: the sync bytes of its first sector are the first
\* ones, no sector is missing behind the last one, and time goes on.
Sound(t) ==
    /\ Whole(t) /\ t.tail < Sector /\ OnlyThere(t) /\ Increasing(t.stamps)
    /\ \A j \in DOMAIN t.stamps : t.stamps[j] >= -1

LEMMA SectorsOf ==
    ASSUME NEW t, Sound(t) PROVE Sectors(t, Len(t.lead)) = Len(t.stamps)
<1>1. Len(t.lead) \in Nat /\ Len(t.stamps) \in Nat /\ t.tail \in 0..Sector - 1
      /\ Sector \in Nat \ {0}
  BY LenProperties, SyncIs DEF Sound, Whole, Bytes
<1> DEFINE k == Sector * Len(t.stamps)
<1>2. TrackSize(t) = Len(t.lead) + k + t.tail
  BY DEF TrackSize
<1>3. \A a, b \in Nat : a * b \in Nat
  OBVIOUS
<1>4. k \in Nat
  BY <1>1, <1>3
<1>5. (k + t.tail) \div Sector = Len(t.stamps)
  BY <1>1, Quotient
<1> HIDE DEF k
<1>6. TrackSize(t) - Len(t.lead) = k + t.tail
  BY <1>1, <1>2, <1>4
<1> QED
  BY <1>5, <1>6 DEF Sectors

\* A sector that can be read and has the time is found.
LEMMA SectorFound ==
    ASSUME NEW t, Sound(t), -1 \notin ToSet(t.stamps), NEW time \in ToSet(t.stamps)
    PROVE  /\ FirstSync(t) = Len(t.lead) /\ Len(t.lead) \in Nat
           /\ Locate(t, FirstSync(t), time) \in Nat
           /\ FirstSync(t) + Locate(t, FirstSync(t), time) * Sector = SectorPos(t, time)
<1>1. /\ t.stamps \in Seq(Int) /\ Len(t.lead) \in Nat /\ Len(t.stamps) \in Nat
      /\ DOMAIN t.stamps = 1..Len(t.stamps) /\ Sector \in Nat
      /\ \A j \in DOMAIN t.stamps : t.stamps[j] \in Int
  BY LenProperties, ElementOfSeq, SyncIs DEF Sound, Whole, Bytes
<1>2. \A j \in DOMAIN t.stamps : t.stamps[j] >= 0
  BY <1>1 DEF Sound, ToSet
<1>3. \E i \in DOMAIN t.stamps : t.stamps[i] = time
  BY DEF ToSet
<1> DEFINE i == CHOOSE i \in DOMAIN t.stamps : t.stamps[i] = time
<1>4. i \in DOMAIN t.stamps /\ t.stamps[i] = time
  BY <1>3
<1>5. SectorPos(t, time) = Len(t.lead) + Sector * i - Sector
  BY DEF SectorPos
<1> HIDE DEF i
<1>6. t.stamps # <<>>
  BY <1>1, <1>4
<1>7. FirstSync(t) = Len(t.lead)
  BY <1>6, FirstSyncFound DEF Sound, Whole
<1>8. Locate(t, FirstSync(t), time) = i - 1
  BY <1>1, <1>2, <1>4, <1>7, SectorsOf, LocateFinds DEF Sound
<1>9. i - 1 \in Nat
  BY <1>1, <1>4
<1>10. (i - 1) * Sector = Sector * i - Sector /\ Sector * i \in Nat
  <2>1. \A a, b \in Nat : a * b \in Nat /\ (a - 1) * b = b * a - b
    OBVIOUS
  <2>2. i \in Nat
    BY <1>1, <1>4
  <2>3. Sector * i \in Nat
    BY <1>1, <2>1, <2>2
  <2>4. (i - 1) * Sector = Sector * i - Sector
    BY <1>1, <2>1, <2>2
  <2> QED
    BY <2>3, <2>4
<1> QED
  BY <1>1, <1>5, <1>7, <1>8, <1>9, <1>10

CleanInv(d, kept, s, k) ==
    /\ ~s.failed
    /\ \A j \in 1..k : s.list[j].start = SectorPos(d.tracks[kept[j].track], kept[j].time)
    /\ \A j \in 1..k - 1 : kept[j].track = kept[j + 1].track => s.list[j].end = s.list[j + 1].start

CleanKept(d, kept) ==
    /\ \A j \in 1..Len(kept) : kept[j].track \in DOMAIN d.tracks
                               /\ kept[j].time \in ToSet(d.tracks[kept[j].track].stamps)
    /\ \A k \in DOMAIN d.tracks : Sound(d.tracks[k]) /\ -1 \notin ToSet(d.tracks[k].stamps)

LEMMA CleanStep ==
    ASSUME NEW d, NEW kept, Len(kept) \in Nat, CleanKept(d, kept), NEW k \in 1..Len(kept), NEW s,
           ScanInv(d, kept, s, k - 1), CleanInv(d, kept, s, k - 1)
    PROVE  CleanInv(d, kept, ScanChapter(d, s, k), k)
<1> DEFINE t == d.tracks[kept[k].track]
           r == ScanChapter(d, s, k)
           c == EndTrack(kept, s, k)
           pos == SectorPos(t, kept[k].time)
<1> SUFFICES CleanInv(d, kept, r, k)
  OBVIOUS
<1>1. kept[k].track \in DOMAIN d.tracks /\ Sound(t) /\ -1 \notin ToSet(t.stamps)
      /\ kept[k].time \in ToSet(t.stamps)
  BY DEF CleanKept
<1>2. /\ FirstSync(t) \in Nat /\ SectorOf(d, kept, k) \in Nat
      /\ FirstSync(t) + SectorOf(d, kept, k) * Sector = pos
  BY <1>1, SectorFound DEF SectorOf
<1>3. ~s.failed /\ ~(FirstSync(t) < 0) /\ ~(SectorOf(d, kept, k) < 0) /\ SectorOf(d, kept, k) # Failed
  BY <1>2 DEF CleanInv, Failed
<1>4. r = AfterChapter(d, kept, s, k)
  BY <1>1, <1>3, RoundIs
<1>5. pos \in Nat
  <2>1. FirstSync(t) + SectorOf(d, kept, k) * Sector \in Nat
    BY <1>2, PosNat
  <2> QED
    BY <1>2, <2>1
<1>6. r.list = PlaceChapter(c, k, pos) /\ ~r.failed
  <2>1. Placed(d, kept, c, k) = PlaceChapter(c, k, pos)
    BY <1>2, <1>3 DEF Placed
  <2>2. r.list = Placed(d, kept, c, k) /\ r.failed = (SectorOf(d, kept, k) = Failed)
    <3> HIDE DEF r
    <3> QED
      BY <1>4 DEF AfterChapter
  <2> QED
    BY <1>3, <2>1, <2>2
<1>7. ListOf(kept, s.list) /\ s.size \in Nat
  BY DEF ScanInv, ScanStates
<1>8. /\ ListOf(kept, c) /\ \A j \in 1..Len(kept) : c[j].start = s.list[j].start
      /\ \A j \in 1..Len(kept) : j # k - 1 => c[j] = s.list[j]
  <2>1. CASE NewTrack(kept, k)
    <3>1. c = EndBefore(s.list, k, s.size)
      BY <2>1 DEF EndTrack
    <3> HIDE DEF c
    <3>2. Ended(kept, s.list, c, k, s.size)
      BY <1>7, <3>1, EndBeforeIs
    <3>3. ListOf(kept, c)
      BY <3>2 DEF Ended
    <3>4. \A j \in 1..Len(kept) : c[j].start = s.list[j].start
      BY <3>2 DEF Ended
    <3>5. \A j \in 1..Len(kept) : j # k - 1 => c[j] = s.list[j]
      BY <3>2 DEF Ended
    <3> QED
      BY <3>3, <3>4, <3>5
  <2>2. CASE ~NewTrack(kept, k)
    BY <1>7, <2>2 DEF EndTrack
  <2> QED
    BY <2>1, <2>2
<1> HIDE DEF c, t
<1> DEFINE p == PlaceChapter(c, k, pos)
<1>9. /\ k > 1 => p[k - 1].end = pos
      /\ p[k].start = pos
      /\ \A j \in 1..Len(kept) : j # k => p[j].start = c[j].start
      /\ \A j \in 1..Len(kept) : j # k /\ j # k - 1 => p[j] = c[j]
  <2>1. PlaceSet(kept, c, PlaceChapter(c, k, pos), k, pos)
    <3> HIDE DEF pos
    <3> QED
      BY <1>5, <1>8, PlaceIs
  <2> QED
    BY <2>1 DEF PlaceSet
<1> HIDE DEF p
<1>10. ASSUME NEW j \in 1..k PROVE p[j].start = SectorPos(d.tracks[kept[j].track], kept[j].time)
  <2>1. CASE j = k
    BY <1>9, <2>1 DEF t
  <2>2. CASE j # k
    <3>1. j \in 1..k - 1 /\ j \in 1..Len(kept)
      BY <2>2
    <3> QED
      BY <1>8, <1>9, <2>2, <3>1 DEF CleanInv
  <2> QED
    BY <2>1, <2>2
<1>11. ASSUME NEW j \in 1..k - 1, kept[j].track = kept[j + 1].track PROVE p[j].end = p[j + 1].start
  <2>1. CASE j = k - 1
    <3>1. k > 1 /\ j + 1 = k
      BY <2>1
    <3> QED
      BY <1>9, <2>1, <3>1
  <2>2. CASE j # k - 1
    <3>1. j \in 1..k - 1 - 1 /\ j \in 1..Len(kept) /\ j + 1 \in 1..Len(kept) /\ j # k /\ j + 1 # k
      BY <2>2
    <3>2. p[j].end = s.list[j].end /\ p[j + 1].start = s.list[j + 1].start
      BY <1>8, <1>9, <2>2, <3>1
    <3> QED
      BY <1>11, <3>1, <3>2 DEF CleanInv
  <2> QED
    BY <2>1, <2>2
<1> QED
  BY <1>6, <1>10, <1>11 DEF CleanInv, p

LEMMA CleanAlways ==
    ASSUME NEW d, Readable(d), NEW kept, Len(kept) \in Nat, ListOf(kept, kept), CleanKept(d, kept),
           NEW f, Scans(f, d, kept, Len(kept))
    PROVE  \A k \in 0..Len(kept) : CleanInv(d, kept, f[k], k)
<1> DEFINE n == Len(kept)
           Bad == {k \in 0..n : ~CleanInv(d, kept, f[k], k)}
<1>1. SUFFICES ASSUME Bad # {} PROVE FALSE
  OBVIOUS
<1>2. Bad \in SUBSET Nat
  OBVIOUS
<1> HIDE DEF Bad
<1>3. PICK m \in Bad : \A x \in Bad : m <= x
  BY <1>1, <1>2, LeastOf
<1>4. m \in 0..n /\ ~CleanInv(d, kept, f[m], m)
  BY <1>3 DEF Bad
<1>5. CASE m = 0
  <2>1. ~f[0].failed
    BY <1>4, <1>5 DEF Scans
  <2> QED
    BY <1>4, <1>5, <2>1 DEF CleanInv
<1>6. CASE m # 0
  <2>1. m \in 1..n /\ m - 1 \in 0..n /\ m - 1 < m
    BY <1>4, <1>6
  <2>2. m - 1 \notin Bad
    BY <1>3, <1>4, <2>1
  <2>3. CleanInv(d, kept, f[m - 1], m - 1)
    BY <2>1, <2>2 DEF Bad
  <2>4. ScanInv(d, kept, f[m - 1], m - 1)
    BY <2>1, ScanAlways
  <2>5. f[m] = ScanChapter(d, f[m - 1], m)
    BY <2>1, ScanIs
  <2> QED
    BY <1>4, <2>1, <2>3, <2>4, <2>5, CleanStep
<1> QED
  BY <1>5, <1>6

\* A Video CD: whatever happened to its tracks, and whole ones when it is clean.
Pressed(d) ==
    /\ d.entries \in Seq([track : Nat, time : Nat]) /\ Readable(d)
    /\ Clean(d) => \A k \in DOMAIN d.tracks : Sound(d.tracks[k])

LEMMA PressedKept ==
    ASSUME NEW d, Pressed(d)
    PROVE  /\ Len(d.entries) \in Nat /\ Len(Kept(d.entries)) \in Nat /\ Readable(d)
           /\ ListOf(Kept(d.entries), Kept(d.entries)) /\ ListOf(Kept(d.entries), Chapters(d))
<1>1. Len(d.entries) \in Nat /\ Readable(d)
  BY LenProperties DEF Pressed
<1> QED
  BY <1>1, KeptIsList, ChaptersAre

LEMMA CleanIs ==
    ASSUME NEW d, Pressed(d), Clean(d)
    PROVE  CleanKept(d, Kept(d.entries))
<1> DEFINE kept == Kept(d.entries)
<1>1. \A k \in DOMAIN d.tracks : Sound(d.tracks[k]) /\ -1 \notin ToSet(d.tracks[k].stamps)
  BY DEF Pressed, Clean
<1>2. Len(kept) \in Nat /\ ListOf(kept, kept)
  BY PressedKept
<1>3. \A e \in ToSet(kept) : e.track \in DOMAIN d.tracks /\ e.time \in ToSet(d.tracks[e.track].stamps)
  BY DEF Clean
<1> HIDE DEF kept
<1>4. DOMAIN kept = 1..Len(kept)
  BY <1>2, LenProperties DEF ListOf
<1>5. \A j \in 1..Len(kept) : kept[j] \in ToSet(kept)
  BY <1>4 DEF ToSet
<1> QED
  BY <1>1, <1>3, <1>5 DEF CleanKept, kept

\* Where the chapters of a clean disc lie.
Lying(d, kept, c, n) ==
    /\ \A j \in 1..n : c[j].start = SectorPos(d.tracks[kept[j].track], kept[j].time)
    /\ \A j \in 1..n - 1 : kept[j].track = kept[j + 1].track => c[j].end = c[j + 1].start
    /\ n > 0 => c[n].end = TrackSize(d.tracks[kept[n].track])

LEMMA LastStamp ==
    ASSUME NEW t, Sound(t), -1 \notin ToSet(t.stamps), NEW time \in ToSet(t.stamps)
    PROVE  Last(t.stamps) >= 0
<1>1. /\ t.stamps \in Seq(Int) /\ Len(t.stamps) \in Nat
      /\ DOMAIN t.stamps = 1..Len(t.stamps)
  BY LenProperties DEF Sound, Whole, Bytes
<1>2. DOMAIN t.stamps # {}
  BY DEF ToSet
<1>3. Len(t.stamps) \in DOMAIN t.stamps
  BY <1>1, <1>2
<1>4. t.stamps[Len(t.stamps)] \in Int /\ t.stamps[Len(t.stamps)] # -1
      /\ t.stamps[Len(t.stamps)] >= -1
  BY <1>1, <1>3, ElementOfSeq DEF Sound, ToSet
<1> QED
  BY <1>4 DEF Last

LEMMA ChaptersLie ==
    ASSUME NEW d, Pressed(d), Clean(d)
    PROVE  Lying(d, Kept(d.entries), Chapters(d), Len(Kept(d.entries)))
<1> DEFINE kept == Kept(d.entries)
           n == Len(kept)
<1>1. n \in Nat /\ ListOf(kept, kept) /\ Readable(d) /\ CleanKept(d, kept)
  BY PressedKept, CleanIs
<1>2. PICK f : Scans(f, d, kept, n) /\ Chapters(d) = Scanned(d, f, n)
  BY <1>1, ChaptersIs
<1>3. Chapters(d) = IF ~f[n].failed /\ Last(d.tracks[kept[n].track].stamps) >= 0
                    THEN SetEnd(f[n].list, n, f[n].size) ELSE f[n].list
  BY <1>2 DEF Scanned, SetEnd
<1> HIDE DEF kept
<1>4. ScanInv(d, kept, f[n], n) /\ CleanInv(d, kept, f[n], n)
  BY <1>1, <1>2, ScanAlways, CleanAlways
<1>5. CASE n = 0
  BY <1>5 DEF Lying, kept
<1>6. CASE n # 0
  <2> DEFINE t == d.tracks[kept[n].track]
  <2>1. n \in 1..n /\ n > 0
    BY <1>1, <1>6
  <2>2. Sound(t) /\ -1 \notin ToSet(t.stamps) /\ kept[n].time \in ToSet(t.stamps)
    BY <1>1, <2>1 DEF CleanKept
  <2>3. Last(t.stamps) >= 0
    BY <2>2, LastStamp
  <2> DEFINE l == f[n].list
             c == SetEnd(l, n, TrackSize(t))
  <2>4. Chapters(d) = c
    BY <1>3, <1>4, <2>1, <2>3 DEF ScanInv, CleanInv
  <2>5. ListOf(kept, l) /\ TrackSize(t) \in Nat
    BY <1>4, <2>2, SizeNat DEF ScanInv, Sound
  <2>6. EndSet(kept, l, n, TrackSize(t))
    BY <1>1, <2>1, <2>5, ListEnd
  <2>7. /\ \A j \in 1..n : l[j].start = SectorPos(d.tracks[kept[j].track], kept[j].time)
        /\ \A j \in 1..n - 1 : kept[j].track = kept[j + 1].track => l[j].end = l[j + 1].start
    BY <1>4 DEF CleanInv
  <2>8. /\ c[n].end = TrackSize(t)
        /\ \A j \in 1..n : c[j].start = l[j].start
        /\ \A j \in 1..n : j # n => c[j] = l[j]
    BY <2>6 DEF EndSet
  <2> HIDE DEF l, c, t
  <2>9. \A j \in 1..n : c[j].start = SectorPos(d.tracks[kept[j].track], kept[j].time)
    BY <2>7, <2>8
  <2>10. ASSUME NEW j \in 1..n - 1, kept[j].track = kept[j + 1].track PROVE c[j].end = c[j + 1].start
    <3>1. j \in 1..n /\ j # n /\ j + 1 \in 1..n
      BY <1>1
    <3> QED
      BY <2>7, <2>8, <2>10, <3>1
  <2> QED
    BY <2>4, <2>8, <2>9, <2>10 DEF Lying, kept, t
<1> QED
  BY <1>5, <1>6

-----------------------------------------------------------------------------
(* What the chapters of a disc are, and its files.                         *)
LEMMA PosInside ==
    ASSUME NEW t, Sound(t), NEW time \in ToSet(t.stamps)
    PROVE  SectorPos(t, time) <= TrackSize(t)
<1>1. /\ t.stamps \in Seq(Int) /\ Len(t.lead) \in Nat /\ Len(t.stamps) \in Nat /\ t.tail \in Nat
      /\ DOMAIN t.stamps = 1..Len(t.stamps) /\ Sector \in Nat
  BY LenProperties, SyncIs DEF Sound, Whole, Bytes
<1>2. \E i \in DOMAIN t.stamps : t.stamps[i] = time
  BY DEF ToSet
<1> DEFINE i == CHOOSE i \in DOMAIN t.stamps : t.stamps[i] = time
           n == Len(t.stamps)
<1>3. i \in 1..n
  BY <1>1, <1>2
<1>4. SectorPos(t, time) = Len(t.lead) + Sector * i - Sector
  BY DEF SectorPos
<1>5. TrackSize(t) = Len(t.lead) + Sector * n + t.tail
  BY DEF TrackSize
<1> HIDE DEF i, n
<1>6. Sector * i \in Nat /\ Sector * n \in Nat /\ Sector * i <= Sector * n
  <2> DEFINE m == n - i
  <2>1. i \in Nat /\ m \in Nat /\ n = i + m
    BY <1>1, <1>3 DEF n
  <2> HIDE DEF m
  <2>2. \A x, y, z \in Nat : x * y \in Nat /\ x * (y + z) = x * y + x * z
    OBVIOUS
  <2>3. Sector * i \in Nat /\ Sector * m \in Nat /\ Sector * n = Sector * i + Sector * m
    BY <1>1, <2>1, <2>2
  <2> QED
    BY <2>3
<1> QED
  BY <1>1, <1>4, <1>5, <1>6

LEMMA ChapterAt ==
    ASSUME NEW kept, NEW c, ListOf(kept, c), Len(kept) \in Nat, NEW j \in 1..Len(kept)
    PROVE  /\ c[j].start \in Nat /\ c[j].end \in Nat /\ DOMAIN c = 1..Len(kept) /\ Len(c) = Len(kept)
           /\ c[j].track = kept[j].track /\ c[j].time = kept[j].time
<1>1. c \in Seq(ChapterSet(kept)) /\ Len(c) = Len(kept)
  BY DEF ListOf
<1>2. c[j] \in ChapterSet(kept) /\ DOMAIN c = 1..Len(kept)
  BY <1>1, LenProperties, ElementOfSeq
<1> QED
  BY <1>1, <1>2 DEF ListOf, ChapterSet

\* What ChaptersTile says.
LEMMA TilesIs ==
    ASSUME NEW d, Pressed(d), Clean(d)
    PROVE  LET c == Chapters(d) IN
           \A k \in DOMAIN c :
              /\ c[k].start = SectorPos(d.tracks[c[k].track], c[k].time)
              /\ k = Len(c) => c[k].end = TrackSize(d.tracks[c[k].track])
              /\ k < Len(c) /\ c[k].track = c[k + 1].track => c[k].end = c[k + 1].start
<1> DEFINE kept == Kept(d.entries)
           c == Chapters(d)
           n == Len(kept)
<1>1. n \in Nat /\ ListOf(kept, c) /\ Lying(d, kept, c, n)
  BY PressedKept, ChaptersLie
<1> SUFFICES ASSUME NEW k \in DOMAIN c
             PROVE  /\ c[k].start = SectorPos(d.tracks[c[k].track], c[k].time)
                    /\ k = Len(c) => c[k].end = TrackSize(d.tracks[c[k].track])
                    /\ k < Len(c) /\ c[k].track = c[k + 1].track => c[k].end = c[k + 1].start
  OBVIOUS
<1> HIDE DEF kept, c
<1>2. k \in 1..n /\ Len(c) = n
  BY <1>1, LenProperties DEF ListOf
<1>3. c[k].track = kept[k].track /\ c[k].time = kept[k].time
  BY <1>1, <1>2 DEF ListOf
<1>4. c[k].start = SectorPos(d.tracks[c[k].track], c[k].time)
  BY <1>1, <1>2, <1>3 DEF Lying
<1>5. CASE k = n
  <2>1. n > 0
    BY <1>1, <1>2
  <2>2. c[k].end = TrackSize(d.tracks[c[k].track])
    BY <1>1, <1>3, <1>5, <2>1 DEF Lying
  <2> QED
    BY <1>2, <1>4, <1>5, <2>2
<1>6. CASE k # n
  <2>1. k \in 1..n - 1 /\ k + 1 \in 1..n
    BY <1>1, <1>2, <1>6
  <2>2. c[k + 1].track = kept[k + 1].track
    BY <1>1, <2>1 DEF ListOf
  <2>3. c[k].track = c[k + 1].track => c[k].end = c[k + 1].start
    BY <1>1, <1>3, <2>1, <2>2 DEF Lying
  <2> QED
    BY <1>2, <1>4, <1>6, <2>3
<1> QED
  BY <1>5, <1>6

\* The files that are made of the chapters.
LEMMA FileIs ==
    ASSUME NEW d, Pressed(d), NEW f \in VcdFiles(d)
    PROVE  LET c == Chapters(d) IN
           \/ \E k \in 1..Len(Kept(d.entries)) : f = VcdFile(c[k], FALSE, c[k].end)
           \/ /\ 1 \in 1..Len(Kept(d.entries)) /\ Len(Kept(d.entries)) \in 1..Len(Kept(d.entries))
              /\ f = VcdFile(c[1], TRUE, c[Len(Kept(d.entries))].end - c[1].start)
<1> DEFINE c == Chapters(d)
           n == Len(Kept(d.entries))
<1>1. n \in Nat /\ Len(c) = n /\ DOMAIN c = 1..n
  BY PressedKept, LenProperties DEF ListOf
<1>2. f \in {VcdFile(c[k], FALSE, c[k].end) : k \in DOMAIN c}
           \cup (IF Len(c) > 1 THEN {VcdFile(c[1], TRUE, Last(c).end - c[1].start)} ELSE {})
  BY DEF VcdFiles
<1> HIDE DEF c, n
<1>3. CASE \E k \in DOMAIN c : f = VcdFile(c[k], FALSE, c[k].end)
  BY <1>1, <1>3 DEF c, n
<1>4. CASE Len(c) > 1 /\ f = VcdFile(c[1], TRUE, Last(c).end - c[1].start)
  <2>1. Last(c) = c[n] /\ 1 \in 1..n /\ n \in 1..n
    BY <1>1, <1>4 DEF Last
  <2>2. f = VcdFile(c[1], TRUE, c[n].end - c[1].start)
    BY <1>4, <2>1
  <2> QED
    BY <2>1, <2>2 DEF c, n
<1> QED
  BY <1>2, <1>3, <1>4

Positions(d) == \A f \in VcdFiles(d) : f.start \in Nat /\ f.end \in Int
Tiled(d) ==
    \A f \in VcdFiles(d) :
       LET size == TrackSize(d.tracks[f.track]) IN
       IF f.full THEN f.end = size - f.start ELSE f.end =< size

LEMMA PositionsAre == ASSUME NEW d, Pressed(d) PROVE Positions(d)
<1> SUFFICES ASSUME NEW f \in VcdFiles(d) PROVE f.start \in Nat /\ f.end \in Int
  BY DEF Positions
<1> DEFINE c == Chapters(d)
           kept == Kept(d.entries)
           n == Len(kept)
<1>1. n \in Nat /\ ListOf(kept, c)
  BY PressedKept
<1>2. \/ \E k \in 1..n : f = VcdFile(c[k], FALSE, c[k].end)
      \/ 1 \in 1..n /\ n \in 1..n /\ f = VcdFile(c[1], TRUE, c[n].end - c[1].start)
  BY FileIs
<1> HIDE DEF c, kept
<1>3. \A k \in 1..n : c[k].start \in Nat /\ c[k].end \in Nat
  BY <1>1, ChapterAt
<1>4. CASE \E k \in 1..n : f = VcdFile(c[k], FALSE, c[k].end)
  BY <1>3, <1>4 DEF VcdFile
<1>5. CASE 1 \in 1..n /\ n \in 1..n /\ f = VcdFile(c[1], TRUE, c[n].end - c[1].start)
  <2>1. f.start = c[1].start /\ f.end = c[n].end - c[1].start
    BY <1>5 DEF VcdFile
  <2>2. c[1].start \in Nat /\ c[n].end \in Nat
    BY <1>3, <1>5
  <2> QED
    BY <2>1, <2>2
<1> QED
  BY <1>2, <1>4, <1>5

LEMMA OneTrackKept ==
    ASSUME NEW d, Pressed(d), OneTrack(d)
    PROVE  \A i, j \in 1..Len(Kept(d.entries)) : Kept(d.entries)[i].track = Kept(d.entries)[j].track
<1> DEFINE kept == Kept(d.entries)
           R == {Chapter(d.entries[k]) : k \in 1..Len(d.entries)}
<1>1. Len(d.entries) \in Nat /\ DOMAIN d.entries = 1..Len(d.entries)
  BY LenProperties DEF Pressed
<1>2. kept \in Seq(R)
  BY <1>1, KeptList
<1>3. \A r \in R : r.track = d.entries[1].track
  <2> SUFFICES ASSUME NEW k \in 1..Len(d.entries) PROVE Chapter(d.entries[k]).track = d.entries[1].track
    OBVIOUS
  <2>1. d.entries[k] \in ToSet(d.entries)
    BY <1>1 DEF ToSet
  <2> QED
    BY <2>1 DEF Chapter, OneTrack
<1> HIDE DEF R
<1> SUFFICES ASSUME NEW i \in 1..Len(kept), NEW j \in 1..Len(kept) PROVE kept[i].track = kept[j].track
  OBVIOUS
<1> HIDE DEF kept
<1>4. kept[i] \in R /\ kept[j] \in R
  BY <1>2, ElementOfSeq
<1> QED
  BY <1>3, <1>4

\* Of a clean disc with one track, the chapters end in it, and the title's end
\* is the size of the chapters.
LEMMA TiledIs == ASSUME NEW d, Pressed(d), Clean(d), OneTrack(d) PROVE Tiled(d)
<1> DEFINE c == Chapters(d)
           kept == Kept(d.entries)
           n == Len(kept)
<1>1. n \in Nat /\ ListOf(kept, c) /\ Lying(d, kept, c, n) /\ CleanKept(d, kept)
  BY PressedKept, ChaptersLie, CleanIs
<1>2. \A i, j \in 1..n : kept[i].track = kept[j].track
  BY OneTrackKept
<1> SUFFICES ASSUME NEW f \in VcdFiles(d)
             PROVE  IF f.full THEN f.end = TrackSize(d.tracks[f.track]) - f.start
                    ELSE f.end =< TrackSize(d.tracks[f.track])
  BY DEF Tiled
<1>3. \/ \E k \in 1..n : f = VcdFile(c[k], FALSE, c[k].end)
      \/ 1 \in 1..n /\ n \in 1..n /\ f = VcdFile(c[1], TRUE, c[n].end - c[1].start)
  BY FileIs
<1> HIDE DEF c, kept
<1>4. \A k \in 1..n : c[k].start \in Nat /\ c[k].end \in Nat /\ c[k].track = kept[k].track
  BY <1>1, ChapterAt
<1>5. n > 0 => c[n].end = TrackSize(d.tracks[kept[n].track])
  BY <1>1 DEF Lying
<1>6. ASSUME NEW k \in 1..n PROVE c[k].end <= TrackSize(d.tracks[c[k].track])
  <2>1. CASE k = n
    <3>1. c[k].end = TrackSize(d.tracks[c[k].track])
      BY <1>1, <1>4, <1>5, <2>1
    <3> QED
      BY <1>4, <3>1
  <2>2. CASE k # n
    <3>1. k \in 1..n - 1 /\ k + 1 \in 1..n
      BY <1>1, <2>2
    <3>2. kept[k + 1].track = kept[k].track
      BY <1>2, <3>1
    <3> DEFINE t == d.tracks[kept[k].track]
               time == kept[k + 1].time
    <3>3. c[k].end = SectorPos(t, time)
      BY <1>1, <3>1, <3>2 DEF Lying
    <3>4. Sound(t) /\ time \in ToSet(t.stamps)
      BY <1>1, <3>1, <3>2 DEF CleanKept
    <3> HIDE DEF t, time
    <3>5. c[k].end <= TrackSize(t)
      BY <3>3, <3>4, PosInside
    <3> QED
      BY <1>4, <3>5 DEF t
  <2> QED
    BY <2>1, <2>2
<1>7. CASE \E k \in 1..n : f = VcdFile(c[k], FALSE, c[k].end)
  <2>1. PICK k \in 1..n : f = VcdFile(c[k], FALSE, c[k].end)
    BY <1>7
  <2>2. ~f.full /\ f.end = c[k].end /\ f.track = c[k].track
    BY <2>1 DEF VcdFile
  <2> QED
    BY <1>6, <2>2
<1>8. CASE 1 \in 1..n /\ n \in 1..n /\ f = VcdFile(c[1], TRUE, c[n].end - c[1].start)
  <2>1. f.full /\ f.end = c[n].end - c[1].start /\ f.track = c[1].track /\ f.start = c[1].start
    BY <1>8 DEF VcdFile
  <2>2. f.track = kept[1].track
    BY <1>4, <1>8, <2>1
  <2>3. kept[1].track = kept[n].track
    BY <1>2, <1>8
  <2>4. n > 0
    BY <1>1, <1>8
  <2> QED
    BY <1>5, <2>1, <2>2, <2>3, <2>4
<1> QED
  BY <1>3, <1>7, <1>8

-----------------------------------------------------------------------------
\* Nobody changes the disc.
DiscInv == disc = NoIO \/ disc \in Discs

LEMMA DiscStays == DiscInv /\ [SourceNext]_sourceVars => DiscInv'
<1>1. [SourceNext]_sourceVars => disc' = disc
  BY DEF SourceNext, OpenSource, SourceRead, SourceSeek, CloseSource, SetupStep, sourceVars,
         inputVars, InputOpen, InputRead, InputSeek, InputClose
<1> QED
  BY <1>1 DEF DiscInv

\* scan_chapters finds the sector where each chapter of a clean Video CD begins; a
\* chapter ends where the next one of its track begins, and the last one of the disc
\* at the end of its track (the last one of an earlier track does not): for sync
\* bytes and sectors of any length, and any number of entries, tracks and sectors.
THEOREM ChaptersTileHolds ==
    ASSUME \A d \in Discs : d.type = "vcd" => Pressed(d)
    PROVE  SourceSpec => []ChaptersTile
<1>1. SourceInit => DiscInv
  BY DEF SourceInit, InputInit, DiscInv
<1>2. DiscInv => ChaptersTile
  <2> SUFFICES ASSUME DiscInv, disc.type = "vcd", Clean(disc) PROVE ChaptersTile
    BY DEF ChaptersTile
  <2>1. disc \in Discs
    BY DEF DiscInv, NoIO
  <2>2. Pressed(disc)
    BY <2>1
  <2> QED
    BY <2>2, TilesIs DEF ChaptersTile
<1> QED
  BY <1>1, <1>2, DiscStays, PTL DEF SourceSpec
=============================================================================
