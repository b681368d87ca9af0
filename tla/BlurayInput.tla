---------------------------- MODULE BlurayInput ----------------------------
(***************************************************************************)
(* Blu-ray discs as input: the virtual files made of the titles            *)
(* (blurayparser.cc) and reading one of them (blurayio.cc).                *)
(*                                                                         *)
(* A disc is a sequence of titles: the size, the position and duration in  *)
(* seconds of each chapter, the number of angles, and the access points to *)
(* which the library seeks.  libbluray is external: bd_read delivers what  *)
(* is asked for up to the end of the title, and bd_seek goes to the last   *)
(* access point at or before a position.  Chapters begin at access points. *)
(***************************************************************************)
EXTENDS Integers, Sequences, FiniteSetsExt

CONSTANT BlurayBuffer    \* size of m_data

BdSeekPoint(title, pos) == Max({a \in title.access : a <= pos})

-----------------------------------------------------------------------------
(***************************************************************************)
(* create_bluray_virtualfile: nothing shorter than a second, and the title *)
(* if there are several chapters.  The angle is always the first.          *)
(***************************************************************************)
BlurayFile(k, chapter, full) ==
    [type |-> "bluray", title |-> k, chapter |-> chapter, full |-> full, angle |-> 1]
BlurayFiles(d) ==
    UNION {LET t     == d.titles[k]
               parts == {i \in DOMAIN t.chapters : t.seconds[i] >= 1} IN
           {BlurayFile(k, i, FALSE) : i \in parts}
           \cup IF Len(t.chapters) > 1 /\ parts # {} THEN {BlurayFile(k, 1, TRUE)} ELSE {}
           : k \in DOMAIN d.titles}

-----------------------------------------------------------------------------
(***************************************************************************)
(* BlurayIO.  m_end_pos of a chapter is one less than the position of the  *)
(* next one, and readio stops before m_end_pos.                            *)
(***************************************************************************)
BlurayEnd(t, v) ==
    IF v.chapter < Len(t.chapters) /\ ~v.full THEN t.chapters[v.chapter + 1] - 1 ELSE t.size
BlurayOpen(d, v) ==
    LET t == d.titles[v.title] IN
    [io    |-> [file |-> v, start |-> BdSeekPoint(t, t.chapters[v.chapter]), end |-> BlurayEnd(t, v),
                bd |-> BdSeekPoint(t, t.chapters[v.chapter]), pos |-> 0, rest |-> <<>>, error |-> FALSE],
     moved |-> TRUE]

\* What is left of a block is delivered as a whole, or not at all.
BlurayRest(s, n) ==
    IF Len(s.rest) > n THEN [io |-> s, bytes |-> <<>>]
    ELSE [io |-> [s EXCEPT !.rest = <<>>], bytes |-> s.rest]
BlurayBlock(d, s, n) ==
    LET t     == d.titles[s.file.title]
        got   == Min({BlurayBuffer, s.end - s.bd, t.size - s.bd})
        block == [i \in 1..got |-> s.bd + i - 1] IN
    [io    |-> [s EXCEPT !.bd = @ + got, !.pos = s.bd + got, !.rest = SubSeq(block, n + 1, got)],
     bytes |-> SubSeq(block, 1, Min({n, got}))]
BlurayRead(d, s, n) ==
    IF s.rest # <<>> THEN BlurayRest(s, n)
    ELSE IF s.bd < s.end THEN BlurayBlock(d, s, n)
    ELSE [io |-> [s EXCEPT !.pos = s.bd], bytes |-> <<>>]

\* Beyond the end only m_cur_pos moves.  The seek has failed when the library
\* went somewhere else, but it has moved.
BluraySeek(d, s, offset) ==
    LET target == s.start + offset
        point  == BdSeekPoint(d.titles[s.file.title], target) IN
    IF target > s.end THEN [io |-> [s EXCEPT !.pos = s.end], moved |-> TRUE]
    ELSE [io |-> [s EXCEPT !.bd = point, !.pos = point], moved |-> point = target]
BlurayEof(s) == s.pos >= s.end

-----------------------------------------------------------------------------
\* A chapter lasts until the next one begins.
BlurayContents(d, v) ==
    LET t   == d.titles[v.title]
        end == IF v.chapter < Len(t.chapters) /\ ~v.full THEN t.chapters[v.chapter + 1] ELSE t.size IN
    [i \in 1..(end - t.chapters[v.chapter]) |-> t.chapters[v.chapter] + i - 1]
=============================================================================
