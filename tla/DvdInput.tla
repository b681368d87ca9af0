------------------------------ MODULE DvdInput ------------------------------
(***************************************************************************)
(* DVDs as input: the virtual files made of a title (dvdparser.cc) and     *)
(* reading one of them (dvdio.cc).                                         *)
(*                                                                         *)
(* A disc has one title of one program chain: the first cell of every      *)
(* chapter (programs), the number of angles, and the cells.  A cell has    *)
(* its first and last sector, its place in a block of angles (mode), its   *)
(* duration in seconds, and the VOBUs it consists of.  A VOBU is known by  *)
(* the sector of its navigation pack, and has the size of its data (ea),   *)
(* the distance of the next VOBU or 0 after the last one of the cell       *)
(* (next), and its packets.  The fields of interleaved units are category, *)
(* unit, unitEnd and angles; readable is FALSE for a VOBU with a defect.   *)
(* libdvdread is external: it returns what the disc has.                   *)
(***************************************************************************)
EXTENDS Integers, Sequences, SequencesExt, FiniteSetsExt

CONSTANT MinChapter     \* params.m_min_dvd_chapter_duration

Cells(d)    == Len(d.cells)
InAngle(c)  == c.mode # "none"
ChapterEnd(d, k) == IF k < Len(d.programs) THEN d.programs[k + 1] ELSE Cells(d) + 1

-----------------------------------------------------------------------------
(***************************************************************************)
(* create_dvd_virtualfile: a file per angle for chapters with angles, and  *)
(* the title, with its first angle, if there are several chapters.         *)
(***************************************************************************)
DvdFile(chapter, angle, full) ==
    [type |-> "dvd", chapter |-> chapter, angle |-> angle, full |-> full]
DvdPart(d, chapter, full, angles) ==
    LET end   == IF full THEN Cells(d) + 1 ELSE ChapterEnd(d, chapter)
        cells == {d.cells[i] : i \in d.programs[chapter]..(end - 1)}
        time  == MapThenSumSet(LAMBDA c : c.seconds, {c \in cells : c.mode \in {"none", "first"}})
        n     == IF \E c \in cells : InAngle(c) THEN angles ELSE 1 IN
    IF time < MinChapter THEN {} ELSE {DvdFile(chapter, a, full) : a \in 1..n}
DvdFiles(d) ==
    UNION {DvdPart(d, k, FALSE, d.angles) : k \in DOMAIN d.programs}
    \cup IF Len(d.programs) > 1 THEN DvdPart(d, 1, TRUE, 1) ELSE {}

-----------------------------------------------------------------------------
(***************************************************************************)
(* The walk through the cells.                                             *)
(***************************************************************************)
\* next_cell: in a block of angles to the cell of the angle, and behind the
\* block from there.
NextCellPlain(d, s) == [s EXCEPT !.nextCell = s.cell + 1]
NextCell(d, s) ==
    IF ~InAngle(d.cells[s.cell]) THEN [s EXCEPT !.nextCell = s.cell + 1]
    ELSE LET own  == s.cell + s.file.angle - 1
             last == Min({i \in own..Cells(d) : d.cells[i].mode = "last"}) IN
         [s EXCEPT !.cell = own, !.nextCell = last + 1]

\* demux_pes: headers of packs, and audio, video and private streams; it ends
\* at a packet whose size is wrong.  Padding and navigation data are dropped.
Demux(block, packets) ==
    LET good == IF \E i \in DOMAIN packets : packets[i].kind = "broken"
                THEN SubSeq(packets, 1, Min({i \in DOMAIN packets : packets[i].kind = "broken"}) - 1)
                ELSE packets
        kept == SelectSeq(good, LAMBDA p : p.kind \in {"pack", "audio", "video", "private1", "extended"})
        net  == FoldLeft(LAMBDA n, p : n + p.len, 0, kept) IN
    [i \in 1..net |-> <<block, i>>]

\* handle_DSI: where the walk goes after the VOBU at s.block.  Interleaved units
\* are followed from the third angle on.
VobuAfter(d, s) ==
    LET u == d.vobus[s.block] IN
    IF s.file.angle <= 2 THEN s.block + u.next
    ELSE IF u.category = 4 THEN s.block + (IF u.unit # 0 THEN u.unit ELSE u.ea + 1)
    ELSE IF u.category = 5 /\ u.angles[s.file.angle] # 0 THEN s.block + u.angles[s.file.angle]
    ELSE s.block + u.next
AtEndOfCell(d, s) ==
    LET u == d.vobus[s.block] IN u.next = 0 \/ s.block + u.next >= d.cells[s.cell].last
HandleDSIEarly(d, s) ==
    IF ~AtEndOfCell(d, s) THEN [io |-> [s EXCEPT !.block = VobuAfter(d, s)], end |-> "none"]
    ELSE IF s.nextCell >= Cells(d) THEN [io |-> [s EXCEPT !.block = 0], end |-> "title"]
    ELSE LET t == NextCell(d, [s EXCEPT !.cell = s.nextCell]) IN
         [io  |-> [t EXCEPT !.block = d.cells[t.cell].first],
          end |-> IF t.cell >= ChapterEnd(d, s.file.chapter) THEN "chapter" ELSE "none"]
HandleDSI(d, s) ==
    IF ~AtEndOfCell(d, s) THEN [io |-> [s EXCEPT !.block = VobuAfter(d, s)], end |-> "none"]
    ELSE IF s.nextCell > Cells(d) THEN [io |-> [s EXCEPT !.block = 0], end |-> "title"]
    ELSE LET t == NextCell(d, [s EXCEPT !.cell = s.nextCell]) IN
         [io  |-> [t EXCEPT !.block = d.cells[t.cell].first],
          end |-> IF t.cell >= ChapterEnd(d, s.file.chapter) THEN "chapter" ELSE "none"]

-----------------------------------------------------------------------------
(***************************************************************************)
(* DvdIO.  data is FALSE when the bytes are only counted: what does not    *)
(* fit is then not kept for the next call.                                 *)
(***************************************************************************)
Rewind(d, s) ==
    [s EXCEPT !.cell = d.programs[s.file.chapter], !.nextCell = d.programs[s.file.chapter],
              !.goto = TRUE, !.eof = FALSE, !.error = FALSE, !.rest = <<>>, !.pos = 0]

DvdRest(s, n) ==
    IF Len(s.rest) > n THEN [io |-> s, bytes |-> <<>>]
    ELSE [io |-> [s EXCEPT !.rest = <<>>], bytes |-> s.rest]

GotoCell(d, s) ==
    IF ~s.goto THEN s
    ELSE LET t == NextCell(d, [s EXCEPT !.goto = FALSE, !.cell = s.nextCell]) IN
         [t EXCEPT !.block = d.cells[t.cell].first]

\* The title ends with its last cell, a chapter also before the next chapter.
DvdVobu(d, s, n, data) ==
    LET next  == HandleDSI(d, s)
        block == Demux(s.block, d.vobus[s.block].packets)
        got   == Min({n, Len(block)}) IN
    [io    |-> [next.io EXCEPT !.rest = IF data THEN SubSeq(block, n + 1, Len(block)) ELSE <<>>,
                               !.eof = @ \/ next.end = "title" \/ (next.end # "none" /\ ~s.file.full),
                               !.pos = @ + got],
     bytes |-> SubSeq(block, 1, got)]
DvdRead(d, s, n, data) ==
    LET t == GotoCell(d, s) IN
    IF s.rest # <<>> THEN DvdRest(s, n)
    ELSE IF t.block >= d.cells[t.cell].last THEN [io |-> [t EXCEPT !.eof = FALSE], bytes |-> <<>>]
    ELSE IF ~d.vobus[t.block].readable THEN [io |-> [t EXCEPT !.error = TRUE], bytes |-> <<>>]
    ELSE DvdVobu(d, t, n, data)

\* openio counts the bytes of the file, but those of the last VOBU.
Everything(d)  == MapThenSumSet(LAMBDA b : Len(Demux(b, d.vobus[b].packets)), DOMAIN d.vobus)
Counted(d, s) ==
    LET count[k \in 0..Cardinality(DOMAIN d.vobus)] ==
            LET c == count[k - 1]
                r == DvdRead(d, c.io, Everything(d), FALSE) IN
            IF k = 0 THEN [io |-> Rewind(d, s), size |-> 0, on |-> TRUE]
            ELSE IF ~c.on THEN c
            ELSE [io |-> r.io, size |-> c.size + (IF r.io.eof THEN 0 ELSE Len(r.bytes)),
                  on |-> r.bytes # <<>> /\ ~r.io.eof] IN
    count[Cardinality(DOMAIN d.vobus)].size
DvdOpen(d, v) ==
    LET s == [file |-> v, cell |-> 0, nextCell |-> 0, goto |-> TRUE, block |-> 0, eof |-> FALSE,
              rest |-> <<>>, pos |-> 0, size |-> 0, error |-> FALSE] IN
    [io |-> [Rewind(d, s) EXCEPT !.size = Counted(d, s)], moved |-> TRUE]

\* seek: back to the beginning and forward by reading, for as long as something
\* is read and the position not reached: one call after it is.
Forward(d, s, n) ==
    LET skip[k \in 0..Cardinality(DOMAIN d.vobus)] ==
            LET c == skip[k - 1]
                r == DvdRead(d, c.io, n - c.total, FALSE) IN
            IF k = 0 THEN [io |-> s, total |-> 0, on |-> TRUE]
            ELSE IF ~c.on THEN c
            ELSE IF r.bytes # <<>> /\ c.total < n /\ ~r.io.eof
                 THEN [io |-> r.io, total |-> c.total + Len(r.bytes), on |-> TRUE]
                 ELSE [c EXCEPT !.io = r.io, !.on = FALSE] IN
    skip[Cardinality(DOMAIN d.vobus)]
DvdSeek(d, s, offset) ==
    LET from == IF s.pos > offset THEN Rewind(d, s) ELSE s
        r    == Forward(d, from, offset - from.pos) IN
    IF offset = 0 THEN [io |-> Rewind(d, s), moved |-> TRUE]
    ELSE IF s.pos = offset THEN [io |-> s, moved |-> TRUE]
    ELSE [io |-> r.io, moved |-> r.total > 0]

-----------------------------------------------------------------------------
(***************************************************************************)
(* What a file should contain: the VOBUs of its cells in their order, and  *)
(* of a block of angles the cell of the angle.                             *)
(***************************************************************************)
OwnCell(d, v, i) ==
    InAngle(d.cells[i]) => i - Max({j \in 1..i : d.cells[j].mode = "first"}) = v.angle - 1
DvdContents(d, v) ==
    LET end   == IF v.full THEN Cells(d) + 1 ELSE ChapterEnd(d, v.chapter)
        cells == SelectSeq([j \in 1..(end - d.programs[v.chapter]) |-> d.programs[v.chapter] + j - 1],
                           LAMBDA i : OwnCell(d, v, i)) IN
    FoldLeft(LAMBDA out, i : out \o FoldLeft(LAMBDA o, b : o \o Demux(b, d.vobus[b].packets),
                                             <<>>, d.cells[i].vobus), <<>>, cells)
=============================================================================
