------------------------------ MODULE VcdInput ------------------------------
(***************************************************************************)
(* Video CDs as input: the chapters found on the disc (vcdentries.cc), the *)
(* virtual files made of them (vcdparser.cc) and reading one (vcdio.cc).   *)
(*                                                                         *)
(* A disc is the table of its entries and the video file of each track: the*)
(* bytes before the first sector (lead), the time stamp of every sector, or*)
(* -1 where its sync bytes cannot be read, and the bytes after the last    *)
(* sector (tail).  A time is a number of frames, 75 of them a second, so   *)
(* the order of minutes, seconds and frames is the order of numbers.  The  *)
(* bytes of a track are numbered from 0.                                   *)
(***************************************************************************)
EXTENDS Integers, Sequences, SequencesExt, FiniteSetsExt

CONSTANTS
    Sync,       \* the sync bytes of a sector
    Sector      \* VCD_SECTOR_SIZE

\* The first sync byte comes again at most as the last one: 0, ten times 255, 0.
ASSUME VcdAssumption ==
    /\ Sync \in Seq(Int) /\ Len(Sync) > 0 /\ Sector \in Nat /\ Sector >= Len(Sync)
    /\ \A k \in 2..Len(Sync) - 1 : Sync[k] # Sync[1]

Seconds(e)   == e.time \div 75
TrackSize(t) == Len(t.lead) + Sector * Len(t.stamps) + t.tail

-----------------------------------------------------------------------------
(***************************************************************************)
(* load_file and scan_chapters.                                            *)
(***************************************************************************)
\* An entry is left out when it begins less than a second after the first one
\* or the one left out last.
Chapter(e) == [track |-> e.track, time |-> e.time, start |-> 0, end |-> 0]
KeepNext(acc, e, k) ==
    IF k > 1 /\ Seconds(e) - acc.sec < 1 THEN [acc EXCEPT !.sec = Seconds(e)]
    ELSE [acc EXCEPT !.list = Append(@, Chapter(e))]
Kept(entries) ==
    LET keep[k \in 0..Len(entries)] ==
            IF k = 0 THEN [sec |-> Seconds(entries[1]), list |-> <<>>]
            ELSE KeepNext(keep[k - 1], entries[k], k) IN
    keep[Len(entries)].list

\* What seek_sync reads of a track, up to the end of the first sync bytes.
Beginning(t) == t.lead \o (IF t.stamps = <<>> THEN <<>> ELSE Sync)

\* seek_sync: the offset of the first sync bytes, or -1.  After a mismatch the
\* byte just read may begin the next attempt; the mutant goes on behind it.
MatchOnce(n, byte) ==
    IF n = Len(Sync) THEN n
    ELSE IF byte = Sync[n + 1] THEN n + 1 ELSE 0
MatchNext(n, byte) ==
    IF n = Len(Sync) THEN n
    ELSE IF byte = Sync[n + 1] THEN n + 1
    ELSE IF byte = Sync[1] THEN 1 ELSE 0
FirstSync(t) ==
    LET bytes == Beginning(t)
        match[i \in 0..Len(bytes)] == IF i = 0 THEN 0 ELSE MatchNext(match[i - 1], bytes[i])
        found == {i \in DOMAIN match : match[i] = Len(Sync)} IN
    IF found = {} THEN -1 ELSE Min(found) - Len(Sync)

\* The sector of a track that has the time stamp, by binary search: its index
\* from 0, or what went wrong.
Absent == -1
Failed == -2
Locate(t, sync, time) ==
    LET sectors == (TrackSize(t) - sync) \div Sector
        search[w \in (0..sectors) \X (-1..sectors - 1)] ==
            LET first  == w[1]
                last   == w[2]
                middle == (first + last) \div 2 IN
            IF first > last THEN Absent
            ELSE IF t.stamps[middle + 1] < 0 THEN Failed
            ELSE IF t.stamps[middle + 1] < time THEN search[<<middle + 1, last>>]
            ELSE IF t.stamps[middle + 1] = time THEN middle
            ELSE search[<<first, middle - 1>>] IN
    search[<<0, sectors - 1>>]

\* One round of the loop of scan_chapters.  A new track ends the chapter before
\* it, and so does a sector that was found.
EndBefore(list, k, pos) == IF k > 1 THEN [list EXCEPT ![k - 1].end = pos] ELSE list
ScanChapter(d, s, k) ==
    LET c      == s.list[k]
        new    == k = 1 \/ c.track # s.list[k - 1].track
        there  == c.track \in DOMAIN d.tracks
        list   == IF new THEN EndBefore(s.list, k, s.size) ELSE s.list
        sync   == IF new THEN FirstSync(d.tracks[c.track]) ELSE s.sync
        sector == Locate(d.tracks[c.track], sync, c.time)
        pos    == sync + sector * Sector IN
    IF s.failed \/ (new /\ ~there) THEN [s EXCEPT !.failed = TRUE]
    ELSE IF sync < 0 THEN [s EXCEPT !.failed = TRUE, !.list = list]
    ELSE [list   |-> IF sector < 0 THEN list
                     ELSE EndBefore([list EXCEPT ![k].start = pos], k, pos),
          size   |-> TrackSize(d.tracks[c.track]),
          sync   |-> sync,
          failed |-> sector = Failed]

\* The chapters as parse_vcd gets them: it does not ask whether the scan failed.
Chapters(d) ==
    LET kept == Kept(d.entries)
        n    == Len(kept)
        scan[k \in 0..n] ==
            IF k = 0 THEN [list |-> kept, size |-> 0, sync |-> -1, failed |-> FALSE]
            ELSE ScanChapter(d, scan[k - 1], k)
        result == scan[n] IN
    IF ~result.failed /\ Last(d.tracks[kept[n].track].stamps) >= 0
    THEN [result.list EXCEPT ![n].end = result.size] ELSE result.list

\* create_vcd_virtualfile: every chapter, and the title if there are several.
\* The end of the title is the size of all chapters.
VcdFile(c, full, end) ==
    [type |-> "vcd", full |-> full, track |-> c.track, start |-> c.start, end |-> end]
VcdFiles(d) ==
    LET c == Chapters(d) IN
    {VcdFile(c[k], FALSE, c[k].end) : k \in DOMAIN c}
    \cup IF Len(c) > 1 THEN {VcdFile(c[1], TRUE, Last(c).end - c[1].start)} ELSE {}

-----------------------------------------------------------------------------
(***************************************************************************)
(* VcdIO: a file is open when the seek to its beginning succeeds.          *)
(***************************************************************************)
\* Not beyond the end, and not at all before the beginning.
VcdTarget(v, offset) == Min({v.start + offset, v.end})
VcdSeek(s, offset) ==
    IF VcdTarget(s.file, offset) < s.file.start THEN [io |-> s, moved |-> FALSE]
    ELSE [io |-> [s EXCEPT !.pos = VcdTarget(s.file, offset), !.hit = FALSE], moved |-> TRUE]
VcdOpen(d, v) ==
    LET s == [file |-> v, pos |-> 0, hit |-> FALSE, error |-> FALSE] IN
    [io |-> VcdSeek(s, 0).io, moved |-> v.track \in DOMAIN d.tracks /\ VcdSeek(s, 0).moved]

\* fread meets the end of the track's file when it reads less than asked.
VcdReadAll(d, s, n) ==
    LET got == Min({n, TrackSize(d.tracks[s.file.track]) - s.pos}) IN
    [io    |-> [s EXCEPT !.pos = @ + got, !.hit = @ \/ got < n],
     bytes |-> [i \in 1..got |-> s.pos + i - 1]]
VcdRead(d, s, n) == VcdReadAll(d, s, Min({n, s.file.end - s.pos}))
VcdEof(s)  == s.hit \/ s.pos >= s.file.end

-----------------------------------------------------------------------------
(***************************************************************************)
(* What a file should contain, and what a scan should find.                *)
(***************************************************************************)
SectorPos(t, time) ==
    Len(t.lead) + Sector * (CHOOSE i \in DOMAIN t.stamps : t.stamps[i] = time) - Sector

OneTrack(d) == \A e \in ToSet(d.entries) : e.track = d.entries[1].track

\* A title begins with its first chapter and lasts to the end of the track.
VcdContents(d, v) ==
    LET end == IF v.full THEN TrackSize(d.tracks[v.track]) ELSE v.end IN
    [i \in 1..(end - v.start) |-> v.start + i - 1]
=============================================================================
