-------------------------------- MODULE Input --------------------------------
(***************************************************************************)
(* Reading a virtual file of a disc: FFmpeg_Transcoder opens the device    *)
(* that FileIO::alloc makes for the type of the file, and FFmpeg reads and *)
(* seeks through input_read and seek (ffmpeg_transcoder.cc).  FFmpeg's I/O *)
(* context is external: it asks for as many bytes as its buffer has room   *)
(* for, begins at its front when less than MaxPacket is left, seeks to     *)
(* absolute positions only, and ends at an error, at the end, and when     *)
(* nothing is read.                                                        *)
(***************************************************************************)
EXTENDS VcdInput, BlurayInput, DvdInput

CONSTANTS
    Discs,       \* what may be inserted
    BufferOf,    \* bufsize() of each type
    MaxPacket,   \* the least room FFmpeg fills
    MaxSeeks     \* bound: seeks

ASSUME InputAssumption ==
    /\ MaxPacket \in Nat \ {0} /\ MaxSeeks \in Nat
    /\ BufferOf \in [{"vcd", "bluray", "dvd"} -> Nat \ {0}] /\ BufferOf["bluray"] = BlurayBuffer

VARIABLES
    disc,    \* the disc
    file,    \* the virtual file
    phase,   \* "closed", "open", "eof", "error", "refused"
    io,      \* the device
    used,    \* bytes in FFmpeg's buffer
    at,      \* how far the file was delivered; Lost after a seek that may have missed
    asked,   \* where FFmpeg went since it read last, or Lost
    chunk,   \* what the last read delivered
    seeks    \* seeks so far

inputVars == <<disc, file, phase, io, used, at, asked, chunk, seeks>>

Lost == -1
NoIO == [type |-> "none"]   \* no device

FilesOf(d) == CASE d.type = "vcd" -> VcdFiles(d) [] d.type = "bluray" -> BlurayFiles(d)
                [] d.type = "dvd" -> DvdFiles(d)

-----------------------------------------------------------------------------
(***************************************************************************)
(* The operations of a FileIO, by its type.                                *)
(***************************************************************************)
OpenIO(d, f) == CASE f.type = "vcd" -> VcdOpen(d, f) [] f.type = "bluray" -> BlurayOpen(d, f)
                  [] f.type = "dvd" -> DvdOpen(d, f)
ReadIO(n) ==
    CASE disc.type = "vcd" -> VcdRead(disc, io, n) [] disc.type = "bluray" -> BlurayRead(disc, io, n)
      [] disc.type = "dvd" -> DvdRead(disc, io, n, TRUE)
SeekIO(offset) ==
    CASE disc.type = "vcd" -> VcdSeek(io, offset) [] disc.type = "bluray" -> BluraySeek(disc, io, offset)
      [] disc.type = "dvd" -> DvdSeek(disc, io, offset)
EofIO(s) == CASE disc.type = "vcd" -> VcdEof(s) [] disc.type = "bluray" -> BlurayEof(s)
              [] disc.type = "dvd" -> s.eof

Contents(d, f) == CASE f.type = "vcd" -> VcdContents(d, f) [] f.type = "bluray" -> BlurayContents(d, f)
                    [] f.type = "dvd" -> DvdContents(d, f)

-----------------------------------------------------------------------------
InputInit ==
    /\ disc \in Discs /\ file \in FilesOf(disc) /\ phase = "closed" /\ io = NoIO
    /\ used = 0 /\ at = 0 /\ asked = Lost /\ chunk = <<>> /\ seeks = 0

\* open_input_file goes no further when openio fails.
InputOpen ==
    /\ phase = "closed"
    /\ \E r \in {OpenIO(disc, file)} : io' = r.io /\ phase' = IF r.moved THEN "open" ELSE "refused"
    /\ used' = 0 /\ at' = 0 /\ asked' = Lost /\ UNCHANGED <<disc, file, chunk, seeks>>

InputClose ==
    /\ phase' = "closed" /\ io' = NoIO /\ UNCHANGED <<disc, file, used, at, asked, chunk, seeks>>

\* input_read.
Deliver(r) ==
    /\ io' = r.io
    /\ chunk' = r.bytes
    /\ at' = IF at = Lost THEN Lost ELSE at + Len(r.bytes)
    /\ phase' = IF r.bytes # <<>> THEN "open" ELSE IF r.io.error THEN "error" ELSE "eof"
Room == IF used + MaxPacket < BufferOf[disc.type] THEN BufferOf[disc.type] - used
        ELSE BufferOf[disc.type]
InputRead ==
    /\ phase = "open"
    /\ IF EofIO(io) THEN phase' = "eof" /\ chunk' = <<>> /\ UNCHANGED <<io, at, used>>
       ELSE /\ \E r \in {ReadIO(Room)} : Deliver(r)
            /\ used' = (IF Room = BufferOf[disc.type] THEN 0 ELSE used) + Len(chunk')
    /\ asked' = Lost /\ UNCHANGED <<disc, file, seeks>>

\* seek, to any position of the file.  The position is known when the device can
\* go there; when it says that it could not FFmpeg stays where it was.
Exact(offset) == \/ disc.type = "vcd"
                 \/ disc.type = "dvd" /\ offset = 0
                 \/ disc.type = "bluray" /\ SeekIO(offset).moved /\ io.rest = <<>>
InputSeek ==
    /\ phase \in {"open", "eof"} /\ seeks < MaxSeeks
    /\ \E offset \in 0..Len(Contents(disc, file)) :
       \E r \in {SeekIO(offset)} :
          /\ io' = r.io
          /\ at' = IF Exact(offset) THEN offset ELSE Lost
          /\ used' = IF r.moved THEN 0 ELSE used
          /\ asked' = IF r.moved THEN offset ELSE asked
          /\ phase' = IF r.moved THEN "open" ELSE phase
    /\ seeks' = seeks + 1 /\ UNCHANGED <<disc, file, chunk>>

-----------------------------------------------------------------------------
(***************************************************************************)
(* Properties.                                                             *)
(***************************************************************************)
\* What a read delivers follows what was delivered before, with nothing left out
\* and nothing delivered twice, through rests of blocks, the ends of cells and
\* blocks of angles, rewinds and exact seeks: it is a part of the file's contents.
InOrder ==
    [][InputRead /\ chunk' # <<>> =>
          LET whole == Contents(disc, file) IN
          \E i \in 0..(Len(whole) - Len(chunk')) :
             chunk' = SubSeq(whole, i + 1, i + Len(chunk')) /\ at \in {i, Lost}]_inputVars

\* The bytes a file loses at its end: as many as lie before its first chapter on
\* a Video CD's title (vcdparser.cc:112), the last one of a Blu-ray chapter
\* (blurayio.cc:144), and what was left of a DVD's last VOBU (dvdio.cc:693).
LostAtEnd ==
    CASE disc.type = "vcd"    -> IF file.full THEN file.start ELSE 0
      [] disc.type = "bluray" -> Len(io.rest) + (IF io.end < disc.titles[file.title].size THEN 1 ELSE 0)
      [] disc.type = "dvd"    -> Len(io.rest)

\* Every chapter has a sector with its time, and every sector can be read.
Clean(d) ==
    /\ \A e \in ToSet(Kept(d.entries)) :
          e.track \in DOMAIN d.tracks /\ e.time \in ToSet(d.tracks[e.track].stamps)
    /\ \A k \in DOMAIN d.tracks : -1 \notin ToSet(d.tracks[k].stamps)

\* FFmpeg meets the end of a file when everything up to there was delivered, but
\* for what is lost at the end: no read in the middle of a file looks like the end.
EndIsEnd ==
    phase = "eof" /\ at # Lost /\ (disc.type = "vcd" => Clean(disc) /\ OneTrack(disc)) =>
        at >= Len(Contents(disc, file)) - LostAtEnd

\* The scan of a Video CD finds the sector where each chapter begins; a chapter
\* ends where the next one of its track begins, and the last one of the disc at
\* the end of its track.  Of the last chapter of an earlier track it says nothing,
\* for its end is wrong: see TracksFilled.
ChaptersTile ==
    disc.type = "vcd" /\ Clean(disc) =>
        LET c == Chapters(disc) IN
        \A k \in DOMAIN c :
           /\ c[k].start = SectorPos(disc.tracks[c[k].track], c[k].time)
           /\ k = Len(c) => c[k].end = TrackSize(disc.tracks[c[k].track])
           /\ k < Len(c) /\ c[k].track = c[k + 1].track => c[k].end = c[k + 1].start

\* The last chapter of every track ends with its track: m_end_pos is the "End
\* offset in bytes (not including this byte)" in the chapter's own file.
TracksFilled ==
    disc.type = "vcd" /\ Clean(disc) =>
        LET c == Chapters(disc) IN
        \A k \in 1..Len(c) - 1 :
           c[k].track # c[k + 1].track => c[k].end = TrackSize(disc.tracks[c[k].track])

\* "Repositions the offset of the open file to the argument offset" (fileio.h):
\* the first byte delivered after a seek is the one at its offset.
SeekLands ==
    [][InputRead /\ chunk' # <<>> /\ asked # Lost =>
          chunk' = SubSeq(Contents(disc, file), asked + 1, asked + Len(chunk'))]_inputVars
=============================================================================
