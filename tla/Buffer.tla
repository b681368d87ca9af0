------------------------------- MODULE Buffer -------------------------------
(***************************************************************************)
(* The cache files of one entry (src/src/buffer.cc): a regular output file *)
(* has one, an HLS stream one for each segment.  A run of the transcoder   *)
(* writes into the current file; readers map the files they serve.  Every  *)
(* operation holds m_mutex, so each is one action; the calls of a thread   *)
(* are not, and interleave.                                                *)
(*                                                                         *)
(* Sizes are counted in units of a few kilobytes.  A unit of a file is     *)
(* Output once a run has written it, and Padding where the file was only     *)
(* stretched.  The mapping is shared, so memory and file are one.          *)
(***************************************************************************)
EXTENDS Integers, Sequences, FiniteSets

CONSTANTS
    Readers,        \* FUSE threads with a handle on the entry
    Count,          \* get_segment_count() of an HLS stream
    Page,           \* sysconf(_SC_PAGESIZE)
    Expected,       \* predicted size of a file
    Factor,         \* PREALLOC_FACTOR
    WriteSizes,     \* units the muxer writes at once
    MaxLen,         \* bound: units in a file, and writes to it
    MaxRuns,        \* bound: runs of the transcoder
    MaxFaults       \* bound: failing opens and lost files

ASSUME BufferAssumption ==
    /\ Count \in Nat \ {0} /\ Page \in Nat \ {0}
    /\ {Expected, Factor, MaxLen, MaxRuns, MaxFaults} \cup WriteSizes \subseteq Nat

Segments == 1..Count
Padding  == 0
Output   == 1

VARIABLES
    kind,       \* "file" or "hls"
    seg,        \* m_ci
    cur,        \* current_segment_no
    complete,   \* Cache_Entry::is_finished
    wpc, run,   \* where the transcoder is, and which run it is
    rpc, rseg,  \* where each reader is, and the segment of its handle
    faults      \* faults so far

bufferVars == <<kind, seg, cur, complete, wpc, run, rpc, rseg, faults>>

\* CACHEINFO: open or not, the CACHE_FLAG_* set, m_buffer_pos,
\* m_buffer_watermark, m_buffer_size, the write statistics, m_seg_finished;
\* named: the cache file has its name in the directory.
NoFile == [open |-> FALSE, flags |-> {}, pos |-> 0, mark |-> 0, size |-> 0,
           sum |-> 0, writes |-> 0, fin |-> FALSE, named |-> FALSE, data |-> <<>>]

BufferInit ==
    /\ kind \in {"file", "hls"}
    /\ seg = [i \in Segments |-> NoFile] /\ cur = 1
    /\ complete = FALSE
    /\ wpc = "idle" /\ run = 0
    /\ rpc = [r \in Readers |-> "closed"] /\ rseg = [r \in Readers |-> 1]
    /\ faults = 0

-----------------------------------------------------------------------------
(* Operations on one CACHEINFO. *)

\* ftruncate
Cut(data, n) == [k \in 1..n |-> IF k <= Len(data) THEN data[k] ELSE Padding]

\* reserve: never shrinks.  Mutant: it does.
ReserveExactly(s, n) == [s EXCEPT !.size = n, !.data = Cut(@, n)]
Reserve(s, n) ==
    IF s.size >= n THEN s ELSE [s EXCEPT !.size = n, !.data = Cut(@, n)]

\* map_file through open_file of a file that is not open: an empty file, or
\* one that is to have a size, is stretched; otherwise it is used as it is.
Map(s, flag, default) ==
    LET old     == IF flag = "RW" \/ ~s.named THEN <<>> ELSE s.data
        stretch == old = <<>> \/ default > 0
        size    == IF ~stretch THEN Len(old) ELSE IF default = 0 THEN Page ELSE default
    IN [s EXCEPT !.open = TRUE, !.named = TRUE, !.size = size, !.data = Cut(old, size),
                 !.pos  = IF stretch THEN @ ELSE size,
                 !.mark = IF stretch THEN @ ELSE size,
                 !.sum = 0, !.writes = 0]

\* The flag is noted before anything can fail.
Flagged(s, flag) == [s EXCEPT !.flags = @ \cup {flag}]

\* unmap_file: the file is cut at the watermark, or removed if that is 0.
\* Mutant: it keeps the size of the mapping.
UnmapUncut(s) ==
    [s EXCEPT !.open = FALSE, !.pos = 0, !.mark = 0, !.size = 0]
Unmap(s) ==
    [s EXCEPT !.open = FALSE, !.pos = 0, !.mark = 0, !.size = 0,
              !.named = @ /\ s.mark > 0,
              !.data  = IF s.named THEN Cut(@, s.mark) ELSE <<>>]

\* close_file: only the last flag closes.
Close(s, flags) ==
    LET left == [s EXCEPT !.flags = @ \ flags]
    IN IF left.flags # {} \/ ~s.open THEN left ELSE Unmap(left)

\* remove_cachefile
Removed(s) == [s EXCEPT !.named = FALSE, !.data = IF s.open THEN @ ELSE <<>>]

\* reallocate
Grow(s, need) ==
    LET ahead == IF s.writes = 0 THEN 0 ELSE Factor * (s.sum \div s.writes)
    IN IF need <= s.size THEN s
       ELSE Reserve(s, IF ahead > need - s.size THEN s.size + ahead ELSE need)

\* writeio of n units at the position.
Written(s, n) ==
    LET grown == Grow(s, s.pos + n)
        end   == s.pos + n
    IN [grown EXCEPT
          !.data = [k \in DOMAIN @ |-> IF s.pos < k /\ k <= end THEN Output ELSE @[k]],
          !.mark = IF @ < end THEN end ELSE @,
          !.pos  = end, !.sum = @ + n, !.writes = @ + 1]

\* Buffer::seek(SEEK_SET): not beyond the end of the mapping.
SoughtIn(s, offset) == [s EXCEPT !.pos = IF offset > s.size THEN s.size ELSE offset]

\* clear: an open file is cut to a page, and its mapping said to be empty.
Cleared(s) ==
    [(IF s.open THEN [s EXCEPT !.data = Cut(@, Page)] ELSE Removed(s))
        EXCEPT !.pos = 0, !.mark = 0, !.size = 0, !.sum = 0, !.writes = 0, !.fin = FALSE]

\* init: CACHEINFO::reset() of a file that is not open, and its removal if the
\* cache is to be erased.  m_seg_finished and m_flags stay as they are.
Initialised(s, erase) ==
    LET reset == [s EXCEPT !.pos = 0, !.mark = 0, !.size = 0, !.sum = 0, !.writes = 0]
    IN IF erase THEN Removed(reset) ELSE reset

-----------------------------------------------------------------------------
(* Operations on the whole buffer. *)

Files  == IF kind = "hls" THEN Segments ELSE {1}
IsOpen == \E i \in Files : seg[i].open
Users  == {r \in Readers : rpc[r] # "closed"}

\* The index of segment_no in m_ci, plus one: segment 0 is the first one.
Slot(segment_no) == IF segment_no = 0 THEN 1 ELSE segment_no

\* open_file on a buffer s.  If the file is open already, room is made in the
\* current file, whichever was asked for.
OpenFile(s, current, i, flag, default) ==
    LET noted == [s EXCEPT ![i] = Flagged(@, flag)]
    IN IF ~s[i].open THEN [noted EXCEPT ![i] = Map(@, flag, default)]
       ELSE IF default > 0 /\ s[current].open
         THEN [noted EXCEPT ![current] = Reserve(@, default)]
       ELSE noted

\* set_segment: close the current file for writing, open the other one.
SetSegment(s, i) ==
    LET closed == [s EXCEPT ![cur] = Close(@, {"RW"})]
        opened == OpenFile(closed, cur, i, "RW", Expected)
    IN [opened EXCEPT ![i] = Reserve(@, Expected)]

\* release
Release(s) == [i \in Segments |-> IF i \in Files THEN Close(s[i], {"RO", "RW"}) ELSE s[i]]

-----------------------------------------------------------------------------
(* Readers. *)

\* Cache_Entry::openio: the first user initialises the buffer.
InitBuffer ==
    IF IsOpen THEN UNCHANGED seg
    ELSE seg' = [i \in Segments |-> Initialised(seg[i], ~complete)]

OpenHandle(r, i) ==
    /\ rpc[r] = "closed" /\ i \in Files
    /\ rpc' = [rpc EXCEPT ![r] = "open"] /\ rseg' = [rseg EXCEPT ![r] = i]
    /\ IF Users = {} /\ wpc = "idle"
         THEN InitBuffer /\ cur' = (IF IsOpen THEN cur ELSE 1)
         ELSE UNCHANGED <<seg, cur>>
    /\ UNCHANGED <<kind, complete, wpc, run, faults>>

\* transcoder_read: a finished file that is gone is invalidated first ...
Invalidate(r) ==
    LET i == rseg[r]
    IN /\ rpc[r] = "open" /\ wpc = "idle"
       /\ complete \/ (kind = "hls" /\ seg[i].fin)
       /\ ~seg[i].named
       /\ seg' = [seg EXCEPT ![i] = NoFile]
       /\ complete' = FALSE
       /\ UNCHANGED <<kind, cur, wpc, run, rpc, rseg, faults>>

\* ... and then the file is opened for reading.  It serves what lies below the
\* watermark.
MapForReading(r) ==
    LET i == rseg[r]
    IN /\ rpc[r] = "open" /\ (complete \/ seg[i].fin \/ kind = "file")
       /\ rpc' = [rpc EXCEPT ![r] = "mapped"]
       /\ seg' = OpenFile(seg, cur, i, "RO", 0)
       /\ UNCHANGED <<kind, cur, complete, wpc, run, rseg, faults>>

MapFails(r) ==
    /\ rpc[r] = "open" /\ ~seg[rseg[r]].open /\ faults < MaxFaults
    /\ faults' = faults + 1
    /\ seg' = [seg EXCEPT ![rseg[r]] = Flagged(@, "RO")]
    /\ UNCHANGED <<kind, cur, complete, wpc, run, rpc, rseg>>

\* ffmpegfs_release closes the file before the one that was read.
CloseHandle(r) ==
    /\ rpc[r] \in {"open", "mapped"}
    /\ rpc' = [rpc EXCEPT ![r] = "leaving"]
    /\ seg' = (IF kind = "hls"
                 THEN [seg EXCEPT ![Slot(rseg[r] - 1)] = Close(@, {"RO"})]
                 ELSE seg)
    /\ UNCHANGED <<kind, cur, complete, wpc, run, rseg, faults>>

\* Cache_Entry::closeio: the last user releases all files.
LastCloses == seg' = Release(seg)
Leave(r) ==
    /\ rpc[r] = "leaving"
    /\ rpc' = [rpc EXCEPT ![r] = "closed"] /\ rseg' = [rseg EXCEPT ![r] = 1]
    /\ IF Users = {r} /\ wpc = "idle" THEN LastCloses ELSE UNCHANGED seg
    /\ UNCHANGED <<kind, cur, complete, wpc, run, faults>>

-----------------------------------------------------------------------------
(* The transcoder.  It is started by a reader, and ends as a user by itself. *)

\* Cache_Entry::clear, unless an HLS run repairs a stream.
StartRun ==
    /\ wpc = "idle" /\ Users # {} /\ ~complete /\ run < MaxRuns
    /\ wpc' = "opening" /\ run' = run + 1
    /\ \/ seg' = [i \in Segments |-> IF i \in Files THEN Cleared(seg[i]) ELSE seg[i]]
       \/ kind = "hls" /\ UNCHANGED seg
    /\ UNCHANGED <<kind, cur, complete, rpc, rseg, faults>>

\* open_output: open_regular_output_cache_file, or set_segment.
OpenOutput(i) ==
    /\ wpc = "opening" /\ i \in Files
    /\ wpc' = "writing" /\ cur' = i
    /\ seg' = (IF kind = "hls" THEN SetSegment(seg, i)
               ELSE OpenFile(seg, cur, 1, "RW", Expected))
    /\ UNCHANGED <<kind, complete, run, rpc, rseg, faults>>

OpenOutputFails(i) ==
    /\ wpc \in {"opening", "next"} /\ i \in Files /\ i # cur /\ ~seg[i].open
    /\ faults < MaxFaults
    /\ faults' = faults + 1
    /\ wpc' = "failed"
    /\ seg' = [seg EXCEPT ![cur] = Close(@, {"RW"}), ![i] = Flagged(@, "RW")]
    /\ UNCHANGED <<kind, cur, complete, run, rpc, rseg>>

WriteOutput(n) ==
    /\ wpc = "writing" /\ seg[cur].pos + n <= MaxLen /\ seg[cur].writes < MaxLen
    /\ seg' = [seg EXCEPT ![cur] = Written(@, n)]
    /\ UNCHANGED <<kind, cur, complete, wpc, run, rpc, rseg, faults>>

\* The muxer goes back to complete its header, and to the end again.
SeekOutput ==
    /\ wpc = "writing" /\ kind = "file"
    /\ \E offset \in {0, seg[cur].mark} : seg' = [seg EXCEPT ![cur] = SoughtIn(@, offset)]
    /\ UNCHANGED <<kind, cur, complete, wpc, run, rpc, rseg, faults>>

\* start_new_segment: encode_finish with finished_segment, then set_segment.
\* No segment is empty: its header alone is a write.
FinishSegment ==
    /\ wpc = "writing" /\ kind = "hls" /\ seg[cur].writes > 0
    /\ wpc' = "next"
    /\ seg' = [seg EXCEPT ![cur].fin = TRUE]
    /\ UNCHANGED <<kind, cur, complete, run, rpc, rseg, faults>>

NextSegment(i) ==
    /\ wpc = "next" /\ i \in Files \ {cur}
    /\ wpc' = "writing" /\ cur' = i
    /\ seg' = SetSegment(seg, i)
    /\ UNCHANGED <<kind, complete, run, rpc, rseg, faults>>

\* The run is over: the cache is finished, or was given up.
EndRun ==
    /\ \/ wpc = "next" /\ complete' = TRUE
       \/ wpc = "writing" /\ kind = "file" /\ complete' \in BOOLEAN
       \/ wpc \in {"writing", "failed"} /\ complete' = FALSE
    /\ wpc' = "idle"
    /\ seg' = (IF Users = {} THEN Release(seg) ELSE seg)
    /\ UNCHANGED <<kind, cur, run, rpc, rseg, faults>>

\* Somebody removes a cache file.
LoseFile(i) ==
    /\ faults < MaxFaults /\ i \in Files /\ seg[i].named
    /\ faults' = faults + 1
    /\ seg' = [seg EXCEPT ![i] = Removed(@)]
    /\ UNCHANGED <<kind, cur, complete, wpc, run, rpc, rseg>>

BufferNext ==
    \/ \E r \in Readers :
         \/ Invalidate(r) \/ MapForReading(r) \/ MapFails(r)
         \/ CloseHandle(r) \/ Leave(r)
         \/ \E i \in Segments : OpenHandle(r, i)
    \/ StartRun \/ SeekOutput \/ FinishSegment \/ EndRun
    \/ \E n \in WriteSizes : WriteOutput(n)
    \/ \E i \in Segments : \/ OpenOutput(i) \/ OpenOutputFails(i)
                           \/ NextSegment(i) \/ LoseFile(i)

BufferSpec == BufferInit /\ [][BufferNext]_bufferVars

-----------------------------------------------------------------------------
FileRecords ==
    [open : BOOLEAN, flags : SUBSET {"RO", "RW"}, pos : Nat, mark : Nat, size : Nat,
     sum : Nat, writes : Nat, fin : BOOLEAN, named : BOOLEAN, data : Seq({Padding, Output})]

BufferTypeOK ==
    /\ kind \in {"file", "hls"} /\ seg \in [Segments -> FileRecords]
    /\ cur \in Segments /\ complete \in BOOLEAN
    /\ wpc \in {"idle", "opening", "writing", "next", "failed"} /\ run \in 0..MaxRuns
    /\ rpc \in [Readers -> {"closed", "open", "mapped", "leaving"}]
    /\ rseg \in [Readers -> Segments] /\ faults \in 0..MaxFaults

\* A file that was closed holds nothing but what was written.
NoPadding ==
    \A i \in Files : ~seg[i].open => Padding \notin {seg[i].data[k] : k \in DOMAIN seg[i].data}

\* What can be read from a mapped file stays there, whatever the transcoder
\* does, until a new run clears the cache.
Reading(i) == seg[i].open /\ "RO" \in seg[i].flags
AvailableStays ==
    [][ \A i \in Files : Reading(i) /\ Reading(i)' /\ ~(wpc = "idle" /\ wpc' = "opening")
          => /\ seg'[i].mark >= seg[i].mark
             /\ \A k \in 1..seg[i].mark :
                  seg[i].data[k] # Padding =>
                    k <= Len(seg'[i].data) /\ seg'[i].data[k] # Padding ]_bufferVars

\* A segment marked as finished was written to its end and is still there.
FinishedIsThere ==
    \A i \in Files : seg[i].fin /\ faults = 0 => seg[i].named /\ seg[i].data # <<>>
=============================================================================
