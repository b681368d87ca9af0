# A verification project for ffmpegfs

ffmpegfs is a FUSE file system that shows media files in another format. A file is
transcoded when somebody reads it; the result goes to a disc cache, and everybody who opens
the same file shares one *cache entry*. Two parts of the program are hard. One is that
sharing: FUSE threads open, read, interrupt and close; pool threads transcode, suspend, time
out, restart and repair; a timer and every worker prune the cache; all of them change the
same objects under several mutexes, some atomics and, in places, nothing at all. The other
is the long chain between a source and the bytes of a file: discs are walked cell by cell,
streams are opened with and without hardware, outputs are closed and opened again for each
segment, and packets, samples and pictures wait in queues that must not be mixed up when
something is sought, repaired or reopened.

This directory holds TLA+ models of that machinery, TLC configurations that check them on
small instances, and proofs that TLAPS checks for all instances. File names of the program
(`transcode.cc:641`) are those of `src/src`.

    tlc -config TranscodeFile.cfg MCTranscode.tla
    tlapm Transcode_proofs.tla

## 1. Inventory

| component | state | operations | talks to | modules |
|---|---|---|---|---|
| Transcoder threads (`transcode.cc`) | per worker: THREAD_DATA (lock guard, condition), timeout, have_seeked | transcoder_new/read/read_frame/delete, start_transcoder_thread, transcoder_thread, transcode, transcode_finish | cache entry, pool, buffer, FFmpeg_Transcoder | Transcode, FrameReads |
| Cache entry (`cache_entry.cc`) | m_is_decoding, m_ref_count, m_seek_to_no, m_cache_info, m_mutex, m_active_mutex, m_restart_mutex | openio, closeio, clear, outdated, suspend_timeout, decode_timeout | cache (row), buffer | Transcode, CacheIndex |
| Thread pool (`thread_pool.cc`) | m_thread_queue, m_queue_shutdown, threads | init, schedule_thread, loop_function, tear_down | jobs of transcode.cc | ThreadPool, JobQueue |
| Buffer (`buffer.cc`) | per segment: file, mapping, position, watermark, m_seg_finished; frame index | init, open_file, set_segment, write, write_frame, copy, clear, release | cache entry, transcoder | Buffer, FrameSet, FrameStore |
| Decoding and encoding (`ffmpeg_transcoder.cc`) | m_frame_map, m_audio_fifo, m_hls_packet_fifo, m_inhibit_stream_msk, m_current_segment, m_seek_to_fifo; resampler, scaler, filter graph | process_single_fr, start_new_segment, seek_hls_segment, encode_finish; resampling, scaling, filtering | buffer, FFmpeg | HlsPipeline, Conversion |
| Opening and closing of streams (`ffmpeg_transcoder.cc`) | formats, streams, codecs, hardware devices and modes, m_stream_map | open_input_file, open_output_file, reopen, fallbacks, close_* | inputs, FFmpeg, transcode.cc | StreamSetup, Source |
| Cache (`cache.cc`) | map of entries, SQLite rows | openio, closeio, prune_*, clear, read/write/delete_info | cache entries, disc | CacheIndex |
| Index upgrade (`cache.cc`) | tables and version of the database | load_index, upgrade_db | SQLite | IndexUpgrade |
| Maintenance (`cache_maintenance.cc`) | shared memory with the master's pid, semaphore, timer | link_up, master_check, link_down, handler | other ffmpegfs processes, cache | Maintenance |
| FUSE operations (`fuseops.cc`, parsers) | tables of virtual files, handles | getattr, readdir, open, read, release | transcode.cc, inputs | FuseOps |
| Inputs (`dvdio.cc`, `blurayio.cc`, `vcdio.cc`, `diskio.cc`) | positions in cells, sectors, blocks | openio, read, seek, eof, closeio | transcoder | DvdInput, BlurayInput, VcdInput, Input |
| the rest | — | options, profiles, wrappers, logging, headers, packaging | — | not modelled, see 6 |

What makes these correct, by component:

* transcoder threads and cache entry — an entry is not destroyed under users it counts; the flag
  `m_is_decoding` always has somebody behind it; a starter that waits is told; a cache that
  is recorded as FINISHED_SUCCESS holds the whole output; a worker ends; a call returns,
  also a read of one image of a frame set.
* thread pool — no job is lost or run twice; order; tear down ends.
* buffer — what could be read stays; closed files hold no padding; images of a frame set
  give back what was stored, and overlap only where one has grown in its place.
* decoding and encoding — every packet is in its segment, none is lost; what is queued fits
  the encoder that will take it.
* streams — the container has the streams that were chosen, whatever failed on the way;
  pictures are moved to the device exactly when the encoder was opened for pictures of the
  device; opening ends.
* cache — the map holds live objects; what is served was made whole and from this source; a
  pass over the size leaves no more than the limit.
* upgrade — no row is lost whatever step a crash follows.
* maintenance — at most one master of a segment, unless mounts meet halfway, and one again
  after a crash.
* FUSE operations — what a listing shows can be opened, what was opened can be read.
* inputs — a file is delivered in order and to its end, and the chapters of a track lie
  side by side.

The behaviours that are hard to test are the entries of `hazards` in PROJECT.json, each at
the line where it bites, with the properties that would catch it.

## 2. The modules

| module | models |
|---|---|
| `Transcode` | one Cache_Entry, its clients (FUSE threads) and jobs (transcoder_thread calls), 2.1 |
| `JobQueue`, `ThreadPool` | what transcode.cc relies on in the pool (first come first served, each job once, at most Slots at a time), and thread_pool.cc, 2.2 |
| `Maintenance` | cache_maintenance.cc in several processes, 2.3 |
| `Buffer`, `FrameStore`, `FrameSet` | cache files of streams; what the cache of a frame set promises; how it keeps that, 2.4 |
| `CacheIndex`, `IndexUpgrade` | the cache of one process; opening its database, 2.5 |
| `FuseOps` | the table of virtual files and the operations on it, 2.6 |
| `HlsPipeline` | one run of the transcoder over an HLS file, 2.7 |
| `FrameReads` | reads of single images and the run that delivers them, 2.8 |
| `VcdInput`, `BlurayInput`, `DvdInput`, `Input` | discs, their virtual files, reading and seeking in one, 2.9 |
| `StreamSetup`, `Source` | opening, reopening and closing the transcoder; with its input, 2.10 |
| `Conversion` | what lies between decoders and encoders, 2.11 |
| `MC...` | instances for TLC: sets of clients, readers, sources, discs; MCBuffer, MCCache, MCSource, MCRuns and MCCalls put two models side by side and a variable says which of them runs |
| `..._proofs` | theorems, 4 |

How they meet:

* `Transcode` takes its steps on the pool's queue from `JobQueue`, and `ThreadPool`
  implements `JobQueue` (checked and proved).
* `FrameSet` implements `FrameStore` (checked and proved).
* `Input` extends the three kinds of disc and chooses by the type of the file as
  `FileIO::alloc` does; `Source` composes `Input` with `StreamSetup`: the device is opened
  by the transcoder, read while it probes and runs, and closed with it.
* `Transcode` keeps of the buffer which items are written, marked and on disc; `Buffer` has
  what is behind that. `Transcode` keeps of the transcoder the current segment, the stacked
  seeks and the end; `HlsPipeline` has what happens to packets meanwhile.

### 2.1 Transcode

| variable | code |
|---|---|
| decoding, refs, seek, result, error | m_is_decoding, m_ref_count, m_seek_to_no, m_cache_info.m_result/m_error |
| lock, active | owners of m_mutex (transcoder_new) and m_active_mutex (a worker's whole life; m_restart_mutex is taken with it by the same thread and by nobody else) |
| written, fin, disk, cursor | per item: bytes of the output are in the cache file; m_seg_finished; the file exists; current_segment_no |
| outdated, exit | Cache_Entry::outdated(), thread_exit |
| freed | the object was deleted |
| queue, wpc, w | the pool's queue; where each job is; transcoder_thread's and FFmpeg_Transcoder's locals (timeout, success, unlocked, m_current_segment, m_seek_to_fifo, m_have_seeked) |
| holding | jobs between their openio and their closeio |
| guard, bell | m_thread_running_lock_guard set; notify_all still to come |
| cpc, l, handle | where each FUSE thread is, its locals, and whether it owns a reference |

A step is what happens between two points at which another thread can see or change the
state: the atomic compare-exchange of `start_transcoder_thread` (StartClaim), the try-lock
(StartTryLock), the second exchange (StartReclaim), the test of the lock guard (StartCheck)
and the wait (StartBlock) are five steps, because they are five instructions between which a
worker can run. An open is Find (Cache::openio hands out a pointer, without a mutex and
without counting), then New once lock() lets it through, which reads the row and counts the
handle: between the two it is known to nobody, and NewLost is the open whose entry was
destroyed meanwhile. The two looks a read takes at m_is_decoding are ReadMissing and ReadGate.
transcode()'s loop is Looping (condition and stacked seek), Write / Advance / Finish (one
call of process_single_fr, with start_new_segment or transcode_finish), After (prebuffer,
suspension) and Suspended. The end of transcoder_thread is Retry, Undecode, Report, CloseIo,
Leave, in the order of the code.

An *item* is a segment of an HLS stream (Hls = TRUE) or a block of a regular file, where all
blocks share one cache file (`FileOf`).

Abstractions, and why they lose nothing the properties look at:

* Time has no clock: a limit (`suspend_timeout`, `decode_timeout`) may expire whenever
  m_ref_count allows it. So every real schedule is covered, and more.
* Whether sizes and counts are still unknown, and whether predicting them fails, is a free
  choice where the code could meet it (`Unpredicted`).
* Which files other than the one being written are open when `Buffer::clear` runs decides
  which are truncated and which are removed: a free choice.
* The initial state is an entry without a row or with a row of a finished file.
* Load and reset of m_seek_to_no (`segment_no = m_seek_to_no; m_seek_to_no = 0`) are one
  step, and so are the availability check and the test of m_is_decoding in front of
  transcode_until's loop.
* The worker's seek queue holds a segment once. `pts` stands for m_out.m_video_pts having
  left zero, which the first packet of a video stream does; HLS output of sources without
  video, where it stays zero, is not modelled.
* Locals that are not read again are reset (`Plain`, `Closed`).
* After `freed` nobody finds the entry: the next open builds another one. An open that had
  found it goes on with a destroyed object, and the model follows it no further (`lost`).
* closeio's decrement, its removal from the map and the destructor are one step here;
  `CacheIndex` has them apart, and two entries of a file.
* `PrebufferSegments` is option prebuffer_segments, which lets a request wait for the
  current run if it is near the beginning; it is 0 in the runs, and 1 in one setup of
  HlsPipeline.
* Unmounting is not modelled: libfuse ends its threads before `destroy`.
* Reads of frame sets (`transcoder_read_frame`) are in `FrameReads` (2.8), which leaves out
  failures and limits instead.

Bounds: Clients, Jobs, N and PoolSize are the sizes of an instance. `MaxRefs` bounds
references, because a worker that restarts opens the entry again and closes it once, so the
count can grow without limit; it holds back OpenInput only, and `Capped` excuses the
liveness properties there. `MaxEvents` bounds changes of the source, lost files, signals,
interrupts and spurious wake-ups.

### 2.2 ThreadPool

A thread is unborn, ready (about to take m_queue_mutex), asleep in the wait, running a job,
or gone. What happens under the mutex is one step; falling asleep belongs to the step that
evaluated the predicate, since the wait gives the mutex back atomically. schedule_thread is
three steps: the look at m_queue_shutdown without the mutex, the push under it, and
notify_one after it. tear_down is the flag, notify_all and the join.

### 2.3 Maintenance

A process is one mount and is known by its pid. A segment or semaphore is known by the
process that created it, so that a new one of the same name is told from the old. A removed
segment lives until its last user detaches; a removed semaphore name leaves the semaphore
with those who opened it. Each system call is a step; master_check is Tick (the look without
the semaphore), Wait, Look, Take, Post, and link_down is LinkDown, Stat, Remove, Unlink. A
crash may follow any step: the kernel detaches the segment and closes the semaphore without
posting it. `getpgid` finds a dead master's pid once another program has it (`reused`), and
pid 0, which a fresh segment holds, is the caller's own group.

Mounts and unmounts interleave freely. Where two meet halfway the code goes wrong in three
ways, and `contested`, which no action reads, remembers the segments concerned: shmget opens
a segment that somebody else has created since the first look, so that both are masters
(Create); a segment is removed after somebody has attached it (Remove); the semaphore's name
is removed while somebody is mounted who uses it (Unlink). OneMaster and LeavesNothing say
nothing of such segments and everything of others.

Assumptions: in one process the timer's handler is not entered twice, as an interval is much
longer than a handler, and has returned when link_down starts. Every process has the
maintenance timer. Failures of shmget and of the timer calls leave nothing behind and are
not modelled; sem_wait is not interrupted. What the master sweeps is the business of
`CacheIndex`.

### 2.4 Buffer, FrameStore, FrameSet

`Buffer`: `seg` is m_ci, one record for each CACHEINFO (flags, position, watermark, size,
write statistics, m_seg_finished, and the file with its name); `cur` is current_segment_no.
A file is a sequence of units, `Output` where a run wrote and `Padding` where the file was
only stretched, so growing the mapping, cutting it at the end and mapping a file again can
be told from writing. Every operation holds m_mutex and is one action; the calls of a thread
are separate and interleave: a run opens, writes, goes to the next segment, finishes or
gives up and starts again, while readers open, map, copy and close. Opening may fail and
files may disappear (`MaxFaults`).

`FrameSet`: `index` is the array of IMAGE_FRAME records, `mem` the mapped file. An image is
a length and a byte that stands for its contents. write_frame reuses the place of a frame
whose old image is not larger than the new one and appends otherwise; the file grows by what
is needed and by an average of earlier writes. An image that grows in its place is written
over its neighbours: `outgrown`, which no action reads, is the set of frames such an image
belongs to, until they get a new place. Two frames that are not outgrown never share a byte
(`FramesApart`); that no two ever do is `ImagesApart`, which TLC refutes (5).
The mapping to `FrameStore` reads each frame back through the index. FrameStore promises the
image stored last, except that storing an outgrown frame in its place may overwrite others
with its bytes, and storing any frame may overwrite outgrown ones. Sizes are free: the
encoder of a frame set keeps its context, with its rate control, from frame to frame, so a
frame that is encoded again after a seek need not have the size it had.

### 2.5 CacheIndex, IndexUpgrade

`CacheIndex`: `entry` is the map of entries, `obj` the objects it points to, `row` the table,
`file` the cache files (what they were made of, and whether whole), `source` and the mount's
settings what `Cache_Entry::outdated()` compares. Opening is reading the row, checking size
and settings, stamping the access time and starting a worker, a step each, because the
cache's mutex is given back between them; closing and pruning compete for the same reference
count. A pass of pruning (expired, cache size, disc space) is a scan under Cache::m_mutex,
which takes the rows in the order of its statement, any order where that names none
(`Orders`, `ByAccess`), then a drop per victim: take the entry off the map, delete it, its
row, its files. Crashes lose memory and keep rows and files; the next mount may have other
settings. `astray` remembers that an entry lost a reference it should have kept, or a file
got two objects. Both are described in 5 and excused by name, so that everything else is
still checked.

`IndexUpgrade`: one statement of load_index and upgrade_db is one step. `disk` is what is
committed and `work` what the transaction sees. Any statement may fail and the process may
die before each.

### 2.6 FuseOps

`filenames` and `rfilenames` are the two maps of virtual files, `listing` what readdir
returned last (the kernel's and the user's knowledge of names), `handles` the open files. A
name is its stem and its extensions, since that is what the code takes apart. A handler is
one step. readdir, getattr and open create virtual files in their own ways: that these
agree, in whatever order they are called, is what the run checks. What a media file
contains, and what libcue, libdvdread, libbluray and the VCD reader find, is given. Files of
the mounted directory come and go between calls.

### 2.7 HlsPipeline

Packets have a position, a length and a key flag, in units of which `SegDur` make a segment.
One turn of process_single_fr is the step sequence of `pc`: read and decode (`frames`,
`samples`), encode from the frame map in order (`encoder` holds back `lag` packets), store
or hold a packet (`held`, `inhibit`), and once every stream has reached the next segment
close the file and open the next, or the one that was asked for (`seeks`, `sought`). `files`
has what was written to each segment and `ended` those that were marked as finished. What an
earlier run has left of some segments (`cached`) is given; a file has audio or video, and
what lies behind the last segment belongs to the last. FFmpeg is external: how a decoder
treats packets after a seek and where a seek lands is written in the module's head.

### 2.8 FrameReads

transcoder_read_frame polls for its frame, stacks a request, starts a worker if none is
there, and gives up after its retries. The worker steers the decoder with seek_frame and
skip_decoded_frames. `jobs` are workers that wait for m_active_mutex, `worker` is the one
that has it, `wanted` and `decoding` are the entry's m_seek_to_no and m_is_decoding. Runs
neither fail nor time out here, as `Transcode` has that.

### 2.9 Inputs

A disc is given as tables: for a VCD the entries file and for each track the bytes before
the first sector, the time stamps of its sectors (or none where they cannot be read) and the
bytes after the last; for a Blu-ray title sizes, chapters and access points; for a DVD
programs, cells with angles and interleaved units, and VOBUs with their packets. From them
the modules compute the virtual files as the parsers do, and an open file is the state of
VcdIO, BlurayIO or DvdIO. `Input` reads and seeks the way FFmpeg's I/O context does.
`Contents` is the reference definition: the bytes of a file in order, written from the
tables alone.

### 2.10 StreamSetup, Source

`pc` is where open_input_file, open_output_file and the loops over streams stand (`todo`).
Each call of FFmpeg may fail, and what is left behind by a failure stays: decoders and their
devices, `mode` (NONE, ENABLED, FALLBACK) and `buffering` of decoder and encoder, `out` the
streams of the container, `refs` the places m_out points to, and `stream_map`. Reopen is the
next segment, NextRun a restart of transcoder_thread with the same transcoder. `crashed` is
a state of the model: the program dereferences a decoder that a fallback freed, see 5.

### 2.11 Conversion

A job is a source with the target it is converted to: formats of samples and pictures, what
the decoder may deliver later, and what the encoder takes. Resampler, scaler and filter
graph each remember what they were made for (`resampler`, `scaler`, `graph`), and queues
hold the formats of what is in them. Outputs are reopened, encoders fall back to software,
and decoders change their format between any two frames.

## 3. The runs

| run | instance | properties |
|---|---|---|
| TranscodeFile | 2 clients, 2 jobs, 2 blocks, 2 pool threads, every step may fail, openers wait uncounted | RefsCoverUsers, Custody, FreedUnused |
| TranscodeEvents | HLS, 1 client, 2 jobs, 2 segments, 1 pool thread, failures, one outside event | DecodingHasWorker, DoneSignalled |
| TranscodeLiveHls | 1 client, 2 jobs, 3 segments, 1 pool thread, minimum seek distance 1, fair | SuccessIsComplete, WorkersEnd, CallsReturn |
| Runs | a pool of 3 threads and 3 jobs, fair, spurious wake-ups; or 11 sources and targets over 3 segments of 16 units, 2 requests, fair | NoLostJob, ImplementsJobQueue, TearDownEnds, ImplementsFairJobQueue; SegmentWhole, NothingEarly, AllWritten, EachRunEnds |
| Maintenance | 3 processes, two crashes or reused pids, fair | OneMaster, LeavesNothing, MasterReturns |
| Buffer | 2 readers, one file or two segments of up to 3 units, 2 runs, 1 fault; or 3 frames, two of which may change their size, 4 writes in a file of up to 6 units | NoPadding, AvailableStays; FramesApart, ImplementsStore |
| Cache | 2 files, 2 threads, limits that hold one file, 2 mounts with other settings, 2 ticks, one change of a source; or every older database and two attempts to open it | MapIsLive, ServedIsWhole, SizeKept; AllOrNothing |
| Calls | 6 mounts (single, smart, old names, frames, HLS, recode) with up to two files each or a disc of two titles, 1 open file; or 6 frames with key frames 1 and 4, 2 reads, 5 sources, fair | ListedFound, ReadsReachData; SuccessHasAll, RunsEnd, FramesServed |
| Source | 5 VCDs, a Blu-ray title, 3 DVDs, 2 seeks; files with streams of every kind, with and without hardware, with failures; 5 conversions | EndIsEnd, ChaptersTile, InOrder; ContainerWhole, UploadsMatch, OpenEnds; EncodersFit |
| TranscodeLost | as small as shows it: a violation, as are the next two, see 5 | NoLostWakeup |
| TranscodeOvertaken | 2 clients, 1 job | OpenersKeepEntry |
| MaintenanceMounts | as Maintenance, two faults | AlwaysOneMaster |

Why these bounds: two clients are the fewest that race each other and a worker; two jobs let
one run end while the next is queued, one pool thread lets it wait there and two let both
proceed to m_active_mutex. With one pool thread the next run of an entry waits until the
worker before it has returned, suspended or not. Two items are the fewest with an order;
three with a minimum distance of one are the fewest for which a request can be near the
beginning, near ahead, and behind. Three processes are the fewest for which two clients
compete for the place of a master that died; two faults let the successor die as well. A file
of three units is created with one page, is stretched to the predicted two and grows once
more. Two readers can have different segments, or the same one. Two cached files of sizes one
and two with a limit of one make the size pass choose and stop. Three segments are a first, a
middle and a last one; 16 units hold a key packet every 12, so that segments and key packets
do not coincide, and packets of 8 and of 2 so that streams reach an end at different times.
Six frames around two key frames leave a read ahead of, behind and beyond the next key frame.
The discs have each form of cell, angle and damage once; two seeks are one before and one
after a seek.

Bounds that are only bounds are named: `MaxRefs` and `MaxEvents` (2.1), `MaxFaults`,
`MaxLen`, `MaxRuns`, `MaxSize`, `MaxWrites`, `MaxTime`, `MaxTouches`, `MaxLoads`,
`MaxHandles`, `MaxSeeks`, `MaxQueue`, and in MCCache the constraint `Bounded`: two threads
at once only on one file in the first tick, a second file only in the first mount, a
changing source only with one thread.

CHECK_DEADLOCK is off in every run because the system may stop rightly: all references of a
destroyed entry are gone, a starter has missed its notification (TranscodeLost), everything
is unmounted, closed, at its end, or at a bound; the liveness properties take over the
question.

Every property has a mutant: an operator next to the definition it replaces, with a
plausible slip of the code, under which TLC must refute the property. The comment above a
definition says what its mutants do.

### Fairness

`Transcode!Fairness`: a pool thread takes the oldest job when one is free (JobQueue's
fairness, which ThreadPool implements under its own); every FUSE thread inside a call and
every worker keeps running, one that waits for a mutex gets it when free for good, and the
notification of a worker that set its guard comes. Nothing makes applications open, read or
close (`Request`), makes the environment act, or wakes a waiting thread up spuriously. The
limits are part of a worker's steps: their clock runs by itself. In ThreadPool jobs return,
which is `WorkersEnd`. In Maintenance processes run and timers fire, and nobody has to mount
or unmount; the semaphore need not be fair, because whoever overtakes a waiting process
looks for the master as well. In HlsPipeline (WF(Work)) and Source (WF(SetupStep)) the one
thread that runs goes on; in FrameReads the worker and each polling read do. Requests, seeks
and reads are never forced.

MasterReturns excuses `Orphaned` (the pid is that of another program, or was never written)
and `Stuck` (a process died with the semaphore). CallsReturn says that every call returns,
from whatever step it has reached, be it waiting for a starter's signal, a mutex or data. It
excuses a caller that has missed its notification (`Missed`), which is the behaviour
TranscodeLost shows, an open whose entry is lost (TranscodeOvertaken), and the bound on
references. ServedUnlessErased excuses a cache that is erased again and again. EachRunEnds
and FramesServed are RunEnds of HlsPipeline and ServedUnlessErased of FrameReads, where that
model is the one that runs. The excuses are real and described in 5.

## 4. The proofs

All theorems are proved for any number of clients, jobs, items, threads, processes, frames,
files, segments, streams and mounts, from the assumptions the modules state on their
constants: three in `Transcode` (finite disjoint sets of clients and jobs; natural numbers;
Booleans), `PoolAssumption`, `ProcessesAssumption`, `BufferAssumption`, `SizesAssumption` and
`MissingAssumption` (FrameSet), `CacheAssumption` and `NothingAssumption` (CacheIndex),
`UpgradeAssumption` and `KnownAssumption` (IndexUpgrade), `FrameReadsAssumption`,
`PipelineAssumption`, `ConversionAssumption`, `SetupAssumption` (StreamSetup),
`VcdAssumption` (a sector holds its sync bytes, and the first of them comes again at most as
the last, as in 0, ten times 255, 0) and `InputAssumption` (sizes of buffers, of which a
Blu-ray's is its m_data, as bufsize() says). Some hypotheses are more than that and are named
in the theorems: `ServedIsWholeHolds` assumes `Apart`, that no two mounts have the same
settings, without which it is false (5, `MCReturn`); and `SuccessIsCompleteHolds` assumes
~DisableCache and `Kept`, see 4.2; `DiscsInOrder` and `DiscsEndAtEnd` assume `Disc` of the
discs, and speak of all but DVDs, see 4.13; `ChaptersTileHolds` assumes `Pressed` of the
Video CDs, see 4.13; `PacketsNotEarly` assumes `Regular` of the source and `RunWritesAll`
assumes `Plain`, see 4.14. `TypeOK` of Transcode and Maintenance, `JobOnce` and
`NoSleeperJoined` are proved and no longer among the properties of the runs, as the inductive
invariants contain them.

| module | theorems about |
|---|---|
| `Transcode_proofs` | Transcode: 4.1, 4.2 |
| `ThreadPool_proofs` | ThreadPool and JobQueue: 4.3 |
| `Maintenance_proofs` | Maintenance: 4.4 |
| `Buffer_proofs` | Buffer, FrameSet and FrameStore: 4.5, 4.6 |
| `Runs_proofs` | FrameReads and HlsPipeline: 4.7, 4.14 |
| `CacheIndex_proofs` | IndexUpgrade, the map of CacheIndex, the pass over the size and what is served: 4.8 to 4.10 |
| `VcdInput_proofs` | the scan of Video CDs: 4.13 |
| `Streams_proofs` | StreamSetup with Source, Conversion and Input: 4.11 to 4.13 |

### 4.1 References

`RefsCoverUsers` says |handle| + |holding| <= refs. It is inductive with TypeOK: only New,
NewFails and OpenInput add a user and each counts one reference, only Delete, NewDrop and
CloseIo give one back. (Equality does not hold: a restarting worker leaks.)

`FreedUnused` is what the count is for: nobody who is counted, or lives on somebody who is,
points to a destroyed entry. (An opener in front of lock() does and is not; see 5.) The count
alone does not give it, because a queued job has no reference of its own: it lives on that of
the client that submitted it. `Custody` is the missing argument: a job that was submitted and
has not opened the entry is awaited by exactly one client, that client has a handle and
cannot leave `while (!m_thread_running_lock_guard)`, because the job sets its guard only
after its own openio, or in the catch block after it. So at every step that destroys the
entry (`LastRef`: refs = 1) the one reference left belongs to who is closing, and nobody is
queued, waiting or at work. The invariant proved is TypeOK /\ RefsCoverUsers /\ Custody, one
lemma per group of actions; `CustodyAlways` and `FreedUnusedHolds` follow from it.

### 4.2 The flag and the signal

`DecodingHasWorker` and `DoneSignalled` are proved on top of Custody. The first needs to
know that between StartClaim and the push the client itself stands for the flag, and that a
worker that reset it (Undecode) does not set it again; the second is strengthened to
`Signalled`: a worker that is past its run has set the guard, and inside the run `unlocked`
implies that it has.

`SuccessIsCompleteHolds` is about the data: a cache recorded as finished holds every item.
It assumes that disable_cache is off and, as `[][Kept]_vars`, that nobody changes source or
options and no cache file is lost while the entry lives; TLC refutes the property when any
one of the three is dropped (5). Readers, seeks, repairs, failures, interrupts and SIGINT
are not restricted, and the inductive `WholeInv` says why they do no harm. `Exclusive`:
m_active_mutex has one owner, a job or a starter that reclaims the flag, so that one job at
most has its streams open. `Filled`: a run that has not skipped a segment has written all
items before the one in work, and that one exists. `Rerun`: a worker that starts over with
the same transcoder keeps its segment only for HLS, and then with a seek request stacked, so
that the entry is not cleared under it. What remains are the steps that take items away: the
first open and the failed one find no reference, hence by `Custody` no run; the destructor
waits for the mutex; and a read invalidates only what is not on disk, which by `Files` was
not written.

### 4.3 The pool

`NoLostJob` is inductive with TypeOK and JobOnce: while threads sleep, the queue is no
longer than the number of threads on their way to it plus notifications to come. A
notification that finds a sleeper turns it into such a thread; one that finds none may only
happen when nobody sleeps. `NoSleeperJoined` needs that the flag is set before notify_all.
`PoolImplementsQueue` is the refinement, a step or a stutter per action.

### 4.4 The master

Two invariants. `Exclusive` (always): who is between sem_wait and sem_post is the only one
to use that semaphore, and its value is 0. It needs that nobody uses a semaphore before it
is created (`Fresh`), and gives the types. `Linked` speaks of the segments that
are not contested: whoever has one attached has the one that is found by its key, and, if
mounted, the semaphore that is found by its name (`SameLink`); it has one master, and holds
its pid (`OneEach`); and a process about to register has seen that there is none (`Vacant`),
which stays true because it holds the semaphore. Mounts and unmounts that meet halfway make a
segment contested in the very step that would break this. `OneMasterHolds` follows at once.
`Cleaner` adds that somebody is left to remove what exists while nothing is contested and
nobody has died, and gives `LeavesNothingHolds`. One step per action, under it one per part.

### 4.5 Cache files

`NoPaddingHolds` and `AvailableStaysHolds` rest on `FilesInv`, one property of each CACHEINFO
and three of the whole. `Sound`: a file that is open is written without gaps up to its
watermark, its position is below that, and the whole mapping has file behind it; a file that
is closed holds written bytes only. Files that do not belong to the entry are never open,
current segment and readers' segments do, and the file being written is open for writing
(`Held`). Padding can then only lie between watermark and the end of an open file, and the
close that cuts the file cuts it at the watermark. AvailableStays is an action property: no
step other than the start of another run unmaps a file a reader has open or lowers its
watermark (`Kept`, which composes over the calls an operation makes).

### 4.6 Frames

The invariant is FrameTypeOK /\ FramesApart. write_frame of a new frame appends behind the
last byte any record refers to, because position and watermark are at the end of what was
written; of a frame that is there it stays inside its place if it has the size it had, and
makes the frame outgrown if not, for which FramesApart says nothing. `FramesStayApart` is the
invariant. `FramesImplementStore` uses it step by step: a byte of another frame lies outside
the extent being written, unless one of the two is outgrown, and then FrameStore allows
whatever mixture of old and new bytes results; growing the file changes no byte below its
old size. No size is assumed to stay as it was.

### 4.7 Reads of frame sets

`SuccessHasAllHolds`: a set recorded as complete has every frame that can be decoded. The
invariant `FrameInv` adds `Passed`: a run that has not seeked has all frames behind its
position, but for those that cannot be decoded. A run that has seeked knows nothing of the
frames it jumped over, and the proof needs that such a run never ends in success and that a
cache is erased by nobody else than a run that starts over.

### 4.8 The upgrade

`UpgradeInv` says what the transaction has reached at each statement: the columns added so
far, that rows are in the old table or in the new one and complete in it, and that `disk` is
still what was committed before. Commit is enabled only after the last statement, so
`UpgradeAllOrNothing` follows: what reaches the disc is a current database with the rows of
the old one. What the rows say about results is another matter (ResultsKept, see 5).

### 4.9 The map of entries, and the pass over the size

`MapIsLiveHolds`: the map leads to living entries of the right file. `MapInv` has the types,
what threads and workers point to in each of their stages, and the two facts that make
deletions harmless: a pass of pruning has its victim off the map before it deletes it, and
rows and entries tell of a source as it is or was, with settings of this mount or an earlier
one (`PastOK`).

`SizeKeptHolds`: a pass of prune_cache_size over rows that were too many ends within the
limit, for any number of files of any size. The code adds the sizes up once and takes off
what it removes; the property adds up the rows that are left. So `SizePass` relates the two:
while the pass runs, the list is told by the rows (`Tells`: each row once, with its size; once
the entry of the first was closed, whose last words may rewrite its row, the rows but that
one), and what is left is the list's sum. No other action writes a row meanwhile, as the pass
holds the mutex of the index. That the sum of the list is that of the rows (`TellsTotal`)
needs lemmas about the folds: both are sums in the sense of `Sums`, which adds in whatever
order, and two such sums of the same numbers are the same (`SumsMatch`). That is an induction
over finite sets, and made without the library's theorem: of the sets for which it fails, one
has the least cardinality (`LeastOf`, from the well-founded order of Nat). TLC checked
`SizePass` on the run Cache before it was proved.

### 4.10 What is served

`ServedIsWholeHolds`: what an entry serves as complete was encoded to its end from the source
and settings it tells of, over crashes, remounts and pruning. The invariant `ServedInv` holds
until the cache is astray (2.5), where the property itself promises nothing. Its core, per
entry: the reference count is the number of threads inside plus one for the worker
(`Counted`); so the thread that finds it at zero and reads the row is alone (`ReadsAlone`);
an entry that is encoded says "none", and the file is its own when it ends (`Encoding`); what
it says otherwise, and what its row promises for today's source and settings, is what the
file holds (`InfoTrue`, `RowKept`, `RowTrue`); a file has one entry (`Unique`). A remount is
where `Apart` is needed: rows of another mount promise nothing to this one.

### 4.11 Opening of streams

`ContainerWholeHolds` and `UploadsMatchHolds` speak of the moment at which a header is
written, for every source, target and device. `SetupInv` says what each stage before that has
done. `ChosenRight`: what is chosen depends on source and target only, so that a second pass
through the output finds the choice of the first (the container drops a chosen picture that
is no film, by m_is_video, and nothing else). `ContainerSoFar`: the container has streams of
the kinds that were dealt with, and of the present kind only those the loop has come to; so a
stream is never added twice. `PlacesGood`: of the places in m_out, those of film and sound
may be left over from a container that was closed until their stage is passed, the others are
gone; from then on each leads to the one stream of its name. `FramesFit` with `DeviceHeld`:
buffering for the encoder is on exactly if the device exists when the encoder is opened, and
the way back to software resets both before the film is added again. The failing calls are
one lemma (`FailsInv`), the turns of the three loops another (`TurnInv`). Source adds the
input to this: reads and seeks leave the setup alone.

### 4.12 Conversion

`ConversionFits`: samples and pictures in the queues are what the present encoder takes. The
invariant ties each of the three converters to what it was made for: `SoundInv` (a
resampler converts from what it was made for to the encoder's format, and the queue holds
nothing of another format) and, for a source that keeps its picture format
(`Steady`), `PictureInv` (scaler and graph were made for the picture and the encoder's size,
through falls back to software and reopenings). `Idle` says that what is not open has
nothing queued.

### 4.13 Reading of discs

`DiscsInOrder` and `DiscsEndAtEnd`: files of Video CDs and Blu-ray discs are read without gap
or repetition, and look ended only at their end. `Disc` is what they ask of a disc. A
Blu-ray title has increasing chapters that begin at access points, as libbluray presents it.
A Video CD has been `Pressed`: it has entries and tracks of bytes and time stamps, whatever
they are, and if it is clean, so that every sector can be read and every entry has one, its
tracks are `Sound`: times rise, less than a sector is left behind the last one, and the sync
bytes of the first sector do not occur before it. Damaged discs are included, in any state.

`ChaptersTileHolds` says what scan_chapters finds on a clean one: each chapter begins at the
sector with its time and ends where the next one of its track begins, and the last one of the
disc ends with its track. Of the last chapter of an earlier track it says nothing, since its
end is wrong (`TracksFilled`, 5). Three loops and a binary search are functions in
`VcdInput`, and a fact about each of their values is proved without induction: among the
arguments for which it fails, taken as a set of numbers, there would be a least one
(`LeastOf`). So also that the functions exist, which TLA+ does not promise of a recursive
definition: the longest one that does exist can be made longer (`KeepExists`, `MatchExists`,
`ScanExists`, and `SearchExists` by the breadth of a window).

* seek_sync: after i bytes (`MatchInv`) it has found the sync bytes, or as many of them are
  matched as the bytes before i end with, and they cannot begin at any earlier place. Here
  it matters that the first sync byte comes again only as the last one: otherwise a mismatch
  may have to go back further than one byte. `FirstSyncFound`: it is the first sector's.
* The search (`LocateFinds`): the sector with the time is in every window that is looked at,
  and windows shrink (`WindowsShrink`). On any disc what it returns is a sector of the track,
  or none (`LocateRange`).
* The rounds of scan_chapters: `ScanInv` on any disc (the list is the one that was kept, with
  positions; size and sync are those of the track that is open), `CleanInv` on a clean one
  (no failure; starts are sectors; ends within a track are the next starts).

The theorems about reading need two consequences: `PositionsAre`, that the ends of files are
numbers on any disc, and `TiledIs`, that they are inside the track on a clean disc with one.

The invariant `ReadInv` says, of the open device, where it stands. For a Blu-ray
(`BlurayPlace`) what is left of a block is a piece of the title between the ends of the
file, and unless a seek may have missed, it is the piece that comes next and the library
stands behind it. Two facts keep it so. The rest is delivered whole or not at all, so FFmpeg
must ask for as much: whenever something is left, FFmpeg's buffer is full or was
emptied by a seek, and the next read has room for the whole buffer, which is as large as the
block's. And BlurayIO::eof looks at m_cur_pos, which a seek behind the end moves
without the library: then the file was delivered to its very end as far as FFmpeg is
concerned. For a Video CD (`VcdPlace`) the position of the track's file is the position
delivered to, unless fread has met the end of the track or a seek was cut off at the end of
the file; on a tiled disc fread never does. Input's other steps keep `ReadInv` because they
close the device.

### 4.14 HLS runs

`PacketsNotEarly`: whatever is requested, and wherever the run seeks, no packet is written to
a segment that lies before its own. StorePacket lets a packet wait only if it is of the very
next segment, so one that is two ahead would go into the current file. That this does not
happen is the work of the frame map, which is encoded in order: it never leaves out a
segment. `EarlyInv` says so (`FramesReached`: between the current segment and any frame
each segment has a frame) and has what is needed for the next frame that comes into the map.
`ReadReached`: what was read of video and subtitles lies no further than the map reaches.
`AudioNear`: the frame of audio that is next is at most one segment further. `KeySeen`: a
decoder that waits for a key packet has seen none in the current segment or later, so what it
drops leaves no gap of two segments. `EncodersDue`: what an encoder holds back is due. Cutting
a segment, or a seek, moves the current segment and keeps all of these.

`Regular` is what it asks of the source: all streams are encoded, audio on the one hand and
video with its subtitles on the other enter a segment only after the one before (`Gradual`),
a key packet is at most one segment back (`KeysNear`), a frame of the audio encoder is no
longer than a segment, and a stream a running seek can use is not stream 0. Without the last
one a seek goes nowhere (ffmpeg_transcoder.cc:6109) and the run goes on writing in the segment
asked for; without the others TLC refutes NothingEarly (5). Of the eleven setups of the run nine
are Regular.

`RunWritesAll`: at the end of a run that did not seek, and found nothing of an earlier run,
each unit of each stream is in a segment, each stream in order and once. `OrderInv` is the
invariant of such a run. `Chain`: every queue is in order, and of each stream what is stored
lies before what is in the encoder, and that before what is in the map (`Leads`). `Balance`:
what was read is what is in queues, files and fifo together (`Conserved`), what was taken
lies before what is still to come (`TakenInOrder`, `NextAudio`, as audio positions are
counted and not read), and the decoder has dropped nothing (`NoneDropped`). `Drained` says
what is empty at the end. A packet that waits for a segment that is never started would be
lost, so the theorem needs that the run ends in the last segment or that the source is
Regular, which by `EarlyInv` means that nothing waits. `Plain` says that the streams of the
source are in order, that audio which is encoded has no gaps and that video which is encoded
begins with a key packet; all eleven setups are Plain.

`PipelineTypes` has the types, among them that the map stays sorted; `TypeInv` under it gives
where a seek may land (`PacketAt`, for each position, by the least counterexample).

### 4.15 Only model-checked

Liveness (WorkersEnd, CallsReturn, TearDownEnds, MasterReturns, RunEnds, RunsEnd,
ServedUnlessErased, OpenEnds and the fair half of the refinement) is outside the prover, as
is ENABLED. Induction over data is too, and the way around it, by the least counterexample
(4.9, 4.13), needs an invariant of every loop. The walks over a DVD's cells, VOBUs and angles
have many, which are not written: InOrder and EndIsEnd for DVDs stay with TLC.
ListedFound and ReadsReachData of FuseOps would need the same argument for each fold that fills
the table (tracks, titles, members, playlists, the files of a listing), and they hold only of
names that do not clash and of files that are media (section 5); neither proof is written.
SegmentWhole depends on numbers: at the cut the map spans 75 % of a segment, and the
property holds only of streams that are closer to each other than that, since what arrives of
the ended segment afterwards goes into the next one. The run's sources are that close, and
files of an earlier run come into it as well; TLC checks it for those. No
module declares a RECURSIVE operator; recursion is written as functions and folds.

## 5. Where code and comments differ

Three disagreements have a run; `findings` in PROJECT.json quotes the lines.

* TranscodeLost (transcode.cc:641): the worker sets the lock guard and notifies without the
  mutex of the condition variable, so the notification may fall between the starter's test
  and its wait. With a prebuffer of zero the worker notifies once, and the starter sleeps
  for ever, inside open() or read().
* TranscodeOvertaken (transcode.cc:674): an application finds the entry and waits in lock(),
  as another one's open of the same file is under way. That open fails, closes the entry,
  finds no reference left and deletes it; the application that waits then uses a destroyed
  object. A worker that was timed out (1608) can delete it in the same window. cache.h:214
  says: "If the cache entry is in use will not be deleted." FreedUnused does not speak of
  such openers.
* MaintenanceMounts (cache_maintenance.cc:196): two processes that mount at once both find
  no segment; the second shmget lacks IPC_EXCL, so both become master. ffmpegfs.1.txt:450
  says: "Only one FFmpegfs process will do the maintenance by becoming the master."

Further behaviours were met while modelling. The definitions named below are kept in the
modules; TLC refutes them when they are added to a configuration.

Transcoder threads:

* WorkerKeepsEntry (transcode.cc:1608): a worker whose limit is reached is the last user,
  destroys the entry and afterwards unlocks the two mutexes that were part of it.
* RepairKeepsSegments (transcode.cc:854): a read that finds the flag set stacks no seek,
  finds it reset a few lines later and starts a run from scratch, which clears the segments
  that a repair is meant to keep (comment at 226).
* ServesWritten (transcode.cc:922): between availability check and copy the buffer may be
  cleared.
* StartsWhereAsked (ffmpeg_transcoder.cc:1340, comment at transcode.cc:1212): a request that
  arrives as a run ends makes transcoder_thread run transcode() again with the same
  transcoder. Its last time stamp is not zero, so the output is reopened without taking the
  request, and the source is encoded from its beginning into whatever segment was open last.
* A worker that restarts leaks a reference (`OpenInput` in each run, one `CloseIo`), after
  which no limit expires and closeio never frees the entry. With disable_cache an open clears
  the buffer under another application's worker, which then ends as FINISHED_SUCCESS without
  the first blocks. SuccessIsComplete does not hold either when cache files are lost, or when
  the source or the options change: an open then clears the buffer between the end of a run
  and its worker's last look at the result. An entry can have two jobs, one after the other,
  as the flag is taken as stale while the first one has not reached its mutex
  (`StartTryLock`).

Thread pool: schedule_thread looks at m_queue_shutdown before it takes the mutex
(thread_pool.cc:83), so a job may be pushed into a pool that starts none any more and stays in
its queue for ever; JobQueue allows it. FUSE's threads have ended when tear_down is called.

Maintenance: ffmpegfs.1.txt:450 goes on: "If that process exits, another will take over, so
that one will always do the maintenance." The code keeps this under the excuses of
MasterReturns: a process that dies inside master_check leaves the semaphore taken for ever; a
pid that another program was given counts as a master. A process that mounts while the last
one unmounts may attach a segment that is removed a moment later, or find none to attach and
crash, as the result of shmat is used unseen (210); and one that unmounts may remove the name
of a semaphore others share, so that later mounts have another one. A mount without
maintenance never links up, but stop_cache_maintenance links down (fuseops.cc:1404).

Buffer:

* ImagesApart (buffer.cc:811): a frame keeps its place if its old image is *not larger* than
  the new one. The comments at 813 ("Frame already exists and has enough space") and 826
  ("Create new frame if not existing or not enough space") say the reverse: a larger image is
  written over its neighbour, and a smaller one gets a new place.
* FinishedIsThere (buffer.cc:252): Buffer::init removes files but keeps m_seg_finished of
  the segments.
* frame_to_pts goes through uint32_t (ffmpeg_base.cc:334).

Cache:

* InUseNotDeleted (cache.h:214): pruning closes entries it never opened, takes away a
  reference of somebody else, and may delete an entry in use.
* A mount with settings A, one with B and one with A again (`MCReturn` in place of
  `MCMounts`) serves, by the row of the first, a file the second may have replaced
  (cache_entry.cc:208). delete_info gets the source's name although rows are kept under the
  destination's (cache_entry.cc:146), so the row stays until it is found outdated or pruned.
  Two first opens at once make two entries of one file (cache.cc:1068). An open that comes
  while a pass drops an entry, after it was taken off the map and before its row and files
  are removed (1147), makes a second entry too, or serves by the old row a file that is
  removed a moment later: ServedIsWhole promises nothing of an entry that is `astray`, or
  whose file is gone. ~Cache_Entry waits for m_active_mutex while pruning holds
  Cache::m_mutex (cache_entry.cc:67, cache.cc:1150), so a prune can wait for a whole run.
* ResultsKept, OldIndexUpgrades (cache.cc:507): the comment says "Old 1 is
  RESULTCODE::FINISHED (2)" and the statement sets 3, so files that were complete are taken
  for failed; and step 3 selects all present columns from the old table, so an index that
  lacks video_frame_count and a later column can never be upgraded.

FUSE operations: AudioListed (fuseops.cc:403), FormatByContent (1673), DiscListed,
TrackKnowsPart, OwnNameServed (637) say what comments or names promise and some order of
calls or clash of names breaks: a source with an audio stream may be missing from a listing;
a format guessed from the name is not corrected by the contents; a disc that was read may be
listed without its titles; a track of a cue sheet may be in the table without knowing where
in its source it begins; a name that is passed through may lead to another file than the one
of that name. ReadsReachData needs mounts like those of the run: with `MCNotMedia` in place
of `MCMounts` (MCCalls) TLC opens a file that is not media, as the source it is, then has a
path typed (t.txt.png) by which find_original takes the same file for a source, and lists the
directory. The file is in the table now, as a directory of frames, and read of the open
handle, whose fi->fh is zero, returns -errno with no error set (1200). getattr of a directory
of tracks before a listing gives EINVAL (707). make_hls_fileset appends its text at each
call. parse_dvd returns ENOENT as a positive number (dvdparser.cc:439). The maps of virtual
files are read and written by FUSE's threads without a mutex. ffmpegfs.1.txt:379
(enablescript) and 119 (recodesame) describe other names than the code makes.

Segments: WrittenOnce does not hold, since a segment that is repaired is written behind what
it had when it was interrupted (transcode.cc:1213); FinishedIsWhole does not, since a run
marks the segment it leaves for a seek (ffmpeg_transcoder.cc:6000). The run's sources keep
to what the code handles; beyond it TLC finds: SegmentWhole fails after a seek when the
video is stream 0 of the source and not every packet is a key packet (6109 takes index 0 for
no video), and for encoders that hold packets back, which are not flushed when a segment
ends (the property leaves them out); NothingEarly and AllWritten fail when both streams are
copied and arrive at different times, and NothingEarly where a gap in a stream is longer
than a segment.

Frame sets: FramesKept (transcode.cc:226): a run without a request clears the cache while it
is repaired. A frame that cannot be decoded is tried again until the retries are used up
(1069). m_fake_frame_no outlives a restart.

Streams: MappedExists ("Already existing", ffmpeg_transcoder.cc:3293): m_stream_map is never
cleared (8136), so after a fallback, a reopening or a restart subtitle streams are missing
from the container and encode_subtitle fails. An encoder's FALLBACK persists over a restart
while open_bestmatch_video turns buffering on again (606). The fallback of a later decoder
resets the video decoder (1087), and what uses it next crashes. Album art turns buffering off
(1009). Device contexts, input_codec_ctx, I/O and subtitle contexts leak on failure, and the
device stays open when the format context is null. initialise_subtitle_output_start_times
mixes indices of input and output (1568).

Inputs: SeekLands does not hold on DVDs (dvdio.cc:772) and Blu-rays (blurayio.cc:251), where
a seek goes to a unit or access point before the position; the DVD's seek returns its
position, which is taken as an error. A Blu-ray chapter lacks its last byte
(blurayio.cc:144), a full title of a VCD the bytes before its first chapter
(vcdparser.cc:112), a DVD file what is left of the last VOBU (dvdio.cc:693). TracksFilled:
the end of the chapter before is set to the start of the chapter found also when that one
lies in the next track, so the last chapter of an earlier track ends at an offset of another
file (vcdentries.cc:257; vcdchapter.h:218: "End offset in bytes (not including this byte)").
An entry whose sector is not found begins at 0, and the angle is tested as if counted from 1.

Conversion: ChangesHandled (ffmpeg_transcoder.cc:3893: "We handle this"): a film that
changes size or format as it plays reaches the encoder as it comes. get_video_size with only
the height given divides by the aspect ratio (1742; ffmpegfs.1.txt:263). The frames context
takes the decoder's size, not the encoder's (7487). send_filters hands the first picture on
unfiltered, then each picture one late with the time stamp of the next, and the last never
(7265). Samples the resampler still holds are not flushed.

## 6. Not modelled, and the plan

Partly modelled, and what is missing:

* Transcoder threads: prediction of sizes, unmounting while calls are inside, log output.
* Decoding and encoding: bit rates and codec options, metadata and album art contents, size
  prediction: numbers and text that change nothing else. Packets of plain files take the
  path of HlsPipeline with one endless segment, and Transcode has their blocks.
* Streams: codec parameters.
* FUSE operations: stat data, the thread that predicts sizes (kick_next), start and end of a
  mount.
* Discs and cue sheets: what the libraries find on a disc or in a sheet is given; DiskIO
  hands on what the C library returns.

Not modelled: parsing of options and main (straight-line code before any other thread
exists), the wrappers of FFmpeg's objects (an owner of one object each, no shared state),
profiles (tables), file format headers (layouts), logging, help page, packaging and shell
tests.

Next, in this order:

1. Proofs: SegmentWhole of HlsPipeline, under a condition on how far apart streams arrive.
2. `Transcode` on top of `CacheIndex`, with pruning and workers in one model.
3. Prediction of sizes with kick_next and the stat data it changes; start and end of a
   mount.
