----------------------------- MODULE FrameReads -----------------------------
(***************************************************************************)
(* Direct access to the images of a frame set: transcoder_read_frame polls *)
(* for its frame and starts workers (transcode.cc), and the worker steers  *)
(* the decoder to the frames asked for (seek_frame and skip_decoded_frames *)
(* in ffmpeg_transcoder.cc).  FFmpeg is external: from its position the    *)
(* decoder delivers the frames of the source in order, except those it     *)
(* cannot decode, and a seek goes to the last key frame at or before the   *)
(* frame.  Runs neither fail nor time out here; Transcode has that.        *)
(***************************************************************************)
EXTENDS Integers, Sequences, FiniteSets

CONSTANTS
    Readers,    \* calls of transcoder_read_frame
    Target,     \* the frame each of them reads
    Count,      \* m_video_frame_count
    Keys,       \* key frames of the source
    Threshold,  \* FRAME_SEEK_THRESHOLD
    Sources     \* what the decoder does: see the assumption

Frames == 1..Count

\* A source has the frames the decoder cannot deliver, the frames an earlier
\* run has left in the cache, whether the images are encoded as MJPEG, and
\* whether a reader may run out of retries.
ASSUME FrameReadsAssumption ==
    /\ Count \in Nat \ {0} /\ Threshold \in Nat
    /\ Target \in [Readers -> Frames] /\ Keys \in SUBSET Frames /\ 1 \in Keys
    /\ \A s \in Sources : /\ s.missing \in SUBSET Frames /\ s.cached \in SUBSET Frames
                          /\ s.mjpeg \in BOOLEAN /\ s.slow \in BOOLEAN

VARIABLES
    source,    \* the source and the state of its cache
    reading,   \* where each read is
    jobs,      \* readers whose transcoder_thread waits for m_active_mutex
    worker,    \* where the worker that owns m_active_mutex is
    have,      \* frames in the cache
    result,    \* m_result
    wanted,    \* m_seek_to_no, 0 if none
    decoding,  \* m_is_decoding
    suspend,   \* m_suspend_timeout
    next,      \* the next frame of the decoder
    last,      \* the frame number of m_out.m_video_pts
    fake,      \* m_fake_frame_no
    stacked,   \* m_seek_to_fifo
    jumped     \* m_have_seeked

cacheVars    == <<have, result, wanted, decoding, suspend>>
decoderVars  == <<next, last, fake, stacked, jumped>>
frameVars == <<source, reading, jobs, worker, cacheVars, decoderVars>>

FrameReadsInit ==
    /\ source \in Sources
    /\ reading = [r \in Readers |-> "idle"] /\ jobs = <<>> /\ worker = "off"
    /\ have = source.cached
    /\ result = IF source.cached = {} THEN "none" ELSE "incomplete"
    /\ wanted = 0 /\ decoding = FALSE /\ suspend = FALSE
    /\ next = 1 /\ last = 1 /\ fake = 0 /\ stacked = <<>> /\ jumped = FALSE

-----------------------------------------------------------------------------
\* transcoder_read_frame

Goto(r, l) == reading' = [reading EXCEPT ![r] = l]

Probe(r) ==
    /\ reading[r] = "idle"
    /\ Goto(r, IF Target[r] \in have THEN "served" ELSE "request")
    /\ UNCHANGED <<source, jobs, worker, cacheVars, decoderVars>>

\* The frame is asked for, and an incomplete cache is opened again.
Request(r) ==
    /\ reading[r] \in {"request", "again"}
    /\ wanted' = Target[r]
    /\ result' = IF result = "incomplete" THEN "none" ELSE result
    /\ Goto(r, IF reading[r] = "request" THEN "look" ELSE "start")
    /\ UNCHANGED <<source, jobs, worker, have, decoding, suspend, decoderVars>>

Look(r) ==
    /\ reading[r] = "look"
    /\ Goto(r, IF decoding THEN "poll" ELSE "start")
    /\ UNCHANGED <<source, jobs, worker, cacheVars, decoderVars>>

\* start_transcoder_thread: a flag that no worker stands for is reset.
Start(r) ==
    /\ reading[r] = "start"
    /\ IF decoding /\ worker # "off"
       THEN Goto(r, "poll") /\ UNCHANGED <<jobs, decoding>>
       ELSE Goto(r, "await") /\ jobs' = Append(jobs, r) /\ decoding' = TRUE
    /\ UNCHANGED <<source, worker, have, result, wanted, suspend, decoderVars>>

Poll(r) ==
    /\ reading[r] = "poll"
    /\ Goto(r, IF Target[r] \in have THEN "served" ELSE "check")
    /\ UNCHANGED <<source, jobs, worker, cacheVars, decoderVars>>

\* Mutant of Check: nothing is started again when the worker has gone.
CheckOnly(r) ==
    /\ reading[r] = "check" /\ Goto(r, "poll")
    /\ UNCHANGED <<source, jobs, worker, cacheVars, decoderVars>>

Check(r) ==
    /\ reading[r] = "check"
    /\ Goto(r, IF decoding THEN "poll" ELSE "again")
    /\ UNCHANGED <<source, jobs, worker, cacheVars, decoderVars>>

\* The retries are used up, which they are not while the entry suspends them.
TimeOut(r) ==
    /\ reading[r] = "check" /\ decoding /\ ~suspend /\ source.slow
    /\ Goto(r, "failed")
    /\ UNCHANGED <<source, jobs, worker, cacheVars, decoderVars>>

ReadStep(r) == Probe(r) \/ Request(r) \/ Look(r) \/ Start(r) \/ Poll(r) \/ Check(r)

-----------------------------------------------------------------------------
\* transcode, up to its loop: a run without a request clears the cache.  The
\* time stamp of the last packet outlives a restart by the same thread.
Opened ==
    /\ have' = IF wanted = 0 THEN {} ELSE have
    /\ result' = "none" /\ decoding' = TRUE /\ suspend' = FALSE
    /\ next' = 1 /\ stacked' = <<>> /\ jumped' = FALSE
    /\ worker' = "loop"
    /\ UNCHANGED <<source, wanted>>

Begin ==
    /\ worker = "off" /\ jobs # <<>>
    /\ Opened /\ last' = 1 /\ fake' = 0
    /\ reading' = [reading EXCEPT ![jobs[1]] = "poll"] /\ jobs' = Tail(jobs)

\* Mutant of Loop: the request is stacked but not taken.
LoopKeeps ==
    /\ worker = "loop"
    /\ IF result # "none" THEN worker' = "leave" /\ UNCHANGED stacked
       ELSE /\ worker' = "seek"
            /\ stacked' = IF wanted # 0 THEN Append(stacked, wanted) ELSE stacked
    /\ UNCHANGED <<source, reading, jobs, cacheVars, next, last, fake, jumped>>

\* The loop of transcode ends when the result is set; otherwise a request is
\* stacked before the next frame.
Loop ==
    /\ worker = "loop"
    /\ IF result # "none"
       THEN worker' = "leave" /\ UNCHANGED <<wanted, stacked>>
       ELSE /\ worker' = "seek" /\ wanted' = 0
            /\ stacked' = IF wanted # 0 THEN Append(stacked, wanted) ELSE stacked
    /\ UNCHANGED <<source, reading, jobs, have, result, decoding, suspend, next, last, fake, jumped>>

KeyBefore(f) == CHOOSE k \in Keys : k <= f /\ \A l \in Keys : l <= f => l <= k

\* skip_decoded_frames: no seek if the frame is at most Threshold ahead.
Near(f) == f \in last .. last + Threshold

\* seek_frame: the first stacked frame that is not there yet.
SeekFrame ==
    /\ worker = "seek" /\ worker' = "decode"
    /\ LET missing == {k \in DOMAIN stacked : stacked[k] \notin have} IN
        IF missing = {} THEN stacked' = <<>> /\ UNCHANGED <<next, jumped>>
        ELSE LET k == CHOOSE k \in missing : \A l \in missing : k <= l IN
            /\ stacked' = SubSeq(stacked, k + 1, Len(stacked))
            /\ IF Near(stacked[k]) THEN UNCHANGED <<next, jumped>>
               ELSE next' = KeyBefore(stacked[k]) /\ jumped' = TRUE
    /\ UNCHANGED <<source, reading, jobs, cacheVars, last, fake>>

\* Images counted: beyond every frame it does not matter how far.
FakeBound == 2 * Count

\* decode_video_frame and encode_image_frame.  For MJPEG the time stamps only
\* count the images encoded.
DecodeFrame ==
    /\ worker = "decode" /\ next <= Count
    /\ next' = next + 1 /\ worker' = "loop"
    /\ IF next \in source.missing THEN UNCHANGED <<have, last, fake>>
       ELSE /\ have' = have \cup {next}
            /\ fake' = IF fake < FakeBound THEN fake + 1 ELSE fake
            /\ last' = IF source.mjpeg THEN fake' ELSE next
    /\ UNCHANGED <<source, reading, jobs, result, wanted, decoding, suspend, stacked, jumped>>

\* Mutant of EndOfSource: a run that has seeked counts as complete.
EndComplete ==
    /\ worker = "decode" /\ next > Count
    /\ result' = "success"
    /\ decoding' = FALSE /\ suspend' = TRUE /\ worker' = "loop"
    /\ UNCHANGED <<source, reading, jobs, have, wanted, decoderVars>>

\* DEC_EOF and transcode_finish.
EndOfSource ==
    /\ worker = "decode" /\ next > Count
    /\ result' = IF jumped THEN "incomplete" ELSE "success"
    /\ decoding' = FALSE /\ suspend' = TRUE /\ worker' = "loop"
    /\ UNCHANGED <<source, reading, jobs, have, wanted, decoderVars>>

\* transcoder_thread runs again for a late request unless it has seeked.
Leave ==
    /\ worker = "leave"
    /\ IF wanted # 0 /\ ~jumped
       THEN Opened /\ UNCHANGED <<last, fake, jobs, reading>>
       ELSE /\ worker' = "close" /\ suspend' = FALSE
            /\ UNCHANGED <<source, reading, jobs, have, result, wanted, decoding, decoderVars>>

Undecode ==
    /\ worker = "close"
    /\ decoding' = FALSE /\ worker' = "off"
    /\ UNCHANGED <<source, reading, jobs, have, result, wanted, suspend, decoderVars>>

WorkStep == Begin \/ Loop \/ SeekFrame \/ DecodeFrame \/ EndOfSource \/ Leave \/ Undecode

FrameReadsNext == WorkStep \/ \E r \in Readers : ReadStep(r) \/ TimeOut(r)

FrameReadsSpec ==
    /\ FrameReadsInit /\ [][FrameReadsNext]_frameVars
    /\ WF_frameVars(WorkStep) /\ \A r \in Readers : WF_frameVars(ReadStep(r))

-----------------------------------------------------------------------------
FrameReadsTypeOK ==
    /\ reading \in [Readers -> {"idle", "request", "look", "again", "start", "await",
                           "poll", "check", "served", "failed"}]
    /\ jobs \in Seq(Readers) /\ worker \in {"off", "loop", "seek", "decode", "leave", "close"}
    /\ have \in SUBSET Frames /\ result \in {"none", "success", "incomplete"}
    /\ wanted \in 0..Count /\ decoding \in BOOLEAN /\ suspend \in BOOLEAN
    /\ next \in 1..Count + 1 /\ last \in 0..FakeBound /\ fake \in 0..FakeBound /\ jumped \in BOOLEAN
    /\ \A r \in Readers : reading[r] = "await" <=> \E k \in DOMAIN jobs : jobs[k] = r

\* A frame set that is marked as completely transcoded has every frame the
\* decoder can deliver.
SuccessHasAll == result = "success" => Frames \ source.missing \subseteq have

\* A worker that has begun leaves again, although it restarts itself for a
\* request that came too late for its loop.
RunsEnd == worker # "off" ~> worker = "off"

\* Every read of a frame that the source has ends, unless the cache is erased
\* under it again and again.  (It can be: a run whose request was taken by the
\* run before it has none, and a run without a request clears the cache.)
ServedUnlessErased ==
    \A r \in Readers : Target[r] \notin source.missing =>
        (<>[][have \subseteq have']_frameVars => <>(reading[r] \in {"served", "failed"}))

\* Frames that are in the cache stay there while it is repaired.  The code does
\* not keep this.
FramesKept == [][have \subseteq have']_frameVars

=============================================================================
