---------------------------- MODULE HlsPipeline ----------------------------
(***************************************************************************)
(* One run of FFmpeg_Transcoder over an HLS file (ffmpeg_transcoder.cc):   *)
(* packets are read, decoded into a map ordered by position or copied,     *)
(* encoded in that order and stored in the file of the current segment,    *)
(* until every active stream has reached the next one.  Positions and      *)
(* lengths are counted in units, SegDur of them to a segment.  FFmpeg is   *)
(* external: a decoder answers at once and after a seek drops video up to  *)
(* the next key packet, an encoder holds back "lag" packets, and a seek    *)
(* goes to the last key packet of the stream at or before the position.    *)
(***************************************************************************)
EXTENDS Integers, Sequences, FiniteSets

CONSTANTS
    Setups,       \* what is transcoded: see the assumption
    SegDur,       \* segment_duration in units
    Segments,     \* get_segment_count()
    AudioFrame,   \* units in a frame of the audio encoder
    MaxSeeks      \* bound on the requests stacked during the run

Media == {"audio", "video", "subtitle"}
AV    == {"audio", "video"}
Packet == [media : Media, pos : Nat, len : Nat, key : BOOLEAN]

(***************************************************************************)
(* A setup has the packets of the source in file order, the output streams *)
(* that are copied, the packets the encoders hold back, the index of the   *)
(* audio and video stream in the source (-1: none), min_seek_time_diff and *)
(* prebuffer_time in segments, the files of the segments an earlier run    *)
(* has left in the cache, and the segment this run is started for (0:      *)
(* none).  A file has audio or video, and packets of other streams are not *)
(* looked at.                                                              *)
(***************************************************************************)
SegmentOf(pos) == pos \div SegDur + 1

ASSUME PipelineAssumption ==
    /\ SegDur \in Nat \ {0} /\ Segments \in Nat \ {0} /\ AudioFrame \in Nat \ {0}
    /\ MaxSeeks \in Nat
    /\ \A u \in Setups :
        /\ u.input \in Seq(Packet) /\ u.copied \in SUBSET AV /\ u.lag \in Nat
        /\ u.index \in [AV -> Int] /\ u.first \in 0..Segments
        /\ u.minSeek \in Nat /\ u.prebuffer \in Nat
        /\ \E m \in AV : u.index[m] >= 0
        /\ \A k \in DOMAIN u.input : u.input[k].media \in AV => u.index[u.input[k].media] >= 0
        /\ DOMAIN u.cached \subseteq 1..Segments
        /\ \A i \in DOMAIN u.cached :
            /\ u.cached[i] \in Seq(Packet)
            /\ \A k \in DOMAIN u.cached[i] : SegmentOf(u.cached[i][k].pos) <= i

VARIABLES
    setup,     \* the source and how it is transcoded
    pc,        \* where process_single_fr is
    at,        \* the next packet av_read_frame returns
    broken,    \* the video decoder waits for a key packet
    frames,    \* m_frame_map
    samples,   \* units in m_audio_fifo
    audioPts,  \* m_out.m_audio_pts
    resetPts,  \* m_reset_pts
    encoder,   \* what the encoders hold back
    held,      \* m_hls_packet_fifo
    inhibit,   \* m_inhibit_stream_msk
    cur,       \* m_current_segment
    seeks,     \* m_seek_to_fifo
    asked,     \* requests stacked so far
    sought,    \* m_have_seeked
    finished,  \* the local "finished" of process_single_fr
    files,     \* what was written to the file of each segment
    ended      \* segments marked by finished_segment()

inVars  == <<at, broken, samples, audioPts, resetPts>>
outVars == <<encoder, held, inhibit, files>>
segVars == <<cur, seeks, sought, ended>>
pipelineVars == <<setup, pc, inVars, frames, outVars, segVars, asked, finished>>

-----------------------------------------------------------------------------
Has(m)    == m \in AV /\ setup.index[m] >= 0
Decodes(m) == Has(m) /\ m \notin setup.copied
Active    == {m \in AV : Has(m)}
Input     == setup.input

GotoNext(n) == n = cur + 1 /\ n <= Segments
\* Mutant: frames are encoded as soon as there are any.
DelayNone      == 0

Delay          == (SegDur * 75) \div 100

\* The map orders by position and, for equal positions, by arrival.
Before(f) == CHOOSE n \in 0..Len(frames) : \A k \in DOMAIN frames : frames[k].pos <= f.pos <=> k <= n

Inserted(f) ==
    [k \in 1..Len(frames) + 1 |-> IF k <= Before(f) THEN frames[k]
                                 ELSE IF k = Before(f) + 1 THEN f ELSE frames[k - 1]]

\* Mutant: no packet waits for its segment.
StoreDirectly(p) ==
    files' = [files EXCEPT ![cur] = Append(@, p)] /\ UNCHANGED <<held, inhibit>>

\* store_packet: a packet of the next segment waits for that segment to be
\* started, any other is written to the current one.
StorePacket(p) ==
    IF GotoNext(SegmentOf(p.pos))
    THEN /\ held' = Append(held, p) /\ inhibit' = inhibit \cup ({p.media} \cap AV)
         /\ UNCHANGED files
    ELSE /\ files' = [files EXCEPT ![cur] = Append(@, p)]
         /\ UNCHANGED <<held, inhibit>>

-----------------------------------------------------------------------------
\* av_seek_frame backwards to the start of segment i: reading goes on at the
\* last key packet of stream m before it, at the first packet if there is none.
KeyPosition(m, i) ==
    LET keys == {Input[k].pos : k \in {k \in DOMAIN Input :
                    /\ Input[k].media = m /\ Input[k].pos <= (i - 1) * SegDur
                    /\ Input[k].key \/ m = "audio"}}
    IN IF keys = {} THEN 0 ELSE CHOOSE x \in keys : \A y \in keys : y <= x

PacketAt(pos) ==
    CHOOSE k \in 1..Len(Input) + 1 :
        /\ k \in DOMAIN Input => Input[k].pos >= pos
        /\ \A l \in 1..k - 1 : Input[l].pos < pos

\* seek_hls_segment: a run that is already writing looks at the index of the
\* input stream instead of asking whether the stream exists.
Seekable(m, running) == IF running THEN setup.index[m] # 0 /\ Has(m) ELSE Has(m)

SeekPosition(i, running) ==
    IF Seekable("video", running) THEN PacketAt(KeyPosition("video", i))
    ELSE IF Seekable("audio", running) THEN PacketAt(KeyPosition("audio", i))
    ELSE at

\* discard_hls_seek_near_beginning
NearBeginning(i) == setup.minSeek > 0 /\ i <= setup.minSeek + setup.prebuffer + 1

\* initialise_hls_output_segment: the first request is served before any
\* output is written.
PipelineInit ==
    /\ setup \in Setups
    /\ LET direct == setup.first > 1 /\ ~NearBeginning(setup.first) IN
        /\ cur = IF direct THEN setup.first ELSE 1
        /\ sought = direct
        /\ at = IF direct
                THEN IF Has("video") THEN PacketAt(KeyPosition("video", setup.first))
                     ELSE PacketAt(KeyPosition("audio", setup.first))
                ELSE 1
        /\ resetPts = IF direct THEN AV ELSE {}
    /\ files = [i \in 1..Segments |-> IF i \in DOMAIN setup.cached THEN setup.cached[i] ELSE <<>>]
    /\ ended = DOMAIN setup.cached
    /\ pc = "call" /\ broken = TRUE /\ frames = <<>> /\ samples = 0 /\ audioPts = 0
    /\ encoder = [m \in AV |-> <<>>] /\ held = <<>> /\ inhibit = {}
    /\ seeks = <<>> /\ asked = 0 /\ finished = FALSE

\* stack_seek_segment, called between two calls of process_single_fr for a
\* reader that has found segment i unfinished.
Stack(i) ==
    /\ pc = "call" /\ asked < MaxSeeks /\ i \notin ended
    /\ seeks' = Append(seeks, i) /\ asked' = asked + 1
    /\ UNCHANGED <<setup, pc, inVars, frames, outVars, cur, sought, ended, finished>>

\* decode_frame for a packet of an audio stream.
ReadAudio(p) ==
    /\ IF Decodes("audio")
       THEN /\ samples' = samples + p.len
            /\ audioPts' = IF "audio" \in resetPts THEN p.pos ELSE audioPts
            /\ UNCHANGED <<held, inhibit, files>>
       ELSE /\ StorePacket(p) /\ UNCHANGED <<samples, audioPts>>
    /\ resetPts' = resetPts \ {"audio"}
    /\ UNCHANGED <<broken, frames>>

\* decode_frame for a packet of a video stream.
ReadVideo(p) ==
    /\ IF Decodes("video")
       THEN /\ broken' = (broken /\ ~p.key)
            /\ frames' = IF broken' THEN frames ELSE Inserted(p)
            /\ UNCHANGED <<held, inhibit, files>>
       ELSE /\ StorePacket(p) /\ UNCHANGED <<broken, frames>>
    /\ resetPts' = resetPts \ {"video"}
    /\ UNCHANGED <<samples, audioPts>>

ReadSubtitle(p) ==
    /\ frames' = Inserted(p)
    /\ UNCHANGED <<broken, samples, audioPts, resetPts, held, inhibit, files>>

\* read_decode_convert_and_store, for decoded audio called until the fifo
\* holds enough for one frame of the encoder.
Read ==
    /\ pc \in {"call", "fill"} /\ at <= Len(Input)
    /\ at' = at + 1
    /\ LET p == Input[at] IN
        \/ p.media = "audio" /\ ReadAudio(p)
        \/ p.media = "video" /\ ReadVideo(p)
        \/ p.media = "subtitle" /\ ReadSubtitle(p)
    /\ pc' = IF Decodes("audio") /\ samples' < AudioFrame THEN "fill" ELSE "frames"
    /\ UNCHANGED <<setup, encoder, segVars, asked, finished>>

ReadEnd ==
    /\ pc \in {"call", "fill"} /\ at > Len(Input)
    /\ finished' = TRUE /\ pc' = "frames"
    /\ UNCHANGED <<setup, inVars, frames, outVars, segVars, asked>>

\* create_audio_frame: the position of a frame is counted, not read.
EnoughAudio == samples >= AudioFrame \/ (finished /\ samples > 0)
FrameSize   == IF samples < AudioFrame THEN samples ELSE AudioFrame

CreateAudioFrame ==
    /\ pc = "frames" /\ EnoughAudio
    /\ frames' = Inserted([media |-> "audio", pos |-> audioPts, len |-> FrameSize, key |-> TRUE])
    /\ samples' = samples - FrameSize /\ audioPts' = audioPts + FrameSize
    /\ UNCHANGED <<setup, pc, at, broken, resetPts, outVars, segVars, asked, finished>>

\* Encoding starts when the map spans 75 % of a segment.
MustWait ==
    /\ ~finished /\ frames # <<>>
    /\ frames[1].pos + Delay > frames[Len(frames)].pos

StartEncoding ==
    /\ pc = "frames" /\ ~EnoughAudio
    /\ pc' = IF MustWait THEN "call" ELSE "encode"
    /\ UNCHANGED <<setup, inVars, frames, outVars, segVars, asked, finished>>

\* Mutant: the streams are not marked when the next segment is reached.
ReachNextUnmarked ==
    /\ pc = "encode" /\ frames # <<>> /\ GotoNext(SegmentOf(frames[1].pos))
    /\ pc' = "cut"
    /\ UNCHANGED <<setup, inVars, frames, outVars, segVars, asked, finished>>

\* The first frame of the next segment ends this one for every stream.
ReachNext ==
    /\ pc = "encode" /\ frames # <<>> /\ GotoNext(SegmentOf(frames[1].pos))
    /\ inhibit' = Active /\ pc' = "cut"
    /\ UNCHANGED <<setup, inVars, frames, encoder, held, files, segVars, asked, finished>>

\* An encoder gives out a packet when more than lag frames are in it; one for
\* subtitles at once.
Delayed(f) ==
    LET queue == Append(encoder[f.media], f) IN
    IF Len(queue) > setup.lag
    THEN StorePacket(queue[1]) /\ encoder' = [encoder EXCEPT ![f.media] = Tail(queue)]
    ELSE encoder' = [encoder EXCEPT ![f.media] = queue] /\ UNCHANGED <<held, inhibit, files>>

EncodeAudio(f)    == f.media = "audio" /\ Delayed(f)
EncodeVideo(f)    == f.media = "video" /\ Delayed(f)
EncodeSubtitle(f) == f.media = "subtitle" /\ StorePacket(f) /\ UNCHANGED encoder

Encode ==
    /\ pc = "encode" /\ frames # <<>> /\ ~GotoNext(SegmentOf(frames[1].pos))
    /\ frames' = Tail(frames)
    /\ EncodeAudio(frames[1]) \/ EncodeVideo(frames[1]) \/ EncodeSubtitle(frames[1])
    /\ UNCHANGED <<setup, pc, inVars, segVars, asked, finished>>

Encoded ==
    /\ pc = "encode" /\ frames = <<>>
    /\ pc' = "cut"
    /\ UNCHANGED <<setup, inVars, frames, outVars, segVars, asked, finished>>

-----------------------------------------------------------------------------
\* After the loop: more frames to encode, the end of the source, or return.
AfterCut(left) ==
    IF ~finished THEN "call" ELSE IF left # <<>> THEN "encode" ELSE "flush"

NotYet ==
    /\ pc = "cut" /\ inhibit # Active
    /\ pc' = AfterCut(frames)
    /\ UNCHANGED <<setup, inVars, frames, outVars, segVars, asked, finished>>

\* Only a segment that is open and has data has a position; "read" are those
\* that a reader keeps open.
HasData(i, read) == files[i] # <<>> /\ (i = cur \/ i \in read)

Wanted(i, read) ==
    /\ ~NearBeginning(i)
    /\ ~(setup.minSeek > 0 /\ i \in cur + 1 .. cur + 1 + setup.minSeek)
    /\ ~HasData(i, read)

\* start_new_segment with a request: the output is closed, which throws away
\* all that is still queued, and opened again at the requested segment.
SeekTo(i) ==
    /\ at' = SeekPosition(i, TRUE) /\ broken' = TRUE /\ resetPts' = AV
    /\ frames' = <<>> /\ samples' = 0 /\ audioPts' = 0
    /\ encoder' = [m \in AV |-> <<>>] /\ held' = <<>>
    /\ sought' = TRUE /\ cur' = i
    /\ UNCHANGED files

\* Mutant: the packets that waited are thrown away.
AdvanceEmpty ==
    /\ cur' = cur + 1 /\ held' = <<>>
    /\ UNCHANGED <<files, inVars, frames, encoder, sought>>

\* start_new_segment without one: the packets that waited go first.
Advance ==
    /\ cur' = cur + 1
    /\ files' = [files EXCEPT ![cur + 1] = @ \o held] /\ held' = <<>>
    /\ UNCHANGED <<inVars, frames, encoder, sought>>

StartNewSegment(read) ==
    /\ pc = "cut" /\ inhibit = Active
    /\ ended' = ended \cup {cur} /\ inhibit' = {}
    /\ LET wanted == {k \in DOMAIN seeks : Wanted(seeks[k], read)} IN
        IF wanted = {} THEN seeks' = <<>> /\ Advance
        ELSE LET k == CHOOSE k \in wanted : \A l \in wanted : k <= l IN
            seeks' = SubSeq(seeks, k + 1, Len(seeks)) /\ SeekTo(seeks[k])
    /\ pc' = AfterCut(frames')
    /\ UNCHANGED <<setup, asked, finished>>

\* flush_delayed_audio and flush_delayed_video.
Flush(m) ==
    /\ pc = "flush" /\ encoder[m] # <<>> /\ (m = "video" => encoder["audio"] = <<>>)
    /\ StorePacket(encoder[m][1])
    /\ encoder' = [encoder EXCEPT ![m] = Tail(@)]
    /\ UNCHANGED <<setup, pc, inVars, frames, segVars, asked, finished>>

\* DEC_EOF: transcode_finish ends the last segment.
Finish ==
    /\ pc = "flush" /\ \A m \in AV : encoder[m] = <<>>
    /\ pc' = "done" /\ ended' = ended \cup {cur}
    /\ UNCHANGED <<setup, inVars, frames, outVars, cur, seeks, sought, asked, finished>>

Work ==
    \/ Read \/ ReadEnd \/ CreateAudioFrame \/ StartEncoding
    \/ ReachNext \/ Encode \/ Encoded \/ NotYet \/ Finish
    \/ \E read \in SUBSET ended : StartNewSegment(read)
    \/ \E m \in AV : Flush(m)

PipelineNext == Work \/ \E i \in 1..Segments : Stack(i)

PipelineSpec == PipelineInit /\ [][PipelineNext]_pipelineVars /\ WF_pipelineVars(Work)

-----------------------------------------------------------------------------
PipelineTypeOK ==
    /\ pc \in {"call", "fill", "frames", "encode", "cut", "flush", "done"}
    /\ cur \in 1..Segments /\ ended \in SUBSET (1..Segments)
    /\ at \in 1..Len(Input) + 1 /\ samples \in Nat /\ audioPts \in Nat
    /\ resetPts \in SUBSET AV /\ inhibit \in SUBSET Active
    /\ \A k \in 1..Len(frames) - 1 : frames[k].pos <= frames[k + 1].pos
    /\ \A k \in DOMAIN held : GotoNext(SegmentOf(held[k].pos))

Units(s, m)   == UNION {s[k].pos .. s[k].pos + s[k].len - 1 :
                            k \in {k \in DOMAIN s : s[k].media = m}}

\* Segment i holds all of the source that belongs to it.  An audio frame is
\* written with its first unit, so its last ones may be in the segment before.
Whole(i) ==
    \A m \in Media : \A t \in Units(Input, m) :
        SegmentOf(t) = i =>
            \/ t \in Units(files[i], m)
            \/ m = "audio" /\ i > 1 /\ t \in Units(files[i - 1], m)

CutSegments == IF pc = "done" THEN ended \ {cur} ELSE ended

\* A segment that was ended because the next one begins is complete: whatever
\* the order in which streams arrive, and wherever the input was positioned,
\* no frame of it is still queued, dropped or in another file.  An encoder that
\* holds packets back is not flushed when a segment ends.
SegmentWhole == setup.lag = 0 => \A i \in CutSegments : Whole(i)

\* No packet is written to a segment that lies before its position.  What lies
\* behind the end of the last segment belongs to the last.
NothingEarly ==
    \A i \in 1..Segments : \A k \in DOMAIN files[i] :
        SegmentOf(files[i][k].pos) <= i \/ i = Segments

\* The packets of each stream are in order and do not overlap.
InOrder(s) ==
    \A k, l \in DOMAIN s :
        k < l /\ s[k].media = s[l].media => s[k].pos + s[k].len <= s[l].pos

\* Without a seek the run has written, at its end, every unit of every stream
\* to a segment, and each stream in its order without repeating any of it.
AllWritten ==
    pc = "done" /\ ~sought /\ DOMAIN setup.cached = {} =>
        /\ \A m \in Media : Units(Input, m) = UNION {Units(files[i], m) : i \in 1..Segments}
        /\ \A i \in 1..Segments : InOrder(files[i])

\* No segment file holds a unit of a stream twice.
WrittenOnce == \A i \in 1..Segments : InOrder(files[i])

\* A segment that is marked finished is complete.
FinishedIsWhole == \A i \in ended : Whole(i)

\* The loop over the frame map comes to an end whatever is stacked.
RunEnds == <>(pc = "done")

=============================================================================
