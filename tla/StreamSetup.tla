----------------------------- MODULE StreamSetup -----------------------------
(***************************************************************************)
(* Opening and closing FFmpeg_Transcoder: which streams of the source get  *)
(* a decoder, which streams the container gets, hardware devices and the   *)
(* way back to software, the reopening of the output for another HLS       *)
(* segment, and the restart of a run with the same transcoder              *)
(* (transcoder_thread, transcode.cc).  Every call of FFmpeg may fail.      *)
(*                                                                         *)
(* A stream is known by its kind and its number; streams of subtitle files *)
(* beside the source are of kind "external".  Encoders' settings, sizes    *)
(* and bit rates are left out.                                             *)
(***************************************************************************)
EXTENDS Integers, Sequences, FiniteSets, FiniteSetsExt, Functions, TLC

CONSTANT Cases   \* sources with the options and the target format they meet

Hardware == {"none", "device", "named"}   \* none, with frame buffers, a codec by name

ASSUME SetupAssumption ==
    \A c \in Cases :
        /\ c.src.kinds \in Seq({"video", "audio", "subtitle", "art"})
        /\ c.src.external \in Nat
        /\ c.src.known \subseteq DOMAIN c.src.kinds /\ c.src.blocked \subseteq DOMAIN c.src.kinds
        /\ {c.opt.decode, c.opt.encode} \subseteq Hardware
        /\ c.opt.copied \subseteq {"video", "audio"}
        /\ c.opt.frameset => \E i \in DOMAIN c.src.kinds : c.src.kinds[i] = "video"

VARIABLES
    src,        \* [kinds, external, known, blocked]: the source
    opt,        \* the options and the target
    pc,         \* where the transcoder stands
    todo,       \* streams a loop has not come to yet
    device,     \* the FileIO: "none", "set", "open"
    opened,     \* m_in.m_format_ctx
    chosen,     \* the numbers of the streams to transcode, 0 for none
    is_video,   \* m_is_video
    decoders,   \* stream |-> decoded with a device
    mode,       \* m_hwaccel_dec_mode, m_hwaccel_enc_mode
    buffering,  \* m_hwaccel_enable_dec_buffering, m_hwaccel_enable_enc_buffering
    held,       \* m_hwaccel_dec_device_ctx, m_hwaccel_enc_device_ctx
    out,        \* the streams of the container
    refs,       \* m_out: stream |-> its place, its encoder, and whether its container is there
    stream_map  \* m_stream_map

setupVars == <<src, opt, pc, todo, device, opened, chosen, is_video, decoders, mode, buffering,
               held, out, refs, stream_map>>
\* What only the input side, and what only the output side, changes.
inputSide  == <<device, opened, is_video, decoders>>
outputSide == <<out, refs, stream_map>>

Of(kind) == {i \in DOMAIN src.kinds : src.kinds[i] = kind}
First(S) == IF S = {} THEN 0 ELSE Min(S)
\* av_find_best_stream: a picture only if there is no film.
Best(kind) == IF kind = "video" /\ Of("video") = {} THEN First(Of("art")) ELSE First(Of(kind))
Without(f, kinds) == [s \in {s \in DOMAIN f : s[1] \notin kinds} |-> f[s]]
With(f, s, v) == [t \in DOMAIN f \cup {s} |-> IF t = s THEN v ELSE f[t]]
Held(kind) == {s[2] : s \in {s \in DOMAIN decoders : s[1] = kind}}

SetupInit ==
    /\ \E c \in Cases : src = c.src /\ opt = c.opt
    /\ pc = "new" /\ todo = {} /\ device = "none" /\ opened = FALSE
    /\ chosen = [video |-> 0, audio |-> 0] /\ is_video = FALSE /\ decoders = <<>>
    /\ mode = [dec |-> "none", enc |-> "none"]
    /\ buffering = [dec |-> FALSE, enc |-> FALSE] /\ held = [dec |-> FALSE, enc |-> FALSE]
    /\ out = <<>> /\ refs = <<>> /\ stream_map = <<>>

-----------------------------------------------------------------------------
(***************************************************************************)
(* The input (open_input_file).                                            *)
(***************************************************************************)
OpenDevice(ok) ==
    /\ pc = "new"
    /\ device' = IF ok THEN "open" ELSE "set"
    /\ pc' = IF ok THEN "probe" ELSE "failed"
    /\ UNCHANGED <<src, opt, todo, opened, chosen, is_video, decoders, mode, buffering, held, outputSide>>

\* avformat_open_input frees the context when it fails, avformat_find_stream_info does not.
Probe ==
    /\ pc = "probe"
    /\ \/ opened' = TRUE /\ pc' = "video"
       \/ opened' \in BOOLEAN /\ pc' = "failed"
    /\ UNCHANGED <<src, opt, todo, device, chosen, is_video, decoders, mode, buffering, held, outputSide>>

\* One turn of the loop in open_decoder, for stream s; given: the codec is known
\* already.  Hardware is tried for pictures only, but the way back to software is
\* taken by any stream, and takes the decoder of the film with it.
Tries(s) == s[1] \in {"video", "art"} /\ opt.decode # "none" /\ mode.dec # "fallback"
            /\ s[2] \notin src.blocked
Buffers(s, given) ==
    IF Tries(s) /\ s[2] \in src.known THEN opt.decode = "device" /\ given ELSE buffering.dec
ModeFor(s, given) ==
    IF s[1] \in {"video", "art"} /\ opt.decode # "none" /\ s[2] \in src.blocked THEN "fallback"
    ELSE IF Tries(s) /\ (Buffers(s, given) \/ (opt.decode = "named" /\ s[2] \in src.known)) THEN "enabled"
    ELSE mode.dec
OpenDecoder(s, given) ==
    /\ decoders' = With(decoders, s, Tries(s) /\ Buffers(s, given))
    /\ mode' = [mode EXCEPT !.dec = ModeFor(s, given)]
    /\ buffering' = [buffering EXCEPT !.dec = Buffers(s, given)]
    /\ held' = [held EXCEPT !.dec = @ \/ (Tries(s) /\ Buffers(s, given))]
FallBackDecoder(s, given) ==
    /\ ModeFor(s, given) = "enabled"
    /\ mode' = [mode EXCEPT !.dec = "fallback"]
    /\ buffering' = [buffering EXCEPT !.dec = FALSE] /\ held' = [held EXCEPT !.dec = FALSE]
    /\ decoders' = Without(decoders, {"video"})
    /\ UNCHANGED <<pc, todo>>
Fail == pc' = "failed" /\ UNCHANGED <<todo, decoders, mode, buffering, held>>

\* open_bestmatch_video, open_bestmatch_audio.
OpenBest(kind, next) ==
    /\ pc = kind
    /\ IF kind = "video" /\ ~opt.video THEN pc' = "audio" /\ UNCHANGED <<todo, chosen, decoders, mode, buffering, held>>
       ELSE /\ chosen' = [chosen EXCEPT ![kind] = Best(kind)]
            /\ IF Best(kind) = 0
               THEN /\ decoders' = Without(decoders, {kind})
                    /\ pc' = (IF kind = "video" THEN "audio" ELSE next)
                    /\ UNCHANGED <<todo, mode, buffering, held>>
               ELSE LET s == <<kind, Best(kind)>> IN
                    \/ OpenDecoder(s, TRUE) /\ pc' = next /\ UNCHANGED todo
                    \/ FallBackDecoder(s, TRUE)
                    \/ Fail
    /\ UNCHANGED <<src, opt, device, opened, is_video, outputSide>>
OpenBestVideo == OpenBest("video", "encoder")
OpenBestAudio == OpenBest("audio", "check")

\* The encoder's device is made with the video decoder; an earlier fall-back of the
\* encoder is not asked about.
EncoderDevice ==
    /\ pc = "encoder"
    /\ buffering' = [buffering EXCEPT !.enc = IF opt.encode = "none" THEN @ ELSE opt.encode = "device"]
    /\ is_video' = (src.kinds[chosen.video] = "video")
    /\ \/ pc' = "audio" /\ held' = [held EXCEPT !.enc = @ \/ buffering'.enc]
       \/ buffering'.enc /\ pc' = "failed" /\ UNCHANGED held
    /\ UNCHANGED <<src, opt, todo, device, opened, chosen, decoders, mode, outputSide>>

CheckStreams ==
    /\ pc = "check"
    /\ IF chosen = [video |-> 0, audio |-> 0] THEN pc' = "failed" /\ UNCHANGED todo
       ELSE pc' = "subtitle" /\ todo' = IF opt.subtitle THEN Of("subtitle") ELSE {}
    /\ UNCHANGED <<src, opt, chosen, mode, buffering, held, inputSide, outputSide>>

\* open_subtitles and open_albumarts, one stream at a time.
OpenAll(kind, next, rest) ==
    /\ pc = kind
    /\ IF todo = {} THEN pc' = next /\ todo' = rest /\ UNCHANGED <<decoders, mode, buffering, held>>
       ELSE LET s == <<kind, Min(todo)>> IN
            \/ OpenDecoder(s, FALSE) /\ todo' = todo \ {s[2]} /\ UNCHANGED pc
            \/ FallBackDecoder(s, FALSE)
            \/ Fail
    /\ UNCHANGED <<src, opt, device, opened, chosen, is_video, outputSide>>
OpenSubtitles == OpenAll("subtitle", "art", IF opt.albumarts /\ chosen.audio # 0 THEN Of("art") ELSE {})
OpenAlbumArts == OpenAll("art", "output", {})

-----------------------------------------------------------------------------
(***************************************************************************)
(* The output (open_output_file).                                          *)
(***************************************************************************)
VideoActive == chosen.video # 0 /\ opt.video
AudioActive == chosen.audio # 0 /\ opt.audio
Stale(f) == [s \in DOMAIN f |-> [f[s] EXCEPT !.fresh = FALSE]]
CloseOutputKeeps == out' = <<>> /\ refs' = Stale(refs)

\* close_output_file: the places of film and sound remain in m_out.
CloseOutput ==
    /\ out' = <<>>
    /\ refs' = [s \in DOMAIN Without(refs, {"subtitle", "external", "art"}) |->
                   [refs[s] EXCEPT !.fresh = FALSE, !.encoder = "none", !.frames = FALSE]]

FallBackEncoderBuffers ==
    /\ mode' = [mode EXCEPT !.enc = "fallback"] /\ held' = [held EXCEPT !.enc = FALSE]
    /\ CloseOutput /\ pc' = "container" /\ UNCHANGED buffering
FallBackEncoderForgets ==
    /\ buffering' = [buffering EXCEPT !.enc = FALSE] /\ held' = [held EXCEPT !.enc = FALSE]
    /\ CloseOutput /\ pc' = "container" /\ UNCHANGED mode

\* open_output_with_hwaccel_fallback: any error sends a hardware encoder back to software.
FallBackEncoder ==
    /\ mode' = [mode EXCEPT !.enc = "fallback"]
    /\ buffering' = [buffering EXCEPT !.enc = FALSE] /\ held' = [held EXCEPT !.enc = FALSE]
    /\ CloseOutput /\ pc' = "container"
OutputFails(enabled) ==
    /\ IF enabled THEN FallBackEncoder
       ELSE pc' = "failed" /\ UNCHANGED <<out, refs, mode, buffering, held>>
    /\ UNCHANGED <<stream_map, todo>>

OpenOutputFile ==
    /\ pc = "output"
    /\ \/ pc' = "failed" /\ UNCHANGED refs
       \/ /\ chosen.audio # 0 \/ opt.video
          /\ IF opt.frameset
             THEN /\ pc' = IF <<"video", chosen.video>> \in DOMAIN decoders THEN "ready" ELSE "crashed"
                  /\ refs' = <<"video", chosen.video>> :>
                                [place |-> 0, fresh |-> TRUE, encoder |-> "soft", frames |-> FALSE]
             ELSE pc' = "container" /\ UNCHANGED refs
    /\ UNCHANGED <<src, opt, todo, chosen, mode, buffering, held, inputSide, out, stream_map>>

OpenContainer ==
    /\ pc = "container"
    /\ \/ /\ out' = <<>> /\ refs' = Stale(refs) /\ pc' = "video stream"
          /\ chosen' = [chosen EXCEPT !.video = IF is_video THEN @ ELSE 0]
          /\ UNCHANGED <<stream_map, todo, mode, buffering, held>>
       \/ OutputFails(mode.enc = "enabled") /\ UNCHANGED chosen
    /\ UNCHANGED <<src, opt, inputSide>>

\* A new stream of the container for stream s; m_stream_map keeps its first entry.
Add(s, encoder, frames) ==
    /\ out' = Append(out, s)
    /\ refs' = With(refs, s, [place |-> Len(out) + 1, fresh |-> TRUE, encoder |-> encoder, frames |-> frames])
    /\ stream_map' = IF s[1] \in {"external", "art"} \/ s[2] \in DOMAIN stream_map THEN stream_map
                     ELSE With(stream_map, s[2], Len(out) + 1)

\* add_stream and add_stream_copy.  A film is encoded by the hardware unless the
\* encoder fell back, with frames of the device if there is one.
HardwareEncoder == opt.encode # "none" /\ mode.enc # "fallback"

\* find_output_encoder: with no encoder of that name the mode stays what it was,
\* and the first attempt with the hardware is the last.
EncoderNotFound == OutputFails(mode.enc = "enabled")

AddVideo ==
    /\ pc = "video stream"
    /\ LET s == <<"video", chosen.video>> IN
       \/ ~VideoActive /\ pc' = "audio stream" /\ UNCHANGED <<todo, mode, buffering, held, outputSide>>
       \/ /\ VideoActive /\ "video" \in opt.copied
          /\ \/ Add(s, "none", FALSE) /\ pc' = "audio stream" /\ UNCHANGED <<todo, mode, buffering, held>>
             \/ OutputFails(mode.enc = "enabled")
       \/ /\ VideoActive /\ "video" \notin opt.copied /\ s \in DOMAIN decoders
          /\ \/ /\ Add(s, IF HardwareEncoder THEN "hard" ELSE "soft", buffering.enc /\ held.enc)
                /\ mode' = [mode EXCEPT !.enc = IF HardwareEncoder THEN "enabled" ELSE @]
                /\ pc' = "audio stream" /\ UNCHANGED <<todo, buffering, held>>
             \/ EncoderNotFound
             \/ OutputFails(mode.enc = "enabled" \/ HardwareEncoder)
       \/ /\ VideoActive /\ "video" \notin opt.copied /\ s \notin DOMAIN decoders
          /\ pc' = "crashed" /\ UNCHANGED <<todo, mode, buffering, held, outputSide>>
    /\ UNCHANGED <<src, opt, chosen, inputSide>>

AddAudio ==
    /\ pc = "audio stream"
    /\ LET next == /\ IF VideoActive THEN pc' = "subtitle streams" /\ todo' = Held("subtitle")
                      ELSE pc' = "art streams" /\ todo' = Held("art")
                   /\ UNCHANGED <<mode, buffering, held>>
       IN \/ ~AudioActive /\ next /\ UNCHANGED outputSide
          \/ /\ AudioActive /\ next
             /\ Add(<<"audio", chosen.audio>>, IF "audio" \in opt.copied THEN "none" ELSE "soft", FALSE)
          \/ AudioActive /\ OutputFails(mode.enc = "enabled")
    /\ UNCHANGED <<src, opt, chosen, inputSide>>

\* add_subtitle_streams, and add_subtitle_stream for one the map does not know.
AddSubtitle(i) ==
    \/ /\ Add(<<"subtitle", i>>, "soft", FALSE)
       /\ todo' = todo \ {i} /\ UNCHANGED <<mode, buffering, held, pc>>
    \/ OutputFails(mode.enc = "enabled")
AddSubtitles ==
    /\ pc = "subtitle streams"
    /\ IF todo = {} THEN /\ pc' = "external streams" /\ todo' = 1..src.external
                         /\ UNCHANGED <<mode, buffering, held, outputSide>>
       ELSE IF Min(todo) \notin DOMAIN stream_map THEN AddSubtitle(Min(todo))
       ELSE todo' = todo \ {Min(todo)} /\ UNCHANGED <<mode, buffering, held, pc, outputSide>>
    /\ UNCHANGED <<src, opt, chosen, inputSide>>

\* add_external_subtitle_stream, for file i: its stream may be there although its
\* encoder is not; and its decoder may send the film's back to software.
ExternalStream(i) ==
    \/ /\ \/ Add(<<"external", i>>, "soft", FALSE) \/ UNCHANGED outputSide
          \/ out' = Append(out, <<"external", i>>) /\ UNCHANGED <<refs, stream_map>>
       /\ todo' = todo \ {i} /\ UNCHANGED <<decoders, mode, buffering, held, pc>>
    \/ FallBackDecoder(<<"external", i>>, TRUE) /\ UNCHANGED outputSide

\* add_external_subtitle_streams: what goes wrong with one file is ignored.
AddExternal ==
    /\ pc = "external streams"
    /\ \/ /\ todo = {} /\ pc' = "art streams" /\ todo' = Held("art")
          /\ UNCHANGED <<decoders, mode, buffering, held, outputSide>>
       \/ todo # {} /\ ExternalStream(Min(todo))
       \/ todo # {} /\ OutputFails(mode.enc = "enabled") /\ UNCHANGED decoders
    /\ UNCHANGED <<src, opt, chosen, device, opened, is_video>>

AddAlbumArts ==
    /\ pc = "art streams"
    /\ \/ /\ todo = {} \/ ~opt.art
          /\ pc' = "writer" /\ todo' = {} /\ UNCHANGED <<mode, buffering, held, outputSide>>
       \/ /\ todo # {} /\ opt.art
          /\ \/ /\ Add(<<"art", Min(todo)>>, "soft", FALSE)
                /\ todo' = todo \ {Min(todo)} /\ UNCHANGED <<mode, buffering, held, pc>>
             \/ OutputFails(mode.enc = "enabled")
    /\ UNCHANGED <<src, opt, chosen, inputSide>>

\* The I/O context is the last thing with a way back to software.
OpenWriter ==
    /\ pc = "writer"
    /\ \/ pc' = "header" /\ UNCHANGED <<todo, mode, buffering, held, outputSide>>
       \/ OutputFails(mode.enc = "enabled")
    /\ UNCHANGED <<src, opt, chosen, inputSide>>

\* The audio queue, the cache file, metadata, header and album arts.
WriteHeader ==
    /\ pc = "header" /\ pc' \in {"ready", "failed"}
    /\ UNCHANGED <<src, opt, todo, chosen, mode, buffering, held, inputSide, outputSide>>

-----------------------------------------------------------------------------
(***************************************************************************)
(* Reopening and closing.                                                  *)
(***************************************************************************)
\* start_new_segment, for a segment somebody asked for.
Reopen ==
    /\ pc = "ready" /\ opt.hls
    /\ \/ CloseOutput /\ pc' = "container"
       \/ pc' = "failed" /\ UNCHANGED <<out, refs>>
    /\ UNCHANGED <<src, opt, todo, chosen, mode, buffering, held, inputSide, stream_map>>

\* closeio; after an error the transcoder goes, and with it its device.
CloseTranscoder ==
    /\ pc \in {"ready", "failed"}
    /\ decoders' = <<>> /\ opened' = FALSE /\ held' = [dec |-> FALSE, enc |-> FALSE]
    /\ device' = IF opened \/ pc = "failed" THEN "none" ELSE device
    /\ CloseOutput
    /\ pc' = IF pc = "ready" THEN "ended" ELSE "destroyed"
    /\ UNCHANGED <<src, opt, todo, chosen, is_video, mode, buffering, stream_map>>

\* transcoder_thread runs once more for a late request, or leaves.
NextRun ==
    /\ pc = "ended"
    /\ pc' \in IF opt.hls \/ opt.frameset THEN {"new", "destroyed"} ELSE {"destroyed"}
    /\ UNCHANGED <<src, opt, todo, chosen, mode, buffering, held, inputSide, outputSide>>

OpenStep ==
    \/ Probe \/ OpenBestVideo \/ EncoderDevice \/ OpenBestAudio \/ CheckStreams
    \/ OpenSubtitles \/ OpenAlbumArts \/ OpenOutputFile \/ OpenContainer
    \/ AddVideo \/ AddAudio \/ AddSubtitles \/ AddExternal \/ AddAlbumArts \/ OpenWriter \/ WriteHeader

-----------------------------------------------------------------------------
(***************************************************************************)
(* Properties.                                                             *)
(***************************************************************************)
Running == pc = "ready" /\ ~opt.frameset
Places(s) == {p \in DOMAIN out : out[p] = s}

\* A container whose header is written has the film, the sound and every picture
\* that was promised, each once, and nothing m_out keeps points into a container
\* that is gone: after any number of ways back to software, reopenings and restarts.
ContainerWhole ==
    Running =>
        /\ VideoActive => Cardinality(Places(<<"video", chosen.video>>)) = 1
        /\ AudioActive => Cardinality(Places(<<"audio", chosen.audio>>)) = 1
        /\ opt.art => \A i \in Held("art") : Cardinality(Places(<<"art", i>>)) = 1
        /\ \A s \in DOMAIN refs : refs[s].fresh /\ Places(s) = {refs[s].place}

\* encode_video_frame moves frames to the device exactly when the encoder of the
\* film takes frames of the device.
UploadsMatch ==
    Running /\ VideoActive /\ "video" \notin opt.copied =>
        (buffering.enc <=> refs[<<"video", chosen.video>>].frames)

\* Opening ends, however often something goes back to software.
OpenEnds == pc = "probe" ~> pc \in {"ready", "failed", "crashed"}

\* "Already existing" (ffmpeg_transcoder.cc:3295): a stream m_stream_map knows has
\* its stream in the container.
MappedExists ==
    Running => \A i \in DOMAIN stream_map :
        stream_map[i] \in DOMAIN out /\ out[stream_map[i]][2] = i /\ out[stream_map[i]][1] # "external"
=============================================================================
