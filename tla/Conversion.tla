----------------------------- MODULE Conversion -----------------------------
(***************************************************************************)
(* What lies between the decoders and the encoders of FFmpeg_Transcoder    *)
(* (ffmpeg_transcoder.cc): the resampler and the audio queue, the filter   *)
(* graph, the scaler and the map of decoded pictures.  They are made for   *)
(* one encoder and one format of the source, while outputs are reopened,   *)
(* go back to software and sources change their format as they play.       *)
(*                                                                         *)
(* FFmpeg is external: a decoder may deliver another format at any frame,  *)
(* a scaler or filter graph spoils pictures it was not made for, and an    *)
(* encoder or a resampler may fail to open.  A frame set has no audio.     *)
(***************************************************************************)
EXTENDS Integers, Sequences, FiniteSetsExt

CONSTANTS
    Jobs,       \* sources with the targets they are converted to: see the assumption
    Device,     \* find_sw_fmt_by_hw_type(): the pixel format of pictures of a device
    MaxQueue    \* bound: frames in each queue

(***************************************************************************)
(* Samples have a rate, channels and a format, which is a kind of number   *)
(* and whether it is planar.  Pictures have a width, a height and a pixel  *)
(* format.  A job has, for sound, the format of the stream's header        *)
(* (sound), what the decoder may deliver (heard), what the encoder takes   *)
(* (rates, formats), the limits of the options and the format of the       *)
(* target, if it has one; and for pictures, the header (picture), what may *)
(* come (seen), its sample aspect ratio, the options, and what the encoder *)
(* may be given (pixels).                                                  *)
(***************************************************************************)
SampleFormat == [kind : STRING, planar : BOOLEAN]
Samples      == [rate : Nat, channels : Nat, format : SampleFormat]
Pictures     == [width : Nat, height : Nat, pixels : STRING]

ASSUME ConversionAssumption ==
    \A j \in Jobs :
        /\ {j.sound} \cup j.heard \subseteq Samples
        /\ j.rates \subseteq Nat /\ j.formats \in Seq(SampleFormat)
        /\ j.maxRate \in Nat /\ j.maxChannels \in Nat /\ j.fixed \subseteq SampleFormat
        /\ {j.picture} \cup j.seen \subseteq Pictures
        /\ j.aspect \in Nat \X Nat /\ j.width \in Nat /\ j.height \in Nat
        /\ j.pixels \subseteq STRING /\ j.pixels # {}
        /\ {j.square, j.hls, j.decode, j.encode, j.deinterlace, j.frameset} \subseteq BOOLEAN

VARIABLES
    job,        \* the job
    stage,      \* "closed", "input", "open", "failed"
    sound,      \* the format m_in.m_audio.m_codec_ctx has now
    audio,      \* the format of m_out.m_audio.m_codec_ctx, or None
    resampler,  \* m_audio_resample_ctx: what it converts from and to, or None
    made,        \* m_cur_sample_rate, m_cur_sample_fmt, m_cur_ch_layout
    queue,      \* m_audio_fifo: the formats of the frames in it
    picture,    \* what m_in.m_video.m_codec_ctx delivers now
    video,      \* the pictures m_out.m_video.m_codec_ctx takes in memory, or None
    hard,       \* m_hwaccel_enable_enc_buffering
    fallen,     \* m_hwaccel_enc_mode is FALLBACK
    scaler,     \* m_sws_ctx: what it converts from and to, or None
    graph,      \* m_filter_graph: the pictures it was made for and whether it holds one, or None
    pictures    \* m_frame_map: pictures for the encoder and whether they are spoilt

soundVars   == <<audio, resampler, made, queue>>
pictureVars == <<video, scaler, graph, pictures>>
conversionVars == <<job, stage, sound, picture, hard, fallen, soundVars, pictureVars>>

None == [none |-> TRUE]

ConversionInit ==
    /\ job \in Jobs /\ stage = "closed"
    /\ sound = job.sound /\ picture = job.picture /\ hard = FALSE /\ fallen = FALSE
    /\ audio = None /\ resampler = None /\ made = None /\ queue = <<>>
    /\ video = None /\ scaler = None /\ graph = None /\ pictures = <<>>

\* open_input_file: the decoders begin with what the headers say, and the
\* encoder is meant to take pictures of the device once more.
OpenInput ==
    /\ stage = "closed" /\ stage' = "input"
    /\ sound' = job.sound /\ picture' = job.picture /\ hard' = job.encode
    /\ UNCHANGED <<job, fallen, soundVars, pictureVars>>

-----------------------------------------------------------------------------
(***************************************************************************)
(* configure_audio_output_stream.                                          *)
(***************************************************************************)
\* The supported rate nearest to the wanted one, the higher one of two.
Nearest(rates, want) ==
    LET lower == {r \in rates : r <= want}
        upper == {r \in rates : r >= want}
    IN CASE rates = {} -> want
         [] upper = {} -> Max(lower)
         [] lower = {} -> Min(upper)
         [] OTHER -> IF want - Max(lower) < Min(upper) - want THEN Max(lower) ELSE Min(upper)

\* get_output_sample_rate, from the rate in the header.
EncoderRate == Nearest(job.rates, IF job.sound.rate > job.maxRate THEN job.maxRate ELSE job.sound.rate)

EncoderChannels ==
    IF job.maxChannels > 0 /\ sound.channels > job.maxChannels THEN job.maxChannels ELSE sound.channels

\* The first format the encoder takes that differs in layout at most, or else
\* the first of all.
EncoderFormat ==
    LET want  == IF job.fixed = {} THEN sound.format ELSE CHOOSE f \in job.fixed : TRUE
        close == {i \in DOMAIN job.formats : job.formats[i].kind = want.kind}
    IN CASE job.formats = <<>> -> want
         [] close = {}         -> job.formats[1]
         [] OTHER              -> job.formats[Min(close)]

AudioEncoder == [rate |-> EncoderRate, channels |-> EncoderChannels, format |-> EncoderFormat]

-----------------------------------------------------------------------------
(***************************************************************************)
(* configure_video_output_stream and open_output_frame_set.                *)
(***************************************************************************)
\* get_aspect_ratio, as <<numerator, denominator>>.
AspectRatio ==
    LET num == job.picture.width * job.aspect[1]
        den == job.picture.height * job.aspect[2]
    IN IF num # 0 /\ den # 0 THEN <<num, den>> ELSE <<job.picture.width, job.picture.height>>

EvenOf(n) == n - (n % 2)

\* get_video_size: one of the sizes that were ordered follows from the other, and
\* no video is made larger.
Ordered ==
    CASE job.width > 0 /\ job.height > 0 -> <<job.width, job.height>>
      [] job.width > 0 -> <<job.width, EvenOf((job.width * AspectRatio[2]) \div AspectRatio[1])>>
      [] job.height > 0 -> <<EvenOf((job.height * AspectRatio[2]) \div AspectRatio[1]), job.height>>
      [] OTHER -> <<job.picture.width, job.picture.height>>
VideoSize ==
    IF ~job.frameset /\ (job.picture.width > Ordered[1] \/ job.picture.height > Ordered[2])
    THEN Ordered ELSE <<job.picture.width, job.picture.height>>

\* WebM and Matroska have square pixels, so that the width changes.
Width ==
    IF ~job.frameset /\ job.square /\ job.aspect[1] # 0 /\ job.aspect[2] # 0
    THEN (VideoSize[1] * job.aspect[1]) \div job.aspect[2] ELSE VideoSize[1]

\* video_stream_setup picks a format the encoder has; H.264 segments have one format.
PixelFormats ==
    CASE hard /\ ~job.frameset -> {Device}
      [] ~hard /\ job.hls -> {"yuv420p"}
      [] OTHER -> job.pixels

\* A frame set has pictures of the size the decoder has come to.
VideoEncoders ==
    {[width |-> IF job.frameset THEN picture.width ELSE Width,
      height |-> IF job.frameset THEN picture.height ELSE VideoSize[2], pixels |-> p] : p \in PixelFormats}

\* alloc_picture: a picture of the size of p in a pixel format.
InFormat(p, pixels) == [width |-> p.width, height |-> p.height, pixels |-> pixels]

\* get_pix_formats: what is expected of the decoder, after it was fetched from a device.
Expected(encoder) ==
    InFormat(job.picture,
        IF job.decode THEN Device
        ELSE IF job.picture.pixels = "unknown" THEN encoder.pixels ELSE job.picture.pixels)

\* init_rescaler
InitRescaler(encoder) ==
    scaler' = IF Expected(encoder) = encoder THEN scaler ELSE [from |-> Expected(encoder), to |-> encoder]

\* init_deinterlace_filters, of the encoder's size for a frame set and of the decoder's else.
InitFilters(encoder) ==
    LET size == IF job.frameset THEN encoder ELSE picture IN
    graph' = IF job.deinterlace
             THEN [takes |-> InFormat(size, Expected(encoder).pixels), holds |-> FALSE]
             ELSE None

-----------------------------------------------------------------------------
(***************************************************************************)
(* Opening and closing the output.                                         *)
(***************************************************************************)
\* close_output_file: purge, close_resample, free_filters, and the scaler.
CloseConversionKeeps ==
    /\ audio' = None /\ queue' = <<>> /\ resampler' = resampler
    /\ video' = None /\ scaler' = None /\ graph' = None /\ pictures' = <<>>
CloseConversion ==
    /\ audio' = None /\ queue' = <<>> /\ resampler' = None
    /\ video' = None /\ scaler' = None /\ graph' = None /\ pictures' = <<>>

\* The streams are added, video first; init_audio_fifo makes a new queue.
OpenConversion ==
    /\ stage = "input" /\ stage' = "open"
    /\ \E encoder \in VideoEncoders :
          video' = encoder /\ InitRescaler(encoder) /\ InitFilters(encoder)
    /\ audio' = IF job.frameset THEN None ELSE AudioEncoder
    /\ queue' = <<>>
    /\ UNCHANGED <<job, sound, picture, hard, fallen, resampler, made, pictures>>

\* Opening fails somewhere: with hardware it is tried again without, but only once
\* for all runs of the transcoder.
ConversionFails ==
    /\ stage = "input" /\ CloseConversion
    /\ IF hard /\ ~fallen THEN hard' = FALSE /\ fallen' = TRUE /\ stage' = "input"
       ELSE UNCHANGED <<hard, fallen>> /\ stage' = "failed"
    /\ UNCHANGED <<job, sound, picture, made>>

\* start_new_segment goes to a segment somebody asked for.
Restart ==
    /\ stage = "open" /\ job.hls /\ stage' = "input" /\ CloseConversion
    /\ UNCHANGED <<job, sound, picture, hard, fallen, made>>

\* closeio; a late request starts another run of the same transcoder.
Close ==
    /\ stage = "open" /\ (job.hls \/ job.frameset) /\ stage' = "closed" /\ CloseConversion
    /\ UNCHANGED <<job, sound, picture, hard, fallen, made>>

-----------------------------------------------------------------------------
(***************************************************************************)
(* decode_audio_frame and create_audio_frame.                              *)
(***************************************************************************)
\* init_resampler, for samples of format f: whether it has to be made anew.
MustMake(f) == resampler = None \/ made # f
InitResampler(f) ==
    \/ f = audio /\ resampler' = None /\ made' = made
    \/ f # audio /\ MustMake(f) /\ resampler' = [from |-> f, to |-> audio] /\ made' = f
    \/ f # audio /\ ~MustMake(f) /\ UNCHANGED <<resampler, made>>
InitResamplerFails(f) ==
    f # audio /\ MustMake(f) /\ resampler' = None /\ made' = f

\* convert_samples: without a resampler they are copied as they are.
Converted(f, r) ==
    IF r = None THEN f ELSE IF r.from = f THEN r.to ELSE None

\* The samples of a frame go to the queue, or are lost if no resampler can be made.
DecodeAudio ==
    /\ stage = "open" /\ audio # None /\ Len(queue) < MaxQueue
    /\ sound' \in job.heard
    /\ \/ InitResampler(sound') /\ queue' = Append(queue, Converted(sound', resampler'))
       \/ InitResamplerFails(sound') /\ UNCHANGED queue
    /\ UNCHANGED <<job, stage, picture, hard, fallen, audio, pictureVars>>

EncodeSamples ==
    /\ stage = "open" /\ queue # <<>> /\ queue' = Tail(queue)
    /\ UNCHANGED <<job, stage, sound, picture, hard, fallen, audio, resampler, made, pictureVars>>

-----------------------------------------------------------------------------
(***************************************************************************)
(* decode_video_frame, send_filters and sws_scale.                         *)
(***************************************************************************)
\* The first picture comes out of the filters as it went in; from then on each
\* picture comes out in place of the next one.
Filtered(p) ==
    IF graph = None \/ ~graph.holds THEN [format |-> p, spoilt |-> FALSE]
    ELSE [format |-> graph.takes, spoilt |-> p # graph.takes]

Scaled(f) ==
    IF scaler = None THEN f
    ELSE [format |-> scaler.to, spoilt |-> f.spoilt \/ f.format # scaler.from]

DecodePicture ==
    /\ stage = "open" /\ video # None /\ Len(pictures) < MaxQueue
    /\ picture' \in job.seen
    /\ LET p == InFormat(picture', IF job.decode THEN Device ELSE picture'.pixels) IN
          pictures' = Append(pictures, Scaled(Filtered(p)))
    /\ graph' = IF graph = None THEN None ELSE [takes |-> graph.takes, holds |-> TRUE]
    /\ UNCHANGED <<job, stage, sound, hard, fallen, video, scaler, soundVars>>

EncodePicture ==
    /\ stage = "open" /\ pictures # <<>> /\ pictures' = Tail(pictures)
    /\ UNCHANGED <<job, stage, sound, picture, hard, fallen, video, scaler, graph, soundVars>>

ConversionNext ==
    \/ OpenInput \/ OpenConversion \/ ConversionFails \/ Restart \/ Close
    \/ DecodeAudio \/ EncodeSamples \/ DecodePicture \/ EncodePicture

ConversionSpec == ConversionInit /\ [][ConversionNext]_conversionVars

-----------------------------------------------------------------------------
\* Whatever the decoder delivers, and however often the output was reopened with
\* another encoder, the queue holds what the encoder of today takes.
SamplesFit == \A k \in DOMAIN queue : queue[k] = audio

\* Pictures that are as the header says reach the encoder in its size and format.
Steady == job.seen = {job.picture} /\ job.picture.pixels # "unknown"
PicturesFit ==
    Steady => \A k \in DOMAIN pictures :
                 pictures[k] = [format |-> video, spoilt |-> FALSE]

EncodersFit == SamplesFit /\ PicturesFit

\* "some codecs allow the raw parameters (frame size, sample rate) to be changed at
\* any frame. We handle this" (ffmpeg_transcoder.cc:3893-3895).
ChangesHandled ==
    \A k \in DOMAIN pictures : pictures[k] = [format |-> video, spoilt |-> FALSE]
=============================================================================
