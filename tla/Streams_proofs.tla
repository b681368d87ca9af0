--------------------------- MODULE Streams_proofs ---------------------------
(***************************************************************************)
(* FFmpeg_Transcoder: the container that is opened holds what was promised *)
(* for every source, target, way back to software, segment and restart;    *)
(* the encoders get what they take, for every source, target and order of  *)
(* reopening; and the files of Video CDs and Blu-ray discs are read in     *)
(* order and to their ends, for every size of the buffers.                 *)
(***************************************************************************)
EXTENDS Conversion, VcdInput_proofs

-----------------------------------------------------------------------------
(* What becomes of sound and pictures between decoder and encoder          *)
(* (Conversion).                                                           *)
\* Nothing is left of an output that is closed.
Idle ==
    stage # "open" =>
        /\ resampler = None /\ queue = <<>>
        /\ scaler = None /\ graph = None /\ pictures = <<>>

\* A resampler converts from the format it was made for to the encoder's.
SoundInv ==
    /\ queue \in Seq({audio})
    /\ resampler # None => resampler = [from |-> made, to |-> audio]

\* Scaler and filters were made for the pictures that come.
Fits == [format |-> video, spoilt |-> FALSE]
ScalerFits ==
    scaler = IF Expected(video) = video THEN None ELSE [from |-> Expected(video), to |-> video]
PictureInv ==
    /\ picture = job.picture
    /\ pictures \in Seq({Fits})
    /\ stage = "open" => ScalerFits
    /\ graph # None => graph.takes = Expected(video)

Inv == job \in Jobs /\ Idle /\ SoundInv /\ (Steady => PictureInv)

\* Neither a converter nor a filter graph is None: their fields differ.
LEMMA NoneIsNot ==
    /\ \A a, b : [from |-> a, to |-> b] # None
    /\ \A a, b : [takes |-> a, holds |-> b] # None
<1>1. DOMAIN None = {"none"}
  BY DEF None
<1> QED
  BY <1>1

-----------------------------------------------------------------------------
LEMMA InitInv == ConversionInit => Inv
BY DEF ConversionInit, Inv, Idle, SoundInv, PictureInv, None

\* Closing leaves nothing behind, whatever stage is next but "open".
LEMMA CloseInv ==
    ASSUME job \in Jobs, CloseConversion, job' = job, stage' # "open",
           Steady => picture' = job.picture
    PROVE  Inv'
<1>1. Idle'
  BY DEF CloseConversion, Idle
<1>2. SoundInv'
  BY DEF CloseConversion, SoundInv
<1>3. Steady' => PictureInv'
  BY DEF CloseConversion, PictureInv, Steady
<1> QED
  BY <1>1, <1>2, <1>3 DEF Inv

\* The format a picture has when the filters get it is the expected one.
LEMMA AsExpected ==
    ASSUME Steady, NEW encoder
    PROVE  InFormat(job.picture, IF job.decode THEN Device ELSE job.picture.pixels) = Expected(encoder)
BY DEF Steady, Expected

LEMMA OpenInv == ASSUME Inv, OpenConversion PROVE Inv'
<1>1. stage # "open" /\ stage' = "open" /\ job' = job
  BY DEF OpenConversion
<1>2. SoundInv'
  BY <1>1 DEF OpenConversion, SoundInv, Inv, Idle
<1>3. ASSUME Steady PROVE PictureInv'
  <2>1. PICK encoder \in VideoEncoders :
           video' = encoder /\ InitRescaler(encoder) /\ InitFilters(encoder)
    BY DEF OpenConversion
  <2>2. picture' = job'.picture /\ pictures' \in Seq({Fits'})
    BY <1>1, <1>3 DEF OpenConversion, Inv, Idle, PictureInv
  <2>3. Expected(video)' = Expected(encoder)
    BY <1>1, <2>1 DEF Expected
  <2>4. ScalerFits'
    BY <1>1, <2>1, <2>3 DEF ScalerFits, InitRescaler, Inv, Idle
  <2>5. ASSUME graph' # None PROVE graph'.takes = Expected(encoder)
    <3>1. picture = job.picture
      BY <1>3 DEF Inv, PictureInv
    <3>2. encoder = [width |-> encoder.width, height |-> encoder.height, pixels |-> encoder.pixels]
          /\ (job.frameset => encoder.width = picture.width /\ encoder.height = picture.height)
      BY DEF VideoEncoders
    <3>3. Expected(encoder) = InFormat(job.picture, Expected(encoder).pixels)
      BY DEF Expected, InFormat
    <3>4. job.frameset =>
            InFormat(encoder, Expected(encoder).pixels) = InFormat(job.picture, Expected(encoder).pixels)
      BY <3>1, <3>2 DEF InFormat
    <3> QED
      BY <2>1, <2>5, <3>1, <3>3, <3>4 DEF InitFilters
  <2> QED
    BY <2>2, <2>3, <2>4, <2>5 DEF PictureInv
<1>4. Steady' => Steady
  BY <1>1 DEF Steady
<1> QED
  BY <1>1, <1>2, <1>3, <1>4 DEF Inv, Idle

\* What the resampler makes of a frame is what the encoder takes.
LEMMA SoundStep == ASSUME Inv, DecodeAudio PROVE Inv'
<1>1. UNCHANGED <<job, stage, picture, hard, fallen, audio, pictureVars>> /\ stage = "open"
  BY DEF DecodeAudio
<1>2. ASSUME InitResampler(sound')
      PROVE  /\ resampler' # None => resampler' = [from |-> made', to |-> audio]
             /\ Converted(sound', resampler') = audio
  <2>1. CASE sound' = audio /\ resampler' = None
    BY <2>1 DEF Converted
  <2>2. CASE resampler' = [from |-> sound', to |-> audio] /\ made' = sound'
    BY <2>2, NoneIsNot DEF Converted
  <2>3. CASE ~MustMake(sound') /\ UNCHANGED <<resampler, made>>
    BY <2>3 DEF Converted, MustMake, Inv, SoundInv
  <2> QED
    BY <1>2, <2>1, <2>2, <2>3 DEF InitResampler
<1>3. SoundInv'
  <2>1. CASE InitResampler(sound') /\ queue' = Append(queue, Converted(sound', resampler'))
    <3>1. queue \in Seq({audio}) /\ queue' = Append(queue, audio)
      BY <1>2, <2>1 DEF Inv, SoundInv
    <3>2. queue' \in Seq({audio})
      BY <3>1
    <3> QED
      BY <1>1, <1>2, <2>1, <3>2 DEF SoundInv
  <2>2. CASE InitResamplerFails(sound') /\ UNCHANGED queue
    BY <1>1, <2>2 DEF InitResamplerFails, Inv, SoundInv
  <2> QED
    BY <2>1, <2>2 DEF DecodeAudio
<1>4. Steady' => PictureInv'
  BY <1>1 DEF Inv, Steady, PictureInv, ScalerFits, Fits, Expected, pictureVars
<1> QED
  BY <1>1, <1>3, <1>4 DEF Inv, Idle

\* What the filters and the scaler make of a picture is what the encoder takes.
LEMMA PictureStep == ASSUME Inv, DecodePicture PROVE Inv'
<1>1. UNCHANGED <<job, stage, sound, hard, fallen, video, scaler, soundVars>> /\ stage = "open"
  BY DEF DecodePicture
<1>2. SoundInv'
  BY <1>1 DEF Inv, SoundInv, soundVars
<1>3. ASSUME Steady PROVE PictureInv'
  <2> DEFINE p == InFormat(picture', IF job.decode THEN Device ELSE picture'.pixels)
  <2>1. picture' = job.picture
    BY <1>3 DEF DecodePicture, Steady
  <2>2. p = Expected(video)
    BY <2>1, <1>3, AsExpected
  <2>3. Filtered(p) = [format |-> Expected(video), spoilt |-> FALSE]
    BY <2>2, <1>3 DEF Filtered, Inv, PictureInv
  <2>4. Scaled(Filtered(p)) = Fits
    <3>1. ScalerFits
      BY <1>1, <1>3 DEF Inv, PictureInv
    <3>2. CASE Expected(video) = video
      BY <2>3, <3>1, <3>2 DEF Scaled, Fits, ScalerFits
    <3>3. CASE Expected(video) # video
      <4>1. scaler # None /\ scaler.from = Expected(video) /\ scaler.to = video
        BY <3>1, <3>3, NoneIsNot DEF ScalerFits
      <4> HIDE DEF p
      <4>2. Filtered(p).format = scaler.from /\ Filtered(p).spoilt = FALSE
        BY <2>3, <4>1
      <4> QED
        BY <4>1, <4>2 DEF Scaled, Fits
    <3> QED
      BY <3>2, <3>3
  <2>5. pictures' = Append(pictures, Fits) /\ pictures \in Seq({Fits})
    BY <2>4, <1>3 DEF DecodePicture, Inv, PictureInv
  <2>6. pictures' \in Seq({Fits})
    BY <2>5
  <2>7. graph' # None => graph'.takes = Expected(video)
    BY <1>3 DEF DecodePicture, Inv, PictureInv
  <2> QED
    BY <1>1, <1>3, <2>1, <2>6, <2>7 DEF Inv, PictureInv, ScalerFits, Fits, Expected
<1>4. Steady' => Steady
  BY <1>1 DEF Steady
<1> QED
  BY <1>1, <1>2, <1>3, <1>4 DEF Inv, Idle

LEMMA TailSeq == ASSUME NEW x, NEW s \in Seq({x}), s # <<>> PROVE Tail(s) \in Seq({x})
OBVIOUS

LEMMA StepInv == ASSUME Inv, [ConversionNext]_conversionVars PROVE Inv'
<1>1. CASE OpenInput
  <2>1. stage # "open" /\ stage' # "open" /\ UNCHANGED <<job, fallen, soundVars, pictureVars>>
        /\ picture' = job.picture
    BY <1>1 DEF OpenInput
  <2> QED
    BY <2>1 DEF Inv, Idle, SoundInv, Steady, PictureInv, Fits, Expected, soundVars, pictureVars
<1>2. CASE OpenConversion
  BY <1>2, OpenInv
<1>3. CASE ConversionFails
  BY <1>3, CloseInv DEF ConversionFails, Inv, PictureInv
<1>4. CASE Restart
  BY <1>4, CloseInv DEF Restart, Inv, PictureInv
<1>5. CASE Close
  BY <1>5, CloseInv DEF Close, Inv, PictureInv
<1>6. CASE DecodeAudio
  BY <1>6, SoundStep
<1>7. CASE EncodeSamples
  <2>1. queue' \in Seq({audio})
    BY <1>7, TailSeq DEF EncodeSamples, Inv, SoundInv
  <2> QED
    BY <1>7, <2>1 DEF EncodeSamples, Inv, Idle, SoundInv, Steady, PictureInv, ScalerFits, Fits,
                      Expected, pictureVars
<1>8. CASE DecodePicture
  BY <1>8, PictureStep
<1>9. CASE EncodePicture
  <2>1. Steady => pictures' \in Seq({Fits})
    BY <1>9, TailSeq DEF EncodePicture, Inv, PictureInv
  <2> QED
    BY <1>9, <2>1 DEF EncodePicture, Inv, Idle, SoundInv, Steady, PictureInv, ScalerFits, Fits,
                      Expected, soundVars
<1>10. CASE UNCHANGED conversionVars
  BY <1>10 DEF conversionVars, soundVars, pictureVars, Inv, Idle, SoundInv, Steady, PictureInv,
               ScalerFits, Fits, Expected
<1> QED
  BY <1>1, <1>2, <1>3, <1>4, <1>5, <1>6, <1>7, <1>8, <1>9, <1>10 DEF ConversionNext

LEMMA InvFits == Inv => EncodersFit
<1>1. ASSUME NEW x, NEW s \in Seq({x}) PROVE \A k \in DOMAIN s : s[k] = x
  OBVIOUS
<1>2. SoundInv => SamplesFit
  BY <1>1 DEF SoundInv, SamplesFit
<1>3. PictureInv => \A k \in DOMAIN pictures : pictures[k] = Fits
  BY <1>1 DEF PictureInv
<1> QED
  BY <1>2, <1>3 DEF Inv, EncodersFit, PicturesFit, Fits

\* However often the output is reopened with other encoders, goes back to
\* software or starts again (close_output_file, init_resampler, init_rescaler),
\* the queue of samples and, as long as the pictures are as the header says, the
\* map of pictures hold what the encoder of the time takes.
THEOREM ConversionFits == ConversionSpec => []EncodersFit
<1>1. ConversionInit => Inv
  BY InitInv
<1>2. Inv /\ [ConversionNext]_conversionVars => Inv'
  BY StepInv
<1>3. Inv => EncodersFit
  BY InvFits
<1> QED
  BY <1>1, <1>2, <1>3, PTL DEF ConversionSpec

-----------------------------------------------------------------------------
(***************************************************************************)
(* Opening and closing (StreamSetup, with the source it reads).            *)
(*                                                                         *)
(* ContainerWhole and UploadsMatch speak of one moment, the written        *)
(* header.  The invariant says what each stage on the way there has done:  *)
(* what was chosen (ChosenRight), what the container has so far            *)
(* (ContainerSoFar), which places in m_out lead into it (PlacesGood), and  *)
(* which frames the film's encoder takes (FramesFit).                      *)
(***************************************************************************)
StreamIds == {"video", "audio", "subtitle", "external", "art"} \X Nat
Modes     == {"none", "enabled", "fallback"}

\* The film and the sound of a source, if the target wants them.
HasFilm  == opt.video /\ Best("video") # 0 /\ src.kinds[Best("video")] = "video"
HasSound == opt.audio /\ Best("audio") # 0
TheFilm    == <<"video", Best("video")>>
TheSound   == <<"audio", Best("audio")>>
Lasting  == {s \in {TheFilm} : HasFilm} \cup {s \in {TheSound} : HasSound}

\* The stages of the output, from the new container to its header.
Finals == {"writer", "header", "ready"}
Later  == {"subtitle streams", "external streams", "art streams"} \cup Finals
Late   == {"video stream", "audio stream"} \cup Later
\* The stages after the best sound, and after the best film, have been chosen.
AfterSound  == {"check", "subtitle", "art", "output", "container"} \cup Late
AfterFilm   == {"audio"} \cup AfterSound

SetupTypes ==
    /\ \E c \in Cases : src = c.src /\ opt = c.opt
    /\ todo \in SUBSET Nat /\ DOMAIN decoders \subseteq StreamIds
    /\ chosen \in [video : Nat, audio : Nat] /\ is_video \in BOOLEAN
    /\ mode \in [dec : Modes, enc : Modes]
    /\ buffering \in [dec : BOOLEAN, enc : BOOLEAN] /\ held \in [dec : BOOLEAN, enc : BOOLEAN]
    /\ out \in Seq(StreamIds)

\* What is chosen depends on the source and the target alone.
ChosenRight ==
    /\ pc = "encoder" => opt.video /\ chosen.video = Best("video") /\ chosen.video # 0
    /\ is_video => HasFilm
    /\ pc \in AfterFilm => (HasFilm => is_video /\ chosen.video = Best("video"))
    /\ pc \in AfterSound => chosen.audio = Best("audio")

NoFilm == pc \in Late => HasFilm \/ chosen.video = 0 \/ ~opt.video

\* An encoder that is to have frames of the device has the device.
DeviceHeld == pc \in AfterFilm /\ HasFilm => (buffering.enc => held.enc)

\* The container so far has streams of these kinds, and those of this kind the
\* loop has come to.
HasOnly(kinds, kind) ==
    \A p \in DOMAIN out : out[p][1] \in kinds \/ (out[p][1] = kind /\ out[p][2] \notin todo)
ContainerSoFar ==
    /\ pc = "video stream" => out = <<>>
    /\ pc = "audio stream" => HasOnly({"video"}, "none")
    /\ pc = "subtitle streams" => HasOnly({"video", "audio"}, "subtitle")
    /\ pc = "external streams" => HasOnly({"video", "audio", "subtitle"}, "external")
    /\ pc = "art streams" => HasOnly({"video", "audio", "subtitle", "external"}, "art")

\* A place in m_out leads to the one stream of that name in this container.
Good(s) == refs[s].fresh /\ Places(s) = {refs[s].place}
PlacesGood ==
    /\ DOMAIN refs \subseteq StreamIds
    /\ \A s \in DOMAIN refs : s[1] \in {"video", "audio"} => s \in Lasting
    /\ pc \notin Later \cup {"failed"} => \A s \in DOMAIN refs : s[1] \in {"video", "audio"}
    /\ pc = "audio stream" => \A s \in DOMAIN refs : s[1] # "audio" => Good(s)
    /\ pc \in Later => \A s \in DOMAIN refs : Good(s)
    /\ pc \in Later \cup {"audio stream"} /\ HasFilm => TheFilm \in DOMAIN refs
    /\ pc \in Later /\ HasSound => TheSound \in DOMAIN refs
    /\ pc \in {"art streams"} \cup Finals /\ opt.art =>
         \A i \in Held("art") : (pc = "art streams" /\ i \in todo) \/ <<"art", i>> \in DOMAIN refs

\* The film's encoder takes frames of the device exactly when they are made.
FramesFit ==
    pc \in Later \cup {"audio stream"} /\ HasFilm /\ "video" \notin opt.copied =>
      (buffering.enc <=> refs[TheFilm].frames)

SetupInv ==
    SetupTypes /\ ChosenRight /\ DeviceHeld
    /\ (~opt.frameset => NoFilm /\ ContainerSoFar /\ PlacesGood /\ FramesFit)

-----------------------------------------------------------------------------
LEMMA MinIs == ASSUME NEW S \in SUBSET Nat, S # {} PROVE Min(S) \in S
BY LeastOf DEF Min

Kinds == {"video", "audio", "subtitle", "art"}

LEMMA SourceIs ==
    ASSUME SetupTypes
    PROVE  /\ src.kinds \in Seq(Kinds) /\ src.external \in Nat
           /\ \A kind : Of(kind) \in SUBSET Nat /\ Best(kind) \in Nat
           /\ \A kind : Held(kind) \in SUBSET Nat
<1>1. src.kinds \in Seq(Kinds) /\ src.external \in Nat
  BY SetupAssumption DEF SetupTypes, Kinds
<1>2. ASSUME NEW kind PROVE Of(kind) \in SUBSET Nat
  BY <1>1 DEF Of
<1>3. ASSUME NEW kind PROVE First(Of(kind)) \in Nat
  BY <1>2, MinIs DEF First
<1>4. ASSUME NEW kind PROVE Best(kind) \in Nat
  BY <1>3 DEF Best
<1>5. ASSUME NEW kind PROVE Held(kind) \in SUBSET Nat
  BY DEF Held, SetupTypes, StreamIds
<1> QED
  BY <1>1, <1>2, <1>4, <1>5

LEMMA SameSource ==
    ASSUME UNCHANGED <<src, opt>>
    PROVE  /\ \A kind : Best(kind)' = Best(kind) /\ Of(kind)' = Of(kind)
           /\ HasFilm' <=> HasFilm
           /\ HasSound' <=> HasSound
           /\ TheFilm' = TheFilm /\ TheSound' = TheSound
           /\ Lasting' = Lasting
<1>1. \A kind : Best(kind)' = Best(kind) /\ Of(kind)' = Of(kind)
  BY DEF Best, Of
<1>2. (HasFilm' <=> HasFilm) /\ (HasSound' <=> HasSound) /\ TheFilm' = TheFilm /\ TheSound' = TheSound
  BY <1>1 DEF HasFilm, HasSound, TheFilm, TheSound
<1> QED
  BY <1>1, <1>2 DEF Lasting

Outputs == NoFilm /\ ContainerSoFar /\ PlacesGood /\ FramesFit

\* Steps before there is a container, and steps that fail.
LEMMA OutputsFrame ==
    ASSUME SetupInv, ~opt.frameset, UNCHANGED <<src, opt, out, refs>>, pc \notin Late,
           pc # "failed", pc' \notin Late
    PROVE  Outputs'
<1>1. /\ \A s \in DOMAIN refs : s[1] \in {"video", "audio"}
      /\ \A s \in DOMAIN refs : s[1] \in {"video", "audio"} => s \in Lasting
      /\ DOMAIN refs \subseteq StreamIds
  BY DEF SetupInv, PlacesGood, Late
<1>2. PlacesGood'
  BY <1>1, SameSource DEF PlacesGood, Late, Later, Finals
<1>3. NoFilm' /\ ContainerSoFar' /\ FramesFit'
  BY DEF NoFilm, ContainerSoFar, FramesFit, Late, Later
<1> QED
  BY <1>2, <1>3 DEF Outputs

-----------------------------------------------------------------------------
(* The input. *)

InputInv == SetupTypes /\ ChosenRight /\ DeviceHeld

Devices == mode \in [dec : Modes, enc : Modes] /\ buffering \in [dec : BOOLEAN, enc : BOOLEAN]
           /\ held \in [dec : BOOLEAN, enc : BOOLEAN]

\* A decoder that is opened, or sent back to software, leaves the encoder's
\* device alone.
LEMMA DecoderOpens ==
    ASSUME SetupTypes, NEW s \in StreamIds, NEW given \in BOOLEAN,
           OpenDecoder(s, given) \/ FallBackDecoder(s, given)
    PROVE  /\ DOMAIN decoders' \subseteq StreamIds /\ Devices'
           /\ mode'.enc = mode.enc /\ buffering'.enc = buffering.enc /\ held'.enc = held.enc
<1>1. Devices /\ DOMAIN decoders \subseteq StreamIds
  BY DEF SetupTypes, Devices
<1>2. CASE OpenDecoder(s, given)
  <2>1. Buffers(s, given) \in BOOLEAN /\ Tries(s) \in BOOLEAN /\ ModeFor(s, given) \in Modes
    BY <1>1 DEF Buffers, Tries, ModeFor, Modes, Devices
  <2>2. DOMAIN decoders' = DOMAIN decoders \cup {s}
    BY <1>2 DEF OpenDecoder, With
  <2>3. /\ mode' = [mode EXCEPT !.dec = ModeFor(s, given)]
        /\ buffering' = [buffering EXCEPT !.dec = Buffers(s, given)]
        /\ held' = [held EXCEPT !.dec = held.dec \/ (Tries(s) /\ Buffers(s, given))]
    BY <1>2 DEF OpenDecoder
  <2> QED
    BY <1>1, <2>1, <2>2, <2>3 DEF Devices
<1>3. CASE FallBackDecoder(s, given)
  <2>1. DOMAIN decoders' \subseteq DOMAIN decoders
    BY <1>3 DEF FallBackDecoder, Without
  <2>2. /\ mode' = [mode EXCEPT !.dec = "fallback"]
        /\ buffering' = [buffering EXCEPT !.dec = FALSE] /\ held' = [held EXCEPT !.dec = FALSE]
    BY <1>3 DEF FallBackDecoder
  <2> QED
    BY <1>1, <2>1, <2>2 DEF Devices, Modes
<1> QED
  BY <1>2, <1>3

LEMMA DeviceInput == ASSUME SetupInv, NEW ok, OpenDevice(ok) PROVE InputInv'
BY SameSource DEF SetupInv, SetupTypes, ChosenRight, DeviceHeld, InputInv, OpenDevice, outputSide,
   Late, Later, Finals, AfterSound, AfterFilm

LEMMA ProbeInput == ASSUME SetupInv, Probe PROVE InputInv'
BY SameSource DEF SetupInv, SetupTypes, ChosenRight, DeviceHeld, InputInv, Probe, outputSide,
   Late, Later, Finals, AfterSound, AfterFilm

LEMMA BestInput ==
    ASSUME SetupInv, OpenBestVideo \/ OpenBestAudio
    PROVE  InputInv'
<1> PICK kind \in {"video", "audio"}, next \in {"encoder", "check"} :
           OpenBest(kind, next) /\ (kind = "video" <=> next = "encoder")
  BY DEF OpenBestVideo, OpenBestAudio
<1> DEFINE s == <<kind, Best(kind)>>
<1>0. /\ SetupTypes /\ ChosenRight /\ DeviceHeld /\ Devices
      /\ UNCHANGED <<src, opt, device, opened, is_video, out, refs, stream_map>>
  BY DEF SetupInv, SetupTypes, Devices, OpenBest, outputSide
<1>1. s \in StreamIds
  BY <1>0, SourceIs DEF StreamIds
<1>2. SetupTypes'
  <2>1. chosen' \in [video : Nat, audio : Nat]
    <3>1. chosen' = chosen \/ chosen' = [chosen EXCEPT ![kind] = Best(kind)]
      BY DEF OpenBest
    <3>2. Best(kind) \in Nat /\ chosen \in [video : Nat, audio : Nat]
      BY <1>0, SourceIs DEF SetupTypes
    <3> QED
      BY <3>1, <3>2
  <2>3. todo' = todo
    BY DEF OpenBest, FallBackDecoder, Fail
  <2>2. DOMAIN decoders' \subseteq StreamIds /\ Devices'
    <3>1. CASE UNCHANGED <<decoders, mode, buffering, held>>
      BY <1>0, <3>1 DEF SetupTypes, Devices
    <3>2. CASE decoders' = Without(decoders, {kind}) /\ UNCHANGED <<mode, buffering, held>>
      BY <1>0, <3>2 DEF SetupTypes, Devices, Without
    <3>3. CASE OpenDecoder(s, TRUE) \/ FallBackDecoder(s, TRUE)
      BY <1>0, <1>1, <3>3, DecoderOpens
    <3> QED
      BY <3>1, <3>2, <3>3 DEF OpenBest, Fail
  <2> QED
    BY <1>0, <2>1, <2>2, <2>3 DEF SetupTypes, Devices
<1>3. buffering'.enc = buffering.enc /\ held'.enc = held.enc
  <2>1. CASE UNCHANGED <<buffering, held>>
    BY <2>1
  <2>2. CASE OpenDecoder(s, TRUE) \/ FallBackDecoder(s, TRUE)
    BY <1>0, <1>1, <2>2, DecoderOpens
  <2> QED
    BY <2>1, <2>2 DEF OpenBest, Fail
<1>4. /\ pc = kind /\ pc' \in {kind, "encoder", "audio", "check", "failed"}
      /\ pc' = "encoder" => kind = "video" /\ opt.video /\ Best("video") # 0
      /\ pc' = "audio" => kind = "audio" \/ ~opt.video \/ Best("video") = 0
      /\ pc' = "check" => kind = "audio"
      /\ chosen' = chosen \/ chosen' = [chosen EXCEPT ![kind] = Best(kind)]
      /\ pc' \in {"encoder", "check"} => chosen' = [chosen EXCEPT ![kind] = Best(kind)]
  BY DEF OpenBest, FallBackDecoder, Fail
<1>5. /\ kind = "video" /\ pc' = "encoder" => chosen'.video = Best("video")
      /\ kind = "audio" => chosen'.video = chosen.video
      /\ pc' = "check" => chosen'.audio = Best("audio")
  BY <1>0, <1>4 DEF SetupTypes
<1>6. ChosenRight'
  BY <1>0, <1>4, <1>5, SameSource DEF ChosenRight, HasFilm, Late, Later, Finals, AfterSound, AfterFilm
<1>7. DeviceHeld'
  BY <1>0, <1>3, <1>4, SameSource DEF DeviceHeld, HasFilm, Late, Later, Finals, AfterSound, AfterFilm
<1> QED
  BY <1>2, <1>6, <1>7 DEF InputInv

LEMMA EncoderDeviceInput == ASSUME SetupInv, EncoderDevice PROVE InputInv'
<1>0. /\ SetupTypes /\ ChosenRight /\ DeviceHeld /\ Devices
      /\ UNCHANGED <<src, opt, todo, chosen, decoders, mode, out, refs>>
      /\ pc = "encoder" /\ pc' \in {"audio", "failed"}
  BY DEF SetupInv, SetupTypes, Devices, EncoderDevice, outputSide
<1>1. opt.video /\ chosen.video = Best("video") /\ chosen.video # 0
  BY <1>0 DEF ChosenRight
<1>2. is_video' = (src.kinds[Best("video")] = "video")
  BY <1>1 DEF EncoderDevice
<1>3. is_video' <=> HasFilm
  BY <1>1, <1>2 DEF HasFilm
<1>4. buffering' \in [dec : BOOLEAN, enc : BOOLEAN]
  <2>1. buffering' = [buffering EXCEPT !.enc = IF opt.encode = "none" THEN buffering.enc
                                               ELSE opt.encode = "device"]
    BY DEF EncoderDevice
  <2> QED
    BY <1>0, <2>1 DEF Devices
<1>5. /\ held' \in [dec : BOOLEAN, enc : BOOLEAN]
      /\ pc' = "audio" => (buffering'.enc => held'.enc)
  <2>1. CASE held' = held /\ pc' = "failed"
    BY <1>0, <2>1 DEF Devices
  <2>2. CASE held' = [held EXCEPT !.enc = held.enc \/ buffering'.enc] /\ pc' = "audio"
    <3>1. PICK b \in BOOLEAN : b = buffering'.enc
      BY <1>4
    <3>2. held' = [held EXCEPT !.enc = held.enc \/ b]
      BY <2>2, <3>1
    <3> QED
      BY <1>0, <3>1, <3>2 DEF Devices
  <2> QED
    BY <2>1, <2>2 DEF EncoderDevice
<1>6. is_video' \in BOOLEAN
  BY <1>2
<1> QED
  BY <1>0, <1>1, <1>3, <1>4, <1>5, <1>6, SameSource
     DEF InputInv, SetupTypes, Devices, ChosenRight, DeviceHeld, Late, Later, Finals, AfterSound, AfterFilm

LEMMA CheckInput == ASSUME SetupInv, CheckStreams PROVE InputInv'
<1>0. /\ SetupTypes /\ ChosenRight /\ DeviceHeld
      /\ UNCHANGED <<src, opt, chosen, mode, buffering, held, is_video, decoders, out, refs>>
      /\ pc = "check" /\ pc' \in {"failed", "subtitle"}
  BY DEF SetupInv, CheckStreams, inputSide, outputSide
<1>1. todo' \in SUBSET Nat
  BY <1>0, SourceIs DEF CheckStreams, SetupTypes
<1> QED
  BY <1>0, <1>1, SameSource DEF InputInv, SetupTypes, ChosenRight, DeviceHeld, Late, Later, Finals,
     AfterSound, AfterFilm

LEMMA AllInput ==
    ASSUME SetupInv, OpenSubtitles \/ OpenAlbumArts
    PROVE  InputInv'
<1> PICK kind \in {"subtitle", "art"}, next \in {"art", "output"}, rest \in {{}, Of("art")} :
           OpenAll(kind, next, rest)
  BY DEF OpenSubtitles, OpenAlbumArts
<1> DEFINE s == <<kind, Min(todo)>>
<1>0. /\ SetupTypes /\ ChosenRight /\ DeviceHeld /\ Devices
      /\ UNCHANGED <<src, opt, chosen, is_video, out, refs>>
      /\ pc \in {"subtitle", "art"} /\ pc' \in {"subtitle", "art", "output", "failed"}
  BY DEF SetupInv, SetupTypes, Devices, OpenAll, FallBackDecoder, Fail, outputSide
<1>1. todo # {} => s \in StreamIds
  BY <1>0, MinIs DEF StreamIds, SetupTypes
<1>2. todo' \in SUBSET Nat
  <2>1. rest \in SUBSET Nat /\ todo \in SUBSET Nat
    BY <1>0, SourceIs DEF SetupTypes
  <2>2. todo' = rest \/ todo' = todo \ {s[2]} \/ todo' = todo
    BY DEF OpenAll, FallBackDecoder, Fail
  <2> QED
    BY <2>1, <2>2
<1>3. /\ DOMAIN decoders' \subseteq StreamIds /\ Devices'
      /\ buffering'.enc = buffering.enc /\ held'.enc = held.enc
  <2>1. CASE UNCHANGED <<decoders, mode, buffering, held>>
    BY <1>0, <2>1 DEF SetupTypes, Devices
  <2>2. CASE todo # {} /\ (OpenDecoder(s, FALSE) \/ FallBackDecoder(s, FALSE))
    BY <1>0, <1>1, <2>2, DecoderOpens
  <2> QED
    BY <2>1, <2>2 DEF OpenAll, Fail
<1> QED
  BY <1>0, <1>2, <1>3, SameSource DEF InputInv, SetupTypes, Devices, ChosenRight, DeviceHeld,
     Late, Later, Finals, AfterSound, AfterFilm

\* The steps that open the input keep the invariant.
InputStep ==
    \/ \E ok \in BOOLEAN : OpenDevice(ok)
    \/ Probe \/ OpenBestVideo \/ EncoderDevice \/ OpenBestAudio \/ CheckStreams
    \/ OpenSubtitles \/ OpenAlbumArts

LEMMA InputStepInv == ASSUME SetupInv, InputStep PROVE SetupInv'
<1>1. InputInv'
  BY DeviceInput, ProbeInput, BestInput, EncoderDeviceInput, CheckInput, AllInput DEF InputStep
<1>2. /\ UNCHANGED <<src, opt, out, refs>> /\ pc \notin Late /\ pc # "failed" /\ pc' \notin Late
  BY DEF InputStep, OpenDevice, Probe, OpenBestVideo, OpenBestAudio, OpenBest, EncoderDevice,
     CheckStreams, OpenSubtitles, OpenAlbumArts, OpenAll, FallBackDecoder, Fail, outputSide, Late,
     Later, Finals
<1>3. ~opt'.frameset => Outputs'
  BY <1>2, OutputsFrame
<1> QED
  BY <1>1, <1>3 DEF InputInv, SetupInv, Outputs

-----------------------------------------------------------------------------
(* The output. *)

\* Closing the output leaves the places of the film and the sound, of which
\* none is used before the next container is there.
LEMMA CloseOutputs ==
    ASSUME SetupInv, ~opt.frameset, UNCHANGED <<src, opt>>, CloseOutput,
           pc' \in {"container", "ended", "destroyed"}
    PROVE  Outputs'
<1>1. /\ DOMAIN refs \subseteq StreamIds
      /\ \A s \in DOMAIN refs : s[1] \in {"video", "audio"} => s \in Lasting
  BY DEF SetupInv, PlacesGood
<1>2. DOMAIN refs' = {s \in DOMAIN refs : s[1] \notin {"subtitle", "external", "art"}}
  BY DEF CloseOutput, Without
<1>3. \A s \in StreamIds : s[1] \in {"subtitle", "external", "art", "video", "audio"}
  BY DEF StreamIds
<1>4. /\ DOMAIN refs' \subseteq StreamIds
      /\ \A s \in DOMAIN refs' : s[1] \in {"video", "audio"} /\ s \in Lasting'
  BY <1>1, <1>2, <1>3, SameSource
<1>5. PlacesGood'
  BY <1>4 DEF PlacesGood, Later, Finals
<1>6. NoFilm' /\ ContainerSoFar' /\ FramesFit'
  BY DEF NoFilm, ContainerSoFar, FramesFit, Late, Later, Finals
<1> QED
  BY <1>5, <1>6 DEF Outputs

Encoding == {"container", "video stream", "audio stream", "subtitle streams", "external streams",
             "art streams", "writer"}

\* Whatever fails, the encoder goes back to software or the transcoder has failed.
LEMMA FailsInv ==
    ASSUME SetupInv, pc \in Encoding, NEW enabled, OutputFails(enabled),
           UNCHANGED <<src, opt, chosen, is_video, decoders>>
    PROVE  SetupInv'
<1>0. /\ SetupTypes /\ ChosenRight /\ DeviceHeld /\ Devices /\ todo' = todo
      /\ pc \in AfterSound
  BY DEF SetupInv, SetupTypes, Devices, OutputFails, Encoding, AfterSound, Late, Later, Finals
<1>1. CASE enabled
  <2>1. /\ mode' = [mode EXCEPT !.enc = "fallback"]
        /\ buffering' = [buffering EXCEPT !.enc = FALSE] /\ held' = [held EXCEPT !.enc = FALSE]
        /\ CloseOutput /\ pc' = "container" /\ out' = <<>>
    BY <1>1 DEF OutputFails, FallBackEncoder, CloseOutput
  <2>2. Devices' /\ ~buffering'.enc
    BY <1>0, <2>1 DEF Devices, Modes
  <2>3. SetupTypes'
    BY <1>0, <2>1, <2>2, EmptySeq DEF SetupTypes, Devices
  <2>4. ChosenRight' /\ DeviceHeld'
    BY <1>0, <2>1, <2>2, SameSource DEF ChosenRight, DeviceHeld, AfterSound, AfterFilm, Late, Later,
       Finals
  <2>5. ~opt'.frameset => Outputs'
    BY <2>1, CloseOutputs
  <2> QED
    BY <2>3, <2>4, <2>5 DEF SetupInv, Outputs
<1>2. CASE ~enabled
  <2>1. pc' = "failed" /\ UNCHANGED <<out, refs, mode, buffering, held>>
    BY <1>2 DEF OutputFails
  <2>2. SetupTypes' /\ ChosenRight' /\ DeviceHeld'
    BY <1>0, <2>1, SameSource DEF SetupTypes, ChosenRight, DeviceHeld, AfterFilm, AfterSound, Late,
       Later, Finals
  <2>3. ASSUME ~opt.frameset PROVE PlacesGood'
    BY <2>1, <2>3, SameSource DEF SetupInv, PlacesGood, Later, Finals
  <2>4. NoFilm' /\ ContainerSoFar' /\ FramesFit'
    BY <2>1 DEF NoFilm, ContainerSoFar, FramesFit, Late, Later, Finals
  <2> QED
    BY <2>2, <2>3, <2>4 DEF SetupInv
<1> QED
  BY <1>1, <1>2

\* A stream is added to the container.
LEMMA Added ==
    ASSUME SetupTypes, NEW s \in StreamIds, \A p \in DOMAIN out : out[p] # s,
           out' = Append(out, s)
    PROVE  /\ out' \in Seq(StreamIds) /\ Len(out') = Len(out) + 1
           /\ \A p \in DOMAIN out' : (p \in DOMAIN out /\ out'[p] = out[p])
                                     \/ (p = Len(out) + 1 /\ out'[p] = s)
           /\ Places(s)' = {Len(out) + 1}
           /\ \A t : t # s => Places(t)' = Places(t)
<1>1. /\ out' \in Seq(StreamIds) /\ Len(out') = Len(out) + 1
      /\ DOMAIN out = 1..Len(out) /\ DOMAIN out' = 1..Len(out') /\ Len(out) \in Nat
      /\ \A p \in 1..Len(out) : out'[p] = out[p]
      /\ out'[Len(out) + 1] = s
  BY DEF SetupTypes
<1>2. \A p \in DOMAIN out' : (p \in DOMAIN out /\ out'[p] = out[p]) \/ (p = Len(out) + 1 /\ out'[p] = s)
  BY <1>1
<1>3. Places(s)' = {p \in DOMAIN out' : out'[p] = s}
  BY DEF Places
<1>4. Places(s)' = {Len(out) + 1}
  BY <1>1, <1>2, <1>3
<1>5. ASSUME NEW t, t # s PROVE Places(t)' = Places(t)
  <2>1. Places(t)' = {p \in DOMAIN out' : out'[p] = t}
    BY DEF Places
  <2> QED
    BY <1>1, <1>2, <1>5, <2>1 DEF Places
<1> QED
  BY <1>1, <1>2, <1>4, <1>5

LEMMA AddedPlace ==
    ASSUME SetupTypes, NEW s \in StreamIds, \A p \in DOMAIN out : out[p] # s,
           NEW encoder, NEW frames, Add(s, encoder, frames)
    PROVE  /\ out' = Append(out, s)
           /\ DOMAIN refs' = DOMAIN refs \cup {s}
           /\ Good(s)' /\ refs'[s].frames = frames
           /\ \A t \in DOMAIN refs : t # s => refs'[t] = refs[t] /\ (Good(t) => Good(t)')
<1>1. out' = Append(out, s)
  BY DEF Add
<1>2. /\ DOMAIN refs' = DOMAIN refs \cup {s}
      /\ refs'[s] = [place |-> Len(out) + 1, fresh |-> TRUE, encoder |-> encoder, frames |-> frames]
      /\ \A t \in DOMAIN refs : t # s => refs'[t] = refs[t]
  BY DEF Add, With
<1>3. Places(s)' = {Len(out) + 1} /\ \A t : t # s => Places(t)' = Places(t)
  BY <1>1, Added
<1>4. Good(s)'
  BY <1>2, <1>3 DEF Good
<1>5. \A t \in DOMAIN refs : t # s => (Good(t) => Good(t)')
  BY <1>2, <1>3 DEF Good
<1> QED
  BY <1>1, <1>2, <1>4, <1>5

\* What the streams of a container are, once its loops have begun.
LEMMA ActiveIs ==
    ASSUME SetupInv, ~opt.frameset, pc \in Late
    PROVE  /\ VideoActive <=> HasFilm
           /\ AudioActive <=> HasSound
           /\ HasFilm => chosen.video = Best("video")
           /\ chosen.audio = Best("audio")
BY DEF SetupInv, NoFilm, ChosenRight, VideoActive, AudioActive, HasFilm, HasSound, AfterFilm, AfterSound

\* A turn of a loop over further streams.
LEMMA PlacesStep ==
    ASSUME SetupInv, ~opt.frameset, UNCHANGED <<src, opt>>, pc \in Later, pc' \in Later,
           buffering'.enc = buffering.enc,
           NEW s \in StreamIds, s[1] \in {"subtitle", "external", "art"},
           \/ UNCHANGED <<out, refs>>
           \/ /\ \A p \in DOMAIN out : out[p] # s
              /\ \/ Add(s, "soft", FALSE)
                 \/ out' = Append(out, s) /\ refs' = refs,
           pc' \in {"art streams"} \cup Finals /\ opt'.art =>
             \A i \in Held("art")' : (pc' = "art streams" /\ i \in todo') \/ <<"art", i>> \in DOMAIN refs'
    PROVE  PlacesGood' /\ FramesFit' /\ out' \in Seq(StreamIds)
<1>0. SetupTypes /\ PlacesGood /\ FramesFit /\ \A t \in DOMAIN refs : Good(t)
  BY DEF SetupInv, PlacesGood
<1>1. CASE UNCHANGED <<out, refs>>
  <2>1. \A t : Places(t)' = Places(t)
    BY <1>1 DEF Places
  <2>2. \A t \in DOMAIN refs : Good(t)'
    BY <1>0, <1>1, <2>1 DEF Good
  <2>3. PlacesGood'
    BY <1>0, <1>1, <2>2, SameSource DEF PlacesGood, Later
  <2>4. FramesFit'
    BY <1>0, <1>1, SameSource DEF FramesFit
  <2> QED
    BY <1>0, <1>1, <2>3, <2>4 DEF SetupTypes
<1>2. CASE out' = Append(out, s) /\ refs' = refs /\ \A p \in DOMAIN out : out[p] # s
  <2>1. out' \in Seq(StreamIds) /\ \A t : t # s => Places(t)' = Places(t)
    BY <1>0, <1>2, Added
  <2>2. s \notin DOMAIN refs
    <3>1. Places(s) = {}
      BY <1>2 DEF Places
    <3> QED
      BY <1>0, <3>1 DEF Good
  <2>3. \A t \in DOMAIN refs : Good(t)'
    BY <1>0, <1>2, <2>1, <2>2 DEF Good
  <2>4. PlacesGood'
    BY <1>0, <1>2, <2>3, SameSource DEF PlacesGood, Later
  <2>5. FramesFit'
    BY <1>0, <1>2, SameSource DEF FramesFit
  <2> QED
    BY <2>1, <2>4, <2>5
<1>3. CASE Add(s, "soft", FALSE) /\ \A p \in DOMAIN out : out[p] # s
  <2>1. /\ out' \in Seq(StreamIds)
        /\ DOMAIN refs' = DOMAIN refs \cup {s} /\ Good(s)'
        /\ \A t \in DOMAIN refs : t # s => refs'[t] = refs[t] /\ (Good(t) => Good(t)')
    BY <1>0, <1>3, Added, AddedPlace
  <2>2. \A t \in DOMAIN refs' : Good(t)'
    BY <1>0, <2>1
  <2>3. s # TheFilm /\ s # TheSound
    <3>1. TheFilm[1] = "video" /\ TheSound[1] = "audio"
      BY DEF TheFilm, TheSound
    <3> QED
      BY <3>1
  <2>4. PlacesGood'
    BY <1>0, <2>1, <2>2, SameSource DEF PlacesGood, Later
  <2>5. FramesFit'
    <3>1. HasFilm => TheFilm \in DOMAIN refs
      BY <1>0 DEF PlacesGood
    <3>2. HasFilm => refs'[TheFilm] = refs[TheFilm]
      BY <2>1, <2>3, <3>1
    <3> QED
      BY <1>0, <3>2, SameSource DEF FramesFit
  <2> QED
    BY <2>1, <2>4, <2>5
<1> QED
  BY <1>1, <1>2, <1>3

LEMMA OutputFileInv == ASSUME SetupInv, OpenOutputFile PROVE SetupInv'
<1>0. /\ SetupTypes /\ ChosenRight /\ DeviceHeld /\ pc = "output"
      /\ UNCHANGED <<src, opt, todo, chosen, mode, buffering, held, is_video, decoders, out>>
      /\ pc' \in {"failed", "container", "ready", "crashed"}
      /\ ~opt.frameset => pc' \notin Late /\ refs' = refs
  BY DEF SetupInv, OpenOutputFile, inputSide, Late, Later, Finals
<1>1. SetupTypes' /\ ChosenRight' /\ DeviceHeld'
  BY <1>0, SameSource DEF SetupTypes, ChosenRight, DeviceHeld, AfterFilm, AfterSound, Late, Later, Finals
<1>2. ~opt'.frameset => Outputs'
  BY <1>0, OutputsFrame DEF Late, Later, Finals
<1> QED
  BY <1>1, <1>2 DEF SetupInv, Outputs

LEMMA ContainerInv == ASSUME SetupInv, OpenContainer PROVE SetupInv'
<1>1. CASE OutputFails(mode.enc = "enabled") /\ UNCHANGED chosen
  BY <1>1, FailsInv DEF OpenContainer, inputSide, Encoding
<1>2. CASE /\ out' = <<>> /\ refs' = Stale(refs) /\ pc' = "video stream"
           /\ chosen' = [chosen EXCEPT !.video = IF is_video THEN chosen.video ELSE 0]
           /\ UNCHANGED <<todo, mode, buffering, held>>
  <2>0. /\ SetupTypes /\ ChosenRight /\ DeviceHeld /\ pc = "container"
        /\ UNCHANGED <<src, opt, is_video, decoders>>
    BY DEF SetupInv, OpenContainer, inputSide
  <2>1. chosen' \in [video : Nat, audio : Nat] /\ chosen'.audio = chosen.audio
        /\ chosen'.video = IF is_video THEN chosen.video ELSE 0
    BY <1>2, <2>0 DEF SetupTypes
  <2>2. SetupTypes'
    BY <1>2, <2>0, <2>1, EmptySeq DEF SetupTypes
  <2>3. ChosenRight' /\ DeviceHeld' /\ NoFilm'
    BY <1>2, <2>0, <2>1, SameSource DEF ChosenRight, DeviceHeld, NoFilm, AfterFilm, AfterSound, Late,
       Later, Finals
  <2>4. ASSUME ~opt.frameset PROVE PlacesGood'
    <3>1. DOMAIN refs' = DOMAIN refs
      BY <1>2 DEF Stale
    <3> QED
      BY <1>2, <2>0, <2>4, <3>1, SameSource DEF SetupInv, PlacesGood, Later, Finals
  <2>5. ContainerSoFar' /\ FramesFit'
    BY <1>2 DEF ContainerSoFar, FramesFit, Later, Finals
  <2> QED
    BY <2>0, <2>2, <2>3, <2>4, <2>5 DEF SetupInv
<1> QED
  BY <1>1, <1>2 DEF OpenContainer

\* A step of the loops over streams leaves the input and the devices alone.
LEMMA LateFrame ==
    ASSUME SetupInv, pc \in AfterSound, UNCHANGED <<src, opt, chosen, is_video>>,
           todo' \in SUBSET Nat, DOMAIN decoders' \subseteq StreamIds, Devices',
           out' \in Seq(StreamIds),
           buffering'.enc = buffering.enc, held'.enc = held.enc, pc' # "encoder"
    PROVE  SetupTypes' /\ ChosenRight' /\ DeviceHeld'
<1>1. SetupTypes /\ ChosenRight /\ DeviceHeld /\ pc \in AfterFilm
  BY DEF SetupInv, AfterFilm
<1>2. SetupTypes'
  BY <1>1 DEF SetupTypes, Devices
<1>3. pc' \in Late => pc' \in AfterSound
  BY DEF AfterSound
<1> QED
  BY <1>1, <1>2, <1>3, SameSource DEF ChosenRight, DeviceHeld

\* The places in m_out before the loops over further streams.
LEMMA BeforeLoops ==
    ASSUME UNCHANGED <<src, opt>>, pc' \in {"audio stream", "crashed"},
           DOMAIN refs' \subseteq StreamIds,
           \A s \in DOMAIN refs' : s[1] \in {"video", "audio"} /\ s \in Lasting,
           pc' = "audio stream" =>
             /\ \A s \in DOMAIN refs' : s[1] # "audio" => Good(s)'
             /\ HasFilm => TheFilm \in DOMAIN refs'
    PROVE  PlacesGood'
BY SameSource DEF PlacesGood, Later, Finals

LEMMA AddVideoInv == ASSUME SetupInv, AddVideo PROVE SetupInv'
<1>0. /\ SetupTypes /\ Devices /\ pc = "video stream" /\ pc \in AfterSound
      /\ UNCHANGED <<src, opt, chosen, is_video, decoders>>
      /\ pc' \in {"audio stream", "container", "failed", "crashed"}
  BY DEF SetupInv, SetupTypes, Devices, AddVideo, EncoderNotFound, OutputFails, FallBackEncoder, inputSide, AfterSound, Late
<1>f. CASE \E enabled : OutputFails(enabled)
  BY <1>0, <1>f, FailsInv DEF Encoding
<1>s. ASSUME ~\E enabled : OutputFails(enabled)
      PROVE  SetupInv'
  <2> DEFINE s == <<"video", chosen.video>>
  <2>1. PICK coder, frames : 
          /\ todo' = todo /\ buffering' = buffering /\ held' = held
          /\ mode' = mode \/ mode' = [mode EXCEPT !.enc = "enabled"]
          /\ \/ ~VideoActive /\ pc' = "audio stream" /\ UNCHANGED <<out, refs>>
             \/ VideoActive /\ pc' = "crashed" /\ UNCHANGED <<out, refs>>
             \/ /\ VideoActive /\ pc' = "audio stream" /\ Add(s, coder, frames)
                /\ \/ "video" \in opt.copied
                   \/ frames = (buffering.enc /\ held.enc)
    <3> DEFINE R(coder, frames) ==
          /\ todo' = todo /\ buffering' = buffering /\ held' = held
          /\ mode' = mode \/ mode' = [mode EXCEPT !.enc = "enabled"]
          /\ \/ ~VideoActive /\ pc' = "audio stream" /\ UNCHANGED <<out, refs>>
             \/ VideoActive /\ pc' = "crashed" /\ UNCHANGED <<out, refs>>
             \/ /\ VideoActive /\ pc' = "audio stream" /\ Add(s, coder, frames)
                /\ \/ "video" \in opt.copied
                   \/ frames = (buffering.enc /\ held.enc)
    <3>1. CASE /\ ~VideoActive \/ s \notin DOMAIN decoders
               /\ pc' = IF VideoActive THEN "crashed" ELSE "audio stream"
               /\ UNCHANGED <<todo, mode, buffering, held, out, refs>>
      <4>1. R("none", FALSE)
        BY <3>1
      <4> QED
        BY <4>1
    <3>2. CASE /\ VideoActive /\ "video" \in opt.copied /\ Add(s, "none", FALSE)
               /\ pc' = "audio stream" /\ UNCHANGED <<todo, mode, buffering, held>>
      <4>1. R("none", FALSE)
        BY <3>2
      <4> QED
        BY <4>1
    <3>3. CASE /\ VideoActive
               /\ Add(s, IF HardwareEncoder THEN "hard" ELSE "soft", buffering.enc /\ held.enc)
               /\ mode' = [mode EXCEPT !.enc = IF HardwareEncoder THEN "enabled" ELSE mode.enc]
               /\ pc' = "audio stream" /\ UNCHANGED <<todo, buffering, held>>
      <4>1. mode' = mode \/ mode' = [mode EXCEPT !.enc = "enabled"]
        BY <1>0, <3>3 DEF Devices
      <4>2. R(IF HardwareEncoder THEN "hard" ELSE "soft", buffering.enc /\ held.enc)
        BY <3>3, <4>1
      <4> HIDE DEF R
      <4>3. \E coder, frames : R(coder, frames)
        BY <4>2
      <4> QED
        BY <4>3 DEF R
    <3> QED
      BY <1>s, <3>1, <3>2, <3>3 DEF AddVideo, EncoderNotFound, outputSide
  <2>2. Devices'
    BY <1>0, <2>1 DEF Devices, Modes
  <2>3. s \in StreamIds
    BY <1>0 DEF StreamIds, SetupTypes
  <2>4. s = <<"video", chosen.video>>
    OBVIOUS
  <2> HIDE DEF s
  <2>5. ASSUME opt.frameset PROVE out' \in Seq(StreamIds)
    <3>1. out' = out \/ out' = Append(out, s)
      BY <2>1 DEF Add
    <3> QED
      <4>1. out \in Seq(StreamIds)
        BY <1>0 DEF SetupTypes
      <4> QED
        BY <2>3, <3>1, <4>1, AppendProperties
  <2>6. ASSUME ~opt.frameset PROVE Outputs' /\ out' \in Seq(StreamIds)
    <3>0. /\ out = <<>> /\ PlacesGood /\ DeviceHeld
          /\ VideoActive <=> HasFilm
          /\ HasFilm => s = TheFilm
      BY <1>0, <2>4, <2>6, ActiveIs DEF SetupInv, ContainerSoFar, Late, TheFilm
    <3>e. DOMAIN out = {}
      <4>1. out \in Seq(StreamIds) /\ Len(out) = 0
        BY <1>0, <3>0, EmptySeq DEF SetupTypes
      <4> QED
        BY <4>1
    <3>1. NoFilm'
      BY <1>0, <2>6, SameSource DEF SetupInv, NoFilm, Late
    <3>2. \A t \in DOMAIN refs : t[1] \in {"video", "audio"} /\ t \in Lasting
      BY <1>0, <3>0 DEF PlacesGood, Later, Finals
    <3>3. CASE UNCHANGED <<out, refs>> /\ (pc' = "audio stream" => ~HasFilm)
      <4>1. \A t \in Lasting : t[1] = "audio" \/ HasFilm
        BY DEF Lasting, TheSound, TheFilm
      <4>2. pc' = "audio stream" => \A t \in DOMAIN refs : t[1] = "audio"
        BY <3>2, <3>3, <4>1
      <4>3. pc' \in {"audio stream", "crashed"}
        BY <2>1, <3>3
      <4>4. PlacesGood'
        BY <1>0, <3>0, <3>2, <3>3, <4>2, <4>3, BeforeLoops DEF PlacesGood
      <4>5. ContainerSoFar' /\ FramesFit'
        <5>1. out' = <<>> /\ DOMAIN out' = {}
          BY <3>0, <3>3, <3>e
        <5>2. ContainerSoFar'
          BY <4>3, <5>1 DEF ContainerSoFar, HasOnly
        <5>3. FramesFit'
          BY <1>0, <3>3, <4>3, SameSource DEF FramesFit, Later, Finals
        <5> QED
          BY <5>2, <5>3
      <4> QED
        BY <1>0, <3>1, <3>3, <4>4, <4>5 DEF Outputs, SetupTypes
    <3>4. CASE /\ HasFilm /\ pc' = "audio stream" /\ Add(TheFilm, coder, frames)
               /\ "video" \in opt.copied \/ frames = (buffering.enc /\ held.enc)
      <4>0. PICK f \in StreamIds : f = TheFilm /\ f[1] = "video"
        <5>1. TheFilm \in StreamIds /\ TheFilm[1] = "video"
          BY <2>3, <3>0, <3>4 DEF TheFilm
        <5> QED
          BY <5>1
      <4>1. /\ \A p \in DOMAIN out : out[p] # f
            /\ Add(f, coder, frames)
        BY <3>e, <3>4, <4>0
      <4>2. /\ DOMAIN refs' = DOMAIN refs \cup {f} /\ Good(f)'
            /\ refs'[f].frames = frames /\ out' = Append(out, f)
        BY <1>0, <4>1, AddedPlace
      <4>3. /\ out' \in Seq(StreamIds)
            /\ \A p \in DOMAIN out' : out'[p] = f
        BY <1>0, <3>e, <4>1, <4>2, Added
      <4>4. f \in Lasting /\ \A t \in Lasting : t[1] = "audio" \/ t = f
        <5>1. TheSound[1] = "audio"
          BY DEF TheSound
        <5> QED
          BY <3>4, <4>0, <5>1 DEF Lasting
      <4>5. DOMAIN refs' \subseteq StreamIds
        BY <3>0, <4>0, <4>2 DEF PlacesGood
      <4>6. PlacesGood'
        BY <1>0, <3>2, <3>4, <4>0, <4>2, <4>4, <4>5, BeforeLoops
      <4>7. ContainerSoFar'
        BY <3>4, <4>0, <4>3 DEF ContainerSoFar, HasOnly
      <4>8. buffering.enc => held.enc
        BY <1>0, <3>0, <3>4 DEF DeviceHeld, AfterFilm
      <4>9. FramesFit'
        BY <1>0, <2>1, <3>4, <4>0, <4>2, <4>8, SameSource DEF FramesFit, Devices
      <4> QED
        BY <3>1, <4>3, <4>6, <4>7, <4>9 DEF Outputs
    <3> QED
      BY <2>1, <3>0, <3>3, <3>4
  <2>7. out' \in Seq(StreamIds)
    BY <2>5, <2>6
  <2>8. SetupTypes' /\ ChosenRight' /\ DeviceHeld'
    BY <1>0, <2>1, <2>2, <2>7, LateFrame DEF SetupTypes
  <2> QED
    BY <1>0, <2>6, <2>8 DEF SetupInv, Outputs
<1> QED
  BY <1>f, <1>s

LEMMA AddAudioInv == ASSUME SetupInv, AddAudio PROVE SetupInv'
<1>0. /\ SetupTypes /\ Devices /\ pc = "audio stream" /\ pc \in AfterSound
      /\ UNCHANGED <<src, opt, chosen, is_video, decoders>>
  BY DEF SetupInv, SetupTypes, Devices, AddAudio, OutputFails, FallBackEncoder, inputSide, AfterSound,
     Late
<1>f. CASE \E enabled : OutputFails(enabled)
  BY <1>0, <1>f, FailsInv DEF Encoding
<1>s. ASSUME ~\E enabled : OutputFails(enabled)
      PROVE  SetupInv'
  <2> DEFINE a == <<"audio", chosen.audio>>
  <2>1. PICK coder :
          /\ UNCHANGED <<mode, buffering, held>>
          /\ \/ VideoActive /\ pc' = "subtitle streams" /\ todo' = Held("subtitle")
             \/ ~VideoActive /\ pc' = "art streams" /\ todo' = Held("art")
          /\ \/ ~AudioActive /\ UNCHANGED <<out, refs>>
             \/ AudioActive /\ Add(a, coder, FALSE)
    <3>1. /\ UNCHANGED <<mode, buffering, held>>
          /\ \/ VideoActive /\ pc' = "subtitle streams" /\ todo' = Held("subtitle")
             \/ ~VideoActive /\ pc' = "art streams" /\ todo' = Held("art")
          /\ \/ ~AudioActive /\ UNCHANGED <<out, refs>>
             \/ AudioActive /\ Add(a, IF "audio" \in opt.copied THEN "none" ELSE "soft", FALSE)
      BY <1>s DEF AddAudio, outputSide
    <3> QED
      BY <3>1
  <2>2. Devices'
    BY <1>0, <2>1 DEF Devices
  <2>3. a \in StreamIds
    BY <1>0 DEF StreamIds, SetupTypes
  <2>4. a = <<"audio", chosen.audio>> /\ a[1] = "audio"
    OBVIOUS
  <2> HIDE DEF a
  <2>5. out' \in Seq(StreamIds)
    <3>1. out' = out \/ out' = Append(out, a)
      BY <2>1 DEF Add
    <3>2. out \in Seq(StreamIds)
      BY <1>0 DEF SetupTypes
    <3> QED
      BY <2>3, <3>1, <3>2, AppendProperties
  <2>6. todo' \in SUBSET Nat
    BY <1>0, <2>1, SourceIs
  <2>7. SetupTypes' /\ ChosenRight' /\ DeviceHeld'
    BY <1>0, <2>1, <2>2, <2>5, <2>6, LateFrame DEF SetupTypes
  <2>8. ASSUME ~opt.frameset PROVE Outputs'
    <3>0. /\ PlacesGood /\ FramesFit
          /\ \A p \in DOMAIN out : out[p][1] = "video"
          /\ VideoActive <=> HasFilm
          /\ AudioActive <=> HasSound
          /\ a = TheSound
      <4>1. \A p \in DOMAIN out : out[p][1] \in {"video", "none"}
        BY <1>0, <2>8 DEF SetupInv, ContainerSoFar, HasOnly
      <4>2. \A p \in DOMAIN out : out[p] \in StreamIds
        <5>1. out \in Seq(StreamIds)
          BY <1>0 DEF SetupTypes
        <5> QED
          BY <5>1
      <4>3. \A t \in StreamIds : t[1] # "none"
        BY DEF StreamIds
      <4> QED
        BY <1>0, <2>4, <2>8, <4>1, <4>2, <4>3, ActiveIs DEF SetupInv, TheSound, Late
    <3>1. NoFilm'
      BY <1>0, <2>8, SameSource DEF SetupInv, NoFilm, Late
    <3>2. PICK f \in StreamIds : f = a
      BY <2>3
    <3>3. /\ \A t \in DOMAIN refs : t \in StreamIds /\ t[1] \in {"video", "audio"} /\ t \in Lasting
          /\ \A t \in DOMAIN refs : t[1] # "audio" => Good(t)
          /\ HasFilm => TheFilm \in DOMAIN refs
      BY <1>0, <3>0 DEF PlacesGood, Later, Finals
    <3>4. /\ \A t \in Lasting : t[1] # "audio" \/ (t = f /\ HasSound)
          /\ HasSound => f \in Lasting
          /\ TheFilm # f
      <4>1. TheFilm[1] = "video" /\ f = TheSound /\ f[1] = "audio"
        BY <2>4, <3>0, <3>2 DEF TheFilm
      <4> QED
        BY <4>1 DEF Lasting
    <3>5. /\ \A t \in DOMAIN refs' : t \in StreamIds /\ t \in Lasting /\ Good(t)'
          /\ HasFilm => TheFilm \in DOMAIN refs' /\ refs'[TheFilm] = refs[TheFilm]
          /\ HasSound => f \in DOMAIN refs'
          /\ \A p \in DOMAIN out' : out'[p][1] \in {"video", "audio"}
      <4>1. CASE ~AudioActive /\ UNCHANGED <<out, refs>>
        <5>1. \A t : Good(t)' <=> Good(t)
          BY <4>1 DEF Good, Places
        <5> QED
          BY <3>0, <3>3, <3>4, <4>1, <5>1
      <4>2. CASE AudioActive /\ Add(f, coder, FALSE)
        <5>1. /\ \A p \in DOMAIN out : out[p] # f
              /\ f[1] = "audio"
          BY <2>4, <3>0, <3>2
        <5>2. /\ out' = Append(out, f) /\ DOMAIN refs' = DOMAIN refs \cup {f} /\ Good(f)'
              /\ \A t \in DOMAIN refs : t # f => refs'[t] = refs[t] /\ (Good(t) => Good(t)')
          BY <1>0, <4>2, <5>1, AddedPlace
        <5>3. \A p \in DOMAIN out' : (p \in DOMAIN out /\ out'[p] = out[p]) \/ out'[p] = f
          BY <1>0, <5>1, <5>2, Added
        <5>4. \A p \in DOMAIN out' : out'[p][1] \in {"video", "audio"}
          BY <3>0, <5>1, <5>3
        <5>5. \A t \in DOMAIN refs' : t \in StreamIds /\ t \in Lasting /\ Good(t)'
          BY <3>0, <3>3, <3>4, <4>2, <5>2
        <5> QED
          BY <3>3, <3>4, <5>2, <5>4, <5>5
      <4> QED
        BY <2>1, <3>2, <4>1, <4>2
    <3>6. pc' \in {"subtitle streams", "art streams"} /\ (pc' = "art streams" => todo' = Held("art"))
      BY <2>1
    <3>7. PlacesGood'
      <4>1. /\ DOMAIN refs' \subseteq StreamIds
            /\ \A t \in DOMAIN refs' : t \in Lasting' /\ Good(t)'
            /\ HasFilm' => TheFilm' \in DOMAIN refs'
            /\ HasSound' => TheSound' \in DOMAIN refs'
        BY <1>0, <3>0, <3>2, <3>5, SameSource
      <4>2. Held("art")' = Held("art")
        BY <1>0 DEF Held
      <4> QED
        BY <3>6, <4>1, <4>2 DEF PlacesGood, Later, Finals
    <3>8. ContainerSoFar'
      BY <3>5, <3>6 DEF ContainerSoFar, HasOnly
    <3>9. FramesFit'
      BY <1>0, <2>1, <3>0, <3>5, SameSource DEF FramesFit
    <3> QED
      BY <3>1, <3>7, <3>8, <3>9 DEF Outputs
  <2> QED
    BY <1>0, <2>7, <2>8 DEF SetupInv, Outputs
<1> QED
  BY <1>f, <1>s

LEMMA PairIs == ASSUME NEW A, NEW B, NEW s \in A \X B PROVE s = <<s[1], s[2]>>
OBVIOUS

\* The loops over further streams.
LEMMA LoopIs ==
    ASSUME SetupInv, ~opt.frameset,
           NEW kind, \/ pc = "subtitle streams" /\ kind = "subtitle"
                     \/ pc = "external streams" /\ kind = "external"
                     \/ pc = "art streams" /\ kind = "art",
           todo # {}
    PROVE  /\ Min(todo) \in todo /\ <<kind, Min(todo)>> \in StreamIds
           /\ \A p \in DOMAIN out : out[p] # <<kind, Min(todo)>>
<1>1. Min(todo) \in todo /\ Min(todo) \in Nat
  BY MinIs DEF SetupInv, SetupTypes
<1>2. <<kind, Min(todo)>> \in StreamIds
  BY <1>1 DEF StreamIds
<1>3. \A p \in DOMAIN out : out[p][1] # kind \/ out[p][2] \notin todo
  BY DEF SetupInv, ContainerSoFar, HasOnly
<1>4. ASSUME NEW p \in DOMAIN out, out[p] = <<kind, Min(todo)>> PROVE FALSE
  <2>1. PICK n : n = Min(todo)
    OBVIOUS
  <2>2. <<kind, n>>[1] = kind /\ <<kind, n>>[2] = n
    OBVIOUS
  <2>3. out[p] = <<kind, n>>
    BY <1>4, <2>1
  <2>4. out[p][1] = kind /\ out[p][2] = n
    BY <2>2, <2>3, Zenon
  <2> QED
    BY <1>1, <1>3, <2>1, <2>4
<1> QED
  BY <1>1, <1>2, <1>4

\* The end of a loop, and a step after the loops.
LEMMA StageInv ==
    ASSUME SetupInv, UNCHANGED <<src, opt, chosen, is_video, decoders, mode, buffering, held, out, refs>>,
           todo' \in SUBSET Nat,
           \/ pc = "subtitle streams" /\ todo = {} /\ pc' = "external streams"
           \/ pc = "external streams" /\ todo = {} /\ pc' = "art streams" /\ todo' = Held("art")
           \/ pc = "art streams" /\ (todo = {} \/ ~opt.art) /\ pc' = "writer"
           \/ pc = "writer" /\ pc' = "header"
           \/ pc = "header" /\ pc' \in {"ready", "failed"}
    PROVE  SetupInv'
<1>0. SetupTypes /\ Devices /\ pc \in AfterSound /\ pc \in Later
  BY DEF SetupInv, SetupTypes, Devices, AfterSound, Late, Later, Finals
<1>1. SetupTypes' /\ ChosenRight' /\ DeviceHeld'
  <2>1. Devices' /\ DOMAIN decoders' \subseteq StreamIds /\ out' \in Seq(StreamIds)
    BY <1>0 DEF Devices, SetupTypes
  <2> QED
    BY <1>0, <2>1, LateFrame
<1>2. ASSUME ~opt.frameset PROVE Outputs'
  <2>1. NoFilm' /\ FramesFit'
    BY <1>0, <1>2, SameSource DEF SetupInv, NoFilm, FramesFit, Late, Later, Finals
  <2>2. ContainerSoFar'
    BY <1>2 DEF SetupInv, ContainerSoFar, HasOnly
  <2>3. Held("art")' = Held("art") /\ \A s : Good(s)' <=> Good(s)
    BY DEF Held, Good, Places
  <2>4. /\ PlacesGood
        /\ pc = "header" /\ opt.art => \A i \in Held("art") : <<"art", i>> \in DOMAIN refs
    BY <1>2 DEF SetupInv, PlacesGood, Finals
  <2>5. PlacesGood'
    BY <1>0, <2>3, <2>4, SameSource DEF PlacesGood, Later, Finals
  <2> QED
    BY <2>1, <2>2, <2>5 DEF Outputs
<1> QED
  BY <1>1, <1>2 DEF SetupInv, Outputs

\* A turn of a loop, for stream s: the stream is added, with or without its place
\* in m_out, or nothing happens to the container.
LEMMA TurnInv ==
    ASSUME SetupInv, UNCHANGED <<src, opt, chosen, is_video, pc>>,
           DOMAIN decoders' \subseteq StreamIds, Devices',
           buffering'.enc = buffering.enc, held'.enc = held.enc,
           NEW s \in StreamIds,
           \/ pc = "subtitle streams" /\ s[1] = "subtitle"
           \/ pc = "external streams" /\ s[1] = "external"
           \/ pc = "art streams" /\ s[1] = "art",
           todo # {}, s[2] = Min(todo),
           \/ UNCHANGED <<out, refs>> /\ s[1] # "art" /\ (todo' = todo \/ todo' = todo \ {s[2]})
           \/ Add(s, "soft", FALSE) /\ todo' = todo \ {s[2]}
           \/ out' = Append(out, s) /\ refs' = refs /\ s[1] # "art" /\ todo' = todo \ {s[2]},
           s[1] = "art" => decoders' = decoders
    PROVE  SetupInv'
<1>0. SetupTypes /\ pc \in AfterSound /\ pc \in Later /\ s[1] \in {"subtitle", "external", "art"}
  BY DEF SetupInv, AfterSound, Late, Later
<1>1. /\ Min(todo) \in Nat /\ todo \in SUBSET Nat
  BY <1>0, MinIs DEF SetupTypes
<1>2. PICK kind, n : s = <<kind, n>> /\ kind = s[1] /\ n = s[2] /\ n = Min(todo)
  <2>1. s = <<s[1], s[2]>>
    BY PairIs DEF StreamIds
  <2> QED
    BY <2>1
<1>3. \/ UNCHANGED <<out, refs>>
      \/ Add(s, "soft", FALSE)
      \/ out' = Append(out, s) /\ refs' = refs
  OBVIOUS
<1>4. out' \in Seq(StreamIds)
  <2>1. out' = out \/ out' = Append(out, s)
    BY <1>3 DEF Add
  <2>2. out \in Seq(StreamIds)
    BY <1>0 DEF SetupTypes
  <2>3. Append(out, s) \in Seq(StreamIds)
    BY <2>2, AppendProperties
  <2> QED
    BY <2>1, <2>2, <2>3
<1>5. SetupTypes' /\ ChosenRight' /\ DeviceHeld'
  <2>1. todo' \in SUBSET Nat /\ pc' # "encoder"
    BY <1>1
  <2> QED
    BY <1>0, <1>4, <2>1, LateFrame
<1>6. ASSUME ~opt.frameset PROVE Outputs'
  <2>1. NoFilm'
    BY <1>6, SameSource DEF SetupInv, NoFilm
  <2>2. s[2] \in todo /\ \A p \in DOMAIN out : out[p] # s
    <3>1. /\ Min(todo) \in todo /\ \A p \in DOMAIN out : out[p] # <<kind, Min(todo)>>
      BY <1>2, <1>6, LoopIs
    <3> QED
      BY <1>2, <3>1
  <2>3. ASSUME pc' \in {"art streams"} \cup Finals /\ opt'.art
        PROVE  \A i \in Held("art")' : (pc' = "art streams" /\ i \in todo') \/ <<"art", i>> \in DOMAIN refs'
    <3>1. pc = "art streams" /\ s[1] = "art" /\ Add(s, "soft", FALSE) /\ todo' = todo \ {s[2]}
      BY <2>3 DEF Finals
    <3>2. \A i \in Held("art") : i \in todo \/ <<"art", i>> \in DOMAIN refs
      BY <1>6, <2>3, <3>1 DEF SetupInv, PlacesGood
    <3>3. DOMAIN refs' = DOMAIN refs \cup {s}
      BY <1>0, <1>2, <2>2, <3>1, AddedPlace
    <3>4. Held("art")' = Held("art")
      BY <3>1 DEF Held
    <3>5. \A i \in todo : i \in todo' \/ <<"art", i>> = s
      BY <1>2, <3>1
    <3> QED
      BY <3>1, <3>2, <3>3, <3>4, <3>5
  <2>4. PlacesGood' /\ FramesFit'
    <3>1. pc' \in Later
      BY <1>0
    <3> QED
      BY <1>0, <1>3, <1>6, <2>2, <2>3, <3>1, PlacesStep
  <2>5. \A p \in DOMAIN out' : (p \in DOMAIN out /\ out'[p] = out[p]) \/ (out'[p] = s /\ todo' = todo \ {s[2]})
    <3>1. CASE out' = Append(out, s) /\ todo' = todo \ {s[2]}
      BY <1>0, <2>2, <3>1, Added
    <3>2. CASE out' = out
      BY <3>2
    <3> QED
      BY <3>1, <3>2 DEF Add
  <2>6. todo' \subseteq todo /\ (todo' = todo \ {s[2]} => s[2] \notin todo')
    BY <1>1
  <2>7. ASSUME NEW kinds, HasOnly(kinds, s[1]) PROVE HasOnly(kinds, s[1])'
    BY <1>2, <2>5, <2>6, <2>7 DEF HasOnly
  <2>8. ContainerSoFar'
    BY <1>6, <2>7 DEF SetupInv, ContainerSoFar
  <2> QED
    BY <2>1, <2>4, <2>8 DEF Outputs
<1> QED
  BY <1>5, <1>6 DEF SetupInv, Outputs

\* The stream whose turn it is.
LEMMA TurnStream ==
    ASSUME SetupTypes, NEW kind \in {"subtitle", "external", "art"}, todo # {}
    PROVE  \E s \in StreamIds : s[1] = kind /\ s[2] = Min(todo) /\ s = <<kind, Min(todo)>>
<1>1. PICK n \in Nat : n = Min(todo)
  BY MinIs DEF SetupTypes
<1>2. <<kind, n>> \in StreamIds /\ <<kind, n>>[1] = kind /\ <<kind, n>>[2] = n
  BY DEF StreamIds
<1> QED
  BY <1>1, <1>2

LEMMA SubtitlesInv == ASSUME SetupInv, AddSubtitles PROVE SetupInv'
<1>0. /\ SetupTypes /\ Devices /\ pc = "subtitle streams"
      /\ UNCHANGED <<src, opt, chosen, is_video, decoders>>
  BY DEF SetupInv, SetupTypes, Devices, AddSubtitles, inputSide
<1>f. CASE \E enabled : OutputFails(enabled)
  BY <1>0, <1>f, FailsInv DEF Encoding
<1>s. ASSUME ~\E enabled : OutputFails(enabled)
      PROVE  SetupInv'
  <2>1. UNCHANGED <<mode, buffering, held>>
    BY <1>s DEF AddSubtitles, AddSubtitle
  <2>2. CASE todo = {}
    <3>1. pc' = "external streams" /\ todo' = 1..src.external /\ UNCHANGED <<out, refs>>
      BY <2>2 DEF AddSubtitles, outputSide
    <3>2. PICK m \in Nat : m = src.external
      BY <1>0, SourceIs
    <3>3. \A i \in 1..m : i \in Nat
      OBVIOUS
    <3> QED
      BY <1>0, <2>1, <2>2, <3>1, <3>2, <3>3, StageInv
  <2>3. CASE todo # {}
    <3>1. PICK s \in StreamIds :
             s[1] = "subtitle" /\ s[2] = Min(todo) /\ s = <<"subtitle", Min(todo)>>
      BY <1>0, <2>3, TurnStream
    <3>2. /\ pc' = pc /\ todo' = todo \ {Min(todo)}
          /\ UNCHANGED <<out, refs>> \/ Add(<<"subtitle", Min(todo)>>, "soft", FALSE)
      BY <1>s, <2>3 DEF AddSubtitles, AddSubtitle, outputSide
    <3>3. /\ todo' = todo \ {s[2]}
          /\ UNCHANGED <<out, refs>> \/ Add(s, "soft", FALSE)
      BY <3>1, <3>2
    <3>4. Devices' /\ DOMAIN decoders' \subseteq StreamIds
      BY <1>0, <2>1 DEF Devices, SetupTypes
    <3> QED
      <4>1. s[1] # "art" /\ buffering'.enc = buffering.enc /\ held'.enc = held.enc
        BY <2>1, <3>1
      <4>2. \/ UNCHANGED <<out, refs>> /\ s[1] # "art" /\ (todo' = todo \/ todo' = todo \ {s[2]})
            \/ Add(s, "soft", FALSE) /\ todo' = todo \ {s[2]}
        BY <3>3, <4>1
      <4>3. s[1] = "subtitle" /\ s[2] = Min(todo)
        BY <3>1
      <4>4. UNCHANGED <<src, opt, chosen, is_video, pc, decoders>> /\ pc = "subtitle streams"
        BY <1>0, <3>2
      <4> QED
        BY <2>3, <3>4, <4>1, <4>2, <4>3, <4>4, TurnInv
  <2> QED
    BY <2>2, <2>3
<1> QED
  BY <1>f, <1>s

LEMMA ExternalInv == ASSUME SetupInv, AddExternal PROVE SetupInv'
<1>0. /\ SetupTypes /\ Devices /\ DOMAIN decoders \subseteq StreamIds /\ pc = "external streams"
      /\ UNCHANGED <<src, opt, chosen, is_video>>
  BY DEF SetupInv, SetupTypes, Devices, AddExternal
<1>1. CASE OutputFails(mode.enc = "enabled") /\ UNCHANGED decoders
  BY <1>0, <1>1, FailsInv DEF Encoding
<1>2. CASE /\ todo = {} /\ pc' = "art streams" /\ todo' = Held("art")
           /\ UNCHANGED <<decoders, mode, buffering, held, out, refs>>
  <2>1. Held("art") \in SUBSET Nat
    BY <1>0, SourceIs
  <2> QED
    BY <1>0, <1>2, <2>1, StageInv
<1>3. CASE todo # {} /\ ExternalStream(Min(todo))
  <2>1. PICK s \in StreamIds :
           s[1] = "external" /\ s[2] = Min(todo) /\ s = <<"external", Min(todo)>>
    BY <1>0, <1>3, TurnStream
  <2>2. s[1] = "external" /\ s[2] = Min(todo)
    BY <2>1
  <2>3. CASE /\ \/ Add(s, "soft", FALSE)
                \/ UNCHANGED <<out, refs>>
                \/ out' = Append(out, s) /\ refs' = refs
             /\ todo' = todo \ {s[2]} /\ UNCHANGED <<decoders, mode, buffering, held, pc>>
    <3>1. Devices' /\ DOMAIN decoders' \subseteq StreamIds
      BY <1>0, <2>3 DEF Devices
    <3>2. s[1] # "art" /\ buffering'.enc = buffering.enc /\ held'.enc = held.enc
      BY <2>2, <2>3
    <3>3. \/ UNCHANGED <<out, refs>> /\ s[1] # "art" /\ (todo' = todo \/ todo' = todo \ {s[2]})
          \/ Add(s, "soft", FALSE) /\ todo' = todo \ {s[2]}
          \/ out' = Append(out, s) /\ refs' = refs /\ s[1] # "art" /\ todo' = todo \ {s[2]}
      BY <2>3, <3>2
    <3>4. UNCHANGED <<src, opt, chosen, is_video, pc, decoders>> /\ pc = "external streams" /\ todo # {}
      BY <1>0, <1>3, <2>3
    <3> QED
      BY <2>2, <3>1, <3>2, <3>3, <3>4, TurnInv
  <2>4. CASE FallBackDecoder(s, TRUE) /\ UNCHANGED <<out, refs>>
    <3>1. /\ DOMAIN decoders' \subseteq StreamIds /\ Devices'
          /\ buffering'.enc = buffering.enc /\ held'.enc = held.enc
      BY <1>0, <2>4, DecoderOpens
    <3>2. UNCHANGED <<src, opt, chosen, is_video, pc, todo, out, refs>> /\ pc = "external streams"
          /\ todo # {} /\ s[1] # "art"
      BY <1>0, <1>3, <2>2, <2>4 DEF FallBackDecoder
    <3>3. \/ UNCHANGED <<out, refs>> /\ s[1] # "art" /\ (todo' = todo \/ todo' = todo \ {s[2]})
      BY <3>2
    <3> QED
      BY <2>2, <3>1, <3>2, <3>3, TurnInv
  <2>5. \/ /\ \/ Add(<<"external", Min(todo)>>, "soft", FALSE) \/ UNCHANGED outputSide
              \/ out' = Append(out, <<"external", Min(todo)>>) /\ UNCHANGED <<refs, stream_map>>
           /\ todo' = todo \ {Min(todo)} /\ UNCHANGED <<decoders, mode, buffering, held, pc>>
        \/ FallBackDecoder(<<"external", Min(todo)>>, TRUE) /\ UNCHANGED outputSide
    BY <1>3 DEF ExternalStream
  <2> QED
    BY <2>1, <2>3, <2>4, <2>5 DEF outputSide
<1> QED
  BY <1>1, <1>2, <1>3 DEF AddExternal, outputSide

LEMMA AlbumArtsInv == ASSUME SetupInv, AddAlbumArts PROVE SetupInv'
<1>0. /\ SetupTypes /\ Devices /\ DOMAIN decoders \subseteq StreamIds /\ pc = "art streams"
      /\ UNCHANGED <<src, opt, chosen, is_video, decoders>>
  BY DEF SetupInv, SetupTypes, Devices, AddAlbumArts, inputSide
<1>1. CASE OutputFails(mode.enc = "enabled")
  BY <1>0, <1>1, FailsInv DEF Encoding
<1>2. CASE /\ todo = {} \/ ~opt.art
           /\ pc' = "writer" /\ todo' = {} /\ UNCHANGED <<mode, buffering, held, out, refs>>
  BY <1>0, <1>2, StageInv
<1>3. CASE /\ todo # {} /\ Add(<<"art", Min(todo)>>, "soft", FALSE)
           /\ todo' = todo \ {Min(todo)} /\ UNCHANGED <<mode, buffering, held, pc>>
  <2>1. PICK s \in StreamIds : s[1] = "art" /\ s[2] = Min(todo) /\ s = <<"art", Min(todo)>>
    BY <1>0, <1>3, TurnStream
  <2>2. s[1] = "art" /\ s[2] = Min(todo)
    BY <2>1
  <2>3. Add(s, "soft", FALSE) /\ todo' = todo \ {s[2]}
    BY <1>3, <2>1
  <2>4. /\ UNCHANGED <<src, opt, chosen, is_video, pc, decoders>> /\ pc = "art streams" /\ todo # {}
        /\ Devices' /\ DOMAIN decoders' \subseteq StreamIds
        /\ buffering'.enc = buffering.enc /\ held'.enc = held.enc
    BY <1>0, <1>3 DEF Devices
  <2> QED
    BY <2>2, <2>3, <2>4, TurnInv
<1> QED
  BY <1>1, <1>2, <1>3 DEF AddAlbumArts, outputSide

LEMMA WriterInv == ASSUME SetupInv, OpenWriter PROVE SetupInv'
<1>0. SetupTypes /\ pc = "writer" /\ UNCHANGED <<src, opt, chosen, is_video, decoders>>
  BY DEF SetupInv, OpenWriter, inputSide
<1>1. CASE OutputFails(mode.enc = "enabled")
  BY <1>0, <1>1, FailsInv DEF Encoding
<1>2. CASE pc' = "header" /\ UNCHANGED <<todo, mode, buffering, held, out, refs>>
  <2>1. todo' \in SUBSET Nat
    BY <1>0, <1>2 DEF SetupTypes
  <2> QED
    BY <1>0, <1>2, <2>1, StageInv
<1> QED
  BY <1>1, <1>2 DEF OpenWriter, outputSide

LEMMA HeaderInv == ASSUME SetupInv, WriteHeader PROVE SetupInv'
<1>1. /\ todo' \in SUBSET Nat /\ pc = "header" /\ pc' \in {"ready", "failed"}
      /\ UNCHANGED <<src, opt, chosen, is_video, decoders, mode, buffering, held, out, refs>>
  BY DEF SetupInv, SetupTypes, WriteHeader, inputSide, outputSide
<1> QED
  BY <1>1, StageInv

-----------------------------------------------------------------------------
(* Reopening and closing. *)

\* Steps that close the output and leave what is chosen alone.
LEMMA ClosingInv ==
    ASSUME SetupInv, pc \in {"ready", "failed", "ended"},
           UNCHANGED <<src, opt, todo, chosen, is_video, mode, buffering>>,
           DOMAIN decoders' \subseteq StreamIds, held' \in [dec : BOOLEAN, enc : BOOLEAN],
           \/ CloseOutput /\ pc = "ready" /\ pc' = "container" /\ held' = held
           \/ CloseOutput /\ pc' \in {"ended", "destroyed"}
           \/ UNCHANGED <<out, refs>> /\ pc = "ready" /\ pc' = "failed"
           \/ UNCHANGED <<out, refs>> /\ pc = "ended" /\ pc' \in {"new", "destroyed"}
    PROVE  SetupInv'
<1>0. SetupTypes /\ ChosenRight /\ DeviceHeld
  BY DEF SetupInv
<1>1. SetupTypes'
  <2>1. out' \in Seq(StreamIds)
    <3>1. out' = out \/ out' = <<>>
      BY DEF CloseOutput
    <3>2. <<>> \in Seq(StreamIds) /\ out \in Seq(StreamIds)
      BY <1>0, EmptySeq DEF SetupTypes
    <3> QED
      BY <3>1, <3>2
  <2> QED
    BY <1>0, <2>1 DEF SetupTypes
<1>2. ChosenRight' /\ DeviceHeld'
  BY <1>0, SameSource DEF ChosenRight, DeviceHeld, AfterFilm, AfterSound, Late, Later, Finals
<1>3. ASSUME ~opt.frameset PROVE Outputs'
  <2>1. CASE CloseOutput /\ pc' \in {"container", "ended", "destroyed"}
    BY <1>3, <2>1, CloseOutputs
  <2>2. CASE /\ UNCHANGED <<out, refs>>
             /\ pc' = "failed" \/ (pc = "ended" /\ pc' \in {"new", "destroyed"})
    <3>1. PlacesGood
      BY <1>3 DEF SetupInv
    <3>2. pc' # "failed" => \A s \in DOMAIN refs : s[1] \in {"video", "audio"}
      BY <2>2, <3>1 DEF PlacesGood, Later, Finals
    <3>3. PlacesGood'
      BY <2>2, <3>1, <3>2, SameSource DEF PlacesGood, Later, Finals
    <3>4. NoFilm' /\ ContainerSoFar' /\ FramesFit'
      BY <2>2 DEF NoFilm, ContainerSoFar, FramesFit, Late, Later, Finals
    <3> QED
      BY <3>3, <3>4 DEF Outputs
  <2> QED
    BY <2>1, <2>2
<1> QED
  BY <1>1, <1>2, <1>3 DEF SetupInv, Outputs

LEMMA ReopenInv == ASSUME SetupInv, Reopen PROVE SetupInv'
<1>1. /\ pc = "ready" /\ UNCHANGED <<src, opt, todo, chosen, is_video, mode, buffering, held>>
      /\ DOMAIN decoders' \subseteq StreamIds /\ held' \in [dec : BOOLEAN, enc : BOOLEAN]
      /\ \/ CloseOutput /\ pc' = "container"
         \/ pc' = "failed" /\ UNCHANGED <<out, refs>>
  BY DEF SetupInv, SetupTypes, Reopen, inputSide
<1> QED
  BY <1>1, ClosingInv

LEMMA CloseTranscoderInv == ASSUME SetupInv, CloseTranscoder PROVE SetupInv'
<1>1. /\ pc \in {"ready", "failed"} /\ UNCHANGED <<src, opt, todo, chosen, is_video, mode, buffering>>
      /\ CloseOutput /\ pc' \in {"ended", "destroyed"}
  BY DEF CloseTranscoder
<1>2. held' \in [dec : BOOLEAN, enc : BOOLEAN]
  BY DEF CloseTranscoder
<1>3. DOMAIN decoders' \subseteq StreamIds
  <2>1. decoders' = <<>>
    BY DEF CloseTranscoder
  <2>2. DOMAIN decoders' = {}
    BY <2>1
  <2> QED
    BY <2>2
<1> QED
  BY <1>1, <1>2, <1>3, ClosingInv

LEMMA NextRunInv == ASSUME SetupInv, NextRun PROVE SetupInv'
<1>1. /\ pc = "ended" /\ pc' \in {"new", "destroyed"}
      /\ UNCHANGED <<src, opt, todo, chosen, is_video, mode, buffering, held, out, refs>>
      /\ DOMAIN decoders' \subseteq StreamIds /\ held' \in [dec : BOOLEAN, enc : BOOLEAN]
  BY DEF SetupInv, SetupTypes, NextRun, inputSide, outputSide
<1> QED
  BY <1>1, ClosingInv

-----------------------------------------------------------------------------
(* The specification. *)
LEMMA SetupInitInv == SetupInit => SetupInv
<1> SUFFICES ASSUME SetupInit PROVE SetupInv
  OBVIOUS
<1>1. DOMAIN decoders = {} /\ DOMAIN refs = {} /\ out \in Seq(StreamIds)
  <2>1. decoders = <<>> /\ refs = <<>> /\ out = <<>>
    BY DEF SetupInit
  <2>2. <<>> \in Seq(StreamIds)
    BY EmptySeq
  <2>3. DOMAIN decoders = {} /\ DOMAIN refs = {}
    BY <2>1
  <2> QED
    BY <2>1, <2>2, <2>3
<1>2. SetupTypes
  BY <1>1 DEF SetupInit, SetupTypes, Modes
<1>3. pc = "new" /\ is_video = FALSE
  BY DEF SetupInit
<1>4. ChosenRight /\ DeviceHeld /\ NoFilm /\ ContainerSoFar /\ FramesFit /\ PlacesGood
  BY <1>1, <1>3 DEF ChosenRight, DeviceHeld, NoFilm, ContainerSoFar, FramesFit, PlacesGood,
     AfterFilm, AfterSound, Late, Later, Finals
<1> QED
  BY <1>2, <1>4 DEF SetupInv

LEMMA SetupStutter == SetupInv /\ UNCHANGED setupVars => SetupInv'
<1> SUFFICES ASSUME SetupInv, UNCHANGED setupVars PROVE SetupInv'
  OBVIOUS
<1>0. /\ UNCHANGED <<src, opt, pc, todo, chosen, is_video, decoders, mode, buffering, held, out, refs>>
      /\ SetupTypes /\ ChosenRight /\ DeviceHeld
  BY DEF setupVars, SetupInv
<1>1. SetupTypes' /\ ChosenRight' /\ DeviceHeld'
  BY <1>0, SameSource DEF SetupTypes, ChosenRight, DeviceHeld
<1>2. ASSUME ~opt.frameset PROVE Outputs'
  <2>1. NoFilm /\ ContainerSoFar /\ PlacesGood /\ FramesFit
    BY <1>2 DEF SetupInv
  <2>2. Held("art")' = Held("art") /\ \A s : Good(s)' <=> Good(s)
    BY <1>0 DEF Held, Good, Places
  <2>3. NoFilm' /\ ContainerSoFar' /\ FramesFit'
    BY <1>0, <2>1, SameSource DEF NoFilm, ContainerSoFar, HasOnly, FramesFit
  <2>4. PlacesGood'
    BY <1>0, <2>1, <2>2, SameSource DEF PlacesGood
  <2> QED
    BY <2>3, <2>4 DEF Outputs
<1> QED
  BY <1>0, <1>1, <1>2 DEF SetupInv, Outputs

LEMMA SourceStepInv == SetupInv /\ [SourceNext]_sourceVars => SetupInv'
<1> SUFFICES ASSUME SetupInv, [SourceNext]_sourceVars PROVE SetupInv'
  OBVIOUS
<1>1. CASE OpenSource
  <2>1. \E ok \in BOOLEAN : OpenDevice(ok)
    <3>1. (phase' = "open") \in BOOLEAN
      OBVIOUS
    <3> QED
      BY <1>1, <3>1 DEF OpenSource
  <2> QED
    BY <2>1, InputStepInv DEF InputStep
<1>2. CASE SourceRead \/ SourceSeek \/ UNCHANGED sourceVars
  <2>1. UNCHANGED setupVars
    BY <1>2 DEF SourceRead, SourceSeek, sourceVars
  <2> QED
    BY <2>1, SetupStutter
<1>3. CASE CloseSource
  BY <1>3, CloseTranscoderInv DEF CloseSource
<1>4. CASE SetupStep
  BY <1>4, InputStepInv, OutputFileInv, ContainerInv, AddVideoInv, AddAudioInv, SubtitlesInv,
     ExternalInv, AlbumArtsInv, WriterInv, HeaderInv DEF SetupStep, OpenStep, InputStep
<1>5. CASE (Reopen \/ NextRun) /\ UNCHANGED inputVars
  BY <1>5, ReopenInv, NextRunInv
<1> QED
  BY <1>1, <1>2, <1>3, <1>4, <1>5 DEF SourceNext

LEMMA SetupInvAlways == SourceSpec => []SetupInv
<1>1. SourceInit => SetupInv
  BY SetupInitInv DEF SourceInit
<1> QED
  BY <1>1, SourceStepInv, PTL DEF SourceSpec

\* At every moment at which a container's header has been written, the container
\* has the film, the sound and every picture of the target, each once, and what
\* m_out keeps leads to the streams of this container: open_output_file,
\* add_stream, add_stream_copy, close_output_file, over any number of ways back to
\* software (open_output_with_hwaccel_fallback), segments (start_new_segment) and
\* restarts (transcoder_thread), for every source and every target.
THEOREM ContainerWholeHolds == SourceSpec => []ContainerWhole
<1>1. ASSUME SetupInv PROVE ContainerWhole
  <2> SUFFICES ASSUME Running
               PROVE  /\ VideoActive => Cardinality(Places(<<"video", chosen.video>>)) = 1
                      /\ AudioActive => Cardinality(Places(<<"audio", chosen.audio>>)) = 1
                      /\ opt.art => \A i \in Held("art") : Cardinality(Places(<<"art", i>>)) = 1
                      /\ \A s \in DOMAIN refs : refs[s].fresh /\ Places(s) = {refs[s].place}
    BY DEF ContainerWhole
  <2>1. pc = "ready" /\ ~opt.frameset /\ pc \in Later /\ pc \in Late /\ pc \in Finals
    BY DEF Running, Later, Late, Finals
  <2>2. /\ \A s \in DOMAIN refs : Good(s)
        /\ HasFilm => TheFilm \in DOMAIN refs
        /\ HasSound => TheSound \in DOMAIN refs
        /\ opt.art => \A i \in Held("art") : <<"art", i>> \in DOMAIN refs
    BY <1>1, <2>1 DEF SetupInv, PlacesGood
  <2>3. /\ VideoActive => <<"video", chosen.video>> \in DOMAIN refs
        /\ AudioActive => <<"audio", chosen.audio>> \in DOMAIN refs
    BY <1>1, <2>1, <2>2, ActiveIs DEF TheFilm, TheSound
  <2>4. ASSUME NEW s \in DOMAIN refs PROVE Cardinality(Places(s)) = 1
    <3>1. PICK p : Places(s) = {p}
      BY <2>2 DEF Good
    <3> QED
      BY <3>1, FS_Singleton
  <2> QED
    BY <2>2, <2>3, <2>4 DEF Good
<1> QED
  BY <1>1, SetupInvAlways, PTL

\* encode_video_frame moves the frames of a film to the device exactly when the
\* film's encoder, opened by add_stream, was given the device's frame buffers.
THEOREM UploadsMatchHolds == SourceSpec => []UploadsMatch
<1>1. ASSUME SetupInv PROVE UploadsMatch
  <2> SUFFICES ASSUME Running, VideoActive, "video" \notin opt.copied
               PROVE  buffering.enc <=> refs[<<"video", chosen.video>>].frames
    BY DEF UploadsMatch
  <2>1. pc = "ready" /\ ~opt.frameset /\ pc \in Later /\ pc \in Late
    BY DEF Running, Later, Late, Finals
  <2>2. HasFilm /\ <<"video", chosen.video>> = TheFilm
    BY <1>1, <2>1, ActiveIs DEF TheFilm
  <2> QED
    BY <1>1, <2>1, <2>2 DEF SetupInv, FramesFit
<1> QED
  BY <1>1, SetupInvAlways, PTL

-----------------------------------------------------------------------------
(* Reading the files of Video CDs and Blu-ray discs (Input).               *)
\* The bytes from p on, n of them.
Span(p, n) == [i \in 1..n |-> p + i - 1]

\* s is a part of the file, and begins where it was delivered to.
Follows(s, a, whole) ==
    \E i \in 0..(Len(whole) - Len(s)) : s = SubSeq(whole, i + 1, i + Len(s)) /\ a \in {i, Lost}

\* A title as libbluray presents it: its chapters follow each other, and begin
\* at access points.
Title(t) ==
    /\ t.size \in Nat /\ t.chapters \in Seq(Nat) /\ t.access \in SUBSET Nat
    /\ \A i \in DOMAIN t.chapters : t.chapters[i] \in t.access /\ t.chapters[i] =< t.size
    /\ \A i \in DOMAIN t.chapters : i < Len(t.chapters) => t.chapters[i] < t.chapters[i + 1]

\* What lies in the drive.  Nothing is asked of DVDs, and nothing said of them.
Disc(d) ==
    \/ d.type = "bluray" /\ \A k \in DOMAIN d.titles : Title(d.titles[k])
    \/ d.type = "vcd" /\ Pressed(d)
    \/ d.type = "dvd"

-----------------------------------------------------------------------------
\* The title and the ends of a Blu-ray file.
Playing == disc.titles[file.title]
Begin   == Playing.chapters[file.chapter]
Stop    == BlurayEnd(Playing, file)
Volume  == IF file.chapter < Len(Playing.chapters) /\ ~file.full
           THEN Playing.chapters[file.chapter + 1] - Begin ELSE Playing.size - Begin

\* BlurayIO, opened for a file from begin to stop.
BlurayStates(f, begin, stop) ==
    [file : {f}, start : {begin}, end : {stop}, bd : begin..stop, pos : Nat, rest : Seq(Nat),
     error : {FALSE}]

\* What is left of a block can be delivered at once, and is what comes next.
BlurayPlace ==
    /\ io \in BlurayStates(file, Begin, Stop)
    /\ Len(io.rest) =< BlurayBuffer
    /\ io.rest # <<>> => used \in {0, BlurayBuffer}
    /\ \E r \in Begin..(Stop - Len(io.rest)) :
          /\ io.rest = Span(r, Len(io.rest))
          /\ at # Lost =>
                \/ /\ at = r - Begin /\ r + Len(io.rest) = io.bd
                   /\ io.pos >= Stop => io.bd = Stop
                \/ at = Volume /\ io.pos = Stop /\ io.rest = <<>>
    /\ phase = "eof" => at = Lost \/ io.pos >= Stop

\* The bytes of a Video CD's track, and those of the file.
Size   == TrackSize(disc.tracks[file.track])
Extent == (IF file.full THEN Size ELSE file.end) - file.start

\* VcdIO, opened for a file.
VcdStates(f) == [file : {f}, pos : Int, hit : BOOLEAN, error : {FALSE}]

\* Where the device reads next is where the file was delivered to, unless it is at
\* an end, of the file or of the track.
VcdPlace ==
    /\ io \in VcdStates(file)
    /\ file.track \in DOMAIN disc.tracks /\ file.start =< file.end /\ at # Lost
    /\ ~io.hit =>
          /\ io.pos \in file.start..file.end
          /\ at = io.pos - file.start \/ (io.pos = file.end /\ at > io.pos - file.start)
    /\ phase = "eof" => io.hit \/ io.pos = file.end
    /\ Tiled(disc) => ~io.hit

\* Of a disc, while one of its files is open.
Phases == {"closed", "open", "eof", "error", "refused"}
ReadInv ==
    /\ disc.type # "dvd"
    /\ phase # "plain" =>
        /\ disc \in Discs /\ file \in FilesOf(disc) /\ phase \in Phases
        /\ used \in Nat /\ at \in Nat \cup {Lost}
        /\ disc.type = "bluray" /\ phase \in {"open", "eof"} => BlurayPlace
        /\ disc.type = "vcd" /\ phase \in {"open", "eof"} => VcdPlace

-----------------------------------------------------------------------------
\* The least and the greatest of some numbers.
LEMMA MinOfTwo == ASSUME NEW a \in Int, NEW b \in Int PROVE Min({a, b}) = IF a =< b THEN a ELSE b
<1>1. \E x \in {a, b} : \A y \in {a, b} : x =< y
  OBVIOUS
<1>2. Min({a, b}) \in {a, b} /\ \A y \in {a, b} : Min({a, b}) =< y
  BY <1>1 DEF Min
<1> QED
  BY <1>2

LEMMA MinOfThree ==
    ASSUME NEW a \in Int, NEW b \in Int, NEW c \in Int, b =< c
    PROVE  Min({a, b, c}) = IF a =< b THEN a ELSE b
<1>1. \E x \in {a, b, c} : \A y \in {a, b, c} : x =< y
  OBVIOUS
<1>2. Min({a, b, c}) \in {a, b, c} /\ \A y \in {a, b, c} : Min({a, b, c}) =< y
  BY <1>1 DEF Min
<1> QED
  BY <1>2

\* The library seeks to an access point, never beyond the target and never before
\* an access point that is nearer.
LEMMA SeekPoint ==
    ASSUME NEW t, t.access \in SUBSET Nat, NEW pos \in Nat, NEW a \in t.access, a =< pos
    PROVE  BdSeekPoint(t, pos) \in a..pos
<1> DEFINE S == {x \in t.access : x =< pos}
           D == {pos - x : x \in S}
<1>1. D \in SUBSET Nat /\ D # {}
  OBVIOUS
<1>2. Min(D) \in D
  BY <1>1, MinIs
<1>3. PICK x \in S : Min(D) = pos - x
  BY <1>2
<1>4. \A d \in D : Min(D) =< d
  <2>1. PICK m \in D : \A d \in D : m =< d
    BY <1>1, LeastOf
  <2> QED
    BY <2>1 DEF Min
<1>5. \A y \in S : x >= y
  <2> SUFFICES ASSUME NEW y \in S PROVE x >= y
    OBVIOUS
  <2>1. Min(D) =< pos - y
    BY <1>4
  <2> QED
    BY <1>3, <2>1
<1>6. Max(S) \in S /\ \A y \in S : Max(S) >= y
  BY <1>5 DEF Max
<1> QED
  BY <1>6 DEF BdSeekPoint

LEMMA SpanLen == ASSUME NEW p \in Int, NEW n \in Nat PROVE Span(p, n) \in Seq(Int) /\ Len(Span(p, n)) = n
BY DEF Span

LEMMA SpanNone == ASSUME NEW p \in Int, NEW n \in Int, n =< 0 PROVE Span(p, n) = <<>>
BY DEF Span

\* A part of consecutive bytes, as InOrder says it.
LEMMA PartIs ==
    ASSUME NEW b \in Int, NEW n \in Nat, NEW p \in Int, NEW m \in Nat \ {0}, b =< p, p + m =< b + n,
           NEW a \in {p - b, Lost}
    PROVE  Follows(Span(p, m), a, Span(b, n))
<1> DEFINE i == p - b
           j == i + m
<1>1. i \in Nat /\ i + 1 \in Nat \ {0} /\ j \in Nat /\ j =< n
  OBVIOUS
<1>2. SubSeq(Span(b, n), i + 1, j) = Span(b + i, j - i)
  <2> HIDE DEF i, j
  <2> QED
    BY <1>1 DEF Span
<1>3. b + i = p /\ j - i = m
  OBVIOUS
<1>4. Len(Span(p, m)) = m /\ Len(Span(b, n)) = n
  BY SpanLen
<1>5. i \in 0..(n - m) /\ a \in {i, Lost}
  OBVIOUS
<1> HIDE DEF i
<1> QED
  BY <1>2, <1>3, <1>4, <1>5 DEF Follows

\* A block from the disc, and what of it is handed on at once.
Block(begin, stop, size, b, buffer, room) ==
    \E got \in Nat \ {0}, m \in Nat \ {0} :
       /\ Min({buffer, stop - b, size - b}) = got /\ Min({room, got}) = m
       /\ m =< got /\ (m < got => m = room) /\ got =< buffer /\ got - m =< buffer
       /\ b + got \in begin..stop /\ b + got \in Nat
       /\ b + m \in begin..(stop - (got - m)) /\ b + m + (got - m) = b + got
       /\ SubSeq(Span(b, got), 1, m) = Span(b, m) /\ Len(Span(b, m)) = m
       /\ SubSeq(Span(b, got), room + 1, got) = Span(b + m, got - m)
       /\ Span(b + m, got - m) \in Seq(Nat) /\ Len(Span(b + m, got - m)) = got - m

LEMMA BlockIs ==
    ASSUME NEW begin \in Nat, NEW stop \in Int, NEW size \in Nat, NEW b \in Nat,
           NEW buffer \in Nat \ {0}, NEW room \in Nat \ {0},
           begin =< b, b < stop, stop =< size
    PROVE  Block(begin, stop, size, b, buffer, room)
<1> DEFINE got == IF buffer =< stop - b THEN buffer ELSE stop - b
           m   == IF room =< got THEN room ELSE got
<1>1. /\ got \in Nat \ {0} /\ got =< buffer /\ b + got \in begin..stop /\ b + got \in Nat
      /\ m \in Nat \ {0} /\ m =< got /\ (m < got => m = room) /\ got - m \in Nat /\ got - m =< buffer
      /\ b + m \in begin..(stop - (got - m)) /\ b + m + (got - m) = b + got /\ b + m \in Nat
  OBVIOUS
<1>2. Min({buffer, stop - b, size - b}) = got
  <2>1. stop - b \in Int /\ size - b \in Int /\ stop - b =< size - b
    OBVIOUS
  <2> QED
    BY <2>1, MinOfThree
<1>3. Min({room, got}) = m
  BY <1>1, MinOfTwo
<1>4. room > got => m = got
  OBVIOUS
<1>5. room =< got => m = room
  OBVIOUS
<1> HIDE DEF got, m
<1>6. SubSeq(Span(b, got), 1, m) = Span(b, m)
  <2>1. SubSeq(Span(b, got), 0 + 1, m) = Span(b + 0, m - 0)
    BY <1>1 DEF Span
  <2>2. b + 0 = b /\ m - 0 = m
    BY <1>1
  <2> QED
    BY <2>1, <2>2
<1>7. SubSeq(Span(b, got), room + 1, got) = Span(b + m, got - m)
  <2>1. SubSeq(Span(b, got), room + 1, got) = Span(b + room, got - room)
    BY <1>1 DEF Span
  <2>2. got - room \in Int /\ b + room \in Int
    BY <1>1
  <2>3. CASE room =< got
    BY <1>5, <2>1, <2>2, <2>3
  <2>4. CASE room > got
    <3>1. Span(b + room, got - room) = <<>>
      BY <1>1, <2>2, <2>4, SpanNone
    <3>2. Span(b + m, got - m) = <<>>
      <4>1. b + m \in Int /\ got - m \in Int /\ got - m =< 0
        BY <1>1, <1>4, <2>4
      <4> QED
        BY <4>1, SpanNone
    <3> QED
      BY <2>1, <2>2, <3>1, <3>2
  <2> QED
    BY <1>1, <2>3, <2>4
<1>8. Len(Span(b, m)) = m /\ Len(Span(b + m, got - m)) = got - m /\ Span(b + m, got - m) \in Seq(Nat)
  <2>1. Span(b + m, got - m) \in Seq(Nat)
    BY <1>1 DEF Span
  <2>2. Len(Span(b, m)) = m
    BY <1>1, SpanLen
  <2>3. Len(Span(b + m, got - m)) = got - m
    <3> DEFINE k == got - m
               l == b + m
    <3>1. k \in Nat /\ l \in Int
      BY <1>1
    <3> HIDE DEF k, l
    <3>2. Len(Span(l, k)) = k
      BY <3>1, SpanLen
    <3> QED
      BY <3>2 DEF k, l
  <2> QED
    BY <2>1, <2>2, <2>3
<1> QED
  BY <1>1, <1>2, <1>3, <1>6, <1>7, <1>8 DEF Block

-----------------------------------------------------------------------------
(* Blu-ray files.                                                          *)
LEMMA BlurayBytes ==
    ASSUME \A d \in Discs : Disc(d), disc \in Discs, file \in FilesOf(disc), disc.type = "bluray"
    PROVE  /\ file.type = "bluray" /\ Title(Playing)
           /\ Begin \in Nat /\ Begin \in Playing.access /\ Stop \in Int /\ Playing.size \in Nat
           /\ Begin =< Stop /\ Stop =< Playing.size
           /\ Volume = Stop - Begin + (IF Stop < Playing.size THEN 1 ELSE 0)
           /\ Volume \in Nat /\ Contents(disc, file) = Span(Begin, Volume)
<1>1. disc.type = "bluray" /\ (\A k \in DOMAIN disc.titles : Title(disc.titles[k]))
      /\ file \in BlurayFiles(disc)
  BY DEF Disc, FilesOf
<1>2. PICK k \in DOMAIN disc.titles :
        \E i \in DOMAIN disc.titles[k].chapters :
           file \in {BlurayFile(k, i, FALSE), BlurayFile(k, i, TRUE)}
  <2>1. PICK k \in DOMAIN disc.titles :
          file \in {BlurayFile(k, i, FALSE) :
                      i \in {i \in DOMAIN disc.titles[k].chapters : disc.titles[k].seconds[i] >= 1}}
                   \cup (IF Len(disc.titles[k].chapters) > 1
                            /\ {i \in DOMAIN disc.titles[k].chapters : disc.titles[k].seconds[i] >= 1} # {}
                         THEN {BlurayFile(k, 1, TRUE)} ELSE {})
    BY <1>1 DEF BlurayFiles
  <2>2. CASE \E i \in DOMAIN disc.titles[k].chapters : file = BlurayFile(k, i, FALSE)
    BY <2>2
  <2>3. CASE Len(disc.titles[k].chapters) > 1 /\ file = BlurayFile(k, 1, TRUE)
    <3>1. disc.titles[k].chapters \in Seq(Nat)
      BY <1>1 DEF Title
    <3>2. 1 \in DOMAIN disc.titles[k].chapters
      BY <2>3, <3>1
    <3> QED
      BY <2>3, <3>2
  <2> QED
    BY <2>1, <2>2, <2>3
<1>3. PICK i \in DOMAIN disc.titles[k].chapters :
        file \in {BlurayFile(k, i, FALSE), BlurayFile(k, i, TRUE)}
  BY <1>2
<1>4. file.type = "bluray" /\ file.title = k /\ file.chapter = i
  <2>1. PICK full \in BOOLEAN : file = BlurayFile(k, i, full)
    BY <1>3
  <2> QED
    BY <2>1 DEF BlurayFile
<1>5. Title(Playing) /\ file.chapter \in DOMAIN Playing.chapters
  BY <1>1, <1>3, <1>4 DEF Playing
<1>6. Begin \in Nat /\ Begin \in Playing.access /\ Begin =< Playing.size /\ Playing.size \in Nat
  BY <1>5 DEF Title, Begin
<1>7. CASE file.chapter < Len(Playing.chapters) /\ ~file.full
  <2>1. file.chapter + 1 \in DOMAIN Playing.chapters
    BY <1>5, <1>7 DEF Title
  <2>2. /\ Playing.chapters[file.chapter + 1] \in Nat
        /\ Playing.chapters[file.chapter + 1] =< Playing.size
        /\ Begin < Playing.chapters[file.chapter + 1]
    BY <1>5, <1>7, <2>1 DEF Title, Begin
  <2>3. /\ Stop = Playing.chapters[file.chapter + 1] - 1
        /\ Volume = Playing.chapters[file.chapter + 1] - Begin
    BY <1>7 DEF Stop, BlurayEnd, Volume
  <2>4. Contents(disc, file) = Span(Begin, Volume)
    BY <1>4, <1>7, <2>3 DEF Contents, BlurayContents, Span, Playing, Begin
  <2> QED
    BY <1>4, <1>5, <1>6, <2>2, <2>3, <2>4
<1>8. CASE ~(file.chapter < Len(Playing.chapters) /\ ~file.full)
  <2>1. Stop = Playing.size /\ Volume = Playing.size - Begin
    BY <1>8 DEF Stop, BlurayEnd, Volume
  <2>2. Contents(disc, file) = Span(Begin, Volume)
    BY <1>4, <1>8, <2>1 DEF Contents, BlurayContents, Span, Playing, Begin
  <2> QED
    BY <1>4, <1>5, <1>6, <2>1, <2>2
<1> QED
  BY <1>7, <1>8

LEMMA StateIs ==
    ASSUME NEW f, NEW begin \in Nat, NEW stop \in Int, NEW x \in BlurayStates(f, begin, stop)
    PROVE  /\ x.file = f /\ x.start = begin /\ x.end = stop /\ x.bd \in begin..stop /\ x.bd \in Nat
           /\ x.pos \in Nat /\ x.rest \in Seq(Nat) /\ Len(x.rest) \in Nat /\ ~x.error
<1>1. /\ x.file = f /\ x.start = begin /\ x.end = stop /\ x.bd \in begin..stop /\ x.pos \in Nat
      /\ x.rest \in Seq(Nat) /\ ~x.error
  BY DEF BlurayStates
<1> QED
  BY <1>1

LEMMA StateEnded ==
    ASSUME NEW f, NEW begin \in Nat, NEW stop \in Int, NEW x \in BlurayStates(f, begin, stop),
           NEW p \in Nat
    PROVE  LET y == [x EXCEPT !.pos = p] IN
           y \in BlurayStates(f, begin, stop) /\ y.bd = x.bd /\ y.pos = p /\ y.rest = x.rest
BY DEF BlurayStates

LEMMA StateEmptied ==
    ASSUME NEW f, NEW begin \in Nat, NEW stop \in Int, NEW x \in BlurayStates(f, begin, stop)
    PROVE  LET y == [x EXCEPT !.rest = <<>>] IN
           y \in BlurayStates(f, begin, stop) /\ y.bd = x.bd /\ y.pos = x.pos /\ y.rest = <<>>
<1>1. <<>> \in Seq(Nat)
  OBVIOUS
<1> QED
  BY <1>1 DEF BlurayStates

LEMMA SameFile ==
    ASSUME disc' = disc, file' = file
    PROVE  Playing' = Playing /\ Begin' = Begin /\ Stop' = Stop /\ Volume' = Volume
BY DEF Playing, Begin, Stop, Volume, BlurayEnd

LEMMA BlurayOpens ==
    ASSUME \A d \in Discs : Disc(d), disc \in Discs, file \in FilesOf(disc), disc.type = "bluray",
           InputOpen
    PROVE  phase' = "open" /\ BlurayPlace'
<1>1. file.type = "bluray" /\ Begin \in Nat /\ Begin \in Playing.access /\ Stop \in Int
      /\ Begin =< Stop /\ Playing.access \in SUBSET Nat
  BY BlurayBytes DEF Title
<1>2. BdSeekPoint(Playing, Begin) = Begin
  BY <1>1, SeekPoint
<1>3. /\ phase' = "open" /\ at' = 0 /\ used' = 0 /\ disc' = disc /\ file' = file
      /\ io' = [file |-> file, start |-> Begin, end |-> Stop, bd |-> Begin, pos |-> 0, rest |-> <<>>,
                error |-> FALSE]
  <2> DEFINE o == OpenIO(disc, file)
  <2>1. o = BlurayOpen(disc, file)
    BY <1>1 DEF OpenIO
  <2>2. o = [io    |-> [file |-> file, start |-> Begin, end |-> Stop, bd |-> Begin, pos |-> 0,
                        rest |-> <<>>, error |-> FALSE],
             moved |-> TRUE]
    BY <1>2, <2>1 DEF BlurayOpen, Playing, Begin, Stop
  <2> HIDE DEF o
  <2>3. /\ io' = o.io /\ phase' = (IF o.moved THEN "open" ELSE "refused")
        /\ used' = 0 /\ at' = 0 /\ disc' = disc /\ file' = file
    BY DEF InputOpen, o
  <2> QED
    BY <2>2, <2>3
<1>4. /\ io'.file = file /\ io'.start = Begin /\ io'.end = Stop /\ io'.bd = Begin /\ io'.pos = 0
      /\ io'.rest = <<>> /\ io'.error = FALSE
  BY <1>3
<1>5. BlurayBuffer \in Nat
  BY InputAssumption
<1>6. /\ io'.rest = Span(Begin, 0) /\ Len(io'.rest) = 0
      /\ (io'.pos >= Stop => io'.bd = Stop)
  BY <1>1, <1>4, SpanNone
<1>7. io' \in BlurayStates(file, Begin, Stop)
  BY <1>1, <1>3 DEF BlurayStates
<1> QED
  BY <1>1, <1>3, <1>4, <1>5, <1>6, <1>7, SameFile DEF BlurayPlace, Lost

\* How many bytes FFmpeg asks for.
LEMMA RoomIs ==
    ASSUME used \in Nat, BufferOf[disc.type] \in Nat \ {0}
    PROVE  /\ Room \in Nat \ {0}
           /\ Room # BufferOf[disc.type] => Room = BufferOf[disc.type] - used
           /\ used \in {0, BufferOf[disc.type]} => Room = BufferOf[disc.type]
BY InputAssumption DEF Room

LEMMA BlurayReads ==
    ASSUME \A d \in Discs : Disc(d), disc \in Discs, file \in FilesOf(disc), disc.type = "bluray",
           used \in Nat, at \in Nat \cup {Lost}, BlurayPlace, InputRead
    PROVE  /\ phase' \in {"open", "eof"} /\ BlurayPlace' /\ used' \in Nat /\ at' \in Nat \cup {Lost}
           /\ chunk' # <<>> => Follows(chunk', at, Span(Begin, Volume))
<1>1. /\ Begin \in Nat /\ Stop \in Int /\ Begin =< Stop /\ Stop =< Playing.size
      /\ Playing.size \in Nat /\ Volume \in Nat /\ Stop - Begin =< Volume
  BY BlurayBytes
<1>2. BlurayBuffer \in Nat \ {0} /\ BufferOf[disc.type] = BlurayBuffer
  BY InputAssumption
<1>3. /\ Room \in Nat \ {0} /\ (Room # BlurayBuffer => Room = BlurayBuffer - used)
      /\ (used \in {0, BlurayBuffer} => Room = BlurayBuffer)
  BY <1>2, RoomIs
<1>0. /\ io \in BlurayStates(file, Begin, Stop)
      /\ Len(io.rest) =< BlurayBuffer
      /\ io.rest # <<>> => used \in {0, BlurayBuffer}
  BY DEF BlurayPlace
<1>4. /\ io.file = file /\ io.start = Begin /\ io.end = Stop /\ io.bd \in Begin..Stop /\ io.bd \in Nat
      /\ io.pos \in Nat /\ io.rest \in Seq(Nat) /\ Len(io.rest) \in Nat /\ ~io.error
  BY <1>0, <1>1, StateIs
<1>5. PICK r \in Begin..(Stop - Len(io.rest)) :
        /\ io.rest = Span(r, Len(io.rest))
        /\ at # Lost =>
              \/ /\ at = r - Begin /\ r + Len(io.rest) = io.bd
                 /\ io.pos >= Stop => io.bd = Stop
              \/ at = Volume /\ io.pos = Stop /\ io.rest = <<>>
  BY DEF BlurayPlace
<1>6. disc' = disc /\ file' = file /\ phase = "open"
      /\ Playing' = Playing /\ Begin' = Begin /\ Stop' = Stop /\ Volume' = Volume
  BY SameFile DEF InputRead
<1>7. CASE EofIO(io)
  <2>1. io.pos >= Stop
    BY <1>4, <1>7 DEF EofIO, BlurayEof
  <2>2. phase' = "eof" /\ chunk' = <<>> /\ io' = io /\ at' = at /\ used' = used
    BY <1>7 DEF InputRead
  <2>3. BlurayPlace'
    BY <1>0, <1>5, <1>6, <2>1, <2>2 DEF BlurayPlace
  <2> QED
    BY <2>2, <2>3
<1>8. CASE ~EofIO(io)
  <2>1. io.pos < Stop
    BY <1>1, <1>4, <1>8 DEF EofIO, BlurayEof
  <2> DEFINE q == BlurayRead(disc, io, Room)
  <2>2. Deliver(q) /\ used' = (IF Room = BlurayBuffer THEN 0 ELSE used) + Len(chunk')
    BY <1>2, <1>8 DEF InputRead, ReadIO
  <2>3. CASE io.rest # <<>>
    <3>1. Room = BlurayBuffer /\ Len(io.rest) \in Nat \ {0}
      BY <1>0, <1>3, <1>4, <2>3
    <3>2. q = [io |-> [io EXCEPT !.rest = <<>>], bytes |-> io.rest]
      BY <1>0, <1>2, <1>4, <2>3, <3>1 DEF BlurayRead, BlurayRest
    <3>3. /\ io' = [io EXCEPT !.rest = <<>>] /\ chunk' = io.rest /\ phase' = "open"
          /\ at' = (IF at = Lost THEN Lost ELSE at + Len(io.rest))
          /\ used' = Len(io.rest)
      BY <2>2, <2>3, <3>1, <3>2 DEF Deliver
    <3>4. /\ io' \in BlurayStates(file, Begin, Stop)
          /\ io'.rest = <<>> /\ io'.bd = io.bd /\ io'.pos = io.pos
      BY <1>0, <1>1, <3>3, StateEmptied
    <3>5. r + Len(io.rest) \in Begin..Stop /\ Span(r + Len(io.rest), 0) = <<>>
      BY <1>1, <1>5, <3>1, SpanNone
    <3>6. at' # Lost =>
             at' = (r + Len(io.rest)) - Begin /\ r + Len(io.rest) = io.bd
      BY <1>1, <1>5, <2>3, <3>1, <3>3
    <3>7. BlurayPlace'
      <4> DEFINE z == r + Len(io.rest)
      <4>1. Len(io'.rest) = 0 /\ 0 =< BlurayBuffer
        BY <1>2, <3>4
      <4>2. z \in Begin..(Stop - 0) /\ io'.rest = Span(z, 0)
        BY <1>1, <3>4, <3>5
      <4>3. at' # Lost => at' = z - Begin /\ z + 0 = io'.bd /\ ~(io'.pos >= Stop)
        BY <1>1, <1>4, <1>5, <2>1, <3>1, <3>4, <3>6
      <4> HIDE DEF z
      <4> QED
        BY <1>6, <3>3, <3>4, <4>1, <4>2, <4>3 DEF BlurayPlace
    <3>8. Follows(chunk', at, Span(Begin, Volume))
      <4> DEFINE n == Len(io.rest)
      <4>1. chunk' = Span(r, n)
        BY <1>5, <3>3
      <4>2. r \in Int /\ Begin =< r /\ r + n =< Begin + Volume /\ at \in {r - Begin, Lost}
            /\ n \in Nat \ {0} /\ Begin \in Int /\ Volume \in Nat
        BY <1>1, <1>4, <1>5, <2>3, <3>1
      <4> HIDE DEF n
      <4>3. Follows(Span(r, n), at, Span(Begin, Volume))
        BY <4>2, PartIs
      <4> QED
        BY <4>1, <4>3
    <3> QED
      BY <3>1, <3>3, <3>7, <3>8
  <2>4. CASE io.rest = <<>>
    <3>1. Len(io.rest) = 0 /\ r \in Begin..Stop
          /\ (at # Lost => at = io.bd - Begin /\ (io.pos >= Stop => io.bd = Stop))
      BY <1>1, <1>5, <2>1, <2>4
    <3>2. CASE io.bd < Stop
      <4>1. PICK got \in Nat \ {0}, m \in Nat \ {0} :
              /\ Min({BlurayBuffer, Stop - io.bd, Playing.size - io.bd}) = got /\ Min({Room, got}) = m
              /\ m =< got /\ (m < got => m = Room) /\ got =< BlurayBuffer /\ got - m =< BlurayBuffer
              /\ io.bd + got \in Begin..Stop /\ io.bd + got \in Nat
              /\ io.bd + m \in Begin..(Stop - (got - m)) /\ io.bd + m + (got - m) = io.bd + got
              /\ SubSeq(Span(io.bd, got), 1, m) = Span(io.bd, m) /\ Len(Span(io.bd, m)) = m
              /\ SubSeq(Span(io.bd, got), Room + 1, got) = Span(io.bd + m, got - m)
              /\ Span(io.bd + m, got - m) \in Seq(Nat) /\ Len(Span(io.bd + m, got - m)) = got - m
        <5> DEFINE b == io.bd
        <5>1. /\ Begin \in Nat /\ Stop \in Int /\ Playing.size \in Nat /\ b \in Nat
              /\ BlurayBuffer \in Nat \ {0} /\ Room \in Nat \ {0}
              /\ Begin =< b /\ b < Stop /\ Stop =< Playing.size
          BY <1>1, <1>2, <1>3, <1>4, <3>2
        <5> HIDE DEF b
        <5>2. Block(Begin, Stop, Playing.size, b, BlurayBuffer, Room)
          BY <5>1, BlockIs
        <5> QED
          BY <5>2 DEF Block, b
      <4>5. q = [io    |-> [io EXCEPT !.bd = io.bd + got, !.pos = io.bd + got,
                                      !.rest = Span(io.bd + m, got - m)],
                 bytes |-> Span(io.bd, m)]
        <5>1. disc.titles[io.file.title] = Playing
          BY <1>4 DEF Playing
        <5>2. q = BlurayBlock(disc, io, Room)
          BY <1>4, <2>4, <3>2 DEF BlurayRead
        <5>3. Span(io.bd, got) = [i \in 1..got |-> io.bd + i - 1]
          BY DEF Span
        <5> HIDE DEF q
        <5> QED
          BY <1>4, <4>1, <5>1, <5>2, <5>3 DEF BlurayBlock
      <4> HIDE DEF q
      <4>9. Span(io.bd, m) # <<>>
        BY <4>1
      <4>10. /\ io' = [io EXCEPT !.bd = io.bd + got, !.pos = io.bd + got,
                                 !.rest = Span(io.bd + m, got - m)]
             /\ chunk' = Span(io.bd, m) /\ phase' = "open"
             /\ at' = (IF at = Lost THEN Lost ELSE at + m)
             /\ used' = (IF Room = BlurayBuffer THEN 0 ELSE used) + m
        BY <2>2, <4>1, <4>5, <4>9 DEF Deliver
      <4>11. /\ io' \in BlurayStates(file, Begin, Stop)
             /\ io'.rest = Span(io.bd + m, got - m) /\ io'.bd = io.bd + got /\ io'.pos = io.bd + got
             /\ Len(io'.rest) = got - m
        <5> DEFINE b == io.bd + got
                   s == Span(io.bd + m, got - m)
        <5>1. b \in Begin..Stop /\ b \in Nat /\ s \in Seq(Nat) /\ Len(s) = got - m
          BY <4>1
        <5>2. io' = [io EXCEPT !.bd = b, !.pos = b, !.rest = s]
          BY <4>10
        <5> HIDE DEF b, s
        <5>3. io' \in BlurayStates(file, Begin, Stop) /\ io'.bd = b /\ io'.pos = b /\ io'.rest = s
          BY <1>0, <1>1, <5>1, <5>2 DEF BlurayStates
        <5> QED
          BY <5>1, <5>3 DEF b, s
      <4>12. io'.rest # <<>> => used' \in {0, BlurayBuffer}
        <5>1. io'.rest # <<>> => m < got
          <6>1. CASE m = got
            <7>1. io.bd + m \in Int /\ got - m = 0 /\ 0 \in Int
              BY <1>4, <6>1
            <7> QED
              BY <4>11, <7>1, SpanNone
          <6> QED
            BY <4>1, <6>1
        <5>2. m < got => m = Room /\ Room = BlurayBuffer - used
          BY <1>2, <1>3, <4>1
        <5> QED
          BY <1>2, <1>3, <4>1, <4>10, <5>1, <5>2
      <4>14. at' # Lost =>
                /\ at' = (io.bd + m) - Begin /\ (io.bd + m) + (got - m) = io.bd + got
                /\ io.bd + got >= Stop => io.bd + got = Stop
        <5>1. at' # Lost => at = io.bd - Begin /\ at' = at + m
          BY <3>1, <4>10
        <5>2. /\ (io.bd - Begin) + m = (io.bd + m) - Begin
              /\ (io.bd + m) + (got - m) = io.bd + got
              /\ io.bd + got >= Stop => io.bd + got = Stop
          <6>1. (io.bd - Begin) + m = (io.bd + m) - Begin
            BY <1>1, <1>4
          <6>2. io.bd + got \in Begin..Stop /\ (io.bd + m) + (got - m) = io.bd + got
            BY <4>1
          <6> QED
            BY <1>1, <6>1, <6>2
        <5> QED
          BY <5>1, <5>2
      <4>15. BlurayPlace'
        BY <1>6, <4>1, <4>10, <4>11, <4>12, <4>14 DEF BlurayPlace
      <4>16. Follows(chunk', at, Span(Begin, Volume))
        <5>1. io.bd \in Int /\ Begin =< io.bd /\ io.bd + m =< Begin + Volume
          <6> DEFINE b == io.bd
                     a == Begin
                     z == Stop
                     v == Volume
          <6>1. /\ a \in Nat /\ b \in Nat /\ z \in Int /\ v \in Nat /\ z - a =< v
                /\ a =< b /\ b + got =< z /\ m =< got
            BY <1>1, <1>4, <4>1
          <6> HIDE DEF a, b, z, v
          <6>2. b \in Int /\ a =< b /\ b + m =< a + v
            BY <6>1
          <6> QED
            BY <6>2 DEF a, b, v
        <5>2. at \in {io.bd - Begin, Lost}
          BY <3>1
        <5> QED
          BY <1>1, <4>10, <5>1, <5>2, PartIs
      <4>18. used' \in Nat /\ at' \in Nat \cup {Lost}
        BY <1>3, <4>10
      <4> QED
        BY <4>10, <4>15, <4>16, <4>18
    <3>3. CASE ~(io.bd < Stop)
      <4>1. io.bd = Stop
        BY <1>1, <1>4, <3>3
      <4>2. q = [io |-> [io EXCEPT !.pos = io.bd], bytes |-> <<>>]
        BY <1>4, <2>4, <3>3 DEF BlurayRead
      <4>3. /\ io' = [io EXCEPT !.pos = io.bd] /\ chunk' = <<>> /\ phase' = "eof"
            /\ at' = at /\ used' \in {0, used}
        <5>1. ~q.io.error
          <6> DEFINE y == [io EXCEPT !.pos = io.bd]
          <6>1. y \in BlurayStates(file, Begin, Stop)
            BY <1>0, <1>1, <1>4, StateEnded
          <6>2. q.io = y
            BY <4>2
          <6> HIDE DEF y, q
          <6>3. ~y.error
            BY <1>1, <6>1, StateIs
          <6> QED
            BY <6>2, <6>3
        <5>2. q.bytes = <<>> /\ Len(<<>>) = 0 /\ q.io = [io EXCEPT !.pos = io.bd]
          BY <4>2
        <5>3. at + 0 = at \/ at = Lost
          BY DEF Lost
        <5>4. used + 0 = used
          OBVIOUS
        <5> HIDE DEF q
        <5> QED
          BY <2>2, <5>1, <5>2, <5>3, <5>4 DEF Deliver
      <4>4. /\ io' \in BlurayStates(file, Begin, Stop)
            /\ io'.rest = <<>> /\ io'.bd = Stop /\ io'.pos = Stop
        BY <1>0, <1>1, <1>4, <2>4, <4>1, <4>3, StateEnded
      <4>5. BlurayPlace'
        <5>1. Len(io'.rest) = 0 /\ io'.rest = Span(Stop, 0) /\ Stop \in Begin..(Stop - 0)
          BY <1>1, <4>4, SpanNone
        <5>2. at' # Lost => at' = Stop - Begin
          BY <3>1, <4>1, <4>3
        <5> QED
          BY <1>1, <1>2, <1>6, <4>3, <4>4, <5>1, <5>2 DEF BlurayPlace
      <4> QED
        BY <4>3, <4>5
    <3> QED
      BY <3>2, <3>3
  <2> QED
    BY <2>3, <2>4
<1> QED
  BY <1>7, <1>8

LEMMA BluraySeeks ==
    ASSUME \A d \in Discs : Disc(d), disc \in Discs, file \in FilesOf(disc), disc.type = "bluray",
           used \in Nat, at \in Nat \cup {Lost}, BlurayPlace, InputSeek
    PROVE  phase' \in {"open", "eof"} /\ BlurayPlace' /\ used' \in Nat /\ at' \in Nat \cup {Lost}
<1>1. /\ Begin \in Nat /\ Begin \in Playing.access /\ Playing.access \in SUBSET Nat /\ Stop \in Int
      /\ Begin =< Stop /\ Volume \in Nat /\ Volume =< Stop - Begin + 1
      /\ Contents(disc, file) = Span(Begin, Volume)
  BY BlurayBytes DEF Title
<1>2. /\ io \in BlurayStates(file, Begin, Stop)
      /\ Len(io.rest) =< BlurayBuffer
      /\ io.rest # <<>> => used \in {0, BlurayBuffer}
  BY DEF BlurayPlace
<1>3. /\ io.file = file /\ io.start = Begin /\ io.end = Stop /\ io.bd \in Begin..Stop /\ io.bd \in Nat
      /\ io.pos \in Nat /\ io.rest \in Seq(Nat) /\ Len(io.rest) \in Nat /\ ~io.error
  BY <1>1, <1>2, StateIs
<1>4. PICK r \in Begin..(Stop - Len(io.rest)) : io.rest = Span(r, Len(io.rest))
  BY DEF BlurayPlace
<1>5. disc' = disc /\ file' = file /\ phase \in {"open", "eof"}
      /\ Playing' = Playing /\ Begin' = Begin /\ Stop' = Stop /\ Volume' = Volume
  BY SameFile DEF InputSeek
<1>6. Len(Contents(disc, file)) = Volume
  BY <1>1, SpanLen
<1>7. PICK offset \in 0..Volume :
        LET r0 == BluraySeek(disc, io, offset) IN
        /\ io' = r0.io
        /\ at' = IF r0.moved /\ io.rest = <<>> THEN offset ELSE Lost
        /\ used' = IF r0.moved THEN 0 ELSE used
        /\ phase' = IF r0.moved THEN "open" ELSE phase
  <2>1. PICK offset \in 0..Len(Contents(disc, file)) :
          /\ io' = SeekIO(offset).io
          /\ at' = IF Exact(offset) THEN offset ELSE Lost
          /\ used' = IF SeekIO(offset).moved THEN 0 ELSE used
          /\ phase' = IF SeekIO(offset).moved THEN "open" ELSE phase
    BY DEF InputSeek
  <2>2. SeekIO(offset) = BluraySeek(disc, io, offset)
    BY DEF SeekIO
  <2>3. Exact(offset) <=> SeekIO(offset).moved /\ io.rest = <<>>
    BY DEF Exact
  <2> QED
    BY <1>6, <2>1, <2>2, <2>3
<1>8. offset \in Nat /\ offset =< Volume /\ Begin + offset \in Nat /\ Begin =< Begin + offset
  BY <1>1, <1>7
<1>9. used' \in Nat /\ at' \in Nat \cup {Lost} /\ phase' \in {"open", "eof"} /\ used' \in {0, used}
  BY <1>5, <1>7, <1>8
<1>10. io.rest = <<>> => Len(io.rest) = 0
  OBVIOUS
<1>11. CASE Begin + offset > Stop
  <2>1. BluraySeek(disc, io, offset) = [io |-> [io EXCEPT !.pos = Stop], moved |-> TRUE]
    BY <1>3, <1>11 DEF BluraySeek
  <2>2. /\ io' = [io EXCEPT !.pos = Stop] /\ phase' = "open" /\ used' = 0
        /\ at' = IF io.rest = <<>> THEN offset ELSE Lost
    BY <1>7, <2>1
  <2>3. Stop \in Nat /\ offset = Volume
    BY <1>1, <1>8, <1>11
  <2>4. io' \in BlurayStates(file, Begin, Stop) /\ io'.pos = Stop /\ io'.rest = io.rest
    BY <1>1, <1>2, <2>2, <2>3, StateEnded
  <2> QED
    BY <1>2, <1>4, <1>5, <1>9, <2>2, <2>3, <2>4 DEF BlurayPlace
<1>12. CASE ~(Begin + offset > Stop)
  <2> DEFINE point == BdSeekPoint(Playing, Begin + offset)
  <2>1. point \in Begin..(Begin + offset)
    BY <1>1, <1>8, SeekPoint
  <2>2. point \in Begin..Stop /\ point \in Nat
    BY <1>1, <1>8, <1>12, <2>1
  <2> HIDE DEF point
  <2>3. BluraySeek(disc, io, offset) =
           [io |-> [io EXCEPT !.bd = point, !.pos = point], moved |-> point = Begin + offset]
    BY <1>3, <1>12 DEF BluraySeek, Playing, point
  <2>4. /\ io' = [io EXCEPT !.bd = point, !.pos = point]
        /\ at' # Lost => io.rest = <<>> /\ point = Begin + offset /\ at' = offset /\ phase' = "open"
        /\ phase' = "eof" => at' = Lost
    <3> DEFINE q == BluraySeek(disc, io, offset)
    <3>1. /\ q.io = [io EXCEPT !.bd = point, !.pos = point]
          /\ q.moved = (point = Begin + offset)
      BY <2>3
    <3> HIDE DEF q
    <3>2. /\ io' = q.io
          /\ at' = IF q.moved /\ io.rest = <<>> THEN offset ELSE Lost
          /\ phase' = IF q.moved THEN "open" ELSE phase
      BY <1>7 DEF q
    <3> QED
      BY <3>1, <3>2
  <2>5. io' \in BlurayStates(file, Begin, Stop) /\ io'.bd = point /\ io'.pos = point /\ io'.rest = io.rest
    BY <1>2, <2>2, <2>4 DEF BlurayStates
  <2>6. CASE at' = Lost
    BY <1>2, <1>4, <1>5, <1>9, <2>4, <2>5, <2>6 DEF BlurayPlace
  <2>7. CASE at' # Lost
    <3>1. /\ io'.rest = <<>> /\ Len(io'.rest) = 0 /\ io'.rest = Span(point, 0)
          /\ point \in Begin..(Stop - 0) /\ 0 =< BlurayBuffer
      <4>1. Len(io.rest) = 0 /\ BlurayBuffer \in Nat /\ io'.rest = <<>>
        BY <1>10, <2>4, <2>5, <2>7, InputAssumption
      <4>2. Span(point, 0) = <<>>
        BY <2>2, SpanNone
      <4> QED
        BY <1>1, <2>2, <4>1, <4>2
    <3>2. at' = point - Begin /\ point + 0 = io'.bd /\ (io'.pos >= Stop => io'.bd = Stop)
      BY <1>1, <1>8, <2>2, <2>4, <2>5, <2>7
    <3>3. BlurayPlace'
      BY <1>5, <2>4, <2>5, <2>7, <3>1, <3>2 DEF BlurayPlace
    <3> QED
      BY <1>9, <3>3
  <2> QED
    BY <1>9, <2>6, <2>7
<1> QED
  BY <1>9, <1>11, <1>12

\* At the end everything was delivered but what is lost there.
LEMMA BlurayEnds ==
    ASSUME \A d \in Discs : Disc(d), disc \in Discs, file \in FilesOf(disc), disc.type = "bluray",
           BlurayPlace, phase = "eof", at # Lost
    PROVE  at >= Len(Contents(disc, file)) - LostAtEnd
<1>1. /\ Begin \in Nat /\ Stop \in Int /\ Playing.size \in Nat /\ Volume \in Nat
      /\ Volume = Stop - Begin + (IF Stop < Playing.size THEN 1 ELSE 0)
      /\ Contents(disc, file) = Span(Begin, Volume)
  BY BlurayBytes
<1>2. io \in BlurayStates(file, Begin, Stop) /\ io.pos >= Stop
  BY DEF BlurayPlace
<1>3. io.end = Stop /\ Len(io.rest) \in Nat /\ io.bd \in Nat
  BY <1>1, <1>2, StateIs
<1>4. PICK r \in Begin..(Stop - Len(io.rest)) :
        \/ at = r - Begin /\ r + Len(io.rest) = io.bd /\ (io.pos >= Stop => io.bd = Stop)
        \/ at = Volume /\ io.pos = Stop /\ io.rest = <<>>
  BY DEF BlurayPlace
<1>5. LostAtEnd = Len(io.rest) + (IF Stop < Playing.size THEN 1 ELSE 0)
  BY <1>3 DEF LostAtEnd, Playing
<1>6. Len(Contents(disc, file)) = Volume
  BY <1>1, SpanLen
<1>7. CASE at = Volume
  <2> DEFINE k == Len(io.rest)
             e == IF Stop < Playing.size THEN 1 ELSE 0
  <2>1. k \in Nat /\ e \in Nat /\ LostAtEnd = k + e
    BY <1>3, <1>5
  <2> HIDE DEF k, e
  <2> QED
    BY <1>1, <1>6, <1>7, <2>1
<1>8. CASE at = r - Begin /\ r + Len(io.rest) = Stop
  <2> DEFINE k == Len(io.rest)
             e == IF Stop < Playing.size THEN 1 ELSE 0
  <2>1. /\ k \in Nat /\ e \in Nat /\ LostAtEnd = k + e /\ r \in Int /\ r + k = Stop
        /\ Volume = Stop - Begin + e
    BY <1>1, <1>3, <1>5, <1>8
  <2> HIDE DEF k, e
  <2> QED
    BY <1>1, <1>6, <1>8, <2>1
<1> QED
  BY <1>2, <1>4, <1>7, <1>8

-----------------------------------------------------------------------------
(* Files of Video CDs.                                                     *)
LEMMA VcdBytes ==
    ASSUME \A d \in Discs : Disc(d), disc \in Discs, file \in FilesOf(disc), disc.type = "vcd"
    PROVE  /\ file.type = "vcd" /\ file \in VcdFiles(disc)
           /\ file.start \in Nat /\ file.end \in Int /\ file.full \in BOOLEAN
           /\ file.track \in DOMAIN disc.tracks => Size \in Nat
           /\ Contents(disc, file) = Span(file.start, Extent)
           /\ Clean(disc) /\ OneTrack(disc) => Tiled(disc)
<1>1. /\ Positions(disc) /\ (\A k \in DOMAIN disc.tracks : Whole(disc.tracks[k]))
      /\ Clean(disc) /\ OneTrack(disc) => Tiled(disc)
  <2>1. Pressed(disc)
    BY DEF Disc
  <2> QED
    BY <2>1, PressedKept, PositionsAre, TiledIs DEF Readable
<1>2. file \in VcdFiles(disc)
  BY DEF FilesOf
<1>3. \E c, e : \E full \in BOOLEAN : file = VcdFile(c, full, e)
  <2> DEFINE c == Chapters(disc)
  <2>1. file \in {VcdFile(c[k], FALSE, c[k].end) : k \in DOMAIN c}
                 \cup (IF Len(c) > 1 THEN {VcdFile(c[1], TRUE, Last(c).end - c[1].start)} ELSE {})
    BY <1>2 DEF VcdFiles
  <2> HIDE DEF c
  <2>2. CASE \E k \in DOMAIN c : file = VcdFile(c[k], FALSE, c[k].end)
    BY <2>2
  <2>3. CASE file = VcdFile(c[1], TRUE, Last(c).end - c[1].start)
    BY <2>3
  <2> QED
    BY <2>1, <2>2, <2>3
<1>4. file.type = "vcd" /\ file.full \in BOOLEAN
  BY <1>3 DEF VcdFile
<1>5. file.start \in Nat /\ file.end \in Int
  BY <1>1, <1>2 DEF Positions
<1>6. file.track \in DOMAIN disc.tracks => Size \in Nat
  BY <1>1, SizeNat DEF Size
<1>7. Contents(disc, file) = Span(file.start, Extent)
  BY <1>4 DEF Contents, VcdContents, Span, Extent, Size
<1> QED
  BY <1>1, <1>2, <1>4, <1>5, <1>6, <1>7

LEMMA SameTrack == ASSUME disc' = disc, file' = file PROVE Size' = Size /\ Extent' = Extent
BY DEF Size, Extent

LEMMA VcdOpens ==
    ASSUME \A d \in Discs : Disc(d), disc \in Discs, file \in FilesOf(disc), disc.type = "vcd",
           InputOpen
    PROVE  phase' \in {"open", "refused"} /\ (phase' = "open" => VcdPlace')
<1>1. file.type = "vcd" /\ file.start \in Nat /\ file.end \in Int
  BY VcdBytes
<1> DEFINE s == [file |-> file, pos |-> 0, hit |-> FALSE, error |-> FALSE]
<1>2. VcdTarget(file, 0) = IF file.start =< file.end THEN file.start ELSE file.end
  <2>1. file.start + 0 = file.start
    BY <1>1
  <2> QED
    BY <1>1, <2>1, MinOfTwo DEF VcdTarget
<1>3. /\ io' = VcdSeek(s, 0).io /\ disc' = disc /\ file' = file /\ at' = 0
      /\ phase' = IF file.track \in DOMAIN disc.tracks /\ VcdSeek(s, 0).moved THEN "open" ELSE "refused"
  <2>1. OpenIO(disc, file) = VcdOpen(disc, file)
    BY <1>1 DEF OpenIO
  <2>2. VcdOpen(disc, file) = [io    |-> VcdSeek(s, 0).io,
                               moved |-> file.track \in DOMAIN disc.tracks /\ VcdSeek(s, 0).moved]
    BY DEF VcdOpen
  <2> DEFINE o == OpenIO(disc, file)
  <2>3. /\ io' = o.io /\ phase' = IF o.moved THEN "open" ELSE "refused"
        /\ disc' = disc /\ file' = file /\ at' = 0
    BY DEF InputOpen
  <2>4. /\ o.io = VcdSeek(s, 0).io
        /\ o.moved = (file.track \in DOMAIN disc.tracks /\ VcdSeek(s, 0).moved)
    BY <2>1, <2>2
  <2> HIDE DEF s, o
  <2> QED
    BY <2>3, <2>4
<1>0. s.file = file /\ s \in VcdStates(file)
  BY DEF VcdStates
<1> HIDE DEF s
<1>4. CASE file.start =< file.end
  <2>1. VcdSeek(s, 0) = [io |-> [s EXCEPT !.pos = file.start, !.hit = FALSE], moved |-> TRUE]
    <3>1. VcdTarget(s.file, 0) = file.start /\ s.file.start = file.start
      BY <1>0, <1>2, <1>4
    <3>2. ~(VcdTarget(s.file, 0) < s.file.start)
      BY <1>1, <3>1
    <3> QED
      BY <3>1, <3>2 DEF VcdSeek
  <2>2. io' = [s EXCEPT !.pos = file.start, !.hit = FALSE]
    BY <1>3, <2>1
  <2>3. io' \in VcdStates(file) /\ io'.pos = file.start /\ ~io'.hit
    <3> DEFINE a == file.start
    <3>1. a \in Int /\ io' = [s EXCEPT !.pos = a, !.hit = FALSE]
      BY <1>1, <2>2
    <3> HIDE DEF a
    <3>2. io' \in VcdStates(file) /\ io'.pos = a /\ ~io'.hit
      BY <1>0, <3>1 DEF VcdStates
    <3> QED
      BY <3>2 DEF a
  <2>4. file.start \in file.start..file.end /\ 0 = file.start - file.start
    BY <1>1, <1>4
  <2> QED
    BY <1>3, <1>4, <2>3, <2>4 DEF VcdPlace, Lost
<1>5. CASE ~(file.start =< file.end)
  <2>1. ~VcdSeek(s, 0).moved
    BY <1>0, <1>1, <1>2, <1>5 DEF VcdSeek
  <2> QED
    BY <1>3, <2>1
<1> QED
  BY <1>4, <1>5

LEMMA VcdReads ==
    ASSUME \A d \in Discs : Disc(d), disc \in Discs, file \in FilesOf(disc), disc.type = "vcd",
           used \in Nat, at \in Nat \cup {Lost}, VcdPlace, InputRead
    PROVE  /\ phase' \in {"open", "eof"} /\ VcdPlace' /\ used' \in Nat /\ at' \in Nat \cup {Lost}
           /\ chunk' # <<>> => Follows(chunk', at, Span(file.start, Extent))
<1>1. /\ file \in VcdFiles(disc) /\ file.start \in Nat /\ file.end \in Int /\ file.full \in BOOLEAN
      /\ file.track \in DOMAIN disc.tracks /\ Size \in Nat /\ file.start =< file.end
  BY VcdBytes DEF VcdPlace
<1>2. BufferOf[disc.type] \in Nat \ {0}
  BY InputAssumption
<1>3. Room \in Nat \ {0}
  BY <1>2, RoomIs
<1>4. /\ io \in VcdStates(file)
      /\ io.file = file /\ io.pos \in Int /\ io.hit \in BOOLEAN /\ io.error = FALSE
      /\ at \in Nat
  BY DEF VcdPlace, VcdStates
<1>5. /\ ~io.hit =>
            /\ io.pos \in file.start..file.end
            /\ at = io.pos - file.start \/ (io.pos = file.end /\ at > io.pos - file.start)
      /\ Tiled(disc) => ~io.hit
  BY DEF VcdPlace
<1>6. disc' = disc /\ file' = file /\ phase = "open"
  BY DEF InputRead
<1>7. CASE EofIO(io)
  <2>1. io.hit \/ io.pos >= file.end
    BY <1>4, <1>7 DEF EofIO, VcdEof
  <2>2. phase' = "eof" /\ chunk' = <<>> /\ io' = io /\ at' = at /\ used' = used
    BY <1>7 DEF InputRead
  <2>3. io.hit \/ io.pos = file.end
    BY <1>1, <1>4, <1>5, <2>1
  <2>4. VcdPlace'
    BY <1>6, <2>2, <2>3 DEF VcdPlace
  <2> QED
    BY <2>2, <2>4
<1>8. CASE ~EofIO(io)
  <2>1. ~io.hit /\ io.pos < file.end
    BY <1>1, <1>4, <1>8 DEF EofIO, VcdEof
  <2>2. at = io.pos - file.start /\ file.start =< io.pos
    BY <1>1, <1>4, <1>5, <2>1
  <2> DEFINE n   == IF Room =< file.end - io.pos THEN Room ELSE file.end - io.pos
             got == IF n =< Size - io.pos THEN n ELSE Size - io.pos
             q   == VcdRead(disc, io, Room)
  <2>3. Deliver(q) /\ used' = (IF Room = BufferOf[disc.type] THEN 0 ELSE used) + Len(chunk')
    BY <1>8 DEF InputRead, ReadIO
  <2>4. n \in Nat \ {0} /\ io.pos + n =< file.end
    BY <1>1, <1>3, <1>4, <2>1
  <2>5. /\ got \in Int /\ got =< n /\ io.pos + got =< Size /\ io.pos + got \in Int
        /\ n =< Size - io.pos => got = n
    BY <1>1, <1>4, <2>4
  <2>6. Min({Room, file.end - io.pos}) = n /\ Min({n, Size - io.pos}) = got
    <3>1. Room \in Int /\ file.end - io.pos \in Int /\ Size - io.pos \in Int /\ n \in Int
      BY <1>1, <1>3, <1>4, <2>4
    <3>2. Min({Room, file.end - io.pos}) = n
      BY <3>1, MinOfTwo
    <3> HIDE DEF n
    <3> QED
      BY <3>1, <3>2, MinOfTwo
  <2> HIDE DEF n, got
  <2>7. q = [io    |-> [io EXCEPT !.pos = io.pos + got, !.hit = io.hit \/ got < n],
             bytes |-> Span(io.pos, got)]
    BY <1>4, <2>6 DEF VcdRead, VcdReadAll, Size, Span
  <2> HIDE DEF q
  <2>8. io' = [io EXCEPT !.pos = io.pos + got, !.hit = io.hit \/ got < n] /\ chunk' = Span(io.pos, got)
    BY <2>3, <2>7 DEF Deliver
  <2>9. io' \in VcdStates(file) /\ io'.pos = io.pos + got /\ io'.hit = (got < n) /\ ~io'.error
    <3>1. (io.hit \/ got < n) = (got < n) /\ (got < n) \in BOOLEAN
      BY <2>1
    <3> QED
      BY <1>4, <2>5, <2>8, <3>1 DEF VcdStates
  <2>14. ~io'.hit <=> got = n
    <3>1. got < n <=> got # n
      BY <2>4, <2>5
    <3> QED
      BY <2>9, <3>1
  <2>10. /\ phase' = (IF chunk' # <<>> THEN "open" ELSE "eof")
         /\ at' = at + Len(chunk')
         /\ used' = (IF Room = BufferOf[disc.type] THEN 0 ELSE used) + Len(chunk')
    <3>1. io'.error = q.io.error
      BY <2>3 DEF Deliver
    <3> QED
      BY <1>4, <2>3, <2>9, <3>1 DEF Deliver, Lost
  <2>11. Tiled(disc) => ~io'.hit
    <3> SUFFICES ASSUME Tiled(disc) PROVE got = n
      BY <2>14
    <3>1. IF file.full THEN file.end = Size - file.start ELSE file.end =< Size
      BY <1>1 DEF Tiled, Size
    <3>2. file.end =< Size
      BY <1>1, <3>1
    <3>3. n =< Size - io.pos
      BY <1>1, <1>4, <2>4, <3>2
    <3> QED
      BY <2>5, <3>3
  <2>12. CASE got < 1
    <3>1. chunk' = <<>> /\ io'.hit
      <4>1. got =< 0 /\ got < n
        BY <2>4, <2>5, <2>12
      <4>2. Span(io.pos, got) = <<>>
        BY <1>4, <2>5, <4>1, SpanNone
      <4> QED
        BY <2>8, <2>9, <4>1, <4>2
    <3>2. phase' = "eof" /\ at' = at /\ used' \in {0, used}
      BY <1>4, <2>10, <3>1
    <3> QED
      BY <1>1, <1>4, <1>6, <2>9, <2>11, <3>1, <3>2 DEF VcdPlace
  <2>13. CASE got >= 1
    <3>1. got \in Nat \ {0} /\ Len(Span(io.pos, got)) = got
      <4>1. got \in Nat \ {0} /\ got \in Nat
        BY <2>5, <2>13
      <4> QED
        BY <1>4, <4>1, SpanLen
    <3>2. chunk' # <<>> /\ phase' = "open" /\ at' = at + got /\ at' \in Nat /\ used' \in Nat
      BY <1>4, <2>8, <2>10, <3>1
    <3>3. ~io'.hit => io'.pos \in file.start..file.end /\ at' = io'.pos - file.start
      <4> SUFFICES ASSUME ~io'.hit
                   PROVE  io'.pos \in file.start..file.end /\ at' = io'.pos - file.start
        OBVIOUS
      <4>1. got = n
        BY <2>14
      <4> DEFINE p == io.pos
                 a == file.start
                 z == file.end
      <4>2. /\ p \in Int /\ a \in Nat /\ z \in Int /\ a =< p /\ p + got =< z
            /\ at' = (p - a) + got /\ io'.pos = p + got
        BY <1>1, <1>4, <2>2, <2>4, <2>9, <3>2, <4>1
      <4> HIDE DEF p, a, z
      <4>3. p + got \in a..z /\ (p - a) + got = (p + got) - a
        BY <3>1, <4>2
      <4> QED
        BY <4>2, <4>3 DEF a, z
    <3>4. VcdPlace'
      BY <1>1, <1>6, <2>9, <2>11, <3>2, <3>3 DEF VcdPlace, Lost
    <3>5. Extent \in Nat /\ io.pos + got =< file.start + Extent
      <4> DEFINE p == io.pos
                 a == file.start
                 z == IF file.full THEN Size ELSE file.end
      <4>1. io.pos + got =< file.end
        BY <1>1, <1>4, <2>4, <2>5
      <4>2. p \in Int /\ a \in Nat /\ z \in Int /\ a =< p /\ p + got =< z /\ Extent = z - a
        BY <1>1, <1>4, <2>2, <2>5, <4>1 DEF Extent
      <4> HIDE DEF p, a, z
      <4>3. z - a \in Nat /\ p + got =< a + (z - a)
        BY <3>1, <4>2
      <4> QED
        BY <4>2, <4>3 DEF p, a
    <3>6. Follows(chunk', at, Span(file.start, Extent))
      <4> DEFINE p == io.pos
      <4>1. p \in Int /\ file.start \in Int /\ file.start =< p /\ p + got =< file.start + Extent
            /\ at \in {p - file.start, Lost}
        BY <1>1, <1>4, <2>2, <3>5
      <4> HIDE DEF p
      <4>2. Follows(Span(p, got), at, Span(file.start, Extent))
        BY <3>1, <3>5, <4>1, PartIs
      <4> QED
        BY <2>8, <4>2 DEF p
    <3> QED
      BY <3>2, <3>4, <3>6
  <2> QED
    BY <2>5, <2>12, <2>13
<1> QED
  BY <1>7, <1>8

LEMMA VcdSeeks ==
    ASSUME \A d \in Discs : Disc(d), disc \in Discs, file \in FilesOf(disc), disc.type = "vcd",
           used \in Nat, VcdPlace, InputSeek
    PROVE  phase' \in {"open", "eof"} /\ VcdPlace' /\ used' \in Nat /\ at' \in Nat \cup {Lost}
<1>1. /\ file.start \in Nat /\ file.end \in Int /\ file.full \in BOOLEAN
      /\ file.track \in DOMAIN disc.tracks /\ Size \in Nat /\ file.start =< file.end
      /\ Contents(disc, file) = Span(file.start, Extent)
  BY VcdBytes DEF VcdPlace
<1>2. io \in VcdStates(file) /\ io.file = file
  BY DEF VcdPlace, VcdStates
<1>3. Len(Contents(disc, file)) \in Nat
  <2>1. Extent \in Int
    BY <1>1 DEF Extent
  <2>2. CASE Extent >= 0
    <3>1. Extent \in Nat
      BY <2>1, <2>2
    <3> QED
      BY <1>1, <3>1, SpanLen
  <2>3. CASE Extent < 0
    <3>1. Span(file.start, Extent) = <<>>
      BY <1>1, <2>1, <2>3, SpanNone
    <3> QED
      BY <1>1, <3>1
  <2> QED
    BY <2>1, <2>2, <2>3
<1>4. PICK offset \in 0..Len(Contents(disc, file)) :
        /\ io' = SeekIO(offset).io
        /\ at' = IF Exact(offset) THEN offset ELSE Lost
        /\ used' = IF SeekIO(offset).moved THEN 0 ELSE used
        /\ phase' = IF SeekIO(offset).moved THEN "open" ELSE phase
  BY DEF InputSeek
<1>5. SeekIO(offset) = VcdSeek(io, offset) /\ Exact(offset)
  BY DEF SeekIO, Exact
<1>6. offset \in Nat
  BY <1>3, <1>4
<1> DEFINE target == IF file.start + offset =< file.end THEN file.start + offset ELSE file.end
<1>7. target \in Int /\ target \in file.start..file.end /\ ~(target < file.start)
      /\ (offset = target - file.start \/ (target = file.end /\ offset > target - file.start))
  BY <1>1, <1>6
<1>8. VcdTarget(file, offset) = target
  <2>1. file.start + offset \in Int
    BY <1>1, <1>6
  <2> QED
    BY <1>1, <2>1, MinOfTwo DEF VcdTarget
<1> HIDE DEF target
<1>9. VcdSeek(io, offset) = [io |-> [io EXCEPT !.pos = target, !.hit = FALSE], moved |-> TRUE]
  BY <1>2, <1>7, <1>8 DEF VcdSeek
<1>10. io' = [io EXCEPT !.pos = target, !.hit = FALSE] /\ at' = offset /\ used' = 0 /\ phase' = "open"
  BY <1>4, <1>5, <1>9
<1>11. io' \in VcdStates(file) /\ io'.pos = target /\ ~io'.hit
  BY <1>2, <1>7, <1>10 DEF VcdStates
<1>12. disc' = disc /\ file' = file
  BY DEF InputSeek
<1> QED
  BY <1>1, <1>6, <1>7, <1>10, <1>11, <1>12 DEF VcdPlace, Lost

LEMMA VcdEnds ==
    ASSUME \A d \in Discs : Disc(d), disc \in Discs, file \in FilesOf(disc), disc.type = "vcd",
           VcdPlace, phase = "eof", at \in Nat \cup {Lost}, Clean(disc), OneTrack(disc)
    PROVE  at >= Len(Contents(disc, file)) - LostAtEnd
<1>1. /\ file \in VcdFiles(disc) /\ file.start \in Nat /\ file.end \in Int /\ file.full \in BOOLEAN
      /\ file.track \in DOMAIN disc.tracks /\ Size \in Nat /\ file.start =< file.end /\ at \in Nat
      /\ Contents(disc, file) = Span(file.start, Extent) /\ Tiled(disc)
  BY VcdBytes DEF VcdPlace
<1>2. io.pos = file.end /\ at >= file.end - file.start
  <2>1. /\ ~io.hit /\ io.pos = file.end
        /\ at = io.pos - file.start \/ at > io.pos - file.start
    BY <1>1 DEF VcdPlace
  <2> QED
    BY <1>1, <2>1
<1>3. IF file.full THEN file.end = Size - file.start ELSE file.end =< Size
  BY <1>1 DEF Tiled, Size
<1>4. CASE file.full
  <2>1. Extent = file.end /\ Extent \in Nat /\ LostAtEnd = file.start
    BY <1>1, <1>3, <1>4 DEF Extent, LostAtEnd
  <2>2. Len(Span(file.start, Extent)) = Extent
    BY <2>1 DEF Span
  <2> QED
    BY <1>1, <1>2, <2>1, <2>2
<1>5. CASE ~file.full
  <2>1. Extent = file.end - file.start /\ Extent \in Nat /\ LostAtEnd = 0
    BY <1>1, <1>5 DEF Extent, LostAtEnd
  <2>2. Len(Span(file.start, Extent)) = Extent
    BY <2>1 DEF Span
  <2> QED
    BY <1>1, <1>2, <2>1, <2>2
<1> QED
  BY <1>1, <1>4, <1>5

-----------------------------------------------------------------------------
LEMMA ReadInitInv == SourceInit /\ disc.type # "dvd" => ReadInv
BY DEF SourceInit, InputInit, ReadInv, Phases

LEMMA ReadStutter == ReadInv /\ UNCHANGED inputVars => ReadInv'
<1> SUFFICES ASSUME ReadInv, UNCHANGED inputVars PROVE ReadInv'
  OBVIOUS
<1>1. /\ disc' = disc /\ file' = file /\ phase' = phase /\ io' = io /\ used' = used /\ at' = at
      /\ Playing' = Playing /\ Begin' = Begin /\ Stop' = Stop /\ Volume' = Volume
  BY SameFile DEF inputVars
<1>2. BlurayPlace => BlurayPlace'
  BY <1>1 DEF BlurayPlace
<1>3. VcdPlace => VcdPlace'
  BY <1>1 DEF VcdPlace
<1> QED
  BY <1>1, <1>2, <1>3 DEF ReadInv

\* Every step on a disc leaves the device where the file was delivered to.
LEMMA InputInvStep ==
    ASSUME \A d \in Discs : Disc(d), ReadInv, phase # "plain",
           InputOpen \/ InputRead \/ InputSeek \/ InputClose
    PROVE  ReadInv'
<1>1. /\ disc.type # "dvd"
      /\ disc \in Discs /\ file \in FilesOf(disc) /\ used \in Nat /\ at \in Nat \cup {Lost}
      /\ disc.type = "bluray" /\ phase \in {"open", "eof"} => BlurayPlace
      /\ disc.type = "vcd" /\ phase \in {"open", "eof"} => VcdPlace
  BY DEF ReadInv
<1>2. disc' = disc /\ file' = file
  BY DEF InputOpen, InputRead, InputSeek, InputClose
<1>3. disc.type \in {"bluray", "vcd"}
  BY <1>1 DEF Disc
<1>4. CASE InputClose
  BY <1>1, <1>2, <1>4 DEF InputClose, ReadInv, Phases
<1>5. CASE InputOpen
  <2>1. used' = 0 /\ at' = 0
    BY <1>5 DEF InputOpen
  <2>2. disc.type = "bluray" => phase' = "open" /\ BlurayPlace'
    BY <1>1, <1>5, BlurayOpens
  <2>3. disc.type = "vcd" => phase' \in {"open", "refused"} /\ (phase' = "open" => VcdPlace')
    BY <1>1, <1>5, VcdOpens
  <2> QED
    BY <1>1, <1>2, <1>3, <2>1, <2>2, <2>3 DEF ReadInv, Phases
<1>6. CASE InputRead
  <2>1. phase = "open"
    BY <1>6 DEF InputRead
  <2>2. disc.type = "bluray" =>
           phase' \in {"open", "eof"} /\ BlurayPlace' /\ used' \in Nat /\ at' \in Nat \cup {Lost}
    BY <1>1, <1>6, <2>1, BlurayReads
  <2>3. disc.type = "vcd" =>
           phase' \in {"open", "eof"} /\ VcdPlace' /\ used' \in Nat /\ at' \in Nat \cup {Lost}
    BY <1>1, <1>6, <2>1, VcdReads
  <2> QED
    BY <1>1, <1>2, <1>3, <2>2, <2>3 DEF ReadInv, Phases
<1>7. CASE InputSeek
  <2>1. phase \in {"open", "eof"}
    BY <1>7 DEF InputSeek
  <2>2. disc.type = "bluray" =>
           phase' \in {"open", "eof"} /\ BlurayPlace' /\ used' \in Nat /\ at' \in Nat \cup {Lost}
    BY <1>1, <1>7, <2>1, BluraySeeks
  <2>3. disc.type = "vcd" =>
           phase' \in {"open", "eof"} /\ VcdPlace' /\ used' \in Nat /\ at' \in Nat \cup {Lost}
    BY <1>1, <1>7, <2>1, VcdSeeks
  <2> QED
    BY <1>1, <1>2, <1>3, <2>2, <2>3 DEF ReadInv, Phases
<1> QED
  BY <1>4, <1>5, <1>6, <1>7

LEMMA ReadStepInv ==
    ASSUME \A d \in Discs : Disc(d), ReadInv, [SourceNext]_sourceVars PROVE ReadInv'
<1>1. CASE UNCHANGED inputVars
  BY <1>1, ReadStutter
<1>2. CASE phase # "plain" /\ (InputOpen \/ InputRead \/ InputSeek \/ InputClose)
  BY <1>2, InputInvStep
<1>3. CASE phase = "plain"
  <2>1. UNCHANGED inputVars
    BY <1>3 DEF SourceNext, OpenSource, SourceRead, SourceSeek, CloseSource, SetupStep, sourceVars,
                InputOpen, InputRead, InputSeek
  <2> QED
    BY <1>1, <2>1
<1>4. CASE phase # "plain"
  BY <1>1, <1>2, <1>4
     DEF SourceNext, OpenSource, SourceRead, SourceSeek, CloseSource, SetupStep, sourceVars
<1> QED
  BY <1>3, <1>4

LEMMA ReadInvAlways ==
    ASSUME \A d \in Discs : Disc(d) PROVE SourceSpec /\ disc.type # "dvd" => []ReadInv
<1>1. ReadInv /\ [SourceNext]_sourceVars => ReadInv'
  BY ReadStepInv
<1> QED
  BY <1>1, ReadInitInv, PTL DEF SourceSpec

\* What input_read delivers of a Video CD or a Blu-ray disc is the next part of the
\* file's contents, with nothing left out and nothing twice: VcdIO::readio and
\* BlurayIO::readio with its rests of blocks, between any seeks, for every size of
\* the buffers, every disc whose titles are as libbluray presents them, and every
\* Video CD, damaged ones too, with the chapters that scan_chapters finds on it.
THEOREM DiscsInOrder ==
    ASSUME \A d \in Discs : Disc(d) PROVE SourceSpec /\ disc.type # "dvd" => InOrder
<1>1. ASSUME ReadInv, InputRead, chunk' # <<>> PROVE Follows(chunk', at, Contents(disc, file))
  <2>1. phase = "open"
    BY <1>1 DEF InputRead
  <2>2. /\ disc.type # "dvd" /\ disc \in Discs /\ file \in FilesOf(disc)
        /\ used \in Nat /\ at \in Nat \cup {Lost}
        /\ disc.type = "bluray" => BlurayPlace
        /\ disc.type = "vcd" => VcdPlace
    BY <1>1, <2>1 DEF ReadInv
  <2>3. CASE disc.type = "bluray"
    BY <1>1, <2>2, <2>3, BlurayReads, BlurayBytes
  <2>4. CASE disc.type = "vcd"
    BY <1>1, <2>2, <2>4, VcdReads, VcdBytes
  <2> QED
    BY <2>2, <2>3, <2>4 DEF Disc
<1>2. ReadInv => (InputRead /\ chunk' # <<>> =>
                     LET whole == Contents(disc, file) IN
                     \E i \in 0..(Len(whole) - Len(chunk')) :
                        chunk' = SubSeq(whole, i + 1, i + Len(chunk')) /\ at \in {i, Lost})
  BY <1>1 DEF Follows
<1> QED
  BY <1>2, ReadInvAlways, PTL DEF InOrder

\* No read in the middle of a Video CD's or Blu-ray disc's file looks like its end:
\* FFmpeg meets the end when everything was delivered but what LostAtEnd names, with
\* VcdIO::eof and BlurayIO::eof, which look at positions that seeks move too.
THEOREM DiscsEndAtEnd ==
    ASSUME \A d \in Discs : Disc(d) PROVE SourceSpec /\ disc.type # "dvd" => []EndIsEnd
<1>1. ASSUME ReadInv PROVE EndIsEnd
  <2> SUFFICES ASSUME phase = "eof", at # Lost, disc.type = "vcd" => Clean(disc) /\ OneTrack(disc)
               PROVE  at >= Len(Contents(disc, file)) - LostAtEnd
    BY DEF EndIsEnd
  <2>1. /\ disc.type # "dvd" /\ disc \in Discs /\ file \in FilesOf(disc) /\ at \in Nat \cup {Lost}
        /\ disc.type = "bluray" => BlurayPlace
        /\ disc.type = "vcd" => VcdPlace
    BY <1>1 DEF ReadInv
  <2>2. CASE disc.type = "bluray"
    BY <2>1, <2>2, BlurayEnds
  <2>3. CASE disc.type = "vcd"
    BY <2>1, <2>3, VcdEnds
  <2> QED
    BY <2>1, <2>2, <2>3 DEF Disc
<1> QED
  BY <1>1, ReadInvAlways, PTL
=============================================================================
