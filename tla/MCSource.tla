------------------------------ MODULE MCSource ------------------------------
(* Video CDs of one and two tracks, whole and damaged, a Blu-ray title of   *)
(* three chapters, and DVDs with chapters, angles and interleaved units;    *)
(* or what is made of the frames of a source, from its decoders to the      *)
(* encoders, of which opening and reading a source change nothing.          *)
EXTENDS Source, Conversion

VARIABLE part   \* "source" or "conversion": what is opened and read, or what is made of it

mcVars == <<sourceVars, conversionVars, part>>

MCSync   == <<0, 1, 1, 0>>
MCBuffer == [type \in {"vcd", "bluray", "dvd"} |->
                CASE type = "vcd" -> 3 [] type = "bluray" -> 6 [] type = "dvd" -> 8]

Entry(track, time) == [track |-> track, time |-> time]
Track(lead, stamps, tail) == [lead |-> lead, stamps |-> stamps, tail |-> tail]
Vcd(entries, tracks) == [type |-> "vcd", entries |-> entries, tracks |-> tracks]
Stamps == <<10, 75, 150, 151, 225, 300>>
Vcds ==
    {Vcd(<<Entry(1, 75), Entry(1, 80), Entry(1, 151), Entry(1, 300)>>,
         <<Track(<<1, 0>>, Stamps, 2)>>),
     Vcd(<<Entry(1, 10), Entry(2, 375), Entry(2, 450)>>,
         <<Track(<<>>, <<10, 300>>, 0), Track(<<1>>, <<375, 450>>, 1)>>),
     Vcd(<<Entry(1, 10), Entry(1, 200), Entry(1, 300)>>, <<Track(<<>>, Stamps, 0)>>),
     Vcd(<<Entry(1, 10), Entry(1, 151)>>, <<Track(<<>>, <<10, 75, 150, -1, 225>>, 0)>>),
     Vcd(<<Entry(1, 10), Entry(1, 150), Entry(3, 300)>>, <<Track(<<>>, Stamps, 0)>>)}

Blurays ==
    {[type |-> "bluray",
      titles |-> <<[size |-> 21, chapters |-> <<0, 8, 13>>, seconds |-> <<5, 0, 7>>,
                    access |-> {0, 4, 8, 13, 16}]>>]}

Packets(net) ==
    <<[kind |-> "pack", len |-> 1], [kind |-> "padding", len |-> 1], [kind |-> "video", len |-> net - 1],
      [kind |-> "broken", len |-> 1], [kind |-> "audio", len |-> 1]>>
Vobu(ea, next, net) ==
    [ea |-> ea, next |-> next, packets |-> Packets(net), readable |-> TRUE,
     category |-> 8, unit |-> 0, angles |-> <<0, 0, 0>>]
Cell(first, last, block, seconds, vobus) ==
    [first |-> first, last |-> last, mode |-> block, seconds |-> seconds, vobus |-> vobus]
Dvd(programs, angles, cells, vobus) ==
    [type |-> "dvd", programs |-> programs, angles |-> angles, cells |-> cells, vobus |-> vobus]

\* Two chapters, the second with a block of two angles; the last VOBU of the
\* second cell names a next one behind the cell.
Angles ==
    Dvd(<<1, 3>>, 2,
        <<Cell(0, 6, "none", 2, <<0, 4>>), Cell(7, 12, "none", 0, <<7, 10>>),
          Cell(13, 17, "first", 2, <<13, 15>>), Cell(18, 21, "last", 2, <<18>>),
          Cell(22, 25, "none", 1, <<22>>)>>,
        0 :> Vobu(3, 4, 5) @@ 4 :> Vobu(2, 0, 3) @@ 7 :> Vobu(2, 3, 4) @@ 10 :> Vobu(2, 3, 6)
        @@ 13 :> Vobu(1, 2, 2) @@ 15 :> Vobu(2, 0, 7) @@ 18 :> Vobu(3, 0, 4) @@ 22 :> Vobu(3, 0, 6))

\* Three angles in interleaved units, and a short chapter.
Unit(next, net, category, unit, third) ==
    [Vobu(2, next, net) EXCEPT !.category = category, !.unit = unit, !.angles = <<0, 0, third>>]
Units ==
    Dvd(<<1, 4>>, 3,
        <<Cell(0, 11, "first", 3, <<0, 9>>), Cell(3, 14, "in", 3, <<3, 12>>),
          Cell(6, 23, "last", 3, <<6, 15, 18, 21>>), Cell(24, 26, "none", 0, <<24>>)>>,
        0 :> Unit(9, 3, 5, 0, 0) @@ 3 :> Unit(9, 4, 5, 0, 0) @@ 6 :> Unit(3, 5, 5, 0, 9)
        @@ 9 :> Unit(0, 2, 5, 0, 0) @@ 12 :> Unit(0, 3, 5, 0, 0) @@ 15 :> Unit(5, 2, 4, 3, 0)
        @@ 18 :> Unit(4, 3, 4, 0, 0) @@ 21 :> Unit(0, 3, 5, 0, 0) @@ 24 :> Unit(0, 3, 8, 0, 0))

Defect == [Angles EXCEPT !.vobus[10].readable = FALSE]

MCDiscs == Vcds \cup Blurays \cup {Angles, Units, Defect}

-----------------------------------------------------------------------------
(* Plain files: a film with everything, with hardware decoding, without it, *)
(* and only for its pictures; sound with a picture; a film whose codec is   *)
(* blocked from hardware; and no film or sound at all.                      *)
Streams(kinds, external, known, blocked) ==
    [kinds |-> kinds, external |-> external, known |-> known, blocked |-> blocked]
Film == Streams(<<"video", "audio", "subtitle", "art">>, 1, {1}, {})
Plain == {Film, Streams(Film.kinds, 1, {1, 4}, {4}), Streams(<<"art", "audio">>, 0, {1}, {}),
          Streams(<<"subtitle">>, 0, {}, {}), Streams(<<"video", "audio">>, 0, {1}, {1})}
Options(decode, encode, copied) ==
    [video |-> TRUE, audio |-> TRUE, subtitle |-> TRUE, albumarts |-> TRUE, art |-> TRUE,
     frameset |-> FALSE, hls |-> FALSE, decode |-> decode, encode |-> encode, copied |-> copied]
Targets(o) ==
    {o, [o EXCEPT !.hls = TRUE, !.art = FALSE], [o EXCEPT !.frameset = TRUE, !.audio = FALSE],
     [o EXCEPT !.video = FALSE, !.subtitle = FALSE]}
MCOptions == UNION {Targets(Options(d, e, c)) : d \in Hardware, e \in Hardware, c \in {{}, {"video"}}}
MCDiscCase == {[src |-> Streams(<<"video", "audio">>, 0, {}, {}), opt |-> Options("none", "none", {"video"})]}
MCCases ==
    MCDiscCase \cup
    {c \in [src : Plain, opt : MCOptions] : c.opt.frameset => "video" \in ToSet(c.src.kinds)}

-----------------------------------------------------------------------------
(* A film whose sound changes as it plays, as a stream in segments made on   *)
(* a device; one that is made smaller by its width or its height, with       *)
(* pictures that change, for encoders with other formats; images of a film   *)
(* without interlacing; and sound for a format that takes one kind only.     *)
Fmt(kind, planar)       == [kind |-> kind, planar |-> planar]
Smp(rate, channels, f)  == [rate |-> rate, channels |-> channels, format |-> f]
Pic(width, height, pix) == [width |-> width, height |-> height, pixels |-> pix]
Stereo   == Smp(48, 2, Fmt("flt", TRUE))
Heard    == {Stereo, Smp(48, 6, Fmt("flt", TRUE)), Smp(32, 1, Fmt("s16", FALSE))}
Whole480 == Pic(64, 48, "yuv420p")
Streamed ==
    [sound |-> Stereo, heard |-> Heard, rates |-> {44, 48}, formats |-> <<Fmt("flt", TRUE)>>,
     maxRate |-> 48, maxChannels |-> 0, fixed |-> {},
     picture |-> Whole480, seen |-> {Whole480}, aspect |-> <<1, 1>>, width |-> 0, height |-> 0,
     pixels |-> {"yuv420p", "yuv422p"}, square |-> FALSE, hls |-> TRUE, decode |-> FALSE,
     encode |-> TRUE, deinterlace |-> FALSE, frameset |-> FALSE]
MCJobs ==
    {Streamed,
     [Streamed EXCEPT !.maxRate = 40, !.maxChannels = 1, !.formats = <<Fmt("s16", FALSE)>>,
        !.width = 32, !.deinterlace = TRUE, !.decode = TRUE],
     [Streamed EXCEPT !.rates = {}, !.formats = <<>>, !.fixed = {Fmt("s32", FALSE)}, !.height = 12,
        !.square = TRUE, !.aspect = <<4, 3>>, !.hls = FALSE, !.encode = FALSE,
        !.seen = {Whole480, Pic(32, 48, "yuv420p")}],
     [Streamed EXCEPT !.frameset = TRUE, !.hls = FALSE, !.encode = FALSE, !.deinterlace = TRUE,
        !.pixels = {"rgb24"}],
     [Streamed EXCEPT !.rates = {44, 96}, !.picture = Pic(64, 48, "unknown"), !.hls = FALSE]}

-----------------------------------------------------------------------------
Init ==
    /\ ConversionInit /\ SourceInit /\ part \in {"source", "conversion"}
    /\ part = "source" => job = Streamed
    /\ part = "conversion" => phase = "plain" /\ [src |-> src, opt |-> opt] = CHOOSE c \in Cases : TRUE
Next ==
    \/ part = "source" /\ SourceNext /\ UNCHANGED <<conversionVars, part>>
    \/ part = "conversion" /\ ConversionNext /\ UNCHANGED <<sourceVars, part>>
Spec ==
    Init /\ [][Next]_mcVars
    /\ WF_mcVars(part = "source" /\ SetupStep /\ UNCHANGED <<conversionVars, part>>)
=============================================================================
