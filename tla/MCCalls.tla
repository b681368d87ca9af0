------------------------------ MODULE MCCalls -------------------------------
(***************************************************************************)
(* What FUSE's calls do before and after a file is open: they find it by a *)
(* name, among all that directories, cue sheets and discs make, or read an *)
(* image of a frame set.  A variable says which of the two is followed.    *)
(***************************************************************************)
EXTENDS FuseOps, FrameReads, TLC

CONSTANTS r1, r2

VARIABLE use    \* "names" or "frames"

mcVars == <<fuseVars, frameVars, use>>

-----------------------------------------------------------------------------
(* Mounts of single formats, frames and HLS streams, with plain files, cue *)
(* sheets and a disc.                                                      *)

wav == <<"a", "wav">>
mp3 == <<"a", "wav", "mp3">>
mp4 == <<"c", "mp4">>
mkv == <<"n", "mkv">>
txt == <<"t", "txt">>

MCFiles == <<wav, mp3, mp4, mkv, txt>>
File(parses, audio, video, guess, cue) ==
    [parses |-> parses, audio |-> audio, video |-> video, guess |-> guess, cue |-> cue]
MCMedia == (wav :> File(TRUE, TRUE, FALSE, 1, "file")) @@ (mp3 :> File(TRUE, TRUE, FALSE, 1, "none"))
           @@ (mp4 :> File(TRUE, TRUE, FALSE, 0, "embedded")) @@ (mkv :> File(TRUE, FALSE, TRUE, 0, "none"))
           @@ (txt :> File(FALSE, FALSE, FALSE, 0, "none"))

Mount(multi, video, audio, recode, old, script, names, disc) ==
    [multi |-> multi, video |-> video, audio |-> audio, recode |-> recode, oldNames |-> old,
     script |-> script, names |-> names, disc |-> disc]
MCMounts ==
    { Mount("single", "mp3", "", FALSE, FALSE, FALSE, {wav, mkv}, FALSE),
      Mount("single", "mp3", "", FALSE, TRUE, FALSE, {mp3, txt}, TRUE),
      Mount("single", "mp4", "mp3", TRUE, FALSE, FALSE, {wav, mp4}, FALSE),
      Mount("frames", "png", "", FALSE, FALSE, FALSE, {mkv}, FALSE),
      Mount("frames", "png", "", FALSE, FALSE, FALSE, {}, TRUE),
      Mount("hls", "ts", "", FALSE, FALSE, TRUE, {mkv}, FALSE) }
\* Frames of a directory with a file that is not media (in place of MCMounts).
MCNotMedia == {Mount("frames", "png", "", FALSE, FALSE, FALSE, {txt}, FALSE)}

MCTitles == <<<<"01. Chapter 001">>, <<"01. Title">>>>
MCMembers == <<"000001", "000002">>
MCTracks == <<<<"01">>, <<"02">>>>

-----------------------------------------------------------------------------
(* Two reads of a set of six frames, one on either side of a key frame: of *)
(* an empty cache, of one with the last frames, of MJPEG images, and of    *)
(* sources with a frame that cannot be decoded.                            *)

MCTarget == r1 :> 6 @@ r2 :> 3

MCSource(missing, cached, mjpeg, slow) ==
    [missing |-> missing, cached |-> cached, mjpeg |-> mjpeg, slow |-> slow]

MCSources ==
    {MCSource({}, {}, FALSE, FALSE), MCSource({}, {5, 6}, FALSE, TRUE),
     MCSource({}, {}, TRUE, TRUE), MCSource({4}, {5}, FALSE, FALSE),
     MCSource({2}, {}, TRUE, FALSE)}

-----------------------------------------------------------------------------
Init ==
    /\ FuseInit /\ FrameReadsInit /\ use \in {"names", "frames"}
    /\ use = "names"  => source = CHOOSE s \in Sources : TRUE
    /\ use = "frames" => files = {} /\ mount = CHOOSE m \in Mounts : TRUE
Name(A)  == use = "names" /\ A /\ UNCHANGED <<frameVars, use>>
Frame(A) == use = "frames" /\ A /\ UNCHANGED <<fuseVars, use>>
Next == Name(FuseNext) \/ Frame(FrameReadsNext)
Spec ==
    /\ Init /\ [][Next]_mcVars
    /\ WF_mcVars(Frame(WorkStep)) /\ \A r \in Readers : WF_mcVars(Frame(ReadStep(r)))

-----------------------------------------------------------------------------
\* ServedUnlessErased of FrameReads, for a frame set: every read of a frame that
\* the source has ends, unless the cache is erased under it again and again.
FramesServed == use = "frames" => ServedUnlessErased
=============================================================================
