------------------------------- MODULE Source -------------------------------
(***************************************************************************)
(* A transcoder and its source: open_input_file opens the device, FFmpeg   *)
(* reads and seeks in it while it probes and while it decodes, and closeio *)
(* closes both (ffmpeg_transcoder.cc).  A plain file is external: FFmpeg   *)
(* reads it through DiskIO, which hands on what the C library returns.     *)
(***************************************************************************)
EXTENDS Input, StreamSetup

CONSTANT DiscCase   \* what a disc's file is made of, and the options

sourceVars == <<inputVars, setupVars>>

\* A plain file, or the file of a disc.
SourceInit ==
    \/ /\ SetupInit
       /\ disc = NoIO /\ file = NoIO /\ phase = "plain" /\ io = NoIO
       /\ used = 0 /\ at = 0 /\ asked = Lost /\ chunk = <<>> /\ seeks = 0
    \/ InputInit /\ SetupInit /\ [src |-> src, opt |-> opt] \in DiscCase

OpenSource ==
    \/ phase = "plain" /\ UNCHANGED inputVars /\ \E ok \in BOOLEAN : OpenDevice(ok)
    \/ InputOpen /\ OpenDevice(phase' = "open")
SourceRead == pc \in {"probe", "ready"} /\ InputRead /\ UNCHANGED setupVars
SourceSeek == pc \in {"probe", "ready"} /\ InputSeek /\ UNCHANGED setupVars
CloseSource == CloseTranscoder /\ IF phase = "plain" THEN UNCHANGED inputVars ELSE InputClose

SetupStep == OpenStep /\ UNCHANGED inputVars
SourceNext ==
    \/ OpenSource \/ SourceRead \/ SourceSeek \/ CloseSource \/ SetupStep
    \/ (Reopen \/ NextRun) /\ UNCHANGED inputVars
\* The thread that opens a source goes on until it is open or has failed.
SourceSpec == SourceInit /\ [][SourceNext]_sourceVars /\ WF_sourceVars(SetupStep)
=============================================================================
