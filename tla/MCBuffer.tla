------------------------------ MODULE MCBuffer ------------------------------
(***************************************************************************)
(* The two uses of Buffer in one run: the files of a stream with their     *)
(* readers, or the images of a frame set.  An entry is one or the other.   *)
(***************************************************************************)
EXTENDS Buffer, FrameSet, TLC

CONSTANTS r1, r2, f1, f2, f3

VARIABLE use    \* "files" or "frames"

mcVars == <<bufferVars, frameVars, use>>

MCReaders == {r1, r2}
MCFrames  == {f1, f2, f3}
MCBytes   == {1, 2}
\* Two frames may be larger or smaller when they are encoded again.
MCLengths == [f \in MCFrames |-> IF f = f3 THEN {1} ELSE {1, 2}]

Init == BufferInit /\ FrameInit /\ use \in {"files", "frames"}
Next ==
    \/ use = "files"  /\ BufferNext /\ UNCHANGED <<frameVars, use>>
    \/ use = "frames" /\ FrameNext  /\ UNCHANGED <<bufferVars, use>>
Spec == Init /\ [][Next]_mcVars

Symmetry == Permutations(MCReaders)
=============================================================================
