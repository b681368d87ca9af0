----------------------------- MODULE FrameStore -----------------------------
(***************************************************************************)
(* What the cache of a frame set keeps (Buffer::write_frame, read_frame    *)
(* and have_frame of src/src/buffer.cc): every frame number is either      *)
(* missing or gives back the image stored last, as long as no frame is     *)
(* encoded again to a larger image.  One that is, grows in its place, and  *)
(* from then on a write to it damages others, and a write to others it.    *)
(* FrameSet shows how an index and one growing file come to that.          *)
(***************************************************************************)
EXTENDS Integers

CONSTANTS
    Frames,     \* frame numbers
    Lengths,    \* Lengths[f]: the sizes frame f may be encoded to
    Bytes,      \* what images are made of
    Missing     \* no image yet

VARIABLES
    image,      \* image[f]: the bytes of frame f, or Missing
    outgrown    \* frames that lie in the place of a smaller image of theirs

storeVars == <<image, outgrown>>

\* The image a coder produced: n times the byte b stands for its contents.
Picture(b, n) == [k \in 0 .. n - 1 |-> b]

\* The frame is written over the image it has, which is not larger ...
InPlace(f, n) == image[f] # Missing /\ DOMAIN image[f] \subseteq 0 .. n - 1

\* ... and may be smaller.
Grows(f, n) == InPlace(f, n) /\ DOMAIN image[f] # 0 .. n - 1

\* An image with some of its bytes overwritten by b.
Overwritten(old, new, b) ==
    /\ DOMAIN new = DOMAIN old
    /\ \A k \in DOMAIN old : new[k] \in {old[k], b}

StoreInit == image = [f \in Frames |-> Missing] /\ outgrown = {}

Put(f, b, n) ==
    /\ outgrown' = (IF Grows(f, n) THEN outgrown \cup {f}
                    ELSE IF InPlace(f, n) THEN outgrown ELSE outgrown \ {f})
    /\ image' = [g \in Frames |-> image'[g]]
    /\ image'[f] = Picture(b, n)
    /\ \A g \in Frames \ {f} :
         \/ image'[g] = image[g]
         \/ /\ InPlace(f, n) /\ {f, g} \cap outgrown' # {}
            /\ image[g] # Missing /\ image'[g] # Missing
            /\ Overwritten(image[g], image'[g], b)

Wipe == image' = [f \in Frames |-> Missing] /\ outgrown' = {}

StoreNext == Wipe \/ \E f \in Frames, b \in Bytes : \E n \in Lengths[f] : Put(f, b, n)

StoreSpec == StoreInit /\ [][StoreNext]_storeVars
=============================================================================
