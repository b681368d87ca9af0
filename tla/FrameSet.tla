------------------------------ MODULE FrameSet ------------------------------
(***************************************************************************)
(* The cache of a frame set (src/src/buffer.cc): one file of images, grown *)
(* in steps, and an index of IMAGE_FRAME records that says where each frame *)
(* begins and how long it is.  Frames come in any order, because reads of  *)
(* missing frames seek, and the same frame may be encoded again.           *)
(*                                                                         *)
(* All operations hold m_mutex, so each is one action.  The file is mapped *)
(* as long as the entry is open; sizes are counted in units of a few bytes. *)
(***************************************************************************)
EXTENDS Integers

CONSTANTS
    Frames,         \* 1..m_video_frame_count
    Lengths,        \* Lengths[f]: the sizes frame f may be encoded to
    Bytes,          \* contents of images
    Blank,          \* a byte nothing was written to
    Missing,        \* m_frame_no of the index record is 0
    Predicted,      \* predicted_filesize() * video_frame_count()
    PageSize,       \* sysconf(_SC_PAGESIZE)
    PreallocFactor, \* PREALLOC_FACTOR
    MaxSize,        \* bound: units in the file
    MaxWrites       \* bound: writes since the file was opened or cleared

ASSUME SizesAssumption ==
    /\ Lengths \in [Frames -> SUBSET (Nat \ {0})]
    /\ Predicted \in Nat /\ PageSize \in Nat \ {0}
    /\ PreallocFactor \in Nat /\ MaxSize \in Nat /\ MaxWrites \in Nat
    /\ Blank \notin Bytes

VARIABLES
    index,      \* m_buffer_idx: [offset, size] of each frame, or Missing
    mem,        \* m_buffer, a function on 0..m_buffer_size - 1
    size,       \* m_buffer_size
    pos,        \* m_buffer_pos
    watermark,  \* m_buffer_watermark
    written,    \* m_buffer_write_size
    writes,     \* m_buffer_writes
    outgrown    \* history, for the properties: frames that grew in their place

frameVars == <<index, mem, size, pos, watermark, written, writes, outgrown>>

Extents == [offset : Nat, size : Nat]

\* The mark of a missing frame is neither a record nor an image.
ASSUME MissingAssumption ==
    /\ Missing \notin Extents
    /\ \A f \in Frames : \A n \in Lengths[f] : Missing \notin [0 .. n - 1 -> Bytes \cup {Blank}]

\* The file at another length: what is new reads as blank.
Resized(m, old, new) == [k \in 0 .. new - 1 |-> IF k < old THEN m[k] ELSE Blank]

\* init maps the index, and the first read opens the new file read-only.
FrameInit ==
    /\ index = [f \in Frames |-> Missing]
    /\ size = PageSize /\ mem = [k \in 0 .. PageSize - 1 |-> Blank]
    /\ pos = 0 /\ watermark = 0
    /\ written = 0 /\ writes = 0
    /\ outgrown = {}

\* reserve: never shrinks.
Reserved(n) == IF size >= n THEN size ELSE n

\* open_output_frame_set opens the file again for writing and makes room.
OpenForWriting ==
    /\ size' = Reserved(Predicted)
    /\ mem' = Resized(mem, size, size')
    /\ UNCHANGED <<index, pos, watermark, written, writes, outgrown>>

\* reallocate: at least what is needed, and a few average writes ahead.
Grown(need) ==
    LET average == IF writes = 0 THEN 0 ELSE written \div writes
        ahead   == PreallocFactor * average
    IN IF need <= size THEN size
       ELSE IF writes # 0 /\ ahead > need - size THEN size + ahead ELSE need

\* seek(SEEK_SET) never goes beyond m_buffer_size.
Sought(offset) == IF offset > size THEN size ELSE offset

\* writeio of n bytes b at the place just sought.
WriteAt(start, b, n) ==
    /\ size' = Grown(start + n)
    /\ mem' = [k \in 0 .. size' - 1 |->
                 IF start <= k /\ k < start + n THEN b
                 ELSE IF k < size THEN mem[k] ELSE Blank]
    /\ watermark' = (IF watermark < start + n THEN start + n ELSE watermark)
    /\ pos' = start + n
    /\ written' = written + n /\ writes' = writes + 1

\* The frame is there and its record is used again: write_frame asks whether
\* the old image is not larger than the new one.
Reusable(f, n) == index[f] # Missing /\ index[f].size <= n

\* Frames that lie in a place made for a smaller image of theirs.
Outgrown(f, n) ==
    IF ~Reusable(f, n) THEN outgrown \ {f}
    ELSE IF index[f].size < n THEN outgrown \cup {f} ELSE outgrown

\* write_frame.  Mutant: a new frame goes to the current position.
WriteFrameAtPos(f, b, n) ==
    LET start == IF Reusable(f, n) THEN index[f].offset ELSE Sought(pos)
    IN /\ index' = [index EXCEPT ![f] = [offset |-> start, size |-> n]]
       /\ outgrown' = Outgrown(f, n)
       /\ WriteAt(start, b, n)
WriteFrame(f, b, n) ==
    LET start == Sought(IF Reusable(f, n) THEN index[f].offset ELSE watermark)
    IN /\ index' = [index EXCEPT ![f] =
                      [offset |-> IF Reusable(f, n) THEN @.offset ELSE watermark,
                       size   |-> n]]
       /\ outgrown' = Outgrown(f, n)
       /\ WriteAt(start, b, n)

\* copy reads no byte past m_buffer_size; at the end it loses one more.
Copied(offset, n) ==
    LET got == IF size < offset + n THEN size - offset - 1 ELSE n
    IN [k \in 0 .. n - 1 |-> IF k < got THEN mem[offset + k] ELSE Blank]

\* read_frame: EAGAIN for a frame that is not there yet.
ReadFrame(f) ==
    IF index[f] = Missing THEN Missing
    ELSE Copied(index[f].offset, index[f].size)

\* clear: a run that starts anew forgets all frames.  The mapping stays, with
\* nothing in it; what the file still holds is overwritten before it is read.
\* Mutant: the index is kept.
ClearKeepsIndex ==
    /\ size' = 0 /\ pos' = 0 /\ watermark' = 0 /\ written' = 0 /\ writes' = 0
    /\ mem' = Resized(mem, size, 0)
    /\ UNCHANGED <<index, outgrown>>
Clear ==
    /\ size' = 0 /\ pos' = 0 /\ watermark' = 0 /\ written' = 0 /\ writes' = 0
    /\ mem' = Resized(mem, size, 0)
    /\ index' = [f \in Frames |-> Missing] /\ outgrown' = {}

\* release, init without erasing, and open_file for reading by the next user:
\* the file is cut at the watermark, and one with nothing in it made anew.
Reopen ==
    /\ size' = (IF watermark = 0 THEN PageSize ELSE watermark)
    /\ mem' = Resized(mem, watermark, size')
    /\ pos' = watermark
    /\ written' = 0 /\ writes' = 0
    /\ UNCHANGED <<index, watermark, outgrown>>

\* The bounds of the runs.
Fits(n) == watermark + n <= MaxSize /\ writes < MaxWrites

FrameNext ==
    \/ OpenForWriting
    \/ \E f \in Frames, b \in Bytes : \E n \in Lengths[f] : Fits(n) /\ WriteFrame(f, b, n)
    \/ Clear
    \/ Reopen

FrameSpec == FrameInit /\ [][FrameNext]_frameVars

-----------------------------------------------------------------------------
FrameTypeOK ==
    /\ index \in [Frames -> Extents \cup {Missing}]
    /\ size \in Nat /\ pos \in Nat /\ watermark \in Nat
    /\ written \in Nat /\ writes \in Nat
    /\ mem \in [0 .. size - 1 -> Bytes \cup {Blank}]
    /\ outgrown \subseteq Frames

\* Every frame that has a record lies in the written part of the file, and two
\* frames share a byte only if one of them was encoded again to a larger image,
\* which write_frame puts in the place of the smaller one.
Placed(f) ==
    index[f] # Missing => /\ index[f].size \in Lengths[f]
                          /\ index[f].offset + index[f].size <= watermark
Apart(f, g) ==
    index[f] # Missing /\ index[g] # Missing =>
      \/ index[f].offset + index[f].size <= index[g].offset
      \/ index[g].offset + index[g].size <= index[f].offset
FramesApart ==
    /\ watermark <= size
    /\ \A f \in Frames : Placed(f)
    /\ \A f, g \in Frames : f # g /\ {f, g} \cap outgrown = {} => Apart(f, g)

\* No two frames share a byte.  This is what write_frame means: a frame is
\* written where it was if it "has enough space" there, and elsewhere if not.
ImagesApart == \A f, g \in Frames : f # g => Apart(f, g)

\* Read back, every frame is the image stored last, with the damage FrameStore
\* allows around outgrown frames: the buffer implements the store of frames.
Store == INSTANCE FrameStore WITH image <- [f \in Frames |-> ReadFrame(f)]
ImplementsStore == Store!StoreSpec
=============================================================================
