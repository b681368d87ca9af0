------------------------------ MODULE FuseOps ------------------------------
(***************************************************************************)
(* The FUSE operations and their table of virtual files (fuseops.cc), with *)
(* the parsers that fill it: cue sheets (cuesheetparser.cc) and discs      *)
(* (dvdparser.cc, blurayparser.cc, vcdparser.cc).                          *)
(*                                                                         *)
(* A name is a sequence: its stem and its extensions, <<"a", "wav">>.  A   *)
(* path is a directory and a name in it, and a directory is the sequence   *)
(* of the names that lead to it.  The mounted directory holds media files  *)
(* and one directory with a disc.  What a file contains, and what libcue,  *)
(* libdvdread, libbluray and the VCD reader find in it, is given (Media,   *)
(* Titles).  A handler is one step.                                        *)
(***************************************************************************)
EXTENDS Naturals, Sequences, SequencesExt, FiniteSets, TLC

CONSTANTS
    Files,      \* the names files of the mounted directory may have, in their order
    Media,      \* what each contains: parses, audio, video, guess, cue
    Mounts,     \* the settings a mount may have
    Titles,     \* the titles and chapters of the disc, in the order they are found
    Members,    \* the numbers of the frames or segments of a set, as strings
    Tracks,     \* the names of the tracks of a cue sheet
    AudioOnly,  \* the formats without video codec
    MaxHandles  \* bound: files open at once

VARIABLES
    mount,      \* the settings (multi, video, audio, recode, oldNames, script), the names
                \* of files that may exist, and whether there is a disc
    files,      \* the files that exist
    filenames,  \* path -> virtual file
    rfilenames, \* source path -> virtual file (a copy)
    listing,    \* what readdir returned last for a directory; forgotten when files change
    handles,    \* files opened: path and the cache entry in fi->fh
    sized       \* tracks whose size the cache index knows; of no other file does it matter

fuseVars == <<mount, files, filenames, rfilenames, listing, handles, sized>>

FileSet == {Files[i] : i \in 1..Len(Files)}
Root    == <<>>
DiscDir == <<"disc">>
NoEntry == [at |-> Root, name |-> Root]

Path(dir, name) == [at |-> dir, name |-> name]
AsDir(p)        == p.at \o p.name
Ext(name)       == IF Len(name) > 1 THEN name[Len(name)] ELSE ""
Stem(name)      == IF Len(name) > 1 THEN SubSeq(name, 1, Len(name) - 1) ELSE name

ReplaceExt(name, ext) == Append(Stem(name), ext)
AppendExt(name, ext)  == IF Ext(name) = ext THEN name ELSE Append(name, ext)

Smart      == mount.audio # "" /\ mount.audio # mount.video
Format(i)  == IF i = 0 THEN mount.video ELSE mount.audio
Multi      == mount.multi # "single"
NewName(name, i) ==
    IF mount.oldNames THEN ReplaceExt(name, Format(i)) ELSE AppendExt(name, Format(i))

\* Flags of a file that became a directory.
DirFlags == {"fileset", "directory"} \cup
            (CASE mount.multi = "frames" -> {"frame"} [] mount.multi = "hls" -> {"hls"} [] OTHER -> {})

-----------------------------------------------------------------------------
(***************************************************************************)
(* The table: t is the pair of both maps.  insert never replaces an entry. *)
(***************************************************************************)
Table == [dest |-> filenames, src |-> rfilenames]

Entry(type, orig, flags, idx, parsed) ==
    [type |-> type, orig |-> orig, flags |-> flags, idx |-> idx, parsed |-> parsed, part |-> FALSE]

Emplace(map, key, value) == IF key \in DOMAIN map THEN map ELSE (key :> value) @@ map
Insert(t, p, e) == [dest |-> Emplace(t.dest, p, e), src |-> Emplace(t.src, e.orig, e)]

Guess(p)  == IF Smart /\ p.name \in FileSet THEN Media[p.name].guess ELSE 0
InsertFile(t, type, p, orig, flags) == Insert(t, p, Entry(type, orig, flags, Guess(orig), FALSE))
InsertDir(t, type, p, flags)        == InsertFile(t, type, p, p, flags \cup DirFlags)

\* A track or a title: a file, or a directory for a set.
InsertPart(t, type, p, orig, flags) ==
    IF Multi THEN InsertDir(t, type, p, flags) ELSE InsertFile(t, type, p, orig, flags)

InDir(t, dir)  == {p \in DOMAIN t.dest : p.at = dir}
ParentWithSep(t, p) == {q \in DOMAIN t.dest : AsDir(q) = Append(p.at, "")}
ParentOf(t, p) == {q \in DOMAIN t.dest : AsDir(q) = p.at}

\* get_format: the format of a known source is the one it is known with;
\* another is opened and looked at.  1 is for what has audio alone.
FormatIdx(t, name) ==
    LET known == Path(Root, name) \in DOMAIN t.src IN
    IF known THEN t.src[Path(Root, name)].idx
    ELSE IF Smart /\ ~Media[name].video THEN 1 ELSE 0
HasFormat(t, name) ==
    /\ name \in FileSet
    /\ \/ Path(Root, name) \in DOMAIN t.src
       \/ /\ Media[name].parses
          /\ Smart => Media[name].video \/ Media[name].audio

\* virtual_name: the name under which a source is offered is entered in the table.
Virtual(t, name) ==
    LET src   == Path(Root, name)
        known == src \in DOMAIN t.src
        new   == NewName(name, FormatIdx(t, name))
        clash == IF new \in files
                 THEN (IF mount.recode THEN {} ELSE {"passthrough"}) \cup (IF Multi THEN DirFlags ELSE {})
                 ELSE {} IN
    Insert(t, Path(Root, new),
           Entry("disk", src, clash, IF known THEN 0 ELSE FormatIdx(t, name), ~known))

\* find_original: by name, or else (files, and frame sets) a source next to it
\* to whose name only the extension of the format was added.
Fallback(t, p) ==
    /\ p \notin DOMAIN t.dest
    /\ mount.multi # "hls"
    /\ Ext(p.name) = mount.video \/ (Smart /\ Ext(p.name) = mount.audio)
    /\ p.at = Root /\ Stem(p.name) \in files
Found(t, p) ==
    IF Fallback(t, p) THEN InsertFile(t, "disk", p, Path(Root, Stem(p.name)), {}) ELSE t

-----------------------------------------------------------------------------
(***************************************************************************)
(* Cue sheets, discs, sets and the virtual script.                         *)
(***************************************************************************)
TrackDir(name) == AppendExt(name, "tracks")
InsertTrack(t, name, track) ==
    LET p  == Path(TrackDir(name), Append(track, Format(t.src[Path(Root, name)].idx)))
        t1 == InsertPart(t, "disk", p, Path(Root, name), {"cuesheet"})
        e  == [t1.dest[p] EXCEPT !.idx = t.src[Path(Root, name)].idx,
                                 !.part = @ \/ p \notin sized] IN
    [t1 EXCEPT !.dest[p] = e]
ParseCuesheet(t, name) ==
    FoldLeft(LAMBDA u, track : InsertTrack(u, name, track),
             InsertDir(t, "disk", Path(Root, TrackDir(name)), {"cuesheet"}), Tracks)

\* A cue sheet file is parsed once; an embedded one each time, when the
\* file itself was looked at.
HasCue(t, name) ==
    /\ Path(Root, name) \in DOMAIN t.src /\ name \in files
    /\ \/ Media[name].cue = "file"
       \/ Media[name].cue = "embedded" /\ t.src[Path(Root, name)].parsed
CheckCuesheet(t, name) ==
    IF ~HasCue(t, name) \/ (Media[name].cue = "file" /\ InDir(t, TrackDir(name)) # {})
    THEN t ELSE ParseCuesheet(t, name)

\* A disc is parsed unless the table has a file in its directory; reading it
\* may stop on an error after n titles.
TitlePath(i)   == Path(DiscDir, Append(Titles[i], mount.video))
ParseDisc(t, n) ==
    FoldLeft(LAMBDA u, i : InsertPart(u, "disc", TitlePath(i), TitlePath(i), {}),
             t, [i \in 1..n |-> i])
DiscKnown(t) == InDir(t, DiscDir) # {}
DiscFiles(t) == {p.name : p \in {q \in InDir(t, DiscDir) : t.dest[q].type = "disc"}}

\* The members of a set, with the playlists and the page of a set of segments.
MemberPath(dir, m) == Path(dir, <<m, mount.video>>)
Playlists == IF mount.multi = "hls"
             THEN {<<"master", "m3u8">>, <<"index_0_av", "m3u8">>, <<"hls", "html">>} ELSE {}
MemberFlag == IF mount.multi = "hls" THEN "hls" ELSE "frame"
MakeSetPlain(t, dir, type) ==
    FoldLeft(LAMBDA u, m : InsertFile(u, type, MemberPath(dir, m), MemberPath(dir, m), {}), t, Members)
MakeSet(t, dir, type) ==
    LET members == FoldLeft(LAMBDA u, m : InsertFile(u, type, MemberPath(dir, m), MemberPath(dir, m), {MemberFlag}),
                            t, Members) IN
    FoldLeft(LAMBDA u, n : InsertFile(u, "script", Path(dir, n), Path(dir, n), {}),
             members, SetToSeq(Playlists))
SetNames == {<<Members[i], mount.video>> : i \in 1..Len(Members)} \cup Playlists

ScriptPath(dir) == Path(dir, <<"index", "php">>)
WithScript(t, dir) ==
    IF mount.script THEN InsertFile(t, "script", ScriptPath(dir), ScriptPath(dir), {}) ELSE t
ScriptName == IF mount.script THEN {<<"index", "php">>} ELSE {}

-----------------------------------------------------------------------------
SetTable(t) == filenames' = t.dest /\ rfilenames' = t.src
ListAs(dir, names) ==
    listing' = (dir :> names) @@ listing

\* One file of a directory.  A target without video hides a source that is
\* known to have no audio.
Hides(t, name) ==
    /\ Format(FormatIdx(t, name)) \in AudioOnly
    /\ ~(t.src[Path(Root, name)].parsed /\ Media[name].audio)
ListFile(acc, name) ==
    LET t == acc.t
        v == Virtual(t, name)
        c == CheckCuesheet(v, name)
        new == NewName(name, FormatIdx(t, name)) IN
    IF name \notin files THEN acc
    ELSE IF ~HasFormat(t, name) THEN [acc EXCEPT !.names = @ \cup {name}]
    ELSE IF Hides(v, name) THEN [acc EXCEPT !.t = v]
    ELSE [t     |-> IF Multi THEN InsertFile(c, "disk", Path(Root, name), Path(Root, name), DirFlags) ELSE c,
          names |-> acc.names \cup {IF Multi THEN name ELSE new}
                    \cup (IF HasCue(v, name) THEN {TrackDir(name)} ELSE {})]

\* readdir of the mounted directory.
ReaddirRoot ==
    LET r == FoldLeft(ListFile, [t |-> WithScript(Table, Root), names |-> ScriptName], Files) IN
    /\ SetTable(r.t)
    /\ ListAs(Root, r.names)
    /\ UNCHANGED <<mount, files, handles, sized>>

\* readdir of the directory of the disc: the disc is looked for after the
\* script was entered.
ReaddirDisc ==
    LET t == WithScript(Table, DiscDir) IN
    /\ mount.disc
    /\ \/ /\ DiscKnown(t)
          /\ SetTable(t)
          /\ ListAs(DiscDir, ScriptName \cup DiscFiles(t))
       \/ /\ ~DiscKnown(t)
          /\ \E n \in 0..Len(Titles) :
                /\ SetTable(ParseDisc(t, n))
                /\ IF n = Len(Titles)
                   THEN ListAs(DiscDir, ScriptName \cup DiscFiles(ParseDisc(t, n)))
                   ELSE UNCHANGED listing    \* the error is returned
    /\ UNCHANGED <<mount, files, handles, sized>>

\* readdir of a virtual directory: a set, or the tracks of a cue sheet.
ReaddirVirtual(p) ==
    LET t == WithScript(Table, AsDir(p))
        e == t.dest[p] IN
    /\ "fileset" \in e.flags
    /\ IF Multi
       THEN /\ SetTable(MakeSet(t, AsDir(p), e.type))
            /\ ListAs(AsDir(p), SetNames \cup ScriptName)
       ELSE /\ SetTable(t)
            /\ ListAs(AsDir(p), ScriptName \cup
                      {q.name : q \in {x \in InDir(t, AsDir(p)) : "cuesheet" \in t.dest[x].flags}})
    /\ UNCHANGED <<mount, files, handles, sized>>

-----------------------------------------------------------------------------
(***************************************************************************)
(* getattr.  Its result is [ok, t]: the attributes are found or not, and   *)
(* the table after it.                                                     *)
(***************************************************************************)
Result(ok, t) == [ok |-> ok, t |-> t]

\* The size of a virtual file is asked of the cache, which opens the source;
\* one without audio is hidden if that is all the target takes.
SizeOf(t, p) ==
    LET e == t.dest[p] IN
    IF /\ e.orig.name \in FileSet /\ Format(e.idx) \in AudioOnly
       /\ ~Media[e.orig.name].audio /\ p \notin sized
    THEN Result(FALSE, [t EXCEPT !.dest[p].flags = @ \cup {"hidden"}])
    ELSE Result(TRUE, t)

\* A source that is not in the table.
AttrSource(t, p) ==
    IF ~HasFormat(t, p.name) THEN Result(TRUE, t)
    ELSE LET v == Virtual(t, p.name) IN
         IF Multi THEN Result(TRUE, InsertFile(v, "disk", p, p, DirFlags)) ELSE Result(TRUE, v)

\* A path that is neither in the table nor on the disk: a title of a disc not
\* read so far, a member of a set, or the tracks of a cue sheet.  For those
\* the table is asked with the new name of the source.
AttrMissing(t, p, n) ==
    LET t1   == IF mount.disc /\ p.at = DiscDir /\ ~DiscKnown(t) THEN ParseDisc(t, n) ELSE t
        name == Stem(p.name)
        t2   == IF p.at = Root /\ Ext(p.name) = "tracks" /\ HasFormat(t1, name)
                THEN LET v == Virtual(t1, name) IN
                     IF NewName(name, FormatIdx(t1, name)) = name THEN CheckCuesheet(v, name) ELSE v
                ELSE t1
        sets == {q \in ParentOf(t2, p) : {"fileset", "directory"} \subseteq t2.dest[q].flags}
        t3   == IF Multi /\ sets # {} THEN MakeSet(t2, p.at, t2.dest[CHOOSE q \in sets : TRUE].type) ELSE t2 IN
    Result(p \in DOMAIN t3.dest, t3)

Lookup(table, p, n) ==
    LET t == Found(table, p) IN
    IF p \in DOMAIN t.dest
    THEN LET e == t.dest[p]
             gone == ~(e.orig.at = Root /\ e.orig.name \in files) IN
         IF "hidden" \in e.flags THEN Result(FALSE, t)
         ELSE IF "passthrough" \in e.flags /\ ~gone THEN Result(TRUE, t)
         ELSE IF e.type # "disk" \/ e.flags \cap {"frame", "hls", "directory", "cuesheet"} # {} THEN Result(TRUE, t)
         ELSE IF gone THEN Result(FALSE, t)
         ELSE SizeOf(t, p)
    ELSE IF p.at = Root /\ p.name \in files THEN AttrSource(t, p)
    ELSE AttrMissing(t, p, n)

\* The kernel asks for a path that it was told of, or that a user typed.
Askable ==
    {Path(Root, f) : f \in mount.names}
    \cup {Path(Root, NewName(f, i)) : f \in mount.names, i \in {0, 1}}
    \cup {Path(Root, TrackDir(f)) : f \in {g \in mount.names : Media[g].cue # "none"}}
    \cup {TitlePath(i) : i \in IF mount.disc THEN 1..Len(Titles) ELSE {}}
    \cup UNION {{MemberPath(AsDir(p), Members[i]) : i \in 1..Len(Members)} :
                   p \in {q \in DOMAIN filenames : Multi /\ "fileset" \in filenames[q].flags}}
    \cup DOMAIN filenames

Getattr(p) ==
    /\ \E n \in 0..Len(Titles) : SetTable(Lookup(Table, p, n).t)
    /\ UNCHANGED <<mount, files, listing, handles, sized>>

-----------------------------------------------------------------------------
(***************************************************************************)
(* open, read and release of what getattr found.                           *)
(***************************************************************************)
IsMember(e) == e.flags \cap {"frame", "hls"} # {} /\ "directory" \notin e.flags

\* The cache entry an open of p keeps: the one of the file or of its set.
\* Passthrough files and scripts need none.
EntryOf(t, p) ==
    LET e == t.dest[p] IN
    IF p \notin DOMAIN t.dest \/ "passthrough" \in e.flags \/ e.type = "script" THEN NoEntry
    ELSE IF e.flags \cap {"frame", "hls"} # {}
    THEN IF ParentOf(t, p) = {} THEN NoEntry ELSE CHOOSE q \in ParentOf(t, p) : TRUE
    ELSE IF "fileset" \in e.flags THEN NoEntry ELSE p

\* What read does with a handle: bytes of the source, of the script, of the
\* cache - or nothing, without an error, if there is no entry.
ReadOf(t, h) ==
    CASE h.path \notin DOMAIN t.dest                   -> "source"
      [] "passthrough" \in t.dest[h.path].flags        -> "source"
      [] t.dest[h.path].type = "script"                -> "script"
      [] OTHER -> IF h.entry = NoEntry THEN "nothing" ELSE "cache"

\* The track after this one is started as well, if the tracks know each other.
KickNext(t, p) ==
    {q \in DOMAIN t.dest : \E i \in 1..(Len(Tracks) - 1) :
        /\ p.at = q.at /\ t.dest[p].part /\ t.dest[q].part
        /\ p.name[1] = Tracks[i][1] /\ q.name[1] = Tracks[i + 1][1]}

\* The kernel asks for the attributes before it opens.  A file that the cache
\* has completed gets a row in its index, with the size.
Open(p) ==
    LET r == Lookup(Table, p, Len(Titles)) IN
    /\ Cardinality(handles) < MaxHandles /\ p \notin {h.path : h \in handles}
    /\ r.ok /\ r.t = Table
    /\ p \in DOMAIN filenames => "directory" \notin filenames[p].flags
    /\ handles' = handles \cup {[path |-> p, entry |-> EntryOf(Table, p)]}
    /\ \E done \in SUBSET (IF EntryOf(Table, p) = p THEN {p} \cup KickNext(Table, p) ELSE {}) :
          sized' = sized \cup {q \in done : "cuesheet" \in filenames[q].flags}
    /\ UNCHANGED <<mount, files, filenames, rfilenames, listing>>

Release(h) ==
    /\ handles' = handles \ {h}
    /\ UNCHANGED <<mount, files, filenames, rfilenames, listing, sized>>

-----------------------------------------------------------------------------
\* A user of the mounted directory adds or removes a file.
Change(f) ==
    /\ files' = IF f \in files THEN files \ {f} ELSE files \cup {f}
    /\ listing' = <<>>
    /\ UNCHANGED <<mount, filenames, rfilenames, handles, sized>>

\* Unmounted and mounted again: only the index of the cache is kept.
Remount ==
    /\ handles = {}
    /\ filenames' = <<>> /\ rfilenames' = <<>> /\ listing' = <<>>
    /\ UNCHANGED <<mount, files, handles, sized>>

FuseInit ==
    /\ mount \in Mounts /\ files \in SUBSET mount.names
    /\ filenames = <<>> /\ rfilenames = <<>> /\ listing = <<>>
    /\ handles = {} /\ sized = {}

FuseNext ==
    \/ ReaddirRoot
    \/ ReaddirDisc
    \/ \E p \in DOMAIN filenames : ReaddirVirtual(p)
    \/ \E p \in Askable : Getattr(p) \/ Open(p)
    \/ \E h \in handles : Release(h)
    \/ \E f \in mount.names : Change(f)
    \/ Remount

FuseSpec == FuseInit /\ [][FuseNext]_fuseVars

-----------------------------------------------------------------------------
(***************************************************************************)
(* Properties.                                                             *)
(***************************************************************************)
VirtualFile == [type : {"disk", "script", "disc"}, orig : [at : Seq(STRING), name : Seq(STRING)],
                flags : SUBSET {"passthrough", "fileset", "directory", "frame", "hls", "cuesheet", "hidden"},
                idx : {0, 1}, parsed : BOOLEAN, part : BOOLEAN]

\* The table maps names to virtual files, and every source it knows is the
\* source of one of them.
FuseTypeOK ==
    /\ \A p \in DOMAIN filenames : filenames[p] \in VirtualFile
    /\ \A p \in DOMAIN rfilenames : rfilenames[p] \in VirtualFile /\ rfilenames[p].orig = p
    /\ {filenames[p].orig : p \in DOMAIN filenames} \subseteq DOMAIN rfilenames
    /\ Cardinality(handles) <= MaxHandles

\* Whatever readdir listed, getattr finds, in whichever order the operations
\* came before and as long as no file is added or removed (the table is filled
\* by readdir, getattr and the parsers, which must agree on names and flags).
ListedFound ==
    \A dir \in DOMAIN listing :
        \A name \in listing[dir] : Lookup(Table, Path(dir, name), 0).ok

\* A file that could be opened can be read: a member of a set has found its
\* set, and its read does not end silently for want of a cache entry.
ReadsReachData == \A h \in handles : ReadOf(Table, h) # "nothing"

(***************************************************************************)
(* What comments of the code say and the code does not do.                 *)
(***************************************************************************)
\* A source with an audio stream is listed (fuseops.cc:403-405).
AudioListed ==
    Root \in DOMAIN listing /\ ~Multi =>
    \A f \in files :
        Media[f].parses /\ Media[f].audio =>
        \E i \in {0, 1} : NewName(f, i) \in listing[Root]

\* The guess of a format is made final later (fuseops.cc:1673).
FormatByContent ==
    \A p \in DOMAIN filenames :
        LET e == filenames[p] IN
        e.orig.at = Root /\ e.orig.name \in FileSet /\ Smart /\ Media[e.orig.name].parses
        => e.idx = IF Media[e.orig.name].video THEN 0 ELSE 1

\* Every title of a disc is listed once it was read without an error.
DiscListed ==
    DiscDir \in DOMAIN listing => \A i \in 1..Len(Titles) : TitlePath(i).name \in listing[DiscDir]

\* A track of a cue sheet knows where in its source it begins.
TrackKnowsPart ==
    \A p \in DOMAIN filenames :
        "cuesheet" \in filenames[p].flags /\ p.at # Root => filenames[p].part

\* A file that is passed through is the file of that name (fuseops.cc:637).
OwnNameServed ==
    \A p \in DOMAIN filenames : "passthrough" \in filenames[p].flags => filenames[p].orig = p
=============================================================================
