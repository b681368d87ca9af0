---------------------------- MODULE IndexUpgrade ----------------------------
(***************************************************************************)
(* Opening the index (Cache::load_index, upgrade_db of src/src/cache.cc):  *)
(* tables are created or brought to the current structure statement by     *)
(* statement, all in one transaction.  Any statement may fail and the      *)
(* process may be killed between any two; SQLite then rolls back.          *)
(*                                                                         *)
(* A table is its columns, of which the ones that were added over time     *)
(* count, and the `finished` column of its rows.                           *)
(***************************************************************************)
EXTENDS Integers

CONSTANTS
    Files,      \* names of rows
    NoTable,
    Known,      \* databases that may be found
    MaxLoads    \* bound: attempts to open the index

VARIABLES
    disk,       \* the database as committed: [cache_entry, old, version]
    work,       \* the database as the transaction sees it
    lpc,        \* the next statement
    new, loads  \* new_database; attempts so far

upgradeVars == <<disk, work, lpc, new, loads>>

Added == {"video_frame_count", "duration", "segment_count"}

\* Result codes of a row: 0 none, 1 incomplete, 2 success, 3 error.  Before
\* video_frame_count came they were booleans.
NoRow   == -1
Results == 0..3
Tables  == [columns : SUBSET Added, rows : [Files -> Results \cup {NoRow}]]
Versions == {<<1, 0>>, <<1, 95>>, <<1, 97>>, <<1, 98>>}
DbVersion == <<1, 97>>
BaseVersion == <<1, 0>>
Databases == [cache_entry : Tables \cup {NoTable}, old : Tables \cup {NoTable},
              version : Versions \cup {NoTable}]

ASSUME UpgradeAssumption == NoTable \notin Tables \cup Versions /\ MaxLoads \in Nat
\* No database is found with a table half renamed: that was rolled back.
ASSUME KnownAssumption == Known \subseteq {db \in Databases : db.old = NoTable}

\* Column for column what the current program writes.
Current(db) == /\ db.version # NoTable /\ db.cache_entry # NoTable /\ db.old = NoTable
               /\ db.cache_entry.columns = Added

UpgradeInit ==
    /\ disk \in Known /\ work = disk
    /\ lpc = "closed" /\ new = FALSE /\ loads = 0

\* cmp_version
CmpVersion(l, r) ==
    IF l[1] > r[1] \/ (l[1] = r[1] /\ l[2] > r[2]) THEN 1
    ELSE IF l = r THEN 0 ELSE -1

\* check_min_version
CheckMinVersion(v) == CmpVersion(v, DbVersion) >= 0

Go(label) == lpc' = label
Run(db, label) == work' = db /\ Go(label) /\ UNCHANGED <<disk, new, loads>>

BeginTransaction ==
    /\ lpc = "closed" /\ loads < MaxLoads
    /\ loads' = loads + 1 /\ new' = FALSE
    /\ work' = disk /\ Go("cache_entry") /\ UNCHANGED disk

\* create_table_cache_entry
Empty == [columns |-> Added, rows |-> [f \in Files |-> NoRow]]

CreateTable ==
    /\ lpc = "cache_entry" /\ Go("version")
    /\ new' = (work.cache_entry = NoTable)
    /\ work' = (IF work.cache_entry = NoTable THEN [work EXCEPT !.cache_entry = Empty] ELSE work)
    /\ UNCHANGED <<disk, loads>>

\* A database without a version is given the current one, and upgraded if it
\* is not new.
CreateVersion ==
    /\ lpc = "version"
    /\ IF work.version = NoTable
         THEN Run([work EXCEPT !.version = DbVersion], IF new THEN "commit" ELSE "frames")
         ELSE Run(work, IF CheckMinVersion(work.version) THEN "commit" ELSE "frames")

Has(column) == column \in work.cache_entry.columns
AddColumn(column) == [work EXCEPT !.cache_entry.columns = @ \cup {column}]

\* upgrade_db
AddFrameCount ==
    /\ lpc = "frames"
    /\ IF Has("video_frame_count") THEN Run(work, "duration")
       ELSE Run(AddColumn("video_frame_count"), "rename")

\* Step 1 and 2: cache_entry becomes cache_entry_old, and is created anew.
Rename ==
    /\ lpc = "rename"
    /\ Run([work EXCEPT !.old = work.cache_entry, !.cache_entry = Empty], "copy")

\* Step 3: all columns of the new table are selected from the old one.
Copy ==
    /\ lpc = "copy" /\ work.old.columns = Added
    /\ Run([work EXCEPT !.cache_entry.rows = work.old.rows], "results")

Result(r) == IF r = 1 THEN 3 ELSE r
ConvertResults ==
    /\ lpc = "results"
    /\ Run([work EXCEPT !.cache_entry.rows = [f \in Files |-> Result(@[f])]], "drop")

\* Step 4.
DropOld ==
    /\ lpc = "drop" /\ Run([work EXCEPT !.old = NoTable], "duration")

AddDuration ==
    /\ lpc = "duration" /\ Run(AddColumn("duration"), "segments")

AddSegmentCount == lpc = "segments" /\ Run(AddColumn("segment_count"), "stamp")

UpdateVersion ==
    /\ lpc = "stamp" /\ Run([work EXCEPT !.version = DbVersion], "commit")

\* end_transaction.  Mutant: statements take effect one by one.
CommittedEarly == lpc \in {"commit", "drop"}
Committed == lpc = "commit"
EndTransaction ==
    /\ Committed
    /\ disk' = work /\ Go("prepare") /\ UNCHANGED <<work, new, loads>>

PrepareStatements ==
    /\ lpc = "prepare" /\ Current(disk)
    /\ Go("open") /\ UNCHANGED <<disk, work, new, loads>>

\* A statement fails, always if it names a column that is missing; or the
\* process ends, the index open or not.  The connection is closed.
Fail ==
    /\ lpc # "closed"
    /\ Go("closed") /\ work' = disk
    /\ UNCHANGED <<disk, new, loads>>

UpgradeNext ==
    \/ BeginTransaction \/ CreateTable \/ CreateVersion \/ AddFrameCount \/ Rename
    \/ Copy \/ ConvertResults \/ DropOld \/ AddDuration \/ AddSegmentCount
    \/ UpdateVersion \/ EndTransaction \/ PrepareStatements \/ Fail

UpgradeSpec == UpgradeInit /\ [][UpgradeNext]_upgradeVars

-----------------------------------------------------------------------------
\* Opened or not, interrupted or not, the index on disc is either as it was or
\* of the current structure, and no row is lost.
RowsOf(db) == IF db.cache_entry = NoTable THEN {}
              ELSE {f \in Files : db.cache_entry.rows[f] # NoRow}
AllOrNothing == [][disk' # disk => Current(disk') /\ RowsOf(disk') = RowsOf(disk)]_upgradeVars

\* A row of a complete file is one of a complete file after the upgrade.
ResultsKept ==
    [][ \A f \in RowsOf(disk) :
          "video_frame_count" \notin disk.cache_entry.columns /\ disk' # disk
            /\ disk.cache_entry.rows[f] = 1 => disk'.cache_entry.rows[f] = 2 ]_upgradeVars

\* An old index is upgraded unless something fails.
OldIndexUpgrades == [](lpc = "copy" => work.old.columns = Added)
=============================================================================
