------------------------------- MODULE MCCache -------------------------------
(***************************************************************************)
(* The index of the cache: opening its database, or the life of entries    *)
(* once it is open.  Nothing happens to entries before that.               *)
(***************************************************************************)
EXTENDS CacheIndex, IndexUpgrade, TLC

CONSTANTS k1, k2, u1, u2, o1, o2, A, B

VARIABLE part   \* "database" or "entries"

mcVars == <<cacheVars, upgradeVars, part>>

MCKeys  == {k1, k2}
MCUsers == {u1, u2}
MCIds   == {o1, o2}
MCSize  == [k \in Keys |-> IF k = k1 THEN 1 ELSE 2]
MCMounts == <<A, B>>
\* The settings of the first mount come back.
MCReturn == <<A, B, A>>

\* No database; the ones of older programs, with any of the columns that were
\* added since missing; one of a newer program.
MCFiles == {k1, k2}
MCKnown ==
    {[cache_entry |-> NoTable, old |-> NoTable, version |-> NoTable]}
    \cup { [cache_entry |-> [columns |-> c, rows |-> r], old |-> NoTable, version |-> v] :
             c \in SUBSET Added \ {Added},
             r \in [Files -> {NoRow, 0, 1}], v \in {NoTable, <<1, 95>>} }
    \cup { [cache_entry |-> [columns |-> Added, rows |-> r], old |-> NoTable, version |-> <<1, 98>>] :
             r \in [Files -> {NoRow, 0, 2}] }

Init ==
    /\ CacheInit /\ UpgradeInit /\ part \in {"database", "entries"}
    /\ part = "entries" => disk.version = NoTable /\ disk.cache_entry = NoTable
Next ==
    \/ part = "entries"  /\ CacheNext   /\ UNCHANGED <<upgradeVars, part>>
    \/ part = "database" /\ UpgradeNext /\ UNCHANGED <<cacheVars, part>>
Spec == Init /\ [][Next]_mcVars

Symmetry == Permutations(MCUsers)
\* Two threads at once on one file and within the first tick; afterwards, and
\* with two files, one thread beside the workers and the timer; two files in
\* the first mount only; a source that changes in the first mount, with one
\* file and one thread.
OneFile == row[k2] = None /\ \A u \in Users : ukey[u] # k2
Bounded ==
    /\ (\E u \in Users : upc[u] = "idle") \/ (OneFile /\ now = 1)
    /\ mount = 1 \/ OneFile
    /\ source[k2] = 0
    /\ source[k1] = 1 =>
         OneFile /\ mount = 1 /\ \E u \in Users : upc[u] = "idle"
=============================================================================
