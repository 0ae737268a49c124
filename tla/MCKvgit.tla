------------------------------ MODULE MCKvgit ------------------------------
(* Instances for TLC of what kvgit builds on commits (worktrees and sync)   *)
(* and of what commits are built on (trees and the stores they are kept in).*)
(* One run explores each by itself: the initial states choose which one     *)
(* moves, with which calls and within which bounds, and the others rest.    *)
EXTENDS KvSync, KvWorktree, TLC

CONSTANTS a1, a2, b1, k1, k2, k3, k4

VARIABLES part,
    nodes, handles, map, lru, bytes, made,
    data, ops, txs, tx, writer, work,
    version, stores, requests, conns, at, blocked

trees == <<nodes, handles, map, lru, bytes, made>>
backends == <<data, ops, txs, tx, writer, work>>
opening == <<version, stores, requests, conns, at, blocked>>

---------------------------------------------------------------------------
(* Worktrees: two that commit and merge what the other wrote; merges of any *)
(* commit held; and resets, refreshes and a deleted branch.                 *)

Committing == INSTANCE KvWorktree WITH
    Rules <- {"none", "fn"}, Acts <- {"commit"}, MaxAsked <- 2, MaxBuilt <- 3

Merging == INSTANCE KvWorktree WITH
    Rules <- {"none", "theirs"}, Acts <- {"commit", "merge"}, MaxWrites <- 1, MaxBuilt <- 3

Moving == INSTANCE KvWorktree WITH
    Rules <- {"none"}, Acts <- {"commit", "refresh", "reset", "drop"}, MaxWrites <- 1, MaxBuilt <- 2

---------------------------------------------------------------------------
(* Sync: two devices that sync, lose calls and sweep; a remote's branch     *)
(* deleted; two tabs of one store that push, forget and delete.             *)

HomeOf == [t \in {a1, a2, b1} |-> IF t = b1 THEN "B" ELSE "A"]

Syncing == INSTANCE KvSync WITH Kinds <- {"commit", "sync", "crash"}, MaxCommits <- 3, MaxCalls <- 2

Sweeping == INSTANCE KvSync WITH Kinds <- {"commit", "pull", "push", "sweep", "drop"}, MaxCommits <- 2, MaxCalls <- 2

Deleting == INSTANCE KvSync WITH Kinds <- {"commit", "push", "delete"}, MaxCommits <- 2, MaxCalls <- 3

Forgetting == INSTANCE KvSync WITH Kinds <- {"push", "unless", "forget"}, MaxCommits <- 1, MaxCalls <- 3

---------------------------------------------------------------------------
(* Trees: two handles, buckets of one and two, of keys of which two have    *)
(* one hash and a third all but its last nibble; and the cache over them.   *)

Hashes == (k1 :> <<0, 0>>) @@ (k2 :> <<0, 1>>) @@ (k3 :> <<0, 0>>) @@ (k4 :> <<1, 0>>)

Buckets == INSTANCE KvHamt WITH store <- nodes, held <- map, updates <- made, Keys <- {k1, k2, k3, k4},
    Values <- {1}, Hash <- Hashes, HashLen <- 2, BucketMax <- 1, Handles <- {1, 2}, Removed <- Absent,
    MaxBytes <- 0, MaxUpdates <- 3

Pairs == INSTANCE KvHamt WITH store <- nodes, held <- map, updates <- made, Keys <- {k1, k2, k4},
    Values <- {1, 2}, Hash <- Hashes, HashLen <- 2, BucketMax <- 2, Handles <- {1, 2}, Removed <- Absent,
    MaxBytes <- 4, MaxUpdates <- 2

TreesTrue ==
    /\ Buckets!SameRoot /\ Buckets!TreesWhole
    /\ part = "buckets" => Buckets!ReadsTrue /\ Buckets!CacheTrue
    /\ part = "pairs" => Pairs!ReadsTrue /\ Pairs!CacheTrue

---------------------------------------------------------------------------
(* Stores: three callers of one IndexedDB store, and three processes of one *)
(* SQLite file; tabs that open, share, upgrade and delete a database.       *)

Callers == {a1, a2, b1}
Puts(expected, puts) == [kind |-> "batch", expected |-> expected, puts |-> puts]
Asked == {
    Puts(<<>>, k1 :> 1), Puts(<<>>, (k1 :> 2) @@ (k2 :> 1)), Puts(k1 :> Absent, k1 :> 1),
    Puts((k1 :> 1) @@ (k2 :> Absent), (k1 :> Absent) @@ (k2 :> 2)), [kind |-> "read", keys |-> {k1, k2}]}

Idb == INSTANCE KvIdb WITH calls <- ops, queue <- txs, Keys <- {k1, k2}, Ops <- Asked

Sqlite == INSTANCE KvSqlite WITH calls <- ops, NoOne <- None, Keys <- {k1, k2}, Ops <- Asked

Store == INSTANCE KvStore WITH calls <- ops, Keys <- {k1, k2}, Ops <- Asked

Ranges == INSTANCE KvPrefix WITH MaxChar <- 4, Surrogates <- {2}, Replacement <- 3, MaxLength <- 2

Opening == INSTANCE KvIdbOpen WITH Tabs <- Callers, Want <- Home,
    Current <- 0, Delete <- 9, MaxVersion <- 3

\* Both backends are the store kvgit asks for: a batch lands whole, at one
\* moment of its call, where all it expected held, or not at all (types.ts,
\* idb.ts, sqlite.ts).
StoresTrue == Store!Init /\ [][(part \in {"idb", "sqlite"}) => Store!Next]_<<data, ops>>

\* One map has one root; its nodes are all there, and no others are kept;
\* reads, walks and differences are the map's; the cache keeps its bound
\* (hamt.ts).  A tab's object store is there while the tab holds it, an open
\* that was given up leaves no connection behind, and none waits for a
\* request that isn't there (idb.ts, open, openDatabase); and a scan sees the
\* keys that start with its prefix, and no others.
StorageTrue ==
    /\ part \in {"buckets", "pairs"} => TreesTrue
    /\ Ranges!RangesExact
    /\ Opening!OpenHasStore /\ Opening!GaveUpHoldsNothing /\ Opening!OpensAwaited

---------------------------------------------------------------------------
KvgitInit ==
    /\ part \in {"commit", "merge", "move", "sync", "sweep", "delete", "forget",
                 "buckets", "pairs", "idb", "sqlite", "opening"}
    /\ WInit
    /\ Init
    /\ part \notin {"sync", "sweep", "delete", "forget"} => head["A"] = 1 /\ head["B"] = 1 /\ mark # {}
    /\ Buckets!Init
    /\ Idb!IdbInit
    /\ Sqlite!SqliteInit
    /\ Opening!Init

KvgitNext ==
    /\ \/ /\ \/ part = "commit" /\ Committing!WNext
             \/ part = "merge" /\ Merging!WNext
             \/ part = "move" /\ Moving!WNext
          /\ UNCHANGED <<vars, trees, backends, opening>>
       \/ /\ \/ part = "sync" /\ Syncing!Next
             \/ part = "sweep" /\ Sweeping!Next
             \/ part = "delete" /\ Deleting!Next
             \/ part = "forget" /\ Forgetting!Next
          /\ UNCHANGED <<wvars, trees, backends, opening>>
       \/ /\ \/ part = "buckets" /\ Buckets!Next
             \/ part = "pairs" /\ Pairs!Next
          /\ UNCHANGED <<wvars, vars, backends, opening>>
       \/ /\ \/ part = "idb" /\ Idb!IdbNext /\ UNCHANGED <<writer, work>>
             \/ part = "sqlite" /\ Sqlite!SqliteNext /\ UNCHANGED <<txs, tx>>
          /\ UNCHANGED <<wvars, vars, trees, opening>>
       \/ /\ part = "opening" /\ Opening!Next
          /\ UNCHANGED <<wvars, vars, trees, backends>>
    /\ UNCHANGED part

KvgitSpec == KvgitInit /\ [][KvgitNext]_<<part, wvars, vars, trees, backends, opening>>

\* Worktrees are interchangeable, and so are keys, and the tabs of one store.
Symmetry == Permutations(Trees) \cup Permutations(Keys) \cup Permutations({a1, a2})
=============================================================================
