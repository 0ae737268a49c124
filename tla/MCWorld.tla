------------------------------ MODULE MCWorld ------------------------------
(* Instances for TLC of a session's workspace and of the agent's git over   *)
(* it. One run explores each by itself: the initial states choose which one *)
(* moves, with which calls and within which bounds, and the others rest.    *)
(* WorldTurns' own constants are the bounds all its instances stay within.  *)
EXTENDS WorldTurns, WorldGit

CONSTANTS v1, v2, q

VARIABLE part

both == <<part, vars, gvars>>

---------------------------------------------------------------------------
(* Turns: two, with notes handed to them; code that calls back, with and    *)
(* without commits of its own; checkouts beside another workspace; folds.   *)


Noting == INSTANCE WorldTurns WITH
    Kinds <- {"write", "close"}, Within <- {}, Autocommit <- {TRUE}, Turns <- {1, 2},
    MaxCalls <- 1, MaxWrites <- 2, MaxNotes <- 3, MaxFolds <- 0, MaxOthers <- 1, MaxAttempts <- 2

Backing == INSTANCE WorldTurns WITH
    Kinds <- {"write", "code", "commit", "checkout"}, Within <- {"commit", "discard", "refresh"},
    Autocommit <- {TRUE, FALSE}, Turns <- {1},
    MaxCalls <- 3, MaxWrites <- 1, MaxNotes <- 0, MaxFolds <- 0, MaxOthers <- 1, MaxAttempts <- 2

Restoring == INSTANCE WorldTurns WITH
    Kinds <- {"write", "discard", "refresh", "checkout", "close"}, Within <- {}, Autocommit <- {TRUE},
    Turns <- {1},
    MaxCalls <- 3, MaxWrites <- 2, MaxNotes <- 0, MaxFolds <- 0, MaxOthers <- 1, MaxAttempts <- 2

Folding == INSTANCE WorldTurns WITH
    Kinds <- {"write", "commit"}, Within <- {}, Autocommit <- {TRUE}, Turns <- {1},
    MaxCalls <- 2, MaxWrites <- 2, MaxNotes <- 0, MaxFolds <- 3, MaxOthers <- 1, MaxAttempts <- 2

\* A call lands with what it wrote; a restore is of exactly the commit asked
\* for; a fold keeps the ones before it (workspace.ts, queue.ts,
\* compaction.ts).
CallsLand == CallLands /\ RestoreExact /\ FoldsKept

---------------------------------------------------------------------------
(* Git: two workspaces of one session, of which the second only saves files;*)
(* two sessions with a workspace each, and one file; one with a stash. The  *)
(* workspaces an instance leaves out rest.                                  *)

HomeOf == [w1 |-> "a", w2 |-> "a", w3 |-> "b"]

Committing == INSTANCE WorldGit WITH
    Values <- {v1}, Workspaces <- {"w1", "w2"},
    Verbs <- {"index", "commit"}, MaxCommits <- 6, MaxEdits <- 3, MaxVerbs <- 2

CheckingOut == INSTANCE WorldGit WITH
    Values <- {v1}, Workspaces <- {"w1", "w2"},
    Verbs <- {"commit", "checkout"}, MaxCommits <- 8, MaxEdits <- 3, MaxVerbs <- 3

Merging == INSTANCE WorldGit WITH
    Values <- {v1}, Workspaces <- {"w1", "w3"}, Plain <- {},
    Verbs <- {"commit", "merge"}, MaxCommits <- 8, MaxEdits <- 2, MaxVerbs <- 3

Resolving == INSTANCE WorldGit WITH
    Workspaces <- {"w1", "w3"}, Plain <- {"w3"},
    Verbs <- {"commit", "merge"}, MaxCommits <- 9, MaxEdits <- 3, MaxVerbs <- 3

Crossing == INSTANCE WorldGit WITH
    Workspaces <- {"w1", "w3"}, Plain <- {},
    Verbs <- {"commit", "merge", "checkout"}, MaxCommits <- 7, MaxEdits <- 2, MaxVerbs <- 3, MaxFails <- 0

Picking == INSTANCE WorldGit WITH
    Workspaces <- {"w1", "w3"}, Plain <- {},
    Verbs <- {"commit", "revert", "pick"}, MaxCommits <- 7, MaxEdits <- 2, MaxVerbs <- 3

Stowing == INSTANCE WorldGit WITH
    Workspaces <- {"w1"}, Plain <- {},
    Verbs <- {"commit", "stash"}, MaxCommits <- 12, MaxEdits <- 3, MaxVerbs <- 4

\* A stash merged with conflicts, which are resolved or aborted, and merged again.
Popping == INSTANCE WorldGit WITH
    Workspaces <- {"w1"}, Plain <- {},
    Verbs <- {"commit", "stash", "merge"}, MaxCommits <- 14, MaxEdits <- 4, MaxVerbs <- 6, MaxFails <- 0

\* What the proofs take of the constants, each of these has.
ASSUME SettingsAssumption ==
    /\ Setting /\ Committing!Setting /\ CheckingOut!Setting
    /\ Merging!Setting /\ Resolving!Setting /\ Crossing!Setting /\ Picking!Setting
    /\ Stowing!Setting /\ Popping!Setting

OneFile == part \in {"merge", "resolve", "cross", "pick", "stash", "pop"}

---------------------------------------------------------------------------
WorldInit ==
    /\ part \in {"notes", "calls", "restores", "folds", "commit", "checkout",
                 "merge", "resolve", "cross", "pick", "stash", "pop"}
    /\ Init /\ (part # "calls" => autocommit = TRUE)
    /\ GInit

WorldNext ==
    /\ \/ /\ \/ part = "notes" /\ Noting!Next
             \/ part = "calls" /\ Backing!Next
             \/ part = "restores" /\ Restoring!Next
             \/ part = "folds" /\ Folding!Next
          /\ UNCHANGED gvars
       \/ /\ \/ part = "commit" /\ Committing!GNext
             \/ part = "checkout" /\ CheckingOut!GNext
             \/ part = "merge" /\ Merging!GNext
             \/ part = "resolve" /\ Resolving!GNext
             \/ part = "cross" /\ Crossing!GNext
             \/ part = "pick" /\ Picking!GNext
             \/ part = "stash" /\ Stowing!GNext
             \/ part = "pop" /\ Popping!GNext
          /\ OneFile => \A w \in Workspaces : q \notin DOMAIN files'[w]
          /\ UNCHANGED vars
    /\ UNCHANGED part

WorldSpec == WorldInit /\ [][WorldNext]_both
=============================================================================
