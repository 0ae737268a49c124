------------------------------ MODULE MCKvLog ------------------------------
(* Instances of KvLog and KvEpoch for TLC. One run explores eight of them,  *)
(* which its initial states choose between: within one epoch, three         *)
(* transactions in copies that rebase and sync, a conflict settled for      *)
(* either side, commits and file writes that fail, checkpoints restored,    *)
(* and files closed; between epochs, two taken with steps that fail, one    *)
(* that another device goes on writing while it is adopted, and one that    *)
(* another device starts.                                                   *)
EXTENDS KvLog

VARIABLES does,
    entries, branch, synced, moving, peer, sql, beside, at, shot, own, other, kills

epochs == <<entries, branch, synced, moving, peer, sql, beside, at, shot, own, other, kills>>

Racing == INSTANCE KvLog WITH Ops <- {"rebase", "sync"}, MaxCrashes <- 0
Keeping == INSTANCE KvLog WITH Ops <- {"schema", "rebase", "keep", "sync"}, MaxTx <- 2
Failing == INSTANCE KvLog WITH Ops <- {"schema", "rebase", "sync", "fail"},
                               MaxTx <- 2, MaxCommits <- 3
Restoring == INSTANCE KvLog WITH Ops <- {"restore", "sync"},
                                 MaxTx <- 2, MaxCommits <- 3, MaxCrashes <- 0
Closing == INSTANCE KvLog WITH Ops <- {"schema", "close", "sync"}, MaxTx <- 2, MaxCommits <- 2

Taking == INSTANCE KvEpoch WITH Does <- {"epoch", "fail"},
    MaxEpoch <- 2, MaxOwn <- 2, MaxOther <- 0, MaxCommits <- 5, MaxCrashes <- 2,
    commit <- entries, temp <- moving, remote <- peer, file <- sql, pc <- at, crashes <- kills
Adopting == INSTANCE KvEpoch WITH Does <- {"epoch", "other", "adopt"},
    MaxEpoch <- 2, MaxOwn <- 1, MaxOther <- 2, MaxCommits <- 8, MaxCrashes <- 0,
    commit <- entries, temp <- moving, remote <- peer, file <- sql, pc <- at, crashes <- kills
Following == INSTANCE KvEpoch WITH Does <- {"epoch", "other", "otherepoch"},
    MaxEpoch <- 2, MaxOwn <- 1, MaxOther <- 1, MaxCommits <- 6, MaxCrashes <- 1,
    commit <- entries, temp <- moving, remote <- peer, file <- sql, pc <- at, crashes <- kills

InEpoch == {"race", "keep", "fail", "restore", "close"}
Between == {"take", "adopt", "follow"}

MCInit == Init /\ Taking!Init /\ does \in InEpoch \cup Between
MCNext ==
    \/ /\ \/ does = "race" /\ Racing!Next
          \/ does = "keep" /\ Keeping!Next
          \/ does = "fail" /\ Failing!Next
          \/ does = "restore" /\ Restoring!Next
          \/ does = "close" /\ Closing!Next
       /\ UNCHANGED <<epochs, does>>
    \/ /\ \/ does = "take" /\ Taking!Next
          \/ does = "adopt" /\ Adopting!Next
          \/ does = "follow" /\ Following!Next
       /\ UNCHANGED <<vars, does>>
MCSpec == MCInit /\ [][MCNext]_<<vars, does, epochs>>

\* A file holds exactly what the log says up to its position, and then its
\* pending transactions; what a call has landed stays, and is there once,
\* whatever was flushed, rebased, restored or cut short (log.ts).
RowsTrue == TypeOK /\ FileIsLog /\ NothingLost /\ OnceEach

\* However a new epoch is taken, moved to, dropped, followed or adopted, with
\* a crash or a failure between any two steps, the file is what its log says,
\* each of the device's transactions is in it once or waits in an older epoch
\* of the remote, a file cut short can be rebuilt whole, and none is refused
\* (epoch.ts, prepareFile; log.ts, #runEpoch).
EpochsTrue ==
    /\ does = "take" => Taking!TypeOK
    /\ does = "adopt" => Adopting!TypeOK
    /\ does = "follow" => Following!TypeOK
    /\ Taking!FileIsLog /\ Taking!OwnKept /\ Taking!Rebuildable /\ Taking!NeverRefused

\* A checkpoint restored is the log as it was (log.ts, restore), and no epoch
\* goes before all it holds is in the file (log.ts, #tidy, #dropEpoch).
LogMovesKept == RestoreExact /\ Taking!EpochsHeld

Symmetry == Permutations(Copies) \cup Permutations(Rows \ {Schema})
============================================================================
