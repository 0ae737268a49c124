------------------------------ MODULE KvEpoch ------------------------------
(* The epochs of a kvsql database's log (kvsql/src/epoch.ts, log.ts).       *)
(*                                                                          *)
(* A log is a series of branches: epoch n+1 starts with a snapshot of the   *)
(* database at some point of epoch n, and the branch of epoch n goes once   *)
(* the file has moved, unless it syncs. One device's file and repository,   *)
(* which may crash between any two steps, and a remote to which another     *)
(* device goes on writing an old epoch, or starts a new one. The device     *)
(* pulls, moves to the other's epoch with what is its own, and takes into   *)
(* its epoch what reached an older one (adopt).                             *)
(*                                                                          *)
(* Within an epoch the log is as in KvLog, whose steps are one here; a      *)
(* transaction is who made it and its number, and conflicts are a choice.   *)
EXTENDS Naturals, Sequences, FiniteSets, FiniteSetsExt, SequencesExt

CONSTANTS
    None,           \* no commit, no branch
    Does,           \* which operations an instance has
    MaxEpoch, MaxOwn, MaxOther, MaxCommits, MaxCrashes

VARIABLES
    commit,     \* the commits made
    branch,     \* the repository's epochs,
    synced,     \* where each was last synced, if it is,
    temp,       \* and the branch of a rebase onto a new epoch
    remote,     \* the remote's epochs
    file,       \* the database's file
    beside,     \* the one built beside it, and the head it moves its epoch from
    pc,         \* where the open database stands
    shot,       \* the snapshot being taken
    own, other, \* how many transactions each device made
    crashes

repo == <<branch, synced, temp>>
made == <<own, other, crashes>>
vars == <<commit, branch, synced, temp, remote, file, beside, pc, shot, own, other, crashes>>

Root == 0
Epochs == 0 .. MaxEpoch
Mine == {"me"} \X (1 .. MaxOwn)

---------------------------------------------------------------------------
(* Commits: entries, and the commits of a snapshot, whose last holds all    *)

Line(k) == IF k = Root THEN <<>> ELSE commit[k].line
Txs(k) == commit[k].txs
DataAt(k) == FlattenSeq([i \in DOMAIN Line(k) |-> Txs(Line(k)[i])])
Holds(k, ancestor) == ancestor \in {Root, k} \cup Range(Line(k))
MergeBase(j, k) == Max({Root} \cup (Range(Line(j)) \cap Range(Line(k))))
After(k, base) == SelectSeq(Line(k), LAMBDA j : j > base)
(* A walk back to `base` is over entries alone: a snapshot stops it. *)
Walks(k, base) == Holds(k, base) /\ \A j \in Range(After(k, base)) : commit[j].kind = "entry"
TxsAfter(k, base) == FlattenSeq([i \in DOMAIN After(k, base) |-> Txs(After(k, base)[i])])

(* The last commit of the snapshot a commit's epoch starts from. *)
SnapshotOf(k) == Max({Root} \cup {j \in Range(Line(k)) : commit[j].kind = "snap"})

Room(n) == Len(commit) + n <= MaxCommits
New(parent, kind, txs, taken) ==
    [line |-> Append(Line(parent), Len(commit) + 1), kind |-> kind, txs |-> txs, taken |-> taken]

NoShot == [epoch |-> 0, data |-> <<>>, from |-> 0, base |-> Root, pending |-> <<>>]
Nothing == [data |-> <<>>, epoch |-> 0, base |-> Root, pending |-> <<>>, state |-> "fresh", from |-> Root]

---------------------------------------------------------------------------
(* Epochs *)

\* Mutant: an epoch whose snapshot is still being committed counts.
FinishedAny(e) == branch[e] # None /\ branch[e] # Root

(* Whether an epoch's snapshot was committed whole, or it has none. *)
Finished(e) ==
    /\ branch[e] # None /\ branch[e] # Root
    /\ commit[branch[e]].kind # "part"

(* The epoch a database opens: the newest finished one, or the one asked for. *)
Current(asked) == Max({asked} \cup {e \in Epochs : e > asked /\ Finished(e)})

(* The epochs behind `e` that may go: up to the oldest that syncs. *)
Deletable(e) ==
    LET older == {d \in Epochs : d < e /\ branch[d] # None}
        syncs == {d \in older : synced[d] # None}
    IN  IF syncs = {} THEN older ELSE {d \in older : d < Min(syncs)}

(* Where the chain of snapshots back from `k` was taken, at the first of `on`. *)
TakenOn(k, on) ==
    LET back[j \in 0 .. Len(commit)] ==
            LET s == SnapshotOf(j)
            IN  IF s = Root THEN None
                ELSE IF s \in on THEN commit[s].taken.base
                ELSE back[commit[s].taken.base]
    IN  back[k]

---------------------------------------------------------------------------
Init ==
    /\ commit = <<>>
    /\ branch = [e \in Epochs |-> IF e = 0 THEN Root ELSE None]
    /\ synced = [e \in Epochs |-> None] /\ temp = None
    /\ remote = [e \in Epochs |-> None]
    /\ file = [Nothing EXCEPT !.state = "ok"]
    /\ beside = Nothing /\ pc = "idle" /\ shot = NoShot
    /\ own = 0 /\ other = 0 /\ crashes = 0

Become(step) == pc' = step
Tip == branch[file.epoch]

---------------------------------------------------------------------------
(* Within an epoch: a transaction, a flush, catching up (KvLog) *)

(* Calls go on while a snapshot is committed. *)
Transact ==
    /\ pc \in {"idle", "create", "part", "last"} /\ own < MaxOwn
    /\ own' = own + 1
    /\ file' = [file EXCEPT !.data = Append(@, <<"me", own'>>), !.pending = Append(@, <<"me", own'>>)]
    /\ UNCHANGED <<commit, repo, remote, beside, pc, shot, other, crashes>>

FlushLand ==
    /\ pc = "idle" /\ file.pending # <<>> /\ Tip = file.base /\ Room(1)
    /\ commit' = Append(commit, New(Tip, "entry", file.pending, NoShot))
    /\ branch' = [branch EXCEPT ![file.epoch] = Len(commit')]
    /\ Become("drop")
    /\ UNCHANGED <<synced, temp, remote, file, beside, shot, made>>

Level(f, tip) ==
    LET next == After(tip, f.base)
        mine == next # <<>> /\ f.pending # <<>> /\ IsPrefix(Txs(next[1]), f.pending)
        rest == IF mine THEN SubSeq(f.pending, Len(Txs(next[1])) + 1, Len(f.pending)) ELSE f.pending
    IN  [f EXCEPT !.base = tip, !.pending = rest, !.data = DataAt(tip) \o rest]

FlushDrop ==
    /\ pc = "drop"
    /\ LET landed == After(Tip, file.base)[1]
       IN  file' = [file EXCEPT !.base = landed, !.pending = SubSeq(@, Len(Txs(landed)) + 1, Len(@))]
    /\ Become("idle")
    /\ UNCHANGED <<commit, repo, remote, beside, shot, made>>

(* Level with the branch, which sync or a flush that landed may have moved. *)
CatchUp ==
    /\ pc \in {"idle", "catchup"}
    /\ pc = "idle" => Tip # file.base
    /\ Tip # None /\ Walks(Tip, file.base)
    /\ file' = Level(file, Tip)
    /\ Become(IF pc = "idle" THEN "idle" ELSE "tidy")
    /\ UNCHANGED <<commit, repo, remote, beside, shot, made>>

---------------------------------------------------------------------------
(* A new epoch: the snapshot is taken, committed while calls go on, and the *)
(* file moved onto it.                                                      *)

(* The next epoch's branch must be free: one left unfinished is deleted. *)
TakeSnapshot ==
    /\ "epoch" \in Does /\ pc = "idle" /\ Tip = file.base /\ file.epoch < MaxEpoch
    /\ LET n == file.epoch + 1
       IN  /\ ~Finished(n)
           /\ branch' = [branch EXCEPT ![n] = None]
           /\ shot' = [epoch |-> n, data |-> file.data, from |-> file.epoch,
                       base |-> file.base, pending |-> file.pending]
    /\ Become("create")
    /\ UNCHANGED <<commit, synced, temp, remote, file, beside, made>>

CreateEpoch ==
    /\ pc = "create"
    /\ branch' = [branch EXCEPT ![shot.epoch] = Root]
    /\ Become("part")
    /\ UNCHANGED <<commit, synced, temp, remote, file, beside, shot, made>>

(* Its chunks, committed a few at a time, then the commit that ends it. *)
WriteSnapshot ==
    /\ pc \in {"part", "last"} /\ Room(1)
    /\ LET at == branch[shot.epoch]
       IN  /\ commit' = Append(commit, IF pc = "part" THEN New(at, "part", <<>>, NoShot)
                                                      ELSE New(at, "snap", shot.data, shot))
           /\ branch' = [branch EXCEPT ![shot.epoch] = Len(commit')]
    /\ Become(IF pc = "part" THEN "last" ELSE "move")
    /\ UNCHANGED <<synced, temp, remote, file, beside, shot, made>>

(* An epoch the file does not move to goes. *)
DropEpoch ==
    /\ branch' = [branch EXCEPT ![shot.epoch] = None]
    /\ Become("idle") /\ shot' = NoShot
    /\ UNCHANGED <<commit, synced, temp, remote, file, beside, made>>

SnapshotFails ==
    /\ "fail" \in Does /\ pc \in {"part", "last"}
    /\ DropEpoch

(* Nothing may have reached the old epoch since the snapshot was taken. *)
StillThere == branch[shot.from] = shot.base

Moved(f) == [f EXCEPT !.epoch = shot.epoch, !.base = branch[shot.epoch],
                      !.pending = SubSeq(@, Len(shot.pending) + 1, Len(@))]

(* One file transaction moves the file. If it throws, the file says whether *)
(* it landed; if the file can't be read, opening finds out.                 *)
Move ==
    /\ pc = "move" /\ StillThere
    /\ \/ file' = Moved(file) /\ Become("tidy")
       \/ "fail" \in Does /\ file' \in {file, Moved(file)} /\ Become("closed")
    /\ shot' = NoShot
    /\ UNCHANGED <<commit, repo, remote, beside, made>>

MoveFails ==
    /\ pc = "move" /\ (~StillThere \/ "fail" \in Does)
    /\ DropEpoch

(* Older epochs go, oldest first; a failure leaves the rest for later. *)
Tidy ==
    /\ pc = "tidy"
    /\ LET may == Deletable(file.epoch)
       IN  \E upTo \in {may} \cup {{d \in may : d < e} : e \in may} :
             branch' = [e \in Epochs |-> IF e \in upTo THEN None ELSE branch[e]]
    /\ Become("idle")
    /\ UNCHANGED <<commit, synced, temp, remote, file, beside, shot, made>>

---------------------------------------------------------------------------
(* Opening *)

Open ==
    /\ pc = "closed"
    /\ Become("settle")
    /\ UNCHANGED <<commit, repo, remote, file, beside, shot, made>>

(* A file built beside, at the rebase branch's tip, naming its epoch, takes *)
(* the database's place: its epoch moves there, from where the rebase       *)
(* started and nowhere else. Any other only goes.                           *)
Settle ==
    /\ pc = "settle"
    /\ IF beside.state = "marked" /\ branch[beside.epoch] # None /\ temp = beside.base
       THEN LET e == beside.epoch
            IN  IF Holds(branch[e], beside.base) \/ branch[e] = beside.from
                THEN /\ branch' = [branch EXCEPT ![e] = IF Holds(@, beside.base) THEN @ ELSE beside.base]
                     /\ Become("copy") /\ UNCHANGED beside
                ELSE Become("closed") /\ UNCHANGED <<branch, beside>>
       ELSE Become("prepare") /\ beside' = Nothing /\ UNCHANGED branch
    /\ UNCHANGED <<commit, synced, temp, remote, file, shot, made>>

(* It is copied, its magic last, and goes. *)
CopyBeside ==
    /\ pc = "copy"
    /\ \/ file.state # "torn" /\ file' = [file EXCEPT !.state = "torn"] /\ UNCHANGED <<pc, beside>>
       \/ /\ file.state = "torn"
          /\ file' = [beside EXCEPT !.state = "ok", !.from = Root]
          /\ beside' = Nothing /\ Become("prepare")
    /\ UNCHANGED <<commit, repo, remote, shot, made>>

(* Whether the snapshot holds the file: nothing pending, and its position   *)
(* in the history of where the snapshot was taken.                          *)
Held(s) ==
    /\ file.pending = <<>>
    /\ commit[s].taken.from = file.epoch /\ Holds(commit[s].taken.base, file.base)

(* Whether the file is where the snapshot was taken from: what was pending  *)
(* then still is, with perhaps more after it.                               *)
TakenHere(s) ==
    LET t == commit[s].taken
    IN  t.from = file.epoch /\ t.base = file.base /\ IsPrefix(t.pending, file.pending)

Rebuilt(e, s) == [Nothing EXCEPT !.epoch = e, !.base = s, !.data = Txs(s), !.state = "restored"]
Anchored(e, s) == [file EXCEPT !.epoch = e, !.base = s, !.state = "ok",
                     !.pending = IF file.state = "ok"
                                 THEN SubSeq(@, Len(commit[s].taken.pending) + 1, Len(@)) ELSE @]

(* The file is made ready for the current epoch: rebuilt from its snapshot  *)
(* if it is none, moved if a crash stopped the move, rebuilt if it is       *)
(* behind and holds nothing besides; else it stays on its own epoch.        *)
Prepare ==
    /\ pc = "prepare"
    /\ LET e == Current(0)
           s == IF branch[e] = None THEN Root ELSE SnapshotOf(branch[e])
           rebuild == file' = [Nothing EXCEPT !.state = "torn"] /\ Become("restore")
       IN  CASE s = Root ->
                  /\ file' = IF file.state = "ok" THEN file ELSE [Nothing EXCEPT !.state = "ok"]
                  /\ Become("catchup")
             [] s # Root /\ file.state \in {"fresh", "torn"} -> rebuild
             [] s # Root /\ file.state = "restored" ->
                  IF Len(file.data) # Len(Txs(s)) THEN rebuild
                  ELSE file' = Anchored(e, s) /\ Become("catchup")
             [] s # Root /\ file.state = "ok" ->
                  IF file.epoch < e /\ TakenHere(s) THEN file' = Anchored(e, s) /\ Become("catchup")
                  ELSE IF file.epoch < e /\ Held(s) THEN rebuild
                  ELSE IF file.epoch < e /\ branch[file.epoch] = None
                  THEN IF file.pending # <<>> \/ Len(DataAt(file.base)) > Len(Txs(s))
                       THEN UNCHANGED file /\ Become("refused")
                       ELSE rebuild
                  ELSE UNCHANGED file /\ Become("catchup")
    /\ UNCHANGED <<commit, repo, remote, beside, shot, made>>

Restore ==
    /\ pc = "restore"
    /\ LET e == Current(0) IN file' = Rebuilt(e, SnapshotOf(branch[e]))
    /\ Become("prepare")
    /\ UNCHANGED <<commit, repo, remote, beside, shot, made>>

---------------------------------------------------------------------------
(* Moving onto an epoch another device started *)

(* Where this database's changes and the newer epoch part: the last commit  *)
(* synced, if it is given, or where the snapshots left this epoch.          *)
Parted(tip) ==
    LET base == TakenOn(tip, {s \in DOMAIN commit : commit[s].taken.from = file.epoch})
    IN  (IF base # None THEN {MergeBase(file.base, base)} ELSE {file.base} \cap {SnapshotOf(file.base)})
        \cup ({synced[file.epoch]} \ {None})

(* With nothing of its own the file is deleted, to be rebuilt from the      *)
(* epoch; else its changes follow the epoch's, in a file built beside it.   *)
RebaseAcross ==
    /\ pc = "idle" /\ Tip = file.base
    /\ LET e == Current(file.epoch)
           tip == branch[e]
       IN  /\ e > file.epoch
           /\ \E parted \in Parted(tip) :
                /\ Walks(file.base, parted)
                /\ LET mine == TxsAfter(file.base, parted) \o file.pending
                   IN  IF mine = <<>>
                       THEN /\ file' = Nothing /\ Become("settle")
                            /\ UNCHANGED <<commit, temp, beside>>
                       ELSE /\ Room(1)
                            /\ commit' = Append(commit, New(tip, "entry", mine, NoShot))
                            /\ temp' = Len(commit')
                            /\ beside' = [data |-> DataAt(tip) \o mine, epoch |-> e, base |-> temp',
                                          pending |-> <<>>, state |-> "built", from |-> tip]
                            /\ Become("mark") /\ UNCHANGED file
    /\ UNCHANGED <<branch, synced, remote, shot, made>>

MarkBuilt ==
    /\ pc = "mark"
    /\ beside' = [beside EXCEPT !.state = "marked"]
    /\ Become("settle")
    /\ UNCHANGED <<commit, repo, remote, file, shot, made>>

---------------------------------------------------------------------------
(* Adopting what reached an older epoch *)

(* The tips taken into this epoch: the walk back ends at its snapshot. *)
Adopted == {commit[j].taken.base : j \in {k \in Range(After(Tip, SnapshotOf(Tip))) : commit[k].taken.epoch # 0}}

(* Where the entries to take start: after what was taken, or where the      *)
(* tip's line parted from the one the next epoch's snapshot was taken on.   *)
From(tip) ==
    LET taken == {t \in Adopted : Holds(tip, t)}
        start == SnapshotOf(tip)
        base == TakenOn(Tip, {s \in DOMAIN commit : SnapshotOf(commit[s].taken.base) = start})
    IN  IF taken # {} THEN Max(taken) ELSE IF base = None THEN None ELSE MergeBase(tip, base)

(* What was pending flushed first; then the entries apply as new ones.      *)
(* Where they conflict nothing changes.                                     *)
Adopt(e) ==
    /\ "adopt" \in Does /\ pc = "idle" /\ e < file.epoch
    /\ remote[e] # None /\ branch[e] # None /\ file.pending = <<>> /\ Tip = file.base /\ Room(1)
    /\ remote[e] \notin Adopted
    /\ LET from == From(remote[e])
           txs == TxsAfter(remote[e], from)
       IN  /\ from # None /\ Walks(remote[e], from) /\ txs # <<>>
           /\ commit' = Append(commit, New(Tip, "entry", txs, [NoShot EXCEPT !.epoch = file.epoch, !.base = remote[e]]))
           /\ branch' = [branch EXCEPT ![file.epoch] = Len(commit')]
           /\ file' = [file EXCEPT !.base = Len(commit'), !.data = @ \o txs]
    /\ UNCHANGED <<synced, temp, remote, beside, pc, shot, made>>

---------------------------------------------------------------------------
(* The application's sync, the other device, and crashes *)

Push(e) ==
    /\ "other" \in Does /\ pc \notin {"closed"} /\ branch[e] # None /\ Finished(e)
    /\ e = file.epoch /\ remote[e] # branch[e]
    /\ remote[e] = None \/ Holds(branch[e], remote[e])
    /\ remote' = [remote EXCEPT ![e] = branch[e]]
    /\ synced' = [synced EXCEPT ![e] = branch[e]]
    /\ UNCHANGED <<commit, branch, temp, file, beside, pc, shot, made>>

Pull(e) ==
    /\ remote[e] # None /\ remote[e] \notin {branch[e], synced[e]}
    /\ \/ branch[e] = None /\ e > file.epoch
       \/ branch[e] # None /\ e = file.epoch /\ Holds(remote[e], branch[e])
    /\ branch' = [branch EXCEPT ![e] = remote[e]]
    /\ synced' = [synced EXCEPT ![e] = remote[e]]
    /\ UNCHANGED <<commit, temp, remote, file, beside, pc, shot, made>>

(* An older epoch goes from the remote at the tip that was taken in. *)
DeleteRemote(e) ==
    /\ pc = "idle" /\ remote[e] # None /\ e < file.epoch
    /\ remote[file.epoch] # None /\ remote[file.epoch] = Tip
    /\ \/ remote[e] \in Adopted
       \/ From(remote[e]) # None /\ Walks(remote[e], From(remote[e])) /\ TxsAfter(remote[e], From(remote[e])) = <<>>
    /\ remote' = [remote EXCEPT ![e] = None] /\ synced' = [synced EXCEPT ![e] = None]
    /\ UNCHANGED <<commit, branch, temp, file, beside, pc, shot, made>>

(* The other device, on an epoch the remote has, adds to it, *)
OtherPush(e) ==
    /\ remote[e] # None /\ other < MaxOther /\ Room(1)
    /\ other' = other + 1
    /\ commit' = Append(commit, New(remote[e], "entry", << <<"other", other'>> >>, NoShot))
    /\ remote' = [remote EXCEPT ![e] = Len(commit')]
    /\ UNCHANGED <<repo, file, beside, pc, shot, own, crashes>>

(* or starts the next one there. *)
OtherEpoch(e) ==
    /\ "otherepoch" \in Does /\ e < MaxEpoch /\ remote[e] # None /\ remote[e + 1] = None /\ Room(1)
    /\ \A d \in Epochs : d > e => remote[d] = None /\ branch[d] = None
    /\ commit' = Append(commit, New(Root, "snap", DataAt(remote[e]),
                   [epoch |-> e + 1, data |-> DataAt(remote[e]), from |-> e, base |-> remote[e], pending |-> <<>>]))
    /\ remote' = [remote EXCEPT ![e + 1] = Len(commit')]
    /\ UNCHANGED <<repo, file, beside, pc, shot, made>>

Crash ==
    /\ crashes < MaxCrashes /\ pc # "closed"
    /\ crashes' = crashes + 1
    /\ Become("closed") /\ shot' = NoShot
    /\ UNCHANGED <<commit, repo, remote, file, beside, own, other>>

Next ==
    \/ Transact \/ FlushLand \/ FlushDrop \/ CatchUp
    \/ TakeSnapshot \/ CreateEpoch \/ WriteSnapshot \/ SnapshotFails \/ Move \/ MoveFails \/ Tidy
    \/ Open \/ Settle \/ CopyBeside \/ Prepare \/ Restore \/ RebaseAcross \/ MarkBuilt \/ Crash
    \/ \E e \in Epochs : Adopt(e) \/ Push(e) \/ Pull(e) \/ DeleteRemote(e) \/ OtherPush(e) \/ OtherEpoch(e)

Spec == Init /\ [][Next]_vars

---------------------------------------------------------------------------
TypeOK ==
    /\ \A k \in DOMAIN commit : Last(Line(k)) = k /\ commit[k].kind \in {"entry", "part", "snap"}
    /\ {branch[e] : e \in Epochs} \cup {remote[e] : e \in Epochs} \cup {temp}
         \subseteq 0 .. Len(commit) \cup {None}
    /\ file.state \in {"ok", "fresh", "torn", "restored"} /\ file.epoch \in Epochs
    /\ beside.state \in {"fresh", "built", "marked"}
    /\ own \in 0 .. MaxOwn /\ other \in 0 .. MaxOther /\ crashes \in 0 .. MaxCrashes

Count(t, s) == Cardinality({i \in DOMAIN s : s[i] = t})
Older(e) == {remote[d] : d \in {n \in Epochs : n < e /\ remote[n] # None}}

(* What the file holds is its position in its log, then what is pending. *)
FileIsLog ==
    file.state = "ok" => file.data = DataAt(file.base) \o file.pending

(* A transaction this device made is in its database once: wherever a crash,*)
(* a failure or the sync came, between two epochs. One that the remote has  *)
(* on an older epoch, and the epoch it moved to has not, is there to adopt. *)
OwnKept ==
    file.state = "ok" => \A i \in 1 .. own :
        \/ Count(<<"me", i>>, file.data) = 1
        \/ /\ Count(<<"me", i>>, file.data) = 0
           /\ \E k \in Older(file.epoch) : <<"me", i>> \in Range(DataAt(k))

(* A file cut short is only ever one that what opens next rebuilds whole. *)
Rebuildable ==
    file.state # "ok" =>
        LET at == IF beside.state = "marked" THEN beside.data
                  ELSE IF branch[Current(0)] = None THEN <<>> ELSE DataAt(branch[Current(0)])
        IN  \A i \in 1 .. own : \/ <<"me", i>> \in Range(at)
                                \/ \E k \in Older(Current(0)) : <<"me", i>> \in Range(DataAt(k))

(* A database never has to refuse a file for what no log holds. *)
NeverRefused == pc # "refused"

(* An epoch goes only when all in it is in the file, or waits in a newer    *)
(* epoch of the remote to be adopted.                                       *)
EpochsHeld ==
    [][\A e \in Epochs : branch[e] # None /\ branch'[e] = None =>
          Range(DataAt(branch[e])) \subseteq
              Range(file.data) \cup UNION {Range(DataAt(k)) : k \in Older(file.epoch) \ Older(e + 1)}]_vars

(* What another device's entries say is taken into the database once. *)
TakenOnce ==
    \A i \in 1 .. other : Count(<<"other", i>>, file.data) <= 1
=============================================================================
