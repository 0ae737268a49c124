-------------------------------- MODULE KvGC --------------------------------
(***************************************************************************)
(* The commit protocol of a kvgit store, beside its garbage collector      *)
(* (versioned/kv.ts, versioned/base.ts, versioned/lease.ts).               *)
(*                                                                         *)
(* Writers are VersionedKV handles, each in its own context: a handle      *)
(* reads a branch head, builds a commit over its base, lands the commit's  *)
(* batch with an in-flight marker, and publishes it with one conditional   *)
(* write; a lost race turns into a three-way merge.  One sweep at a time   *)
(* runs under the store-wide lease: it marks from the live markers and     *)
(* then from the heads, and removes what it did not mark.                  *)
(*                                                                         *)
(* A commit is its number: numbers are given out in the order the batches  *)
(* land, so a lower number is an older commit.  What a commit's hash       *)
(* covers (parents, tree) never changes, and is kept in parents and tree   *)
(* whether or not its records are still stored.  A tree is the set of      *)
(* content addresses (HAMT nodes and blobs) it refers to: addresses are    *)
(* shared between commits, and stored content is the set items.            *)
(*                                                                         *)
(* Stored heads are never damaged here, so healHead changes nothing and    *)
(* casHead's last branch is a plain failure.                               *)
(***************************************************************************)
EXTENDS Naturals, FiniteSets

CONSTANTS
    Writers,      \* VersionedKV handles
    Branches,     \* branch names (a tag is a head too)
    Items,        \* content addresses: HAMT nodes and blobs
    MaxCommits,   \* bound: commits ever landed, the root commit included
    MaxSweeps,    \* bound: sweeps ever started
    Ops,          \* the operations handles perform in this instance
    KeepYoung,    \* whether a sweep's minAge may spare young orphans
    Overrun,      \* whether a running sweep may outlast its lease
    PinSources    \* whether a branch being merged elsewhere keeps its head

ASSUME BoundsAssumption == MaxCommits \in Nat \ {0} /\ MaxSweeps \in Nat
ASSUME FlagsAssumption == KeepYoung \in BOOLEAN /\ Overrun \in BOOLEAN /\ PinSources \in BOOLEAN
ASSUME OpsAssumption ==
    Ops \subseteq {"commit", "raise", "merge", "reset", "create", "delete", "attach", "crash"}

Commit == 1 .. MaxCommits
None == 0               \* no commit: an absent head, an empty slot
Root == 1               \* ROOT_COMMIT: no parents, the empty tree

VARIABLES
    \* The store.
    stored,     \* commits whose records are present
    items,      \* content present
    marker,     \* in-flight markers: "none", "live" or "lapsed"
    head,       \* branch heads
    prev,       \* the backup beside each head
    lease,      \* the lease record: who wrote it, and whether it was released
    lapsed,     \* whether the lease's expiry has passed
    \* What hashes name.
    minted,     \* commits landed so far
    parents,
    tree,
    anc,        \* a commit and all its ancestors
    known,      \* commits some head has named: hashes a caller can hold
    dropped,    \* commits whose attempt was given up
    \* The running sweep.
    phase, cut, todo, gray, black, keep, stale, gone, goneItems,
    \* The handles.
    pc, op, br, tb, base, ours, merged, theirs, exp, draft, seen

storeVars  == <<stored, items, marker, head, prev>>
leaseVars  == <<lease, lapsed>>
hashVars   == <<minted, parents, tree, anc>>
ghostVars  == <<known, dropped>>
sweepVars  == <<phase, cut, todo, gray, black, keep, stale, gone, goneItems>>
writerVars == <<pc, op, br, tb, base, ours, merged, theirs, exp, draft, seen>>
vars == <<storeVars, leaseVars, hashVars, ghostVars, sweepVars, writerVars>>

Lease == [owner : 0 .. MaxSweeps, released : BOOLEAN]
Draft == [parents : SUBSET Commit, tree : SUBSET Items, put : SUBSET Items]
NoDraft == [parents |-> {}, tree |-> {}, put |-> {}]

-----------------------------------------------------------------------------
(* Helpers. *)

\* Mutant: a lease is never over before it is released.
LiveUntilReleased == lease.owner # 0 /\ ~lease.released

\* A lease is live until it is released or its expiry passes.  Owner 0 is
\* the absent record.
Live == lease.owner # 0 /\ ~lease.released /\ ~lapsed

\* What loadParents and a read of a commit's keyset give: nothing, for a
\* commit whose records are gone.
ParentsOf(c) == IF c \in stored THEN parents[c] ELSE {}
TreeOf(c) == IF c \in stored THEN tree[c] ELSE {}

\* The commits a walk of history from c visits: the least set holding c and
\* closed under the parents the store still has.
Walk(c) == {a \in Commit : \A S \in SUBSET Commit :
                (c \in S /\ \A x \in S : ParentsOf(x) \subseteq S) => a \in S}

HasMergeBase(a, b) == Walk(a) \cap Walk(b) # {}

\* A commit that loads: its records and everything its tree refers to.
Intact(c) == c \in stored /\ tree[c] \subseteq items

InFlight(w) == {ours[w], merged[w]} \ {None}

-----------------------------------------------------------------------------
(* A store with one branch, at the root commit. *)

Init ==
    /\ stored = {Root}
    /\ items = {}
    /\ marker = [c \in Commit |-> "none"]
    /\ \E b \in Branches : head = [x \in Branches |-> IF x = b THEN Root ELSE None]
    /\ prev = [b \in Branches |-> None]
    /\ lease = [owner |-> 0, released |-> TRUE]
    /\ lapsed = FALSE
    /\ minted = 1
    /\ parents = [c \in Commit |-> {}]
    /\ tree = [c \in Commit |-> {}]
    /\ anc = [c \in Commit |-> {c}]
    /\ known = {Root}
    /\ dropped = {}
    /\ phase = "off" /\ cut = 1 /\ todo = {} /\ gray = {} /\ black = {}
    /\ keep = {} /\ stale = {} /\ gone = {} /\ goneItems = {}
    /\ pc = [w \in Writers |-> "idle"]
    /\ op = [w \in Writers |-> "none"]
    /\ \E b \in Branches : head[b] = Root /\ br = [w \in Writers |-> b] /\ tb = br
    /\ base = [w \in Writers |-> Root]
    /\ ours = [w \in Writers |-> None]
    /\ merged = [w \in Writers |-> None]
    /\ theirs = [w \in Writers |-> None]
    /\ exp = [w \in Writers |-> None]
    /\ draft = [w \in Writers |-> NoDraft]
    /\ seen = [w \in Writers |-> lease]

-----------------------------------------------------------------------------
(* A handle's operation: how one begins and how one ends.  A handle runs   *)
(* one state-changing call at a time (VersionedBase.exclusive), so its     *)
(* operation is a program counter and the locals of that call.             *)

Goto(w, label) == pc' = [pc EXCEPT ![w] = label]

\* The call returns with the handle on branch b at commit c.
Return(w, b, c) ==
    /\ Goto(w, "idle")
    /\ op' = [op EXCEPT ![w] = "none"]
    /\ br' = [br EXCEPT ![w] = b] /\ tb' = [tb EXCEPT ![w] = b]
    /\ base' = [base EXCEPT ![w] = c]
    /\ ours' = [ours EXCEPT ![w] = None] /\ merged' = [merged EXCEPT ![w] = None]
    /\ theirs' = [theirs EXCEPT ![w] = None] /\ exp' = [exp EXCEPT ![w] = None]
    /\ draft' = [draft EXCEPT ![w] = NoDraft]
    /\ seen' = [seen EXCEPT ![w] = [owner |-> 0, released |-> TRUE]]

\* Mutant: the handle stays on the commit it failed to publish.
GiveUpInPlace(w, left) ==
    /\ Return(w, br[w], IF ours[w] # None THEN ours[w] ELSE base[w])
    /\ marker' = [c \in Commit |-> IF c \in InFlight(w) \ left THEN "none" ELSE marker[c]]
    /\ dropped' = dropped \cup InFlight(w)
    /\ UNCHANGED <<stored, items, head, prev, leaseVars, hashVars, known, sweepVars>>

\* restoreState: the handle goes back to its base, and each marker of the
\* attempt is withdrawn, best effort: those in left stay until they lapse.
GiveUp(w, left) ==
    /\ Return(w, br[w], base[w])
    /\ marker' = [c \in Commit |-> IF c \in InFlight(w) \ left THEN "none" ELSE marker[c]]
    /\ dropped' = dropped \cup InFlight(w)
    /\ UNCHANGED <<stored, items, head, prev, leaseVars, hashVars, known, sweepVars>>

\* A call that fails before it wrote anything.
Refuse(w) == GiveUp(w, {})

Begin(w, o, label, target, c) ==
    /\ pc[w] = "idle"
    /\ o \in Ops
    /\ Goto(w, label)
    /\ op' = [op EXCEPT ![w] = o]
    /\ tb' = [tb EXCEPT ![w] = target]
    /\ theirs' = [theirs EXCEPT ![w] = c]
    /\ UNCHANGED <<storeVars, leaseVars, hashVars, ghostVars, sweepVars,
                   br, base, ours, merged, exp, draft, seen>>

\* commitOnce with something to write: it reads HEAD, and under
\* onMoved: 'raise' goes on only from its base.
BeginCommit(w) ==
    /\ head[br[w]] # None
    /\ \/ Begin(w, "commit", "build", br[w], head[br[w]])
       \/ head[br[w]] = base[w] /\ Begin(w, "raise", "build", br[w], base[w])

\* mergeHeadsOnce of another branch's head, which requireCommit found.
BeginMerge(w) == \E b \in Branches \ {br[w]} :
    /\ head[b] \in stored
    /\ Begin(w, "merge", "ancestor", b, head[b])

\* resetTo and createBranch take a commit by its hash.
BeginReset(w) == \E c \in known : Begin(w, "reset", "claim", br[w], c)
BeginCreate(w) == \E b \in Branches, c \in known : Begin(w, "create", "claim", b, c)

\* refresh and switchBranch: load the head of a branch.
Attach(w) == \E b \in Branches :
    /\ pc[w] = "idle" /\ "attach" \in Ops
    /\ head[b] # None /\ <<b, head[b]>> # <<br[w], base[w]>>
    /\ Return(w, b, head[b])
    /\ UNCHANGED <<storeVars, leaseVars, hashVars, ghostVars, sweepVars>>

\* The process dies in a call: what it had in flight stays in the store.
\* Another handle opens at the same commit.
Crash(w) ==
    /\ pc[w] # "idle" /\ "crash" \in Ops
    /\ GiveUp(w, InFlight(w))

-----------------------------------------------------------------------------
(* createCommit and createMergeCommit: a draft, then its batch.            *)

\* The keyset of the base, read before the batch lands, with some entries
\* changed: what is put is written again even if it is stored already, what
\* is kept is shared and not written.  A lazy handle reads the base's root
\* from memory; an eager one reads an empty tree for a base that is gone.
Build(w) ==
    /\ pc[w] = "build"
    /\ \E t \in {TreeOf(base[w]), tree[base[w]]} : \E kept \in SUBSET t : \E x \in Items :
           draft' = [draft EXCEPT ![w] =
                       [parents |-> {base[w]}, tree |-> kept \cup {x}, put |-> {x}]]
    /\ Goto(w, "wait")
    /\ UNCHANGED <<storeVars, leaseVars, hashVars, ghostVars, sweepVars,
                   op, br, tb, base, ours, merged, theirs, exp, seen>>

\* waitForGc: the lease record, read once no sweep holds it.
Wait(w) ==
    /\ pc[w] \in {"wait", "rewait", "claim"}
    /\ ~Live
    /\ seen' = [seen EXCEPT ![w] = lease]
    /\ Goto(w, CASE pc[w] = "wait" -> "land" [] pc[w] = "rewait" -> "publish" [] OTHER -> "check")
    /\ UNCHANGED <<storeVars, leaseVars, hashVars, ghostVars, sweepVars,
                   op, br, tb, base, ours, merged, theirs, exp, draft>>

\* landBatch: one write of the records, the put content and the marker,
\* conditional on the lease record.  The first commit of a call is ours;
\* a merge commit made over it, or a cross-branch merge's, is merged.
Land(w) ==
    /\ pc[w] = "land" /\ seen[w] = lease
    /\ minted < MaxCommits
    /\ LET c == minted + 1  d == draft[w]  first == ours[w] = None /\ op[w] # "merge" IN
       /\ minted' = c
       /\ parents' = [parents EXCEPT ![c] = d.parents]
       /\ tree' = [tree EXCEPT ![c] = d.tree]
       /\ anc' = [anc EXCEPT ![c] = {c} \cup UNION {anc[p] : p \in d.parents}]
       /\ stored' = stored \cup {c}
       /\ items' = items \cup d.put
       /\ marker' = [marker EXCEPT ![c] = "live"]
       /\ IF first THEN ours' = [ours EXCEPT ![w] = c] /\ UNCHANGED merged
                   ELSE merged' = [merged EXCEPT ![w] = c] /\ UNCHANGED ours
       /\ Goto(w, IF first /\ theirs[w] # base[w] THEN "ancestor" ELSE "publish")
       /\ draft' = [draft EXCEPT ![w] = NoDraft]
    /\ UNCHANGED <<head, prev, leaseVars, ghostVars, sweepVars,
                   op, br, tb, base, theirs, exp, seen>>

\* A sweep started since: landBatch waits it out and tries again.
LandAgain(w) ==
    /\ pc[w] = "land" /\ seen[w] # lease
    /\ Goto(w, "wait")
    /\ UNCHANGED <<storeVars, leaseVars, hashVars, ghostVars, sweepVars,
                   op, br, tb, base, ours, merged, theirs, exp, draft, seen>>

-----------------------------------------------------------------------------
(* casHead: publish.                                                       *)

NewHead(w) == IF merged[w] # None THEN merged[w] ELSE ours[w]

\* A lost-race merge publishes over the head it merged, anything else over
\* the head the call started from.
Expected(w) == IF merged[w] # None /\ op[w] # "merge" THEN theirs[w] ELSE base[w]

\* Mutant: a publish does not expect its markers.
MarkersIgnored(w) == TRUE

MarkersHeld(w) == \A c \in InFlight(w) : marker[c] # "none"

\* Mutants: a publish that expects no head, or no lease.
CanPublishOver(w) == seen[w] = lease /\ MarkersHeld(w)
CanPublishUnderSweep(w) == head[br[w]] = Expected(w) /\ MarkersHeld(w)

CanPublish(w) == seen[w] = lease /\ head[br[w]] = Expected(w) /\ MarkersHeld(w)

\* Mutant: the marker of the side a merge was made of is left.
PublishKeepsLoser(w) ==
    /\ pc[w] = "publish" /\ CanPublish(w)
    /\ head' = [head EXCEPT ![br[w]] = NewHead(w)]
    /\ prev' = [prev EXCEPT ![br[w]] = Expected(w)]
    /\ marker' = [marker EXCEPT ![NewHead(w)] = "none"]
    /\ known' = known \cup anc[NewHead(w)]
    /\ Return(w, br[w], NewHead(w))
    /\ UNCHANGED <<stored, items, leaseVars, hashVars, dropped, sweepVars>>

\* One conditional write: the head, the backup, and the markers gone.
Publish(w) ==
    /\ pc[w] = "publish" /\ CanPublish(w)
    /\ head' = [head EXCEPT ![br[w]] = NewHead(w)]
    /\ prev' = [prev EXCEPT ![br[w]] = Expected(w)]
    /\ marker' = [c \in Commit |-> IF c \in InFlight(w) THEN "none" ELSE marker[c]]
    /\ known' = known \cup anc[NewHead(w)]
    /\ Return(w, br[w], NewHead(w))
    /\ UNCHANGED <<stored, items, leaseVars, hashVars, dropped, sweepVars>>

\* The lease moved: wait, and try again with the record read then.
PublishAgain(w) ==
    /\ pc[w] = "publish" /\ seen[w] # lease
    /\ Goto(w, "rewait")
    /\ UNCHANGED <<storeVars, leaseVars, hashVars, ghostVars, sweepVars,
                   op, br, tb, base, ours, merged, theirs, exp, draft, seen>>

LostPublish(w) == pc[w] = "publish" /\ seen[w] = lease /\ ~CanPublish(w)

\* commitOnce keeps the commit it built as its side of a merge with the
\* head it reads now.
LostRace(w) ==
    /\ LostPublish(w) /\ op[w] = "commit" /\ merged[w] = None /\ head[br[w]] # None
    /\ theirs' = [theirs EXCEPT ![w] = head[br[w]]]
    /\ Goto(w, "ancestor")
    /\ UNCHANGED <<storeVars, leaseVars, hashVars, ghostVars, sweepVars,
                   op, br, tb, base, ours, merged, exp, draft, seen>>

\* Otherwise the attempt is given up: onMoved: 'raise', a branch deleted
\* meanwhile, or a merge overtaken in its turn.
LostCommit(w) ==
    /\ LostPublish(w)
    /\ op[w] # "commit" \/ merged[w] # None \/ head[br[w]] = None
    /\ \E left \in SUBSET InFlight(w) : GiveUp(w, left)

-----------------------------------------------------------------------------
(* threeWayMerge, of our side with theirs.                                 *)

OurSide(w) == IF ours[w] # None THEN ours[w] ELSE base[w]

\* mergeHeadsOnce: their head is in our history already; ours is in theirs.
Behind(w) == op[w] = "merge" /\ theirs[w] \in Walk(base[w])
\* Mutant: any head that is not behind is taken for one that is ahead.
AheadOrForked(w) == op[w] = "merge" /\ ~Behind(w)
Ahead(w) == op[w] = "merge" /\ ~Behind(w) /\ base[w] \in Walk(theirs[w])

\* No common ancestor, or a conflict no policy resolves: a merge of some
\* trees may refuse, whatever they hold.
MergeRefused(w) ==
    /\ pc[w] = "ancestor" /\ ~Behind(w)
    /\ \E left \in SUBSET InFlight(w) : GiveUp(w, left)

MergeNoOp(w) == pc[w] = "ancestor" /\ Behind(w) /\ Refuse(w)

\* The changes of both sides since the ancestor are read here, and a commit
\* that is gone reads as the empty tree.  Carried entries keep their blobs,
\* which are not written again; a merge function may put one value.
Resolve(w) ==
    /\ pc[w] = "ancestor" /\ ~Behind(w)
    /\ HasMergeBase(OurSide(w), theirs[w])
    /\ \E put \in {{}} \cup {{x} : x \in Items} :
           draft' = [draft EXCEPT ![w] =
              [parents |-> {OurSide(w), theirs[w]},
               tree |-> TreeOf(OurSide(w)) \cup TreeOf(theirs[w]) \cup put, put |-> put]]
    /\ Goto(w, "wait")
    /\ UNCHANGED <<storeVars, leaseVars, hashVars, ghostVars, sweepVars,
                   op, br, tb, base, ours, merged, theirs, exp, seen>>

\* fastForward: the head moves to theirs and no commit is written.
FastForward(w) ==
    /\ pc[w] = "ancestor" /\ Ahead(w)
    /\ Goto(w, "claim")
    /\ UNCHANGED <<storeVars, leaseVars, hashVars, ghostVars, sweepVars,
                   op, br, tb, base, ours, merged, theirs, exp, draft, seen>>

-----------------------------------------------------------------------------
(* Installing a head: fastForward, resetTo and createBranchHead decide     *)
(* that the commit exists and write the head against one lease record.     *)

\* PinSources: nobody resets or deletes a branch whose head another handle
\* is merging.
Pinned(b) == PinSources /\ \E w \in Writers : op[w] = "merge" /\ tb[w] = b

\* The branch an install writes: a merge's is its own, not its source.
InstallAt(w) == IF op[w] = "create" THEN tb[w] ELSE br[w]

\* The head the write will expect: the handle's base for a fast-forward,
\* the head there now for a reset, none for a new branch.
InstallOver(w) ==
    CASE op[w] = "merge" -> base[w]
      [] op[w] = "reset" -> head[br[w]]
      [] OTHER -> None

Installable(w) == theirs[w] \in stored \/ (op[w] = "create" /\ theirs[w] = Root)

Check(w) ==
    /\ pc[w] = "check"
    /\ Installable(w) /\ (op[w] = "reset" => head[br[w]] # None)
    /\ exp' = [exp EXCEPT ![w] = InstallOver(w)]
    /\ Goto(w, "install")
    /\ UNCHANGED <<storeVars, leaseVars, hashVars, ghostVars, sweepVars,
                   op, br, tb, base, ours, merged, theirs, draft, seen>>

CheckFails(w) ==
    /\ pc[w] = "check"
    /\ ~Installable(w) \/ (op[w] = "reset" /\ head[br[w]] = None)
    /\ Refuse(w)

\* Mutant: the backup is written by commits alone.
InstallNoBackup(w) ==
    /\ pc[w] = "install" /\ seen[w] = lease
    /\ op[w] = "reset" => ~Pinned(br[w])
    /\ head[InstallAt(w)] = exp[w]
    /\ head' = [head EXCEPT ![InstallAt(w)] = theirs[w]]
    /\ stored' = stored \cup {theirs[w]}
    /\ known' = known \cup {theirs[w]}
    /\ Return(w, br[w], IF op[w] = "create" THEN base[w] ELSE theirs[w])
    /\ UNCHANGED <<items, marker, prev, leaseVars, hashVars, dropped, sweepVars>>

\* A new branch sheds any backup an earlier one left; the root commit is
\* minted with the head if the store lacks it.
Install(w) ==
    /\ pc[w] = "install" /\ seen[w] = lease
    /\ op[w] = "reset" => ~Pinned(br[w])
    /\ LET b == InstallAt(w) IN
       /\ head[b] = exp[w]
       /\ head' = [head EXCEPT ![b] = theirs[w]]
       /\ prev' = [prev EXCEPT ![b] = exp[w]]
    /\ stored' = stored \cup {theirs[w]}
    /\ known' = known \cup {theirs[w]}
    /\ Return(w, br[w], IF op[w] = "create" THEN base[w] ELSE theirs[w])
    /\ UNCHANGED <<items, marker, leaseVars, hashVars, dropped, sweepVars>>

\* Mutant: the write is tried again without deciding again.
InstallBlindly(w) ==
    /\ pc[w] = "install"
    /\ seen[w] # lease /\ ~Live
    /\ seen' = [seen EXCEPT ![w] = lease]
    /\ UNCHANGED <<storeVars, leaseVars, hashVars, ghostVars, sweepVars,
                   pc, op, br, tb, base, ours, merged, theirs, exp, draft>>

\* The lease moved, or a reset found another head: decide again.
InstallAgain(w) ==
    /\ pc[w] = "install"
    /\ seen[w] # lease \/ (op[w] = "reset" /\ head[br[w]] # exp[w])
    /\ Goto(w, "claim")
    /\ UNCHANGED <<storeVars, leaseVars, hashVars, ghostVars, sweepVars,
                   op, br, tb, base, ours, merged, theirs, exp, draft, seen>>

\* The branch moved under a fast-forward, or the new branch exists.
InstallFails(w) ==
    /\ pc[w] = "install" /\ seen[w] = lease
    /\ op[w] # "reset" /\ head[InstallAt(w)] # exp[w]
    /\ Refuse(w)

-----------------------------------------------------------------------------
(* deleteBranchHead: the head and its backup, conditional on the head      *)
(* read, and on no lease.                                                  *)

DeleteBranch(w) == \E b \in Branches \ {br[w]} :
    /\ pc[w] = "idle" /\ "delete" \in Ops
    /\ head[b] # None /\ ~Pinned(b)
    /\ head' = [head EXCEPT ![b] = None]
    /\ prev' = [prev EXCEPT ![b] = None]
    /\ UNCHANGED <<stored, items, marker, leaseVars, hashVars, ghostVars, sweepVars, writerVars>>

-----------------------------------------------------------------------------
(* The sweep (gcStore, sweep), one awaited read at a time.  Commits wait   *)
(* in gray to be visited and are black once they have been: a visit reads  *)
(* a commit's parents and marks what its tree refers to.                   *)

\* The markers are taken off before the heads are read, and each root's
\* history is walked to its end before the next is read.
SweepStep(from, to) == phase = from /\ phase' = to

\* acquireGcLease: a record of its own over one that is not live.  minAge
\* spares the commits from cut on.
SweepStart ==
    /\ SweepStep("off", "markers")
    /\ ~Live /\ lease.owner < MaxSweeps
    /\ lease' = [owner |-> lease.owner + 1, released |-> FALSE]
    /\ lapsed' = FALSE
    /\ cut' \in IF KeepYoung THEN 2 .. minted + 1 ELSE {minted + 1}
    /\ todo' = Branches
    /\ UNCHANGED <<storeVars, hashVars, ghostVars, writerVars,
                   gray, black, keep, stale, gone, goneItems>>

\* Mutant: only branch heads are roots.
ReadNoMarkers ==
    /\ SweepStep("markers", "heads")
    /\ gray' = {}
    /\ stale' = {c \in Commit : marker[c] = "lapsed"}
    /\ UNCHANGED <<storeVars, leaseVars, hashVars, ghostVars, writerVars,
                   cut, todo, black, keep, gone, goneItems>>

\* Live markers are roots; the others go with the sweep.
ReadMarkers ==
    /\ SweepStep("markers", "heads")
    /\ gray' = {c \in Commit : marker[c] = "live"}
    /\ stale' = {c \in Commit : marker[c] = "lapsed"}
    /\ UNCHANGED <<storeVars, leaseVars, hashVars, ghostVars, writerVars,
                   cut, todo, black, keep, gone, goneItems>>

\* markFrom, one commit of the history at a time.
Visit ==
    /\ SweepStep("heads", "heads")
    /\ gray # {}
    /\ LET c == CHOOSE x \in gray : TRUE IN
       /\ black' = black \cup {c}
       /\ gray' = (gray \cup ParentsOf(c)) \ (black \cup {c})
       /\ keep' = keep \cup TreeOf(c)
    /\ UNCHANGED <<storeVars, leaseVars, hashVars, ghostVars, writerVars,
                   cut, todo, stale, gone, goneItems>>

\* Mutant: a branch deleted since it was listed is not skipped.
ReadAnyHead ==
    /\ SweepStep("heads", "heads")
    /\ gray = {}
    /\ \E b \in todo :
       /\ todo' = todo \ {b}
       /\ gray' = {head[b]} \ black
    /\ UNCHANGED <<storeVars, leaseVars, hashVars, ghostVars, writerVars,
                   cut, black, keep, stale, gone, goneItems>>

ReadHead ==
    /\ SweepStep("heads", "heads")
    /\ gray = {}
    /\ \E b \in todo :
       /\ todo' = todo \ {b}
       /\ gray' = {head[b]} \ ({None} \cup black)
    /\ UNCHANGED <<storeVars, leaseVars, hashVars, ghostVars, writerVars,
                   cut, black, keep, stale, gone, goneItems>>

\* Unmarked commits are orphans; the young ones are kept whole.  A deep
\* sweep also takes content no commit refers to.
Collect ==
    /\ SweepStep("heads", "remove")
    /\ gray = {} /\ todo = {}
    /\ LET orphans == {c \in stored \ black : c < cut}
           marked == keep \cup UNION {tree[c] : c \in {y \in stored \ black : y >= cut}}
       IN /\ gone' = orphans
          /\ \E deep \in BOOLEAN :
                goneItems' = (IF deep THEN items
                              ELSE items \cap UNION {tree[c] : c \in orphans}) \ marked
    /\ UNCHANGED <<storeVars, leaseVars, hashVars, ghostVars, writerVars,
                   cut, todo, gray, black, keep, stale>>

SweepForgets ==
    /\ cut' = 1 /\ todo' = {} /\ gray' = {} /\ black' = {} /\ keep' = {}
    /\ stale' = {} /\ gone' = {} /\ goneItems' = {}

\* One removeMany for everything, and then the lease is given up.
Remove ==
    /\ SweepStep("remove", "release")
    /\ stored' = stored \ gone
    /\ items' = items \ goneItems
    /\ marker' = [c \in Commit |-> IF c \in stale THEN "none" ELSE marker[c]]
    /\ SweepForgets
    /\ UNCHANGED <<head, prev, leaseVars, hashVars, ghostVars, writerVars>>

\* releaseGcLease, also on the way out of a sweep that throws.
Release ==
    /\ phase # "off" /\ phase' = "off"
    /\ lease' = [lease EXCEPT !.released = TRUE]
    /\ SweepForgets
    /\ UNCHANGED <<storeVars, lapsed, hashVars, ghostVars, writerVars>>

\* The sweeper dies holding the lease.
SweepDies ==
    /\ phase # "off" /\ phase' = "off" /\ "crash" \in Ops
    /\ SweepForgets
    /\ UNCHANGED <<storeVars, leaseVars, hashVars, ghostVars, writerVars>>

-----------------------------------------------------------------------------
(* Wall time.                                                              *)

LeaseLapses ==
    /\ Live /\ (phase = "off" \/ Overrun)
    /\ lapsed' = TRUE
    /\ UNCHANGED <<storeVars, lease, hashVars, ghostVars, sweepVars, writerVars>>

MarkerLapses == \E c \in Commit :
    /\ marker[c] = "live"
    /\ marker' = [marker EXCEPT ![c] = "lapsed"]
    /\ UNCHANGED <<stored, items, head, prev, leaseVars, hashVars, ghostVars,
                   sweepVars, writerVars>>

-----------------------------------------------------------------------------

Call(w) ==
    \/ BeginCommit(w) \/ BeginMerge(w) \/ BeginReset(w) \/ BeginCreate(w)
    \/ Attach(w) \/ DeleteBranch(w)

Step(w) ==
    \/ Build(w) \/ Wait(w) \/ Land(w) \/ LandAgain(w)
    \/ Publish(w) \/ PublishAgain(w) \/ LostRace(w) \/ LostCommit(w)
    \/ MergeRefused(w) \/ MergeNoOp(w) \/ Resolve(w) \/ FastForward(w)
    \/ Check(w) \/ CheckFails(w) \/ Install(w) \/ InstallAgain(w) \/ InstallFails(w)

Sweep == SweepStart \/ ReadMarkers \/ Visit \/ ReadHead \/ Collect \/ Remove \/ Release

Next ==
    \/ \E w \in Writers : Call(w) \/ Step(w) \/ Crash(w)
    \/ Sweep \/ SweepDies
    \/ LeaseLapses \/ MarkerLapses

Spec == Init /\ [][Next]_vars

-----------------------------------------------------------------------------
(* Properties.                                                             *)

StoreOK ==
    /\ stored \subseteq Commit /\ items \subseteq Items
    /\ marker \in [Commit -> {"none", "live", "lapsed"}]
    /\ head \in [Branches -> Commit \cup {None}]
    /\ prev \in [Branches -> Commit \cup {None}]

LeaseOK == lease \in Lease /\ lapsed \in BOOLEAN

HashOK ==
    /\ minted \in Commit
    /\ parents \in [Commit -> SUBSET Commit] /\ tree \in [Commit -> SUBSET Items]
    /\ anc \in [Commit -> SUBSET Commit]
    /\ known \subseteq Commit /\ dropped \subseteq Commit

SweepOK ==
    /\ phase \in {"off", "markers", "heads", "remove", "release"}
    /\ cut \in Nat /\ todo \subseteq Branches
    /\ gray \subseteq Commit /\ black \subseteq Commit
    /\ keep \subseteq Items /\ stale \subseteq Commit
    /\ gone \subseteq Commit /\ goneItems \subseteq Items

HandleOK ==
    /\ pc \in [Writers -> {"idle", "build", "wait", "land", "publish", "rewait",
                          "ancestor", "claim", "check", "install"}]
    /\ op \in [Writers -> Ops \cup {"none"}]
    /\ br \in [Writers -> Branches] /\ tb \in [Writers -> Branches]
    /\ base \in [Writers -> Commit]
    /\ ours \in [Writers -> Commit \cup {None}] /\ merged \in [Writers -> Commit \cup {None}]
    /\ theirs \in [Writers -> Commit \cup {None}] /\ exp \in [Writers -> Commit \cup {None}]
    /\ draft \in [Writers -> Draft] /\ seen \in [Writers -> Lease]

\* Every variable has its type; a handle always has a base commit that was
\* landed (VersionedKV.currentCommit is never null).
TypeOK == StoreOK /\ LeaseOK /\ HashOK /\ SweepOK /\ HandleOK

\* A sweep takes nothing a head needs: the records, HAMT nodes and blobs of
\* every commit in every branch's history stay in the store, whatever
\* writers and sweeps do beside each other ("safe beside concurrent
\* writers ... Any value is safe, 0 included").
HistoryIntact ==
    \A b \in Branches : head[b] # None => \A c \in anc[head[b]] : Intact(c)

\* The same for what a head itself names, without its history: a reader who
\* opens any branch can read every key, young orphans spared or not.
HeadsIntact == \A b \in Branches : head[b] # None => Intact(head[b])

\* A marker protects its commit until it is published or withdrawn: a commit
\* in flight is stored, and is whole whenever the commit it was built on is.
MarkersProtect ==
    \A c \in Commit : marker[c] # "none" =>
        c \in stored /\ ((\A p \in parents[c] : Intact(p)) => Intact(c))

\* A published commit keeps no marker: no commit in a branch's history is
\* still marked in flight, the losing side of a lost race included.
PublishedUnmarked ==
    \A b \in Branches : head[b] # None => \A c \in anc[head[b]] : marker[c] = "none"

\* An attempt that was given up leaves nothing reachable: no commit of a
\* call that failed or crashed is ever part of a branch's history.
DroppedUnreachable ==
    \A b \in Branches : head[b] # None => anc[head[b]] \cap dropped = {}

\* The protocol implements KvBranches: seen through its published commits,
\* whatever lands, races, is given up or is swept, a branch moves in one
\* step, to a commit that holds its last head unless a reset moves it, and a
\* published commit's history never changes.
B == INSTANCE KvBranches WITH
    Branch <- Branches,
    Resets <- "reset" \in Ops,
    published <- [c \in Commit |-> IF c \in known THEN anc[c] ELSE {}]
AtomicBranches == B!Spec

\* The same of every step, from a store that has a history already.
AtomicMoves == [][B!Next]_(B!vars)

\* The backup always names the commit HEAD held immediately before, and
\* never outlives its branch or comes back with a new one.
BackupFollows == [][
    \A b \in Branches :
        head'[b] # head[b] => prev'[b] = IF head'[b] = None THEN None ELSE head[b]
    ]_vars

\* Nothing lands under a sweep: while one runs, no records, content, marker
\* or head appears, so what it read stays true until it removes.
LandsNothing ==
    /\ stored' \subseteq stored /\ items' \subseteq items
    /\ \A b \in Branches : head'[b] \in {head[b], None}
    /\ \A c \in Commit : marker'[c] = "live" => marker[c] = "live"
NothingLandsUnderSweep == [][phase # "off" /\ phase' # "off" => LandsNothing]_vars

=============================================================================
