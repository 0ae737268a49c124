---------------------------- MODULE KvWorktree ----------------------------
(* Worktrees of one branch (kvgit-ts/src/worktree.ts, and staged.ts, its    *)
(* older form), over the commit and merge orchestration of versioned/base.ts*)
(*                                                                          *)
(* A worktree holds pending writes, pending removals and a read cache over  *)
(* a handle on the branch. Writes are made at any moment; the calls that    *)
(* move the branch are awaited, and take turns on the handle. A commit      *)
(* takes a copy of what is pending when it is called, and clears when it    *)
(* has landed: what happens in between is what this module is about.        *)
(*                                                                          *)
(* A commit is its number, and keeps its keys' values and its ancestors. A  *)
(* value is the number of the write that made it. How a head moves in the   *)
(* store, beside a garbage collector, is KvGC's: here it is one step.       *)
EXTENDS Naturals, Sequences, FiniteSets, Functions, SequencesExt

CONSTANTS
    Trees,      \* the worktrees
    Keys,
    Absent,     \* no value
    Nothing,    \* no commit: a deleted branch
    Mixed,      \* what a merge function makes of two values
    Rules,      \* merge rules: a side for all keys, a function, or "none"
    Acts,       \* the calls an instance makes
    MaxWrites, MaxAsked, MaxBuilt

ASSUME WritesAssumption == MaxWrites \in Nat

VARIABLES
    commit,     \* the commits made: data, ancestors
    tip,        \* the branch's head
    held,       \* the commits it has named
    cur, base,  \* each handle's commit, and the commit it publishes over
    updates, removals, cache,
    reading,    \* the read in flight, and the deletion in flight
    deleting,
    queue,      \* the calls in progress; the first one runs
    writes, asked

store == <<commit, tip, held>>
buffer == <<updates, removals, cache, reading, deleting>>
wvars == <<commit, tip, held, cur, base, updates, removals, cache, reading, deleting,
          queue, writes, asked>>

Root == 0
Empty == <<>>
Data(c) == IF c = Root THEN [k \in Keys |-> Absent] ELSE commit[c].data
Ancestors(c) == IF c = Root THEN {Root} ELSE commit[c].anc \cup {c}

---------------------------------------------------------------------------
(* Three-way merges *)

Changed(a, b) == {k \in Keys : Data(a)[k] # Data(b)[k]}

(* The lowest common ancestors; of several, any. *)
MergeBases(a, b) ==
    LET common == Ancestors(a) \cap Ancestors(b)
    IN  {c \in common : \A d \in common \ {c} : c \notin Ancestors(d)}

Contested(old, ours, theirs) ==
    {k \in Changed(old, ours) \cap Changed(old, theirs) : Data(ours)[k] # Data(theirs)[k]}

Conflicts(old, ours, theirs, rule) == rule = "none" /\ Contested(old, ours, theirs) # {}

(* A side as a rule has every key either side changed; a function is asked  *)
(* about contested keys alone.                                              *)
Merged(old, ours, theirs, rule) ==
    [k \in Keys |->
        CASE rule = "ours" -> Data(ours)[k]
          [] rule = "theirs" -> IF k \in Changed(old, ours) \cup Changed(old, theirs)
                                THEN Data(theirs)[k] ELSE Data(ours)[k]
          [] OTHER -> IF k \in Contested(old, ours, theirs) THEN Mixed
                      ELSE IF k \in Changed(old, theirs) THEN Data(theirs)[k]
                      ELSE Data(ours)[k]]

---------------------------------------------------------------------------
WInit ==
    /\ commit = <<>> /\ tip = Root /\ held = {Root}
    /\ cur = [w \in Trees |-> Root] /\ base = [w \in Trees |-> Root]
    /\ updates = [w \in Trees |-> Empty] /\ removals = [w \in Trees |-> {}]
    /\ cache = [w \in Trees |-> Empty]
    /\ reading = [w \in Trees |-> Nothing] /\ deleting = [w \in Trees |-> Nothing]
    /\ queue = [w \in Trees |-> <<>>]
    /\ writes = 0 /\ asked = 0

Busy(w) == queue[w] # <<>>
Called(w) == Head(queue[w])
Running(w, op, step) == Busy(w) /\ Called(w).op = op /\ Called(w).step = step
Step(w, call) == queue' = [queue EXCEPT ![w] = <<call>> \o Tail(@)]
GoTo(w, step) == Step(w, [Called(w) EXCEPT !.step = step])

Shown(w, k) ==
    IF k \in removals[w] THEN Absent
    ELSE IF k \in DOMAIN updates[w] THEN updates[w][k].val
    ELSE IF k \in DOMAIN cache[w] THEN cache[w][k].val ELSE Data(cur[w])[k]

Without(f, ks) == Restrict(f, DOMAIN f \ ks)
With(f, k, v) == [j \in DOMAIN f \cup {k} |-> IF j = k THEN v ELSE f[j]]

---------------------------------------------------------------------------
(* Reads and writes. `late` marks what was written while a call was in      *)
(* progress, and `old` a read of a commit the worktree is not based on: the *)
(* handle moved while it was awaited, or stood on one not published yet.    *)

SetKey(w, k) ==
    /\ writes < MaxWrites
    /\ updates' = [updates EXCEPT ![w] = With(@, k, [val |-> writes + 1, late |-> Busy(w)])]
    /\ removals' = [removals EXCEPT ![w] = @ \ {k}]
    /\ writes' = writes + 1
    /\ UNCHANGED <<store, cur, base, cache, reading, deleting, queue, asked>>

(* A deletion looks the key up, drops its pending write, and looks whether  *)
(* there is a committed value to remove.                                    *)
DeleteKey(w, k) ==
    /\ deleting[w] = Nothing /\ Shown(w, k) # Absent
    /\ updates' = [updates EXCEPT ![w] = Without(@, {k})]
    /\ deleting' = [deleting EXCEPT ![w] = k]
    /\ UNCHANGED <<store, cur, base, removals, cache, reading, queue, writes, asked>>

Deleted(w) ==
    /\ deleting[w] # Nothing
    /\ removals' = [removals EXCEPT ![w] =
                      IF Data(cur[w])[deleting[w]] # Absent THEN @ \cup {deleting[w]} ELSE @]
    /\ deleting' = [deleting EXCEPT ![w] = Nothing]
    /\ UNCHANGED <<store, cur, base, updates, cache, reading, queue, writes, asked>>

(* What is neither pending nor cached is read from the commit's blob. *)
Read(w, k) ==
    /\ reading[w] = Nothing
    /\ k \notin removals[w] /\ k \notin DOMAIN updates[w] /\ k \notin DOMAIN cache[w]
    /\ Data(cur[w])[k] # Absent
    /\ reading' = [reading EXCEPT ![w] = [key |-> k, val |-> Data(cur[w])[k], old |-> cur[w] # base[w]]]
    /\ UNCHANGED <<store, cur, base, updates, removals, cache, deleting, queue, writes, asked>>

ReadDone(w) ==
    /\ reading[w] # Nothing
    /\ cache' = [cache EXCEPT ![w] =
                   With(@, reading[w].key, [val |-> reading[w].val, old |-> reading[w].old])]
    /\ reading' = [reading EXCEPT ![w] = Nothing]
    /\ UNCHANGED <<store, cur, base, updates, removals, deleting, queue, writes, asked>>

(* A call that moves the handle, and empties the cache, overtakes the read  *)
(* in flight, which lands in the cache after it.                            *)
Overtake(w) == reading' = [reading EXCEPT ![w] = IF @ = Nothing THEN Nothing ELSE [@ EXCEPT !.old = TRUE]]

Discard(w) ==
    /\ updates' = [updates EXCEPT ![w] = Empty]
    /\ removals' = [removals EXCEPT ![w] = {}]
    /\ cache' = [cache EXCEPT ![w] = Empty]

DiscardPending(w) ==
    /\ ~Busy(w) /\ (DOMAIN updates[w] # {} \/ removals[w] # {})
    /\ Discard(w)
    /\ UNCHANGED <<store, cur, base, reading, deleting, queue, writes, asked>>

---------------------------------------------------------------------------
(* Calls. A commit encodes the pending writes it is to take before it       *)
(* waits for its turn.                                                      *)

NoCall == [op |-> "none", step |-> "start", only |-> Keys, ups |-> Empty, rems |-> {},
           moved |-> "merge", rule |-> "none", theirs |-> Root, to |-> Root]

Ask(w, call) ==
    /\ asked < MaxAsked /\ Len(queue[w]) < 2
    /\ queue' = [queue EXCEPT ![w] = Append(@, call)]
    /\ asked' = asked + 1
    /\ UNCHANGED <<store, cur, base, buffer, writes>>

AskCommit(w) ==
    /\ "commit" \in Acts
    /\ \E only \in (SUBSET Keys) \ {{}}, moved \in {"merge", "raise"}, rule \in Rules :
         /\ moved = "raise" => rule = "none"
         /\ Ask(w, [NoCall EXCEPT !.op = "commit", !.only = only, !.moved = moved, !.rule = rule,
                      !.ups = [k \in DOMAIN updates[w] \cap only |-> updates[w][k].val],
                      !.rems = removals[w] \cap only])

Clean(w) == DOMAIN updates[w] = {} /\ removals[w] = {}

(* A merge, or the change between two commits, over a clean worktree. *)
AskMerge(w) ==
    /\ "merge" \in Acts /\ Clean(w)
    /\ \E theirs \in held \ {Root}, rule \in Rules, change \in BOOLEAN :
         IF change
         THEN \E from \in held :
                Ask(w, [NoCall EXCEPT !.op = "apply", !.theirs = theirs, !.to = from, !.rule = rule])
         ELSE Ask(w, [NoCall EXCEPT !.op = "merge", !.theirs = theirs, !.rule = rule])

AskMove(w) ==
    \/ "refresh" \in Acts /\ Ask(w, [NoCall EXCEPT !.op = "refresh"])
    \/ /\ "reset" \in Acts
       /\ \E c \in held : Ask(w, [NoCall EXCEPT !.op = "reset", !.to = c])

\* Mutant: a commit of some keys clears what else is pending.
ReturnAll(w) ==
    /\ queue' = [queue EXCEPT ![w] = Tail(@)]
    /\ Discard(w) /\ Overtake(w) /\ UNCHANGED deleting

\* Mutant: a commit leaves the cache as it was.
ReturnCached(w) ==
    /\ queue' = [queue EXCEPT ![w] = Tail(@)]
    /\ IF Called(w).op = "commit"
       THEN /\ updates' = [updates EXCEPT ![w] = Without(@, Called(w).only)]
            /\ removals' = [removals EXCEPT ![w] = @ \ Called(w).only]
            /\ UNCHANGED cache
       ELSE Discard(w)
    /\ Overtake(w) /\ UNCHANGED deleting

(* What a call leaves behind: a commit clears the keys it was given, or     *)
(* everything, and any move empties the cache.                              *)
Return(w) ==
    /\ queue' = [queue EXCEPT ![w] = Tail(@)]
    /\ CASE Called(w).op = "commit" ->
              /\ updates' = [updates EXCEPT ![w] = Without(@, Called(w).only)]
              /\ removals' = [removals EXCEPT ![w] = @ \ Called(w).only]
              /\ cache' = [cache EXCEPT ![w] = Empty]
         [] Called(w).op \in {"refresh", "reset"} -> Discard(w)
         [] OTHER -> cache' = [cache EXCEPT ![w] = Empty] /\ UNCHANGED <<updates, removals>>
    /\ Overtake(w) /\ UNCHANGED deleting

(* A call that throws, or abandons, goes back to where its handle was. *)
Fail(w) ==
    /\ queue' = [queue EXCEPT ![w] = Tail(@)]
    /\ cur' = [cur EXCEPT ![w] = base[w]]
    /\ UNCHANGED <<store, base, updates, removals, cache, reading, deleting>>

(* The commit a handle builds is its own at once, before it is published. *)
Room == Len(commit) < MaxBuilt
Build(w, data, parents) ==
    /\ Room
    /\ commit' = Append(commit, [data |-> data, anc |-> UNION {Ancestors(p) : p \in parents}])
    /\ cur' = [cur EXCEPT ![w] = Len(commit')]
    /\ UNCHANGED <<tip, held, base, buffer>>

Publish(w) ==
    /\ tip' = cur[w] /\ held' = held \cup {cur[w]}
    /\ base' = [base EXCEPT ![w] = cur[w]]
    /\ Return(w)
    /\ UNCHANGED <<commit, cur>>

---------------------------------------------------------------------------
(* Commit *)

NothingToDo(w) == DOMAIN Called(w).ups = {} /\ Called(w).rems = {}

CommitStart(w) ==
    /\ Running(w, "commit", "start")
    /\ CASE NothingToDo(w) ->
              IF Called(w).moved = "raise" /\ tip # base[w] THEN Fail(w)
              ELSE Return(w) /\ UNCHANGED <<store, cur, base>>
         [] ~NothingToDo(w) /\ (tip = Nothing \/ (Called(w).moved = "raise" /\ tip # base[w])) -> Fail(w)
         [] OTHER ->
              /\ Build(w, [k \in Keys |-> IF k \in DOMAIN Called(w).ups THEN Called(w).ups[k]
                                          ELSE IF k \in Called(w).rems THEN Absent
                                          ELSE Data(cur[w])[k]], {cur[w]})
              /\ IF tip = base[w] THEN GoTo(w, "publish")
                 ELSE Step(w, [Called(w) EXCEPT !.step = "merge", !.theirs = tip])
    /\ UNCHANGED <<writes, asked>>

(* The publish expects the branch at the handle's base; a lost race merges. *)
CommitPublish(w) ==
    /\ Running(w, "commit", "publish")
    /\ IF tip = base[w] THEN Publish(w)
       ELSE IF Called(w).moved = "raise" \/ tip = Nothing THEN Fail(w)
       ELSE /\ Step(w, [Called(w) EXCEPT !.step = "merge", !.theirs = tip])
            /\ UNCHANGED <<store, cur, base, buffer>>
    /\ UNCHANGED <<writes, asked>>

(* Merge with the branch, or with another commit, or apply a change. *)
MergeStep(w) ==
    /\ Busy(w) /\ Called(w).step = "merge"
    /\ LET ours == cur[w]
           theirs == Called(w).theirs
           parents == CASE Called(w).op = "commit" -> {theirs, ours}
                        [] Called(w).op = "merge" -> {ours, theirs}
                        [] OTHER -> {ours}
       IN  \E old \in IF Called(w).op = "apply" THEN {Called(w).to} ELSE MergeBases(ours, theirs) :
             LET data == Merged(old, ours, theirs, Called(w).rule)
             IN  IF Conflicts(old, ours, theirs, Called(w).rule) THEN Fail(w)
                 ELSE IF Called(w).op = "apply" /\ data = Data(ours)
                 THEN IF tip = ours THEN Return(w) /\ UNCHANGED <<store, cur, base>> ELSE Fail(w)
                 ELSE Build(w, data, parents) /\ GoTo(w, "land")
    /\ UNCHANGED <<writes, asked>>

Expected(w) == IF Called(w).op = "commit" THEN Called(w).theirs ELSE base[w]

Land(w) ==
    /\ Busy(w) /\ Called(w).step = "land"
    /\ IF tip = Expected(w) THEN Publish(w) ELSE Fail(w)
    /\ UNCHANGED <<writes, asked>>

---------------------------------------------------------------------------
(* Merge, apply, refresh, reset *)

MergeStart(w) ==
    /\ Busy(w) /\ Called(w).op \in {"merge", "apply"} /\ Called(w).step = "start"
    /\ IF Called(w).op = "apply" THEN GoTo(w, "merge") /\ UNCHANGED <<store, cur, base, buffer>>
       ELSE \E old \in MergeBases(cur[w], Called(w).theirs) :
            CASE old = Called(w).theirs ->
                   IF tip = cur[w] THEN Return(w) /\ UNCHANGED <<store, cur, base>> ELSE Fail(w)
              [] old # Called(w).theirs /\ old = cur[w] ->
                   GoTo(w, "forward") /\ UNCHANGED <<store, cur, base, buffer>>
              [] OTHER -> GoTo(w, "merge") /\ UNCHANGED <<store, cur, base, buffer>>
    /\ UNCHANGED <<writes, asked>>

Load(w, c) == Step(w, [Called(w) EXCEPT !.step = "load", !.to = c])

FastForward(w) ==
    /\ Busy(w) /\ Called(w).step = "forward"
    /\ IF tip = cur[w]
       THEN /\ tip' = Called(w).theirs /\ held' = held \cup {tip'}
            /\ Load(w, tip') /\ UNCHANGED <<commit, cur, base, buffer>>
       ELSE Fail(w)
    /\ UNCHANGED <<writes, asked>>

Refresh(w) ==
    /\ Running(w, "refresh", "start")
    /\ IF tip = Nothing THEN Fail(w)
       ELSE Load(w, tip) /\ UNCHANGED <<store, cur, base, buffer>>
    /\ UNCHANGED <<writes, asked>>

Reset(w) ==
    /\ Running(w, "reset", "start")
    /\ IF tip = Nothing THEN Fail(w)
       ELSE /\ tip' = Called(w).to /\ held' = held \cup {tip'}
            /\ Load(w, tip') /\ UNCHANGED <<commit, cur, base, buffer>>
    /\ UNCHANGED <<writes, asked>>

Loaded(w) ==
    /\ Busy(w) /\ Called(w).step = "load"
    /\ cur' = [cur EXCEPT ![w] = Called(w).to]
    /\ base' = [base EXCEPT ![w] = Called(w).to]
    /\ Return(w)
    /\ UNCHANGED <<store, writes, asked>>

DropBranch ==
    /\ "drop" \in Acts /\ tip # Nothing
    /\ tip' = Nothing
    /\ UNCHANGED <<commit, held, cur, base, buffer, queue, writes, asked>>

---------------------------------------------------------------------------
WNext ==
    \/ DropBranch
    \/ \E w \in Trees :
         \/ \E k \in Keys : SetKey(w, k) \/ DeleteKey(w, k) \/ Read(w, k)
         \/ Deleted(w) \/ ReadDone(w) \/ DiscardPending(w)
         \/ AskCommit(w) \/ AskMerge(w) \/ AskMove(w)
         \/ CommitStart(w) \/ CommitPublish(w) \/ MergeStep(w) \/ Land(w)
         \/ MergeStart(w) \/ FastForward(w) \/ Refresh(w) \/ Reset(w) \/ Loaded(w)

WSpec == WInit /\ [][WNext]_wvars

---------------------------------------------------------------------------
Values == {Absent, Mixed} \cup 1 .. MaxWrites

WTypeOK ==
    /\ \A c \in DOMAIN commit : /\ commit[c].data \in [Keys -> Values]
                                /\ commit[c].anc \subseteq 0 .. c - 1
    /\ tip \in held \cup {Nothing} /\ held \subseteq 0 .. Len(commit)
    /\ cur \in [Trees -> 0 .. Len(commit)] /\ base \in [Trees -> held]
    /\ \A w \in Trees : /\ DOMAIN updates[w] \subseteq Keys /\ removals[w] \subseteq Keys
                        /\ DOMAIN cache[w] \subseteq Keys /\ Len(queue[w]) <= 2

(* Between calls a handle stands on a commit its branch held: one that a    *)
(* lost race, a conflict or a deleted branch kept out is never left behind. *)
NoPhantom == \A w \in Trees : ~Busy(w) => cur[w] = base[w]

(* The cache holds what the commit the worktree is based on holds, but for  *)
(* a read the handle's move overtook, or of a commit that was built and     *)
(* never published.                                                         *)
CacheTrue ==
    \A w \in Trees : ~Busy(w) =>
        \A k \in DOMAIN cache[w] : ~cache[w][k].old => cache[w][k].val = Data(cur[w])[k]

(* Without the exception it does not hold: such a value stays in the cache  *)
(* till the next move.                                                      *)
CacheFresh ==
    \A w \in Trees : ~Busy(w) =>
        \A k \in DOMAIN cache[w] : cache[w][k].val = Data(cur[w])[k]

Moves(w) == tip' # tip /\ queue'[w] # queue[w]

(* A branch moves only over commits it follows, except by a reset: no       *)
(* worktree's commit is ever taken out of the history by another's.         *)
NothingOverwritten ==
    [][\A w \in Trees : Moves(w) /\ Called(w).op # "reset" => tip \in Ancestors(tip)']_wvars

(* What a commit took is what it holds, and no key it did not take has      *)
(* changed, whatever it merged with; unless a rule gave the other side, or a *)
(* merge function, the say, or what it took was no change to begin with.    *)
HoldsTaken(w, data, over) ==
    \A k \in Keys :
        LET call == Called(w)
            ours == IF k \in DOMAIN call.ups THEN call.ups[k] ELSE Absent
        IN  IF k \in DOMAIN call.ups \cup call.rems
            THEN \/ data[k] = ours
                 \/ data[k] = Mixed /\ call.rule \notin {"none", "ours", "theirs"}
                 \/ data[k] = Data(over)[k] /\ (call.rule = "theirs" \/ Data(base[w])[k] = ours)
            ELSE \/ data[k] = Data(over)[k]
                 \/ data[k] = Data(base[w])[k] /\ call.rule = "ours"

(* Of a handle whose branch has not been reset away from under it: a commit *)
(* from there brings back what the reset took off, for that is a change     *)
(* since the last commit both have in their history.                        *)
OnlyTaken ==
    [][\A w \in Trees : Moves(w) /\ Called(w).op = "commit" /\ base[w] \in Ancestors(tip) =>
          HoldsTaken(w, Data(tip)', tip)]_wvars

(* A pending write goes only when its owner drops it, or when a commit that *)
(* took that very write has landed, if it was not made while a call was in  *)
(* progress.                                                                *)
Kept(w, k) ==
    \/ k \in DOMAIN updates'[w] \/ deleting'[w] = k
    \/ /\ Busy(w) /\ queue'[w] # queue[w]
       /\ \/ Called(w).op \in {"refresh", "reset"}
          \/ /\ Called(w).op = "commit" /\ k \in DOMAIN Called(w).ups
             /\ Called(w).ups[k] = updates[w][k].val
             /\ cur'[w] = tip' /\ base'[w] = tip'
    \/ ~Busy(w) /\ updates'[w] = Empty /\ removals'[w] = {}

WritesKept ==
    [][\A w \in Trees : \A k \in DOMAIN updates[w] : ~updates[w][k].late => Kept(w, k)]_wvars

\* Between calls a worktree stands on the commit it publishes over, and what
\* it has cached is that commit's, a read it awaited over a move of its handle
\* or while a commit of its own was not published excepted (worktree.ts, get,
\* commit; CacheFresh is what its comment says of every read).
WorktreeTrue == WTypeOK /\ NoPhantom /\ CacheTrue

\* Of two worktrees' commits neither overwrites what the other wrote unseen,
\* or writes what it didn't stage; and what was written while no call was
\* under way stays staged, or was committed (staged.ts, worktree.ts).
WorktreeCommitsTaken == NothingOverwritten /\ OnlyTaken /\ WritesKept

PendingUntilCommit ==
    [][\A w \in Trees : \A k \in DOMAIN updates[w] : Kept(w, k)]_wvars
=============================================================================
