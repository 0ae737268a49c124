---------------------------- MODULE Kvgit_proofs ----------------------------
(* That refs and what is kept about remotes name what is there, and move as *)
(* sync may move them, for any stores, remotes, tabs and calls (KvSync:     *)
(* SyncTrue and SyncMovesKept); that worktrees of one branch keep what is   *)
(* written in them and overwrite nothing of each other's, for any worktrees,*)
(* keys, merge rules, and any number of writes, calls and commits           *)
(* (KvWorktree: WorktreeTrue and WorktreeCommitsTaken); and that the        *)
(* backends they are kept in implement the store kvgit asks for (KvStore).  *)
EXTENDS KvSync, KvWorktree, SequenceTheorems, TLAPS

---------------------------------------------------------------------------
(* The inductive invariant *)

(* A commit's history holds its members' histories. *)
HistoriesClosed == \A c \in Commits : \A a \in anc[c] : anc[a] \subseteq anc[c]

BeenAt == \A n \in Nodes : head[n] # None => head[n] \in ever[n]

(* The remote's branch has been at c, and the store's at a commit after it. *)
Known(s, r, c) == c \in ever[r] /\ \E e \in ever[s] : c \in Anc(e)

RecordsKnown ==
    \A s \in Stores, r \in Remotes :
        /\ record[s][r] # None => Known(s, r, record[s][r])
        /\ shared[s] # None => Known(s, r, shared[s])

(* The steps of a transfer, up to its branch's move. *)
Transfer == {"fetch", "take", "check", "land", "move"}

StepOf(op, step) ==
    \/ op = "idle" /\ step = "none"
    \/ op \in {"pull", "sync"}
         /\ step \in {"remote", "local", "claim", "shared", "judge", "record"} \cup Transfer
    \/ op = "push"
         /\ step \in {"exists", "mark", "read", "claim", "shared", "look", "judge", "record"} \cup Transfer
    \/ op = "delete"
         /\ step \in {"claim", "shared", "delete", "again", "own", "old", "last", "unmark"}
    \/ op = "forget" /\ step \in {"own", "old", "last", "unmark"}
    \/ op = "unless" /\ step \in {"head", "marked", "sharing", "records", "remove"}

(* A call is at a step of its own, and what it read of the refs was there. *)
CallSound(t) ==
    LET c == call[t]
        s == Home[t]
    IN  /\ StepOf(c.op, c.step)
        /\ IF c.op = "idle" THEN c = Idle ELSE c.r \in Remotes
        /\ c.there # None => c.there \in ever[c.r]
        /\ c.here # None => c.here \in ever[s]
        /\ c.shares # None => Known(s, c.r, c.shares)

PullSound(t) ==
    LET c == call[t]
    IN  c.op \in {"pull", "sync"} =>
          /\ c.step \in Transfer \cup {"record"} => c.there # None
          /\ c.step = "move" => c.here = None \/ c.here \in Anc(c.there)
          /\ c.step = "record" => c.there \in ever[Home[t]]

PushSound(t) ==
    LET c == call[t]
    IN  c.op = "push" =>
          /\ c.step \notin {"exists", "mark", "read"} => c.here # None
          /\ c.step \in Transfer => c.there = None \/ c.there \in Anc(c.here)
          /\ c.step = "record" => c.here \in ever[c.r]

(* A push whose store knew of the branch's sync still reads it there. *)
PushKnows(t) ==
    LET c == call[t]
    IN  c.op = "push" =>
          /\ c.step \in Transfer /\ c.there = None => c.shares = None
          /\ c.knew = "own" /\ t \notin forgot =>
               /\ record[Home[t]][c.r] # None
               /\ c.step # "shared"
               /\ c.step \in {"look", "judge", "record"} \cup Transfer => c.shares # None

Marked(s) == s \in mark \cup stripped

PushMarked(t) == PushBegun(t) => Marked(Home[t])

(* What a deletion found unshared is unshared, or has since been marked. *)
UnlessSound(t) ==
    LET s == Home[t]
    IN  call[t].op = "unless" =>
          /\ call[t].step \in {"records", "remove"} => shared[s] = None
          /\ call[t].step = "remove" => Marked(s) \/ \A r \in Remotes : record[s][r] = None

(* A commit found with its parents has them when it lands, or is `bare`. *)
Whole(n, c) == Parents(c) \subseteq has[n] \/ <<n, c>> \in bare

Landing(t) ==
    /\ call[t].step \in {"check", "land"} => call[t].next # None
    /\ \A n \in Nodes, c \in Commits :
          call[t].step = "land" /\ To(t) = n /\ call[t].next = c => Whole(n, c)

Sound(t) ==
    /\ CallSound(t) /\ PullSound(t) /\ PushSound(t) /\ PushKnows(t) /\ PushMarked(t)
    /\ UnlessSound(t) /\ Landing(t)

IInv ==
    /\ TypeOK /\ HistoriesClosed /\ HistoryWhole /\ BeenAt /\ RecordsKnown
    /\ \A t \in Tabs : Sound(t)

---------------------------------------------------------------------------
(* What a step leaves standing *)

LandsAt(n, c) == \E u \in Tabs : call[u].step = "land" /\ To(u) = n /\ call[u].next = c

(* Histories and what branches have been at only grow, and what is to land  *)
(* where its parents are keeps them, or is known to have lost them.         *)
Later ==
    /\ Commits \subseteq Commits' /\ \A c \in Commits : anc'[c] = anc[c]
    /\ \A n \in Nodes : ever[n] \subseteq ever'[n]
    /\ \A n \in Nodes, c \in Commits : LandsAt(n, c) /\ Whole(n, c) => Whole(n, c)'

(* Nothing a call u relies on in its store's books is taken back, but by a  *)
(* forgetting it is counted among.                                          *)
RefsKept(u) ==
    LET s == Home[u]
        r == call[u].r
    IN  /\ u \notin forgot' => u \notin forgot /\ (r \in Remotes /\ record[s][r] # None => record'[s][r] # None)
        /\ shared[s] = None => shared'[s] = None
        /\ PushBegun(u) /\ Marked(s) => Marked(s)'
        /\ shared[s] = None /\ (Marked(s) \/ \A q \in Remotes : record[s][q] = None) =>
              Marked(s)' \/ \A q \in Remotes : record'[s][q] = None

LEMMA SameHistories ==
    ASSUME UNCHANGED anc
    PROVE  \A c : Anc(c)' = Anc(c) /\ Parents(c)' = Parents(c)
BY DEF Anc, Parents

LEMMA ToNode ==
    ASSUME TypeOK, NEW t \in Tabs, call[t].step \in Transfer, Sound(t)
    PROVE  To(t) \in Nodes /\ From(t) \in Nodes
BY SyncAssumption DEF To, From, Nodes, Sound, CallSound, StepOf, Transfer, TypeOK

(* What is known of two branches stays known. *)
LEMMA KnownLater ==
    ASSUME TypeOK, Later, NEW s \in Nodes, NEW r \in Nodes, NEW c \in Commits, Known(s, r, c)
    PROVE  Known(s, r, c)'
<1>1. c \in ever'[r]
  BY DEF Known, Later
<1>2. PICK e \in ever[s] : c \in Anc(e)
  BY DEF Known
<1>3. e \in Commits /\ e # None
  BY SyncAssumption DEF TypeOK, Commits
<1>4. e \in ever'[s] /\ anc'[e] = anc[e]
  BY <1>3 DEF Later
<1> QED BY <1>1, <1>2, <1>3, <1>4 DEF Known, Anc

(* A call that does not move stays sound when the rest grows. *)
LEMMA StaysSound ==
    ASSUME TypeOK, Later, NEW u \in Tabs, Sound(u), call'[u] = call[u], RefsKept(u)
    PROVE  Sound(u)'
<1> DEFINE c == call[u]
           s == Home[u]
<1>1. /\ c \in Call /\ s \in Stores /\ s \in Nodes
      /\ \A r \in Remotes : r \in Nodes /\ r # None
  BY SyncAssumption DEF TypeOK, Nodes
<1>2. CallSound(u)'
  <2>1. c.there # None \/ c.shares # None => c.r \in Remotes
    BY DEF Sound, CallSound, Idle, New
  <2>4. c.there # None => c.there \in ever'[c.r]
    BY <1>1, <2>1 DEF Sound, CallSound, Later
  <2>2. c.here # None => c.here \in ever'[s]
    BY <1>1 DEF Sound, CallSound, Later
  <2>3. c.shares # None => Known(s, c.r, c.shares)'
    BY <1>1, <2>1, KnownLater DEF Sound, CallSound, Call
  <2> QED BY <2>2, <2>3, <2>4 DEF Sound, CallSound
<1>3. PullSound(u)'
  <2>1. CASE c.op \in {"pull", "sync"}
    <3>1. c.there # None => anc'[c.there] = anc[c.there]
      BY <1>1 DEF Call, Later
    <3> QED BY <1>1, <2>1, <3>1 DEF Sound, PullSound, Later, Anc, Transfer
  <2>2. CASE c.op \notin {"pull", "sync"}
    BY <2>2 DEF PullSound
  <2> QED BY <2>1, <2>2
<1>4. PushSound(u)'
  <2>1. CASE c.op = "push"
    <3>1. c.r \in Nodes
      BY <1>1, <2>1 DEF Sound, CallSound
    <3>2. c.here # None => anc'[c.here] = anc[c.here]
      BY <1>1 DEF Call, Later
    <3> QED BY <2>1, <3>1, <3>2 DEF Sound, PushSound, Later, Anc
  <2>2. CASE c.op # "push"
    BY <2>2 DEF PushSound
  <2> QED BY <2>1, <2>2
<1>5. PushKnows(u)'
  BY <1>1 DEF Sound, CallSound, PushKnows, RefsKept
<1>6. PushMarked(u)'
  BY DEF Sound, PushMarked, RefsKept, PushBegun, Marked
<1>7. UnlessSound(u)'
  BY DEF Sound, UnlessSound, RefsKept, Marked
<1>8. Landing(u)'
  <2>1. call[u].step \in {"check", "land"} => call[u].next # None
    BY DEF Sound, Landing
  <2>2. SUFFICES ASSUME call[u].step = "land", NEW n \in Nodes, NEW d, To(u) = n, call[u].next = d
                 PROVE  Whole(n, d)'
    BY <2>1 DEF Landing, To
  <2>3. d \in Commits
    BY <1>1, <2>1, <2>2 DEF Call
  <2>4. Whole(n, d) /\ LandsAt(n, d)
    BY <2>2, <2>3 DEF Sound, Landing, LandsAt
  <2> QED BY <2>3, <2>4 DEF Later
<1> QED BY <1>2, <1>3, <1>4, <1>5, <1>6, <1>7, <1>8 DEF Sound

(* So a step of one call has only that call to account for. *)
LEMMA OthersSound ==
    ASSUME IInv, Later, NEW t \in Tabs, \A u \in Tabs \ {t} : RefsKept(u),
           \A u \in Tabs \ {t} : call'[u] = call[u], Sound(t)'
    PROVE  \A u \in Tabs : Sound(u)'
<1>1. SUFFICES ASSUME NEW u \in Tabs PROVE Sound(u)'
  OBVIOUS
<1>2. CASE u = t
  BY <1>2
<1>3. CASE u # t
  BY <1>3, StaysSound DEF IInv
<1> QED BY <1>2, <1>3

LEMMA SetKnown ==
    ASSUME TypeOK, NEW t \in Tabs, NEW c \in Call, Set(t, c)
    PROVE  call' \in [Tabs -> Call] /\ call'[t] = c /\ \A u \in Tabs \ {t} : call'[u] = call[u]
BY DEF TypeOK, Set

(* The history and what was shared do not turn on the calls. *)
LEMMA OnlyCall ==
    ASSUME IInv, NEW t \in Tabs, NEW c \in Call, Set(t, c),
           UNCHANGED <<anc, calls, refs, books>>, Sound(t)'
    PROVE  IInv'
<1>1. /\ Commits' = Commits /\ \A n : Anc(n)' = Anc(n) /\ Parents(n)' = Parents(n)
      /\ Call' = Call
  BY SameHistories DEF Commits, Call
<1>2. TypeOK'
  BY <1>1, SetKnown DEF IInv, TypeOK, refs, books
<1>3. HistoriesClosed' /\ BeenAt' /\ HistoryWhole'
  BY <1>1 DEF IInv, HistoriesClosed, BeenAt, HistoryWhole, refs
<1>4. RecordsKnown'
  BY <1>1 DEF IInv, RecordsKnown, Known, refs, books
<1>5. Later /\ \A u \in Tabs : RefsKept(u)
  BY <1>1 DEF Later, Whole, RefsKept, Marked, refs, books
<1>6. \A u \in Tabs : Sound(u)'
  BY <1>5, SetKnown, OthersSound DEF IInv
<1> QED BY <1>2, <1>3, <1>4, <1>6 DEF IInv

LEMMA IdleSound ==
    ASSUME NEW t \in Tabs, call'[t] = Idle
    PROVE  Sound(t)'
BY DEF Sound, CallSound, PullSound, PushSound, PushKnows, PushMarked, UnlessSound, Landing, PushBegun,
       StepOf, Transfer, Idle, New

LEMMA NewCall ==
    ASSUME NEW op \in {"pull", "push", "sync", "delete", "forget", "unless"}, NEW step \in Steps,
           NEW r \in Remotes, NEW d, d = New(op, step, r)
    PROVE  /\ d \in Call /\ d.op = op /\ d.step = step /\ d.r = r
           /\ d.there = None /\ d.here = None /\ d.shares = None /\ d.knew = "no"
BY DEF Call, New

LEMMA IdleCall == Idle \in Call
BY DEF Idle, New, Call, Steps

LEMMA EndKeeps ==
    ASSUME IInv, NEW t \in Tabs, End(t), UNCHANGED <<anc, calls, refs, books>>
    PROVE  IInv'
BY IdleSound, IdleCall, SetKnown, OnlyCall DEF IInv, End
LEMMA CallHas ==
    ASSUME IInv, NEW t \in Tabs
    PROVE  /\ call[t] \in Call /\ Home[t] \in Stores /\ Home[t] \in Nodes /\ Sound(t)
           /\ call[t].op # "idle" => call[t].r \in Remotes /\ call[t].r \in Nodes
           /\ Idle \in Call /\ TypeOK
BY SyncAssumption, IdleCall DEF IInv, TypeOK, Sound, CallSound, Nodes

(* A step that only reads: what it wrote down in its call is sound. *)
LEMMA ReadsKeep ==
    ASSUME IInv, NEW t \in Tabs, NEW c \in Call, Set(t, c), UNCHANGED <<anc, calls, refs, books>>,
           /\ StepOf(c.op, c.step) /\ IF c.op = "idle" THEN c = Idle ELSE c.r \in Remotes
           /\ c.there # None => c.there \in ever[c.r]
           /\ c.here # None => c.here \in ever[Home[t]]
           /\ c.shares # None => Known(Home[t], c.r, c.shares)
           /\ c.op \in {"pull", "sync"} =>
                 /\ c.step \in Transfer \cup {"record"} => c.there # None
                 /\ c.step = "move" => c.here = None \/ c.here \in Anc(c.there)
                 /\ c.step = "record" => c.there \in ever[Home[t]]
           /\ c.op = "push" =>
                 /\ c.step \notin {"exists", "mark", "read"} => c.here # None
                 /\ c.step \in Transfer => c.there = None \/ c.there \in Anc(c.here)
                 /\ c.step = "record" => c.here \in ever[c.r]
                 /\ c.step \in Transfer /\ c.there = None => c.shares = None
                 /\ c.knew = "own" /\ t \notin forgot =>
                      /\ record[Home[t]][c.r] # None
                      /\ c.step # "shared"
                      /\ c.step \in {"look", "judge", "record"} \cup Transfer => c.shares # None
                 /\ c.step \notin {"exists", "mark"} => Marked(Home[t])
           /\ c.op = "unless" =>
                 /\ c.step \in {"records", "remove"} => shared[Home[t]] = None
                 /\ c.step = "remove" => Marked(Home[t]) \/ \A r \in Remotes : record[Home[t]][r] = None
           /\ c.step = "check" => c.next # None
           /\ c.step # "land"
    PROVE  IInv'
<1>1. call'[t] = c
  BY SetKnown DEF IInv
<1>2. /\ ever' = ever /\ anc' = anc /\ record' = record /\ shared' = shared
      /\ mark' = mark /\ forgot' = forgot /\ stripped' = stripped
  BY DEF refs, books
<1>3. CallSound(t)'
  BY <1>1, <1>2 DEF CallSound, Known, Anc
<1>4. PullSound(t)' /\ PushSound(t)'
  BY <1>1, <1>2 DEF PullSound, PushSound, Anc
<1>5. PushKnows(t)' /\ PushMarked(t)' /\ UnlessSound(t)'
  BY <1>1, <1>2 DEF PushKnows, PushMarked, UnlessSound, PushBegun, Marked
<1>6. Landing(t)'
  BY <1>1 DEF Landing
<1> QED BY <1>3, <1>4, <1>5, <1>6, OnlyCall DEF Sound

LEMMA ClaimOwnKeeps ==
    ASSUME IInv, NEW t \in Tabs, ClaimOwn(t)
    PROVE  IInv'
<1> DEFINE c == call[t]
           s == Home[t]
<1>h. /\ c \in Call /\ s \in Stores /\ s \in Nodes /\ Sound(t) /\ TypeOK
      /\ c.op # "idle" => c.r \in Remotes /\ c.r \in Nodes
  BY CallHas
<1>1. c.step = "claim" /\ c.op \in {"pull", "sync", "push", "delete"} /\ c.r \in Remotes
  BY <1>h DEF ClaimOwn, Sound, CallSound, StepOf
<1>2. PICK own : own = record[s][c.r]
  OBVIOUS
<1>3. PICK next : next = IF c.op = "push" THEN "look" ELSE IF c.op = "delete" THEN "delete" ELSE "judge"
  OBVIOUS
<1>4. own \in Commits \cup {None} /\ next \in Steps
  BY <1>h, <1>1, <1>2, <1>3 DEF TypeOK, Steps
<1>5. CASE own # None
  <2>1. Known(s, c.r, own)
    BY <1>h, <1>1, <1>2, <1>5 DEF IInv, RecordsKnown
  <2>a. PICK d : d = [c EXCEPT !.shares = own, !.step = next]
    OBVIOUS
  <2>b. Set(t, d) /\ UNCHANGED <<anc, calls, refs, books>>
    BY <1>h, <1>1, <1>2, <1>3, <1>4, <1>5, <2>1, <2>a DEF ClaimOwn, Claimed
  <2>c. /\ d \in Call /\ d.shares = own /\ d.step = next
        /\ d.op = c.op /\ d.r = c.r /\ d.there = c.there /\ d.here = c.here /\ d.knew = c.knew
    BY <1>h, <1>1, <1>2, <1>3, <1>4, <1>5, <2>1, <2>a DEF Call
  <2> QED BY <1>h, <1>1, <1>2, <1>3, <1>4, <1>5, <2>1, <2>b, <2>c, ReadsKeep
        DEF Sound, CallSound, PullSound, PushSound, PushKnows, PushMarked, UnlessSound, PushBegun,
          Transfer, Landing, StepOf
<1>6. CASE own = None
  <2>s. "shared" \in Steps
    BY DEF Steps
  <2>a. PICK d : d = [c EXCEPT !.step = "shared"]
    OBVIOUS
  <2>b. Set(t, d) /\ UNCHANGED <<anc, calls, refs, books>>
    BY <1>h, <1>1, <1>2, <1>4, <1>6, <2>a DEF ClaimOwn, Go
  <2>c. /\ d \in Call /\ d.step = "shared"
        /\ d.op = c.op /\ d.r = c.r /\ d.there = c.there /\ d.here = c.here /\ d.shares = c.shares /\ d.knew = c.knew
    BY <1>h, <1>1, <1>2, <1>4, <1>6, <2>s, <2>a DEF Call
  <2> QED BY <1>h, <1>1, <1>2, <1>4, <1>6, <2>b, <2>c, ReadsKeep
        DEF Sound, CallSound, PullSound, PushSound, PushKnows, PushMarked, UnlessSound, PushBegun,
          Transfer, Landing, StepOf
<1> QED BY <1>5, <1>6

LEMMA PullLookKeeps ==
    ASSUME IInv, NEW t \in Tabs, PullLook(t)
    PROVE  IInv'
<1> DEFINE c == call[t]
           s == Home[t]
<1>h. /\ c \in Call /\ s \in Stores /\ s \in Nodes /\ Sound(t) /\ TypeOK
      /\ c.op # "idle" => c.r \in Remotes /\ c.r \in Nodes
  BY CallHas
<1>1. c.op \in {"pull", "sync"} /\ c.r \in Remotes /\ c.step = "remote"
  BY <1>h DEF PullLook, Pulling
<1>2. PICK rh : rh = head[c.r]
  OBVIOUS
<1>3. rh \in Commits \cup {None} /\ (rh # None => rh \in ever[c.r])
  BY <1>h, <1>1, <1>2 DEF IInv, TypeOK, BeenAt
<1>s. "local" \in Steps
  BY DEF Steps
<1>a. PICK d : d = [c EXCEPT !.there = rh, !.step = "local"]
  OBVIOUS
<1>b. Set(t, d) /\ UNCHANGED <<anc, calls, refs, books>>
  BY <1>h, <1>1, <1>2, <1>3, <1>a DEF PullLook
<1>c. /\ d \in Call /\ d.there = rh /\ d.step = "local"
      /\ d.op = c.op /\ d.r = c.r /\ d.here = c.here /\ d.shares = c.shares /\ d.knew = c.knew
  BY <1>h, <1>1, <1>2, <1>3, <1>s, <1>a DEF Call
<1> QED BY <1>h, <1>1, <1>2, <1>3, <1>b, <1>c, ReadsKeep
      DEF Sound, CallSound, PullSound, PushSound, PushKnows, PushMarked, UnlessSound, PushBegun,
          Transfer, Landing, StepOf

LEMMA PullLocalKeeps ==
    ASSUME IInv, NEW t \in Tabs, PullLocal(t)
    PROVE  IInv'
<1> DEFINE c == call[t]
           s == Home[t]
<1>h. /\ c \in Call /\ s \in Stores /\ s \in Nodes /\ Sound(t) /\ TypeOK
      /\ c.op # "idle" => c.r \in Remotes /\ c.r \in Nodes
  BY CallHas
<1>1. c.op \in {"pull", "sync"} /\ c.r \in Remotes /\ c.step = "local"
  BY <1>h DEF PullLocal, Pulling
<1>2. PICK lh : lh = head[s]
  OBVIOUS
<1>3. lh \in Commits \cup {None} /\ (lh # None => lh \in ever[s])
  BY <1>h, <1>1, <1>2 DEF IInv, TypeOK, BeenAt
<1>s. "claim" \in Steps
  BY DEF Steps
<1>a. PICK d : d = [c EXCEPT !.here = lh, !.step = "claim"]
  OBVIOUS
<1>b. Set(t, d) /\ UNCHANGED <<anc, calls, refs, books>>
  BY <1>h, <1>1, <1>2, <1>3, <1>a DEF PullLocal
<1>c. /\ d \in Call /\ d.here = lh /\ d.step = "claim"
      /\ d.op = c.op /\ d.r = c.r /\ d.there = c.there /\ d.shares = c.shares /\ d.knew = c.knew
  BY <1>h, <1>1, <1>2, <1>3, <1>s, <1>a DEF Call
<1> QED BY <1>h, <1>1, <1>2, <1>3, <1>b, <1>c, ReadsKeep
      DEF Sound, CallSound, PullSound, PushSound, PushKnows, PushMarked, UnlessSound, PushBegun,
          Transfer, Landing, StepOf

(* A pull that ended well is over, or is now the push of a sync. *)
LEMMA EndPullSound ==
    ASSUME IInv, NEW t \in Tabs, Pulling(t), EndPull(t)
    PROVE  \E d \in Call : Set(t, d) /\ (call'[t] = d => Sound(t)')
<1> DEFINE c == call[t]
<1>1. c \in Call /\ c.r \in Remotes /\ Idle \in Call
  BY CallHas DEF Pulling
<1>2. CASE c.op = "sync"
  <2>1. PICK d : d = New("push", "exists", c.r)
    OBVIOUS
  <2>4. Set(t, d)
    BY <1>2, <2>1 DEF EndPull
  <2>2. /\ d \in Call /\ d.op = "push" /\ d.step = "exists" /\ d.r = c.r
        /\ d.there = None /\ d.here = None /\ d.shares = None /\ d.knew = "no"
    BY <1>1, <2>1, NewCall DEF Steps
  <2>3. call'[t] = d => Sound(t)'
    BY <1>1, <2>2 DEF Sound, CallSound, PullSound, PushSound, PushKnows, PushMarked, UnlessSound, PushBegun,
          Transfer, Landing, StepOf
  <2> QED BY <2>2, <2>3, <2>4
<1>3. CASE c.op # "sync"
  BY <1>1, <1>3, IdleSound DEF EndPull, End
<1> QED BY <1>2, <1>3

LEMMA PullNothingKeeps ==
    ASSUME IInv, NEW t \in Tabs, PullNothing(t)
    PROVE  IInv'
<1>1. CASE call[t].shares = None
  <2>1. PICK d \in Call : Set(t, d) /\ (call'[t] = d => Sound(t)')
    BY <1>1, EndPullSound DEF PullNothing
  <2> QED BY <2>1, SetKnown, OnlyCall DEF PullNothing, IInv
<1>2. CASE call[t].shares # None
  BY <1>2, EndKeeps DEF PullNothing
<1> QED BY <1>1, <1>2

LEMMA CrashKeeps ==
    ASSUME IInv, NEW t \in Tabs, Crash(t)
    PROVE  IInv'
BY EndKeeps DEF Crash

LEMMA PushExistsKeeps ==
    ASSUME IInv, NEW t \in Tabs, PushExists(t)
    PROVE  IInv'
<1> DEFINE c == call[t]
           s == Home[t]
<1>h. /\ c \in Call /\ s \in Stores /\ s \in Nodes /\ Sound(t) /\ TypeOK
      /\ c.op # "idle" => c.r \in Remotes /\ c.r \in Nodes
  BY CallHas
<1>1. c.op = "push" /\ c.step = "exists" /\ c.r \in Remotes
  BY <1>h DEF PushExists, At
<1>2. CASE head[s] = None
  BY <1>h, <1>2, EndKeeps DEF PushExists
<1>3. CASE head[s] # None
  <2>1. PICK knew : knew = Knows(s, c.r)
    OBVIOUS
  <2>2. knew \in {"no", "own", "old"} /\ (knew = "own" => record[s][c.r] # None)
    BY <2>1 DEF Knows
  <2>s. "mark" \in Steps
    BY DEF Steps
  <2>a. PICK d : d = [c EXCEPT !.step = "mark", !.knew = knew]
    OBVIOUS
  <2>b. Set(t, d) /\ UNCHANGED <<anc, calls, refs, books>>
    BY <1>h, <1>1, <1>3, <2>1, <2>2, <2>a DEF PushExists
  <2>c. /\ d \in Call /\ d.step = "mark" /\ d.knew = knew
        /\ d.op = c.op /\ d.r = c.r /\ d.there = c.there /\ d.here = c.here /\ d.shares = c.shares
    BY <1>h, <1>1, <1>3, <2>1, <2>2, <2>s, <2>a DEF Call
  <2> QED BY <1>h, <1>1, <1>3, <2>1, <2>2, <2>b, <2>c, ReadsKeep
        DEF Sound, CallSound, PullSound, PushSound, PushKnows, PushMarked, UnlessSound, PushBegun,
          Transfer, Landing, StepOf
<1> QED BY <1>2, <1>3

LEMMA PushReadKeeps ==
    ASSUME IInv, NEW t \in Tabs, PushRead(t)
    PROVE  IInv'
<1> DEFINE c == call[t]
           s == Home[t]
<1>h. /\ c \in Call /\ s \in Stores /\ s \in Nodes /\ Sound(t) /\ TypeOK
      /\ c.op # "idle" => c.r \in Remotes /\ c.r \in Nodes
  BY CallHas
<1>1. c.op = "push" /\ c.step = "read" /\ c.r \in Remotes
  BY <1>h DEF PushRead, At
<1>2. CASE head[s] = None
  BY <1>h, <1>2, EndKeeps DEF PushRead
<1>3. CASE head[s] # None
  <2>1. PICK lh : lh = head[s]
    OBVIOUS
  <2>2. lh \in Commits \cup {None} /\ lh # None /\ lh \in ever[s]
    BY <1>h, <1>3, <2>1 DEF IInv, TypeOK, BeenAt
  <2>s. "claim" \in Steps
    BY DEF Steps
  <2>a. PICK d : d = [c EXCEPT !.here = lh, !.step = "claim"]
    OBVIOUS
  <2>b. Set(t, d) /\ UNCHANGED <<anc, calls, refs, books>>
    BY <1>h, <1>1, <1>3, <2>1, <2>2, <2>a DEF PushRead
  <2>c. /\ d \in Call /\ d.here = lh /\ d.step = "claim"
        /\ d.op = c.op /\ d.r = c.r /\ d.there = c.there /\ d.shares = c.shares /\ d.knew = c.knew
    BY <1>h, <1>1, <1>3, <2>1, <2>2, <2>s, <2>a DEF Call
  <2> QED BY <1>h, <1>1, <1>3, <2>1, <2>2, <2>b, <2>c, ReadsKeep
        DEF Sound, CallSound, PullSound, PushSound, PushKnows, PushMarked, UnlessSound, PushBegun,
          Transfer, Landing, StepOf
<1> QED BY <1>2, <1>3

LEMMA PushLookKeeps ==
    ASSUME IInv, NEW t \in Tabs, PushLook(t)
    PROVE  IInv'
<1> DEFINE c == call[t]
           s == Home[t]
<1>h. /\ c \in Call /\ s \in Stores /\ s \in Nodes /\ Sound(t) /\ TypeOK
      /\ c.op # "idle" => c.r \in Remotes /\ c.r \in Nodes
  BY CallHas
<1>1. c.op = "push" /\ c.step = "look" /\ c.r \in Remotes
  BY <1>h DEF PushLook, At
<1>2. CASE c.tries = 2
  BY <1>h, <1>2, EndKeeps DEF PushLook
<1>3. CASE c.tries # 2
  <2>1. PICK rh : rh = head[c.r]
    OBVIOUS
  <2>2. rh \in Commits \cup {None} /\ (rh # None => rh \in ever[c.r])
    BY <1>h, <1>1, <2>1 DEF IInv, TypeOK, BeenAt
  <2>3. PICK tries : tries = c.tries + 1
    OBVIOUS
  <2>4. tries \in 0 .. 2
    BY <1>h, <1>3, <2>3 DEF Call
  <2>s. "judge" \in Steps
    BY DEF Steps
  <2>a. PICK d : d = [c EXCEPT !.there = rh, !.tries = tries, !.step = "judge"]
    OBVIOUS
  <2>b. Set(t, d) /\ UNCHANGED <<anc, calls, refs, books>>
    BY <1>h, <1>1, <1>3, <2>1, <2>2, <2>3, <2>4, <2>a DEF PushLook
  <2>c. /\ d \in Call /\ d.there = rh /\ d.tries = tries /\ d.step = "judge"
        /\ d.op = c.op /\ d.r = c.r /\ d.here = c.here /\ d.shares = c.shares /\ d.knew = c.knew
    BY <1>h, <1>1, <1>3, <2>1, <2>2, <2>3, <2>4, <2>s, <2>a DEF Call
  <2> QED BY <1>h, <1>1, <1>3, <2>1, <2>2, <2>3, <2>4, <2>b, <2>c, ReadsKeep
        DEF Sound, CallSound, PullSound, PushSound, PushKnows, PushMarked, UnlessSound, PushBegun,
          Transfer, Landing, StepOf
<1> QED BY <1>2, <1>3

LEMMA DeleteAgainKeeps ==
    ASSUME IInv, NEW t \in Tabs, DeleteAgain(t)
    PROVE  IInv'
<1> DEFINE c == call[t]
           s == Home[t]
<1>h. /\ c \in Call /\ s \in Stores /\ s \in Nodes /\ Sound(t) /\ TypeOK
      /\ c.op # "idle" => c.r \in Remotes /\ c.r \in Nodes
  BY CallHas
<1>1. c.op = "delete" /\ c.step = "again" /\ c.r \in Remotes
  BY <1>h DEF DeleteAgain, At
<1>2. CASE head[c.r] = None
  <2>s. "own" \in Steps
    BY DEF Steps
  <2>a. PICK d : d = [c EXCEPT !.step = "own"]
    OBVIOUS
  <2>b. Set(t, d) /\ UNCHANGED <<anc, calls, refs, books>>
    BY <1>h, <1>1, <1>2, <2>a DEF DeleteAgain, Go
  <2>c. /\ d \in Call /\ d.step = "own"
        /\ d.op = c.op /\ d.r = c.r /\ d.there = c.there /\ d.here = c.here /\ d.shares = c.shares /\ d.knew = c.knew
    BY <1>h, <1>1, <1>2, <2>s, <2>a DEF Call
  <2> QED BY <1>h, <1>1, <1>2, <2>b, <2>c, ReadsKeep
        DEF Sound, CallSound, PullSound, PushSound, PushKnows, PushMarked, UnlessSound, PushBegun,
          Transfer, Landing, StepOf
<1>3. CASE head[c.r] # None /\ head[c.r] = c.shares /\ c.tries = 0
  <2>1. PICK tries \in 0 .. 2 : tries = 1
    OBVIOUS
  <2>s. "delete" \in Steps
    BY DEF Steps
  <2>a. PICK d : d = [c EXCEPT !.step = "delete", !.tries = tries]
    OBVIOUS
  <2>b. Set(t, d) /\ UNCHANGED <<anc, calls, refs, books>>
    BY <1>h, <1>1, <1>3, <2>1, <2>a DEF DeleteAgain
  <2>c. /\ d \in Call /\ d.step = "delete" /\ d.tries = tries
        /\ d.op = c.op /\ d.r = c.r /\ d.there = c.there /\ d.here = c.here /\ d.shares = c.shares /\ d.knew = c.knew
    BY <1>h, <1>1, <1>3, <2>1, <2>s, <2>a DEF Call
  <2> QED BY <1>h, <1>1, <1>3, <2>1, <2>b, <2>c, ReadsKeep
        DEF Sound, CallSound, PullSound, PushSound, PushKnows, PushMarked, UnlessSound, PushBegun,
          Transfer, Landing, StepOf
<1>4. CASE head[c.r] # None /\ ~(head[c.r] = c.shares /\ c.tries = 0)
  BY <1>h, <1>4, EndKeeps DEF DeleteAgain
<1> QED BY <1>2, <1>3, <1>4

LEMMA ForgetLastKeeps ==
    ASSUME IInv, NEW t \in Tabs, ForgetLast(t)
    PROVE  IInv'
<1> DEFINE c == call[t]
           s == Home[t]
<1>h. /\ c \in Call /\ s \in Stores /\ s \in Nodes /\ Sound(t) /\ TypeOK
      /\ c.op # "idle" => c.r \in Remotes /\ c.r \in Nodes
  BY CallHas
<1>1. c.op \in {"delete", "forget"} /\ c.step = "last" /\ c.r \in Remotes
  BY <1>h DEF ForgetLast, Sound, CallSound, StepOf, Transfer
<1>2. CASE ~\A r \in Remotes : record[s][r] = None
  BY <1>h, <1>2, EndKeeps DEF ForgetLast
<1>3. CASE ~(~\A r \in Remotes : record[s][r] = None)
  <2>s. "unmark" \in Steps
    BY DEF Steps
  <2>a. PICK d : d = [c EXCEPT !.step = "unmark"]
    OBVIOUS
  <2>b. Set(t, d) /\ UNCHANGED <<anc, calls, refs, books>>
    BY <1>h, <1>1, <1>3, <2>a DEF ForgetLast, Go
  <2>c. /\ d \in Call /\ d.step = "unmark"
        /\ d.op = c.op /\ d.r = c.r /\ d.there = c.there /\ d.here = c.here /\ d.shares = c.shares /\ d.knew = c.knew
    BY <1>h, <1>1, <1>3, <2>s, <2>a DEF Call
  <2> QED BY <1>h, <1>1, <1>3, <2>b, <2>c, ReadsKeep
        DEF Sound, CallSound, PullSound, PushSound, PushKnows, PushMarked, UnlessSound, PushBegun,
          Transfer, Landing, StepOf
<1> QED BY <1>2, <1>3

LEMMA UnlessHeadKeeps ==
    ASSUME IInv, NEW t \in Tabs, UnlessHead(t)
    PROVE  IInv'
<1> DEFINE c == call[t]
           s == Home[t]
<1>h. /\ c \in Call /\ s \in Stores /\ s \in Nodes /\ Sound(t) /\ TypeOK
      /\ c.op # "idle" => c.r \in Remotes /\ c.r \in Nodes
  BY CallHas
<1>1. c.op = "unless" /\ c.step = "head" /\ c.r \in Remotes
  BY <1>h DEF UnlessHead, At
<1>2. CASE head[s] = None
  BY <1>h, <1>2, EndKeeps DEF UnlessHead
<1>3. CASE head[s] # None
  <2>1. PICK lh : lh = head[s]
    OBVIOUS
  <2>2. lh \in Commits \cup {None} /\ lh \in ever[s]
    BY <1>h, <1>3, <2>1 DEF IInv, TypeOK, BeenAt
  <2>s. "marked" \in Steps
    BY DEF Steps
  <2>a. PICK d : d = [c EXCEPT !.here = lh, !.step = "marked"]
    OBVIOUS
  <2>b. Set(t, d) /\ UNCHANGED <<anc, calls, refs, books>>
    BY <1>h, <1>1, <1>3, <2>1, <2>2, <2>a DEF UnlessHead
  <2>c. /\ d \in Call /\ d.here = lh /\ d.step = "marked"
        /\ d.op = c.op /\ d.r = c.r /\ d.there = c.there /\ d.shares = c.shares /\ d.knew = c.knew
    BY <1>h, <1>1, <1>3, <2>1, <2>2, <2>s, <2>a DEF Call
  <2> QED BY <1>h, <1>1, <1>3, <2>1, <2>2, <2>b, <2>c, ReadsKeep
        DEF Sound, CallSound, PullSound, PushSound, PushKnows, PushMarked, UnlessSound, PushBegun,
          Transfer, Landing, StepOf
<1> QED BY <1>2, <1>3

LEMMA UnlessMarkedKeeps ==
    ASSUME IInv, NEW t \in Tabs, UnlessMarked(t)
    PROVE  IInv'
<1> DEFINE c == call[t]
           s == Home[t]
<1>h. /\ c \in Call /\ s \in Stores /\ s \in Nodes /\ Sound(t) /\ TypeOK
      /\ c.op # "idle" => c.r \in Remotes /\ c.r \in Nodes
  BY CallHas
<1>1. c.op = "unless" /\ c.step = "marked" /\ c.r \in Remotes
  BY <1>h DEF UnlessMarked, At
<1>2. CASE s \in mark
  BY <1>h, <1>2, EndKeeps DEF UnlessMarked
<1>3. CASE ~(s \in mark)
  <2>s. "sharing" \in Steps
    BY DEF Steps
  <2>a. PICK d : d = [c EXCEPT !.step = "sharing"]
    OBVIOUS
  <2>b. Set(t, d) /\ UNCHANGED <<anc, calls, refs, books>>
    BY <1>h, <1>1, <1>3, <2>a DEF UnlessMarked, Go
  <2>c. /\ d \in Call /\ d.step = "sharing"
        /\ d.op = c.op /\ d.r = c.r /\ d.there = c.there /\ d.here = c.here /\ d.shares = c.shares /\ d.knew = c.knew
    BY <1>h, <1>1, <1>3, <2>s, <2>a DEF Call
  <2> QED BY <1>h, <1>1, <1>3, <2>b, <2>c, ReadsKeep
        DEF Sound, CallSound, PullSound, PushSound, PushKnows, PushMarked, UnlessSound, PushBegun,
          Transfer, Landing, StepOf
<1> QED BY <1>2, <1>3

LEMMA UnlessSharedKeeps ==
    ASSUME IInv, NEW t \in Tabs, UnlessShared(t)
    PROVE  IInv'
<1> DEFINE c == call[t]
           s == Home[t]
<1>h. /\ c \in Call /\ s \in Stores /\ s \in Nodes /\ Sound(t) /\ TypeOK
      /\ c.op # "idle" => c.r \in Remotes /\ c.r \in Nodes
  BY CallHas
<1>1. c.op = "unless" /\ c.step = "sharing" /\ c.r \in Remotes
  BY <1>h DEF UnlessShared, At
<1>2. CASE shared[s] # None
  BY <1>h, <1>2, EndKeeps DEF UnlessShared
<1>3. CASE ~(shared[s] # None)
  <2>s. "records" \in Steps
    BY DEF Steps
  <2>a. PICK d : d = [c EXCEPT !.step = "records"]
    OBVIOUS
  <2>b. Set(t, d) /\ UNCHANGED <<anc, calls, refs, books>>
    BY <1>h, <1>1, <1>3, <2>a DEF UnlessShared, Go
  <2>c. /\ d \in Call /\ d.step = "records"
        /\ d.op = c.op /\ d.r = c.r /\ d.there = c.there /\ d.here = c.here /\ d.shares = c.shares /\ d.knew = c.knew
    BY <1>h, <1>1, <1>3, <2>s, <2>a DEF Call
  <2> QED BY <1>h, <1>1, <1>3, <2>b, <2>c, ReadsKeep
        DEF Sound, CallSound, PullSound, PushSound, PushKnows, PushMarked, UnlessSound, PushBegun,
          Transfer, Landing, StepOf
<1> QED BY <1>2, <1>3

LEMMA UnlessRecordsKeeps ==
    ASSUME IInv, NEW t \in Tabs, UnlessRecords(t)
    PROVE  IInv'
<1> DEFINE c == call[t]
           s == Home[t]
<1>h. /\ c \in Call /\ s \in Stores /\ s \in Nodes /\ Sound(t) /\ TypeOK
      /\ c.op # "idle" => c.r \in Remotes /\ c.r \in Nodes
  BY CallHas
<1>1. c.op = "unless" /\ c.step = "records" /\ c.r \in Remotes
  BY <1>h DEF UnlessRecords, At
<1>2. CASE \E r \in Remotes : record[s][r] # None
  BY <1>h, <1>2, EndKeeps DEF UnlessRecords
<1>3. CASE ~(\E r \in Remotes : record[s][r] # None)
  <2>s. "remove" \in Steps
    BY DEF Steps
  <2>a. PICK d : d = [c EXCEPT !.step = "remove"]
    OBVIOUS
  <2>b. Set(t, d) /\ UNCHANGED <<anc, calls, refs, books>>
    BY <1>h, <1>1, <1>3, <2>a DEF UnlessRecords, Go
  <2>c. /\ d \in Call /\ d.step = "remove"
        /\ d.op = c.op /\ d.r = c.r /\ d.there = c.there /\ d.here = c.here /\ d.shares = c.shares /\ d.knew = c.knew
    BY <1>h, <1>1, <1>3, <2>s, <2>a DEF Call
  <2> QED BY <1>h, <1>1, <1>3, <2>b, <2>c, ReadsKeep
        DEF Sound, CallSound, PullSound, PushSound, PushKnows, PushMarked, UnlessSound, PushBegun,
          Transfer, Landing, StepOf
<1> QED BY <1>2, <1>3

---------------------------------------------------------------------------
(* The books: what a call writes of what is shared *)

(* Only the books and a call move: the histories stay as they are. *)
LEMMA BooksOnly ==
    ASSUME IInv, NEW t \in Tabs, NEW d \in Call, Set(t, d), Sound(t)', calls' \in Nat,
           UNCHANGED <<anc, refs>>, \A u \in Tabs \ {t} : RefsKept(u), forgot' \subseteq Tabs,
           mark' \subseteq Stores, stripped' \subseteq Stores, shared' \in [Stores -> Commits \cup {None}],
           record' \in [Stores -> [Remotes -> Commits \cup {None}]],
           \A s \in Stores, r \in Remotes :
              /\ record'[s][r] # None => Known(s, r, record'[s][r])
              /\ shared'[s] # None => shared'[s] = shared[s]
    PROVE  IInv'
<1>1. /\ Commits' = Commits /\ \A n : Anc(n)' = Anc(n) /\ Parents(n)' = Parents(n)
      /\ Call' = Call /\ ever' = ever
  BY SameHistories DEF Commits, Call, refs
<1>2. TypeOK'
  BY <1>1, SetKnown DEF IInv, TypeOK, refs
<1>3. HistoriesClosed' /\ BeenAt' /\ HistoryWhole'
  BY <1>1 DEF IInv, HistoriesClosed, BeenAt, HistoryWhole, refs
<1>4. RecordsKnown'
  BY <1>1 DEF IInv, RecordsKnown, Known
<1>5. Later
  BY <1>1 DEF Later, Whole, refs
<1>6. \A u \in Tabs : Sound(u)'
  BY <1>5, SetKnown, OthersSound DEF IInv
<1> QED BY <1>2, <1>3, <1>4, <1>6 DEF IInv

LEMMA RecordKeeps ==
    ASSUME IInv, NEW t \in Tabs, call[t].r \in Remotes, NEW c \in Commits, Known(Home[t], call[t].r, c),
           SetSyncHead(t, c), UNCHANGED <<anc, calls, refs>>,
           NEW d \in Call, Set(t, d), call'[t] = d => Sound(t)'
    PROVE  IInv'
<1> DEFINE s == Home[t]
<1>1. s \in Stores /\ TypeOK /\ c # None
  BY CallHas, SyncAssumption DEF Commits
<1>2. call'[t] = d
  BY SetKnown, <1>1
<1>3. /\ mark' \subseteq Stores /\ forgot' = forgot /\ forgot' \subseteq Tabs /\ stripped' \subseteq Stores
      /\ shared' \in [Stores -> Commits \cup {None}]
      /\ record' \in [Stores -> [Remotes -> Commits \cup {None}]]
  BY <1>1 DEF TypeOK, SetSyncHead
<1>4. \A s2 \in Stores, r \in Remotes :
         /\ record'[s2][r] = IF s2 = s /\ r = call[t].r THEN c ELSE record[s2][r]
         /\ shared'[s2] = IF s2 = s THEN None ELSE shared[s2]
  BY <1>1 DEF TypeOK, SetSyncHead
<1>5. \A s2 \in Stores, r \in Remotes :
         /\ record'[s2][r] # None => Known(s2, r, record'[s2][r])
         /\ shared'[s2] # None => shared'[s2] = shared[s2]
  BY <1>1, <1>4 DEF IInv, RecordsKnown
<1>6. \A u \in Tabs \ {t} : RefsKept(u)
  <2>1. \A s2 \in Stores : s2 # s => Marked(s2)' = Marked(s2)
    BY <1>1 DEF SetSyncHead, Marked
  <2>2. Marked(s)'
    BY <1>1 DEF SetSyncHead, Marked
  <2> QED BY <1>1, <1>3, <1>4, <2>1, <2>2, SyncAssumption DEF RefsKept
<1>7. calls' \in Nat
  BY <1>1 DEF TypeOK
<1> QED BY <1>2, <1>3, <1>5, <1>6, <1>7, BooksOnly

LEMMA AncHas ==
    ASSUME TypeOK, NEW c \in Commits
    PROVE  /\ c # None /\ c \in Nat /\ Anc(c) = anc[c] /\ c \in Anc(c) /\ Anc(c) \subseteq Commits
           /\ \A d \in anc[c] : d \in Commits
<1>1. c \in Nat /\ Len(anc) \in Nat /\ c <= Len(anc)
  BY DEF TypeOK, Commits
<1>2. c # None
  BY <1>1, SyncAssumption
<1>3. c \in anc[c] /\ anc[c] \subseteq 1 .. c
  BY DEF TypeOK
<1>4. 1 .. c \subseteq Commits
  BY <1>1 DEF Commits
<1> QED BY <1>1, <1>2, <1>3, <1>4 DEF Anc

(* A walk stays among what is held, reaches the parents held of what it     *)
(* reaches, and nothing but the histories of what it began from.            *)
LEMMA WalkHeld ==
    ASSUME NEW n, NEW from
    PROVE  /\ Walk(n, from) \subseteq has[n] /\ from \cap has[n] \subseteq Walk(n, from)
           /\ \A c \in Walk(n, from) : Parents(c) \cap has[n] \subseteq Walk(n, from)
BY DEF Walk, Walked

LEMMA WalkBack ==
    ASSUME TypeOK, HistoriesClosed, NEW n \in Nodes, NEW b \in Commits, NEW a \in Walk(n, {b})
    PROVE  a \in Anc(b)
<1>1. PICK set : set = has[n] \cap Anc(b)
  OBVIOUS
<1>2. b \in Anc(b) /\ Anc(b) = anc[b] /\ Anc(b) \subseteq Commits
  BY AncHas
<1>3. Walked(n, {b}, set)
  <2>1. ASSUME NEW c \in set PROVE Parents(c) \subseteq Anc(b)
    <3>1. c \in Commits /\ c \in anc[b] /\ Anc(c) = anc[c]
      BY <1>1, <1>2, <2>1, AncHas
    <3>2. Parents(c) \subseteq Anc(c)
      BY DEF Parents
    <3> QED BY <1>2, <3>1, <3>2 DEF HistoriesClosed
  <2> QED BY <1>1, <1>2, <2>1 DEF Walked
<1> QED BY <1>1, <1>3 DEF Walk

LEMMA PullEvenKeeps ==
    ASSUME IInv, NEW t \in Tabs, PullEven(t)
    PROVE  IInv'
<1> DEFINE c == call[t]
           s == Home[t]
           rh == c.there
           lh == c.here
<1>1. /\ c \in Call /\ s \in Stores /\ s \in Nodes /\ Sound(t) /\ TypeOK /\ c.r \in Remotes
  BY CallHas DEF PullEven, Pulling
<1>2. PICK d \in Call : Set(t, d) /\ (call'[t] = d => Sound(t)')
  BY EndPullSound DEF PullEven
<1>3. CASE c.shares # rh
  <2>1. rh \in Commits /\ rh \in ever[c.r] /\ rh \in Anc(rh)
    BY <1>1 DEF PullEven, Call, Sound, CallSound, TypeOK, Anc
  <2>2. lh \in ever[s] /\ rh \in Anc(lh)
    BY <1>1, <2>1, WalkBack DEF PullEven, Sound, CallSound, IsAncestor, IInv, Call
  <2>3. Known(s, c.r, rh)
    BY <2>1, <2>2 DEF Known
  <2> QED BY <1>1, <1>2, <1>3, <2>1, <2>3, RecordKeeps DEF PullEven
<1>4. CASE c.shares = rh
  BY <1>1, <1>2, <1>4, SetKnown, OnlyCall DEF PullEven
<1> QED BY <1>3, <1>4

LEMMA PullRecordKeeps ==
    ASSUME IInv, NEW t \in Tabs, PullRecord(t)
    PROVE  IInv'
<1> DEFINE c == call[t]
<1>1. /\ c \in Call /\ Sound(t) /\ TypeOK /\ c.r \in Remotes /\ c.op \in {"pull", "sync"}
  BY CallHas DEF PullRecord, Pulling
<1>2. PICK d \in Call : Set(t, d) /\ (call'[t] = d => Sound(t)')
  BY EndPullSound DEF PullRecord
<1>3. c.there \in Commits /\ c.there \in ever[c.r] /\ c.there \in ever[Home[t]]
  BY <1>1 DEF PullRecord, Call, Sound, CallSound, PullSound
<1>4. Known(Home[t], c.r, c.there)
  <2>1. c.there \in Anc(c.there)
    BY <1>1, <1>3, SyncAssumption DEF TypeOK, Anc, Commits
  <2> QED BY <1>3, <2>1 DEF Known
<1> QED BY <1>1, <1>2, <1>3, <1>4, RecordKeeps DEF PullRecord

LEMMA PushRecordKeeps ==
    ASSUME IInv, NEW t \in Tabs, PushRecord(t)
    PROVE  IInv'
<1> DEFINE c == call[t]
<1>1. /\ c \in Call /\ Sound(t) /\ TypeOK /\ c.r \in Remotes /\ c.op = "push" /\ c.step = "record"
      /\ Idle \in Call
  BY CallHas DEF PushRecord, At
<1>2. Set(t, Idle) /\ (call'[t] = Idle => Sound(t)')
  BY IdleSound DEF PushRecord, End
<1>3. c.here \in Commits /\ c.here \in ever[c.r] /\ c.here \in ever[Home[t]]
  BY <1>1 DEF Call, Sound, CallSound, PushSound
<1>4. Known(Home[t], c.r, c.here)
  <2>1. c.here \in Anc(c.here)
    BY <1>1, <1>3, SyncAssumption DEF TypeOK, Anc, Commits
  <2> QED BY <1>3, <2>1 DEF Known
<1> QED BY <1>1, <1>2, <1>3, <1>4, RecordKeeps DEF PushRecord

LEMMA PushJudgeKeeps ==
    ASSUME IInv, NEW t \in Tabs, PushJudge(t)
    PROVE  IInv'
<1> DEFINE c == call[t]
           s == Home[t]
           rh == c.there
           lh == c.here
<1>1. /\ c \in Call /\ s \in Stores /\ s \in Nodes /\ Sound(t) /\ TypeOK /\ c.r \in Remotes /\ Idle \in Call
      /\ c.op = "push" /\ c.step = "judge"
  BY CallHas DEF PushJudge, At
<1>2. lh \in Commits /\ lh # None /\ lh \in ever[s]
  BY <1>1 DEF Sound, CallSound, PushSound, Call
<1>3. CASE rh = lh
  <2>1. End(t) /\ IF c.shares # lh THEN SetSyncHead(t, lh) ELSE UNCHANGED books
    BY <1>3 DEF PushJudge
  <2>2. Known(s, c.r, lh)
    <3>1. lh \in Anc(lh)
      BY <1>1, <1>2, SyncAssumption DEF TypeOK, Anc, Commits
    <3>2. lh \in ever[c.r]
      BY <1>1, <1>2, <1>3 DEF Sound, CallSound
    <3> QED BY <1>2, <3>1, <3>2 DEF Known
  <2>3. Set(t, Idle) /\ (call'[t] = Idle => Sound(t)')
    BY <2>1, IdleSound DEF End
  <2>4. CASE c.shares # lh
    BY <1>1, <1>2, <2>1, <2>2, <2>3, <2>4, RecordKeeps DEF PushJudge
  <2>5. CASE c.shares = lh
    BY <2>1, <2>5, EndKeeps DEF PushJudge
  <2> QED BY <2>4, <2>5
<1>4. CASE rh # lh /\ IF rh = None THEN c.shares # None ELSE ~IsAncestor(s, rh, lh)
  <2>1. End(t) /\ UNCHANGED books
    BY <1>4 DEF PushJudge
  <2> QED BY <2>1, EndKeeps DEF PushJudge
<1>5. CASE rh # lh /\ IF rh = None THEN c.shares = None ELSE IsAncestor(s, rh, lh)
  <2>1. PICK have \in SUBSET Commits : have = {rh} \ {None}
    BY <1>1 DEF Call
  <2>2. (rh = None /\ c.shares = None) \/ (rh # None /\ rh \in Anc(lh))
    BY <1>1, <1>2, <1>5, WalkBack DEF IsAncestor, IInv
  <2>s. "fetch" \in Steps
    BY DEF Steps
  <2>a. PICK d : d = [c EXCEPT !.have = have, !.step = "fetch"]
    OBVIOUS
  <2>b. Set(t, d) /\ UNCHANGED <<anc, calls, refs, books>>
    BY <1>5, <2>1, <2>a DEF PushJudge
  <2>c. /\ d \in Call /\ d.step = "fetch" /\ d.op = c.op /\ d.r = c.r
        /\ d.there = c.there /\ d.here = c.here /\ d.shares = c.shares /\ d.knew = c.knew
    BY <1>1, <2>1, <2>s, <2>a DEF Call
  <2> QED BY <1>1, <1>2, <1>5, <2>2, <2>b, <2>c, ReadsKeep
      DEF Sound, CallSound, PushKnows, PushMarked, PushBegun, Transfer, StepOf
<1> QED BY <1>3, <1>4, <1>5

LEMMA ClaimSharedKeeps ==
    ASSUME IInv, NEW t \in Tabs, ClaimShared(t)
    PROVE  IInv'
<1> DEFINE c == call[t]
           s == Home[t]
<1>h. /\ c \in Call /\ s \in Stores /\ s \in Nodes /\ Sound(t) /\ TypeOK
      /\ c.op # "idle" => c.r \in Remotes
  BY CallHas
<1>1. c.step = "shared" /\ c.op \in {"pull", "sync", "push", "delete"} /\ c.r \in Remotes
  BY <1>h DEF ClaimShared, Sound, CallSound, StepOf
<1>2. PICK old : old = shared[s]
  OBVIOUS
<1>3. PICK next : next = IF c.op = "push" THEN "look" ELSE IF c.op = "delete" THEN "delete" ELSE "judge"
  OBVIOUS
<1>4. old \in Commits \cup {None} /\ next \in Steps
  BY <1>h, <1>2, <1>3 DEF TypeOK, Steps
<1>a. PICK d : d = [c EXCEPT !.shares = old, !.step = next]
  OBVIOUS
<1>c. /\ d \in Call /\ d.shares = old /\ d.step = next
      /\ d.op = c.op /\ d.r = c.r /\ d.there = c.there /\ d.here = c.here /\ d.knew = c.knew
  BY <1>h, <1>4, <1>a DEF Call
<1>5. CASE old = None
  <2>1. Set(t, d) /\ UNCHANGED <<anc, calls, refs, books>>
    BY <1>2, <1>3, <1>5, <1>a DEF ClaimShared, Claimed
  <2> QED BY <1>h, <1>1, <1>3, <1>5, <1>c, <2>1, ReadsKeep
      DEF Sound, CallSound, PullSound, PushSound, PushKnows, PushMarked, UnlessSound, PushBegun,
          Transfer, Landing, StepOf
<1>6. CASE old # None /\ record[s][c.r] # None
  <2>s. "claim" \in Steps
    BY DEF Steps
  <2>a. PICK e : e = [c EXCEPT !.step = "claim"]
    OBVIOUS
  <2>b. Set(t, e) /\ UNCHANGED <<anc, calls, refs, books>>
    BY <1>2, <1>6, <2>a DEF ClaimShared, Go
  <2>c. /\ e \in Call /\ e.step = "claim" /\ e.op = c.op /\ e.r = c.r
        /\ e.there = c.there /\ e.here = c.here /\ e.shares = c.shares /\ e.knew = c.knew
    BY <1>h, <2>s, <2>a DEF Call
  <2> QED BY <1>h, <1>1, <1>6, <2>b, <2>c, ReadsKeep
      DEF Sound, CallSound, PullSound, PushSound, PushKnows, PushMarked, UnlessSound, PushBegun,
          Transfer, Landing, StepOf
<1>7. CASE old # None /\ record[s][c.r] = None
  <2>1. /\ Set(t, d) /\ UNCHANGED <<anc, calls, refs, mark, forgot, stripped>>
        /\ record' = [record EXCEPT ![s][c.r] = old] /\ shared' = [shared EXCEPT ![s] = None]
    BY <1>2, <1>3, <1>7, <1>a DEF ClaimShared, Claimed
  <2>2. Known(s, c.r, old)
    BY <1>h, <1>1, <1>2, <1>7 DEF IInv, RecordsKnown
  <2>3. /\ shared' \in [Stores -> Commits \cup {None}]
        /\ record' \in [Stores -> [Remotes -> Commits \cup {None}]]
    BY <1>h, <1>1, <1>4, <2>1 DEF TypeOK
  <2>4. \A s2 \in Stores, r \in Remotes :
           /\ record'[s2][r] = IF s2 = s /\ r = c.r THEN old ELSE record[s2][r]
           /\ shared'[s2] = IF s2 = s THEN None ELSE shared[s2]
    BY <1>h, <2>1 DEF TypeOK
  <2>5. \A s2 \in Stores, r \in Remotes :
           /\ record'[s2][r] # None => Known(s2, r, record'[s2][r])
           /\ shared'[s2] # None => shared'[s2] = shared[s2]
    BY <1>h, <2>2, <2>4 DEF IInv, RecordsKnown
  <2>6. \A u \in Tabs \ {t} : RefsKept(u)
    BY <1>h, <1>2, <1>7, <2>1, <2>4, SyncAssumption DEF RefsKept, Marked
  <2>7. call'[t] = d
    BY <1>h, <1>c, <2>1, SetKnown
  <2>8. ever' = ever /\ anc' = anc
    BY <2>1 DEF refs
  <2>9. Sound(t)'
    <3>1. CallSound(t)'
      BY <1>h, <1>1, <1>3, <1>c, <2>2, <2>7, <2>8 DEF Sound, CallSound, StepOf, Known, Anc
    <3>2. PullSound(t)' /\ PushSound(t)'
      BY <1>h, <1>1, <1>3, <1>c, <2>7, <2>8 DEF Sound, PullSound, PushSound, Transfer, Anc
    <3>3. PushKnows(t)' /\ PushMarked(t)' /\ UnlessSound(t)' /\ Landing(t)'
      BY <1>h, <1>1, <1>3, <1>7, <1>c, <2>1, <2>7 DEF Sound, PushKnows, PushMarked, UnlessSound, Landing, PushBegun,
            Marked, Transfer
    <3> QED BY <3>1, <3>2, <3>3 DEF Sound
  <2>10. calls' \in Nat /\ forgot' \subseteq Tabs /\ mark' \subseteq Stores /\ stripped' \subseteq Stores
    BY <1>h, <2>1 DEF TypeOK
  <2> QED BY <1>c, <2>1, <2>3, <2>5, <2>6, <2>9, <2>10, BooksOnly
<1> QED BY <1>5, <1>6, <1>7

LEMMA PushMarkKeeps ==
    ASSUME IInv, NEW t \in Tabs, PushMark(t)
    PROVE  IInv'
<1> DEFINE c == call[t]
           s == Home[t]
<1>h. /\ c \in Call /\ s \in Stores /\ s \in Nodes /\ Sound(t) /\ TypeOK
      /\ c.op # "idle" => c.r \in Remotes
  BY CallHas
<1>1. c.step = "mark" /\ c.op = "push" /\ c.r \in Remotes
  BY <1>h DEF PushMark, At
<1>2. PICK d : d = [c EXCEPT !.step = "read"]
  OBVIOUS
<1>3. "read" \in Steps
  BY DEF Steps
<1>4. /\ d \in Call /\ d.step = "read" /\ d.op = c.op /\ d.r = c.r
      /\ d.there = c.there /\ d.here = c.here /\ d.shares = c.shares /\ d.knew = c.knew
  BY <1>h, <1>2, <1>3 DEF Call
<1>5. /\ Set(t, d) /\ UNCHANGED <<anc, calls, refs>>
      /\ mark' = mark \cup {s} /\ stripped' = stripped \ {s} /\ UNCHANGED <<record, shared, forgot>>
  BY <1>2 DEF PushMark, Go
<1>6. /\ shared' \in [Stores -> Commits \cup {None}] /\ mark' \subseteq Stores
      /\ record' \in [Stores -> [Remotes -> Commits \cup {None}]]
      /\ forgot' \subseteq Tabs /\ stripped' \subseteq Stores /\ calls' \in Nat
  BY <1>h, <1>1, <1>5 DEF TypeOK
<1>7. \A s2 \in Stores, r \in Remotes :
         /\ record'[s2][r] # None => record'[s2][r] = record[s2][r]
         /\ shared'[s2] # None => shared'[s2] = shared[s2]
  BY <1>h, <1>5 DEF TypeOK
<1>8. \A s2 \in Stores, r \in Remotes : record'[s2][r] # None => Known(s2, r, record'[s2][r])
  BY <1>7 DEF IInv, RecordsKnown
<1>9. \A u \in Tabs \ {t} : RefsKept(u)
  BY <1>h, <1>5, SyncAssumption DEF RefsKept, Marked, TypeOK
<1>10. call'[t] = d /\ ever' = ever /\ anc' = anc
  BY <1>h, <1>2, <1>4, <1>5, SetKnown DEF refs
<1>11. Sound(t)'
  <2>1. CallSound(t)'
    BY <1>h, <1>1, <1>4, <1>10 DEF Sound, CallSound, StepOf, Known, Anc
  <2>2. PullSound(t)' /\ PushSound(t)' /\ PushKnows(t)' /\ PushMarked(t)' /\ UnlessSound(t)' /\ Landing(t)'
    BY <1>h, <1>1, <1>4, <1>5, <1>10 DEF Sound, PullSound, PushSound, PushKnows, PushMarked, UnlessSound, Landing, PushBegun,
            Marked, Transfer
  <2> QED BY <2>1, <2>2 DEF Sound
<1> QED BY <1>2, <1>4, <1>5, <1>6, <1>7, <1>8, <1>9, <1>11, BooksOnly

LEMMA ForgetOwnKeeps ==
    ASSUME IInv, NEW t \in Tabs, ForgetOwn(t)
    PROVE  IInv'
<1> DEFINE c == call[t]
           s == Home[t]
<1>h. /\ c \in Call /\ s \in Stores /\ s \in Nodes /\ Sound(t) /\ TypeOK
      /\ c.op # "idle" => c.r \in Remotes
  BY CallHas
<1>1. c.step = "own" /\ c.op \in {"delete", "forget"} /\ c.r \in Remotes
  BY <1>h DEF ForgetOwn, Sound, CallSound, StepOf, Transfer
<1>2. PICK d : d = [c EXCEPT !.step = "old"]
  OBVIOUS
<1>3. "old" \in Steps
  BY DEF Steps
<1>4. /\ d \in Call /\ d.step = "old" /\ d.op = c.op /\ d.r = c.r
      /\ d.there = c.there /\ d.here = c.here /\ d.shares = c.shares /\ d.knew = c.knew
  BY <1>h, <1>2, <1>3 DEF Call
<1>5. /\ Set(t, d) /\ UNCHANGED <<anc, calls, refs>>
      /\ record' = [record EXCEPT ![s][c.r] = None] 
      /\ forgot' = forgot \cup {u \in Tabs : Home[u] = s /\ call[u].r = c.r}
      /\ UNCHANGED <<shared, mark, stripped>>
  BY <1>2 DEF ForgetOwn, Go
<1>6. /\ shared' \in [Stores -> Commits \cup {None}] /\ mark' \subseteq Stores
      /\ record' \in [Stores -> [Remotes -> Commits \cup {None}]]
      /\ forgot' \subseteq Tabs /\ stripped' \subseteq Stores /\ calls' \in Nat
  BY <1>h, <1>1, <1>5 DEF TypeOK
<1>7. \A s2 \in Stores, r \in Remotes :
         /\ record'[s2][r] # None => record'[s2][r] = record[s2][r]
         /\ shared'[s2] # None => shared'[s2] = shared[s2]
  BY <1>h, <1>5 DEF TypeOK
<1>8. \A s2 \in Stores, r \in Remotes : record'[s2][r] # None => Known(s2, r, record'[s2][r])
  BY <1>7 DEF IInv, RecordsKnown
<1>9. \A u \in Tabs \ {t} : RefsKept(u)
  BY <1>h, <1>5, SyncAssumption DEF RefsKept, Marked, TypeOK
<1>10. call'[t] = d /\ ever' = ever /\ anc' = anc
  BY <1>h, <1>2, <1>4, <1>5, SetKnown DEF refs
<1>11. Sound(t)'
  <2>1. CallSound(t)'
    BY <1>h, <1>1, <1>4, <1>10 DEF Sound, CallSound, StepOf, Known, Anc
  <2>2. PullSound(t)' /\ PushSound(t)' /\ PushKnows(t)' /\ PushMarked(t)' /\ UnlessSound(t)' /\ Landing(t)'
    BY <1>h, <1>1, <1>4, <1>5, <1>10 DEF Sound, PullSound, PushSound, PushKnows, PushMarked, UnlessSound, Landing, PushBegun,
            Marked, Transfer
  <2> QED BY <2>1, <2>2 DEF Sound
<1> QED BY <1>2, <1>4, <1>5, <1>6, <1>7, <1>8, <1>9, <1>11, BooksOnly

LEMMA ForgetSharedKeeps ==
    ASSUME IInv, NEW t \in Tabs, ForgetShared(t)
    PROVE  IInv'
<1> DEFINE c == call[t]
           s == Home[t]
<1>h. /\ c \in Call /\ s \in Stores /\ s \in Nodes /\ Sound(t) /\ TypeOK
      /\ c.op # "idle" => c.r \in Remotes
  BY CallHas
<1>1. c.step = "old" /\ c.op \in {"delete", "forget"} /\ c.r \in Remotes
  BY <1>h DEF ForgetShared, Sound, CallSound, StepOf, Transfer
<1>2. PICK d : d = [c EXCEPT !.step = "last"]
  OBVIOUS
<1>3. "last" \in Steps
  BY DEF Steps
<1>4. /\ d \in Call /\ d.step = "last" /\ d.op = c.op /\ d.r = c.r
      /\ d.there = c.there /\ d.here = c.here /\ d.shares = c.shares /\ d.knew = c.knew
  BY <1>h, <1>2, <1>3 DEF Call
<1>5. /\ Set(t, d) /\ UNCHANGED <<anc, calls, refs>>
      /\ shared' = [shared EXCEPT ![s] = None] /\ UNCHANGED <<record, mark, forgot, stripped>>
  BY <1>2 DEF ForgetShared, Go
<1>6. /\ shared' \in [Stores -> Commits \cup {None}] /\ mark' \subseteq Stores
      /\ record' \in [Stores -> [Remotes -> Commits \cup {None}]]
      /\ forgot' \subseteq Tabs /\ stripped' \subseteq Stores /\ calls' \in Nat
  BY <1>h, <1>1, <1>5 DEF TypeOK
<1>7. \A s2 \in Stores, r \in Remotes :
         /\ record'[s2][r] # None => record'[s2][r] = record[s2][r]
         /\ shared'[s2] # None => shared'[s2] = shared[s2]
  BY <1>h, <1>5 DEF TypeOK
<1>8. \A s2 \in Stores, r \in Remotes : record'[s2][r] # None => Known(s2, r, record'[s2][r])
  BY <1>7 DEF IInv, RecordsKnown
<1>9. \A u \in Tabs \ {t} : RefsKept(u)
  BY <1>h, <1>5, SyncAssumption DEF RefsKept, Marked, TypeOK
<1>10. call'[t] = d /\ ever' = ever /\ anc' = anc
  BY <1>h, <1>2, <1>4, <1>5, SetKnown DEF refs
<1>11. Sound(t)'
  <2>1. CallSound(t)'
    BY <1>h, <1>1, <1>4, <1>10 DEF Sound, CallSound, StepOf, Known, Anc
  <2>2. PullSound(t)' /\ PushSound(t)' /\ PushKnows(t)' /\ PushMarked(t)' /\ UnlessSound(t)' /\ Landing(t)'
    BY <1>h, <1>1, <1>4, <1>5, <1>10 DEF Sound, PullSound, PushSound, PushKnows, PushMarked, UnlessSound, Landing, PushBegun,
            Marked, Transfer
  <2> QED BY <2>1, <2>2 DEF Sound
<1> QED BY <1>2, <1>4, <1>5, <1>6, <1>7, <1>8, <1>9, <1>11, BooksOnly

LEMMA UnmarkKeeps ==
    ASSUME IInv, NEW t \in Tabs, Unmark(t)
    PROVE  IInv'
<1> DEFINE c == call[t]
           s == Home[t]
<1>h. /\ c \in Call /\ s \in Stores /\ s \in Nodes /\ Sound(t) /\ TypeOK
      /\ c.op # "idle" => c.r \in Remotes
  BY CallHas
<1>1. c.step = "unmark" /\ c.op \in {"delete", "forget"} /\ c.r \in Remotes
  BY <1>h DEF Unmark, Sound, CallSound, StepOf, Transfer
<1>2. PICK d \in Call : d = Idle
  BY IdleCall
<1>5. /\ Set(t, d) /\ UNCHANGED <<anc, calls, refs>>
      /\ mark' = mark \ {s} /\ stripped' = IF Syncs(s) THEN stripped \cup {s} ELSE stripped
      /\ UNCHANGED <<record, shared, forgot>>
  BY <1>2 DEF Unmark, End
<1>6. /\ shared' \in [Stores -> Commits \cup {None}] /\ mark' \subseteq Stores
      /\ record' \in [Stores -> [Remotes -> Commits \cup {None}]]
      /\ forgot' \subseteq Tabs /\ stripped' \subseteq Stores /\ calls' \in Nat
  BY <1>h, <1>1, <1>5 DEF TypeOK
<1>7. \A s2 \in Stores, r \in Remotes :
         /\ record'[s2][r] # None => record'[s2][r] = record[s2][r]
         /\ shared'[s2] # None => shared'[s2] = shared[s2]
  BY <1>h, <1>5 DEF TypeOK
<1>8. \A s2 \in Stores, r \in Remotes : record'[s2][r] # None => Known(s2, r, record'[s2][r])
  BY <1>7 DEF IInv, RecordsKnown
<1>9. \A u \in Tabs \ {t} : RefsKept(u)
  <2>1. SUFFICES ASSUME NEW u \in Tabs PROVE RefsKept(u)
    OBVIOUS
  <2>2. CASE Home[u] # s
    BY <1>5, <2>2 DEF RefsKept, Marked
  <2>3. CASE Home[u] = s
    <3>1. PushBegun(u) => Marked(s)'
      BY <1>h, <1>5, <2>3 DEF Syncs, Marked
    <3>2. Marked(s)' \/ \A q \in Remotes : record'[s][q] = None
      BY <1>h, <1>5 DEF Syncs, Marked
    <3> QED BY <1>5, <2>3, <3>1, <3>2 DEF RefsKept
  <2> QED BY <2>2, <2>3
<1>10. call'[t] = d /\ ever' = ever /\ anc' = anc
  BY <1>h, <1>2, <1>5, SetKnown DEF refs
<1>11. Sound(t)'
  BY <1>2, <1>10, IdleSound
<1> QED BY <1>2, <1>5, <1>6, <1>7, <1>8, <1>9, <1>11, BooksOnly

---------------------------------------------------------------------------
(* The refs: commits made, held, swept and moved to *)

LEMMA RefsOnly ==
    ASSUME IInv, Later, UNCHANGED books, TypeOK', HistoriesClosed', HistoryWhole', BeenAt',
           \A u \in Tabs : call'[u] = call[u] \/ Sound(u)'
    PROVE  IInv'
<1>1. RecordsKnown'
  <2>1. SUFFICES ASSUME NEW s \in Stores, NEW r \in Remotes
                 PROVE  /\ record[s][r] # None => Known(s, r, record[s][r])'
                        /\ shared[s] # None => Known(s, r, shared[s])'
    BY DEF RecordsKnown, books
  <2>2. /\ s \in Nodes /\ r \in Nodes
        /\ record[s][r] \in Commits \cup {None} /\ shared[s] \in Commits \cup {None}
    BY DEF IInv, TypeOK, Nodes
  <2> QED BY <2>2, KnownLater DEF IInv, RecordsKnown, books
<1>2. \A u \in Tabs : Sound(u)'
  <2>1. \A u \in Tabs : RefsKept(u)
    BY DEF RefsKept, Marked, books
  <2> QED BY <2>1, StaysSound DEF IInv
<1> QED BY <1>1, <1>2 DEF IInv

(* The same where no commit is made. *)
LEMMA RefsOfCall ==
    ASSUME IInv, NEW t \in Tabs, NEW d \in Call, Set(t, d), call'[t] = d => Sound(t)',
           UNCHANGED <<anc, calls, books>>,
           has' \in [Nodes -> SUBSET Commits], head' \in [Nodes -> Commits \cup {None}],
           ever' \in [Nodes -> SUBSET Commits], \A n \in Nodes : ever[n] \subseteq ever'[n],
           bare' \subseteq Nodes \X Commits, HistoryWhole', BeenAt',
           \A n \in Nodes, c \in Commits : LandsAt(n, c) /\ Whole(n, c) => Whole(n, c)'
    PROVE  IInv'
<1>1. /\ Commits' = Commits /\ \A n : Anc(n)' = Anc(n)
      /\ Call' = Call
  BY DEF Commits, Anc, Call
<1>2. call' \in [Tabs -> Call] /\ call'[t] = d /\ \A u \in Tabs \ {t} : call'[u] = call[u]
  BY SetKnown DEF IInv
<1>3. TypeOK'
  BY <1>1, <1>2 DEF IInv, TypeOK, books
<1>4. HistoriesClosed' /\ Later
  BY <1>1 DEF IInv, HistoriesClosed, Later
<1> QED BY <1>2, <1>3, <1>4, RefsOnly

(* Where what is held only grows, what has its parents there keeps them. *)
LEMMA WholeStays ==
    ASSUME UNCHANGED <<anc, bare>>, NEW n, has[n] \subseteq has'[n], NEW c, Whole(n, c)
    PROVE  Whole(n, c)'
<1>1. Parents(c)' = Parents(c)
  BY SameHistories
<1> QED BY <1>1 DEF Whole

LEMMA HeadGone ==
    ASSUME IInv, NEW n \in Nodes, head' = [head EXCEPT ![n] = None], UNCHANGED <<anc, has, ever, bare>>
    PROVE  /\ head' \in [Nodes -> Commits \cup {None}] /\ HistoryWhole' /\ BeenAt'
           /\ has' \in [Nodes -> SUBSET Commits] /\ ever' \in [Nodes -> SUBSET Commits]
           /\ \A m \in Nodes : ever[m] \subseteq ever'[m]
           /\ bare' \subseteq Nodes \X Commits /\ \A m, c : Whole(m, c) => Whole(m, c)'
<1>1. \A m : Parents(m)' = Parents(m)
  BY SameHistories
<1>2. \A m \in Nodes : head'[m] = IF m = n THEN None ELSE head[m]
  BY DEF IInv, TypeOK
<1>3. HistoryWhole' /\ BeenAt'
  BY <1>1, <1>2 DEF IInv, HistoryWhole, BeenAt
<1> QED BY <1>1, <1>3 DEF IInv, TypeOK, Whole

LEMMA DeleteBranchKeeps ==
    ASSUME IInv, NEW s \in Stores, DeleteBranch(s)
    PROVE  IInv'
<1>1. s \in Nodes /\ head' = [head EXCEPT ![s] = None] /\ UNCHANGED <<anc, has, call, calls, ever, bare, books>>
  BY DEF DeleteBranch, Nodes
<1>2. /\ head' \in [Nodes -> Commits \cup {None}] /\ HistoryWhole' /\ BeenAt'
      /\ \A m, c : Whole(m, c) => Whole(m, c)'
  BY <1>1, HeadGone
<1>3. TypeOK'
  BY <1>1, <1>2 DEF IInv, TypeOK, books, Commits, Call
<1>4. HistoriesClosed' /\ Later
  BY <1>1, <1>2 DEF IInv, HistoriesClosed, Later, Commits
<1> QED BY <1>1, <1>2, <1>3, <1>4, RefsOnly

LEMMA DeleteRemoteKeeps ==
    ASSUME IInv, NEW t \in Tabs, DeleteRemote(t)
    PROVE  IInv'
<1> DEFINE c == call[t]
<1>h. /\ c \in Call /\ Sound(t) /\ TypeOK /\ c.r \in Remotes /\ c.r \in Nodes
      /\ c.op = "delete" /\ c.step = "delete"
  BY CallHas DEF DeleteRemote, At
<1>1. CASE c.shares = None
  BY <1>1, EndKeeps DEF DeleteRemote, refs
<1>2. ASSUME NEW step \in {"own", "again"}, Go(t, step)
      PROVE  \E d \in Call : /\ Set(t, d)
                             /\ UNCHANGED <<anc, ever>> => (call'[t] = d => Sound(t)')
                             /\ d.step = step /\ d.op = c.op /\ d.r = c.r /\ d.there = c.there
                             /\ d.here = c.here /\ d.shares = c.shares /\ d.knew = c.knew
  <2>s. step \in Steps
    BY DEF Steps
  <2>a. PICK d : d = [c EXCEPT !.step = step]
    OBVIOUS
  <2>c. /\ d \in Call /\ d.step = step /\ d.op = c.op /\ d.r = c.r
        /\ d.there = c.there /\ d.here = c.here /\ d.shares = c.shares /\ d.knew = c.knew
    BY <1>h, <2>s, <2>a DEF Call
  <2>1. ASSUME UNCHANGED <<anc, ever>>, call'[t] = d PROVE Sound(t)'
    <3>1. CallSound(t)'
      BY <1>h, <2>c, <2>1 DEF Sound, CallSound, StepOf, Known, Anc
    <3>2. PullSound(t)' /\ PushSound(t)' /\ PushKnows(t)' /\ PushMarked(t)' /\ UnlessSound(t)' /\ Landing(t)'
      BY <1>h, <2>c, <2>1 DEF PullSound, PushSound, PushKnows, PushMarked, UnlessSound, Landing, PushBegun,
            Marked, Transfer
    <3> QED BY <3>1, <3>2 DEF Sound
  <2> QED BY <1>2, <2>a, <2>c, <2>1 DEF Go
<1>3. CASE c.shares # None /\ head[c.r] = c.shares
  <2>1. Go(t, "own") /\ head' = [head EXCEPT ![c.r] = None] /\ UNCHANGED <<anc, has, calls, ever, bare, books>>
    BY <1>3 DEF DeleteRemote, There
  <2>2. PICK d \in Call : Set(t, d) /\ (call'[t] = d => Sound(t)')
    BY <1>2, <2>1
  <2> QED BY <1>h, <2>1, <2>2, HeadGone, RefsOfCall
<1>4. CASE c.shares # None /\ head[c.r] # c.shares
  <2>1. Go(t, "again") /\ UNCHANGED <<anc, calls, refs, books>>
    BY <1>4 DEF DeleteRemote, There, refs
  <2>2. PICK d \in Call : Set(t, d) /\ (call'[t] = d => Sound(t)')
    BY <1>2, <2>1 DEF refs
  <2> QED BY <1>h, <2>1, <2>2, SetKnown, OnlyCall
<1> QED BY <1>1, <1>3, <1>4

LEMMA UnlessRemoveKeeps ==
    ASSUME IInv, NEW t \in Tabs, UnlessRemove(t)
    PROVE  IInv'
<1> DEFINE c == call[t]
           s == Home[t]
<1>h. /\ c \in Call /\ Sound(t) /\ TypeOK /\ c.r \in Remotes /\ s \in Nodes /\ Idle \in Call
      /\ c.op = "unless" /\ c.step = "remove"
  BY CallHas DEF UnlessRemove, At
<1>1. CASE There(s, c.here) /\ s \notin mark /\ shared[s] = None
  <2>1. End(t) /\ head' = [head EXCEPT ![s] = None] /\ UNCHANGED <<anc, has, calls, ever, bare, books>>
    BY <1>1 DEF UnlessRemove
  <2>2. Set(t, Idle) /\ (call'[t] = Idle => Sound(t)')
    BY <2>1, IdleSound DEF End
  <2> QED BY <1>h, <2>1, <2>2, HeadGone, RefsOfCall
<1>2. CASE ~(There(s, c.here) /\ s \notin mark /\ shared[s] = None)
  <2>1. Go(t, "head") /\ UNCHANGED <<anc, calls, refs, books>>
    BY <1>2 DEF UnlessRemove, refs
  <2>s. "head" \in Steps
    BY DEF Steps
  <2>a. PICK d : d = [c EXCEPT !.step = "head"]
    OBVIOUS
  <2>b. Set(t, d)
    BY <2>1, <2>a DEF Go
  <2>c. /\ d \in Call /\ d.step = "head" /\ d.op = c.op /\ d.r = c.r
        /\ d.there = c.there /\ d.here = c.here /\ d.shares = c.shares /\ d.knew = c.knew
    BY <1>h, <2>s, <2>a DEF Call
  <2> QED BY <1>h, <2>1, <2>b, <2>c, ReadsKeep DEF Sound, CallSound, StepOf, Transfer
<1> QED BY <1>1, <1>2

LEMMA BeginKeeps ==
    ASSUME IInv, NEW t \in Tabs, Begin(t)
    PROVE  IInv'
<1>1. PICK r \in Remotes, op \in {"pull", "push", "sync", "delete", "forget", "unless"}, step \in Steps :
         Set(t, New(op, step, r)) /\ StepOf(op, step) /\ step \notin {"records", "remove", "record"} \cup Transfer
         /\ (op = "push" => step = "exists")
  BY DEF Begin, StepOf, Steps, Transfer
<1>2. PICK d : d = New(op, step, r)
  OBVIOUS
<1>3. /\ d \in Call /\ d.op = op /\ d.step = step /\ d.r = r
      /\ d.there = None /\ d.here = None /\ d.shares = None /\ d.knew = "no"
  BY <1>2, NewCall
<1>4. Set(t, d) /\ TypeOK /\ UNCHANGED <<anc, refs, record, shared, mark, stripped>> /\ forgot' = forgot \ {t}
  BY <1>1, <1>2 DEF Begin, IInv
<1>5. call'[t] = d
  BY <1>3, <1>4, SetKnown
<1>6. Sound(t)'
  <2>1. CallSound(t)' /\ PullSound(t)'
    BY <1>1, <1>3, <1>5 DEF CallSound, PullSound, StepOf
  <2>2. PushSound(t)' /\ PushKnows(t)' /\ PushMarked(t)' /\ UnlessSound(t)' /\ Landing(t)'
    BY <1>1, <1>3, <1>5 DEF PushSound, PushKnows, PushMarked, UnlessSound, Landing, PushBegun,
            Marked, Transfer
  <2> QED BY <2>1, <2>2 DEF Sound
<1>7. \A u \in Tabs \ {t} : RefsKept(u)
  BY <1>4 DEF RefsKept, Marked
<1>8. /\ shared' \in [Stores -> Commits \cup {None}] /\ mark' \subseteq Stores /\ forgot' \subseteq Tabs
      /\ stripped' \subseteq Stores
      /\ record' \in [Stores -> [Remotes -> Commits \cup {None}]] /\ calls' \in Nat
  BY <1>4 DEF TypeOK, Begin
<1>9. \A s \in Stores, q \in Remotes :
         /\ record'[s][q] # None => Known(s, q, record'[s][q])
         /\ shared'[s] # None => shared'[s] = shared[s]
  BY <1>4 DEF IInv, RecordsKnown
<1> QED BY <1>3, <1>4, <1>6, <1>7, <1>8, <1>9, BooksOnly

(* Committing adds one commit, with its parents' histories and itself. *)
LEMMA Committed ==
    ASSUME IInv, NEW s \in Stores, Commit(s)
    PROVE  \E n \in Nat, other \in has[s] :
             /\ n = Len(anc) + 1 /\ Len(anc') = n /\ n \notin Commits /\ Commits' = Commits \cup {n}
             /\ anc' \in Seq(SUBSET Nat)
             /\ anc'[n] = Anc(head[s]) \cup Anc(other) \cup {n} /\ \A c \in Commits : anc'[c] = anc[c]
             /\ head[s] \in Commits /\ head[s] \in has[s]
             /\ head' = [head EXCEPT ![s] = n] /\ has' = [has EXCEPT ![s] = @ \cup {n}]
             /\ ever' = [ever EXCEPT ![s] = @ \cup {n}]
<1>h. s \in Nodes /\ TypeOK /\ HistoryWhole
  BY DEF IInv, Nodes
<1>1. PICK other \in has[s] : anc' = Append(anc, Anc(head[s]) \cup Anc(other) \cup {Len(anc) + 1})
  BY DEF Commit
<1>2. PICK new : new = Anc(head[s]) \cup Anc(other) \cup {Len(anc) + 1}
  OBVIOUS
<1>3. PICK n : n = Len(anc) + 1
  OBVIOUS
<1>4. head[s] \in Commits /\ head[s] \in has[s] /\ other \in Commits
  BY <1>h DEF Commit, TypeOK, HistoryWhole
<1>5. anc \in Seq(SUBSET Nat) /\ Len(anc) \in Nat /\ n \in Nat
  BY <1>h, <1>3 DEF TypeOK
<1>6. new \in SUBSET Nat
  <2>1. Commits \subseteq Nat
    BY DEF Commits
  <2> QED BY <1>h, <1>2, <1>3, <1>4, <1>5, <2>1, AncHas
<1>7. anc' = Append(anc, new)
  BY <1>1, <1>2
<1>8. /\ anc' \in Seq(SUBSET Nat) /\ Len(anc') = n /\ anc'[n] = new
      /\ \A c \in 1 .. Len(anc) : anc'[c] = anc[c]
  BY <1>3, <1>5, <1>6, <1>7
<1>9. Commits' = Commits \cup {n} /\ n \notin Commits
  BY <1>3, <1>5, <1>8 DEF Commits
<1>10. /\ head' = [head EXCEPT ![s] = n] /\ has' = [has EXCEPT ![s] = @ \cup {n}]
       /\ ever' = [ever EXCEPT ![s] = @ \cup {n}]
  BY <1>8 DEF Commit
<1>11. n = Len(anc) + 1 /\ anc'[n] = Anc(head[s]) \cup Anc(other) \cup {n}
  BY <1>2, <1>3, <1>8
<1>12. \A c \in Commits : anc'[c] = anc[c]
  BY <1>8 DEF Commits
<1> QED BY <1>4, <1>5, <1>8, <1>9, <1>10, <1>11, <1>12

LEMMA CommitKeeps ==
    ASSUME IInv, NEW s \in Stores, Commit(s)
    PROVE  IInv'
<1>h. s \in Nodes /\ TypeOK /\ HistoryWhole /\ HistoriesClosed /\ BeenAt
  BY DEF IInv, Nodes
<1>1. PICK n \in Nat, other \in has[s] :
             /\ n = Len(anc) + 1 /\ Len(anc') = n /\ n \notin Commits /\ Commits' = Commits \cup {n}
             /\ anc' \in Seq(SUBSET Nat)
             /\ anc'[n] = Anc(head[s]) \cup Anc(other) \cup {n} /\ \A c \in Commits : anc'[c] = anc[c]
             /\ head[s] \in Commits /\ head[s] \in has[s]
             /\ head' = [head EXCEPT ![s] = n] /\ has' = [has EXCEPT ![s] = @ \cup {n}]
             /\ ever' = [ever EXCEPT ![s] = @ \cup {n}]
  BY Committed
<1>2. n # None /\ other \in Commits /\ UNCHANGED <<call, calls, books>>
  BY <1>h, <1>1, SyncAssumption DEF Commit, TypeOK
<1>3. \A c \in Commits : Anc(c)' = Anc(c) /\ Anc(c) = anc[c]
  BY <1>h, <1>1, AncHas DEF Anc
<1>4. \A m \in Nodes : /\ head'[m] = IF m = s THEN n ELSE head[m]
                       /\ has'[m] = IF m = s THEN has[s] \cup {n} ELSE has[m]
                       /\ ever'[m] = IF m = s THEN ever[s] \cup {n} ELSE ever[m]
  BY <1>h, <1>1 DEF TypeOK
<1>p. ASSUME NEW c \in Commits PROVE Parents(c)' = Parents(c)
  <2>1. Anc(c)' = Anc(c) /\ Anc(c) \subseteq Commits
    BY <1>h, <1>3, AncHas
  <2>2. \A q \in Anc(c) : Anc(q)' = Anc(q)
    BY <1>3, <2>1
  <2> QED BY <2>1, <2>2 DEF Parents
<1>w. ASSUME NEW m \in Nodes, NEW c \in Commits, Whole(m, c) PROVE Whole(m, c)'
  <2>1. has[m] \subseteq has'[m] /\ bare' = bare
    BY <1>4 DEF Commit
  <2> QED BY <1>p, <1>w, <2>1 DEF Whole
<1>5. Later
  BY <1>1, <1>4, <1>w DEF Later
<1>6. Anc(n)' = Anc(head[s]) \cup Anc(other) \cup {n}
  BY <1>1, <1>2 DEF Anc
<1>q. Parents(n)' \subseteq {head[s], other}
  <2>0. PICK last \in Commits : last = head[s]
    BY <1>1
  <2>1. SUFFICES ASSUME NEW p \in Parents(n)', p # last, p # other PROVE FALSE
    BY <2>0
  <2>2. /\ p \in Anc(last) \cup Anc(other)
        /\ \A q \in (Anc(last) \cup Anc(other)) \ {n, p} : p \notin Anc(q)'
    BY <1>6, <2>0, <2>1 DEF Parents
  <2>3. last # n /\ other # n /\ last \in Anc(last) /\ other \in Anc(other)
    BY <1>h, <1>1, <1>2, <2>0, AncHas
  <2>4. Anc(last)' = Anc(last) /\ Anc(other)' = Anc(other)
    BY <1>1, <1>2, <1>3
  <2> QED BY <2>1, <2>2, <2>3, <2>4
<1>7. TypeOK'
  <2>1. ASSUME NEW c \in Commits' PROVE c \in anc'[c] /\ anc'[c] \subseteq 1 .. c
    <3>1. CASE c \in Commits
      BY <1>h, <1>1, <3>1 DEF TypeOK
    <3>2. CASE c = n
      <4>1. Commits \cup {n} = 1 .. n
        BY <1>h, <1>1 DEF TypeOK, Commits
      <4>2. Anc(head[s]) \subseteq Commits /\ Anc(other) \subseteq Commits
        BY <1>h, <1>1, <1>2, AncHas
      <4> QED BY <1>1, <3>2, <4>1, <4>2
    <3> QED BY <1>1, <3>1, <3>2
  <2>2. /\ has' \in [Nodes -> SUBSET Commits'] /\ head' \in [Nodes -> Commits' \cup {None}]
        /\ ever' \in [Nodes -> SUBSET Commits']
    BY <1>h, <1>1 DEF TypeOK
  <2>3. /\ record' \in [Stores -> [Remotes -> Commits' \cup {None}]]
        /\ shared' \in [Stores -> Commits' \cup {None}] /\ mark' \subseteq Stores
        /\ calls' \in Nat /\ forgot' \subseteq Tabs /\ stripped' \subseteq Stores
        /\ bare' \subseteq Nodes \X Commits'
    BY <1>h, <1>1, <1>2 DEF TypeOK, books, Commit
  <2>4. Call \subseteq Call'
    BY <1>1 DEF Call
  <2>5. call' \in [Tabs -> Call']
    BY <1>h, <1>2, <2>4 DEF TypeOK
  <2> QED BY <1>1, <2>1, <2>2, <2>3, <2>5 DEF TypeOK
<1>8. HistoriesClosed'
  <2>1. SUFFICES ASSUME NEW c \in Commits', NEW a \in anc'[c] PROVE anc'[a] \subseteq anc'[c]
    BY DEF HistoriesClosed
  <2>2. CASE c \in Commits
    <3>1. a \in anc[c] /\ a \in Commits
      BY <1>h, <1>1, <2>2, <2>1, AncHas
    <3> QED BY <1>h, <1>1, <2>2, <3>1 DEF HistoriesClosed
  <2>3. ASSUME c = n, NEW p \in {head[s], other}, a \in Anc(p) PROVE anc'[a] \subseteq anc'[c]
    <3>1. p \in Commits /\ a \in anc[p] /\ a \in Commits
      BY <1>h, <1>1, <1>2, <2>3, AncHas
    <3>2. anc'[a] = anc[a] /\ anc[a] \subseteq anc[p]
      BY <1>h, <1>1, <3>1 DEF HistoriesClosed
    <3>3. anc[p] = Anc(p)
      BY <1>3, <3>1
    <3> QED BY <1>1, <2>3, <3>2, <3>3
  <2>4. CASE c = n /\ a = n
    BY <2>4
  <2> QED BY <1>1, <2>1, <2>2, <2>3, <2>4
<1>9. HistoryWhole'
  <2>1. SUFFICES ASSUME NEW m \in Nodes
                 PROVE  /\ \A c \in has'[m] : Whole(m, c)'
                        /\ head'[m] # None => head'[m] \in has'[m]
    BY DEF HistoryWhole, Whole
  <2>2. has[m] \subseteq Commits /\ has[m] \subseteq has'[m]
    BY <1>h, <1>4 DEF TypeOK
  <2>3. ASSUME NEW c \in has[m] PROVE Whole(m, c)'
    BY <1>h, <1>w, <2>2 DEF HistoryWhole, Whole
  <2>4. m = s => Whole(m, n)'
    BY <1>h, <1>1, <1>4, <1>q DEF Whole
  <2> QED BY <1>h, <1>4, <2>3, <2>4 DEF HistoryWhole
<1>10. BeenAt'
  BY <1>h, <1>4 DEF BeenAt
<1> QED BY <1>2, <1>5, <1>7, <1>8, <1>9, <1>10, RefsOnly

(* What a sweep leaves keeps its parents, or is put among the `bare`. *)
LEMMA SweepKeeps ==
    ASSUME IInv, NEW n \in Nodes, Sweep(n)
    PROVE  IInv'
<1>h. TypeOK /\ HistoryWhole /\ HistoriesClosed /\ BeenAt
  BY DEF IInv
<1> DEFINE landing == {call[t].next : t \in {u \in Tabs : To(u) = n /\ call[u].step = "land"}}
           left(young) == has[n] \ (Reachable(n) \cup young)
<1>0. PICK young \in SUBSET (has[n] \ Reachable(n)) :
        /\ has' = [has EXCEPT ![n] = @ \ left(young)]
        /\ bare' = bare \cup {<<n, c>> : c \in {d \in young \cup landing : Parents(d) \cap left(young) # {}}}
  BY DEF Sweep
<1> DEFINE taken == left(young)
<1>1. UNCHANGED <<anc, head, call, calls, ever, books>>
  BY DEF Sweep
<1>2. /\ Reachable(n) \subseteq has[n] /\ (head[n] \in has[n] => head[n] \in Reachable(n))
      /\ \A c \in Reachable(n) : Parents(c) \cap has[n] \subseteq Reachable(n)
  BY WalkHeld DEF Reachable
<1>3. \A m \in Nodes : has'[m] = IF m = n THEN Reachable(n) \cup young ELSE has[m]
  <2>1. has[n] \ taken = Reachable(n) \cup young
    BY <1>0, <1>2
  <2> QED BY <1>h, <1>0, <2>1 DEF TypeOK
<1>4. /\ Commits' = Commits /\ Call' = Call
      /\ \A c : Anc(c)' = Anc(c) /\ Parents(c)' = Parents(c)
  BY <1>1, SameHistories DEF Commits, Call
<1>5. ASSUME NEW m \in Nodes, NEW c, Whole(m, c),
             m = n => c \in Reachable(n) \cup young \cup landing
      PROVE  Whole(m, c)'
  <2>1. bare \subseteq bare'
    BY <1>0
  <2>2. CASE m # n \/ <<m, c>> \in bare
    BY <1>3, <1>4, <1>5, <2>1, <2>2 DEF Whole
  <2>3. CASE m = n /\ c \in Reachable(n) /\ Parents(c) \subseteq has[n]
    BY <1>2, <1>3, <1>4, <2>3 DEF Whole
  <2>4. CASE m = n /\ c \in young \cup landing /\ Parents(c) \cap taken # {}
    BY <1>0, <2>4 DEF Whole
  <2>5. CASE m = n /\ Parents(c) \cap taken = {} /\ Parents(c) \subseteq has[n]
    BY <1>0, <1>3, <1>4, <2>5 DEF Whole
  <2> QED BY <1>5, <2>2, <2>3, <2>4, <2>5 DEF Whole
<1>6. landing \subseteq Commits
  <2>1. SUFFICES ASSUME NEW t \in Tabs, call[t].step = "land" PROVE call[t].next \in Commits
    BY <1>0
  <2> QED BY <1>h, <2>1, CallHas DEF Sound, Landing, Call
<1>7. has' \in [Nodes -> SUBSET Commits] /\ bare' \subseteq Nodes \X Commits
  BY <1>h, <1>0, <1>6 DEF TypeOK
<1>8. TypeOK'
  BY <1>h, <1>1, <1>4, <1>7 DEF TypeOK, books
<1>9. HistoryWhole'
  <2>1. SUFFICES ASSUME NEW m \in Nodes
                 PROVE  /\ \A c \in has'[m] : Whole(m, c)'
                        /\ head'[m] # None => head'[m] \in has'[m]
    BY DEF HistoryWhole, Whole
  <2>2. \A c \in has'[m] : Whole(m, c) /\ (m = n => c \in Reachable(n) \cup young)
    BY <1>h, <1>2, <1>3 DEF HistoryWhole, Whole
  <2> QED BY <1>h, <1>1, <1>2, <1>3, <1>5, <2>2 DEF HistoryWhole
<1>10. \A m \in Nodes, c \in Commits : LandsAt(m, c) /\ Whole(m, c) => Whole(m, c)'
  <2>1. SUFFICES ASSUME NEW m \in Nodes, NEW c \in Commits, LandsAt(m, c), Whole(m, c) PROVE Whole(m, c)'
    OBVIOUS
  <2>2. m = n => c \in landing
    BY <1>0, <2>1 DEF LandsAt
  <2> QED BY <1>5, <2>1, <2>2
<1>11. HistoriesClosed' /\ BeenAt' /\ Later
  BY <1>h, <1>1, <1>4, <1>10 DEF HistoriesClosed, BeenAt, Later
<1> QED BY <1>1, <1>8, <1>9, <1>11, RefsOnly

---------------------------------------------------------------------------
(* Transfers *)

LEMMA PullFetchKeeps ==
    ASSUME IInv, NEW t \in Tabs, PullFetch(t)
    PROVE  IInv'
<1> DEFINE c == call[t]
<1>h. /\ c \in Call /\ Home[t] \in Nodes /\ Sound(t) /\ TypeOK /\ c.r \in Remotes
      /\ c.op \in {"pull", "sync"} /\ c.step = "judge" /\ c.there # None
  BY CallHas DEF PullFetch, Pulling
<1>1. PICK have \in SUBSET Commits : have = Have(t) \ {None}
  BY <1>h DEF Have, Call
<1>s. "fetch" \in Steps
  BY DEF Steps
<1>a. PICK d : d = [c EXCEPT !.have = have, !.step = "fetch"]
  OBVIOUS
<1>b. Set(t, d) /\ UNCHANGED <<anc, calls, refs, books>>
  BY <1>1, <1>a DEF PullFetch
<1>c. /\ d \in Call /\ d.step = "fetch" /\ d.op = c.op /\ d.r = c.r
      /\ d.there = c.there /\ d.here = c.here /\ d.shares = c.shares /\ d.knew = c.knew
  BY <1>h, <1>1, <1>s, <1>a DEF Call
<1> QED BY <1>h, <1>b, <1>c, ReadsKeep DEF Sound, CallSound, StepOf, Transfer

(* A call keeps what it read through the steps of its transfer. *)
LEMMA TransferKeeps ==
    ASSUME IInv, NEW t \in Tabs, NEW d \in Call, Set(t, d), UNCHANGED <<anc, calls, refs, books>>,
           call[t].step \in Transfer, d.step \in Transfer \ {"land"},
           d.step = "check" => d.next # None,
           d.step = "move" /\ call[t].op # "push" => call[t].here = None \/ call[t].here \in Anc(call[t].there),
           /\ d.op = call[t].op /\ d.r = call[t].r /\ d.there = call[t].there /\ d.here = call[t].here
           /\ d.shares = call[t].shares /\ d.knew = call[t].knew
    PROVE  IInv'
<1>1. Sound(t) /\ call[t].op \in {"pull", "sync", "push"} /\ call[t].r \in Remotes
  BY CallHas DEF Sound, CallSound, StepOf, Transfer
<1>2. StepOf(d.op, d.step)
  BY <1>1 DEF StepOf
<1> QED BY <1>1, <1>2, ReadsKeep
      DEF Sound, CallSound, PullSound, PushSound, PushKnows, PushMarked, PushBegun, Transfer

LEMMA FetchKeeps ==
    ASSUME IInv, NEW t \in Tabs, Fetch(t)
    PROVE  IInv'
<1> DEFINE c == call[t]
<1>h. c \in Call /\ Sound(t) /\ TypeOK /\ c.step = "fetch" /\ From(t) \in Nodes
  BY CallHas, ToNode DEF Fetch, Transfer
<1>1. CASE Sendable(From(t), Wanted(t), c.have)
  <2>1. PICK rest : rest = Delta(From(t), Wanted(t), c.have)
    OBVIOUS
  <2>2. rest \in SUBSET Commits
    BY <1>h, <2>1, WalkHeld DEF Delta, TypeOK
  <2>s. "take" \in Steps
    BY DEF Steps
  <2>a. PICK d : d = [c EXCEPT !.rest = rest, !.have = {}, !.step = "take"]
    OBVIOUS
  <2>b. Set(t, d) /\ UNCHANGED <<anc, calls, refs, books>>
    BY <1>1, <2>1, <2>a DEF Fetch
  <2>c. /\ d \in Call /\ d.step = "take" /\ d.op = c.op /\ d.r = c.r
        /\ d.there = c.there /\ d.here = c.here /\ d.shares = c.shares /\ d.knew = c.knew
    BY <1>h, <2>2, <2>s, <2>a DEF Call
  <2> QED BY <1>h, <2>b, <2>c, TransferKeeps DEF Transfer
<1>2. CASE ~Sendable(From(t), Wanted(t), c.have)
  BY <1>2, EndKeeps DEF Fetch
<1> QED BY <1>1, <1>2

LEMMA TakeKeeps ==
    ASSUME IInv, NEW t \in Tabs, Take(t)
    PROVE  IInv'
<1> DEFINE c == call[t]
<1>h. c \in Call /\ Sound(t) /\ TypeOK /\ c.step = "take" /\ c.rest \subseteq Commits
  BY CallHas DEF Take, Call
<1>1. CASE End(t) /\ UNCHANGED <<anc, calls, refs, books>>
  BY <1>1, EndKeeps
<1>2. ASSUME NEW k \in c.rest, Set(t, [c EXCEPT !.rest = @ \ {k}, !.fly = @ \cup {k}]),
             UNCHANGED <<anc, calls, refs, books>>
      PROVE  IInv'
  <2>1. PICK rest \in SUBSET Commits, fly \in SUBSET Commits : rest = c.rest \ {k} /\ fly = c.fly \cup {k}
    BY <1>h, <1>2 DEF Call
  <2>a. PICK d : d = [c EXCEPT !.rest = rest, !.fly = fly]
    OBVIOUS
  <2>b. Set(t, d)
    BY <1>2, <2>1, <2>a
  <2>c. /\ d \in Call /\ d.step = "take" /\ d.op = c.op /\ d.r = c.r
        /\ d.there = c.there /\ d.here = c.here /\ d.shares = c.shares /\ d.knew = c.knew
    BY <1>h, <2>1, <2>a DEF Call
  <2> QED BY <1>h, <1>2, <2>b, <2>c, TransferKeeps DEF Transfer
<1>3. ASSUME NEW k \in c.rest, Set(t, [c EXCEPT !.rest = @ \ {k}, !.next = k, !.step = "check"]),
             UNCHANGED <<anc, calls, refs, books>>
      PROVE  IInv'
  <2>1. PICK rest \in SUBSET Commits : rest = c.rest \ {k}
    BY <1>h, <1>3
  <2>k. k \in Commits /\ k # None
    BY <1>h, <1>3, AncHas
  <2>s. "check" \in Steps
    BY DEF Steps
  <2>a. PICK d : d = [c EXCEPT !.rest = rest, !.next = k, !.step = "check"]
    OBVIOUS
  <2>b. Set(t, d)
    BY <1>3, <2>1, <2>a
  <2>c. /\ d \in Call /\ d.step = "check" /\ d.next = k /\ d.op = c.op /\ d.r = c.r
        /\ d.there = c.there /\ d.here = c.here /\ d.shares = c.shares /\ d.knew = c.knew
    BY <1>h, <2>1, <2>k, <2>s, <2>a DEF Call
  <2> QED BY <1>h, <1>3, <2>k, <2>b, <2>c, TransferKeeps DEF Transfer
<1> QED BY <1>1, <1>2, <1>3 DEF Take

(* A call's step among its transfer's, where what is held changes too. *)
LEMMA TransferSound ==
    ASSUME IInv, NEW t \in Tabs, NEW d \in Call, call[t].step \in {"check", "land"},
           UNCHANGED <<anc, ever, books>>, d.step \in {"land", "take"},
           \A n \in Nodes, c \in Commits : d.step = "land" /\ To(t) = n /\ d.next = c => Whole(n, c)',
           d.step = "land" => d.next # None,
           /\ d.op = call[t].op /\ d.r = call[t].r /\ d.there = call[t].there /\ d.here = call[t].here
           /\ d.shares = call[t].shares /\ d.knew = call[t].knew,
           call'[t] = d
    PROVE  Sound(t)'
<1>1. Sound(t) /\ call[t].op \in {"pull", "sync", "push"} /\ call[t].r \in Remotes
  BY CallHas DEF Sound, CallSound, StepOf, Transfer
<1>2. CallSound(t)'
  BY <1>1 DEF Sound, CallSound, StepOf, Transfer, Known, Anc
<1>3. PullSound(t)' /\ PushSound(t)'
  BY <1>1 DEF Sound, PullSound, PushSound, Transfer, Anc
<1>4. PushKnows(t)' /\ PushMarked(t)' /\ UnlessSound(t)'
  BY <1>1 DEF Sound, PushKnows, PushMarked, UnlessSound, PushBegun, Marked, Transfer, books
<1>5. Landing(t)'
  BY DEF Landing, To, Commits
<1> QED BY <1>2, <1>3, <1>4, <1>5 DEF Sound

(* Once its parents are found there, a commit is no longer without them. *)
LEMMA CheckParentsKeeps ==
    ASSUME IInv, NEW t \in Tabs, CheckParents(t)
    PROVE  IInv'
<1> DEFINE c == call[t]
<1>h. /\ c \in Call /\ Sound(t) /\ TypeOK /\ HistoryWhole /\ BeenAt /\ c.step = "check" /\ To(t) \in Nodes
      /\ c.next \in Commits /\ c.next # None
  BY CallHas, ToNode DEF CheckParents, Transfer, IInv, Sound, Landing, Call
<1>1. CASE ParentsThere(To(t), c.next)
  <2>1. PICK n \in Nodes, k \in Commits : n = To(t) /\ k = c.next
    BY <1>h
  <2>2. /\ Parents(k) \subseteq has[n] /\ bare' = bare \ {<<n, k>>} /\ Go(t, "land")
        /\ UNCHANGED <<anc, has, head, calls, ever, books>>
    BY <1>1, <2>1 DEF CheckParents, ParentsThere
  <2>3. \A m, e : Whole(m, e) => Whole(m, e)'
    <3>1. SUFFICES ASSUME NEW m, NEW e, Whole(m, e) PROVE Whole(m, e)'
      OBVIOUS
    <3>2. Parents(e)' = Parents(e)
      BY <2>2, SameHistories
    <3>3. CASE m = n /\ e = k
      BY <2>2, <3>2, <3>3 DEF Whole
    <3>4. CASE ~(m = n /\ e = k)
      BY <2>2, <3>1, <3>2, <3>4 DEF Whole
    <3> QED BY <3>3, <3>4
  <2>s. "land" \in Steps
    BY DEF Steps
  <2>a. PICK d : d = [c EXCEPT !.step = "land"]
    OBVIOUS
  <2>c. /\ d \in Call /\ d.step = "land" /\ d.next = k /\ d.op = c.op /\ d.r = c.r
        /\ d.there = c.there /\ d.here = c.here /\ d.shares = c.shares /\ d.knew = c.knew
    BY <1>h, <2>1, <2>s, <2>a DEF Call
  <2>4. Set(t, d)
    BY <2>2, <2>a DEF Go
  <2>5. Whole(n, k) /\ Whole(n, k)'
    BY <2>2, <2>3 DEF Whole
  <2>6. ASSUME call'[t] = d PROVE Sound(t)'
    <3>1. \A m \in Nodes, e \in Commits : d.step = "land" /\ To(t) = m /\ d.next = e => Whole(m, e)'
      BY <2>1, <2>5, <2>c
    <3> QED BY <1>h, <2>1, <2>2, <2>c, <2>6, <3>1, TransferSound
  <2>7. HistoryWhole' /\ BeenAt' /\ bare' \subseteq Nodes \X Commits
    <3>1. \A m \in Nodes : \A e \in has'[m] : Whole(m, e)'
      BY <1>h, <2>2, <2>3 DEF HistoryWhole, Whole
    <3> QED BY <1>h, <2>2, <3>1 DEF HistoryWhole, Whole, BeenAt, TypeOK
  <2>8. /\ has' \in [Nodes -> SUBSET Commits] /\ head' \in [Nodes -> Commits \cup {None}]
        /\ ever' \in [Nodes -> SUBSET Commits]
    BY <1>h, <2>2 DEF TypeOK
  <2> QED BY <2>2, <2>3, <2>4, <2>c, <2>6, <2>7, <2>8, RefsOfCall
<1>2. CASE ~ParentsThere(To(t), c.next)
  BY <1>2, EndKeeps DEF CheckParents, refs
<1> QED BY <1>1, <1>2

LEMMA LandCommitKeeps ==
    ASSUME IInv, NEW t \in Tabs, LandCommit(t)
    PROVE  IInv'
<1> DEFINE c == call[t]
<1>h. /\ c \in Call /\ Sound(t) /\ TypeOK /\ HistoryWhole /\ BeenAt /\ c.step = "land" /\ To(t) \in Nodes
      /\ c.next \in Commits /\ c.next # None
  BY CallHas, ToNode DEF LandCommit, Transfer, IInv, Sound, Landing, Call
<1>1. PICK n \in Nodes, k \in Commits : n = To(t) /\ k = c.next
  BY <1>h
<1>2. has' = [has EXCEPT ![n] = @ \cup {k}] /\ UNCHANGED <<anc, head, calls, ever, bare, books>>
  BY <1>1 DEF LandCommit
<1>3. \A m \in Nodes : has'[m] = IF m = n THEN has[m] \cup {k} ELSE has[m]
  BY <1>h, <1>2 DEF TypeOK
<1>4. \A m \in Nodes : \A e : Whole(m, e) => Whole(m, e)'
  BY <1>2, <1>3, WholeStays
<1>5. Whole(n, k)
  BY <1>h, <1>1 DEF Sound, Landing
<1>6. HistoryWhole'
  <2>1. \A m \in Nodes : \A e \in has'[m] : Whole(m, e)'
    <3>1. SUFFICES ASSUME NEW m \in Nodes, NEW e \in has'[m] PROVE Whole(m, e)
      BY <1>4
    <3>2. e \in has[m] \/ (m = n /\ e = k)
      BY <1>3
    <3> QED BY <1>h, <1>5, <3>2 DEF HistoryWhole, Whole
  <2> QED BY <1>h, <1>2, <1>3, <2>1 DEF HistoryWhole, Whole
<1>7. PICK fly \in SUBSET Commits : fly = c.fly \cup {k}
  BY <1>h DEF Call
<1>s. "take" \in Steps
  BY DEF Steps
<1>a. PICK d : d = [c EXCEPT !.fly = fly, !.next = None, !.step = "take"]
  OBVIOUS
<1>b. Set(t, d)
  BY <1>1, <1>7, <1>a DEF LandCommit
<1>c. /\ d \in Call /\ d.step = "take" /\ d.op = c.op /\ d.r = c.r
      /\ d.there = c.there /\ d.here = c.here /\ d.shares = c.shares /\ d.knew = c.knew
  BY <1>h, <1>7, <1>s, <1>a DEF Call
<1>8. ASSUME call'[t] = d PROVE Sound(t)'
  BY <1>h, <1>2, <1>c, <1>8, TransferSound
<1>9. /\ has' \in [Nodes -> SUBSET Commits] /\ head' \in [Nodes -> Commits \cup {None}]
      /\ ever' \in [Nodes -> SUBSET Commits] /\ bare' \subseteq Nodes \X Commits
  BY <1>h, <1>2 DEF TypeOK
<1>10. BeenAt'
  BY <1>h, <1>2 DEF BeenAt
<1> QED BY <1>2, <1>4, <1>6, <1>b, <1>c, <1>8, <1>9, <1>10, RefsOfCall

LEMMA ArrivedKeeps ==
    ASSUME IInv, NEW t \in Tabs, Arrived(t)
    PROVE  IInv'
<1> DEFINE c == call[t]
<1>h. c \in Call /\ Sound(t) /\ TypeOK /\ c.step = "take" /\ Home[t] \in Nodes
  BY CallHas DEF Arrived
<1>o. c.op \in {"pull", "sync", "push"}
  BY <1>h DEF Sound, CallSound, StepOf, Transfer
<1>1. CASE Wanted(t) \in has[To(t)] /\ (Pulling(t) => Follows(t))
  <2>1. c.op # "push" => c.here = None \/ c.here \in Anc(c.there)
    <3>1. SUFFICES ASSUME c.op # "push", c.here # None PROVE c.here \in Anc(c.there)
      OBVIOUS
    <3>2. c.here \in Walk(Home[t], {c.there})
      BY <1>o, <1>1, <3>1 DEF Pulling, Follows, IsAncestor
    <3>3. c.there \in Commits
      BY <1>h, <1>o, <3>1 DEF Sound, PullSound, Transfer, Call
    <3> QED BY <1>h, <3>2, <3>3, WalkBack DEF IInv
  <2>s. "move" \in Steps
    BY DEF Steps
  <2>a. PICK d : d = [c EXCEPT !.step = "move"]
    OBVIOUS
  <2>b. Set(t, d) /\ UNCHANGED <<anc, calls, refs, books>>
    BY <1>1, <2>a DEF Arrived, Go
  <2>c. /\ d \in Call /\ d.step = "move" /\ d.op = c.op /\ d.r = c.r
        /\ d.there = c.there /\ d.here = c.here /\ d.shares = c.shares /\ d.knew = c.knew
    BY <1>h, <2>s, <2>a DEF Call
  <2> QED BY <1>h, <2>1, <2>b, <2>c, TransferKeeps DEF Transfer
<1>2. CASE ~(Wanted(t) \in has[To(t)] /\ (Pulling(t) => Follows(t)))
  BY <1>2, EndKeeps DEF Arrived
<1> QED BY <1>1, <1>2

LEMMA MovedKeeps ==
    ASSUME TypeOK, BeenAt, NEW n \in Nodes, NEW c \in Commits, Moved(n, c)
    PROVE  /\ head' \in [Nodes -> Commits \cup {None}] /\ ever' \in [Nodes -> SUBSET Commits]
           /\ BeenAt' /\ c \in ever'[n] /\ \A m \in Nodes : ever[m] \subseteq ever'[m]
           /\ \A m \in Nodes : head'[m] = IF m = n THEN c ELSE head[m]
<1>1. \A m \in Nodes : /\ head'[m] = IF m = n THEN c ELSE head[m]
                       /\ ever'[m] = IF m = n THEN ever[m] \cup {c} ELSE ever[m]
  BY DEF TypeOK, Moved
<1>2. head' \in [Nodes -> Commits \cup {None}] /\ ever' \in [Nodes -> SUBSET Commits]
  BY DEF TypeOK, Moved
<1> QED BY <1>1, <1>2 DEF BeenAt

(* Either way a branch moves: its commit is there, and it has been there. *)
LEMMA MoveOfCall ==
    ASSUME IInv, NEW t \in Tabs, NEW n \in Nodes, NEW k \in Commits, k \in has[n], Moved(n, k),
           UNCHANGED <<anc, has, calls, bare, books>>, NEW d \in Call, Set(t, d),
           Later /\ k \in ever'[n] /\ call'[t] = d => Sound(t)'
    PROVE  IInv'
<1>h. TypeOK /\ HistoryWhole /\ BeenAt
  BY DEF IInv
<1>1. /\ head' \in [Nodes -> Commits \cup {None}] /\ ever' \in [Nodes -> SUBSET Commits]
      /\ BeenAt' /\ k \in ever'[n] /\ \A m \in Nodes : ever[m] \subseteq ever'[m]
      /\ \A m \in Nodes : head'[m] = IF m = n THEN k ELSE head[m]
  BY <1>h, MovedKeeps
<1>2. \A m, e : Whole(m, e) => Whole(m, e)'
  BY SameHistories DEF Whole
<1>3. HistoryWhole'
  <2>1. \A m \in Nodes : \A e \in has'[m] : Whole(m, e)'
    BY <1>h, <1>2 DEF HistoryWhole, Whole
  <2> QED BY <1>h, <1>1, <2>1 DEF HistoryWhole, Whole
<1>4. Later
  BY <1>1, <1>2 DEF Later, Commits
<1>5. has' \in [Nodes -> SUBSET Commits] /\ bare' \subseteq Nodes \X Commits
  BY <1>h DEF TypeOK
<1>6. ASSUME call'[t] = d PROVE Sound(t)'
  BY <1>1, <1>4, <1>6
<1> QED BY <1>1, <1>2, <1>3, <1>5, <1>6, RefsOfCall

LEMMA RecordsNext ==
    ASSUME IInv, NEW t \in Tabs, call[t].step = "move", Later, UNCHANGED <<anc, books>>,
           NEW d \in Call, d.step = "record", call'[t] = d,
           call[t].op = "push" => call[t].here \in ever'[call[t].r],
           call[t].op # "push" => call[t].there \in ever'[Home[t]],
           /\ d.op = call[t].op /\ d.r = call[t].r /\ d.there = call[t].there /\ d.here = call[t].here
           /\ d.shares = call[t].shares /\ d.knew = call[t].knew
    PROVE  Sound(t)'
<1> DEFINE c == call[t]
           s == Home[t]
<1>1. /\ c \in Call /\ s \in Nodes /\ Sound(t) /\ TypeOK /\ c.op \in {"pull", "sync", "push"}
      /\ c.r \in Remotes /\ c.r \in Nodes
  BY CallHas DEF Sound, CallSound, StepOf, Transfer
<1>2. \A k \in Commits, r \in Remotes : k = c.shares /\ r = c.r => Known(s, r, k)'
  <2>1. SUFFICES ASSUME NEW k \in Commits, NEW r \in Remotes, k = c.shares, r = c.r PROVE Known(s, r, k)'
    OBVIOUS
  <2>2. r \in Nodes /\ Known(s, r, k)
    BY <1>1, <2>1, AncHas DEF Sound, CallSound
  <2> QED BY <1>1, <2>2, KnownLater
<1>3. CallSound(t)'
  BY <1>1, <1>2 DEF Sound, CallSound, StepOf, Call, Later
<1>4. PullSound(t)' /\ PushSound(t)'
  BY <1>1 DEF Sound, PullSound, PushSound, Transfer
<1>5. PushKnows(t)' /\ PushMarked(t)' /\ UnlessSound(t)'
  BY <1>1 DEF Sound, PushKnows, PushMarked, UnlessSound, PushBegun, Marked, Transfer, books
<1>6. Landing(t)'
  BY DEF Landing
<1> QED BY <1>3, <1>4, <1>5, <1>6 DEF Sound

LEMMA PullMoveKeeps ==
    ASSUME IInv, NEW t \in Tabs, PullMove(t)
    PROVE  IInv'
<1> DEFINE c == call[t]
           s == Home[t]
           rh == c.there
<1>h. /\ c \in Call /\ s \in Nodes /\ Sound(t) /\ TypeOK /\ c.op \in {"pull", "sync"} /\ c.step = "move"
  BY CallHas DEF PullMove, Pulling
<1>1. CASE rh \in has[s] /\ There(s, c.here)
  <2>1. rh \in Commits
    BY <1>h, <1>1 DEF TypeOK
  <2>s. "record" \in Steps
    BY DEF Steps
  <2>a. PICK d : d = [c EXCEPT !.fly = {}, !.step = "record"]
    OBVIOUS
  <2>b. Set(t, d) /\ Moved(s, rh) /\ UNCHANGED <<anc, has, calls, bare, books>>
    BY <1>1, <2>a DEF PullMove
  <2>c. /\ d \in Call /\ d.step = "record" /\ d.op = c.op /\ d.r = c.r
        /\ d.there = c.there /\ d.here = c.here /\ d.shares = c.shares /\ d.knew = c.knew
    BY <1>h, <2>s, <2>a DEF Call
  <2> QED BY <1>h, <1>1, <2>1, <2>b, <2>c, RecordsNext, MoveOfCall
<1>2. CASE ~(rh \in has[s] /\ There(s, c.here))
  BY <1>2, EndKeeps DEF PullMove, refs
<1> QED BY <1>1, <1>2

(* A push takes nothing out of the branch it moves. *)
LEMMA Sent ==
    ASSUME IInv, NEW t \in Tabs, PushMove(t)
    PROVE  /\ call[t].op = "push" /\ call[t].r \in Remotes /\ call[t].step = "move"
           /\ call[t].here \in Commits /\ call[t].here # None
           /\ call[t].there = None \/ call[t].there \in Anc(call[t].here)
           /\ call[t].there = None => call[t].shares = None
<1>1. call[t] \in Call /\ Sound(t) /\ call[t].op = "push" /\ call[t].step = "move" /\ call[t].r \in Remotes
  BY CallHas DEF PushMove, At
<1> QED BY <1>1 DEF Sound, PushSound, PushKnows, Transfer, Call

LEMMA PushMoveKeeps ==
    ASSUME IInv, NEW t \in Tabs, PushMove(t)
    PROVE  IInv'
<1> DEFINE c == call[t]
           lh == c.here
<1>h. /\ c \in Call /\ Sound(t) /\ TypeOK /\ c.op = "push" /\ c.step = "move" /\ c.r \in Remotes
      /\ c.r \in Nodes /\ lh \in Commits
  BY CallHas, Sent DEF PushMove, At
<1>1. CASE lh \notin has[c.r]
  BY <1>1, EndKeeps DEF PushMove, refs
<1>2. CASE lh \in has[c.r] /\ There(c.r, c.there)
  <2>s. "record" \in Steps
    BY DEF Steps
  <2>a. PICK d : d = [c EXCEPT !.fly = {}, !.step = "record"]
    OBVIOUS
  <2>b. Set(t, d) /\ Moved(c.r, lh) /\ UNCHANGED <<anc, has, calls, bare, books>>
    BY <1>2, <2>a DEF PushMove
  <2>c. /\ d \in Call /\ d.step = "record" /\ d.op = c.op /\ d.r = c.r
        /\ d.there = c.there /\ d.here = c.here /\ d.shares = c.shares /\ d.knew = c.knew
    BY <1>h, <2>s, <2>a DEF Call
  <2> QED BY <1>h, <1>2, <2>b, <2>c, RecordsNext, MoveOfCall
<1>3. CASE lh \in has[c.r] /\ ~There(c.r, c.there)
  <2>s. "look" \in Steps
    BY DEF Steps
  <2>a. PICK d : d = [c EXCEPT !.fly = {}, !.step = "look"]
    OBVIOUS
  <2>b. Set(t, d) /\ UNCHANGED <<anc, calls, refs, books>>
    BY <1>3, <2>a DEF PushMove, refs
  <2>c. /\ d \in Call /\ d.step = "look" /\ d.op = c.op /\ d.r = c.r
        /\ d.there = c.there /\ d.here = c.here /\ d.shares = c.shares /\ d.knew = c.knew
    BY <1>h, <2>s, <2>a DEF Call
  <2> QED BY <1>h, <2>b, <2>c, ReadsKeep
        DEF Sound, CallSound, PushSound, PushKnows, PushMarked, PushBegun, Transfer, StepOf
<1> QED BY <1>1, <1>2, <1>3

---------------------------------------------------------------------------
(* The invariant *)

LEMMA InitSound == Init => IInv
<1> SUFFICES ASSUME Init PROVE IInv
  OBVIOUS
<1>1. /\ anc = <<{1}>> /\ Len(anc) = 1 /\ anc[1] = {1} /\ Commits = {1}
      /\ calls = 0 /\ forgot = {} /\ bare = {} /\ stripped = {} /\ \A t \in Tabs : call[t] = Idle
  BY DEF Init, Commits
<1>2. 1 # None /\ Anc(1) = {1} /\ Parents(1) = {}
  BY <1>1, SyncAssumption DEF Anc, Parents
<1>3. /\ has \in [Nodes -> SUBSET {1}] /\ head \in [Nodes -> {1, None}] /\ ever = has
      /\ \A n \in Nodes : head[n] # None => 1 \in has[n]
      /\ record \in [Stores -> [Remotes -> {1, None}]] /\ shared \in [Stores -> {1, None}]
      /\ mark \subseteq Stores
      /\ \A s \in Stores, r \in Remotes :
            record[s][r] # None \/ shared[s] # None => 1 \in ever[r] /\ 1 \in ever[s]
  <2>1. CASE \E s \in Stores : /\ head = [n \in Nodes |-> IF n = s THEN 1 ELSE None]
                              /\ has = [n \in Nodes |-> IF n = s THEN {1} ELSE {}]
                              /\ record = [q \in Stores |-> [r \in Remotes |-> None]]
                              /\ shared = [q \in Stores |-> None]
    BY <1>2, <2>1 DEF Init
  <2>2. CASE /\ head = [n \in Nodes |-> 1] /\ has = [n \in Nodes |-> {1}]
             /\ record = [s \in Stores |-> [r \in Remotes |-> 1]]
             /\ shared = [s \in Stores |-> None]
    BY <2>2 DEF Init, Nodes
  <2>3. CASE /\ head = [n \in Nodes |-> 1] /\ has = [n \in Nodes |-> {1}]
             /\ record = [s \in Stores |-> [r \in Remotes |-> None]]
             /\ shared = [s \in Stores |-> 1]
    BY <2>3 DEF Init, Nodes
  <2> QED BY <2>1, <2>2, <2>3 DEF Init
<1>4. anc \in Seq(SUBSET Nat)
  BY <1>1
<1>5. call \in [Tabs -> Call]
  BY IdleCall DEF Init
<1>6. \A c \in Commits : c \in anc[c] /\ anc[c] \subseteq 1 .. c
  BY <1>1
<1>7. TypeOK
  BY <1>1, <1>3, <1>4, <1>5, <1>6 DEF TypeOK
<1>8. HistoriesClosed /\ HistoryWhole /\ BeenAt
  BY <1>1, <1>2, <1>3 DEF HistoriesClosed, HistoryWhole, BeenAt
<1>9. RecordsKnown
  <2>1. SUFFICES ASSUME NEW s \in Stores, NEW r \in Remotes
                 PROVE  /\ record[s][r] # None => Known(s, r, record[s][r])
                        /\ shared[s] # None => Known(s, r, shared[s])
    BY DEF RecordsKnown
  <2>2. record[s][r] \in {1, None} /\ shared[s] \in {1, None}
    BY <1>3
  <2>3. record[s][r] # None \/ shared[s] # None => Known(s, r, 1)
    BY <1>2, <1>3 DEF Known
  <2> QED BY <2>2, <2>3
<1>10. ASSUME NEW t \in Tabs PROVE Sound(t)
  BY <1>1, <1>10 DEF Sound, CallSound, PullSound, PushSound, PushKnows, PushMarked, UnlessSound,
                     Landing, PushBegun, Transfer, StepOf, Idle, New
<1> QED BY <1>7, <1>8, <1>9, <1>10 DEF IInv

LEMMA StillSound ==
    ASSUME IInv, UNCHANGED vars
    PROVE  IInv'
<1>1. UNCHANGED <<anc, calls, refs, books, call>>
  BY DEF vars, refs, books
<1>2. /\ Commits' = Commits /\ Call' = Call
      /\ \A c : Anc(c)' = Anc(c) /\ Parents(c)' = Parents(c)
  BY <1>1, SameHistories DEF Commits, Call
<1>3. TypeOK' /\ HistoriesClosed' /\ HistoryWhole' /\ BeenAt'
  BY <1>1, <1>2 DEF IInv, TypeOK, HistoriesClosed, HistoryWhole, BeenAt, refs, books
<1>4. Later
  BY <1>1, <1>2 DEF Later, Whole, refs
<1> QED BY <1>1, <1>3, <1>4, RefsOnly

LEMMA StepSound == IInv /\ [Next]_vars => IInv'
<1> SUFFICES ASSUME IInv, [Next]_vars PROVE IInv'
  OBVIOUS
<1>1. ASSUME NEW s \in Stores, Commit(s) \/ DeleteBranch(s) PROVE IInv'
  BY <1>1, CommitKeeps, DeleteBranchKeeps
<1>2. ASSUME NEW n \in Nodes, Sweep(n) PROVE IInv'
  BY <1>2, SweepKeeps
<1>3. ASSUME NEW t \in Tabs, Crash(t) \/ Begin(t) \/ ClaimOwn(t) \/ ClaimShared(t) PROVE IInv'
  BY <1>3, CrashKeeps, BeginKeeps, ClaimOwnKeeps, ClaimSharedKeeps
<1>4. ASSUME NEW t \in Tabs,
             \/ PullLook(t) \/ PullLocal(t) \/ PullEven(t) \/ PullNothing(t)
             \/ PullFetch(t) \/ PullMove(t) \/ PullRecord(t)
      PROVE  IInv'
  BY <1>4, PullLookKeeps, PullLocalKeeps, PullEvenKeeps, PullNothingKeeps, PullFetchKeeps, PullMoveKeeps,
     PullRecordKeeps
<1>t. ASSUME NEW t \in Tabs, Fetch(t) \/ Take(t) \/ CheckParents(t) \/ LandCommit(t) \/ Arrived(t)
      PROVE  IInv'
  BY <1>t, FetchKeeps, TakeKeeps, CheckParentsKeeps, LandCommitKeeps, ArrivedKeeps
<1>5. ASSUME NEW t \in Tabs,
             \/ PushExists(t) \/ PushMark(t) \/ PushRead(t) \/ PushLook(t) \/ PushJudge(t)
             \/ PushMove(t) \/ PushRecord(t)
      PROVE  IInv'
  BY <1>5, PushExistsKeeps, PushMarkKeeps, PushReadKeeps, PushLookKeeps, PushJudgeKeeps, PushMoveKeeps,
     PushRecordKeeps
<1>6. ASSUME NEW t \in Tabs,
             \/ DeleteRemote(t) \/ DeleteAgain(t) \/ ForgetOwn(t) \/ ForgetShared(t)
             \/ ForgetLast(t) \/ Unmark(t)
      PROVE  IInv'
  BY <1>6, DeleteRemoteKeeps, DeleteAgainKeeps, ForgetOwnKeeps, ForgetSharedKeeps, ForgetLastKeeps, UnmarkKeeps
<1>7. ASSUME NEW t \in Tabs,
             \/ UnlessHead(t) \/ UnlessMarked(t) \/ UnlessShared(t) \/ UnlessRecords(t) \/ UnlessRemove(t)
      PROVE  IInv'
  BY <1>7, UnlessHeadKeeps, UnlessMarkedKeeps, UnlessSharedKeeps, UnlessRecordsKeeps, UnlessRemoveKeeps
<1>8. CASE UNCHANGED vars
  BY <1>8, StillSound
<1> QED BY <1>1, <1>2, <1>3, <1>4, <1>t, <1>5, <1>6, <1>7, <1>8 DEF Next

LEMMA Invariance == Spec => []IInv
<1> QED BY InitSound, StepSound, PTL DEF Spec

(* For any stores, remotes, tabs and calls, and sweeps at any step: what a  *)
(* ref names is there; what is there has its parents there, but for what a  *)
(* sweep spared for its age alone and what it took the parents of between   *)
(* their check and the landing; and what is recorded as shared with a       *)
(* remote its branch has been at, and so has this store's or one after it   *)
(* (sync/apply.ts, sync.ts).                                                *)
THEOREM SyncStaysTrue == Spec => []SyncTrue
<1>1. IInv => SyncTrue
  BY DEF IInv, SyncTrue, RecordsShared, RecordsKnown, Known
<1> QED BY <1>1, Invariance, PTL

---------------------------------------------------------------------------
(* How refs move *)

LEMMA WhoMoves ==
    ASSUME [Next]_vars
    PROVE  \/ UNCHANGED <<anc, head>>
           \/ \E s \in Stores : Commit(s) \/ DeleteBranch(s)
           \/ \E t \in Tabs : PullMove(t) \/ PushMove(t) \/ DeleteRemote(t) \/ UnlessRemove(t)
<1>1. ASSUME NEW n \in Nodes, Sweep(n) PROVE UNCHANGED <<anc, head>>
  BY <1>1 DEF Sweep
<1>2. ASSUME NEW t \in Tabs, Crash(t) \/ Begin(t) \/ ClaimOwn(t) \/ ClaimShared(t)
      PROVE  UNCHANGED <<anc, head>>
  BY <1>2 DEF Crash, Begin, ClaimOwn, ClaimShared, refs
<1>3. ASSUME NEW t \in Tabs,
             \/ PullLook(t) \/ PullLocal(t) \/ PullEven(t) \/ PullNothing(t)
             \/ PullFetch(t) \/ PullRecord(t)
             \/ Fetch(t) \/ Take(t) \/ CheckParents(t) \/ LandCommit(t) \/ Arrived(t)
      PROVE  UNCHANGED <<anc, head>>
  BY <1>3 DEF PullLook, PullLocal, PullEven, PullNothing, PullFetch, PullRecord, Fetch, Take, CheckParents,
              LandCommit, Arrived, refs
<1>4. ASSUME NEW t \in Tabs,
             \/ PushExists(t) \/ PushMark(t) \/ PushRead(t) \/ PushLook(t) \/ PushJudge(t) \/ PushRecord(t)
      PROVE  UNCHANGED <<anc, head>>
  BY <1>4 DEF PushExists, PushMark, PushRead, PushLook, PushJudge, PushRecord, refs
<1>5. ASSUME NEW t \in Tabs,
             \/ DeleteAgain(t) \/ ForgetOwn(t) \/ ForgetShared(t) \/ ForgetLast(t) \/ Unmark(t)
             \/ UnlessHead(t) \/ UnlessMarked(t) \/ UnlessShared(t) \/ UnlessRecords(t)
      PROVE  UNCHANGED <<anc, head>>
  BY <1>5 DEF DeleteAgain, ForgetOwn, ForgetShared, ForgetLast, Unmark, UnlessHead, UnlessMarked,
              UnlessShared, UnlessRecords, refs
<1>6. CASE UNCHANGED vars
  BY <1>6 DEF vars
<1> QED BY <1>1, <1>2, <1>3, <1>4, <1>5, <1>6 DEF Next

(* A step of a call moves that call alone, and one ref at most. *)
LEMMA OneMoves ==
    ASSUME TypeOK, NEW t \in Tabs,
           PullMove(t) \/ PushMove(t) \/ DeleteRemote(t) \/ UnlessRemove(t)
    PROVE  /\ \A u \in Tabs \ {t} : call'[u] = call[u]
           /\ UNCHANGED anc
           /\ \A n \in Nodes :
                 \/ head'[n] = head[n]
                 \/ PullMove(t) /\ n = Home[t] /\ There(n, call[t].here) /\ head'[n] = call[t].there
                 \/ PushMove(t) /\ n = call[t].r /\ There(n, call[t].there) /\ head'[n] = call[t].here
                 \/ DeleteRemote(t) /\ n = call[t].r /\ call[t].shares # None
                      /\ There(n, call[t].shares) /\ head'[n] = None
                 \/ UnlessRemove(t) /\ n = Home[t] /\ n \notin mark /\ shared[n] = None /\ head'[n] = None
<1>1. CASE PullMove(t)
  BY <1>1 DEF PullMove, Moved, End, Set, TypeOK
<1>2. CASE PushMove(t)
  BY <1>2 DEF PushMove, Moved, End, Set, TypeOK
<1>3. CASE DeleteRemote(t)
  BY <1>3 DEF DeleteRemote, Go, End, Set, TypeOK
<1>4. CASE UnlessRemove(t)
  BY <1>4 DEF UnlessRemove, Go, End, Set, TypeOK
<1> QED BY <1>1, <1>2, <1>3, <1>4

LEMMA StoreMoves ==
    ASSUME IInv, NEW s \in Stores, Commit(s) \/ DeleteBranch(s)
    PROVE  /\ UNCHANGED call /\ s \in Nodes /\ s \notin Remotes
           /\ \A n \in Nodes \ {s} : head'[n] = head[n]
           /\ head[s] \in Commits
           /\ head'[s] # None => head[s] \in anc'[head'[s]]
<1>1. s \in Nodes /\ s \notin Remotes /\ TypeOK
  BY SyncAssumption DEF Nodes, IInv
<1>2. CASE DeleteBranch(s)
  BY <1>1, <1>2 DEF DeleteBranch, TypeOK
<1>3. CASE Commit(s)
  <2>1. PICK n \in Nat, other \in has[s] :
             /\ anc'[n] = Anc(head[s]) \cup Anc(other) \cup {n} /\ head[s] \in Commits
             /\ head' = [head EXCEPT ![s] = n]
    BY <1>3, Committed
  <2>2. head[s] \in Anc(head[s])
    BY <1>1, <2>1, AncHas
  <2> QED BY <1>1, <1>3, <2>1, <2>2 DEF Commit, TypeOK
<1> QED BY <1>2, <1>3

LEMMA CallFacts ==
    ASSUME IInv, NEW t \in Tabs
    PROVE  /\ TypeOK /\ Sound(t) /\ call[t] \in Call /\ Home[t] \in Nodes /\ Home[t] \notin Remotes
           /\ call[t].op # "idle" => /\ call[t].r \in Nodes /\ call[t].r \in Remotes
                                     /\ call[t].r \notin Stores
BY CallHas, SyncAssumption

LEMMA RefForward ==
    ASSUME IInv, [Next]_vars, NEW n \in Nodes, head[n] # None, head'[n] # None
    PROVE  head[n] \in anc'[head'[n]]
<1>1. TypeOK /\ head[n] \in Commits /\ head[n] \in anc[head[n]]
  BY AncHas DEF IInv, TypeOK
<1>2. CASE UNCHANGED <<anc, head>>
  BY <1>1, <1>2
<1>3. ASSUME NEW s \in Stores, Commit(s) \/ DeleteBranch(s) PROVE head[n] \in anc'[head'[n]]
  <2>1. CASE n = s
    BY <1>3, <2>1, StoreMoves
  <2>2. CASE n # s
    <3>1. head'[n] = head[n]
      BY <1>3, <2>2, StoreMoves
    <3>2. anc'[head[n]] = anc[head[n]]
      BY <1>1, <1>3, Committed DEF DeleteBranch
    <3> QED BY <1>1, <3>1, <3>2
  <2> QED BY <2>1, <2>2
<1>4. ASSUME NEW t \in Tabs, PullMove(t) \/ PushMove(t) \/ DeleteRemote(t) \/ UnlessRemove(t)
      PROVE  head[n] \in anc'[head'[n]]
  <2>1. UNCHANGED anc
    BY <1>1, <1>4, OneMoves
  <2>2. CASE head'[n] = head[n]
    BY <1>1, <2>1, <2>2
  <2>3. CASE PullMove(t) /\ head[n] = call[t].here /\ head'[n] = call[t].there
    <3>1. call[t].op \in {"pull", "sync"} /\ call[t].step = "move" /\ Sound(t)
      BY <2>3, CallFacts DEF PullMove, Pulling
    <3> QED BY <1>1, <2>1, <2>3, <3>1 DEF Sound, PullSound, Anc
  <2>4. CASE PushMove(t) /\ head[n] = call[t].there /\ head'[n] = call[t].here
    BY <2>1, <2>4, Sent DEF Anc
  <2> QED BY <1>1, <1>4, <2>2, <2>3, <2>4, OneMoves DEF There
<1> QED BY <1>2, <1>3, <1>4, WhoMoves

LEMMA DeleteSeen ==
    ASSUME IInv, [Next]_vars, NEW r \in Remotes, head[r] # None, head'[r] = None
    PROVE  \E t \in Tabs : /\ call[t].r = r /\ call[t].op = "delete" /\ call'[t] # call[t]
                           /\ \E c \in ever[Home[t]] : head[r] \in Anc(c)
<1>1. TypeOK /\ r \in Nodes /\ r \notin Stores
  BY SyncAssumption DEF IInv, Nodes
<1>2. ~UNCHANGED <<anc, head>>
  OBVIOUS
<1>3. ASSUME NEW s \in Stores, Commit(s) \/ DeleteBranch(s) PROVE FALSE
  BY <1>1, <1>3, StoreMoves
<1>4. PICK t \in Tabs : PullMove(t) \/ PushMove(t) \/ DeleteRemote(t) \/ UnlessRemove(t)
  BY <1>2, <1>3, WhoMoves
<1>5. Home[t] # r
  BY <1>1, SyncAssumption
<1>6. ~PushMove(t) \/ call[t].here # None
  BY Sent
<1>7. DeleteRemote(t) /\ r = call[t].r /\ call[t].shares # None /\ head[r] = call[t].shares
  BY <1>1, <1>4, <1>5, <1>6, OneMoves DEF There
<1>8. call[t].op = "delete" /\ Sound(t) /\ call[t] \in Call /\ call[t].step = "delete"
  BY <1>7, CallFacts DEF DeleteRemote, At
<1>9. call'[t].step = "own" /\ call'[t] # call[t]
  <2>1. Go(t, "own")
    BY <1>7 DEF DeleteRemote, There
  <2>2. call'[t] = [call[t] EXCEPT !.step = "own"]
    BY <1>1, <2>1 DEF Go, Set, TypeOK
  <2>3. call'[t].step = "own"
    BY <1>8, <2>2 DEF Call
  <2> QED BY <1>8, <2>3
<1>10. \E c \in ever[Home[t]] : head[r] \in Anc(c)
  BY <1>7, <1>8 DEF Sound, CallSound, Known
<1> QED BY <1>7, <1>8, <1>9, <1>10

LEMMA GoneKept ==
    ASSUME IInv, [Next]_vars, NEW t \in Tabs
    PROVE  ~Revives(t, {"own"})
<1>1. SUFFICES ASSUME Revives(t, {"own"}) PROVE FALSE
  OBVIOUS
<1>2. TypeOK /\ Sound(t) /\ call[t] \in Call
  BY CallFacts
<1>3. /\ call[t].step = "move" /\ call'[t] # call[t] /\ call[t].knew = "own" /\ t \notin forgot
      /\ head[call[t].r] = None /\ head'[call[t].r] # None
  BY <1>1 DEF Revives, At
<1>4. /\ call[t].op = "push" /\ call[t].r \in Remotes /\ call[t].r \in Nodes /\ call[t].r \notin Stores
  BY <1>1, CallFacts DEF Revives, At
<1>5. ~UNCHANGED <<anc, head>>
  BY <1>3
<1>6. ASSUME NEW s \in Stores, Commit(s) \/ DeleteBranch(s) PROVE FALSE
  BY <1>3, <1>6, StoreMoves
<1>7. PICK u \in Tabs : PullMove(u) \/ PushMove(u) \/ DeleteRemote(u) \/ UnlessRemove(u)
  BY <1>5, <1>6, WhoMoves
<1>8. u = t
  BY <1>2, <1>3, <1>7, OneMoves
<1>9. PushMove(t)
  BY <1>3, <1>4, <1>7, <1>8 DEF PullMove, Pulling, DeleteRemote, UnlessRemove, At
<1>10. There(call[t].r, call[t].there)
  <2>1. ~PullMove(t) /\ ~DeleteRemote(t) /\ ~UnlessRemove(t)
    BY <1>3, <1>4 DEF PullMove, Pulling, DeleteRemote, UnlessRemove, At
  <2> QED BY <1>2, <1>3, <1>4, <1>9, <2>1, OneMoves
<1>11. call[t].there = None
  BY <1>3, <1>10 DEF There
<1>12. call[t].shares = None /\ call[t].shares # None
  BY <1>2, <1>3, <1>4, <1>11 DEF Sound, PushKnows, Transfer
<1> QED BY <1>12

LEMMA SyncingBranchKept ==
    ASSUME IInv, [Next]_vars, NEW t \in Tabs, DropsSyncing(t)
    PROVE  Home[t] \in stripped
<1>1. /\ TypeOK /\ Sound(t) /\ Home[t] \in Nodes /\ call[t].op = "unless" /\ call[t].step = "remove"
      /\ call'[t] # call[t] /\ head[Home[t]] # None /\ head'[Home[t]] = None
      /\ Syncs(Home[t]) \/ shared[Home[t]] # None
  BY CallFacts DEF DropsSyncing, At
<1>2. ~UNCHANGED <<anc, head>>
  BY <1>1
<1>3. ASSUME NEW s \in Stores, Commit(s) \/ DeleteBranch(s) PROVE FALSE
  BY <1>1, <1>3, StoreMoves
<1>4. PICK u \in Tabs : PullMove(u) \/ PushMove(u) \/ DeleteRemote(u) \/ UnlessRemove(u)
  BY <1>2, <1>3, WhoMoves
<1>5. u = t
  BY <1>1, <1>4, OneMoves
<1>6. ~PullMove(t) /\ ~PushMove(t) /\ ~DeleteRemote(t)
  BY <1>1 DEF PullMove, Pulling, PushMove, DeleteRemote, At
<1>7. Home[t] \notin mark /\ shared[Home[t]] = None
  BY <1>1, <1>4, <1>5, <1>6, OneMoves
<1>8. Marked(Home[t])
  <2>1. CASE \E r \in Remotes : record[Home[t]][r] # None
    BY <1>1, <2>1 DEF Sound, UnlessSound
  <2>2. CASE \E v \in Tabs : Home[v] = Home[t] /\ PushBegun(v)
    BY <2>2, CallFacts DEF Sound, PushMarked
  <2> QED BY <1>1, <1>7, <2>1, <2>2 DEF Syncs
<1> QED BY <1>7, <1>8 DEF Marked

(* For any stores, remotes, tabs and calls: refs move forward alone; a      *)
(* remote's branch is deleted where this store's has been; one found gone   *)
(* is not pushed again by a store that held the remote's own record of it,  *)
(* unless it was forgotten since the push began (what was shared in the     *)
(* older form is left out); and one that syncs is not deleted as if it did  *)
(* not, unless a forgetting that found no records took the mark of a push   *)
(* or a pull that had made one since (sync/apply.ts, sync.ts).              *)
THEOREM SyncMovesStay == Spec => SyncMovesKept
<1>1. IInv /\ [Next]_vars =>
        [\A n \in Nodes : head[n] # None /\ head'[n] # None => head[n] \in anc'[head'[n]]]_vars
  BY RefForward
<1>2. IInv /\ [Next]_vars =>
        [\A r \in Remotes : head[r] # None /\ head'[r] = None =>
            \E t \in Tabs : /\ call[t].r = r /\ call[t].op = "delete" /\ call'[t] # call[t]
                            /\ \E c \in ever[Home[t]] : head[r] \in Anc(c)]_vars
  BY DeleteSeen
<1>3. IInv /\ [Next]_vars => [\A t \in Tabs : ~Revives(t, {"own"})]_vars
  BY GoneKept
<1>4. IInv /\ [Next]_vars =>
        [\A t \in Tabs : DropsSyncing(t) => Home[t] \in stripped]_vars
  BY SyncingBranchKept
<1>5. Spec => RefsForward
  BY <1>1, Invariance, PTL DEF Spec, RefsForward
<1>6. Spec => DeletesSeen
  BY <1>2, Invariance, PTL DEF Spec, DeletesSeen
<1>7. Spec => GoneStaysGone
  BY <1>3, Invariance, PTL DEF Spec, GoneStaysGone
<1>8. Spec => SyncingKept
  BY <1>4, Invariance, PTL DEF Spec, SyncingKept
<1> QED BY <1>5, <1>6, <1>7, <1>8 DEF SyncMovesKept

---------------------------------------------------------------------------
(* The inductive invariant. Types, first of what is stored.                 *)

CommitRows == [data : [Keys -> Values], anc : SUBSET Nat]
Takings == UNION {[ks -> Values] : ks \in SUBSET Keys}
CallSteps == {"start", "publish", "merge", "land", "forward", "load"}
Calls ==
    [op : {"commit", "merge", "apply", "refresh", "reset"}, step : CallSteps,
     only : SUBSET Keys, ups : Takings, rems : SUBSET Keys,
     moved : {"merge", "raise"}, rule : Rules \cup {"none"}, theirs : Nat, to : Nat]
Readings == [key : Keys, val : Values, old : BOOLEAN]

StoreType ==
    /\ commit \in Seq(CommitRows) /\ \A c \in DOMAIN commit : commit[c].anc \subseteq 0 .. c - 1
    /\ tip \in held \cup {Nothing} /\ held \subseteq 0 .. Len(commit) /\ Root \in held

(* A call works with commits its branch held; one that waits has not begun. *)
QueueType(w) ==
    /\ queue[w] \in Seq(Calls) /\ Len(queue[w]) <= 2
    /\ \A i \in DOMAIN queue[w] : /\ queue[w][i].theirs \in held /\ queue[w][i].to \in held
                                  /\ i # 1 => queue[w][i].step = "start"

TreeType(w) ==
    /\ cur[w] \in 0 .. Len(commit) /\ base[w] \in held
    /\ DOMAIN updates[w] \subseteq Keys /\ removals[w] \subseteq Keys /\ DOMAIN cache[w] \subseteq Keys
    /\ \A k \in DOMAIN updates[w] : updates[w][k].val \in Values
    /\ reading[w] = Nothing \/ reading[w] \in Readings
    /\ deleting[w] = Nothing \/ deleting[w] \in Keys
    /\ QueueType(w)

Domains ==
    /\ DOMAIN cur = Trees /\ DOMAIN base = Trees /\ DOMAIN updates = Trees
    /\ DOMAIN removals = Trees /\ DOMAIN cache = Trees /\ DOMAIN reading = Trees
    /\ DOMAIN deleting = Trees /\ DOMAIN queue = Trees
    /\ writes \in 0 .. MaxWrites

---------------------------------------------------------------------------
(* A call that has built a commit stands on it, and it is nobody else's: no *)
(* commit follows it, no branch has had it. Any other handle stands on the  *)
(* commit it publishes over.                                                *)

Fresh(w) ==
    /\ Busy(w)
    /\ \/ Called(w).step \in {"publish", "land"}
       \/ Called(w).op = "commit" /\ Called(w).step = "merge"

Own(w) ==
    /\ cur[w] \in DOMAIN commit /\ cur[w] \notin held
    /\ \A c \in DOMAIN commit : cur[w] \notin commit[c].anc
    /\ \A v \in Trees \ {w} : cur[v] # cur[w]

Stands(w) == IF Fresh(w) THEN Own(w) ELSE cur[w] = base[w]

(* What a call's commit is made of, at each step.                           *)
Takes(w) ==
    [k \in Keys |-> IF k \in DOMAIN Called(w).ups THEN Called(w).ups[k]
                    ELSE IF k \in Called(w).rems THEN Absent ELSE Data(base[w])[k]]

Builds(w) ==
    LET req == Called(w) IN
    /\ req.step = "publish" => req.op = "commit"
    /\ req.step \in {"merge", "land"} => req.op \in {"commit", "merge", "apply"}
    /\ req.step = "forward" => req.op = "merge" /\ cur[w] \in Ancestors(req.theirs)
    /\ req.step = "load" => req.op \in {"merge", "refresh", "reset"}
    /\ req.op = "commit" /\ req.step \in {"publish", "merge"} =>
           Ancestors(cur[w]) = Ancestors(base[w]) \cup {cur[w]} /\ Data(cur[w]) = Takes(w)
    /\ req.op = "commit" /\ req.step = "land" =>
           /\ req.theirs \in Ancestors(cur[w])
           /\ base[w] \in Ancestors(req.theirs) => HoldsTaken(w, Data(cur[w]), req.theirs)
    /\ req.op # "commit" /\ req.step = "land" => base[w] \in Ancestors(cur[w])

(* A read no move overtook is of the base, in flight or in the cache.       *)
ReadsTrue(w) ==
    /\ reading[w] # Nothing /\ ~reading[w].old =>
           reading[w].val = Data(base[w])[reading[w].key]
    /\ \A k \in DOMAIN cache[w] : ~cache[w][k].old => cache[w][k].val = Data(base[w])[k]

(* A commit that is on its way takes every write it will clear, but for the *)
(* late ones.                                                               *)
TakesAll(w) ==
    \A i \in DOMAIN queue[w] : queue[w][i].op = "commit" =>
        \A k \in DOMAIN updates[w] \cap queue[w][i].only : ~updates[w][k].late =>
            k \in DOMAIN queue[w][i].ups /\ queue[w][i].ups[k] = updates[w][k].val

TreeInv(w) ==
    TreeType(w) /\ Stands(w) /\ (Busy(w) => Builds(w)) /\ ReadsTrue(w) /\ TakesAll(w)

Inv == StoreType /\ Domains /\ \A w \in Trees : TreeInv(w)

---------------------------------------------------------------------------
(* Sequences.                                                               *)

LEMMA Replaced ==
    ASSUME NEW S, NEW q \in Seq(S), q # <<>>, NEW c \in S
    PROVE  LET t == <<c>> \o Tail(q) IN
           /\ t \in Seq(S) /\ t # <<>> /\ Len(t) = Len(q) /\ DOMAIN t = DOMAIN q
           /\ Head(q) = q[1] /\ Head(q) \in S /\ 1 \in DOMAIN q
           /\ Head(t) = c /\ t[1] = c /\ \A i \in DOMAIN q : i # 1 => t[i] = q[i]
<1>1. /\ Len(q) \in Nat /\ Len(q) >= 1 /\ Tail(q) \in Seq(S) /\ Len(Tail(q)) = Len(q) - 1
      /\ \A i \in 1 .. Len(Tail(q)) : Tail(q)[i] = q[i + 1]
      /\ Head(q) = q[1] /\ Head(q) \in S
    BY HeadTailProperties, EmptySeq, LenProperties
<1>2. <<c>> \in Seq(S) /\ Len(<<c>>) = 1
    OBVIOUS
<1> DEFINE t == <<c>> \o Tail(q)
<1>3. t \in Seq(S) /\ Len(t) = Len(q)
    BY <1>1, <1>2, ConcatProperties
<1>4. t[1] = c
    BY <1>1, <1>2, ConcatProperties
<1>5. ASSUME NEW i \in DOMAIN q, i # 1 PROVE t[i] = q[i]
    <2>1. i \in 1 .. Len(q) /\ i - 1 \in 1 .. Len(q) - 1 /\ (i - 1) + 1 = i
        BY <1>1, <1>5
    <2>2. t[i] = Tail(q)[i - 1]
        BY <1>1, <1>2, <2>1, ConcatProperties
    <2> QED
        BY <1>1, <2>1, <2>2
<1> HIDE DEF t
<1>6. t # <<>> /\ DOMAIN t = DOMAIN q /\ Head(t) = t[1] /\ 1 \in DOMAIN q
    BY <1>1, <1>3
<1> QED
    BY <1>1, <1>3, <1>4, <1>5, <1>6 DEF t

LEMMA Dropped ==
    ASSUME NEW S, NEW q \in Seq(S), q # <<>>
    PROVE  LET t == Tail(q) IN
           /\ t \in Seq(S) /\ Len(t) = Len(q) - 1 /\ DOMAIN t = 1 .. Len(q) - 1
           /\ \A i \in DOMAIN t : i + 1 \in DOMAIN q /\ i + 1 # 1 /\ t[i] = q[i + 1]
           /\ t # <<>> => Head(t) = t[1] /\ 1 \in DOMAIN t
<1>1. /\ Len(q) \in Nat /\ Len(q) >= 1 /\ Tail(q) \in Seq(S) /\ Len(Tail(q)) = Len(q) - 1
      /\ \A i \in 1 .. Len(Tail(q)) : Tail(q)[i] = q[i + 1]
    BY HeadTailProperties, EmptySeq, LenProperties
<1> DEFINE t == Tail(q)
<1>2. DOMAIN t = 1 .. Len(q) - 1
    BY <1>1
<1>3. \A i \in 1 .. Len(q) - 1 : i + 1 \in DOMAIN q /\ i + 1 # 1
    BY <1>1
<1>4. t # <<>> => Head(t) = t[1] /\ 1 \in DOMAIN t
    <2>1. ASSUME t # <<>> PROVE Len(t) >= 1 /\ Head(t) = t[1]
        BY <1>1, <2>1, HeadTailProperties, EmptySeq, LenProperties
    <2> QED
        BY <1>1, <1>2, <2>1
<1> QED
    BY <1>1, <1>2, <1>3, <1>4

LEMMA Appended ==
    ASSUME NEW S, NEW q \in Seq(S), NEW c \in S
    PROVE  LET t == Append(q, c) IN
           /\ t \in Seq(S) /\ t # <<>> /\ Len(t) = Len(q) + 1 /\ DOMAIN t = 1 .. Len(q) + 1
           /\ Len(q) \in Nat /\ DOMAIN q = 1 .. Len(q)
           /\ t[Len(q) + 1] = c /\ \A i \in DOMAIN q : t[i] = q[i]
           /\ Head(t) = IF q = <<>> THEN c ELSE Head(q)
<1> DEFINE t == Append(q, c)
<1>1. /\ Len(q) \in Nat /\ DOMAIN q = 1 .. Len(q) /\ t \in Seq(S) /\ Len(t) = Len(q) + 1
      /\ \A i \in 1 .. Len(q) : t[i] = q[i]
      /\ t[Len(q) + 1] = c
    BY AppendProperties, LenProperties
<1>2. q = <<>> <=> Len(q) = 0
    BY EmptySeq, LenProperties
<1> HIDE DEF t
<1>3. t # <<>> /\ DOMAIN t = 1 .. Len(q) + 1 /\ Head(t) = t[1]
    BY <1>1
<1>4. q # <<>> => Head(q) = q[1] /\ 1 \in 1 .. Len(q)
    BY <1>1, <1>2
<1>5. Head(t) = IF q = <<>> THEN c ELSE Head(q)
    BY <1>1, <1>2, <1>3, <1>4
<1> QED
    BY <1>1, <1>3, <1>5 DEF t

---------------------------------------------------------------------------
(* CommitRows are only added, and so is what the branch has been.              *)

Grown ==
    /\ held \subseteq held' /\ Len(commit) \in Nat /\ Len(commit') \in Nat
    /\ Len(commit) <= Len(commit')
    /\ \A c \in 0 .. Len(commit) : Data(c)' = Data(c) /\ Ancestors(c)' = Ancestors(c)

(* What an action of one worktree leaves to the others.                     *)
OthersSame(w) ==
    \A v \in Trees \ {w} :
        /\ cur'[v] = cur[v] /\ base'[v] = base[v] /\ queue'[v] = queue[v]
        /\ updates'[v] = updates[v] /\ removals'[v] = removals[v] /\ cache'[v] = cache[v]
        /\ reading'[v] = reading[v] /\ deleting'[v] = deleting[v]

OthersApart(w) ==
    \A v \in Trees \ {w} : Fresh(v) =>
        /\ cur[v] \notin held' /\ cur'[w] # cur[v]
        /\ \A c \in DOMAIN commit' : cur[v] \notin commit'[c].anc

LEMMA Stays ==
    ASSUME StoreType, UNCHANGED commit, held \subseteq held'
    PROVE  Grown
BY LenProperties DEF StoreType, Grown, Data, Ancestors

LEMMA Lengths ==
    ASSUME StoreType
    PROVE  /\ Len(commit) \in Nat /\ DOMAIN commit = 1 .. Len(commit)
           /\ \A c \in 0 .. Len(commit) :
                  Data(c) \in [Keys -> Values] /\ c \in Ancestors(c) /\ Ancestors(c) \subseteq 0 .. c
<1>1. Len(commit) \in Nat /\ DOMAIN commit = 1 .. Len(commit)
    BY LenProperties DEF StoreType
<1>2. \A c \in 1 .. Len(commit) : commit[c] \in CommitRows
    BY <1>1, ElementOfSeq DEF StoreType
<1>3. ASSUME NEW c \in 0 .. Len(commit)
      PROVE  Data(c) \in [Keys -> Values] /\ c \in Ancestors(c) /\ Ancestors(c) \subseteq 0 .. c
    <2>1. CASE c = Root
        BY <2>1 DEF Data, Ancestors, Root, Values
    <2>2. CASE c # Root
        <3>1. c \in 1 .. Len(commit) /\ commit[c] \in CommitRows /\ commit[c].anc \subseteq 0 .. c - 1
            BY <1>1, <1>2, <2>2 DEF Root, StoreType
        <3>2. commit[c].data \in [Keys -> Values]
            BY <3>1 DEF CommitRows
        <3> QED
            BY <1>1, <2>2, <3>1, <3>2 DEF Data, Ancestors
    <2> QED
        BY <2>1, <2>2
<1> QED
    BY <1>1, <1>3

LEMMA BuildsKept ==
    ASSUME StoreType, NEW v, TreeType(v), Busy(v), Builds(v), Grown,
           queue'[v] = queue[v], cur'[v] = cur[v], base'[v] = base[v]
    PROVE  Builds(v)'
<1>1. PICK c : c = Called(v)
    OBVIOUS
<1>2. Called(v)' = c
    BY <1>1 DEF Called
<1>3. c.theirs \in held /\ c.theirs \in 0 .. Len(commit)
    <2>1. queue[v] \in Seq(Calls) /\ queue[v] # <<>>
        BY DEF TreeType, QueueType, Busy
    <2>2. Head(queue[v]) = queue[v][1] /\ 1 \in DOMAIN queue[v]
        BY <2>1, Replaced
    <2> QED
        BY <1>1, <2>2 DEF Called, TreeType, QueueType, StoreType
<1>4. PICK n, b : n = cur[v] /\ b = base[v]
    OBVIOUS
<1>5. n \in 0 .. Len(commit) /\ b \in 0 .. Len(commit)
    BY <1>4 DEF TreeType, StoreType
<1>6. /\ Data(n)' = Data(n) /\ Data(b)' = Data(b) /\ Data(c.theirs)' = Data(c.theirs)
      /\ Ancestors(n)' = Ancestors(n) /\ Ancestors(b)' = Ancestors(b)
      /\ Ancestors(c.theirs)' = Ancestors(c.theirs)
    BY <1>3, <1>5 DEF Grown
<1>7. Data(cur[v])' = Data(n) /\ Data(base[v])' = Data(b) /\ Ancestors(cur[v])' = Ancestors(n) /\ Ancestors(base[v])' = Ancestors(b)
    BY <1>4, <1>6 DEF Data, Ancestors
<1>8. Takes(v)' = Takes(v)
    BY <1>1, <1>2, <1>4, <1>7 DEF Takes
<1>9. HoldsTaken(v, Data(n), c.theirs) <=> HoldsTaken(v, Data(cur[v]), c.theirs)'
    BY <1>1, <1>2, <1>4, <1>6, <1>7 DEF HoldsTaken
<1> QED
    BY <1>1, <1>2, <1>4, <1>6, <1>7, <1>8, <1>9 DEF Builds

(* A worktree that does nothing, while another takes a step.                *)
LEMMA OthersKeep ==
    ASSUME Inv, NEW w \in Trees, NEW v \in Trees \ {w}, Grown, StoreType',
           OthersSame(w), OthersApart(w), cur'[w] # cur[v] \/ ~Fresh(v)
    PROVE  TreeInv(v)'
<1>1. TreeInv(v) /\ StoreType
    BY DEF Inv
<1>2. /\ cur'[v] = cur[v] /\ base'[v] = base[v] /\ queue'[v] = queue[v]
      /\ updates'[v] = updates[v] /\ removals'[v] = removals[v] /\ cache'[v] = cache[v]
      /\ reading'[v] = reading[v] /\ deleting'[v] = deleting[v]
    BY DEF OthersSame
<1>3. PICK b : b = base[v]
    OBVIOUS
<1>4. b \in 0 .. Len(commit) /\ Data(b)' = Data(b) /\ Data(base[v])' = Data(b)
    BY <1>1, <1>2, <1>3 DEF TreeInv, TreeType, StoreType, Grown, Data
<1>5. TreeType(v)'
    <2>1. QueueType(v)'
        BY <1>1, <1>2 DEF TreeInv, TreeType, QueueType, Grown
    <2>2. cur'[v] \in 0 .. Len(commit') /\ base'[v] \in held'
        BY <1>1, <1>2 DEF TreeInv, TreeType, Grown
    <2> QED
        BY <1>1, <1>2, <2>1, <2>2 DEF TreeInv, TreeType
<1>6. Busy(v)' = Busy(v) /\ Fresh(v)' = Fresh(v)
    BY <1>2 DEF Busy, Fresh, Called
<1>7. Stands(v)'
    <2>1. CASE Fresh(v)
        <3>1. cur[v] \in DOMAIN commit'
            BY <1>1, <2>1, Lengths DEF Inv, TreeInv, Stands, Own, Grown, StoreType
        <3>2. \A u \in Trees \ {v} : cur'[u] # cur'[v]
            BY <1>1, <1>2, <2>1 DEF TreeInv, Stands, Own, OthersSame
        <3> QED
            BY <1>2, <1>6, <2>1, <3>1, <3>2 DEF Stands, Own, OthersApart
    <2>2. CASE ~Fresh(v)
        BY <1>1, <1>2, <1>6, <2>2 DEF TreeInv, Stands
    <2> QED
        BY <2>1, <2>2
<1>8. Busy(v)' => Builds(v)'
    BY <1>1, <1>2, <1>6, BuildsKept DEF TreeInv
<1>9. ReadsTrue(v)'
    BY <1>1, <1>2, <1>3, <1>4, <1>6 DEF TreeInv, ReadsTrue
<1>10. TakesAll(v)'
    BY <1>1, <1>2 DEF TreeInv, TakesAll
<1> QED
    BY <1>5, <1>7, <1>8, <1>9, <1>10 DEF TreeInv

LEMMA OneSteps ==
    ASSUME Inv, NEW w \in Trees, Grown, StoreType', Domains', OthersSame(w), OthersApart(w), TreeInv(w)'
    PROVE  Inv'
<1>1. ASSUME NEW v \in Trees \ {w} PROVE TreeInv(v)'
    BY <1>1, OthersKeep DEF OthersApart
<1> QED
    BY <1>1 DEF Inv

(* A commit is nobody's but its handle's.                                   *)
LEMMA Apart ==
    ASSUME Inv, NEW w \in Trees, UNCHANGED commit, held' \subseteq held \cup {cur[w]},
           cur'[w] \in held' \cup {cur[w]}
    PROVE  OthersApart(w)
<1> SUFFICES ASSUME NEW v \in Trees \ {w}, Fresh(v)
             PROVE  /\ cur[v] \notin held' /\ cur'[w] # cur[v]
                    /\ \A c \in DOMAIN commit' : cur[v] \notin commit'[c].anc
    BY DEF OthersApart
<1>1. Own(v)
    BY DEF Inv, TreeInv, Stands
<1> QED
    BY <1>1 DEF Own

---------------------------------------------------------------------------
(* Reads and writes: the queue, the handle and the store are as they were.  *)

BufferFrame(w) ==
    /\ UNCHANGED <<store, cur, base, queue>>
    /\ \A v \in Trees \ {w} :
        /\ updates'[v] = updates[v] /\ removals'[v] = removals[v] /\ cache'[v] = cache[v]
        /\ reading'[v] = reading[v] /\ deleting'[v] = deleting[v]

LEMMA BufferKeeps ==
    ASSUME Inv, NEW w \in Trees, BufferFrame(w), Domains',
           /\ DOMAIN updates'[w] \subseteq Keys /\ removals'[w] \subseteq Keys
           /\ DOMAIN cache'[w] \subseteq Keys
           /\ \A k \in DOMAIN updates'[w] : updates'[w][k].val \in Values
           /\ reading'[w] = Nothing \/ reading'[w] \in Readings
           /\ deleting'[w] = Nothing \/ deleting'[w] \in Keys,
           /\ reading'[w] # Nothing /\ ~reading'[w].old =>
                  reading'[w].val = Data(base[w])[reading'[w].key]
           /\ \A k \in DOMAIN cache'[w] : ~cache'[w][k].old => cache'[w][k].val = Data(base[w])[k],
           \A k \in DOMAIN updates'[w] : ~updates'[w][k].late =>
               ~Busy(w) \/ (k \in DOMAIN updates[w] /\ updates'[w][k] = updates[w][k])
    PROVE  Inv'
<1>1. TreeInv(w) /\ StoreType /\ UNCHANGED <<commit, tip, held, cur, base, queue>>
    BY DEF Inv, BufferFrame, store
<1>2. StoreType' /\ Grown
    BY <1>1, Stays DEF StoreType
<1>3. OthersSame(w) /\ OthersApart(w)
    BY <1>1, Apart DEF OthersSame, BufferFrame
<1>4. TreeType(w)'
    <2>1. QueueType(w)'
        BY <1>1 DEF TreeInv, TreeType, QueueType
    <2> QED
        BY <1>1, <2>1 DEF TreeInv, TreeType
<1>5. Busy(w)' = Busy(w) /\ Fresh(w)' = Fresh(w)
    BY <1>1 DEF Busy, Fresh, Called
<1>6. Stands(w)'
    BY <1>1, <1>5 DEF TreeInv, Stands, Own
<1>7. Busy(w)' => Builds(w)'
    BY <1>1, <1>2, <1>5, BuildsKept DEF TreeInv
<1>8. ReadsTrue(w)'
    BY <1>1, <1>5 DEF ReadsTrue, Data
<1>9. TakesAll(w)'
    <2>1. ASSUME NEW i \in DOMAIN queue[w] PROVE Busy(w)
        BY <1>1, <2>1 DEF Busy, TreeInv, TreeType, QueueType
    <2> QED
        BY <1>1, <2>1 DEF TreeInv, TakesAll
<1> QED
    BY <1>2, <1>3, <1>4, <1>6, <1>7, <1>8, <1>9, OneSteps DEF TreeInv, Inv

LEMMA SetKeyKeeps ==
    ASSUME Inv, NEW w \in Trees, NEW k \in Keys, SetKey(w, k)
    PROVE  Inv'
<1>1. TreeInv(w) /\ StoreType /\ Domains
    BY DEF Inv
<1>2. PICK r : r = [val |-> writes + 1, late |-> Busy(w)]
    OBVIOUS
<1>3. r.val = writes + 1 /\ r.late = Busy(w) /\ r.val \in Values /\ writes + 1 \in 0 .. MaxWrites
    BY <1>1, <1>2, WritesAssumption DEF SetKey, Domains, Values
<1>4. updates'[w] = With(updates[w], k, r)
    BY <1>1, <1>2 DEF SetKey, Domains
<1>5. /\ DOMAIN updates'[w] = DOMAIN updates[w] \cup {k}
      /\ updates'[w][k] = r
      /\ \A j \in DOMAIN updates[w] : j # k => updates'[w][j] = updates[w][j]
    BY <1>4 DEF With
<1>6. Domains' /\ BufferFrame(w)
    BY <1>1, <1>3 DEF SetKey, Domains, BufferFrame
<1>7. removals'[w] \subseteq Keys
    BY <1>1 DEF SetKey, Domains, TreeInv, TreeType
<1>8. cache'[w] = cache[w] /\ reading'[w] = reading[w] /\ deleting'[w] = deleting[w]
    BY DEF SetKey
<1> QED
    BY <1>1, <1>3, <1>5, <1>6, <1>7, <1>8, BufferKeeps DEF TreeInv, TreeType, ReadsTrue

LEMMA DeleteKeeps ==
    ASSUME Inv, NEW w \in Trees, NEW k \in Keys, DeleteKey(w, k)
    PROVE  Inv'
<1>1. TreeInv(w) /\ StoreType /\ Domains
    BY DEF Inv
<1>2. updates'[w] = Without(updates[w], {k})
    BY <1>1 DEF DeleteKey, Domains
<1>3. /\ DOMAIN updates'[w] = DOMAIN updates[w] \ {k}
      /\ \A j \in DOMAIN updates'[w] : updates'[w][j] = updates[w][j]
    BY <1>2 DEF Without, Restrict
<1>4. Domains' /\ BufferFrame(w)
    BY <1>1 DEF DeleteKey, Domains, BufferFrame
<1>5. cache'[w] = cache[w] /\ reading'[w] = reading[w] /\ deleting'[w] = k /\ removals'[w] = removals[w]
    BY <1>1 DEF DeleteKey, Domains
<1> QED
    BY <1>1, <1>3, <1>4, <1>5, BufferKeeps DEF TreeInv, TreeType, ReadsTrue

LEMMA DeletedKeeps ==
    ASSUME Inv, NEW w \in Trees, Deleted(w)
    PROVE  Inv'
<1>1. TreeInv(w) /\ StoreType /\ Domains
    BY DEF Inv
<1>2. Domains' /\ BufferFrame(w)
    BY <1>1 DEF Deleted, Domains, BufferFrame
<1>3. /\ cache'[w] = cache[w] /\ reading'[w] = reading[w] /\ updates'[w] = updates[w]
      /\ deleting'[w] = Nothing /\ removals'[w] \subseteq removals[w] \cup {deleting[w]}
      /\ deleting[w] \in Keys
    BY <1>1 DEF Deleted, Domains, TreeInv, TreeType
<1> QED
    BY <1>1, <1>2, <1>3, BufferKeeps DEF TreeInv, TreeType, ReadsTrue

LEMMA ReadKeeps ==
    ASSUME Inv, NEW w \in Trees, NEW k \in Keys, Read(w, k)
    PROVE  Inv'
<1>1. TreeInv(w) /\ StoreType /\ Domains
    BY DEF Inv
<1>2. PICK r : r = [key |-> k, val |-> Data(cur[w])[k], old |-> cur[w] # base[w]]
    OBVIOUS
<1>3. r.key = k /\ r.val = Data(cur[w])[k] /\ r.old = (cur[w] # base[w])
    BY <1>2
<1>4. r \in Readings
    BY <1>1, <1>2, Lengths DEF Readings, TreeInv, TreeType
<1>5. ~r.old => cur[w] = base[w]
    BY <1>3
<1>6. Domains' /\ BufferFrame(w)
    BY <1>1 DEF Read, Domains, BufferFrame
<1>7. /\ cache'[w] = cache[w] /\ reading'[w] = r /\ deleting'[w] = deleting[w]
      /\ removals'[w] = removals[w] /\ updates'[w] = updates[w]
    BY <1>1, <1>2 DEF Read, Domains
<1> QED
    BY <1>1, <1>3, <1>4, <1>5, <1>6, <1>7, BufferKeeps DEF TreeInv, TreeType, ReadsTrue

LEMMA ReadDoneKeeps ==
    ASSUME Inv, NEW w \in Trees, ReadDone(w)
    PROVE  Inv'
<1>1. TreeInv(w) /\ StoreType /\ Domains
    BY DEF Inv
<1>2. PICK k, r : k = reading[w].key /\ r = [val |-> reading[w].val, old |-> reading[w].old]
    OBVIOUS
<1>3. k \in Keys /\ r.val = reading[w].val /\ r.old = reading[w].old
    BY <1>1, <1>2 DEF ReadDone, TreeInv, TreeType, Readings
<1>4. cache'[w] = With(cache[w], k, r)
    BY <1>1, <1>2 DEF ReadDone, Domains
<1>5. /\ DOMAIN cache'[w] = DOMAIN cache[w] \cup {k}
      /\ cache'[w][k] = r
      /\ \A j \in DOMAIN cache[w] : j # k => cache'[w][j] = cache[w][j]
    BY <1>4 DEF With
<1>6. Domains' /\ BufferFrame(w)
    BY <1>1 DEF ReadDone, Domains, BufferFrame
<1>7. /\ reading'[w] = Nothing /\ deleting'[w] = deleting[w]
      /\ removals'[w] = removals[w] /\ updates'[w] = updates[w]
    BY <1>1 DEF ReadDone, Domains
<1>8. \A j \in DOMAIN cache'[w] : ~cache'[w][j].old => cache'[w][j].val = Data(base[w])[j]
    BY <1>1, <1>2, <1>3, <1>5 DEF TreeInv, ReadsTrue, ReadDone
<1> QED
    BY <1>1, <1>3, <1>5, <1>6, <1>7, <1>8, BufferKeeps DEF TreeInv, TreeType

LEMMA DiscardKeeps ==
    ASSUME Inv, NEW w \in Trees, DiscardPending(w)
    PROVE  Inv'
<1>1. TreeInv(w) /\ StoreType /\ Domains
    BY DEF Inv
<1>2. Domains' /\ BufferFrame(w)
    BY <1>1 DEF DiscardPending, Discard, Domains, BufferFrame
<1>3. /\ reading'[w] = reading[w] /\ deleting'[w] = deleting[w]
      /\ removals'[w] = {} /\ DOMAIN updates'[w] = {} /\ DOMAIN cache'[w] = {}
    BY <1>1 DEF DiscardPending, Discard, Domains, Empty
<1> QED
    BY <1>1, <1>2, <1>3, BufferKeeps DEF TreeInv, TreeType, ReadsTrue

---------------------------------------------------------------------------
(* Calls: what the queue, the buffers and the handles of others keep.       *)

LEMMA Calling ==
    ASSUME Inv, NEW w \in Trees, Busy(w)
    PROVE  /\ queue[w] \in Seq(Calls) /\ queue[w] # <<>> /\ 1 \in DOMAIN queue[w]
           /\ Called(w) = queue[w][1] /\ Called(w) \in Calls
           /\ Called(w).theirs \in held /\ Called(w).to \in held
           /\ Called(w).theirs \in 0 .. Len(commit) /\ Called(w).to \in 0 .. Len(commit)
<1>1. queue[w] \in Seq(Calls) /\ queue[w] # <<>>
    BY DEF Inv, TreeInv, TreeType, QueueType, Busy
<1>2. 1 \in DOMAIN queue[w] /\ Called(w) = queue[w][1] /\ Called(w) \in Calls
    BY <1>1, Replaced DEF Called
<1> QED
    BY <1>1, <1>2 DEF Inv, TreeInv, TreeType, QueueType, StoreType

BuffersMove(w) ==
    /\ DOMAIN updates' = Trees /\ DOMAIN removals' = Trees /\ DOMAIN cache' = Trees
    /\ DOMAIN reading' = Trees /\ DOMAIN deleting' = Trees /\ DOMAIN queue' = Trees
    /\ \A v \in Trees \ {w} :
        /\ queue'[v] = queue[v]
        /\ updates'[v] = updates[v] /\ removals'[v] = removals[v] /\ cache'[v] = cache[v]
        /\ reading'[v] = reading[v] /\ deleting'[v] = deleting[v]

HandleMoves(w) ==
    /\ DOMAIN cur' = Trees /\ DOMAIN base' = Trees /\ writes' = writes
    /\ \A v \in Trees \ {w} : cur'[v] = cur[v] /\ base'[v] = base[v]

(* The read in flight, if any, marked as one the handle's move overtook.    *)
Overtaken(w) == reading'[w] = Nothing \/ (reading'[w] \in Readings /\ reading'[w].old)

(* A call that ends leaves fewer pending writes, and those as they were.    *)
Shrinks(w) ==
    /\ queue'[w] = Tail(queue[w])
    /\ DOMAIN updates'[w] \subseteq DOMAIN updates[w]
    /\ \A k \in DOMAIN updates'[w] : updates'[w][k] = updates[w][k]
    /\ removals'[w] \subseteq removals[w]
    /\ deleting'[w] = deleting[w]
    /\ \/ DOMAIN cache'[w] = {} /\ Overtaken(w)
       \/ cache'[w] = cache[w] /\ reading'[w] = reading[w]

LEMMA Returned ==
    ASSUME Domains, NEW w \in Trees, Return(w), reading[w] = Nothing \/ reading[w] \in Readings
    PROVE  BuffersMove(w) /\ Shrinks(w) /\ DOMAIN cache'[w] = {} /\ Overtaken(w)
<1>1. DOMAIN Empty = {}
    BY DEF Empty
<1>2. /\ queue' = [queue EXCEPT ![w] = Tail(@)] /\ UNCHANGED deleting /\ DOMAIN reading' = Trees
      /\ \A v \in Trees \ {w} : reading'[v] = reading[v]
    BY DEF Return, Overtake, Domains
<1>o. Overtaken(w)
    <2>1. reading'[w] = IF reading[w] = Nothing THEN Nothing ELSE [reading[w] EXCEPT !.old = TRUE]
        BY DEF Return, Overtake, Domains
    <2> QED
        BY <2>1 DEF Overtaken, Readings
<1>3. CASE Called(w).op = "commit"
    <2>1. /\ updates' = [updates EXCEPT ![w] = Without(@, Called(w).only)]
          /\ removals' = [removals EXCEPT ![w] = @ \ Called(w).only]
          /\ cache' = [cache EXCEPT ![w] = Empty]
        BY <1>3 DEF Return
    <2>2. updates'[w] = Without(updates[w], Called(w).only)
        BY <2>1 DEF Domains
    <2>3. /\ DOMAIN updates'[w] \subseteq DOMAIN updates[w]
          /\ \A k \in DOMAIN updates'[w] : updates'[w][k] = updates[w][k]
        BY <2>2 DEF Without, Restrict
    <2>4. /\ removals'[w] \subseteq removals[w] /\ DOMAIN cache'[w] = {}
          /\ queue'[w] = Tail(queue[w]) /\ deleting'[w] = deleting[w]
        BY <1>1, <1>2, <2>1 DEF Domains
    <2>5. BuffersMove(w)
        BY <1>2, <2>1 DEF Domains, BuffersMove
    <2> QED
        BY <1>o, <2>3, <2>4, <2>5 DEF Shrinks
<1>4. CASE Called(w).op \in {"refresh", "reset"}
    <2>1. Discard(w)
        BY <1>4 DEF Return
    <2> QED
        BY <1>1, <1>2, <1>o, <2>1 DEF Discard, Domains, BuffersMove, Shrinks
<1>5. CASE Called(w).op \notin {"commit", "refresh", "reset"}
    <2>1. cache' = [cache EXCEPT ![w] = Empty] /\ UNCHANGED <<updates, removals>>
        BY <1>5 DEF Return
    <2> QED
        BY <1>1, <1>2, <1>o, <2>1 DEF Domains, BuffersMove, Shrinks
<1> QED
    BY <1>3, <1>4, <1>5

LEMMA Ended ==
    ASSUME Inv, NEW w \in Trees, Busy(w), BuffersMove(w), HandleMoves(w), Shrinks(w),
           Grown, StoreType', OthersApart(w), cur'[w] = base'[w], base'[w] \in held',
           (DOMAIN cache'[w] = {} /\ Overtaken(w)) \/ base'[w] = base[w]
    PROVE  Inv'
<1>1. TreeInv(w) /\ StoreType
    BY DEF Inv
<1>2. PICK q, t : q = queue[w] /\ t = Tail(q)
    OBVIOUS
<1>3. q \in Seq(Calls) /\ q # <<>> /\ Len(q) <= 2 /\ queue'[w] = t
    BY <1>1, <1>2, Calling DEF TreeInv, TreeType, QueueType, Shrinks
<1>4. /\ t \in Seq(Calls) /\ Len(t) = Len(q) - 1
      /\ \A i \in DOMAIN t : i + 1 \in DOMAIN q /\ i + 1 # 1 /\ t[i] = q[i + 1]
      /\ t # <<>> => Head(t) = t[1] /\ 1 \in DOMAIN t
    BY <1>2, <1>3, Dropped
<1>5. ASSUME NEW i \in DOMAIN t
      PROVE  t[i].theirs \in held' /\ t[i].to \in held' /\ t[i].step = "start"
    BY <1>1, <1>2, <1>4, <1>5 DEF TreeInv, TreeType, QueueType, Grown
<1>6. QueueType(w)'
    <2>1. Len(t) <= 2
        BY <1>3, <1>4, LenProperties
    <2> QED
        BY <1>3, <1>4, <1>5, <2>1 DEF QueueType
<1>7. cur'[w] \in 0 .. Len(commit') /\ base'[w] \in held'
    BY DEF StoreType
<1>8. TreeType(w)'
    BY <1>1, <1>6, <1>7 DEF TreeInv, TreeType, Shrinks, Overtaken
<1>9. Busy(w)' => Called(w)'.step = "start"
    BY <1>3, <1>4, <1>5 DEF Busy, Called
<1>10. Stands(w)' /\ (Busy(w)' => Builds(w)')
    BY <1>9 DEF Stands, Fresh, Builds
<1>11. ReadsTrue(w)'
    <2>1. ASSUME reading'[w] # Nothing, ~reading'[w].old
          PROVE  reading'[w].val = Data(base[w])'[reading'[w].key]
        <3>1. reading'[w] = reading[w] /\ base'[w] = base[w]
            BY <2>1 DEF Shrinks, Overtaken
        <3>2. PICK b : b = base[w]
            OBVIOUS
        <3>3. b \in 0 .. Len(commit) /\ Data(b)' = Data(b)
            BY <1>1, <3>2 DEF TreeInv, TreeType, StoreType, Grown
        <3>4. reading[w].val = Data(b)[reading[w].key]
            BY <1>1, <2>1, <3>1, <3>2 DEF TreeInv, ReadsTrue
        <3>5. Data(base[w])' = Data(b)
            BY <3>1, <3>2, <3>3 DEF Data
        <3> QED
            BY <3>1, <3>4, <3>5
    <2>2. ASSUME NEW k \in DOMAIN cache'[w], ~cache'[w][k].old
          PROVE  cache'[w][k].val = Data(base[w])'[k]
        <3>1. cache'[w] = cache[w] /\ base'[w] = base[w]
            BY <2>2 DEF Shrinks, Overtaken
        <3>2. PICK b : b = base[w]
            OBVIOUS
        <3>3. b \in 0 .. Len(commit) /\ Data(b)' = Data(b)
            BY <1>1, <3>2 DEF TreeInv, TreeType, StoreType, Grown
        <3>4. cache[w][k].val = Data(b)[k]
            BY <1>1, <2>2, <3>1, <3>2 DEF TreeInv, ReadsTrue
        <3>5. Data(base[w])' = Data(b)
            BY <3>1, <3>2, <3>3 DEF Data
        <3> QED
            BY <3>1, <3>4, <3>5
    <2> QED
        BY <2>1, <2>2 DEF ReadsTrue
<1>12. TakesAll(w)'
    BY <1>1, <1>2, <1>3, <1>4 DEF TreeInv, TakesAll, Shrinks
<1>13. OthersSame(w) /\ Domains'
    BY DEF OthersSame, Domains, BuffersMove, HandleMoves, Inv
<1> QED
    BY <1>8, <1>10, <1>11, <1>12, <1>13, OneSteps DEF TreeInv

LEMMA Failed ==
    ASSUME Inv, NEW w \in Trees, Busy(w), Fail(w), UNCHANGED writes
    PROVE  Inv'
<1>1. TreeInv(w) /\ StoreType /\ Domains
    BY DEF Inv
<1>2. /\ UNCHANGED <<commit, tip, held, base, updates, removals, cache, reading, deleting>>
      /\ cur'[w] = base[w] /\ base'[w] = base[w] /\ queue'[w] = Tail(queue[w])
    BY <1>1 DEF Fail, store, Domains
<1>3. BuffersMove(w) /\ HandleMoves(w) /\ Shrinks(w)
    BY <1>1, <1>2 DEF Fail, Domains, BuffersMove, HandleMoves, Shrinks
<1>4. StoreType' /\ Grown /\ base'[w] \in held'
    BY <1>1, <1>2, Stays DEF StoreType, TreeInv, TreeType
<1>5. OthersApart(w)
    BY <1>2, <1>4, Apart
<1> QED
    BY <1>2, <1>3, <1>4, <1>5, Ended

LEMMA Published ==
    ASSUME Inv, NEW w \in Trees, Busy(w), Publish(w), UNCHANGED writes
    PROVE  Inv'
<1>1. TreeInv(w) /\ StoreType /\ Domains
    BY DEF Inv
<1>2. /\ UNCHANGED <<commit, cur>> /\ tip' = cur[w] /\ held' = held \cup {cur[w]}
      /\ base'[w] = cur[w] /\ cur'[w] = cur[w]
    BY <1>1 DEF Publish, Domains
<1>3. HandleMoves(w) /\ BuffersMove(w) /\ Shrinks(w) /\ DOMAIN cache'[w] = {} /\ Overtaken(w)
    BY <1>1, Returned DEF Publish, Domains, HandleMoves, TreeInv, TreeType
<1>4. StoreType' /\ Grown /\ base'[w] \in held'
    <2>1. cur[w] \in 0 .. Len(commit)
        BY <1>1 DEF TreeInv, TreeType
    <2>2. StoreType'
        BY <1>1, <1>2, <2>1 DEF StoreType
    <2> QED
        BY <1>1, <1>2, <2>2, Stays
<1>5. OthersApart(w)
    BY <1>2, Apart
<1> QED
    BY <1>2, <1>3, <1>4, <1>5, Ended

(* A call that ends where it began, not having built a commit.              *)
LEMMA Rested ==
    ASSUME Inv, NEW w \in Trees, Busy(w), ~Fresh(w), Return(w), UNCHANGED <<store, cur, base, writes>>
    PROVE  Inv'
<1>1. TreeInv(w) /\ StoreType /\ Domains /\ UNCHANGED <<commit, tip, held, cur, base>>
    BY DEF Inv, store
<1>2. HandleMoves(w) /\ BuffersMove(w) /\ Shrinks(w) /\ DOMAIN cache'[w] = {} /\ Overtaken(w)
    BY <1>1, Returned DEF Domains, HandleMoves, TreeInv, TreeType
<1>3. StoreType' /\ Grown /\ base'[w] \in held' /\ cur'[w] = base'[w]
    BY <1>1, Stays DEF StoreType, TreeInv, TreeType, Stands
<1>4. OthersApart(w)
    BY <1>1, <1>3, Apart
<1> QED
    BY <1>2, <1>3, <1>4, Ended

LEMMA LoadedKeeps ==
    ASSUME Inv, NEW w \in Trees, Loaded(w)
    PROVE  Inv'
<1>1. TreeInv(w) /\ StoreType /\ Domains /\ Busy(w)
    BY DEF Inv, Loaded
<1>2. PICK c : c = Called(w).to
    OBVIOUS
<1>3. c \in held
    BY <1>1, <1>2, Calling
<1>4. /\ UNCHANGED <<commit, tip, held, writes>> /\ Return(w)
      /\ cur' = [cur EXCEPT ![w] = c] /\ base' = [base EXCEPT ![w] = c]
    BY <1>2 DEF Loaded, store
<1>5. HandleMoves(w) /\ BuffersMove(w) /\ Shrinks(w) /\ DOMAIN cache'[w] = {} /\ Overtaken(w)
    BY <1>1, <1>4, Returned DEF Domains, HandleMoves, TreeInv, TreeType
<1>6. StoreType' /\ Grown /\ base'[w] \in held' /\ cur'[w] = base'[w]
    BY <1>1, <1>3, <1>4, Stays DEF StoreType, Domains
<1>7. OthersApart(w)
    BY <1>4, <1>6, Apart
<1> QED
    BY <1>1, <1>5, <1>6, <1>7, Ended

(* A call that goes on takes with it what it is to clear.                   *)
LEMMA Proceeds ==
    ASSUME Inv, NEW w \in Trees, Busy(w), NEW c \in Calls, Step(w, c),
           c.op = Called(w).op, c.only = Called(w).only, c.ups = Called(w).ups,
           c.theirs \in held', c.to \in held',
           Grown, StoreType', UNCHANGED <<base, buffer, writes>>, HandleMoves(w),
           cur'[w] \in 0 .. Len(commit'), OthersApart(w)
    PROVE  /\ Busy(w)' /\ Called(w)' = c
           /\ Stands(w)' /\ Builds(w)' => Inv'
<1>1. TreeInv(w) /\ StoreType /\ Domains
    BY DEF Inv
<1>2. PICK q, t : q = queue[w] /\ t = <<c>> \o Tail(q)
    OBVIOUS
<1>3. q \in Seq(Calls) /\ q # <<>> /\ Len(q) <= 2 /\ queue'[w] = t /\ Called(w) = q[1]
    BY <1>1, <1>2, Calling DEF TreeInv, TreeType, QueueType, Step, Domains
<1>4. /\ t \in Seq(Calls) /\ t # <<>> /\ Len(t) = Len(q) /\ DOMAIN t = DOMAIN q
      /\ Head(t) = c /\ t[1] = c /\ \A i \in DOMAIN q : i # 1 => t[i] = q[i]
    BY <1>2, <1>3, Replaced
<1>5. Busy(w)' /\ Called(w)' = c
    BY <1>3, <1>4 DEF Busy, Called
<1>6. ASSUME NEW i \in DOMAIN t
      PROVE  t[i].theirs \in held' /\ t[i].to \in held' /\ (i # 1 => t[i].step = "start")
    <2>1. CASE i = 1
        BY <1>4, <2>1
    <2>2. CASE i # 1
        <3>1. t[i] = q[i] /\ i \in DOMAIN queue[w] /\ t[i] = queue[w][i]
            BY <1>2, <1>4, <2>2
        <3> QED
            BY <1>1, <2>2, <3>1 DEF TreeInv, TreeType, QueueType, Grown
    <2> QED
        BY <2>1, <2>2
<1>7. QueueType(w)'
    BY <1>3, <1>4, <1>6 DEF QueueType
<1>8. UNCHANGED <<updates, removals, cache, reading, deleting>>
    BY DEF buffer
<1>9. TreeType(w)'
    BY <1>1, <1>7, <1>8 DEF TreeInv, TreeType, Grown
<1>10. ReadsTrue(w)'
    <2>1. PICK b : b = base[w]
        OBVIOUS
    <2>2. Data(b)' = Data(b) /\ Data(base[w])' = Data(b)
        BY <1>1, <2>1 DEF TreeInv, TreeType, StoreType, Grown, Data
    <2> QED
        BY <1>1, <1>8, <2>1, <2>2 DEF TreeInv, ReadsTrue
<1>11. TakesAll(w)'
    <2>1. ASSUME NEW i \in DOMAIN t
          PROVE  t[i].op = queue[w][i].op /\ t[i].only = queue[w][i].only /\ t[i].ups = queue[w][i].ups
        BY <1>2, <1>3, <1>4, <2>1
    <2>2. DOMAIN queue'[w] = DOMAIN queue[w] /\ queue'[w] = t /\ updates'[w] = updates[w]
        BY <1>2, <1>3, <1>4, <1>8
    <2> QED
        BY <1>1, <2>1, <2>2 DEF TreeInv, TakesAll
<1>12. OthersSame(w) /\ Domains'
    BY <1>1, <1>8 DEF OthersSame, Domains, Step, HandleMoves
<1> QED
    BY <1>5, <1>9, <1>10, <1>11, <1>12, OneSteps DEF TreeInv

(* One that has no commit to show for the step, or none it did not have.    *)
LEMMA Continues ==
    ASSUME Inv, NEW w \in Trees, Busy(w), NEW c \in Calls, Step(w, c),
           c.op = Called(w).op, c.only = Called(w).only, c.ups = Called(w).ups,
           c.theirs \in held', c.to \in held',
           UNCHANGED <<commit, cur, base, buffer, writes>>, held' = held, tip' \in held \cup {Nothing}
    PROVE  /\ Busy(w)' /\ Called(w)' = c
           /\ Fresh(w)' = Fresh(w) /\ Builds(w)' => Inv'
<1>1. TreeInv(w) /\ StoreType /\ Domains
    BY DEF Inv
<1>2. Grown /\ StoreType' /\ OthersApart(w)
    BY <1>1, Stays, Apart DEF StoreType
<1>3. HandleMoves(w) /\ cur'[w] \in 0 .. Len(commit')
    BY <1>1 DEF HandleMoves, Domains, TreeInv, TreeType
<1>4. Fresh(w)' = Fresh(w) => Stands(w)'
    BY <1>1 DEF TreeInv, Stands, Own
<1> QED
    BY <1>2, <1>3, <1>4, Proceeds

LEMMA Asked ==
    ASSUME Inv, NEW w \in Trees, NEW c \in Calls, Ask(w, c), c.step = "start",
           c.theirs \in held, c.to \in held,
           c.op = "commit" => \A k \in DOMAIN updates[w] \cap c.only :
               k \in DOMAIN c.ups /\ c.ups[k] = updates[w][k].val
    PROVE  Inv'
<1>1. TreeInv(w) /\ StoreType /\ Domains
    BY DEF Inv
<1>2. UNCHANGED <<commit, tip, held, cur, base, updates, removals, cache, reading, deleting, writes>>
    BY DEF Ask, store, buffer
<1>3. PICK q, t : q = queue[w] /\ t = Append(q, c)
    OBVIOUS
<1>4. q \in Seq(Calls) /\ Len(q) < 2 /\ queue'[w] = t
    BY <1>1, <1>3 DEF TreeInv, TreeType, QueueType, Ask, Domains
<1>5. /\ t \in Seq(Calls) /\ t # <<>> /\ Len(t) = Len(q) + 1 /\ DOMAIN t = 1 .. Len(q) + 1
      /\ Len(q) \in Nat /\ DOMAIN q = 1 .. Len(q)
      /\ t[Len(q) + 1] = c /\ \A i \in DOMAIN q : t[i] = q[i]
      /\ Head(t) = IF q = <<>> THEN c ELSE Head(q)
    BY <1>3, <1>4, Appended
<1>6. \A i \in DOMAIN t : i \in DOMAIN q \/ i = Len(q) + 1
    BY <1>5
<1>7. QueueType(w)'
    <2>1. ASSUME NEW i \in DOMAIN t
          PROVE  t[i].theirs \in held' /\ t[i].to \in held' /\ (i # 1 => t[i].step = "start")
        <3>1. CASE i \in DOMAIN q
            <4>1. t[i] = queue[w][i] /\ i \in DOMAIN queue[w]
                BY <1>3, <1>5, <3>1
            <4> QED
                BY <1>1, <1>2, <4>1 DEF TreeInv, TreeType, QueueType
        <3>2. CASE i = Len(q) + 1
            BY <1>2, <1>5, <3>2
        <3> QED
            BY <1>6, <3>1, <3>2
    <2>2. Len(t) <= 2
        BY <1>4, <1>5
    <2> QED
        BY <1>4, <1>5, <2>1, <2>2 DEF QueueType
<1>10. TreeType(w)'
    BY <1>1, <1>2, <1>7 DEF TreeInv, TreeType
<1>11. Grown /\ StoreType' /\ OthersApart(w)
    BY <1>1, <1>2, Stays, Apart DEF StoreType
<1>12. Busy(w)' /\ Called(w)' = IF Busy(w) THEN Called(w) ELSE c
    BY <1>3, <1>4, <1>5 DEF Busy, Called
<1>13. Fresh(w)' = Fresh(w)
    BY <1>12 DEF Fresh
<1>14. Stands(w)'
    BY <1>1, <1>2, <1>13 DEF TreeInv, Stands, Own
<1>15. Builds(w)'
    <2>1. CASE Busy(w)
        <3>1. Called(w)' = Called(w)
            BY <1>12, <2>1
        <3>2. Takes(w)' = Takes(w)
            BY <1>2, <3>1 DEF Takes, Data
        <3>3. HoldsTaken(w, Data(cur[w]), Called(w).theirs)' = HoldsTaken(w, Data(cur[w]), Called(w).theirs)
            BY <1>2, <3>1 DEF HoldsTaken, Data
        <3> QED
            BY <1>1, <1>2, <2>1, <3>1, <3>2, <3>3 DEF TreeInv, Builds, Ancestors, Data
    <2>2. CASE ~Busy(w)
        BY <1>12, <2>2 DEF Builds
    <2> QED
        BY <2>1, <2>2
<1>16. ReadsTrue(w)'
    BY <1>1, <1>2 DEF TreeInv, ReadsTrue, Data
<1>17. TakesAll(w)'
    <2>1. ASSUME NEW i \in DOMAIN t, t[i].op = "commit",
                 NEW k \in DOMAIN updates[w] \cap t[i].only, ~updates[w][k].late
          PROVE  k \in DOMAIN t[i].ups /\ t[i].ups[k] = updates[w][k].val
        <3>1. CASE i \in DOMAIN q
            <4>1. t[i] = queue[w][i] /\ i \in DOMAIN queue[w]
                BY <1>3, <1>5, <3>1
            <4> QED
                BY <1>1, <2>1, <4>1 DEF TreeInv, TakesAll
        <3>2. CASE i = Len(q) + 1
            BY <1>5, <2>1, <3>2
        <3> QED
            BY <1>6, <3>1, <3>2
    <2> QED
        BY <1>2, <1>4, <2>1 DEF TakesAll
<1>18. OthersSame(w) /\ Domains'
    BY <1>1, <1>2 DEF OthersSame, Domains, Ask
<1> QED
    BY <1>10, <1>11, <1>14, <1>15, <1>16, <1>17, <1>18, OneSteps DEF TreeInv


LEMMA NothingTaken == Empty \in Takings
<1>1. Empty \in [{} -> Values]
    BY DEF Empty
<1> QED
    BY <1>1 DEF Takings

LEMMA AskCommitKeeps ==
    ASSUME Inv, NEW w \in Trees, AskCommit(w)
    PROVE  Inv'
<1>1. TreeInv(w) /\ StoreType
    BY DEF Inv
<1>2. PICK only \in SUBSET Keys, moved \in {"merge", "raise"}, rule \in Rules :
         Ask(w, [NoCall EXCEPT !.op = "commit", !.only = only, !.moved = moved, !.rule = rule,
                      !.ups = [k \in DOMAIN updates[w] \cap only |-> updates[w][k].val],
                      !.rems = removals[w] \cap only])
    BY DEF AskCommit
<1>3. PICK ups : ups = [k \in DOMAIN updates[w] \cap only |-> updates[w][k].val]
    OBVIOUS
<1>4. ups \in Takings
    <2>1. ups \in [DOMAIN updates[w] \cap only -> Values] /\ DOMAIN updates[w] \cap only \in SUBSET Keys
        BY <1>1, <1>3 DEF TreeInv, TreeType
    <2> QED
        BY <2>1 DEF Takings
<1>5. PICK c : c = [NoCall EXCEPT !.op = "commit", !.only = only, !.moved = moved, !.rule = rule,
                      !.ups = ups, !.rems = removals[w] \cap only]
    OBVIOUS
<1>6. Ask(w, c)
    BY <1>2, <1>3, <1>5
<1>7. c = [op |-> "commit", step |-> "start", only |-> only, ups |-> ups, rems |-> removals[w] \cap only,
           moved |-> moved, rule |-> rule, theirs |-> Root, to |-> Root]
    BY <1>5 DEF NoCall
<1>8. c.step = "start" /\ c.theirs = Root /\ c.to = Root /\ c.only = only /\ c.ups = ups
    BY <1>7
<1>9. c \in Calls
    <2>1. "start" \in CallSteps /\ Root \in Nat
        BY DEF CallSteps, Root
    <2> QED
        BY <1>4, <1>7, <2>1 DEF Calls
<1>10. \A k \in DOMAIN updates[w] \cap c.only : k \in DOMAIN c.ups /\ c.ups[k] = updates[w][k].val
    BY <1>3, <1>8
<1> QED
    BY <1>1, <1>6, <1>8, <1>9, <1>10, Asked DEF StoreType

LEMMA OtherAsked ==
    ASSUME Inv, NEW w \in Trees, NEW o \in {"merge", "apply", "refresh", "reset"},
           NEW rule \in Rules \cup {"none"}, NEW theirs \in held, NEW to \in held,
           NEW c, Ask(w, c),
           c = [op |-> o, step |-> "start", only |-> Keys, ups |-> Empty, rems |-> {},
                moved |-> "merge", rule |-> rule, theirs |-> theirs, to |-> to]
    PROVE  Inv'
<1>1. c.step = "start" /\ c.theirs = theirs /\ c.to = to /\ c.op = o
    OBVIOUS
<1>2. theirs \in Nat /\ to \in Nat
    BY DEF Inv, StoreType
<1>3. c \in Calls
    <2>1. "start" \in CallSteps
        BY DEF CallSteps
    <2> QED
        BY <1>2, <2>1, NothingTaken DEF Calls
<1> QED
    BY <1>1, <1>3, Asked

LEMMA AskMergeKeeps ==
    ASSUME Inv, NEW w \in Trees, AskMerge(w)
    PROVE  Inv'
<1>1. PICK theirs \in held \ {Root}, rule \in Rules, change \in BOOLEAN :
         IF change
         THEN \E from \in held :
                Ask(w, [NoCall EXCEPT !.op = "apply", !.theirs = theirs, !.to = from, !.rule = rule])
         ELSE Ask(w, [NoCall EXCEPT !.op = "merge", !.theirs = theirs, !.rule = rule])
    BY DEF AskMerge
<1>2. CASE change
    <2>1. PICK from \in held :
              Ask(w, [NoCall EXCEPT !.op = "apply", !.theirs = theirs, !.to = from, !.rule = rule])
        BY <1>1, <1>2
    <2>2. PICK c : c = [NoCall EXCEPT !.op = "apply", !.theirs = theirs, !.to = from, !.rule = rule]
        OBVIOUS
    <2>3. c = [op |-> "apply", step |-> "start", only |-> Keys, ups |-> Empty, rems |-> {},
               moved |-> "merge", rule |-> rule, theirs |-> theirs, to |-> from]
        BY <2>2 DEF NoCall
    <2>4. Ask(w, c)
        BY <2>1, <2>2
    <2> QED
        BY <2>3, <2>4, OtherAsked
<1>3. CASE ~change
    <2>1. Ask(w, [NoCall EXCEPT !.op = "merge", !.theirs = theirs, !.rule = rule])
        BY <1>1, <1>3
    <2>2. PICK c : c = [NoCall EXCEPT !.op = "merge", !.theirs = theirs, !.rule = rule]
        OBVIOUS
    <2>3. c = [op |-> "merge", step |-> "start", only |-> Keys, ups |-> Empty, rems |-> {},
               moved |-> "merge", rule |-> rule, theirs |-> theirs, to |-> Root]
        BY <2>2 DEF NoCall
    <2>4. Ask(w, c) /\ Root \in held
        BY <2>1, <2>2 DEF Inv, StoreType
    <2> QED
        BY <2>3, <2>4, OtherAsked
<1> QED
    BY <1>2, <1>3

LEMMA AskMoveKeeps ==
    ASSUME Inv, NEW w \in Trees, AskMove(w)
    PROVE  Inv'
<1>1. Root \in held
    BY DEF Inv, StoreType
<1>2. CASE Ask(w, [NoCall EXCEPT !.op = "refresh"])
    <2>1. PICK a : a = [NoCall EXCEPT !.op = "refresh"]
        OBVIOUS
    <2>2. a = [op |-> "refresh", step |-> "start", only |-> Keys, ups |-> Empty, rems |-> {},
               moved |-> "merge", rule |-> "none", theirs |-> Root, to |-> Root]
        BY <2>1 DEF NoCall
    <2>3. Ask(w, a)
        BY <1>2, <2>1
    <2> QED
        BY <1>1, <2>2, <2>3, OtherAsked
<1>3. ASSUME NEW c \in held, Ask(w, [NoCall EXCEPT !.op = "reset", !.to = c]) PROVE Inv'
    <2>1. PICK a : a = [NoCall EXCEPT !.op = "reset", !.to = c]
        OBVIOUS
    <2>2. a = [op |-> "reset", step |-> "start", only |-> Keys, ups |-> Empty, rems |-> {},
               moved |-> "merge", rule |-> "none", theirs |-> Root, to |-> c]
        BY <2>1 DEF NoCall
    <2>3. Ask(w, a)
        BY <1>3, <2>1
    <2> QED
        BY <1>1, <2>2, <2>3, OtherAsked
<1> QED
    BY <1>2, <1>3 DEF AskMove

---------------------------------------------------------------------------
(* What a handle builds is its own.                                         *)

LEMMA BuiltFacts ==
    ASSUME Inv, NEW w \in Trees, NEW data \in [Keys -> Values],
           NEW parents \in SUBSET (held \cup {cur[w]}), Build(w, data, parents),
           NEW n, n = Len(commit) + 1
    PROVE  /\ n \in Nat /\ StoreType' /\ Grown /\ held' = held /\ tip' = tip
           /\ cur'[w] = n /\ cur'[w] \in 0 .. Len(commit')
           /\ Data(n)' = data /\ Ancestors(n)' = (UNION {Ancestors(p) : p \in parents}) \cup {n}
           /\ OthersApart(w) /\ Own(w)'
<1>1. TreeInv(w) /\ StoreType /\ Domains
    BY DEF Inv
<1>2. /\ Len(commit) \in Nat /\ DOMAIN commit = 1 .. Len(commit)
      /\ \A c \in 0 .. Len(commit) :
             Data(c) \in [Keys -> Values] /\ c \in Ancestors(c) /\ Ancestors(c) \subseteq 0 .. c
    BY <1>1, Lengths
<1>3. PICK ancs, r : /\ ancs = UNION {Ancestors(p) : p \in parents}
                     /\ r = [data |-> data, anc |-> ancs]
    OBVIOUS
<1>4. n \in Nat /\ n # Root /\ n \notin 0 .. Len(commit)
    BY <1>2, <1>3 DEF Root
<1>5. \A p \in parents : p \in 0 .. Len(commit)
    BY <1>1 DEF StoreType, TreeInv, TreeType
<1>6. ancs \subseteq 0 .. n - 1 /\ ancs \subseteq Nat
    <2>1. ASSUME NEW p \in parents PROVE Ancestors(p) \subseteq 0 .. Len(commit)
        BY <1>2, <1>5
    <2> QED
        BY <1>2, <1>3, <2>1
<1>7. r \in CommitRows /\ r.data = data /\ r.anc = ancs
    BY <1>3, <1>6 DEF CommitRows
<1>8. /\ commit' = Append(commit, r) /\ cur' = [cur EXCEPT ![w] = Len(commit')]
      /\ tip' = tip /\ held' = held
    BY <1>3 DEF Build
<1>9. /\ commit' \in Seq(CommitRows) /\ Len(commit') = n /\ DOMAIN commit' = 1 .. n
      /\ commit'[n] = r /\ \A i \in 1 .. Len(commit) : commit'[i] = commit[i]
    BY <1>1, <1>2, <1>3, <1>7, <1>8, Appended DEF StoreType
<1>10. \A i \in 1 .. n : i = n \/ i \in 1 .. Len(commit)
    BY <1>2, <1>3
<1>11. StoreType'
    <2>1. \A c \in DOMAIN commit' : commit'[c].anc \subseteq 0 .. c - 1
        BY <1>1, <1>2, <1>6, <1>7, <1>9, <1>10 DEF StoreType
    <2>2. held' \subseteq 0 .. Len(commit')
        BY <1>1, <1>2, <1>3, <1>8, <1>9 DEF StoreType
    <2> QED
        BY <1>1, <1>8, <1>9, <2>1, <2>2 DEF StoreType
<1>12. Grown
    <2>1. ASSUME NEW c \in 0 .. Len(commit)
          PROVE  Data(c)' = Data(c) /\ Ancestors(c)' = Ancestors(c)
        <3>1. c = Root \/ c \in 1 .. Len(commit)
            BY <1>2 DEF Root
        <3> QED
            BY <1>9, <3>1 DEF Data, Ancestors
    <2> QED
        BY <1>2, <1>3, <1>8, <1>9, <2>1 DEF Grown
<1>13. Data(n)' = data /\ Ancestors(n)' = ancs \cup {n}
    BY <1>4, <1>7, <1>9 DEF Data, Ancestors
<1>14. cur'[w] = n /\ \A v \in Trees \ {w} : cur'[v] = cur[v]
    BY <1>1, <1>8, <1>9 DEF Domains
<1>15. OthersApart(w)
    <2> SUFFICES ASSUME NEW v \in Trees \ {w}, Fresh(v)
                 PROVE  /\ cur[v] \notin held' /\ cur'[w] # cur[v]
                        /\ \A c \in DOMAIN commit' : cur[v] \notin commit'[c].anc
        BY DEF OthersApart
    <2>1. Own(v)
        BY DEF Inv, TreeInv, Stands
    <2>2. cur[v] \notin held' /\ cur'[w] # cur[v]
        BY <1>2, <1>4, <1>8, <1>14, <2>1 DEF Own
    <2>3. ASSUME NEW p \in parents PROVE cur[v] \notin Ancestors(p)
        <3>1. cur[v] # p /\ cur[v] # Root
            BY <1>1, <2>1 DEF Own, StoreType
        <3>2. p = Root \/ p \in DOMAIN commit
            BY <1>2, <1>5 DEF Root
        <3> QED
            BY <2>1, <3>1, <3>2 DEF Own, Ancestors
    <2>4. cur[v] \notin ancs
        BY <1>3, <2>3
    <2> QED
        BY <1>2, <1>7, <1>9, <1>10, <2>1, <2>2, <2>4 DEF Own
<1>16. Own(w)'
    <2>1. \A c \in DOMAIN commit' : n \notin commit'[c].anc
        <3>1. ASSUME NEW c \in 1 .. n PROVE n \notin 0 .. c - 1
            BY <1>4, <3>1
        <3> QED
            BY <1>9, <1>11, <3>1 DEF StoreType
    <2>2. n \notin held' /\ n \in DOMAIN commit'
        BY <1>1, <1>4, <1>8, <1>9 DEF StoreType
    <2>3. \A v \in Trees \ {w} : cur'[v] # n
        BY <1>4, <1>14 DEF Inv, TreeInv, TreeType
    <2> QED
        BY <1>14, <2>1, <2>2, <2>3 DEF Own
<1>17. cur'[w] \in 0 .. Len(commit')
    BY <1>4, <1>9, <1>14
<1>18. Ancestors(n)' = (UNION {Ancestors(p) : p \in parents}) \cup {n}
    BY <1>3, <1>13
<1> QED
    BY <1>4, <1>8, <1>11, <1>12, <1>13, <1>14, <1>15, <1>16, <1>17, <1>18

LEMMA Built ==
    ASSUME Inv, NEW w \in Trees, Busy(w), NEW data \in [Keys -> Values],
           NEW parents \in SUBSET (held \cup {cur[w]}), Build(w, data, parents),
           NEW c \in Calls, Step(w, c), UNCHANGED writes,
           c.op = Called(w).op, c.only = Called(w).only, c.ups = Called(w).ups,
           c.theirs \in held, c.to \in held,
           c.step \in {"publish", "land"} \/ (c.op = "commit" /\ c.step = "merge")
    PROVE  /\ Called(w)' = c /\ base' = base /\ Data(cur[w])' = data
           /\ Ancestors(cur[w])' = (UNION {Ancestors(p) : p \in parents}) \cup {cur'[w]}
           /\ Builds(w)' => Inv'
<1>1. TreeInv(w) /\ StoreType /\ Domains
    BY DEF Inv
<1>2. PICK n : n = Len(commit) + 1
    OBVIOUS
<1>3. /\ StoreType' /\ Grown /\ held' = held
      /\ cur'[w] = n /\ cur'[w] \in 0 .. Len(commit')
      /\ Data(n)' = data /\ Ancestors(n)' = (UNION {Ancestors(p) : p \in parents}) \cup {n}
      /\ OthersApart(w) /\ Own(w)'
    BY <1>2, BuiltFacts
<1>4. UNCHANGED <<base, buffer, writes>>
    BY DEF Build
<1>5. HandleMoves(w)
    BY <1>1 DEF HandleMoves, Domains, Build
<1>6. Busy(w)' /\ Called(w)' = c /\ (Stands(w)' /\ Builds(w)' => Inv')
    BY <1>3, <1>4, <1>5, Proceeds
<1>7. Stands(w)'
    BY <1>3, <1>6 DEF Stands, Fresh
<1>8. Data(cur[w])' = data /\ Ancestors(cur[w])' = (UNION {Ancestors(p) : p \in parents}) \cup {n}
    BY <1>3 DEF Data, Ancestors
<1> QED
    BY <1>3, <1>4, <1>6, <1>7, <1>8

---------------------------------------------------------------------------
(* Commit                                                                   *)

(* Of a handle that stands on its base, the next commit follows the base.   *)
LEMMA CommitStartKeeps ==
    ASSUME Inv, NEW w \in Trees, CommitStart(w)
    PROVE  Inv'
<1>1. TreeInv(w) /\ StoreType /\ Domains /\ Busy(w) /\ UNCHANGED writes
    BY DEF Inv, CommitStart, Running
<1>2. PICK req : req = Called(w)
    OBVIOUS
<1>3. /\ req \in Calls /\ req.theirs \in held /\ req.to \in held
      /\ req.op = "commit" /\ req.step = "start"
    BY <1>1, <1>2, Calling DEF CommitStart, Running
<1>4. ~Fresh(w) /\ cur[w] = base[w]
    BY <1>1, <1>2, <1>3 DEF TreeInv, Stands, Fresh
<1>5. CASE NothingToDo(w)
    <2>1. CASE Fail(w)
        BY <1>1, <2>1, Failed
    <2>2. CASE Return(w) /\ UNCHANGED <<store, cur, base>>
        BY <1>1, <1>4, <2>2, Rested
    <2> QED
        BY <1>5, <2>1, <2>2 DEF CommitStart
<1>6. CASE ~NothingToDo(w) /\ (tip = Nothing \/ (Called(w).moved = "raise" /\ tip # base[w]))
    <2>1. Fail(w)
        BY <1>6 DEF CommitStart
    <2> QED
        BY <1>1, <2>1, Failed
<1>7. CASE ~NothingToDo(w) /\ ~(tip = Nothing \/ (Called(w).moved = "raise" /\ tip # base[w]))
    <2>1. PICK data : data = [k \in Keys |-> IF k \in DOMAIN req.ups THEN req.ups[k]
                                             ELSE IF k \in req.rems THEN Absent
                                             ELSE Data(cur[w])[k]]
        OBVIOUS
    <2>2. /\ Build(w, data, {cur[w]})
          /\ IF tip = base[w] THEN GoTo(w, "publish")
             ELSE Step(w, [req EXCEPT !.step = "merge", !.theirs = tip])
        BY <1>2, <1>7, <2>1 DEF CommitStart
    <2>3. data \in [Keys -> Values]
        <3>1. \A k \in DOMAIN req.ups : req.ups[k] \in Values
            BY <1>3 DEF Calls, Takings
        <3>2. Absent \in Values /\ Data(cur[w]) \in [Keys -> Values]
            BY <1>1, Lengths DEF Values, TreeInv, TreeType
        <3> QED
            BY <2>1, <3>1, <3>2
    <2>4. tip \in held /\ tip \in Nat
        BY <1>1, <1>7 DEF StoreType
    <2>5. PICK c : c = IF tip = base[w] THEN [req EXCEPT !.step = "publish"]
                       ELSE [req EXCEPT !.step = "merge", !.theirs = tip]
        OBVIOUS
    <2>6. /\ c.op = req.op /\ c.only = req.only /\ c.ups = req.ups /\ c.rems = req.rems
          /\ c.step \in {"publish", "merge"} /\ c.theirs \in held /\ c.to \in held
        BY <1>3, <2>4, <2>5 DEF Calls
    <2>7. c \in Calls
        <3>1. "publish" \in CallSteps /\ "merge" \in CallSteps
            BY DEF CallSteps
        <3> QED
            BY <1>3, <2>4, <2>5, <3>1 DEF Calls
    <2>8. Step(w, c)
        BY <1>2, <2>2, <2>5 DEF GoTo
    <2>9. {cur[w]} \in SUBSET (held \cup {cur[w]})
        OBVIOUS
    <2>10. c.step \in {"publish", "land"} \/ (c.op = "commit" /\ c.step = "merge")
        BY <1>3, <2>6
    <2>11. /\ Called(w)' = c /\ base' = base /\ Data(cur[w])' = data
           /\ Ancestors(cur[w])' = (UNION {Ancestors(p) : p \in {cur[w]}}) \cup {cur'[w]}
           /\ Builds(w)' => Inv'
        BY <1>1, <1>2, <2>2, <2>3, <2>6, <2>7, <2>8, <2>9, <2>10, Built
    <2>12. PICK b : b = base[w]
        OBVIOUS
    <2>13. Data(b)' = Data(b) /\ Ancestors(b)' = Ancestors(b)
        <3>1. Grown
            BY <2>2, <2>3, <2>9, BuiltFacts
        <3> QED
            BY <1>1, <2>12, <3>1 DEF Grown, TreeInv, TreeType, StoreType
    <2>14. Data(base[w])' = Data(b) /\ Ancestors(base[w])' = Ancestors(b)
        BY <2>11, <2>12, <2>13 DEF Data, Ancestors
    <2>15. Ancestors(cur[w])' = Ancestors(base[w])' \cup {cur[w]}'
        BY <1>4, <2>11, <2>12, <2>14
    <2>16. Data(cur[w])' = Takes(w)'
        <3>1. Data(cur[w])' = [k \in Keys |-> IF k \in DOMAIN c.ups THEN c.ups[k]
                                              ELSE IF k \in c.rems THEN Absent ELSE Data(b)[k]]
            BY <1>4, <2>1, <2>6, <2>11, <2>12
        <3> QED
            BY <2>11, <2>14, <3>1 DEF Takes
    <2>17. Builds(w)'
        BY <1>3, <2>6, <2>11, <2>15, <2>16 DEF Builds
    <2> QED
        BY <2>11, <2>17
<1> QED
    BY <1>5, <1>6, <1>7

LEMMA CommitPublishKeeps ==
    ASSUME Inv, NEW w \in Trees, CommitPublish(w)
    PROVE  Inv'
<1>1. TreeInv(w) /\ StoreType /\ Domains /\ Busy(w) /\ UNCHANGED writes
    BY DEF Inv, CommitPublish, Running
<1>2. PICK req : req = Called(w)
    OBVIOUS
<1>3. /\ req \in Calls /\ req.theirs \in held /\ req.to \in held
      /\ req.op = "commit" /\ req.step = "publish"
    BY <1>1, <1>2, Calling DEF CommitPublish, Running
<1>4. CASE Publish(w)
    BY <1>1, <1>4, Published
<1>5. CASE Fail(w)
    BY <1>1, <1>5, Failed
<1>6. CASE /\ tip # Nothing
           /\ Step(w, [Called(w) EXCEPT !.step = "merge", !.theirs = tip])
           /\ UNCHANGED <<store, cur, base, buffer>>
    <2>1. PICK c : c = [req EXCEPT !.step = "merge", !.theirs = tip]
        OBVIOUS
    <2>2. tip \in held /\ tip \in Nat
        BY <1>1, <1>6 DEF StoreType
    <2>3. /\ c.op = "commit" /\ c.only = req.only /\ c.ups = req.ups /\ c.rems = req.rems
          /\ c.step = "merge" /\ c.theirs \in held /\ c.to \in held
        BY <1>3, <2>1, <2>2 DEF Calls
    <2>4. c \in Calls
        <3>1. "merge" \in CallSteps
            BY DEF CallSteps
        <3> QED
            BY <1>3, <2>1, <2>2, <3>1 DEF Calls
    <2>5. UNCHANGED <<commit, tip, held, cur, base, buffer, writes>>
        BY <1>1, <1>6 DEF store
    <2>6. Busy(w)' /\ Called(w)' = c /\ (Fresh(w)' = Fresh(w) /\ Builds(w)' => Inv')
        BY <1>1, <1>2, <1>3, <1>6, <2>1, <2>2, <2>3, <2>4, <2>5, Continues
    <2>7. Fresh(w)' = Fresh(w)
        BY <1>1, <1>2, <1>3, <2>3, <2>6 DEF Fresh
    <2>8. Takes(w)' = Takes(w)
        BY <1>2, <2>3, <2>5, <2>6 DEF Takes, Data
    <2>9. Builds(w)'
        BY <1>1, <1>2, <1>3, <2>3, <2>5, <2>6, <2>8 DEF TreeInv, Builds, Ancestors, Data
    <2> QED
        BY <2>6, <2>7, <2>9
<1> QED
    BY <1>4, <1>5, <1>6 DEF CommitPublish

---------------------------------------------------------------------------
(* Merges                                                                   *)

LEMMA MergedData ==
    ASSUME StoreType, NEW old, NEW a \in 0 .. Len(commit), NEW b \in 0 .. Len(commit), NEW rule
    PROVE  Merged(old, a, b, rule) \in [Keys -> Values]
<1>1. Data(a) \in [Keys -> Values] /\ Data(b) \in [Keys -> Values] /\ Mixed \in Values
    BY Lengths DEF Values
<1>2. ASSUME NEW k \in Keys PROVE Merged(old, a, b, rule)[k] \in Values
    BY <1>1 DEF Merged
<1> QED
    BY <1>2 DEF Merged

(* The commit a handle has built is in no history, so of one whose base the *)
(* other side holds, the base is the only lowest common ancestor.           *)
LEMMA BaseIsLowest ==
    ASSUME Inv, NEW w \in Trees, Own(w), NEW theirs \in held,
           Ancestors(cur[w]) = Ancestors(base[w]) \cup {cur[w]},
           base[w] \in Ancestors(theirs), NEW old \in MergeBases(cur[w], theirs)
    PROVE  old = base[w]
<1>1. cur[w] \notin Ancestors(theirs)
    <2>1. cur[w] # theirs /\ cur[w] # Root
        BY DEF Own, Inv, StoreType
    <2>2. theirs = Root \/ theirs \in DOMAIN commit
        BY Lengths DEF Inv, StoreType, Root
    <2> QED
        BY <2>1, <2>2 DEF Own, Ancestors
<1>2. base[w] \in Ancestors(base[w])
    BY Lengths DEF Inv, StoreType, TreeInv, TreeType
<1>3. PICK common : common = Ancestors(cur[w]) \cap Ancestors(theirs)
    OBVIOUS
<1>4. base[w] \in common /\ old \in common /\ \A d \in common \ {old} : old \notin Ancestors(d)
    BY <1>2, <1>3 DEF MergeBases
<1>5. old \in Ancestors(base[w])
    BY <1>1, <1>3, <1>4
<1> QED
    BY <1>4, <1>5

LEMMA MergeHolds ==
    ASSUME NEW w \in Trees, NEW theirs, Data(cur[w]) = Takes(w),
           ~Conflicts(base[w], cur[w], theirs, Called(w).rule)
    PROVE  HoldsTaken(w, Merged(base[w], cur[w], theirs, Called(w).rule), theirs)
<1>1. PICK req, b, o, t : req = Called(w) /\ b = Data(base[w]) /\ o = Data(cur[w]) /\ t = Data(theirs)
    OBVIOUS
<1>2. PICK d : d = Merged(base[w], cur[w], theirs, req.rule)
    OBVIOUS
<1> SUFFICES ASSUME NEW k \in Keys, NEW ours,
                    ours = IF k \in DOMAIN req.ups THEN req.ups[k] ELSE Absent
             PROVE  IF k \in DOMAIN req.ups \cup req.rems
                    THEN \/ d[k] = ours
                         \/ d[k] = Mixed /\ req.rule \notin {"none", "ours", "theirs"}
                         \/ d[k] = t[k] /\ (req.rule = "theirs" \/ b[k] = ours)
                    ELSE \/ d[k] = t[k]
                         \/ d[k] = b[k] /\ req.rule = "ours"
    BY <1>1, <1>2 DEF HoldsTaken
<1>3. o[k] = IF k \in DOMAIN req.ups \cup req.rems THEN ours ELSE b[k]
    BY <1>1 DEF Takes
<1>4. k \in Contested(base[w], cur[w], theirs) <=> b[k] # o[k] /\ b[k] # t[k] /\ o[k] # t[k]
    BY <1>1 DEF Contested, Changed
<1>5. (k \in Changed(base[w], cur[w]) <=> b[k] # o[k]) /\ (k \in Changed(base[w], theirs) <=> b[k] # t[k])
    BY <1>1 DEF Changed
<1>6. req.rule = "none" => k \notin Contested(base[w], cur[w], theirs)
    BY <1>1 DEF Conflicts
<1>7. CASE req.rule = "ours"
    <2>1. d[k] = o[k]
        BY <1>1, <1>2, <1>7 DEF Merged
    <2> QED
        BY <1>3, <1>7, <2>1
<1>8. CASE req.rule = "theirs"
    <2>1. d[k] = IF b[k] # o[k] \/ b[k] # t[k] THEN t[k] ELSE o[k]
        BY <1>1, <1>2, <1>5, <1>8 DEF Merged
    <2> QED
        BY <1>3, <1>8, <2>1
<1>9. CASE req.rule \notin {"ours", "theirs"}
    <2>1. d[k] = IF k \in Contested(base[w], cur[w], theirs) THEN Mixed
                 ELSE IF b[k] # t[k] THEN t[k] ELSE o[k]
        BY <1>1, <1>2, <1>5, <1>9 DEF Merged
    <2> QED
        BY <1>3, <1>4, <1>6, <1>9, <2>1
<1> QED
    BY <1>7, <1>8, <1>9

LEMMA MergeStepKeeps ==
    ASSUME Inv, NEW w \in Trees, MergeStep(w)
    PROVE  Inv'
<1>1. TreeInv(w) /\ StoreType /\ Domains /\ Busy(w) /\ Called(w).step = "merge" /\ UNCHANGED writes
    BY DEF Inv, MergeStep
<1>2. PICK req, ours, theirs, b : req = Called(w) /\ ours = cur[w] /\ theirs = req.theirs /\ b = base[w]
    OBVIOUS
<1>3. /\ req \in Calls /\ theirs \in held /\ req.to \in held /\ req.step = "merge"
      /\ theirs \in 0 .. Len(commit) /\ req.op \in {"commit", "merge", "apply"}
    BY <1>1, <1>2, Calling DEF TreeInv, Builds
<1>4. PICK parents : parents = CASE req.op = "commit" -> {theirs, ours}
                                 [] req.op = "merge" -> {ours, theirs}
                                 [] OTHER -> {ours}
    OBVIOUS
<1>5. parents \in SUBSET (held \cup {cur[w]}) /\ ours \in parents /\ (req.op = "commit" => theirs \in parents)
    BY <1>2, <1>3, <1>4
<1>6. PICK old \in IF req.op = "apply" THEN {req.to} ELSE MergeBases(ours, theirs) :
          IF Conflicts(old, ours, theirs, req.rule) THEN Fail(w)
          ELSE IF req.op = "apply" /\ Merged(old, ours, theirs, req.rule) = Data(ours)
          THEN IF tip = ours THEN Return(w) /\ UNCHANGED <<store, cur, base>> ELSE Fail(w)
          ELSE Build(w, Merged(old, ours, theirs, req.rule), parents) /\ GoTo(w, "land")
    BY <1>2, <1>4 DEF MergeStep
<1>7. CASE Fail(w)
    BY <1>1, <1>7, Failed
<1>8. CASE req.op = "apply" /\ Return(w) /\ UNCHANGED <<store, cur, base>>
    <2>1. ~Fresh(w)
        BY <1>1, <1>2, <1>8 DEF Fresh
    <2> QED
        BY <1>1, <1>8, <2>1, Rested
<1>9. CASE /\ ~Conflicts(old, ours, theirs, req.rule)
           /\ Build(w, Merged(old, ours, theirs, req.rule), parents) /\ GoTo(w, "land")
    <2>1. PICK data, c : data = Merged(old, ours, theirs, req.rule) /\ c = [req EXCEPT !.step = "land"]
        OBVIOUS
    <2>2. Build(w, data, parents) /\ Step(w, c)
        BY <1>2, <1>9, <2>1 DEF GoTo
    <2>3. data \in [Keys -> Values]
        BY <1>1, <1>2, <1>3, <2>1, MergedData DEF TreeInv, TreeType
    <2>4. /\ c.op = req.op /\ c.only = req.only /\ c.ups = req.ups /\ c.rems = req.rems
          /\ c.rule = req.rule /\ c.step = "land" /\ c.theirs = theirs /\ c.theirs \in held /\ c.to \in held
        BY <1>2, <1>3, <2>1 DEF Calls
    <2>5. c \in Calls
        <3>1. "land" \in CallSteps
            BY DEF CallSteps
        <3> QED
            BY <1>3, <2>1, <3>1 DEF Calls
    <2>6. c.step \in {"publish", "land"} \/ (c.op = "commit" /\ c.step = "merge")
        BY <2>4
    <2>7. /\ Called(w)' = c /\ base' = base /\ Data(cur[w])' = data
          /\ Ancestors(cur[w])' = (UNION {Ancestors(p) : p \in parents}) \cup {cur'[w]}
          /\ Builds(w)' => Inv'
        BY <1>1, <1>2, <1>5, <2>2, <2>3, <2>4, <2>5, <2>6, Built
    <2>8. Grown
        BY <1>5, <2>2, <2>3, BuiltFacts
    <2>9. /\ Data(b)' = Data(b) /\ Ancestors(b)' = Ancestors(b)
          /\ Data(theirs)' = Data(theirs) /\ Ancestors(theirs)' = Ancestors(theirs)
        BY <1>1, <1>2, <1>3, <2>8 DEF Grown, TreeInv, TreeType, StoreType
    <2>10. Data(base[w])' = Data(b)
        BY <1>2, <2>7, <2>9 DEF Data
    <2>11. ours \in Ancestors(ours) /\ theirs \in Ancestors(theirs)
        BY <1>1, <1>2, <1>3, Lengths DEF TreeInv, TreeType
    <2>12. ASSUME req.op = "commit"
           PROVE  /\ theirs \in Ancestors(cur[w])'
                  /\ (base[w] \in Ancestors(theirs))' => HoldsTaken(w, Data(cur[w]), theirs)'
        <3>1. theirs \in Ancestors(cur[w])'
            BY <1>5, <2>7, <2>11, <2>12
        <3>2. ASSUME (base[w] \in Ancestors(theirs))'
              PROVE  HoldsTaken(w, Data(cur[w]), theirs)'
            <4>1. base[w] \in Ancestors(theirs)
                BY <1>2, <2>7, <2>9, <3>2
            <4>2. /\ Own(w) /\ Ancestors(cur[w]) = Ancestors(base[w]) \cup {cur[w]}
                  /\ Data(cur[w]) = Takes(w)
                BY <1>1, <1>2, <2>12 DEF TreeInv, Stands, Fresh, Builds
            <4>3. old \in MergeBases(cur[w], theirs)
                BY <1>2, <2>12
            <4>4. old = base[w]
                BY <1>3, <4>1, <4>2, <4>3, BaseIsLowest
            <4>5. HoldsTaken(w, data, theirs)
                BY <1>2, <1>9, <2>1, <4>2, <4>4, MergeHolds
            <4>6. \A k \in Keys :
                    LET o == IF k \in DOMAIN req.ups THEN req.ups[k] ELSE Absent
                    IN  IF k \in DOMAIN req.ups \cup req.rems
                        THEN \/ data[k] = o
                             \/ data[k] = Mixed /\ req.rule \notin {"none", "ours", "theirs"}
                             \/ data[k] = Data(theirs)[k] /\ (req.rule = "theirs" \/ Data(b)[k] = o)
                        ELSE \/ data[k] = Data(theirs)[k]
                             \/ data[k] = Data(b)[k] /\ req.rule = "ours"
                BY <1>2, <4>5 DEF HoldsTaken
            <4> QED
                BY <2>4, <2>7, <2>9, <2>10, <4>6 DEF HoldsTaken
        <3> QED
            BY <3>1, <3>2
    <2>13. ASSUME req.op # "commit" PROVE (base[w] \in Ancestors(cur[w]))'
        <3>1. cur[w] = base[w]
            BY <1>1, <1>2, <1>3, <2>13 DEF TreeInv, Stands, Fresh
        <3> QED
            BY <1>2, <1>5, <2>7, <2>11, <3>1
    <2>14. Builds(w)'
        <3>1. Called(w)'.step = "land" /\ Called(w)'.op = req.op /\ Called(w)'.theirs = theirs
            BY <2>4, <2>7
        <3> QED
            BY <1>3, <2>12, <2>13, <3>1 DEF Builds
    <2> QED
        BY <2>7, <2>14
<1> QED
    BY <1>6, <1>7, <1>8, <1>9

LEMMA LandKeeps ==
    ASSUME Inv, NEW w \in Trees, Land(w)
    PROVE  Inv'
BY Failed, Published DEF Land

---------------------------------------------------------------------------
(* A call that has built nothing goes on.                                   *)

LEMMA GoesOn ==
    ASSUME Inv, NEW w \in Trees, Busy(w), ~Fresh(w), NEW s \in CallSteps, NEW to \in held,
           Step(w, [Called(w) EXCEPT !.step = s, !.to = to]),
           UNCHANGED <<commit, cur, base, buffer, writes>>, held' = held, tip' \in held \cup {Nothing},
           \/ s = "merge" /\ Called(w).op \in {"merge", "apply"}
           \/ s = "forward" /\ Called(w).op = "merge" /\ cur[w] \in Ancestors(Called(w).theirs)
           \/ s = "load" /\ Called(w).op \in {"merge", "refresh", "reset"}
    PROVE  Inv'
<1>1. TreeInv(w) /\ StoreType
    BY DEF Inv
<1>2. PICK req, c : req = Called(w) /\ c = [req EXCEPT !.step = s, !.to = to]
    OBVIOUS
<1>3. req \in Calls /\ req.theirs \in held
    BY <1>2, Calling
<1>4. /\ c.op = req.op /\ c.only = req.only /\ c.ups = req.ups
      /\ c.step = s /\ c.theirs = req.theirs /\ c.to = to
    BY <1>2, <1>3 DEF Calls
<1>5. c \in Calls
    <2>1. to \in Nat
        BY <1>1 DEF StoreType
    <2> QED
        BY <1>2, <1>3, <2>1 DEF Calls
<1>6. /\ Step(w, c) /\ c.op = Called(w).op /\ c.only = Called(w).only /\ c.ups = Called(w).ups
      /\ c.theirs \in held' /\ c.to \in held'
    BY <1>2, <1>3, <1>4
<1>7. Busy(w)' /\ Called(w)' = c /\ (Fresh(w)' = Fresh(w) /\ Builds(w)' => Inv')
    BY <1>5, <1>6, Continues
<1>8. Fresh(w)' = Fresh(w)
    BY <1>2, <1>4, <1>7 DEF Fresh
<1>9. Builds(w)'
    BY <1>2, <1>4, <1>7 DEF Builds, Ancestors
<1> QED
    BY <1>7, <1>8, <1>9

(* Its `to` is as it was, if it goes to a step and not to a commit.         *)
LEMMA SameTo ==
    ASSUME Inv, NEW w \in Trees, Busy(w), NEW s, GoTo(w, s)
    PROVE  /\ Called(w).to \in held
           /\ Step(w, [Called(w) EXCEPT !.step = s, !.to = Called(w).to])
<1>1. PICK req : req = Called(w)
    OBVIOUS
<1>2. req \in Calls /\ req.to \in held
    BY <1>1, Calling
<1>3. [req EXCEPT !.step = s] = [req EXCEPT !.step = s, !.to = req.to]
    BY <1>2 DEF Calls
<1> QED
    BY <1>1, <1>2, <1>3 DEF GoTo

LEMMA MergeStartKeeps ==
    ASSUME Inv, NEW w \in Trees, MergeStart(w)
    PROVE  Inv'
<1>1. /\ Busy(w) /\ Called(w).op \in {"merge", "apply"} /\ Called(w).step = "start" /\ UNCHANGED writes
      /\ ~Fresh(w)
    BY DEF MergeStart, Fresh
<1>2. "merge" \in CallSteps /\ "forward" \in CallSteps /\ tip \in held \cup {Nothing}
    BY DEF CallSteps, Inv, StoreType
<1>3. CASE GoTo(w, "merge") /\ UNCHANGED <<store, cur, base, buffer>>
    <2>1. UNCHANGED <<commit, tip, held, cur, base, buffer>>
        BY <1>3 DEF store
    <2> QED
        BY <1>1, <1>2, <1>3, <2>1, SameTo, GoesOn
<1>4. CASE Called(w).op # "apply"
    <2>1. PICK old \in MergeBases(cur[w], Called(w).theirs) :
            CASE old = Called(w).theirs ->
                   IF tip = cur[w] THEN Return(w) /\ UNCHANGED <<store, cur, base>> ELSE Fail(w)
              [] old # Called(w).theirs /\ old = cur[w] ->
                   GoTo(w, "forward") /\ UNCHANGED <<store, cur, base, buffer>>
              [] OTHER -> GoTo(w, "merge") /\ UNCHANGED <<store, cur, base, buffer>>
        BY <1>4 DEF MergeStart
    <2>2. CASE Return(w) /\ UNCHANGED <<store, cur, base>>
        BY <1>1, <2>2, Rested
    <2>3. CASE Fail(w)
        BY <1>1, <2>3, Failed
    <2>4. CASE old = cur[w] /\ GoTo(w, "forward") /\ UNCHANGED <<store, cur, base, buffer>>
        <3>1. cur[w] \in Ancestors(Called(w).theirs)
            BY <2>1, <2>4 DEF MergeBases
        <3>2. UNCHANGED <<commit, tip, held, cur, base, buffer>>
            BY <2>4 DEF store
        <3>3. Called(w).op = "merge"
            BY <1>1, <1>4
        <3> QED
            BY <1>1, <1>2, <2>4, <3>1, <3>2, <3>3, SameTo, GoesOn
    <2> QED
        BY <1>3, <2>1, <2>2, <2>3, <2>4
<1> QED
    BY <1>3, <1>4 DEF MergeStart

LEMMA FastForwardKeeps ==
    ASSUME Inv, NEW w \in Trees, FastForward(w)
    PROVE  Inv'
<1>1. Busy(w) /\ Called(w).step = "forward" /\ UNCHANGED writes
    BY DEF FastForward
<1>2. Called(w).op = "merge" /\ ~Fresh(w)
    BY <1>1 DEF Inv, TreeInv, Builds, Fresh
<1>3. CASE tip = cur[w]
    <2>1. PICK c : c = Called(w).theirs
        OBVIOUS
    <2>2. c \in held
        BY <1>1, <2>1, Calling
    <2>3. /\ tip' = c /\ held' = held /\ UNCHANGED <<commit, cur, base, buffer>>
          /\ Step(w, [Called(w) EXCEPT !.step = "load", !.to = c])
        BY <1>3, <2>1, <2>2 DEF FastForward, Load
    <2>4. "load" \in CallSteps
        BY DEF CallSteps
    <2> QED
        BY <1>1, <1>2, <2>2, <2>3, <2>4, GoesOn
<1> QED
    BY <1>1, <1>3, Failed DEF FastForward

---------------------------------------------------------------------------
(* Refresh, reset, a branch that goes                                       *)

LEMMA RefreshKeeps ==
    ASSUME Inv, NEW w \in Trees, Refresh(w)
    PROVE  Inv'
<1>1. Busy(w) /\ Called(w).op = "refresh" /\ Called(w).step = "start" /\ UNCHANGED writes /\ ~Fresh(w)
    BY DEF Refresh, Running, Fresh
<1>2. CASE tip # Nothing
    <2>1. UNCHANGED <<commit, tip, held, cur, base, buffer>> /\ tip \in held
        BY <1>2 DEF Refresh, store, Inv, StoreType
    <2>2. Step(w, [Called(w) EXCEPT !.step = "load", !.to = tip])
        BY <1>2 DEF Refresh, Load
    <2>3. "load" \in CallSteps
        BY DEF CallSteps
    <2> QED
        BY <1>1, <2>1, <2>2, <2>3, GoesOn
<1> QED
    BY <1>1, <1>2, Failed DEF Refresh

LEMMA ResetKeeps ==
    ASSUME Inv, NEW w \in Trees, Reset(w)
    PROVE  Inv'
<1>1. Busy(w) /\ Called(w).op = "reset" /\ Called(w).step = "start" /\ UNCHANGED writes /\ ~Fresh(w)
    BY DEF Reset, Running, Fresh
<1>2. CASE tip # Nothing
    <2>1. PICK c : c = Called(w).to
        OBVIOUS
    <2>2. c \in held
        BY <1>1, <2>1, Calling
    <2>3. /\ tip' = c /\ held' = held /\ UNCHANGED <<commit, cur, base, buffer>>
          /\ Step(w, [Called(w) EXCEPT !.step = "load", !.to = c])
        BY <1>2, <2>1, <2>2 DEF Reset, Load
    <2>4. "load" \in CallSteps
        BY DEF CallSteps
    <2> QED
        BY <1>1, <2>2, <2>3, <2>4, GoesOn
<1> QED
    BY <1>1, <1>2, Failed DEF Reset

(* The invariant does not ask where the branch is, but that it is somewhere *)
(* it has been.                                                             *)
LEMMA Elsewhere ==
    ASSUME Inv, UNCHANGED <<commit, held, cur, base, buffer, queue, writes>>, tip' \in held \cup {Nothing}
    PROVE  Inv'
<1>1. StoreType /\ Domains /\ UNCHANGED <<updates, removals, cache, reading, deleting>>
    BY DEF Inv, buffer
<1>2. StoreType' /\ Domains' /\ Grown
    BY <1>1, Stays DEF StoreType, Domains
<1>3. ASSUME NEW v \in Trees PROVE TreeInv(v)'
    <2>1. TreeInv(v)
        BY DEF Inv
    <2>2. TreeType(v)'
        <3>1. QueueType(v)'
            BY <2>1 DEF TreeInv, TreeType, QueueType
        <3> QED
            BY <1>1, <2>1, <3>1 DEF TreeInv, TreeType
    <2>3. Busy(v)' = Busy(v) /\ Fresh(v)' = Fresh(v)
        BY DEF Busy, Fresh, Called
    <2>4. Stands(v)'
        BY <2>1, <2>3 DEF TreeInv, Stands, Own
    <2>5. Busy(v)' => Builds(v)'
        BY <1>1, <1>2, <2>1, <2>3, BuildsKept DEF TreeInv
    <2>6. ReadsTrue(v)'
        BY <1>1, <2>1, <2>3 DEF TreeInv, ReadsTrue, Data
    <2>7. TakesAll(v)'
        BY <1>1, <2>1 DEF TreeInv, TakesAll
    <2> QED
        BY <2>2, <2>4, <2>5, <2>6, <2>7 DEF TreeInv
<1> QED
    BY <1>2, <1>3 DEF Inv

LEMMA DropKeeps ==
    ASSUME Inv, DropBranch
    PROVE  Inv'
BY Elsewhere DEF DropBranch

LEMMA StutterKeeps ==
    ASSUME Inv, UNCHANGED wvars
    PROVE  Inv'
<1>1. UNCHANGED <<commit, held, cur, base, buffer, queue, writes>> /\ tip' = tip
    BY DEF wvars, buffer
<1>2. tip \in held \cup {Nothing}
    BY DEF Inv, StoreType
<1> QED
    BY <1>1, <1>2, Elsewhere

LEMMA StepKeeps ==
    ASSUME Inv, [WNext]_wvars
    PROVE  Inv'
<1>1. CASE DropBranch
    BY <1>1, DropKeeps
<1>2. ASSUME NEW w \in Trees, NEW k \in Keys, SetKey(w, k) \/ DeleteKey(w, k) \/ Read(w, k)
      PROVE  Inv'
    BY <1>2, SetKeyKeeps, DeleteKeeps, ReadKeeps
<1>3. ASSUME NEW w \in Trees, Deleted(w) \/ ReadDone(w) \/ DiscardPending(w)
      PROVE  Inv'
    BY <1>3, DeletedKeeps, ReadDoneKeeps, DiscardKeeps
<1>4. ASSUME NEW w \in Trees, AskCommit(w) \/ AskMerge(w) \/ AskMove(w)
      PROVE  Inv'
    BY <1>4, AskCommitKeeps, AskMergeKeeps, AskMoveKeeps
<1>5. ASSUME NEW w \in Trees, CommitStart(w) \/ CommitPublish(w) \/ MergeStep(w) \/ Land(w)
      PROVE  Inv'
    BY <1>5, CommitStartKeeps, CommitPublishKeeps, MergeStepKeeps, LandKeeps
<1>6. ASSUME NEW w \in Trees,
             MergeStart(w) \/ FastForward(w) \/ Refresh(w) \/ Reset(w) \/ Loaded(w)
      PROVE  Inv'
    BY <1>6, MergeStartKeeps, FastForwardKeeps, RefreshKeeps, ResetKeeps, LoadedKeeps
<1>7. CASE UNCHANGED wvars
    BY <1>7, StutterKeeps
<1> QED
    BY <1>1, <1>2, <1>3, <1>4, <1>5, <1>6, <1>7 DEF WNext

LEMMA InitHolds ==
    ASSUME WInit
    PROVE  Inv
<1>1. commit = <<>> /\ tip = Root /\ held = {Root} /\ Root = 0
    BY DEF WInit, Root
<1>2. commit \in Seq(CommitRows) /\ Len(commit) = 0 /\ DOMAIN commit = {}
    BY <1>1
<1>3. StoreType
    BY <1>1, <1>2 DEF StoreType
<1>4. Domains
    BY WritesAssumption DEF WInit, Domains
<1>5. ASSUME NEW w \in Trees PROVE TreeInv(w)
    <2>1. /\ cur[w] = Root /\ base[w] = Root /\ updates[w] = Empty /\ removals[w] = {}
          /\ cache[w] = Empty /\ reading[w] = Nothing /\ deleting[w] = Nothing /\ queue[w] = <<>>
        BY DEF WInit
    <2>2. DOMAIN Empty = {}
        BY DEF Empty
    <2>3. queue[w] \in Seq(Calls) /\ Len(queue[w]) = 0 /\ DOMAIN queue[w] = {} /\ ~Busy(w)
        BY <2>1 DEF Busy
    <2>4. TreeType(w)
        BY <1>1, <1>2, <2>1, <2>2, <2>3 DEF TreeType, QueueType
    <2> QED
        BY <2>1, <2>2, <2>3, <2>4 DEF TreeInv, Stands, Fresh, ReadsTrue, TakesAll
<1> QED
    BY <1>3, <1>4, <1>5 DEF Inv

LEMMA AlwaysInv == WSpec => []Inv
<1>1. WInit => Inv
    BY InitHolds
<1>2. Inv /\ [WNext]_wvars => Inv'
    BY StepKeeps
<1> QED
    BY <1>1, <1>2, PTL DEF WSpec

---------------------------------------------------------------------------
(* What the invariant is for.                                               *)

HandlesAreFunctions == cur = [v \in Trees |-> cur[v]] /\ base = [v \in Trees |-> base[v]]

Repoints(h, f) == f = h \/ \E w \in Trees : \E c : f = [h EXCEPT ![w] = c]

LEMMA HandlesStay ==
    ASSUME Domains, HandlesAreFunctions, [WNext]_wvars
    PROVE  HandlesAreFunctions'
<1>1. Repoints(cur, cur') /\ Repoints(base, base')
    <2>1. CASE UNCHANGED <<cur, base>>
        BY <2>1 DEF Repoints
    <2>2. ASSUME NEW w \in Trees, Fail(w) \/ Publish(w) PROVE Repoints(cur, cur') /\ Repoints(base, base')
        BY <2>2 DEF Fail, Publish, Repoints
    <2>3. ASSUME NEW w \in Trees, NEW data, NEW parents, Build(w, data, parents)
          PROVE  Repoints(cur, cur') /\ Repoints(base, base')
        BY <2>3 DEF Build, Repoints
    <2>4. ASSUME NEW w \in Trees, Loaded(w) PROVE Repoints(cur, cur') /\ Repoints(base, base')
        BY <2>4 DEF Loaded, Repoints
    <2>5. ASSUME NEW w \in Trees, CommitStart(w) PROVE Repoints(cur, cur') /\ Repoints(base, base')
        BY <2>1, <2>2, <2>3, <2>5 DEF CommitStart
    <2>6. ASSUME NEW w \in Trees, MergeStep(w) PROVE Repoints(cur, cur') /\ Repoints(base, base')
        BY <2>1, <2>2, <2>3, <2>6 DEF MergeStep
    <2>7. ASSUME NEW w \in Trees, CommitPublish(w) \/ Land(w) \/ MergeStart(w) \/ FastForward(w) \/ Refresh(w) \/ Reset(w)
          PROVE  Repoints(cur, cur') /\ Repoints(base, base')
        BY <2>1, <2>2, <2>7 DEF CommitPublish, Land, MergeStart, FastForward, Refresh, Reset
    <2>8. ASSUME NEW w \in Trees, AskCommit(w) \/ AskMerge(w) \/ AskMove(w)
          PROVE  Repoints(cur, cur') /\ Repoints(base, base')
        BY <2>1, <2>8 DEF AskCommit, AskMerge, AskMove, Ask
    <2>9. ASSUME NEW w \in Trees, Deleted(w) \/ ReadDone(w) \/ DiscardPending(w)
          PROVE  Repoints(cur, cur') /\ Repoints(base, base')
        BY <2>1, <2>9 DEF Deleted, ReadDone, DiscardPending
    <2>10. ASSUME NEW w \in Trees, NEW k \in Keys, SetKey(w, k) \/ DeleteKey(w, k) \/ Read(w, k)
           PROVE  Repoints(cur, cur') /\ Repoints(base, base')
        BY <2>1, <2>10 DEF SetKey, DeleteKey, Read
    <2>11. CASE DropBranch \/ UNCHANGED wvars
        BY <2>1, <2>11 DEF DropBranch, wvars
    <2> QED
        BY <2>4, <2>5, <2>6, <2>7, <2>8, <2>9, <2>10, <2>11 DEF WNext
<1> QED
    BY <1>1 DEF Repoints, HandlesAreFunctions, Domains

LEMMA InvIsTrue ==
    ASSUME Inv, HandlesAreFunctions
    PROVE  WorktreeTrue
<1>1. StoreType
    BY DEF Inv
<1>2. ASSUME NEW c \in DOMAIN commit
      PROVE  commit[c].data \in [Keys -> Values] /\ commit[c].anc \subseteq 0 .. c - 1
    <2>1. commit[c] \in CommitRows
        BY <1>1, LenProperties, ElementOfSeq DEF StoreType
    <2> QED
        BY <1>1, <2>1 DEF CommitRows, StoreType
<1>3. cur \in [Trees -> 0 .. Len(commit)] /\ base \in [Trees -> held]
    BY DEF HandlesAreFunctions, Inv, TreeInv, TreeType
<1>4. WTypeOK
    BY <1>1, <1>2, <1>3 DEF WTypeOK, StoreType, Inv, TreeInv, TreeType, QueueType
<1>5. NoPhantom
    BY DEF NoPhantom, Inv, TreeInv, Stands, Fresh
<1>6. CacheTrue
    BY <1>5 DEF CacheTrue, NoPhantom, Inv, TreeInv, ReadsTrue
<1> QED
    BY <1>4, <1>5, <1>6 DEF WorktreeTrue

(* A worktree between calls stands on a commit its branch held, and what it *)
(* cached is that commit's, but for reads a call overtook (worktree.ts, get *)
(* and commit; base.ts).                                                    *)
THEOREM WorktreeStaysTrue == WSpec => []WorktreeTrue
<1>1. WInit => HandlesAreFunctions
    BY DEF WInit, HandlesAreFunctions
<1>2. Inv /\ HandlesAreFunctions /\ [WNext]_wvars => HandlesAreFunctions'
    BY HandlesStay DEF Inv
<1>3. Inv /\ HandlesAreFunctions => WorktreeTrue
    BY InvIsTrue
<1> QED
    BY <1>1, <1>2, <1>3, AlwaysInv, PTL DEF WSpec

---------------------------------------------------------------------------
(* How a call moves the branch.                                             *)

MovesFrom(w) ==
    \/ Called(w).op = "reset"
    \/ /\ tip \in Ancestors(tip)'
       /\ Called(w).op = "commit" /\ base[w] \in Ancestors(tip) => HoldsTaken(w, Data(tip)', tip)

LEMMA TipMoves ==
    ASSUME Inv, WNext, NEW w \in Trees, Moves(w)
    PROVE  MovesFrom(w)
<1>1. ASSUME NEW v \in Trees, tip' # tip
      PROVE  ~Fail(v)
    BY <1>1 DEF Fail, store
<1>2. ASSUME NEW v \in Trees, NEW data, NEW parents, Build(v, data, parents) PROVE tip' = tip
    BY <1>2 DEF Build
<1>3. tip' # tip /\ queue'[w] # queue[w]
    BY DEF Moves
<1>4. ASSUME NEW v \in Trees, v # w, Return(v) \/ (\E c : Step(v, c)) PROVE FALSE
    BY <1>3, <1>4, Returned DEF Step, BuffersMove, Inv, Domains, TreeInv, TreeType
<1>5. TreeInv(w) /\ StoreType
    BY DEF Inv
<1>6. CASE CommitPublish(w)
    <2>1. tip = base[w] /\ Publish(w) /\ Busy(w) /\ Called(w).op = "commit" /\ Called(w).step = "publish"
        BY <1>1, <1>3, <1>6 DEF CommitPublish, Running, store
    <2>2. tip' = cur[w] /\ commit' = commit
        BY <2>1 DEF Publish
    <2>3. Ancestors(cur[w]) = Ancestors(base[w]) \cup {cur[w]} /\ Data(cur[w]) = Takes(w)
        BY <1>5, <2>1 DEF TreeInv, Builds
    <2>4. Ancestors(tip)' = Ancestors(cur[w]) /\ Data(tip)' = Data(cur[w])
        BY <2>2 DEF Ancestors, Data
    <2>5. base[w] \in Ancestors(base[w])
        BY <1>5, Lengths DEF StoreType, TreeInv, TreeType
    <2>6. HoldsTaken(w, Takes(w), base[w])
        BY DEF HoldsTaken, Takes
    <2> QED
        BY <2>1, <2>3, <2>4, <2>5, <2>6 DEF MovesFrom
<1>7. CASE Land(w)
    <2>1. tip = Expected(w) /\ Publish(w) /\ Busy(w) /\ Called(w).step = "land"
        BY <1>1, <1>3, <1>7 DEF Land
    <2>2. tip' = cur[w] /\ commit' = commit
        BY <2>1 DEF Publish
    <2>3. Ancestors(tip)' = Ancestors(cur[w]) /\ Data(tip)' = Data(cur[w])
        BY <2>2 DEF Ancestors, Data
    <2> QED
        BY <1>5, <2>1, <2>3 DEF TreeInv, Builds, Expected, MovesFrom
<1>8. CASE FastForward(w)
    <2>1. /\ tip = cur[w] /\ tip' = Called(w).theirs /\ commit' = commit
          /\ Busy(w) /\ Called(w).step = "forward"
        BY <1>1, <1>3, <1>8 DEF FastForward
    <2>2. Called(w).op = "merge" /\ cur[w] \in Ancestors(Called(w).theirs)
        BY <1>5, <2>1 DEF TreeInv, Builds
    <2>3. Ancestors(tip)' = Ancestors(Called(w).theirs)
        BY <2>1 DEF Ancestors
    <2> QED
        BY <2>1, <2>2, <2>3 DEF MovesFrom
<1>9. CASE Reset(w)
    BY <1>9 DEF Reset, Running, MovesFrom
<1>10. ASSUME NEW v \in Trees, CommitPublish(v) \/ Land(v) \/ FastForward(v) \/ Reset(v) PROVE v = w
    BY <1>1, <1>3, <1>4, <1>10 DEF CommitPublish, Land, FastForward, Reset, Publish, Load, store
<1>11. ASSUME NEW v \in Trees, CommitStart(v) \/ MergeStep(v) \/ MergeStart(v) PROVE FALSE
    <2>1. ~CommitStart(v)
        BY <1>1, <1>2, <1>3 DEF CommitStart, store
    <2>2. ~MergeStep(v)
        BY <1>1, <1>2, <1>3 DEF MergeStep, store
    <2>3. ~MergeStart(v)
        BY <1>1, <1>3 DEF MergeStart, store
    <2> QED
        BY <1>11, <2>1, <2>2, <2>3
<1>12. ASSUME NEW v \in Trees, Refresh(v) \/ Loaded(v) PROVE FALSE
    BY <1>1, <1>3, <1>12 DEF Refresh, Loaded, store
<1>13. ASSUME NEW v \in Trees, AskCommit(v) \/ AskMerge(v) \/ AskMove(v) PROVE FALSE
    BY <1>3, <1>13 DEF AskCommit, AskMerge, AskMove, Ask, store
<1>14. ASSUME NEW v \in Trees, Deleted(v) \/ ReadDone(v) \/ DiscardPending(v) PROVE FALSE
    BY <1>3, <1>14 DEF Deleted, ReadDone, DiscardPending, store
<1>15. ASSUME NEW v \in Trees, NEW k \in Keys, SetKey(v, k) \/ DeleteKey(v, k) \/ Read(v, k) PROVE FALSE
    BY <1>3, <1>15 DEF SetKey, DeleteKey, Read, store
<1>16. ~DropBranch
    BY <1>3 DEF DropBranch
<1> QED
    BY <1>6, <1>7, <1>8, <1>9, <1>10, <1>11, <1>12, <1>13, <1>14, <1>15, <1>16 DEF WNext

---------------------------------------------------------------------------
(* Where a pending write goes.                                              *)

LEMMA StillThere ==
    ASSUME NEW v \in Trees, NEW k \in DOMAIN updates[v], updates'[v] = updates[v]
    PROVE  Kept(v, k)
BY DEF Kept

LEMMA ReturnKeepsWrite ==
    ASSUME Inv, NEW w \in Trees, Busy(w), Return(w),
           Called(w).op = "commit" => NothingToDo(w) \/ (cur'[w] = tip' /\ base'[w] = tip'),
           NEW v \in Trees, NEW k \in DOMAIN updates[v], ~updates[v][k].late
    PROVE  Kept(v, k)
<1>1. CASE v # w
    <2>1. updates'[v] = updates[v]
        BY <1>1, Returned DEF BuffersMove, Inv, TreeInv, TreeType
    <2> QED
        BY <2>1, StillThere
<1>2. CASE v = w
    <2>1. /\ queue[w] \in Seq(Calls) /\ queue[w] # <<>> /\ 1 \in DOMAIN queue[w]
          /\ Called(w) = queue[w][1]
        BY Calling
    <2>2. queue'[w] # queue[w]
        <3>1. queue'[w] = Tail(queue[w])
            BY DEF Return, Inv, Domains
        <3>2. Len(Tail(queue[w])) = Len(queue[w]) - 1 /\ Len(queue[w]) \in Nat
            BY <2>1, Dropped, LenProperties
        <3>3. Len(Tail(queue[w])) # Len(queue[w])
            BY <3>2
        <3> QED
            BY <3>1, <3>3
    <2>3. CASE Called(w).op = "commit"
        <3>1. updates'[w] = Without(updates[w], Called(w).only)
            BY <2>3 DEF Return, Inv, Domains
        <3>2. k \notin Called(w).only => k \in DOMAIN updates'[w]
            BY <1>2, <3>1 DEF Without, Restrict
        <3>3. ASSUME k \in Called(w).only
              PROVE  k \in DOMAIN Called(w).ups /\ Called(w).ups[k] = updates[w][k].val
            BY <1>2, <2>1, <2>3, <3>3 DEF Inv, TreeInv, TakesAll
        <3>4. NothingToDo(w) => k \notin Called(w).only
            BY <3>3 DEF NothingToDo
        <3> QED
            BY <1>2, <2>2, <2>3, <3>2, <3>3, <3>4 DEF Kept
    <2>4. CASE Called(w).op \in {"refresh", "reset"}
        BY <1>2, <2>2, <2>4 DEF Kept
    <2>5. CASE Called(w).op \notin {"commit", "refresh", "reset"}
        <3>1. updates'[v] = updates[v]
            BY <2>5 DEF Return
        <3> QED
            BY <3>1, StillThere
    <2> QED
        BY <2>3, <2>4, <2>5
<1> QED
    BY <1>1, <1>2

LEMMA StepKeepsWrite ==
    ASSUME Inv, WNext, NEW v \in Trees, NEW k \in DOMAIN updates[v], ~updates[v][k].late
    PROVE  Kept(v, k)
<1>1. ASSUME updates' = updates PROVE Kept(v, k)
    BY <1>1, StillThere
<1>2. ASSUME NEW w \in Trees, Fail(w) PROVE Kept(v, k)
    BY <1>1, <1>2 DEF Fail
<1>3. ASSUME NEW w \in Trees, NEW data, NEW parents, Build(w, data, parents) PROVE Kept(v, k)
    BY <1>1, <1>3 DEF Build, buffer
<1>4. ASSUME NEW w \in Trees, Busy(w), Publish(w) PROVE Kept(v, k)
    <2>1. cur'[w] = tip' /\ base'[w] = tip' /\ Return(w)
        BY <1>4 DEF Publish, Inv, Domains
    <2> QED
        BY <1>4, <2>1, ReturnKeepsWrite
<1>5. ASSUME NEW w \in Trees, NEW j \in Keys, SetKey(w, j) PROVE Kept(v, k)
    <2>1. CASE v = w
        <3>1. updates'[w] = With(updates[w], j, [val |-> writes + 1, late |-> Busy(w)])
            BY <1>5 DEF SetKey, Inv, Domains
        <3>2. k \in DOMAIN updates'[v]
            BY <2>1, <3>1 DEF With
        <3> QED
            BY <3>2 DEF Kept
    <2>2. CASE v # w
        BY <1>5, <2>2, StillThere DEF SetKey
    <2> QED
        BY <2>1, <2>2
<1>6. ASSUME NEW w \in Trees, NEW j \in Keys, DeleteKey(w, j) PROVE Kept(v, k)
    <2>1. CASE v = w
        <3>1. updates'[w] = Without(updates[w], {j}) /\ deleting'[w] = j
            BY <1>6 DEF DeleteKey, Inv, Domains
        <3>2. k = j \/ k \in DOMAIN updates'[v]
            BY <2>1, <3>1 DEF Without, Restrict
        <3> QED
            BY <2>1, <3>1, <3>2 DEF Kept
    <2>2. CASE v # w
        BY <1>6, <2>2, StillThere DEF DeleteKey
    <2> QED
        BY <2>1, <2>2
<1>7. ASSUME NEW w \in Trees, DiscardPending(w) PROVE Kept(v, k)
    <2>1. CASE v = w
        BY <1>7, <2>1 DEF DiscardPending, Discard, Inv, Domains, Kept
    <2>2. CASE v # w
        BY <1>7, <2>2, StillThere DEF DiscardPending, Discard
    <2> QED
        BY <2>1, <2>2
<1>8. ASSUME NEW w \in Trees, CommitStart(w) PROVE Kept(v, k)
    <2>1. CASE NothingToDo(w) /\ Return(w)
        BY <1>8, <2>1, ReturnKeepsWrite DEF CommitStart, Running
    <2> QED
        BY <1>2, <1>3, <1>8, <2>1 DEF CommitStart
<1>9. ASSUME NEW w \in Trees, CommitPublish(w) PROVE Kept(v, k)
    BY <1>1, <1>2, <1>4, <1>9 DEF CommitPublish, Running, buffer
<1>10. ASSUME NEW w \in Trees, MergeStep(w) PROVE Kept(v, k)
    <2>1. CASE Called(w).op = "apply" /\ Return(w)
        BY <1>10, <2>1, ReturnKeepsWrite DEF MergeStep
    <2> QED
        BY <1>2, <1>3, <1>10, <2>1 DEF MergeStep
<1>11. ASSUME NEW w \in Trees, Land(w) PROVE Kept(v, k)
    BY <1>2, <1>4, <1>11 DEF Land
<1>12. ASSUME NEW w \in Trees, MergeStart(w) PROVE Kept(v, k)
    <2>1. CASE Return(w)
        BY <1>12, <2>1, ReturnKeepsWrite DEF MergeStart
    <2> QED
        BY <1>1, <1>2, <1>12, <2>1 DEF MergeStart, buffer
<1>13. ASSUME NEW w \in Trees, FastForward(w) \/ Refresh(w) \/ Reset(w) PROVE Kept(v, k)
    BY <1>1, <1>2, <1>13 DEF FastForward, Refresh, Reset, buffer
<1>14. ASSUME NEW w \in Trees, Loaded(w) PROVE Kept(v, k)
    <2>1. Called(w).op # "commit"
        BY <1>14 DEF Loaded, Inv, TreeInv, Builds
    <2> QED
        BY <1>14, <2>1, ReturnKeepsWrite DEF Loaded
<1>15. ASSUME NEW w \in Trees, AskCommit(w) \/ AskMerge(w) \/ AskMove(w) PROVE Kept(v, k)
    BY <1>1, <1>15 DEF AskCommit, AskMerge, AskMove, Ask, buffer
<1>16. ASSUME NEW w \in Trees, Deleted(w) \/ ReadDone(w) PROVE Kept(v, k)
    BY <1>1, <1>16 DEF Deleted, ReadDone
<1>17. ASSUME NEW w \in Trees, NEW j \in Keys, Read(w, j) PROVE Kept(v, k)
    BY <1>1, <1>17 DEF Read
<1>18. CASE DropBranch
    BY <1>1, <1>18 DEF DropBranch, buffer
<1> QED
    BY <1>5, <1>6, <1>7, <1>8, <1>9, <1>10, <1>11, <1>12, <1>13, <1>14, <1>15, <1>16, <1>17, <1>18
    DEF WNext

(* A branch moves only over commits that follow it, unless it is reset; a    *)
(* commit changes the keys it took and no other, of a handle the branch has *)
(* not been reset away from; and a write made between calls stays pending   *)
(* until a commit that took it lands or its owner drops it (worktree.ts,    *)
(* staged.ts).                                                              *)
THEOREM WorktreeMovesKept == WSpec => WorktreeCommitsTaken
<1>1. Inv /\ [WNext]_wvars =>
          [\A w \in Trees : Moves(w) /\ Called(w).op # "reset" => tip \in Ancestors(tip)']_wvars
    BY TipMoves DEF MovesFrom
<1>2. Inv /\ [WNext]_wvars =>
          [\A w \in Trees : Moves(w) /\ Called(w).op = "commit" /\ base[w] \in Ancestors(tip) =>
              HoldsTaken(w, Data(tip)', tip)]_wvars
    BY TipMoves DEF MovesFrom
<1>3. Inv /\ [WNext]_wvars =>
          [\A w \in Trees : \A k \in DOMAIN updates[w] : ~updates[w][k].late => Kept(w, k)]_wvars
    BY StepKeepsWrite
<1> QED
    BY <1>1, <1>2, <1>3, AlwaysInv, PTL
    DEF WSpec, WorktreeCommitsTaken, NothingOverwritten, OnlyTaken, WritesKept

-----------------------------------------------------------------------------
(* The backends: both implement the store that worktrees are kept in        *)
(* (KvStore). For any keys, callers and operations, each step of a          *)
(* transaction is a step of the store or changes nothing it promises.       *)

CONSTANTS Callers, Ops, NoOne
VARIABLES data, asks, waiting, tx, writer, work

Store == INSTANCE KvStore WITH calls <- asks
Idb == INSTANCE KvIdb WITH calls <- asks, queue <- waiting
Sqlite == INSTANCE KvSqlite WITH calls <- asks

-----------------------------------------------------------------------------
(* SQLite: the connection in a write transaction is a batch's, and what it  *)
(* checked still holds when it commits; nobody else has begun any.          *)

SqliteTyped ==
    /\ DOMAIN asks = Callers
    /\ writer \in Callers \cup {NoOne}
    /\ work \in [Callers -> [checked : SUBSET Keys, made : SUBSET Keys]]

Checked(c) ==
    /\ Store!Is(c, "batch")
    /\ \A k \in work[c].checked : data[k] = asks[c].op.expected[k]

SqliteInv ==
    /\ SqliteTyped
    /\ writer # NoOne => Checked(writer)
    /\ \A c \in Callers : c # writer => work[c] = Sqlite!NoWork

LEMMA SqliteStart == Sqlite!SqliteInit => Store!Init /\ SqliteInv
BY DEF Sqlite!SqliteInit, Sqlite!Init, Store!Init, SqliteInv, SqliteTyped, Sqlite!Idle, Store!Idle, Sqlite!NoWork

LEMMA SqliteStep ==
    ASSUME NoOne \notin Callers, SqliteInv, [Sqlite!SqliteNext]_<<data, asks, writer, work>>
    PROVE  SqliteInv' /\ [Store!Next]_<<data, asks>>
<1> USE DEF SqliteInv, SqliteTyped, Checked, Store!Is, Store!Idle, Store!Asked, Store!Asking, Store!Done, Store!Over, Store!With,
            Sqlite!Is, Sqlite!Idle, Sqlite!Asked, Sqlite!Asking, Sqlite!Done, Sqlite!Over, Sqlite!With, Sqlite!NoWork
<1>1. ASSUME NEW c \in Callers, NEW op \in Ops, Sqlite!Begun(c, op)
      PROVE  SqliteInv' /\ Store!Ask(c, op)
    <2>1. writer # c
        BY <1>1 DEF Sqlite!Begun, Sqlite!Ask
    <2>2. Store!Ask(c, op) /\ SqliteTyped'
        BY <1>1 DEF Sqlite!Begun, Sqlite!Ask, Store!Ask
    <2> QED
        BY <1>1, <2>1, <2>2 DEF Sqlite!Begun, Sqlite!Ask
<1>2. ASSUME NEW c \in Callers, Sqlite!Statement(c)
      PROVE  SqliteInv' /\ Store!Land(c)
    BY <1>2 DEF Sqlite!Statement, Sqlite!Land, Store!Land, Sqlite!Holds, Store!Holds
<1>3. ASSUME NEW c \in Callers, Sqlite!Lock(c)
      PROVE  SqliteInv' /\ UNCHANGED <<data, asks>>
    BY <1>3 DEF Sqlite!Lock
<1>4. ASSUME NEW c \in Callers, Sqlite!Commit(c)
      PROVE  SqliteInv' /\ Store!Land(c)
    BY <1>4 DEF Sqlite!Commit, Store!Land, Store!Holds
<1>5. ASSUME NEW c \in Callers, Sqlite!Throws(c)
      PROVE  SqliteInv' /\ Store!Fail(c)
    BY <1>5 DEF Sqlite!Throws, Sqlite!Fail, Store!Fail, Sqlite!Released
<1>6. ASSUME NEW c \in Callers, Sqlite!Gone(c)
      PROVE  SqliteInv' /\ Store!Leave(c)
    BY <1>6 DEF Sqlite!Gone, Sqlite!Leave, Store!Leave, Sqlite!Released
<1>7. ASSUME NEW c \in Callers, Sqlite!GoneCommitted(c)
      PROVE  SqliteInv' /\ Store!LandUnheard(c)
    BY <1>7 DEF Sqlite!GoneCommitted, Sqlite!LandUnheard, Store!LandUnheard, Sqlite!Holds, Store!Holds, Sqlite!Released
<1>8. ASSUME NEW c \in Callers, NEW k \in Keys, Sqlite!Check(c, k)
      PROVE  SqliteInv' /\ (Store!Land(c) \/ UNCHANGED <<data, asks>>)
    <2>0. c = writer /\ writer # NoOne /\ data' = data
        BY <1>8 DEF Sqlite!Check
    <2>1. CASE data[k] = asks[c].op.expected[k]
        <3>1. /\ asks' = asks /\ writer' = writer
              /\ work' = [work EXCEPT ![c] = [checked |-> work[c].checked \cup {k}, made |-> work[c].made]]
            BY <1>8, <2>1 DEF Sqlite!Check
        <3> QED
            BY <3>1, <2>0, <2>1
    <2>2. CASE data[k] # asks[c].op.expected[k]
        <3>1. /\ asks' = [asks EXCEPT ![c] = Store!Done([landed |-> FALSE])] /\ writer' = NoOne
              /\ work' = [work EXCEPT ![c] = Sqlite!NoWork]
            BY <1>8, <2>2 DEF Sqlite!Check
        <3>2. Store!Holds(asks[c].op.expected, data) = FALSE
            BY <1>8, <2>2 DEF Sqlite!Check, Store!Holds
        <3>3. Store!Land(c)
            BY <3>1, <3>2, <2>0 DEF Store!Land
        <3> QED
            BY <3>1, <3>3, <2>0
    <2> QED
        BY <2>1, <2>2
<1>9. ASSUME NEW c \in Callers, NEW k \in Keys, Sqlite!Write(c, k)
      PROVE  SqliteInv' /\ UNCHANGED <<data, asks>>
    <2>0. work[c] \in [checked : SUBSET Keys, made : SUBSET Keys]
        OBVIOUS
    <2> DEFINE made == work[c].made \cup {k}
    <2>1. [work[c] EXCEPT !.made = made] = [checked |-> work[c].checked, made |-> made]
        <3> HIDE DEF made
        <3> QED
            BY <2>0
    <2>2. work' = [work EXCEPT ![c] = [checked |-> work[c].checked, made |-> made]]
        BY <1>9, <2>1 DEF Sqlite!Write
    <2> QED
        BY <1>9, <2>2 DEF Sqlite!Write
<1>10. ASSUME NEW c \in Callers, NEW k \in Keys, Sqlite!Select(c, k)
       PROVE  SqliteInv' /\ Store!ReadKey(c, k)
    BY <1>10 DEF Sqlite!Select, Sqlite!ReadKey, Store!ReadKey
<1>11. ASSUME UNCHANGED <<data, asks, writer, work>>
       PROVE  SqliteInv' /\ UNCHANGED <<data, asks>>
    BY <1>11
<1> QED
    BY <1>1, <1>2, <1>3, <1>4, <1>5, <1>6, <1>7, <1>8, <1>9, <1>10, <1>11
    DEF Sqlite!SqliteNext, Store!Next

\* A SQLite file is the store kvgit asks for (sqlite.ts), whoever else writes
\* the file between a batch's statements.
THEOREM SqliteIsStore == ASSUME NoOne \notin Callers PROVE Sqlite!SqliteSpec => Store!Spec
<1>1. Sqlite!SqliteInit => Store!Init /\ SqliteInv
    BY SqliteStart
<1>2. SqliteInv /\ [Sqlite!SqliteNext]_<<data, asks, writer, work>> => SqliteInv' /\ [Store!Next]_<<data, asks>>
    BY SqliteStep
<1> QED
    BY <1>1, <1>2, PTL DEF Sqlite!SqliteSpec, Sqlite!vars, Store!Spec

-----------------------------------------------------------------------------
(* IndexedDB: the queue of transactions, one of each caller whose call is   *)
(* under way.                                                               *)

Queued(c) == \E i \in DOMAIN waiting : waiting[i] = c
First(c) == waiting # <<>> /\ waiting[1] = c

QueueInv ==
    /\ waiting \in Seq(Callers)
    /\ \A i, j \in DOMAIN waiting : waiting[i] = waiting[j] => i = j
    /\ \A c \in Callers : asks[c].state = "asked" <=> Queued(c)

LEMMA WithoutOne ==
    ASSUME NEW c \in Callers, QueueInv, waiting' = Idb!Without(c)
    PROVE  /\ waiting' \in Seq(Callers)
           /\ \A i, j \in DOMAIN waiting' : waiting'[i] = waiting'[j] => i = j
           /\ \A d \in Callers : Queued(d)' <=> Queued(d) /\ d # c
           /\ \A d \in Callers \ {c} : First(d) => First(d)'
<1> USE DEF QueueInv, Queued, First
<1> DEFINE ends == {i \in DOMAIN waiting : waiting[i] = c}
<1>1. CASE ends = {}
    <2>1. waiting' = [i \in 1..Len(waiting) |-> waiting[i]]
        BY <1>1 DEF Idb!Without
    <2>2. waiting' = waiting
        BY <2>1
    <2> QED
        BY <1>1, <2>2
<1>2. CASE ends # {}
    <2>1. PICK p \in DOMAIN waiting : waiting[p] = c
        BY <1>2
    <2>2. ends = {p}
        BY <2>1
    <2>3. waiting' = [i \in 1..(Len(waiting) - 1) |-> IF p <= i THEN waiting[i + 1] ELSE waiting[i]]
        BY <2>2 DEF Idb!Without
    <2>4. waiting' \in Seq(Callers) /\ Len(waiting') = Len(waiting) - 1 /\ DOMAIN waiting' = 1..(Len(waiting) - 1)
        BY <2>3
    <2>5. \A i, j \in DOMAIN waiting' : waiting'[i] = waiting'[j] => i = j
        BY <2>3, <2>4
    <2>6. ASSUME NEW d \in Callers PROVE Queued(d)' <=> Queued(d) /\ d # c
        <3>1. ASSUME NEW i \in DOMAIN waiting', waiting'[i] = d PROVE Queued(d) /\ d # c
            BY <3>1, <2>1, <2>3, <2>4
        <3>2. ASSUME NEW i \in DOMAIN waiting, waiting[i] = d, d # c PROVE Queued(d)'
            <4>1. CASE i < p
                <5>1. i \in DOMAIN waiting' /\ waiting'[i] = d
                    BY <4>1, <3>2, <2>1, <2>3, <2>4
                <5> QED
                    BY <5>1
            <4>2. CASE i > p
                <5>1. i - 1 \in DOMAIN waiting' /\ waiting'[i - 1] = d
                    BY <4>2, <3>2, <2>1, <2>3, <2>4
                <5> QED
                    BY <5>1
            <4> QED
                BY <4>1, <4>2, <3>2, <2>1
        <3> QED
            BY <3>1, <3>2
    <2>7. ASSUME NEW d \in Callers \ {c}, First(d) PROVE First(d)'
        <3>1. p > 1 /\ Len(waiting) > 1
            BY <2>1, <2>7
        <3>2. waiting'[1] = d
            BY <3>1, <2>3, <2>7
        <3>3. Len(waiting') > 0
            BY <3>1, <2>4
        <3> QED
            BY <3>2, <3>3, <2>4
    <2> QED
        BY <2>4, <2>5, <2>6, <2>7
<1> QED
    BY <1>1, <1>2

LEMMA AppendOne ==
    ASSUME NEW c \in Callers, QueueInv, ~Queued(c), waiting' = Append(waiting, c)
    PROVE  /\ waiting' \in Seq(Callers)
           /\ \A i, j \in DOMAIN waiting' : waiting'[i] = waiting'[j] => i = j
           /\ \A d \in Callers : Queued(d)' <=> Queued(d) \/ d = c
           /\ \A d \in Callers : First(d) => First(d)'
<1> USE DEF QueueInv, Queued, First
<1>1. /\ waiting' \in Seq(Callers) /\ Len(waiting') = Len(waiting) + 1
      /\ DOMAIN waiting' = 1..(Len(waiting) + 1) /\ waiting'[Len(waiting) + 1] = c
      /\ \A i \in DOMAIN waiting : waiting'[i] = waiting[i]
    OBVIOUS
<1>2. \A i, j \in DOMAIN waiting' : waiting'[i] = waiting'[j] => i = j
    BY <1>1
<1>3. \A d \in Callers : Queued(d)' <=> Queued(d) \/ d = c
    BY <1>1
<1>4. ASSUME NEW d \in Callers, First(d) PROVE First(d)'
    <2>1. 1 \in DOMAIN waiting
        BY <1>4
    <2> QED
        BY <2>1, <1>1, <1>4
<1> QED
    BY <1>1, <1>2, <1>3, <1>4

-----------------------------------------------------------------------------
(* A transaction: what it checked holds or fails for good, since no other   *)
(* writes before it ends; nothing is written before every check held.       *)

Fields(t) ==
    /\ t = [checks |-> t.checks, failed |-> t.failed, landed |-> t.landed,
            puts |-> t.puts, made |-> t.made]
    /\ t.failed \in BOOLEAN /\ t.landed \in BOOLEAN

IdbTyped ==
    /\ data = [k \in Keys |-> data[k]]
    /\ DOMAIN asks = Callers
    /\ DOMAIN tx = Callers /\ \A c \in Callers : Fields(tx[c])

Batch(c) ==
    LET op == asks[c].op
        t == tx[c]
    IN  /\ t.checks \subseteq DOMAIN op.expected
        /\ t.landed => t.checks = {} /\ ~t.failed /\ t.puts = DOMAIN op.puts \ DOMAIN t.made
        /\ ~t.landed => t.puts = {} /\ DOMAIN t.made = {} /\ (t.checks = {} => t.failed)
        /\ DOMAIN t.made \subseteq DOMAIN op.puts
        /\ \A k \in DOMAIN t.made : t.made[k] = op.puts[k]
        /\ t.failed => ~Store!Holds(op.expected, data)
        /\ ~t.failed => \A k \in DOMAIN op.expected \ t.checks : data[k] = op.expected[k]
        /\ ~First(c) => t.checks = DOMAIN op.expected /\ ~t.failed /\ DOMAIN t.made = {}

TxOK(c) == IF Store!Is(c, "batch") THEN Batch(c) ELSE tx[c] = Idb!NoTx

IdbInv == IdbTyped /\ QueueInv /\ \A c \in Callers : TxOK(c)

LEMMA IdbStart == Idb!IdbInit => Store!Init /\ IdbInv
<1> SUFFICES ASSUME Idb!IdbInit PROVE Store!Init /\ IdbInv
    OBVIOUS
<1> USE DEF Idb!IdbInit, Idb!Init, Idb!Idle, Store!Idle
<1>1. Store!Init
    BY DEF Store!Init
<1>2. IdbTyped
    BY DEF IdbTyped, Fields, Idb!NoTx
<1>3. QueueInv
    BY DEF QueueInv, Queued
<1>4. \A c \in Callers : ~Store!Is(c, "batch") /\ tx[c] = Idb!NoTx
    BY DEF Store!Is
<1> QED
    BY <1>1, <1>2, <1>3, <1>4 DEF IdbInv, TxOK

\* A batch runs when it is first; then nobody else's has begun.
LEMMA FirstRuns ==
    ASSUME IdbInv, NEW c \in Callers, Store!Is(c, "batch"), Idb!Runs(c)
    PROVE  First(c) /\ \A d \in Callers \ {c} : ~First(d)
<1>1. PICK i \in DOMAIN waiting : waiting[i] = c /\ \A j \in 1..(i - 1) : ~Idb!Writes(c)
    BY DEF Idb!Runs
<1>2. Idb!Writes(c)
    BY DEF Idb!Writes, Store!Is
<1>3. i \in Nat /\ i >= 1 /\ waiting # <<>>
    BY <1>1 DEF IdbInv, QueueInv
<1>4. i = 1
    <2>1. 1 \notin 1..(i - 1)
        BY <1>1, <1>2
    <2> QED
        BY <2>1, <1>3
<1> QED
    BY <1>1, <1>3, <1>4 DEF First

\* A step of one transaction leaves the others as they were.
LEMMA Others ==
    ASSUME IdbInv, NEW d \in Callers, asks'[d] = asks[d], tx'[d] = tx[d],
           First(d) => First(d)', data' = data \/ ~First(d)
    PROVE  TxOK(d)'
<1>1. TxOK(d)
    BY DEF IdbInv, TxOK
<1>2. CASE data' = data
    BY <1>1, <1>2 DEF TxOK, Batch, Store!Is, Store!Holds
<1>3. CASE ~First(d)
    BY <1>1, <1>3 DEF TxOK, Batch, Store!Is, Store!Holds
<1> QED
    BY <1>2, <1>3

\* A transaction ends: by committing, when it was first, or with nothing done.
LEMMA EndedOne ==
    ASSUME IdbInv, NEW c \in Callers, NEW end, Idb!Ended(c),
           asks' = [asks EXCEPT ![c] = end], end.state # "asked",
           data' = data \/ (First(c) /\ \E f : data' = Store!Over(f, data))
    PROVE  IdbInv'
<1>1. /\ waiting' \in Seq(Callers)
      /\ \A i, j \in DOMAIN waiting' : waiting'[i] = waiting'[j] => i = j
      /\ \A d \in Callers : Queued(d)' <=> Queued(d) /\ d # c
      /\ \A d \in Callers \ {c} : First(d) => First(d)'
    BY WithoutOne DEF Idb!Ended, IdbInv
<1>2. QueueInv'
    BY <1>1 DEF IdbInv, QueueInv, IdbTyped
<1>3. IdbTyped'
    <2>1. data' = [k \in Keys |-> data'[k]]
        <3>1. CASE data' = data
            BY <3>1 DEF IdbInv, IdbTyped
        <3>2. ASSUME NEW f, data' = Store!Over(f, data) PROVE data' = [k \in Keys |-> data'[k]]
            BY <3>2 DEF Store!Over
        <3> QED
            BY <3>1, <3>2
    <2> QED
        BY <2>1 DEF Idb!Ended, IdbInv, IdbTyped, Fields, Idb!NoTx
<1>4. TxOK(c)'
    BY DEF Idb!Ended, IdbInv, IdbTyped, TxOK, Store!Is
<1>5. ASSUME NEW d \in Callers \ {c} PROVE TxOK(d)'
    <2>1. data' = data \/ ~First(d)
        BY DEF First
    <2> QED
        BY <1>1, <2>1, Others DEF Idb!Ended, IdbInv, IdbTyped
<1> QED
    BY <1>2, <1>3, <1>4, <1>5 DEF IdbInv, TxOK

\* One served request of a transaction.
LEMMA Served ==
    ASSUME IdbInv, NEW c \in Callers, NEW t, UNCHANGED <<data, asks, waiting>>,
           tx' = [tx EXCEPT ![c] = t], Fields(t), TxOK(c)'
    PROVE  IdbInv'
<1>1. QueueInv'
    BY DEF IdbInv, QueueInv, Queued
<1>2. IdbTyped'
    BY DEF IdbInv, IdbTyped
<1>3. ASSUME NEW d \in Callers \ {c} PROVE TxOK(d)'
    BY Others DEF IdbInv, IdbTyped, First
<1> QED
    BY <1>1, <1>2, <1>3 DEF IdbInv, TxOK

LEMMA IdbStep ==
    ASSUME IdbInv, [Idb!IdbNext]_<<data, asks, waiting, tx>>
    PROVE  IdbInv' /\ [Store!Next]_<<data, asks>>
<1> USE DEF Store!Idle, Store!Asked, Store!Asking, Store!Done, Idb!Idle, Idb!Asked, Idb!Asking, Idb!Done
<1>1. ASSUME NEW c \in Callers, NEW op \in Ops, Idb!Begin(c, op)
      PROVE  IdbInv' /\ Store!Ask(c, op)
    <2>1. Store!Ask(c, op)
        BY <1>1 DEF Idb!Begin, Idb!Ask, Store!Ask
    <2>2. /\ ~Queued(c) /\ waiting' = Append(waiting, c) /\ tx[c] = Idb!NoTx
          /\ data' = data /\ asks' = [asks EXCEPT ![c] = Store!Asked(op)]
        <3>1. asks[c] = Store!Idle /\ asks[c].state # "asked"
            BY <2>1 DEF Store!Ask
        <3> QED
            BY <1>1, <2>1, <3>1 DEF Idb!Begin, Store!Ask, IdbInv, QueueInv, TxOK, Store!Is
    <2>3. /\ waiting' \in Seq(Callers)
          /\ \A i, j \in DOMAIN waiting' : waiting'[i] = waiting'[j] => i = j
          /\ \A d \in Callers : Queued(d)' <=> Queued(d) \/ d = c
          /\ \A d \in Callers : First(d) => First(d)'
        BY <2>2, AppendOne DEF IdbInv
    <2>4. QueueInv'
        BY <2>2, <2>3 DEF IdbInv, QueueInv, IdbTyped
    <2>5. IdbTyped' /\ TxOK(c)'
        <3>1. CASE op.kind # "batch"
            <4>1. tx' = [tx EXCEPT ![c] = Idb!NoTx]
                BY <1>1, <3>1 DEF Idb!Begin
            <4> QED
                BY <2>2, <3>1, <4>1 DEF IdbInv, IdbTyped, Fields, Idb!NoTx, TxOK, Store!Is
        <3>2. CASE op.kind = "batch"
            <4>1. tx' = [tx EXCEPT ![c] = Idb!Requests(op)]
                BY <1>1, <3>2 DEF Idb!Begin
            <4>2. Fields(Idb!Requests(op))
                BY DEF Fields, Idb!Requests
            <4>3. tx'[c] = Idb!Requests(op) /\ IdbTyped'
                BY <2>2, <4>1, <4>2 DEF IdbInv, IdbTyped
            <4>4. asks'[c].op = op
                BY <2>2 DEF IdbInv, IdbTyped
            <4>5. Batch(c)'
                <5>1. CASE DOMAIN op.expected = {}
                    <6>1. tx'[c] = [checks |-> {}, failed |-> FALSE, landed |-> TRUE,
                                    puts |-> DOMAIN op.puts, made |-> <<>>]
                        BY <4>3, <5>1 DEF Idb!Requests
                    <6> QED
                        BY <6>1, <5>1, <4>4 DEF Batch, Store!Holds
                <5>2. CASE DOMAIN op.expected # {}
                    <6>1. tx'[c] = [checks |-> DOMAIN op.expected, failed |-> FALSE, landed |-> FALSE,
                                    puts |-> {}, made |-> <<>>]
                        BY <4>3, <5>2 DEF Idb!Requests
                    <6> QED
                        BY <6>1, <5>2, <4>4 DEF Batch, Store!Holds
                <5> QED
                    BY <5>1, <5>2
            <4>6. Store!Is(c, "batch")'
                BY <2>2, <3>2 DEF IdbInv, IdbTyped, Store!Is
            <4> QED
                BY <4>3, <4>5, <4>6 DEF TxOK
        <3> QED
            BY <3>1, <3>2
    <2>6. \A d \in Callers \ {c} : TxOK(d)'
        BY <1>1, <2>2, <2>3, Others DEF Idb!Begin, IdbInv, IdbTyped
    <2> QED
        BY <2>1, <2>4, <2>5, <2>6 DEF IdbInv, TxOK
<1>2. ASSUME NEW c \in Callers, NEW k \in Keys, Idb!Checked(c, k)
      PROVE  IdbInv' /\ UNCHANGED <<data, asks>>
    <2> DEFINE t == tx[c]
               left == t.checks \ {k}
               failed == t.failed \/ data[k] # asks[c].op.expected[k]
               apply == left = {} /\ ~failed
               u == [checks |-> left, failed |-> failed, landed |-> apply,
                     puts |-> IF apply THEN DOMAIN asks[c].op.puts ELSE {}, made |-> t.made]
    <2>1. Store!Is(c, "batch") /\ Batch(c) /\ Fields(t)
        BY <1>2 DEF Idb!Checked, IdbInv, IdbTyped, Idb!NoTx, TxOK
    <2>2. First(c)
        BY <1>2, <2>1, FirstRuns DEF Idb!Checked
    <2>3. ~t.landed /\ k \in DOMAIN asks[c].op.expected
        BY <1>2, <2>1 DEF Batch, Idb!Checked
    <2>4. tx' = [tx EXCEPT ![c] = u] /\ UNCHANGED <<data, asks, waiting>>
        BY <1>2 DEF Idb!Checked
    <2>5. Fields(u)
        BY DEF Fields
    <2>6. tx'[c] = u
        BY <2>4 DEF IdbInv, IdbTyped
    <2>7. Batch(c)'
        <3>1. /\ left \subseteq DOMAIN asks[c].op.expected
              /\ failed => ~Store!Holds(asks[c].op.expected, data)
              /\ ~failed => \A j \in DOMAIN asks[c].op.expected \ left : data[j] = asks[c].op.expected[j]
            BY <2>1, <2>3 DEF Batch, Store!Holds
        <3>2. First(c)' /\ DOMAIN t.made = {}
            BY <2>1, <2>2, <2>3, <2>4 DEF Batch, First
        <3>3. /\ asks'[c].op = asks[c].op /\ data' = data
              /\ tx'[c].checks = left /\ tx'[c].failed = failed /\ tx'[c].landed = apply
              /\ tx'[c].puts = (IF apply THEN DOMAIN asks[c].op.puts ELSE {}) /\ tx'[c].made = t.made
            BY <2>4, <2>6
        <3> HIDE DEF t, left, failed, u
        <3>4. CASE apply
            <4>1. left = {} /\ ~failed
                BY <3>4
            <4> HIDE DEF apply
            <4> QED
                BY <3>1, <3>2, <3>3, <3>4, <4>1 DEF Batch, Store!Holds
        <3>5. CASE ~apply
            <4>1. left = {} => failed
                BY <3>5
            <4> HIDE DEF apply
            <4> QED
                BY <3>1, <3>2, <3>3, <3>5, <4>1 DEF Batch, Store!Holds
        <3> QED
            BY <3>4, <3>5
    <2>8. TxOK(c)'
        BY <2>1, <2>4, <2>7 DEF TxOK, Store!Is
    <2> QED
        BY <2>4, <2>5, <2>8, Served
<1>3. ASSUME NEW c \in Callers, NEW k \in Keys, Idb!Put(c, k)
      PROVE  IdbInv' /\ UNCHANGED <<data, asks>>
    <2> DEFINE t == tx[c]
               made == Store!With(t.made, k, asks[c].op.puts[k])
               u == [checks |-> {}, failed |-> FALSE, landed |-> TRUE,
                     puts |-> t.puts \ {k}, made |-> made]
    <2>1. Store!Is(c, "batch") /\ Batch(c) /\ Fields(t)
        BY <1>3 DEF Idb!Put, IdbInv, IdbTyped, Idb!NoTx, TxOK
    <2>2. First(c)
        BY <1>3, <2>1, FirstRuns DEF Idb!Put
    <2>3. t.landed /\ k \in DOMAIN asks[c].op.puts
        BY <1>3, <2>1 DEF Batch, Idb!Put
    <2>4. tx' = [tx EXCEPT ![c] = u] /\ UNCHANGED <<data, asks, waiting>>
        BY <1>3 DEF Idb!Put, Idb!With, Store!With
    <2>5. Fields(u)
        BY <2>1 DEF Fields
    <2>6. tx'[c] = u
        BY <2>4 DEF IdbInv, IdbTyped
    <2>7. Batch(c)'
        BY <2>1, <2>2, <2>3, <2>4, <2>6 DEF Batch, Store!Holds, First, Store!With
    <2>8. TxOK(c)'
        BY <2>1, <2>4, <2>7 DEF TxOK, Store!Is
    <2> QED
        BY <2>4, <2>5, <2>8, Served
<1>4. ASSUME NEW c \in Callers, NEW k \in Keys, Idb!Read(c, k)
      PROVE  IdbInv' /\ Store!ReadKey(c, k)
    <2> DEFINE got == Store!With(asks[c].got, k, data[k])
    <2>1. Store!ReadKey(c, k) /\ UNCHANGED data
        BY <1>4 DEF Idb!Read, Idb!ReadKey, Store!ReadKey, Idb!Is, Store!Is, Idb!With, Store!With, Idb!Asking, Store!Asking
    <2>2. Store!Is(c, "read")
        BY <2>1 DEF Store!ReadKey
    <2>3. CASE DOMAIN got = asks[c].op.keys
        <3> DEFINE end == Store!Done([got |-> got])
        <3>1. asks' = [asks EXCEPT ![c] = end] /\ Idb!Ended(c)
            BY <1>4, <2>1, <2>3 DEF Idb!Read, Store!ReadKey, IdbInv, IdbTyped
        <3>2. end.state # "asked"
            OBVIOUS
        <3> HIDE DEF end
        <3> QED
            BY <2>1, <3>1, <3>2, EndedOne
    <2>4. CASE DOMAIN got # asks[c].op.keys
        <3>1. asks' = [asks EXCEPT ![c] = Store!Asking(asks[c].op, got)] /\ UNCHANGED <<waiting, tx>>
            BY <1>4, <2>1, <2>4 DEF Idb!Read, Store!ReadKey, IdbInv, IdbTyped, Store!Asking
        <3>2. QueueInv'
            BY <2>2, <3>1 DEF IdbInv, IdbTyped, QueueInv, Queued, Store!Is, Store!Asking
        <3>3. IdbTyped'
            BY <2>1, <3>1 DEF IdbInv, IdbTyped
        <3>4. \A d \in Callers \ {c} : TxOK(d)'
            BY <2>1, <3>1, Others DEF IdbInv, IdbTyped, First
        <3>5. TxOK(c)'
            BY <2>2, <3>1 DEF IdbInv, IdbTyped, TxOK, Store!Is, Store!Asking
        <3> QED
            BY <2>1, <3>2, <3>3, <3>4, <3>5 DEF IdbInv
    <2> QED
        BY <2>1, <2>3, <2>4
<1>5. ASSUME NEW c \in Callers, Idb!Complete(c)
      PROVE  IdbInv' /\ Store!Land(c)
    <2>1. /\ Store!Is(c, "batch") /\ Batch(c) /\ First(c) /\ Fields(tx[c])
          /\ tx[c].checks = {} /\ tx[c].puts = {}
          /\ data' = Store!Over(tx[c].made, data)
          /\ asks' = [asks EXCEPT ![c] = Store!Done([landed |-> tx[c].landed])]
          /\ Idb!Ended(c)
        BY <1>5, FirstRuns DEF Idb!Complete, Idb!Is, Store!Is, IdbInv, IdbTyped, TxOK, Idb!Over, Store!Over
    <2>2. IdbInv'
        <3> DEFINE end == Store!Done([landed |-> tx[c].landed])
        <3>1. end.state # "asked"
            OBVIOUS
        <3> HIDE DEF end
        <3> QED
            BY <2>1, <3>1, EndedOne DEF end
    <2>3. CASE tx[c].landed
        <3>1. tx[c].landed = TRUE /\ Store!Holds(asks[c].op.expected, data) = TRUE
            BY <2>1, <2>3 DEF Fields, Batch, Store!Holds
        <3>2. data' = Store!Over(asks[c].op.puts, data)
            BY <2>1, <2>3 DEF Batch, Store!Over
        <3> QED
            BY <2>1, <2>2, <3>1, <3>2 DEF Store!Land
    <2>4. CASE ~tx[c].landed
        <3>1. tx[c].landed = FALSE /\ Store!Holds(asks[c].op.expected, data) = FALSE
            BY <2>1, <2>4 DEF Fields, Batch, Store!Holds
        <3>2. data' = data
            BY <2>1, <2>4 DEF Batch, IdbInv, IdbTyped, Store!Over
        <3> QED
            BY <2>1, <2>2, <3>1, <3>2 DEF Store!Land
    <2> QED
        BY <2>3, <2>4
<1>6. ASSUME NEW c \in Callers, Idb!Abort(c)
      PROVE  IdbInv' /\ Store!Fail(c)
    <2>1. Store!Fail(c) /\ Idb!Ended(c)
        BY <1>6 DEF Idb!Abort, Idb!Fail, Store!Fail
    <2> DEFINE end == Store!Done([failed |-> TRUE])
    <2>2. end.state # "asked" /\ asks' = [asks EXCEPT ![c] = end] /\ data' = data
        BY <2>1 DEF Store!Fail
    <2> HIDE DEF end
    <2> QED
        BY <2>1, <2>2, EndedOne
<1>7. ASSUME NEW c \in Callers, Idb!Gone(c)
      PROVE  IdbInv' /\ Store!Leave(c)
    <2>1. Store!Leave(c) /\ Idb!Ended(c)
        BY <1>7 DEF Idb!Gone, Idb!Leave, Store!Leave
    <2> DEFINE end == Store!Idle
    <2>2. end.state # "asked" /\ asks' = [asks EXCEPT ![c] = end] /\ data' = data
        BY <2>1 DEF Store!Leave
    <2> HIDE DEF end
    <2> QED
        BY <2>1, <2>2, EndedOne
<1>8. ASSUME NEW c \in Callers, Idb!GoneCommitted(c)
      PROVE  IdbInv' /\ Store!LandUnheard(c)
    <2>1. /\ Store!Is(c, "batch") /\ Batch(c) /\ First(c)
          /\ tx[c].landed /\ tx[c].puts = {}
          /\ data' = Store!Over(tx[c].made, data)
          /\ asks' = [asks EXCEPT ![c] = Store!Idle]
          /\ Idb!Ended(c)
        BY <1>8, FirstRuns DEF Idb!GoneCommitted, Idb!Is, Store!Is, IdbInv, TxOK, Idb!Over, Store!Over
    <2>2. IdbInv'
        <3> DEFINE end == Store!Idle
        <3>1. end.state # "asked"
            OBVIOUS
        <3> HIDE DEF end
        <3> QED
            BY <2>1, <3>1, EndedOne DEF end
    <2>3. Store!Holds(asks[c].op.expected, data) /\ data' = Store!Over(asks[c].op.puts, data)
        BY <2>1 DEF Batch, Store!Holds, Store!Over
    <2> QED
        BY <2>1, <2>2, <2>3 DEF Store!LandUnheard
<1>9. ASSUME UNCHANGED <<data, asks, waiting, tx>>
      PROVE  IdbInv' /\ UNCHANGED <<data, asks>>
    <2>1. QueueInv' /\ IdbTyped'
        BY <1>9 DEF IdbInv, QueueInv, Queued, IdbTyped
    <2>2. \A d \in Callers : TxOK(d)'
        BY <1>9, Others DEF First
    <2> QED
        BY <1>9, <2>1, <2>2 DEF IdbInv
<1> QED
    BY <1>1, <1>2, <1>3, <1>4, <1>5, <1>6, <1>7, <1>8, <1>9 DEF Idb!IdbNext, Store!Next

\* An IndexedDB store is the store kvgit asks for (idb.ts): a batch's checks
\* and writes, served one request at a time, land whole where all the checks
\* hold, whichever transactions wait behind it, abort or are cut short.
THEOREM IdbIsStore == Idb!IdbSpec => Store!Spec
<1>1. Idb!IdbInit => Store!Init /\ IdbInv
    BY IdbStart
<1>2. IdbInv /\ [Idb!IdbNext]_<<data, asks, waiting, tx>> => IdbInv' /\ [Store!Next]_<<data, asks>>
    BY IdbStep
<1> QED
    BY <1>1, <1>2, PTL DEF Idb!IdbSpec, Idb!vars, Store!Spec
=============================================================================
