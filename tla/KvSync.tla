------------------------------- MODULE KvSync -------------------------------
(* Syncing one branch with remotes (kvgit-ts/src/sync/: sync.ts, apply.ts,  *)
(* remote.ts, walk.ts).                                                     *)
(*                                                                          *)
(* A store keeps the branch, the commits, and what the branch last shared   *)
(* with each remote; a remote keeps commits and a branch of its own. Several*)
(* tabs work on one store at once, and every step between two awaits of a   *)
(* call is a step here. Refs move by compare-and-swap only along their own  *)
(* ancestry, and what someone deleted elsewhere is not to come back unasked.*)
(*                                                                          *)
(* A commit is its number. A transfer's commits are marked in flight until  *)
(* its call ends, so a sweep spares them, and a sweep is one step for what  *)
(* lands: no batch does while one runs. That is KvGC's.                     *)
EXTENDS Naturals, Sequences, FiniteSets, FiniteSetsExt

CONSTANTS
    Stores, Remotes,
    Tabs,       \* the tabs, and the store each works on
    Home,
    None,
    Kinds,      \* the calls an instance makes
    MaxCommits, MaxCalls

ASSUME SyncAssumption ==
    None \notin Nat /\ None \notin Remotes /\ Stores \cap Remotes = {} /\ Home \in [Tabs -> Stores]

VARIABLES
    anc,        \* every commit made: its ancestors and itself
    has, head,  \* the commits a store or remote holds, and its branch
    record,     \* what a store last shared with a remote
    shared,     \* the same, kept from before there were records per remote
    mark,       \* the stores whose branch is marked as syncing
    call,       \* what each tab is doing
    calls,
    ever,       \* the commits each branch has been at
    bare,       \* the commits held, or landing, whose parents a sweep took
    forgot,     \* the tabs whose call began before its remote was last forgotten
    stripped    \* the stores a forgetting left unmarked while they sync

vars == <<anc, has, head, record, shared, mark, call, calls, ever, bare, forgot, stripped>>
refs == <<has, head, ever, bare>>
books == <<record, shared, mark, forgot, stripped>>

Nodes == Stores \cup Remotes
Anc(c) == IF c = None THEN {} ELSE anc[c]

(* The commits right before one: of its history, those none other follows. *)
Parents(c) == LET before == Anc(c) \ {c} IN {p \in before : \A q \in before \ {p} : p \notin Anc(q)}

(* What a walk from some commits reaches: it ends at one that isn't there. *)
Walked(n, from, set) == from \cap has[n] \subseteq set /\ \A c \in set : Parents(c) \cap has[n] \subseteq set
Walk(n, from) == {c \in has[n] : \A set \in SUBSET has[n] : Walked(n, from, set) => c \in set}

IsAncestor(n, a, b) == a \in Walk(n, {b})

New(op, step, r) ==
    [op |-> op, step |-> step, r |-> r, there |-> None, here |-> None, shares |-> None,
     tries |-> 0, have |-> {}, rest |-> {}, next |-> None, fly |-> {}, knew |-> "no"]
Idle == New("idle", "none", None)

(* A branch that never synced; one in step with every remote; and one kept  *)
(* in the store's older form, which synced with one of them.                *)
Init ==
    /\ anc = <<{1}>> /\ calls = 0 /\ bare = {} /\ forgot = {} /\ stripped = {}
    /\ call = [t \in Tabs |-> Idle]
    /\ \/ /\ \E s \in Stores :
               /\ head = [n \in Nodes |-> IF n = s THEN 1 ELSE None]
               /\ has = [n \in Nodes |-> IF n = s THEN {1} ELSE {}]
               /\ ever = has
          /\ record = [s \in Stores |-> [r \in Remotes |-> None]]
          /\ shared = [s \in Stores |-> None] /\ mark = {}
       \/ /\ head = [n \in Nodes |-> 1] /\ has = [n \in Nodes |-> {1}]
          /\ ever = has
          /\ \/ /\ record = [s \in Stores |-> [r \in Remotes |-> 1]]
                /\ shared = [s \in Stores |-> None] /\ mark = Stores
             \/ /\ record = [s \in Stores |-> [r \in Remotes |-> None]]
                /\ shared = [s \in Stores |-> 1] /\ mark = {}

At(t, op, step) == call[t].op = op /\ call[t].step = step
Set(t, c) == call' = [call EXCEPT ![t] = c]
Go(t, step) == Set(t, [call[t] EXCEPT !.step = step])
End(t) == Set(t, Idle)

(* A pull that went well is, within a sync, followed by the push. *)
Pulling(t) == call[t].op \in {"pull", "sync"}
EndPull(t) ==
    IF call[t].op = "sync" THEN Set(t, New("push", "exists", call[t].r))
    ELSE End(t)

---------------------------------------------------------------------------
(* The store between syncs *)

(* A commit on the branch, or a merge of it with any commit held. *)
Commit(s) ==
    /\ "commit" \in Kinds /\ Len(anc) < MaxCommits /\ head[s] # None
    /\ \E other \in has[s] :
         anc' = Append(anc, Anc(head[s]) \cup Anc(other) \cup {Len(anc) + 1})
    /\ head' = [head EXCEPT ![s] = Len(anc')]
    /\ has' = [has EXCEPT ![s] = @ \cup {Len(anc')}]
    /\ ever' = [ever EXCEPT ![s] = @ \cup {Len(anc')}]
    /\ UNCHANGED <<call, calls, bare, books>>

DeleteBranch(s) ==
    /\ "drop" \in Kinds /\ head[s] # None
    /\ head' = [head EXCEPT ![s] = None]
    /\ UNCHANGED <<anc, has, call, calls, ever, bare, books>>

(* A call brings commits to its own store, or to a remote. *)
To(t) == IF call[t].op = "push" THEN call[t].r ELSE Home[t]
From(t) == IF call[t].op = "push" THEN Home[t] ELSE call[t].r

Flying(n) == UNION {call[t].fly : t \in {u \in Tabs : To(u) = n}}

\* Mutant: a sweep keeps what heads and markers name, and not its history.
ReachableTips(n) == (Flying(n) \cup {head[n]}) \cap has[n]

Reachable(n) == Walk(n, Flying(n) \cup {head[n]})

(* A sweep takes what neither heads nor markers reach, but for what is too  *)
(* young: such a commit stays, without the parents that are not.            *)
Sweep(n) ==
    /\ "sweep" \in Kinds
    /\ \E young \in SUBSET (has[n] \ Reachable(n)) :
         LET taken == has[n] \ (Reachable(n) \cup young)
             landing == {call[t].next : t \in {u \in Tabs : To(u) = n /\ call[u].step = "land"}}
         IN  /\ taken # {}
             /\ has' = [has EXCEPT ![n] = @ \ taken]
             /\ bare' = bare \cup {<<n, c>> : c \in {d \in young \cup landing : Parents(d) \cap taken # {}}}
    /\ UNCHANGED <<anc, head, call, calls, ever, books>>

(* A tab that dies, or a call that throws. *)
Crash(t) ==
    /\ "crash" \in Kinds /\ call[t] # Idle
    /\ End(t) /\ UNCHANGED <<anc, calls, refs, books>>

---------------------------------------------------------------------------
(* Transfers: the sender's commits that `have` does not reach, parents first. *)
(* One the receiver has is marked in flight; any other is landed, marked,     *)
(* once its parents were found there. Another's sweep may fall before it does.*)

Delta(from, want, have) == Walk(from, {want}) \ Walk(from, have)

(* What is to be sent is all there: its parents are, or are nothing new.      *)
Sendable(from, want, have) ==
    /\ want \in has[from]
    /\ \A c \in Delta(from, want, have) : \A p \in Parents(c) \ has[from] :
          \E d \in Walk(from, have) : p \in Parents(d)

Wanted(t) == IF call[t].op = "push" THEN call[t].here ELSE call[t].there

Fetch(t) ==
    /\ call[t].step = "fetch"
    /\ IF Sendable(From(t), Wanted(t), call[t].have)
       THEN Set(t, [call[t] EXCEPT !.rest = Delta(From(t), Wanted(t), call[t].have),
                                   !.have = {}, !.step = "take"])
       ELSE End(t)
    /\ UNCHANGED <<anc, calls, refs, books>>

(* A commit is read from the sender with its first parent's keys. *)
Take(t) ==
    /\ call[t].step = "take"
    /\ \E c \in call[t].rest :
         /\ Anc(c) \cap call[t].rest = {c}
         /\ IF c \notin has[From(t)] \/ (Parents(c) # {} /\ Parents(c) \cap has[From(t)] = {})
            THEN End(t)
            ELSE IF c \in has[To(t)]
            THEN Set(t, [call[t] EXCEPT !.rest = @ \ {c}, !.fly = @ \cup {c}])
            ELSE Set(t, [call[t] EXCEPT !.rest = @ \ {c}, !.next = c, !.step = "check"])
    /\ UNCHANGED <<anc, calls, refs, books>>

ParentsThere(n, c) == Parents(c) \subseteq has[n]

CheckParents(t) ==
    /\ call[t].step = "check"
    /\ IF ParentsThere(To(t), call[t].next)
       THEN Go(t, "land") /\ bare' = bare \ {<<To(t), call[t].next>>}
       ELSE End(t) /\ UNCHANGED bare
    /\ UNCHANGED <<anc, has, head, calls, ever, books>>

LandCommit(t) ==
    /\ call[t].step = "land"
    /\ has' = [has EXCEPT ![To(t)] = @ \cup {call[t].next}]
    /\ Set(t, [call[t] EXCEPT !.fly = @ \cup {call[t].next}, !.next = None, !.step = "take"])
    /\ UNCHANGED <<anc, head, calls, ever, bare, books>>

Moved(n, new) ==
    /\ head' = [head EXCEPT ![n] = new]
    /\ ever' = [ever EXCEPT ![n] = @ \cup {new}]

(* A publish and a deletion expect the branch where it was seen. *)
There(n, expected) == head[n] = expected

---------------------------------------------------------------------------
(* The records of what was shared *)

(* A remote's record retires the shared one. *)
SetSyncHead(t, c) ==
    /\ record' = [record EXCEPT ![Home[t]][call[t].r] = c]
    /\ shared' = [shared EXCEPT ![Home[t]] = None]
    /\ mark' = mark \cup {Home[t]}
    /\ stripped' = stripped \ {Home[t]}
    /\ UNCHANGED forgot

Claimed(t, c) == Set(t, [call[t] EXCEPT !.shares = c,
                           !.step = IF call[t].op = "push" THEN "look"
                                    ELSE IF call[t].op = "delete" THEN "delete" ELSE "judge"])

ClaimOwn(t) ==
    /\ call[t].step = "claim"
    /\ IF record[Home[t]][call[t].r] # None THEN Claimed(t, record[Home[t]][call[t].r])
       ELSE Go(t, "shared")
    /\ UNCHANGED <<anc, calls, refs, books>>

(* The shared record becomes the remote's own, if neither changed. *)
ClaimShared(t) ==
    /\ call[t].step = "shared"
    /\ LET s == Home[t]
       IN  IF shared[s] = None THEN Claimed(t, None) /\ UNCHANGED books
           ELSE IF record[s][call[t].r] # None THEN Go(t, "claim") /\ UNCHANGED books
           ELSE /\ Claimed(t, shared[s])
                /\ record' = [record EXCEPT ![s][call[t].r] = shared[s]]
                /\ shared' = [shared EXCEPT ![s] = None]
                /\ UNCHANGED <<mark, forgot, stripped>>
    /\ UNCHANGED <<anc, calls, refs>>

(* Every call but a deletion of the local branch names a remote. *)
Begin(t) ==
    /\ call[t] = Idle /\ calls < MaxCalls
    /\ calls' = calls + 1
    /\ forgot' = forgot \ {t}
    /\ \E r \in Remotes :
         \/ \E op \in {"pull", "sync"} \cap Kinds :
              Set(t, New(op, "remote", r))
         \/ "push" \in Kinds /\ Set(t, New("push", "exists", r))
         \/ "delete" \in Kinds /\ Set(t, New("delete", "claim", r))
         \/ "forget" \in Kinds /\ Set(t, New("forget", "own", r))
         \/ "unless" \in Kinds /\ Set(t, New("unless", "head", r))
    /\ UNCHANGED <<anc, refs, record, shared, mark, stripped>>

---------------------------------------------------------------------------
(* Pull *)

PullLook(t) ==
    /\ Pulling(t) /\ call[t].step = "remote"
    /\ Set(t, [call[t] EXCEPT !.there = head[call[t].r], !.step = "local"])
    /\ UNCHANGED <<anc, calls, refs, books>>

PullLocal(t) ==
    /\ Pulling(t) /\ call[t].step = "local"
    /\ Set(t, [call[t] EXCEPT !.here = head[Home[t]], !.step = "claim"])
    /\ UNCHANGED <<anc, calls, refs, books>>

(* Up to date: the remote's head is shared, and is recorded if it was not. *)
PullEven(t) ==
    /\ Pulling(t) /\ call[t].step = "judge"
    /\ LET rh == call[t].there
           lh == call[t].here
       IN  /\ rh # None /\ (rh = lh \/ (lh # None /\ IsAncestor(Home[t], rh, lh)))
           /\ IF call[t].shares # rh THEN SetSyncHead(t, rh) ELSE UNCHANGED books
    /\ EndPull(t)
    /\ UNCHANGED <<anc, calls, refs>>

(* Nothing there: never was, or someone deleted it. *)
PullNothing(t) ==
    /\ Pulling(t) /\ call[t].step = "judge" /\ call[t].there = None
    /\ IF call[t].shares = None THEN EndPull(t) ELSE End(t)
    /\ UNCHANGED <<anc, calls, refs, books>>

(* What this store claims to have: its head, and what it last shared if that *)
(* is still there.                                                           *)
Have(t) == {call[t].here} \cup ({call[t].shares} \cap has[Home[t]])

PullFetch(t) ==
    /\ Pulling(t) /\ call[t].step = "judge"
    /\ LET rh == call[t].there
           lh == call[t].here
       IN  rh # None /\ rh # lh /\ ~(lh # None /\ IsAncestor(Home[t], rh, lh))
    /\ Set(t, [call[t] EXCEPT !.have = Have(t) \ {None}, !.step = "fetch"])
    /\ UNCHANGED <<anc, calls, refs, books>>

(* Diverged histories are left alone, and so is a branch whose new commit    *)
(* did not come.                                                             *)
Follows(t) == call[t].here = None \/ IsAncestor(Home[t], call[t].here, call[t].there)

Arrived(t) ==
    /\ call[t].step = "take" /\ call[t].rest = {}
    /\ IF Wanted(t) \in has[To(t)] /\ (Pulling(t) => Follows(t)) THEN Go(t, "move") ELSE End(t)
    /\ UNCHANGED <<anc, calls, refs, books>>

(* The branch moves if it is where it was seen and its commit is there; the  *)
(* markers go with that. A pull that lost the race ends.                     *)
PullMove(t) ==
    /\ Pulling(t) /\ call[t].step = "move"
    /\ IF call[t].there \in has[Home[t]] /\ There(Home[t], call[t].here)
       THEN /\ Moved(Home[t], call[t].there)
            /\ Set(t, [call[t] EXCEPT !.fly = {}, !.step = "record"])
       ELSE End(t) /\ UNCHANGED <<head, ever>>
    /\ UNCHANGED <<anc, has, calls, bare, books>>

PullRecord(t) ==
    /\ Pulling(t) /\ call[t].step = "record"
    /\ SetSyncHead(t, call[t].there) /\ EndPull(t)
    /\ UNCHANGED <<anc, calls, refs>>

---------------------------------------------------------------------------
(* Push *)

(* What a store knows of having synced with a remote, when a push begins. *)
Knows(s, r) == IF record[s][r] # None THEN "own" ELSE IF shared[s] # None THEN "old" ELSE "no"

PushExists(t) ==
    /\ At(t, "push", "exists")
    /\ IF head[Home[t]] = None THEN End(t)
       ELSE Set(t, [call[t] EXCEPT !.step = "mark", !.knew = Knows(Home[t], call[t].r)])
    /\ UNCHANGED <<anc, calls, refs, books>>

PushMark(t) ==
    /\ At(t, "push", "mark")
    /\ mark' = mark \cup {Home[t]}
    /\ Go(t, "read")
    /\ stripped' = stripped \ {Home[t]}
    /\ UNCHANGED <<anc, calls, refs, record, shared, forgot>>

PushRead(t) ==
    /\ At(t, "push", "read")
    /\ IF head[Home[t]] = None THEN End(t)
       ELSE Set(t, [call[t] EXCEPT !.here = head[Home[t]], !.step = "claim"])
    /\ UNCHANGED <<anc, calls, refs, books>>

PushLook(t) ==
    /\ At(t, "push", "look")
    /\ IF call[t].tries = 2 THEN End(t)
       ELSE Set(t, [call[t] EXCEPT !.there = head[call[t].r], !.tries = @ + 1, !.step = "judge"])
    /\ UNCHANGED <<anc, calls, refs, books>>

PushJudge(t) ==
    /\ At(t, "push", "judge")
    /\ LET rh == call[t].there
           lh == call[t].here
       IN  IF rh = lh
           THEN End(t) /\ IF call[t].shares # lh THEN SetSyncHead(t, lh) ELSE UNCHANGED books
           ELSE /\ IF IF rh = None THEN call[t].shares # None ELSE ~IsAncestor(Home[t], rh, lh)
                   THEN End(t)
                   ELSE Set(t, [call[t] EXCEPT !.have = {rh} \ {None}, !.step = "fetch"])
                /\ UNCHANGED books
    /\ UNCHANGED <<anc, calls, refs>>

(* The remote's branch moves if nobody moved it; if someone did, the push    *)
(* looks once more.                                                          *)
PushMove(t) ==
    /\ At(t, "push", "move")
    /\ LET r == call[t].r
       IN  IF call[t].here \notin has[r] THEN End(t) /\ UNCHANGED <<head, ever>>
           ELSE IF There(r, call[t].there)
           THEN Moved(r, call[t].here) /\ Set(t, [call[t] EXCEPT !.fly = {}, !.step = "record"])
           ELSE /\ Set(t, [call[t] EXCEPT !.fly = {}, !.step = "look"])
                /\ UNCHANGED <<head, ever>>
    /\ UNCHANGED <<anc, has, calls, bare, books>>

PushRecord(t) ==
    /\ At(t, "push", "record")
    /\ SetSyncHead(t, call[t].here) /\ End(t)
    /\ UNCHANGED <<anc, calls, refs>>

---------------------------------------------------------------------------
(* Deleting the remote's branch, and forgetting it *)

(* It goes if it is where this store last synced it. *)
DeleteRemote(t) ==
    /\ At(t, "delete", "delete")
    /\ LET r == call[t].r
       IN  IF call[t].shares = None THEN End(t) /\ UNCHANGED head
           ELSE IF There(r, call[t].shares) THEN head' = [head EXCEPT ![r] = None] /\ Go(t, "own")
           ELSE Go(t, "again") /\ UNCHANGED head
    /\ UNCHANGED <<anc, has, calls, ever, bare, books>>

DeleteAgain(t) ==
    /\ At(t, "delete", "again")
    /\ LET rh == head[call[t].r]
       IN  IF rh = None THEN Go(t, "own")
           ELSE IF rh = call[t].shares /\ call[t].tries = 0
           THEN Set(t, [call[t] EXCEPT !.step = "delete", !.tries = 1])
           ELSE End(t)
    /\ UNCHANGED <<anc, calls, refs, books>>

ForgetOwn(t) ==
    /\ call[t].step = "own"
    /\ record' = [record EXCEPT ![Home[t]][call[t].r] = None]
    /\ forgot' = forgot \cup {u \in Tabs : Home[u] = Home[t] /\ call[u].r = call[t].r}
    /\ Go(t, "old")
    /\ UNCHANGED <<anc, calls, refs, shared, mark, stripped>>

ForgetShared(t) ==
    /\ call[t].step = "old"
    /\ shared' = [shared EXCEPT ![Home[t]] = None]
    /\ Go(t, "last")
    /\ UNCHANGED <<anc, calls, refs, record, mark, forgot, stripped>>

ForgetLast(t) ==
    /\ call[t].step = "last"
    /\ IF \A r \in Remotes : record[Home[t]][r] = None THEN Go(t, "unmark") ELSE End(t)
    /\ UNCHANGED <<anc, calls, refs, books>>

(* The mark goes, whatever began to sync since no records were found. *)
PushBegun(t) == call[t].op = "push" /\ call[t].step \notin {"exists", "mark"}
Syncs(s) ==
    \/ \E r \in Remotes : record[s][r] # None
    \/ \E t \in Tabs : Home[t] = s /\ PushBegun(t)

Unmark(t) ==
    /\ call[t].step = "unmark"
    /\ mark' = mark \ {Home[t]}
    /\ stripped' = IF Syncs(Home[t]) THEN stripped \cup {Home[t]} ELSE stripped
    /\ End(t)
    /\ UNCHANGED <<anc, calls, refs, record, shared, forgot>>

---------------------------------------------------------------------------
(* Deleting the local branch unless it syncs: three reads and a conditional *)
(* removal.                                                                 *)

UnlessHead(t) ==
    /\ At(t, "unless", "head")
    /\ IF head[Home[t]] = None THEN End(t)
       ELSE Set(t, [call[t] EXCEPT !.here = head[Home[t]], !.step = "marked"])
    /\ UNCHANGED <<anc, calls, refs, books>>

UnlessMarked(t) ==
    /\ At(t, "unless", "marked")
    /\ IF Home[t] \in mark THEN End(t) ELSE Go(t, "sharing")
    /\ UNCHANGED <<anc, calls, refs, books>>

UnlessShared(t) ==
    /\ At(t, "unless", "sharing")
    /\ IF shared[Home[t]] # None THEN End(t) ELSE Go(t, "records")
    /\ UNCHANGED <<anc, calls, refs, books>>

UnlessRecords(t) ==
    /\ At(t, "unless", "records")
    /\ IF \E r \in Remotes : record[Home[t]][r] # None THEN End(t) ELSE Go(t, "remove")
    /\ UNCHANGED <<anc, calls, refs, books>>

\* Mutant: the removal expects the head alone.
UnlessRemoveBlind(t) ==
    /\ At(t, "unless", "remove")
    /\ IF head[Home[t]] = call[t].here
       THEN head' = [head EXCEPT ![Home[t]] = None] /\ End(t)
       ELSE Go(t, "head") /\ UNCHANGED head
    /\ UNCHANGED <<anc, has, calls, ever, bare, books>>

UnlessRemove(t) ==
    /\ At(t, "unless", "remove")
    /\ LET s == Home[t]
       IN  IF There(s, call[t].here) /\ s \notin mark /\ shared[s] = None
           THEN head' = [head EXCEPT ![s] = None] /\ End(t)
           ELSE Go(t, "head") /\ UNCHANGED head
    /\ UNCHANGED <<anc, has, calls, ever, bare, books>>

---------------------------------------------------------------------------
Next ==
    \/ \E s \in Stores : Commit(s) \/ DeleteBranch(s)
    \/ \E n \in Nodes : Sweep(n)
    \/ \E t \in Tabs :
         \/ Crash(t) \/ Begin(t) \/ ClaimOwn(t) \/ ClaimShared(t)
         \/ PullLook(t) \/ PullLocal(t) \/ PullEven(t) \/ PullNothing(t)
         \/ PullFetch(t) \/ Fetch(t) \/ Take(t) \/ CheckParents(t) \/ LandCommit(t)
         \/ Arrived(t) \/ PullMove(t) \/ PullRecord(t)
         \/ PushExists(t) \/ PushMark(t) \/ PushRead(t) \/ PushLook(t) \/ PushJudge(t)
         \/ PushMove(t) \/ PushRecord(t)
         \/ DeleteRemote(t) \/ DeleteAgain(t) \/ ForgetOwn(t) \/ ForgetShared(t)
         \/ ForgetLast(t) \/ Unmark(t)
         \/ UnlessHead(t) \/ UnlessMarked(t) \/ UnlessShared(t) \/ UnlessRecords(t)
         \/ UnlessRemove(t)

Spec == Init /\ [][Next]_vars

---------------------------------------------------------------------------
Commits == 1 .. Len(anc)

Steps == {"none", "remote", "local", "claim", "shared", "judge", "fetch", "take", "check", "land",
          "move", "record", "exists", "mark", "read", "look", "delete", "again", "own", "old",
          "last", "unmark", "head", "marked", "sharing", "records", "remove"}

Call == [op : {"idle", "pull", "push", "sync", "delete", "forget", "unless"}, step : Steps,
         r : Remotes \cup {None}, there : Commits \cup {None}, here : Commits \cup {None},
         shares : Commits \cup {None}, tries : 0 .. 2, have : SUBSET Commits, rest : SUBSET Commits,
         next : Commits \cup {None}, fly : SUBSET Commits, knew : {"no", "own", "old"}]

TypeOK ==
    /\ anc \in Seq(SUBSET Nat) /\ \A c \in Commits : c \in anc[c] /\ anc[c] \subseteq 1 .. c
    /\ has \in [Nodes -> SUBSET Commits] /\ head \in [Nodes -> Commits \cup {None}]
    /\ record \in [Stores -> [Remotes -> Commits \cup {None}]]
    /\ shared \in [Stores -> Commits \cup {None}] /\ mark \subseteq Stores
    /\ call \in [Tabs -> Call] /\ calls \in Nat
    /\ ever \in [Nodes -> SUBSET Commits] /\ bare \subseteq Nodes \X Commits
    /\ forgot \subseteq Tabs /\ stripped \subseteq Stores

(* A ref names a commit that is there, and a commit that is there has its    *)
(* parents there, so that what a ref names is there with its whole history:  *)
(* but for a commit that a sweep spared for its age and whose parents it     *)
(* took, and for one whose parents a sweep took after it was checked for     *)
(* them and before it landed.                                                *)
HistoryWhole ==
    \A n \in Nodes :
        /\ \A c \in has[n] : Parents(c) \subseteq has[n] \/ <<n, c>> \in bare
        /\ head[n] # None => head[n] \in has[n]

(* Without the exception, of what refs name alone: it does not hold. *)
BranchesWhole == \A n \in Nodes : Anc(head[n]) \subseteq has[n]

(* What is recorded as shared with a remote, its branch has been at, and it *)
(* is in the history of one that this store's branch has been at.           *)
RecordsShared ==
    \A s \in Stores, r \in Remotes :
        record[s][r] # None => /\ record[s][r] \in ever[r]
                               /\ \E c \in ever[s] : record[s][r] \in Anc(c)

(* Refs move forward alone: no sync takes a commit out of a branch.         *)
RefsForward ==
    [][\A n \in Nodes : head[n] # None /\ head'[n] # None => head[n] \in anc'[head'[n]]]_vars

(* A remote's branch is deleted at a commit this store's branch has held.   *)
DeletesSeen ==
    [][\A r \in Remotes : head[r] # None /\ head'[r] = None =>
          \E t \in Tabs : /\ call[t].r = r /\ call[t].op = "delete" /\ call'[t] # call[t]
                          /\ \E c \in ever[Home[t]] : head[r] \in Anc(c)]_vars

(* A push that makes a branch on a remote, where its store knew of one      *)
(* there: someone deleted it, and nobody forgot the remote since.           *)
Revives(t, known) ==
    /\ At(t, "push", "move") /\ call'[t] # call[t] /\ call[t].knew \in known /\ t \notin forgot
    /\ head[call[t].r] = None /\ head'[call[t].r] # None

GoneStaysGone == [][\A t \in Tabs : ~Revives(t, {"own"})]_vars

(* The same for a store that holds what it shared in the older form.        *)
GoneSurfaces == [][\A t \in Tabs : ~Revives(t, {"own", "old"})]_vars

(* A branch is not deleted as one that does not sync once a push of it has  *)
(* begun, or it is known to be shared; but where a forgetting that had found *)
(* no records took the mark a push or a pull had made since.                *)
DropsSyncing(t) ==
    LET s == Home[t]
    IN  /\ At(t, "unless", "remove") /\ call'[t] # call[t] /\ head[s] # None /\ head'[s] = None
        /\ Syncs(s) \/ shared[s] # None

SyncingKept == [][\A t \in Tabs : DropsSyncing(t) => Home[t] \in stripped]_vars

(* Without the exception it does not hold. *)
SyncingAlwaysKept == [][\A t \in Tabs : ~DropsSyncing(t)]_vars

\* A branch's commit is there, and what a store or remote holds has its
\* history there, however a transfer falls together with sweeps, but for the
\* two ways HistoryWhole names; and what a store recorded as shared with a
\* remote, the branches of both have been at (sync/apply.ts, sync.ts).
SyncTrue == TypeOK /\ HistoryWhole /\ RecordsShared

\* Refs move along their own ancestry; a remote's branch is deleted only at a
\* commit this store's has held; a push does not bring back a branch its store
\* had a record of at that remote, unless it was forgotten meanwhile; and a
\* branch that syncs is not deleted as one that does not, unless a forgetting
\* has taken its mark (sync/apply.ts, sync.ts).
SyncMovesKept == RefsForward /\ DeletesSeen /\ GoneStaysGone /\ SyncingKept
=============================================================================
