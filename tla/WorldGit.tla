----------------------------- MODULE WorldGit -----------------------------
(* The agent's git over a session's history (world/src/agentgit.ts), the    *)
(* merges, reverts and cherry-picks that bring work across (workspace.ts,   *)
(* merging.ts) and the stash made of them (wsgit/command.ts).               *)
(*                                                                          *)
(* A commit keeps a tree of files and the agent's record: its head, where   *)
(* its session was forked, the staged paths and an outstanding merge. A     *)
(* verb writes its files and its record on the worktree, and commits them,  *)
(* often in two commits. Between two of its awaits another workspace of the *)
(* session may commit, the store may refuse, and the process may end.       *)
EXTENDS Naturals, FiniteSets, Functions

CONSTANTS
    Nil,               \* no file, commit or record
    Marked,             \* a file with conflict markers
    Paths, Values, Other, \* the files; what the agent writes, and others
    Workspaces, Home,   \* the workspaces, and the session each is on
    Stash,              \* the session a stash is kept as
    Plain,              \* the workspaces that only write and commit files
    Verbs,              \* the verbs used
    MaxCommits, MaxEdits, MaxVerbs, MaxFails

VARIABLES
    commits,            \* the store's commits, a function on 1 .. n
    head,               \* each session's, or None
    basis, files, record,\* a worktree: its commit, and what it changed
    op,                 \* the verb each workspace runs
    edits, verbs, fails,
    promised,           \* the head each session's last verb returned
    stashed             \* work a stash has answered for

gvars == <<commits, head, basis, files, record, op, edits, verbs, fails, promised, stashed>>
store == <<commits, head>>
worktrees == <<basis, files, record>>
spent == <<edits, verbs, fails>>
story == <<promised, stashed>>

Sessions == {Home[w] : w \in Workspaces} \cup {Stash}
Newest == Cardinality(DOMAIN commits)
Records == [head : Nat \cup {Nil}, base : Nat \cup {Nil}, staged : SUBSET Paths,
            source : Sessions \cup {Nil}, unresolved : SUBSET Paths, pre : Nat \cup {Nil}]

(* What is taken of the constants: Nil is nothing else; one agent works on *)
(* a session; and its stash is its own, so where there is one, there is one *)
(* agent.                                                                   *)
Setting ==
    /\ Nil \notin Nat \cup Records \cup Sessions /\ Nil # Marked
    /\ Stash \notin {Home[w] : w \in Workspaces}
    /\ \A v, w \in Workspaces \ Plain : Home[v] = Home[w] \/ "stash" \in Verbs => v = w

(* A function of one argument, and one over another. *)
Only(x, y) == [i \in {x} |-> y]
Laid(f, g) == [x \in DOMAIN f \cup DOMAIN g |-> IF x \in DOMAIN f THEN f[x] ELSE g[x]]

Tree(c) == IF c = Nil THEN [p \in Paths |-> Nil] ELSE commits[c].tree
RecordOf(c) == commits[c].record
Blank(from) == [head |-> Nil, base |-> from, staged |-> {}, source |-> Nil, unresolved |-> {}, pre |-> Nil]
ViewOf(w) == Laid(files[w], Tree(basis[w]))
State(w) == IF record[w] # Nil THEN record[w] ELSE RecordOf(basis[w])
TipOf(w) == head[Home[w]]

AgentTools == {"commit", "merge", "revert", "pick"}
IsAgent(c) == commits[c].tool \in AgentTools
Ref(state) == IF state.head # Nil THEN state.head ELSE state.base
Differing(t, u) == {p \in Paths : t[p] # u[p]}
Modified(w) == Differing(ViewOf(w), Tree(Ref(State(w))))
Outstanding(w) == {p \in State(w).unresolved : ViewOf(w)[p] = Marked}

---------------------------------------------------------------------------
(* A store with a session forked from the other's first commit, nothing     *)
(* committed by either agent.                                               *)

First == CHOOSE s \in {Home[w] : w \in Workspaces \ Plain} : TRUE

Node(tree, rec, tool, paths, vparent, parents) ==
    [tree |-> tree, record |-> rec, tool |-> tool, files |-> paths, vparent |-> vparent,
     parents |-> parents, from |-> Nil,
     anc |-> parents \cup UNION {commits[c].anc : c \in parents}]

Root == [tree |-> [p \in Paths |-> Nil], record |-> Blank(Nil), tool |-> "init", files |-> {},
         vparent |-> Nil, parents |-> {}, from |-> Nil, anc |-> {}]

NoVerb == [verb |-> "none"]

GInit ==
    /\ commits = Laid(Only(1, Root), Only(2, [Root EXCEPT !.record = Blank(1), !.tool = "fork",
                                                          !.parents = {1}, !.anc = {1}]))
    /\ head = [s \in Sessions |-> IF s = Stash THEN Nil ELSE IF s = First THEN 1 ELSE 2]
    /\ basis = [w \in Workspaces |-> head[Home[w]]]
    /\ files = [w \in Workspaces |-> <<>>] /\ record = [w \in Workspaces |-> Nil]
    /\ op = [w \in Workspaces |-> NoVerb]
    /\ edits = 0 /\ verbs = 0 /\ fails = 0
    /\ promised = [s \in Sessions |-> Nil]
    /\ stashed = <<>>

---------------------------------------------------------------------------
(* A worktree's commit of some of its changes: over its session's head, or  *)
(* merged with what landed there since, unless both changed a key.          *)

Taken(w, paths) == Restrict(files[w], DOMAIN files[w] \cap paths)
OursTree(w, paths) == Laid(Taken(w, paths), Tree(basis[w]))

Collides(w, paths) ==
    \/ \E p \in Paths : /\ OursTree(w, paths)[p] # Tree(basis[w])[p]
                        /\ Tree(TipOf(w))[p] \notin {Tree(basis[w])[p], OursTree(w, paths)[p]}
    \/ /\ State(w) # RecordOf(basis[w])
       /\ RecordOf(TipOf(w)) \notin {RecordOf(basis[w]), State(w)}

Merged3(o, u, t) == [p \in Paths |-> IF u[p] = o[p] THEN t[p] ELSE u[p]]

Landing(w, paths, tool, named, vparent) ==
    LET ours == Node(OursTree(w, paths), State(w), tool, named, vparent, {basis[w]})
    IN  IF TipOf(w) = basis[w] THEN Only(Newest + 1, ours)
        ELSE Laid(Only(Newest + 1, [ours EXCEPT !.tool = "none", !.vparent = Nil]),
                  Only(Newest + 2, [Node(Merged3(Tree(basis[w]), OursTree(w, paths), Tree(TipOf(w))),
                                       IF State(w) # RecordOf(basis[w]) THEN State(w) ELSE RecordOf(TipOf(w)),
                                       tool, named, vparent, {TipOf(w)})
                                  EXCEPT !.parents = @ \cup {Newest + 1},
                                         !.anc = @ \cup ours.anc \cup {Newest + 1}]))

Lands(w, new) ==
    /\ Cardinality(DOMAIN new) + Newest <= MaxCommits
    /\ commits' = Laid(new, commits)
    /\ head' = [head EXCEPT ![Home[w]] = Newest + Cardinality(DOMAIN new)]
    /\ basis' = [basis EXCEPT ![w] = Newest + Cardinality(DOMAIN new)]

(* What is left on the worktree by a commit of those paths; and files put   *)
(* on it, where one removed that its commit never held is no change.        *)
Rest(w, paths) == Restrict(files[w], DOMAIN files[w] \ paths)

Over(tree, new, old) ==
    LET all == Laid(new, old)
    IN  Restrict(all, {p \in DOMAIN all : all[p] # Nil \/ tree[p] # Nil})

Refuses(w, paths, ok) == ~ok \/ Collides(w, paths)
Failing(ok) == /\ fails' = IF ok THEN fails ELSE fails + 1
               /\ fails' <= MaxFails

---------------------------------------------------------------------------
(* Work: files written, and committed with everything else that is pending. *)

Free(w) == op[w] = NoVerb
Starts(w, verb) == Free(w) /\ w \notin Plain /\ verb \in Verbs /\ verbs < MaxVerbs

Edit(w, p, v) ==
    /\ Free(w) /\ edits < MaxEdits /\ v # ViewOf(w)[p]
    /\ v \in (IF w \in Plain THEN {Other} ELSE Values \cup {Nil})
    /\ edits' = edits + 1
    /\ files' = [files EXCEPT ![w] = Over(Tree(basis[w]), Only(p, v), @)]
    /\ UNCHANGED <<store, basis, record, op, verbs, fails, story>>

Save(w) ==
    /\ Free(w) /\ (DOMAIN files[w] # {} \/ record[w] # Nil)
    /\ ~Collides(w, Paths)
    /\ Lands(w, Landing(w, Paths, "none", {}, Nil))
    /\ files' = [files EXCEPT ![w] = <<>>] /\ record' = [record EXCEPT ![w] = Nil]
    /\ UNCHANGED <<op, spent, story>>

---------------------------------------------------------------------------
(* The index *)

WriteRecord(w, state) ==
    record' = [record EXCEPT ![w] = IF state = State(w) THEN @ ELSE state]

SetIndex(w, staged) ==
    /\ Starts(w, "index") /\ verbs' = verbs + 1
    /\ WriteRecord(w, [State(w) EXCEPT !.staged = staged])
    /\ UNCHANGED <<store, basis, files, op, edits, fails, story>>

Stage(w, p) ==
    (ViewOf(w)[p] # Nil \/ Tree(Ref(State(w)))[p] # Nil) /\ SetIndex(w, State(w).staged \cup {p})

Unstage(w, p) == p \in State(w).staged /\ SetIndex(w, State(w).staged \ {p})

---------------------------------------------------------------------------
(* An agent commit: the paths left out go back to the agent's head, the     *)
(* commit takes the rest, and their work is put back in a second one.       *)

Named(w) == IF State(w).staged # {} THEN Modified(w) \cap State(w).staged ELSE Modified(w)

Landed(w, now) ==
    LET left == {p \in State(w).unresolved :
                   (IF p \in now THEN ViewOf(w) ELSE Tree(Ref(State(w))))[p] = Marked}
    IN  [State(w) EXCEPT !.staged = {}, !.unresolved = left,
                         !.source = IF left = {} THEN Nil ELSE @,
                         !.pre = IF left = {} THEN Nil ELSE @]

CommitStart(w) ==
    /\ Starts(w, "commit") /\ verbs' = verbs + 1
    /\ Named(w) # {}
    /\ LET out == Modified(w) \ Named(w)
           was == Tree(Ref(State(w)))
       IN  /\ op' = [op EXCEPT ![w] = [verb |-> "commit", step |-> "land", named |-> Named(w), out |-> out,
                                       saw |-> ViewOf(w), old |-> State(w)]]
           /\ files' = [files EXCEPT ![w] =
                 Over(Tree(basis[w]),
                      Laid([p \in out |-> was[p]], Restrict(ViewOf(w), {q \in Named(w) : ViewOf(w)[q] # Nil})), @)]
           /\ record' = [record EXCEPT ![w] = Landed(w, Named(w))]
    /\ UNCHANGED <<store, basis, edits, fails, story>>

\* Mutant: a commit that fails leaves the files it set aside as they were at the head.
PutBackNot(w, tree) == [p \in {} |-> Nil]

PutBack(w, tree) == [p \in op[w].out |-> tree[p]]

CommitLand(w, ok) ==
    /\ op[w].verb = "commit" /\ op[w].step = "land"
    /\ Failing(ok)
    /\ LET keys == op[w].named \cup op[w].out
       IN  IF Refuses(w, keys, ok)
           THEN /\ files' = [files EXCEPT ![w] = Over(Tree(basis[w]), PutBack(w, op[w].saw), @)]
                /\ record' = [record EXCEPT ![w] = op[w].old]
                /\ op' = [op EXCEPT ![w] = NoVerb]
                /\ UNCHANGED <<store, basis>>
           ELSE /\ Lands(w, Landing(w, keys, "commit", op[w].named, op[w].old.head))
                /\ files' = [files EXCEPT ![w] = Over(commits'[basis'[w]].tree, PutBack(w, op[w].saw), Rest(w, keys))]
                /\ record' = [record EXCEPT ![w] = [State(w) EXCEPT !.head = basis'[w]]]
                /\ op' = [op EXCEPT ![w] = [verb |-> "commit", step |-> "record", landed |-> basis'[w],
                                            state |-> record'[w], tree |-> op[w].saw, out |-> op[w].out,
                                            named |-> op[w].named, saw |-> op[w].saw, old |-> op[w].old]]
    /\ UNCHANGED <<edits, verbs, story>>

---------------------------------------------------------------------------
(* The record of a verb, committed with the files it left: on a refusal,    *)
(* over the head that won; and then the verb has landed only in part, or    *)
(* what it wrote is undone.                                                 *)

Done(w) ==
    /\ op' = [op EXCEPT ![w] = IF @.verb = "pop" /\ @.state.unresolved = {} THEN [@ EXCEPT !.step = "drop"]
                               ELSE NoVerb]
    /\ promised' = [promised EXCEPT ![Home[w]] = op[w].state.head]

RecordLands(w, ok, step) ==
    /\ ~Free(w) /\ op[w].step = step /\ Failing(ok)
    /\ ~Refuses(w, op[w].out, ok)
    /\ Lands(w, Landing(w, op[w].out, "record", {}, Nil))
    /\ files' = [files EXCEPT ![w] = Rest(w, op[w].out)]
    /\ record' = [record EXCEPT ![w] = Nil]
    /\ Done(w)
    /\ UNCHANGED <<edits, verbs, stashed>>

RecordRefused(w, ok) ==
    /\ ~Free(w) /\ op[w].step = "record" /\ Failing(ok)
    /\ Refuses(w, op[w].out, ok)
    /\ op' = [op EXCEPT ![w].step = "refresh"]
    /\ UNCHANGED <<store, worktrees, edits, verbs, story>>

\* Mutant: the record as it was read is put on the head that won.
RecordRefreshOld(w) ==
    /\ ~Free(w) /\ op[w].step = "refresh"
    /\ basis' = [basis EXCEPT ![w] = TipOf(w)]
    /\ files' = [files EXCEPT ![w] = Over(Tree(TipOf(w)), PutBack(w, op[w].tree), <<>>)]
    /\ record' = [record EXCEPT ![w] = op[w].old]
    /\ op' = [op EXCEPT ![w].step = "again"]
    /\ UNCHANGED <<store, spent, story>>

RecordRefresh(w) ==
    /\ ~Free(w) /\ op[w].step = "refresh"
    /\ basis' = [basis EXCEPT ![w] = TipOf(w)]
    /\ files' = [files EXCEPT ![w] = Over(Tree(TipOf(w)), PutBack(w, op[w].tree), <<>>)]
    /\ record' = [record EXCEPT ![w] = op[w].state]
    /\ op' = [op EXCEPT ![w].step = "again"]
    /\ UNCHANGED <<store, spent, story>>

RecordLost(w, ok) ==
    /\ ~Free(w) /\ op[w].step = "again" /\ Failing(ok)
    /\ Refuses(w, op[w].out, ok)
    /\ IF op[w].landed # Nil
       THEN record' = [record EXCEPT ![w] = Nil] /\ UNCHANGED files
       ELSE /\ files' = [files EXCEPT ![w] = Over(Tree(basis[w]), PutBack(w, op[w].saw), @)]
            /\ record' = [record EXCEPT ![w] = op[w].old]
    /\ op' = [op EXCEPT ![w] = NoVerb]
    /\ UNCHANGED <<store, basis, edits, verbs, story>>

---------------------------------------------------------------------------
(* A checkout of an agent commit, and an abort, which is one of the commit  *)
(* before the merge. The agent's commands refuse to move a tree with        *)
(* markers outstanding.                                                     *)

CheckoutTo(w, c, verb) ==
    LET out == Differing(ViewOf(w), Tree(c))
        next == [State(w) EXCEPT !.head = c, !.staged = {}, !.source = Nil, !.unresolved = {}, !.pre = Nil]
    IN  /\ op' = [op EXCEPT ![w] = [verb |-> verb, step |-> "record", landed |-> Nil, state |-> next,
                                    tree |-> Tree(c), out |-> out, saw |-> ViewOf(w), old |-> State(w)]]
        /\ files' = [files EXCEPT ![w] = Over(Tree(basis[w]), [p \in out |-> Tree(c)[p]], @)]
        /\ record' = [record EXCEPT ![w] = next]

(* Its own: those in its log, or on its session's line since the fork. *)
Own(w) == {c \in DOMAIN commits : IsAgent(c) /\ c \in commits[basis[w]].anc \cup {basis[w]}
                                   /\ (State(w).base # Nil => c > State(w).base)}

Checkout(w, c) ==
    /\ Starts(w, "checkout") /\ verbs' = verbs + 1
    /\ c \in Own(w) /\ Outstanding(w) = {}
    /\ CheckoutTo(w, c, "checkout")
    /\ UNCHANGED <<store, basis, edits, fails, story>>

GoneBackTo(w) == State(w).pre

Abort(w) ==
    /\ Starts(w, "merge") /\ verbs' = verbs + 1
    /\ Outstanding(w) # {} /\ State(w).pre # Nil
    /\ CheckoutTo(w, GoneBackTo(w), "abort")
    /\ UNCHANGED <<store, basis, edits, fails, story>>

---------------------------------------------------------------------------
(* Work brought across: a merge, a revert, a cherry-pick. Nothing may be    *)
(* pending, uncommitted or outstanding on either side.                      *)

NothingPending(w) ==
    /\ DOMAIN files[w] = {} /\ record[w] = Nil
    /\ Modified(w) \cap State(w).staged = {}
    /\ State(w).head # Nil => Modified(w) = {}
    /\ Outstanding(w) = {}

(* The text merge: lines both changed are marked. *)
Contested(o, u, t) == {p \in Paths : u[p] # t[p] /\ u[p] # o[p] /\ t[p] # o[p]}
TextMerge(o, u, t) ==
    [p \in Paths |-> IF p \in Contested(o, u, t) THEN Marked ELSE IF u[p] = o[p] THEN t[p] ELSE u[p]]

Bring(w, o, t, verb, tool, source, from) ==
    LET before == Tree(basis[w])
        new == Newest + 1
        marked == Contested(o, before, t)
        state == [State(w) EXCEPT !.head = new,
                                  !.source = IF marked = {} THEN Nil ELSE source,
                                  !.unresolved = marked,
                                  !.pre = IF marked = {} THEN Nil ELSE State(w).head]
    IN  /\ Lands(w, Only(new, [Node(TextMerge(o, before, t), State(w), tool, {}, State(w).head,
                                    {basis[w], from} \ {Nil}) EXCEPT !.from = from]))
        /\ record' = [record EXCEPT ![w] = state]
        /\ op' = [op EXCEPT ![w] = [verb |-> verb, step |-> "record", landed |-> new, state |-> state,
                                    tree |-> <<>>, out |-> {}, saw |-> TextMerge(o, before, t), old |-> State(w)]]

(* A merge takes a session at its agent's last commit. *)
From(s) == IF RecordOf(head[s]).head # Nil THEN RecordOf(head[s]).head ELSE head[s]

Mergeable(s) ==
    /\ head[s] # Nil
    /\ RecordOf(head[s]).head # Nil => Differing(Tree(From(s)), Tree(head[s])) = {}
    /\ \A p \in RecordOf(head[s]).unresolved : Tree(From(s))[p] # Marked

Common(a, b) == (commits[a].anc \cup {a}) \cap (commits[b].anc \cup {b})
MergeBase(a, b) == CHOOSE c \in Common(a, b) : \A d \in Common(a, b) : d <= c

Merge(w, s) ==
    /\ Starts(w, "merge") /\ verbs' = verbs + 1
    /\ s # Home[w] /\ s # Stash /\ Mergeable(s) /\ NothingPending(w) /\ basis[w] = TipOf(w)
    /\ LET from == From(s) IN
       /\ from \notin Common(basis[w], from)
       /\ Bring(w, Tree(MergeBase(basis[w], from)), Tree(from), "merge", "merge", s, from)
    /\ UNCHANGED <<files, edits, fails, story>>

ChangeBase(c) ==
    IF ~IsAgent(c) THEN CHOOSE d \in commits[c].parents : \A e \in commits[c].parents : d <= e
    ELSE IF commits[c].vparent # Nil THEN commits[c].vparent ELSE RecordOf(c).base

Apply(w, verb, o, t, source) ==
    /\ Starts(w, verb) /\ verbs' = verbs + 1
    /\ NothingPending(w) /\ basis[w] = TipOf(w)
    /\ TextMerge(Tree(o), Tree(basis[w]), Tree(t)) # Tree(basis[w])
    /\ Bring(w, Tree(o), Tree(t), verb, verb, source, Nil)
    /\ UNCHANGED <<files, edits, fails, story>>

Revert(w, c) == IsAgent(c) /\ c \in Own(w) /\ Apply(w, "revert", c, ChangeBase(c), Home[w])

Pick(w, s, c) ==
    /\ s # Home[w] /\ head[s] # Nil /\ IsAgent(c)
    /\ c \in commits[head[s]].anc \cup {head[s]}
    /\ Apply(w, "pick", ChangeBase(c), c, s)

---------------------------------------------------------------------------
(* The stash: a session forked at the agent's head that takes the work, and *)
(* then a checkout of the head. Popping merges it, and drops it.            *)

StashPush(w) ==
    /\ Starts(w, "stash") /\ verbs' = verbs + 1
    /\ Outstanding(w) = {} /\ State(w).head # Nil /\ Modified(w) # {}
    /\ head[Stash] = Nil
    /\ Newest + 1 <= MaxCommits
    /\ LET at == State(w).head
       IN  /\ commits' = Laid(Only(Newest + 1, Node(Tree(at), Blank(at), "fork", {}, Nil, {at})), commits)
           /\ head' = [head EXCEPT ![Stash] = Newest + 1]
    /\ op' = [op EXCEPT ![w] = [verb |-> "stash", step |-> "write",
                                work |-> [p \in Modified(w) |-> ViewOf(w)[p]]]]
    /\ UNCHANGED <<worktrees, edits, fails, story>>

StashWrite(w, ok) ==
    /\ op[w].verb = "stash" /\ op[w].step = "write"
    /\ Failing(ok)
    /\ IF ~ok THEN op' = [op EXCEPT ![w] = NoVerb] /\ UNCHANGED <<store, worktrees, stashed>>
       ELSE /\ Newest + 1 <= MaxCommits
            /\ commits' = Laid(Only(Newest + 1, Node(Laid(op[w].work, Tree(head[Stash])), RecordOf(head[Stash]),
                                                   "stash", {}, Nil, {head[Stash]})), commits)
            /\ head' = [head EXCEPT ![Stash] = Newest + 1]
            /\ stashed' = op[w].work
            /\ CheckoutTo(w, State(w).head, "stash")
            /\ UNCHANGED basis
    /\ UNCHANGED <<edits, verbs, promised>>

StashPop(w) ==
    /\ Starts(w, "stash") /\ verbs' = verbs + 1
    /\ head[Stash] # Nil /\ Mergeable(Stash) /\ NothingPending(w) /\ basis[w] = TipOf(w)
    /\ LET from == From(Stash)
       IN  IF from \in Common(basis[w], from)
           THEN /\ op' = [op EXCEPT ![w] = [verb |-> "pop", step |-> "drop", landed |-> Nil]]
                /\ UNCHANGED <<store, basis, record>>
           ELSE Bring(w, Tree(MergeBase(basis[w], from)), Tree(from), "pop", "merge", Stash, from)
    /\ UNCHANGED <<files, edits, fails, story>>

Dropped == head' = [head EXCEPT ![Stash] = Nil] /\ stashed' = <<>>

StashPopped(w) ==
    /\ op[w].verb = "pop" /\ op[w].step = "drop"
    /\ Dropped
    /\ op' = [op EXCEPT ![w] = NoVerb]
    /\ UNCHANGED <<commits, worktrees, spent, promised>>

StashDrop(w) ==
    /\ Starts(w, "stash") /\ verbs' = verbs + 1
    /\ head[Stash] # Nil
    /\ Dropped
    /\ UNCHANGED <<commits, worktrees, op, edits, fails, promised>>

---------------------------------------------------------------------------
(* The process ends, and the workspace is opened again. *)
Crash(w) ==
    /\ ~Free(w) /\ fails < MaxFails /\ fails' = fails + 1
    /\ basis' = [basis EXCEPT ![w] = TipOf(w)]
    /\ files' = [files EXCEPT ![w] = <<>>] /\ record' = [record EXCEPT ![w] = Nil]
    /\ op' = [op EXCEPT ![w] = NoVerb]
    /\ UNCHANGED <<store, edits, verbs, story>>

---------------------------------------------------------------------------
Working(w) ==
    \/ \E p \in Paths : \E v \in Values \cup {Nil, Other} : Edit(w, p, v)
    \/ Save(w)

Indexing(w) == \E p \in Paths : Stage(w, p) \/ Unstage(w, p)

Moving(w) ==
    \/ \E c \in DOMAIN commits : Checkout(w, c) \/ Revert(w, c) \/ \E s \in Sessions : Pick(w, s, c)
    \/ Abort(w)
    \/ \E s \in Sessions : Merge(w, s)

Stashing(w) ==
    \/ StashPush(w) \/ StashPop(w) \/ StashPopped(w) \/ StashDrop(w)
    \/ \E ok \in BOOLEAN : StashWrite(w, ok)

RecordSteps(w) ==
    \/ RecordRefresh(w)
    \/ \E ok \in BOOLEAN :
        \/ CommitLand(w, ok) \/ RecordRefused(w, ok) \/ RecordLost(w, ok)
        \/ \E step \in {"record", "again"} : RecordLands(w, ok, step)

GNext == \E w \in Workspaces :
    \/ Working(w) \/ Indexing(w) \/ CommitStart(w) \/ Moving(w) \/ Stashing(w) \/ RecordSteps(w)
    \/ Crash(w)

GSpec == GInit /\ [][GNext]_gvars

---------------------------------------------------------------------------
(* Types; and a record names a merge's source while paths are unresolved,   *)
(* and only then.                                                           *)
GitTypeOK ==
    /\ \A s \in Sessions : head[s] \in DOMAIN commits \cup {Nil}
    /\ \A w \in Workspaces :
        /\ basis[w] \in DOMAIN commits
        /\ State(w).staged \cup State(w).unresolved \subseteq Paths
        /\ State(w).source = Nil <=> State(w).unresolved = {}
        /\ DOMAIN files[w] \subseteq Paths /\ Range(files[w]) \subseteq Values \cup {Nil, Marked, Other}
    /\ \A c \in DOMAIN commits : commits[c].vparent \in DOMAIN commits \cup {Nil}

(* "An agent commit holds exactly what the agent committed" (agentgit.ts:18):*)
(* over its parent in the agent's graph it changes the files it names, and  *)
(* no others, even where no other work was merged in as it landed.          *)
Exact(c) ==
    \A p \in Paths \ commits[c].files :
        Tree(c)[p] = Tree(IF commits[c].vparent # Nil THEN commits[c].vparent ELSE RecordOf(c).base)[p]

CommitExact ==
    \A c \in DOMAIN commits :
        commits[c].tool = "commit" /\ Cardinality(commits[c].parents) = 1 => Exact(c)

(* The same, where the head didn't move meanwhile and nothing was pending   *)
(* but what the commit takes or sets aside.                                 *)
CommitExactAloneStep ==
    \A w \in Workspaces :
         /\ op[w].verb = "commit" /\ op[w].step = "land" /\ basis[w] = TipOf(w) /\ basis'[w] # basis[w]
         /\ DOMAIN files[w] \subseteq op[w].named \cup op[w].out
         => \A p \in Paths \ op[w].named : commits'[basis'[w]].tree[p] = Tree(Ref(op[w].old))[p]
CommitExactAlone == [][CommitExactAloneStep]_gvars

(* A session's agent head is an agent commit its history holds. *)
HeadTrue ==
    \A s \in Sessions : head[s] # Nil =>
        LET h == RecordOf(head[s]).head
        IN  h # Nil => IsAgent(h) /\ h \in commits[head[s]].anc \cup {head[s]}

(* The head a verb's caller was told of is the one its session records,     *)
(* through refused records, lost ones and crashes (agentgit.ts, #record).   *)
HeadPromised ==
    \A w \in Workspaces \ Plain : Free(w) => RecordOf(TipOf(w)).head = promised[Home[w]]

Ends(w) == ~Free(w) /\ op'[w].verb = "none" /\ "saw" \in DOMAIN op[w]
Crashes(w) == fails' = fails + 1 /\ basis' = [basis EXCEPT ![w] = TipOf(w)] /\ head' = head /\ record'[w] = Nil
NewView(w) == Laid(files'[w], commits'[basis'[w]].tree)

(* A commit, landed, refused or landed in part, leaves the files it takes   *)
(* or sets aside as they were, but for what another workspace committed     *)
(* (agentgit.ts, commit).                                                   *)
FilesKeptStep ==
    \A w \in Workspaces :
         Ends(w) /\ op[w].verb = "commit" /\ ~Crashes(w) =>
            \A p \in op[w].named \cup op[w].out : NewView(w)[p] \in {op[w].saw[p], Other}
FilesKept == [][FilesKeptStep]_gvars

(* A checkout or an abort leaves the files it changes as they were at the   *)
(* commit it names, an abort's being the head before the merge; or, failing,*)
(* as they were.                                                            *)
Target(w) == IF op[w].verb = "abort" THEN op[w].old.pre ELSE op[w].state.head

CheckoutExactStep ==
    \A w \in Workspaces :
         Ends(w) /\ op[w].verb \in {"checkout", "abort", "stash"} /\ ~Crashes(w) =>
            LET to == IF commits' = commits THEN op[w].saw ELSE Tree(Target(w))
            IN  \A p \in Paths : (IF p \in op[w].out THEN NewView(w)[p] ELSE op[w].saw[p]) \in {to[p], Other}
CheckoutExact == [][CheckoutExactStep]_gvars

(* A merge brings what a session's agent committed, never its work in       *)
(* progress (workspace.ts, merge; agentgit.ts, sourceState).                *)
MergeCommitted ==
    \A c \in DOMAIN commits :
        commits[c].from # Nil => IsAgent(commits[c].from) \/ RecordOf(commits[c].from).head = Nil

(* Work put on the stash is kept there till it is dropped (command.ts,      *)
(* stashPush).                                                              *)
StashKept ==
    stashed # <<>> => /\ head[Stash] # Nil
                      /\ \A p \in DOMAIN stashed : Tree(head[Stash])[p] = stashed[p]

(* The agent's head is a commit of its own, in its history, and what it was *)
(* told it has; a merge brings what was committed; a stash is not lost      *)
(* (agentgit.ts, workspace.ts, command.ts).                                 *)
GitTrue == GitTypeOK /\ HeadTrue /\ HeadPromised /\ MergeCommitted /\ StashKept

(* A pop drops the stash only once its session's history has all of it; one *)
(* that finds it merged before, perhaps with conflicts (command.ts,         *)
(* stashPop).                                                               *)
PopWholeStep ==
    \A w \in Workspaces :
         op[w].verb = "pop" /\ op[w].step = "drop" /\ op'[w] = NoVerb /\ ~Crashes(w) =>
            \E c \in commits[basis[w]].anc \cup {basis[w]} :
                /\ commits[c].from = From(Stash)
                /\ \A p \in DOMAIN stashed :
                      \/ Tree(c)[p] = stashed[p]
                      \/ Tree(c)[p] = Marked /\ op[w].landed = Nil
PopWhole == [][PopWholeStep]_gvars

(* A commit changes nothing it does not name, where nothing came between, and *)
(* leaves the files it takes as they were; a checkout gives the commit's     *)
(* files, and a stash is dropped only once it was merged (agentgit.ts,       *)
(* command.ts).                                                              *)
GitMovesExact == [][CommitExactAloneStep /\ FilesKeptStep /\ CheckoutExactStep /\ PopWholeStep]_gvars
=============================================================================
