--------------------------- MODULE WorldGit_proofs ---------------------------
(* That the agent's head is a commit of its own, in its history, and the one*)
(* its verbs have promised; that merges bring what was committed; and that  *)
(* a stash is kept (WorldGit: GitTrue). That its verbs move what they say:  *)
(* a commit the files it names, a checkout or a pop the whole tree, and     *)
(* nothing else of the worktree (GitMovesExact). For any workspaces,        *)
(* sessions, paths and contents, with refused and lost records, and crashes.*)
EXTENDS WorldGit, FiniteSetTheorems, TLAPS

---------------------------------------------------------------------------
(* The inductive invariant *)

(* A tree, and files over one. *)
Contents == Values \cup {Nil, Marked, Other}
IsTree(t) == DOMAIN t = Paths /\ \A p \in Paths : t[p] \in Contents
IsPart(f) == DOMAIN f \subseteq Paths /\ \A p \in DOMAIN f : f[p] \in Contents

(* The agent's record at a commit: its head, and the one before a merge, are*)
(* agent commits of that history.                                           *)
Hist(c) == commits[c].anc \cup {c}
HeadAt(h, c) == h # Nil => h \in Hist(c) /\ IsAgent(h)
RecordAt(r, c) ==
    /\ r \in Records /\ r.base \in DOMAIN commits \cup {Nil}
    /\ r.source = Nil <=> r.unresolved = {}
    /\ HeadAt(r.head, c) /\ HeadAt(r.pre, c)

NodeInv(c) ==
    LET n == commits[c]
    IN  /\ IsTree(n.tree) /\ RecordAt(n.record, c)
        /\ n.anc \subseteq DOMAIN commits /\ \A a \in n.anc : commits[a].anc \subseteq n.anc
        /\ n.vparent \in DOMAIN commits \cup {Nil}
        /\ n.from # Nil => n.from \in DOMAIN commits /\ (IsAgent(n.from) \/ RecordOf(n.from).head = Nil)

StoreInv ==
    /\ Newest \in Nat /\ DOMAIN commits = 1 .. Newest
    /\ \A c \in DOMAIN commits : NodeInv(c)

HeadInv ==
    /\ \A s \in Sessions : head[s] \in DOMAIN commits \cup {Nil}
    /\ \A w \in Workspaces : TipOf(w) \in DOMAIN commits

(* A worktree is of a commit its session's history holds. *)
WorkInv(w) ==
    /\ basis[w] \in Hist(TipOf(w)) /\ IsPart(files[w])
    /\ record[w] # Nil => RecordAt(record[w], basis[w])

(* A verb that has landed or changed files goes on to commit its record; one*)
(* that fails puts back the record it found, whose head is the one promised.*)
LandsOn(w) ==
    /\ op[w].verb = "commit" /\ op[w].step = "land"
    /\ op[w].named \subseteq Paths /\ op[w].out \subseteq Paths /\ IsTree(op[w].saw)
    /\ RecordAt(op[w].old, basis[w]) /\ op[w].old.head = promised[Home[w]]

RecordsOn(w) ==
    /\ op[w].verb # "none" /\ op[w].step \in {"record", "refresh", "again"} /\ "step" \in DOMAIN op[w]
    /\ op[w].verb = "pop" => "stash" \in Verbs
    /\ op[w].out \subseteq Paths /\ IsTree(op[w].saw) /\ (op[w].out # {} => IsTree(op[w].tree))
    /\ RecordAt(op[w].old, basis[w]) /\ op[w].old.head = promised[Home[w]]
    /\ RecordAt(op[w].state, basis[w]) /\ record[w] = op[w].state

WritesOn(w) ==
    /\ op[w].verb = "stash" /\ op[w].step = "write" /\ "stash" \in Verbs
    /\ IsPart(op[w].work) /\ head[Stash] # Nil

DropsOn(w) == op[w].verb = "pop" /\ op[w].step = "drop" /\ "stash" \in Verbs

OpInv(w) ==
    /\ Free(w) \/ LandsOn(w) \/ RecordsOn(w) \/ WritesOn(w) \/ DropsOn(w)
    /\ w \in Plain => Free(w) /\ record[w] = Nil

(* The head promised is the one the session's record has, wherever in its   *)
(* history the agent's worktree is; and a worktree whose verb has not       *)
(* recorded what it did has that head still.                                *)
PromiseInv(w) ==
    w \notin Plain =>
        /\ RecordOf(basis[w]) = RecordOf(TipOf(w)) /\ RecordOf(TipOf(w)).head = promised[Home[w]]
        /\ ~RecordsOn(w) => State(w).head = promised[Home[w]]

StashInv ==
    stashed # <<>> => /\ head[Stash] # Nil
                      /\ \A p \in DOMAIN stashed : Tree(head[Stash])[p] = stashed[p]

Domains ==
    /\ DOMAIN basis = Workspaces /\ DOMAIN files = Workspaces /\ DOMAIN record = Workspaces
    /\ DOMAIN op = Workspaces /\ DOMAIN head = Sessions /\ DOMAIN promised = Sessions

GitInv ==
    /\ Domains /\ StoreInv /\ HeadInv /\ StashInv
    /\ \A w \in Workspaces : WorkInv(w) /\ OpInv(w) /\ PromiseInv(w)

---------------------------------------------------------------------------
(* The operators *)

LEMMA OnlyHas == ASSUME NEW x, NEW y PROVE DOMAIN Only(x, y) = {x} /\ Only(x, y)[x] = y
BY DEF Only

LEMMA PartOnTree ==
    ASSUME NEW f, NEW t, IsPart(f), IsTree(t)
    PROVE  IsTree(Laid(f, t))
<1>1. DOMAIN Laid(f, t) = Paths
    BY DEF IsPart, Laid, IsTree
<1>2. ASSUME NEW p \in Paths PROVE Laid(f, t)[p] \in Contents
    <2>1. CASE p \in DOMAIN f
        BY <2>1 DEF IsPart, Laid
    <2>2. CASE p \notin DOMAIN f
        BY <2>2 DEF IsTree, Laid
    <2> QED
        BY <2>1, <2>2
<1> QED
    BY <1>1, <1>2 DEF IsTree

LEMMA PartOnPart ==
    ASSUME NEW f, NEW g, IsPart(f), IsPart(g)
    PROVE  IsPart(Laid(f, g))
<1>1. DOMAIN Laid(f, g) \subseteq Paths
    BY DEF IsPart, Laid
<1>2. ASSUME NEW p \in DOMAIN Laid(f, g) PROVE Laid(f, g)[p] \in Contents
    <2>1. CASE p \in DOMAIN f
        BY <2>1 DEF IsPart, Laid
    <2>2. CASE p \notin DOMAIN f
        BY <1>2, <2>2 DEF IsPart, Laid
    <2> QED
        BY <2>1, <2>2
<1> QED
    BY <1>1, <1>2 DEF IsPart

LEMMA OverPart ==
    ASSUME NEW tree, NEW new, NEW old, IsPart(new), IsPart(old)
    PROVE  IsPart(Over(tree, new, old))
<1>1. IsPart(Laid(new, old))
    BY PartOnPart
<1> QED
    BY <1>1 DEF IsPart, Over, Restrict

LEMMA RestPart ==
    ASSUME NEW f, NEW S, IsPart(f)
    PROVE  IsPart(Restrict(f, DOMAIN f \cap S)) /\ IsPart(Restrict(f, DOMAIN f \ S))
BY DEF IsPart, Restrict

LEMMA EmptyPart == IsPart(<<>>)
BY DEF IsPart

LEMMA EmptyTree == IsTree([p \in Paths |-> Nil])
BY DEF IsTree, Contents

LEMMA TreeOf ==
    ASSUME StoreInv, NEW c \in DOMAIN commits \cup {Nil}
    PROVE  IsTree(Tree(c))
BY EmptyTree DEF StoreInv, NodeInv, Tree

LEMMA MergedTree ==
    ASSUME NEW o, NEW u, NEW t, IsTree(u), IsTree(t)
    PROVE  IsTree(Merged3(o, u, t)) /\ IsTree(TextMerge(o, u, t)) /\ Contested(o, u, t) \subseteq Paths
BY DEF IsTree, Merged3, TextMerge, Contested, Contents

LEMMA NodeHas ==
    ASSUME NEW t, NEW r, NEW tool, NEW paths, NEW v, NEW ps
    PROVE  LET n == Node(t, r, tool, paths, v, ps)
           IN  /\ n.tree = t /\ n.record = r /\ n.tool = tool /\ n.vparent = v /\ n.from = Nil
               /\ n.parents = ps /\ n.anc = ps \cup UNION {commits[c].anc : c \in ps}
               /\ DOMAIN n = {"tree", "record", "tool", "files", "vparent", "parents", "from", "anc"}
BY DEF Node

---------------------------------------------------------------------------
(* The store grows *)

Grown ==
    /\ DOMAIN commits \subseteq DOMAIN commits'
    /\ \A c \in DOMAIN commits : commits'[c] = commits[c]

LEMMA HistHas ==
    ASSUME StoreInv, NEW c \in DOMAIN commits, NEW d \in Hist(c)
    PROVE  c \in Hist(c) /\ d \in DOMAIN commits /\ Hist(d) \subseteq Hist(c)
<1>1. NodeInv(c)
    BY DEF StoreInv
<1> QED
    BY <1>1 DEF NodeInv, Hist

LEMMA RecordLater ==
    ASSUME StoreInv, Grown, NEW c \in DOMAIN commits, NEW r, RecordAt(r, c),
           NEW d, Hist(c) \subseteq Hist(d)'
    PROVE  RecordAt(r, d)'
<1>1. ASSUME NEW h, HeadAt(h, c) PROVE HeadAt(h, d)'
    <2>1. SUFFICES ASSUME h # Nil PROVE h \in Hist(d)' /\ IsAgent(h)'
        BY DEF HeadAt
    <2>2. h \in Hist(c) /\ IsAgent(h) /\ h \in DOMAIN commits
        BY <1>1, <2>1, HistHas DEF HeadAt
    <2> QED
        BY <2>2 DEF Grown, IsAgent
<1> QED
    BY <1>1 DEF RecordAt, Grown, Records

LEMMA NodeLater ==
    ASSUME StoreInv, Grown, NEW c \in DOMAIN commits
    PROVE  NodeInv(c)' /\ Hist(c)' = Hist(c)
<1>1. NodeInv(c) /\ commits'[c] = commits[c]
    BY DEF StoreInv, Grown
<1>2. Hist(c)' = Hist(c)
    BY <1>1 DEF Hist
<1>3. RecordAt(commits[c].record, c)'
    BY <1>1, <1>2, RecordLater DEF NodeInv
<1>4. \A a \in commits[c].anc : a \in DOMAIN commits /\ commits'[a] = commits[a]
    BY <1>1 DEF NodeInv, Grown
<1>5. commits[c].from # Nil =>
        /\ commits[c].from \in DOMAIN commits'
        /\ IsAgent(commits[c].from)' \/ (RecordOf(commits[c].from).head = Nil)'
    BY <1>1 DEF NodeInv, Grown, IsAgent, RecordOf
<1> QED
    BY <1>1, <1>2, <1>3, <1>4, <1>5 DEF NodeInv, Grown

LEMMA StoreLater ==
    ASSUME StoreInv, Grown, NEW n \in Nat, DOMAIN commits' = 1 .. n,
           \A c \in DOMAIN commits' \ DOMAIN commits : NodeInv(c)'
    PROVE  StoreInv'
<1>1. Newest' = n
    BY FS_Interval DEF Newest
<1> QED
    BY <1>1, NodeLater DEF StoreInv

LEMMA LandOne ==
    ASSUME StoreInv, NEW x, commits' = Laid(Only(Newest + 1, x), commits)
    PROVE  /\ Grown /\ Newest + 1 \in Nat /\ Newest + 1 \notin DOMAIN commits
           /\ DOMAIN commits' = 1 .. Newest + 1 /\ commits'[Newest + 1] = x
           /\ DOMAIN commits' = DOMAIN commits \cup {Newest + 1}
<1>1. Newest \in Nat /\ DOMAIN commits = 1 .. Newest
    BY DEF StoreInv
<1>2. Newest + 1 \in Nat /\ Newest + 1 \notin 1 .. Newest /\ 1 .. Newest + 1 = (1 .. Newest) \cup {Newest + 1}
    BY <1>1
<1>3. DOMAIN Only(Newest + 1, x) = {Newest + 1} /\ Only(Newest + 1, x)[Newest + 1] = x
    BY OnlyHas
<1>4. DOMAIN commits' = {Newest + 1} \cup DOMAIN commits
    BY <1>3 DEF Laid
<1>5. commits'[Newest + 1] = x
    BY <1>3 DEF Laid
<1>6. \A c \in DOMAIN commits : c # Newest + 1
    BY <1>1, <1>2
<1>7. \A c \in DOMAIN commits : commits'[c] = commits[c]
    BY <1>3, <1>6 DEF Laid
<1> QED
    BY <1>1, <1>2, <1>4, <1>5, <1>7 DEF Grown

LEMMA LandTwo ==
    ASSUME StoreInv, NEW x, NEW y, commits' = Laid(Laid(Only(Newest + 1, x), Only(Newest + 2, y)), commits)
    PROVE  /\ Grown /\ Newest + 2 \in Nat /\ Newest + 1 \notin DOMAIN commits /\ Newest + 2 \notin DOMAIN commits
           /\ DOMAIN commits' = 1 .. Newest + 2 /\ commits'[Newest + 1] = x /\ commits'[Newest + 2] = y
           /\ DOMAIN commits' = DOMAIN commits \cup {Newest + 1, Newest + 2}
           /\ Newest + 1 # Newest + 2
<1>1. Newest \in Nat /\ DOMAIN commits = 1 .. Newest
    BY DEF StoreInv
<1>2. /\ Newest + 2 \in Nat /\ Newest + 1 # Newest + 2 /\ Newest + 1 \notin 1 .. Newest /\ Newest + 2 \notin 1 .. Newest
      /\ 1 .. Newest + 2 = (1 .. Newest) \cup {Newest + 1, Newest + 2}
    BY <1>1
<1>3. PICK new : new = Laid(Only(Newest + 1, x), Only(Newest + 2, y))
    OBVIOUS
<1>4. DOMAIN new = {Newest + 1, Newest + 2} /\ new[Newest + 1] = x /\ new[Newest + 2] = y
    BY <1>2, <1>3 DEF Only, Laid
<1>5. DOMAIN commits' = {Newest + 1, Newest + 2} \cup DOMAIN commits
    BY <1>3, <1>4 DEF Laid
<1>6. commits'[Newest + 1] = x /\ commits'[Newest + 2] = y
    BY <1>3, <1>4 DEF Laid
<1>7. \A c \in DOMAIN commits : c \notin {Newest + 1, Newest + 2}
    BY <1>1, <1>2
<1>8. \A c \in DOMAIN commits : commits'[c] = commits[c]
    BY <1>3, <1>4, <1>7 DEF Laid
<1> QED
    BY <1>1, <1>2, <1>5, <1>6, <1>8 DEF Grown

LEMMA NewNode ==
    ASSUME StoreInv, Grown, NEW k, NEW n, commits'[k] = n, IsTree(n.tree),
           NEW c \in DOMAIN commits, RecordAt(n.record, c), Hist(c) \subseteq n.anc,
           n.anc \subseteq DOMAIN commits', \A a \in n.anc : commits'[a].anc \subseteq n.anc,
           n.vparent \in DOMAIN commits' \cup {Nil},
           n.from # Nil => n.from \in DOMAIN commits /\ (IsAgent(n.from) \/ RecordOf(n.from).head = Nil)
    PROVE  NodeInv(k)' /\ Hist(k)' = n.anc \cup {k}
<1>1. Hist(k)' = n.anc \cup {k}
    BY DEF Hist
<1>2. RecordAt(n.record, k)'
    BY <1>1, RecordLater
<1>3. n.from # Nil =>
        /\ n.from \in DOMAIN commits'
        /\ IsAgent(n.from)' \/ (RecordOf(n.from).head = Nil)'
    BY DEF Grown, IsAgent, RecordOf
<1>4. IsTree(n.tree)'
    BY DEF IsTree
<1> QED
    BY <1>1, <1>2, <1>3, <1>4 DEF NodeInv

---------------------------------------------------------------------------
(* What a workspace relies on                                               *)

LEMMA WorkHas ==
    ASSUME GitInv, NEW w \in Workspaces
    PROVE  /\ TipOf(w) \in DOMAIN commits /\ basis[w] \in DOMAIN commits
           /\ basis[w] \in Hist(TipOf(w)) /\ Hist(basis[w]) \subseteq Hist(TipOf(w))
           /\ RecordAt(State(w), basis[w]) /\ IsTree(ViewOf(w)) /\ IsPart(files[w])
           /\ RecordAt(RecordOf(TipOf(w)), TipOf(w))
           /\ Home[w] \in Sessions
<1>1. /\ StoreInv /\ TipOf(w) \in DOMAIN commits /\ WorkInv(w)
    BY DEF GitInv, HeadInv
<1>2. basis[w] \in DOMAIN commits /\ Hist(basis[w]) \subseteq Hist(TipOf(w))
    BY <1>1, HistHas DEF WorkInv
<1>3. RecordAt(RecordOf(basis[w]), basis[w]) /\ RecordAt(RecordOf(TipOf(w)), TipOf(w))
    BY <1>1, <1>2 DEF StoreInv, NodeInv, RecordOf
<1>4. IsTree(ViewOf(w))
    BY <1>1, <1>2, TreeOf, PartOnTree DEF WorkInv, ViewOf
<1> QED
    BY <1>1, <1>2, <1>3, <1>4 DEF WorkInv, State, Sessions

OthersRest(w) ==
    /\ \A v \in Workspaces \ {w} :
          basis'[v] = basis[v] /\ files'[v] = files[v] /\ record'[v] = record[v] /\ op'[v] = op[v]
    /\ Domains'

LEMMA OthersLater ==
    ASSUME Setting, GitInv, Grown, NEW w \in Workspaces, OthersRest(w), NEW v \in Workspaces \ {w},
           NEW t, t = head'[Home[v]], Hist(TipOf(v)) \subseteq Hist(t)',
           v \notin Plain => (RecordOf(t)' = RecordOf(TipOf(v)) /\ promised'[Home[v]] = promised[Home[v]]),
           WritesOn(v) => head'[Stash] # Nil
    PROVE  (WorkInv(v) /\ OpInv(v) /\ PromiseInv(v))'
<1>1. /\ StoreInv /\ WorkInv(v) /\ OpInv(v) /\ PromiseInv(v)
      /\ basis[v] \in DOMAIN commits /\ TipOf(v) \in DOMAIN commits /\ basis[v] \in Hist(TipOf(v))
      /\ basis'[v] = basis[v] /\ files'[v] = files[v] /\ record'[v] = record[v] /\ op'[v] = op[v]
    BY WorkHas DEF GitInv, OthersRest
<1>2. PICK b, r, o : b = basis[v] /\ r = record[v] /\ o = op[v]
    OBVIOUS
<1>3. /\ Hist(b)' = Hist(b) /\ commits'[b] = commits[b]
      /\ \A q : RecordAt(q, b) => RecordAt(q, b)'
    BY <1>1, <1>2, NodeLater, RecordLater DEF Grown
<1>4. State(v)' = State(v) /\ (RecordOf(basis[v]))' = RecordOf(basis[v])
    BY <1>1, <1>2, <1>3 DEF State, RecordOf
<1>5. WorkInv(v)'
    <2>1. b \in Hist(t)'
        BY <1>1, <1>2
    <2> QED
        BY <1>1, <1>2, <1>3, <2>1 DEF WorkInv, TipOf, IsPart, Contents
<1>6. RecordsOn(v) /\ v \notin Plain => RecordsOn(v)'
    BY <1>1, <1>2, <1>3 DEF RecordsOn, IsTree, Contents
<1>7. LandsOn(v) /\ v \notin Plain => LandsOn(v)'
    BY <1>1, <1>2, <1>3 DEF LandsOn, IsTree, Contents
<1>8. WritesOn(v) => WritesOn(v)'
    BY <1>1 DEF WritesOn, IsPart, Contents
<1>9. (Free(v) => Free(v)') /\ (DropsOn(v) => DropsOn(v)')
    BY <1>1 DEF Free, DropsOn
<1>10. OpInv(v)'
    <2>1. CASE v \in Plain
        BY <1>1, <1>9, <2>1 DEF OpInv
    <2>2. CASE v \notin Plain
        BY <1>1, <1>6, <1>7, <1>8, <1>9, <2>2 DEF OpInv
    <2> QED
        BY <2>1, <2>2
<1>11. PromiseInv(v)'
    <2>1. SUFFICES ASSUME v \notin Plain
                   PROVE  /\ (RecordOf(basis[v]))' = RecordOf(t)' /\ RecordOf(t)'.head = promised'[Home[v]]
                          /\ ~RecordsOn(v)' => State(v)'.head = promised'[Home[v]]
        BY DEF PromiseInv, TipOf
    <2> QED
        BY <1>1, <1>4, <1>6, <2>1 DEF PromiseInv
<1> QED
    BY <1>5, <1>10, <1>11

(* A step that leaves the store alone changes one worktree and its verb.    *)
LEMMA LocalStep ==
    ASSUME Setting, GitInv, NEW w \in Workspaces, UNCHANGED <<store, story>>, OthersRest(w),
           (WorkInv(w) /\ OpInv(w) /\ PromiseInv(w))'
    PROVE  GitInv'
<1>1. commits' = commits /\ head' = head /\ promised' = promised /\ stashed' = stashed
    BY DEF store, story
<1>2. Grown /\ StoreInv'
    <2>1. Grown
        BY <1>1 DEF Grown
    <2>2. Newest \in Nat /\ DOMAIN commits' = 1 .. Newest
        BY <1>1 DEF GitInv, StoreInv
    <2> QED
        BY <1>1, <2>1, <2>2, StoreLater DEF GitInv
<1>3. HeadInv' /\ StashInv'
    BY <1>1 DEF GitInv, HeadInv, StashInv, TipOf, Tree
<1>4. ASSUME NEW v \in Workspaces \ {w} PROVE (WorkInv(v) /\ OpInv(v) /\ PromiseInv(v))'
    <2>1. PICK t : t = TipOf(v)
        OBVIOUS
    <2>2. Hist(t)' = Hist(t) /\ RecordOf(t)' = RecordOf(t)
        BY <1>1 DEF Hist, RecordOf
    <2>3. WritesOn(v) => head'[Stash] # Nil
        BY <1>1 DEF WritesOn
    <2> QED
        BY <1>1, <1>2, <2>1, <2>2, <2>3, OthersLater DEF TipOf
<1> QED
    BY <1>2, <1>3, <1>4 DEF GitInv, OthersRest

(* One that commits moves its session's head over what was there.           *)
LEMMA HeadStep ==
    ASSUME Setting, GitInv, Grown, StoreInv', NEW w \in Workspaces, OthersRest(w),
           NEW k \in DOMAIN commits', head' = [head EXCEPT ![Home[w]] = k],
           Hist(TipOf(w)) \subseteq Hist(k)', stashed' = stashed,
           w \in Plain => commits'[k].record = RecordOf(TipOf(w)) /\ promised' = promised,
           \A s \in Sessions \ {Home[w]} : promised'[s] = promised[s],
           (WorkInv(w) /\ OpInv(w) /\ PromiseInv(w))'
    PROVE  GitInv'
<1>1. /\ Domains /\ StoreInv /\ HeadInv /\ StashInv
      /\ \A v \in Workspaces : Home[v] \in Sessions /\ Home[v] # Stash /\ TipOf(v) \in DOMAIN commits
    BY DEF GitInv, Setting, Sessions, HeadInv
<1>2. head'[Home[w]] = k /\ \A s \in Sessions \ {Home[w]} : head'[s] = head[s]
    BY <1>1 DEF Domains
<1>3. Stash \in Sessions /\ head'[Stash] = head[Stash]
    BY <1>1, <1>2 DEF Sessions
<1>4. DOMAIN commits \subseteq DOMAIN commits'
    BY DEF Grown
<1>5. HeadInv'
    BY <1>1, <1>2, <1>4 DEF HeadInv, TipOf, Sessions
<1>6. StashInv'
    <2>1. \A c \in DOMAIN commits : Tree(c)' = Tree(c)
        BY DEF Tree, Grown
    <2>2. head[Stash] \in DOMAIN commits \cup {Nil}
        BY <1>1, <1>3 DEF HeadInv
    <2>3. PICK c : c = head[Stash]
        OBVIOUS
    <2>4. Tree(head[Stash])' = Tree(c)'
        BY <1>3, <2>3
    <2> QED
        BY <1>1, <1>3, <2>1, <2>2, <2>3, <2>4 DEF StashInv
<1>7. ASSUME NEW v \in Workspaces \ {w} PROVE (WorkInv(v) /\ OpInv(v) /\ PromiseInv(v))'
    <2>1. PICK t : t = head'[Home[v]]
        OBVIOUS
    <2>2. WritesOn(v) => head'[Stash] # Nil
        BY <1>3 DEF WritesOn
    <2>3. CASE Home[v] = Home[w]
        <3>1. t = k /\ TipOf(v) = TipOf(w)
            BY <1>2, <2>1, <2>3 DEF TipOf
        <3>2. v \notin Plain => w \in Plain
            BY <1>7, <2>3 DEF Setting
        <3>3. v \notin Plain => RecordOf(t)' = RecordOf(TipOf(v)) /\ promised'[Home[v]] = promised[Home[v]]
            BY <3>1, <3>2 DEF RecordOf
        <3> QED
            BY <2>1, <2>2, <3>1, <3>3, OthersLater
    <2>4. CASE Home[v] # Home[w]
        <3>1. t = TipOf(v) /\ t \in DOMAIN commits /\ promised'[Home[v]] = promised[Home[v]]
            BY <1>1, <1>2, <2>1, <2>4 DEF TipOf
        <3>2. Hist(t)' = Hist(t) /\ RecordOf(t)' = RecordOf(t)
            BY <1>1, <3>1, NodeLater DEF RecordOf, Grown
        <3> QED
            BY <2>1, <2>2, <3>1, <3>2, OthersLater
    <2> QED
        BY <2>3, <2>4
<1> QED
    BY <1>5, <1>6, <1>7 DEF GitInv, OthersRest

---------------------------------------------------------------------------
(* What lands                                                               *)

LEMMA Counted ==
    ASSUME StoreInv, NEW x, NEW y
    PROVE  /\ Cardinality(DOMAIN Only(Newest + 1, x)) = 1
           /\ Cardinality(DOMAIN Laid(Only(Newest + 1, x), Only(Newest + 2, y))) = 2
<1>1. Newest \in Nat /\ Newest + 2 \notin {Newest + 1}
    BY DEF StoreInv
<1>2. DOMAIN Only(Newest + 1, x) = {Newest + 1} /\ DOMAIN Only(Newest + 2, y) = {Newest + 2}
    BY OnlyHas
<1>3. DOMAIN Laid(Only(Newest + 1, x), Only(Newest + 2, y)) = {Newest + 1} \cup {Newest + 2}
    BY <1>2 DEF Laid
<1>4. IsFiniteSet({Newest + 1}) /\ Cardinality({Newest + 1}) = 1
    BY FS_Singleton
<1>5. Cardinality({Newest + 1} \cup {Newest + 2}) = 2
    BY <1>1, <1>4, FS_AddElement
<1> QED
    BY <1>2, <1>3, <1>4, <1>5

LEMMA OursHas ==
    ASSUME GitInv, NEW w \in Workspaces, NEW paths
    PROVE  IsTree(OursTree(w, paths))
<1>1. IsPart(Taken(w, paths))
    BY WorkHas, RestPart DEF Taken
<1>2. IsTree(Tree(basis[w]))
    BY WorkHas, TreeOf DEF GitInv
<1> QED
    BY <1>1, <1>2, PartOnTree DEF OursTree

(* Where nothing landed since, a commit is on its base.                     *)
LEMMA LandsStraight ==
    ASSUME Setting, GitInv, NEW w \in Workspaces, NEW paths, NEW tool, NEW named,
           NEW vparent \in DOMAIN commits \cup {Nil}, TipOf(w) = basis[w],
           Lands(w, Landing(w, paths, tool, named, vparent)), NEW k, k = Newest + 1
    PROVE  /\ Grown /\ StoreInv' /\ k \in DOMAIN commits' /\ k # Nil
           /\ head' = [head EXCEPT ![Home[w]] = k] /\ basis' = [basis EXCEPT ![w] = k]
           /\ Hist(TipOf(w)) \subseteq Hist(k)' /\ Hist(basis[w]) \subseteq Hist(k)' /\ k \in Hist(k)'
           /\ commits'[k].tool = tool /\ commits'[k].record = State(w)
<1>1. /\ StoreInv /\ basis[w] \in DOMAIN commits /\ RecordAt(State(w), basis[w])
      /\ IsTree(OursTree(w, paths))
    BY WorkHas, OursHas DEF GitInv
<1>2. PICK b, x : b = basis[w] /\ x = Node(OursTree(w, paths), State(w), tool, named, vparent, {basis[w]})
    OBVIOUS
<1>3. /\ commits' = Laid(Only(k, x), commits)
      /\ head' = [head EXCEPT ![Home[w]] = k] /\ basis' = [basis EXCEPT ![w] = k]
    BY <1>1, <1>2, Counted DEF Lands, Landing
<1>4. /\ Grown /\ k \in Nat /\ DOMAIN commits' = 1 .. k /\ commits'[k] = x
      /\ DOMAIN commits' = DOMAIN commits \cup {k}
    BY <1>1, <1>3, LandOne
<1>5. UNION {commits[c].anc : c \in {b}} = commits[b].anc
    OBVIOUS
<1>6. /\ x.tree = OursTree(w, paths) /\ x.record = State(w) /\ x.tool = tool /\ x.vparent = vparent
      /\ x.from = Nil /\ x.anc = Hist(b)
    BY <1>2, <1>5, NodeHas DEF Hist
<1>7. /\ Hist(b) \subseteq DOMAIN commits
      /\ \A a \in Hist(b) : commits'[a].anc \subseteq Hist(b)
    BY <1>1, <1>2, <1>4, HistHas DEF Grown, Hist
<1>8. NodeInv(k)' /\ Hist(k)' = Hist(b) \cup {k}
    <2>1. IsTree(x.tree) /\ b \in DOMAIN commits /\ RecordAt(x.record, b)
        BY <1>1, <1>2, <1>6
    <2>2. /\ Hist(b) \subseteq x.anc /\ x.anc \subseteq DOMAIN commits'
          /\ \A a \in x.anc : commits'[a].anc \subseteq x.anc
        <3>1. DOMAIN commits \subseteq DOMAIN commits' /\ x.anc = Hist(b)
            BY <1>4, <1>6
        <3> QED
            BY <1>7, <3>1
    <2>3. x.vparent \in DOMAIN commits' \cup {Nil}
        BY <1>4, <1>6
    <2> QED
        BY <1>1, <1>4, <1>6, <2>1, <2>2, <2>3, NewNode
<1>9. StoreInv'
    BY <1>1, <1>4, <1>8, StoreLater
<1> QED
    BY <1>2, <1>3, <1>4, <1>6, <1>8, <1>9 DEF Setting

(* Where others landed, it is merged with what they did.                    *)
LEMMA LandsMerged ==
    ASSUME Setting, GitInv, NEW w \in Workspaces, NEW paths, NEW tool, NEW named,
           NEW vparent \in DOMAIN commits \cup {Nil}, TipOf(w) # basis[w],
           Lands(w, Landing(w, paths, tool, named, vparent)), NEW k, k = Newest + 2
    PROVE  /\ Grown /\ StoreInv' /\ k \in DOMAIN commits' /\ k # Nil
           /\ head' = [head EXCEPT ![Home[w]] = k] /\ basis' = [basis EXCEPT ![w] = k]
           /\ Hist(TipOf(w)) \subseteq Hist(k)' /\ Hist(basis[w]) \subseteq Hist(k)' /\ k \in Hist(k)'
           /\ commits'[k].tool = tool
           /\ commits'[k].record = IF State(w) # RecordOf(basis[w]) THEN State(w) ELSE RecordOf(TipOf(w))
<1>1. /\ StoreInv /\ basis[w] \in DOMAIN commits /\ TipOf(w) \in DOMAIN commits
      /\ RecordAt(State(w), basis[w]) /\ RecordAt(RecordOf(TipOf(w)), TipOf(w))
      /\ Hist(basis[w]) \subseteq Hist(TipOf(w))
      /\ IsTree(OursTree(w, paths)) /\ IsTree(Tree(TipOf(w)))
    BY WorkHas, OursHas, TreeOf DEF GitInv
<1>2. PICK b, t, i, o, n, r, x, y :
          /\ b = basis[w] /\ t = TipOf(w) /\ i = Newest + 1
          /\ o = Node(OursTree(w, paths), State(w), tool, named, vparent, {basis[w]})
          /\ r = IF State(w) # RecordOf(basis[w]) THEN State(w) ELSE RecordOf(TipOf(w))
          /\ n = Node(Merged3(Tree(basis[w]), OursTree(w, paths), Tree(TipOf(w))), r, tool, named, vparent, {TipOf(w)})
          /\ x = [o EXCEPT !.tool = "none", !.vparent = Nil]
          /\ y = [n EXCEPT !.parents = @ \cup {i}, !.anc = @ \cup o.anc \cup {i}]
    OBVIOUS
<1>3. Landing(w, paths, tool, named, vparent) = Laid(Only(i, x), Only(k, y))
    BY <1>2 DEF Landing
<1>4. /\ commits' = Laid(Laid(Only(i, x), Only(k, y)), commits)
      /\ head' = [head EXCEPT ![Home[w]] = k] /\ basis' = [basis EXCEPT ![w] = k]
    <2>1. Cardinality(DOMAIN Laid(Only(i, x), Only(k, y))) = 2
        BY <1>1, <1>2, Counted
    <2>2. Newest + 2 = k /\ Newest \in Nat
        BY <1>1 DEF StoreInv
    <2> QED
        BY <1>3, <2>1, <2>2 DEF Lands
<1>5. /\ Grown /\ k \in Nat /\ DOMAIN commits' = 1 .. k /\ commits'[i] = x /\ commits'[k] = y
      /\ DOMAIN commits' = DOMAIN commits \cup {i, k} /\ i # k
    <2>1. commits' = Laid(Laid(Only(Newest + 1, x), Only(Newest + 2, y)), commits)
        BY <1>2, <1>4
    <2>2. /\ Grown /\ Newest + 2 \in Nat /\ DOMAIN commits' = 1 .. Newest + 2
          /\ commits'[Newest + 1] = x /\ commits'[Newest + 2] = y
          /\ DOMAIN commits' = DOMAIN commits \cup {Newest + 1, Newest + 2} /\ Newest + 1 # Newest + 2
        BY <1>1, <2>1, LandTwo
    <2> QED
        BY <1>2, <2>2
<1>6. /\ UNION {commits[c].anc : c \in {b}} = commits[b].anc
      /\ UNION {commits[c].anc : c \in {t}} = commits[t].anc
    OBVIOUS
<1>7. /\ x.tree = OursTree(w, paths) /\ x.record = State(w) /\ x.vparent = Nil
      /\ x.from = Nil /\ x.anc = Hist(b) /\ o.anc = Hist(b)
    BY <1>2, <1>6, NodeHas DEF Hist
<1>8. /\ y.tree = Merged3(Tree(basis[w]), OursTree(w, paths), Tree(TipOf(w))) /\ y.record = r
      /\ y.tool = tool /\ y.vparent = vparent /\ y.from = Nil
      /\ y.anc = Hist(t) \cup Hist(b) \cup {i}
    BY <1>2, <1>6, <1>7, NodeHas DEF Hist
<1>9. /\ Hist(b) \subseteq DOMAIN commits /\ Hist(t) \subseteq DOMAIN commits
      /\ \A a \in Hist(b) : commits'[a].anc \subseteq Hist(b)
      /\ \A a \in Hist(t) : commits'[a].anc \subseteq Hist(t)
    BY <1>1, <1>2, <1>5, HistHas DEF Grown, Hist
<1>10. NodeInv(i)'
    <2>1. IsTree(x.tree) /\ b \in DOMAIN commits /\ RecordAt(x.record, b)
        BY <1>1, <1>2, <1>7
    <2>2. /\ Hist(b) \subseteq x.anc /\ x.anc \subseteq DOMAIN commits'
          /\ \A a \in x.anc : commits'[a].anc \subseteq x.anc
          /\ x.vparent \in DOMAIN commits' \cup {Nil}
        <3>1. DOMAIN commits \subseteq DOMAIN commits' /\ x.anc = Hist(b) /\ x.vparent = Nil
            BY <1>5, <1>7
        <3> QED
            BY <1>9, <3>1
    <2> QED
        BY <1>1, <1>5, <1>7, <2>1, <2>2, NewNode
<1>11. NodeInv(k)' /\ Hist(k)' = y.anc \cup {k}
    <2>1. IsTree(y.tree)
        BY <1>1, <1>8, MergedTree
    <2>2. \A a \in y.anc : commits'[a].anc \subseteq y.anc
        BY <1>5, <1>7, <1>8, <1>9
    <2>3. y.anc \subseteq DOMAIN commits'
        BY <1>5, <1>8, <1>9
    <2>4. PICK c \in DOMAIN commits : RecordAt(r, c) /\ Hist(c) \subseteq y.anc
        BY <1>1, <1>2, <1>8
    <2> QED
        BY <1>1, <1>5, <1>8, <2>1, <2>2, <2>3, <2>4, NewNode
<1>12. StoreInv'
    BY <1>1, <1>5, <1>10, <1>11, StoreLater
<1> QED
    BY <1>2, <1>4, <1>5, <1>8, <1>11, <1>12 DEF Setting

LEMMA LandingHas ==
    ASSUME Setting, GitInv, NEW w \in Workspaces, NEW paths, NEW tool, NEW named,
           NEW vparent \in DOMAIN commits \cup {Nil},
           Lands(w, Landing(w, paths, tool, named, vparent)), NEW k, k = basis'[w]
    PROVE  /\ Grown /\ StoreInv' /\ k \in DOMAIN commits' /\ k # Nil
           /\ head' = [head EXCEPT ![Home[w]] = k] /\ basis' = [basis EXCEPT ![w] = k]
           /\ Hist(TipOf(w)) \subseteq Hist(k)' /\ Hist(basis[w]) \subseteq Hist(k)' /\ k \in Hist(k)'
           /\ commits'[k].tool = tool
           /\ commits'[k].record = IF TipOf(w) = basis[w] \/ State(w) # RecordOf(basis[w]) THEN State(w) ELSE RecordOf(TipOf(w))
<1>1. w \in DOMAIN basis
    BY DEF GitInv, Domains
<1>2. CASE TipOf(w) = basis[w]
    <2>1. basis' = [basis EXCEPT ![w] = Newest + 1]
        BY <1>2, LandsStraight
    <2>2. k = Newest + 1
        BY <1>1, <2>1
    <2> QED
        BY <1>2, <2>2, LandsStraight
<1>3. CASE TipOf(w) # basis[w]
    <2>1. basis' = [basis EXCEPT ![w] = Newest + 2]
        BY <1>3, LandsMerged
    <2>2. k = Newest + 2
        BY <1>1, <2>1
    <2> QED
        BY <1>3, <2>2, LandsMerged
<1> QED
    BY <1>2, <1>3

---------------------------------------------------------------------------
(* Steps that leave the store alone                                         *)

LEMMA SameStore ==
    ASSUME UNCHANGED store
    PROVE  /\ \A c : Hist(c)' = Hist(c) /\ RecordOf(c)' = RecordOf(c) /\ Tree(c)' = Tree(c)
           /\ \A r, c : RecordAt(r, c) => RecordAt(r, c)'
           /\ \A w : TipOf(w)' = TipOf(w)
           /\ \A t : IsTree(t) => IsTree(t)'
           /\ \A f : IsPart(f) => IsPart(f)'
<1>1. commits' = commits /\ head' = head
    BY DEF store
<1>2. \A h, c : HeadAt(h, c) => HeadAt(h, c)'
    BY <1>1 DEF HeadAt, Hist, IsAgent
<1>3. \A r, c : RecordAt(r, c) => RecordAt(r, c)'
    BY <1>1, <1>2 DEF RecordAt, Records
<1> QED
    BY <1>1, <1>3 DEF Hist, RecordOf, Tree, TipOf, IsTree, IsPart, Contents

LEMMA FreeHas ==
    ASSUME GitInv, NEW w \in Workspaces, Free(w)
    PROVE  /\ ~LandsOn(w) /\ ~RecordsOn(w) /\ ~WritesOn(w) /\ ~DropsOn(w)
           /\ w \notin Plain => State(w).head = promised[Home[w]]
<1>1. ~LandsOn(w) /\ ~RecordsOn(w) /\ ~WritesOn(w) /\ ~DropsOn(w)
    BY DEF Free, NoVerb, LandsOn, RecordsOn, WritesOn, DropsOn
<1> QED
    BY <1>1 DEF GitInv, PromiseInv

LEMMA EditKeeps ==
    ASSUME Setting, GitInv, NEW w \in Workspaces, NEW p \in Paths, NEW v, Edit(w, p, v)
    PROVE  GitInv'
<1>1. /\ Domains /\ WorkInv(w) /\ OpInv(w) /\ PromiseInv(w) /\ Free(w) /\ ~RecordsOn(w)
      /\ files' = [files EXCEPT ![w] = Over(Tree(basis[w]), Only(p, v), @)]
      /\ basis' = basis /\ record' = record /\ op' = op /\ UNCHANGED <<store, story>>
    BY FreeHas DEF GitInv, Edit
<1>2. OthersRest(w) /\ promised' = promised
    BY <1>1 DEF OthersRest, Domains, store, story
<1>3. v \in Contents
    BY DEF Edit, Contents
<1>4. IsPart(files'[w])
    <2>1. IsPart(Only(p, v))
        BY <1>3 DEF IsPart, Only
    <2>2. files'[w] = Over(Tree(basis[w]), Only(p, v), files[w]) /\ IsPart(files[w])
        BY <1>1 DEF Domains, WorkInv
    <2> QED
        BY <2>1, <2>2, OverPart
<1>5. WorkInv(w)'
    BY <1>1, <1>4, SameStore DEF WorkInv, IsPart, Contents
<1>6. Free(w)' /\ OpInv(w)'
    BY <1>1 DEF Free, OpInv
<1>7. PromiseInv(w)'
    BY <1>1, <1>2, SameStore DEF PromiseInv, State
<1> QED
    BY <1>1, <1>2, <1>5, <1>6, <1>7, LocalStep

LEMMA IndexKeeps ==
    ASSUME Setting, GitInv, NEW w \in Workspaces, NEW staged \in SUBSET Paths, SetIndex(w, staged)
    PROVE  GitInv'
<1>1. PICK r : r = [State(w) EXCEPT !.staged = staged]
    OBVIOUS
<1>2. /\ Domains /\ WorkInv(w) /\ OpInv(w) /\ PromiseInv(w) /\ Free(w) /\ ~RecordsOn(w) /\ w \notin Plain
      /\ record' = [record EXCEPT ![w] = IF r = State(w) THEN @ ELSE r]
      /\ basis' = basis /\ files' = files /\ op' = op /\ UNCHANGED <<store, story>>
    BY <1>1, FreeHas DEF GitInv, SetIndex, Starts, WriteRecord
<1>3. OthersRest(w) /\ promised' = promised
    BY <1>2 DEF OthersRest, Domains, store, story
<1>4. RecordAt(State(w), basis[w])
    BY WorkHas
<1>5. r \in Records /\ RecordAt(r, basis[w]) /\ r.head = State(w).head /\ r # Nil
    <2>1. State(w) \in Records
        BY <1>4 DEF RecordAt
    <2>2. /\ r \in Records /\ r.head = State(w).head /\ r.base = State(w).base /\ r.pre = State(w).pre
          /\ r.source = State(w).source /\ r.unresolved = State(w).unresolved
        BY <1>1, <2>1 DEF Records
    <2> QED
        BY <1>4, <2>2 DEF RecordAt, Setting
<1>6. record'[w] = IF r = State(w) THEN record[w] ELSE r
    BY <1>2 DEF Domains
<1>7. RecordAt(r, basis[w])' /\ (record[w] # Nil => RecordAt(record[w], basis[w])')
    <2>1. PICK b, q : b = basis[w] /\ q = record[w]
        OBVIOUS
    <2>2. RecordAt(r, b)' /\ (q # Nil => RecordAt(q, b)')
        BY <1>2, <1>5, <2>1, SameStore DEF WorkInv
    <2> QED
        BY <1>2, <2>1, <2>2
<1>8. WorkInv(w)'
    <2>1. (basis[w] \in Hist(TipOf(w)))'
        BY <1>2, SameStore DEF WorkInv
    <2>2. IsPart(files[w])'
        BY <1>2, SameStore DEF WorkInv
    <2>3. (record[w] # Nil => RecordAt(record[w], basis[w]))'
        BY <1>2, <1>6, <1>7 DEF RecordAt, HeadAt
    <2> QED
        BY <2>1, <2>2, <2>3 DEF WorkInv
<1>9. Free(w)' /\ OpInv(w)'
    BY <1>2 DEF Free, OpInv
<1>10. PromiseInv(w)'
    <2>1. (RecordOf(basis[w]) = RecordOf(TipOf(w)) /\ RecordOf(TipOf(w)).head = promised[Home[w]])'
        BY <1>2, <1>3, SameStore DEF PromiseInv
    <2>2. State(w)'.head = State(w).head
        BY <1>2, <1>5, <1>6, SameStore DEF State
    <2> QED
        BY <1>2, <1>3, <2>1, <2>2 DEF PromiseInv
<1> QED
    BY <1>2, <1>3, <1>8, <1>9, <1>10, LocalStep

LEMMA RecordUp ==
    ASSUME NEW r, NEW c, NEW d, RecordAt(r, c), Hist(c) \subseteq Hist(d)
    PROVE  RecordAt(r, d)
BY DEF RecordAt, HeadAt

(* A step of a verb: what it leaves on the worktree, of its base or of what *)
(* landed since.                                                            *)
LEMMA VerbStep ==
    ASSUME Setting, GitInv, NEW w \in Workspaces \ Plain, UNCHANGED <<store, story>>,
           OthersRest(w), NEW b \in {basis[w], TipOf(w)}, NEW f, NEW r,
           basis'[w] = b, files'[w] = f, record'[w] = r, IsPart(f), r # Nil => RecordAt(r, b), OpInv(w)',
           \/ RecordsOn(w)'
           \/ r # Nil /\ r.head = promised[Home[w]]
           \/ r = Nil
    PROVE  GitInv'
<1>1. /\ Domains /\ WorkInv(w) /\ PromiseInv(w)
      /\ basis[w] \in Hist(TipOf(w)) /\ TipOf(w) \in Hist(TipOf(w)) /\ w \in Workspaces
    BY WorkHas DEF GitInv, Hist
<1>2. promised' = promised
    BY DEF story
<1>3. WorkInv(w)'
    <2>1. (basis[w] \in Hist(TipOf(w)))'
        BY <1>1, <1>2, SameStore
    <2>2. IsPart(files[w])'
        BY <1>2, SameStore
    <2>3. r # Nil => RecordAt(r, b)'
        BY SameStore
    <2> QED
        BY <1>2, <2>1, <2>2, <2>3 DEF WorkInv, RecordAt, HeadAt
<1>4. PromiseInv(w)'
    <2>1. /\ RecordOf(b) = RecordOf(TipOf(w)) /\ RecordOf(TipOf(w)).head = promised[Home[w]]
        BY <1>1 DEF PromiseInv
    <2>2. (RecordOf(basis[w]) = RecordOf(TipOf(w)) /\ RecordOf(TipOf(w)).head = promised[Home[w]])'
        BY <1>2, <2>1, SameStore
    <2>3. State(w)' = IF r # Nil THEN r ELSE RecordOf(b)
        BY SameStore DEF State
    <2> QED
        BY <1>2, <2>1, <2>2, <2>3 DEF PromiseInv
<1> QED
    BY <1>1, <1>2, <1>3, <1>4, LocalStep

LEMMA LandedHas ==
    ASSUME Setting, GitInv, NEW w \in Workspaces, NEW now
    PROVE  RecordAt(Landed(w, now), basis[w]) /\ Landed(w, now).head = State(w).head
<1>1. RecordAt(State(w), basis[w])
    BY WorkHas
<1>2. PICK left : left = {p \in State(w).unresolved :
                            (IF p \in now THEN ViewOf(w) ELSE Tree(Ref(State(w))))[p] = Marked}
    OBVIOUS
<1>3. Landed(w, now) = [State(w) EXCEPT !.staged = {}, !.unresolved = left,
                          !.source = IF left = {} THEN Nil ELSE @, !.pre = IF left = {} THEN Nil ELSE @]
    BY <1>2 DEF Landed
<1>4. State(w) \in Records /\ left \subseteq State(w).unresolved
    BY <1>1, <1>2 DEF RecordAt
<1>5. PICK r : r = Landed(w, now)
    OBVIOUS
<1>6. /\ r \in Records /\ r.head = State(w).head /\ r.base = State(w).base /\ r.unresolved = left
      /\ r.source = IF left = {} THEN Nil ELSE State(w).source
      /\ r.pre = IF left = {} THEN Nil ELSE State(w).pre
    BY <1>3, <1>4, <1>5 DEF Records
<1> QED
    BY <1>1, <1>4, <1>5, <1>6 DEF RecordAt, HeadAt

LEMMA CommitStartKeeps ==
    ASSUME Setting, GitInv, NEW w \in Workspaces, CommitStart(w)
    PROVE  GitInv'
<1>1. PICK named, out, was, f, r, o :
        /\ named = Named(w) /\ out = Modified(w) \ Named(w) /\ was = Tree(Ref(State(w)))
        /\ f = Over(Tree(basis[w]), Laid([p \in out |-> was[p]],
                                        Restrict(ViewOf(w), {q \in Named(w) : ViewOf(w)[q] # Nil})), files[w])
        /\ r = Landed(w, Named(w))
        /\ o = [verb |-> "commit", step |-> "land", named |-> Named(w), out |-> out,
                saw |-> ViewOf(w), old |-> State(w)]
    OBVIOUS
<1>2. /\ Free(w) /\ w \notin Plain /\ Domains /\ UNCHANGED <<store, basis, story>>
      /\ files' = [files EXCEPT ![w] = f] /\ record' = [record EXCEPT ![w] = r] /\ op' = [op EXCEPT ![w] = o]
    BY <1>1 DEF CommitStart, Starts, GitInv
<1>3. /\ RecordAt(State(w), basis[w]) /\ IsTree(ViewOf(w)) /\ IsPart(files[w]) /\ basis[w] \in DOMAIN commits
      /\ State(w).head = promised[Home[w]]
    BY <1>2, WorkHas, FreeHas
<1>4. named \subseteq Paths /\ out \subseteq Paths
    BY <1>1 DEF Named, Modified, Differing
<1>5. IsTree(was)
    <2>1. Ref(State(w)) \in DOMAIN commits \cup {Nil}
        BY <1>3, HistHas DEF RecordAt, HeadAt, Ref, GitInv
    <2> QED
        BY <1>1, <2>1, TreeOf DEF GitInv
<1>6. IsPart(f)
    <2>1. IsPart([p \in out |-> was[p]])
        BY <1>4, <1>5 DEF IsPart, IsTree
    <2>2. IsPart(Restrict(ViewOf(w), {q \in Named(w) : ViewOf(w)[q] # Nil}))
        BY <1>1, <1>3, <1>4 DEF IsPart, IsTree, Restrict
    <2> QED
        BY <1>1, <1>3, <2>1, <2>2, PartOnPart, OverPart
<1>7. RecordAt(r, basis[w]) /\ r.head = promised[Home[w]] /\ r # Nil
    BY <1>1, <1>3, LandedHas DEF RecordAt, Setting
<1>8. OpInv(w)'
    <2>1. op'[w] = o /\ basis'[w] = basis[w] /\ promised' = promised
        BY <1>2 DEF Domains, story
    <2>2. /\ o.verb = "commit" /\ o.step = "land" /\ o.named = named /\ o.out = out
          /\ o.saw = ViewOf(w) /\ o.old = State(w)
        BY <1>1
    <2>3. PICK t, q, b : t = ViewOf(w) /\ q = State(w) /\ b = basis[w]
        OBVIOUS
    <2>4. IsTree(t)' /\ RecordAt(q, b)'
        BY <1>2, <1>3, <2>3, SameStore
    <2>5. LandsOn(w)'
        BY <1>3, <1>4, <2>1, <2>2, <2>3, <2>4 DEF LandsOn
    <2> QED
        BY <1>2, <2>5 DEF OpInv
<1>9. /\ OthersRest(w) /\ basis'[w] = basis[w] /\ files'[w] = f /\ record'[w] = r
    BY <1>2 DEF OthersRest, Domains, store, story
<1> QED
    BY <1>2, <1>6, <1>7, <1>8, <1>9, VerbStep

LEMMA BusyHas ==
    ASSUME GitInv, NEW w \in Workspaces
    PROVE  /\ op[w].verb = "commit" /\ op[w].step = "land" => LandsOn(w) /\ w \notin Plain
           /\ ~Free(w) /\ op[w].step \in {"record", "refresh", "again"} => RecordsOn(w) /\ w \notin Plain
           /\ op[w].verb = "stash" /\ op[w].step = "write" => WritesOn(w) /\ w \notin Plain
           /\ op[w].verb = "pop" /\ op[w].step = "drop" => DropsOn(w) /\ w \notin Plain
           /\ ~Free(w) => w \notin Plain
           /\ w \notin Plain /\ ~RecordsOn(w) => State(w).head = promised[Home[w]]
BY DEF GitInv, OpInv, PromiseInv, Free, NoVerb, LandsOn, RecordsOn, WritesOn, DropsOn

LEMMA PutBackPart ==
    ASSUME NEW w, NEW t, op[w].out \subseteq Paths, op[w].out # {} => IsTree(t)
    PROVE  IsPart(PutBack(w, t))
BY DEF IsPart, IsTree, PutBack

LEMMA CommitRefusedKeeps ==
    ASSUME Setting, GitInv, NEW w \in Workspaces, NEW ok, CommitLand(w, ok),
           Refuses(w, op[w].named \cup op[w].out, ok)
    PROVE  GitInv'
<1>1. PICK f, r : f = Over(Tree(basis[w]), PutBack(w, op[w].saw), files[w]) /\ r = op[w].old
    OBVIOUS
<1>2. /\ LandsOn(w) /\ w \notin Plain /\ Domains /\ UNCHANGED <<store, basis, story>> /\ IsPart(files[w])
      /\ files' = [files EXCEPT ![w] = f] /\ record' = [record EXCEPT ![w] = r] /\ op' = [op EXCEPT ![w] = NoVerb]
    BY <1>1, BusyHas, WorkHas DEF CommitLand, GitInv
<1>3. IsPart(f)
    BY <1>1, <1>2, PutBackPart, OverPart DEF LandsOn
<1>4. RecordAt(r, basis[w]) /\ r.head = promised[Home[w]] /\ r # Nil
    BY <1>1, <1>2 DEF LandsOn, RecordAt, Setting
<1>5. OthersRest(w) /\ basis'[w] = basis[w] /\ files'[w] = f /\ record'[w] = r /\ op'[w] = NoVerb
    BY <1>2 DEF OthersRest, Domains, store, story
<1>6. OpInv(w)'
    BY <1>2, <1>5 DEF OpInv, Free
<1> QED
    BY <1>2, <1>3, <1>4, <1>5, <1>6, VerbStep

LEMMA HeadSet ==
    ASSUME NEW r, NEW c, NEW k \in Nat, RecordAt(r, c)', k \in Hist(c)', IsAgent(k)',
           NEW q, q = [r EXCEPT !.head = k]
    PROVE  RecordAt(q, c)' /\ q.head = k
<1>1. r \in Records
    BY DEF RecordAt, Records
<1>2. /\ q \in Records /\ q.head = k /\ q.base = r.base /\ q.pre = r.pre
      /\ q.source = r.source /\ q.unresolved = r.unresolved
    BY <1>1 DEF Records
<1> QED
    BY <1>2 DEF RecordAt, HeadAt, Records

LEMMA CommitLandsKeeps ==
    ASSUME Setting, GitInv, NEW w \in Workspaces, NEW ok, CommitLand(w, ok),
           ~Refuses(w, op[w].named \cup op[w].out, ok)
    PROVE  GitInv'
<1>1. PICK keys, k, b, f, q, old :
        /\ keys = op[w].named \cup op[w].out /\ k = basis'[w] /\ b = basis[w] /\ old = op[w].old
        /\ f = Over(commits'[basis'[w]].tree, PutBack(w, op[w].saw), Rest(w, keys))
        /\ q = [State(w) EXCEPT !.head = basis'[w]]
    OBVIOUS
<1>2. /\ LandsOn(w) /\ w \notin Plain /\ Domains /\ PromiseInv(w) /\ UNCHANGED story
      /\ Lands(w, Landing(w, keys, "commit", op[w].named, old.head))
      /\ files' = [files EXCEPT ![w] = f] /\ record' = [record EXCEPT ![w] = q]
      /\ op' = [op EXCEPT ![w] = [verb |-> "commit", step |-> "record", landed |-> basis'[w],
                                  state |-> record'[w], tree |-> op[w].saw, out |-> op[w].out,
                                  named |-> op[w].named, saw |-> op[w].saw, old |-> op[w].old]]
    BY <1>1, BusyHas DEF CommitLand, GitInv
<1>3. /\ StoreInv /\ RecordAt(State(w), b) /\ b \in DOMAIN commits /\ IsPart(files[w])
      /\ State(w).head = promised[Home[w]] /\ RecordAt(old, b)
    BY <1>1, <1>2, WorkHas, BusyHas DEF GitInv, LandsOn, RecordsOn
<1>4. old.head \in DOMAIN commits \cup {Nil}
    BY <1>1, <1>3, HistHas DEF RecordAt, HeadAt
<1>5. /\ Grown /\ StoreInv' /\ k \in DOMAIN commits' /\ k # Nil
      /\ head' = [head EXCEPT ![Home[w]] = k] /\ basis' = [basis EXCEPT ![w] = k]
      /\ Hist(TipOf(w)) \subseteq Hist(k)' /\ Hist(b) \subseteq Hist(k)' /\ k \in Hist(k)'
      /\ commits'[k].tool = "commit"
      /\ commits'[k].record = IF TipOf(w) = basis[w] \/ State(w) # RecordOf(basis[w]) THEN State(w) ELSE RecordOf(TipOf(w))
    <2>1. Lands(w, Landing(w, keys, "commit", op[w].named, old.head)) /\ k = basis'[w]
        BY <1>1, <1>2
    <2>2. /\ Grown /\ StoreInv' /\ k \in DOMAIN commits' /\ k # Nil
          /\ head' = [head EXCEPT ![Home[w]] = k] /\ basis' = [basis EXCEPT ![w] = k]
          /\ Hist(TipOf(w)) \subseteq Hist(k)' /\ Hist(basis[w]) \subseteq Hist(k)' /\ k \in Hist(k)'
          /\ commits'[k].tool = "commit"
          /\ commits'[k].record = IF TipOf(w) = basis[w] \/ State(w) # RecordOf(basis[w]) THEN State(w)
                                  ELSE RecordOf(TipOf(w))
        BY <1>4, <2>1, LandingHas
    <2> QED
        BY <1>1, <2>2
<1>6. /\ OthersRest(w) /\ basis'[w] = k /\ files'[w] = f /\ record'[w] = q
      /\ promised' = promised /\ stashed' = stashed /\ head'[Home[w]] = k
    BY <1>2, <1>5, WorkHas DEF OthersRest, Domains, story
<1>7. IsPart(f)
    <2>1. IsPart(Rest(w, keys))
        BY <1>3, RestPart DEF Rest
    <2>2. IsPart(PutBack(w, op[w].saw))
        BY <1>2, PutBackPart DEF LandsOn
    <2> QED
        BY <1>1, <2>1, <2>2, OverPart
<1>8. RecordAt(q, k)' /\ RecordAt(old, k)' /\ q # Nil
    <2>1. PICK s : s = State(w)
        OBVIOUS
    <2>2. RecordAt(s, k)' /\ RecordAt(old, k)'
        BY <1>3, <1>5, <2>1, RecordLater
    <2>3. k \in Nat
        BY <1>5 DEF StoreInv
    <2>4. IsAgent(k)'
        BY <1>5 DEF IsAgent, AgentTools
    <2>5. RecordAt(q, k)'
        BY <1>1, <1>5, <2>1, <2>2, <2>3, <2>4, HeadSet
    <2> QED
        BY <2>2, <2>5 DEF RecordAt, Setting, Records, Sessions
<1>9. WorkInv(w)'
    <2>1. (basis[w] \in Hist(TipOf(w)))'
        BY <1>5, <1>6 DEF TipOf
    <2> QED
        BY <1>6, <1>7, <1>8, <2>1 DEF WorkInv, IsPart, Contents
<1>10. RecordsOn(w)'
    <2>1. PICK o : o = op'[w]
        OBVIOUS
    <2>2. /\ o.verb = "commit" /\ o.step = "record" /\ "step" \in DOMAIN o /\ o.state = q /\ o.old = old
          /\ o.tree = op[w].saw /\ o.saw = op[w].saw /\ o.out = op[w].out
        BY <1>1, <1>2, <1>6, <2>1 DEF Domains
    <2>3. o.out \subseteq Paths /\ IsTree(o.saw)' /\ IsTree(o.tree)'
        BY <1>2, <2>2 DEF LandsOn, IsTree, Contents
    <2>4. RecordAt(o.old, k)' /\ o.old.head = promised'[Home[w]]
        BY <1>1, <1>2, <1>6, <1>8, <2>2 DEF LandsOn
    <2>5. RecordAt(o.state, k)' /\ record'[w] = o.state
        BY <1>6, <1>8, <2>2
    <2> QED
        BY <1>6, <2>1, <2>2, <2>3, <2>4, <2>5 DEF RecordsOn
<1>11. OpInv(w)'
    BY <1>2, <1>10 DEF OpInv
<1>12. PromiseInv(w)'
    <2>1. RecordOf(k)'.head = promised[Home[w]]
        BY <1>2, <1>3, <1>5 DEF PromiseInv, RecordOf
    <2> QED
        BY <1>5, <1>6, <1>10, <2>1 DEF PromiseInv, TipOf
<1> QED
    BY <1>2, <1>5, <1>6, <1>9, <1>11, <1>12, HeadStep

LEMMA RecordLandsKeeps ==
    ASSUME Setting, GitInv, NEW w \in Workspaces, NEW ok, NEW step \in {"record", "again"},
           RecordLands(w, ok, step)
    PROVE  GitInv'
<1>1. PICK k, b, o : k = basis'[w] /\ b = basis[w] /\ o = op[w]
    OBVIOUS
<1>2. /\ RecordsOn(w) /\ w \notin Plain /\ Domains /\ PromiseInv(w) /\ IsPart(files[w])
      /\ Lands(w, Landing(w, o.out, "record", {}, Nil))
      /\ files' = [files EXCEPT ![w] = Rest(w, o.out)] /\ record' = [record EXCEPT ![w] = Nil]
      /\ Done(w) /\ stashed' = stashed /\ Home[w] \in Sessions
    BY <1>1, BusyHas, WorkHas DEF RecordLands, GitInv
<1>3. /\ record[w] = o.state /\ RecordAt(o.state, b) /\ State(w) = o.state
    BY <1>1, <1>2 DEF RecordsOn, State, RecordAt, Setting
<1>4. /\ Grown /\ StoreInv' /\ k \in DOMAIN commits' /\ k # Nil
      /\ head' = [head EXCEPT ![Home[w]] = k] /\ basis' = [basis EXCEPT ![w] = k]
      /\ Hist(TipOf(w)) \subseteq Hist(k)' /\ k \in Hist(k)'
      /\ commits'[k].record = IF TipOf(w) = basis[w] \/ State(w) # RecordOf(basis[w]) THEN State(w) ELSE RecordOf(TipOf(w))
    BY <1>1, <1>2, LandingHas
<1>5. commits'[k].record = o.state
    BY <1>2, <1>3, <1>4 DEF PromiseInv
<1>6. /\ OthersRest(w) /\ basis'[w] = k /\ files'[w] = Rest(w, o.out) /\ record'[w] = Nil
      /\ head'[Home[w]] = k /\ promised'[Home[w]] = o.state.head
      /\ \A s \in Sessions \ {Home[w]} : promised'[s] = promised[s]
    BY <1>1, <1>2, <1>4 DEF OthersRest, Domains, Done
<1>7. WorkInv(w)'
    <2>1. (basis[w] \in Hist(TipOf(w)))'
        BY <1>4, <1>6 DEF TipOf
    <2>2. IsPart(Rest(w, o.out))
        BY <1>2, RestPart DEF Rest
    <2> QED
        BY <1>6, <2>1, <2>2 DEF WorkInv, IsPart, Contents
<1>8. PromiseInv(w)'
    <2>1. RecordOf(k)'.head = promised'[Home[w]]
        BY <1>5, <1>6 DEF RecordOf
    <2> QED
        BY <1>6, <2>1 DEF PromiseInv, State, TipOf
<1>9. OpInv(w)'
    <2>1. CASE o.verb = "pop" /\ o.state.unresolved = {}
        <3>1. PICK d : d = op'[w]
            OBVIOUS
        <3>2. d = [o EXCEPT !.step = "drop"]
            BY <1>1, <1>2, <2>1, <3>1 DEF Done, Domains
        <3>3. d.step = "drop" /\ d.verb = "pop" /\ "stash" \in Verbs
            BY <1>1, <1>2, <2>1, <3>2 DEF RecordsOn
        <3> QED
            BY <1>2, <3>1, <3>3 DEF OpInv, DropsOn
    <2>2. CASE ~(o.verb = "pop" /\ o.state.unresolved = {})
        BY <1>1, <1>2, <2>2 DEF Done, Domains, OpInv, Free
    <2> QED
        BY <2>1, <2>2
<1> QED
    BY <1>2, <1>4, <1>6, <1>7, <1>8, <1>9, HeadStep

(* One more try at it: what the verb left stays on the worktree.            *)
LEMMA RecordsLater ==
    ASSUME GitInv, NEW w \in Workspaces, RecordsOn(w), UNCHANGED <<store, story>>,
           NEW b, b = basis'[w], Hist(basis[w]) \subseteq Hist(b), NEW step \in {"refresh", "again"},
           NEW o, o = op[w], op'[w] = [o EXCEPT !.step = step], record'[w] = o.state
    PROVE  RecordsOn(w)'
<1>1. PICK d : d = op'[w]
    OBVIOUS
<1>2. /\ d.step = step /\ d.verb = o.verb /\ DOMAIN d = DOMAIN o /\ d.out = o.out /\ d.saw = o.saw
      /\ d.tree = o.tree /\ d.state = o.state /\ d.old = o.old
    BY <1>1 DEF RecordsOn
<1>3. RecordAt(o.old, b)' /\ RecordAt(o.state, b)'
    BY RecordUp, SameStore DEF RecordsOn
<1>4. IsTree(o.saw)' /\ (o.out # {} => IsTree(o.tree)')
    BY SameStore DEF RecordsOn
<1>5. promised' = promised
    BY DEF story
<1> QED
    BY <1>1, <1>2, <1>3, <1>4, <1>5 DEF RecordsOn

LEMMA RecordRefusedKeeps ==
    ASSUME Setting, GitInv, NEW w \in Workspaces, NEW ok, RecordRefused(w, ok)
    PROVE  GitInv'
<1>1. PICK b, o : b = basis[w] /\ o = op[w]
    OBVIOUS
<1>2. /\ RecordsOn(w) /\ w \notin Plain /\ Domains /\ UNCHANGED <<store, basis, files, record, story>>
      /\ op' = [op EXCEPT ![w].step = "refresh"] /\ IsPart(files[w])
    BY BusyHas, WorkHas DEF RecordRefused, GitInv, worktrees
<1>3. /\ OthersRest(w) /\ basis'[w] = b /\ files'[w] = files[w] /\ record'[w] = o.state
      /\ op'[w] = [o EXCEPT !.step = "refresh"]
    BY <1>1, <1>2 DEF OthersRest, Domains, store, story, RecordsOn
<1>4. RecordsOn(w)'
    BY <1>1, <1>2, <1>3, RecordsLater
<1>5. OpInv(w)'
    BY <1>2, <1>4 DEF OpInv
<1> QED
    BY <1>1, <1>2, <1>3, <1>4, <1>5, VerbStep DEF RecordsOn

LEMMA RecordRefreshKeeps ==
    ASSUME Setting, GitInv, NEW w \in Workspaces, RecordRefresh(w)
    PROVE  GitInv'
<1>1. PICK b, o, f : b = TipOf(w) /\ o = op[w] /\ f = Over(Tree(TipOf(w)), PutBack(w, op[w].tree), <<>>)
    OBVIOUS
<1>2. /\ RecordsOn(w) /\ w \notin Plain /\ Domains /\ UNCHANGED <<store, story>>
      /\ basis' = [basis EXCEPT ![w] = b] /\ files' = [files EXCEPT ![w] = f]
      /\ record' = [record EXCEPT ![w] = o.state]
      /\ op' = [op EXCEPT ![w].step = "again"] /\ Hist(basis[w]) \subseteq Hist(b)
    BY <1>1, BusyHas, WorkHas DEF RecordRefresh, GitInv
<1>3. /\ OthersRest(w) /\ basis'[w] = b /\ files'[w] = f /\ record'[w] = o.state
      /\ op'[w] = [o EXCEPT !.step = "again"]
    BY <1>1, <1>2 DEF OthersRest, Domains, store, story
<1>4. RecordsOn(w)'
    BY <1>1, <1>2, <1>3, RecordsLater
<1>5. OpInv(w)'
    BY <1>2, <1>4 DEF OpInv
<1>6. RecordAt(o.state, b)
    BY <1>1, <1>2, RecordUp DEF RecordsOn
<1>7. IsPart(f)
    BY <1>1, <1>2, PutBackPart, EmptyPart, OverPart DEF RecordsOn
<1> QED
    BY <1>1, <1>2, <1>3, <1>4, <1>5, <1>6, <1>7, VerbStep

LEMMA RecordLostKeeps ==
    ASSUME Setting, GitInv, NEW w \in Workspaces, NEW ok, RecordLost(w, ok)
    PROVE  GitInv'
<1>1. PICK f, r :
        /\ f = IF op[w].landed # Nil THEN files[w] ELSE Over(Tree(basis[w]), PutBack(w, op[w].saw), files[w])
        /\ r = IF op[w].landed # Nil THEN Nil ELSE op[w].old
    OBVIOUS
<1>2. /\ RecordsOn(w) /\ w \notin Plain /\ Domains /\ UNCHANGED <<store, basis, story>> /\ IsPart(files[w])
      /\ op' = [op EXCEPT ![w] = NoVerb] /\ record' = [record EXCEPT ![w] = r]
      /\ IF op[w].landed # Nil THEN files' = files ELSE files' = [files EXCEPT ![w] = f]
    BY <1>1, BusyHas, WorkHas DEF RecordLost, GitInv
<1>3. /\ OthersRest(w) /\ basis'[w] = basis[w] /\ files'[w] = f /\ record'[w] = r /\ op'[w] = NoVerb
    BY <1>1, <1>2 DEF OthersRest, Domains, store, story
<1>4. IsPart(f)
    BY <1>1, <1>2, PutBackPart, OverPart DEF RecordsOn
<1>5. r # Nil => RecordAt(r, basis[w]) /\ r.head = promised[Home[w]]
    BY <1>1, <1>2 DEF RecordsOn
<1>6. OpInv(w)'
    BY <1>2, <1>3 DEF OpInv, Free
<1> QED
    BY <1>2, <1>3, <1>4, <1>5, <1>6, VerbStep

LEMMA CrashKeeps ==
    ASSUME Setting, GitInv, NEW w \in Workspaces, Crash(w)
    PROVE  GitInv'
<1>1. /\ w \notin Plain /\ Domains /\ UNCHANGED <<store, story>>
      /\ basis' = [basis EXCEPT ![w] = TipOf(w)] /\ files' = [files EXCEPT ![w] = <<>>]
      /\ record' = [record EXCEPT ![w] = Nil] /\ op' = [op EXCEPT ![w] = NoVerb]
    BY BusyHas DEF Crash, GitInv
<1>2. /\ OthersRest(w) /\ basis'[w] = TipOf(w) /\ files'[w] = <<>> /\ record'[w] = Nil /\ op'[w] = NoVerb
    BY <1>1 DEF OthersRest, Domains, store, story
<1>3. OpInv(w)'
    BY <1>1, <1>2 DEF OpInv, Free
<1> QED
    BY <1>1, <1>2, <1>3, EmptyPart, VerbStep

(* A checkout goes on to commit its record.                                 *)
LEMMA CheckoutHas ==
    ASSUME Setting, GitInv, Grown, NEW w \in Workspaces \ Plain, ~RecordsOn(w),
           NEW c, HeadAt(c, basis[w]), NEW verb, verb \notin {"none", "pop"}, CheckoutTo(w, c, verb),
           basis' = basis, Domains', promised' = promised
    PROVE  /\ OthersRest(w) /\ OpInv(w)' /\ RecordsOn(w)' /\ IsPart(files'[w])
           /\ record'[w] # Nil /\ RecordAt(record'[w], basis[w])
<1>1. PICK b, old, saw, out, r, o, f :
        /\ b = basis[w] /\ old = State(w) /\ saw = ViewOf(w) /\ out = Differing(ViewOf(w), Tree(c))
        /\ r = [State(w) EXCEPT !.head = c, !.staged = {}, !.source = Nil, !.unresolved = {}, !.pre = Nil]
        /\ o = [verb |-> verb, step |-> "record", landed |-> Nil, state |-> r,
                tree |-> Tree(c), out |-> out, saw |-> ViewOf(w), old |-> State(w)]
        /\ f = Over(Tree(basis[w]), [p \in out |-> Tree(c)[p]], files[w])
    OBVIOUS
<1>2. op' = [op EXCEPT ![w] = o] /\ files' = [files EXCEPT ![w] = f] /\ record' = [record EXCEPT ![w] = r]
    BY <1>1 DEF CheckoutTo
<1>3. /\ Domains /\ StoreInv /\ RecordAt(old, b) /\ IsTree(saw) /\ IsPart(files[w]) /\ b \in DOMAIN commits
      /\ old.head = promised[Home[w]]
    BY <1>1, WorkHas, BusyHas DEF GitInv
<1>4. OthersRest(w) /\ op'[w] = o /\ files'[w] = f /\ record'[w] = r
    BY <1>2, <1>3 DEF OthersRest, Domains
<1>5. c \in DOMAIN commits \cup {Nil} /\ IsTree(Tree(c)) /\ out \subseteq Paths
    <2>1. c \in DOMAIN commits \cup {Nil}
        BY <1>1, <1>3, HistHas DEF HeadAt
    <2> QED
        BY <1>1, <1>3, <2>1, TreeOf DEF Differing
<1>6. IsPart(f)
    <2>1. IsPart([p \in out |-> Tree(c)[p]])
        BY <1>5 DEF IsPart, IsTree
    <2> QED
        BY <1>1, <1>3, <2>1, OverPart
<1>7. r \in Records /\ RecordAt(r, b) /\ r # Nil
    <2>1. old \in Records /\ c \in Nat \cup {Nil}
        BY <1>3, <1>5 DEF RecordAt, StoreInv
    <2>2. /\ r \in Records /\ r.head = c /\ r.base = old.base /\ r.pre = Nil
          /\ r.source = Nil /\ r.unresolved = {}
        BY <1>1, <2>1 DEF Records
    <2> QED
        BY <1>1, <1>3, <2>2 DEF RecordAt, HeadAt, Setting
<1>8. RecordAt(r, b)' /\ RecordAt(old, b)'
    BY <1>3, <1>7, NodeLater, RecordLater
<1>9. RecordsOn(w)'
    <2>1. /\ o.verb = verb /\ o.step = "record" /\ "step" \in DOMAIN o /\ o.state = r /\ o.old = old
          /\ o.tree = Tree(c) /\ o.saw = saw /\ o.out = out
        BY <1>1
    <2>2. PICK t : t = Tree(c)
        OBVIOUS
    <2>3. IsTree(saw)' /\ IsTree(t)'
        BY <1>3, <1>5, <2>2 DEF IsTree, Contents
    <2>4. basis'[w] = b
        BY <1>1
    <2> QED
        BY <1>3, <1>4, <1>5, <1>8, <2>1, <2>2, <2>3, <2>4 DEF RecordsOn
<1> QED
    BY <1>1, <1>4, <1>6, <1>7, <1>9 DEF OpInv

LEMMA CheckoutKeeps ==
    ASSUME Setting, GitInv, NEW w \in Workspaces \ Plain, Free(w), NEW c, HeadAt(c, basis[w]),
           NEW verb, verb \notin {"none", "pop"}, CheckoutTo(w, c, verb), UNCHANGED <<store, basis, story>>
    PROVE  GitInv'
<1>1. Grown /\ Domains /\ ~RecordsOn(w)
    BY FreeHas DEF Grown, GitInv, store
<1>2. Domains' /\ promised' = promised
    BY <1>1 DEF Domains, CheckoutTo, store, story
<1>3. /\ OthersRest(w) /\ OpInv(w)' /\ RecordsOn(w)' /\ IsPart(files'[w])
      /\ record'[w] # Nil /\ RecordAt(record'[w], basis[w])
    BY <1>1, <1>2, CheckoutHas
<1>4. PICK f, r, b : f = files'[w] /\ r = record'[w] /\ b = basis[w]
    OBVIOUS
<1> QED
    BY <1>3, <1>4, VerbStep

LEMMA CheckoutsKeep ==
    ASSUME Setting, GitInv, NEW w \in Workspaces, NEW c, Checkout(w, c) \/ Abort(w)
    PROVE  GitInv'
<1>1. Free(w) /\ w \in Workspaces \ Plain
    BY DEF Checkout, Abort, Starts
<1>2. CASE Checkout(w, c)
    <2>1. HeadAt(c, basis[w])
        BY <1>2 DEF Checkout, Own, HeadAt, Hist
    <2> QED
        BY <1>1, <1>2, <2>1, CheckoutKeeps DEF Checkout
<1>3. CASE Abort(w)
    <2>1. HeadAt(GoneBackTo(w), basis[w])
        BY WorkHas DEF GoneBackTo, RecordAt
    <2> QED
        BY <1>1, <1>3, <2>1, CheckoutKeeps DEF Abort
<1> QED
    BY <1>2, <1>3

LEMMA SaveKeeps ==
    ASSUME Setting, GitInv, NEW w \in Workspaces, Save(w)
    PROVE  GitInv'
<1>1. PICK k : k = basis'[w]
    OBVIOUS
<1>2. /\ Free(w) /\ ~RecordsOn(w) /\ Domains /\ PromiseInv(w) /\ OpInv(w) /\ UNCHANGED <<op, story>>
      /\ Lands(w, Landing(w, Paths, "none", {}, Nil))
      /\ files' = [files EXCEPT ![w] = <<>>] /\ record' = [record EXCEPT ![w] = Nil]
    BY FreeHas DEF Save, GitInv
<1>3. /\ Grown /\ StoreInv' /\ k \in DOMAIN commits' /\ k # Nil
      /\ head' = [head EXCEPT ![Home[w]] = k] /\ basis' = [basis EXCEPT ![w] = k]
      /\ Hist(TipOf(w)) \subseteq Hist(k)' /\ k \in Hist(k)'
      /\ commits'[k].record = IF TipOf(w) = basis[w] \/ State(w) # RecordOf(basis[w]) THEN State(w) ELSE RecordOf(TipOf(w))
    BY <1>1, <1>2, LandingHas
<1>4. /\ OthersRest(w) /\ basis'[w] = k /\ files'[w] = <<>> /\ record'[w] = Nil /\ op'[w] = op[w]
      /\ promised' = promised /\ stashed' = stashed /\ head'[Home[w]] = k
    BY <1>2, <1>3, WorkHas DEF OthersRest, Domains, story
<1>5. WorkInv(w)'
    <2>1. (basis[w] \in Hist(TipOf(w)))'
        BY <1>3, <1>4 DEF TipOf
    <2> QED
        BY <1>4, <2>1 DEF WorkInv, IsPart
<1>6. OpInv(w)'
    BY <1>2, <1>4 DEF OpInv, Free
<1>7. PromiseInv(w)'
    <2>1. w \notin Plain => RecordOf(k)'.head = promised[Home[w]]
        BY <1>2, <1>3 DEF PromiseInv, RecordOf
    <2> QED
        BY <1>4, <2>1 DEF PromiseInv, State, TipOf
<1>8. w \in Plain => commits'[k].record = RecordOf(TipOf(w))
    BY <1>2, <1>3 DEF OpInv, State
<1> QED
    BY <1>3, <1>4, <1>5, <1>6, <1>7, <1>8, HeadStep

---------------------------------------------------------------------------
(* Work brought across                                                      *)

LEMMA BringKeeps ==
    ASSUME Setting, GitInv, NEW w \in Workspaces \ Plain, Free(w), basis[w] = TipOf(w),
           NEW o, NEW t, IsTree(t), NEW verb, verb # "none", verb = "pop" => "stash" \in Verbs,
           NEW tool \in AgentTools, NEW source \in Sessions, NEW from,
           from # Nil => from \in DOMAIN commits /\ (IsAgent(from) \/ RecordOf(from).head = Nil),
           Bring(w, o, t, verb, tool, source, from), files' = files, UNCHANGED story
    PROVE  GitInv'
<1>1. PICK b, s, ps, k, old, marked, merged, r, m, n, x :
        /\ b = basis[w] /\ s = State(w) /\ ps = {basis[w], from} \ {Nil} /\ k = Newest + 1 /\ old = State(w)
        /\ marked = Contested(o, Tree(basis[w]), t) /\ merged = TextMerge(o, Tree(basis[w]), t)
        /\ r = [State(w) EXCEPT !.head = k, !.source = IF marked = {} THEN Nil ELSE source,
                                !.unresolved = marked, !.pre = IF marked = {} THEN Nil ELSE State(w).head]
        /\ m = Node(merged, State(w), tool, {}, State(w).head, ps)
        /\ n = [m EXCEPT !.from = from]
        /\ x = [verb |-> verb, step |-> "record", landed |-> k, state |-> r,
                tree |-> <<>>, out |-> {}, saw |-> merged, old |-> State(w)]
    OBVIOUS
<1>2. /\ Lands(w, Only(k, n)) /\ record' = [record EXCEPT ![w] = r] /\ op' = [op EXCEPT ![w] = x]
    BY <1>1 DEF Bring
<1>3. /\ Domains /\ StoreInv /\ PromiseInv(w) /\ RecordAt(s, b) /\ b \in DOMAIN commits /\ IsPart(files[w])
      /\ s.head = promised[Home[w]] /\ Home[w] \in Sessions /\ IsTree(Tree(b)) /\ Newest \in Nat
    BY <1>1, WorkHas, FreeHas, TreeOf DEF GitInv, StoreInv
<1>4. /\ commits' = Laid(Only(k, n), commits)
      /\ head' = [head EXCEPT ![Home[w]] = k] /\ basis' = [basis EXCEPT ![w] = k]
    <2>1. Cardinality(DOMAIN Only(k, n)) = 1
        BY <1>1, <1>3, Counted
    <2> QED
        BY <1>1, <1>2, <1>3, <2>1 DEF Lands
<1>5. /\ Grown /\ k \in Nat /\ k \notin DOMAIN commits /\ DOMAIN commits' = 1 .. k /\ commits'[k] = n
      /\ DOMAIN commits' = DOMAIN commits \cup {k}
    BY <1>1, <1>3, <1>4, LandOne
<1>6. /\ n.tree = merged /\ n.record = s /\ n.tool = tool /\ n.vparent = s.head /\ n.from = from
      /\ n.anc = ps \cup UNION {commits[c].anc : c \in ps}
    BY <1>1, NodeHas
<1>7. /\ Hist(b) \subseteq n.anc /\ n.anc \subseteq DOMAIN commits
      /\ \A a \in n.anc : commits'[a].anc \subseteq n.anc
    <2>1. b \in ps /\ ps \subseteq DOMAIN commits
        BY <1>1, <1>3 DEF Setting, StoreInv
    <2>2. \A a \in n.anc : \E c \in ps : a \in Hist(c)
        BY <1>6 DEF Hist
    <2>3. \A c \in ps : Hist(c) \subseteq n.anc
        BY <1>6 DEF Hist
    <2>4. \A c \in ps : \A a \in Hist(c) : a \in DOMAIN commits /\ commits[a].anc \subseteq Hist(c)
        BY <1>3, <2>1, HistHas DEF Hist
    <2> QED
        BY <1>5, <2>1, <2>2, <2>3, <2>4 DEF Grown
<1>8. s.head \in DOMAIN commits \cup {Nil}
    BY <1>3, HistHas DEF RecordAt, HeadAt
<1>9. IsTree(merged) /\ marked \subseteq Paths
    BY <1>1, <1>3, MergedTree
<1>10. NodeInv(k)' /\ Hist(k)' = n.anc \cup {k}
    <2>1. n.anc \subseteq DOMAIN commits' /\ n.vparent \in DOMAIN commits' \cup {Nil}
        BY <1>5, <1>6, <1>7, <1>8
    <2>2. RecordAt(n.record, b) /\ IsTree(n.tree)
        BY <1>3, <1>6, <1>9
    <2>3. n.from # Nil => n.from \in DOMAIN commits /\ (IsAgent(n.from) \/ RecordOf(n.from).head = Nil)
        BY <1>6
    <2> QED
        BY <1>3, <1>5, <1>7, <2>1, <2>2, <2>3, NewNode
<1>11. StoreInv'
    BY <1>3, <1>5, <1>10, StoreLater
<1>12. RecordAt(s, k)' /\ RecordAt(r, k)' /\ r # Nil
    <2>1. RecordAt(s, k)'
        BY <1>3, <1>5, <1>7, <1>10, RecordLater
    <2>2. s \in Records /\ s.head \in Nat \cup {Nil}
        BY <1>3 DEF RecordAt, Records
    <2>3. /\ r \in Records /\ r.head = k /\ r.base = s.base /\ r.unresolved = marked
          /\ r.source = IF marked = {} THEN Nil ELSE source
          /\ r.pre = IF marked = {} THEN Nil ELSE s.head
        BY <1>1, <1>5, <1>9, <2>2 DEF Records
    <2>4. HeadAt(k, k)'
        BY <1>5, <1>6, <1>10 DEF HeadAt, IsAgent
    <2>5. source # Nil
        BY DEF Setting
    <2>6. HeadAt(s.head, k)' /\ (s.base \in DOMAIN commits \cup {Nil})'
        BY <2>1 DEF RecordAt
    <2>7. HeadAt(r.head, k)' /\ HeadAt(r.pre, k)'
        BY <2>3, <2>4, <2>6 DEF HeadAt
    <2>8. RecordAt(r, k)'
        BY <2>3, <2>5, <2>6, <2>7 DEF RecordAt, Records
    <2> QED
        BY <2>1, <2>3, <2>8 DEF Setting
<1>13. /\ OthersRest(w) /\ basis'[w] = k /\ files'[w] = files[w] /\ record'[w] = r /\ op'[w] = x
       /\ promised' = promised /\ stashed' = stashed /\ head'[Home[w]] = k
    BY <1>2, <1>3, <1>4 DEF OthersRest, Domains, story
<1>14. WorkInv(w)'
    <2>1. (basis[w] \in Hist(TipOf(w)))'
        BY <1>10, <1>13 DEF TipOf
    <2> QED
        BY <1>3, <1>12, <1>13, <2>1 DEF WorkInv, IsPart, Contents
<1>15. RecordsOn(w)'
    <2>1. /\ x.verb = verb /\ x.step = "record" /\ "step" \in DOMAIN x /\ x.state = r /\ x.old = s
          /\ x.saw = merged /\ x.out = {}
        BY <1>1
    <2>2. IsTree(merged)'
        BY <1>9 DEF IsTree, Contents
    <2> QED
        BY <1>3, <1>12, <1>13, <2>1, <2>2 DEF RecordsOn
<1>16. OpInv(w)'
    BY <1>15 DEF OpInv
<1>17. PromiseInv(w)'
    BY <1>3, <1>5, <1>6, <1>13, <1>15 DEF PromiseInv, RecordOf, TipOf
<1>18. Hist(TipOf(w)) \subseteq Hist(k)' /\ k \in DOMAIN commits'
    BY <1>1, <1>5, <1>7, <1>10
<1> QED
    BY <1>4, <1>5, <1>11, <1>13, <1>14, <1>16, <1>17, <1>18, HeadStep

(* What a merge takes of a session is its agent's.                          *)
LEMMA FromHas ==
    ASSUME GitInv, NEW s \in Sessions, head[s] # Nil
    PROVE  /\ From(s) \in DOMAIN commits /\ (IsAgent(From(s)) \/ RecordOf(From(s)).head = Nil)
           /\ IsTree(Tree(From(s)))
<1>1. StoreInv /\ head[s] \in DOMAIN commits
    BY DEF GitInv, HeadInv
<1>2. RecordAt(RecordOf(head[s]), head[s])
    BY <1>1 DEF StoreInv, NodeInv, RecordOf
<1>3. From(s) \in DOMAIN commits /\ (IsAgent(From(s)) \/ RecordOf(From(s)).head = Nil)
    BY <1>1, <1>2, HistHas DEF From, RecordAt, HeadAt
<1> QED
    BY <1>1, <1>3, TreeOf

LEMMA MergeKeeps ==
    ASSUME Setting, GitInv, NEW w \in Workspaces, NEW s \in Sessions, Merge(w, s)
    PROVE  GitInv'
<1>1. /\ Free(w) /\ w \in Workspaces \ Plain /\ basis[w] = TipOf(w) /\ head[s] # Nil
      /\ files' = files /\ UNCHANGED story
    BY DEF Merge, Starts, Mergeable
<1>2. PICK from, o, t : /\ from = From(s) /\ o = Tree(MergeBase(basis[w], from)) /\ t = Tree(from)
                        /\ Bring(w, o, t, "merge", "merge", s, from)
    BY DEF Merge
<1>3. from \in DOMAIN commits /\ (IsAgent(from) \/ RecordOf(from).head = Nil) /\ IsTree(t)
    BY <1>1, <1>2, FromHas
<1> QED
    BY <1>1, <1>2, <1>3, BringKeeps DEF AgentTools

LEMMA ApplyKeeps ==
    ASSUME Setting, GitInv, NEW w \in Workspaces, NEW verb \in {"revert", "pick"}, NEW o, NEW t,
           t \in DOMAIN commits \cup {Nil}, NEW source \in Sessions, Apply(w, verb, o, t, source)
    PROVE  GitInv'
<1>1. /\ Free(w) /\ w \in Workspaces \ Plain /\ basis[w] = TipOf(w) /\ files' = files /\ UNCHANGED story
      /\ Bring(w, Tree(o), Tree(t), verb, verb, source, Nil)
    BY DEF Apply, Starts
<1>2. IsTree(Tree(t))
    BY TreeOf DEF GitInv
<1> QED
    BY <1>1, <1>2, BringKeeps DEF AgentTools

LEMMA RevertKeeps ==
    ASSUME Setting, GitInv, NEW w \in Workspaces, NEW c \in DOMAIN commits, Revert(w, c)
    PROVE  GitInv'
<1>1. ChangeBase(c) \in DOMAIN commits \cup {Nil}
    BY DEF Revert, ChangeBase, GitInv, StoreInv, NodeInv, RecordAt, RecordOf
<1> QED
    BY <1>1, ApplyKeeps, WorkHas DEF Revert

LEMMA PickKeeps ==
    ASSUME Setting, GitInv, NEW w \in Workspaces, NEW s \in Sessions, NEW c \in DOMAIN commits, Pick(w, s, c)
    PROVE  GitInv'
BY ApplyKeeps DEF Pick

---------------------------------------------------------------------------
(* The stash                                                                *)

LEMMA StashStep ==
    ASSUME Setting, GitInv, Grown, StoreInv', NEW w \in Workspaces \ Plain, "stash" \in Verbs, OthersRest(w),
           NEW x \in DOMAIN commits' \cup {Nil}, head' = [head EXCEPT ![Stash] = x],
           promised' = promised, StashInv', (WorkInv(w) /\ OpInv(w) /\ PromiseInv(w))'
    PROVE  GitInv'
<1>1. /\ Domains /\ StoreInv /\ HeadInv
      /\ \A v \in Workspaces : Home[v] \in Sessions /\ Home[v] # Stash /\ TipOf(v) \in DOMAIN commits
    BY DEF GitInv, Setting, Sessions, HeadInv
<1>2. head'[Stash] = x /\ \A s \in Sessions \ {Stash} : head'[s] = head[s]
    BY <1>1 DEF Domains, Sessions
<1>3. HeadInv'
    BY <1>1, <1>2 DEF HeadInv, TipOf, Grown
<1>4. ASSUME NEW v \in Workspaces \ {w} PROVE (WorkInv(v) /\ OpInv(v) /\ PromiseInv(v))'
    <2>1. PICK t : t = head'[Home[v]]
        OBVIOUS
    <2>2. t = TipOf(v) /\ t \in DOMAIN commits
        BY <1>1, <1>2, <2>1 DEF TipOf
    <2>3. Hist(t)' = Hist(t) /\ RecordOf(t)' = RecordOf(t)
        BY <1>1, <2>2, NodeLater DEF RecordOf, Grown
    <2>4. v \in Plain
        BY DEF Setting
    <2>5. ~WritesOn(v)
        BY <2>4 DEF GitInv, OpInv, Free, NoVerb, WritesOn
    <2> QED
        BY <2>1, <2>2, <2>3, <2>5, OthersLater
<1> QED
    BY <1>3, <1>4 DEF GitInv, OthersRest

(* A commit over one that is there.                                         *)
Adds(k, c, t, r, tool) ==
    /\ k = Newest + 1 /\ c \in DOMAIN commits /\ IsTree(t) /\ RecordAt(r, c)
    /\ commits' = Laid(Only(k, Node(t, r, tool, {}, Nil, {c})), commits)

LEMMA OneParent ==
    ASSUME Setting, GitInv, NEW k, NEW c, NEW t, NEW r, NEW tool, Adds(k, c, t, r, tool)
    PROVE  /\ Grown /\ StoreInv' /\ k \in DOMAIN commits' /\ k # Nil /\ k \notin DOMAIN commits
           /\ commits'[k].tree = t /\ commits'[k].record = r /\ commits'[k].tool = tool
           /\ commits'[k].anc = Hist(c) /\ DOMAIN commits' = DOMAIN commits \cup {k}
<1>1. /\ StoreInv /\ k = Newest + 1 /\ c \in DOMAIN commits /\ IsTree(t) /\ RecordAt(r, c)
      /\ commits' = Laid(Only(k, Node(t, r, tool, {}, Nil, {c})), commits)
    BY DEF GitInv, Adds
<1>2. PICK n : n = Node(t, r, tool, {}, Nil, {c})
    OBVIOUS
<1>3. /\ Grown /\ k \in Nat /\ DOMAIN commits' = 1 .. k /\ commits'[k] = n
      /\ DOMAIN commits' = DOMAIN commits \cup {k} /\ k \notin DOMAIN commits
    BY <1>1, <1>2, LandOne
<1>4. UNION {commits[d].anc : d \in {c}} = commits[c].anc
    OBVIOUS
<1>5. n.tree = t /\ n.record = r /\ n.tool = tool /\ n.vparent = Nil /\ n.from = Nil /\ n.anc = Hist(c)
    BY <1>2, <1>4, NodeHas DEF Hist
<1>6. /\ Hist(c) \subseteq n.anc /\ n.anc \subseteq DOMAIN commits'
      /\ \A a \in n.anc : commits'[a].anc \subseteq n.anc
    <2>1. /\ Hist(c) \subseteq DOMAIN commits
          /\ \A a \in Hist(c) : commits'[a].anc \subseteq Hist(c)
        BY <1>1, <1>3, HistHas DEF Grown, Hist
    <2>2. Hist(c) = n.anc /\ DOMAIN commits \subseteq DOMAIN commits'
        BY <1>3, <1>5
    <2> QED
        BY <2>1, <2>2
<1>7. NodeInv(k)' /\ Hist(k)' = Hist(c) \cup {k}
    <2>1. IsTree(n.tree) /\ RecordAt(n.record, c)
        BY <1>1, <1>5
    <2>2. n.vparent \in DOMAIN commits' \cup {Nil}
        BY <1>5
    <2> QED
        BY <1>1, <1>3, <1>5, <1>6, <2>1, <2>2, NewNode
<1>8. StoreInv'
    BY <1>1, <1>3, <1>7, StoreLater
<1> QED
    BY <1>3, <1>5, <1>7, <1>8 DEF Setting

LEMMA StashPushKeeps ==
    ASSUME Setting, GitInv, NEW w \in Workspaces, StashPush(w)
    PROVE  GitInv'
<1>1. PICK at, k, work : at = State(w).head /\ k = Newest + 1 /\ work = [p \in Modified(w) |-> ViewOf(w)[p]]
    OBVIOUS
<1>2. /\ Free(w) /\ w \in Workspaces \ Plain /\ "stash" \in Verbs /\ Domains /\ UNCHANGED <<worktrees, story>>
      /\ at # Nil /\ head[Stash] = Nil /\ StoreInv /\ StashInv /\ WorkInv(w) /\ PromiseInv(w) /\ ~RecordsOn(w)
      /\ commits' = Laid(Only(k, Node(Tree(at), Blank(at), "fork", {}, Nil, {at})), commits)
      /\ head' = [head EXCEPT ![Stash] = k]
      /\ op' = [op EXCEPT ![w] = [verb |-> "stash", step |-> "write", work |-> work]]
    BY <1>1, FreeHas DEF StashPush, Starts, GitInv
<1>3. at \in DOMAIN commits /\ IsTree(ViewOf(w)) /\ basis[w] \in DOMAIN commits /\ TipOf(w) \in DOMAIN commits
    BY <1>1, <1>2, WorkHas, HistHas DEF RecordAt, HeadAt
<1>4. RecordAt(Blank(at), at)
    <2>1. at \in Nat
        BY <1>2, <1>3 DEF StoreInv
    <2> QED
        BY <1>3, <2>1 DEF RecordAt, HeadAt, Blank, Records
<1>5. Grown /\ StoreInv' /\ k \in DOMAIN commits' /\ k # Nil
    <2>1. IsTree(Tree(at))
        BY <1>2, <1>3, TreeOf
    <2>2. Adds(k, at, Tree(at), Blank(at), "fork")
        BY <1>1, <1>2, <1>3, <1>4, <2>1 DEF Adds
    <2> QED
        BY <2>2, OneParent
<1>6. /\ OthersRest(w) /\ promised' = promised /\ basis' = basis /\ files' = files /\ record' = record
      /\ op'[w] = [verb |-> "stash", step |-> "write", work |-> work]
    BY <1>2 DEF OthersRest, Domains, worktrees, story
<1>7. head'[Stash] = k /\ TipOf(w)' = TipOf(w)
    BY <1>2 DEF Domains, Sessions, Setting, TipOf
<1>8. StashInv'
    BY <1>2 DEF StashInv, story
<1>9. PICK b, t : b = basis[w] /\ t = TipOf(w)
    OBVIOUS
<1>10. /\ Hist(t)' = Hist(t) /\ commits'[b] = commits[b] /\ commits'[t] = commits[t]
       /\ \A q : RecordAt(q, b) => RecordAt(q, b)'
    <2>1. Hist(b)' = Hist(b) /\ Hist(t)' = Hist(t)
        BY <1>2, <1>3, <1>5, <1>9, NodeLater
    <2>2. commits'[b] = commits[b] /\ commits'[t] = commits[t]
        BY <1>3, <1>5, <1>9 DEF Grown
    <2>3. b \in DOMAIN commits /\ StoreInv /\ Grown
        BY <1>2, <1>3, <1>5, <1>9
    <2>4. ASSUME NEW q, RecordAt(q, b) PROVE RecordAt(q, b)'
        BY <2>1, <2>3, <2>4, RecordLater
    <2> QED
        BY <2>1, <2>2, <2>4
<1>11. WorkInv(w)'
    BY <1>2, <1>6, <1>7, <1>9, <1>10 DEF WorkInv, IsPart, Contents
<1>12. OpInv(w)'
    <2>1. IsPart(work)'
        BY <1>1, <1>3 DEF IsPart, IsTree, Modified, Differing, Contents
    <2>2. WritesOn(w)'
        BY <1>2, <1>5, <1>6, <1>7, <2>1 DEF WritesOn
    <2> QED
        BY <1>2, <2>2 DEF OpInv
<1>13. PromiseInv(w)'
    BY <1>2, <1>6, <1>7, <1>9, <1>10 DEF PromiseInv, State, RecordOf
<1> QED
    BY <1>2, <1>5, <1>6, <1>8, <1>11, <1>12, <1>13, StashStep

LEMMA StashWriteKeeps ==
    ASSUME Setting, GitInv, NEW w \in Workspaces, NEW ok, StashWrite(w, ok)
    PROVE  GitInv'
<1>1. /\ WritesOn(w) /\ w \in Workspaces \ Plain /\ ~RecordsOn(w) /\ Domains /\ WorkInv(w) /\ PromiseInv(w)
      /\ StoreInv /\ State(w).head = promised[Home[w]] /\ "stash" \in Verbs /\ promised' = promised
    BY BusyHas DEF StashWrite, GitInv, WritesOn, RecordsOn
<1>2. CASE ~ok
    <2>1. op' = [op EXCEPT ![w] = NoVerb] /\ UNCHANGED <<store, worktrees, story>>
        BY <1>1, <1>2 DEF StashWrite, story
    <2>2. /\ OthersRest(w) /\ basis'[w] = basis[w] /\ files'[w] = files[w] /\ record'[w] = record[w]
          /\ op'[w] = NoVerb
        BY <1>1, <2>1 DEF OthersRest, Domains, worktrees, store, story
    <2>3. record[w] # Nil => record[w].head = promised[Home[w]]
        BY <1>1 DEF State
    <2>4. OpInv(w)'
        BY <1>1, <2>2 DEF OpInv, Free
    <2> QED
        BY <1>1, <2>1, <2>2, <2>3, <2>4, VerbStep DEF WorkInv
<1>3. CASE ok
    <2>1. PICK c, k, t, b : c = head[Stash] /\ k = Newest + 1 /\ t = Laid(op[w].work, Tree(head[Stash])) /\ b = basis[w]
        OBVIOUS
    <2>2. /\ commits' = Laid(Only(k, Node(t, RecordOf(c), "stash", {}, Nil, {c})), commits)
          /\ head' = [head EXCEPT ![Stash] = k] /\ stashed' = op[w].work
          /\ CheckoutTo(w, State(w).head, "stash") /\ basis' = basis
        BY <1>3, <2>1 DEF StashWrite
    <2>3. c \in DOMAIN commits /\ IsPart(op[w].work)
        BY <1>1, <2>1 DEF WritesOn, GitInv, HeadInv, Sessions
    <2>4. IsTree(t) /\ RecordAt(RecordOf(c), c) /\ IsTree(Tree(c))
        BY <1>1, <2>1, <2>3, TreeOf, PartOnTree DEF StoreInv, NodeInv, RecordOf
    <2>5. Grown /\ StoreInv' /\ k \in DOMAIN commits' /\ k # Nil /\ commits'[k].tree = t
        <3>1. PICK r : r = RecordOf(c)
            OBVIOUS
        <3>2. commits' = Laid(Only(k, Node(t, r, "stash", {}, Nil, {c})), commits) /\ RecordAt(r, c)
            BY <2>2, <2>4, <3>1
        <3>3. k = Newest + 1 /\ c \in DOMAIN commits /\ IsTree(t)
            BY <2>1, <2>3, <2>4
        <3>4. Adds(k, c, t, r, "stash")
            BY <3>2, <3>3 DEF Adds
        <3> QED
            BY <3>4, OneParent
    <2>6. HeadAt(State(w).head, basis[w])
        BY WorkHas DEF RecordAt
    <2>7. Domains'
        BY <1>1, <2>2 DEF Domains, CheckoutTo
    <2>8. /\ OthersRest(w) /\ OpInv(w)' /\ RecordsOn(w)' /\ IsPart(files'[w])
          /\ record'[w] # Nil /\ RecordAt(record'[w], basis[w])
        BY <1>1, <2>2, <2>5, <2>6, <2>7, CheckoutHas
    <2>9. head'[Stash] = k /\ TipOf(w)' = TipOf(w) /\ basis'[w] = b /\ TipOf(w) \in DOMAIN commits /\ b \in DOMAIN commits
        BY <1>1, <2>1, <2>2, WorkHas DEF Domains, Sessions, Setting, TipOf
    <2>10. StashInv'
        <3>1. \A p \in DOMAIN op[w].work : t[p] = op[w].work[p]
            BY <2>1 DEF Laid
        <3>2. Tree(k)' = t
            BY <2>5 DEF Tree
        <3> QED
            BY <2>2, <2>5, <2>9, <3>1, <3>2 DEF StashInv
    <2>11. PICK u : u = TipOf(w)
        OBVIOUS
    <2>12. Hist(u)' = Hist(u) /\ commits'[b] = commits[b] /\ commits'[u] = commits[u]
        BY <1>1, <2>5, <2>9, <2>11, NodeLater DEF Grown
    <2>13. WorkInv(w)'
        BY <1>1, <2>1, <2>8, <2>9, <2>11, <2>12 DEF WorkInv, IsPart, Contents, RecordsOn
    <2>14. PromiseInv(w)'
        BY <1>1, <2>1, <2>8, <2>9, <2>11, <2>12 DEF PromiseInv, RecordOf
    <2> QED
        BY <1>1, <2>2, <2>5, <2>8, <2>10, <2>13, <2>14, StashStep
<1> QED
    BY <1>2, <1>3 DEF StashWrite

LEMMA StashPopKeeps ==
    ASSUME Setting, GitInv, NEW w \in Workspaces, StashPop(w)
    PROVE  GitInv'
<1>1. /\ Free(w) /\ ~RecordsOn(w) /\ w \in Workspaces \ Plain /\ "stash" \in Verbs /\ basis[w] = TipOf(w)
      /\ head[Stash] # Nil /\ Stash \in Sessions /\ files' = files /\ UNCHANGED story /\ Domains /\ WorkInv(w)
      /\ State(w).head = promised[Home[w]]
    BY FreeHas DEF StashPop, Starts, GitInv, Sessions
<1>2. PICK from, o, t : from = From(Stash) /\ o = Tree(MergeBase(basis[w], from)) /\ t = Tree(from)
    OBVIOUS
<1>3. CASE from \in Common(basis[w], from)
    <2>1. /\ op' = [op EXCEPT ![w] = [verb |-> "pop", step |-> "drop", landed |-> Nil]]
          /\ UNCHANGED <<store, basis, record>>
        BY <1>2, <1>3 DEF StashPop
    <2>2. /\ OthersRest(w) /\ basis'[w] = basis[w] /\ files'[w] = files[w] /\ record'[w] = record[w]
          /\ op'[w] = [verb |-> "pop", step |-> "drop", landed |-> Nil]
        BY <1>1, <2>1 DEF OthersRest, Domains, store, story
    <2>3. record[w] # Nil => record[w].head = promised[Home[w]]
        BY <1>1 DEF State
    <2>4. OpInv(w)'
        BY <1>1, <2>2 DEF OpInv, DropsOn
    <2> QED
        BY <1>1, <2>1, <2>2, <2>3, <2>4, VerbStep DEF WorkInv
<1>4. CASE from \notin Common(basis[w], from)
    <2>1. Bring(w, o, t, "pop", "merge", Stash, from)
        BY <1>2, <1>4 DEF StashPop
    <2>2. from \in DOMAIN commits /\ (IsAgent(from) \/ RecordOf(from).head = Nil) /\ IsTree(t)
        BY <1>1, <1>2, FromHas
    <2> QED
        BY <1>1, <2>1, <2>2, BringKeeps DEF AgentTools
<1> QED
    BY <1>3, <1>4

LEMMA StashDropsKeep ==
    ASSUME Setting, GitInv, NEW w \in Workspaces, StashPopped(w) \/ StashDrop(w)
    PROVE  GitInv'
<1>1. /\ w \in Workspaces \ Plain /\ "stash" \in Verbs /\ Domains /\ UNCHANGED <<commits, worktrees, promised>>
      /\ head' = [head EXCEPT ![Stash] = Nil] /\ stashed' = <<>>
      /\ WorkInv(w) /\ PromiseInv(w) /\ State(w).head = promised[Home[w]] /\ StoreInv
      /\ op' = [op EXCEPT ![w] = NoVerb] \/ (op' = op /\ Free(w))
    <2>1. CASE StashPopped(w)
        <3>1. op[w].verb = "pop" /\ op[w].step = "drop" /\ Dropped /\ op' = [op EXCEPT ![w] = NoVerb]
              /\ UNCHANGED <<commits, worktrees, promised>>
            BY <2>1 DEF StashPopped
        <3>2. ~Free(w)
            BY <3>1 DEF Free, NoVerb
        <3>3. w \in Workspaces \ Plain /\ ~RecordsOn(w) /\ "stash" \in Verbs
            BY <3>1, <3>2, BusyHas DEF RecordsOn, DropsOn, GitInv, OpInv, LandsOn, WritesOn
        <3>4. Domains /\ WorkInv(w) /\ PromiseInv(w) /\ StoreInv
            BY DEF GitInv
        <3>5. State(w).head = promised[Home[w]]
            BY <3>3, <3>4 DEF PromiseInv
        <3>6. head' = [head EXCEPT ![Stash] = Nil] /\ stashed' = <<>>
            BY <3>1 DEF Dropped
        <3> QED
            BY <3>1, <3>3, <3>4, <3>5, <3>6
    <2>2. CASE StashDrop(w)
        BY <2>2, FreeHas DEF StashDrop, Starts, Dropped, GitInv
    <2> QED
        BY <2>1, <2>2
<1>2. basis' = basis /\ files' = files /\ record' = record /\ OthersRest(w) /\ op'[w] = NoVerb /\ TipOf(w)' = TipOf(w)
    BY <1>1 DEF OthersRest, Domains, worktrees, Free, TipOf, Setting, Sessions
<1>3. Grown /\ StoreInv'
    <2>1. Grown
        BY <1>1 DEF Grown
    <2>2. Newest \in Nat /\ DOMAIN commits' = 1 .. Newest
        BY <1>1 DEF StoreInv
    <2> QED
        BY <1>1, <2>1, <2>2, StoreLater
<1>4. PICK b, t, r : b = basis[w] /\ t = TipOf(w) /\ r = record[w]
    OBVIOUS
<1>5. /\ Hist(t)' = Hist(t) /\ Hist(b)' = Hist(b)
      /\ RecordAt(r, b) => RecordAt(r, b)'
    <2>1. b \in DOMAIN commits /\ Hist(b)' = Hist(b) /\ Hist(t)' = Hist(t)
        BY <1>1, <1>4, WorkHas DEF Hist
    <2> QED
        BY <1>1, <1>3, <2>1, RecordLater
<1>6. WorkInv(w)'
    BY <1>1, <1>2, <1>4, <1>5 DEF WorkInv, IsPart, Contents
<1>7. OpInv(w)'
    BY <1>1, <1>2 DEF OpInv, Free
<1>8. PromiseInv(w)'
    BY <1>1, <1>2 DEF PromiseInv, RecordOf, State
<1>9. StashInv'
    BY <1>1 DEF StashInv
<1> QED
    BY <1>1, <1>2, <1>3, <1>6, <1>7, <1>8, <1>9, StashStep

---------------------------------------------------------------------------
(* The invariant                                                            *)

LEMMA Starting ==
    ASSUME Setting, GInit
    PROVE  GitInv
<1>1. PICK x : x = [Root EXCEPT !.record = Blank(1), !.tool = "fork", !.parents = {1}, !.anc = {1}]
    OBVIOUS
<1>2. DOMAIN commits = 1 .. 2 /\ commits[1] = Root /\ commits[2] = x
    <2>1. commits = Laid(Only(1, Root), Only(2, x))
        BY <1>1 DEF GInit
    <2> QED
        BY <2>1 DEF Laid, Only
<1>3. /\ x.tree = [p \in Paths |-> Nil] /\ x.record = Blank(1) /\ x.anc = {1} /\ x.vparent = Nil
      /\ x.from = Nil
    BY <1>1 DEF Root
<1>4. Newest = 2
    <2>1. Cardinality(1 .. 2) = 2
        <3>1. 1 \in Int /\ 2 \in Int
            OBVIOUS
        <3>2. Cardinality(1 .. 2) = IF 1 > 2 THEN 0 ELSE 2 - 1 + 1
            BY <3>1, FS_Interval
        <3> QED
            BY <3>2
    <2> QED
        BY <1>2, <2>1 DEF Newest
<1>5. RecordAt(Blank(Nil), 1) /\ RecordAt(Blank(1), 2)
    BY <1>2 DEF RecordAt, Blank, Records, HeadAt
<1>6. NodeInv(1) /\ NodeInv(2)
    <2>1. NodeInv(1)
        BY <1>2, <1>5, EmptyTree DEF NodeInv, Root
    <2>2. commits[1].anc = {}
        BY <1>2 DEF Root
    <2>3. NodeInv(2)
        BY <1>2, <1>3, <1>5, <2>2, EmptyTree DEF NodeInv
    <2> QED
        BY <2>1, <2>3
<1>7. StoreInv
    BY <1>2, <1>4, <1>6 DEF StoreInv
<1>8. \A s \in Sessions : head[s] = IF s = Stash THEN Nil ELSE IF s = First THEN 1 ELSE 2
    BY DEF GInit
<1>9. \A w \in Workspaces : Home[w] \in Sessions /\ Home[w] # Stash
    BY DEF Setting, Sessions
<1>10. \A w \in Workspaces : TipOf(w) \in {1, 2} /\ basis[w] = TipOf(w)
    BY <1>8, <1>9 DEF GInit, TipOf
<1>11. HeadInv
    BY <1>2, <1>8, <1>10 DEF HeadInv
<1>12. Domains /\ StashInv
    BY DEF GInit, Domains, StashInv
<1>13. ASSUME NEW w \in Workspaces PROVE WorkInv(w) /\ OpInv(w) /\ PromiseInv(w)
    <2>1. files[w] = <<>> /\ record[w] = Nil /\ op[w] = NoVerb /\ promised[Home[w]] = Nil
        BY <1>9 DEF GInit
    <2>2. RecordOf(basis[w]).head = Nil
        BY <1>2, <1>3, <1>10 DEF RecordOf, Root, Blank
    <2>3. WorkInv(w)
        BY <1>10, <2>1, EmptyPart DEF WorkInv, Hist
    <2> QED
        BY <1>10, <2>1, <2>2, <2>3 DEF OpInv, PromiseInv, Free, State
<1> QED
    BY <1>7, <1>11, <1>12, <1>13 DEF GitInv

LEMMA Stepping ==
    ASSUME Setting, GitInv, [GNext]_gvars
    PROVE  GitInv'
<1>1. CASE UNCHANGED gvars
    <2>1. commits' = commits /\ head' = head /\ basis' = basis /\ files' = files /\ record' = record
          /\ op' = op /\ promised' = promised /\ stashed' = stashed
        BY <1>1 DEF gvars
    <2>2. CASE Workspaces = {}
        <3>1. UNCHANGED store /\ Grown
            BY <2>1 DEF store, Grown
        <3>2. Newest \in Nat /\ DOMAIN commits' = 1 .. Newest
            BY <2>1 DEF GitInv, StoreInv
        <3>3. StoreInv'
            BY <2>1, <3>1, <3>2, StoreLater DEF GitInv
        <3> QED
            BY <2>1, <2>2, <3>3 DEF GitInv, Domains, HeadInv, StashInv, Tree
    <2>3. CASE Workspaces # {}
        <3>1. PICK w \in Workspaces : TRUE
            BY <2>3
        <3>2. OthersRest(w) /\ UNCHANGED <<store, story>>
            BY <2>1 DEF OthersRest, Domains, store, story, GitInv
        <3>3. WorkInv(w) /\ OpInv(w) /\ PromiseInv(w)
            BY DEF GitInv
        <3>4. \A r, c : RecordAt(r, c) => RecordAt(r, c)'
            BY <3>2, SameStore
        <3>5. WorkInv(w)'
            BY <2>1, <3>2, <3>3, SameStore DEF WorkInv
        <3>6. RecordsOn(w)' <=> RecordsOn(w)
            BY <2>1 DEF RecordsOn, RecordAt, HeadAt, Hist, IsAgent, IsTree, Records, Contents
        <3>7. OpInv(w)'
            BY <2>1, <3>2, <3>3, <3>6, SameStore DEF OpInv, Free, LandsOn, WritesOn, DropsOn
        <3>8. PromiseInv(w)'
            BY <2>1, <3>2, <3>3, <3>6, SameStore DEF PromiseInv, State
        <3> QED
            BY <3>2, <3>5, <3>7, <3>8, LocalStep
    <2> QED
        BY <2>2, <2>3
<1>2. CASE GNext
    <2>1. PICK w \in Workspaces : Working(w) \/ Indexing(w) \/ CommitStart(w) \/ Moving(w) \/ Stashing(w)
                                  \/ RecordSteps(w) \/ Crash(w)
        BY <1>2 DEF GNext
    <2>2. CASE Working(w)
        BY <2>2, EditKeeps, SaveKeeps DEF Working
    <2>3. CASE Indexing(w)
        <3>1. PICK p \in Paths : Stage(w, p) \/ Unstage(w, p)
            BY <2>3 DEF Indexing
        <3>2. State(w).staged \subseteq Paths
            BY WorkHas DEF RecordAt, Records
        <3> QED
            BY <3>1, <3>2, IndexKeeps DEF Stage, Unstage
    <2>4. CASE CommitStart(w)
        BY <2>4, CommitStartKeeps
    <2>5. CASE Moving(w)
        BY <2>5, CheckoutsKeep, RevertKeeps, PickKeeps, MergeKeeps DEF Moving
    <2>6. CASE Stashing(w)
        BY <2>6, StashPushKeeps, StashPopKeeps, StashDropsKeep, StashWriteKeeps DEF Stashing
    <2>7. CASE RecordSteps(w)
        BY <2>7, RecordRefreshKeeps, CommitRefusedKeeps, CommitLandsKeeps, RecordRefusedKeeps, RecordLostKeeps,
           RecordLandsKeeps DEF RecordSteps
    <2>8. CASE Crash(w)
        BY <2>8, CrashKeeps
    <2> QED
        BY <2>1, <2>2, <2>3, <2>4, <2>5, <2>6, <2>7, <2>8
<1> QED
    BY <1>1, <1>2

LEMMA Meaning ==
    ASSUME Setting, GitInv
    PROVE  GitTrue
<1>1. StoreInv /\ HeadInv /\ StashInv /\ \A w \in Workspaces : WorkInv(w) /\ OpInv(w) /\ PromiseInv(w)
    BY DEF GitInv
<1>2. GitTypeOK
    <2>1. ASSUME NEW w \in Workspaces
          PROVE  /\ basis[w] \in DOMAIN commits
                 /\ State(w).staged \cup State(w).unresolved \subseteq Paths
                 /\ State(w).source = Nil <=> State(w).unresolved = {}
                 /\ DOMAIN files[w] \subseteq Paths /\ Range(files[w]) \subseteq Values \cup {Nil, Marked, Other}
        BY WorkHas DEF RecordAt, Records, IsPart, Range, Contents
    <2>2. \A c \in DOMAIN commits : commits[c].vparent \in DOMAIN commits \cup {Nil}
        BY <1>1 DEF StoreInv, NodeInv
    <2> QED
        BY <1>1, <2>1, <2>2 DEF GitTypeOK, HeadInv
<1>3. HeadTrue
    <2>1. ASSUME NEW s \in Sessions, head[s] # Nil
          PROVE  HeadAt(RecordOf(head[s]).head, head[s])
        BY <1>1, <2>1 DEF HeadInv, StoreInv, NodeInv, RecordAt, RecordOf
    <2> QED
        BY <2>1 DEF HeadTrue, HeadAt, Hist
<1>4. HeadPromised
    BY <1>1 DEF HeadPromised, PromiseInv
<1>5. MergeCommitted
    BY <1>1 DEF MergeCommitted, StoreInv, NodeInv
<1>6. StashKept
    BY <1>1 DEF StashInv, StashKept
<1> QED
    BY <1>2, <1>3, <1>4, <1>5, <1>6 DEF GitTrue

(* For any workspaces, sessions, paths, contents and bounds: the head of an  *)
(* agent is a commit of its own in its session's history, and the one its    *)
(* last verb returned; a merge brings what an agent committed; a stash holds *)
(* the work it has answered for (agentgit.ts, workspace.ts, command.ts).     *)
THEOREM GitStaysTrue == ASSUME Setting PROVE GSpec => []GitTrue
<1>1. GInit => GitInv
    BY Starting
<1>2. GitInv /\ [GNext]_gvars => GitInv'
    BY Stepping
<1>3. GitInv => GitTrue
    BY Meaning
<1> QED
    BY <1>1, <1>2, <1>3, PTL DEF GSpec

---------------------------------------------------------------------------
(* What the moves keep: files                                               *)

(* What lands beside an agent is what the others write.                     *)
NearInv(w) ==
    /\ w \notin Plain => \A p \in Paths : Tree(TipOf(w))[p] \in {Tree(basis[w])[p], Other}
    /\ w \in Plain => \A p \in DOMAIN files[w] : files[w][p] = Other

(* A commit about to land has on the worktree the files it takes, and the   *)
(* head's elsewhere; one that has landed, those it set aside too.           *)
LandsTrue(w) ==
    LandsOn(w) =>
        /\ op[w].named \cap op[w].out = {}
        /\ \A p \in op[w].named : ViewOf(w)[p] = op[w].saw[p]
        /\ \A p \in Paths \ op[w].named : ViewOf(w)[p] = Tree(Ref(op[w].old))[p]

TakesTrue(w) ==
    RecordsOn(w) /\ op[w].verb = "commit" =>
        /\ op[w].landed # Nil /\ op[w].named \subseteq Paths /\ op[w].named \cap op[w].out = {}
        /\ op[w].tree = op[w].saw
        /\ \A p \in op[w].out : ViewOf(w)[p] = op[w].saw[p]
        /\ \A p \in op[w].named : p \notin DOMAIN files[w] /\ ViewOf(w)[p] \in {op[w].saw[p], Other}

(* A checkout has the files it changes as its commit does.                  *)
Goes == {"checkout", "abort", "stash"}
GoesTrue(w) ==
    RecordsOn(w) /\ op[w].verb \in Goes =>
        /\ op[w].landed = Nil /\ op[w].tree = Tree(op[w].state.head)
        /\ op[w].verb = "abort" => op[w].old.pre = op[w].state.head
        /\ op[w].out = Differing(op[w].saw, op[w].tree)
        /\ \A p \in op[w].out : ViewOf(w)[p] = op[w].tree[p]

FilesInv(w) == NearInv(w) /\ LandsTrue(w) /\ TakesTrue(w) /\ GoesTrue(w)

---------------------------------------------------------------------------
(* What the moves keep: the stash                                           *)

(* It is of the agent's head at, with nothing in between but a fork of it,  *)
(* and the work is none of at's.                                            *)
StashAt(h, at) ==
    /\ at \in commits[h].anc /\ at < h
    /\ \A w \in Workspaces \ Plain : at \in Hist(basis[w])
    /\ \A c \in commits[h].anc : c \in Hist(at) \/ (Tree(c) = Tree(at) /\ c > at)
    /\ DOMAIN stashed \subseteq Paths /\ \A p \in DOMAIN stashed : stashed[p] # Tree(at)[p]
    /\ \A w \in Workspaces : WritesOn(w) =>
          "saw" \notin DOMAIN op[w] /\ Tree(h) = Tree(at) /\ \A p \in DOMAIN op[w].work : op[w].work[p] # Tree(at)[p]

(* A history comes to hold it by a merge of it only.                        *)
Brought(c) ==
    commits[c].from = head[Stash] /\ \A p \in DOMAIN stashed : Tree(c)[p] \in {stashed[p], Marked}

Brings(c, h) == h \in Hist(c) => c = h \/ \E d \in Hist(c) : Brought(d)

StashedInv ==
    LET h == head[Stash]
    IN  h # Nil =>
          /\ "stash" \in Verbs /\ ~IsAgent(h) /\ RecordOf(h).head = Nil
          /\ \A s \in Sessions \ {Stash} : head[s] # h
          /\ \A w \in Workspaces : basis[w] # h
          /\ \E at \in DOMAIN commits : StashAt(h, at)
          /\ \A c \in DOMAIN commits : Brings(c, h)

PopsTrue(w) ==
    RecordsOn(w) /\ op[w].verb = "pop" =>
        /\ head[Stash] # Nil /\ op[w].landed # Nil /\ op[w].landed \in Hist(basis[w]) /\ Brought(op[w].landed)
        /\ op[w].state.unresolved = {} => \A p \in DOMAIN stashed : Tree(op[w].landed)[p] = stashed[p]

DropsTrue(w) ==
    DropsOn(w) =>
        /\ head[Stash] # Nil
        /\ \E c \in Hist(basis[w]) :
              /\ Brought(c)
              /\ \A p \in DOMAIN stashed : Tree(c)[p] = stashed[p] \/ op[w].landed = Nil

Numbered == \A c \in DOMAIN commits : \A a \in Hist(c) : a <= c

StashInvs ==
    /\ Numbered /\ StashedInv
    /\ \A w \in Workspaces : PopsTrue(w) /\ DropsTrue(w)

MovesInv == StashInvs /\ \A w \in Workspaces : FilesInv(w)

---------------------------------------------------------------------------
(* What a worktree shows, and what a commit of it holds                     *)

LEMMA ViewOver ==
    ASSUME NEW tree, NEW new, NEW old, IsTree(tree), IsPart(new), IsPart(old), NEW p \in Paths
    PROVE  /\ Laid(Over(tree, new, old), tree)[p] = IF p \in DOMAIN new THEN new[p] ELSE Laid(old, tree)[p]
           /\ p \in DOMAIN Over(tree, new, old) => p \in DOMAIN new \cup DOMAIN old
<1>1. PICK all, f : all = Laid(new, old) /\ f = Over(tree, new, old)
    OBVIOUS
<1>2. /\ DOMAIN all = DOMAIN new \cup DOMAIN old
      /\ all[p] = IF p \in DOMAIN new THEN new[p] ELSE IF p \in DOMAIN old THEN old[p] ELSE all[p]
    BY <1>1 DEF Laid
<1>3. /\ DOMAIN f = {q \in DOMAIN all : all[q] # Nil \/ tree[q] # Nil}
      /\ \A q \in DOMAIN f : f[q] = all[q]
    BY <1>1 DEF Over, Restrict
<1>4. DOMAIN tree = Paths
    BY DEF IsTree
<1>5. Laid(f, tree)[p] = IF p \in DOMAIN f THEN f[p] ELSE tree[p]
    BY <1>4 DEF Laid
<1>6. Laid(old, tree)[p] = IF p \in DOMAIN old THEN old[p] ELSE tree[p]
    BY <1>4 DEF Laid
<1> QED
    BY <1>1, <1>2, <1>3, <1>5, <1>6

LEMMA ShownHas ==
    ASSUME NEW f, NEW t, IsTree(t), NEW p \in Paths
    PROVE  Laid(f, t)[p] = IF p \in DOMAIN f THEN f[p] ELSE t[p]
BY DEF Laid, IsTree

LEMMA OursShows ==
    ASSUME GitInv, NEW w \in Workspaces, NEW paths, NEW p \in Paths
    PROVE  OursTree(w, paths)[p] = IF p \in paths THEN ViewOf(w)[p] ELSE Tree(basis[w])[p]
<1>1. IsTree(Tree(basis[w]))
    BY WorkHas, TreeOf DEF GitInv
<1>2. /\ DOMAIN Taken(w, paths) = DOMAIN files[w] \cap paths
      /\ \A q \in DOMAIN files[w] \cap paths : Taken(w, paths)[q] = files[w][q]
    BY DEF Taken, Restrict
<1> QED
    BY <1>1, <1>2, ShownHas DEF OursTree, ViewOf

(* What a landing makes of the store.                                       *)
Made(w, d) ==
    /\ \A a \in Hist(d)' : a <= d
    /\ \E b \in {basis[w], TipOf(w)} : Hist(b) \subseteq Hist(d)' /\ Hist(d)' \cap DOMAIN commits \subseteq Hist(b)

LEMMA LandingMakes ==
    ASSUME Setting, GitInv, NEW w \in Workspaces, NEW paths, NEW tool, NEW named, NEW vparent,
           Lands(w, Landing(w, paths, tool, named, vparent)), NEW k, k = basis'[w]
    PROVE  /\ commits'[k].tree = IF TipOf(w) = basis[w] THEN OursTree(w, paths)
                                 ELSE Merged3(Tree(basis[w]), OursTree(w, paths), Tree(TipOf(w)))
           /\ k \notin DOMAIN commits /\ Grown
           /\ \A d \in DOMAIN commits' \ DOMAIN commits : Made(w, d)
<1>1. /\ StoreInv /\ basis[w] \in DOMAIN commits /\ TipOf(w) \in DOMAIN commits
      /\ Hist(basis[w]) \subseteq Hist(TipOf(w)) /\ w \in DOMAIN basis
      /\ Newest \in Nat /\ DOMAIN commits = 1 .. Newest
    BY WorkHas DEF GitInv, StoreInv, Domains
<1>2. PICK b, t : b = basis[w] /\ t = TipOf(w)
    OBVIOUS
<1>3. /\ Hist(b) \subseteq DOMAIN commits /\ Hist(t) \subseteq DOMAIN commits /\ Hist(b) \subseteq Hist(t)
      /\ b \in Hist(b) /\ t \in Hist(t)
    BY <1>1, <1>2, HistHas DEF Hist
<1>4. /\ UNION {commits[c].anc : c \in {b}} = commits[b].anc
      /\ UNION {commits[c].anc : c \in {t}} = commits[t].anc
    OBVIOUS
<1>5. CASE t = b
    <2>1. PICK x, i : x = Node(OursTree(w, paths), State(w), tool, named, vparent, {b}) /\ i = Newest + 1
        OBVIOUS
    <2>2. Landing(w, paths, tool, named, vparent) = Only(i, x)
        BY <1>2, <1>5, <2>1 DEF Landing
    <2>3. commits' = Laid(Only(i, x), commits) /\ basis' = [basis EXCEPT ![w] = i]
        BY <1>1, <2>1, <2>2, Counted DEF Lands
    <2>4. /\ Grown /\ i \in Nat /\ i \notin DOMAIN commits /\ commits'[i] = x
          /\ DOMAIN commits' = DOMAIN commits \cup {i}
        BY <1>1, <2>1, <2>3, LandOne
    <2>5. k = i
        BY <1>1, <2>3
    <2>6. x.tree = OursTree(w, paths) /\ x.anc = Hist(b)
        BY <1>4, <2>1, NodeHas DEF Hist
    <2>7. Hist(i)' = Hist(b) \cup {i}
        BY <2>4, <2>6 DEF Hist
    <2>8. \A a \in Hist(b) \cup {i} : a <= i
        BY <1>1, <1>3, <2>1
    <2>9. Made(w, i)
        BY <1>2, <1>3, <2>4, <2>7, <2>8 DEF Made
    <2> QED
        BY <1>2, <1>5, <2>4, <2>5, <2>6, <2>9
<1>6. CASE t # b
    <2>1. PICK o, n, r, i, j, x, y :
            /\ i = Newest + 1 /\ j = Newest + 2
            /\ o = Node(OursTree(w, paths), State(w), tool, named, vparent, {b})
            /\ r = IF State(w) # RecordOf(basis[w]) THEN State(w) ELSE RecordOf(TipOf(w))
            /\ n = Node(Merged3(Tree(b), OursTree(w, paths), Tree(t)), r, tool, named, vparent, {t})
            /\ x = [o EXCEPT !.tool = "none", !.vparent = Nil]
            /\ y = [n EXCEPT !.parents = @ \cup {i}, !.anc = @ \cup o.anc \cup {i}]
        OBVIOUS
    <2>2. Landing(w, paths, tool, named, vparent) = Laid(Only(i, x), Only(j, y))
        BY <1>2, <1>6, <2>1 DEF Landing
    <2>3. commits' = Laid(Laid(Only(i, x), Only(j, y)), commits) /\ basis' = [basis EXCEPT ![w] = j]
        <3>1. Cardinality(DOMAIN Laid(Only(i, x), Only(j, y))) = 2
            BY <1>1, <2>1, Counted
        <3> QED
            BY <1>1, <2>1, <2>2, <3>1 DEF Lands
    <2>4. /\ Grown /\ i \notin DOMAIN commits /\ j \notin DOMAIN commits /\ commits'[i] = x /\ commits'[j] = y
          /\ DOMAIN commits' = DOMAIN commits \cup {i, j} /\ i # j
        <3>1. commits' = Laid(Laid(Only(Newest + 1, x), Only(Newest + 2, y)), commits)
            BY <2>1, <2>3
        <3>2. /\ Grown /\ commits'[Newest + 1] = x /\ commits'[Newest + 2] = y
              /\ Newest + 1 \notin DOMAIN commits /\ Newest + 2 \notin DOMAIN commits
              /\ DOMAIN commits' = DOMAIN commits \cup {Newest + 1, Newest + 2} /\ Newest + 1 # Newest + 2
            BY <1>1, <3>1, LandTwo
        <3> QED
            BY <2>1, <3>2
    <2>5. k = j
        BY <1>1, <2>3
    <2>6. x.anc = Hist(b) /\ o.anc = Hist(b)
        BY <1>4, <2>1, NodeHas DEF Hist
    <2>7. /\ y.tree = Merged3(Tree(b), OursTree(w, paths), Tree(t))
          /\ y.anc = Hist(t) \cup Hist(b) \cup {i}
        BY <1>4, <2>1, <2>6, NodeHas DEF Hist
    <2>8. Hist(i)' = Hist(b) \cup {i} /\ Hist(j)' = Hist(t) \cup Hist(b) \cup {i, j}
        BY <2>4, <2>6, <2>7 DEF Hist
    <2>9. \A a \in Hist(b) \cup Hist(t) : a <= i /\ a <= j
        BY <1>1, <1>3, <2>1
    <2>10. i <= i /\ i <= j /\ j <= j
        BY <1>1, <2>1
    <2>11. Made(w, i)
        BY <1>2, <2>4, <2>8, <2>9, <2>10 DEF Made
    <2>12. Made(w, j)
        BY <1>2, <1>3, <2>4, <2>8, <2>9, <2>10 DEF Made
    <2> QED
        BY <1>2, <1>6, <2>4, <2>5, <2>7, <2>11, <2>12
<1> QED
    BY <1>5, <1>6

(* A landing holds what it takes, but where another has written.            *)
LEMMA LandedTree ==
    ASSUME Setting, GitInv, NEW w \in Workspaces, NearInv(w), NEW paths, NEW tool, NEW named, NEW vparent,
           Lands(w, Landing(w, paths, tool, named, vparent)), NEW k, k = basis'[w], NEW p \in Paths
    PROVE  /\ w \notin Plain => commits'[k].tree[p] \in {OursTree(w, paths)[p], Other}
           /\ w \in Plain => commits'[k].tree[p] \in {Tree(TipOf(w))[p], Other}
<1>1. PICK b, o, u, t : b = basis[w] /\ o = Tree(basis[w]) /\ u = OursTree(w, paths) /\ t = Tree(TipOf(w))
    OBVIOUS
<1>2. commits'[k].tree = IF TipOf(w) = b THEN u ELSE Merged3(o, u, t)
    BY <1>1, LandingMakes
<1>3. Merged3(o, u, t)[p] = IF u[p] = o[p] THEN t[p] ELSE u[p]
    BY DEF Merged3
<1>4. CASE w \notin Plain
    BY <1>1, <1>2, <1>3, <1>4 DEF NearInv
<1>5. CASE w \in Plain
    <2>1. u[p] \in {o[p], Other}
        <3>1. ViewOf(w)[p] \in {o[p], Other}
            <4>1. IsTree(Tree(basis[w]))
                BY WorkHas, TreeOf DEF GitInv
            <4> QED
                BY <1>1, <1>5, <4>1, ShownHas DEF ViewOf, NearInv
        <3> QED
            BY <1>1, <3>1, OursShows
    <2> QED
        BY <1>1, <1>2, <1>3, <1>5, <2>1
<1> QED
    BY <1>4, <1>5

---------------------------------------------------------------------------
(* What a step leaves to the workspaces that do not take it                 *)

LEMMA OnBefore ==
    ASSUME GitInv, NEW v \in Workspaces, op'[v] = op[v]
    PROVE  /\ LandsOn(v)' => LandsOn(v)
           /\ RecordsOn(v)' => RecordsOn(v)
           /\ WritesOn(v)' => WritesOn(v)
           /\ DropsOn(v)' => DropsOn(v)
<1>1. RecordsOn(v)' => ~Free(v) /\ op[v].step \in {"record", "refresh", "again"}
    BY DEF RecordsOn, Free, NoVerb
<1> QED
    BY <1>1, BusyHas DEF LandsOn, WritesOn, DropsOn

LEMMA FreeLater ==
    ASSUME NEW w, op'[w] = NoVerb
    PROVE  ~LandsOn(w)' /\ ~RecordsOn(w)' /\ ~WritesOn(w)' /\ ~DropsOn(w)'
BY DEF NoVerb, LandsOn, RecordsOn, WritesOn, DropsOn

LEMMA TreeLater ==
    ASSUME StoreInv, Grown, NEW c \in DOMAIN commits \cup {Nil}
    PROVE  Tree(c)' = Tree(c)
BY DEF Tree, Grown

LEMMA RefsIn ==
    ASSUME StoreInv, NEW c \in DOMAIN commits, NEW r, RecordAt(r, c)
    PROVE  r.head \in DOMAIN commits \cup {Nil} /\ r.pre \in DOMAIN commits \cup {Nil} /\ Ref(r) \in DOMAIN commits \cup {Nil}
BY HistHas DEF RecordAt, HeadAt, Ref

LEMMA FilesLater ==
    ASSUME GitInv, Grown, NEW v \in Workspaces, FilesInv(v),
           basis'[v] = basis[v], files'[v] = files[v], op'[v] = op[v],
           v \notin Plain => \A p \in Paths : Tree(TipOf(v))'[p] \in {Tree(TipOf(v))[p], Other}
    PROVE  FilesInv(v)'
<1>1. PICK b, o, f : b = basis[v] /\ o = op[v] /\ f = files[v]
    OBVIOUS
<1>2. StoreInv /\ b \in DOMAIN commits /\ commits'[b] = commits[b]
    BY <1>1, WorkHas DEF GitInv, Grown
<1>3. Tree(basis[v])' = Tree(basis[v]) /\ ViewOf(v)' = ViewOf(v)
    BY <1>1, <1>2, TreeLater DEF ViewOf, Tree
<1>4. NearInv(v)'
    <2>1. v \notin Plain => \A p \in Paths : Tree(TipOf(v))[p] \in {Tree(basis[v])[p], Other}
        BY DEF FilesInv, NearInv
    <2> QED
        BY <1>3, <2>1 DEF FilesInv, NearInv
<1>5. LandsTrue(v)'
    <2>1. SUFFICES ASSUME LandsOn(v)'
                   PROVE  /\ o.named \cap o.out = {}
                          /\ \A p \in o.named : ViewOf(v)[p] = o.saw[p]
                          /\ \A p \in Paths \ o.named : ViewOf(v)[p] = Tree(Ref(o.old))'[p]
        BY <1>1, <1>3 DEF LandsTrue, Ref
    <2>2. LandsOn(v) /\ LandsTrue(v)
        BY <2>1, OnBefore DEF FilesInv
    <2>3. Ref(o.old) \in DOMAIN commits \cup {Nil}
        BY <1>1, <1>2, <2>2, RefsIn DEF LandsOn
    <2>4. PICK c : c = Ref(o.old)
        OBVIOUS
    <2>5. Tree(c)' = Tree(c)
        BY <1>2, <2>3, <2>4, TreeLater
    <2>6. Tree(Ref(o.old))' = Tree(Ref(o.old))
        BY <2>4, <2>5 DEF Ref
    <2> QED
        BY <1>1, <2>2, <2>6 DEF LandsTrue
<1>6. TakesTrue(v)'
    BY <1>3, OnBefore DEF FilesInv, TakesTrue
<1>7. GoesTrue(v)'
    <2>1. SUFFICES ASSUME RecordsOn(v)', o.verb \in Goes
                   PROVE  /\ o.landed = Nil /\ o.tree = Tree(o.state.head)'
                          /\ o.verb = "abort" => o.old.pre = o.state.head
                          /\ o.out = Differing(o.saw, o.tree)
                          /\ \A p \in o.out : ViewOf(v)[p] = o.tree[p]
        BY <1>1, <1>3 DEF GoesTrue, Differing
    <2>2. RecordsOn(v) /\ GoesTrue(v)
        BY <2>1, OnBefore DEF FilesInv
    <2>3. o.state.head \in DOMAIN commits \cup {Nil}
        BY <1>1, <1>2, <2>2, RefsIn DEF RecordsOn
    <2>4. PICK c : c = o.state.head
        OBVIOUS
    <2>5. Tree(o.state.head)' = Tree(o.state.head)
        BY <1>2, <2>3, <2>4, TreeLater
    <2> QED
        BY <1>1, <2>1, <2>2, <2>5 DEF GoesTrue
<1> QED
    BY <1>4, <1>5, <1>6, <1>7 DEF FilesInv

(* One that leaves every session's head, and one that moves its own.        *)
LEMMA FilesBeside ==
    ASSUME GitInv, Grown, NEW w \in Workspaces, \A v \in Workspaces : FilesInv(v), OthersRest(w),
           \A v \in Workspaces : head'[Home[v]] = head[Home[v]], FilesInv(w)'
    PROVE  \A v \in Workspaces : FilesInv(v)'
<1>1. ASSUME NEW v \in Workspaces \ {w} PROVE FilesInv(v)'
    <2>1. PICK t : t = TipOf(v)
        OBVIOUS
    <2>2. t \in DOMAIN commits /\ Tree(t)' = Tree(t)
        BY <2>1, WorkHas, TreeLater DEF GitInv
    <2>3. Tree(TipOf(v))' = Tree(TipOf(v))
        BY <2>1, <2>2 DEF TipOf
    <2> QED
        BY <2>3, FilesLater DEF OthersRest
<1> QED
    BY <1>1

LEMMA FilesOver ==
    ASSUME Setting, GitInv, Grown, NEW w \in Workspaces, \A v \in Workspaces : FilesInv(v), OthersRest(w),
           NEW k \in DOMAIN commits', k # Nil, head' = [head EXCEPT ![Home[w]] = k],
           w \in Plain => \A p \in Paths : commits'[k].tree[p] \in {Tree(TipOf(w))[p], Other}, FilesInv(w)'
    PROVE  \A v \in Workspaces : FilesInv(v)'
<1>1. head'[Home[w]] = k /\ \A s \in Sessions \ {Home[w]} : head'[s] = head[s]
    BY WorkHas DEF GitInv, Domains
<1>2. ASSUME NEW v \in Workspaces \ {w} PROVE FilesInv(v)'
    <2>1. CASE Home[v] # Home[w] \/ v \in Plain
        <3>1. PICK t : t = TipOf(v)
            OBVIOUS
        <3>2. t \in DOMAIN commits /\ Tree(t)' = Tree(t) /\ Home[v] \in Sessions
            BY <3>1, WorkHas, TreeLater DEF GitInv
        <3>3. v \notin Plain => Tree(TipOf(v))' = Tree(TipOf(v))
            BY <1>1, <2>1, <3>1, <3>2 DEF TipOf
        <3> QED
            BY <3>3, FilesLater DEF OthersRest
    <2>2. CASE Home[v] = Home[w] /\ v \notin Plain
        <3>1. w \in Plain
            BY <1>2, <2>2 DEF Setting
        <3>2. Tree(TipOf(v))' = commits'[k].tree /\ TipOf(v) = TipOf(w)
            BY <1>1, <2>2 DEF TipOf, Tree
        <3> QED
            BY <3>1, <3>2, FilesLater DEF OthersRest
    <2> QED
        BY <2>1, <2>2
<1> QED
    BY <1>2

LEMMA NearOver ==
    ASSUME NEW w \in Workspaces, NEW k, basis'[w] = k, head'[Home[w]] = k, w \in Plain => files'[w] = <<>>
    PROVE  NearInv(w)'
BY DEF NearInv, TipOf

LEMMA NearStill ==
    ASSUME GitInv, Grown, NEW w \in Workspaces \ Plain, NearInv(w), head'[Home[w]] = head[Home[w]],
           basis'[w] \in {basis[w], TipOf(w)}
    PROVE  NearInv(w)'
<1>1. PICK b, t : b = basis[w] /\ t = TipOf(w)
    OBVIOUS
<1>2. Tree(b)' = Tree(b) /\ Tree(t)' = Tree(t)
    BY <1>1, WorkHas, TreeLater DEF GitInv
<1>3. Tree(TipOf(w))' = Tree(t)' /\ Tree(basis[w])' \in {Tree(b)', Tree(t)'}
    BY <1>1 DEF TipOf
<1> QED
    BY <1>1, <1>2, <1>3 DEF NearInv

---------------------------------------------------------------------------
(* Steps that leave the stash as it is                                      *)

LEMMA BroughtLater ==
    ASSUME Grown, head'[Stash] = head[Stash], stashed' = stashed, NEW c \in DOMAIN commits, c # Nil
    PROVE  /\ Brought(c)' <=> Brought(c)
           /\ Tree(c)' = Tree(c)
BY DEF Brought, Tree, Grown

LEMMA InStore ==
    ASSUME Setting, GitInv, NEW c \in DOMAIN commits, NEW d \in Hist(c)
    PROVE  d \in DOMAIN commits /\ d # Nil /\ d \in Nat
<1>1. d \in DOMAIN commits
    BY HistHas DEF GitInv
<1> QED
    BY <1>1 DEF GitInv, StoreInv, Setting

LEMMA HistStays ==
    ASSUME GitInv, Grown, NEW c \in DOMAIN commits
    PROVE  Hist(c)' = Hist(c)
BY NodeLater DEF GitInv

LEMMA PopsLater ==
    ASSUME Setting, GitInv, Grown, head'[Stash] = head[Stash], stashed' = stashed, NEW v \in Workspaces,
           PopsTrue(v), DropsTrue(v), NEW o, o = op[v],
           \/ /\ op'[v] = o
              /\ basis'[v] \in DOMAIN commits /\ Hist(basis[v]) \subseteq Hist(basis'[v])
           \/ /\ RecordsOn(v) /\ \E step \in {"refresh", "again"} : op'[v] = [o EXCEPT !.step = step]
              /\ basis'[v] \in DOMAIN commits /\ Hist(basis[v]) \subseteq Hist(basis'[v])
    PROVE  PopsTrue(v)' /\ DropsTrue(v)'
<1>1. PICK b, e, d : b = basis[v] /\ e = basis'[v] /\ d = op'[v]
    OBVIOUS
<1>2. b \in DOMAIN commits /\ e \in DOMAIN commits /\ Hist(b) \subseteq Hist(e) /\ Hist(e)' = Hist(e)
    BY <1>1, WorkHas, HistStays
<1>3. Hist(basis[v])' = Hist(e)'
    BY <1>1
<1>4. ASSUME NEW c \in Hist(b) PROVE (Brought(c)' <=> Brought(c)) /\ Tree(c)' = Tree(c)
    BY <1>2, InStore, BroughtLater
<1>5. RecordsOn(v)' => RecordsOn(v) /\ d.verb = o.verb /\ d.landed = o.landed /\ d.state = o.state
    <2>1. CASE op'[v] = o
        BY <1>1, <2>1, OnBefore
    <2>2. CASE RecordsOn(v) /\ \E step \in {"refresh", "again"} : op'[v] = [o EXCEPT !.step = step]
        BY <1>1, <2>2
    <2> QED
        BY <2>1, <2>2
<1>6. PopsTrue(v)'
    <2>1. SUFFICES ASSUME RecordsOn(v)', d.verb = "pop"
                   PROVE  /\ head'[Stash] # Nil /\ d.landed # Nil /\ d.landed \in Hist(e)' /\ Brought(d.landed)'
                          /\ d.state.unresolved = {} =>
                                \A p \in DOMAIN stashed : Tree(d.landed)'[p] = stashed[p]
        BY <1>1 DEF PopsTrue, Hist, Brought, Tree
    <2>2. /\ head[Stash] # Nil /\ o.landed # Nil /\ o.landed \in Hist(b) /\ Brought(o.landed)
          /\ o.state.unresolved = {} => \A p \in DOMAIN stashed : Tree(o.landed)[p] = stashed[p]
        BY <1>1, <1>5, <2>1 DEF PopsTrue
    <2>3. PICK c : c = o.landed
        OBVIOUS
    <2>4. Brought(c)' /\ Tree(c)' = Tree(c) /\ d.landed = c
        BY <1>4, <1>5, <2>1, <2>2, <2>3
    <2> QED
        BY <1>2, <1>5, <2>1, <2>2, <2>3, <2>4
<1>7. DropsTrue(v)'
    <2>1. SUFFICES ASSUME DropsOn(v)'
                   PROVE  /\ head'[Stash] # Nil
                          /\ \E c \in Hist(e)' :
                                /\ Brought(c)'
                                /\ \A p \in DOMAIN stashed : Tree(c)'[p] = stashed[p] \/ d.landed = Nil
        BY <1>1, <1>3 DEF DropsTrue
    <2>2. d = o /\ DropsOn(v)
        <3>1. CASE op'[v] = o
            BY <1>1, <2>1, <3>1, OnBefore
        <3>2. CASE RecordsOn(v) /\ \E step \in {"refresh", "again"} : op'[v] = [o EXCEPT !.step = step]
            BY <1>1, <2>1, <3>2 DEF DropsOn, RecordsOn
        <3> QED
            BY <3>1, <3>2
    <2>3. PICK c \in Hist(b) : /\ Brought(c)
                               /\ \A p \in DOMAIN stashed : Tree(c)[p] = stashed[p] \/ o.landed = Nil
        BY <1>1, <2>2 DEF DropsTrue
    <2>4. head[Stash] # Nil /\ Brought(c)' /\ Tree(c)' = Tree(c)
        BY <1>1, <1>4, <2>2, <2>3 DEF DropsTrue
    <2> QED
        BY <1>2, <2>2, <2>3, <2>4
<1> QED
    BY <1>6, <1>7

(* What a step adds to the store holds the stash only by a merge of it.     *)
Rightly(d) ==
    /\ \A a \in Hist(d)' : a <= d
    /\ head[Stash] # Nil /\ head[Stash] \in Hist(d)' => \E c \in Hist(d)' : Brought(c)'

LEMMA StashLater ==
    ASSUME Setting, GitInv, StashInvs, Grown, NEW w \in Workspaces, OthersRest(w),
           head'[Stash] = head[Stash], stashed' = stashed,
           \A d \in DOMAIN commits' \ DOMAIN commits : Rightly(d),
           \A s \in Sessions \ {Stash} : head'[s] = head[s] \/ head'[s] \notin DOMAIN commits,
           \/ basis'[w] \in {basis[w], TipOf(w)}
           \/ basis'[w] \notin DOMAIN commits /\ Hist(basis[w]) \subseteq Hist(basis[w])',
           WritesOn(w)' => WritesOn(w) /\ op'[w] = op[w],
           PopsTrue(w)', DropsTrue(w)'
    PROVE  StashInvs'
<1>1. PICK h : h = head[Stash]
    OBVIOUS
<1>2. /\ StoreInv /\ Numbered /\ StashedInv /\ h \in DOMAIN commits \cup {Nil} /\ Stash \in Sessions
      /\ DOMAIN commits \subseteq DOMAIN commits'
    BY <1>1 DEF GitInv, StashInvs, HeadInv, Sessions, Grown
<1>3. \A c \in DOMAIN commits : Hist(c)' = Hist(c)
    BY HistStays
<1>4. Numbered'
    BY <1>2, <1>3 DEF Numbered, Rightly
<1>5. ASSUME NEW v \in Workspaces \ {w} PROVE PopsTrue(v)' /\ DropsTrue(v)'
    <2>1. PopsTrue(v) /\ DropsTrue(v) /\ basis'[v] = basis[v] /\ op'[v] = op[v] /\ basis[v] \in DOMAIN commits
        BY WorkHas DEF StashInvs, OthersRest
    <2> QED
        BY <2>1, PopsLater
<1>6. StashedInv'
    <2>1. SUFFICES ASSUME h # Nil
                   PROVE  /\ "stash" \in Verbs /\ ~IsAgent(h)' /\ RecordOf(h)'.head = Nil
                          /\ \A s \in Sessions \ {Stash} : head'[s] # h
                          /\ \A v \in Workspaces : basis'[v] # h
                          /\ \E at \in DOMAIN commits' : StashAt(h, at)'
                          /\ \A c \in DOMAIN commits' : Brings(c, h)'
        BY <1>1 DEF StashedInv, IsAgent, RecordOf, StashAt, Brings, Hist, Tree
    <2>2. /\ "stash" \in Verbs /\ ~IsAgent(h) /\ RecordOf(h).head = Nil
          /\ \A s \in Sessions \ {Stash} : head[s] # h
          /\ \A v \in Workspaces : basis[v] # h
          /\ \A c \in DOMAIN commits : Brings(c, h)
        BY <1>1, <1>2, <2>1 DEF StashedInv
    <2>3. PICK at \in DOMAIN commits : StashAt(h, at)
        BY <1>1, <1>2, <2>1 DEF StashedInv
    <2>4. h \in DOMAIN commits /\ commits'[h] = commits[h]
        BY <1>2, <2>1 DEF Grown
    <2>5. \A s \in Sessions \ {Stash} : head'[s] # h
        BY <2>2, <2>4
    <2>6. ASSUME NEW v \in Workspaces
          PROVE  /\ basis'[v] # h /\ basis[v] \in DOMAIN commits
                 /\ Hist(basis[v]) \subseteq Hist(basis[v])'
        <3>1. PICK b, t : b = basis[v] /\ t = TipOf(v)
            OBVIOUS
        <3>2. /\ b \in DOMAIN commits /\ t \in DOMAIN commits /\ Hist(b) \subseteq Hist(t)
              /\ Hist(b)' = Hist(b) /\ Hist(t)' = Hist(t)
              /\ b # h /\ t # h
            BY <1>3, <2>2, <3>1, WorkHas DEF TipOf, Setting, Sessions
        <3>3. CASE basis'[v] = b \/ basis'[v] = t
            <4>1. Hist(basis[v])' = Hist(b)' \/ Hist(basis[v])' = Hist(t)'
                BY <3>3
            <4> QED
                BY <3>1, <3>2, <3>3, <4>1
        <3>4. CASE v = w /\ basis'[w] \notin DOMAIN commits /\ Hist(basis[w]) \subseteq Hist(basis[w])'
            BY <2>4, <3>1, <3>2, <3>4
        <3> QED
            BY <3>1, <3>3, <3>4 DEF OthersRest
    <2>7. StashAt(h, at)'
        <3>1. commits'[h].anc = commits[h].anc /\ Hist(at)' = Hist(at) /\ Tree(at)' = Tree(at) /\ Tree(h)' = Tree(h)
            BY <1>2, <1>3, <2>4, TreeLater
        <3>2. \A c \in commits[h].anc : Tree(c)' = Tree(c)
            BY <1>2, <2>4, TreeLater DEF StoreInv, NodeInv
        <3>3. \A v \in Workspaces \ Plain : at \in Hist(basis[v])'
            BY <2>3, <2>6 DEF StashAt
        <3>4. ASSUME NEW v \in Workspaces PROVE WritesOn(v)' => WritesOn(v) /\ op'[v] = op[v]
            BY OnBefore DEF OthersRest
        <3> QED
            BY <2>3, <3>1, <3>2, <3>3, <3>4 DEF StashAt
    <2>8. ASSUME NEW c \in DOMAIN commits' PROVE Brings(c, h)'
        <3>1. CASE c \in DOMAIN commits
            <4>1. Brings(c, h) /\ Hist(c)' = Hist(c)
                BY <1>3, <2>2, <3>1
            <4>2. \A d \in Hist(c) : Brought(d) => Brought(d)'
                BY <3>1, InStore, BroughtLater
            <4> QED
                BY <4>1, <4>2 DEF Brings
        <3>2. CASE c \notin DOMAIN commits
            BY <1>1, <2>1, <3>2 DEF Rightly, Brings
        <3> QED
            BY <3>1, <3>2
    <2>9. ~IsAgent(h)' /\ RecordOf(h)'.head = Nil
        BY <2>2, <2>4 DEF IsAgent, RecordOf
    <2> QED
        BY <1>2, <2>2, <2>5, <2>6, <2>7, <2>8, <2>9
<1> QED
    BY <1>4, <1>5, <1>6 DEF StashInvs

(* Steps that leave the store alone, and landings.                          *)
LEMMA StashLocal ==
    ASSUME Setting, GitInv, StashInvs, NEW w \in Workspaces, OthersRest(w), UNCHANGED store, stashed' = stashed,
           basis'[w] \in {basis[w], TipOf(w)}, WritesOn(w)' => WritesOn(w) /\ op'[w] = op[w],
           PopsTrue(w)', DropsTrue(w)'
    PROVE  StashInvs'
<1>1. Grown /\ commits' = commits /\ head' = head
    BY DEF Grown, store
<1> QED
    BY <1>1, StashLater

LEMMA StashLanding ==
    ASSUME Setting, GitInv, StashInvs, NEW w \in Workspaces, OthersRest(w), stashed' = stashed,
           NEW k, head' = [head EXCEPT ![Home[w]] = k], basis'[w] = k, k \notin DOMAIN commits,
           Hist(basis[w]) \subseteq Hist(k)', Grown,
           \A d \in DOMAIN commits' \ DOMAIN commits : Made(w, d), ~WritesOn(w)',
           PopsTrue(w)', DropsTrue(w)'
    PROVE  StashInvs'
<1>1. /\ head'[Stash] = head[Stash]
      /\ \A s \in Sessions \ {Stash} : head'[s] = head[s] \/ head'[s] \notin DOMAIN commits
      /\ Home[w] \in Sessions \ {Stash}
    BY WorkHas DEF GitInv, Domains, Sessions, Setting
<1>2. ASSUME NEW d \in DOMAIN commits' \ DOMAIN commits PROVE Rightly(d)
    <2>1. PICK h : h = head[Stash]
        OBVIOUS
    <2>2. SUFFICES ASSUME h # Nil, h \in Hist(d)' PROVE \E c \in Hist(d)' : Brought(c)'
        BY <1>2, <2>1 DEF Made, Rightly
    <2>3. PICK b \in {basis[w], TipOf(w)} : Hist(b) \subseteq Hist(d)' /\ Hist(d)' \cap DOMAIN commits \subseteq Hist(b)
        BY <1>2 DEF Made
    <2>4. h \in DOMAIN commits
        BY <2>1, <2>2 DEF GitInv, HeadInv, Sessions
    <2>5. b \in DOMAIN commits /\ b # h /\ Brings(b, h)
        BY <1>1, <2>1, <2>2, <2>3, WorkHas DEF StashInvs, StashedInv, TipOf
    <2>6. PICK c \in Hist(b) : Brought(c)
        BY <2>2, <2>3, <2>4, <2>5 DEF Brings
    <2>7. Brought(c)'
        BY <1>1, <2>5, <2>6, InStore, BroughtLater
    <2> QED
        BY <2>3, <2>6, <2>7
<1>3. Hist(basis[w]) \subseteq Hist(basis[w])'
    OBVIOUS
<1> QED
    BY <1>1, <1>2, <1>3, StashLater

---------------------------------------------------------------------------
(* A step of w, in general                                                  *)

Acts(w) ==
    Working(w) \/ Indexing(w) \/ CommitStart(w) \/ Moving(w) \/ Stashing(w) \/ RecordSteps(w) \/ Crash(w)

LEMMA OwnStep ==
    ASSUME GitInv, GitInv', NEW w \in Workspaces, Acts(w)
    PROVE  OthersRest(w)
<1>1. Domains /\ Domains'
    BY DEF GitInv
<1>2. SUFFICES ASSUME NEW v \in Workspaces \ {w}
               PROVE  basis'[v] = basis[v] /\ files'[v] = files[v] /\ record'[v] = record[v] /\ op'[v] = op[v]
    BY <1>1 DEF OthersRest
<1>3. CASE Working(w)
    BY <1>1, <1>3 DEF Working, Edit, Save, Lands, Domains
<1>4. CASE Indexing(w)
    BY <1>1, <1>4 DEF Indexing, Stage, Unstage, SetIndex, WriteRecord, Domains
<1>5. CASE CommitStart(w)
    BY <1>1, <1>5 DEF CommitStart, Domains
<1>6. CASE Moving(w)
    <2>1. CASE (\E c \in DOMAIN commits : Checkout(w, c)) \/ Abort(w)
        BY <1>1, <2>1 DEF Checkout, Abort, CheckoutTo, Domains
    <2>2. CASE \E o, t, verb, tool, source, from : Bring(w, o, t, verb, tool, source, from) /\ files' = files
        BY <1>1, <2>2 DEF Bring, Lands, Domains
    <2>3. CASE \E s \in Sessions : Merge(w, s)
        BY <2>2, <2>3 DEF Merge
    <2>4. CASE \E c \in DOMAIN commits : Revert(w, c) \/ \E s \in Sessions : Pick(w, s, c)
        BY <2>2, <2>4 DEF Revert, Pick, Apply
    <2> QED
        BY <1>6, <2>1, <2>3, <2>4 DEF Moving
<1>7. CASE Stashing(w)
    <2>1. CASE StashPop(w)
        BY <1>1, <2>1 DEF StashPop, Bring, Lands, Domains
    <2>2. CASE StashPush(w) \/ StashPopped(w) \/ StashDrop(w)
        BY <1>1, <2>2 DEF StashPush, StashPopped, StashDrop, worktrees, Domains
    <2>3. CASE \E ok \in BOOLEAN : StashWrite(w, ok)
        BY <1>1, <2>3 DEF StashWrite, CheckoutTo, worktrees, Domains
    <2> QED
        BY <1>7, <2>1, <2>2, <2>3 DEF Stashing
<1>8. CASE RecordSteps(w)
    <2>1. CASE RecordRefresh(w)
        BY <1>1, <2>1 DEF RecordRefresh, Domains
    <2>2. CASE \E ok \in BOOLEAN : CommitLand(w, ok)
        BY <1>1, <2>2 DEF CommitLand, Lands, Domains
    <2>3. CASE \E ok \in BOOLEAN : RecordRefused(w, ok) \/ RecordLost(w, ok)
        BY <1>1, <2>3 DEF RecordRefused, RecordLost, worktrees, Domains
    <2>4. CASE \E ok \in BOOLEAN : \E step \in {"record", "again"} : RecordLands(w, ok, step)
        BY <1>1, <2>4 DEF RecordLands, Lands, Done, Domains
    <2> QED
        BY <1>8, <2>1, <2>2, <2>3, <2>4 DEF RecordSteps
<1>9. CASE Crash(w)
    BY <1>1, <1>9 DEF Crash, Domains
<1> QED
    BY <1>3, <1>4, <1>5, <1>6, <1>7, <1>8, <1>9 DEF Acts

LEMMA MovesLocal ==
    ASSUME Setting, GitInv, MovesInv, NEW w \in Workspaces, OthersRest(w), UNCHANGED store, stashed' = stashed,
           basis'[w] \in {basis[w], TipOf(w)}, WritesOn(w)' => WritesOn(w) /\ op'[w] = op[w],
           FilesInv(w)', PopsTrue(w)', DropsTrue(w)'
    PROVE  MovesInv'
<1>1. Grown /\ \A v \in Workspaces : head'[Home[v]] = head[Home[v]]
    BY DEF Grown, store
<1>2. StashInvs'
    BY StashLocal DEF MovesInv
<1>3. \A v \in Workspaces : FilesInv(v)'
    BY <1>1, FilesBeside DEF MovesInv
<1> QED
    BY <1>2, <1>3 DEF MovesInv

(* A verb that ends, or a step outside of verbs.                            *)
LEMMA MovesFree ==
    ASSUME Setting, GitInv, MovesInv, NEW w \in Workspaces, OthersRest(w), UNCHANGED store, stashed' = stashed,
           basis'[w] \in {basis[w], TipOf(w)}, op'[w] = NoVerb, NearInv(w)'
    PROVE  MovesInv'
<1>1. ~LandsOn(w)' /\ ~RecordsOn(w)' /\ ~WritesOn(w)' /\ ~DropsOn(w)'
    BY FreeLater
<1>2. FilesInv(w)' /\ PopsTrue(w)' /\ DropsTrue(w)'
    BY <1>1 DEF FilesInv, LandsTrue, TakesTrue, GoesTrue, PopsTrue, DropsTrue
<1> QED
    BY <1>1, <1>2, MovesLocal

LEMMA MovesLanding ==
    ASSUME Setting, GitInv, GitInv', MovesInv, NEW w \in Workspaces, OthersRest(w), stashed' = stashed,
           NEW paths, NEW tool, NEW named, NEW vparent \in DOMAIN commits \cup {Nil},
           Lands(w, Landing(w, paths, tool, named, vparent)), w \in Plain => files'[w] = <<>>,
           TakesTrue(w)', ~LandsOn(w)', ~WritesOn(w)', RecordsOn(w)' => op'[w].verb = "commit", DropsTrue(w)'
    PROVE  MovesInv'
<1>1. PICK k : k = basis'[w]
    OBVIOUS
<1>2. /\ Grown /\ k \in DOMAIN commits' /\ k # Nil /\ head' = [head EXCEPT ![Home[w]] = k]
      /\ Hist(basis[w]) \subseteq Hist(k)'
    BY <1>1, LandingHas
<1>3. /\ k \notin DOMAIN commits
      /\ \A d \in DOMAIN commits' \ DOMAIN commits : Made(w, d)
      /\ \A p \in Paths : w \in Plain => commits'[k].tree[p] \in {Tree(TipOf(w))[p], Other}
    BY <1>1, LandingMakes, LandedTree DEF MovesInv, FilesInv
<1>4. NearInv(w)'
    BY <1>1, <1>2, WorkHas, NearOver DEF GitInv, Domains
<1>5. FilesInv(w)' /\ PopsTrue(w)'
    BY <1>4 DEF FilesInv, LandsTrue, GoesTrue, Goes, PopsTrue
<1>6. StashInvs'
    BY <1>1, <1>2, <1>3, <1>5, StashLanding DEF MovesInv
<1>7. \A v \in Workspaces : FilesInv(v)'
    BY <1>2, <1>3, <1>5, FilesOver DEF MovesInv
<1> QED
    BY <1>6, <1>7 DEF MovesInv

---------------------------------------------------------------------------
(* Work, and the agent's commits                                            *)

LEMMA EditMoves ==
    ASSUME Setting, GitInv, GitInv', MovesInv, NEW w \in Workspaces, NEW p \in Paths, NEW v, Edit(w, p, v),
           OthersRest(w)
    PROVE  MovesInv'
<1>1. /\ op'[w] = NoVerb /\ UNCHANGED store /\ stashed' = stashed /\ basis' = basis /\ NearInv(w) /\ Domains
      /\ files' = [files EXCEPT ![w] = Over(Tree(basis[w]), Only(p, v), @)]
    BY DEF Edit, Free, story, GitInv, MovesInv, FilesInv
<1>2. NearInv(w)'
    <2>1. CASE w \notin Plain
        <3>1. Grown /\ head'[Home[w]] = head[Home[w]]
            BY <1>1 DEF Grown, store
        <3> QED
            BY <1>1, <2>1, <3>1, NearStill
    <2>2. CASE w \in Plain
        <3>1. v = Other
            BY <2>2 DEF Edit
        <3>2. files'[w] = Over(Tree(basis[w]), Only(p, v), files[w])
            BY <1>1 DEF Domains
        <3>3. \A q \in DOMAIN files[w] : files[w][q] = Other
            BY <1>1, <2>2 DEF NearInv
        <3>4. PICK all : all = Laid(Only(p, v), files[w])
            OBVIOUS
        <3>5. \A q \in DOMAIN all : all[q] = Other
            BY <3>1, <3>3, <3>4 DEF Laid, Only
        <3>6. \A q \in DOMAIN files'[w] : files'[w][q] = Other
            BY <3>2, <3>4, <3>5 DEF Over, Restrict
        <3> QED
            BY <2>2, <3>6 DEF NearInv
    <2> QED
        BY <2>1, <2>2
<1> QED
    BY <1>1, <1>2, MovesFree

LEMMA SaveMoves ==
    ASSUME Setting, GitInv, GitInv', MovesInv, NEW w \in Workspaces, Save(w), OthersRest(w)
    PROVE  MovesInv'
<1>1. /\ op'[w] = NoVerb /\ stashed' = stashed /\ files'[w] = <<>> /\ Lands(w, Landing(w, Paths, "none", {}, Nil))
    BY DEF Save, Free, story, GitInv, Domains
<1>2. ~LandsOn(w)' /\ ~RecordsOn(w)' /\ ~WritesOn(w)' /\ ~DropsOn(w)'
    BY <1>1, FreeLater
<1> QED
    BY <1>1, <1>2, MovesLanding DEF TakesTrue, DropsTrue

LEMMA IndexMoves ==
    ASSUME Setting, GitInv, GitInv', MovesInv, NEW w \in Workspaces, NEW staged, SetIndex(w, staged), OthersRest(w)
    PROVE  MovesInv'
<1>1. /\ op'[w] = NoVerb /\ UNCHANGED store /\ stashed' = stashed /\ basis' = basis /\ w \in Workspaces \ Plain
      /\ NearInv(w)
    BY DEF SetIndex, Starts, Free, story, MovesInv, FilesInv
<1>2. Grown /\ head'[Home[w]] = head[Home[w]]
    BY <1>1 DEF Grown, store
<1> QED
    BY <1>1, <1>2, NearStill, MovesFree

LEMMA CommitStartMoves ==
    ASSUME Setting, GitInv, GitInv', MovesInv, NEW w \in Workspaces, CommitStart(w), OthersRest(w)
    PROVE  MovesInv'
<1>1. PICK named, out, was, t, f, g, o, b, seen, old :
        /\ b = basis[w] /\ t = Tree(basis[w]) /\ seen = ViewOf(w) /\ old = State(w)
        /\ named = Named(w) /\ out = Modified(w) \ Named(w) /\ was = Tree(Ref(State(w)))
        /\ g = Laid([p \in out |-> was[p]], Restrict(ViewOf(w), {q \in Named(w) : ViewOf(w)[q] # Nil}))
        /\ f = Over(t, g, files[w])
        /\ o = [verb |-> "commit", step |-> "land", named |-> Named(w), out |-> out,
                saw |-> ViewOf(w), old |-> State(w)]
    OBVIOUS
<1>2. /\ w \in Workspaces \ Plain /\ Domains /\ UNCHANGED store /\ stashed' = stashed /\ basis' = basis
      /\ files' = [files EXCEPT ![w] = f] /\ op' = [op EXCEPT ![w] = o]
    BY <1>1 DEF CommitStart, Starts, GitInv, story
<1>3. /\ files'[w] = f /\ op'[w] = o /\ StoreInv /\ RecordAt(old, b) /\ b \in DOMAIN commits
      /\ IsTree(t) /\ IsTree(seen) /\ IsPart(files[w])
    BY <1>1, <1>2, WorkHas, TreeOf DEF GitInv, Domains
<1>4. IsTree(was) /\ Ref(old) \in DOMAIN commits \cup {Nil}
    BY <1>1, <1>3, RefsIn, TreeOf
<1>5. /\ named \cap out = {} /\ named \subseteq Paths /\ out \subseteq Paths
      /\ \A p \in Paths \ (named \cup out) : seen[p] = was[p]
    BY <1>1 DEF Named, Modified, Differing
<1>6. /\ IsPart(g) /\ DOMAIN g = out \cup {q \in named : seen[q] # Nil}
      /\ \A p \in out : g[p] = was[p]
      /\ \A p \in DOMAIN g \ out : g[p] = seen[p]
    <2>1. PICK r : r = Restrict(seen, {q \in named : seen[q] # Nil})
        OBVIOUS
    <2>2. DOMAIN r = {q \in named : seen[q] # Nil} /\ \A p \in DOMAIN r : r[p] = seen[p]
        BY <1>3, <1>5, <2>1 DEF Restrict, IsTree
    <2>3. IsPart(r)
        BY <1>3, <1>5, <2>2 DEF IsPart, IsTree
    <2>4. PICK u : u = [p \in out |-> was[p]]
        OBVIOUS
    <2>5. IsPart(u) /\ DOMAIN u = out /\ \A p \in out : u[p] = was[p]
        BY <1>4, <1>5, <2>4 DEF IsPart, IsTree
    <2>6. g = Laid(u, r)
        BY <1>1, <2>1, <2>4
    <2>7. DOMAIN g = DOMAIN u \cup DOMAIN r /\ \A p \in DOMAIN g : g[p] = IF p \in DOMAIN u THEN u[p] ELSE r[p]
        BY <2>6 DEF Laid
    <2> QED
        BY <2>2, <2>3, <2>5, <2>6, <2>7, PartOnPart
<1>7. ASSUME NEW p \in Paths PROVE ViewOf(w)'[p] = IF p \in named THEN seen[p] ELSE was[p]
    <2>1. ViewOf(w)' = Laid(f, t)
        BY <1>1, <1>2, <1>3, SameStore DEF ViewOf
    <2>2. Laid(f, t)[p] = IF p \in DOMAIN g THEN g[p] ELSE Laid(files[w], t)[p]
        BY <1>1, <1>3, <1>6, ViewOver
    <2>3. Laid(files[w], t) = seen
        BY <1>1 DEF ViewOf
    <2> QED
        BY <1>5, <1>6, <2>1, <2>2, <2>3
<1>8. LandsTrue(w)'
    <2>1. o.named = named /\ o.out = out /\ o.saw = seen /\ o.old = old
        BY <1>1
    <2>2. Tree(Ref(o.old))' = was
        BY <1>1, <1>2, <2>1, SameStore DEF Ref
    <2> QED
        BY <1>3, <1>5, <1>7, <2>1, <2>2 DEF LandsTrue
<1>9. /\ ~RecordsOn(w)' /\ ~WritesOn(w)' /\ ~DropsOn(w)'
    BY <1>1, <1>3 DEF RecordsOn, WritesOn, DropsOn
<1>10. NearInv(w)'
    <2>1. Grown /\ head'[Home[w]] = head[Home[w]] /\ NearInv(w)
        BY <1>2 DEF Grown, store, MovesInv, FilesInv
    <2> QED
        BY <1>2, <2>1, NearStill
<1> QED
    BY <1>2, <1>8, <1>9, <1>10, MovesLocal DEF FilesInv, TakesTrue, GoesTrue, PopsTrue, DropsTrue

LEMMA PutBackShows ==
    ASSUME NEW w, NEW t, op[w].out \subseteq Paths, op[w].out # {} => IsTree(t)
    PROVE  /\ IsPart(PutBack(w, t)) /\ DOMAIN PutBack(w, t) = op[w].out
           /\ \A p \in op[w].out : PutBack(w, t)[p] = t[p]
BY PutBackPart DEF PutBack

LEMMA RefusedMoves ==
    ASSUME Setting, GitInv, GitInv', MovesInv, NEW w \in Workspaces, NEW ok, CommitLand(w, ok),
           Refuses(w, op[w].named \cup op[w].out, ok), OthersRest(w)
    PROVE  /\ MovesInv' /\ basis' = basis
           /\ \A p \in op[w].named \cup op[w].out : NewView(w)[p] = op[w].saw[p]
<1>1. PICK f, o, t : f = Over(Tree(basis[w]), PutBack(w, op[w].saw), files[w]) /\ o = op[w] /\ t = Tree(basis[w])
    OBVIOUS
<1>2. /\ LandsOn(w) /\ LandsTrue(w) /\ NearInv(w) /\ w \in Workspaces \ Plain /\ Domains /\ UNCHANGED store
      /\ stashed' = stashed /\ basis' = basis /\ files' = [files EXCEPT ![w] = f] /\ op' = [op EXCEPT ![w] = NoVerb]
    BY <1>1, BusyHas DEF CommitLand, GitInv, story, MovesInv, FilesInv
<1>3. /\ files'[w] = f /\ op'[w] = NoVerb /\ Grown /\ head'[Home[w]] = head[Home[w]]
      /\ IsTree(t) /\ IsPart(files[w]) /\ t = commits'[basis'[w]].tree
    <2>1. basis[w] \in DOMAIN commits /\ basis[w] # Nil
        BY WorkHas DEF GitInv, StoreInv, Setting
    <2> QED
        BY <1>1, <1>2, <2>1, WorkHas, TreeOf DEF Grown, store, GitInv, Domains, Tree
<1>4. MovesInv'
    BY <1>2, <1>3, NearStill, MovesFree
<1>5. ASSUME NEW p \in o.named \cup o.out PROVE NewView(w)[p] = o.saw[p]
    <2>1. p \in Paths /\ (p \in o.named => ViewOf(w)[p] = o.saw[p]) /\ o.out \subseteq Paths /\ IsTree(o.saw)
        BY <1>1, <1>2 DEF LandsTrue, LandsOn
    <2>2. PICK g : g = PutBack(w, o.saw)
        OBVIOUS
    <2>3. IsPart(g) /\ DOMAIN g = o.out /\ \A q \in o.out : g[q] = o.saw[q]
        BY <1>1, <2>1, <2>2, PutBackShows
    <2>4. Laid(f, t)[p] = IF p \in DOMAIN g THEN g[p] ELSE Laid(files[w], t)[p]
        BY <1>1, <1>3, <2>1, <2>2, <2>3, ViewOver
    <2>5. NewView(w) = Laid(f, t) /\ ViewOf(w) = Laid(files[w], t)
        BY <1>1, <1>3 DEF NewView, ViewOf
    <2> QED
        BY <1>5, <2>1, <2>3, <2>4, <2>5
<1> QED
    BY <1>1, <1>2, <1>4, <1>5

LEMMA LandedMoves ==
    ASSUME Setting, GitInv, GitInv', MovesInv, NEW w \in Workspaces, NEW ok, CommitLand(w, ok),
           ~Refuses(w, op[w].named \cup op[w].out, ok), OthersRest(w)
    PROVE  /\ MovesInv' /\ op'[w].verb = "commit"
           /\ basis[w] = TipOf(w) /\ DOMAIN files[w] \subseteq op[w].named \cup op[w].out =>
                \A p \in Paths \ op[w].named : commits'[basis'[w]].tree[p] = Tree(Ref(op[w].old))[p]
<1>1. PICK keys, k, o, d, f, t, u :
        /\ keys = op[w].named \cup op[w].out /\ k = basis'[w] /\ o = op[w] /\ d = op'[w]
        /\ t = commits'[basis'[w]].tree /\ u = OursTree(w, keys)
        /\ f = Over(commits'[basis'[w]].tree, PutBack(w, op[w].saw), Rest(w, keys))
    OBVIOUS
<1>2. /\ LandsOn(w) /\ LandsTrue(w) /\ NearInv(w) /\ w \in Workspaces \ Plain /\ Domains /\ stashed' = stashed
      /\ Lands(w, Landing(w, keys, "commit", o.named, o.old.head)) /\ files' = [files EXCEPT ![w] = f]
      /\ op' = [op EXCEPT ![w] = [verb |-> "commit", step |-> "record", landed |-> basis'[w],
                                  state |-> record'[w], tree |-> o.saw, out |-> o.out,
                                  named |-> o.named, saw |-> o.saw, old |-> o.old]]
    BY <1>1, BusyHas DEF CommitLand, GitInv, story, MovesInv, FilesInv
<1>3. /\ files'[w] = f /\ d.verb = "commit" /\ d.step = "record" /\ d.landed = k /\ d.tree = o.saw /\ d.saw = o.saw
      /\ d.out = o.out /\ d.named = o.named
    BY <1>1, <1>2 DEF Domains
<1>4. o.old.head \in DOMAIN commits \cup {Nil}
    BY <1>1, <1>2, WorkHas, RefsIn DEF LandsOn, GitInv
<1>5. StoreInv' /\ k \in DOMAIN commits' /\ k # Nil
    BY <1>1, <1>2, <1>4, LandingHas
<1>6. /\ IsTree(t) /\ IsPart(files[w]) /\ ViewOf(w)' = Laid(f, t)
    <2>1. IsTree(t)
        BY <1>1, <1>5 DEF StoreInv, NodeInv, IsTree, Contents
    <2> QED
        BY <1>1, <1>3, <1>5, <2>1, WorkHas DEF ViewOf, Tree
<1>7. ASSUME NEW p \in Paths
      PROVE  /\ t[p] \in {u[p], Other} /\ u[p] = IF p \in keys THEN ViewOf(w)[p] ELSE Tree(basis[w])[p]
             /\ basis[w] = TipOf(w) => t[p] = u[p]
    BY <1>1, <1>2, LandedTree, OursShows, LandingMakes
<1>8. /\ o.named \subseteq Paths /\ o.out \subseteq Paths /\ o.named \cap o.out = {} /\ IsTree(o.saw)
      /\ \A p \in o.named : ViewOf(w)[p] = o.saw[p]
      /\ \A p \in Paths \ o.named : ViewOf(w)[p] = Tree(Ref(o.old))[p]
    BY <1>1, <1>2 DEF LandsOn, LandsTrue
<1>9. PICK g, r : g = PutBack(w, o.saw) /\ r = Rest(w, keys)
    OBVIOUS
<1>10. /\ IsPart(g) /\ DOMAIN g = o.out /\ \A q \in o.out : g[q] = o.saw[q]
       /\ IsPart(r) /\ DOMAIN r = DOMAIN files[w] \ keys
    <2>1. IsPart(g) /\ DOMAIN g = o.out /\ \A q \in o.out : g[q] = o.saw[q]
        BY <1>1, <1>8, <1>9, PutBackShows
    <2>2. IsPart(r) /\ DOMAIN r = DOMAIN files[w] \ keys
        BY <1>6, <1>9, RestPart DEF Rest, Restrict
    <2> QED
        BY <2>1, <2>2
<1>11. ASSUME NEW p \in Paths
       PROVE  /\ ViewOf(w)'[p] = IF p \in DOMAIN g THEN g[p] ELSE Laid(r, t)[p]
              /\ p \in DOMAIN f => p \in DOMAIN g \cup DOMAIN r
              /\ Laid(r, t)[p] = IF p \in DOMAIN r THEN r[p] ELSE t[p]
    BY <1>1, <1>6, <1>9, <1>10, ViewOver, ShownHas
<1>12. TakesTrue(w)'
    <2>1. ASSUME NEW p \in o.out PROVE ViewOf(w)'[p] = o.saw[p]
        BY <1>8, <1>10, <1>11
    <2>2. ASSUME NEW p \in o.named PROVE p \notin DOMAIN f /\ ViewOf(w)'[p] \in {o.saw[p], Other}
        <3>1. p \in Paths /\ p \notin o.out /\ p \in keys /\ p \notin DOMAIN g \cup DOMAIN r
            BY <1>1, <1>8, <1>10
        <3> QED
            BY <1>7, <1>8, <1>11, <3>1
    <2> QED
        BY <1>1, <1>3, <1>5, <1>8, <2>1, <2>2 DEF TakesTrue
<1>13. ~LandsOn(w)' /\ ~WritesOn(w)' /\ ~DropsOn(w)'
    BY <1>1, <1>3 DEF LandsOn, WritesOn, DropsOn
<1>14. MovesInv'
    BY <1>1, <1>2, <1>3, <1>4, <1>12, <1>13, MovesLanding DEF DropsTrue
<1>15. ASSUME basis[w] = TipOf(w), DOMAIN files[w] \subseteq keys, NEW p \in Paths \ o.named
       PROVE  t[p] = Tree(Ref(o.old))[p]
    <2>1. p \notin keys => ViewOf(w)[p] = Tree(basis[w])[p]
        BY <1>15, WorkHas, TreeOf, ShownHas DEF ViewOf, GitInv
    <2> QED
        BY <1>7, <1>8, <1>15, <2>1
<1> QED
    BY <1>1, <1>3, <1>14, <1>15

---------------------------------------------------------------------------
(* A verb's record                                                          *)

LEMMA RecordLandsMoves ==
    ASSUME Setting, GitInv, GitInv', MovesInv, NEW w \in Workspaces, NEW ok, NEW step \in {"record", "again"},
           RecordLands(w, ok, step), OthersRest(w)
    PROVE  /\ MovesInv' /\ commits' # commits /\ RecordsOn(w)
           /\ \A p \in Paths : NewView(w)[p] \in {ViewOf(w)[p], Other}
<1>1. PICK k, o, d, t, u, r : /\ k = basis'[w] /\ o = op[w] /\ d = op'[w] /\ t = commits'[basis'[w]].tree
                              /\ u = OursTree(w, op[w].out) /\ r = Rest(w, op[w].out)
    OBVIOUS
<1>2. /\ RecordsOn(w) /\ NearInv(w) /\ PopsTrue(w) /\ w \in Workspaces \ Plain /\ Domains /\ stashed' = stashed
      /\ Lands(w, Landing(w, o.out, "record", {}, Nil)) /\ Done(w) /\ files' = [files EXCEPT ![w] = r]
    BY <1>1, BusyHas DEF RecordLands, GitInv, MovesInv, FilesInv, StashInvs
<1>3. /\ files'[w] = r /\ (d = NoVerb \/ (o.verb = "pop" /\ o.state.unresolved = {} /\ d = [o EXCEPT !.step = "drop"]))
    BY <1>1, <1>2 DEF Domains, Done
<1>4. /\ Grown /\ StoreInv' /\ k \in DOMAIN commits' /\ k # Nil /\ k \notin DOMAIN commits
      /\ Hist(basis[w]) \subseteq Hist(k)' /\ head' = [head EXCEPT ![Home[w]] = k]
    BY <1>1, <1>2, LandingHas, LandingMakes
<1>5. ASSUME NEW p \in Paths
      PROVE  /\ t[p] \in {u[p], Other}
             /\ u[p] = IF p \in o.out THEN ViewOf(w)[p] ELSE Tree(basis[w])[p]
    BY <1>1, <1>2, LandedTree, OursShows
<1>6. IsTree(t)
    BY <1>1, <1>4 DEF StoreInv, NodeInv, IsTree, Contents
<1>7. ASSUME NEW p \in Paths PROVE NewView(w)[p] \in {ViewOf(w)[p], Other}
    <2>1. NewView(w)[p] = IF p \in DOMAIN r THEN r[p] ELSE t[p]
        BY <1>1, <1>3, <1>6, ShownHas DEF NewView
    <2>2. DOMAIN r = DOMAIN files[w] \ o.out /\ \A q \in DOMAIN r : r[q] = files[w][q]
        BY <1>1 DEF Rest, Restrict
    <2>3. ViewOf(w)[p] = IF p \in DOMAIN files[w] THEN files[w][p] ELSE Tree(basis[w])[p]
        BY WorkHas, TreeOf, ShownHas DEF ViewOf, GitInv
    <2> QED
        BY <1>5, <2>1, <2>2, <2>3
<1>8. ~RecordsOn(w)' /\ ~LandsOn(w)' /\ ~WritesOn(w)'
    <2>1. CASE d = NoVerb
        BY <1>1, <2>1, FreeLater
    <2>2. CASE o.verb = "pop" /\ d = [o EXCEPT !.step = "drop"]
        <3>1. d.step = "drop" /\ d.verb = "pop"
            BY <1>1, <1>2, <2>2 DEF RecordsOn
        <3> QED
            BY <1>1, <3>1 DEF RecordsOn, LandsOn, WritesOn
    <2> QED
        BY <1>3, <2>1, <2>2
<1>9. DropsTrue(w)'
    <2>1. CASE d = NoVerb
        BY <1>1, <2>1, FreeLater DEF DropsTrue
    <2>2. CASE o.verb = "pop" /\ o.state.unresolved = {} /\ d = [o EXCEPT !.step = "drop"]
        <3>1. /\ head[Stash] # Nil /\ o.landed # Nil /\ o.landed \in Hist(basis[w]) /\ Brought(o.landed)
              /\ \A p \in DOMAIN stashed : Tree(o.landed)[p] = stashed[p]
            BY <1>1, <1>2, <2>2 DEF PopsTrue
        <3>2. PICK c : c = o.landed
            OBVIOUS
        <3>3. c \in DOMAIN commits /\ c \in Hist(k)'
            BY <1>4, <3>1, <3>2, WorkHas, InStore
        <3>4. head'[Stash] = head[Stash]
            BY <1>2, <1>4, WorkHas DEF Domains, Sessions, Setting
        <3>5. Brought(c)' /\ Tree(c)' = Tree(c)
            BY <1>2, <1>4, <3>1, <3>2, <3>3, <3>4, BroughtLater
        <3>6. Hist(basis[w])' = Hist(k)'
            BY <1>1
        <3> QED
            BY <1>2, <3>1, <3>2, <3>3, <3>4, <3>5, <3>6 DEF DropsTrue
    <2> QED
        BY <1>3, <2>1, <2>2
<1>10. MovesInv'
    BY <1>2, <1>8, <1>9, MovesLanding DEF TakesTrue
<1> QED
    BY <1>2, <1>4, <1>7, <1>10

(* One more try at a record, or none.                                       *)
StillShows(w) ==
    /\ op[w].verb = "commit" =>
          /\ \A p \in op[w].out : ViewOf(w)'[p] = op[w].saw[p]
          /\ \A p \in op[w].named : p \notin DOMAIN files'[w] /\ ViewOf(w)'[p] \in {op[w].saw[p], Other}
    /\ op[w].verb \in Goes => \A p \in op[w].out : ViewOf(w)'[p] = op[w].tree[p]

LEMMA VerbGoesOn ==
    ASSUME Setting, GitInv, MovesInv, NEW w \in Workspaces, RecordsOn(w), OthersRest(w), UNCHANGED store,
           stashed' = stashed, basis'[w] \in {basis[w], TipOf(w)}, StillShows(w),
           NEW step \in {"refresh", "again"}, op'[w] = [op[w] EXCEPT !.step = step]
    PROVE  MovesInv'
<1>1. PICK d, o : d = op'[w] /\ o = op[w]
    OBVIOUS
<1>2. /\ d.step = step /\ d.verb = o.verb /\ d.out = o.out /\ d.saw = o.saw /\ d.named = o.named
      /\ d.tree = o.tree /\ d.state = o.state /\ d.old = o.old /\ d.landed = o.landed
    BY <1>1 DEF RecordsOn
<1>3. w \in Workspaces \ Plain /\ Grown /\ head'[Home[w]] = head[Home[w]] /\ head'[Stash] = head[Stash]
    BY FreeHas DEF GitInv, OpInv, Grown, store
<1>4. TakesTrue(w) /\ GoesTrue(w) /\ NearInv(w) /\ PopsTrue(w) /\ DropsTrue(w)
    BY DEF MovesInv, FilesInv, StashInvs
<1>5. NearInv(w)'
    BY <1>3, <1>4, NearStill
<1>6. TakesTrue(w)'
    BY <1>1, <1>2, <1>4 DEF TakesTrue, StillShows
<1>7. GoesTrue(w)'
    <2>1. Tree(o.state.head)' = Tree(o.state.head)
        BY SameStore
    <2> QED
        BY <1>1, <1>2, <1>4, <2>1 DEF GoesTrue, Differing, StillShows
<1>8. ~LandsOn(w)' /\ ~WritesOn(w)'
    BY <1>1, <1>2 DEF LandsOn, WritesOn
<1>9. PopsTrue(w)' /\ DropsTrue(w)'
    <2>1. basis'[w] \in DOMAIN commits /\ Hist(basis[w]) \subseteq Hist(basis'[w])
        BY WorkHas
    <2> QED
        BY <1>3, <1>4, <2>1, PopsLater
<1> QED
    BY <1>5, <1>6, <1>7, <1>8, <1>9, MovesLocal DEF FilesInv, LandsTrue

LEMMA RecordRefusedMoves ==
    ASSUME Setting, GitInv, GitInv', MovesInv, NEW w \in Workspaces, NEW ok, RecordRefused(w, ok), OthersRest(w)
    PROVE  MovesInv' /\ op'[w].verb # "none"
<1>1. PICK o : o = op[w]
    OBVIOUS
<1>2. /\ RecordsOn(w) /\ UNCHANGED store /\ stashed' = stashed /\ basis' = basis /\ files' = files
      /\ op'[w] = [o EXCEPT !.step = "refresh"] /\ TakesTrue(w) /\ GoesTrue(w)
    BY <1>1, BusyHas DEF RecordRefused, worktrees, story, GitInv, Domains, MovesInv, FilesInv
<1>3. ViewOf(w)' = ViewOf(w)
    BY <1>2, SameStore DEF ViewOf
<1>4. op'[w].verb # "none"
    BY <1>1, <1>2 DEF RecordsOn
<1>5. StillShows(w)
    BY <1>1, <1>2, <1>3 DEF TakesTrue, GoesTrue, StillShows
<1>6. MovesInv'
    BY <1>1, <1>2, <1>5, VerbGoesOn
<1> QED
    BY <1>4, <1>6

LEMMA RecordRefreshMoves ==
    ASSUME Setting, GitInv, GitInv', MovesInv, NEW w \in Workspaces, RecordRefresh(w), OthersRest(w)
    PROVE  MovesInv' /\ op'[w].verb # "none"
<1>1. PICK o, b, t, f, g :
        /\ o = op[w] /\ b = TipOf(w) /\ t = Tree(TipOf(w)) /\ g = PutBack(w, op[w].tree)
        /\ f = Over(Tree(TipOf(w)), PutBack(w, op[w].tree), <<>>)
    OBVIOUS
<1>2. /\ RecordsOn(w) /\ UNCHANGED store /\ stashed' = stashed /\ basis'[w] = b /\ files'[w] = f
      /\ op'[w] = [o EXCEPT !.step = "again"] /\ TakesTrue(w) /\ GoesTrue(w) /\ NearInv(w) /\ w \notin Plain
    BY <1>1, BusyHas DEF RecordRefresh, story, GitInv, Domains, MovesInv, FilesInv
<1>3. op'[w].verb # "none"
    BY <1>1, <1>2 DEF RecordsOn
<1>4. IsTree(t) /\ ViewOf(w)' = Laid(f, t)
    BY <1>1, <1>2, WorkHas, TreeOf, SameStore DEF ViewOf, GitInv
<1>5. /\ o.out \subseteq Paths /\ IsPart(g) /\ DOMAIN g = o.out /\ \A p \in o.out : g[p] = o.tree[p]
    BY <1>1, <1>2, PutBackShows DEF RecordsOn
<1>6. ASSUME NEW p \in Paths
      PROVE  /\ ViewOf(w)'[p] = IF p \in o.out THEN o.tree[p] ELSE t[p]
             /\ p \in DOMAIN f => p \in o.out
    <2>1. PICK n : n = <<>>
        OBVIOUS
    <2>2. IsPart(n) /\ DOMAIN n = {}
        BY <2>1, EmptyPart
    <2>3. /\ Laid(f, t)[p] = IF p \in DOMAIN g THEN g[p] ELSE Laid(n, t)[p]
          /\ p \in DOMAIN f => p \in DOMAIN g \cup DOMAIN n
        BY <1>1, <1>4, <1>5, <2>1, <2>2, ViewOver
    <2>4. Laid(n, t)[p] = t[p]
        BY <1>4, <2>2, ShownHas
    <2> QED
        BY <1>4, <1>5, <2>2, <2>3, <2>4
<1>7. o.verb = "commit" =>
        /\ \A p \in o.out : ViewOf(w)'[p] = o.saw[p]
        /\ \A p \in o.named : p \notin DOMAIN files'[w] /\ ViewOf(w)'[p] \in {o.saw[p], Other}
    <2>1. SUFFICES ASSUME o.verb = "commit"
                   PROVE  /\ \A p \in o.out : ViewOf(w)'[p] = o.saw[p]
                          /\ \A p \in o.named : p \notin DOMAIN f /\ ViewOf(w)'[p] \in {o.saw[p], Other}
        BY <1>2
    <2>2. /\ o.named \subseteq Paths /\ o.named \cap o.out = {} /\ o.tree = o.saw
          /\ \A p \in o.out : ViewOf(w)[p] = o.saw[p]
          /\ \A p \in o.named : p \notin DOMAIN files[w] /\ ViewOf(w)[p] \in {o.saw[p], Other}
        BY <1>1, <1>2, <2>1 DEF TakesTrue
    <2>3. ASSUME NEW p \in o.named PROVE p \notin DOMAIN f /\ ViewOf(w)'[p] \in {o.saw[p], Other}
        <3>1. t[p] \in {ViewOf(w)[p], Other}
            <4>1. ViewOf(w)[p] = Tree(basis[w])[p]
                BY <2>2, <2>3, WorkHas, TreeOf, ShownHas DEF ViewOf, GitInv
            <4> QED
                BY <1>1, <1>2, <2>2, <2>3, <4>1 DEF NearInv
        <3> QED
            BY <1>5, <1>6, <2>2, <2>3, <3>1
    <2> QED
        BY <1>5, <1>6, <2>2, <2>3
<1>8. o.verb \in Goes => \A p \in o.out : ViewOf(w)'[p] = o.tree[p]
    BY <1>5, <1>6
<1>9. StillShows(w)
    BY <1>1, <1>7, <1>8 DEF StillShows
<1>10. MovesInv'
    BY <1>1, <1>2, <1>9, VerbGoesOn
<1> QED
    BY <1>3, <1>10

LEMMA RecordLostMoves ==
    ASSUME Setting, GitInv, GitInv', MovesInv, NEW w \in Workspaces, NEW ok, RecordLost(w, ok), OthersRest(w)
    PROVE  /\ MovesInv' /\ RecordsOn(w) /\ commits' = commits
           /\ op[w].landed # Nil => NewView(w) = ViewOf(w)
           /\ op[w].landed = Nil => \A p \in op[w].out : NewView(w)[p] = op[w].saw[p]
<1>1. PICK o, t, f, g : /\ o = op[w] /\ t = Tree(basis[w]) /\ g = PutBack(w, op[w].saw)
                        /\ f = Over(Tree(basis[w]), PutBack(w, op[w].saw), files[w])
    OBVIOUS
<1>2. /\ RecordsOn(w) /\ w \in Workspaces \ Plain /\ NearInv(w) /\ Domains /\ UNCHANGED store /\ stashed' = stashed
      /\ basis' = basis /\ op'[w] = NoVerb
      /\ IF o.landed # Nil THEN files' = files ELSE files' = [files EXCEPT ![w] = f]
    BY <1>1, BusyHas DEF RecordLost, story, GitInv, Domains, MovesInv, FilesInv
<1>3. /\ commits' = commits /\ Grown /\ head'[Home[w]] = head[Home[w]]
      /\ IsTree(t) /\ IsPart(files[w]) /\ t = commits'[basis'[w]].tree
    <2>1. basis[w] \in DOMAIN commits /\ basis[w] # Nil
        BY WorkHas DEF GitInv, StoreInv, Setting
    <2> QED
        BY <1>1, <1>2, <2>1, WorkHas, TreeOf DEF Grown, store, GitInv, Tree
<1>4. MovesInv'
    BY <1>2, <1>3, NearStill, MovesFree
<1>5. o.landed # Nil => NewView(w) = ViewOf(w)
    BY <1>1, <1>2, <1>3 DEF NewView, ViewOf
<1>6. ASSUME o.landed = Nil, NEW p \in o.out PROVE NewView(w)[p] = o.saw[p]
    <2>1. p \in Paths /\ o.out \subseteq Paths /\ IsTree(o.saw)
        BY <1>1, <1>2, <1>6 DEF RecordsOn
    <2>2. IsPart(g) /\ DOMAIN g = o.out /\ \A q \in o.out : g[q] = o.saw[q]
        BY <1>1, <2>1, PutBackShows
    <2>3. Laid(f, t)[p] = IF p \in DOMAIN g THEN g[p] ELSE Laid(files[w], t)[p]
        BY <1>1, <1>3, <2>1, <2>2, ViewOver
    <2>4. NewView(w) = Laid(f, t)
        BY <1>2, <1>3, <1>6 DEF NewView, Domains
    <2> QED
        BY <1>6, <2>2, <2>3, <2>4
<1> QED
    BY <1>1, <1>2, <1>3, <1>4, <1>5, <1>6

LEMMA CrashMoves ==
    ASSUME Setting, GitInv, GitInv', MovesInv, NEW w \in Workspaces, Crash(w), OthersRest(w)
    PROVE  MovesInv'
<1>1. /\ w \in Workspaces \ Plain /\ NearInv(w) /\ UNCHANGED store /\ stashed' = stashed
      /\ basis'[w] = TipOf(w) /\ op'[w] = NoVerb
    BY BusyHas DEF Crash, story, GitInv, Domains, MovesInv, FilesInv
<1>2. Grown /\ head'[Home[w]] = head[Home[w]]
    BY <1>1 DEF Grown, store
<1> QED
    BY <1>1, <1>2, NearStill, MovesFree

---------------------------------------------------------------------------
(* Checkouts                                                                *)

LEMMA CheckoutToMoves ==
    ASSUME Setting, GitInv, Grown, NEW w \in Workspaces, NEW c \in DOMAIN commits \cup {Nil}, NEW verb \in Goes,
           CheckoutTo(w, c, verb), basis' = basis, Domains',
           verb = "abort" => State(w).pre = c
    PROVE  /\ GoesTrue(w)' /\ TakesTrue(w)' /\ PopsTrue(w)'
           /\ ~LandsOn(w)' /\ ~WritesOn(w)' /\ ~DropsOn(w)'
<1>1. PICK t, u, out, g, f, d, r :
        /\ t = Tree(basis[w]) /\ u = Tree(c) /\ out = Differing(ViewOf(w), Tree(c))
        /\ g = [p \in out |-> Tree(c)[p]] /\ f = Over(Tree(basis[w]), [p \in out |-> Tree(c)[p]], files[w])
        /\ r = [State(w) EXCEPT !.head = c, !.staged = {}, !.source = Nil, !.unresolved = {}, !.pre = Nil]
        /\ d = [verb |-> verb, step |-> "record", landed |-> Nil, state |-> r,
                tree |-> Tree(c), out |-> out, saw |-> ViewOf(w), old |-> State(w)]
    OBVIOUS
<1>2. op'[w] = d /\ files'[w] = f /\ Domains /\ StoreInv /\ basis[w] \in DOMAIN commits
    BY <1>1, WorkHas DEF CheckoutTo, GitInv, Domains
<1>3. /\ d.verb = verb /\ d.step = "record" /\ d.landed = Nil /\ d.state = r /\ d.tree = u /\ d.out = out
      /\ d.saw = ViewOf(w) /\ d.old = State(w)
    BY <1>1
<1>4. r.head = c
    <2>1. State(w) \in Records
        BY WorkHas DEF RecordAt
    <2> QED
        BY <1>1, <2>1 DEF Records
<1>5. Tree(c)' = u /\ Tree(basis[w])' = t
    <2>1. PICK b : b = basis[w]
        OBVIOUS
    <2>2. Tree(b)' = Tree(b) /\ Tree(c)' = Tree(c)
        BY <1>2, <2>1, TreeLater
    <2> QED
        BY <1>1, <2>1, <2>2 DEF Tree
<1>6. IsTree(t) /\ IsTree(u) /\ IsPart(files[w]) /\ IsPart(g) /\ DOMAIN g = out /\ out \subseteq Paths
    <2>1. IsTree(t) /\ IsTree(u) /\ IsPart(files[w])
        BY <1>1, <1>2, WorkHas, TreeOf
    <2>2. out \subseteq Paths
        BY <1>1 DEF Differing
    <2> QED
        BY <1>1, <2>1, <2>2 DEF IsPart, IsTree
<1>7. ASSUME NEW p \in out PROVE ViewOf(w)'[p] = u[p]
    <2>1. ViewOf(w)' = Laid(f, t)
        BY <1>2, <1>5 DEF ViewOf
    <2>2. Laid(f, t)[p] = IF p \in DOMAIN g THEN g[p] ELSE Laid(files[w], t)[p]
        BY <1>1, <1>6, <1>7, ViewOver
    <2> QED
        BY <1>1, <1>6, <1>7, <2>1, <2>2
<1>8. GoesTrue(w)'
    <2>1. Tree(d.state.head)' = u
        BY <1>3, <1>4, <1>5 DEF Tree
    <2>2. d.out = Differing(d.saw, d.tree)
        BY <1>1, <1>3
    <2>3. (op[w].out = Differing(op[w].saw, op[w].tree))'
        BY <1>2, <2>2 DEF Differing
    <2>4. (op[w].landed = Nil /\ op[w].tree = Tree(op[w].state.head))'
        BY <1>2, <1>3, <2>1 DEF Tree
    <2>5. (op[w].verb = "abort" => op[w].old.pre = op[w].state.head)'
        BY <1>2, <1>3, <1>4
    <2>6. \A p \in d.out : ViewOf(w)'[p] = d.tree[p]
        BY <1>3, <1>7
    <2> QED
        BY <1>2, <2>3, <2>4, <2>5, <2>6 DEF GoesTrue
<1> QED
    BY <1>2, <1>3, <1>8 DEF TakesTrue, PopsTrue, LandsOn, WritesOn, DropsOn, Goes

LEMMA CheckoutsMove ==
    ASSUME Setting, GitInv, GitInv', MovesInv, NEW w \in Workspaces, NEW c \in DOMAIN commits,
           Checkout(w, c) \/ Abort(w), OthersRest(w)
    PROVE  MovesInv'
<1>1. PICK x \in DOMAIN commits \cup {Nil}, verb \in Goes :
        CheckoutTo(w, x, verb) /\ (verb = "abort" => State(w).pre = x)
    <2>1. CASE Checkout(w, c)
        BY <2>1 DEF Checkout, Goes
    <2>2. CASE Abort(w)
        <3>1. GoneBackTo(w) \in DOMAIN commits \cup {Nil} /\ CheckoutTo(w, GoneBackTo(w), "abort")
            BY <2>2, WorkHas, RefsIn DEF Abort, GoneBackTo, GitInv
        <3> QED
            BY <3>1 DEF GoneBackTo, Goes
    <2> QED
        BY <2>1, <2>2
<1>2. /\ w \in Workspaces \ Plain /\ UNCHANGED store /\ stashed' = stashed /\ basis' = basis /\ Domains' /\ NearInv(w)
    BY DEF Checkout, Abort, Starts, story, GitInv, MovesInv, FilesInv
<1>3. Grown /\ head'[Home[w]] = head[Home[w]]
    BY <1>2 DEF Grown, store
<1>4. /\ GoesTrue(w)' /\ TakesTrue(w)' /\ PopsTrue(w)'
      /\ ~LandsOn(w)' /\ ~WritesOn(w)' /\ ~DropsOn(w)'
    BY <1>1, <1>2, <1>3, CheckoutToMoves
<1>5. NearInv(w)'
    BY <1>2, <1>3, NearStill
<1> QED
    BY <1>2, <1>4, <1>5, MovesLocal DEF FilesInv, LandsTrue, DropsTrue

---------------------------------------------------------------------------
(* Work brought across                                                      *)

LEMMA Largest ==
    ASSUME NEW n \in Nat, NEW S, S \subseteq 1 .. n, S # {}
    PROVE  \E m \in S : \A x \in S : x <= m
<1>1. PICK above : above = [x \in S |-> {y \in S : x < y}]
    OBVIOUS
<1>2. PICK T, R, F : T = {above[x] : x \in S} /\ R = StrictSubsetOrdering(S) /\ F = FiniteSubsetsOf(S)
    OBVIOUS
<1>3. IsFiniteSet(S)
    BY FS_BoundedSetOfNaturals
<1>4. F = SUBSET S
    BY <1>2, <1>3, FS_FiniteSubsetsOfFinite
<1>5. T \subseteq F /\ T # {}
    <2>1. \A x \in S : above[x] \subseteq S
        BY <1>1
    <2>2. ASSUME NEW t \in T PROVE t \in F
        <3>1. PICK x \in S : t = above[x]
            BY <1>2
        <3> QED
            BY <1>4, <2>1, <3>1
    <2>3. PICK x : x \in S
        OBVIOUS
    <2>4. above[x] \in T
        BY <1>2, <2>3
    <2> QED
        BY <2>2, <2>4
<1>6. IsWellFoundedOn(R, F)
    BY <1>2, FS_StrictSubsetOrderingWellFounded
<1>7. PICK t \in T : \A u \in T : ~(<<u, t>> \in R)
    BY <1>5, <1>6, WFMin
<1>8. PICK m \in S : t = above[m]
    BY <1>2
<1>9. ASSUME NEW x \in S, ~(x <= m) PROVE FALSE
    <2>1. m < x /\ x \in Nat /\ m \in Nat
        BY <1>9
    <2>2. x \in above[m] /\ x \notin above[x]
        BY <1>1, <2>1
    <2>3. above[x] \subseteq above[m]
        <3>1. ASSUME NEW y \in above[x] PROVE y \in above[m]
            <4>1. y \in S /\ x < y /\ y \in Nat
                BY <1>1, <3>1
            <4> QED
                BY <1>1, <2>1, <4>1
        <3> QED
            BY <3>1
    <2>4. above[x] \in T /\ above[x] \in F /\ t \in F
        BY <1>2, <1>5, <1>8
    <2>5. <<above[x], t>> \in R
        BY <1>2, <1>4, <1>8, <2>2, <2>3, <2>4 DEF StrictSubsetOrdering
    <2> QED
        BY <1>7, <2>4, <2>5
<1> QED
    BY <1>9

LEMMA BringHas ==
    ASSUME Setting, GitInv, NEW w \in Workspaces,
           NEW o, NEW t, NEW verb, NEW tool, NEW source, NEW from \in DOMAIN commits \cup {Nil},
           Bring(w, o, t, verb, tool, source, from), NEW k, k = Newest + 1
    PROVE  /\ Grown /\ k \notin DOMAIN commits /\ k # Nil /\ DOMAIN commits' = DOMAIN commits \cup {k}
           /\ head' = [head EXCEPT ![Home[w]] = k] /\ basis'[w] = k
           /\ Hist(k)' = Hist(basis[w]) \cup {k} \cup (IF from # Nil THEN Hist(from) ELSE {})
           /\ \A a \in Hist(k)' : a <= k
           /\ commits'[k].from = from /\ commits'[k].tree = TextMerge(o, Tree(basis[w]), t)
           /\ op'[w].verb = verb /\ op'[w].step = "record" /\ op'[w].landed = k
           /\ op'[w].state.unresolved = Contested(o, Tree(basis[w]), t)
<1>1. PICK b, ps, marked, merged, r, m, n, x :
        /\ b = basis[w] /\ ps = {basis[w], from} \ {Nil}
        /\ marked = Contested(o, Tree(basis[w]), t) /\ merged = TextMerge(o, Tree(basis[w]), t)
        /\ r = [State(w) EXCEPT !.head = k, !.source = IF marked = {} THEN Nil ELSE source,
                                !.unresolved = marked, !.pre = IF marked = {} THEN Nil ELSE State(w).head]
        /\ m = Node(merged, State(w), tool, {}, State(w).head, ps)
        /\ n = [m EXCEPT !.from = from]
        /\ x = [verb |-> verb, step |-> "record", landed |-> k, state |-> r,
                tree |-> <<>>, out |-> {}, saw |-> merged, old |-> State(w)]
    OBVIOUS
<1>2. Lands(w, Only(k, n)) /\ op' = [op EXCEPT ![w] = x]
    BY <1>1 DEF Bring
<1>3. /\ Domains /\ StoreInv /\ b \in DOMAIN commits /\ Newest \in Nat /\ State(w) \in Records
      /\ DOMAIN commits = 1 .. Newest
    BY <1>1, WorkHas DEF GitInv, StoreInv, RecordAt
<1>4. /\ commits' = Laid(Only(k, n), commits)
      /\ head' = [head EXCEPT ![Home[w]] = k] /\ basis' = [basis EXCEPT ![w] = k]
    <2>1. Cardinality(DOMAIN Only(k, n)) = 1
        BY <1>3, Counted
    <2> QED
        BY <1>2, <1>3, <2>1 DEF Lands
<1>5. /\ Grown /\ k \in Nat /\ k \notin DOMAIN commits /\ commits'[k] = n
      /\ DOMAIN commits' = DOMAIN commits \cup {k}
    BY <1>3, <1>4, LandOne
<1>6. n.tree = merged /\ n.from = from /\ n.anc = ps \cup UNION {commits[c].anc : c \in ps}
    BY <1>1, NodeHas
<1>7. b # Nil /\ k # Nil
    BY <1>3, <1>5 DEF Setting
<1>8. n.anc = Hist(b) \cup (IF from # Nil THEN Hist(from) ELSE {})
    <2>1. CASE from = Nil
        <3>1. ps = {b}
            BY <1>1, <1>7, <2>1
        <3>2. UNION {commits[c].anc : c \in {b}} = commits[b].anc
            OBVIOUS
        <3> QED
            BY <1>6, <2>1, <3>1, <3>2 DEF Hist
    <2>2. CASE from # Nil
        <3>1. ps = {b, from}
            BY <1>1, <1>7, <2>2
        <3>2. UNION {commits[c].anc : c \in {b, from}} = commits[b].anc \cup commits[from].anc
            OBVIOUS
        <3> QED
            BY <1>6, <2>2, <3>1, <3>2 DEF Hist
    <2> QED
        BY <2>1, <2>2
<1>9. n.anc \subseteq DOMAIN commits
    BY <1>3, <1>8, HistHas
<1>10. Hist(k)' = n.anc \cup {k}
    BY <1>5 DEF Hist
<1>11. \A a \in Hist(k)' : a <= k
    BY <1>3, <1>5, <1>9, <1>10
<1>12. op'[w] = x /\ basis'[w] = k
    BY <1>2, <1>3, <1>4 DEF Domains
<1>13. x.verb = verb /\ x.step = "record" /\ x.landed = k /\ x.state = r /\ r.unresolved = marked
    BY <1>1, <1>3 DEF Records
<1> QED
    BY <1>1, <1>4, <1>5, <1>6, <1>7, <1>8, <1>10, <1>11, <1>12, <1>13

LEMMA BringMoves ==
    ASSUME Setting, GitInv, MovesInv, NEW w \in Workspaces \ Plain, OthersRest(w), stashed' = stashed,
           NEW o, NEW t, NEW verb, verb \notin Goes \cup {"commit"}, NEW tool, NEW source,
           NEW from \in DOMAIN commits \cup {Nil}, Bring(w, o, t, verb, tool, source, from),
           NEW k, k = Newest + 1, from # Nil /\ from = head[Stash] => Brought(k)', PopsTrue(w)'
    PROVE  MovesInv'
<1>1. PICK b, h : b = basis[w] /\ h = head[Stash]
    OBVIOUS
<1>2. /\ Grown /\ k \notin DOMAIN commits /\ k # Nil /\ DOMAIN commits' = DOMAIN commits \cup {k}
      /\ head' = [head EXCEPT ![Home[w]] = k] /\ basis'[w] = k
      /\ Hist(k)' = Hist(b) \cup {k} \cup (IF from # Nil THEN Hist(from) ELSE {})
      /\ \A a \in Hist(k)' : a <= k
      /\ op'[w].verb = verb /\ op'[w].step = "record"
    BY <1>1, BringHas
<1>3. /\ head'[Stash] = h
      /\ \A s \in Sessions \ {Stash} : head'[s] = head[s] \/ head'[s] \notin DOMAIN commits
      /\ head'[Home[w]] = k
    BY <1>1, <1>2, WorkHas DEF GitInv, Domains, Sessions, Setting
<1>4. ~LandsOn(w)' /\ ~WritesOn(w)' /\ ~DropsOn(w)'
    BY <1>2 DEF LandsOn, WritesOn, DropsOn
<1>5. NearInv(w)'
    BY <1>2, <1>3, NearOver
<1>6. FilesInv(w)' /\ DropsTrue(w)'
    BY <1>2, <1>4, <1>5 DEF FilesInv, LandsTrue, TakesTrue, GoesTrue, DropsTrue
<1>7. Rightly(k)
    <2>1. SUFFICES ASSUME h # Nil, h \in Hist(k)' PROVE \E c \in Hist(k)' : Brought(c)'
        BY <1>1, <1>2 DEF Rightly
    <2>2. h \in DOMAIN commits
        BY <1>1, <2>1 DEF GitInv, HeadInv, Sessions
    <2>3. ASSUME NEW e \in {b, from}, e \in DOMAIN commits, h \in Hist(e), e # h, Hist(e) \subseteq Hist(k)'
          PROVE  \E c \in Hist(k)' : Brought(c)'
        <3>1. Brings(e, h)
            BY <1>1, <2>1, <2>3 DEF MovesInv, StashInvs, StashedInv
        <3>2. PICK c \in Hist(e) : Brought(c)
            BY <2>3, <3>1 DEF Brings
        <3>3. Brought(c)'
            BY <1>1, <1>2, <1>3, <2>3, <3>2, InStore, BroughtLater
        <3> QED
            BY <2>3, <3>2, <3>3
    <2>4. b # h /\ b \in DOMAIN commits
        BY <1>1, <2>1, WorkHas DEF MovesInv, StashInvs, StashedInv
    <2>5. CASE h \in Hist(b)
        BY <1>2, <2>3, <2>4, <2>5
    <2>6. CASE from # Nil /\ from = h
        BY <1>1, <1>2, <2>6
    <2>7. CASE from # Nil /\ from # h /\ h \in Hist(from)
        BY <1>2, <2>3, <2>7
    <2> QED
        BY <1>2, <2>1, <2>2, <2>5, <2>6, <2>7
<1>8. StashInvs'
    <2>1. \A d \in DOMAIN commits' \ DOMAIN commits : Rightly(d)
        BY <1>2, <1>7
    <2>2. basis'[w] \notin DOMAIN commits /\ Hist(basis[w]) \subseteq Hist(basis[w])'
        BY <1>1, <1>2
    <2> QED
        BY <1>1, <1>2, <1>3, <1>4, <1>6, <2>1, <2>2, StashLater DEF MovesInv
<1>9. \A v \in Workspaces : FilesInv(v)'
    BY <1>2, <1>6, FilesOver DEF MovesInv
<1> QED
    BY <1>8, <1>9 DEF MovesInv

LEMMA BringVerb ==
    ASSUME GitInv, NEW w \in Workspaces, NEW o, NEW t, NEW verb, NEW tool, NEW source, NEW from,
           Bring(w, o, t, verb, tool, source, from)
    PROVE  op'[w].verb = verb
BY DEF Bring, GitInv, Domains

LEMMA MergeMoves ==
    ASSUME Setting, GitInv, MovesInv, NEW w \in Workspaces, NEW s \in Sessions, Merge(w, s), OthersRest(w)
    PROVE  MovesInv'
<1>1. w \in Workspaces \ Plain /\ stashed' = stashed /\ head[s] # Nil /\ s \in Sessions \ {Stash}
    BY DEF Merge, Starts, Mergeable, story
<1>2. PICK from, o, t, k : /\ from = From(s) /\ o = Tree(MergeBase(basis[w], from)) /\ t = Tree(from) /\ k = Newest + 1
                           /\ Bring(w, o, t, "merge", "merge", s, from)
    BY DEF Merge
<1>3. from \in DOMAIN commits
    BY <1>1, <1>2, FromHas
<1>4. ASSUME head[Stash] # Nil, from = head[Stash] PROVE FALSE
    <2>1. head[s] # from /\ ~IsAgent(from)
        BY <1>1, <1>4 DEF MovesInv, StashInvs, StashedInv
    <2>2. head[s] \in DOMAIN commits
        BY <1>1 DEF GitInv, HeadInv
    <2>3. HeadAt(RecordOf(head[s]).head, head[s])
        BY <2>2 DEF GitInv, StoreInv, NodeInv, RecordAt, RecordOf
    <2> QED
        BY <1>2, <2>1, <2>3 DEF From, HeadAt
<1>5. op'[w].verb = "merge"
    BY <1>1, <1>2, BringVerb
<1>6. PopsTrue(w)'
    BY <1>5 DEF PopsTrue
<1> QED
    BY <1>1, <1>2, <1>3, <1>4, <1>6, BringMoves DEF Goes

LEMMA ApplyMoves ==
    ASSUME Setting, GitInv, MovesInv, NEW w \in Workspaces, NEW verb \in {"revert", "pick"}, NEW o, NEW t,
           NEW source, Apply(w, verb, o, t, source), OthersRest(w)
    PROVE  MovesInv'
<1>1. /\ w \in Workspaces \ Plain /\ stashed' = stashed
      /\ Bring(w, Tree(o), Tree(t), verb, verb, source, Nil)
    BY DEF Apply, Starts, story
<1>2. PICK u, v, k, from : u = Tree(o) /\ v = Tree(t) /\ k = Newest + 1 /\ from = Nil
    OBVIOUS
<1>3. Bring(w, u, v, verb, verb, source, from) /\ from \in DOMAIN commits \cup {Nil}
    BY <1>1, <1>2
<1>4. op'[w].verb = verb
    BY <1>3, BringVerb
<1>5. PopsTrue(w)' /\ verb \notin Goes \cup {"commit"}
    BY <1>4 DEF PopsTrue, Goes
<1> QED
    BY <1>1, <1>2, <1>3, <1>5, BringMoves

---------------------------------------------------------------------------
(* The stash                                                                *)

(* A pop merges over the files of the head the stash was made at.           *)
LEMMA PopBase ==
    ASSUME Setting, GitInv, MovesInv, NEW w \in Workspaces \ Plain, NEW h, h = head[Stash], h # Nil,
           h \notin Hist(basis[w])
    PROVE  \E at \in DOMAIN commits : StashAt(h, at) /\ Tree(MergeBase(basis[w], h)) = Tree(at)
<1>1. PICK at \in DOMAIN commits : StashAt(h, at)
    BY DEF MovesInv, StashInvs, StashedInv
<1>2. PICK b, S, m : b = basis[w] /\ S = Hist(b) \cap Hist(h) /\ m = MergeBase(b, h)
    OBVIOUS
<1>3. /\ h \in DOMAIN commits /\ b \in DOMAIN commits /\ StoreInv /\ Newest \in Nat /\ DOMAIN commits = 1 .. Newest
      /\ Hist(b) \subseteq DOMAIN commits
    BY <1>2, WorkHas, HistHas DEF GitInv, HeadInv, StoreInv, Sessions
<1>4. at \in S /\ S \subseteq 1 .. Newest
    BY <1>1, <1>2, <1>3 DEF StashAt, Hist
<1>5. m = CHOOSE c \in S : \A d \in S : d <= c
    BY <1>2 DEF MergeBase, Common, Hist
<1>6. \E c \in S : \A d \in S : d <= c
    BY <1>3, <1>4, Largest
<1>7. m \in S /\ \A d \in S : d <= m
    BY <1>5, <1>6
<1>8. m \in commits[h].anc
    BY <1>2, <1>7 DEF Hist
<1>9. m \in Hist(at) \/ Tree(m) = Tree(at)
    BY <1>1, <1>8 DEF StashAt
<1>10. m \in Hist(at) => m = at
    BY <1>3, <1>4, <1>7 DEF MovesInv, StashInvs, Numbered
<1> QED
    BY <1>1, <1>2, <1>9, <1>10

LEMMA PopMoves ==
    ASSUME Setting, GitInv, GitInv', MovesInv, NEW w \in Workspaces, StashPop(w), OthersRest(w)
    PROVE  MovesInv'
<1>1. PICK h, b, k, o, t : /\ h = head[Stash] /\ b = basis[w] /\ k = Newest + 1
                           /\ o = Tree(MergeBase(basis[w], head[Stash])) /\ t = Tree(head[Stash])
    OBVIOUS
<1>2. /\ w \in Workspaces \ Plain /\ stashed' = stashed /\ h # Nil /\ StashedInv /\ NearInv(w) /\ StashInv /\ Domains
      /\ RecordOf(h).head = Nil /\ b # h
    BY <1>1 DEF StashPop, Starts, story, MovesInv, StashInvs, StashedInv, FilesInv, GitInv
<1>3. /\ From(Stash) = h /\ h \in DOMAIN commits /\ b \in DOMAIN commits
    BY <1>1, <1>2, WorkHas DEF From, GitInv, HeadInv, Sessions
<1>4. h \in Common(b, h) <=> h \in Hist(b)
    BY DEF Common, Hist
<1>5. CASE h \in Hist(b)
    <2>1. /\ op' = [op EXCEPT ![w] = [verb |-> "pop", step |-> "drop", landed |-> Nil]]
          /\ UNCHANGED <<store, basis, record>>
        BY <1>1, <1>3, <1>4, <1>5 DEF StashPop
    <2>2. /\ op'[w] = [verb |-> "pop", step |-> "drop", landed |-> Nil] /\ Grown
          /\ head'[Home[w]] = head[Home[w]] /\ head'[Stash] = h /\ basis'[w] = b
        BY <1>1, <1>2, <2>1 DEF Domains, Grown, store
    <2>3. NearInv(w)'
        BY <1>1, <1>2, <2>2, NearStill
    <2>4. ~LandsOn(w)' /\ ~WritesOn(w)' /\ ~RecordsOn(w)'
        BY <2>2 DEF LandsOn, WritesOn, RecordsOn
    <2>5. DropsTrue(w)'
        <3>1. PICK c \in Hist(b) : Brought(c)
            BY <1>1, <1>2, <1>3, <1>5 DEF StashedInv, Brings
        <3>2. Brought(c)' /\ Hist(b)' = Hist(b)
            BY <1>1, <1>2, <1>3, <2>2, <3>1, InStore, BroughtLater, HistStays
        <3>3. op'[w].landed = Nil /\ head'[Stash] # Nil
            BY <1>2, <2>2
        <3>4. Hist(basis[w])' = Hist(b)'
            BY <2>2
        <3> QED
            BY <3>2, <3>3, <3>4 DEF DropsTrue
    <2> QED
        BY <1>1, <1>2, <2>1, <2>3, <2>4, <2>5, MovesLocal DEF FilesInv, LandsTrue, TakesTrue, GoesTrue, PopsTrue
<1>6. CASE h \notin Hist(b)
    <2>1. Bring(w, o, t, "pop", "merge", Stash, h)
        BY <1>1, <1>3, <1>4, <1>6 DEF StashPop
    <2>2. PICK at \in DOMAIN commits : StashAt(h, at) /\ o = Tree(at)
        BY <1>1, <1>2, <1>6, PopBase
    <2>3. PICK u, merged : u = Tree(b) /\ merged = TextMerge(o, u, t)
        OBVIOUS
    <2>4. /\ Grown /\ k # Nil /\ k \in DOMAIN commits' /\ basis'[w] = k /\ head' = [head EXCEPT ![Home[w]] = k]
          /\ k \in Hist(k)' /\ commits'[k].from = h /\ commits'[k].tree = merged
          /\ op'[w].verb = "pop" /\ op'[w].landed = k /\ op'[w].state.unresolved = Contested(o, u, t)
        <3>1. PICK verb, tool : verb = "pop" /\ tool = "merge"
            OBVIOUS
        <3>2. Bring(w, o, t, verb, tool, Stash, h)
            BY <2>1, <3>1
        <3>3. k = Newest + 1 /\ h \in DOMAIN commits /\ u = Tree(basis[w])
            BY <1>1, <1>3, <2>3
        <3>4. /\ Grown /\ k # Nil /\ DOMAIN commits' = DOMAIN commits \cup {k}
              /\ head' = [head EXCEPT ![Home[w]] = k] /\ basis'[w] = k
              /\ Hist(k)' = Hist(basis[w]) \cup {k} \cup (IF h # Nil THEN Hist(h) ELSE {})
              /\ commits'[k].from = h /\ commits'[k].tree = TextMerge(o, Tree(basis[w]), t)
              /\ op'[w].verb = verb /\ op'[w].landed = k
              /\ op'[w].state.unresolved = Contested(o, Tree(basis[w]), t)
            BY <3>2, <3>3, BringHas
        <3> QED
            BY <2>3, <3>1, <3>3, <3>4
    <2>5. head'[Stash] = h
        BY <1>1, <1>2, <2>4, WorkHas DEF Domains, Sessions, Setting
    <2>6. ASSUME NEW p \in DOMAIN stashed
          PROVE  merged[p] \in {stashed[p], Marked} /\ (Contested(o, u, t) = {} => merged[p] = stashed[p])
        <3>1. p \in Paths /\ stashed[p] # o[p]
            BY <2>2, <2>6 DEF StashAt
        <3>2. t[p] = stashed[p]
            BY <1>1, <1>2, <2>6 DEF StashInv
        <3>3. merged[p] = IF p \in Contested(o, u, t) THEN Marked ELSE IF u[p] = o[p] THEN t[p] ELSE u[p]
            BY <2>3, <3>1 DEF TextMerge
        <3>4. p \in Contested(o, u, t) <=> u[p] # t[p] /\ u[p] # o[p] /\ t[p] # o[p]
            BY <3>1 DEF Contested
        <3> QED
            BY <3>1, <3>2, <3>3, <3>4
    <2>7. Brought(k)' /\ Tree(k)' = merged
        BY <1>2, <2>4, <2>5, <2>6 DEF Brought, Tree
    <2>8. PopsTrue(w)'
        BY <1>2, <2>4, <2>5, <2>6, <2>7 DEF PopsTrue
    <2>9. "pop" \notin Goes \cup {"commit"}
        BY DEF Goes
    <2> QED
        BY <1>1, <1>2, <1>3, <2>1, <2>7, <2>8, <2>9, BringMoves
<1> QED
    BY <1>5, <1>6

(* Where there is a stash, there is one agent.                              *)
LEMMA OthersPlain ==
    ASSUME Setting, GitInv, NEW w \in Workspaces \ Plain, "stash" \in Verbs, OthersRest(w), NEW v \in Workspaces \ {w}
    PROVE  v \in Plain /\ ~WritesOn(v)' /\ PopsTrue(v)' /\ DropsTrue(v)'
<1>1. v \in Plain
    BY DEF Setting
<1>2. op'[v] = NoVerb
    BY <1>1, BusyHas DEF OthersRest, Free
<1> QED
    BY <1>1, <1>2, FreeLater DEF PopsTrue, DropsTrue

(* A stash's commit over another, and where the stash was made.             *)
StashedAt(w, k, c, at) ==
    /\ k = Newest + 1 /\ k # Nil /\ DOMAIN commits' = DOMAIN commits \cup {k} /\ k \notin DOMAIN commits
    /\ c \in DOMAIN commits /\ commits'[k].anc = Hist(c)
    /\ at \in Hist(c) /\ at \in Hist(basis[w])
    /\ \A d \in Hist(c) : d \in Hist(at) \/ (Tree(d) = Tree(at) /\ d > at)
    /\ ~IsAgent(k)' /\ RecordOf(k)'.head = Nil
    /\ DOMAIN stashed' \subseteq Paths /\ \A p \in DOMAIN stashed' : stashed'[p] # Tree(at)[p]
    /\ WritesOn(w)' => /\ "saw" \notin DOMAIN op'[w] /\ Tree(k)' = Tree(at)
                       /\ \A p \in DOMAIN op'[w].work : op'[w].work[p] # Tree(at)[p]

LEMMA StashMade ==
    ASSUME Setting, GitInv, MovesInv, NEW w \in Workspaces \ Plain, "stash" \in Verbs, OthersRest(w), Grown,
           NEW k, NEW c, NEW at, StashedAt(w, k, c, at), head' = [head EXCEPT ![Stash] = k], basis' = basis,
           PopsTrue(w)', DropsTrue(w)'
    PROVE  StashInvs'
<1> USE DEF StashedAt
<1>1. /\ StoreInv /\ Domains /\ Newest \in Nat /\ DOMAIN commits = 1 .. Newest /\ Numbered
      /\ Stash \in Sessions /\ Hist(c) \subseteq DOMAIN commits /\ at \in DOMAIN commits
    BY HistHas DEF GitInv, StoreInv, MovesInv, StashInvs, Sessions
<1>2. head'[Stash] = k /\ \A s \in Sessions \ {Stash} : head'[s] = head[s] /\ head[s] \in DOMAIN commits \cup {Nil}
    BY <1>1 DEF Domains, GitInv, HeadInv
<1>3. Hist(k)' = Hist(c) \cup {k} /\ \A d \in DOMAIN commits : Hist(d)' = Hist(d) /\ Hist(d) \subseteq DOMAIN commits
    BY <1>1, HistStays, HistHas DEF Hist
<1>4. Numbered'
    <2>1. \A a \in Hist(k)' : a <= k
        BY <1>1, <1>3
    <2> QED
        BY <1>1, <1>3, <2>1 DEF Numbered
<1>5. \A d \in DOMAIN commits : Tree(d)' = Tree(d)
    BY <1>1, TreeLater
<1>6. StashAt(k, at)'
    <2>1. \A v \in Workspaces \ Plain : at \in Hist(basis[v])'
        BY <1>3, WorkHas, OthersPlain
    <2>2. \A d \in Hist(c) : d \in Hist(at)' \/ (Tree(d)' = Tree(at)' /\ d > at)
        BY <1>1, <1>3, <1>5
    <2>3. at < k /\ Tree(at)' = Tree(at)
        BY <1>1, <1>5
    <2>4. ASSUME NEW v \in Workspaces, WritesOn(v)'
          PROVE  "saw" \notin DOMAIN op'[v] /\ Tree(k)' = Tree(at) /\ \A p \in DOMAIN op'[v].work : op'[v].work[p] # Tree(at)[p]
        BY <2>4, OthersPlain
    <2> QED
        BY <2>1, <2>2, <2>3, <2>4 DEF StashAt
<1>7. ASSUME NEW d \in DOMAIN commits' PROVE Brings(d, k)'
    BY <1>3 DEF Brings
<1>8. StashedInv'
    <2>1. \A v \in Workspaces : basis'[v] # k
        BY WorkHas
    <2>2. \A s \in Sessions \ {Stash} : head'[s] # k
        BY <1>2
    <2>3. \E a \in DOMAIN commits' : StashAt(k, a)'
        BY <1>1, <1>6
    <2> QED
        BY <1>2, <1>7, <2>1, <2>2, <2>3 DEF StashedInv, IsAgent, RecordOf, StashAt, Brings, Hist, Tree, Brought
<1> QED
    BY <1>4, <1>8, OthersPlain DEF StashInvs

LEMMA StashFiles ==
    ASSUME Setting, GitInv, MovesInv, NEW w \in Workspaces \ Plain, OthersRest(w), Grown,
           NEW x, head' = [head EXCEPT ![Stash] = x], basis' = basis
    PROVE  NearInv(w)' /\ (FilesInv(w)' => \A v \in Workspaces : FilesInv(v)')
<1>1. \A v \in Workspaces : head'[Home[v]] = head[Home[v]]
    BY DEF GitInv, Domains, Sessions, Setting
<1>2. NearInv(w)'
    BY <1>1, NearStill DEF MovesInv, FilesInv
<1> QED
    BY <1>1, <1>2, FilesBeside DEF MovesInv

LEMMA StashPushMoves ==
    ASSUME Setting, GitInv, GitInv', MovesInv, NEW w \in Workspaces, StashPush(w), OthersRest(w)
    PROVE  MovesInv'
<1>1. PICK at, k, t, r, work : /\ at = State(w).head /\ k = Newest + 1 /\ t = Tree(at) /\ r = Blank(at)
                               /\ work = [p \in Modified(w) |-> ViewOf(w)[p]]
    OBVIOUS
<1>2. /\ Free(w) /\ w \in Workspaces \ Plain /\ "stash" \in Verbs /\ Domains /\ StoreInv /\ basis' = basis
      /\ stashed' = stashed /\ stashed = <<>> /\ at # Nil
      /\ commits' = Laid(Only(k, Node(t, r, "fork", {}, Nil, {at})), commits) /\ head' = [head EXCEPT ![Stash] = k]
      /\ op' = [op EXCEPT ![w] = [verb |-> "stash", step |-> "write", work |-> work]]
    BY <1>1 DEF StashPush, Starts, worktrees, story, GitInv, StashInv
<1>3. at \in DOMAIN commits /\ at \in Hist(basis[w]) /\ at \in Hist(at) /\ at \in Nat
    BY <1>1, <1>2, WorkHas, HistHas DEF RecordAt, HeadAt, StoreInv, Hist
<1>4. IsTree(t) /\ RecordAt(r, at) /\ r.head = Nil
    BY <1>1, <1>2, <1>3, TreeOf DEF RecordAt, HeadAt, Blank, Records
<1>5. /\ Grown /\ k # Nil /\ k \notin DOMAIN commits /\ DOMAIN commits' = DOMAIN commits \cup {k}
      /\ commits'[k].tree = t /\ commits'[k].record = r /\ commits'[k].tool = "fork" /\ commits'[k].anc = Hist(at)
    <2>1. Adds(k, at, t, r, "fork")
        BY <1>1, <1>2, <1>3, <1>4 DEF Adds
    <2> QED
        BY <2>1, OneParent
<1>6. ~IsAgent(k)' /\ RecordOf(k)'.head = Nil /\ Tree(k)' = t
    BY <1>4, <1>5 DEF IsAgent, AgentTools, RecordOf, Tree
<1>7. op'[w].verb = "stash" /\ op'[w].step = "write" /\ op'[w].work = work /\ "saw" \notin DOMAIN op'[w]
    BY <1>2 DEF Domains
<1>8. \A p \in DOMAIN work : work[p] # t[p]
    BY <1>1, <1>2 DEF Modified, Differing, Ref
<1>9. ~LandsOn(w)' /\ ~RecordsOn(w)' /\ ~DropsOn(w)'
    BY <1>7 DEF LandsOn, RecordsOn, DropsOn
<1>10. PopsTrue(w)' /\ DropsTrue(w)' /\ TakesTrue(w)' /\ LandsTrue(w)' /\ GoesTrue(w)'
    BY <1>9 DEF PopsTrue, DropsTrue, TakesTrue, LandsTrue, GoesTrue
<1>11. DOMAIN stashed' = {}
    BY <1>2
<1>12. /\ DOMAIN stashed' \subseteq Paths /\ \A p \in DOMAIN stashed' : stashed'[p] # Tree(at)[p]
       /\ "saw" \notin DOMAIN op'[w] /\ Tree(k)' = Tree(at) /\ \A p \in DOMAIN op'[w].work : op'[w].work[p] # Tree(at)[p]
    BY <1>1, <1>6, <1>7, <1>8, <1>11
<1>13. StashInvs'
    <2>1. PICK c : c = at
        OBVIOUS
    <2>2. /\ c \in DOMAIN commits /\ commits'[k].anc = Hist(c) /\ at \in Hist(c) /\ at \in Hist(basis[w])
          /\ \A d \in Hist(c) : d \in Hist(at) \/ (Tree(d) = Tree(at) /\ d > at)
        BY <1>3, <1>5, <2>1
    <2>3. /\ k = Newest + 1 /\ Grown /\ k # Nil /\ DOMAIN commits' = DOMAIN commits \cup {k} /\ k \notin DOMAIN commits
          /\ head' = [head EXCEPT ![Stash] = k] /\ basis' = basis /\ "stash" \in Verbs /\ w \in Workspaces \ Plain
        BY <1>1, <1>2, <1>5
    <2>4. StashedAt(w, k, c, at)
        BY <1>6, <1>12, <2>2, <2>3 DEF StashedAt
    <2> QED
        BY <1>10, <2>3, <2>4, StashMade
<1>14. \A v \in Workspaces : FilesInv(v)'
    BY <1>2, <1>5, <1>10, StashFiles DEF FilesInv
<1> QED
    BY <1>13, <1>14 DEF MovesInv

LEMMA StashWriteMoves ==
    ASSUME Setting, GitInv, GitInv', MovesInv, NEW w \in Workspaces, NEW ok, StashWrite(w, ok), OthersRest(w)
    PROVE  MovesInv'
<1>1. WritesOn(w) /\ w \in Workspaces \ Plain /\ Domains /\ Domains' /\ StoreInv /\ "stash" \in Verbs /\ NearInv(w)
    BY BusyHas DEF StashWrite, GitInv, WritesOn, MovesInv, FilesInv
<1>2. CASE ~ok
    <2>1. op'[w] = NoVerb /\ UNCHANGED store /\ basis' = basis /\ files' = files /\ stashed' = stashed
        BY <1>1, <1>2 DEF StashWrite, worktrees, Domains
    <2>2. Grown /\ head'[Home[w]] = head[Home[w]]
        BY <2>1 DEF Grown, store
    <2> QED
        BY <1>1, <2>1, <2>2, NearStill, MovesFree
<1>3. CASE ok
    <2>1. PICK c, k, t, r, work : /\ c = head[Stash] /\ k = Newest + 1 /\ t = Laid(op[w].work, Tree(head[Stash]))
                                  /\ r = RecordOf(head[Stash]) /\ work = op[w].work
        OBVIOUS
    <2>2. /\ commits' = Laid(Only(k, Node(t, r, "stash", {}, Nil, {c})), commits)
          /\ head' = [head EXCEPT ![Stash] = k] /\ stashed' = work /\ basis' = basis
          /\ CheckoutTo(w, State(w).head, "stash")
        BY <1>3, <2>1 DEF StashWrite
    <2>3. /\ c # Nil /\ c \in DOMAIN commits /\ IsPart(work) /\ r.head = Nil /\ c \in Hist(c)
        <3>1. c # Nil /\ IsPart(work)
            BY <1>1, <2>1 DEF WritesOn
        <3>2. c \in DOMAIN commits
            BY <2>1, <3>1 DEF GitInv, HeadInv, Sessions
        <3>3. RecordOf(c).head = Nil
            BY <2>1, <3>1 DEF MovesInv, StashInvs, StashedInv
        <3> QED
            BY <2>1, <3>1, <3>2, <3>3 DEF Hist
    <2>4. PICK at \in DOMAIN commits : StashAt(c, at)
        BY <2>1, <2>3 DEF MovesInv, StashInvs, StashedInv
    <2>5. /\ Tree(c) = Tree(at) /\ \A p \in DOMAIN work : work[p] # Tree(at)[p]
          /\ at \in Hist(c) /\ at \in Hist(basis[w]) /\ at < c
          /\ \A d \in commits[c].anc : d \in Hist(at) \/ (Tree(d) = Tree(at) /\ d > at)
        BY <1>1, <2>1, <2>4 DEF StashAt, Hist
    <2>6. IsTree(t) /\ RecordAt(r, c)
        BY <1>1, <2>1, <2>3, TreeOf, PartOnTree DEF StoreInv, NodeInv, RecordOf
    <2>7. /\ Grown /\ k # Nil /\ k \notin DOMAIN commits /\ DOMAIN commits' = DOMAIN commits \cup {k}
          /\ commits'[k].record = r /\ commits'[k].tool = "stash" /\ commits'[k].anc = Hist(c)
        <3>1. Adds(k, c, t, r, "stash")
            BY <2>1, <2>2, <2>3, <2>6 DEF Adds
        <3> QED
            BY <3>1, OneParent
    <2>8. ~IsAgent(k)' /\ RecordOf(k)'.head = Nil
        BY <2>3, <2>7 DEF IsAgent, AgentTools, RecordOf
    <2>9. at \in Nat /\ c \in Nat /\ at \in DOMAIN commits
        BY <1>1, <2>3 DEF StoreInv
    <2>10. \A d \in Hist(c) : d \in Hist(at) \/ (Tree(d) = Tree(at) /\ d > at)
        BY <2>5, <2>9 DEF Hist
    <2>11. /\ GoesTrue(w)' /\ TakesTrue(w)' /\ PopsTrue(w)'
           /\ ~LandsOn(w)' /\ ~WritesOn(w)' /\ ~DropsOn(w)'
        <3>1. PICK x, verb : x = State(w).head /\ verb = "stash"
            OBVIOUS
        <3>2. x \in DOMAIN commits \cup {Nil} /\ verb \in Goes /\ verb # "abort" /\ CheckoutTo(w, x, verb)
            BY <1>1, <2>2, <3>1, WorkHas, RefsIn DEF Goes
        <3> QED
            BY <1>1, <2>2, <2>7, <3>2, CheckoutToMoves
    <2>12. DropsTrue(w)' /\ LandsTrue(w)'
        BY <2>11 DEF DropsTrue, LandsTrue
    <2>13. DOMAIN stashed' \subseteq Paths /\ \A p \in DOMAIN stashed' : stashed'[p] # Tree(at)[p]
        BY <2>2, <2>3, <2>5 DEF IsPart
    <2>14. StashInvs'
        <3>1. StashedAt(w, k, c, at)
            BY <1>1, <2>1, <2>3, <2>5, <2>7, <2>8, <2>10, <2>11, <2>13 DEF StashedAt
        <3> QED
            BY <1>1, <2>2, <2>7, <2>11, <2>12, <3>1, StashMade
    <2>15. \A v \in Workspaces : FilesInv(v)'
        BY <1>1, <2>2, <2>7, <2>11, <2>12, StashFiles DEF FilesInv
    <2> QED
        BY <2>14, <2>15 DEF MovesInv
<1>4. ok \/ ~ok
    OBVIOUS
<1> QED
    BY <1>2, <1>3, <1>4

LEMMA StashDropsMove ==
    ASSUME Setting, GitInv, GitInv', MovesInv, NEW w \in Workspaces, StashPopped(w) \/ StashDrop(w), OthersRest(w)
    PROVE  MovesInv'
<1>1. /\ w \in Workspaces \ Plain /\ "stash" \in Verbs /\ Domains /\ commits' = commits /\ basis' = basis
      /\ op'[w] = NoVerb /\ head' = [head EXCEPT ![Stash] = Nil]
    <2>1. CASE StashPopped(w)
        BY <2>1, BusyHas DEF StashPopped, Dropped, DropsOn, GitInv, Domains, worktrees
    <2>2. CASE StashDrop(w)
        BY <2>2 DEF StashDrop, Dropped, Starts, Free, GitInv, worktrees
    <2> QED
        BY <2>1, <2>2
<1>2. Grown /\ head'[Stash] = Nil
    BY <1>1 DEF Grown, Domains, Sessions
<1>3. Numbered' /\ StashedInv'
    BY <1>1, <1>2 DEF MovesInv, StashInvs, Numbered, Hist, StashedInv
<1>4. ~LandsOn(w)' /\ ~RecordsOn(w)' /\ ~WritesOn(w)' /\ ~DropsOn(w)'
    BY <1>1, FreeLater
<1>5. PopsTrue(w)' /\ DropsTrue(w)' /\ LandsTrue(w)' /\ TakesTrue(w)' /\ GoesTrue(w)'
    BY <1>4 DEF PopsTrue, DropsTrue, LandsTrue, TakesTrue, GoesTrue
<1>6. StashInvs'
    BY <1>1, <1>3, <1>5, OthersPlain DEF StashInvs
<1>7. \A v \in Workspaces : FilesInv(v)'
    BY <1>1, <1>2, <1>5, StashFiles DEF FilesInv
<1> QED
    BY <1>6, <1>7 DEF MovesInv

---------------------------------------------------------------------------
(* What the moves keep, kept                                                *)

LEMMA StartingMoves ==
    ASSUME Setting, GInit
    PROVE  MovesInv
<1>1. PICK x : x = [Root EXCEPT !.record = Blank(1), !.tool = "fork", !.parents = {1}, !.anc = {1}]
    OBVIOUS
<1>2. DOMAIN commits = 1 .. 2 /\ commits[1] = Root /\ commits[2] = x
    <2>1. commits = Laid(Only(1, Root), Only(2, x))
        BY <1>1 DEF GInit
    <2> QED
        BY <2>1 DEF Laid, Only
<1>3. Hist(1) = {1} /\ Hist(2) = {1, 2}
    BY <1>1, <1>2 DEF Hist, Root
<1>4. Numbered
    BY <1>2, <1>3 DEF Numbered
<1>5. head[Stash] = Nil
    BY DEF GInit, Sessions
<1>6. \A w \in Workspaces : op[w] = NoVerb /\ basis[w] = TipOf(w) /\ files[w] = <<>>
    BY DEF GInit, TipOf
<1>7. ASSUME NEW w \in Workspaces
      PROVE  ~LandsOn(w) /\ ~RecordsOn(w) /\ ~WritesOn(w) /\ ~DropsOn(w)
    BY <1>6 DEF NoVerb, LandsOn, RecordsOn, WritesOn, DropsOn
<1>8. \A w \in Workspaces : FilesInv(w)
    BY <1>6, <1>7 DEF FilesInv, NearInv, LandsTrue, TakesTrue, GoesTrue
<1> QED
    BY <1>4, <1>5, <1>7, <1>8 DEF MovesInv, StashInvs, StashedInv, PopsTrue, DropsTrue

LEMMA WorksMove ==
    ASSUME Setting, GitInv, GitInv', MovesInv, NEW w \in Workspaces, OthersRest(w),
           Working(w) \/ Indexing(w) \/ CommitStart(w) \/ Crash(w)
    PROVE  MovesInv'
<1>1. CASE Working(w)
    BY <1>1, EditMoves, SaveMoves DEF Working
<1>2. CASE Indexing(w)
    BY <1>2, IndexMoves DEF Indexing, Stage, Unstage
<1> QED
    BY <1>1, <1>2, CommitStartMoves, CrashMoves

LEMMA BringsMove ==
    ASSUME Setting, GitInv, GitInv', MovesInv, NEW w \in Workspaces, OthersRest(w), Moving(w)
    PROVE  MovesInv'
<1>1. CASE \E c \in DOMAIN commits : Checkout(w, c)
    BY <1>1, CheckoutsMove
<1>2. CASE Abort(w)
    <2>1. basis[w] \in DOMAIN commits
        BY WorkHas
    <2> QED
        BY <1>2, <2>1, CheckoutsMove
<1>3. CASE \E c \in DOMAIN commits : Revert(w, c) \/ \E s \in Sessions : Pick(w, s, c)
    BY <1>3, ApplyMoves DEF Revert, Pick
<1>4. CASE \E s \in Sessions : Merge(w, s)
    BY <1>4, MergeMoves
<1> QED
    BY <1>1, <1>2, <1>3, <1>4 DEF Moving

LEMMA RecordsMove ==
    ASSUME Setting, GitInv, GitInv', MovesInv, NEW w \in Workspaces, OthersRest(w), RecordSteps(w)
    PROVE  MovesInv'
<1>1. ASSUME NEW ok, CommitLand(w, ok) PROVE MovesInv'
    BY <1>1, RefusedMoves, LandedMoves
<1>2. ASSUME NEW ok, NEW step \in {"record", "again"}, RecordLands(w, ok, step) PROVE MovesInv'
    BY <1>2, RecordLandsMoves
<1>3. ASSUME NEW ok, RecordRefused(w, ok) \/ RecordLost(w, ok) PROVE MovesInv'
    BY <1>3, RecordRefusedMoves, RecordLostMoves
<1> QED
    BY <1>1, <1>2, <1>3, RecordRefreshMoves DEF RecordSteps

LEMMA StillMoves ==
    ASSUME GitInv, MovesInv, UNCHANGED gvars
    PROVE  MovesInv'
<1>1. /\ commits' = commits /\ head' = head /\ basis' = basis /\ files' = files /\ record' = record
      /\ op' = op /\ stashed' = stashed
    BY DEF gvars
<1>2. Grown /\ StoreInv /\ UNCHANGED store
    BY <1>1 DEF Grown, GitInv, store
<1>3. Numbered' /\ \A c : Hist(c)' = Hist(c)
    BY <1>1 DEF MovesInv, StashInvs, Numbered, Hist
<1>4. \A c : (Brought(c)' <=> Brought(c)) /\ Tree(c)' = Tree(c)
    BY <1>1 DEF Brought, Tree
<1>5. \A c, h : (Brings(c, h)' <=> Brings(c, h))
    BY <1>1, <1>3, <1>4 DEF Brings
<1>6. ASSUME NEW w \in Workspaces PROVE PopsTrue(w)' /\ DropsTrue(w)' /\ FilesInv(w)'
    <2>1. /\ LandsOn(w)' => LandsOn(w)
          /\ RecordsOn(w)' => RecordsOn(w)
          /\ WritesOn(w)' => WritesOn(w)
          /\ DropsOn(w)' => DropsOn(w)
        BY <1>1, OnBefore
    <2>2. PopsTrue(w)' /\ DropsTrue(w)'
        BY <1>1, <1>3, <1>4, <2>1 DEF MovesInv, StashInvs, PopsTrue, DropsTrue
    <2>3. \A p \in Paths : Tree(TipOf(w))'[p] = Tree(TipOf(w))[p]
        BY <1>1 DEF Tree, TipOf
    <2> QED
        BY <1>1, <1>2, <2>2, <2>3, FilesLater DEF MovesInv
<1>7. ASSUME NEW h, NEW at \in DOMAIN commits, StashAt(h, at) PROVE StashAt(h, at)'
    <2>1. ASSUME NEW w \in Workspaces PROVE WritesOn(w)' => WritesOn(w)
        BY <1>1, OnBefore
    <2> QED
        BY <1>1, <1>3, <1>4, <1>7, <2>1 DEF StashAt
<1>8. StashedInv'
    <2>1. PICK h : h = head[Stash]
        OBVIOUS
    <2>2. SUFFICES ASSUME h # Nil
                   PROVE  /\ "stash" \in Verbs /\ ~IsAgent(h)' /\ RecordOf(h)'.head = Nil
                          /\ \A s \in Sessions \ {Stash} : head'[s] # h
                          /\ \A w \in Workspaces : basis'[w] # h
                          /\ \E at \in DOMAIN commits' : StashAt(h, at)'
                          /\ \A c \in DOMAIN commits' : Brings(c, h)'
        BY <1>1, <2>1 DEF StashedInv, IsAgent, RecordOf, StashAt, Brings, Hist, Tree, Brought
    <2>3. /\ "stash" \in Verbs /\ ~IsAgent(h) /\ RecordOf(h).head = Nil
          /\ \A s \in Sessions \ {Stash} : head[s] # h
          /\ \A w \in Workspaces : basis[w] # h
          /\ \E at \in DOMAIN commits : StashAt(h, at)
          /\ \A c \in DOMAIN commits : Brings(c, h)
        BY <2>1, <2>2 DEF MovesInv, StashInvs, StashedInv
    <2>4. ~IsAgent(h)' /\ RecordOf(h)'.head = Nil
        BY <1>1, <2>3 DEF IsAgent, RecordOf
    <2> QED
        BY <1>1, <1>5, <1>7, <2>3, <2>4
<1> QED
    BY <1>3, <1>6, <1>8 DEF MovesInv, StashInvs

LEMMA SteppingMoves ==
    ASSUME Setting, GitInv, GitInv', MovesInv, [GNext]_gvars
    PROVE  MovesInv'
<1>1. ASSUME NEW w \in Workspaces, Acts(w) PROVE MovesInv'
    <2>1. OthersRest(w)
        BY <1>1, OwnStep
    <2>2. CASE Stashing(w)
        BY <2>1, <2>2, StashPushMoves, StashWriteMoves, PopMoves, StashDropsMove DEF Stashing
    <2> QED
        BY <1>1, <2>1, <2>2, WorksMove, BringsMove, RecordsMove DEF Acts
<1>2. CASE UNCHANGED gvars
    BY <1>2, StillMoves
<1> QED
    BY <1>1, <1>2 DEF GNext, Acts

---------------------------------------------------------------------------
(* What each move does                                                      *)

LEMMA OnVerb ==
    ASSUME NEW w \in Workspaces, Acts(w), ~Free(w)
    PROVE  \/ \E ok \in BOOLEAN :
                 \/ CommitLand(w, ok) \/ RecordRefused(w, ok) \/ RecordLost(w, ok) \/ StashWrite(w, ok)
                 \/ \E step \in {"record", "again"} : RecordLands(w, ok, step)
           \/ RecordRefresh(w) \/ StashPopped(w) \/ Crash(w)
<1>1. ~Working(w)
    BY DEF Working, Edit, Save
<1>2. ~Indexing(w) /\ ~CommitStart(w)
    BY DEF Indexing, Stage, Unstage, SetIndex, CommitStart, Starts
<1>3. ~Moving(w)
    BY DEF Moving, Checkout, Abort, Merge, Revert, Pick, Apply, Starts
<1>4. ~StashPush(w) /\ ~StashPop(w) /\ ~StashDrop(w)
    BY DEF StashPush, StashPop, StashDrop, Starts
<1> QED
    BY <1>1, <1>2, <1>3, <1>4 DEF Acts, Stashing, RecordSteps

LEMMA OwnEnd ==
    ASSUME GitInv, NEW w \in Workspaces, Acts(w), Ends(w), ~Crashes(w), op[w].verb # "pop"
    PROVE  \E ok \in BOOLEAN :
              \/ CommitLand(w, ok) \/ RecordRefused(w, ok) \/ RecordLost(w, ok) \/ StashWrite(w, ok)
              \/ RecordRefresh(w)
              \/ \E step \in {"record", "again"} : RecordLands(w, ok, step)
<1>1. ~Crash(w)
    BY DEF Crash, Crashes, store, GitInv, Domains
<1>2. ~StashPopped(w)
    BY DEF StashPopped
<1> QED
    BY <1>1, <1>2, OnVerb DEF Ends

LEMMA CommitsExact ==
    ASSUME Setting, GitInv, GitInv', MovesInv, NEW w \in Workspaces, Acts(w), OthersRest(w),
           op[w].verb = "commit", op[w].step = "land", basis[w] = TipOf(w), basis'[w] # basis[w],
           DOMAIN files[w] \subseteq op[w].named \cup op[w].out
    PROVE  \A p \in Paths \ op[w].named : commits'[basis'[w]].tree[p] = Tree(Ref(op[w].old))[p]
<1>1. ~Free(w)
    BY DEF Free, NoVerb
<1>2. ~Crash(w)
    BY DEF Crash, GitInv, Domains
<1>3. PICK ok \in BOOLEAN : CommitLand(w, ok)
    BY <1>1, <1>2, OnVerb DEF RecordRefused, RecordLost, StashWrite, RecordLands, RecordRefresh, StashPopped
<1>4. ~Refuses(w, op[w].named \cup op[w].out, ok)
    BY <1>3, RefusedMoves
<1> QED
    BY <1>3, <1>4, LandedMoves

LEMMA TakesKept ==
    ASSUME Setting, GitInv, GitInv', MovesInv, NEW w \in Workspaces, Acts(w), OthersRest(w),
           Ends(w), op[w].verb = "commit", ~Crashes(w), NEW p \in op[w].named \cup op[w].out
    PROVE  NewView(w)[p] \in {op[w].saw[p], Other}
<1>1. PICK ok \in BOOLEAN :
         \/ CommitLand(w, ok) \/ RecordRefused(w, ok) \/ RecordLost(w, ok) \/ StashWrite(w, ok)
         \/ RecordRefresh(w)
         \/ \E step \in {"record", "again"} : RecordLands(w, ok, step)
    BY OwnEnd
<1>2. TakesTrue(w) /\ op'[w].verb = "none"
    BY DEF MovesInv, FilesInv, Ends
<1>3. CASE CommitLand(w, ok)
    BY <1>2, <1>3, RefusedMoves, LandedMoves
<1>4. CASE RecordRefused(w, ok) \/ RecordRefresh(w)
    BY <1>2, <1>4, RecordRefusedMoves, RecordRefreshMoves
<1>5. ASSUME RecordsOn(w)
      PROVE  p \in Paths /\ op[w].landed # Nil /\ ViewOf(w)[p] \in {op[w].saw[p], Other}
    BY <1>2, <1>5 DEF TakesTrue, RecordsOn
<1>6. CASE RecordLost(w, ok)
    BY <1>5, <1>6, RecordLostMoves
<1>7. CASE \E step \in {"record", "again"} : RecordLands(w, ok, step)
    <2>1. RecordsOn(w) /\ \A q \in Paths : NewView(w)[q] \in {ViewOf(w)[q], Other}
        BY <1>7, RecordLandsMoves
    <2> QED
        BY <1>5, <2>1
<1> QED
    BY <1>1, <1>3, <1>4, <1>6, <1>7 DEF StashWrite

LEMMA GoesExact ==
    ASSUME Setting, GitInv, GitInv', MovesInv, NEW w \in Workspaces, Acts(w), OthersRest(w),
           Ends(w), op[w].verb \in Goes, ~Crashes(w), NEW p \in Paths,
           NEW to, to = IF commits' = commits THEN op[w].saw ELSE Tree(Target(w))
    PROVE  (IF p \in op[w].out THEN NewView(w)[p] ELSE op[w].saw[p]) \in {to[p], Other}
<1>1. PICK ok \in BOOLEAN :
         \/ CommitLand(w, ok) \/ RecordRefused(w, ok) \/ RecordLost(w, ok) \/ StashWrite(w, ok)
         \/ RecordRefresh(w)
         \/ \E step \in {"record", "again"} : RecordLands(w, ok, step)
    BY OwnEnd DEF Goes
<1>2. GoesTrue(w) /\ op'[w].verb = "none" /\ "saw" \in DOMAIN op[w]
    BY DEF MovesInv, FilesInv, Ends
<1>3. ~CommitLand(w, ok)
    BY DEF CommitLand, Goes
<1>4. CASE RecordRefused(w, ok) \/ RecordRefresh(w)
    BY <1>2, <1>4, RecordRefusedMoves, RecordRefreshMoves
<1>5. ASSUME RecordsOn(w)
      PROVE  /\ op[w].landed = Nil /\ op[w].tree = Tree(Target(w))
             /\ p \in op[w].out => ViewOf(w)[p] = op[w].tree[p]
             /\ p \notin op[w].out => op[w].saw[p] = op[w].tree[p]
    BY <1>2, <1>5 DEF GoesTrue, Target, Differing
<1>6. CASE RecordLost(w, ok)
    BY <1>5, <1>6, RecordLostMoves
<1>7. CASE \E step \in {"record", "again"} : RecordLands(w, ok, step)
    <2>1. RecordsOn(w) /\ commits' # commits /\ \A q \in Paths : NewView(w)[q] \in {ViewOf(w)[q], Other}
        BY <1>7, RecordLandsMoves
    <2> QED
        BY <1>5, <2>1
<1>8. CASE StashWrite(w, ok)
    <2>1. WritesOn(w)
        BY <1>8, BusyHas DEF StashWrite
    <2>2. head[Stash] # Nil
        BY <2>1 DEF WritesOn
    <2> QED
        BY <1>2, <2>1, <2>2 DEF MovesInv, StashInvs, StashedInv, StashAt
<1> QED
    BY <1>1, <1>3, <1>4, <1>6, <1>7, <1>8

LEMMA PopsWhole ==
    ASSUME GitInv, MovesInv, NEW w \in Workspaces, op[w].verb = "pop", op[w].step = "drop"
    PROVE  \E c \in commits[basis[w]].anc \cup {basis[w]} :
               /\ commits[c].from = From(Stash)
               /\ \A p \in DOMAIN stashed :
                     \/ Tree(c)[p] = stashed[p]
                     \/ Tree(c)[p] = Marked /\ op[w].landed = Nil
<1>1. DropsOn(w) /\ DropsTrue(w) /\ StashedInv
    BY BusyHas DEF MovesInv, StashInvs
<1>2. PICK c \in Hist(basis[w]) : /\ Brought(c)
                                  /\ \A p \in DOMAIN stashed : Tree(c)[p] = stashed[p] \/ op[w].landed = Nil
    BY <1>1 DEF DropsTrue
<1>3. From(Stash) = head[Stash]
    BY <1>1 DEF DropsTrue, StashedInv, From
<1> QED
    BY <1>2, <1>3 DEF Brought, Hist

LEMMA ExactMoves ==
    ASSUME Setting, GitInv, GitInv', MovesInv, GNext
    PROVE  CommitExactAloneStep /\ FilesKeptStep /\ CheckoutExactStep /\ PopWholeStep
<1>1. PICK v \in Workspaces : Acts(v)
    BY DEF GNext, Acts
<1>2. OthersRest(v)
    BY <1>1, OwnStep
<1>3. ASSUME NEW w \in Workspaces, basis'[w] # basis[w] \/ op'[w] # op[w] PROVE w = v
    BY <1>2, <1>3 DEF OthersRest
<1>4. CommitExactAloneStep
    BY <1>1, <1>2, <1>3, CommitsExact DEF CommitExactAloneStep
<1>5. ASSUME NEW w \in Workspaces, Ends(w), op[w].verb # "none" PROVE w = v
    BY <1>3, <1>5 DEF Ends
<1>6. FilesKeptStep
    BY <1>1, <1>2, <1>5, TakesKept DEF FilesKeptStep
<1>7. CheckoutExactStep
    <2>1. SUFFICES ASSUME NEW w \in Workspaces, Ends(w), op[w].verb \in Goes, ~Crashes(w), NEW to,
                          to = IF commits' = commits THEN op[w].saw ELSE Tree(Target(w)), NEW p \in Paths
                   PROVE  (IF p \in op[w].out THEN NewView(w)[p] ELSE op[w].saw[p]) \in {to[p], Other}
        BY DEF CheckoutExactStep, Goes
    <2>2. w = v
        BY <1>5, <2>1 DEF Goes
    <2> QED
        BY <1>1, <1>2, <2>1, <2>2, GoesExact
<1>8. PopWholeStep
    BY PopsWhole DEF PopWholeStep
<1> QED
    BY <1>4, <1>6, <1>7, <1>8

(* For any workspaces, sessions, paths, contents and bounds: an agent commit *)
(* on a head that has not moved, with nothing else pending, changes no file  *)
(* it does not name; a commit leaves what it takes or sets aside as it was,  *)
(* and a checkout leaves its commit's files, or what was there, but for what *)
(* others commit; and a pop drops the stash once its session's history has   *)
(* it (agentgit.ts, command.ts).                                             *)
THEOREM GitMovesStayExact == ASSUME Setting PROVE GSpec => GitMovesExact
<1>1. GInit => GitInv /\ MovesInv
    BY Starting, StartingMoves
<1>2. GitInv /\ MovesInv /\ [GNext]_gvars => GitInv' /\ MovesInv'
    BY Stepping, SteppingMoves
<1>3. GitInv /\ MovesInv /\ [GNext]_gvars
        => [CommitExactAloneStep /\ FilesKeptStep /\ CheckoutExactStep /\ PopWholeStep]_gvars
    BY Stepping, ExactMoves
<1> QED
    BY <1>1, <1>2, <1>3, PTL DEF GSpec, GitMovesExact
=============================================================================
