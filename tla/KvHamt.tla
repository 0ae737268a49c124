------------------------------- MODULE KvHamt -------------------------------
(***************************************************************************)
(* kvgit's trees (kvgit-ts/src/hamt.ts; keyset.ts only encodes its values): *)
(* a map kept as content-addressed nodes.  A node is named by the hash of   *)
(* its bytes, so a node here IS its name: two nodes of equal contents are   *)
(* one, and a root says everything under it.  A handle is a root and the    *)
(* nodes made for it that no store holds yet; updates make a new handle,    *)
(* flush writes its nodes, and any handle may be derived from any other.    *)
(* Every node a handle needs loads (TreesWhole), so what the code does with *)
(* a node that is missing is left out.                                      *)
(***************************************************************************)
EXTENDS Naturals, Sequences, FiniteSets, Functions, SequencesExt, TLC

CONSTANTS
    Keys, Values,
    Hash,        \* a key's hash: a sequence of nibbles, all of one length
    HashLen,     \* hamt.ts's HASH_LEN
    BucketMax,   \* bucketMax
    Handles,
    MaxBytes,    \* the node cache's bound
    Removed,     \* a change's null
    MaxUpdates   \* bound: updates and flushes

VARIABLES
    store,    \* the nodes the store holds
    handles,  \* handle -> its root and pending nodes
    held,     \* handle -> the map it stands for (what was asked of it)
    lru,      \* the node cache: least recently used first
    bytes,    \* what it counts
    updates

vars == <<store, handles, held, lru, bytes, updates>>

Leaf(items) == [kind |-> "leaf", items |-> items]
Branch(children) == [kind |-> "branch", children |-> children]
Empty == Leaf(<<>>)
NoNode == [kind |-> "none"]

Nibble(k, depth) == Hash[k][depth + 1]
Fits(items) == Cardinality(DOMAIN items) <= BucketMax
Children(n) == IF n.kind = "branch" THEN Range(n.children) ELSE {}

\* What a write returns: the node in force, and the pending nodes with it.
Kept(n, pending) == [node |-> n, pending |-> pending]
Stored(n, pending) == [node |-> n, pending |-> pending \cup {n}]

---------------------------------------------------------------------------
(* Writes *)

RECURSIVE SplitLeaf(_, _, _)
SplitLeaf(items, depth, pending) ==
    IF depth >= HashLen THEN Stored(Leaf(items), pending) ELSE
    LET nibbles == {Nibble(k, depth) : k \in DOMAIN items}
        Group(c) == Restrict(items, {k \in DOMAIN items : Nibble(k, depth) = c})
        Child(c) == IF Fits(Group(c)) THEN Stored(Leaf(Group(c)), pending)
                    ELSE SplitLeaf(Group(c), depth + 1, pending)
    IN  Stored(Branch([c \in nibbles |-> Child(c).node]), UNION {Child(c).pending : c \in nibbles})

\* The canonical subtree of these items, NoNode of none.
SubtreeOf(items, depth, pending) ==
    IF items = <<>> THEN Kept(NoNode, pending)
    ELSE IF Fits(items) THEN Stored(Leaf(items), pending)
    ELSE SplitLeaf(items, depth, pending)

RECURSIVE InsertInto(_, _, _, _, _)
InsertInto(n, depth, k, v, pending) ==
    IF n.kind = "leaf" THEN
        LET items == (k :> v) @@ n.items
        IN  IF items = n.items THEN Kept(n, pending) ELSE SubtreeOf(items, depth, pending)
    ELSE
        LET c == Nibble(k, depth)
            child == IF c \in DOMAIN n.children
                     THEN InsertInto(n.children[c], depth + 1, k, v, pending)
                     ELSE Stored(Leaf(k :> v), pending)
            children == (c :> child.node) @@ n.children
        IN  IF children = n.children THEN Kept(n, pending)
            ELSE Stored(Branch(children), child.pending)

\* One leaf of children that are all leaves and fit one bucket, or NoNode.
TryCollapse(children, pending) ==
    LET leaves == Range(children)
        keys == UNION {DOMAIN l.items : l \in leaves}
        merged == [k \in keys |-> (CHOOSE l \in leaves : k \in DOMAIN l.items).items[k]]
    IN  IF (\E l \in leaves : l.kind = "branch") \/ ~Fits(merged) THEN Kept(NoNode, pending)
        ELSE Stored(Leaf(merged), pending)

\* Mutant: a branch that shrank to one bucket stays one.
CollapsedNever(children, pending) ==
    IF children = <<>> THEN Kept(NoNode, pending) ELSE Stored(Branch(children), pending)

\* A branch over these children, or the leaf they have shrunk to.
Collapsed(children, pending) ==
    LET leaf == IF \E c \in DOMAIN children : children[c].kind = "branch" THEN Kept(NoNode, pending)
                ELSE TryCollapse(children, pending)
    IN  IF children = <<>> THEN Kept(NoNode, pending)
        ELSE IF leaf.node # NoNode THEN leaf ELSE Stored(Branch(children), pending)

RECURSIVE DeleteAt(_, _, _, _)
DeleteAt(n, depth, k, pending) ==
    IF n.kind = "leaf" THEN
        IF k \notin DOMAIN n.items THEN Kept(n, pending)
        ELSE SubtreeOf(Restrict(n.items, DOMAIN n.items \ {k}), HashLen, pending)
    ELSE
        LET c == Nibble(k, depth)
            child == DeleteAt(n.children[c], depth + 1, k, pending)
            children == IF child.node = NoNode THEN Restrict(n.children, DOMAIN n.children \ {c})
                        ELSE (c :> child.node) @@ n.children
        IN  IF c \notin DOMAIN n.children \/ children = n.children THEN Kept(n, pending)
            ELSE Collapsed(children, child.pending)

\* The items after some changes: a value each, or Removed.
Changed(items, changes) ==
    LET all == changes @@ items
    IN  Restrict(all, {k \in DOMAIN all : all[k] # Removed})

RECURSIVE ApplyAt(_, _, _, _)
ApplyAt(n, depth, changes, pending) ==
    IF n.kind = "leaf" THEN
        LET items == Changed(n.items, changes)
        IN  IF items = n.items THEN Kept(n, pending) ELSE SubtreeOf(items, depth, pending)
    ELSE
        LET nibbles == {Nibble(k, depth) : k \in DOMAIN changes}
            Group(c) == Restrict(changes, {k \in DOMAIN changes : Nibble(k, depth) = c})
            Child(c) == IF c \in DOMAIN n.children
                        THEN ApplyAt(n.children[c], depth + 1, Group(c), pending)
                        ELSE SubtreeOf(Changed(<<>>, Group(c)), depth + 1, pending)
            new == [c \in nibbles |-> Child(c)]
            all == [c \in nibbles |-> new[c].node] @@ n.children
            children == Restrict(all, {c \in DOMAIN all : all[c] # NoNode})
            moved == {c \in nibbles : new[c].node # (IF c \in DOMAIN n.children THEN n.children[c] ELSE NoNode)}
            made == pending \cup UNION {new[c].pending : c \in nibbles}
            removed == \E c \in moved : Removed \in Range(Group(c))
        IN  IF moved = {} THEN Kept(n, made)
            ELSE IF removed THEN Collapsed(children, made)
            ELSE Stored(Branch(children), made)

\* The pending nodes a root reaches, the others dropped.
RECURSIVE FilterPending(_, _)
FilterPending(n, pending) ==
    IF n = Empty \/ n \notin pending THEN {}
    ELSE {n} \cup UNION {FilterPending(c, pending) : c \in Children(n)}

\* The handle a write's result makes.
View(r) ==
    LET root == IF r.node = NoNode THEN Empty ELSE r.node
    IN  [root |-> root, pending |-> FilterPending(root, r.pending)]

\* One change after another; an empty tree is the empty leaf's name.
Updated(h, changes) ==
    LET One(r, c) ==
            LET n == IF r.node = NoNode THEN Empty ELSE r.node
            IN  IF c[2] = Removed THEN DeleteAt(n, 0, c[1], r.pending)
                ELSE InsertInto(n, 0, c[1], c[2], r.pending)
    IN  View(FoldLeft(One, Kept(h.root, h.pending), changes))

UpdatedBatch(h, changes) == View(ApplyAt(h.root, 0, changes, h.pending))

---------------------------------------------------------------------------
(* Reads *)

RECURSIVE Get(_, _, _)
Get(n, depth, k) ==
    IF n.kind = "leaf" THEN IF k \in DOMAIN n.items THEN n.items[k] ELSE Removed
    ELSE IF Nibble(k, depth) \in DOMAIN n.children
         THEN Get(n.children[Nibble(k, depth)], depth + 1, k) ELSE Removed

\* getMany: a level at a time, each key waiting at the node its path reached.
RECURSIVE GetMany(_, _)
GetMany(frontier, depth) ==
    LET found == {w \in frontier : w[1].kind = "leaf" /\ w[2] \in DOMAIN w[1].items}
        down == {w \in frontier : w[1].kind = "branch" /\ Nibble(w[2], depth) \in DOMAIN w[1].children}
    IN  IF frontier = {} THEN {}
        ELSE {<<w[2], w[1].items[w[2]]>> : w \in found} \cup
             GetMany({<<w[1].children[Nibble(w[2], depth)], w[2]>> : w \in down}, depth + 1)

Pairs(items) == {<<k, items[k]>> : k \in DOMAIN items}

RECURSIVE ItemsFrom(_)
ItemsFrom(n) == IF n.kind = "leaf" THEN Pairs(n.items) ELSE UNION {ItemsFrom(c) : c \in Children(n)}

RECURSIVE ReachableNodes(_)
ReachableNodes(n) == IF n = Empty THEN {} ELSE {n} \cup UNION {ReachableNodes(c) : c \in Children(n)}

\* walk: the items and nodes under a root that no skipped node is above.
RECURSIVE Walk(_, _)
Walk(level, skip) ==
    LET seen == {n \in level : n # Empty /\ n \notin skip}
        below == Walk(UNION {Children(n) : n \in seen}, skip)
    IN  IF seen = {} THEN [items |-> {}, nodes |-> {}]
        ELSE [items |-> below.items \cup UNION {Pairs(n.items) : n \in {l \in seen : l.kind = "leaf"}},
              nodes |-> below.nodes \cup seen]

Reconcile(a, b) ==
    [added |-> {p \in b : \A q \in a : q[1] # p[1]},
     removed |-> {p \in a : \A q \in b : q[1] # p[1]},
     modified |-> {<<p[1], p[2], q[2]>> : <<p, q>> \in {r \in a \X b : r[1][1] = r[2][1] /\ r[1] # r[2]}}]

RECURSIVE DiffWalk(_, _)
DiffWalk(a, b) ==
    IF a = b THEN Reconcile({}, {})
    ELSE IF a.kind = "branch" /\ b.kind = "branch" THEN
        LET At(n, c) == IF c \in DOMAIN n.children THEN n.children[c] ELSE Empty
            parts == {DiffWalk(At(a, c), At(b, c)) : c \in DOMAIN a.children \cup DOMAIN b.children}
        IN  [added |-> UNION {p.added : p \in parts}, removed |-> UNION {p.removed : p \in parts},
             modified |-> UNION {p.modified : p \in parts}]
    ELSE Reconcile(ItemsFrom(a), ItemsFrom(b))

---------------------------------------------------------------------------
Init ==
    /\ store = {} /\ lru = <<>> /\ bytes = 0 /\ updates = 0
    /\ handles = [h \in Handles |-> [root |-> Empty, pending |-> {}]]
    /\ held = [h \in Handles |-> <<>>]

Counts == updates < MaxUpdates /\ updates' = updates + 1

\* updated: the updates one by one, then the removals.
Update(h, g, changes) ==
    /\ Counts
    /\ \A i, j \in DOMAIN changes : i < j /\ changes[i][2] = Removed => changes[j][2] = Removed
    /\ handles' = [handles EXCEPT ![g] = Updated(handles[h], changes)]
    /\ held' = [held EXCEPT ![g] =
            FoldLeft(LAMBDA m, c : Changed(m, c[1] :> c[2]), held[h], changes)]
    /\ UNCHANGED <<store, lru, bytes>>

\* updatedBatch: every change in one pass.
Batch(h, g, changes) ==
    /\ Counts
    /\ handles' = [handles EXCEPT ![g] = UpdatedBatch(handles[h], changes)]
    /\ held' = [held EXCEPT ![g] = Changed(held[h], changes)]
    /\ UNCHANGED <<store, lru, bytes>>

\* flush, and persist after updated: the pending nodes in one batch.
Flush(h) ==
    /\ Counts
    /\ handles[h].pending # {}
    /\ store' = store \cup handles[h].pending
    /\ handles' = [handles EXCEPT ![h].pending = {}]
    /\ UNCHANGED <<held, lru, bytes>>

\* Keyset.fromRoot: another handle on a root that was flushed.
FromRoot(h, g) ==
    /\ h # g /\ handles[h].pending = {}
    /\ handles' = [handles EXCEPT ![g] = handles[h]]
    /\ held' = [held EXCEPT ![g] = held[h]]
    /\ UNCHANGED <<store, lru, bytes, updates>>

---------------------------------------------------------------------------
(* The node cache: a node's size is its bytes', more or less. *)

Size(n) == IF n.kind = "leaf" THEN Cardinality(DOMAIN n.items) ELSE Cardinality(DOMAIN n.children) + 1

\* The cache and its count with the oldest nodes gone while it is too big.
RECURSIVE Evicted(_)
Evicted(c) ==
    IF c.bytes <= MaxBytes THEN c
    ELSE Evicted([nodes |-> Tail(c.nodes), bytes |-> c.bytes - Size(Head(c.nodes))])

Without(n) ==
    IF Contains(lru, n) THEN [nodes |-> Remove(lru, n), bytes |-> bytes - Size(n)]
    ELSE [nodes |-> lru, bytes |-> bytes]

CacheSet(n) ==
    LET old == Without(n)
        new == IF Size(n) > MaxBytes THEN old
               ELSE Evicted([nodes |-> Append(old.nodes, n), bytes |-> old.bytes + Size(n)])
    IN  lru' = new.nodes /\ bytes' = new.bytes

CacheHit(n) == lru' = Append(Remove(lru, n), n) /\ UNCHANGED bytes

\* load, of a node that isn't pending: from the cache, or the store and kept.
Load(h, n) ==
    /\ n \in ReachableNodes(handles[h].root) \ handles[h].pending
    /\ IF Contains(lru, n) THEN CacheHit(n) ELSE CacheSet(n)
    /\ UNCHANGED <<store, handles, held, updates>>

\* setBytes: a node another commit wrote is put there at once.
SetBytes(n) ==
    /\ n \in store
    /\ CacheSet(n)
    /\ UNCHANGED <<store, handles, held, updates>>

Orders == {<<k>> : k \in Keys} \cup {s \in Keys \X Keys : s[1] # s[2]}
Next ==
    \/ \E h, g \in Handles, s \in Orders :
         \E vs \in [DOMAIN s -> Values \cup {Removed}] :
            \/ Update(h, g, [i \in DOMAIN s |-> <<s[i], vs[i]>>])
            \/ Batch(h, g, [k \in Range(s) |-> vs[CHOOSE i \in DOMAIN s : s[i] = k]])
    \/ \E h \in Handles : Flush(h)
    \/ \E h, g \in Handles : FromRoot(h, g)
    \/ \E h \in Handles : \E n \in ReachableNodes(handles[h].root) : Load(h, n)
    \/ \E n \in store : SetBytes(n)

Spec == Init /\ [][Next]_vars

---------------------------------------------------------------------------
\* A map has one root, whatever order, batch or detour led to it
\* (hamt.ts:240-242, "regardless of how they were constructed").
SameRoot == \A h, g \in Handles : held[h] = held[g] => handles[h].root = handles[g].root

\* Every node a handle reaches is pending or stored, with all that is below
\* what is stored; and it holds no node it doesn't reach (filterPending).
TreesWhole ==
    /\ \A h \in Handles :
         LET reached == ReachableNodes(handles[h].root)
         IN  handles[h].pending \subseteq reached /\ reached \subseteq store \cup handles[h].pending
    /\ \A n \in store : Children(n) \subseteq store

\* Every way to read a handle gives the map it stands for, and of two
\* handles the difference of their maps, the shared subtrees skipped
\* (get, walk, diff); walks that skip what others saw see the rest.
ReadsTrue ==
    /\ \A h \in Handles :
        /\ \A k \in Keys : Get(handles[h].root, 0, k) = IF k \in DOMAIN held[h] THEN held[h][k] ELSE Removed
        /\ GetMany({handles[h].root} \X Keys, 0) = Pairs(held[h])
        /\ Walk({handles[h].root}, {}).items = Pairs(held[h])
    /\ \A h, g \in Handles :
        LET a == handles[h].root  b == handles[g].root  first == Walk({a}, {}).nodes
        IN  /\ DiffWalk(a, b) = Reconcile(Pairs(held[h]), Pairs(held[g]))
            /\ first \cup Walk({b}, first).nodes = ReachableNodes(a) \cup ReachableNodes(b)

\* The cache counts what it holds, each node once, and keeps its bound
\* (NodeCache.set).
CacheTrue ==
    /\ bytes = FoldLeft(LAMBDA s, n : s + Size(n), 0, lru)
    /\ bytes <= MaxBytes
    /\ IsInjective(lru)
=============================================================================
