----------------------------- MODULE KvBranches -----------------------------
(***************************************************************************)
(* What a kvgit store promises of its branches, with no batches, markers,  *)
(* leases or sweeps: a branch is a register that one step moves.           *)
(*                                                                         *)
(* A commit is known once it has been part of some branch's history, and   *)
(* its history never changes after that.  A commit call moves a branch to  *)
(* a commit that holds the branch's last head in its history, whatever     *)
(* raced it (commitOnce, base.ts); only resetTo moves a branch anywhere    *)
(* else, and only to a commit that was published before.                   *)
(***************************************************************************)
CONSTANTS
    Branch,     \* branch names
    Commit,     \* commits, each with its hash
    Root,       \* ROOT_COMMIT
    None,       \* the head of a branch there is not
    Resets      \* whether resetTo is ever called

VARIABLES
    head,       \* each branch's head
    published   \* for a published commit, its history; {} for any other

vars == <<head, published>>

Known == {c \in Commit : published[c] # {}}

Init ==
    /\ published = [c \in Commit |-> IF c = Root THEN {Root} ELSE {}]
    /\ \E b \in Branch : head = [x \in Branch |-> IF x = b THEN Root ELSE None]

\* A commit call succeeds: the head moves to a new commit over it, which
\* takes the commits it was merged from along.
Advance(b) ==
    /\ head[b] # None
    /\ \E c \in Commit \ Known :
        /\ published' \in [Commit -> SUBSET Commit]
        /\ \A x \in Known : published'[x] = published[x]
        /\ {head[b], c} \subseteq published'[c]
        /\ \A x \in published'[c] : x \in published'[x] /\ published'[x] \subseteq published'[c]
        /\ \A x \in Commit : published'[x] # {} => x \in Known \cup published'[c]
        /\ head' = [head EXCEPT ![b] = c]

\* A merge of a branch that is ahead moves the head and writes no commit.
FastForward(b) ==
    /\ head[b] # None
    /\ \E c \in Known : head[b] \in published[c] /\ head' = [head EXCEPT ![b] = c]
    /\ UNCHANGED published

Reset(b) ==
    /\ Resets /\ head[b] # None
    /\ \E c \in Known : head' = [head EXCEPT ![b] = c]
    /\ UNCHANGED published

Create(b) ==
    /\ head[b] = None
    /\ \E c \in Known : head' = [head EXCEPT ![b] = c]
    /\ UNCHANGED published

Delete(b) ==
    /\ head[b] # None
    /\ head' = [head EXCEPT ![b] = None]
    /\ UNCHANGED published

Next == \E b \in Branch :
    Advance(b) \/ FastForward(b) \/ Reset(b) \/ Create(b) \/ Delete(b)

Spec == Init /\ [][Next]_vars

=============================================================================
