------------------------------- MODULE MCKvGC -------------------------------
(* Instances of KvGC for TLC.                                              *)
EXTENDS KvGC, TLC

\* Handles, branches and addresses are interchangeable.
Symmetry == Permutations(Writers) \cup Permutations(Branches) \cup Permutations(Items)

-----------------------------------------------------------------------------
(* A store further on: two branches that forked from the root commit, each *)
(* with a commit of its own, and every handle on the first.  The program   *)
(* reaches it by a create, a switch and two commits; starting there leaves *)
(* TLC the steps of the merge.                                             *)

ForkedInit ==
    \E b \in Branches, x \in Items :
      LET other == CHOOSE o \in Branches : o # b
          y == IF Items = {x} THEN x ELSE CHOOSE z \in Items : z # x
      IN
      /\ stored = {Root, 2, 3} /\ items = {x, y}
      /\ marker = [c \in Commit |-> "none"]
      /\ head = [h \in Branches |-> IF h = b THEN 2 ELSE IF h = other THEN 3 ELSE None]
      /\ prev = [h \in Branches |-> IF h \in {b, other} THEN Root ELSE None]
      /\ lease = [owner |-> 0, released |-> TRUE] /\ lapsed = FALSE
      /\ minted = 3
      /\ parents = [c \in Commit |-> IF c \in {2, 3} THEN {Root} ELSE {}]
      /\ tree = [c \in Commit |-> IF c = 2 THEN {x} ELSE IF c = 3 THEN {y} ELSE {}]
      /\ anc = [c \in Commit |-> IF c \in {2, 3} THEN {Root, c} ELSE {c}]
      /\ known = {Root, 2, 3} /\ dropped = {}
      /\ phase = "off" /\ cut = 1 /\ todo = {} /\ gray = {} /\ black = {}
      /\ keep = {} /\ stale = {} /\ gone = {} /\ goneItems = {}
      /\ pc = [w \in Writers |-> "idle"] /\ op = [w \in Writers |-> "none"]
      /\ br = [w \in Writers |-> b] /\ tb = br
      /\ base = [w \in Writers |-> 2]
      /\ ours = [w \in Writers |-> None] /\ merged = [w \in Writers |-> None]
      /\ theirs = [w \in Writers |-> None] /\ exp = [w \in Writers |-> None]
      /\ draft = [w \in Writers |-> NoDraft] /\ seen = [w \in Writers |-> lease]

ForkedSpec == ForkedInit /\ [][Next]_vars

=============================================================================
