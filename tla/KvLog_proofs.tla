---------------------------- MODULE KvLog_proofs ----------------------------
(* What holds of the log for any copies, rows and bounds: opening can       *)
(* always tell where a file stands, and a copy takes only its own entries   *)
(* out of the log.                                                          *)
EXTENDS KvLog, SequenceTheorems, WellFoundedInduction, TLAPS

-----------------------------------------------------------------------------
(* Numbers and lines *)

(* A set of numbers with a bound has a largest. *)
LEMMA MaxOf ==
    ASSUME NEW n \in Nat, NEW S \in SUBSET (0 .. n), S # {}
    PROVE  Max(S) \in S /\ \A y \in S : y <= Max(S)
<1> DEFINE T == {n - x : x \in S}
<1>0. \A x \in S : x \in Nat /\ n - x \in Nat
  OBVIOUS
<1>1. T \subseteq Nat /\ T # {}
  BY <1>0
<1>2. PICK t \in T : \A u \in T : <<u, t>> \notin OpToRel(<, Nat)
  <2>. HIDE DEF T
  <2>. QED
    BY <1>1, NatLessThanWellFounded, WFMin
<1>3. \A u \in T : ~(u < t)
  BY <1>1, <1>2 DEF OpToRel
<1>4. PICK m \in S : t = n - m
  OBVIOUS
<1>5. \A y \in S : m >= y
  <2>. TAKE y \in S
  <2>1. n - y \in T /\ ~(n - y < n - m)
    BY <1>3, <1>4
  <2>. HIDE DEF T
  <2>. QED
    BY <1>0, <2>1
<1>. QED
  BY <1>4, <1>5 DEF Max

(* The largest of a set is what it is taken for. *)
LEMMA MaxIs ==
    ASSUME NEW S \in SUBSET Nat, NEW m \in S, \A y \in S : y <= m
    PROVE  Max(S) = m
<1>1. /\ Max(S) \in S
      /\ \A y \in S : Max(S) >= y
  BY DEF Max
<1>2. PICK x : x = Max(S)
  OBVIOUS
<1>3. x \in Nat /\ m \in Nat /\ x >= m /\ x <= m
  BY <1>1, <1>2
<1>. QED
  BY <1>2, <1>3

Past(k) == Range(Line(k))
Foreign(c, k) == {i \in Past(k) : commit[i].by # c}

Lines ==
    /\ \E S : commit \in Seq(S)
    /\ \A k \in 1 .. Len(commit) :
        /\ commit[k].line \in Seq(Nat) /\ Past(k) \subseteq 1 .. k /\ k \in Past(k)
        /\ \A i \in DOMAIN commit[k].line :
             commit[k].line[i] = k <=> i = Len(commit[k].line)
        /\ \A j \in Past(k) : Past(j) = {i \in Past(k) : i <= j}

LEMMA RootLine == Line(Root) = <<>> /\ Past(Root) = {}
BY DEF Line, Past, Range

LEMMA Count == Lines => Len(commit) \in Nat /\ Root \in Commits
BY LenProperties DEF Lines, Commits, Root

LEMMA HoldsOn ==
    ASSUME Lines, NEW k \in Commits, NEW j, Holds(k, j)
    PROVE  /\ j \in Commits /\ Past(j) \subseteq Past(k)
           /\ \A i : Holds(j, i) => Holds(k, i)
<1>1. Len(commit) \in Nat
  BY Count
<1>2. CASE j = Root
  BY <1>1, <1>2, RootLine DEF Holds, Commits, Past, Root
<1>3. CASE j # Root
  <2>1. j \in Past(k) /\ k # Root
    BY <1>3, RootLine DEF Holds, Past
  <2>2. j \in 1 .. k /\ k \in 1 .. Len(commit)
    BY <1>1, <2>1 DEF Lines, Commits, Root
  <2>3. Past(j) \subseteq Past(k)
    BY <2>1, <2>2 DEF Lines
  <2>. QED
    BY <1>1, <2>2, <2>3 DEF Holds, Commits, Past
<1>. QED
  BY <1>2, <1>3

LEMMA HoldsItself ==
    ASSUME Lines, NEW k \in Commits
    PROVE  Holds(k, k)
BY Count DEF Holds, Lines, Commits, Past, Root

(* Who adds a commit leaves all others as they are. *)
LEMMA OneMore ==
    ASSUME Lines, NEW p \in Commits, NEW entry, NEW c,
           commit' = Append(commit, NewCommit(p, entry, c))
    PROVE  /\ Lines' /\ Len(commit') = Len(commit) + 1
           /\ \A k \in Commits : Line(k)' = Line(k)
           /\ \A k \in 1 .. Len(commit) : commit'[k] = commit[k]
           /\ \A k : k = Len(commit') => Past(k)' = Past(p) \cup {k}
           /\ commit'[Len(commit')].by = c
<1> DEFINE new == NewCommit(p, entry, c)
<1>1. PICK S : commit \in Seq(S)
  BY DEF Lines
<1>2. PICK n \in Nat : n = Len(commit) /\ p \in 0 .. n
  BY Count DEF Commits
<1>3. commit \in Seq(S \cup {new}) /\ new \in S \cup {new}
  BY <1>1, SeqMonotonic
<1>4. /\ commit' \in Seq(S \cup {new}) /\ Len(commit') = n + 1 /\ commit'[n + 1] = new
      /\ \A k \in 1 .. n : commit'[k] = commit[k]
  <2>1. commit' = Append(commit, new)
    OBVIOUS
  <2>. HIDE DEF new
  <2>. QED
    BY <1>2, <1>3, <2>1, AppendProperties
<1>5. \A k \in Commits : Line(k)' = Line(k) /\ Past(k)' = Past(k)
  BY <1>2, <1>4 DEF Line, Commits, Root, Past
<1>6. Line(p) \in Seq(Nat)
  BY <1>2 DEF Lines, Line, Root
<1>7. Past(p) \subseteq 1 .. n
  BY <1>2, RootLine DEF Lines, Root
<1>8. /\ new.line \in Seq(Nat) /\ Len(new.line) = Len(Line(p)) + 1 /\ Len(Line(p)) \in Nat
      /\ new.line[Len(new.line)] = n + 1
      /\ \A i \in 1 .. Len(Line(p)) : new.line[i] = Line(p)[i]
  BY <1>2, <1>6, AppendProperties, LenProperties DEF NewCommit
<1>9. Line(n + 1)' = new.line
  <2>1. n + 1 # Root /\ n + 1 = Len(commit')
    BY <1>2, <1>4 DEF Root
  <2>. QED
    BY <1>4, <2>1 DEF Line
<1>10. Past(n + 1)' = Past(p) \cup {n + 1}
  <2>1. DOMAIN new.line = 1 .. (Len(Line(p)) + 1) /\ DOMAIN Line(p) = 1 .. Len(Line(p))
    BY <1>6, <1>8, LenProperties
  <2>2. Past(n + 1)' = {new.line[i] : i \in 1 .. (Len(Line(p)) + 1)}
    BY <1>9, <2>1 DEF Past, Range
  <2>3. Past(p) = {Line(p)[i] : i \in 1 .. Len(Line(p))}
    BY <2>1 DEF Past, Range
  <2>. HIDE DEF new
  <2>4. \A i \in 1 .. Len(Line(p)) : new.line[i] = Line(p)[i] /\ i \in 1 .. (Len(Line(p)) + 1)
    BY <1>8
  <2>5. \A i \in 1 .. (Len(Line(p)) + 1) :
          i \in 1 .. Len(Line(p)) \/ (i = Len(Line(p)) + 1 /\ new.line[i] = n + 1)
    BY <1>8
  <2>6. Len(Line(p)) + 1 \in 1 .. (Len(Line(p)) + 1) /\ new.line[Len(Line(p)) + 1] = n + 1
    BY <1>8
  <2>. QED
    BY <2>2, <2>3, <2>4, <2>5, <2>6
<1>11. \A i \in DOMAIN new.line : new.line[i] = n + 1 <=> i = Len(new.line)
  <2>1. DOMAIN new.line = 1 .. (Len(Line(p)) + 1) /\ DOMAIN Line(p) = 1 .. Len(Line(p))
    BY <1>6, <1>8, LenProperties
  <2>2. \A i \in 1 .. Len(Line(p)) : Line(p)[i] \in 1 .. n
    BY <1>7, <2>1 DEF Past, Range
  <2>. HIDE DEF new
  <2>. QED
    BY <1>2, <1>8, <2>1, <2>2
<1>12. Lines'
  <2>1. \E T : commit' \in Seq(T)
    BY <1>4
  <2>2. ASSUME NEW k \in 1 .. n
        PROVE  /\ commit'[k].line \in Seq(Nat) /\ Past(k)' \subseteq 1 .. k /\ k \in Past(k)'
               /\ \A i \in DOMAIN commit'[k].line :
                    commit'[k].line[i] = k <=> i = Len(commit'[k].line)
               /\ \A j \in Past(k)' : Past(j)' = {i \in Past(k)' : i <= j}
    <3>1. Past(k)' = Past(k) /\ commit'[k] = commit[k]
      BY <1>2, <1>4, <1>5 DEF Commits
    <3>2. \A j \in Past(k) : Past(j)' = Past(j)
      BY <1>2, <1>5 DEF Lines, Commits
    <3>3. /\ commit[k].line \in Seq(Nat) /\ Past(k) \subseteq 1 .. k /\ k \in Past(k)
          /\ \A i \in DOMAIN commit[k].line :
               commit[k].line[i] = k <=> i = Len(commit[k].line)
      BY <1>2 DEF Lines
    <3>4. \A j \in Past(k) : Past(j) = {i \in Past(k) : i <= j}
      BY <1>2 DEF Lines
    <3>. QED
      BY <3>1, <3>2, <3>3, <3>4
  <2>3. /\ commit'[n + 1].line \in Seq(Nat) /\ Past(n + 1)' \subseteq 1 .. n + 1 /\ n + 1 \in Past(n + 1)'
        /\ \A i \in DOMAIN commit'[n + 1].line :
             commit'[n + 1].line[i] = n + 1 <=> i = Len(commit'[n + 1].line)
        /\ \A j \in Past(n + 1)' : Past(j)' = {i \in Past(n + 1)' : i <= j}
    <3>1. commit'[n + 1].line = new.line
      BY <1>4
    <3>2. ASSUME NEW j \in Past(p) PROVE Past(j)' = {i \in Past(n + 1)' : i <= j}
      <4>1. j \in 1 .. p /\ p \in 1 .. n
        BY <1>2, <3>2, RootLine DEF Lines, Root
      <4>2. Past(j)' = {i \in Past(p) : i <= j}
        BY <1>2, <1>5, <4>1 DEF Lines, Commits
      <4>. QED
        BY <1>2, <1>10, <4>1, <4>2
    <3>3. Past(n + 1)' = {i \in Past(n + 1)' : i <= n + 1}
      BY <1>2, <1>7, <1>10
    <3>4. Past(n + 1)' \subseteq 1 .. n + 1 /\ n + 1 \in Past(n + 1)'
      BY <1>2, <1>7, <1>10
    <3>5. commit'[n + 1].line \in Seq(Nat)
          /\ \A i \in DOMAIN commit'[n + 1].line :
               commit'[n + 1].line[i] = n + 1 <=> i = Len(commit'[n + 1].line)
      BY <1>8, <1>11, <3>1
    <3>6. ASSUME NEW j \in Past(n + 1)' PROVE Past(j)' = {i \in Past(n + 1)' : i <= j}
      BY <1>10, <3>2, <3>3, <3>6
    <3>. QED
      BY <3>4, <3>5, <3>6
  <2>. QED
    BY <1>2, <1>4, <2>1, <2>2, <2>3 DEF Lines
<1>13. commit'[Len(commit')].by = c
  BY <1>4 DEF NewCommit
<1>. QED
  BY <1>4, <1>5, <1>10, <1>12, <1>13

(* Walking back to a commit finds commits of the line, and none only there. *)
LEMMA AfterLine ==
    ASSUME Lines, NEW k \in Commits, NEW base, Holds(k, base)
    PROVE  /\ After(k, base) \in Seq(Nat) /\ Range(After(k, base)) \subseteq Past(k)
           /\ After(k, base) = <<>> <=> base = k
<1>1. PICK n \in Nat : n = Len(commit) /\ k \in 0 .. n
  BY Count DEF Commits
<1>2. PICK line \in Seq(Nat) : line = Line(k)
  <2>1. Line(k) \in Seq(Nat)
    BY <1>1 DEF Lines, Line, Root
  <2>. QED
    BY <2>1
<1>3. PICK len \in Nat : len = Len(line) /\ DOMAIN line = 1 .. len
  BY <1>2, LenProperties
<1>4. Past(k) = {line[i] : i \in 1 .. len}
  BY <1>2, <1>3 DEF Past, Range
<1>5. PICK place \in 0 .. len :
        /\ After(k, base) = SubSeq(line, place + 1, len)
        /\ place = len <=> base = k
  <2>1. CASE base = Root
    <3>1. After(k, base) = SubSeq(line, 0 + 1, len)
      BY <1>2, <1>3, <2>1 DEF After
    <3>2. 0 = len <=> Root = k
      <4>1. CASE k = Root
        BY <1>2, <1>3, <4>1, RootLine
      <4>2. CASE k # Root
        <5>1. k \in Past(k)
          BY <1>1, <4>2 DEF Lines, Root
        <5>. QED
          BY <1>3, <1>4, <4>2, <5>1
      <4>. QED
        BY <4>1, <4>2
    <3>3. 0 \in 0 .. len
      BY <1>3
    <3>. QED
      BY <2>1, <3>1, <3>2, <3>3
  <2>2. CASE base # Root
    <3>1. base \in Past(k) /\ k # Root
      BY <2>2, RootLine DEF Holds, Past
    <3>2. PICK i : i = CHOOSE j \in DOMAIN Line(k) : Line(k)[j] = base
      OBVIOUS
    <3>3. i \in 1 .. len /\ line[i] = base
      BY <1>2, <1>3, <3>1, <3>2 DEF Past, Range
    <3>4. After(k, base) = SubSeq(line, i + 1, len)
      BY <1>2, <1>3, <2>2, <3>2 DEF After
    <3>5. i = len <=> base = k
      BY <1>1, <1>2, <1>3, <3>1, <3>3 DEF Lines, Line, Root
    <3>6. i \in 0 .. len
      BY <1>3, <3>3
    <3>. QED
      BY <3>4, <3>5, <3>6
  <2>. QED
    BY <2>1, <2>2
<1>6. PICK after : after = After(k, base)
  OBVIOUS
<1>7. \A i \in 1 .. (len - place) : place + i \in 1 .. len
  BY <1>3, <1>5
<1>8. after \in Seq(Nat) /\ Len(after) = len - place
      /\ \A i \in 1 .. (len - place) : after[i] = line[place + i]
  <2>1. after = SubSeq(line, place + 1, len)
    BY <1>5, <1>6
  <2>2. place + 1 \in Int /\ len \in Int /\ \A i \in (place + 1) .. len : line[i] \in Nat
    BY <1>2, <1>3, <1>5
  <2>3. /\ SubSeq(line, place + 1, len) \in Seq(Nat)
        /\ Len(SubSeq(line, place + 1, len)) = IF place + 1 <= len THEN len - (place + 1) + 1 ELSE 0
        /\ \A i \in 1 .. (len - (place + 1) + 1) : SubSeq(line, place + 1, len)[i] = line[place + 1 + i - 1]
    BY <2>2, SubSeqProperties
  <2>4. /\ len - (place + 1) + 1 = len - place
        /\ (IF place + 1 <= len THEN len - (place + 1) + 1 ELSE 0) = len - place
        /\ \A i \in 1 .. (len - place) : place + 1 + i - 1 = place + i
    BY <1>3, <1>5
  <2>. QED
    BY <2>1, <2>3, <2>4
<1>9. DOMAIN after = 1 .. (len - place)
  BY <1>8, LenProperties
<1>10. Range(after) \subseteq Past(k)
  BY <1>4, <1>7, <1>8, <1>9 DEF Range
<1>11. after = <<>> <=> place = len
  BY <1>3, <1>5, <1>8, EmptySeq
<1>. QED
  BY <1>5, <1>6, <1>8, <1>10, <1>11

(* The commit at which two lines part is in both. *)
LEMMA Parting ==
    ASSUME Lines, NEW j \in Commits, NEW k \in Commits
    PROVE  /\ Holds(j, MergeBase(j, k)) /\ Holds(k, MergeBase(j, k))
           /\ Holds(j, k) => MergeBase(j, k) = k
<1> DEFINE S == {Root} \cup (Past(j) \cap Past(k))
<1>1. PICK n \in Nat : n = Len(commit) /\ j \in 0 .. n /\ k \in 0 .. n
  BY Count DEF Commits
<1>2. S \in SUBSET (0 .. n) /\ S # {} /\ S \subseteq Nat
  BY <1>1, RootLine DEF Lines, Root
<1>3. MergeBase(j, k) = Max(S)
  BY DEF MergeBase, Past
<1>4. Max(S) \in S
  <2>. HIDE DEF S
  <2>. QED
    BY <1>2, MaxOf
<1>5. ASSUME Holds(j, k) PROVE Max(S) = k
  <2>1. k \in S
    BY <1>1, <1>5 DEF Holds, Lines, Past, Root
  <2>2. \A y \in S : y <= k
    BY <1>1, RootLine DEF Lines, Root
  <2>. HIDE DEF S
  <2>. QED
    BY <1>2, <2>1, <2>2, MaxIs
<1>. QED
  BY <1>3, <1>4, <1>5 DEF Holds, Past

-----------------------------------------------------------------------------
(* The inductive invariant *)

IsFile(f) == f = [base |-> f.base, ahead |-> f.ahead, data |-> f.data, pending |-> f.pending]
IsPlan(r) == r = [head |-> r.head, onto |-> r.onto, start |-> r.start, lines |-> r.lines,
                  data |-> r.data, then |-> r.then]

Refs ==
    /\ remote \in Commits
    /\ head \in [Copies -> Commits] /\ wt \in [Copies -> Commits]
    /\ temp \in [Copies -> Commits \cup {None}] /\ tag \in [Copies -> Commits \cup {None}]
    /\ pc \in [Copies -> Steps]
    /\ file = [c \in Copies |-> file[c]] /\ \A c \in Copies : IsFile(file[c]) /\ file[c].base \in Commits
    /\ rb = [c \in Copies |-> rb[c]]
    /\ \A c \in Copies : /\ IsPlan(rb[c]) /\ rb[c].then \in {"retag", "save"}
                         /\ rb[c].head \in Commits /\ rb[c].onto \in Commits /\ rb[c].start \in Commits

Building == {"forward", "keep", "branch", "line", "save", "unsave", "wipe", "publish", "retag", "store"}

(* What others wrote has been in the remote, and what a copy makes starts   *)
(* from there.                                                              *)
FromRemote(c, top, tip, plan) ==
    /\ Foreign(c, top) \subseteq Past(remote)
    /\ Foreign(c, plan.onto) \subseteq Past(remote)
    /\ Foreign(c, plan.start) \subseteq Past(remote)
    /\ tip # None => Foreign(c, tip) \subseteq Past(remote)

(* A file past its branch is at the tip of a rebase, which holds what       *)
(* others wrote before the tagged head.                                     *)
Standing(c, top, tip, from, base, step) ==
    \/ Holds(top, base)
    \/ /\ step \in {"move", "closed", "settle"}
       /\ tip = base /\ from # None /\ Foreign(c, from) \subseteq Past(tip)

(* What a call knows of the branch and its file. *)
Knowing(c, top, base, step, known, plan) ==
    /\ step \in {"drop", "replay"} => Holds(top, known)
    /\ step = "replay" => Holds(known, base)
    /\ step = "rebase" => \/ Holds(top, plan.onto)
                          \/ Foreign(c, top) \subseteq Past(plan.onto) /\ Holds(remote, plan.onto)

(* What a rebase leads to holds all that others wrote before its head. *)
Rebasing(c, tip, from, base, step, plan) ==
    /\ step \in Building => Foreign(c, plan.head) \subseteq Past(plan.onto)
    /\ step = "forward" => Holds(plan.onto, plan.head)
    /\ step = "publish" => base = Root
    /\ step \in {"keep", "branch"} /\ plan.then = "retag" => plan.start = plan.onto
    /\ step = "line" => tip # None
    /\ step = "line" /\ plan.then = "retag" => Holds(tip, plan.onto)
    /\ step \in {"retag", "store"} => tip # None /\ Holds(tip, plan.onto)
    /\ step = "store" => from = plan.head
    /\ step = "move" => /\ tip = base /\ from = plan.head
                        /\ Foreign(c, plan.head) \subseteq Past(tip)

SoundAt(c, top, tip, from, base, step, known, plan) ==
    /\ FromRemote(c, top, tip, plan)
    /\ Standing(c, top, tip, from, base, step)
    /\ Knowing(c, top, base, step, known, plan)
    /\ Rebasing(c, tip, from, base, step, plan)
Sound(c) == SoundAt(c, head[c], temp[c], tag[c], file[c].base, pc[c], wt[c], rb[c])
LogInv == Lines /\ Refs /\ \A c \in Copies : Sound(c)

-----------------------------------------------------------------------------
(* What a step may change *)

Grows ==
    /\ Lines /\ Lines' /\ Commits \subseteq Commits'
    /\ \A k \in Commits : Past(k)' = Past(k)
    /\ \A k \in 1 .. Len(commit) : commit'[k].by = commit[k].by

Apart(c) ==
    \A d \in Copies \ {c} :
        /\ head'[d] = head[d] /\ temp'[d] = temp[d] /\ tag'[d] = tag[d] /\ file'[d] = file[d]
        /\ pc'[d] = pc[d] /\ wt'[d] = wt[d] /\ rb'[d] = rb[d]

LEMMA NoneApart == None \notin Commits
BY LogAssumption DEF Commits

LEMMA GrowsKeeps ==
    ASSUME Grows, NEW k \in Commits
    PROVE  /\ Past(k)' = Past(k) /\ \A c : Foreign(c, k)' = Foreign(c, k)
           /\ \A j : Holds(k, j)' = Holds(k, j)
<1>1. Past(k)' = Past(k)
  BY DEF Grows
<1>2. Past(k) \subseteq 1 .. Len(commit)
  <2>1. CASE k = Root
    BY <2>1, RootLine
  <2>2. CASE k # Root
    BY <2>2, Count DEF Grows, Lines, Commits, Root
  <2>. QED
    BY <2>1, <2>2
<1>3. \A c : Foreign(c, k)' = Foreign(c, k)
  BY <1>1, <1>2 DEF Grows, Foreign
<1>4. \A j : Holds(k, j)' = Holds(k, j)
  BY <1>1 DEF Holds, Past
<1>. QED
  BY <1>1, <1>3, <1>4

LEMMA SameGrows == Lines /\ UNCHANGED commit => Grows
<1> SUFFICES ASSUME Lines, commit' = commit PROVE Grows
  OBVIOUS
<1>1. \A k : Past(k)' = Past(k)
  BY DEF Past, Line
<1>2. Lines'
  BY <1>1 DEF Lines
<1>. QED
  BY <1>1, <1>2 DEF Grows, Commits

(* What is sound stays so while the log grows and the remote goes on. *)
LEMMA SoundStays ==
    ASSUME Grows, Past(remote) \subseteq Past(remote)', remote \in Commits,
           NEW c \in Copies, NEW top \in Commits, NEW tip \in Commits \cup {None},
           NEW from \in Commits \cup {None}, NEW base \in Commits, NEW step, NEW known \in Commits,
           NEW plan, plan.head \in Commits, plan.onto \in Commits, plan.start \in Commits,
           SoundAt(c, top, tip, from, base, step, known, plan)
    PROVE  SoundAt(c, top, tip, from, base, step, known, plan)'
<1>1. FromRemote(c, top, tip, plan)'
  BY GrowsKeeps DEF SoundAt, FromRemote
<1>2. Standing(c, top, tip, from, base, step)'
  BY GrowsKeeps DEF SoundAt, Standing
<1>3. Knowing(c, top, base, step, known, plan)'
  <2>1. Holds(remote, plan.onto) => Holds(remote, plan.onto)'
    BY DEF Holds, Past
  <2>. QED
    BY <2>1, GrowsKeeps DEF SoundAt, Knowing
<1>4. Rebasing(c, tip, from, base, step, plan)'
  BY GrowsKeeps DEF SoundAt, Rebasing
<1>. QED
  BY <1>1, <1>2, <1>3, <1>4 DEF SoundAt

LEMMA OneStays ==
    ASSUME LogInv, Grows, Past(remote) \subseteq Past(remote)', NEW d \in Copies,
           head'[d] = head[d], temp'[d] = temp[d], tag'[d] = tag[d], file'[d] = file[d],
           pc'[d] = pc[d], wt'[d] = wt[d], rb'[d] = rb[d]
    PROVE  Sound(d)'
<1>1. /\ head[d] \in Commits /\ wt[d] \in Commits /\ rb[d].head \in Commits /\ rb[d].onto \in Commits
      /\ rb[d].start \in Commits /\ remote \in Commits /\ file[d].base \in Commits
      /\ temp[d] \in Commits \cup {None} /\ tag[d] \in Commits \cup {None}
  BY DEF LogInv, Refs
<1>2. PICK top, tip, from, f, step, known, plan :
        /\ top = head[d] /\ tip = temp[d] /\ from = tag[d] /\ f = file[d]
        /\ step = pc[d] /\ known = wt[d] /\ plan = rb[d]
  OBVIOUS
<1>3. SoundAt(d, top, tip, from, f.base, step, known, plan)
  BY <1>2 DEF LogInv, Sound
<1>4. SoundAt(d, top, tip, from, f.base, step, known, plan)'
  BY <1>1, <1>2, <1>3, SoundStays
<1>5. /\ top = head'[d] /\ tip = temp'[d] /\ from = tag'[d] /\ f = file'[d]
      /\ step = pc'[d] /\ known = wt'[d] /\ plan = rb'[d]
  BY <1>2
<1>. QED
  BY <1>4, <1>5 DEF Sound

LEMMA OneCopy ==
    ASSUME LogInv, NEW c \in Copies, Grows, Refs', Past(remote) \subseteq Past(remote)', Apart(c), Sound(c)'
    PROVE  LogInv'
<1>1. ASSUME NEW d \in Copies, d # c PROVE Sound(d)'
  BY <1>1, OneStays DEF Apart
<1>. QED
  BY <1>1 DEF LogInv, Grows

(* Most steps take a call on and leave no more than the file changed.       *)
Calm == {"closed", "settle", "idle", "flush", "commit", "tag", "restore", "undo",
         "catchup", "dropbranch", "droptag"}
Rests(c) ==
    \E step \in Calm, plan \in {rb[c], NoRebase} :
        pc' = [pc EXCEPT ![c] = step] /\ rb' = [rb EXCEPT ![c] = plan]

LEMMA RbSame == Refs => \A c \in Copies : rb = [rb EXCEPT ![c] = rb[c]]
BY DEF Refs

LEMMA RestsIf ==
    ASSUME Refs, NEW c \in Copies,
           \/ Throw(c) \/ Level(c) \/ Flushed(c) \/ Shut(c) \/ Finish(c)
           \/ UNCHANGED rb /\ \E step \in Calm : At(c, step)
           \/ UNCHANGED rb /\ \E step \in Calm : \E g : Become(c, g, step)
    PROVE  Rests(c)
<1>1. \A step \in Calm : At(c, step) /\ UNCHANGED rb => Rests(c)
  BY RbSame DEF At, Rests
<1>2. \A step \in Calm : At(c, step) /\ rb' = [rb EXCEPT ![c] = NoRebase] => Rests(c)
  BY DEF At, Rests
<1>3. {"closed", "idle", "flush", "undo", "tag", "restore"} \subseteq Calm
  BY DEF Calm
<1>4. Shut(c) => Rests(c)
  BY <1>2, <1>3 DEF Shut, Become
<1>5. Finish(c) => Rests(c)
  BY <1>2, <1>3 DEF Finish, Become
<1>6. Throw(c) => Rests(c)
  BY <1>2, <1>3, <1>4, <1>5 DEF Throw, Become
<1>7. Level(c) => Rests(c)
  BY <1>1, <1>2, <1>3, <1>5 DEF Level
<1>8. Flushed(c) => Rests(c)
  BY <1>1, <1>3, <1>4, <1>5 DEF Flushed
<1>. QED
  BY <1>1, <1>4, <1>5, <1>6, <1>7, <1>8 DEF Become

LEMMA NoPlan ==
    /\ IsPlan(NoRebase) /\ NoRebase.then = "retag"
    /\ NoRebase.head = Root /\ NoRebase.onto = Root /\ NoRebase.start = Root
BY DEF NoRebase, IsPlan

LEMMA Nothing == \A c : Foreign(c, Root) = {}
BY RootLine DEF Foreign

(* A copy's head, rebase's branch and tag, its file, where its call stands, *)
(* the head it knows and its rebase, each of its kind.                      *)
Well(top, tip, from, f, step, known, plan) ==
    /\ top \in Commits /\ tip \in Commits \cup {None} /\ from \in Commits \cup {None}
    /\ IsFile(f) /\ f.base \in Commits /\ step \in Steps /\ known \in Commits
    /\ IsPlan(plan) /\ plan.then \in {"retag", "save"}
    /\ plan.head \in Commits /\ plan.onto \in Commits /\ plan.start \in Commits
Has(c, top, tip, from, f, step, known, plan) ==
    /\ top = head[c] /\ tip = temp[c] /\ from = tag[c] /\ f = file[c]
    /\ step = pc[c] /\ known = wt[c] /\ plan = rb[c]
    /\ head = [head EXCEPT ![c] = top] /\ temp = [temp EXCEPT ![c] = tip]
    /\ tag = [tag EXCEPT ![c] = from] /\ file = [file EXCEPT ![c] = f]
    /\ pc = [pc EXCEPT ![c] = step] /\ wt = [wt EXCEPT ![c] = known] /\ rb = [rb EXCEPT ![c] = plan]
Moves(c, top, tip, from, f, step, known, plan) ==
    /\ head' = [head EXCEPT ![c] = top] /\ temp' = [temp EXCEPT ![c] = tip]
    /\ tag' = [tag EXCEPT ![c] = from] /\ file' = [file EXCEPT ![c] = f]
    /\ pc' = [pc EXCEPT ![c] = step] /\ wt' = [wt EXCEPT ![c] = known] /\ rb' = [rb EXCEPT ![c] = plan]

LEMMA Values ==
    ASSUME LogInv, NEW c \in Copies
    PROVE  \E top, tip, from, f, step, known, plan :
        /\ Has(c, top, tip, from, f, step, known, plan)
        /\ Well(top, tip, from, f, step, known, plan)
        /\ SoundAt(c, top, tip, from, f.base, step, known, plan)
BY DEF LogInv, Refs, Sound, Has, Well

(* A step of one copy that makes no commit. *)
LEMMA Moving ==
    ASSUME LogInv, NEW c \in Copies, UNCHANGED <<commit, remote>>,
           NEW top, NEW tip, NEW from, NEW f, NEW step, NEW known, NEW plan,
           Moves(c, top, tip, from, f, step, known, plan),
           Well(top, tip, from, f, step, known, plan),
           SoundAt(c, top, tip, from, f.base, step, known, plan)
    PROVE  LogInv'
<1> USE DEF Moves, Well
<1>1. Grows /\ Past(remote) \subseteq Past(remote)' /\ remote \in Commits
  BY SameGrows DEF LogInv, Refs, Past, Line
<1>2. Commits' = Commits
  BY DEF Commits
<1>3. Refs'
  <2>1. remote' \in Commits' /\ head' \in [Copies -> Commits'] /\ wt' \in [Copies -> Commits']
        /\ temp' \in [Copies -> Commits' \cup {None}] /\ tag' \in [Copies -> Commits' \cup {None}]
        /\ pc' \in [Copies -> Steps]
    BY <1>2 DEF LogInv, Refs
  <2>2. file' = [d \in Copies |-> file'[d]] /\ \A d \in Copies : IsFile(file'[d]) /\ file'[d].base \in Commits
    BY DEF LogInv, Refs
  <2>3. rb' = [d \in Copies |-> rb'[d]]
        /\ \A d \in Copies :
             /\ IsPlan(rb'[d]) /\ rb'[d].then \in {"retag", "save"}
             /\ rb'[d].head \in Commits /\ rb'[d].onto \in Commits /\ rb'[d].start \in Commits
    BY DEF LogInv, Refs
  <2>. QED
    BY <1>2, <2>1, <2>2, <2>3 DEF Refs, IsFile, IsPlan
<1>4. Apart(c)
  BY DEF LogInv, Refs, Apart
<1>5. /\ head'[c] = top /\ temp'[c] = tip /\ tag'[c] = from /\ file'[c] = f
      /\ pc'[c] = step /\ wt'[c] = known /\ rb'[c] = plan
  BY DEF LogInv, Refs
<1>6. SoundAt(c, top, tip, from, f.base, step, known, plan)'
  BY <1>1, SoundStays
<1>7. Sound(c)'
  BY <1>5, <1>6 DEF Sound
<1>. QED
  BY <1>1, <1>3, <1>4, <1>7, OneCopy

LEMMA Itself ==
    ASSUME Refs, NEW c \in Copies
    PROVE  /\ head = [head EXCEPT ![c] = head[c]] /\ temp = [temp EXCEPT ![c] = temp[c]]
           /\ tag = [tag EXCEPT ![c] = tag[c]] /\ file = [file EXCEPT ![c] = file[c]]
           /\ pc = [pc EXCEPT ![c] = pc[c]] /\ wt = [wt EXCEPT ![c] = wt[c]]
           /\ rb = [rb EXCEPT ![c] = rb[c]]
           /\ head[c] \in Commits /\ temp[c] \in Commits \cup {None} /\ tag[c] \in Commits \cup {None}
           /\ IsFile(file[c]) /\ file[c].base \in Commits /\ pc[c] \in Steps /\ wt[c] \in Commits
           /\ IsPlan(rb[c]) /\ rb[c].then \in {"retag", "save"}
           /\ rb[c].head \in Commits /\ rb[c].onto \in Commits /\ rb[c].start \in Commits
BY DEF Refs

LEMMA Quietly ==
    ASSUME LogInv, NEW c \in Copies, NEW f, NEW known \in Commits,
           UNCHANGED <<commit, remote, head, temp, tag>>,
           Rests(c), wt' = [wt EXCEPT ![c] = known],
           file' = [file EXCEPT ![c] = f], IsFile(f), Holds(head[c], f.base)
    PROVE  LogInv'
<1>1. PICK step \in Calm, plan \in {rb[c], NoRebase} :
        pc' = [pc EXCEPT ![c] = step] /\ rb' = [rb EXCEPT ![c] = plan]
  BY DEF Rests
<1>2. step \in Steps
  BY DEF Calm, Steps
<1>3. /\ IsPlan(plan) /\ plan.then \in {"retag", "save"}
      /\ plan.head \in Commits /\ plan.onto \in Commits /\ plan.start \in Commits
  BY NoPlan, Count DEF LogInv, Refs
<1>4. f.base \in Commits
  BY HoldsOn DEF LogInv, Refs
<1>5. PICK top, tip, from : top = head[c] /\ tip = temp[c] /\ from = tag[c]
  OBVIOUS
<1>6. /\ top \in Commits /\ tip \in Commits \cup {None} /\ from \in Commits \cup {None}
      /\ head' = [head EXCEPT ![c] = top] /\ temp' = [temp EXCEPT ![c] = tip]
      /\ tag' = [tag EXCEPT ![c] = from]
  BY <1>5, Itself DEF LogInv
<1>7. FromRemote(c, top, tip, plan)
  BY <1>5, NoPlan, Nothing DEF LogInv, Sound, SoundAt, FromRemote
<1>8. Standing(c, top, tip, from, f.base, step)
  BY <1>5 DEF Standing
<1>9. Knowing(c, top, f.base, step, known, plan) /\ Rebasing(c, tip, from, f.base, step, plan)
  BY DEF Knowing, Rebasing, Calm, Building
<1>10. SoundAt(c, top, tip, from, f.base, step, known, plan)
  BY <1>7, <1>8, <1>9 DEF SoundAt
<1>11. Moves(c, top, tip, from, f, step, known, plan) /\ Well(top, tip, from, f, step, known, plan)
  BY <1>1, <1>2, <1>3, <1>4, <1>6 DEF Moves, Well
<1>. QED
  BY <1>10, <1>11, Moving

-----------------------------------------------------------------------------
(* The steps, one by one *)

LEMMA StandsFirm ==
    ASSUME LogInv, NEW c \in Copies, pc[c] \notin {"move", "closed", "settle"}
    PROVE  Holds(head[c], file[c].base)
BY DEF LogInv, Sound, SoundAt, Standing

(* A step that leaves the file's place and the branch. *)
LEMMA Stays ==
    ASSUME LogInv, NEW c \in Copies, pc[c] \notin {"move", "closed", "settle"},
           UNCHANGED <<commit, remote, head, temp, tag>>, Rests(c),
           UNCHANGED wt \/ wt' = [wt EXCEPT ![c] = head[c]],
           UNCHANGED file \/ \E f : file' = [file EXCEPT ![c] = f] /\ IsFile(f) /\ f.base = file[c].base
    PROVE  LogInv'
<1>1. PICK known \in Commits : wt' = [wt EXCEPT ![c] = known]
  BY Itself DEF LogInv
<1>2. PICK f : file' = [file EXCEPT ![c] = f] /\ IsFile(f) /\ f.base = file[c].base
  BY Itself DEF LogInv
<1>3. Holds(head[c], f.base)
  BY <1>2, StandsFirm
<1>. QED
  BY <1>1, <1>2, <1>3, Quietly

LEMMA FileParts ==
    ASSUME NEW f, IsFile(f)
    PROVE  \E ahead, data, pending :
             f = [base |-> f.base, ahead |-> ahead, data |-> data, pending |-> pending]
BY DEF IsFile

LEMMA FileMade ==
    ASSUME NEW base, NEW ahead, NEW data, NEW pending, NEW f,
           f = [base |-> base, ahead |-> ahead, data |-> data, pending |-> pending]
    PROVE  IsFile(f) /\ f.base = base
BY DEF IsFile

(* What a transaction writes leaves a file where it stands. *)
LEMMA WroteThere ==
    ASSUME NEW f, IsFile(f), NEW t
    PROVE  IsFile(Wrote(f, t)) /\ Wrote(f, t).base = f.base
<1>1. PICK b : b = f.base
  OBVIOUS
<1>2. PICK a, d, p : f = [base |-> b, ahead |-> a, data |-> d, pending |-> p]
  BY <1>1, FileParts
<1>3. PICK data, pending : data = Do(f.data, t) /\ pending = Append(f.pending, t)
  OBVIOUS
<1>4. PICK g : g = [f EXCEPT !.data = data, !.pending = pending]
  OBVIOUS
<1>5. g = [base |-> b, ahead |-> a, data |-> data, pending |-> pending]
  BY <1>2, <1>4, Zenon
<1>6. Wrote(f, t) = g
  BY <1>3, <1>4, Zenon DEF Wrote
<1>. QED
  BY <1>1, <1>5, <1>6, FileMade

LEMMA TransactNext == ASSUME LogInv, NEW c \in Copies, Transact(c) PROVE LogInv'
<1>1. PICK t : file' = [file EXCEPT ![c] = Wrote(file[c], t)]
  BY DEF Transact
<1>2. IsFile(file[c])
  BY DEF LogInv, Refs
<1>3. \E f : file' = [file EXCEPT ![c] = f] /\ IsFile(f) /\ f.base = file[c].base
  BY <1>1, <1>2, WroteThere
<1>4. UNCHANGED rb
  BY DEF Transact
<1>5. Rests(c)
  <2>1. At(c, "flush") \/ At(c, "idle")
    BY DEF Transact, Become, At, LogInv, Refs
  <2>. QED
    BY <1>4, <2>1, RestsIf DEF Calm, LogInv
<1>. QED
  BY <1>3, <1>5, Stays DEF Transact, store

LEMMA FlushStartNext == ASSUME LogInv, NEW c \in Copies, FlushStart(c) PROVE LogInv'
<1>1. Rests(c)
  BY RestsIf DEF FlushStart, Calm, LogInv
<1>. QED
  BY <1>1, Stays DEF FlushStart, store

LEMMA CheckpointNext == ASSUME LogInv, NEW c \in Copies, Checkpoint(c) PROVE LogInv'
<1>1. Rests(c)
  BY RestsIf DEF Checkpoint, Calm, LogInv
<1>. QED
  BY <1>1, Stays DEF Checkpoint

LEMMA RestoreStartNext == ASSUME LogInv, NEW c \in Copies, RestoreStart(c) PROVE LogInv'
<1>1. Rests(c)
  BY RestsIf DEF RestoreStart, Calm, LogInv
<1>. QED
  BY <1>1, Stays DEF RestoreStart, store

LEMMA RestoreNext == ASSUME LogInv, NEW c \in Copies, Restore(c) PROVE LogInv'
<1>1. Rests(c)
  BY RestsIf DEF Restore, Calm, LogInv
<1>2. UNCHANGED file \/ \E t : file' = [file EXCEPT ![c] = Wrote(file[c], t)]
  BY DEF Restore
<1>3. IsFile(file[c])
  BY DEF LogInv, Refs
<1>4. UNCHANGED file \/ \E f : file' = [file EXCEPT ![c] = f] /\ IsFile(f) /\ f.base = file[c].base
  BY <1>2, <1>3, WroteThere
<1>. QED
  BY <1>1, <1>4, Stays DEF Restore, store

(* A step that leaves the file and what it knows, and a rebase's branch and *)
(* tag as they are or gone.                                                 *)
LEMMA Tidies ==
    ASSUME LogInv, NEW c \in Copies, pc[c] \notin {"move", "closed", "settle"},
           UNCHANGED <<commit, remote, head, file, wt>>,
           temp' = [temp EXCEPT ![c] = None] \/ UNCHANGED temp,
           tag' = [tag EXCEPT ![c] = None] \/ UNCHANGED tag,
           Rests(c)
    PROVE  LogInv'
<1>1. PICK step \in Calm, plan \in {rb[c], NoRebase} :
        pc' = [pc EXCEPT ![c] = step] /\ rb' = [rb EXCEPT ![c] = plan]
  BY DEF Rests
<1>2. step \in Steps
  BY DEF Calm, Steps
<1>3. /\ IsPlan(plan) /\ plan.then \in {"retag", "save"}
      /\ plan.head \in Commits /\ plan.onto \in Commits /\ plan.start \in Commits
  BY NoPlan, Count DEF LogInv, Refs
<1>4. PICK top, tip, from, f, known :
        /\ top = head[c] /\ f = file[c] /\ known = wt[c]
        /\ temp' = [temp EXCEPT ![c] = tip] /\ tip \in {None, temp[c]}
        /\ tag' = [tag EXCEPT ![c] = from] /\ from \in {None, tag[c]}
  <2>1. PICK tip \in {None, temp[c]} : temp' = [temp EXCEPT ![c] = tip]
    BY Itself DEF LogInv
  <2>2. PICK from \in {None, tag[c]} : tag' = [tag EXCEPT ![c] = from]
    BY Itself DEF LogInv
  <2>. QED
    BY <2>1, <2>2
<1>5. /\ top \in Commits /\ known \in Commits /\ head' = [head EXCEPT ![c] = top] /\ file' = [file EXCEPT ![c] = f]
      /\ wt' = [wt EXCEPT ![c] = known] /\ IsFile(f) /\ f.base \in Commits
      /\ tip \in Commits \cup {None} /\ from \in Commits \cup {None}
  BY <1>4, Itself DEF LogInv
<1>6. FromRemote(c, top, tip, plan)
  BY <1>4, NoPlan, Nothing DEF LogInv, Sound, SoundAt, FromRemote
<1>7. Standing(c, top, tip, from, f.base, step)
  BY <1>4, StandsFirm DEF Standing
<1>8. Knowing(c, top, f.base, step, known, plan) /\ Rebasing(c, tip, from, f.base, step, plan)
  BY DEF Knowing, Rebasing, Calm, Building
<1>9. SoundAt(c, top, tip, from, f.base, step, known, plan)
  BY <1>6, <1>7, <1>8 DEF SoundAt
<1>10. Moves(c, top, tip, from, f, step, known, plan) /\ Well(top, tip, from, f, step, known, plan)
  BY <1>1, <1>2, <1>3, <1>4, <1>5 DEF Moves, Well
<1>. QED
  BY <1>9, <1>10, Moving

LEMMA DropTagNext == ASSUME LogInv, NEW c \in Copies, DropTag(c) PROVE LogInv'
<1>1. Rests(c)
  BY RestsIf DEF DropTag, Calm, LogInv
<1>. QED
  BY <1>1, Tidies DEF DropTag

LEMMA DropBranchNext == ASSUME LogInv, NEW c \in Copies, DropBranch(c) PROVE LogInv'
<1>1. Rests(c)
  BY RestsIf DEF DropBranch, Calm, LogInv
<1>. QED
  BY <1>1, Tidies DEF DropBranch

LEMMA OpenNext == ASSUME LogInv, NEW c \in Copies, Open(c) PROVE LogInv'
<1>1. PICK top, tip, from, f, step, known, plan :
        /\ Has(c, top, tip, from, f, step, known, plan)
        /\ Well(top, tip, from, f, step, known, plan)
        /\ SoundAt(c, top, tip, from, f.base, step, known, plan)
  BY Values
<1>2. Moves(c, top, tip, from, f, "settle", known, plan) /\ UNCHANGED <<commit, remote>> /\ step = "closed"
  BY <1>1 DEF Open, Become, At, Has, Moves, store
<1>3. Well(top, tip, from, f, "settle", known, plan)
  BY <1>1 DEF Well, Steps
<1>4. SoundAt(c, top, tip, from, f.base, "settle", known, plan)
  BY <1>1, <1>2 DEF SoundAt, FromRemote, Standing, Knowing, Rebasing, Building
<1>. QED
  BY <1>2, <1>3, <1>4, Moving

LEMMA PlanParts ==
    ASSUME NEW p, IsPlan(p)
    PROVE  \E lines, data : p = [head |-> p.head, onto |-> p.onto, start |-> p.start,
                                 lines |-> lines, data |-> data, then |-> p.then]
BY DEF IsPlan

LEMMA PlanMade ==
    ASSUME NEW top, NEW onto, NEW start, NEW lines, NEW data, NEW then, NEW p,
           p = [head |-> top, onto |-> onto, start |-> start, lines |-> lines, data |-> data, then |-> then]
    PROVE  IsPlan(p) /\ p.head = top /\ p.onto = onto /\ p.start = start /\ p.then = then
BY DEF IsPlan

LEMMA PlanOnto ==
    ASSUME NEW p, IsPlan(p), NEW onto, NEW q, q = [p EXCEPT !.onto = onto]
    PROVE  IsPlan(q) /\ q.onto = onto /\ q.head = p.head /\ q.start = p.start /\ q.then = p.then
BY DEF IsPlan

LEMMA KeepMineNext == ASSUME LogInv, NEW c \in Copies, KeepMine(c) PROVE LogInv'
<1>1. PICK top, tip, from, f, step, known, plan :
        /\ Has(c, top, tip, from, f, step, known, plan)
        /\ Well(top, tip, from, f, step, known, plan)
        /\ SoundAt(c, top, tip, from, f.base, step, known, plan)
  BY Values
<1>2. Moves(c, top, tip, from, f, "branch", known, plan) /\ UNCHANGED <<commit, remote>> /\ step = "keep"
  BY <1>1 DEF KeepMine, At, Has, Moves
<1>3. Well(top, tip, from, f, "branch", known, plan)
  BY <1>1 DEF Well, Steps
<1>4. SoundAt(c, top, tip, from, f.base, "branch", known, plan)
  BY <1>1, <1>2 DEF SoundAt, FromRemote, Standing, Knowing, Rebasing, Building
<1>. QED
  BY <1>2, <1>3, <1>4, Moving

LEMMA KeepTheirsNext == ASSUME LogInv, NEW c \in Copies, KeepTheirs(c) PROVE LogInv'
<1>1. PICK top, tip, from, f, step, known, plan :
        /\ Has(c, top, tip, from, f, step, known, plan)
        /\ Well(top, tip, from, f, step, known, plan)
        /\ SoundAt(c, top, tip, from, f.base, step, known, plan)
  BY Values
<1>2. Moves(c, top, tip, from, f, "unsave", known, plan) /\ UNCHANGED <<commit, remote>> /\ step = "save"
  BY <1>1 DEF KeepTheirs, At, Has, Moves
<1>3. Well(top, tip, from, f, "unsave", known, plan)
  BY <1>1 DEF Well, Steps
<1>4. SoundAt(c, top, tip, from, f.base, "unsave", known, plan)
  BY <1>1, <1>2 DEF SoundAt, FromRemote, Standing, Knowing, Rebasing, Building
<1>. QED
  BY <1>2, <1>3, <1>4, Moving

LEMMA RetagNext == ASSUME LogInv, NEW c \in Copies, Retag(c) PROVE LogInv'
<1>1. PICK top, tip, from, f, step, known, plan :
        /\ Has(c, top, tip, from, f, step, known, plan)
        /\ Well(top, tip, from, f, step, known, plan)
        /\ SoundAt(c, top, tip, from, f.base, step, known, plan)
  BY Values
<1>2. Moves(c, top, tip, plan.head, f, "store", known, plan) /\ UNCHANGED <<commit, remote>> /\ step = "retag"
  BY <1>1 DEF Retag, At, Has, Moves
<1>3. Well(top, tip, plan.head, f, "store", known, plan)
  BY <1>1 DEF Well, Steps
<1>4. SoundAt(c, top, tip, plan.head, f.base, "store", known, plan)
  BY <1>1, <1>2 DEF SoundAt, FromRemote, Standing, Knowing, Rebasing, Building
<1>. QED
  BY <1>2, <1>3, <1>4, Moving

LEMMA RebaseBranchNext == ASSUME LogInv, NEW c \in Copies, RebaseBranch(c) PROVE LogInv'
<1>1. PICK top, tip, from, f, step, known, plan :
        /\ Has(c, top, tip, from, f, step, known, plan)
        /\ Well(top, tip, from, f, step, known, plan)
        /\ SoundAt(c, top, tip, from, f.base, step, known, plan)
  BY Values
<1>2. PICK next \in {"retag", "save", "line"} :
        /\ Moves(c, top, plan.start, from, f, next, known, plan) /\ UNCHANGED <<commit, remote>> /\ step = "branch"
        /\ next \in {plan.then, "line"}
  BY <1>1 DEF RebaseBranch, At, Has, Moves, Well
<1>3. Well(top, plan.start, from, f, next, known, plan) /\ plan.start # None
  BY <1>1, NoneApart DEF Well, Steps
<1>4. Holds(plan.onto, plan.onto)
  BY <1>1, HoldsItself DEF Well, LogInv
<1>5. SoundAt(c, top, plan.start, from, f.base, next, known, plan)
  BY <1>1, <1>2, <1>3, <1>4 DEF SoundAt, FromRemote, Standing, Knowing, Rebasing, Building
<1>. QED
  BY <1>2, <1>3, <1>5, Moving

LEMMA WipeNext == ASSUME LogInv, NEW c \in Copies, Wipe(c) PROVE LogInv'
<1>1. PICK top, tip, from, f, step, known, plan :
        /\ Has(c, top, tip, from, f, step, known, plan)
        /\ Well(top, tip, from, f, step, known, plan)
        /\ SoundAt(c, top, tip, from, f.base, step, known, plan)
  BY Values
<1>2. Moves(c, top, tip, from, Fresh, "publish", known, plan) /\ UNCHANGED <<commit, remote>> /\ step = "wipe"
  BY <1>1 DEF Wipe, At, Has, Moves, store
<1>3. IsFile(Fresh) /\ Fresh.base = Root
  BY DEF Fresh, IsFile
<1>4. Well(top, tip, from, Fresh, "publish", known, plan)
  BY <1>1, <1>3, Count DEF Well, Steps, LogInv
<1>5. SoundAt(c, top, tip, from, Fresh.base, "publish", known, plan)
  BY <1>1, <1>2, <1>3 DEF SoundAt, FromRemote, Standing, Knowing, Rebasing, Building, Holds
<1>. QED
  BY <1>2, <1>4, <1>5, Moving

LEMMA PublishNext == ASSUME LogInv, NEW c \in Copies, Publish(c) PROVE LogInv'
<1>1. PICK top, tip, from, f, step, known, plan :
        /\ Has(c, top, tip, from, f, step, known, plan)
        /\ Well(top, tip, from, f, step, known, plan)
        /\ SoundAt(c, top, tip, from, f.base, step, known, plan)
  BY Values
<1>2. PICK next \in {top, plan.onto} :
        /\ Moves(c, next, tip, from, f, "closed", known, NoRebase) /\ UNCHANGED <<commit, remote>>
        /\ step = "publish"
  BY <1>1 DEF Publish, Shut, Become, At, Has, Moves
<1>3. Well(next, tip, from, f, "closed", known, NoRebase)
  BY <1>1, NoPlan, Count DEF Well, Steps, LogInv
<1>4. SoundAt(c, next, tip, from, f.base, "closed", known, NoRebase)
  BY <1>1, <1>2, NoPlan, Nothing DEF SoundAt, FromRemote, Standing, Knowing, Rebasing, Building, Holds
<1>. QED
  BY <1>2, <1>3, <1>4, Moving

LEMMA MoveNext == ASSUME LogInv, NEW c \in Copies, Move(c) PROVE LogInv'
<1>1. PICK top, tip, from, f, step, known, plan :
        /\ Has(c, top, tip, from, f, step, known, plan)
        /\ Well(top, tip, from, f, step, known, plan)
        /\ SoundAt(c, top, tip, from, f.base, step, known, plan)
  BY Values
<1>2. CASE top = plan.head
  <2>1. Moves(c, tip, tip, from, f, "dropbranch", tip, plan) /\ UNCHANGED <<commit, remote>> /\ step = "move"
    BY <1>1, <1>2 DEF Move, At, Has, Moves
  <2>2. tip = f.base
    BY <1>1, <2>1 DEF SoundAt, Rebasing
  <2>3. Well(tip, tip, from, f, "dropbranch", tip, plan)
    BY <1>1, <2>2 DEF Well, Steps
  <2>4. Holds(tip, f.base)
    BY <2>2, <2>3, HoldsItself DEF Well, LogInv
  <2>5. tip # None
    BY <1>1, <2>2, NoneApart DEF Well
  <2>6. SoundAt(c, tip, tip, from, f.base, "dropbranch", tip, plan)
    BY <1>1, <2>1, <2>4, <2>5 DEF SoundAt, FromRemote, Standing, Knowing, Rebasing, Building
  <2>. QED
    BY <2>1, <2>3, <2>6, Moving
<1>3. CASE top # plan.head
  <2>1. Moves(c, top, tip, from, f, "closed", known, NoRebase) /\ UNCHANGED <<commit, remote>> /\ step = "move"
    BY <1>1, <1>3 DEF Move, Shut, Become, At, Has, Moves
  <2>2. Well(top, tip, from, f, "closed", known, NoRebase)
    BY <1>1, NoPlan, Count DEF Well, Steps, LogInv
  <2>3. tip = f.base /\ from = plan.head /\ from # None /\ Foreign(c, from) \subseteq Past(tip)
    BY <1>1, <2>1, NoneApart DEF SoundAt, Rebasing, Well
  <2>4. SoundAt(c, top, tip, from, f.base, "closed", known, NoRebase)
    BY <1>1, <2>1, <2>3, NoPlan, Nothing
    DEF SoundAt, FromRemote, Standing, Knowing, Rebasing, Building
  <2>. QED
    BY <2>1, <2>2, <2>4, Moving
<1>. QED
  BY <1>2, <1>3

LEMMA ForwardNext == ASSUME LogInv, NEW c \in Copies, Forward(c) PROVE LogInv'
<1>1. PICK top, tip, from, f, step, known, plan :
        /\ Has(c, top, tip, from, f, step, known, plan)
        /\ Well(top, tip, from, f, step, known, plan)
        /\ SoundAt(c, top, tip, from, f.base, step, known, plan)
  BY Values
<1>2. CASE top = plan.head
  <2>1. Moves(c, plan.onto, tip, from, f, "catchup", known, plan) /\ UNCHANGED <<commit, remote>>
        /\ step = "forward"
    BY <1>1, <1>2 DEF Forward, At, Has, Moves
  <2>2. Well(plan.onto, tip, from, f, "catchup", known, plan)
    BY <1>1 DEF Well, Steps
  <2>3. Holds(plan.onto, top) /\ Holds(top, f.base)
    BY <1>1, <1>2, <2>1 DEF SoundAt, Rebasing, Standing
  <2>4. Holds(plan.onto, f.base)
    BY <1>1, <2>3, HoldsOn DEF Well, LogInv
  <2>5. SoundAt(c, plan.onto, tip, from, f.base, "catchup", known, plan)
    BY <1>1, <2>1, <2>4 DEF SoundAt, FromRemote, Standing, Knowing, Rebasing, Building
  <2>. QED
    BY <2>1, <2>2, <2>5, Moving
<1>3. CASE top # plan.head
  <2>1. UNCHANGED head /\ Throw(c) /\ pc[c] = "forward" /\ UNCHANGED <<commit, remote, temp, tag, file, wt>>
    BY <1>1, <1>3 DEF Forward, Has
  <2>. QED
    BY <2>1, RestsIf, Stays DEF LogInv
<1>. QED
  BY <1>2, <1>3

LEMMA StoreNext == ASSUME LogInv, NEW c \in Copies, Store(c) PROVE LogInv'
<1>1. PICK top, tip, from, f, step, known, plan :
        /\ Has(c, top, tip, from, f, step, known, plan)
        /\ Well(top, tip, from, f, step, known, plan)
        /\ SoundAt(c, top, tip, from, f.base, step, known, plan)
  BY Values
<1>2. CASE UNCHANGED file /\ Throw(c)
  BY <1>2, RestsIf, Stays DEF Store, LogInv, store
<1>3. CASE ~(UNCHANGED file /\ Throw(c))
  <2>1. PICK g : g = [base |-> tip, ahead |-> 0, data |-> plan.data, pending |-> <<>>]
    OBVIOUS
  <2>2. IsFile(g) /\ g.base = tip
    BY <2>1, FileMade
  <2>3. Moves(c, top, tip, from, g, "move", known, plan) /\ UNCHANGED <<commit, remote>> /\ step = "store"
    BY <1>1, <1>3, <2>1 DEF Store, At, Has, Moves, store
  <2>4. /\ tip # None /\ tip \in Commits /\ from = plan.head /\ Holds(tip, plan.onto)
        /\ Foreign(c, plan.head) \subseteq Past(plan.onto)
    BY <1>1, <2>3 DEF SoundAt, Rebasing, Well, Building
  <2>5. Foreign(c, plan.head) \subseteq Past(tip) /\ from # None
    BY <1>1, <2>4, HoldsOn, NoneApart DEF LogInv, Well
  <2>6. Well(top, tip, from, g, "move", known, plan)
    BY <1>1, <2>2, <2>4 DEF Well, Steps
  <2>7. SoundAt(c, top, tip, from, g.base, "move", known, plan)
    BY <1>1, <2>2, <2>4, <2>5 DEF SoundAt, FromRemote, Standing, Knowing, Rebasing, Building
  <2>. QED
    BY <2>3, <2>6, <2>7, Moving
<1>. QED
  BY <1>2, <1>3

LEMMA KeptTheirsNext == ASSUME LogInv, NEW c \in Copies, KeptTheirs(c) PROVE LogInv'
<1>1. PICK top, tip, from, f, step, known, plan :
        /\ Has(c, top, tip, from, f, step, known, plan)
        /\ Well(top, tip, from, f, step, known, plan)
        /\ SoundAt(c, top, tip, from, f.base, step, known, plan)
  BY Values
<1>0. PICK new : new = [plan EXCEPT !.start = plan.onto, !.lines = <<>>, !.then = "retag"]
  OBVIOUS
<1>2. PICK next \in {"wipe", "branch"} :
        Moves(c, top, None, from, f, next, known, new) /\ UNCHANGED <<commit, remote>> /\ step = "unsave"
  BY <1>1, <1>0 DEF KeptTheirs, At, Has, Moves
<1>3. IsPlan(new) /\ new.head = plan.head /\ new.onto = plan.onto /\ new.start = plan.onto /\ new.then = "retag"
  <2>1. PICK a, b, d, e, h, t : /\ plan = [head |-> a, onto |-> b, start |-> d, lines |-> e, data |-> h, then |-> t]
                                /\ a = plan.head /\ b = plan.onto
    BY <1>1, PlanParts DEF Well
  <2>2. PICK q : q = [plan EXCEPT !.start = b, !.lines = <<>>, !.then = "retag"]
    OBVIOUS
  <2>3. q = [head |-> a, onto |-> b, start |-> b, lines |-> <<>>, data |-> h, then |-> "retag"]
    BY <2>1, <2>2, Zenon
  <2>4. new = q
    BY <1>0, <2>1, <2>2
  <2>. QED
    BY <2>1, <2>3, <2>4, PlanMade
<1>4. Well(top, None, from, f, next, known, new)
  BY <1>1, <1>3 DEF Well, Steps
<1>5. SoundAt(c, top, None, from, f.base, next, known, new)
  BY <1>1, <1>2, <1>3 DEF SoundAt, FromRemote, Standing, Knowing, Rebasing, Building
<1>. QED
  BY <1>2, <1>4, <1>5, Moving

LEMMA SettleNext == ASSUME LogInv, NEW c \in Copies, Settle(c) PROVE LogInv'
<1>1. PICK top, tip, from, f, step, known, plan :
        /\ Has(c, top, tip, from, f, step, known, plan)
        /\ Well(top, tip, from, f, step, known, plan)
        /\ SoundAt(c, top, tip, from, f.base, step, known, plan)
  BY Values
<1>2. step = "settle" /\ UNCHANGED <<commit, remote>>
  BY <1>1 DEF Settle, Has, store
<1>3. CASE tip = None \/ f.base # tip \/ Holds(top, tip)
  <2>1. PICK next \in {"droptag", "dropbranch"} : Moves(c, top, tip, from, f, next, top, plan)
    BY <1>1, <1>3 DEF Settle, At, Has, Moves, store
  <2>2. Well(top, tip, from, f, next, top, plan)
    BY <1>1 DEF Well, Steps
  <2>3. Holds(top, f.base)
    BY <1>1, <1>3, NoneApart DEF SoundAt, Standing, Well
  <2>4. SoundAt(c, top, tip, from, f.base, next, top, plan)
    BY <1>1, <2>3 DEF SoundAt, FromRemote, Standing, Knowing, Rebasing, Building
  <2>. QED
    BY <1>2, <2>1, <2>2, <2>4, Moving
<1>4. CASE ~(tip = None \/ f.base # tip \/ Holds(top, tip))
  <2>1. PICK new : new = [NoRebase EXCEPT !.head = top]
    OBVIOUS
  <2>2. /\ IsPlan(new) /\ new.head = top /\ new.onto = Root /\ new.start = Root /\ new.then = "retag"
    <3>1. NoRebase = [head |-> Root, onto |-> Root, start |-> Root, lines |-> <<>>, data |-> Blank, then |-> "retag"]
      BY DEF NoRebase
    <3>2. new = [head |-> top, onto |-> Root, start |-> Root, lines |-> <<>>, data |-> Blank, then |-> "retag"]
      BY <2>1, <3>1
    <3>. QED
      BY <3>2, PlanMade
  <2>3. from # None /\ Foreign(c, from) \subseteq Past(tip) /\ tip = f.base
    BY <1>1, <1>4 DEF SoundAt, Standing
  <2>4. CASE top = from
    <3>1. Moves(c, top, tip, from, f, "move", top, new)
      BY <1>1, <1>4, <2>1, <2>4 DEF Settle, Build, At, Has, Moves, store
    <3>2. Well(top, tip, from, f, "move", top, new)
      BY <1>1, <2>2, Count DEF Well, Steps, LogInv
    <3>3. SoundAt(c, top, tip, from, f.base, "move", top, new)
      BY <1>1, <2>2, <2>3, <2>4, Nothing DEF SoundAt, FromRemote, Standing, Knowing, Rebasing, Building
    <3>. QED
      BY <1>2, <3>1, <3>2, <3>3, Moving
  <2>5. CASE top # from
    <3>1. Moves(c, top, tip, from, f, "closed", top, NoRebase)
      BY <1>1, <1>4, <2>5 DEF Settle, Shut, Become, At, Has, Moves, store
    <3>2. Well(top, tip, from, f, "closed", top, NoRebase)
      BY <1>1, NoPlan, Count DEF Well, Steps, LogInv
    <3>3. SoundAt(c, top, tip, from, f.base, "closed", top, NoRebase)
      BY <1>1, <2>3, NoPlan, Nothing DEF SoundAt, FromRemote, Standing, Knowing, Rebasing, Building
    <3>. QED
      BY <1>2, <3>1, <3>2, <3>3, Moving
  <2>. QED
    BY <2>4, <2>5
<1>. QED
  BY <1>3, <1>4

LEMMA CrashNext == ASSUME LogInv, NEW c \in Copies, Crash(c) PROVE LogInv'
<1>1. PICK top, tip, from, f, step, known, plan :
        /\ Has(c, top, tip, from, f, step, known, plan)
        /\ Well(top, tip, from, f, step, known, plan)
        /\ SoundAt(c, top, tip, from, f.base, step, known, plan)
  BY Values
<1>2. Moves(c, top, tip, from, f, "closed", Root, NoRebase) /\ UNCHANGED <<commit, remote>>
  BY <1>1 DEF Crash, Shut, Become, At, Has, Moves, store
<1>3. Well(top, tip, from, f, "closed", Root, NoRebase)
  BY <1>1, NoPlan, Count DEF Well, Steps, LogInv
<1>4. SoundAt(c, top, tip, from, f.base, "closed", Root, NoRebase)
  BY <1>1, NoPlan, Nothing DEF SoundAt, FromRemote, Standing, Knowing, Rebasing, Building
<1>. QED
  BY <1>2, <1>3, <1>4, Moving

LEMMA PullNext == ASSUME LogInv, NEW c \in Copies, Pull(c) PROVE LogInv'
<1>1. PICK top, tip, from, f, step, known, plan :
        /\ Has(c, top, tip, from, f, step, known, plan)
        /\ Well(top, tip, from, f, step, known, plan)
        /\ SoundAt(c, top, tip, from, f.base, step, known, plan)
  BY Values
<1>2. PICK next \in Commits :
        /\ next = remote /\ Holds(next, top)
        /\ Moves(c, next, tip, from, f, step, known, plan) /\ UNCHANGED <<commit, remote>>
  BY <1>1 DEF Pull, Has, Moves, LogInv, Refs
<1>3. Well(next, tip, from, f, step, known, plan)
  BY <1>1 DEF Well
<1>4. Past(top) \subseteq Past(next) /\ \A i : Holds(top, i) => Holds(next, i)
  BY <1>2, HoldsOn DEF LogInv
<1>5. FromRemote(c, next, tip, plan)
  BY <1>1, <1>2 DEF SoundAt, FromRemote, Foreign
<1>6. Standing(c, next, tip, from, f.base, step) /\ Knowing(c, next, f.base, step, known, plan)
  BY <1>1, <1>2, <1>4 DEF SoundAt, Standing, Knowing
<1>. QED
  BY <1>1, <1>2, <1>3, <1>5, <1>6, Moving DEF SoundAt

LEMMA PushNext == ASSUME LogInv, NEW c \in Copies, Push(c) PROVE LogInv'
<1>1. PICK next \in Commits : next = head[c] /\ Holds(next, remote) /\ remote' = next
  BY DEF Push, LogInv, Refs
<1>2. UNCHANGED <<commit, head, temp, tag, file, pc, wt, rb>>
  BY DEF Push
<1>3. Grows
  BY <1>2, SameGrows DEF LogInv
<1>4. Past(remote) \subseteq Past(next) /\ Past(next)' = Past(next)
  BY <1>1, <1>3, HoldsOn DEF LogInv, Grows
<1>5. Past(remote) \subseteq Past(remote)'
  BY <1>1, <1>4
<1>6. Commits' = Commits
  BY <1>2 DEF Commits
<1>7. Refs'
  BY <1>1, <1>2, <1>6 DEF LogInv, Refs, IsFile, IsPlan
<1>8. ASSUME NEW d \in Copies PROVE Sound(d)'
  BY <1>2, <1>3, <1>5, OneStays
<1>. QED
  BY <1>3, <1>7, <1>8 DEF LogInv, Grows

LEMMA BeginNext == ASSUME LogInv, NEW c \in Copies, Begin(c) PROVE LogInv'
<1>1. PICK top, tip, from, f, step, known, plan :
        /\ Has(c, top, tip, from, f, step, known, plan)
        /\ Well(top, tip, from, f, step, known, plan)
        /\ SoundAt(c, top, tip, from, f.base, step, known, plan)
  BY Values
<1>2. step = "idle" /\ UNCHANGED <<commit, remote, head, temp, tag, file, wt>>
  BY <1>1 DEF Begin, Has, store
<1>3. CASE UNCHANGED rb /\ \E g : Become(c, g, "flush")
  BY <1>1, <1>2, <1>3, RestsIf, Stays DEF Has, Calm, LogInv
<1>4. CASE ~(UNCHANGED rb /\ \E g : Become(c, g, "flush"))
  <2>1. PICK onto \in {remote, top} :
          pc' = [pc EXCEPT ![c] = "rebase"] /\ rb' = [rb EXCEPT ![c] = [plan EXCEPT !.onto = onto]]
    BY <1>1, <1>4 DEF Begin, Become, At, Has
  <2>2. PICK new : new = [plan EXCEPT !.onto = onto]
    OBVIOUS
  <2>3. IsPlan(new) /\ new.onto = onto /\ new.head = plan.head /\ new.start = plan.start /\ new.then = plan.then
    BY <1>1, <2>2, PlanOnto DEF Well
  <2>4. Moves(c, top, tip, from, f, "rebase", known, new)
    BY <1>1, <1>2, <2>1, <2>2 DEF Has, Moves
  <2>5. remote \in Commits /\ top \in Commits /\ Holds(remote, remote) /\ Holds(top, top)
    BY <1>1, HoldsItself DEF LogInv, Refs, Well
  <2>6. Well(top, tip, from, f, "rebase", known, new)
    BY <1>1, <2>1, <2>3, <2>5 DEF Well, Steps
  <2>7. Foreign(c, onto) \subseteq Past(remote)
    BY <1>1, <2>1 DEF SoundAt, FromRemote, Foreign
  <2>8. SoundAt(c, top, tip, from, f.base, "rebase", known, new)
    BY <1>1, <1>2, <2>1, <2>3, <2>5, <2>7 DEF SoundAt, FromRemote, Standing, Knowing, Rebasing, Building
  <2>. QED
    BY <1>2, <2>4, <2>6, <2>8, Moving
<1>. QED
  BY <1>3, <1>4

LEMMA FlushDropNext == ASSUME LogInv, NEW c \in Copies, FlushDrop(c) PROVE LogInv'
<1>1. PICK top, tip, from, f, step, known, plan :
        /\ Has(c, top, tip, from, f, step, known, plan)
        /\ Well(top, tip, from, f, step, known, plan)
        /\ SoundAt(c, top, tip, from, f.base, step, known, plan)
  BY Values
<1>2. step = "drop" /\ UNCHANGED <<commit, remote, head, temp, tag, wt>> /\ Holds(top, known)
  BY <1>1 DEF FlushDrop, Has, store, SoundAt, Knowing
<1>3. CASE UNCHANGED file /\ Throw(c)
  BY <1>1, <1>2, <1>3, RestsIf, Stays DEF Has, LogInv
<1>4. CASE ~(UNCHANGED file /\ Throw(c))
  <2>1. PICK pending :
          file' = [file EXCEPT ![c] = [f EXCEPT !.base = known, !.pending = pending]] /\ Flushed(c)
    BY <1>1, <1>4 DEF FlushDrop, Has
  <2>2. PICK g : g = [f EXCEPT !.base = known, !.pending = pending]
    OBVIOUS
  <2>3. IsFile(g) /\ g.base = known
    <3>1. PICK b, a, d, p : f = [base |-> b, ahead |-> a, data |-> d, pending |-> p]
      BY <1>1, FileParts DEF Well
    <3>2. g = [base |-> known, ahead |-> a, data |-> d, pending |-> pending]
      BY <2>2, <3>1, Zenon
    <3>. QED
      BY <3>2, FileMade
  <2>4. Rests(c)
    BY <2>1, RestsIf DEF LogInv
  <2>5. wt' = [wt EXCEPT ![c] = known] /\ known \in Commits
    BY <1>1, <1>2 DEF Has, Well
  <2>6. file' = [file EXCEPT ![c] = g]
    BY <2>1, <2>2
  <2>7. Holds(head[c], g.base)
    BY <1>1, <1>2, <2>3 DEF Has
  <2>. QED
    BY <1>2, <2>3, <2>4, <2>5, <2>6, <2>7, Quietly
<1>. QED
  BY <1>3, <1>4

(* Recognising its own flush takes a file on along the line. *)
LEMMA OwnFlushOn ==
    ASSUME Lines, NEW top \in Commits, NEW f, IsFile(f), Holds(top, f.base)
    PROVE  IsFile(DropOwnFlush(f, top)) /\ Holds(top, DropOwnFlush(f, top).base)
<1>1. CASE ~OwnFlush(f, top)
  BY <1>1 DEF DropOwnFlush
<1>2. CASE OwnFlush(f, top)
  <2>1. PICK k : k = After(top, f.base)[1]
    OBVIOUS
  <2>2. k \in Past(top)
    <3>1. /\ After(top, f.base) \in Seq(Nat) /\ After(top, f.base) # <<>>
          /\ Range(After(top, f.base)) \subseteq Past(top)
      BY <1>2, AfterLine DEF OwnFlush
    <3>2. PICK after \in Seq(Nat) : after = After(top, f.base)
      BY <3>1
    <3>3. 1 \in DOMAIN after
      BY <3>1, <3>2, EmptySeq, LenProperties
    <3>. QED
      BY <2>1, <3>1, <3>2, <3>3 DEF Range
  <2>3. PICK pending : DropOwnFlush(f, top) = [f EXCEPT !.base = k, !.pending = pending]
    BY <1>2, <2>1 DEF DropOwnFlush
  <2>4. PICK g : g = [f EXCEPT !.base = k, !.pending = pending]
    OBVIOUS
  <2>5. IsFile(g) /\ g.base = k
    <3>1. PICK b, a, d, p : f = [base |-> b, ahead |-> a, data |-> d, pending |-> p]
      BY FileParts
    <3>2. g = [base |-> k, ahead |-> a, data |-> d, pending |-> pending]
      BY <2>4, <3>1, Zenon
    <3>. QED
      BY <3>2, FileMade
  <2>. QED
    BY <2>2, <2>3, <2>4, <2>5 DEF Holds, Past
<1>. QED
  BY <1>1, <1>2

LEMMA CatchUpNext == ASSUME LogInv, NEW c \in Copies, CatchUp(c) PROVE LogInv'
<1>1. PICK top, tip, from, f, step, known, plan :
        /\ Has(c, top, tip, from, f, step, known, plan)
        /\ Well(top, tip, from, f, step, known, plan)
        /\ SoundAt(c, top, tip, from, f.base, step, known, plan)
  BY Values
<1>2. step = "catchup" /\ UNCHANGED <<commit, remote, head, temp, tag>> /\ wt' = [wt EXCEPT ![c] = top]
  BY <1>1 DEF CatchUp, Has, store
<1>3. Holds(top, f.base) /\ top \in Commits
  BY <1>1, <1>2 DEF SoundAt, Standing, Well
<1>4. PICK g : g = DropOwnFlush(f, top)
  OBVIOUS
<1>5. IsFile(g) /\ Holds(top, g.base) /\ g.base \in Commits
  BY <1>1, <1>3, <1>4, OwnFlushOn, HoldsOn DEF Well, LogInv
<1>6. file' = [file EXCEPT ![c] = g]
  BY <1>1, <1>3, <1>4 DEF CatchUp, Has
<1>7. CASE Level(c)
  <2>1. Holds(head[c], g.base) /\ Rests(c)
    BY <1>1, <1>5, <1>7, RestsIf DEF Has, LogInv
  <2>. QED
    BY <1>2, <1>3, <1>5, <1>6, <2>1, Quietly
<1>8. CASE At(c, "replay") /\ UNCHANGED rb
  <2>1. Moves(c, top, tip, from, g, "replay", top, plan)
    BY <1>1, <1>2, <1>6, <1>8 DEF At, Has, Moves
  <2>2. Well(top, tip, from, g, "replay", top, plan)
    BY <1>1, <1>5 DEF Well, Steps
  <2>3. Holds(top, top)
    BY <1>3, HoldsItself DEF LogInv
  <2>4. SoundAt(c, top, tip, from, g.base, "replay", top, plan)
    BY <1>1, <1>5, <2>3 DEF SoundAt, FromRemote, Standing, Knowing, Rebasing, Building
  <2>. QED
    BY <1>2, <2>1, <2>2, <2>4, Moving
<1>9. CASE At(c, "rebase") /\ rb' = [rb EXCEPT ![c] = [plan EXCEPT !.onto = top]]
  <2>1. PICK new : new = [plan EXCEPT !.onto = top]
    OBVIOUS
  <2>2. IsPlan(new) /\ new.onto = top /\ new.head = plan.head /\ new.start = plan.start /\ new.then = plan.then
    BY <1>1, <2>1, PlanOnto DEF Well
  <2>3. Moves(c, top, tip, from, g, "rebase", top, new)
    BY <1>1, <1>2, <1>6, <1>9, <2>1 DEF At, Has, Moves
  <2>4. Well(top, tip, from, g, "rebase", top, new)
    BY <1>1, <1>5, <2>2 DEF Well, Steps
  <2>5. Holds(top, top)
    BY <1>3, HoldsItself DEF LogInv
  <2>6. SoundAt(c, top, tip, from, g.base, "rebase", top, new)
    BY <1>1, <1>5, <2>2, <2>5 DEF SoundAt, FromRemote, Standing, Knowing, Rebasing, Building
  <2>. QED
    BY <1>2, <2>3, <2>4, <2>6, Moving
<1>. QED
  BY <1>1, <1>3, <1>4, <1>7, <1>8, <1>9 DEF CatchUp, Has

LEMMA ReachedThere ==
    ASSUME Lines, NEW known \in Commits, NEW base \in Commits, Holds(known, base), NEW n
    PROVE  Holds(known, Reached(base, known, n)) /\ Reached(base, known, n) \in Commits
<1>1. PICK done : done = {k \in Range(After(known, base)) : Len(TxsAfter(k, base)) <= n}
  OBVIOUS
<1>2. done \subseteq Past(known)
  BY <1>1, AfterLine
<1>3. PICK m \in Nat : base \in 0 .. m /\ Past(known) \subseteq 0 .. m
  <2>1. Len(commit) \in Nat /\ known \in 0 .. Len(commit) /\ base \in 0 .. Len(commit)
    BY Count DEF Commits
  <2>2. Past(known) \subseteq 0 .. Len(commit)
    BY <2>1, RootLine DEF Lines, Root
  <2>. QED
    BY <2>1, <2>2
<1>4. PICK S : S = {base} \cup done
  OBVIOUS
<1>5. S \in SUBSET (0 .. m) /\ S # {}
  BY <1>2, <1>3, <1>4
<1>6. Max(S) \in S
  BY <1>5, MaxOf
<1>7. Reached(base, known, n) = Max(S)
  BY <1>1, <1>4 DEF Reached
<1>8. Holds(known, Reached(base, known, n))
  BY <1>2, <1>4, <1>6, <1>7 DEF Holds, Past
<1>. QED
  BY <1>8, HoldsOn

LEMMA ReplayNext == ASSUME LogInv, NEW c \in Copies, Replay(c) PROVE LogInv'
<1>1. PICK top, tip, from, f, step, known, plan :
        /\ Has(c, top, tip, from, f, step, known, plan)
        /\ Well(top, tip, from, f, step, known, plan)
        /\ SoundAt(c, top, tip, from, f.base, step, known, plan)
  BY Values
<1>2. /\ step = "replay" /\ UNCHANGED <<commit, remote, head, temp, tag, wt>>
      /\ Holds(top, known) /\ Holds(known, f.base) /\ known \in Commits
  BY <1>1 DEF Replay, Has, store, SoundAt, Knowing, Well
<1>3. PICK txs, n :
        /\ file' = [file EXCEPT ![c] = Advanced(f, txs, Reached(f.base, known, n), n)]
        /\ Level(c) \/ UNCHANGED <<pc, rb>>
  <2>1. PICK n : /\ file' = [file EXCEPT ![c] = Advanced(file[c], TxsAfter(wt[c], file[c].base),
                                                        Reached(file[c].base, wt[c], n), n)]
                 /\ Level(c) \/ UNCHANGED <<pc, rb>>
    BY DEF Replay
  <2>. QED
    BY <1>1, <2>1 DEF Has
<1>4. PICK base : base = Reached(f.base, known, n)
  OBVIOUS
<1>6. Holds(known, base)
  BY <1>1, <1>2, <1>4, ReachedThere DEF Well, LogInv
<1>7. Holds(top, base) /\ base \in Commits
  BY <1>1, <1>2, <1>6, HoldsOn DEF Well, LogInv
<1>8. PICK g : g = Advanced(f, txs, base, n)
  OBVIOUS
<1>9. IsFile(g) /\ g.base = base
  <2>1. PICK b, a, d, p : f = [base |-> b, ahead |-> a, data |-> d, pending |-> p]
    BY <1>1, FileParts DEF Well
  <2>2. PICK data, ahead : /\ data = DoAll(f.data, SubSeq(txs, f.ahead + 1, n))
                           /\ ahead = n - Len(TxsAfter(base, f.base))
    OBVIOUS
  <2>3. g = [f EXCEPT !.data = data, !.base = base, !.ahead = ahead]
    BY <1>8, <2>2, Zenon DEF Advanced
  <2>4. g = [base |-> base, ahead |-> ahead, data |-> data, pending |-> p]
    BY <2>1, <2>3, Zenon
  <2>. QED
    BY <2>4, FileMade
<1>10. file' = [file EXCEPT ![c] = g]
  BY <1>3, <1>4, <1>8
<1>11. CASE Level(c)
  <2>1. Holds(head[c], g.base) /\ Rests(c) /\ wt' = [wt EXCEPT ![c] = known]
    BY <1>1, <1>2, <1>7, <1>9, <1>11, RestsIf DEF Has, LogInv
  <2>. QED
    BY <1>2, <1>9, <1>10, <2>1, Quietly
<1>12. CASE UNCHANGED <<pc, rb>>
  <2>1. Moves(c, top, tip, from, g, "replay", known, plan)
    BY <1>1, <1>2, <1>10, <1>12 DEF Has, Moves
  <2>2. Well(top, tip, from, g, "replay", known, plan)
    BY <1>1, <1>7, <1>9 DEF Well, Steps
  <2>3. SoundAt(c, top, tip, from, g.base, "replay", known, plan)
    BY <1>1, <1>2, <1>6, <1>7, <1>9 DEF SoundAt, FromRemote, Standing, Knowing, Rebasing, Building
  <2>. QED
    BY <1>2, <2>1, <2>2, <2>3, Moving
<1>. QED
  BY <1>3, <1>11, <1>12

(* A step of one copy that makes a commit. *)
LEMMA Made ==
    ASSUME LogInv, NEW c \in Copies, NEW p \in Commits, NEW entry,
           commit' = Append(commit, NewCommit(p, entry, c)), UNCHANGED remote
    PROVE  \E n : /\ n = Len(commit') /\ n # None
                  /\ n \in Commits' /\ Commits \subseteq Commits' /\ Grows
                  /\ Past(p) \subseteq Past(n)' /\ Foreign(c, n)' = Foreign(c, p)
                  /\ \A j : Holds(p, j) => Holds(n, j)'
                  /\ Holds(n, n)'
                  /\ Past(remote)' = Past(remote) /\ remote \in Commits
<1>1. Lines
  BY DEF LogInv
<1>2. PICK m \in Nat : m = Len(commit)
  BY <1>1, Count
<1>3. /\ Lines' /\ Len(commit') = m + 1 /\ \A k \in Commits : Line(k)' = Line(k)
      /\ \A k \in 1 .. m : commit'[k] = commit[k]
      /\ \A k : k = Len(commit') => Past(k)' = Past(p) \cup {k}
      /\ commit'[m + 1].by = c
  BY <1>1, <1>2, OneMore
<1>4. PICK n \in Nat : n = m + 1
  BY <1>2
<1>5. Commits = 0 .. m /\ Commits' = 0 .. n
  BY <1>2, <1>3, <1>4 DEF Commits
<1>6. n \in Commits' /\ Commits \subseteq Commits' /\ n # None
  BY <1>2, <1>4, <1>5, LogAssumption
<1>7. \A k \in Commits : Past(k)' = Past(k)
  BY <1>3 DEF Past
<1>8. Grows
  BY <1>1, <1>2, <1>3, <1>6, <1>7 DEF Grows
<1>9. Past(n)' = Past(p) \cup {n}
  BY <1>3, <1>4
<1>10. Past(p) \subseteq 1 .. m
  BY <1>1, <1>2, <1>5, RootLine DEF Lines, Root
<1>11. Foreign(c, n)' = Foreign(c, p)
  BY <1>3, <1>4, <1>9, <1>10 DEF Foreign
<1>12. (\A j : Holds(p, j) => Holds(n, j)') /\ Holds(n, n)'
  BY <1>9 DEF Holds, Past
<1>13. remote \in Commits /\ Past(remote)' = Past(remote)
  <2>1. remote \in Commits
    BY DEF LogInv, Refs
  <2>2. PICK r \in Commits : r = remote /\ r = remote'
    BY <2>1
  <2>. QED
    BY <1>7, <2>1, <2>2 DEF Past, Line
<1>. QED
  BY <1>3, <1>4, <1>6, <1>8, <1>9, <1>11, <1>12, <1>13

LEMMA Making ==
    ASSUME LogInv, NEW c \in Copies, UNCHANGED remote, Grows,
           Past(remote)' = Past(remote), Commits \subseteq Commits',
           NEW top, NEW tip, NEW from, NEW f, NEW step, NEW known, NEW plan,
           Moves(c, top, tip, from, f, step, known, plan),
           Well(top, tip, from, f, step, known, plan)',
           SoundAt(c, top, tip, from, f.base, step, known, plan)'
    PROVE  LogInv'
<1> USE DEF Moves, Well
<1>1. Refs'
  <2>1. remote' \in Commits' /\ head' \in [Copies -> Commits'] /\ wt' \in [Copies -> Commits']
        /\ temp' \in [Copies -> Commits' \cup {None}] /\ tag' \in [Copies -> Commits' \cup {None}]
        /\ pc' \in [Copies -> Steps]
    <3>1. top \in Commits' /\ tip \in Commits' \cup {None} /\ from \in Commits' \cup {None}
          /\ known \in Commits' /\ step \in Steps
      BY DEF Steps
    <3>. QED
      BY <3>1 DEF LogInv, Refs
  <2>2. file' = [d \in Copies |-> file'[d]] /\ \A d \in Copies : IsFile(file'[d]) /\ file'[d].base \in Commits'
    <3>1. IsFile(f) /\ f.base \in Commits'
      BY DEF IsFile
    <3>. QED
      BY <3>1 DEF LogInv, Refs
  <2>3. rb' = [d \in Copies |-> rb'[d]]
        /\ \A d \in Copies :
             /\ IsPlan(rb'[d]) /\ rb'[d].then \in {"retag", "save"}
             /\ rb'[d].head \in Commits' /\ rb'[d].onto \in Commits' /\ rb'[d].start \in Commits'
    <3>1. /\ IsPlan(plan) /\ plan.then \in {"retag", "save"}
          /\ plan.head \in Commits' /\ plan.onto \in Commits' /\ plan.start \in Commits'
      BY DEF IsPlan
    <3>. QED
      BY <3>1 DEF LogInv, Refs
  <2>. QED
    BY <2>1, <2>2, <2>3 DEF Refs, IsFile, IsPlan
<1>2. Apart(c)
  BY DEF LogInv, Refs, Apart
<1>3. /\ head'[c] = top /\ temp'[c] = tip /\ tag'[c] = from /\ file'[c] = f
      /\ pc'[c] = step /\ wt'[c] = known /\ rb'[c] = plan
  BY DEF LogInv, Refs
<1>4. Sound(c)'
  BY <1>3 DEF Sound
<1>. QED
  BY <1>1, <1>2, <1>4, OneCopy

LEMMA WellOn ==
    ASSUME Commits \subseteq Commits', NEW top, NEW tip, NEW from, NEW f, NEW step, NEW known, NEW plan,
           Well(top, tip, from, f, step, known, plan)
    PROVE  Well(top, tip, from, f, step, known, plan)'
BY DEF Well, IsFile, IsPlan, Steps

LEMMA FlushCommitNext == ASSUME LogInv, NEW c \in Copies, FlushCommit(c) PROVE LogInv'
<1>1. PICK top, tip, from, f, step, known, plan :
        /\ Has(c, top, tip, from, f, step, known, plan)
        /\ Well(top, tip, from, f, step, known, plan)
        /\ SoundAt(c, top, tip, from, f.base, step, known, plan)
  BY Values
<1>2. step = "commit" /\ UNCHANGED <<remote, temp, tag, file>>
  BY <1>1 DEF FlushCommit, Has
<1>3. CASE Landing(c)
  <2>1. PICK entry : commit' = Append(commit, NewCommit(known, entry, c))
    BY <1>1, <1>3 DEF Landing, Has
  <2>2. PICK n :
          /\ n = Len(commit') /\ n \in Commits' /\ Commits \subseteq Commits' /\ Grows
          /\ Foreign(c, n)' = Foreign(c, known)
          /\ \A j : Holds(known, j) => Holds(n, j)'
          /\ Holds(n, n)'
          /\ Past(remote)' = Past(remote) /\ remote \in Commits
    BY <1>1, <1>2, <2>1, Made DEF Well
  <2>3. top = known /\ head' = [head EXCEPT ![c] = n]
    BY <1>1, <1>3, <2>2 DEF Landing, Has
  <2>4. SoundAt(c, top, tip, from, f.base, step, known, plan)'
    BY <1>1, <2>2, SoundStays DEF Well
  <2>5. Well(top, tip, from, f, step, known, plan)'
    BY <1>1, <2>2, WellOn
  <2>6. Holds(top, f.base) /\ Foreign(c, top)' \subseteq Past(remote)'
    BY <1>1, <1>2, <2>4 DEF SoundAt, Standing, FromRemote
  <2>7. Foreign(c, n)' \subseteq Past(remote)' /\ Holds(n, f.base)'
    BY <1>1, <2>2, <2>3, <2>6 DEF SoundAt, FromRemote
  <2>8. CASE wt' = [wt EXCEPT ![c] = head'[c]] /\ At(c, "drop") /\ UNCHANGED <<goal, rb>>
    <3>1. head'[c] = n
      BY <2>3 DEF LogInv, Refs
    <3>2. Moves(c, n, tip, from, f, "drop", n, plan)
      BY <1>1, <1>2, <2>3, <2>8, <3>1 DEF At, Has, Moves
    <3>3. Well(n, tip, from, f, "drop", n, plan)'
      BY <2>2, <2>5 DEF Well, Steps
    <3>4. SoundAt(c, n, tip, from, f.base, "drop", n, plan)'
      BY <2>2, <2>4, <2>7 DEF SoundAt, FromRemote, Standing, Knowing, Rebasing, Building
    <3>. QED
      BY <1>2, <2>2, <3>2, <3>3, <3>4, Making
  <2>9. CASE UNCHANGED wt /\ Throw(c)
    <3>1. PICK next \in Calm, new \in {plan, NoRebase} :
            pc' = [pc EXCEPT ![c] = next] /\ rb' = [rb EXCEPT ![c] = new]
      BY <1>1, <2>9, RestsIf DEF Rests, Has, LogInv
    <3>2. Moves(c, n, tip, from, f, next, known, new)
      BY <1>1, <1>2, <2>3, <2>9, <3>1 DEF Has, Moves
    <3>3. /\ IsPlan(new) /\ new.then \in {"retag", "save"} /\ next \in Steps
          /\ new.head \in Commits /\ new.onto \in Commits /\ new.start \in Commits
      BY <1>1, <3>1, NoPlan, Count DEF Well, LogInv, Calm, Steps
    <3>4. Well(n, tip, from, f, next, known, new)'
      <4>1. Well(top, tip, from, f, next, known, new)
        BY <1>1, <3>3 DEF Well
      <4>2. Well(top, tip, from, f, next, known, new)'
        BY <2>2, <4>1, WellOn
      <4>. QED
        BY <2>2, <4>2 DEF Well
    <3>5. Foreign(c, Root)' = {}
      BY <2>2, GrowsKeeps, Nothing, Count DEF LogInv
    <3>6. FromRemote(c, n, tip, new)'
      BY <2>4, <2>7, <3>1, <3>5, NoPlan DEF SoundAt, FromRemote
    <3>7. SoundAt(c, n, tip, from, f.base, next, known, new)'
      BY <2>7, <3>1, <3>6 DEF SoundAt, Standing, Knowing, Rebasing, Building, Calm
    <3>. QED
      BY <1>2, <2>2, <3>2, <3>4, <3>7, Making
  <2>. QED
    BY <1>1, <1>3, <2>3, <2>8, <2>9 DEF FlushCommit, Landing, Has
<1>4. CASE ~Landing(c)
  <2>1. UNCHANGED <<commit, head, wt>> /\ Rests(c)
    <3>1. /\ UNCHANGED <<commit, head, wt>>
          /\ Throw(c) \/ (UNCHANGED rb /\ \E g : Become(c, g, "catchup"))
      BY <1>4 DEF FlushCommit
    <3>. QED
      BY <3>1, RestsIf DEF Calm, LogInv
  <2>. QED
    BY <1>1, <1>2, <2>1, Stays DEF Has
<1>. QED
  BY <1>3, <1>4

LEMMA RebaseLineNext == ASSUME LogInv, NEW c \in Copies, RebaseLine(c) PROVE LogInv'
<1>1. PICK top, tip, from, f, step, known, plan :
        /\ Has(c, top, tip, from, f, step, known, plan)
        /\ Well(top, tip, from, f, step, known, plan)
        /\ SoundAt(c, top, tip, from, f.base, step, known, plan)
  BY Values
<1>2. step = "line" /\ UNCHANGED <<remote, head, tag, file, wt>> /\ tip # None /\ tip \in Commits
  BY <1>1 DEF RebaseLine, Has, SoundAt, Rebasing, Well
<1>3. PICK entry : commit' = Append(commit, NewCommit(tip, entry, c))
  BY <1>1 DEF RebaseLine, Has
<1>4. PICK n :
        /\ n = Len(commit') /\ n # None /\ n \in Commits' /\ Commits \subseteq Commits' /\ Grows
        /\ Foreign(c, n)' = Foreign(c, tip)
        /\ \A j : Holds(tip, j) => Holds(n, j)'
        /\ Holds(n, n)'
        /\ Past(remote)' = Past(remote) /\ remote \in Commits
  BY <1>2, <1>3, Made
<1>5. temp' = [temp EXCEPT ![c] = n]
  BY <1>4 DEF RebaseLine
<1>6. PICK lines : rb' = [rb EXCEPT ![c] = [plan EXCEPT !.lines = lines]]
  BY <1>1 DEF RebaseLine, Has
<1>7. PICK new : new = [plan EXCEPT !.lines = lines]
  OBVIOUS
<1>8. /\ IsPlan(new) /\ new.head = plan.head /\ new.onto = plan.onto
      /\ new.start = plan.start /\ new.then = plan.then
  BY <1>1, <1>7 DEF Well, IsPlan
<1>9. PICK next \in {plan.then, "line"} : pc' = [pc EXCEPT ![c] = next]
  BY <1>1 DEF RebaseLine, At, Has
<1>10. Moves(c, top, n, from, f, next, known, new)
  BY <1>1, <1>2, <1>5, <1>6, <1>7, <1>9 DEF Has, Moves
<1>11. Well(top, tip, from, f, step, known, plan)'
  BY <1>1, <1>4, WellOn
<1>12. Well(top, n, from, f, next, known, new)'
  BY <1>4, <1>8, <1>9, <1>11 DEF Well, Steps
<1>13. SoundAt(c, top, tip, from, f.base, step, known, plan)'
  BY <1>1, <1>4, SoundStays DEF Well
<1>14. Foreign(c, tip)' = Foreign(c, tip) /\ \A j : Holds(tip, j)' = Holds(tip, j)
  BY <1>2, <1>4, GrowsKeeps
<1>15. FromRemote(c, top, n, new)'
  BY <1>2, <1>4, <1>8, <1>13, <1>14 DEF SoundAt, FromRemote
<1>16. Standing(c, top, n, from, f.base, next)' /\ Knowing(c, top, f.base, next, known, new)'
  BY <1>1, <1>2, <1>9, <1>13 DEF SoundAt, Standing, Knowing, Well
<1>17. Rebasing(c, n, from, f.base, next, new)'
  BY <1>1, <1>2, <1>4, <1>8, <1>9, <1>13, <1>14 DEF SoundAt, Rebasing, Building, Well
<1>. QED
  BY <1>2, <1>4, <1>10, <1>12, <1>15, <1>16, <1>17, Making DEF SoundAt

(* Nothing of a copy's own after the log: its place is in the log. *)
LEMMA NothingOwn ==
    ASSUME NEW after, after \in Seq(Nat), NEW pending, NEW own, NEW lines,
           DOMAIN own = DOMAIN after, own \in Seq({own[i] : i \in DOMAIN own}),
           lines = own \o IF pending = <<>> THEN <<>> ELSE <<pending>>,
           lines = <<>>
    PROVE  after = <<>>
<1>1. PICK S : S = {own[i] : i \in DOMAIN own} \cup {pending}
  OBVIOUS
<1>2. own \in Seq(S)
  BY <1>1, SeqMonotonic
<1>3. PICK tail \in Seq(S) : tail = IF pending = <<>> THEN <<>> ELSE <<pending>>
  BY <1>1
<1>4. Len(own \o tail) = Len(own) + Len(tail) /\ Len(own) \in Nat /\ Len(tail) \in Nat
  BY <1>2, <1>3, ConcatProperties, LenProperties
<1>5. own \o tail = <<>>
  BY <1>3
<1>6. Len(own) = 0
  BY <1>4, <1>5
<1>7. DOMAIN own = 1 .. 0
  BY <1>2, <1>6, LenProperties
<1>8. Len(after) = 0
  <2>1. Len(after) \in Nat /\ DOMAIN after = 1 .. Len(after)
    BY LenProperties
  <2>2. PICK n \in Nat : n = Len(after)
    BY <2>1
  <2>3. 1 .. n = 1 .. 0
    BY <1>7, <2>1, <2>2
  <2>4. n \notin 1 .. 0
    OBVIOUS
  <2>. QED
    BY <2>2, <2>3, <2>4
<1>. QED
  BY <1>8, EmptySeq

(* What a rebase that goes on leads to. *)
LEMMA Leads ==
    ASSUME NEW c, NEW g, NEW target, RebaseOn(c, g, target),
           NEW top, top = head[c], NEW parted, parted = MergeBase(g.base, target),
           Lines, g.base \in Commits, Holds(g.base, parted)
    PROVE  \/ Throw(c) \/ Level(c) \/ (At(c, "catchup") /\ UNCHANGED rb)
           \/ /\ After(target, parted) # <<>> /\ (top = g.base \/ Holds(target, top))
              /\ \E ls, rows :
                   \/ /\ After(g.base, parted) = <<>>
                      /\ Build(c, Plan(top, target, target, ls, rows, "retag"), "forward")
                   \/ \E next \in {"branch", "keep"} :
                        Build(c, Plan(top, target, target, ls, rows, "retag"), next)
                   \/ \E next \in {"branch", "save"} :
                        Build(c, Plan(top, target, g.base, ls, rows, "save"), next)
<1> DEFINE own == [i \in DOMAIN After(g.base, parted) |-> Entry(After(g.base, parted)[i])]
           lines == own \o IF g.pending = <<>> THEN <<>> ELSE <<g.pending>>
           mine == FlattenSeq(lines)
           data == DataAt(target)
           theirs == TxsAfter(target, parted)
<1>1. \/ top # g.base /\ ~Holds(target, top) /\ Throw(c)
      \/ /\ top = g.base \/ Holds(target, top)
         /\ \/ After(target, parted) = <<>> /\ Level(c)
            \/ /\ After(target, parted) # <<>> /\ lines = <<>>
               /\ IF top = target THEN At(c, "catchup") /\ UNCHANGED <<goal, rb>>
                  ELSE Build(c, Plan(top, target, target, <<>>, data, "retag"), "forward")
            \/ /\ After(target, parted) # <<>> /\ lines # <<>>
               /\ \/ /\ goal[c].keep = "none"
                     /\ IF Follows(data, mine)
                        THEN Build(c, Plan(top, target, target, lines, DoAll(data, mine), "retag"), "branch")
                        ELSE Throw(c)
                  \/ /\ goal[c].keep = "theirs"
                     /\ Build(c, Plan(top, target, g.base, <<g.pending>>, data, "save"),
                              IF g.pending = <<>> THEN "save" ELSE "branch")
                  \/ /\ goal[c].keep = "mine"
                     /\ IF HasSchemaChange(theirs) THEN Throw(c)
                        ELSE Build(c, Plan(top, target, target,
                                           Undoing(theirs, data[Schema]) \o lines, g.data, "retag"),
                                   "keep")
  BY DEF RebaseOn
<1>2. own = [i \in DOMAIN After(g.base, parted) |-> Entry(After(g.base, parted)[i])]
      /\ lines = own \o IF g.pending = <<>> THEN <<>> ELSE <<g.pending>>
  OBVIOUS
<1> HIDE DEF own, lines, mine, data, theirs
<1>3. ASSUME lines = <<>> PROVE After(g.base, parted) = <<>>
  <2>1. PICK after \in Seq(Nat) : after = After(g.base, parted)
    BY AfterLine
  <2>2. PICK n \in Nat : n = Len(after) /\ DOMAIN after = 1 .. n
    BY LenProperties
  <2>3. PICK mapped : mapped = [i \in 1 .. n |-> Entry(after[i])]
    OBVIOUS
  <2>4. own = mapped
    BY <1>2, <2>1, <2>2, <2>3, Zenon
  <2>5. DOMAIN mapped = 1 .. n
    BY <2>3
  <2>6. mapped \in Seq({mapped[i] : i \in DOMAIN mapped})
    BY <2>2, <2>3, <2>5
  <2>7. lines = mapped \o IF g.pending = <<>> THEN <<>> ELSE <<g.pending>>
    BY <1>2, <2>4
  <2>. QED
    BY <1>3, <2>1, <2>2, <2>5, <2>6, <2>7, NothingOwn
<1>4. ASSUME After(target, parted) # <<>>, top = g.base \/ Holds(target, top)
      PROVE  \/ Throw(c) \/ (At(c, "catchup") /\ UNCHANGED rb)
             \/ lines = <<>> /\ Build(c, Plan(top, target, target, <<>>, data, "retag"), "forward")
             \/ Build(c, Plan(top, target, target, lines, DoAll(data, mine), "retag"), "branch")
             \/ Build(c, Plan(top, target, g.base, <<g.pending>>, data, "save"), "branch")
             \/ Build(c, Plan(top, target, g.base, <<g.pending>>, data, "save"), "save")
             \/ Build(c, Plan(top, target, target, Undoing(theirs, data[Schema]) \o lines, g.data, "retag"),
                      "keep")
  <2>1. g.pending = <<>> \/ g.pending # <<>>
    OBVIOUS
  <2>. QED
    BY <1>1, <1>4, <2>1, ZenonT(30)
<1>5. \/ Throw(c) \/ Level(c)
      \/ After(target, parted) # <<>> /\ (top = g.base \/ Holds(target, top))
  BY <1>1
<1>. QED
  BY <1>3, <1>4, <1>5

LEMMA RebaseStartNext == ASSUME LogInv, NEW c \in Copies, RebaseStart(c) PROVE LogInv'
<1>1. PICK top, tip, from, f, step, known, plan :
        /\ Has(c, top, tip, from, f, step, known, plan)
        /\ Well(top, tip, from, f, step, known, plan)
        /\ SoundAt(c, top, tip, from, f.base, step, known, plan)
  BY Values
<1>2. step = "rebase" /\ UNCHANGED <<commit, remote, head, temp, tag>> /\ wt' = [wt EXCEPT ![c] = top]
  BY <1>1 DEF RebaseStart, Has, store
<1>3. Holds(top, f.base) /\ top \in Commits
  BY <1>1, <1>2 DEF SoundAt, Standing, Well
<1>4. PICK g : g = DropOwnFlush(f, top)
  OBVIOUS
<1>5. IsFile(g) /\ Holds(top, g.base) /\ g.base \in Commits /\ Past(g.base) \subseteq Past(top)
  BY <1>1, <1>3, <1>4, OwnFlushOn, HoldsOn DEF Well, LogInv
<1>6. PICK target : target = plan.onto /\ target \in Commits
  BY <1>1 DEF Well
<1>7. file' = [file EXCEPT ![c] = g] /\ RebaseOn(c, g, target)
  BY <1>1, <1>3, <1>4, <1>6 DEF RebaseStart, Has
<1>8. PICK parted : parted = MergeBase(g.base, target)
  OBVIOUS
<1>9. Holds(g.base, parted) /\ Holds(target, parted) /\ (Holds(g.base, target) => parted = target)
  BY <1>5, <1>6, <1>8, Parting DEF LogInv
<1>10. CASE \/ Throw(c) \/ Level(c) \/ (At(c, "catchup") /\ UNCHANGED rb)
  <2>1. Rests(c) /\ Holds(head[c], g.base)
    BY <1>1, <1>5, <1>10, RestsIf DEF Has, Calm, LogInv
  <2>. QED
    BY <1>2, <1>3, <1>5, <1>7, <2>1, Quietly
<1>11. CASE ~(\/ Throw(c) \/ Level(c) \/ (At(c, "catchup") /\ UNCHANGED rb))
  <2>1. PICK ls, rows :
          /\ After(target, parted) # <<>> /\ (top = g.base \/ Holds(target, top))
          /\ \/ /\ After(g.base, parted) = <<>>
                /\ Build(c, Plan(top, target, target, ls, rows, "retag"), "forward")
             \/ \E next \in {"branch", "keep"} :
                  Build(c, Plan(top, target, target, ls, rows, "retag"), next)
             \/ \E next \in {"branch", "save"} :
                  Build(c, Plan(top, target, g.base, ls, rows, "save"), next)
    BY <1>1, <1>5, <1>7, <1>8, <1>9, <1>11, Leads DEF Has, LogInv
  <2>2. PICK next, start, then :
          /\ Build(c, Plan(top, target, start, ls, rows, then), next)
          /\ next \in {"forward", "branch", "keep", "save"} /\ then \in {"retag", "save"}
          /\ start \in {target, g.base} /\ (then = "retag" => start = target)
          /\ next = "forward" => After(g.base, parted) = <<>>
    BY <2>1
  <2>3. PICK new : new = Plan(top, target, start, ls, rows, then)
    OBVIOUS
  <2>4. /\ IsPlan(new) /\ new.head = top /\ new.onto = target /\ new.start = start /\ new.then = then
    BY <2>3, PlanMade DEF Plan
  <2>5. Moves(c, top, tip, from, g, next, top, new)
    BY <1>1, <1>2, <1>7, <2>2, <2>3 DEF Build, At, Has, Moves
  <2>6. Well(top, tip, from, g, next, top, new)
    BY <1>1, <1>3, <1>5, <1>6, <2>2, <2>4 DEF Well, Steps
  <2>7. Foreign(c, g.base) \subseteq Past(remote)
    BY <1>1, <1>5 DEF SoundAt, FromRemote, Foreign
  <2>8. FromRemote(c, top, tip, new)
    BY <1>1, <1>6, <2>2, <2>4, <2>7 DEF SoundAt, FromRemote
  <2>9. Foreign(c, top) \subseteq Past(target)
    <3>1. CASE Holds(target, top)
      BY <1>6, <3>1, HoldsOn DEF LogInv, Foreign
    <3>2. CASE ~Holds(target, top)
      <4>1. top = g.base
        BY <2>1, <3>2
      <4>2. ~Holds(top, target)
        <5>1. ASSUME Holds(top, target) PROVE After(target, parted) = <<>>
          BY <1>6, <1>9, <4>1, <5>1, AfterLine DEF LogInv
        <5>. QED
          BY <2>1, <5>1
      <4>. QED
        BY <1>1, <1>2, <1>6, <4>2 DEF SoundAt, Knowing
    <3>. QED
      BY <3>1, <3>2
  <2>10. ASSUME next = "forward" PROVE Holds(target, top)
    <3>1. g.base = parted
      BY <1>5, <1>9, <2>2, <2>10, AfterLine DEF LogInv
    <3>. QED
      BY <1>9, <2>1, <3>1
  <2>11. SoundAt(c, top, tip, from, g.base, next, top, new)
    BY <1>5, <2>2, <2>4, <2>8, <2>9, <2>10 DEF SoundAt, Standing, Knowing, Rebasing, Building
  <2>. QED
    BY <1>2, <2>5, <2>6, <2>11, Moving
<1>. QED
  BY <1>10, <1>11

-----------------------------------------------------------------------------
(* Every step *)

LEMMA LogInit == Init => LogInv
<1> SUFFICES ASSUME Init PROVE LogInv
  OBVIOUS
<1>1. commit = <<>> /\ Len(commit) = 0
  BY DEF Init
<1>2. Lines
  BY <1>1 DEF Lines
<1>3. Root \in Commits
  BY <1>2, Count
<1>4. Refs
  <2>1. remote \in Commits /\ head \in [Copies -> Commits] /\ wt \in [Copies -> Commits]
        /\ temp \in [Copies -> Commits \cup {None}] /\ tag \in [Copies -> Commits \cup {None}]
        /\ pc \in [Copies -> Steps]
    BY <1>3 DEF Init, Steps
  <2>2. file = [c \in Copies |-> file[c]] /\ \A c \in Copies : IsFile(file[c]) /\ file[c].base \in Commits
    BY <1>3 DEF Init, Fresh, IsFile
  <2>3. rb = [c \in Copies |-> rb[c]] /\ \A c \in Copies : rb[c] = NoRebase
    BY DEF Init
  <2>. QED
    BY <1>3, <2>1, <2>2, <2>3, NoPlan DEF Refs
<1>5. ASSUME NEW c \in Copies PROVE Sound(c)
  <2>1. /\ head[c] = Root /\ temp[c] = None /\ tag[c] = None /\ file[c].base = Root
        /\ pc[c] = "idle" /\ wt[c] = Root /\ rb[c] = NoRebase
    BY DEF Init, Fresh
  <2>2. SoundAt(c, Root, None, None, Root, "idle", Root, NoRebase)
    BY NoPlan, Nothing DEF SoundAt, FromRemote, Standing, Knowing, Rebasing, Building, Holds
  <2>. QED
    BY <2>1, <2>2 DEF Sound
<1>. QED
  BY <1>2, <1>4, <1>5 DEF LogInv

LEMMA LogNext == LogInv /\ [Next]_vars => LogInv'
<1> SUFFICES ASSUME LogInv, [Next]_vars PROVE LogInv'
  OBVIOUS
<1>1. CASE UNCHANGED vars
  <2>1. UNCHANGED <<commit, remote, head, temp, tag, file, pc, wt, rb>>
    BY <1>1 DEF vars
  <2>2. Grows /\ Past(remote) \subseteq Past(remote)'
    BY <2>1, SameGrows DEF LogInv, Past, Line
  <2>3. Refs'
    BY <2>1 DEF LogInv, Refs, IsFile, IsPlan, Commits
  <2>4. ASSUME NEW d \in Copies PROVE Sound(d)'
    BY <2>1, <2>2, OneStays
  <2>. QED
    BY <2>2, <2>3, <2>4 DEF LogInv, Grows
<1>2. CASE Next
  <2>1. PICK c \in Copies :
          Transact(c) \/ Begin(c) \/ Step(c) \/ Push(c) \/ Pull(c) \/ Crash(c)
    BY <1>2 DEF Next
  <2>2. CASE Step(c)
    BY <2>2, FlushStartNext, FlushCommitNext, FlushDropNext, CheckpointNext, RestoreStartNext, RestoreNext,
       CatchUpNext, ReplayNext, RebaseStartNext, ForwardNext, KeepMineNext, RebaseBranchNext, RebaseLineNext,
       KeepTheirsNext, KeptTheirsNext, WipeNext, PublishNext, RetagNext, StoreNext, MoveNext, DropBranchNext,
       DropTagNext, OpenNext, SettleNext DEF Step
  <2>. QED
    BY <2>1, <2>2, TransactNext, BeginNext, PushNext, PullNext, CrashNext
<1>. QED
  BY <1>1, <1>2

LEMMA LogHolds == LogInv => PositionHeld
BY DEF LogInv, Sound, SoundAt, Standing, PositionHeld

-----------------------------------------------------------------------------
(* Where the branch goes *)

Kept == \A c \in Copies : Foreign(c, head[c]) \subseteq Past(head[c])'

LEMMA HeadsStay == ASSUME LogInv, Grows, UNCHANGED head PROVE Kept
<1>1. ASSUME NEW c \in Copies PROVE Foreign(c, head[c]) \subseteq Past(head[c])'
  <2>1. PICK k \in Commits : k = head[c] /\ k = head'[c]
    BY DEF LogInv, Refs
  <2>2. Past(k)' = Past(k)
    BY <2>1 DEF Grows
  <2>3. Past(head[c])' = Past(k)'
    BY <2>1 DEF Past, Line
  <2>. QED
    BY <2>1, <2>2, <2>3 DEF Foreign
<1>. QED
  BY <1>1 DEF Kept

LEMMA HeadGoes ==
    ASSUME LogInv, Grows, NEW c \in Copies, NEW next, head' = [head EXCEPT ![c] = next],
           Foreign(c, head[c]) \subseteq Past(next)'
    PROVE  Kept
<1>1. ASSUME NEW d \in Copies PROVE Foreign(d, head[d]) \subseteq Past(head[d])'
  <2>1. CASE d = c
    <3>1. head'[d] = next
      BY <2>1 DEF LogInv, Refs
    <3>2. Past(head[d])' = Past(next)'
      BY <3>1 DEF Past, Line
    <3>. QED
      BY <2>1, <3>2
  <2>2. CASE d # c
    <3>1. PICK k \in Commits : k = head[d] /\ k = head'[d]
      BY <2>2 DEF LogInv, Refs
    <3>2. Past(k)' = Past(k)
      BY <3>1 DEF Grows
    <3>3. Past(head[d])' = Past(k)'
      BY <3>1 DEF Past, Line
    <3>. QED
      BY <3>1, <3>2, <3>3 DEF Foreign
  <2>. QED
    BY <2>1, <2>2
<1>. QED
  BY <1>1 DEF Kept

LEMMA FlushCommitKeeps == ASSUME LogInv, NEW c \in Copies, FlushCommit(c) PROVE Kept
<1>1. PICK top, tip, from, f, step, known, plan :
        /\ Has(c, top, tip, from, f, step, known, plan)
        /\ Well(top, tip, from, f, step, known, plan)
        /\ SoundAt(c, top, tip, from, f.base, step, known, plan)
  BY Values
<1>2. CASE Landing(c)
  <2>1. PICK entry : commit' = Append(commit, NewCommit(known, entry, c))
    BY <1>1, <1>2 DEF Landing, Has
  <2>2. UNCHANGED remote
    BY DEF FlushCommit
  <2>3. PICK n : n = Len(commit') /\ Grows /\ Past(known) \subseteq Past(n)'
    BY <1>1, <2>1, <2>2, Made DEF Well
  <2>4. top = known /\ head' = [head EXCEPT ![c] = n]
    BY <1>1, <1>2, <2>3 DEF Landing, Has
  <2>5. Foreign(c, head[c]) \subseteq Past(n)'
    BY <1>1, <2>3, <2>4 DEF Has, Foreign
  <2>. QED
    BY <2>3, <2>4, <2>5, HeadGoes
<1>3. CASE ~Landing(c)
  <2>1. UNCHANGED <<commit, head>>
    BY <1>3 DEF FlushCommit
  <2>. QED
    BY <2>1, SameGrows, HeadsStay DEF LogInv
<1>. QED
  BY <1>2, <1>3

LEMMA RebaseLineKeeps == ASSUME LogInv, NEW c \in Copies, RebaseLine(c) PROVE Kept
<1>1. PICK top, tip, from, f, step, known, plan :
        /\ Has(c, top, tip, from, f, step, known, plan)
        /\ Well(top, tip, from, f, step, known, plan)
        /\ SoundAt(c, top, tip, from, f.base, step, known, plan)
  BY Values
<1>2. UNCHANGED <<remote, head>> /\ step = "line" /\ tip \in Commits
  BY <1>1 DEF RebaseLine, Has, SoundAt, Rebasing, Well
<1>3. PICK entry : commit' = Append(commit, NewCommit(tip, entry, c))
  BY <1>1 DEF RebaseLine, Has
<1>4. Grows
  BY <1>2, <1>3, Made
<1>. QED
  BY <1>2, <1>4, HeadsStay

LEMMA PullKeeps == ASSUME LogInv, NEW c \in Copies, Pull(c) PROVE Kept
<1>1. PICK top, tip, from, f, step, known, plan :
        /\ Has(c, top, tip, from, f, step, known, plan)
        /\ Well(top, tip, from, f, step, known, plan)
        /\ SoundAt(c, top, tip, from, f.base, step, known, plan)
  BY Values
<1>2. PICK next \in Commits : next = remote /\ Holds(next, top) /\ head' = [head EXCEPT ![c] = next] /\ UNCHANGED commit
  BY <1>1 DEF Pull, Has, LogInv, Refs
<1>3. Grows /\ Past(next)' = Past(next)
  BY <1>2, SameGrows DEF LogInv, Grows
<1>4. Past(top) \subseteq Past(next)
  BY <1>2, HoldsOn DEF LogInv
<1>5. Foreign(c, head[c]) \subseteq Past(next)'
  BY <1>1, <1>3, <1>4 DEF Has, Foreign
<1>. QED
  BY <1>2, <1>3, <1>5, HeadGoes

LEMMA ForwardKeeps == ASSUME LogInv, NEW c \in Copies, Forward(c) PROVE Kept
<1>1. PICK top, tip, from, f, step, known, plan :
        /\ Has(c, top, tip, from, f, step, known, plan)
        /\ Well(top, tip, from, f, step, known, plan)
        /\ SoundAt(c, top, tip, from, f.base, step, known, plan)
  BY Values
<1>2. step = "forward" /\ UNCHANGED commit
  BY <1>1 DEF Forward, Has
<1>3. Grows
  BY <1>2, SameGrows DEF LogInv
<1>4. CASE top = plan.head
  <2>1. head' = [head EXCEPT ![c] = plan.onto] /\ Past(plan.onto)' = Past(plan.onto)
    BY <1>1, <1>2, <1>3, <1>4 DEF Forward, Has, Grows, Well
  <2>2. Foreign(c, head[c]) \subseteq Past(plan.onto)'
    BY <1>1, <1>2, <1>4, <2>1 DEF Has, SoundAt, Rebasing, Building
  <2>. QED
    BY <1>3, <2>1, <2>2, HeadGoes
<1>5. CASE top # plan.head
  <2>1. UNCHANGED head
    BY <1>1, <1>5 DEF Forward, Has
  <2>. QED
    BY <1>3, <2>1, HeadsStay
<1>. QED
  BY <1>4, <1>5

LEMMA PublishKeeps == ASSUME LogInv, NEW c \in Copies, Publish(c) PROVE Kept
<1>1. PICK top, tip, from, f, step, known, plan :
        /\ Has(c, top, tip, from, f, step, known, plan)
        /\ Well(top, tip, from, f, step, known, plan)
        /\ SoundAt(c, top, tip, from, f.base, step, known, plan)
  BY Values
<1>2. step = "publish" /\ UNCHANGED commit
  BY <1>1 DEF Publish, Has
<1>3. Grows
  BY <1>2, SameGrows DEF LogInv
<1>4. CASE top = plan.head
  <2>1. head' = [head EXCEPT ![c] = plan.onto] /\ Past(plan.onto)' = Past(plan.onto)
    BY <1>1, <1>2, <1>3, <1>4 DEF Publish, Has, Grows, Well
  <2>2. Foreign(c, head[c]) \subseteq Past(plan.onto)'
    BY <1>1, <1>2, <1>4, <2>1 DEF Has, SoundAt, Rebasing, Building
  <2>. QED
    BY <1>3, <2>1, <2>2, HeadGoes
<1>5. CASE top # plan.head
  <2>1. UNCHANGED head
    BY <1>1, <1>5 DEF Publish, Has
  <2>. QED
    BY <1>3, <2>1, HeadsStay
<1>. QED
  BY <1>4, <1>5

LEMMA MoveKeeps == ASSUME LogInv, NEW c \in Copies, Move(c) PROVE Kept
<1>1. PICK top, tip, from, f, step, known, plan :
        /\ Has(c, top, tip, from, f, step, known, plan)
        /\ Well(top, tip, from, f, step, known, plan)
        /\ SoundAt(c, top, tip, from, f.base, step, known, plan)
  BY Values
<1>2. step = "move" /\ UNCHANGED commit
  BY <1>1 DEF Move, Has
<1>3. Grows
  BY <1>2, SameGrows DEF LogInv
<1>4. CASE top = plan.head
  <2>1. tip \in Commits /\ Foreign(c, plan.head) \subseteq Past(tip)
    BY <1>1, <1>2 DEF SoundAt, Rebasing, Well
  <2>2. head' = [head EXCEPT ![c] = tip] /\ Past(tip)' = Past(tip)
    BY <1>1, <1>3, <1>4, <2>1 DEF Move, Has, Grows
  <2>3. Foreign(c, head[c]) \subseteq Past(tip)'
    BY <1>1, <1>4, <2>1, <2>2 DEF Has
  <2>. QED
    BY <1>3, <2>2, <2>3, HeadGoes
<1>5. CASE top # plan.head
  <2>1. UNCHANGED head
    BY <1>1, <1>5 DEF Move, Has
  <2>. QED
    BY <1>3, <2>1, HeadsStay
<1>. QED
  BY <1>4, <1>5

LEMMA StepKeeps == LogInv /\ [Next]_vars => Kept
<1> SUFFICES ASSUME LogInv, [Next]_vars PROVE Kept
  OBVIOUS
<1>1. CASE UNCHANGED <<commit, head>>
  BY <1>1, SameGrows, HeadsStay DEF LogInv
<1>2. CASE ~UNCHANGED <<commit, head>>
  <2>1. PICK c \in Copies : Step(c) \/ Pull(c)
    BY <1>2 DEF Next, Transact, Begin, Push, Crash, vars, store
  <2>2. FlushCommit(c) \/ RebaseLine(c) \/ Forward(c) \/ Publish(c) \/ Move(c) \/ Pull(c)
    BY <1>2, <2>1 DEF Step, FlushStart, FlushDrop, Checkpoint, RestoreStart, Restore, CatchUp, Replay,
       RebaseStart, KeepMine, RebaseBranch, KeepTheirs, KeptTheirs, Wipe, Retag, Store, DropBranch, DropTag,
       Open, Settle, store
  <2>. QED
    BY <2>2, FlushCommitKeeps, RebaseLineKeeps, ForwardKeeps, PublishKeeps, MoveKeeps, PullKeeps
<1>. QED
  BY <1>1, <1>2

(* The log stays true for any number of copies, rows and transactions: a    *)
(* file is never past its branch but at the tip of a rebase that opening    *)
(* can finish, and a copy takes only its own entries out of its branch.     *)
THEOREM BranchStaysTrue == Spec => BranchKept
<1>1. LogInv /\ [Next]_vars =>
        [\A c \in Copies : \A k \in Range(Line(head[c])) :
           commit[k].by # c => k \in Range(Line(head[c])')]_vars
  BY StepKeeps DEF Kept, Foreign, Past
<1>. QED
  BY <1>1, LogInit, LogNext, LogHolds, PTL DEF Spec, BranchKept, ForeignEntriesStay

=============================================================================
