---------------------------- MODULE World_proofs ----------------------------
(* That a workspace has one turn at a time, that its notes are kept and kept *)
(* in order, and that an end lands the run it stored, for any turns, calls   *)
(* and commits of other workspaces (WorldTurns: TurnsTrue, EndLands); and    *)
(* that its kernel's runs have their own calls, answers, imports and time,   *)
(* for any workers and runs (WorldKernel: KernelTrue).                       *)
EXTENDS WorldTurns, WorldKernel, SequenceTheorems, TLAPS

-----------------------------------------------------------------------------
(* The inductive invariant.                                                 *)

RunKey(r) == <<"run", r>>
Ending == ~Idle /\ active.kind = "end"
Storing == {t \in Turns : Call("end", "commit") /\ active.arg = t}
Ended == {t \in Turns : turn[t].phase = "ended"}

(* A turn that is past its opening has a run; the one that is open or ending *)
(* is the current one, and an ending turn's end is in the queue or in       *)
(* progress, once.                                                          *)
TurnInv ==
    /\ OneTurn
    /\ \A t \in Turns : turn[t].phase \in {"resuming", "open", "ending"} => turn[t].run \in Turns
    /\ \A i \in DOMAIN queue : queue[i].kind = "end" =>
           /\ queue[i].arg \in Turns /\ turn[queue[i].arg].phase = "ending"
           /\ Ending => active.arg # queue[i].arg
           /\ \A j \in DOMAIN queue : queue[j].kind = "end" /\ queue[j].arg = queue[i].arg => i = j
    /\ Ending => active.arg \in Turns /\ turn[active.arg].phase = "ending"
    /\ closed /\ ~Idle => active.kind = "close"

(* What a checkout restores is a commit. *)
AskedInv ==
    /\ \A i \in DOMAIN queue : queue[i].kind = "checkout" => queue[i].arg \in DOMAIN branch
    /\ ~Idle /\ active.kind = "checkout" => active.arg \in DOMAIN branch

(* The run an end stored is pending until its commit, and no commit has a    *)
(* run of a turn that has not ended.                                        *)
By(f, T) == \A r \in Turns : Has(f, RunKey(r)) /\ f[RunKey(r)] # None => f[RunKey(r)][1] \in T
StoreInv ==
    /\ \A c \in DOMAIN branch : By(At(c), Ended)
    /\ By(pending, Ended \cup Storing)
    /\ \A t \in Storing : /\ Has(pending, RunKey(turn[t].run))
                          /\ pending[RunKey(turn[t].run)] = <<t, turn[t].seen>>

Ascending(s) == \A i, j \in DOMAIN s : i < j => s[i] < s[j]
NoteInv ==
    /\ HandedSeen /\ SettledSeen /\ TardyHeld /\ Ascending(handed \o waiting)
    /\ \A n \in DOMAIN settled : turn[settled[n]].phase \in {"ending", "ended"}
    /\ Storing # {} => Range(handed) \subseteq tardy

Inv == TypeOK /\ TurnInv /\ AskedInv /\ StoreInv /\ NoteInv

-----------------------------------------------------------------------------
(* Sequences.                                                               *)

LEMMA AppendAny ==
    ASSUME NEW s, NEW x, s \in Seq(Range(s))
    PROVE  LET t == Append(s, x) IN
           /\ t \in Seq(Range(t)) /\ Len(s) \in Nat
           /\ DOMAIN s = 1 .. Len(s) /\ DOMAIN t = 1 .. Len(s) + 1
           /\ \A i \in DOMAIN s : t[i] = s[i]
           /\ t[Len(s) + 1] = x
<1> DEFINE S == Range(s) \cup {x}
           t == Append(s, x)
<1>1. s \in Seq(S)
    OBVIOUS
<1>2. /\ t \in Seq(S) /\ DOMAIN s = 1 .. Len(s) /\ DOMAIN t = 1 .. Len(s) + 1 /\ Len(s) \in Nat
      /\ \A i \in 1 .. Len(s) : t[i] = s[i]
      /\ t[Len(s) + 1] = x
    BY <1>1
<1> HIDE DEF t
<1>3. \A i \in DOMAIN t : t[i] \in Range(t)
    BY DEF Range
<1>4. t = [i \in 1 .. Len(s) + 1 |-> t[i]]
    BY <1>2
<1>5. t \in Seq(Range(t))
    <2>1. \A m \in Nat : \A f \in [1 .. m -> Range(t)] : f \in Seq(Range(t))
        OBVIOUS
    <2>2. t \in [1 .. Len(s) + 1 -> Range(t)]
        BY <1>2, <1>3, <1>4
    <2> QED
        BY <2>1, <2>2, <1>2
<1> QED
    BY <1>2, <1>5 DEF t

LEMMA Concat ==
    ASSUME NEW S, NEW a \in Seq(S), NEW b \in Seq(S)
    PROVE  /\ a \o b \in Seq(S) /\ DOMAIN (a \o b) = 1 .. Len(a) + Len(b)
           /\ \A i \in 1 .. Len(a) + Len(b) : (a \o b)[i] = IF i <= Len(a) THEN a[i] ELSE b[i - Len(a)]
<1>1. a \o b \in Seq(S) /\ Len(a \o b) = Len(a) + Len(b)
    BY ConcatProperties
<1>2. DOMAIN (a \o b) = 1 .. Len(a) + Len(b)
    BY <1>1
<1> QED
    BY <1>1, <1>2, ConcatProperties

(* Two rising sequences rise together where all of the one are before all of *)
(* the other.                                                               *)
LEMMA ConcatRises ==
    ASSUME NEW S, S \subseteq Nat, NEW a \in Seq(S), NEW b \in Seq(S)
    PROVE  /\ Range(a \o b) = Range(a) \cup Range(b)
           /\ Ascending(a \o b) <=> /\ Ascending(a) /\ Ascending(b)
                                    /\ \A x \in Range(a), y \in Range(b) : x < y
<1> DEFINE c == a \o b
           m == Len(a)
           n == Len(b)
<1>0. /\ m \in Nat /\ n \in Nat /\ DOMAIN a = 1 .. m /\ DOMAIN b = 1 .. n
      /\ \A i \in 1 .. m : a[i] \in S
      /\ \A i \in 1 .. n : b[i] \in S
    OBVIOUS
<1>1. /\ m \in Nat /\ n \in Nat /\ DOMAIN a = 1 .. m /\ DOMAIN b = 1 .. n /\ DOMAIN c = 1 .. m + n
      /\ \A i \in 1 .. m : a[i] \in Nat
      /\ \A i \in 1 .. n : b[i] \in Nat
      /\ \A i \in 1 .. m + n : c[i] = IF i <= m THEN a[i] ELSE b[i - m]
    BY <1>0, Concat
<1>2. /\ \A i \in 1 .. m : i \in DOMAIN c /\ c[i] = a[i]
      /\ \A i \in 1 .. n : m + i \in DOMAIN c /\ c[m + i] = b[i]
    <2>1. ASSUME NEW i \in 1 .. n PROVE m + i \in 1 .. m + n /\ ~(m + i <= m) /\ (m + i) - m = i
        BY <1>1
    <2> QED
        BY <1>1, <2>1
<1>3. ASSUME NEW i \in DOMAIN c
      PROVE  (i \in 1 .. m /\ c[i] = a[i]) \/ (i - m \in 1 .. n /\ c[i] = b[i - m] /\ i > m)
    BY <1>1
<1> HIDE DEF c, m, n
<1>4. Range(c) = Range(a) \cup Range(b)
    <2>1. ASSUME NEW x \in Range(c) PROVE x \in Range(a) \cup Range(b)
        <3>1. PICK i \in DOMAIN c : c[i] = x
            BY DEF Range
        <3>2. CASE i \in 1 .. m /\ c[i] = a[i]
            BY <1>1, <3>1, <3>2 DEF Range
        <3>3. CASE i - m \in 1 .. n /\ c[i] = b[i - m]
            BY <1>1, <3>1, <3>3 DEF Range
        <3> QED
            BY <1>3, <3>2, <3>3
    <2>2. Range(a) \subseteq Range(c)
        BY <1>1, <1>2 DEF Range
    <2>3. ASSUME NEW x \in Range(b) PROVE x \in Range(c)
        <3>1. PICK i \in 1 .. n : b[i] = x
            BY <1>1 DEF Range
        <3>2. m + i \in DOMAIN c /\ c[m + i] = x
            BY <1>2, <3>1
        <3> QED
            BY <3>2 DEF Range
    <2> QED
        BY <2>1, <2>2, <2>3
<1>5. ASSUME Ascending(c)
      PROVE  Ascending(a) /\ Ascending(b) /\ \A x \in Range(a), y \in Range(b) : x < y
    <2>1. Ascending(a)
        BY <1>1, <1>2, <1>5 DEF Ascending
    <2>2. Ascending(b)
        <3> SUFFICES ASSUME NEW i \in 1 .. n, NEW j \in 1 .. n, i < j PROVE b[i] < b[j]
            BY <1>1 DEF Ascending
        <3>1. m + i < m + j
            BY <1>1
        <3> QED
            BY <3>1, <1>2, <1>5 DEF Ascending
    <2>3. ASSUME NEW i \in 1 .. m, NEW j \in 1 .. n PROVE a[i] < b[j]
        <3>1. i < m + j
            BY <1>1
        <3> QED
            BY <3>1, <1>2, <1>5 DEF Ascending
    <2> QED
        BY <2>1, <2>2, <2>3, <1>1 DEF Range
<1>6. ASSUME Ascending(a), Ascending(b), \A x \in Range(a), y \in Range(b) : x < y
      PROVE  Ascending(c)
    <2> SUFFICES ASSUME NEW i \in DOMAIN c, NEW j \in DOMAIN c, i < j PROVE c[i] < c[j]
        BY DEF Ascending
    <2>1. CASE i \in 1 .. m /\ j \in 1 .. m
        BY <2>1, <1>1, <1>3, <1>6 DEF Ascending
    <2>2. CASE i \in 1 .. m /\ j > m
        <3>1. c[i] = a[i] /\ c[j] = b[j - m] /\ j - m \in 1 .. n
            BY <2>2, <1>1, <1>3
        <3>2. a[i] \in Range(a) /\ b[j - m] \in Range(b)
            BY <2>2, <3>1, <1>1 DEF Range
        <3> QED
            BY <3>1, <3>2, <1>6
    <2>3. CASE i > m /\ j > m
        <3>1. i - m < j - m
            BY <2>3, <1>1
        <3>2. c[i] = b[i - m] /\ c[j] = b[j - m] /\ i - m \in DOMAIN b /\ j - m \in DOMAIN b
            BY <2>3, <1>1, <1>3
        <3> QED
            BY <3>1, <3>2, <1>6 DEF Ascending
    <2> QED
        BY <2>1, <2>2, <2>3, <1>1
<1> QED
    BY <1>4, <1>5, <1>6 DEF c

LEMMA Removing ==
    ASSUME NEW S, NEW s \in Seq(S), NEW k \in DOMAIN s
    PROVE  LET t == RemoveAt(s, k) IN
           /\ t \in Seq(S) /\ DOMAIN t = 1 .. Len(s) - 1
           /\ \A i \in DOMAIN t : t[i] = IF i < k THEN s[i] ELSE s[i + 1]
<1>1. /\ DOMAIN s = 1 .. Len(s) /\ Len(s) \in Nat /\ k \in 1 .. Len(s)
    OBVIOUS
<1> DEFINE a == SubSeq(s, 1, k - 1)
           b == SubSeq(s, k + 1, Len(s))
<1>2. /\ a \in Seq(S) /\ Len(a) = k - 1 /\ \A i \in 1 .. k - 1 : a[i] = s[i]
      /\ b \in Seq(S) /\ Len(b) = Len(s) - k /\ \A i \in 1 .. Len(s) - k : b[i] = s[k + i]
    BY <1>1
<1> HIDE DEF a, b
<1>3. /\ a \o b \in Seq(S) /\ DOMAIN (a \o b) = 1 .. Len(s) - 1
      /\ \A i \in 1 .. Len(s) - 1 : (a \o b)[i] = IF i < k THEN a[i] ELSE b[i - (k - 1)]
    <2>1. /\ a \o b \in Seq(S) /\ DOMAIN (a \o b) = 1 .. Len(a) + Len(b)
          /\ \A i \in 1 .. Len(a) + Len(b) : (a \o b)[i] = IF i <= Len(a) THEN a[i] ELSE b[i - Len(a)]
        BY <1>2, Concat
    <2>3. Len(a) = k - 1 /\ Len(a) + Len(b) = Len(s) - 1 /\ \A i \in Nat : i < k <=> i <= k - 1
        BY <1>1, <1>2
    <2> QED
        BY <2>1, <2>3
<1>4. ASSUME NEW i \in 1 .. Len(s) - 1 PROVE (a \o b)[i] = IF i < k THEN s[i] ELSE s[i + 1]
    <2>1. CASE i < k
        <3>1. i \in 1 .. k - 1
            BY <2>1, <1>1
        <3> QED
            BY <2>1, <3>1, <1>2, <1>3
    <2>2. CASE ~(i < k)
        <3>1. i - (k - 1) \in 1 .. Len(s) - k /\ k + (i - (k - 1)) = i + 1
            BY <2>2, <1>1
        <3>2. b[i - (k - 1)] = s[k + (i - (k - 1))]
            BY <3>1, <1>2
        <3> QED
            BY <2>2, <1>3, <3>1, <3>2
    <2> QED
        BY <2>1, <2>2
<1> QED
    BY <1>3, <1>4 DEF RemoveAt, a, b

LEMMA RemovingRises ==
    ASSUME NEW S, S \subseteq Nat, NEW s \in Seq(S), NEW k \in DOMAIN s, Ascending(s)
    PROVE  Ascending(RemoveAt(s, k)) /\ Range(RemoveAt(s, k)) \subseteq Range(s)
<1> DEFINE t == RemoveAt(s, k)
<1>0. DOMAIN s = 1 .. Len(s) /\ Len(s) \in Nat /\ k \in 1 .. Len(s)
    OBVIOUS
<1>1. /\ DOMAIN s = 1 .. Len(s) /\ Len(s) \in Nat /\ k \in 1 .. Len(s) /\ DOMAIN t = 1 .. Len(s) - 1
      /\ \A i \in DOMAIN t : t[i] = IF i < k THEN s[i] ELSE s[i + 1]
    BY <1>0, Removing
<1> HIDE DEF t
<1>2. ASSUME NEW i \in DOMAIN t, NEW j \in DOMAIN t, i < j PROVE t[i] < t[j]
    <2>1. PICK a \in DOMAIN s : t[i] = s[a] /\ a = IF i < k THEN i ELSE i + 1
        BY <1>1
    <2>2. PICK b \in DOMAIN s : t[j] = s[b] /\ b = IF j < k THEN j ELSE j + 1
        BY <1>1
    <2>3. a < b
        BY <1>1, <1>2, <2>1, <2>2
    <2> QED
        BY <2>1, <2>2, <2>3 DEF Ascending
<1>3. ASSUME NEW i \in DOMAIN t PROVE t[i] \in Range(s)
    <2>1. PICK a \in DOMAIN s : t[i] = s[a]
        BY <1>1
    <2> QED
        BY <2>1 DEF Range
<1> QED
    BY <1>2, <1>3 DEF Ascending, Range, t

LEMMA Single ==
    ASSUME NEW n \in Nat
    PROVE  /\ <<n + 1>> \in Seq(1 .. n + 1) /\ Ascending(<<n + 1>>) /\ Range(<<n + 1>>) = {n + 1}
           /\ <<>> \in Seq(1 .. n) /\ Ascending(<<>>) /\ Range(<<>>) = {}
           /\ Seq(1 .. n) \subseteq Seq(1 .. n + 1) /\ Seq(1 .. n) \subseteq Seq(Nat)
<1>1. <<n + 1>> \in Seq(1 .. n + 1) /\ <<>> \in Seq(1 .. n)
    OBVIOUS
<1>2. Ascending(<<n + 1>>) /\ Ascending(<<>>)
    BY DEF Ascending
<1>3. Range(<<n + 1>>) = {n + 1} /\ Range(<<>>) = {}
    BY DEF Range
<1>4. \A s \in Seq(1 .. n) : s \in Seq(1 .. n + 1) /\ s \in Seq(Nat)
    BY SeqMonotonic
<1> QED
    BY <1>1, <1>2, <1>3, <1>4

-----------------------------------------------------------------------------
(* Commits.                                                                 *)

TreeOK(T) ==
    /\ branch \in Seq(Range(branch)) /\ base \in DOMAIN branch
    /\ \A c \in DOMAIN branch : By(At(c), T)
    /\ By(pending, T)

LEMMA ViewBy ==
    ASSUME NEW T, TreeOK(T), NEW k, k \in DOMAIN View
    PROVE  /\ View[k] = IF k \in DOMAIN pending THEN pending[k] ELSE At(base)[k]
           /\ k \in DOMAIN pending => pending[k] # None
           /\ k \in DOMAIN pending \/ k \in DOMAIN At(base)
    BY DEF View, Applied, Removed, Has

LEMMA CommitBy ==
    ASSUME NEW T, TreeOK(T), NEW info, CommitPending(info)
    PROVE  /\ TreeOK(T)'
           /\ ~Clean /\ ~Clash => Commit(info) /\ base' # base
<1>1. CASE Clean \/ Clash
    <2>1. UNCHANGED tree
        BY <1>1 DEF CommitPending
    <2> QED
        BY <1>1, <2>1 DEF TreeOK, tree, At
<1>2. CASE ~(Clean \/ Clash)
    <2> DEFINE kept == (DOMAIN View \cap Mine) \cup (DOMAIN At(Tip) \ Mine)
               new == [k \in kept |-> IF k \in Mine THEN View[k] ELSE At(Tip)[k]]
    <2>1. Commit(info)
        BY <1>2 DEF CommitPending
    <2>2. branch' = Append(branch, [tree |-> new, stamp |-> info]) /\ base' = Tip + 1 /\ pending' = Empty
        BY <2>1 DEF Commit
    <2>3. /\ branch' \in Seq(Range(branch')) /\ Tip \in Nat
          /\ DOMAIN branch = 1 .. Tip /\ DOMAIN branch' = 1 .. Tip + 1
          /\ \A i \in DOMAIN branch : branch'[i] = branch[i]
          /\ branch'[Tip + 1] = [tree |-> new, stamp |-> info]
        BY <2>2, AppendAny DEF TreeOK, Tip
    <2>4. base' \in DOMAIN branch' /\ base' # base /\ Tip \in DOMAIN branch
        BY <2>2, <2>3 DEF TreeOK
    <2>5. By(new, T)
        <3> SUFFICES ASSUME NEW r \in Turns, RunKey(r) \in DOMAIN new, new[RunKey(r)] # None
                     PROVE  new[RunKey(r)][1] \in T
            BY DEF By, Has
        <3> DEFINE k == RunKey(r)
        <3>1. CASE k \in Mine
            <4>1. k \in DOMAIN View /\ new[k] = View[k]
                BY <3>1
            <4> QED
                BY <4>1, ViewBy DEF TreeOK, By, Has
        <3>2. CASE k \notin Mine
            <4>1. k \in DOMAIN At(Tip) /\ new[k] = At(Tip)[k]
                BY <3>2
            <4> QED
                BY <4>1, <2>4 DEF TreeOK, By, Has
        <3> QED
            BY <3>1, <3>2
    <2> HIDE DEF new
    <2>6. ASSUME NEW c \in DOMAIN branch' PROVE By(At(c)', T)
        <3>1. CASE c \in DOMAIN branch
            BY <3>1, <2>3 DEF TreeOK, At
        <3>2. CASE c = Tip + 1
            BY <3>2, <2>3, <2>5 DEF At
        <3> QED
            BY <3>1, <3>2, <2>3
    <2>7. By(pending', T)
        BY <2>2 DEF By, Has, Empty
    <2> QED
        BY <2>1, <2>3, <2>4, <2>6, <2>7 DEF TreeOK, At, By, Has
<1> QED
    BY <1>1, <1>2

\* A commit keeps what is pending under a run's key, unless the commit it is
\* over has that already.
LEMMA CommitKeeps ==
    ASSUME NEW T, TreeOK(T), NEW info, Commit(info), NEW k, k \in DOMAIN pending, pending[k] # None,
           k \in DOMAIN At(base) => At(base)[k] # pending[k]
    PROVE  branch'[base'].stamp = info /\ branch'[base'].tree[k] = pending[k]
<1> DEFINE kept == (DOMAIN View \cap Mine) \cup (DOMAIN At(Tip) \ Mine)
           new == [x \in kept |-> IF x \in Mine THEN View[x] ELSE At(Tip)[x]]
<1>1. branch' = Append(branch, [tree |-> new, stamp |-> info]) /\ base' = Tip + 1
    BY DEF Commit
<1>2. branch'[base'] = [tree |-> new, stamp |-> info]
    BY <1>1, AppendAny DEF TreeOK, Tip
<1>3. k \in DOMAIN View /\ View[k] = pending[k]
    BY DEF View, Applied, Removed, Has
<1>4. k \in Mine
    BY <1>3 DEF Mine, Differ, Has
<1>5. new[k] = pending[k]
    BY <1>3, <1>4
<1> HIDE DEF new
<1> QED
    BY <1>2, <1>5

-----------------------------------------------------------------------------
(* Types.                                                                   *)

TreeTypes == branch \in Seq(Range(branch)) /\ base \in DOMAIN branch
CallTypes == queue \in Seq(Item) /\ active \in InProgress \cup {None} /\ calls \in Nat /\ writes \in Nat
TurnTypes == turn \in [Turns -> TurnState] /\ current \in Turns \cup {None}
NoteTypes ==
    /\ notes \in Nat /\ waiting \in Seq(1 .. notes) /\ handed \in Seq(1 .. notes)
    /\ settled \in [DOMAIN settled -> Turns] /\ DOMAIN settled \subseteq 1 .. notes
    /\ tardy \subseteq 1 .. notes

LEMMA TypeParts ==
    TypeOK <=> /\ TreeTypes /\ CallTypes /\ TurnTypes /\ NoteTypes
               /\ closed \in BOOLEAN /\ autocommit \in BOOLEAN
BY DEF TypeOK, TreeTypes, CallTypes, TurnTypes, NoteTypes

LEMMA TreeStep ==
    ASSUME TypeOK, [Next]_vars
    PROVE  TreeTypes' /\ DOMAIN branch \subseteq DOMAIN branch'
<1> DEFINE Grown == TreeTypes' /\ DOMAIN branch \subseteq DOMAIN branch'
<1> USE DEF TypeOK
<1>1. ASSUME NEW info, CommitPending(info) PROVE Grown
    <2>1. CASE UNCHANGED tree
        BY <2>1 DEF tree, TreeTypes
    <2>2. CASE Commit(info)
        BY <2>2, AppendAny DEF Commit, Tip, TreeTypes
    <2> QED
        BY <1>1, <2>1, <2>2 DEF CommitPending
<1>2. Tip \in DOMAIN branch
    BY DEF Tip
<1>3. CASE \E kind \in {"write", "end"} : OtherCommit(kind)
    BY <1>3, AppendAny DEF OtherCommit, Tip, TreeTypes
<1>4. CASE Calling
    <2>1. ASSUME NEW token, NEW kind \in Within, CallBack(token, kind) PROVE Grown
        <3>1. CASE PartOf(token)
            <4>1. Within \subseteq {"commit", "discard", "refresh"}
                BY TurnsAssumption
            <4> QED
                BY <1>1, <1>2, <2>1, <3>1, <4>1 DEF CallBack, Back, Discard, Refresh, TreeTypes
        <3>2. CASE ~PartOf(token)
            BY <2>1, <3>2 DEF CallBack, tree, TreeTypes
        <3> QED
            BY <3>1, <3>2
    <2> QED
        BY <1>4, <2>1 DEF Calling, Ask, tree, TreeTypes
<1>5. CASE Running
    BY <1>1, <1>2, <1>5 DEF Running, Start, AutoCommit, CommitCall, DiscardCall, Discard, RefreshCall, Refresh,
        CheckoutDiff, CheckoutCommit, CloseCall, EndStore, EndCommit, tree, TreeTypes
<1>6. CASE \/ Write \/ CodeEnd \/ PutNote \/ (\E n \in DOMAIN waiting : Withdraw(n)) \/ Turning \/ Recording
           \/ UNCHANGED vars
    BY <1>6 DEF Write, CodeEnd, PutNote, Withdraw, Turning, NewTurn, ResumeTurn, Resumed, Deliver, ThrowAway,
        End, Recording, Record, Count, Recorded, calm, vars, tree, TreeTypes
<1> QED
    BY <1>3, <1>4, <1>5, <1>6 DEF Next

LEMMA Updated ==
    ASSUME NEW a \in InProgress, NEW step \in {"run", "commit"}
    PROVE  /\ [a EXCEPT !.step = step] \in InProgress
           /\ [a EXCEPT !.step = step, !.try = @ + 1] \in InProgress
           /\ \A n \in Nat : [a EXCEPT !.wrote = n, !.dropped = FALSE, !.step = step] \in InProgress
           /\ \A token : [a EXCEPT !.dropped = @ \/ token = a.id] \in InProgress
<1>1. \A n \in Nat : [a EXCEPT !.step = step, !.try = n] \in InProgress
    BY DEF InProgress
<1>2. a.try + 1 \in Nat
    BY DEF InProgress
<1>3. \A n \in Nat : [a EXCEPT !.wrote = n, !.dropped = FALSE, !.step = step] \in InProgress
    BY DEF InProgress
<1>4. \A token : [a EXCEPT !.dropped = @ \/ token = a.id] \in InProgress
    BY DEF InProgress
<1>5. [a EXCEPT !.step = step] \in InProgress
    BY DEF InProgress
<1> QED
    BY <1>1, <1>2, <1>3, <1>4, <1>5

LEMMA CallStep ==
    ASSUME TypeOK, [Next]_vars
    PROVE  CallTypes' /\ closed' \in BOOLEAN /\ autocommit' \in BOOLEAN
<1> USE TurnsAssumption DEF TypeOK, CallTypes
<1>1. ASSUME NEW kind \in AllKinds, NEW arg \in Nat \cup {None}, Enqueue(kind, arg)
      PROVE  queue' \in Seq(Item) /\ calls' \in Nat
    <2>1. Queued(kind, arg) \in Item
        BY DEF Queued, Item
    <2> QED
        BY <1>1, <2>1 DEF Enqueue
<1>2. Tip \in Nat
    BY DEF Tip
<1>3. ASSUME NEW kind \in Kinds, NEW arg \in 1 .. Tip \cup {None}, Ask(kind, arg)
      PROVE  CallTypes'
    BY <1>1, <1>2, <1>3 DEF Ask
<1>4. ASSUME NEW token \in 1 .. calls, NEW kind \in Within, CallBack(token, kind)
      PROVE  CallTypes'
    <2>1. CASE PartOf(token)
        <3>1. active \in InProgress
            BY <2>1 DEF PartOf, Idle
        <3>2. active' \in InProgress
            BY <1>4, <2>1, <3>1, Updated DEF CallBack, Back
        <3> QED
            BY <1>4, <2>1, <3>2 DEF CallBack
    <2>2. CASE ~PartOf(token)
        BY <1>1, <1>4, <2>2 DEF CallBack, AllKinds
    <2> QED
        BY <2>1, <2>2
<1>5. CASE Start
    <2>1. Head(queue) \in Item /\ Tail(queue) \in Seq(Item)
        BY <1>5 DEF Start
    <2>2. Begin(Head(queue)) => active' \in InProgress
        BY <2>1 DEF Begin, Item, InProgress
    <2> QED
        BY <1>5, <2>1, <2>2 DEF Start, counts
<1>6. ASSUME NEW step \in {"run", "commit"}, ~Idle
      PROVE  [active EXCEPT !.step = step] \in InProgress /\ [active EXCEPT !.step = step, !.try = @ + 1] \in InProgress
    BY <1>6, Updated DEF Idle
<1>7. CASE AutoCommit \/ CommitCall \/ DiscardCall \/ RefreshCall \/ CheckoutDiff \/ CloseCall
    BY <1>6, <1>7 DEF AutoCommit, CommitCall, DiscardCall, RefreshCall,
        CheckoutDiff, CloseCall, Call, Finish, Go, counts, rest
<1>71. CASE CheckoutCommit
    BY <1>6, <1>71 DEF CheckoutCommit, Call, Finish, counts, rest
<1>72. CASE (\E ok \in BOOLEAN : EndStore(ok)) \/ EndCommit
    BY <1>6, <1>72 DEF EndStore, EndCommit, Call, Finish, Go, counts
<1>8. CASE Write
    <2>1. active \in InProgress
        BY <1>8 DEF Write, Call, Idle
    <2>2. active' \in InProgress
        <3> DEFINE step == IF active.kind = "write" THEN "commit" ELSE "run"
        <3>1. writes + 1 \in Nat /\ step \in {"run", "commit"}
            OBVIOUS
        <3>2. active' = [active EXCEPT !.wrote = writes + 1, !.dropped = FALSE, !.step = step]
            BY <1>8 DEF Write
        <3> HIDE DEF step
        <3> QED
            BY <2>1, <3>1, <3>2, Updated
    <2> QED
        BY <1>8, <2>2 DEF Write, rest
<1>9. CASE CodeEnd
    BY <1>6, <1>9 DEF CodeEnd, Call, Go, counts, rest
<1>10. ASSUME NEW t \in Turns, End(t) PROVE CallTypes'
    <2>1. [id |-> None, kind |-> "end", arg |-> t] \in Item
        BY DEF Item
    <2> QED
        BY <1>10, <2>1 DEF End, counts
<1>11. CASE \/ PutNote \/ (\E n \in DOMAIN waiting : Withdraw(n)) \/ Recording
            \/ (\E t \in Turns : \/ NewTurn(t) \/ \E r \in Turns : ResumeTurn(t, r)
                                 \/ Resumed(t) \/ ThrowAway(t)
                                 \/ \E made \in BOOLEAN, outcome \in {"fine", "throws", "unreadable"} :
                                        Deliver(t, made, outcome))
            \/ (\E kind \in {"write", "end"} : OtherCommit(kind))
            \/ UNCHANGED vars
    BY <1>11 DEF PutNote, Withdraw, OtherCommit, NewTurn, ResumeTurn, Resumed, Deliver, ThrowAway,
        Recording, Record, Count, Recorded, calm, rest, counts, vars
<1>12. CallTypes'
    BY <1>3, <1>4, <1>5, <1>7, <1>71, <1>72, <1>8, <1>9, <1>10, <1>11 DEF Next, Calling, Running, Turning
<1>13. closed' \in BOOLEAN /\ autocommit' \in BOOLEAN
    BY DEF Next, Calling, Ask, CallBack, Running, Start, AutoCommit, CommitCall, DiscardCall, RefreshCall,
        CheckoutDiff, CheckoutCommit, CloseCall, EndStore, EndCommit, Write, CodeEnd, OtherCommit, PutNote, Withdraw,
        Turning, NewTurn, ResumeTurn, Resumed, Deliver, ThrowAway, End, Recording, Record, Count, Recorded,
        calm, rest, counts, vars
<1> QED
    BY <1>12, <1>13

LEMMA Turned ==
    ASSUME TurnTypes, NEW t \in Turns,
           NEW p \in {"none", "refused", "resuming", "open", "ending", "ended"}
    PROVE  /\ [turn EXCEPT ![t].phase = p] \in [Turns -> TurnState]
           /\ \A r \in Turns : [turn EXCEPT ![t].phase = p, ![t].run = r] \in [Turns -> TurnState]
           /\ \A m \in Nat \cup {None} : [turn EXCEPT ![t].phase = p, ![t].made = m] \in [Turns -> TurnState]
           /\ \A s \in Seq(Nat) : [turn EXCEPT ![t].seen = s] \in [Turns -> TurnState]
BY DEF TurnTypes, TurnState

LEMMA TurnStep ==
    ASSUME TypeOK, TurnInv, [Next]_vars
    PROVE  TurnTypes'
<1> DEFINE Typed(f) == f \in [Turns -> TurnState]
<1>0. /\ TurnTypes /\ turn \in [Turns -> TurnState] /\ current \in Turns \cup {None}
      /\ (turn' \in [Turns -> TurnState] /\ current' \in Turns \cup {None}) => TurnTypes'
    BY DEF TypeOK, TurnTypes
<1>01. /\ \A t \in Turns : \A p \in {"none", "refused", "resuming", "open", "ending", "ended"} :
              /\ Typed([turn EXCEPT ![t].phase = p])
              /\ \A r \in Turns : Typed([turn EXCEPT ![t].phase = p, ![t].run = r])
              /\ \A m \in Nat \cup {None} : Typed([turn EXCEPT ![t].phase = p, ![t].made = m])
       /\ \A t \in Turns, s \in Seq(Nat) : Typed([turn EXCEPT ![t].seen = s])
    BY <1>0, Turned
<1>1. ASSUME NEW t \in Turns, NEW r \in Turns, Opened(t, r) PROVE TurnTypes'
    <2>1. CASE current = None
        <3>1. turn' = [turn EXCEPT ![t].phase = "open", ![t].run = r] /\ current' = t
            BY <1>1, <2>1 DEF Opened
        <3>2. Typed([turn EXCEPT ![t].phase = "open", ![t].run = r])
            BY <1>01
        <3> QED
            BY <1>0, <3>1, <3>2
    <2>2. CASE current # None
        <3>1. turn' = [turn EXCEPT ![t].phase = "refused"] /\ current' = current
            BY <1>1, <2>2 DEF Opened, Phase
        <3>2. Typed([turn EXCEPT ![t].phase = "refused"])
            BY <1>01
        <3> QED
            BY <1>0, <3>1, <3>2
    <2> QED
        BY <2>1, <2>2
<1>2. ASSUME NEW t \in Turns, NEW r \in Turns, NewTurn(t) \/ ResumeTurn(t, r) \/ End(t) PROVE TurnTypes'
    <2>1. CASE NewTurn(t)
        BY <1>1, <2>1 DEF NewTurn
    <2>2. CASE ResumeTurn(t, r)
        BY <1>0, <1>01, <2>2 DEF ResumeTurn
    <2>3. CASE End(t)
        BY <1>0, <1>01, <2>3 DEF End, Phase
    <2> QED
        BY <1>2, <2>1, <2>2, <2>3
<1>3. ASSUME NEW t \in Turns, Resumed(t) PROVE TurnTypes'
    BY <1>0, <1>1, <1>3 DEF Resumed, TurnInv
<1>4. ASSUME NEW t \in Turns, ThrowAway(t) PROVE TurnTypes'
    <2>1. <<>> \in Seq(Nat)
        OBVIOUS
    <2> QED
        BY <2>1, <1>4, <1>0, <1>01 DEF ThrowAway
<1>5. ASSUME NEW t \in Turns, NEW made \in BOOLEAN, NEW outcome, Deliver(t, made, outcome) PROVE TurnTypes'
    <2> DEFINE fresh == IF made THEN <<notes + 1>> ELSE <<>>
               drawn == waiting \o (IF outcome = "throws" THEN <<>> ELSE fresh)
    <2>1. drawn \in Seq(1 .. notes + 1)
        <3>1. fresh \in Seq(1 .. notes + 1) /\ <<>> \in Seq(1 .. notes + 1) /\ waiting \in Seq(1 .. notes + 1)
            BY Single DEF TypeOK
        <3> HIDE DEF fresh
        <3> QED
            BY <3>1, Concat
    <2>2. drawn \in Seq(Nat)
        <3> HIDE DEF drawn
        <3>1. 1 .. notes + 1 \subseteq Nat
            OBVIOUS
        <3> QED
            BY <2>1, <3>1, SeqMonotonic
    <2>3. turn[t].seen \o drawn \in Seq(Nat)
        <3>1. turn[t].seen \in Seq(Nat)
            BY <1>0 DEF TurnState
        <3> HIDE DEF drawn
        <3> QED
            BY <2>2, <3>1, Concat
    <2>4. turn' = turn \/ turn' = [turn EXCEPT ![t].seen = turn[t].seen \o drawn]
        BY <1>5 DEF Deliver
    <2>5. current' = current
        BY <1>5 DEF Deliver
    <2> HIDE DEF drawn
    <2> QED
        <3>1. CASE turn' = turn
            BY <1>0, <2>5, <3>1
        <3>2. CASE turn' = [turn EXCEPT ![t].seen = turn[t].seen \o drawn]
            <4>1. Typed([turn EXCEPT ![t].seen = turn[t].seen \o drawn])
                BY <1>01, <2>3
            <4> QED
                BY <1>0, <2>5, <3>2, <4>1
        <3> QED
            BY <2>4, <3>1, <3>2
<1>6. ASSUME NEW t \in Turns, Phase(t, "ended"), Release(t) PROVE TurnTypes'
    BY <1>6, <1>0, <1>01 DEF Phase, Release
<1>7. ASSUME NEW ok \in BOOLEAN, EndStore(ok) PROVE TurnTypes'
    <2>1. active.arg \in Turns
        BY <1>7 DEF EndStore, Call, TurnInv, Ending
    <2> QED
        BY <1>0, <1>6, <1>7, <2>1 DEF EndStore
<1>8. CASE EndCommit
    <2>1. active.arg \in Turns
        BY <1>8 DEF EndCommit, Call, TurnInv, Ending
    <2>2. base' \in Nat
        <3>1. TreeTypes'
            BY TreeStep
        <3> QED
            BY <3>1 DEF TreeTypes
    <2> QED
        BY <1>8, <2>1, <2>2, <1>0, <1>01 DEF EndCommit, Release
<1>9. CASE Start
    <2>1. CASE closed /\ Head(queue).kind = "end" /\ Head(queue).kind # "close"
        <3>1. Head(queue).arg \in Turns
            <4>1. Head(queue) = queue[1] /\ 1 \in DOMAIN queue
                BY <1>9 DEF TypeOK, Start
            <4> QED
                BY <2>1, <4>1 DEF TurnInv
        <3> QED
            <4> DEFINE h == Head(queue)
            <4>1. /\ turn' = [turn EXCEPT ![h.arg].phase = "ended"]
                  /\ current' = IF current = h.arg THEN None ELSE current
                BY <1>9, <2>1 DEF Start
            <4> HIDE DEF h
            <4>2. Typed([turn EXCEPT ![h.arg].phase = "ended"])
                BY <1>01, <3>1 DEF h
            <4> QED
                BY <1>0, <4>1, <4>2
    <2>2. CASE ~(closed /\ Head(queue).kind = "end" /\ Head(queue).kind # "close")
        BY <1>0, <1>9, <2>2 DEF Start
    <2> QED
        BY <2>1, <2>2
<1>10. CASE \/ Calling \/ AutoCommit \/ CommitCall \/ DiscardCall \/ RefreshCall \/ CheckoutDiff \/ CheckoutCommit
            \/ CloseCall \/ Write \/ CodeEnd \/ (\E kind \in {"write", "end"} : OtherCommit(kind))
            \/ PutNote \/ (\E n \in DOMAIN waiting : Withdraw(n)) \/ Recording \/ UNCHANGED vars
    BY <1>0, <1>10 DEF Calling, Ask, CallBack, AutoCommit, CommitCall, DiscardCall, RefreshCall, CheckoutDiff,
        CheckoutCommit, CloseCall, Write, CodeEnd, OtherCommit, PutNote, Withdraw, Recording, Record, Count, Recorded,
        rest, vars
<1> QED
    BY <1>2, <1>3, <1>4, <1>5, <1>7, <1>8, <1>9, <1>10 DEF Next, Running, Turning

-----------------------------------------------------------------------------
(* One turn at a time.                                                      *)


\* What leaves the turns and the queue alone and begins no end.
LEMMA CallsPass ==
    ASSUME TypeOK, TurnInv, UNCHANGED <<turn, current, queue>>,
           Ending' => Ending /\ active'.arg = active.arg,
           closed' /\ ~Idle' => closed /\ ~Idle /\ active'.kind = active.kind
    PROVE  TurnInv'
BY DEF TypeOK, TurnInv, OneTurn

\* So does a call that joins the queue.
LEMMA CallsJoin ==
    ASSUME TypeOK, TurnInv, UNCHANGED <<turn, current, active, closed>>,
           NEW kind \in AllKinds, NEW arg, Enqueue(kind, arg), Queued(kind, arg) \in Item
    PROVE  TurnInv'
<1> DEFINE q == Queued(kind, arg)
<1>1. q.kind # "end"
    BY DEF Queued, AllKinds
<1>2. queue' = Append(queue, q) /\ queue \in Seq(Item) /\ q \in Item
    BY DEF TypeOK, Enqueue
<1> HIDE DEF q
<1>3. /\ DOMAIN queue = 1 .. Len(queue) /\ DOMAIN queue' = 1 .. Len(queue) + 1 /\ Len(queue) \in Nat
      /\ \A i \in 1 .. Len(queue) : queue'[i] = queue[i]
      /\ queue'[Len(queue) + 1] = q
    BY <1>2
<1>4. ASSUME NEW i \in DOMAIN queue', queue'[i].kind = "end" PROVE i \in DOMAIN queue /\ queue'[i] = queue[i]
    BY <1>1, <1>3, <1>4
<1> QED
    BY <1>4 DEF TurnInv, OneTurn, Idle, Ending

\* A turn that changes without having been opening, open or ending.
LEMMA TurnChanges ==
    ASSUME TypeOK, TurnInv, UNCHANGED <<queue, active, closed>>, NEW t \in Turns, TurnTypes',
           \A u \in Turns \ {t} : turn'[u] = turn[u],
           turn[t].phase # "ending",
           turn'[t].phase \in {"resuming", "open"} => turn'[t].run \in Turns,
           turn'[t].phase # "ending",
           IF turn'[t].phase = "open" THEN current' = t /\ current = None ELSE current' = current /\ turn[t].phase # "open"
    PROVE  TurnInv'
<1>1. ASSUME NEW u \in Turns, turn'[u].phase \in {"open", "ending"} PROVE current' = u
    <2>1. CASE u = t
        BY <1>1, <2>1
    <2>2. CASE u # t
        BY <1>1, <2>2, TurnsAssumption DEF TurnInv, OneTurn
    <2> QED
        BY <2>1, <2>2
<1>2. ASSUME NEW u \in Turns, turn'[u].phase \in {"resuming", "open", "ending"} PROVE turn'[u].run \in Turns
    BY <1>2 DEF TurnInv
<1> QED
    BY <1>1, <1>2 DEF TurnInv, OneTurn, Idle, Ending

LEMMA TurnsKept ==
    ASSUME Inv, TurnTypes', [Next]_vars
    PROVE  TurnInv'
<1>0. TypeOK /\ TurnInv /\ TurnTypes' /\ turn \in [Turns -> TurnState]
    BY DEF Inv, TypeOK, TurnTypes
<1>1. ASSUME NEW kind \in Kinds, NEW arg \in 1 .. Tip \cup {None}, Ask(kind, arg) PROVE TurnInv'
    <2>0. Tip \in Nat /\ calls + 1 \in Nat /\ kind \in AllKinds
        BY <1>0, TurnsAssumption DEF TypeOK, Tip
    <2>1. Queued(kind, arg) \in Item /\ kind \in AllKinds
        BY <2>0 DEF Queued, Item
    <2> QED
        BY <1>0, <1>1, <2>1, CallsJoin DEF Ask
<1>2. ASSUME NEW token \in 1 .. calls, NEW kind \in Within, CallBack(token, kind) PROVE TurnInv'
    <2>1. CASE PartOf(token)
        <3>1. active \in InProgress /\ active.kind = "code"
            BY <1>0, <1>2, <2>1 DEF TypeOK, PartOf, Idle, CallBack
        <3>2. active' = active \/ active' = [active EXCEPT !.dropped = @ \/ token = active.id]
            BY <1>2, <2>1, TurnsAssumption DEF CallBack, Back
        <3>3. active'.kind = "code"
            BY <3>1, <3>2 DEF InProgress
        <3> QED
            BY <1>0, <1>2, <2>1, <3>1, <3>3, CallsPass DEF CallBack, PartOf, Ending
    <2>2. CASE ~PartOf(token)
        <3>1. Queued(kind, None) \in Item /\ kind \in AllKinds
            BY <1>0, TurnsAssumption DEF Queued, Item, AllKinds, TypeOK
        <3> QED
            BY <1>0, <1>2, <2>2, <3>1, CallsJoin DEF CallBack
    <2> QED
        BY <2>1, <2>2
<1>3. CASE AutoCommit \/ CommitCall \/ DiscardCall \/ RefreshCall \/ CloseCall
    BY <1>0, <1>3, CallsPass DEF AutoCommit, CommitCall, DiscardCall, RefreshCall, CloseCall, Finish, Idle, Ending, rest
<1>4. CASE Write \/ CodeEnd \/ CheckoutDiff \/ CheckoutCommit
    <2>1. ~Idle /\ active \in InProgress /\ active.kind # "end"
        BY <1>0, <1>4 DEF TypeOK, Idle, Call, Write, CodeEnd, CheckoutDiff, CheckoutCommit
    <2>2. active' = None \/ active'.kind = active.kind
        BY <1>4, <2>1 DEF InProgress, Write, CodeEnd, CheckoutDiff, CheckoutCommit, Finish, Go
    <2>3. UNCHANGED <<turn, current, queue, closed>>
        BY <1>4 DEF Write, CodeEnd, CheckoutDiff, CheckoutCommit, rest
    <2> QED
        BY <1>0, <2>1, <2>2, <2>3, CallsPass DEF Idle, Ending
<1>5. CASE \/ PutNote \/ (\E n \in DOMAIN waiting : Withdraw(n)) \/ Recording
           \/ (\E kind \in {"write", "end"} : OtherCommit(kind)) \/ UNCHANGED vars
    BY <1>0, <1>5, CallsPass DEF PutNote, Withdraw, Recording, Record, Count, Recorded, OtherCommit, rest, vars, Idle, Ending
<1>6. ASSUME NEW t \in Turns, NEW seen, turn' = [turn EXCEPT ![t].seen = seen], UNCHANGED <<queue, active, current, closed>>
      PROVE  TurnInv'
    <2>1. \A u \in Turns : turn'[u].phase = turn[u].phase /\ turn'[u].run = turn[u].run
        BY <1>0, <1>6 DEF TurnState
    <2> QED
        BY <1>0, <1>6, <2>1 DEF TurnInv, OneTurn, Idle, Ending
<1>7. ASSUME NEW t \in Turns, ThrowAway(t) PROVE TurnInv'
    BY <1>6, <1>7 DEF ThrowAway
<1>8. ASSUME NEW t \in Turns, NEW made \in BOOLEAN, NEW outcome, Deliver(t, made, outcome) PROVE TurnInv'
    <2>1. UNCHANGED <<queue, active, current, closed>>
        BY <1>8 DEF Deliver
    <2>2. turn' = turn \/ \E seen : turn' = [turn EXCEPT ![t].seen = seen]
        BY <1>8 DEF Deliver
    <2> QED
        BY <1>0, <1>6, <2>1, <2>2, CallsPass DEF Idle, Ending
<1>9. ASSUME NEW t \in Turns, NEW r \in Turns, Opened(t, r), UNCHANGED <<queue, active, closed>>,
             turn[t].phase \in {"none", "resuming"}
      PROVE  TurnInv'
    <2>1. /\ \A u \in Turns \ {t} : turn'[u] = turn[u]
          /\ IF current = None
             THEN turn'[t].phase = "open" /\ turn'[t].run = r /\ current' = t
             ELSE turn'[t].phase = "refused" /\ current' = current
        BY <1>0, <1>9 DEF Opened, Phase, TurnState
    <2> QED
        BY <1>0, <1>9, <2>1, TurnChanges
<1>10. ASSUME NEW t \in Turns, NEW r \in Turns, NewTurn(t) \/ ResumeTurn(t, r) \/ Resumed(t) PROVE TurnInv'
    <2>1. CASE NewTurn(t)
        BY <1>9, <2>1 DEF NewTurn, Unopened, calm
    <2>2. CASE Resumed(t)
        BY <1>0, <1>9, <2>2 DEF Resumed, calm, TurnInv
    <2>3. CASE ResumeTurn(t, r)
        <3>1. /\ \A u \in Turns \ {t} : turn'[u] = turn[u]
              /\ turn'[t].phase = "resuming" /\ turn'[t].run = r
            BY <1>0, <2>3 DEF ResumeTurn, TurnState
        <3> QED
            BY <1>0, <2>3, <3>1, TurnChanges DEF ResumeTurn, Unopened, calm
    <2> QED
        BY <1>10, <2>1, <2>2, <2>3
<1>11. ASSUME NEW t \in Turns, End(t) PROVE TurnInv'
    <2> DEFINE q == [id |-> None, kind |-> "end", arg |-> t]
    <2>1. turn[t].phase = "open" /\ turn[t].run \in Turns /\ current = t
        BY <1>0, <1>11 DEF End, TurnInv, OneTurn
    <2>2. /\ \A u \in Turns \ {t} : turn'[u] = turn[u]
          /\ turn'[t].phase = "ending" /\ turn'[t].run = turn[t].run
        BY <1>0, <1>11 DEF End, Phase, TurnState
    <2>3. queue' = Append(queue, q) /\ queue \in Seq(Item) /\ q \in Item
        BY <1>0, <1>11 DEF End, TypeOK, Item
    <2>4. q.kind = "end" /\ q.arg = t
        OBVIOUS
    <2> HIDE DEF q
    <2>5. /\ DOMAIN queue = 1 .. Len(queue) /\ DOMAIN queue' = 1 .. Len(queue) + 1 /\ Len(queue) \in Nat
          /\ \A i \in 1 .. Len(queue) : queue'[i] = queue[i]
          /\ queue'[Len(queue) + 1] = q
        BY <2>3
    <2>6. ASSUME NEW i \in DOMAIN queue, queue[i].kind = "end" PROVE queue[i].arg # t
        BY <1>0, <2>1, <2>6 DEF TurnInv
    <2>7. Ending => active.arg # t
        BY <1>0, <2>1 DEF TurnInv
    <2>8. UNCHANGED <<active, current, closed>>
        BY <1>11 DEF End
    <2>9. ASSUME NEW i \in DOMAIN queue', queue'[i].kind = "end"
          PROVE  /\ queue'[i].arg \in Turns /\ turn'[queue'[i].arg].phase = "ending"
                 /\ Ending => active.arg # queue'[i].arg
                 /\ \A j \in DOMAIN queue' : queue'[j].kind = "end" /\ queue'[j].arg = queue'[i].arg => i = j
        <3>1. CASE i = Len(queue) + 1
            BY <2>2, <2>4, <2>5, <2>6, <2>7, <3>1
        <3>2. CASE i \in DOMAIN queue
            <4>1. queue[i].arg \in Turns /\ turn[queue[i].arg].phase = "ending" /\ queue[i].arg # t
                BY <1>0, <2>5, <2>6, <2>9, <3>2 DEF TurnInv
            <4> QED
                BY <1>0, <2>2, <2>4, <2>5, <2>9, <3>2, <4>1 DEF TurnInv
        <3> QED
            BY <2>5, <3>1, <3>2
    <2>10. Ending => active.arg \in Turns /\ turn'[active.arg].phase = "ending"
        BY <1>0, <2>2, <2>7 DEF TurnInv
    <2>11. \A u \in Turns : /\ turn'[u].phase \in {"open", "ending"} => current' = u
                            /\ turn'[u].phase \in {"resuming", "open", "ending"} => turn'[u].run \in Turns
        BY <1>0, <2>1, <2>2, <2>8 DEF TurnInv, OneTurn
    <2> QED
        BY <1>0, <2>8, <2>9, <2>10, <2>11 DEF TurnInv, OneTurn, Idle, Ending
\* A turn's end goes.
<1>12. ASSUME NEW t \in Turns, turn[t].phase = "ending", current' = IF current = t THEN None ELSE current,
              turn'[t].phase = "ended", \A u \in Turns \ {t} : turn'[u] = turn[u]
       PROVE  \A u \in Turns : /\ turn'[u].phase \in {"open", "ending"} => current' = u /\ turn'[u] = turn[u]
                               /\ turn'[u].phase \in {"resuming", "open", "ending"} => turn'[u].run \in Turns
    BY <1>0, <1>12 DEF TurnInv, OneTurn
<1>13. CASE (\E ok \in BOOLEAN : EndStore(ok)) \/ EndCommit
    <2> DEFINE t == active.arg
    <2>1. Ending /\ active \in InProgress /\ t \in Turns /\ turn[t].phase = "ending" /\ ~closed
        BY <1>0, <1>13 DEF EndStore, EndCommit, Call, Ending, TurnInv, TypeOK, Idle
    <2>2. CASE UNCHANGED <<turn, current>> /\ Go("commit")
        <3>1. active'.arg = active.arg /\ UNCHANGED <<closed, queue>>
            BY <1>13, <2>1, <2>2 DEF Go, InProgress, EndStore, EndCommit
        <3> QED
            BY <1>0, <2>1, <2>2, <3>1, CallsPass
    <2>3. CASE active' = None /\ current' = IF current = t THEN None ELSE current
        <3>1. turn'[t].phase = "ended" /\ (\A u \in Turns \ {t} : turn'[u] = turn[u]) /\ UNCHANGED <<closed, queue>>
            <4>1. CASE EndCommit
                BY <1>0, <2>1, <4>1 DEF EndCommit, TurnState
            <4>2. ASSUME NEW ok \in BOOLEAN, EndStore(ok) PROVE Phase(t, "ended") /\ UNCHANGED <<closed, queue>>
                <5>1. ~ok
                    BY <2>1, <2>3, <4>2, Updated, TurnsAssumption DEF EndStore, Go
                <5> QED
                    BY <4>2, <5>1 DEF EndStore
            <4> QED
                BY <1>0, <1>13, <2>1, <4>1, <4>2 DEF Phase, TurnState
        <3>2. \A u \in Turns : /\ turn'[u].phase \in {"open", "ending"} => current' = u /\ turn'[u] = turn[u]
                               /\ turn'[u].phase \in {"resuming", "open", "ending"} => turn'[u].run \in Turns
            BY <1>12, <2>1, <2>3, <3>1
        <3>3. \A i \in DOMAIN queue : queue[i].kind = "end" => queue[i].arg # t
            BY <1>0, <2>1 DEF TurnInv
        <3>4. ~Ending' /\ Idle'
            BY <2>3 DEF Ending, Idle
        <3> HIDE DEF t
        <3> QED
            BY <1>0, <3>1, <3>2, <3>3, <3>4 DEF TurnInv, OneTurn
    <2> QED
        BY <1>13, <2>2, <2>3 DEF EndStore, EndCommit, Release, Finish
<1>14. CASE Start
    <2> DEFINE h == Head(queue)
    <2>1. /\ h \in Item /\ h = queue[1] /\ 1 \in DOMAIN queue /\ Len(queue) \in Nat
          /\ DOMAIN queue = 1 .. Len(queue) /\ DOMAIN queue' = 1 .. Len(queue) - 1
          /\ \A i \in DOMAIN queue' : queue'[i] = queue[i + 1] /\ i + 1 \in DOMAIN queue
        BY <1>0, <1>14 DEF Start, TypeOK
    <2>2. Idle /\ closed' = closed
        BY <1>14 DEF Start
    <2>3. h.kind = "end" => h.arg \in Turns /\ turn[h.arg].phase = "ending"
        BY <1>0, <2>1 DEF TurnInv
    <2>4. ASSUME NEW i \in DOMAIN queue', queue'[i].kind = "end"
          PROVE  /\ queue'[i].arg \in Turns /\ turn[queue'[i].arg].phase = "ending"
                 /\ h.kind = "end" => queue'[i].arg # h.arg
                 /\ \A j \in DOMAIN queue' : queue'[j].kind = "end" /\ queue'[j].arg = queue'[i].arg => i = j
        <3>1. i + 1 \in DOMAIN queue /\ queue'[i] = queue[i + 1] /\ i + 1 # 1
            BY <2>1
        <3>2. queue'[i].arg \in Turns /\ turn[queue'[i].arg].phase = "ending"
            BY <1>0, <2>4, <3>1 DEF TurnInv
        <3>3. h.kind = "end" => queue'[i].arg # h.arg
            BY <1>0, <2>1, <2>4, <3>1 DEF TurnInv
        <3>4. ASSUME NEW j \in DOMAIN queue', queue'[j].kind = "end", queue'[j].arg = queue'[i].arg PROVE i = j
            <4>1. j + 1 \in DOMAIN queue /\ queue'[j] = queue[j + 1]
                BY <2>1
            <4>2. i + 1 = j + 1
                BY <1>0, <2>4, <3>1, <3>4, <4>1 DEF TurnInv
            <4> QED
                BY <2>1, <4>2
        <3> QED
            BY <3>2, <3>3, <3>4
    <2> HIDE DEF h
    <2>5. CASE closed /\ h.kind # "close" /\ h.kind = "end"
        <3>1. /\ turn' = [turn EXCEPT ![h.arg].phase = "ended"] /\ active' = None
              /\ current' = IF current = h.arg THEN None ELSE current
            BY <1>14, <2>5 DEF Start, h
        <3>2. turn'[h.arg].phase = "ended" /\ \A u \in Turns \ {h.arg} : turn'[u] = turn[u]
            BY <1>0, <2>3, <2>5, <3>1 DEF TurnState
        <3>3. \A u \in Turns : /\ turn'[u].phase \in {"open", "ending"} => current' = u /\ turn'[u] = turn[u]
                               /\ turn'[u].phase \in {"resuming", "open", "ending"} => turn'[u].run \in Turns
            BY <1>12, <2>3, <2>5, <3>1, <3>2
        <3>4. ~Ending' /\ Idle'
            BY <3>1 DEF Ending, Idle
        <3> QED
            BY <2>2, <2>4, <2>5, <3>2, <3>3, <3>4 DEF TurnInv, OneTurn
    <2>6. CASE closed /\ h.kind # "close" /\ h.kind # "end"
        <3>1. active' = None /\ UNCHANGED <<turn, current>>
            BY <1>14, <2>6 DEF Start, h
        <3>2. ~Ending' /\ Idle'
            BY <3>1 DEF Ending, Idle
        <3> QED
            BY <1>0, <2>2, <2>4, <3>1, <3>2 DEF TurnInv, OneTurn
    <2>7. CASE ~closed \/ h.kind = "close"
        <3>1. Begin(h) /\ UNCHANGED <<turn, current>>
            BY <1>14, <2>7 DEF Start, h
        <3>2. active'.kind = h.kind /\ active'.arg = h.arg
            BY <3>1 DEF Begin
        <3> QED
            BY <1>0, <2>2, <2>3, <2>4, <2>7, <3>1, <3>2 DEF TurnInv, OneTurn, Ending
    <2> QED
        BY <2>5, <2>6, <2>7
<1> QED
    BY <1>1, <1>2, <1>3, <1>4, <1>5, <1>7, <1>8, <1>10, <1>11, <1>13, <1>14 DEF Next, Calling, Running, Turning

-----------------------------------------------------------------------------
(* What an end stores.                                                      *)

LEMMA KeysApart ==
    /\ \A r : RunKey(r) # File /\ RunKey(r) # Index /\ \A k : RunKey(r) # <<"fold", k>>
    /\ \A r, q : RunKey(r) = RunKey(q) => r = q
BY DEF RunKey, File, Index

LEMMA ByMore ==
    ASSUME NEW f, NEW T, NEW U, T \subseteq U, By(f, T)
    PROVE  By(f, U)
BY DEF By

LEMMA ByWith ==
    ASSUME NEW f, NEW T, By(f, T), NEW k, NEW v, \A r \in Turns : k # RunKey(r)
    PROVE  By(With(f, k, v), T)
BY DEF By, With, Has

\* Steps that leave what is stored alone.
LEMMA StorePass ==
    ASSUME StoreInv, UNCHANGED <<branch, pending>>, Storing' = Storing, Ended \subseteq Ended',
           \A t \in Storing : turn'[t] = turn[t]
    PROVE  StoreInv'
<1>1. ASSUME NEW c \in DOMAIN branch' PROVE By(At(c), Ended)'
    BY <1>1 DEF StoreInv, By, At, Has
<1>2. By(pending, Ended \cup Storing)'
    BY DEF StoreInv, By, Has
<1> QED
    BY <1>1, <1>2 DEF StoreInv, Has

\* Calls that are no ends.
LEMMA StoreCalls ==
    ASSUME NEW T, T = Ended, TreeOK(T)', Storing' = {}, T \subseteq Ended'
    PROVE  StoreInv'
<1>1. ASSUME NEW c \in DOMAIN branch' PROVE By(At(c)', Ended')
    BY ByMore DEF TreeOK
<1>2. By(pending', Ended')
    BY ByMore DEF TreeOK
<1> QED
    BY <1>1, <1>2 DEF StoreInv, By

LEMMA StoreKept ==
    ASSUME Inv, [Next]_vars, TypeOK'
    PROVE  StoreInv'
<1>0. TypeOK /\ TurnInv /\ StoreInv /\ turn \in [Turns -> TurnState] /\ Tip \in DOMAIN branch
    <2>1. TypeOK /\ TurnInv /\ StoreInv
        BY DEF Inv
    <2>2. branch \in Seq(Range(branch)) /\ base \in DOMAIN branch /\ turn \in [Turns -> TurnState]
        BY <2>1 DEF TypeOK
    <2> QED
        BY <2>1, <2>2 DEF Tip
<1>1. PICK T : T = Ended
    OBVIOUS
<1>2. \A t \in Storing : turn[t].phase = "ending" /\ turn[t].run \in Turns /\ Ending
    BY <1>0 DEF Storing, Call, TurnInv, Ending
<1>3. Storing = {} => TreeOK(T)
    BY <1>0, <1>1 DEF StoreInv, TreeOK, TypeOK
<1>4. ASSUME UNCHANGED turn PROVE T = Ended'
    BY <1>1, <1>4 DEF Ended
<1>5. ASSUME UNCHANGED active PROVE Storing' = Storing
    BY <1>5 DEF Storing, Call, Idle
<1>6. ASSUME active' = None PROVE Storing' = {}
    BY <1>6 DEF Storing, Call, Idle
<1>7. ASSUME ~Ending PROVE Storing = {}
    BY <1>7 DEF Storing, Call, Ending
<1>8. ASSUME ~Ending' PROVE Storing' = {}
    BY <1>8 DEF Storing, Call, Ending

\* Calls.
<1>11. ASSUME NEW info, CommitPending(info), ~Ending, ~Ending', UNCHANGED turn PROVE StoreInv'
    <2>1. TreeOK(T)'
        BY <1>3, <1>7, <1>11, CommitBy
    <2> QED
        BY <1>1, <1>4, <1>8, <1>11, <2>1, StoreCalls
<1>12. ASSUME pending' = Empty, UNCHANGED branch, ~Ending, ~Ending', UNCHANGED turn PROVE StoreInv'
    <2>1. TreeOK(T)'
        BY <1>3, <1>7, <1>12 DEF TypeOK, TreeOK, At, By, Has, Empty
    <2> QED
        BY <1>1, <1>4, <1>8, <1>12, <2>1, StoreCalls
<1>13. CASE AutoCommit
    <2>1. ~Ending /\ ~Ending' /\ UNCHANGED turn
        BY <1>13 DEF AutoCommit, Finish, Ending, Idle, rest
    <2>2. CommitPending(None) \/ UNCHANGED tree
        BY <1>13 DEF AutoCommit
    <2>3. CASE UNCHANGED tree
        BY <1>0, <1>4, <1>1, <1>7, <1>8, <2>1, <2>3, StorePass DEF tree
    <2> QED
        BY <1>11, <2>1, <2>2, <2>3
<1>14. CASE CommitCall \/ DiscardCall \/ RefreshCall \/ CloseCall
    <2>1. ~Ending /\ ~Ending' /\ UNCHANGED turn
        BY <1>14 DEF CommitCall, DiscardCall, RefreshCall, CloseCall, Call, Finish, Ending, Idle, rest
    <2>2. CommitPending(None) \/ (pending' = Empty /\ UNCHANGED branch)
        BY <1>14 DEF CommitCall, DiscardCall, RefreshCall, CloseCall, Discard, Refresh
    <2> QED
        BY <1>11, <1>12, <2>1, <2>2
<1>15. ASSUME Write \/ CodeEnd \/ CheckoutDiff \/ CheckoutCommit PROVE ~Ending /\ ~Ending' /\ UNCHANGED turn
    <2>1. ~Idle /\ active \in InProgress /\ active.kind # "end"
        BY <1>0, <1>15 DEF TypeOK, Idle, Call, Write, CodeEnd, CheckoutDiff, CheckoutCommit
    <2>2. active' = None \/ active'.kind = active.kind
        BY <1>15, <2>1 DEF InProgress, Write, CodeEnd, CheckoutDiff, CheckoutCommit, Finish, Go
    <2> QED
        BY <1>15, <2>1, <2>2 DEF Ending, Idle, Write, CodeEnd, CheckoutDiff, CheckoutCommit, rest
<1>16. CASE Write
    <2>1. pending' = With(pending, File, writes + 1) /\ UNCHANGED <<branch, base>>
        BY <1>16 DEF Write, Put
    <2>2. By(pending', T)
        BY <1>3, <1>7, <1>15, <1>16, <2>1, ByWith, KeysApart DEF TreeOK
    <2>3. TreeOK(T)'
        BY <1>3, <1>7, <1>15, <1>16, <2>1, <2>2 DEF TreeOK, At, By, Has
    <2> QED
        BY <1>1, <1>4, <1>8, <1>15, <1>16, <2>3, StoreCalls
<1>17. CASE CodeEnd
    BY <1>0, <1>1, <1>4, <1>7, <1>8, <1>15, <1>17, StorePass DEF CodeEnd, tree
<1>18. CASE CheckoutDiff
    <2> DEFINE target == At(active.arg)
               differing == Differ(At(Tip), target)
               moved == [k \in differing |-> IF Has(target, k) THEN target[k] ELSE None]
    <2>1. (pending' = Empty \/ pending' = moved) /\ UNCHANGED branch
        BY <1>18 DEF CheckoutDiff
    <2>2. TreeOK(T)
        BY <1>3, <1>7, <1>15, <1>18
    <2>3. CASE pending' = moved
        <3>1. active.arg \in DOMAIN branch
            BY <1>18 DEF Inv, AskedInv, CheckoutDiff, Call
        <3>2. By(target, T)
            BY <2>2, <3>1 DEF TreeOK
        <3>3. By(moved, T)
            BY <3>2 DEF By, Has
        <3> HIDE DEF moved
        <3>4. TreeOK(T)'
            BY <2>1, <2>2, <2>3, <3>3 DEF TreeOK, TypeOK, At, By, Has
        <3> QED
            BY <1>1, <1>4, <1>8, <1>15, <1>18, <3>4, StoreCalls
    <2> QED
        BY <1>12, <1>15, <1>18, <2>1, <2>3
<1>19. CASE CheckoutCommit
    BY <1>11, <1>15, <1>19 DEF CheckoutCommit
<1>20. ASSUME NEW token \in 1 .. calls, NEW kind \in Within, CallBack(token, kind) PROVE StoreInv'
    <2>1. CASE PartOf(token)
        <3>1. active \in InProgress /\ active.kind = "code" /\ UNCHANGED turn
            BY <1>0, <1>20, <2>1 DEF TypeOK, PartOf, Idle, CallBack
        <3>2. active' = active \/ active' = [active EXCEPT !.dropped = @ \/ token = active.id]
            BY <1>20, <2>1, TurnsAssumption DEF CallBack, Back
        <3>3. ~Ending /\ ~Ending'
            BY <3>1, <3>2 DEF InProgress, Ending
        <3>4. CommitPending(None) \/ (pending' = Empty /\ UNCHANGED branch)
            BY <1>20, <2>1, TurnsAssumption DEF CallBack, Back, Discard, Refresh
        <3> QED
            BY <1>11, <1>12, <3>1, <3>3, <3>4
    <2>2. CASE ~PartOf(token)
        <3>1. UNCHANGED <<branch, pending, active, turn>>
            BY <1>20, <2>2 DEF CallBack, tree
        <3> QED
            BY <1>0, <1>1, <1>4, <1>5, <3>1, StorePass
    <2> QED
        BY <2>1, <2>2

\* What leaves the calls alone.
<1>21. ASSUME NEW t \in Turns, turn[t].phase \notin {"ending", "ended"}, \A u \in Turns \ {t} : turn'[u] = turn[u],
              UNCHANGED <<branch, pending, active>>
       PROVE  StoreInv'
    <2>1. Ended \subseteq Ended'
        BY <1>21 DEF Ended
    <2>2. \A u \in Storing : turn'[u] = turn[u]
        BY <1>2, <1>21 DEF Storing
    <2> QED
        BY <1>0, <1>5, <1>21, <2>1, <2>2, StorePass
<1>22. CASE Turning
    <2> SUFFICES ASSUME NEW t \in Turns, NEW r \in Turns, NEW made \in BOOLEAN, NEW outcome,
                        NewTurn(t) \/ ResumeTurn(t, r) \/ Resumed(t) \/ Deliver(t, made, outcome) \/ ThrowAway(t) \/ End(t)
                 PROVE  StoreInv'
        BY <1>22 DEF Turning
    <2>1. UNCHANGED <<branch, pending, active>> /\ (turn' = turn \/ turn[t].phase \notin {"ending", "ended"})
        <3>1. CASE Deliver(t, made, outcome)
            BY <3>1 DEF Deliver, tree
        <3>2. CASE ~Deliver(t, made, outcome)
            BY <3>2 DEF NewTurn, ResumeTurn, Resumed, ThrowAway, End, Unopened, calm, tree
        <3> QED
            BY <3>1, <3>2
    <2>2. \A u \in Turns \ {t} : turn'[u] = turn[u]
        BY <1>0 DEF NewTurn, ResumeTurn, Resumed, Deliver, ThrowAway, End, Opened, Phase
    <2>3. CASE turn' = turn
        BY <1>0, <1>1, <1>4, <1>5, <2>1, <2>3, StorePass
    <2> QED
        BY <1>21, <2>1, <2>2, <2>3
<1>23. CASE \/ (\E kind \in Kinds, arg \in 1 .. Tip \cup {None} : Ask(kind, arg)) \/ PutNote
            \/ (\E n \in DOMAIN waiting : Withdraw(n)) \/ Record \/ Count \/ UNCHANGED vars
    <2>1. UNCHANGED <<branch, pending, active, turn>>
        BY <1>23 DEF Ask, PutNote, Withdraw, Record, Count, vars, tree
    <2> QED
        BY <1>0, <1>1, <1>4, <1>5, <2>1, StorePass
<1>24. CASE Recorded
    <2>1. /\ UNCHANGED <<branch, active, turn>>
          /\ pending' = pending \/ \E k, v : pending' = With(pending, <<"fold", k>>, v)
        BY <1>24 DEF Recorded, Put
    <2>2. CASE pending' = pending
        BY <1>0, <1>1, <1>4, <1>5, <2>1, <2>2, StorePass
    <2>3. ASSUME NEW k, NEW v, pending' = With(pending, <<"fold", k>>, v) PROVE StoreInv'
        <3>1. \A r : /\ Has(pending', RunKey(r)) <=> Has(pending, RunKey(r))
                     /\ Has(pending, RunKey(r)) => pending'[RunKey(r)] = pending[RunKey(r)]
            BY <2>3, KeysApart DEF With, Has
        <3>2. Ended' = Ended /\ Storing' = Storing
            BY <1>1, <1>4, <1>5, <2>1
        <3>3. By(pending, Ended \cup Storing)'
            BY <1>0, <3>1, <3>2 DEF StoreInv, By
        <3>4. \A t \in Storing : turn'[t] = turn[t]
            BY <2>1
        <3> QED
            BY <1>0, <1>2, <2>1, <3>1, <3>2, <3>3, <3>4 DEF StoreInv, At, By
    <2> QED
        BY <2>1, <2>2, <2>3
<1>25. ASSUME NEW kind \in {"write", "end"}, OtherCommit(kind) PROVE StoreInv'
    <2>1. UNCHANGED <<pending, active, turn>>
        BY <1>25 DEF OtherCommit, rest
    <2>2. PICK k, v : /\ branch' = Append(branch, [tree |-> With(At(Tip), k, v), stamp |-> None])
                      /\ k \in {File, Index}
        BY <1>25 DEF OtherCommit
    <2>3. By(With(At(Tip), k, v), Ended)
        BY <1>0, <2>2, ByWith, KeysApart DEF StoreInv
    <2> DEFINE new == With(At(Tip), k, v)
    <2> HIDE DEF new
    <2>4. /\ DOMAIN branch' = 1 .. Tip + 1 /\ DOMAIN branch = 1 .. Tip
          /\ \A i \in DOMAIN branch : branch'[i] = branch[i]
          /\ branch'[Tip + 1] = [tree |-> new, stamp |-> None]
        BY <1>0, <2>2, AppendAny DEF TypeOK, Tip, new
    <2>5. Ended' = Ended /\ Storing' = Storing
        BY <1>1, <1>4, <1>5, <2>1
    <2>6. ASSUME NEW c \in DOMAIN branch' PROVE By(At(c)', Ended)
        <3>1. CASE c \in DOMAIN branch
            BY <1>0, <2>4, <3>1 DEF StoreInv, At
        <3>2. CASE c = Tip + 1
            BY <2>3, <2>4, <3>2 DEF At, new
        <3> QED
            BY <2>4, <3>1, <3>2 DEF Tip
    <2> QED
        BY <1>0, <2>1, <2>5, <2>6 DEF StoreInv, By
<1>26. CASE Start
    <2>1. ~Ending /\ UNCHANGED <<branch, pending>>
        BY <1>26 DEF Start, Ending, tree
    <2>2. Storing' = {}
        BY <1>26, <1>6 DEF Start, Begin, Storing, Call
    <2>3. Ended \subseteq Ended'
        <3>1. turn' = turn \/ turn' = [turn EXCEPT ![Head(queue).arg].phase = "ended"]
            BY <1>26 DEF Start
        <3> QED
            BY <1>0, <3>1 DEF Ended, TurnState
    <2>4. Storing = {}
        BY <1>7, <2>1
    <2> QED
        BY <1>0, <2>1, <2>2, <2>3, <2>4, StorePass

\* An end.
<1>30. ASSUME NEW t \in Turns, t = active.arg, Ending PROVE turn[t].phase = "ending" /\ turn[t].run \in Turns
    BY <1>0, <1>30 DEF TurnInv
<1>31. ASSUME NEW ok \in BOOLEAN, EndStore(ok) PROVE StoreInv'
    <2>1. Ending /\ active.arg \in Turns /\ active \in InProgress /\ Storing = {}
        BY <1>0, <1>31 DEF EndStore, Call, Ending, TurnInv, Storing, TypeOK, Idle
    <2>2. PICK t \in Turns : t = active.arg
        BY <2>1
    <2>3. TreeOK(T)
        BY <1>3, <2>1
    <2>4. CASE ok
        <3> DEFINE k == RunKey(turn[t].run)
                   v == <<t, turn[t].seen>>
        <3>1. PICK ind : pending' = With(With(pending, Index, ind), k, v)
            BY <1>31, <2>2, <2>4 DEF EndStore, RunKey
        <3>2. UNCHANGED <<branch, base, turn>> /\ active' = [active EXCEPT !.step = "commit"]
            BY <1>31, <2>4 DEF EndStore, Go
        <3>3. active' \in InProgress /\ active'.arg = t /\ active'.kind = "end" /\ active'.step = "commit"
            <4>1. active' \in InProgress
                BY <2>1, <3>2, Updated
            <4>2. active.kind = "end"
                BY <2>1 DEF Ending
            <4> QED
                BY <2>1, <2>2, <3>2, <4>1, <4>2 DEF InProgress
        <3>4. Storing' = {t} /\ Ended' = Ended
            BY <1>1, <1>4, <3>2, <3>3, TurnsAssumption DEF Storing, Call, Idle
        <3>5. By(With(pending, Index, ind), Ended)
            BY <1>1, <2>3, ByWith, KeysApart DEF TreeOK
        <3>6. By(pending', Ended \cup {t})
            <4> SUFFICES ASSUME NEW r \in Turns, Has(pending', RunKey(r)), pending'[RunKey(r)] # None
                         PROVE  pending'[RunKey(r)][1] \in Ended \cup {t}
                BY DEF By
            <4>1. CASE RunKey(r) = k
                BY <3>1, <4>1 DEF With
            <4>2. CASE RunKey(r) # k
                <5>1. Has(With(pending, Index, ind), RunKey(r)) /\ pending'[RunKey(r)] = With(pending, Index, ind)[RunKey(r)]
                    BY <3>1, <4>2 DEF With, Has
                <5> QED
                    BY <3>5, <5>1 DEF By
            <4> QED
                BY <4>1, <4>2
        <3>7. Has(pending', k) /\ pending'[k] = v
            BY <3>1 DEF With, Has
        <3> QED
            BY <1>0, <3>2, <3>4, <3>6, <3>7 DEF StoreInv, At, By
    <2>5. CASE ~ok
        <3>1. active' = None /\ UNCHANGED <<branch, base, pending>> /\ turn' = [turn EXCEPT ![t].phase = "ended"]
            BY <1>31, <2>2, <2>5 DEF EndStore, Finish, Phase
        <3>2. Ended \subseteq Ended'
            BY <1>0, <3>1 DEF Ended, TurnState
        <3> QED
            BY <1>0, <1>6, <2>1, <3>1, <3>2, StorePass
    <2> QED
        BY <2>4, <2>5
<1>32. CASE EndCommit
    <2>1. Ending /\ active.arg \in Turns /\ active.arg \in Storing
        BY <1>0, <1>32 DEF EndCommit, Call, Ending, TurnInv, Storing
    <2>2. PICK t \in Turns : t = active.arg
        BY <2>1
    <2>3. PICK U : U = Ended \cup Storing
        OBVIOUS
    <2>4. Storing = {t}
        BY <2>1, <2>2 DEF Storing
    <2>5. TreeOK(U)
        BY <1>0, <2>3, ByMore DEF StoreInv, TreeOK, TypeOK
    <2>6. TreeOK(U)'
        BY <1>32, <2>2, <2>5, CommitBy DEF EndCommit
    <2>7. U = Ended'
        <3>1. turn'[t].phase = "ended" /\ \A u \in Turns \ {t} : turn'[u] = turn[u]
            BY <1>0, <1>32, <2>2 DEF EndCommit, TurnState
        <3> QED
            BY <2>3, <2>4, <3>1 DEF Ended
    <2>8. Storing' = {}
        BY <1>6, <1>32 DEF EndCommit, Finish
    <2> QED
        BY <2>6, <2>7, <2>8 DEF TreeOK, StoreInv, By
<1> QED
    BY <1>13, <1>14, <1>16, <1>17, <1>18, <1>19, <1>20, <1>22, <1>23, <1>24, <1>25, <1>26, <1>31, <1>32
    DEF Next, Calling, Running, Recording

LEMMA AskedKept ==
    ASSUME Inv, [Next]_vars
    PROVE  AskedInv'
<1>0. TypeOK /\ AskedInv /\ DOMAIN branch \subseteq DOMAIN branch'
    BY TreeStep DEF Inv
<1>1. DOMAIN branch = 1 .. Tip
    BY <1>0 DEF TypeOK, Tip
<1>2. ASSUME UNCHANGED queue, ~Idle' /\ active'.kind = "checkout" => ~Idle /\ active.kind = "checkout" /\ active'.arg = active.arg
      PROVE  AskedInv'
    BY <1>0, <1>2 DEF AskedInv
<1>3. ASSUME UNCHANGED active, NEW q \in Item, queue' = Append(queue, q), q.kind = "checkout" => q.arg \in DOMAIN branch
      PROVE  AskedInv'
    <2>1. /\ DOMAIN queue = 1 .. Len(queue) /\ DOMAIN queue' = 1 .. Len(queue) + 1 /\ Len(queue) \in Nat
          /\ \A i \in 1 .. Len(queue) : queue'[i] = queue[i]
          /\ queue'[Len(queue) + 1] = q
        BY <1>0, <1>3 DEF TypeOK
    <2>2. \A i \in DOMAIN queue' : queue'[i].kind = "checkout" => queue'[i].arg \in DOMAIN branch
        BY <1>0, <1>3, <2>1 DEF AskedInv
    <2> QED
        BY <1>0, <1>3, <2>2 DEF AskedInv, Idle
<1>4. ASSUME NEW kind \in Kinds, NEW arg \in 1 .. Tip \cup {None}, Ask(kind, arg) PROVE AskedInv'
    <2>0. Tip \in Nat /\ calls + 1 \in Nat /\ kind \in AllKinds
        BY <1>0, TurnsAssumption DEF TypeOK, Tip
    <2>1. Queued(kind, arg) \in Item /\ Queued(kind, arg).kind = kind /\ Queued(kind, arg).arg = arg
        BY <2>0 DEF Queued, Item
    <2> QED
        BY <1>1, <1>3, <1>4, <2>1 DEF Ask, Enqueue
<1>5. ASSUME NEW token \in 1 .. calls, NEW kind \in Within, CallBack(token, kind) PROVE AskedInv'
    <2>1. CASE PartOf(token)
        <3>1. active \in InProgress /\ UNCHANGED queue
            BY <1>0, <1>5, <2>1 DEF TypeOK, PartOf, Idle, CallBack
        <3>2. active' = active \/ active' = [active EXCEPT !.dropped = @ \/ token = active.id]
            BY <1>5, <2>1, TurnsAssumption DEF CallBack, Back
        <3>3. active'.kind = active.kind /\ active'.arg = active.arg
            BY <3>1, <3>2 DEF InProgress
        <3> QED
            BY <1>2, <2>1, <3>1, <3>3 DEF PartOf
    <2>2. CASE ~PartOf(token)
        <3>1. kind \in AllKinds /\ kind # "checkout" /\ calls + 1 \in Nat
            BY <1>0, TurnsAssumption DEF AllKinds, TypeOK
        <3>2. Queued(kind, None) \in Item /\ Queued(kind, None).kind = kind
            BY <3>1 DEF Queued, Item
        <3> QED
            BY <1>3, <1>5, <2>2, <3>1, <3>2 DEF CallBack, Enqueue
    <2> QED
        BY <2>1, <2>2
<1>6. ASSUME NEW t \in Turns, End(t) PROVE AskedInv'
    <2>1. [id |-> None, kind |-> "end", arg |-> t] \in Item
        BY DEF Item
    <2> QED
        BY <1>3, <1>6, <2>1 DEF End
<1>7. CASE Start
    <2>1. /\ Head(queue) = queue[1] /\ 1 \in DOMAIN queue /\ Len(queue) \in Nat
          /\ DOMAIN queue = 1 .. Len(queue) /\ DOMAIN queue' = 1 .. Len(queue) - 1
          /\ \A i \in DOMAIN queue' : queue'[i] = queue[i + 1] /\ i + 1 \in DOMAIN queue
        BY <1>0, <1>7 DEF Start, TypeOK
    <2>2. \A i \in DOMAIN queue' : queue'[i].kind = "checkout" => queue'[i].arg \in DOMAIN branch'
        BY <1>0, <2>1 DEF AskedInv
    <2>3. ~Idle' /\ active'.kind = "checkout" => active'.arg \in DOMAIN branch'
        BY <1>0, <1>7, <2>1 DEF AskedInv, Start, Begin, Idle
    <2> QED
        BY <2>2, <2>3 DEF AskedInv
<1>8. CASE AutoCommit \/ CommitCall \/ DiscardCall \/ RefreshCall \/ CloseCall \/ EndCommit
    BY <1>2, <1>8 DEF AutoCommit, CommitCall, DiscardCall, RefreshCall, CloseCall, EndCommit, Finish, Idle, rest
<1>9. CASE Write \/ CodeEnd \/ CheckoutDiff \/ CheckoutCommit \/ \E ok \in BOOLEAN : EndStore(ok)
    <2>1. ~Idle /\ active \in InProgress /\ UNCHANGED queue
        BY <1>0, <1>9 DEF TypeOK, Idle, Call, Write, CodeEnd, CheckoutDiff, CheckoutCommit, EndStore, rest
    <2>2. active' = None \/ (active'.kind = active.kind /\ active'.arg = active.arg)
        BY <1>9, <2>1 DEF InProgress, Write, CodeEnd, CheckoutDiff, CheckoutCommit, EndStore, Finish, Go
    <2> QED
        BY <1>2, <2>1, <2>2 DEF Idle
<1>10. CASE \/ PutNote \/ (\E n \in DOMAIN waiting : Withdraw(n)) \/ Recording
            \/ (\E t \in Turns : \/ NewTurn(t) \/ \E r \in Turns : ResumeTurn(t, r)
                                 \/ Resumed(t) \/ ThrowAway(t)
                                 \/ \E made \in BOOLEAN, outcome \in {"fine", "throws", "unreadable"} :
                                        Deliver(t, made, outcome))
            \/ (\E kind \in {"write", "end"} : OtherCommit(kind)) \/ UNCHANGED vars
    <2>1. UNCHANGED <<queue, active>>
        BY <1>10 DEF PutNote, Withdraw, OtherCommit, NewTurn, ResumeTurn, Resumed, Deliver, ThrowAway,
            Recording, Record, Count, Recorded, calm, rest, vars
    <2> QED
        BY <1>2, <2>1 DEF Idle
<1> QED
    BY <1>4, <1>5, <1>6, <1>7, <1>8, <1>9, <1>10 DEF Next, Calling, Running, Turning

-----------------------------------------------------------------------------
(* The notes.                                                               *)

\* Only an end stores.
LEMMA EndsStore ==
    ASSUME Inv, [Next]_vars, ~(\E ok \in BOOLEAN : EndStore(ok))
    PROVE  Storing' \subseteq Storing
<1>0. TypeOK
    BY DEF Inv
<1>1. ASSUME UNCHANGED active PROVE Storing' = Storing
    BY <1>1 DEF Storing, Call, Idle
<1>2. ASSUME ~Ending' PROVE Storing' = {}
    BY <1>2 DEF Storing, Call, Ending
<1>3. ASSUME active' = None PROVE Storing' = {}
    BY <1>3 DEF Storing, Call, Idle
<1>4. CASE Write \/ CodeEnd \/ CheckoutDiff \/ CheckoutCommit
    <2>1. ~Idle /\ active \in InProgress /\ active.kind # "end"
        BY <1>0, <1>4 DEF TypeOK, Idle, Call, Write, CodeEnd, CheckoutDiff, CheckoutCommit
    <2>2. active' = None \/ active'.kind = active.kind
        BY <1>4, <2>1 DEF InProgress, Write, CodeEnd, CheckoutDiff, CheckoutCommit, Finish, Go
    <2> QED
        BY <1>2, <1>3, <2>1, <2>2 DEF Ending
<1>5. ASSUME NEW token \in 1 .. calls, NEW kind \in Within, CallBack(token, kind) PROVE Storing' \subseteq Storing
    <2>1. CASE PartOf(token)
        <3>1. active \in InProgress /\ active.kind = "code"
            BY <1>0, <1>5, <2>1 DEF TypeOK, PartOf, Idle, CallBack
        <3>2. active' = active \/ active' = [active EXCEPT !.dropped = @ \/ token = active.id]
            BY <1>5, <2>1, TurnsAssumption DEF CallBack, Back
        <3>3. ~Ending'
            BY <3>1, <3>2 DEF InProgress, Ending
        <3> QED
            BY <1>2, <3>3
    <2>2. CASE ~PartOf(token)
        BY <1>1, <1>5, <2>2 DEF CallBack
    <2> QED
        BY <2>1, <2>2
<1>6. CASE Start
    BY <1>3, <1>6 DEF Start, Begin, Storing, Call
<1>7. CASE AutoCommit \/ CommitCall \/ DiscardCall \/ RefreshCall \/ CloseCall \/ EndCommit
    BY <1>3, <1>7 DEF AutoCommit, CommitCall, DiscardCall, RefreshCall, CloseCall, EndCommit, Finish
<1>8. CASE \/ (\E kind \in Kinds, arg \in 1 .. Tip \cup {None} : Ask(kind, arg))
           \/ PutNote \/ (\E n \in DOMAIN waiting : Withdraw(n)) \/ Recording \/ Turning
           \/ (\E kind \in {"write", "end"} : OtherCommit(kind)) \/ UNCHANGED vars
    BY <1>1, <1>8 DEF Ask, PutNote, Withdraw, OtherCommit, Turning, NewTurn, ResumeTurn, Resumed, Deliver, ThrowAway, End,
        Recording, Record, Count, Recorded, calm, rest, vars
<1> QED
    BY <1>4, <1>5, <1>6, <1>7, <1>8 DEF Next, Calling, Running

\* Notes that stay where they are.
LEMMA NotesPass ==
    ASSUME Inv, UNCHANGED inbox, closed => closed', Storing' \subseteq Storing,
           \A t \in Turns : /\ turn'[t].seen = turn[t].seen
                            /\ turn[t].phase \in {"ending", "ended"} => turn'[t].phase \in {"ending", "ended"},
           closed \/ Range(handed) \subseteq tardy \/ current' = current
    PROVE  NoteInv' /\ NoteTypes'
<1>1. TypeOK /\ NoteInv
    BY DEF Inv
<1>2. \A n \in DOMAIN settled : settled[n] \in Turns
    BY <1>1 DEF TypeOK
<1>3. HandedSeen'
    BY <1>1 DEF NoteInv, HandedSeen, inbox, TypeOK
<1>4. SettledSeen'
    BY <1>1, <1>2 DEF NoteInv, SettledSeen, inbox
<1>5. NoteTypes'
    BY <1>1 DEF TypeOK, NoteTypes, inbox
<1> QED
    BY <1>1, <1>2, <1>3, <1>4, <1>5 DEF NoteInv, TardyHeld, inbox

\* Notes in their order.
LEMMA NoteOrder ==
    ASSUME Inv
    PROVE  /\ Ascending(handed) /\ Ascending(waiting) /\ \A x \in Range(handed), y \in Range(waiting) : x < y
           /\ Range(handed) \subseteq 1 .. notes /\ Range(waiting) \subseteq 1 .. notes /\ notes \in Nat
           /\ handed \in Seq(1 .. notes) /\ waiting \in Seq(1 .. notes)
           /\ \A n \in Range(handed) : n \notin Range(waiting)
<1>1. notes \in Nat /\ handed \in Seq(1 .. notes) /\ waiting \in Seq(1 .. notes) /\ Ascending(handed \o waiting)
    BY DEF Inv, TypeOK, NoteInv
<1>2. 1 .. notes \subseteq Nat
    BY <1>1
<1>3. /\ Ascending(handed) /\ Ascending(waiting) /\ \A x \in Range(handed), y \in Range(waiting) : x < y
    BY <1>1, <1>2, ConcatRises
<1>4. Range(handed) \subseteq 1 .. notes /\ Range(waiting) \subseteq 1 .. notes
    BY <1>1 DEF Range
<1> QED
    BY <1>1, <1>3, <1>4

\* A delivery that gives back what it took, or none of it, and an attempt
\* thrown away.
LEMMA NotesMove ==
    ASSUME Inv, UNCHANGED <<settled, closed>>, Storing' \subseteq Storing,
           Storing # {} => Range(handed') \subseteq tardy',
           tardy \subseteq tardy' \cup Range(handed),
           tardy' \subseteq tardy \cup Range(handed'), tardy' \cap Range(handed) \subseteq Range(handed'),
           notes' \in Nat, notes <= notes', waiting' \in Seq(1 .. notes'), handed' \in Seq(1 .. notes'),
           Ascending(handed' \o waiting'),
           \A n \in Range(handed') \cup Range(waiting') : n \in Range(handed) \cup Range(waiting) \/ n > notes,
           \A t \in Turns : turn[t].phase \in {"ending", "ended"} => turn'[t] = turn[t],
           HandedSeen'
    PROVE  NoteInv' /\ NoteTypes'
<1>1. TypeOK /\ NoteInv
    BY DEF Inv
<1>10. TardyHeld'
    BY <1>1 DEF NoteInv, TardyHeld
<1>11. tardy' \subseteq 1 .. notes' /\ 1 .. notes \subseteq 1 .. notes'
    <2>1. Range(handed') \subseteq 1 .. notes'
        BY DEF Range
    <2> QED
        BY <1>1, <2>1 DEF TypeOK
<1>2. \A n \in DOMAIN settled : settled[n] \in Turns /\ turn'[settled[n]] = turn[settled[n]] /\ n \in 1 .. notes
    BY <1>1 DEF TypeOK, NoteInv
<1>3. SettledSeen'
    BY <1>1, <1>2 DEF NoteInv, SettledSeen, TypeOK
<1>4. NoteTypes'
    BY <1>1, <1>11 DEF TypeOK, NoteTypes
<1> QED
    BY <1>1, <1>2, <1>3, <1>4, <1>10 DEF NoteInv

LEMMA NotesKept ==
    ASSUME Inv, [Next]_vars, TurnTypes', TurnInv'
    PROVE  NoteInv' /\ NoteTypes'
<1>0. TypeOK /\ TurnInv /\ NoteInv /\ turn \in [Turns -> TurnState] /\ notes \in Nat
    BY DEF Inv, TypeOK
<1>1. (\E ok \in BOOLEAN : EndStore(ok)) \/ Storing' \subseteq Storing
    BY EndsStore
<1> DEFINE S == 1 .. notes + 1
<1>2. /\ S \subseteq Nat /\ notes + 1 \in S /\ Seq(1 .. notes) \subseteq Seq(S) /\ Seq(S) \subseteq Seq(Nat)
      /\ <<>> \in Seq(1 .. notes) /\ <<notes + 1>> \in Seq(S)
      /\ Ascending(<<>>) /\ Ascending(<<notes + 1>>) /\ Range(<<>>) = {} /\ Range(<<notes + 1>>) = {notes + 1}
    <2>1. S \subseteq Nat /\ notes + 1 \in S
        BY <1>0
    <2> HIDE DEF S
    <2>2. Seq(S) \subseteq Seq(Nat)
        BY <2>1, SeqMonotonic
    <2> QED
        BY <1>0, <2>1, <2>2, Single DEF S
<1>3. handed \in Seq(S) /\ waiting \in Seq(S)
    BY <1>2, NoteOrder
<1> HIDE DEF S
<1>4. \A a, b \in Seq(S) : /\ a \o b \in Seq(S) /\ Range(a \o b) = Range(a) \cup Range(b)
                           /\ Ascending(a \o b) <=> /\ Ascending(a) /\ Ascending(b)
                                                    /\ \A x \in Range(a), y \in Range(b) : x < y
    BY <1>2, ConcatRises, Concat
<1>5. Storing # {} => Range(handed) \subseteq tardy
    BY <1>0 DEF NoteInv

\* Steps that move no note.
<1>10. ASSUME UNCHANGED <<inbox, turn, current>>, closed => closed', Storing' \subseteq Storing PROVE NoteInv' /\ NoteTypes'
    BY <1>10, NotesPass
<1>11. CASE /\ Storing' \subseteq Storing
            /\ \/ (\E kind \in Kinds, arg \in 1 .. Tip \cup {None} : Ask(kind, arg))
               \/ (\E token \in 1 .. calls, kind \in Within : CallBack(token, kind))
               \/ AutoCommit \/ CommitCall \/ DiscardCall \/ RefreshCall \/ CheckoutDiff \/ CheckoutCommit \/ CloseCall
               \/ Write \/ CodeEnd \/ (\E kind \in {"write", "end"} : OtherCommit(kind)) \/ Recording \/ UNCHANGED vars
    <2>1. UNCHANGED <<inbox, turn, current>> /\ (closed => closed')
        BY <1>0, <1>11 DEF Ask, CallBack, AutoCommit, CommitCall, DiscardCall, RefreshCall, CheckoutDiff, CheckoutCommit,
            CloseCall, Write, CodeEnd, OtherCommit, Recording, Record, Count, Recorded, rest, vars, TypeOK
    <2> QED
        BY <1>10, <1>11, <2>1
\* Turns that open, refuse or end.
<1>12. ASSUME NEW t \in Turns, NEW p \in {"resuming", "open", "refused", "ending", "ended"},
              turn[t].phase \in {"ending", "ended"} => p \in {"ending", "ended"},
              NEW f, turn' = [turn EXCEPT ![t].phase = p] \/ turn' = [turn EXCEPT ![t].phase = p, ![t].run = f]
                     \/ turn' = [turn EXCEPT ![t].phase = p, ![t].made = f]
       PROVE  \A u \in Turns : /\ turn'[u].seen = turn[u].seen
                               /\ turn[u].phase \in {"ending", "ended"} => turn'[u].phase \in {"ending", "ended"}
    BY <1>0, <1>12 DEF TurnState
<1>13. CASE Start /\ Storing' \subseteq Storing
    <2>1. UNCHANGED <<inbox, closed>>
        BY <1>13 DEF Start
    <2>2. CASE UNCHANGED <<turn, current>>
        BY <1>10, <1>13, <2>1, <2>2
    <2>3. CASE ~UNCHANGED <<turn, current>>
        <3> DEFINE t == Head(queue).arg
        <3>1. closed /\ Head(queue).kind = "end" /\ turn' = [turn EXCEPT ![t].phase = "ended"]
            BY <1>13, <2>3 DEF Start
        <3>2. t \in Turns
            <4>1. Head(queue) = queue[1] /\ 1 \in DOMAIN queue
                BY <1>0, <1>13 DEF Start, TypeOK
            <4> QED
                BY <1>0, <3>1, <4>1 DEF TurnInv
        <3> HIDE DEF t
        <3> QED
            BY <1>12, <1>13, <2>1, <3>1, <3>2, NotesPass
    <2> QED
        BY <2>2, <2>3
<1>14. CASE EndCommit /\ Storing' \subseteq Storing
    <2>1. Range(handed) \subseteq tardy /\ active.arg \in Turns
        BY <1>0, <1>5, <1>14 DEF EndCommit, Storing, Call, TurnInv, Ending
    <2>2. \E f : turn' = [turn EXCEPT ![active.arg].phase = "ended", ![active.arg].made = f]
        BY <1>14 DEF EndCommit
    <2>3. UNCHANGED <<inbox, closed>>
        BY <1>14 DEF EndCommit
    <2> QED
        BY <1>12, <1>14, <2>1, <2>2, <2>3, NotesPass
<1>15. ASSUME Storing' \subseteq Storing, NEW t \in Turns, NEW r \in Turns, NewTurn(t) \/ ResumeTurn(t, r) \/ Resumed(t) \/ End(t)
       PROVE  NoteInv' /\ NoteTypes'
    <2>1. UNCHANGED <<inbox, closed>> /\ turn[t].phase \notin {"ending", "ended"}
        BY <1>15 DEF NewTurn, ResumeTurn, Resumed, End, Unopened, calm
    <2>2. \E p \in {"resuming", "open", "refused", "ending"} : \E f :
              turn' = [turn EXCEPT ![t].phase = p] \/ turn' = [turn EXCEPT ![t].phase = p, ![t].run = f]
        BY <1>15 DEF NewTurn, ResumeTurn, Resumed, End, Opened, Phase
    <2>3. current' = current \/ current = None
        BY <1>15 DEF NewTurn, ResumeTurn, Resumed, End, Opened
    <2>4. closed \/ Range(handed) \subseteq tardy \/ current' = current
        BY <1>0, <2>3 DEF NoteInv, HandedSeen
    <2>5. \A u \in Turns : /\ turn'[u].seen = turn[u].seen
                           /\ turn[u].phase \in {"ending", "ended"} => turn'[u].phase \in {"ending", "ended"}
        BY <1>12, <2>1, <2>2
    <2> QED
        BY <1>15, <2>1, <2>4, <2>5, NotesPass

\* Steps that move notes.
<1>20. CASE PutNote /\ Storing' \subseteq Storing
    <2>1. waiting' = waiting \o <<notes + 1>>
        BY <1>2, <1>3, <1>20, AppendIsConcat DEF PutNote
    <2>2. /\ UNCHANGED <<settled, closed, handed, tardy, turn, current>> /\ notes' = notes + 1 /\ S = 1 .. notes'
        BY <1>20 DEF PutNote, S
    <2>3. waiting' \in Seq(S) /\ Range(waiting') = Range(waiting) \cup {notes + 1} /\ Ascending(waiting')
        <3>1. \A x \in Range(waiting), y \in Range(<<notes + 1>>) : x < y
            BY <1>2, NoteOrder
        <3>2. Ascending(waiting)
            BY NoteOrder
        <3> QED
            BY <1>2, <1>3, <1>4, <2>1, <3>1, <3>2
    <2>4. Ascending(handed \o waiting')
        <3>1. \A x \in Range(handed), y \in Range(waiting) \cup {notes + 1} : x < y
            BY NoteOrder
        <3> QED
            BY <1>3, <1>4, <2>3, <3>1, NoteOrder
    <2>5. HandedSeen'
        BY <1>0, <2>2 DEF NoteInv, HandedSeen, TypeOK
    <2> QED
        BY <1>0, <1>3, <1>5, <1>20, <2>2, <2>3, <2>4, <2>5, NotesMove
<1>21. ASSUME Storing' \subseteq Storing, NEW n \in DOMAIN waiting, Withdraw(n) PROVE NoteInv' /\ NoteTypes'
    <2>1. waiting' = RemoveAt(waiting, n) /\ UNCHANGED <<settled, closed, handed, tardy, turn, current, notes>>
        BY <1>21 DEF Withdraw
    <2>2. waiting' \in Seq(1 .. notes)
        BY <2>1, NoteOrder, Removing
    <2>3. Ascending(waiting') /\ Range(waiting') \subseteq Range(waiting) /\ waiting' \in Seq(S)
        <3>1. 1 .. notes \subseteq Nat /\ Ascending(waiting) /\ waiting \in Seq(1 .. notes)
            BY NoteOrder
        <3> QED
            BY <1>2, <2>1, <2>2, <3>1, RemovingRises
    <2>4. Ascending(handed \o waiting')
        BY <1>3, <1>4, <2>3, NoteOrder
    <2>5. HandedSeen'
        BY <1>0, <2>1 DEF NoteInv, HandedSeen, TypeOK
    <2> QED
        BY <1>0, <1>5, <1>21, <2>1, <2>2, <2>3, <2>4, <2>5, NoteOrder, NotesMove
<1>22. ASSUME NEW t \in Turns, turn[t].phase = "open" PROVE Storing = {} /\ current = t
    BY <1>0, <1>22 DEF Storing, Call, TurnInv, OneTurn, Ending
<1>23. ASSUME Storing' \subseteq Storing, NEW t \in Turns, ThrowAway(t) PROVE NoteInv' /\ NoteTypes'
    <2>1. /\ waiting' = handed \o waiting /\ handed' = <<>> /\ UNCHANGED <<settled, closed, current, notes>>
          /\ tardy' = tardy \ Range(handed)
          /\ turn[t].phase = "open" /\ \A u \in Turns \ {t} : turn'[u] = turn[u]
        BY <1>0, <1>23 DEF ThrowAway, Requeue
    <2>2. /\ waiting' \in Seq(1 .. notes) /\ handed' \in Seq(1 .. notes)
          /\ Range(waiting') = Range(handed) \cup Range(waiting)
        BY <1>2, <1>3, <1>4, <2>1, NoteOrder, Concat
    <2>3. Ascending(handed' \o waiting') /\ Range(handed') = {}
        BY <1>0, <1>2, <1>3, <1>4, <2>1, <2>2 DEF NoteInv
    <2>4. HandedSeen'
        BY <2>3 DEF HandedSeen
    <2> QED
        BY <1>0, <1>22, <1>23, <2>1, <2>2, <2>3, <2>4, NotesMove
<1>24. ASSUME Storing' \subseteq Storing, NEW t \in Turns, NEW made \in BOOLEAN, NEW outcome, Deliver(t, made, outcome)
       PROVE  NoteInv' /\ NoteTypes'
    <2> DEFINE fresh == IF made THEN <<notes + 1>> ELSE <<>>
               drawn == waiting \o (IF outcome = "throws" THEN <<>> ELSE fresh)
    <2>1. /\ fresh \in Seq(S) /\ Ascending(fresh) /\ Range(fresh) \subseteq {notes + 1}
          /\ fresh \in Seq(1 .. notes') /\ <<>> \in Seq(1 .. notes')
          /\ notes' \in Nat /\ notes <= notes' /\ 1 .. notes' \subseteq S
          /\ Seq(1 .. notes) \subseteq Seq(1 .. notes')
        <3>1. CASE made
            BY <1>0, <1>2, <1>24, <3>1, Single DEF Deliver, S
        <3>2. CASE ~made
            BY <1>0, <1>2, <1>24, <3>2 DEF Deliver, S
        <3> QED
            BY <3>1, <3>2
    <2>2. UNCHANGED <<settled, closed, current>> /\ turn[t].phase \in {"open", "ending", "ended"}
        BY <1>24 DEF Deliver
    <2>3. IF outcome = "unreadable" THEN waiting' = drawn /\ UNCHANGED <<handed, turn, tardy>>
          ELSE /\ waiting' = IF outcome = "throws" THEN fresh ELSE <<>>
               /\ handed' = handed \o drawn
               /\ IF turn[t].phase = "open"
                  THEN turn' = [turn EXCEPT ![t].seen = turn[t].seen \o drawn] /\ tardy' = tardy
                  ELSE tardy' = tardy \cup Range(drawn) /\ turn' = turn
        BY <1>24 DEF Deliver
    <2> DEFINE last == IF outcome = "throws" THEN <<>> ELSE fresh
    <2>4. last \in Seq(S) /\ last \in Seq(1 .. notes') /\ Ascending(last) /\ Range(last) \subseteq {notes + 1}
        BY <1>2, <2>1
    <2> HIDE DEF fresh, last
    <2>5. drawn = waiting \o last
        BY DEF last
    <2> HIDE DEF drawn
    <2>6. /\ handed \in Seq(1 .. notes') /\ waiting \in Seq(1 .. notes')
          /\ Ascending(handed) /\ Ascending(waiting) /\ notes + 1 \in S
          /\ \A x \in Range(handed) : x < notes + 1 /\ \A y \in Range(waiting) : x < y
          /\ \A x \in Range(waiting) : x < notes + 1
        BY <1>2, <2>1, NoteOrder
    <2>7. /\ drawn \in Seq(1 .. notes') /\ drawn \in Seq(S) /\ Ascending(drawn)
          /\ Range(drawn) = Range(waiting) \cup Range(last)
        <3>1. drawn \in Seq(1 .. notes')
            BY <2>4, <2>5, <2>6, Concat
        <3>2. \A x \in Range(waiting), y \in Range(last) : x < y
            BY <2>4, <2>6
        <3> QED
            BY <1>3, <1>4, <2>4, <2>5, <2>6, <3>1, <3>2
    <2>8. /\ handed \o drawn \in Seq(1 .. notes') /\ handed \o drawn \in Seq(S) /\ Ascending(handed \o drawn)
          /\ Range(handed \o drawn) = Range(handed) \cup Range(drawn)
        <3>1. handed \o drawn \in Seq(1 .. notes')
            BY <2>6, <2>7, Concat
        <3>2. \A x \in Range(handed), y \in Range(drawn) : x < y
            BY <2>4, <2>6, <2>7
        <3> QED
            BY <1>3, <1>4, <2>6, <2>7, <3>1, <3>2
    <2>9. CASE outcome = "unreadable"
        <3>1. HandedSeen'
            BY <1>0, <2>2, <2>3, <2>9 DEF NoteInv, HandedSeen, TypeOK
        <3>2. \A n \in Range(waiting') : n \in Range(waiting) \/ n > notes
            BY <1>0, <2>3, <2>4, <2>7, <2>9
        <3> QED
            BY <1>0, <1>5, <1>24, <2>1, <2>2, <2>3, <2>6, <2>7, <2>8, <2>9, <3>1, <3>2, NotesMove
    <2>10. CASE outcome # "unreadable"
        <3>1. /\ handed' = handed \o drawn
              /\ waiting' = IF outcome = "throws" THEN fresh ELSE <<>>
            BY <2>3, <2>10
        <3>2. waiting' \in Seq(S) /\ waiting' \in Seq(1 .. notes') /\ Ascending(waiting') /\ Range(waiting') \subseteq {notes + 1}
            BY <1>2, <2>1, <3>1
        <3>3. outcome = "throws" => Range(last) = {}
            BY <1>2 DEF last
        <3>4. outcome # "throws" => Range(waiting') = {}
            BY <1>2, <3>1
        <3>5. \A x \in Range(handed \o drawn), y \in Range(waiting') : x < y
            BY <2>6, <2>7, <2>8, <3>2, <3>3, <3>4
        <3>6. Ascending(handed' \o waiting')
            BY <1>4, <2>8, <3>1, <3>2, <3>5
        <3>7. \A n \in Range(handed') \cup Range(waiting') : n \in Range(handed) \cup Range(waiting) \/ n > notes
            BY <1>0, <2>4, <2>7, <2>8, <3>1, <3>2
        <3>11. Range(handed') = Range(handed) \cup Range(drawn)
            BY <2>8, <3>1
        <3>12. CASE turn[t].phase = "open"
            <4>0. turn' = [turn EXCEPT ![t].seen = turn[t].seen \o drawn] /\ tardy' = tardy
                BY <2>3, <2>10, <3>12
            <4>1. current' = t /\ t # None /\ current = t /\ Storing = {}
                BY <1>22, <2>2, <3>12, TurnsAssumption
            <4>2. \A n \in Range(handed) \ tardy : closed \/ n \in Range(turn[t].seen)
                BY <1>0, <4>1 DEF NoteInv, HandedSeen
            <4>3. Range(turn[t].seen \o drawn) = Range(turn[t].seen) \cup Range(drawn)
                <5>1. turn[t].seen \in Seq(Nat) /\ drawn \in Seq(Nat)
                    BY <1>0, <1>2, <2>7 DEF TurnState
                <5> QED
                    BY <5>1, ConcatRises
            <4>4. turn'[t].seen = turn[t].seen \o drawn /\ \A u \in Turns \ {t} : turn'[u] = turn[u]
                BY <1>0, <4>0 DEF TurnState
            <4>5. HandedSeen'
                BY <2>2, <3>11, <4>0, <4>1, <4>2, <4>3, <4>4 DEF HandedSeen
            <4> QED
                BY <1>24, <2>1, <2>2, <2>8, <3>1, <3>2, <3>6, <3>7, <3>11, <3>12, <4>0, <4>1, <4>4, <4>5, NotesMove
        <3>13. CASE turn[t].phase # "open"
            <4>0. tardy' = tardy \cup Range(drawn) /\ turn' = turn
                BY <2>3, <2>10, <3>13
            <4>1. HandedSeen'
                BY <1>0, <2>2, <3>11, <4>0 DEF NoteInv, HandedSeen
            <4>2. tardy' \subseteq tardy \cup Range(handed') /\ tardy' \cap Range(handed) \subseteq Range(handed')
                BY <3>11, <4>0
            <4> QED
                BY <1>5, <1>24, <2>1, <2>2, <2>8, <3>1, <3>2, <3>6, <3>7, <3>11, <4>0, <4>1, <4>2, NotesMove
        <3> QED
            BY <3>12, <3>13
    <2> QED
        BY <2>9, <2>10
<1>25. ASSUME NEW ok \in BOOLEAN, EndStore(ok) PROVE NoteInv' /\ NoteTypes'
    <2> DEFINE t == active.arg
    <2>1. /\ Ending /\ t \in Turns /\ turn[t].phase = "ending" /\ ~closed /\ current = t /\ active \in InProgress
          /\ UNCHANGED <<notes, closed>>
        BY <1>0, <1>25 DEF EndStore, Call, Ending, TurnInv, OneTurn, TypeOK, Idle
    <2>2. CASE ok
        <3>1. /\ settled' = [n \in DOMAIN settled \cup Range(handed) |-> IF n \in Range(handed) THEN t ELSE settled[n]]
              /\ handed' = <<>> /\ UNCHANGED <<waiting, turn, current, tardy>>
            BY <1>25, <2>2 DEF EndStore, Settled
        <3> HIDE DEF t
        <3>2. Range(handed') = {} /\ handed' \in Seq(1 .. notes) /\ Ascending(handed')
            BY <1>2, <3>1
        <3>3. Ascending(handed' \o waiting')
            BY <1>2, <1>3, <1>4, <3>1, <3>2, NoteOrder
        <3>4. HandedSeen'
            BY <3>2 DEF HandedSeen
        <3>5. ASSUME NEW n \in DOMAIN settled'
              PROVE  /\ n \in tardy \/ n \in Range(turn[settled'[n]].seen)
                     /\ n \notin Range(waiting)
                     /\ settled'[n] \in Turns /\ turn[settled'[n]].phase \in {"ending", "ended"} /\ n \in 1 .. notes
            <4>1. CASE n \in Range(handed)
                BY <1>0, <2>1, <3>1, <4>1, NoteOrder DEF NoteInv, HandedSeen
            <4>2. CASE n \notin Range(handed)
                BY <1>0, <3>1, <4>2 DEF NoteInv, SettledSeen, TypeOK
            <4> QED
                BY <4>1, <4>2
        <3>6. SettledSeen'
            BY <3>1, <3>2, <3>5 DEF SettledSeen
        <3>7. NoteTypes'
            BY <1>0, <2>1, <3>1, <3>2, <3>5, NoteOrder DEF NoteTypes, TypeOK
        <3>8. TardyHeld'
            BY <1>0, <3>1 DEF NoteInv, TardyHeld
        <3> QED
            BY <3>1, <3>2, <3>3, <3>4, <3>5, <3>6, <3>7, <3>8 DEF NoteInv
    <2>3. CASE ~ok
        <3>1. /\ waiting' = handed \o waiting /\ handed' = <<>> /\ UNCHANGED settled
              /\ tardy' = tardy \ Range(handed)
              /\ turn' = [turn EXCEPT ![t].phase = "ended"] /\ Storing' = {} /\ Storing = {}
            BY <1>25, <2>3 DEF EndStore, Requeue, Phase, Finish, Storing, Call, Idle
        <3>2. \A u \in Turns : /\ turn'[u].seen = turn[u].seen
                               /\ turn[u].phase \in {"ending", "ended"} => turn'[u].phase \in {"ending", "ended"}
            BY <1>12, <2>1, <3>1
        <3>3. /\ waiting' \in Seq(1 .. notes) /\ handed' \in Seq(1 .. notes)
              /\ Range(waiting') = Range(handed) \cup Range(waiting) /\ Range(handed') = {}
            BY <1>2, <1>3, <1>4, <3>1, NoteOrder, Concat
        <3>4. Ascending(handed' \o waiting')
            BY <1>0, <1>2, <1>3, <1>4, <3>1, <3>3 DEF NoteInv
        <3>5. HandedSeen'
            BY <3>3 DEF HandedSeen
        <3> HIDE DEF t
        <3>6. \A n \in DOMAIN settled : settled[n] \in Turns
            BY <1>0 DEF TypeOK
        <3>7. SettledSeen'
            BY <1>0, <3>1, <3>2, <3>3, <3>6 DEF NoteInv, SettledSeen
        <3>8. NoteTypes'
            BY <1>0, <2>1, <3>1, <3>3 DEF NoteTypes, TypeOK
        <3>9. TardyHeld'
            BY <1>0, <3>1 DEF NoteInv, TardyHeld
        <3> QED
            BY <1>0, <3>1, <3>2, <3>3, <3>4, <3>5, <3>6, <3>7, <3>8, <3>9 DEF NoteInv
    <2> QED
        BY <2>2, <2>3
<1> QED
    BY <1>1, <1>11, <1>13, <1>14, <1>15, <1>20, <1>21, <1>23, <1>24, <1>25 DEF Next, Calling, Running, Turning

-----------------------------------------------------------------------------

LEMMA Initially == Init => Inv
<1> SUFFICES ASSUME Init PROVE Inv
    OBVIOUS
<1>1. DOMAIN pending = {} /\ DOMAIN settled = {} /\ Range(waiting) = {} /\ Range(handed) = {} /\ handed \o waiting = <<>>
    BY DEF Init, Empty, Range
<1>2. /\ queue = <<>> /\ DOMAIN queue = {} /\ Idle /\ notes = 0 /\ current = None
      /\ waiting = <<>> /\ handed = <<>> /\ closed = FALSE
      /\ turn = [t \in Turns |-> [phase |-> "none", run |-> None, seen |-> <<>>, made |-> None]]
    BY DEF Init, Idle
<1>3. branch = <<[tree |-> Empty, stamp |-> None]>> /\ base = 1
    BY DEF Init
<1>9. tardy = {}
    BY DEF Init
<1>4. branch \in Seq(Range(branch)) /\ DOMAIN branch = {1} /\ branch[1].tree = Empty
    BY <1>3 DEF Range
<1>5. TypeOK
    <2>1. turn \in [Turns -> TurnState]
        BY <1>2 DEF TurnState
    <2>2. autocommit \in BOOLEAN /\ calls \in Nat /\ writes \in Nat /\ active = None /\ settled = Empty
        BY TurnsAssumption DEF Init
    <2>3. settled \in [DOMAIN settled -> Turns]
        BY <2>2 DEF Empty
    <2> QED
        <3>1. base \in DOMAIN branch
            BY <1>3, <1>4
        <3>2. waiting \in Seq(1 .. notes) /\ handed \in Seq(1 .. notes) /\ queue \in Seq(Item)
            BY <1>2
        <3> QED
            BY <1>1, <1>2, <1>4, <1>9, <2>1, <2>2, <2>3, <3>1, <3>2 DEF TypeOK
<1>6. TurnInv /\ AskedInv
    BY <1>2 DEF TurnInv, AskedInv, OneTurn, Ending
<1>7. StoreInv
    BY <1>1, <1>2, <1>4 DEF StoreInv, By, Has, Storing, Call, At, Empty
<1>8. NoteInv
    BY <1>1, <1>2, <1>9 DEF NoteInv, HandedSeen, SettledSeen, TardyHeld, Ascending
<1> QED
    BY <1>5, <1>6, <1>7, <1>8 DEF Inv

LEMMA Stepping == Inv /\ [Next]_vars => Inv'
<1> SUFFICES ASSUME Inv, [Next]_vars PROVE Inv'
    OBVIOUS
<1>1. TypeOK /\ TurnInv
    BY DEF Inv
<1>2. TurnTypes' /\ TreeTypes' /\ CallTypes' /\ closed' \in BOOLEAN /\ autocommit' \in BOOLEAN
    BY <1>1, TurnStep, TreeStep, CallStep
<1>3. TurnInv'
    BY <1>2, TurnsKept
<1>4. NoteInv' /\ NoteTypes'
    BY <1>2, <1>3, NotesKept
<1>5. TypeOK'
    BY <1>2, <1>4, TypeParts DEF TypeOK, TreeTypes, CallTypes, TurnTypes, NoteTypes
<1> QED
    BY <1>3, <1>4, <1>5, AskedKept, StoreKept DEF Inv

LEMMA Invariant == Spec => []Inv
BY Initially, Stepping, PTL DEF Spec

(* One turn at a time holds a workspace; the notes handed over are in what   *)
(* it will store, and a note is forgotten once, with a stored run that      *)
(* holds it, except notes delivered once an end had begun; and notes reach  *)
(* the model in the order they came (turns.ts, inbox.ts).                   *)
THEOREM TurnsStayTrue == Spec => []TurnsTrue
<1>1. Inv => TurnsTrue
    BY DEF Inv, TurnsTrue, TurnInv, NoteInv, NotesInOrder, Ascending
<1> QED
    BY <1>1, Invariant, PTL

(* An end whose commit does not conflict leaves the session at a commit with *)
(* its stamp and the run it stored, though code calls back, folds are       *)
(* recorded and other workspaces commit meanwhile (turns.ts, Turn.end).     *)
THEOREM EndsAlwaysLand == Spec => EndLands
<1>1. ASSUME Inv, [Next]_vars, Call("end", "commit"), ~Clash, active' = None
      PROVE  /\ branch'[base'].stamp = active.arg
             /\ branch'[base'].tree[<<"run", turn[active.arg].run>>] = <<active.arg, turn[active.arg].seen>>
    <2>1. TypeOK /\ TurnInv /\ StoreInv /\ ~Idle /\ active.kind = "end" /\ active' # active
        BY <1>1 DEF Inv, Call, Idle
    <2>2. EndCommit
        <3>1. ~Start
            BY <2>1 DEF Start
        <3>2. \A token, kind : ~CallBack(token, kind)
            BY <2>1 DEF CallBack, PartOf
        <3>3. ~(AutoCommit \/ CommitCall \/ DiscardCall \/ RefreshCall \/ CheckoutDiff \/ CheckoutCommit \/ CloseCall
                \/ Write \/ CodeEnd) /\ \A ok : ~EndStore(ok)
            BY <1>1 DEF AutoCommit, CommitCall, DiscardCall, RefreshCall, CheckoutDiff, CheckoutCommit, CloseCall,
                Write, CodeEnd, EndStore, Call
        <3>4. ~(Recording \/ Turning \/ PutNote \/ UNCHANGED vars) /\ (\A n : ~Withdraw(n))
              /\ (\A kind, arg : ~Ask(kind, arg)) /\ \A kind : ~OtherCommit(kind)
            BY <2>1 DEF Recording, Record, Count, Recorded, Turning, NewTurn, ResumeTurn, Resumed, Deliver, ThrowAway,
                End, PutNote, Withdraw, Ask, OtherCommit, calm, rest, vars
        <3> QED
            BY <1>1, <3>1, <3>2, <3>3, <3>4 DEF Next, Calling, Running
    <2>3. PICK t, k, v : t = active.arg /\ k = RunKey(turn[t].run) /\ v = <<t, turn[t].seen>>
        OBVIOUS
    <2>4. /\ t \in Turns /\ t \in Storing /\ turn[t].phase = "ending" /\ turn[t].run \in Turns
          /\ turn[t].seen \in Seq(Nat)
        BY <1>1, <2>1, <2>3 DEF TurnInv, Ending, Call, Storing, TypeOK, TurnState
    <2>5. k \in DOMAIN pending /\ pending[k] = v /\ v # None
        <3>1. v \in Turns \X Seq(Nat)
            BY <2>3, <2>4
        <3>2. Has(pending, RunKey(turn[t].run)) /\ pending[RunKey(turn[t].run)] = <<t, turn[t].seen>>
            BY <2>1, <2>4 DEF StoreInv
        <3> QED
            BY <2>3, <3>1, <3>2, TurnsAssumption DEF Has
    <2>6. k \in DOMAIN At(base) => At(base)[k] # v
        <3> SUFFICES ASSUME k \in DOMAIN At(base), At(base)[k] = v PROVE FALSE
            OBVIOUS
        <3>1. v[1] \in Ended
            BY <2>1, <2>3, <2>4, <2>5 DEF StoreInv, By, Has, TypeOK
        <3> QED
            BY <2>3, <2>4, <3>1 DEF Ended
    <2>7. PICK T : T = Ended \cup Storing
        OBVIOUS
    <2>8. TreeOK(T)
        BY <2>1, <2>7, ByMore DEF StoreInv, TreeOK, TypeOK
    <2>9. CommitPending(t) /\ ~Clean
        BY <2>2, <2>3, <2>5 DEF EndCommit, Clean
    <2>10. Commit(t)
        BY <1>1, <2>9 DEF CommitPending
    <2> QED
        BY <2>3, <2>5, <2>6, <2>8, <2>10, CommitKeeps DEF RunKey
<1>2. Inv /\ [Next]_vars => [(Call("end", "commit") /\ ~Clash /\ active' = None) =>
         /\ branch'[base'].stamp = active.arg
         /\ branch'[base'].tree[<<"run", turn[active.arg].run>>] = <<active.arg, turn[active.arg].seen>>]_vars
    BY <1>1
<1> QED
    BY <1>2, Invariant, PTL DEF Spec, EndLands

-----------------------------------------------------------------------------
(* The kernel: its inductive invariant.                                     *)
(*                                                                          *)
(* At most one worker is starting, for a run that has none yet, and one that *)
(* is up is the kernel's (Boots). A run is with one worker, once: on its way *)
(* to it, in it, or on its way back as done (OneRun). What the host answers, *)
(* but for host objects, is the run's in progress (CallsNow). An import a    *)
(* run asked for is of the worker's run, and its call is waited for         *)
(* (LoadsTrue).                                                             *)

Stages == {"idle", "preparing", "starting", "running", "ending"}
ToWorker == [type : {"run"}, run : Runs] \cup [type : {"reply"}, run : Runs, call : Nat]
ToHost == [type : {"done"}, run : Runs]
          \cup [type : {"call"}, run : Runs, call : Nat, target : Targets]
Kept == Runs \cup {Nobody, Astray, Loading, Loaded}
Taken == [run : Runs, during : Runs, call : Nat, target : Targets, worker : Workers]

KernelTypes ==
    /\ kclosed \in BOOLEAN
    /\ worker \in Workers \cup {Nobody} /\ booting \in Workers \cup {Nobody} /\ mine \in Workers \cup {Nobody}
    /\ proc \in [Workers -> {"none", "booting", "up", "dead"}]
    /\ up \in [Workers -> Seq(ToWorker)] /\ down \in [Workers -> Seq(ToHost)]
    /\ run \in Runs \cup {Nobody} /\ stage \in Stages
    /\ taken \in SUBSET Taken
    /\ used \in Nat /\ hostUsed \in Nat /\ elapsed \in Nat /\ spent \in BOOLEAN
    /\ cur \in [Workers -> Runs \cup {Nobody}]
    /\ unanswered \in [Workers -> SUBSET [call : Nat, target : Targets]]
    /\ asked \in [Runs -> Nat] /\ late \in Nat
    /\ behind \in [Workers -> SUBSET Runs] /\ joined \in [Workers -> SUBSET Runs]
    /\ load \in [Workers -> Kept]

Boots ==
    /\ stage # "idle" => run \in Runs
    /\ booting # Nobody => worker = Nobody /\ proc[booting] = "booting"
    /\ worker # Nobody => proc[worker] = "up"
    /\ stage = "running" => mine # Nobody
    /\ \A g \in Workers :
        /\ proc[g] = "up" => worker = g
        /\ proc[g] = "booting" => /\ stage = "starting" /\ mine = Nobody
                                  /\ \A h \in Workers : proc[h] = "booting" => h = g
        /\ proc[g] \in {"none", "booting"} => /\ up[g] = <<>> /\ down[g] = <<>> /\ cur[g] = Nobody

RunMsgs(g) == {i \in DOMAIN up[g] : up[g][i].type = "run"}
Dones(g) == {i \in DOMAIN down[g] : down[g][i].type = "done"}
Busy(g) == RunMsgs(g) # {} \/ cur[g] # Nobody \/ Dones(g) # {}
OneRunOf(g) ==
    /\ Busy(g) => stage = "running" /\ mine = g
    /\ \A i \in RunMsgs(g) : up[g][i].run = run /\ cur[g] = Nobody /\ Dones(g) = {}
    /\ \A i, j \in RunMsgs(g) : i = j
    /\ cur[g] # Nobody => cur[g] = run /\ Dones(g) = {}
    /\ \A i, j \in Dones(g) : i = j
OneRun == \A g \in Workers : proc[g] = "up" => OneRunOf(g)
CallsNow == \A c \in taken : c.target # "host" => c.run = run /\ c.during = run /\ stage \in {"running", "ending"}
ClockTrue ==
    stage = "running" =>
        /\ elapsed = used + hostUsed /\ used <= Timeout /\ hostUsed <= HostTime
        /\ spent \/ hostUsed < HostTime
LoadsTrue ==
    \A g \in Workers :
        /\ cur[g] = Nobody => unanswered[g] = {}
        /\ joined[g] \subseteq {cur[g]} \ {Nobody}
        /\ joined[g] # {} => load[g] \notin {Nobody, Loaded}
        /\ load[g] \in Runs => /\ load[g] = cur[g]
                              /\ \E c \in unanswered[g] : c.target = "resolve"

KernelInv ==
    /\ KernelTypes /\ Boots /\ OneRun /\ CallsNow /\ ClockTrue /\ LoadsTrue /\ AnswersOwn

-----------------------------------------------------------------------------
LEMMA RunNumbers ==
    /\ Runs \subseteq Nat /\ Nobody \notin Runs /\ Nobody \notin Workers
    /\ {Astray, Loading, Loaded} \cap Runs = {} /\ Nobody \notin {Astray, Loading, Loaded}
    /\ Loaded \notin {Astray, Loading}
BY KernelAssumption DEF Runs, Nobody, Astray, Loading, Loaded

LEMMA Appended ==
    ASSUME NEW S, NEW s \in Seq(S), NEW x \in S
    PROVE  /\ Append(s, x) \in Seq(S)
           /\ DOMAIN s = 1 .. Len(s) /\ DOMAIN Append(s, x) = 1 .. Len(s) + 1 /\ Len(s) \in Nat
           /\ \A i \in DOMAIN s : Append(s, x)[i] = s[i]
           /\ Append(s, x)[Len(s) + 1] = x
OBVIOUS

LEMMA Tailed ==
    ASSUME NEW S, NEW s \in Seq(S), s # <<>>
    PROVE  /\ Tail(s) \in Seq(S) /\ Head(s) \in S /\ Head(s) = s[1]
           /\ DOMAIN s = 1 .. Len(s) /\ DOMAIN Tail(s) = 1 .. Len(s) - 1
           /\ Len(s) \in Nat /\ Len(s) >= 1
           /\ \A i \in DOMAIN Tail(s) : Tail(s)[i] = s[i + 1] /\ i + 1 \in DOMAIN s
OBVIOUS

-----------------------------------------------------------------------------
(* Types *)

LEMMA Told ==
    ASSUME up \in [Workers -> Seq(ToWorker)], NEW g, NEW m \in ToWorker, Tell(g, m)
    PROVE  up' \in [Workers -> Seq(ToWorker)]
<1>1. CASE proc[g] = "up" /\ g \in Workers
  <2>1. up' = [up EXCEPT ![g] = Append(up[g], m)]
    BY <1>1 DEF Tell
  <2>2. Append(up[g], m) \in Seq(ToWorker)
    BY <1>1, Appended
  <2>. QED
    BY <2>1, <2>2
<1>2. CASE g \notin Workers
  BY <1>2 DEF Tell
<1>. QED
  BY <1>1, <1>2 DEF Tell

LEMMA Said ==
    ASSUME down \in [Workers -> Seq(ToHost)], NEW g \in Workers, NEW m \in ToHost, Say(g, m)
    PROVE  down' \in [Workers -> Seq(ToHost)]
<1>1. down' = [down EXCEPT ![g] = Append(down[g], m)]
  BY DEF Say
<1>2. Append(down[g], m) \in Seq(ToHost)
  BY Appended
<1>. QED
  BY <1>1, <1>2

LEMMA TypesNext ==
    ASSUME KernelTypes, Boots, KNext
    PROVE  KernelTypes'
<1> USE RunNumbers DEF Stages
<1>1. ASSUME BeginRun PROVE KernelTypes'
  BY <1>1 DEF BeginRun, KernelTypes, clock, code
<1>2. ASSUME NEW ok \in BOOLEAN, Prepared(ok) PROVE KernelTypes'
  BY <1>2 DEF Prepared, KernelTypes, clock, code
<1>3. ASSUME NEW g \in Workers, Booted(g) PROVE KernelTypes'
  BY <1>3 DEF Booted, KernelTypes, clock, code
<1>4. ASSUME NEW g \in Workers, BootFailed(g) PROVE KernelTypes'
  BY <1>4 DEF BootFailed, KernelTypes, clock, code
<1>5. ASSUME Posted PROVE KernelTypes'
  <2>1. mine \in Workers
    BY <1>5 DEF Posted, KernelTypes
  <2>2. run \in Runs
    BY <1>5 DEF Posted, Boots
  <2>3. [type |-> "run", run |-> run] \in ToWorker
    BY <2>2 DEF ToWorker
  <2>4. up' \in [Workers -> Seq(ToWorker)]
    BY <1>5, <2>3, Told DEF Posted, KernelTypes
  <2>5. spent' \in BOOLEAN
    BY <1>5 DEF Posted
  <2>. QED
    BY <1>5, <2>4, <2>5 DEF Posted, KernelTypes, code
<1>6. ASSUME Resolve PROVE KernelTypes'
  BY <1>6 DEF Resolve, KernelTypes, clock, code
<1>7. ASSUME Kill, UNCHANGED spared, kclosed' \in BOOLEAN, stage' \in Stages PROVE KernelTypes'
  BY <1>7 DEF Kill, spared, KernelTypes, clock, code
<1>8. ASSUME Interrupt \/ TimedOut \/ Close \/ \E g \in Workers : Died(g) PROVE KernelTypes'
  <2>1. Kill /\ UNCHANGED spared
    BY <1>8 DEF Interrupt, TimedOut, Close, Died, spared
  <2>2. kclosed' \in BOOLEAN /\ stage' \in Stages
    BY <1>8 DEF Interrupt, TimedOut, Close, Died, EndRun, KernelTypes
  <2>. QED
    BY <1>7, <2>1, <2>2
<1>9. ASSUME Tick PROVE KernelTypes'
  <2>1. spent' \in BOOLEAN
    <3>1. spent' = (hostUsed + 1 >= HostTime) \/ spent' = spent
      BY <1>9, Zenon DEF Tick
    <3>2. spent \in BOOLEAN
      BY DEF KernelTypes
    <3>. QED
      <4>1. (hostUsed + 1 >= HostTime) \in BOOLEAN
        OBVIOUS
      <4>. QED
        BY <3>1, <3>2, <4>1, Zenon
  <2>2. used' \in Nat /\ hostUsed' \in Nat /\ elapsed' \in Nat
    BY <1>9 DEF Tick, KernelTypes
  <2>. QED
    BY <1>9, <2>1, <2>2 DEF Tick, KernelTypes, code
<1>10. ASSUME NEW g \in Workers, Hear(g) PROVE KernelTypes'
  <2>1. Head(down[g]) \in ToHost /\ Tail(down[g]) \in Seq(ToHost)
    BY <1>10, Tailed DEF Hear, KernelTypes
  <2>2. down' \in [Workers -> Seq(ToHost)]
    BY <1>10, <2>1 DEF Hear, KernelTypes
  <2>3. taken' \in SUBSET Taken /\ stage' \in Stages
    BY <1>10, <2>1 DEF Hear, Heard, KernelTypes, ToHost, Taken
  <2>. QED
    BY <1>10, <2>2, <2>3 DEF Hear, KernelTypes, clock, code
<1>11. ASSUME NEW c \in taken, Answer(c) PROVE KernelTypes'
  <2>1. c \in Taken /\ [type |-> "reply", run |-> c.run, call |-> c.call] \in ToWorker
    BY DEF KernelTypes, Taken, ToWorker
  <2>2. up' \in [Workers -> Seq(ToWorker)]
    BY <1>11, <2>1, Told DEF Answer, KernelTypes
  <2>. QED
    BY <1>11, <2>2 DEF Answer, KernelTypes, clock, code
<1>12. ASSUME NEW g \in Workers, Listen(g) PROVE KernelTypes'
  <2>1. Head(up[g]) \in ToWorker /\ Tail(up[g]) \in Seq(ToWorker)
    BY <1>12, Tailed DEF Listen, KernelTypes
  <2>2. up' \in [Workers -> Seq(ToWorker)]
    BY <1>12, <2>1 DEF Listen, KernelTypes
  <2>3. cur' \in [Workers -> Runs \cup {Nobody}] /\ unanswered' \in [Workers -> SUBSET [call : Nat, target : Targets]]
    <3>1. CASE Head(up[g]).type = "run"
      <4>1. Head(up[g]).run \in Runs
        BY <2>1, <3>1 DEF ToWorker
      <4>. QED
        BY <1>12, <3>1, <4>1 DEF Listen, KernelTypes
    <3>2. CASE Head(up[g]).type = "reply"
      <4>1. UNCHANGED cur /\ (unanswered' = unanswered
              \/ unanswered' = [unanswered EXCEPT ![g] = @ \ {c \in unanswered[g] : c.call = Head(up[g]).call}])
        BY <1>12, <3>2 DEF Listen
      <4> DEFINE less == unanswered[g] \ {c \in unanswered[g] : c.call = Head(up[g]).call}
      <4>2. unanswered \in [Workers -> SUBSET [call : Nat, target : Targets]]
        BY DEF KernelTypes
      <4>3. less \in SUBSET [call : Nat, target : Targets]
        BY <4>2
      <4>4. unanswered' = unanswered \/ unanswered' = [unanswered EXCEPT ![g] = less]
        BY <4>1
      <4> HIDE DEF less
      <4>5. unanswered' \in [Workers -> SUBSET [call : Nat, target : Targets]]
        BY <4>2, <4>3, <4>4
      <4>. QED
        BY <4>1, <4>5 DEF KernelTypes
    <3>. QED
      BY <2>1, <3>1, <3>2 DEF ToWorker
  <2>4. load' \in [Workers -> Kept] /\ joined' \in [Workers -> SUBSET Runs]
    <3>1. load \in [Workers -> Kept] /\ joined \in [Workers -> SUBSET Runs]
      BY DEF KernelTypes
    <3>2. UNCHANGED <<load, joined>> \/ \E found \in BOOLEAN : Resolved(g, found)
      BY <1>12, <2>1 DEF Listen, ToWorker
    <3>. QED
      BY <3>1, <3>2 DEF Resolved, Kept
  <2>. QED
    BY <1>12, <2>2, <2>3, <2>4 DEF Listen, KernelTypes, host
<1>13. ASSUME NEW g \in Workers, NEW target \in Targets, CodeCall(g, target) PROVE KernelTypes'
  <2>1. cur[g] \in Runs
    BY <1>13 DEF CodeCall, KernelTypes
  <2>a. asked[cur[g]] \in Nat /\ asked[cur[g]] + 1 \in Nat
    <3>1. asked \in [Runs -> Nat]
      BY DEF KernelTypes
    <3>2. asked[cur[g]] \in Nat
      BY <2>1, <3>1
    <3>. QED
      BY <3>2
  <2>2. [type |-> "call", run |-> cur[g], call |-> asked[cur[g]] + 1, target |-> target] \in ToHost
    BY <2>1, <2>a DEF ToHost
  <2>3. down' \in [Workers -> Seq(ToHost)]
    BY <1>13, <2>2, Said DEF CodeCall, KernelTypes
  <2>4. /\ asked' \in [Runs -> Nat]
        /\ unanswered' \in [Workers -> SUBSET [call : Nat, target : Targets]]
    BY <1>13, <2>1, <2>a DEF CodeCall, KernelTypes
  <2>. QED
    BY <1>13, <2>3, <2>4 DEF CodeCall, KernelTypes, host
<1>14. ASSUME NEW g \in Workers, NEW url \in BOOLEAN, Import(g, url) PROVE KernelTypes'
  <2>1. cur[g] \in Runs /\ "resolve" \in Targets
    BY <1>14 DEF Import, KernelTypes
  <2>a. asked[cur[g]] \in Nat /\ asked[cur[g]] + 1 \in Nat
    <3>1. asked \in [Runs -> Nat]
      BY DEF KernelTypes
    <3>2. asked[cur[g]] \in Nat
      BY <2>1, <3>1
    <3>. QED
      BY <3>2
  <2>2. [type |-> "call", run |-> cur[g], call |-> asked[cur[g]] + 1, target |-> "resolve"] \in ToHost
    BY <2>1, <2>a DEF ToHost
  <2>3. down' \in [Workers -> Seq(ToHost)]
    <3>1. UNCHANGED down \/ Say(g, [type |-> "call", run |-> cur[g], call |-> asked[cur[g]] + 1, target |-> "resolve"])
      BY <1>14 DEF Import
    <3>. QED
      BY <2>2, <3>1, Said DEF KernelTypes
  <2>4. /\ asked' \in [Runs -> Nat] /\ joined' \in [Workers -> SUBSET Runs]
        /\ unanswered' \in [Workers -> SUBSET [call : Nat, target : Targets]]
        /\ load' \in [Workers -> Kept]
    <3>1. joined' = [joined EXCEPT ![g] = @ \cup {cur[g]}]
      BY <1>14 DEF Import
    <3>2. \/ UNCHANGED <<asked, unanswered, load>>
          \/ /\ asked' = [asked EXCEPT ![cur[g]] = @ + 1]
             /\ unanswered' = [unanswered EXCEPT ![g] =
                                @ \cup {[call |-> asked[cur[g]] + 1, target |-> "resolve"]}]
             /\ load' = [load EXCEPT ![g] = cur[g]]
          \/ UNCHANGED <<asked, unanswered>> /\ load' = [load EXCEPT ![g] = Loading]
      <4>1. CASE load[g] # Nobody
        BY <1>14, <4>1 DEF Import
      <4>2. CASE load[g] = Nobody /\ url
        BY <1>14, <4>2 DEF Import
      <4>3. CASE load[g] = Nobody /\ ~url
        BY <1>14, <4>3 DEF Import
      <4>. QED
        BY <4>1, <4>2, <4>3
    <3>a. /\ joined \in [Workers -> SUBSET Runs] /\ load \in [Workers -> Kept]
          /\ unanswered \in [Workers -> SUBSET [call : Nat, target : Targets]]
      BY DEF KernelTypes
    <3>3. joined' \in [Workers -> SUBSET Runs]
      BY <2>1, <3>1, <3>a
    <3>7. load' \in [Workers -> Kept]
      BY <2>1, <3>2, <3>a DEF Kept
    <3>4. asked' \in [Runs -> Nat]
      BY <2>1, <2>a, <3>2 DEF KernelTypes
    <3>5. [call |-> asked[cur[g]] + 1, target |-> "resolve"] \in [call : Nat, target : Targets]
      BY <2>1, <2>a
    <3>6. unanswered' \in [Workers -> SUBSET [call : Nat, target : Targets]]
      BY <3>2, <3>5, <3>a
    <3>. QED
      BY <3>3, <3>4, <3>6, <3>7
  <2>. QED
    BY <1>14, <2>3, <2>4 DEF Import, KernelTypes, host
<1>15. ASSUME NEW g \in Workers, CodeDone(g) PROVE KernelTypes'
  <2>1. cur[g] \in Runs
    BY <1>15 DEF CodeDone, KernelTypes
  <2>2. [type |-> "done", run |-> cur[g]] \in ToHost
    BY <2>1 DEF ToHost
  <2>3. down' \in [Workers -> Seq(ToHost)]
    BY <1>15, <2>2, Said DEF CodeDone, KernelTypes
  <2>4. load' \in [Workers -> Kept]
    BY <1>15 DEF CodeDone, KernelTypes, Kept
  <2>. QED
    BY <1>15, <2>1, <2>3, <2>4 DEF CodeDone, KernelTypes, host
<1>16. ASSUME NEW g \in Workers, NEW r \in Runs, NEW target \in Targets, LateCall(g, r, target)
       PROVE  KernelTypes'
  <2>a. asked[r] + 1 \in Nat
    BY DEF KernelTypes
  <2>2. [type |-> "call", run |-> r, call |-> asked[r] + 1, target |-> target] \in ToHost
    BY <2>a DEF ToHost
  <2>3. down' \in [Workers -> Seq(ToHost)]
    BY <1>16, <2>2, Said DEF LateCall, KernelTypes
  <2>4. asked' \in [Runs -> Nat] /\ load' \in [Workers -> Kept]
    BY <1>16, <2>a DEF LateCall, KernelTypes, Kept
  <2>5. late' \in Nat
    BY <1>16 DEF LateCall, KernelTypes
  <2>. QED
    BY <1>16, <2>3, <2>4, <2>5 DEF LateCall, KernelTypes, host
<1>17. ASSUME NEW g \in Workers, NEW ok \in BOOLEAN, LoadModule(g, ok) \/ LateImport(g) PROVE KernelTypes'
  <2>1. load' \in [Workers -> Kept]
    BY <1>17 DEF LoadModule, LateImport, KernelTypes, Kept
  <2>2. joined' \in [Workers -> SUBSET Runs]
    BY <1>17 DEF LoadModule, LateImport, KernelTypes
  <2>3. late' \in Nat
    BY <1>17 DEF LoadModule, LateImport, KernelTypes
  <2>. QED
    BY <1>17, <2>1, <2>2, <2>3 DEF LoadModule, LateImport, KernelTypes, host
<1>. QED
  BY <1>1, <1>2, <1>3, <1>4, <1>5, <1>6, <1>8, <1>9, <1>10, <1>11, <1>12, <1>13, <1>14, <1>15, <1>16, <1>17
  DEF KNext, HostSteps

-----------------------------------------------------------------------------
(* Boots *)

LEMMA BootsNext ==
    ASSUME KernelTypes, Boots, OneRun, KNext
    PROVE  Boots'
<1>a. /\ proc \in [Workers -> {"none", "booting", "up", "dead"}]
      /\ up \in [Workers -> Seq(ToWorker)] /\ down \in [Workers -> Seq(ToHost)]
      /\ cur \in [Workers -> Runs \cup {Nobody}]
      /\ worker \in Workers \cup {Nobody} /\ mine \in Workers \cup {Nobody}
  BY DEF KernelTypes
<1>b. Nobody \notin Workers /\ Nobody \notin Runs
  BY RunNumbers
<1>1. ASSUME BeginRun PROVE Boots'
  BY <1>1, <1>a DEF BeginRun, Boots, clock, code
<1>2. ASSUME NEW ok \in BOOLEAN, Prepared(ok) PROVE Boots'
  <2>1. CASE UNCHANGED <<proc, booting>>
    BY <1>2, <2>1, <1>a DEF Prepared, Boots, clock, code
  <2>2. CASE ~ UNCHANGED <<proc, booting>>
    <3>1. PICK g \in Workers : /\ proc[g] = "none" /\ booting' = g
                               /\ proc' = [proc EXCEPT ![g] = "booting"]
                               /\ worker = Nobody /\ mine' = Nobody /\ stage' = "starting"
      BY <1>2, <2>2 DEF Prepared
    <3>2. \A h \in Workers : proc[h] # "booting" /\ proc[h] # "up"
      BY <1>2, <1>b, <3>1 DEF Boots, Prepared
    <3>. QED
      BY <1>2, <1>a, <1>b, <3>1, <3>2 DEF Boots, Prepared, clock, code
  <2>. QED
    BY <2>1, <2>2
<1>3. ASSUME NEW g \in Workers, Booted(g) PROVE Boots'
  <2>1. CASE booting = g
    <3>1. worker' = g /\ booting' = Nobody /\ mine' = g /\ proc' = [proc EXCEPT ![g] = "up"] /\ UNCHANGED stage
      BY <1>3, <2>1 DEF Booted
    <3>2. \A h \in Workers : proc[h] # "up" /\ (proc[h] = "booting" => h = g)
      BY <1>3, <2>1, <1>b DEF Boots, Booted
    <3>. QED
      BY <1>3, <1>a, <1>b, <3>1, <3>2 DEF Booted, Boots, clock, code
  <2>2. CASE booting # g
    <3>1. UNCHANGED <<worker, booting, mine>> /\ proc' = [proc EXCEPT ![g] = "dead"] /\ stage' = "idle"
      BY <1>3, <2>2 DEF Booted
    <3>2. \A h \in Workers : proc[h] = "booting" => h = g
      BY <1>3 DEF Boots, Booted
    <3>3. booting = Nobody /\ worker # g
      BY <1>3, <1>a, <1>b, <2>2, <3>2 DEF Boots, Booted, KernelTypes
    <3>. QED
      BY <1>3, <1>a, <1>b, <3>1, <3>2, <3>3 DEF Booted, Boots, clock, code
  <2>. QED
    BY <2>1, <2>2
<1>4. ASSUME NEW g \in Workers, BootFailed(g) PROVE Boots'
  BY <1>4, <1>a, <1>b DEF BootFailed, Boots, clock, code
<1>5. ASSUME Posted PROVE Boots'
  <2>1. \A g \in Workers : proc[g] # "up" => up'[g] = up[g]
    BY <1>5, <1>a DEF Posted, Tell
  <2>. QED
    BY <1>5, <1>a, <1>b, <2>1 DEF Posted, Boots, code
<1>6. ASSUME Resolve PROVE Boots'
  BY <1>6, <1>a DEF Resolve, Boots, clock, code
<1>8. ASSUME Interrupt \/ TimedOut \/ Close \/ \E g \in Workers : Died(g) PROVE Boots'
  <2>1. Kill /\ UNCHANGED <<run, mine, cur>>
    BY <1>8 DEF Interrupt, TimedOut, Close, Died, spared, code
  <2>2. stage' = stage \/ (stage = "running" /\ stage' = "ending")
    BY <1>8 DEF Interrupt, TimedOut, Close, Died, EndRun
  <2>3. \A g \in Workers : /\ proc'[g] # "up"
                            /\ proc'[g] \in {"none", "booting"} => /\ proc'[g] = proc[g] /\ up'[g] = up[g]
                                                                  /\ down'[g] = down[g]
    BY <1>a, <1>b, <2>1 DEF Kill, Boots
  <2>. QED
    BY <1>a, <1>b, <2>1, <2>2, <2>3 DEF Kill, Boots
<1>9. ASSUME Tick PROVE Boots'
  BY <1>9, <1>a DEF Tick, Boots, code
<1>10. ASSUME NEW g \in Workers, Hear(g) PROVE Boots'
  <2>1. \A h \in Workers : down[h] = <<>> => down'[h] = <<>>
    BY <1>10, <1>a DEF Hear
  <2>2. stage' = stage \/ (stage = "running" /\ stage' = "ending")
    <3>1. CASE Heard(g, Head(down[g]))
      BY <1>10, <3>1 DEF Hear, Heard
    <3>2. CASE ~Heard(g, Head(down[g]))
      BY <1>10, <3>2 DEF Hear
    <3>. QED
      BY <3>1, <3>2
  <2>. QED
    BY <1>10, <1>a, <2>1, <2>2 DEF Hear, Boots, clock, code
<1>11. ASSUME NEW c \in taken, Answer(c) PROVE Boots'
  <2>1. \A g \in Workers : proc[g] # "up" => up'[g] = up[g]
    BY <1>11, <1>a DEF Answer, Tell
  <2>. QED
    BY <1>11, <1>a, <1>b, <2>1 DEF Answer, Boots, clock, code
<1>12. ASSUME NEW g \in Workers, Listen(g) PROVE Boots'
  <2>1. \A h \in Workers : proc[h] # "up" => up'[h] = up[h] /\ cur'[h] = cur[h]
    BY <1>12, <1>a DEF Listen, Up
  <2>. QED
    BY <1>12, <1>a, <1>b, <2>1 DEF Listen, Boots, host
<1>13. ASSUME NEW g \in Workers, UNCHANGED <<host, proc, up>>, proc[g] = "up",
              NEW m, Say(g, m) \/ UNCHANGED down, cur' = cur \/ cur' = [cur EXCEPT ![g] = Nobody]
       PROVE  Boots'
  <2>1. \A h \in Workers : proc[h] # "up" => down'[h] = down[h] /\ cur'[h] = cur[h]
    BY <1>13, <1>a DEF Say
  <2>. QED
    BY <1>13, <1>a, <1>b, <2>1 DEF Boots, host
<1>14. ASSUME NEW g \in Workers, \/ \E target \in Targets : CodeCall(g, target)
                                 \/ CodeDone(g) \/ LateImport(g)
                                 \/ \E b \in BOOLEAN : Import(g, b) \/ LoadModule(g, b)
                                 \/ \E r \in Runs, target \in Targets : LateCall(g, r, target)
       PROVE  Boots'
  <2>1. /\ UNCHANGED <<host, proc, up>> /\ proc[g] = "up" /\ (cur' = cur \/ cur' = [cur EXCEPT ![g] = Nobody])
        /\ UNCHANGED down \/ \E m : Say(g, m)
    BY <1>14 DEF CodeCall, Import, CodeDone, LateCall, LateImport, LoadModule, Up
  <2>. QED
    BY <1>13, <2>1
<1>. QED
  BY <1>1, <1>2, <1>3, <1>4, <1>5, <1>6, <1>8, <1>9, <1>10, <1>11, <1>12, <1>14
  DEF KNext, HostSteps

-----------------------------------------------------------------------------
(* What the host answers, and the clock *)

LEMMA CallsNext ==
    ASSUME KernelTypes, Boots, CallsNow, KNext
    PROVE  CallsNow'
<1>1. ASSUME BeginRun PROVE CallsNow'
  BY <1>1 DEF BeginRun, CallsNow
<1>2. ASSUME NEW ok \in BOOLEAN, Prepared(ok) PROVE CallsNow'
  BY <1>2 DEF Prepared, CallsNow
<1>3. ASSUME NEW g \in Workers, Booted(g) \/ BootFailed(g) PROVE CallsNow'
  <2>1. stage = "starting" /\ UNCHANGED <<taken, run>>
    BY <1>3 DEF Booted, BootFailed, Boots
  <2>. QED
    BY <2>1 DEF CallsNow
<1>4. ASSUME Posted PROVE CallsNow'
  BY <1>4 DEF Posted, CallsNow
<1>5. ASSUME Resolve PROVE CallsNow'
  BY <1>5 DEF Resolve, Owed, CallsNow
<1>6. ASSUME Interrupt \/ TimedOut \/ Close \/ \E g \in Workers : Died(g) PROVE CallsNow'
  <2>1. UNCHANGED <<run, taken>>
    BY <1>6 DEF Interrupt, TimedOut, Close, Died, spared
  <2>2. stage' = stage \/ (stage = "running" /\ stage' = "ending")
    BY <1>6 DEF Interrupt, TimedOut, Close, Died, EndRun
  <2>. QED
    BY <2>1, <2>2 DEF CallsNow
<1>7. ASSUME Tick PROVE CallsNow'
  BY <1>7 DEF Tick, CallsNow
<1>8. ASSUME NEW g \in Workers, Hear(g) PROVE CallsNow'
  <2>1. CASE UNCHANGED taken
    BY <1>8, <2>1 DEF Hear, Heard, CallsNow
  <2>2. CASE ~ UNCHANGED taken
    <3>1. PICK msg : /\ Heard(g, msg) /\ UNCHANGED <<stage, run>>
                     /\ taken' = taken \cup {[run |-> msg.run, during |-> run, call |-> msg.call,
                                              target |-> msg.target, worker |-> g]}
      BY <1>8, <2>2 DEF Hear
    <3>. QED
      BY <3>1 DEF Heard, CallsNow
  <2>. QED
    BY <2>1, <2>2
<1>9. ASSUME NEW c \in taken, Answer(c) PROVE CallsNow'
  BY <1>9 DEF Answer, CallsNow
<1>10. ASSUME UNCHANGED host PROVE CallsNow'
  BY <1>10 DEF host, CallsNow
<1>. QED
  BY <1>1, <1>2, <1>3, <1>4, <1>5, <1>6, <1>7, <1>8, <1>9, <1>10
  DEF KNext, HostSteps, Listen, Import, CodeDone, CodeCall, LateCall, LateImport, LoadModule

LEMMA ClockNext ==
    ASSUME KernelTypes, Boots, ClockTrue, KNext
    PROVE  ClockTrue'
<1>a. used \in Nat /\ hostUsed \in Nat /\ elapsed \in Nat /\ Timeout \in Nat /\ HostTime \in Nat
  BY KernelAssumption DEF KernelTypes
<1>1. ASSUME BeginRun \/ \E ok \in BOOLEAN : Prepared(ok) PROVE ClockTrue'
  BY <1>1 DEF BeginRun, Prepared, ClockTrue
<1>3. ASSUME NEW g \in Workers, Booted(g) \/ BootFailed(g) PROVE ClockTrue'
  BY <1>3 DEF Booted, BootFailed, Boots, ClockTrue
<1>4. ASSUME Posted PROVE ClockTrue'
  <2>1. CASE HostTime = 0
    <3>1. spent' = (HostTime = 0)
      BY <1>4, Zenon DEF Posted
    <3>2. spent'
      BY <2>1, <3>1, Zenon
    <3>3. elapsed' = 0 /\ used' = 0 /\ hostUsed' = 0
      BY <1>4 DEF Posted
    <3>. QED
      BY <1>a, <3>2, <3>3 DEF ClockTrue
  <2>2. CASE HostTime # 0
    BY <1>4, <1>a, <2>2 DEF Posted, ClockTrue
  <2>. QED
    BY <2>1, <2>2
<1>5. ASSUME Resolve PROVE ClockTrue'
  BY <1>5 DEF Resolve, ClockTrue
<1>6. ASSUME Interrupt \/ TimedOut \/ Close \/ \E g \in Workers : Died(g) PROVE ClockTrue'
  <2>1. UNCHANGED clock
    BY <1>6 DEF Interrupt, TimedOut, Close, Died, spared
  <2>2. stage' = stage \/ (stage = "running" /\ stage' = "ending")
    BY <1>6 DEF Interrupt, TimedOut, Close, Died, EndRun
  <2>. QED
    BY <2>1, <2>2 DEF ClockTrue, clock
<1>7. ASSUME Tick PROVE ClockTrue'
  <2>1. CASE Hosting # {} /\ ~spent
    <3>1. /\ hostUsed' = hostUsed + 1 /\ used' = used /\ elapsed' = elapsed + 1 /\ stage = "running"
          /\ hostUsed < HostTime
      BY <1>7, <2>1 DEF Tick, ClockTrue
    <3>2. CASE hostUsed + 1 >= HostTime
      <4>1. spent' = (hostUsed + 1 >= HostTime)
        BY <1>7, <2>1, Zenon DEF Tick
      <4>2. spent'
        BY <3>2, <4>1, Zenon
      <4>. QED
        BY <1>a, <3>1, <4>2 DEF ClockTrue
    <3>3. CASE hostUsed + 1 < HostTime
      BY <1>a, <3>1, <3>3 DEF ClockTrue
    <3>. QED
      BY <1>a, <3>1, <3>2, <3>3
  <2>2. CASE ~(Hosting # {} /\ ~spent)
    <3>1. used < Timeout
      BY <1>7, <1>a, <2>2 DEF Tick, Due, Hosting
    <3>. QED
      BY <1>7, <1>a, <2>2, <3>1 DEF Tick, ClockTrue
  <2>. QED
    BY <2>1, <2>2
<1>8. ASSUME NEW g \in Workers, Hear(g) PROVE ClockTrue'
  BY <1>8 DEF Hear, Heard, ClockTrue, clock
<1>9. ASSUME NEW c \in taken, Answer(c) PROVE ClockTrue'
  BY <1>9 DEF Answer, ClockTrue, clock
<1>10. ASSUME UNCHANGED host PROVE ClockTrue'
  BY <1>10 DEF host, ClockTrue
<1>. QED
  BY <1>1, <1>3, <1>4, <1>5, <1>6, <1>7, <1>8, <1>9, <1>10
  DEF KNext, HostSteps, Listen, Import, CodeDone, CodeCall, LateCall, LateImport, LoadModule

-----------------------------------------------------------------------------
(* One run at a time *)

LEMMA QuietWorkers ==
    ASSUME OneRun, Boots, UNCHANGED <<up, down, cur>>, stage # "running",
           \A h \in Workers : proc'[h] = "up" => proc[h] \in {"up", "booting"}
    PROVE  OneRun'
<1>1. ASSUME NEW h \in Workers, proc'[h] = "up" PROVE OneRunOf(h)'
  <2>1. RunMsgs(h) = {} /\ Dones(h) = {} /\ cur[h] = Nobody
    <3>1. CASE proc[h] = "up"
      BY <3>1 DEF OneRun, OneRunOf, Busy
    <3>2. CASE proc[h] = "booting"
      BY <3>2 DEF Boots, RunMsgs, Dones
    <3>. QED
      BY <1>1, <3>1, <3>2
  <2>2. RunMsgs(h)' = {} /\ Dones(h)' = {} /\ cur'[h] = Nobody
    BY <2>1 DEF RunMsgs, Dones
  <2>. QED
    BY <2>2 DEF OneRunOf, Busy
<1>. QED
  BY <1>1 DEF OneRun

(* A worker whose messages and run are as they were. *)
LEMMA SameWorker ==
    ASSUME NEW h, OneRunOf(h), up'[h] = up[h], down'[h] = down[h], cur'[h] = cur[h],
           UNCHANGED <<run, stage, mine>>
    PROVE  OneRunOf(h)'
<1>1. RunMsgs(h)' = RunMsgs(h) /\ Dones(h)' = Dones(h)
  BY DEF RunMsgs, Dones
<1>. QED
  BY <1>1, RunMsgs(h) \subseteq DOMAIN up[h] DEF OneRunOf, Busy, RunMsgs

(* What one more message, or one less, makes of those that start and end a  *)
(* run.                                                                     *)
LEMMA MoreUp ==
    ASSUME NEW g, up[g] \in Seq(ToWorker), NEW m \in ToWorker, up'[g] = Append(up[g], m)
    PROVE  /\ m.type # "run" => RunMsgs(g)' = RunMsgs(g)
           /\ m.type = "run" => RunMsgs(g)' = RunMsgs(g) \cup {Len(up[g]) + 1}
           /\ \A i \in RunMsgs(g) : up'[g][i] = up[g][i]
           /\ up'[g][Len(up[g]) + 1] = m
BY Appended DEF RunMsgs

LEMMA MoreDown ==
    ASSUME NEW g, down[g] \in Seq(ToHost), NEW m \in ToHost, down'[g] = Append(down[g], m)
    PROVE  /\ m.type # "done" => Dones(g)' = Dones(g)
           /\ m.type = "done" => Dones(g)' = Dones(g) \cup {Len(down[g]) + 1}
BY Appended DEF Dones

LEMMA LessUp ==
    ASSUME NEW g, up[g] \in Seq(ToWorker), up[g] # <<>>, up'[g] = Tail(up[g])
    PROVE  /\ \A i \in RunMsgs(g)' : i + 1 \in RunMsgs(g) /\ up'[g][i] = up[g][i + 1] /\ i >= 1 /\ i \in Nat
           /\ Head(up[g]).type = "run" => 1 \in RunMsgs(g) /\ up[g][1] = Head(up[g])
BY Tailed DEF RunMsgs

LEMMA LessDown ==
    ASSUME NEW g, down[g] \in Seq(ToHost), down[g] # <<>>, down'[g] = Tail(down[g])
    PROVE  /\ \A i \in Dones(g)' : i + 1 \in Dones(g) /\ i >= 1 /\ i \in Nat
           /\ Head(down[g]).type = "done" => 1 \in Dones(g)
BY Tailed DEF Dones

LEMMA RunNext ==
    ASSUME KernelTypes, Boots, OneRun, KNext
    PROVE  OneRun'
<1>a. /\ proc \in [Workers -> {"none", "booting", "up", "dead"}]
      /\ up \in [Workers -> Seq(ToWorker)] /\ down \in [Workers -> Seq(ToHost)]
      /\ cur \in [Workers -> Runs \cup {Nobody}]
      /\ worker \in Workers \cup {Nobody} /\ mine \in Workers \cup {Nobody}
  BY DEF KernelTypes
<1>b. Nobody \notin Workers /\ Nobody \notin Runs
  BY RunNumbers
<1>1. ASSUME BeginRun PROVE OneRun'
  BY <1>1, QuietWorkers DEF BeginRun, clock, code
<1>2. ASSUME NEW ok \in BOOLEAN, Prepared(ok) PROVE OneRun'
  <2>1. proc' = proc \/ \E g \in Workers : proc' = [proc EXCEPT ![g] = "booting"]
    BY <1>2 DEF Prepared
  <2>2. \A h \in Workers : proc'[h] = "up" => proc[h] = "up"
    BY <2>1, <1>a
  <2>. QED
    BY <1>2, <2>2, QuietWorkers DEF Prepared, code
<1>3. ASSUME NEW g \in Workers, Booted(g) \/ BootFailed(g) PROVE OneRun'
  <2>1. stage = "starting" /\ UNCHANGED <<up, down, cur>>
    BY <1>3 DEF Booted, BootFailed, Boots, code
  <2>2. proc[g] = "booting" /\ (proc' = [proc EXCEPT ![g] = "up"] \/ proc' = [proc EXCEPT ![g] = "dead"])
    BY <1>3 DEF Booted, BootFailed
  <2>3. \A h \in Workers : proc'[h] = "up" => proc[h] \in {"up", "booting"}
    BY <1>a, <2>2
  <2>. QED
    BY <2>1, <2>3, QuietWorkers
<1>4. ASSUME Posted PROVE OneRun'
  <2>1. CASE kclosed
    BY <1>4, <2>1, QuietWorkers DEF Posted, code
  <2>2. CASE ~kclosed
    <3>1. ASSUME NEW h \in Workers, proc'[h] = "up" PROVE OneRunOf(h)'
      <4>1. RunMsgs(h) = {} /\ Dones(h) = {} /\ cur[h] = Nobody /\ proc[h] = "up"
        BY <1>4, <3>1 DEF Posted, OneRun, OneRunOf, Busy
      <4>2. Dones(h)' = {} /\ cur'[h] = Nobody /\ stage' = "running" /\ UNCHANGED <<mine, run>>
        BY <1>4, <2>2, <4>1 DEF Posted, Dones, code
      <4>3. CASE h # mine
        <5>1. up'[h] = up[h]
          BY <1>4, <1>a, <2>2, <4>3 DEF Posted, Tell
        <5>2. RunMsgs(h)' = {}
          BY <4>1, <5>1 DEF RunMsgs
        <5>. QED
          BY <4>2, <5>2 DEF OneRunOf, Busy
      <4>4. CASE h = mine
        <5> DEFINE m == [type |-> "run", run |-> run]
        <5>1. m \in ToWorker
          BY <1>4 DEF Posted, Boots, ToWorker
        <5>2. up'[h] = Append(up[h], m)
          BY <1>4, <1>a, <2>2, <4>1, <4>4 DEF Posted, Tell
        <5>3. RunMsgs(h)' = {Len(up[h]) + 1} /\ up'[h][Len(up[h]) + 1] = m
          BY <1>a, <4>1, <5>1, <5>2, MoreUp
        <5>. QED
          BY <4>2, <4>4, <5>3 DEF OneRunOf, Busy
      <4>. QED
        BY <4>3, <4>4
    <3>. QED
      BY <3>1 DEF OneRun
  <2>. QED
    BY <2>1, <2>2
<1>5. ASSUME Resolve PROVE OneRun'
  BY <1>5, QuietWorkers DEF Resolve, code
<1>6. ASSUME Interrupt \/ TimedOut \/ Close \/ \E g \in Workers : Died(g) PROVE OneRun'
  <2>1. Kill
    BY <1>6 DEF Interrupt, TimedOut, Close, Died
  <2>2. \A h \in Workers : proc'[h] # "up"
    BY <1>a, <1>b, <2>1 DEF Kill, Boots
  <2>. QED
    BY <2>2 DEF OneRun
<1>7. ASSUME Tick PROVE OneRun'
  <2>1. UNCHANGED <<up, down, cur, proc, run, stage, mine>>
    BY <1>7 DEF Tick, code
  <2>. QED
    BY <2>1, SameWorker DEF OneRun
<1>8. ASSUME NEW g \in Workers, Hear(g) PROVE OneRun'
  <2>1. /\ UNCHANGED <<up, cur, proc, run, mine>> /\ down[g] # <<>>
        /\ down'[g] = Tail(down[g]) /\ \A h \in Workers \ {g} : down'[h] = down[h]
    BY <1>8, <1>a DEF Hear, code
  <2>2. \/ UNCHANGED stage
        \/ Head(down[g]).type = "done" /\ stage = "running" /\ mine = g
    BY <1>8 DEF Hear, Heard
  <2>3. ASSUME NEW h \in Workers, proc[h] = "up" PROVE OneRunOf(h)'
    <3>1. OneRunOf(h) /\ RunMsgs(h)' = RunMsgs(h) /\ cur'[h] = cur[h] /\ up'[h] = up[h]
      BY <2>1, <2>3 DEF OneRun, RunMsgs
    <3>2. CASE h # g /\ UNCHANGED stage
      BY <2>1, <3>1, <3>2, SameWorker
    <3>3. CASE h # g /\ ~ UNCHANGED stage
      <4>1. ~Busy(h) /\ Dones(h)' = Dones(h)
        BY <2>1, <2>2, <3>1, <3>3 DEF OneRunOf, Dones
      <4>. QED
        BY <3>1, <4>1 DEF OneRunOf, Busy
    <3>4. CASE h = g
      <4>1. /\ \A i \in Dones(g)' : i + 1 \in Dones(g) /\ i >= 1 /\ i \in Nat
            /\ Head(down[g]).type = "done" => 1 \in Dones(g)
        BY <1>a, <2>1, LessDown
      <4>2. \A i, j \in Dones(g)' : i = j
        <5>1. ASSUME NEW i \in Dones(g)', NEW j \in Dones(g)' PROVE i = j
          <6>1. i + 1 = j + 1
            BY <3>1, <3>4, <4>1 DEF OneRunOf
          <6>. QED
            BY <4>1, <6>1
        <5>. QED
          BY <5>1
      <4>3. Dones(g) = {} => Dones(g)' = {}
        BY <4>1
      <4>4. CASE UNCHANGED stage
        <5>1. Busy(g)' => Busy(g)
          BY <3>1, <3>4, <4>3 DEF Busy
        <5>. QED
          BY <2>1, <3>1, <3>4, <4>2, <4>3, <4>4, <5>1 DEF OneRunOf, RunMsgs
      <4>5. CASE ~ UNCHANGED stage
        <5>1. 1 \in Dones(g)
          BY <2>2, <4>1, <4>5
        <5>2. Dones(g)' = {}
          <6>1. ASSUME NEW i \in Dones(g)' PROVE FALSE
            <7>1. i + 1 = 1
              BY <3>1, <3>4, <4>1, <5>1 DEF OneRunOf
            <7>. QED
              BY <4>1, <7>1
          <6>. QED
            BY <6>1
        <5>3. RunMsgs(g)' = {} /\ cur'[g] = Nobody
          BY <3>1, <3>4, <5>1 DEF OneRunOf
        <5>. QED
          BY <3>4, <5>2, <5>3 DEF OneRunOf, Busy
      <4>. QED
        BY <4>4, <4>5
    <3>. QED
      BY <3>2, <3>3, <3>4
  <2>. QED
    BY <2>1, <2>3 DEF OneRun
<1>9. ASSUME NEW c \in taken, Answer(c) PROVE OneRun'
  <2>1. /\ UNCHANGED <<down, cur, proc, run, stage, mine>> /\ c \in Taken
        /\ UNCHANGED up \/ Tell(c.worker, [type |-> "reply", run |-> c.run, call |-> c.call])
    BY <1>9 DEF Answer, code, KernelTypes
  <2> DEFINE m == [type |-> "reply", run |-> c.run, call |-> c.call]
  <2>2. m \in ToWorker
    BY <2>1 DEF Taken, ToWorker
  <2>3. ASSUME NEW h \in Workers, proc[h] = "up" PROVE OneRunOf(h)'
    <3>1. up'[h] = up[h] \/ up'[h] = Append(up[h], m)
      BY <1>a, <2>1 DEF Tell
    <3>2. CASE up'[h] = up[h]
      BY <2>1, <2>3, <3>2, SameWorker DEF OneRun
    <3>3. CASE up'[h] = Append(up[h], m)
      <4>1. RunMsgs(h)' = RunMsgs(h) /\ \A i \in RunMsgs(h) : up'[h][i] = up[h][i]
        BY <1>a, <2>2, <3>3, MoreUp
      <4>2. Dones(h)' = Dones(h)
        BY <2>1 DEF Dones
      <4>. QED
        BY <2>1, <2>3, <4>1, <4>2 DEF OneRun, OneRunOf, Busy
    <3>. QED
      BY <3>1, <3>2, <3>3
  <2>. QED
    BY <2>1, <2>3 DEF OneRun
<1>10. ASSUME NEW g \in Workers, Listen(g) PROVE OneRun'
  <2>1. /\ UNCHANGED <<down, proc, run, stage, mine>> /\ proc[g] = "up" /\ up[g] # <<>>
        /\ up'[g] = Tail(up[g])
        /\ \A h \in Workers \ {g} : up'[h] = up[h] /\ cur'[h] = cur[h]
    BY <1>10, <1>a DEF Listen, Up, host
  <2>2. /\ \A i \in RunMsgs(g)' : i + 1 \in RunMsgs(g) /\ up'[g][i] = up[g][i + 1] /\ i >= 1 /\ i \in Nat
        /\ Head(up[g]).type = "run" => 1 \in RunMsgs(g) /\ up[g][1] = Head(up[g])
    BY <1>a, <2>1, LessUp
  <2>3. Dones(g)' = Dones(g) /\ OneRunOf(g)
    BY <2>1 DEF Dones, OneRun
  <2>4. CASE Head(up[g]).type = "run"
    <3>1. cur'[g] = run /\ cur[g] = Nobody /\ Dones(g) = {} /\ Busy(g)
      BY <1>10, <1>a, <2>1, <2>2, <2>3, <2>4 DEF Listen, OneRunOf, Busy
    <3>2. RunMsgs(g)' = {}
      <4>1. ASSUME NEW i \in RunMsgs(g)' PROVE FALSE
        <5>1. i + 1 = 1
          BY <2>2, <2>3, <2>4 DEF OneRunOf
        <5>. QED
          BY <2>2, <5>1
      <4>. QED
        BY <4>1
    <3>. QED
      BY <2>1, <2>3, <3>1, <3>2, SameWorker DEF OneRun, OneRunOf, Busy
  <2>5. CASE Head(up[g]).type # "run"
    <3>1. cur'[g] = cur[g]
      BY <1>10, <1>a, <2>5 DEF Listen
    <3>2. \A i, j \in RunMsgs(g)' : i = j
      <4>1. ASSUME NEW i \in RunMsgs(g)', NEW j \in RunMsgs(g)' PROVE i = j
        <5>1. i + 1 = j + 1
          BY <2>2, <2>3 DEF OneRunOf
        <5>. QED
          BY <2>2, <5>1
      <4>. QED
        BY <4>1
    <3>3. Busy(g)' => Busy(g)
      BY <2>2, <2>3, <3>1 DEF Busy
    <3>4. OneRunOf(g)'
      <4>1. ASSUME NEW i \in RunMsgs(g)' PROVE up'[g][i].run = run /\ cur[g] = Nobody /\ Dones(g) = {}
        BY <2>2, <2>3 DEF OneRunOf
      <4>2. Busy(g)' => stage = "running" /\ mine = g
        BY <2>3, <3>3 DEF OneRunOf
      <4>3. /\ cur[g] # Nobody => cur[g] = run /\ Dones(g) = {}
            /\ \A i, j \in Dones(g) : i = j
        BY <2>3 DEF OneRunOf
      <4>. QED
        BY <2>1, <2>3, <3>1, <3>2, <4>1, <4>2, <4>3 DEF OneRunOf
    <3>. QED
      BY <2>1, <3>4, SameWorker DEF OneRun
  <2>. QED
    BY <2>4, <2>5
<1>11. ASSUME NEW g \in Workers, NEW m \in ToHost, m.type = "call",
              Say(g, m) \/ UNCHANGED down, UNCHANGED <<up, cur, proc, run, stage, mine>>
       PROVE  OneRun'
  <2>1. ASSUME NEW h \in Workers, proc[h] = "up" PROVE OneRunOf(h)'
    <3>1. down'[h] = down[h] \/ down'[h] = Append(down[h], m)
      BY <1>11, <1>a DEF Say
    <3>2. CASE down'[h] = down[h]
      BY <1>11, <2>1, <3>2, SameWorker DEF OneRun
    <3>3. CASE down'[h] = Append(down[h], m)
      <4>1. Dones(h)' = Dones(h)
        BY <1>11, <1>a, <3>3, MoreDown
      <4>2. RunMsgs(h)' = RunMsgs(h)
        BY <1>11 DEF RunMsgs
      <4>. QED
        BY <1>11, <2>1, <4>1, <4>2 DEF OneRun, OneRunOf, Busy
    <3>. QED
      BY <3>1, <3>2, <3>3
  <2>. QED
    BY <1>11, <2>1 DEF OneRun
<1>12. ASSUME NEW g \in Workers, NEW target \in Targets, NEW r \in Runs, r = cur[g] \/ LateCall(g, r, target),
              CodeCall(g, target) \/ (target = "resolve" /\ \E url \in BOOLEAN : Import(g, url)) \/ LateCall(g, r, target)
       PROVE  OneRun'
  <2> DEFINE m == [type |-> "call", run |-> r, call |-> asked[r] + 1, target |-> target]
  <2>1. asked[r] \in Nat
    BY DEF KernelTypes
  <2>2. m \in ToHost /\ m.type = "call"
    BY <2>1 DEF ToHost
  <2>3. (Say(g, m) \/ UNCHANGED down) /\ UNCHANGED <<up, cur, proc, run, stage, mine>>
    BY <1>12 DEF CodeCall, Import, LateCall, host
  <2>. QED
    BY <1>11, <2>2, <2>3
<1>13. ASSUME NEW g \in Workers, NEW target \in Targets, CodeCall(g, target) PROVE OneRun'
  <2>1. cur[g] \in Runs
    BY <1>13, <1>a DEF CodeCall
  <2>. QED
    BY <1>12, <1>13, <2>1
<1>14. ASSUME NEW g \in Workers, NEW url \in BOOLEAN, Import(g, url) PROVE OneRun'
  <2>1. cur[g] \in Runs /\ "resolve" \in Targets
    BY <1>14, <1>a DEF Import
  <2>. QED
    BY <1>12, <1>14, <2>1
<1>15. ASSUME NEW g \in Workers, CodeDone(g) PROVE OneRun'
  <2>1. /\ UNCHANGED <<up, proc, run, stage, mine>> /\ proc[g] = "up" /\ cur[g] \in Runs
        /\ cur' = [cur EXCEPT ![g] = Nobody]
    BY <1>15, <1>a DEF CodeDone, Up, host
  <2> DEFINE m == [type |-> "done", run |-> cur[g]]
  <2>2. m \in ToHost /\ down' = [down EXCEPT ![g] = Append(@, m)]
    BY <1>15, <2>1 DEF CodeDone, Say, ToHost
  <2>3. OneRunOf(g) /\ Dones(g) = {} /\ RunMsgs(g) = {} /\ Busy(g)
    BY <2>1, <1>b DEF OneRun, OneRunOf, Busy
  <2>4. Dones(g)' = {Len(down[g]) + 1}
    <3>1. down'[g] = Append(down[g], m) /\ m.type = "done"
      BY <1>a, <2>2
    <3>. QED
      BY <1>a, <2>2, <2>3, <3>1, MoreDown
  <2>5. RunMsgs(g)' = {} /\ cur'[g] = Nobody
    BY <1>a, <2>1, <2>3 DEF RunMsgs
  <2>6. OneRunOf(g)'
    BY <2>1, <2>3, <2>4, <2>5 DEF OneRunOf
  <2>7. \A h \in Workers \ {g} : down'[h] = down[h] /\ cur'[h] = cur[h]
    BY <1>a, <2>1, <2>2
  <2>. QED
    BY <2>1, <2>6, <2>7, SameWorker DEF OneRun
<1>16. ASSUME NEW g \in Workers, NEW ok \in BOOLEAN, LoadModule(g, ok) \/ LateImport(g) PROVE OneRun'
  <2>1. UNCHANGED <<up, down, cur, proc, run, stage, mine>>
    BY <1>16 DEF LoadModule, LateImport, host
  <2>. QED
    BY <2>1, SameWorker DEF OneRun
<1>. QED
  BY <1>1, <1>2, <1>3, <1>4, <1>5, <1>6, <1>7, <1>8, <1>9, <1>10, <1>12, <1>13, <1>14, <1>15, <1>16
  DEF KNext, HostSteps

-----------------------------------------------------------------------------
(* The worker's imports and answers *)

LEMMA LoadsNext ==
    ASSUME KernelTypes, OneRun, LoadsTrue, KNext
    PROVE  LoadsTrue'
<1>a. /\ up \in [Workers -> Seq(ToWorker)]
      /\ cur \in [Workers -> Runs \cup {Nobody}] /\ late \in Nat
      /\ unanswered \in [Workers -> SUBSET [call : Nat, target : Targets]]
      /\ joined \in [Workers -> SUBSET Runs]
      /\ load \in [Workers -> Kept]
  BY DEF KernelTypes
<1>b. /\ Nobody \notin Runs /\ {Astray, Loading, Loaded} \cap Runs = {}
      /\ Nobody \notin {Astray, Loading, Loaded} /\ Loaded \notin {Astray, Loading}
  BY RunNumbers
<1>1. ASSUME UNCHANGED <<cur, unanswered, joined, load>> PROVE LoadsTrue'
  BY <1>1 DEF LoadsTrue
<1>2. ASSUME NEW g \in Workers, Listen(g) PROVE LoadsTrue'
  <2>1. UNCHANGED late /\ proc[g] = "up" /\ up[g] # <<>> /\ Head(up[g]) \in ToWorker
    BY <1>2, <1>a, Tailed DEF Listen, Up
  <2> DEFINE msg == Head(up[g])
             mycall == {c \in unanswered[g] : c.call = msg.call}
  <2>2. CASE msg.type = "run"
    <3>1. msg.run \in Runs
      BY <2>1, <2>2 DEF ToWorker
    <3>2. cur[g] = Nobody
      <4>1. 1 \in RunMsgs(g)
        BY <1>a, <2>1, <2>2, Tailed DEF RunMsgs
      <4>. QED
        BY <2>1, <4>1 DEF OneRun, OneRunOf
    <3>3. /\ cur' = [cur EXCEPT ![g] = msg.run] /\ unanswered' = [unanswered EXCEPT ![g] = {}]
          /\ UNCHANGED <<load, joined>>
      BY <1>2, <2>2 DEF Listen
    <3>4. load[g] \notin Runs /\ joined[g] = {}
      BY <1>b, <3>2 DEF LoadsTrue
    <3>. QED
      BY <1>a, <1>b, <2>1, <3>1, <3>3, <3>4 DEF LoadsTrue
  <2>3. CASE msg.type = "reply" /\ Answers(g, msg) /\ \E c \in mycall : c.target = "resolve"
    <3>1. /\ UNCHANGED cur /\ unanswered' = [unanswered EXCEPT ![g] = unanswered[g] \ mycall]
          /\ \E found \in BOOLEAN : Resolved(g, found)
      BY <1>2, <2>3 DEF Listen
    <3>2. PICK found \in BOOLEAN : Resolved(g, found)
      BY <3>1
    <3> DEFINE less == unanswered[g] \ mycall
    <3>3. less \subseteq unanswered[g] /\ unanswered' = [unanswered EXCEPT ![g] = less]
      BY <3>1
    <3> HIDE DEF less, mycall, msg
    <3>4. unanswered'[g] = less /\ \A h \in Workers \ {g} : unanswered'[h] = unanswered[h]
      BY <1>a, <3>3
    <3>5. /\ load'[g] \in {Loading, Nobody} /\ joined'[g] \subseteq joined[g]
          /\ load'[g] = Nobody => joined'[g] = {}
          /\ \A h \in Workers \ {g} : load'[h] = load[h] /\ joined'[h] = joined[h]
      <4>1. \/ load' = [load EXCEPT ![g] = Loading] /\ joined' = joined
            \/ load' = [load EXCEPT ![g] = Nobody] /\ joined' = [joined EXCEPT ![g] = {}]
        BY <3>2, Zenon DEF Resolved
      <4>. QED
        BY <1>a, <1>b, <4>1
    <3>. QED
      BY <1>b, <3>1, <3>3, <3>4, <3>5 DEF LoadsTrue
  <2>4. CASE msg.type = "reply" /\ Answers(g, msg) /\ ~\E c \in mycall : c.target = "resolve"
    <3>1. /\ UNCHANGED <<cur, load, joined>> /\ unanswered' = [unanswered EXCEPT ![g] = @ \ mycall]
      BY <1>2, <2>4 DEF Listen
    <3>2. \A c \in unanswered[g] : c.target = "resolve" => c \in unanswered'[g]
      BY <1>a, <2>4, <3>1
    <3>3. unanswered'[g] \subseteq unanswered[g] /\ \A h \in Workers \ {g} : unanswered'[h] = unanswered[h]
      BY <1>a, <3>1
    <3>. QED
      BY <2>1, <3>1, <3>2, <3>3 DEF LoadsTrue
  <2>5. CASE ~(msg.type = "run") /\ ~(msg.type = "reply" /\ Answers(g, msg))
    BY <1>1, <1>2, <2>1, <2>5 DEF Listen
  <2>. QED
    BY <2>2, <2>3, <2>4, <2>5
<1>3. ASSUME NEW g \in Workers, NEW target \in Targets, CodeCall(g, target) PROVE LoadsTrue'
  <2> DEFINE m == [call |-> asked[cur[g]] + 1, target |-> target]
  <2>1. /\ cur[g] # Nobody /\ UNCHANGED <<cur, load, joined, late>>
        /\ unanswered' = [unanswered EXCEPT ![g] = @ \cup {m}]
    BY <1>3 DEF CodeCall
  <2> HIDE DEF m
  <2>2. unanswered[g] \subseteq unanswered'[g] /\ \A h \in Workers \ {g} : unanswered'[h] = unanswered[h]
    BY <1>a, <2>1
  <2>. QED
    BY <2>1, <2>2 DEF LoadsTrue
<1>4. ASSUME NEW g \in Workers, NEW url \in BOOLEAN, Import(g, url) PROVE LoadsTrue'
  <2>1. /\ cur[g] \in Runs /\ UNCHANGED cur /\ load[g] # Loaded /\ joined' = [joined EXCEPT ![g] = @ \cup {cur[g]}]
    BY <1>4, <1>a DEF Import
  <2>2. \A h \in Workers : joined'[h] = IF h = g THEN joined[g] \cup {cur[g]} ELSE joined[h]
    BY <1>a, <2>1
  <2>3. CASE load[g] # Nobody
    <3>1. UNCHANGED <<load, unanswered>>
      BY <1>4, <2>3 DEF Import
    <3>. QED
      BY <1>b, <2>1, <2>2, <2>3, <3>1 DEF LoadsTrue
  <2>5. CASE load[g] = Nobody /\ url
    <3>1. UNCHANGED unanswered /\ load' = [load EXCEPT ![g] = Loading]
      BY <1>4, <1>b, <2>5 DEF Import
    <3>2. load'[g] = Loading /\ \A h \in Workers \ {g} : load'[h] = load[h]
      BY <1>a, <3>1
    <3>. QED
      BY <1>b, <2>1, <2>2, <3>1, <3>2 DEF LoadsTrue
  <2>4. CASE load[g] = Nobody /\ ~url
    <3> DEFINE m == [call |-> asked[cur[g]] + 1, target |-> "resolve"]
    <3>1. /\ load' = [load EXCEPT ![g] = cur[g]] /\ unanswered' = [unanswered EXCEPT ![g] = @ \cup {m}]
          /\ m.target = "resolve"
      BY <1>4, <2>4 DEF Import
    <3> HIDE DEF m
    <3>2. m \in unanswered'[g] /\ load'[g] = cur[g]
          /\ \A h \in Workers \ {g} : unanswered'[h] = unanswered[h] /\ load'[h] = load[h]
      BY <1>a, <3>1
    <3>. QED
      BY <1>b, <2>1, <2>2, <3>1, <3>2 DEF LoadsTrue
  <2>. QED
    BY <2>3, <2>4, <2>5
<1>5. ASSUME NEW g \in Workers, CodeDone(g) PROVE LoadsTrue'
  <2>1. /\ cur' = [cur EXCEPT ![g] = Nobody] /\ unanswered' = [unanswered EXCEPT ![g] = {}]
        /\ joined' = [joined EXCEPT ![g] = {}] /\ cur[g] # Nobody
        /\ load' = IF \E c \in unanswered[g] : c.target = "resolve"
                   THEN [load EXCEPT ![g] = Nobody] ELSE load
    BY <1>5 DEF CodeDone
  <2>2. load'[g] \notin Runs
    BY <1>a, <1>b, <2>1 DEF LoadsTrue
  <2>3. \A h \in Workers \ {g} : /\ cur'[h] = cur[h] /\ unanswered'[h] = unanswered[h]
                                 /\ joined'[h] = joined[h] /\ load'[h] = load[h]
    BY <1>a, <2>1
  <2>4. cur'[g] = Nobody /\ unanswered'[g] = {} /\ joined'[g] = {}
    BY <1>a, <2>1
  <2>. QED
    BY <2>1, <2>2, <2>3, <2>4 DEF LoadsTrue
<1>6. ASSUME NEW g \in Workers, NEW r \in Runs, NEW target \in Targets, LateCall(g, r, target)
      PROVE  LoadsTrue'
  <2>1. /\ UNCHANGED <<cur, unanswered, joined>>
        /\ load' = load \/ (load[g] = Nobody /\ load' = [load EXCEPT ![g] = Astray])
    BY <1>6, <1>a DEF LateCall
  <2>. QED
    BY <1>a, <1>b, <2>1 DEF LoadsTrue
<1>7. ASSUME NEW g \in Workers, NEW ok \in BOOLEAN, LoadModule(g, ok) \/ LateImport(g) PROVE LoadsTrue'
  <2>1. /\ UNCHANGED <<cur, unanswered>>
        /\ \E v \in {Loaded, Loading, Nobody} : load' = [load EXCEPT ![g] = v]
        /\ joined' = [joined EXCEPT ![g] = {}] \/ (load[g] = Nobody /\ UNCHANGED joined)
    BY <1>7 DEF LoadModule, LateImport
  <2>2. joined'[g] = {} /\ load'[g] \notin Runs
    BY <1>a, <1>b, <2>1 DEF LoadsTrue
  <2>3. \A h \in Workers \ {g} : load'[h] = load[h] /\ joined'[h] = joined[h]
    BY <1>a, <2>1
  <2>. QED
    BY <2>1, <2>2, <2>3 DEF LoadsTrue
<1>. QED
  BY <1>1, <1>2, <1>3, <1>4, <1>5, <1>6, <1>7
  DEF KNext, HostSteps, BeginRun, Prepared, Booted, BootFailed, Posted, Resolve, Interrupt, TimedOut, Close,
      Died, Tick, Hear, Answer, spared, code

LEMMA AnswersNext ==
    ASSUME AnswersOwn, KNext
    PROVE  AnswersOwn'
<1>1. ASSUME UNCHANGED got PROVE AnswersOwn'
  BY <1>1 DEF AnswersOwn
<1>2. ASSUME NEW g \in Workers, Listen(g) PROVE AnswersOwn'
  <2>1. CASE UNCHANGED got
    BY <1>1, <2>1
  <2>2. CASE ~ UNCHANGED got
    <3>1. PICK msg : /\ Answers(g, msg)
                     /\ got' = got \cup {[run |-> cur[g], of |-> msg.run, call |-> msg.call]
                                           : c \in {c \in unanswered[g] : c.call = msg.call}}
      BY <1>2, <2>2 DEF Listen
    <3>. QED
      BY <3>1 DEF AnswersOwn, Answers
  <2>. QED
    BY <2>1, <2>2
<1>. QED
  BY <1>1, <1>2
  DEF KNext, HostSteps, BeginRun, Prepared, Booted, BootFailed, Posted, Resolve, Interrupt, TimedOut, Close,
      Died, Tick, Hear, Answer, Import, CodeCall, CodeDone, LateCall, LateImport, LoadModule, spared, code

-----------------------------------------------------------------------------
LEMMA KernelStart == KInit => KernelInv
<1> SUFFICES ASSUME KInit PROVE KernelInv
  OBVIOUS
<1>1. KernelTypes
  <2>1. <<>> \in Seq(ToWorker) /\ <<>> \in Seq(ToHost)
    OBVIOUS
  <2>2. /\ up \in [Workers -> Seq(ToWorker)] /\ down \in [Workers -> Seq(ToHost)]
        /\ proc \in [Workers -> {"none", "booting", "up", "dead"}]
    BY <2>1 DEF KInit
  <2>3. /\ cur \in [Workers -> Runs \cup {Nobody}] /\ asked \in [Runs -> Nat]
        /\ load \in [Workers -> Kept]
    BY DEF KInit, Kept
  <2>4. /\ unanswered \in [Workers -> SUBSET [call : Nat, target : Targets]]
        /\ behind \in [Workers -> SUBSET Runs] /\ joined \in [Workers -> SUBSET Runs]
    BY DEF KInit
  <2>5. kclosed \in BOOLEAN /\ spent \in BOOLEAN
    BY DEF KInit
  <2>. QED
    BY <2>2, <2>3, <2>4, <2>5 DEF KInit, KernelTypes, Stages
<1>2. Boots
  BY DEF KInit, Boots
<1>3. OneRun
  BY DEF KInit, OneRun
<1>4. CallsNow /\ ClockTrue /\ AnswersOwn
  BY DEF KInit, CallsNow, ClockTrue, AnswersOwn
<1>5. LoadsTrue
  BY RunNumbers DEF KInit, LoadsTrue
<1>. QED
  BY <1>1, <1>2, <1>3, <1>4, <1>5 DEF KernelInv

LEMMA KernelStep == KernelInv /\ [KNext]_kvars => KernelInv'
<1>1. ASSUME KernelInv, KNext PROVE KernelInv'
  BY <1>1, TypesNext, BootsNext, RunNext, CallsNext, ClockNext, LoadsNext, AnswersNext DEF KernelInv
<1>2. ASSUME KernelInv, UNCHANGED kvars PROVE KernelInv'
  <2>1. UNCHANGED <<kclosed, worker, booting, run, stage, mine, taken, used, hostUsed, spent, applied, elapsed>>
    BY <1>2 DEF kvars, host
  <2>2. UNCHANGED <<proc, down, up, cur, unanswered, asked, behind, late, load, joined, got>>
    BY <1>2 DEF kvars, code
  <2>3. KernelTypes' /\ Boots' /\ OneRun'
    BY <1>2, <2>1, <2>2 DEF KernelInv, KernelTypes, Boots, OneRun, OneRunOf, Busy, RunMsgs, Dones
  <2>. QED
    BY <1>2, <2>1, <2>2, <2>3 DEF KernelInv, CallsNow, ClockTrue, LoadsTrue, AnswersOwn
<1>. QED
  BY <1>1, <1>2

LEMMA KernelMeans ==
    KernelInv => KTypeOK /\ AnswersOwn /\ TimeBounded /\ NoStrays /\ ImportsOwn
<1> SUFFICES ASSUME KernelInv PROVE KTypeOK /\ AnswersOwn /\ TimeBounded /\ NoStrays /\ ImportsOwn
  OBVIOUS
<1>1. KTypeOK
  BY DEF KernelInv, KernelTypes, LoadsTrue, KTypeOK, Stages, Kept
<1>2. TimeBounded
  BY KernelAssumption DEF KernelInv, KernelTypes, ClockTrue, TimeBounded
<1>3. NoStrays
  BY DEF KernelInv, Boots, NoStrays
<1>4. ImportsOwn
  BY RunNumbers DEF KernelInv, KernelTypes, LoadsTrue, ImportsOwn, Kept
<1>. QED
  BY <1>1, <1>2, <1>3, <1>4 DEF KernelInv

LEMMA FilesStep ==
    KernelInv /\ [KNext]_kvars =>
        [\A c \in applied' \ applied : c.run = run /\ stage \in {"running", "ending"}]_kvars
<1> SUFFICES ASSUME KernelInv, KNext, NEW c \in applied' \ applied
             PROVE  c.run = run /\ stage \in {"running", "ending"}
  OBVIOUS
<1>1. PICK d \in taken : Answer(d)
  <2>1. \A g \in Workers : ~(Died(g) \/ Hear(g) \/ Listen(g) \/ CodeDone(g) \/ LateImport(g))
    BY DEF Died, Hear, Listen, CodeDone, LateImport, spared, host
  <2>2. \A g \in Workers, b \in BOOLEAN : ~(Import(g, b) \/ LoadModule(g, b))
    BY DEF Import, LoadModule, host
  <2>3. \A g \in Workers, target \in Targets : ~CodeCall(g, target) /\ \A r \in Runs : ~LateCall(g, r, target)
    BY DEF CodeCall, LateCall, host
  <2>4. ~(BeginRun \/ HostSteps \/ Interrupt \/ TimedOut \/ Close \/ Tick)
    BY DEF HostSteps, BeginRun, Prepared, Booted, BootFailed, Posted, Resolve, Interrupt, TimedOut, Close, Tick, spared
  <2>. QED
    BY <2>1, <2>2, <2>3, <2>4 DEF KNext
<1>2. c = d /\ d.target = "fs"
  BY <1>1 DEF Answer
<1>. QED
  BY <1>2 DEF KernelInv, CallsNow

(* For any workers, runs, calls, timeout and host time: no worker outlives   *)
(* its kernel's stop, an answer is to the call made, a run takes no more     *)
(* than its time, an import the host was asked for is the run's that awaits  *)
(* it or code's left behind, and files change only within the run that      *)
(* calls them (kernel.ts, worker-core.ts).                                  *)
THEOREM KernelStaysTrue == KSpec => KernelTrue
<1>1. KernelInv => KTypeOK /\ AnswersOwn /\ TimeBounded /\ NoStrays /\ ImportsOwn
  BY KernelMeans
<1>. QED
  BY <1>1, KernelStart, KernelStep, FilesStep, PTL DEF KSpec, KernelTrue, FilesInRun
=============================================================================
