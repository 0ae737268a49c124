--------------------------- MODULE Sessions_proofs ---------------------------
(* That the job table of a Sessions helper is true, that no answer is given  *)
(* twice or after a cancel, and that the sweep spares a branch with a run or *)
(* a keep, for any children, runs and workers (Sessions: JobsHeld,           *)
(* AnswersHeld, SweepSpares).                                                *)
EXTENDS Sessions, FiniteSetTheorems, TLAPS

-----------------------------------------------------------------------------
(* The inductive invariant.                                                 *)

Row == [status : {"cancelled"} \cup Final, answer : Run \cup {None}, uncollected : BOOLEAN]
Types == TypeOK /\ saved \in [DOMAIN saved -> Row]

\* t is a run of n; t is the last of them; t has recorded its answer or
\* ended without one.
OneOf(n, t) == t \in 1 .. minted /\ job[t] = n
LastOf(n, t) == t \in 1 .. minted /\ job[t] = n /\ \A u \in 1 .. minted : job[u] = n => u <= t
Past(t) == pc[t] \in {"tell", "end", "done"}

\* A run holds its child from its start until it records or ends, and one
\* that has something to land has a reply.
RunInv ==
    \A t \in Run :
        /\ pc[t] = "unborn" <=> t > minted
        /\ Working(t) => busy[job[t]] = t
        /\ pc[t] \in {"land", "remainder", "commit", "describe"} => reply[t] \in Final

\* A child that is held is held by its last run.  Unless it is torn, it is
\* out of the sweep's reach then, and one that is being forked has no job;
\* what the sweep has left to delete has nothing to lose.
ChildInv ==
    \A n \in Names :
        /\ busy[n] # None => LastOf(n, busy[n]) /\ status[n] \notin {"none", "expired"}
        /\ status[n] = "running" => busy[n] # None /\ Working(busy[n])
        /\ n \in left => n \in DOMAIN saved
        /\ n \notin torn =>
            /\ status[n] \notin {"none", "expired"} => n \in branches \ forking
            /\ n \in forking => n \in branches \ left
            /\ n \in left => /\ n \in branches /\ status[n] = "expired"
                             /\ answer[n] = None /\ ~kept[n] /\ n \notin uncollected

QueueInv == SlotsExact /\ \A i, j \in DOMAIN slots : slots[i] = slots[j] => i = j

\* An answer (of the table, or of a row the sweep may put back) is of a
\* run of the child that is past it; while the row is its own, of the last
\* one, and new only before it is given.
AnswerPast(n, a) == a # None => OneOf(n, a) /\ Past(a)
AnswerOK(n, a, st, new) ==
    a # None => st \in Final /\ LastOf(n, a) /\ a \notin stopped /\ (new => a \notin given)

AnswerInv ==
    /\ \A n \in Names : AnswerPast(n, answer[n])
    /\ \A n \in DOMAIN saved : AnswerPast(n, saved[n].answer)
    /\ \A n \in Names \ torn : AnswerOK(n, answer[n], status[n], n \in uncollected)
    /\ \A n \in left \ torn : AnswerOK(n, saved[n].answer, saved[n].status, saved[n].uncollected)

\* What was said of a run was said after it recorded; nothing is said of a
\* stopped one, and while it works its job says it was cancelled, unless
\* its child is torn.
SaidInv ==
    \A t \in Run :
        /\ t \in recorded => pc[t] = "tell"
        /\ t \in given \cup told => Past(t)
        /\ t \in stopped => t <= minted
        /\ t \in stopped /\ job[t] \notin torn =>
            /\ t \notin given \cup told \cup recorded
            /\ Working(t) => status[job[t]] = "cancelled"

Inv == Types /\ RunInv /\ ChildInv /\ QueueInv /\ AnswerInv /\ SaidInv

-----------------------------------------------------------------------------
(* Sequences without repetition.                                            *)

Elements(s) == {s[i] : i \in DOMAIN s}
Distinct(s) == \A i, j \in DOMAIN s : s[i] = s[j] => i = j

LEMMA AppendElement ==
    ASSUME NEW T, NEW s \in Seq(T), NEW x \in T, Distinct(s), x \notin Elements(s)
    PROVE  /\ Append(s, x) \in Seq(T) /\ Distinct(Append(s, x))
           /\ Elements(Append(s, x)) = Elements(s) \cup {x}
<1> DEFINE t == Append(s, x)
<1>1. /\ t \in Seq(T) /\ DOMAIN s = 1 .. Len(s) /\ DOMAIN t = 1 .. Len(s) + 1 /\ Len(s) \in Nat
      /\ \A i \in 1 .. Len(s) : t[i] = s[i]
      /\ t[Len(s) + 1] = x
    OBVIOUS
<1> HIDE DEF t
<1>2. Distinct(t)
    BY <1>1 DEF Distinct, Elements
<1>3. \A y : y \in Elements(t) <=> y \in Elements(s) \/ y = x
    BY <1>1 DEF Elements
<1> QED
    BY <1>1, <1>2, <1>3 DEF t

LEMMA TailElements ==
    ASSUME NEW T, NEW s \in Seq(T), s # <<>>, Distinct(s)
    PROVE  /\ Head(s) \in T /\ Head(s) \in Elements(s)
           /\ Tail(s) \in Seq(T) /\ Distinct(Tail(s)) /\ Elements(Tail(s)) = Elements(s) \ {Head(s)}
<1> DEFINE t == Tail(s)
<1>1. /\ t \in Seq(T) /\ DOMAIN s = 1 .. Len(s) /\ Len(s) \in Nat \ {0}
      /\ DOMAIN t = 1 .. Len(s) - 1 /\ Head(s) = s[1] /\ s[1] \in T
      /\ \A i \in 1 .. Len(s) - 1 : t[i] = s[i + 1]
    OBVIOUS
<1> HIDE DEF t
<1>2. Distinct(t)
    <2> SUFFICES ASSUME NEW i \in DOMAIN t, NEW j \in DOMAIN t, t[i] = t[j] PROVE i = j
        BY DEF Distinct
    <2>1. i + 1 \in DOMAIN s /\ j + 1 \in DOMAIN s /\ s[i + 1] = s[j + 1]
        BY <1>1
    <2>2. i + 1 = j + 1
        BY <2>1 DEF Distinct
    <2> QED
        BY <2>2, <1>1
<1>3. ASSUME NEW y PROVE y \in Elements(t) <=> y \in Elements(s) /\ y # s[1]
    <2>1. ASSUME NEW i \in DOMAIN t, y = t[i] PROVE y \in Elements(s) /\ y # s[1]
        BY <1>1, <2>1 DEF Elements, Distinct
    <2>2. ASSUME NEW i \in DOMAIN s, y = s[i], y # s[1] PROVE y \in Elements(t)
        <3>1. i - 1 \in DOMAIN t /\ t[i - 1] = y
            BY <1>1, <2>2
        <3> QED
            BY <3>1 DEF Elements
    <2> QED
        BY <2>1, <2>2 DEF Elements
<1>4. s[1] \in Elements(s)
    BY <1>1 DEF Elements
<1> QED
    BY <1>1, <1>2, <1>3, <1>4 DEF t

LEMMA WithoutElement ==
    ASSUME NEW T, NEW s \in Seq(T), NEW x, Distinct(s)
    PROVE  /\ Without(s, x) \in Seq(T) /\ Distinct(Without(s, x))
           /\ Elements(Without(s, x)) = Elements(s) \ {x}
           /\ Without(s, x) # <<>> => s # <<>>
<1> DEFINE places == {i \in DOMAIN s : s[i] = x}
           t == Without(s, x)
<1>0. DOMAIN s = 1 .. Len(s) /\ Len(s) \in Nat /\ \A i \in 1 .. Len(s) : s[i] \in T
    OBVIOUS
<1>1. CASE places = {}
    <2>1. t = [i \in 1 .. Len(s) |-> s[i]]
        BY <1>1 DEF Without
    <2>2. t = s
        BY <2>1
    <2>3. x \notin Elements(s)
        BY <1>1 DEF Elements
    <2> QED
        BY <2>2, <2>3
<1>2. CASE places # {}
    <2>1. PICK k \in 1 .. Len(s) : s[k] = x
        BY <1>0, <1>2
    <2>2. places = {k}
        BY <2>1, <1>0 DEF Distinct
    <2>3. t = [i \in 1 .. Len(s) - 1 |-> IF k <= i THEN s[i + 1] ELSE s[i]]
        BY <2>2 DEF Without
    <2> HIDE DEF t
    <2>4. /\ DOMAIN t = 1 .. Len(s) - 1 /\ Len(s) - 1 \in Nat
          /\ \A i \in 1 .. Len(s) - 1 : t[i] = IF k <= i THEN s[i + 1] ELSE s[i]
        BY <2>1, <2>3, <1>0
    <2>5. \A i \in 1 .. Len(s) - 1 : t[i] \in T
        BY <2>4, <1>0
    <2>6. t \in [1 .. Len(s) - 1 -> T]
        BY <2>3, <2>5, <2>4
    <2>7. t \in Seq(T)
        BY <2>4, <2>6
    <2>8. Distinct(t)
        BY <2>4, <2>1, <1>0 DEF Distinct
    <2>9. ASSUME NEW y PROVE y \in Elements(t) <=> y \in Elements(s) /\ y # x
        <3>1. ASSUME NEW i \in DOMAIN t, y = t[i] PROVE y \in Elements(s) /\ y # x
            <4>1. PICK j \in 1 .. Len(s) : y = s[j] /\ j # k
                BY <2>4, <2>1, <3>1, <1>0
            <4> QED
                BY <4>1, <2>1, <1>0 DEF Elements, Distinct
        <3>2. ASSUME NEW i \in DOMAIN s, y = s[i], y # x PROVE y \in Elements(t)
            <4>1. i # k
                BY <2>1, <3>2
            <4>2. CASE i < k
                <5>1. i \in DOMAIN t /\ t[i] = y
                    BY <2>4, <2>1, <1>0, <3>2, <4>2
                <5> QED
                    BY <5>1 DEF Elements
            <4>3. CASE i > k
                <5>1. i - 1 \in DOMAIN t /\ t[i - 1] = y
                    BY <2>4, <2>1, <1>0, <3>2, <4>3
                <5> QED
                    BY <5>1 DEF Elements
            <4> QED
                BY <4>1, <4>2, <4>3, <1>0, <2>1
        <3> QED
            BY <3>1, <3>2 DEF Elements
    <2>10. s # <<>>
        BY <2>1
    <2> QED
        BY <2>7, <2>8, <2>9, <2>10 DEF t
<1> QED
    BY <1>1, <1>2

-----------------------------------------------------------------------------
(* The worker slots.                                                        *)

Places == {"unborn", "queued", "run", "land", "remainder", "commit", "describe",
           "tell", "end", "done"}

\* What the types and the queue say of the slots.
SlotTypes == running \in 0 .. MaxWorkers /\ slots \in Seq(Run) /\ pc \in [Run -> Places]
At(p) == {t \in Run : pc[t] = p}

LEMMA QueueIs ==
    QueueInv <=> /\ running = Cardinality(At("run"))
                 /\ slots # <<>> => running = MaxWorkers
                 /\ Elements(slots) = At("queued") /\ Distinct(slots)
BY DEF QueueInv, SlotsExact, Elements, Distinct, At

LEMMA RunsFinite == \A S \in SUBSET Run : IsFiniteSet(S) /\ Cardinality(S) \in Nat
<1>1. IsFiniteSet(Run)
    BY FS_Interval, RunsAssumption DEF Run
<1> QED
    BY <1>1, FS_Subset, FS_CardinalityType

\* A step that takes no slot, gives none back and queues for none.
LEMMA QueueKept ==
    ASSUME QueueInv, UNCHANGED <<running, slots>>,
           \A t \in Run : pc'[t] = pc[t] \/ {pc[t], pc'[t]} \cap {"run", "queued"} = {}
    PROVE  QueueInv'
<1>1. {t \in Run : pc'[t] = "run"} = {t \in Run : pc[t] = "run"}
    OBVIOUS
<1>2. {t \in Run : pc'[t] = "queued"} = {t \in Run : pc[t] = "queued"}
    OBVIOUS
<1>3. Cardinality({t \in Run : pc'[t] = "run"}) = Cardinality({t \in Run : pc[t] = "run"})
    BY <1>1
<1> QED
    BY <1>2, <1>3 DEF QueueInv, SlotsExact

LEMMA StartQueue ==
    ASSUME SlotTypes, QueueInv, NEW t \in Run, pc[t] = "unborn",
           IF SlotFree
           THEN running' = running + 1 /\ pc' = [pc EXCEPT ![t] = "run"] /\ UNCHANGED slots
           ELSE slots' = Append(slots, t) /\ pc' = [pc EXCEPT ![t] = "queued"] /\ UNCHANGED running
    PROVE  QueueInv' /\ SlotTypes' /\ pc'[t] \in {"queued", "run"}
<1>0. pc[t] \in Places /\ t \notin At("run") /\ t \notin At("queued") /\ MaxWorkers \in Nat
    BY RunsAssumption DEF SlotTypes, At
<1>1. CASE SlotFree
    <2>1. At("run")' = At("run") \cup {t} /\ At("queued")' = At("queued")
        BY <1>0, <1>1 DEF At, SlotTypes
    <2>2. Cardinality(At("run")') = Cardinality(At("run")) + 1
        BY <2>1, <1>0, RunsFinite, FS_AddElement DEF At
    <2>3. SlotTypes' /\ pc'[t] \in {"queued", "run"}
        BY <1>1, <1>0 DEF SlotTypes, SlotFree, Places
    <2>4. slots' = <<>>
        BY <1>1, <1>0, QueueIs DEF SlotFree, SlotTypes
    <2> QED
        BY <1>1, <2>1, <2>2, <2>3, <2>4, QueueIs DEF QueueInv, SlotsExact, At
<1>2. CASE ~SlotFree
    <2>1. At("run")' = At("run") /\ At("queued")' = At("queued") \cup {t}
        BY <1>0, <1>2 DEF At, SlotTypes
    <2>2. slots' \in Seq(Run) /\ Distinct(slots') /\ Elements(slots') = Elements(slots) \cup {t}
        <3>1. slots \in Seq(Run) /\ Distinct(slots) /\ t \notin Elements(slots)
            BY <1>0, QueueIs DEF SlotTypes
        <3>2. slots' = Append(slots, t)
            BY <1>2
        <3>3. /\ Append(slots, t) \in Seq(Run) /\ Distinct(Append(slots, t))
              /\ Elements(Append(slots, t)) = Elements(slots) \cup {t}
            BY <3>1, AppendElement
        <3> QED
            BY <3>2, <3>3
    <2>3. SlotTypes' /\ pc'[t] \in {"queued", "run"}
        BY <1>2, <2>2 DEF SlotTypes, Places
    <2>4. running' = MaxWorkers
        BY <1>2, <1>0 DEF SlotFree, SlotTypes
    <2> QED
        BY <1>2, <2>1, <2>2, <2>3, <2>4, QueueIs DEF QueueInv, SlotsExact, At, Elements, Distinct
<1> QED
    BY <1>1, <1>2

LEMMA PassQueue ==
    ASSUME SlotTypes, QueueInv, NEW t \in Run, pc[t] = "run", NEW e \in {"end", "land"},
           PassSlot([pc EXCEPT ![t] = e])
    PROVE  /\ QueueInv' /\ SlotTypes' /\ pc'[t] = e
           /\ \A u \in Run \ {t} : pc'[u] = pc[u] \/ (pc[u] = "queued" /\ pc'[u] = "run")
<1>0. pc[t] \in Places /\ t \in At("run") /\ MaxWorkers \in Nat /\ e \in Places
    BY RunsAssumption DEF SlotTypes, At, Places
<1>1. CASE slots = <<>>
    <2>1. running' = running - 1 /\ pc' = [pc EXCEPT ![t] = e] /\ slots' = slots
        BY <1>1 DEF PassSlot
    <2>2. At("run")' = At("run") \ {t} /\ At("queued")' = At("queued")
        BY <1>0, <2>1 DEF At, SlotTypes
    <2>3. Cardinality(At("run")') = Cardinality(At("run")) - 1 /\ Cardinality(At("run")) # 0
        <3>1. At("run") \in SUBSET Run
            BY DEF At
        <3>2. IsFiniteSet(At("run")) /\ At("run") # {}
            BY <3>1, <1>0, RunsFinite
        <3> QED
            BY <3>2, <2>2, <1>0, FS_RemoveElement, FS_EmptySet
    <2>4. SlotTypes'
        BY <2>1, <2>3, <1>0, QueueIs DEF SlotTypes
    <2>5. QueueInv'
        BY <1>1, <2>1, <2>2, <2>3, QueueIs DEF QueueInv, SlotsExact, At
    <2> QED
        BY <2>1, <2>4, <2>5 DEF SlotTypes
<1>2. CASE slots # <<>>
    <2> DEFINE h == Head(slots)
    <2>1. pc' = [[pc EXCEPT ![t] = e] EXCEPT ![h] = "run"] /\ slots' = Tail(slots) /\ running' = running
        BY <1>2 DEF PassSlot
    <2>2. /\ h \in Run /\ h \in Elements(slots) /\ slots' \in Seq(Run)
          /\ Distinct(slots') /\ Elements(slots') = Elements(slots) \ {h}
        BY <1>2, <2>1, TailElements, QueueIs DEF SlotTypes
    <2>3. pc[h] = "queued" /\ h # t
        BY <2>2, QueueIs DEF At
    <2> HIDE DEF h
    <2>4. pc' \in [Run -> Places] /\ \A u \in Run : pc'[u] = IF u = h THEN "run" ELSE IF u = t THEN e ELSE pc[u]
        BY <2>1, <2>2, <2>3, <1>0 DEF SlotTypes, Places
    <2>5. At("run")' = (At("run") \ {t}) \cup {h} /\ At("queued")' = At("queued") \ {h}
        BY <2>3, <2>4, <2>2 DEF At
    <2>6. Cardinality(At("run") \ {t}) = Cardinality(At("run")) - 1
        BY <1>0, RunsFinite, FS_RemoveElement DEF At
    <2>7. Cardinality(At("run")') = Cardinality(At("run"))
        <3>1. IsFiniteSet(At("run") \ {t}) /\ h \notin At("run") \ {t} /\ Cardinality(At("run")) \in Nat
            BY <2>3, RunsFinite DEF At
        <3> QED
            <4>1. Cardinality((At("run") \ {t}) \cup {h}) = Cardinality(At("run") \ {t}) + 1
                BY <3>1, FS_AddElement
            <4>2. Cardinality(At("run")') = Cardinality((At("run") \ {t}) \cup {h})
                BY <2>5
            <4> QED
                BY <4>1, <4>2, <3>1, <2>6
    <2>8. SlotTypes'
        BY <2>1, <2>2, <2>4 DEF SlotTypes
    <2>9. QueueInv'
        BY <1>2, <2>1, <2>2, <2>5, <2>7, QueueIs DEF QueueInv, SlotsExact, At, Elements, Distinct
    <2> QED
        BY <2>3, <2>4, <2>8, <2>9
<1> QED
    BY <1>1, <1>2

LEMMA LeaveQueue ==
    ASSUME SlotTypes, QueueInv, NEW t \in Run, UNCHANGED running,
           slots' = Without(slots, t),
           pc' = IF pc[t] = "queued" THEN [pc EXCEPT ![t] = "end"] ELSE pc
    PROVE  QueueInv' /\ SlotTypes'
<1>1. /\ slots' \in Seq(Run) /\ Distinct(slots') /\ Elements(slots') = Elements(slots) \ {t}
      /\ slots' # <<>> => slots # <<>>
    BY WithoutElement, QueueIs DEF SlotTypes
<1>2. SlotTypes' /\ At("run")' = At("run") /\ At("queued")' = At("queued") \ {t}
    BY <1>1 DEF SlotTypes, At, Places
<1> QED
    BY <1>1, <1>2, QueueIs DEF QueueInv, SlotsExact, At, Elements, Distinct

-----------------------------------------------------------------------------
(* The steps.                                                               *)

\* A run that works holds its child, which is out of the sweep's reach.
LEMMA Holder ==
    ASSUME Types, RunInv, ChildInv, NEW t \in Run, Working(t)
    PROVE  /\ t \in 1 .. minted /\ job[t] \in Names /\ busy[job[t]] = t
           /\ LastOf(job[t], t) /\ t # None /\ status[job[t]] \notin {"none", "expired"}
           /\ job[t] \notin torn => job[t] \notin left /\ job[t] \notin forking
<1>1. t \in 1 .. minted /\ job[t] \in Names /\ busy[job[t]] = t /\ t # None
    BY DEF Types, TypeOK, RunInv, Working, Run, None
<1> QED
    BY <1>1 DEF ChildInv

LEMMA ForkStep ==
    ASSUME Inv, NEW n \in Names, Fork(n)
    PROVE  Inv'
<1> USE DEF Inv, Fork, storeVars, jobVars, slotVars, runVars, waitVars, sweepVars, ghostVars
<1>1. Types'
    BY DEF Types, TypeOK, Row
<1>2. RunInv'
    BY DEF Types, TypeOK, RunInv, Working
<1>3. ChildInv'
    BY DEF Types, TypeOK, RunInv, ChildInv, LastOf, Working
<1>4. QueueInv'
    BY QueueKept DEF Types, TypeOK
<1>5. AnswerInv'
    BY DEF Types, TypeOK, RunInv, ChildInv, AnswerInv, AnswerOK, AnswerPast, OneOf, LastOf, Past, Working
<1>6. SaidInv'
    BY DEF Types, TypeOK, RunInv, ChildInv, SaidInv, Past, LastOf, Working
<1> QED
    BY <1>1, <1>2, <1>3, <1>4, <1>5, <1>6

LEMMA ForkRefusedStep ==
    ASSUME Inv, NEW n \in Names, ForkRefused(n)
    PROVE  Inv'
<1> USE DEF Inv, ForkRefused, storeVars, jobVars, slotVars, runVars, waitVars, sweepVars, ghostVars
<1>1. Types'
    BY DEF Types, TypeOK, Row
<1>2. RunInv'
    BY DEF Types, TypeOK, RunInv, Working
<1>3. ChildInv'
    BY DEF Types, TypeOK, RunInv, ChildInv, LastOf, Working
<1>4. QueueInv'
    BY QueueKept DEF Types, TypeOK
<1>5. AnswerInv'
    BY DEF Types, TypeOK, RunInv, ChildInv, AnswerInv, AnswerOK, AnswerPast, OneOf, LastOf, Past, Working
<1>6. SaidInv'
    BY DEF Types, TypeOK, RunInv, ChildInv, SaidInv, Past, LastOf, Working
<1> QED
    BY <1>1, <1>2, <1>3, <1>4, <1>5, <1>6

LEMMA CancelStep ==
    ASSUME Inv, NEW n \in Names, Cancel(n)
    PROVE  Inv'
<1> USE DEF Inv, Cancel, storeVars, jobVars, slotVars, runVars, waitVars, sweepVars, ghostVars
<1> DEFINE t == busy[n]
<1>a. t \in Run /\ SlotTypes
    BY DEF Types, TypeOK, ChildInv, SlotTypes, Places
<1>b. QueueInv' /\ SlotTypes'
    BY <1>a, LeaveQueue
<1>1. Types'
    BY <1>a, <1>b DEF SlotTypes, Places, Woken, Listeners, Types, TypeOK, Row
<1>2. RunInv'
    BY DEF Types, TypeOK, RunInv, Working
<1>3. ChildInv'
    BY DEF Types, TypeOK, RunInv, ChildInv, LastOf, Working
<1>4. QueueInv'
    BY <1>b
<1>5. AnswerInv'
    BY DEF Types, TypeOK, RunInv, ChildInv, AnswerInv, AnswerOK, AnswerPast, OneOf, LastOf, Past, Working
<1>6. SaidInv'
    BY DEF Types, TypeOK, RunInv, ChildInv, SaidInv, Past, LastOf, Working
<1> QED
    BY <1>1, <1>2, <1>3, <1>4, <1>5, <1>6

LEMMA ResultStep ==
    ASSUME Inv, NEW n \in Names, Result(n)
    PROVE  Inv'
<1> USE DEF Inv, Result, storeVars, jobVars, slotVars, runVars, waitVars, sweepVars, ghostVars
<1>1. Types'
    BY DEF Types, TypeOK, Row
<1>2. RunInv'
    BY DEF Types, TypeOK, RunInv, Working
<1>3. ChildInv'
    BY DEF Types, TypeOK, RunInv, ChildInv, LastOf, Working
<1>4. QueueInv'
    BY QueueKept DEF Types, TypeOK
<1>5. AnswerInv'
    BY DEF Types, TypeOK, RunInv, ChildInv, AnswerInv, AnswerOK, AnswerPast, OneOf, LastOf, Past, Working
<1>6. SaidInv'
    BY DEF AnswerInv, AnswerOK, AnswerPast, OneOf, Types, TypeOK, SaidInv, Past, LastOf, Working
<1> QED
    BY <1>1, <1>2, <1>3, <1>4, <1>5, <1>6

LEMMA KeepStep ==
    ASSUME Inv, NEW n \in Names, Keep(n)
    PROVE  Inv'
<1> USE DEF Inv, Keep, storeVars, jobVars, slotVars, runVars, waitVars, sweepVars, ghostVars
<1>1. Types'
    BY DEF Types, TypeOK, Row
<1>2. RunInv'
    BY DEF Types, TypeOK, RunInv, Working
<1>3. ChildInv'
    BY DEF Types, TypeOK, RunInv, ChildInv, LastOf, Working
<1>4. QueueInv'
    BY QueueKept DEF Types, TypeOK
<1>5. AnswerInv'
    BY DEF Types, TypeOK, RunInv, ChildInv, AnswerInv, AnswerOK, AnswerPast, OneOf, LastOf, Past, Working
<1>6. SaidInv'
    BY DEF Types, TypeOK, RunInv, ChildInv, SaidInv, Past, LastOf, Working
<1> QED
    BY <1>1, <1>2, <1>3, <1>4, <1>5, <1>6

LEMMA WaitSteps ==
    ASSUME Inv, Wait \/ WaitLooks \/ Close \/ CloseEnds
    PROVE  Inv'
<1>1. UNCHANGED <<storeVars, jobVars, slotVars, runVars, sweepVars, ghostVars>>
    BY DEF Wait, WaitLooks, Close, CloseEnds
<1>2. asleep' \subseteq Listeners /\ waiting' \in BOOLEAN /\ closed' \in {"open", "closing", "closed"} /\ closeOn' \subseteq Run
    <2>1. CASE Wait \/ WaitLooks \/ CloseEnds
        BY <2>1 DEF Inv, Types, TypeOK, Wait, WaitLooks, CloseEnds, Listeners, waitVars
    <2>2. CASE Close
        <3>1. closeOn' \subseteq 1 .. minted /\ minted \in 0 .. MaxRuns /\ MaxRuns \in Nat
            BY <2>2, RunsAssumption DEF Close, Inv, Types, TypeOK
        <3> QED
            BY <2>2, <3>1 DEF Close, Inv, Types, TypeOK, Run
    <2> QED
        BY <2>1, <2>2
<1> USE <1>1 DEF Inv, storeVars, jobVars, slotVars, runVars, sweepVars, ghostVars
<1>3. Types'
    BY <1>2 DEF Types, TypeOK, Row
<1>4. RunInv' /\ ChildInv' /\ SaidInv'
    BY DEF RunInv, ChildInv, SaidInv, LastOf, Past, Working
<1>5. QueueInv'
    BY QueueKept
<1>6. AnswerInv'
    BY DEF AnswerInv, AnswerOK, AnswerPast, OneOf, LastOf, Past
<1> QED
    BY <1>3, <1>4, <1>5, <1>6

LEMMA RunnerReturnsStep ==
    ASSUME Inv, NEW t \in Run, RunnerReturns(t)
    PROVE  Inv'
<1> USE DEF Inv, RunnerReturns, storeVars, jobVars, slotVars, runVars, waitVars, sweepVars, ghostVars
<1> DEFINE e == IF status[job[t]] = "cancelled" THEN "end" ELSE "land"
<1>a. /\ SlotTypes /\ pc[t] = "run" /\ e \in {"end", "land"} /\ PassSlot([pc EXCEPT ![t] = e])
      /\ \E r \in Final : reply' = [reply EXCEPT ![t] = r]
    BY DEF Types, TypeOK, SlotTypes, Places
<1>b. /\ QueueInv' /\ SlotTypes' /\ pc'[t] = e
      /\ \A u \in Run \ {t} : pc'[u] = pc[u] \/ (pc[u] = "queued" /\ pc'[u] = "run")
    BY <1>a, PassQueue
<1>c. /\ UNCHANGED <<forking, jobVars, minted, job, waitVars, sweepVars, ghostVars>>
      /\ branches' \in {branches, branches \cup {job[t]}}
    OBVIOUS
<1>d. /\ pc' \in [Run -> Places] /\ reply' \in [Run -> Final \cup {"none"}] /\ reply'[t] \in Final
      /\ \A u \in Run \ {t} : reply'[u] = reply[u]
    BY <1>a, <1>b DEF Types, TypeOK, SlotTypes
<1>e. \A u \in Run : (pc'[u] = "unborn" <=> pc[u] = "unborn") /\ (Working(u)' => Working(u)) /\ (Past(u) => Past(u)')
    BY <1>a, <1>b DEF Working, Past
<1>f. job[t] \in Names /\ (~Working(t)' => status[job[t]] = "cancelled")
    BY <1>a, <1>b, Holder DEF Working, e
<1> HIDE DEF RunnerReturns, e
<1>1. Types'
    BY <1>a, <1>b, <1>c, <1>d, <1>f DEF SlotTypes, Places, Final, Types, TypeOK, Row
<1>2. RunInv'
    BY <1>a, <1>b, <1>c, <1>d, <1>e, <1>f DEF Types, TypeOK, RunInv, Working
<1>3. ChildInv'
    BY <1>a, <1>b, <1>c, <1>d, <1>e, <1>f DEF Types, TypeOK, RunInv, ChildInv, LastOf, Working
<1>4. QueueInv'
    BY <1>b
<1>5. AnswerInv'
    <2>1. \A a \in Run : Past(a) => Past(a)'
        BY <1>e
    <2>2. 1 .. minted \subseteq Run
        BY RunsAssumption DEF Types, TypeOK, Run
    <2> QED
        BY <1>c, <2>1, <2>2 DEF AnswerInv, AnswerOK, AnswerPast, OneOf, LastOf
<1>6. SaidInv'
    BY <1>a, <1>b, <1>c, <1>d, <1>e, <1>f DEF Types, TypeOK, RunInv, ChildInv, SaidInv, Past, LastOf, Working
<1> QED
    BY <1>1, <1>2, <1>3, <1>4, <1>5, <1>6

LEMMA LandStep ==
    ASSUME Inv, NEW t \in Run, Land(t)
    PROVE  Inv'
<1> USE DEF Inv, Land, storeVars, jobVars, slotVars, runVars, waitVars, sweepVars, ghostVars
<1>1. Types'
    BY DEF Types, TypeOK, Row
<1>2. RunInv'
    BY DEF Types, TypeOK, RunInv, Working
<1>3. ChildInv'
    BY DEF Types, TypeOK, RunInv, ChildInv, LastOf, Working
<1>4. QueueInv'
    BY QueueKept DEF Types, TypeOK
<1>5. AnswerInv'
    BY DEF Types, TypeOK, RunInv, ChildInv, AnswerInv, AnswerOK, AnswerPast, OneOf, LastOf, Past, Working
<1>6. SaidInv'
    BY DEF Types, TypeOK, RunInv, ChildInv, SaidInv, Past, LastOf, Working
<1> QED
    BY <1>1, <1>2, <1>3, <1>4, <1>5, <1>6

LEMMA RemainderStep ==
    ASSUME Inv, NEW t \in Run, Remainder(t)
    PROVE  Inv'
<1> USE DEF Inv, Remainder, storeVars, jobVars, slotVars, runVars, waitVars, sweepVars, ghostVars
<1>a. \E p \in {"describe", "commit"} : pc[t] = "remainder" /\ pc' = [pc EXCEPT ![t] = p]
    OBVIOUS
<1>b. landing' \subseteq Names
    BY Holder DEF Types, TypeOK, Working
<1>c. UNCHANGED <<storeVars, status, kept, answer, uncollected, busy, recorded,
                   slotVars, minted, job, reply, waitVars, sweepVars, ghostVars>>
    OBVIOUS
<1> HIDE DEF Remainder
<1>1. Types'
    BY <1>a, <1>b, <1>c DEF Types, TypeOK, Row
<1>2. RunInv'
    BY <1>a, <1>b, <1>c DEF Types, TypeOK, RunInv, Working
<1>3. ChildInv'
    BY <1>a, <1>b, <1>c DEF Types, TypeOK, RunInv, ChildInv, LastOf, Working
<1>4. QueueInv'
    BY <1>a, <1>c, QueueKept DEF Types, TypeOK
<1>5. AnswerInv'
    BY <1>a, <1>b, <1>c DEF Types, TypeOK, RunInv, ChildInv, AnswerInv, AnswerOK, AnswerPast, OneOf, LastOf, Past, Working
<1>6. SaidInv'
    BY <1>a, <1>b, <1>c DEF Types, TypeOK, RunInv, ChildInv, SaidInv, Past, LastOf, Working
<1> QED
    BY <1>1, <1>2, <1>3, <1>4, <1>5, <1>6

LEMMA CommitRemainderStep ==
    ASSUME Inv, NEW t \in Run, CommitRemainder(t)
    PROVE  Inv'
<1> USE DEF Inv, CommitRemainder, storeVars, jobVars, slotVars, runVars, waitVars, sweepVars, ghostVars
<1>1. Types'
    BY DEF Types, TypeOK, Row
<1>2. RunInv'
    BY DEF Types, TypeOK, RunInv, Working
<1>3. ChildInv'
    BY DEF Types, TypeOK, RunInv, ChildInv, LastOf, Working
<1>4. QueueInv'
    BY QueueKept DEF Types, TypeOK
<1>5. AnswerInv'
    BY DEF Types, TypeOK, RunInv, ChildInv, AnswerInv, AnswerOK, AnswerPast, OneOf, LastOf, Past, Working
<1>6. SaidInv'
    BY DEF Types, TypeOK, RunInv, ChildInv, SaidInv, Past, LastOf, Working
<1> QED
    BY <1>1, <1>2, <1>3, <1>4, <1>5, <1>6

LEMMA RecordStep ==
    ASSUME Inv, NEW t \in Run, NEW r \in Final, pc[t] \in {"land", "describe"}, Record(t, r)
    PROVE  Inv'
<1> DEFINE n == job[t]
<1>a. /\ t \in 1 .. minted /\ n \in Names /\ busy[n] = t /\ LastOf(n, t) /\ t # None
      /\ status[n] \notin {"none", "expired"} /\ Working(t)
      /\ n \notin torn => n \notin left /\ n \notin forking
    BY Holder DEF Inv, Working, None, Run
<1>b. UNCHANGED <<storeVars, kept, landing, slotVars, minted, job, reply, waiting, closed, closeOn, sweepVars, ghostVars>>
    BY DEF Record
<1> USE DEF Inv, storeVars, slotVars, sweepVars, ghostVars
<1>1. CASE status[n] = "cancelled"
    <2>1. pc' = [pc EXCEPT ![t] = "end"] /\ UNCHANGED <<status, answer, uncollected, busy, recorded, asleep>>
        BY <1>1 DEF Record
    <2> HIDE DEF n
    <2>2. Types'
        BY <2>1, <1>b DEF Types, TypeOK, Row
    <2>3. RunInv' /\ ChildInv'
        BY <2>1, <1>1, <1>a, <1>b DEF Types, TypeOK, RunInv, ChildInv, Working, LastOf
    <2>4. QueueInv'
        BY <2>1, <1>b, QueueKept DEF Types, TypeOK
    <2>5. AnswerInv'
        BY <2>1, <1>b DEF Types, TypeOK, AnswerInv, AnswerOK, AnswerPast, OneOf, LastOf, Past
    <2>6. SaidInv'
        BY <2>1, <1>b DEF Types, TypeOK, SaidInv, Past, Working
    <2> QED
        BY <2>2, <2>3, <2>4, <2>5, <2>6
<1>2. CASE status[n] # "cancelled"
    <2>1. /\ pc' = [pc EXCEPT ![t] = "tell"] /\ recorded' = recorded \cup {t}
          /\ busy' = [busy EXCEPT ![n] = None]
          /\ answer' = [answer EXCEPT ![n] = t] /\ uncollected' = uncollected \cup {n}
          /\ status' = [status EXCEPT ![n] = r]
          /\ asleep' \subseteq Listeners
        BY <1>2, <1>a DEF Record, Types, TypeOK, Woken
    <2>2. t \notin given /\ (n \notin torn => t \notin stopped)
        BY <1>a, <1>2 DEF SaidInv, Past, Working
    <2> HIDE DEF n
    <2>3. Types'
        BY <2>1, <1>a, <1>b DEF Types, TypeOK, Row, Final
    <2>4. RunInv'
        BY <2>1, <1>a, <1>b DEF Types, TypeOK, RunInv, Working
    <2>5. ChildInv'
        BY <2>1, <1>a, <1>b DEF Types, TypeOK, ChildInv, Working, LastOf, Final
    <2>6. QueueInv'
        BY <2>1, <1>b, QueueKept DEF Types, TypeOK
    <2>7. AnswerInv'
        BY <2>1, <2>2, <1>a, <1>b DEF Types, TypeOK, AnswerInv, AnswerOK, AnswerPast, OneOf, LastOf, Past
    <2>8. SaidInv'
        <3>1. ASSUME NEW u \in Run, u # t, Working(u), u \in stopped PROVE job[u] # n
            BY <3>1, <1>a, Holder DEF Inv
        <3>2. \A u \in Run : u # t => pc'[u] = pc[u]
            BY <2>1
        <3>3. \A m \in Names : m # n => status'[m] = status[m]
            BY <2>1 DEF Types, TypeOK
        <3>4. pc'[t] = "tell" /\ job[t] = n
            BY <2>1, <1>a DEF Types, TypeOK, n
        <3>5. \A u \in Run : Working(u) => job[u] \in Names
            BY Holder DEF Inv
        <3> QED
            BY <2>1, <2>2, <3>1, <3>2, <3>3, <3>4, <3>5, <1>a, <1>b DEF SaidInv, Past, Working
    <2> QED
        BY <2>3, <2>4, <2>5, <2>6, <2>7, <2>8
<1> QED
    BY <1>1, <1>2

LEMMA TellStep ==
    ASSUME Inv, NEW t \in Run, Tell(t)
    PROVE  Inv'
<1> USE DEF Inv, Tell, storeVars, jobVars, slotVars, runVars, waitVars, sweepVars, ghostVars
<1>1. Types'
    BY DEF Types, TypeOK, Row
<1>2. RunInv'
    BY DEF Types, TypeOK, RunInv, Working
<1>3. ChildInv'
    BY DEF Types, TypeOK, RunInv, ChildInv, LastOf, Working
<1>4. QueueInv'
    BY QueueKept DEF Types, TypeOK
<1>5. AnswerInv'
    BY DEF Types, TypeOK, RunInv, ChildInv, AnswerInv, AnswerOK, AnswerPast, OneOf, LastOf, Past, Working
<1>6. SaidInv'
    BY DEF Types, TypeOK, RunInv, ChildInv, SaidInv, Past, LastOf, Working
<1> QED
    BY <1>1, <1>2, <1>3, <1>4, <1>5, <1>6

LEMMA EndStep ==
    ASSUME Inv, NEW t \in Run, End(t)
    PROVE  Inv'
<1> USE DEF Inv, End, storeVars, jobVars, slotVars, runVars, waitVars, sweepVars, ghostVars
<1>1. Types'
    BY DEF Types, TypeOK, Row
<1>2. RunInv'
    BY DEF Types, TypeOK, RunInv, Working
<1>3. ChildInv'
    BY DEF Types, TypeOK, RunInv, ChildInv, LastOf, Working
<1>4. QueueInv'
    BY QueueKept DEF Types, TypeOK
<1>5. AnswerInv'
    BY DEF Types, TypeOK, RunInv, ChildInv, AnswerInv, AnswerOK, AnswerPast, OneOf, LastOf, Past, Working
<1>6. SaidInv'
    BY DEF Types, TypeOK, RunInv, ChildInv, SaidInv, Past, LastOf, Working
<1> QED
    BY <1>1, <1>2, <1>3, <1>4, <1>5, <1>6

LEMMA AnswersStep ==
    ASSUME Inv, Answers
    PROVE  Inv'
<1> USE DEF Inv, Answers, Ready, Listeners, storeVars, jobVars, slotVars, runVars, waitVars, sweepVars, ghostVars
<1>1. Types'
    BY DEF Types, TypeOK, Row
<1>2. RunInv'
    BY DEF Types, TypeOK, RunInv, Working
<1>3. ChildInv'
    BY DEF Types, TypeOK, RunInv, ChildInv, LastOf, Working
<1>4. QueueInv'
    BY QueueKept DEF Types, TypeOK
<1>5. AnswerInv'
    BY DEF Types, TypeOK, RunInv, ChildInv, AnswerInv, AnswerOK, AnswerPast, OneOf, LastOf, Past, Working
<1>6. SaidInv'
    BY DEF AnswerInv, AnswerOK, AnswerPast, OneOf, Types, TypeOK, SaidInv, Past, LastOf, Working
<1> QED
    BY <1>1, <1>2, <1>3, <1>4, <1>5, <1>6

LEMMA SweepTakes ==
    ASSUME Inv, Sweep
    PROVE  Inv'
<1> USE DEF Inv, Sweep, Sweepable, Final, storeVars, jobVars, slotVars, runVars, waitVars, sweepVars, ghostVars
<1>1. Types'
    BY DEF Types, TypeOK, Row
<1>2. RunInv'
    BY DEF Types, TypeOK, RunInv, Working
<1>3. ChildInv'
    BY DEF Types, TypeOK, RunInv, ChildInv, LastOf, Working
<1>4. QueueInv'
    BY QueueKept DEF Types, TypeOK
<1>5. AnswerInv'
    BY DEF Types, TypeOK, RunInv, ChildInv, AnswerInv, AnswerOK, AnswerPast, OneOf, LastOf, Past, Working
<1>6. SaidInv'
    <2>1. \A t \in Run : Working(t) => busy[job[t]] = t /\ t # None /\ job[t] \in Names
        BY Holder DEF Run, None
    <2>2. \A t \in Run : Working(t) => status'[job[t]] = status[job[t]]
        BY <2>1
    <2> QED
        BY <2>2 DEF SaidInv, Past, Working
<1> QED
    BY <1>1, <1>2, <1>3, <1>4, <1>5, <1>6

LEMMA SweepDeletesStep ==
    ASSUME Inv, NEW n \in Names, SweepDeletes(n)
    PROVE  Inv'
<1> USE DEF Inv, SweepDeletes, storeVars, jobVars, slotVars, runVars, waitVars, sweepVars, ghostVars
<1>1. Types'
    BY DEF Types, TypeOK, Row
<1>2. RunInv'
    BY DEF Types, TypeOK, RunInv, Working
<1>3. ChildInv'
    BY DEF Types, TypeOK, RunInv, ChildInv, LastOf, Working
<1>4. QueueInv'
    BY QueueKept DEF Types, TypeOK
<1>5. AnswerInv'
    BY DEF Types, TypeOK, RunInv, ChildInv, AnswerInv, AnswerOK, AnswerPast, OneOf, LastOf, Past, Working
<1>6. SaidInv'
    BY DEF Types, TypeOK, RunInv, ChildInv, SaidInv, Past, LastOf, Working
<1> QED
    BY <1>1, <1>2, <1>3, <1>4, <1>5, <1>6

LEMMA SweepEndsStep ==
    ASSUME Inv, SweepEnds
    PROVE  Inv'
<1> USE DEF Inv, SweepEnds, storeVars, jobVars, slotVars, runVars, waitVars, sweepVars, ghostVars
<1>1. Types'
    BY DEF Types, TypeOK, Row
<1>2. RunInv'
    BY DEF Types, TypeOK, RunInv, Working
<1>3. ChildInv'
    BY DEF Types, TypeOK, RunInv, ChildInv, LastOf, Working
<1>4. QueueInv'
    BY QueueKept DEF Types, TypeOK
<1>5. AnswerInv'
    BY DEF Types, TypeOK, RunInv, ChildInv, AnswerInv, AnswerOK, AnswerPast, OneOf, LastOf, Past, Working
<1>6. SaidInv'
    BY DEF Types, TypeOK, RunInv, ChildInv, SaidInv, Past, LastOf, Working
<1> QED
    BY <1>1, <1>2, <1>3, <1>4, <1>5, <1>6

LEMMA SweepFailsStep ==
    ASSUME Inv, SweepFails
    PROVE  Inv'
<1> USE DEF Inv, SweepFails, storeVars, jobVars, slotVars, runVars, waitVars, sweepVars, ghostVars
<1>a. /\ left \subseteq Names /\ left \subseteq DOMAIN saved /\ DOMAIN saved \subseteq Names
      /\ torn' = torn \cup (DOMAIN saved \ left)
    BY DEF Types, TypeOK, ChildInv
<1>b. \A n \in DOMAIN saved : /\ saved[n].status \in {"cancelled"} \cup Final
                              /\ saved[n].answer \in Run \cup {None}
    BY DEF Types, Row
<1>1. Types'
    BY DEF Types, TypeOK, Row
<1>2. RunInv'
    BY DEF Types, TypeOK, RunInv, Working
<1>3. ChildInv'
    <2>1. \A n \in Names : /\ status'[n] = IF n \in DOMAIN saved THEN saved[n].status ELSE status[n]
                           /\ n \notin DOMAIN saved => (n \in uncollected' <=> n \in uncollected)
                           /\ n \notin DOMAIN saved => answer'[n] = answer[n]
        BY DEF Types, TypeOK
    <2>2. \A n \in DOMAIN saved : status'[n] \notin {"none", "expired", "running"}
        BY <1>a, <1>b, <2>1 DEF Final
    <2>3. \A n \in left \ torn : n \in branches \ forking
        BY <1>a DEF ChildInv
    <2> QED
        BY <1>a, <2>1, <2>2, <2>3 DEF ChildInv, LastOf, Working
<1>4. QueueInv'
    BY QueueKept DEF Types, TypeOK
<1>5. AnswerInv'
    BY DEF Types, TypeOK, RunInv, ChildInv, AnswerInv, AnswerOK, AnswerPast, OneOf, LastOf, Past, Working
<1>6. SaidInv'
    BY Holder DEF Types, TypeOK, RunInv, ChildInv, SaidInv, Past, LastOf, Working
<1> QED
    BY <1>1, <1>2, <1>3, <1>4, <1>5, <1>6

LEMMA Typed ==
    ASSUME Types
    PROVE  /\ minted \in Nat /\ minted <= MaxRuns /\ MaxRuns \in Nat /\ None \notin Run
           /\ \A u : u \in 1 .. minted => u \in Run /\ job[u] \in Names
           /\ \A m \in Names : busy[m] \in Run \cup {None} /\ answer[m] \in Run \cup {None}
           /\ DOMAIN busy = Names /\ DOMAIN answer = Names /\ DOMAIN status = Names /\ DOMAIN kept = Names
           /\ DOMAIN pc = Run /\ job \in Seq(Names) /\ Len(job) = minted /\ left \subseteq Names
BY RunsAssumption DEF Types, TypeOK, Run, None

\* A job starts, of a child that is not held, and that unless torn exists
\* and is not being swept.
LEMMA StartStep ==
    ASSUME Inv, NEW n \in Names, NEW keep \in BOOLEAN, Start(n, keep),
           forking' \in {forking, forking \ {n}}, n \notin torn => n \notin forking',
           busy[n] = None, n \notin torn => n \in branches \ left
    PROVE  Inv'
<1> USE DEF Inv
<1>0. PICK t \in Run : t = minted + 1
    BY DEF Start
<1>a. /\ t = minted + 1 /\ minted \in Nat /\ minted' = t /\ job' = Append(job, n)
      /\ busy' = [busy EXCEPT ![n] = t] /\ status' = [status EXCEPT ![n] = "running"]
      /\ kept' = [kept EXCEPT ![n] = keep] /\ answer' = [answer EXCEPT ![n] = None]
      /\ uncollected' = uncollected \ {n}
    BY <1>0, RunsAssumption DEF Start, Types, TypeOK
<1>b. UNCHANGED <<branches, landing, recorded, reply, waitVars, sweepVars, ghostVars>>
    BY DEF Start
<1>c. /\ t > minted /\ pc[t] = "unborn" /\ t # None
      /\ job' \in Seq(Names) /\ Len(job') = t /\ job'[t] = n
      /\ \A u \in 1 .. minted : job'[u] = job[u] /\ job[u] \in Names /\ u \in Run
      /\ \A u \in Run : u \in 1 .. t <=> u \in 1 .. minted \/ u = t
      /\ \A u \in 1 .. t : u \in Run
    <2>1. t > minted /\ t # None /\ pc[t] = "unborn"
        BY <1>a DEF RunInv, None
    <2>2. /\ job' \in Seq(Names) /\ Len(job') = t /\ job'[t] = n
          /\ \A u \in 1 .. minted : job'[u] = job[u] /\ job[u] \in Names /\ u \in Run
        <3>1. job \in Seq(Names) /\ Len(job) = minted /\ n \in Names /\ job' = Append(job, n)
            BY <1>a, Typed
        <3>2. \A u \in 1 .. minted : job'[u] = job[u]
            BY <3>1
        <3>3. job' \in Seq(Names) /\ Len(job') = t /\ job'[t] = n
            BY <3>1, <1>a
        <3> QED
            BY <3>2, <3>3, Typed
    <2>3. \A u \in Run : u \in 1 .. t <=> u \in 1 .. minted \/ u = t
        BY <1>a, Typed DEF Run
    <2>4. \A u \in 1 .. t : u \in Run
        BY <1>a, Typed DEF Run
    <2> QED
        BY <2>1, <2>2, <2>3, <2>4
<1>d. SlotTypes
    BY DEF Types, TypeOK, SlotTypes, Places
<1>e. QueueInv' /\ SlotTypes' /\ pc'[t] \in {"queued", "run"}
    BY <1>a, <1>c, <1>d, StartQueue DEF Start
<1>f. \A u \in Run \ {t} : pc'[u] = pc[u]
    BY <1>a, <1>d DEF Start, SlotTypes
<1>g. \A m \in Names \ {n} : \A u \in Run : LastOf(m, u) => LastOf(m, u)'
    BY <1>a, <1>c DEF LastOf
<1>h. LastOf(n, t)'
    <2>1. \A u \in 1 .. t : u <= t
        OBVIOUS
    <2>2. t \in 1 .. t
        BY <1>a DEF Run
    <2> QED
        BY <2>1, <2>2, <1>a, <1>c DEF LastOf
<1>i. \A u \in Run : (Working(u)' <=> Working(u) \/ u = t) /\ (Past(u)' <=> Past(u))
    BY <1>a, <1>c, <1>e, <1>f DEF Working, Past
<1> USE DEF sweepVars, waitVars, ghostVars
<1>1. Types'
    BY <1>a, <1>b, <1>c, <1>e DEF Types, TypeOK, Row, SlotTypes, Places, Run
<1>2. RunInv'
    <2>1. ASSUME NEW u \in Run PROVE pc'[u] = "unborn" <=> u > t
        BY <1>a, <1>c, <1>e, <1>f DEF RunInv, Run
    <2>2. ASSUME NEW u \in Run, Working(u)' PROVE busy'[job'[u]] = u
        <3>1. CASE u = t
            BY <3>1, <1>a, <1>c, Typed
        <3>2. CASE u # t
            <4>1. u \in 1 .. minted /\ job[u] \in Names /\ busy[job[u]] = u
                BY <2>2, <3>2, <1>i, Holder
            <4>2. u # None
                BY Typed
            <4> QED
                BY <4>1, <4>2, <1>a, <1>c, Typed
        <3> QED
            BY <3>1, <3>2
    <2>3. ASSUME NEW u \in Run, pc'[u] \in {"land", "remainder", "commit", "describe"} PROVE reply'[u] \in Final
        BY <2>3, <1>a, <1>b, <1>e, <1>f DEF RunInv
    <2> QED
        BY <2>1, <2>2, <2>3, <1>a DEF RunInv
<1>3. ChildInv'
    <2>1. ASSUME NEW m \in Names \ {n}, busy[m] # None PROVE LastOf(m, busy[m])'
        <3>1. busy[m] \in Run /\ LastOf(m, busy[m]) /\ busy'[m] = busy[m]
            BY <2>1, <1>a, Typed DEF ChildInv
        <3>2. PICK u \in Run : u = busy[m]
            BY <3>1
        <3>3. LastOf(m, u)'
            BY <3>1, <3>2, <1>g
        <3> QED
            BY <3>1, <3>2, <3>3
    <2>2. ASSUME NEW m \in Names \ {n}, status[m] = "running" PROVE Working(busy[m])'
        <3>1. busy[m] \in Run /\ Working(busy[m]) /\ busy'[m] = busy[m]
            BY <2>2, <1>a, Typed DEF ChildInv
        <3>2. PICK u \in Run : u = busy[m]
            BY <3>1
        <3>3. Working(u)'
            BY <3>1, <3>2, <1>i
        <3> QED
            BY <3>1, <3>2, <3>3
    <2>3. ASSUME NEW m \in Names \ {n}
          PROVE  /\ busy'[m] = busy[m] /\ status'[m] = status[m] /\ kept'[m] = kept[m] /\ answer'[m] = answer[m]
                 /\ m \in uncollected' <=> m \in uncollected
                 /\ m \in forking' <=> m \in forking
        BY <1>a DEF Types, TypeOK
    <2>4. /\ busy'[n] = t /\ status'[n] = "running"
          /\ n \notin torn' => n \notin forking' /\ n \in branches' /\ n \notin left'
          /\ n \in left' => n \in DOMAIN saved'
        BY <1>a, <1>b DEF Types, TypeOK, ChildInv
    <2>5. LastOf(n, busy[n])' /\ Working(busy[n])'
        BY <2>4, <1>h, <1>i
    <2>6. ASSUME NEW m \in Names \ {n}
          PROVE  /\ (busy[m] # None)' => LastOf(m, busy[m])' /\ status'[m] \notin {"none", "expired"}
                 /\ status'[m] = "running" => busy'[m] # None /\ Working(busy[m])'
        BY <2>1, <2>2, <2>3 DEF ChildInv
    <2>7. ASSUME NEW m \in Names \ {n}
          PROVE  /\ m \in left' => m \in DOMAIN saved'
                 /\ m \notin torn' =>
                     /\ status'[m] \notin {"none", "expired"} => m \in branches' \ forking'
                     /\ m \in forking' => m \in branches' \ left'
                     /\ m \in left' => /\ m \in branches' /\ status'[m] = "expired"
                                       /\ answer'[m] = None /\ ~kept'[m] /\ m \notin uncollected'
        BY <2>3, <1>b DEF ChildInv
    <2> QED
        BY <2>4, <2>5, <2>6, <2>7, <1>c DEF ChildInv
<1>5. AnswerInv'
    <2>1. ASSUME NEW m \in Names, NEW a, OneOf(m, a), Past(a) PROVE OneOf(m, a)' /\ Past(a)'
        BY <2>1, <1>a, <1>c, <1>i, Typed DEF OneOf
    <2>2. ASSUME NEW m \in Names \ {n}, NEW a, LastOf(m, a) PROVE LastOf(m, a)'
        BY <2>2, <1>g, Typed DEF LastOf
    <2>3. answer'[n] = None /\ n \in Names
        BY <1>a DEF Types, TypeOK
    <2>4. ASSUME NEW m \in Names \ {n}
          PROVE  /\ AnswerPast(m, answer[m])'
                 /\ m \notin torn => AnswerOK(m, answer[m], status[m], m \in uncollected)'
        <3>1. PICK a : a = answer[m]
            OBVIOUS
        <3>2. answer'[m] = a /\ status'[m] = status[m] /\ (m \in uncollected' <=> m \in uncollected)
            BY <3>1, <1>a DEF Types, TypeOK
        <3>3. a # None => OneOf(m, a)' /\ Past(a)'
            BY <3>1, <2>1 DEF AnswerInv, AnswerPast
        <3>4. a # None /\ m \notin torn => /\ status[m] \in Final /\ LastOf(m, a)' /\ a \notin stopped
                                          /\ (m \in uncollected => a \notin given)
            BY <3>1, <2>2 DEF AnswerInv, AnswerOK
        <3>5. AnswerPast(m, answer[m])'
            BY <3>2, <3>3 DEF AnswerPast
        <3> QED
            BY <3>2, <3>4, <3>5, <1>b DEF AnswerOK
    <2>5. ASSUME NEW m \in DOMAIN saved
          PROVE  /\ AnswerPast(m, saved[m].answer)'
                 /\ m \in left \ torn =>
                     AnswerOK(m, saved[m].answer, saved[m].status, saved[m].uncollected)'
        <3>1. m \in Names /\ (m \in left \ torn => m # n)
            BY DEF Types, TypeOK
        <3>2. PICK a : a = saved[m].answer
            OBVIOUS
        <3>3. a # None => OneOf(m, a)' /\ Past(a)'
            BY <3>1, <3>2, <2>1 DEF AnswerInv, AnswerPast
        <3>4. a # None /\ m \in left \ torn =>
                /\ saved[m].status \in Final /\ LastOf(m, a)' /\ a \notin stopped
                /\ (saved[m].uncollected => a \notin given)
            BY <3>1, <3>2, <2>2 DEF AnswerInv, AnswerOK
        <3> QED
            BY <3>2, <3>3, <3>4, <1>b DEF AnswerPast, AnswerOK
    <2>6. AnswerPast(n, answer[n])' /\ AnswerOK(n, answer[n], status[n], n \in uncollected)'
        BY <2>3 DEF AnswerPast, AnswerOK
    <2>7. \A m \in left' : m \in DOMAIN saved'
        BY <1>b DEF ChildInv, Types, TypeOK
    <2> QED
        BY <2>4, <2>5, <2>6, <2>7, <1>b DEF AnswerInv
<1>6. SaidInv'
    <2> SUFFICES ASSUME NEW u \in Run
                 PROVE  /\ u \in recorded' => pc'[u] = "tell"
                        /\ u \in given' \cup told' => Past(u)'
                        /\ u \in stopped' => u \in 1 .. minted
                        /\ u \in stopped' /\ job'[u] \notin torn' =>
                            /\ u \notin given' \cup told' \cup recorded'
                            /\ Working(u)' => status'[job'[u]] = "cancelled"
        BY <1>a, <1>c, Typed DEF SaidInv
    <2>1. u \in recorded' => pc'[u] = "tell"
        BY <1>b, <1>c, <1>f DEF SaidInv
    <2>2. u \in given' \cup told' => Past(u)'
        BY <1>b, <1>i DEF SaidInv
    <2>3. u \in stopped' => u \in 1 .. minted
        BY <1>b, Typed DEF SaidInv, Run
    <2>4. ASSUME u \in stopped, job'[u] \notin torn
          PROVE  /\ u \notin given' \cup told' \cup recorded'
                 /\ Working(u)' => status'[job'[u]] = "cancelled"
        <3>1. u \in 1 .. minted /\ u # t
            BY <2>4, <2>3, <1>a, <1>b, Typed DEF SaidInv
        <3>2. job'[u] = job[u] /\ job[u] \in Names /\ job[u] \notin torn
            BY <3>1, <2>4, <1>c
        <3>3. u \notin given' \cup told' \cup recorded'
            BY <3>2, <2>4, <1>b DEF SaidInv
        <3>4. ASSUME Working(u)' PROVE status'[job'[u]] = "cancelled"
            <4>1. Working(u) /\ busy[job[u]] = u /\ u # None
                BY <3>1, <3>4, <1>i, Holder
            <4>2. job[u] # n /\ status[job[u]] = "cancelled"
                BY <4>1, <3>2, <2>4 DEF SaidInv
            <4> QED
                BY <4>2, <3>2, <1>a DEF Types, TypeOK
        <3> QED
            BY <3>3, <3>4
    <2> QED
        BY <2>1, <2>2, <2>3, <2>4, <1>b
<1> QED
    BY <1>1, <1>2, <1>3, <1>e, <1>5, <1>6

-----------------------------------------------------------------------------
(* The theorems.                                                            *)

LEMMA InitInv == Init => Inv
<1> SUFFICES ASSUME Init PROVE Inv
    OBVIOUS
<1>1. Types
    <2>2. DOMAIN saved = {} /\ slots \in Seq(Run) /\ job \in Seq(Names) /\ Len(job) = 0
        BY DEF Init
    <2>4. /\ status \in [Names -> {"none", "running", "cancelled", "expired"} \cup Final]
          /\ kept \in [Names -> BOOLEAN]
          /\ answer \in [Names -> Run \cup {None}] /\ busy \in [Names -> Run \cup {None}]
          /\ pc \in [Run -> Places] /\ reply \in [Run -> Final \cup {"none"}]
        BY DEF Init, Places
    <2>5. running \in 0 .. MaxWorkers /\ minted \in 0 .. MaxRuns
        <3>1. running = 0 /\ minted = 0
            BY DEF Init
        <3> QED
            BY <3>1, RunsAssumption
    <2>8. waiting \in BOOLEAN /\ closed \in {"open", "closing", "closed"}
        BY Zenon DEF Init
    <2>6. /\ branches \subseteq Names /\ forking \subseteq Names /\ uncollected \subseteq Names
          /\ landing \subseteq Names /\ recorded \subseteq Run /\ asleep \subseteq Listeners
          /\ closeOn \subseteq Run /\ left \subseteq Names /\ torn \subseteq Names /\ given \subseteq Run /\ told \subseteq Run
          /\ stopped \subseteq Run /\ committed \subseteq Run /\ minted = 0
        BY DEF Init
    <2>7. Len(job) = minted /\ DOMAIN saved \subseteq Names
        BY <2>2, <2>6
    <2>1. TypeOK
        BY <2>2, <2>4, <2>5, <2>6, <2>7, <2>8 DEF TypeOK, Places
    <2>3. saved \in [DOMAIN saved -> Row]
        BY <2>2 DEF Init
    <2> QED
        BY <2>1, <2>3 DEF Types
<1>2. RunInv /\ ChildInv /\ AnswerInv /\ SaidInv
    BY DEF Init, RunInv, ChildInv, AnswerInv, AnswerOK, AnswerPast, SaidInv, Working, Past, Run
<1>3. QueueInv
    <2>1. {t \in Run : pc[t] = "run"} = {} /\ {t \in Run : pc[t] = "queued"} = {} /\ DOMAIN slots = {}
        BY DEF Init
    <2> QED
        BY <2>1, FS_EmptySet DEF Init, QueueInv, SlotsExact
<1> QED
    BY <1>1, <1>2, <1>3 DEF Inv

LEMMA NextInv == ASSUME Inv, [Next]_vars PROVE Inv'
<1>1. CASE Next
    <2>1. ASSUME NEW n \in Names, Fork(n) \/ Forked(n) \/ ForkRefused(n) \/ Resume(n) PROVE Inv'
        <3>1. CASE Forked(n)
            <4>1. /\ busy[n] = None /\ Start(n, FALSE) /\ forking' = forking \ {n} /\ n \notin forking'
                  /\ n \notin torn => n \in branches \ left
                BY <3>1 DEF Forked, Inv, ChildInv
            <4> QED
                BY <4>1, StartStep
        <3>2. CASE Resume(n)
            <4>1. /\ busy[n] = None /\ kept[n] \in BOOLEAN
                  /\ n \notin torn => n \in branches \ left /\ n \notin forking
                BY <3>2 DEF Resume, Resumable, Inv, ChildInv, Types, TypeOK
            <4>2. forking' \in {forking, forking \ {n}} /\ Start(n, kept[n])
                BY <3>2 DEF Resume
            <4>3. n \notin torn => n \notin forking'
                BY <3>2, <4>1 DEF Resume
            <4> QED
                BY <4>1, <4>2, <4>3, StartStep
        <3> QED
            BY <2>1, <3>1, <3>2, ForkStep, ForkRefusedStep
    <2>2. ASSUME NEW t \in Run, Step(t) PROVE Inv'
        <3>1. CASE LandFails(t)
            BY <3>1, RecordStep DEF LandFails, Final
        <3>2. CASE Describe(t)
            <4>1. reply[t] \in Final
                BY <3>2 DEF Describe, Inv, RunInv
            <4> QED
                BY <3>2, <4>1, RecordStep DEF Describe
        <3> QED
            BY <2>2, <3>1, <3>2, RunnerReturnsStep, LandStep, RemainderStep, CommitRemainderStep,
               TellStep, EndStep DEF Step
    <2>3. CASE Caller
        BY <2>3, CancelStep, ResultStep, KeepStep, WaitSteps DEF Caller
    <2>4. CASE SweepStep
        BY <2>4, SweepDeletesStep, SweepEndsStep, SweepFailsStep DEF SweepStep
    <2>5. CASE Answers \/ WaitLooks \/ CloseEnds \/ Sweep
        BY <2>5, AnswersStep, WaitSteps, SweepTakes
    <2> QED
        BY <1>1, <2>1, <2>2, <2>3, <2>4, <2>5 DEF Next, Ask
<1>2. CASE UNCHANGED vars
    <2> USE <1>2 DEF vars, Inv, storeVars, jobVars, slotVars, runVars, waitVars, sweepVars, ghostVars
    <2>1. Types' /\ RunInv' /\ ChildInv' /\ SaidInv'
        BY DEF Types, TypeOK, Row, RunInv, ChildInv, SaidInv, LastOf, Past, Working
    <2>2. QueueInv'
        BY QueueKept
    <2>3. AnswerInv'
        BY DEF AnswerInv, AnswerOK, AnswerPast, OneOf, LastOf, Past
    <2> QED
        BY <2>1, <2>2, <2>3
<1> QED
    BY <1>1, <1>2

LEMMA InvHolds == Spec => []Inv
<1>1. Inv /\ [Next]_vars => Inv'
    BY NextInv
<1> QED
    BY <1>1, InitInv, PTL DEF Spec

\* The job table is true: a child has one task at a time, a slot is held only
\* by a run, a job that runs has a run and a branch, and, unless a sweep's
\* delete failed with the child's branch already gone, one that ended has
\* its own final status and last answer (sessions.ts, #jobs, #acquire,
\* #record, sweep).
THEOREM JobTableTrue == Spec => []JobsHeld
<1>1. Inv => JobsHeld
    <2> SUFFICES ASSUME Inv PROVE JobsHeld
        OBVIOUS
    <2>1. TypeOK /\ SlotsExact
        BY DEF Inv, Types, QueueInv
    <2>2. OneTaskAtATime
        BY RunsAssumption DEF Inv, Types, TypeOK, RunInv, OneTaskAtATime, Run
    <2>3. JobsTrue
        BY DEF Inv, ChildInv, AnswerInv, AnswerOK, AnswerPast, OneOf, LastOf, JobsTrue
    <2> QED
        BY <2>1, <2>2, <2>3 DEF JobsHeld
<1> QED
    BY <1>1, InvHolds, PTL

\* An answer is handed over once, never after a cancel and never from a
\* branch the sweep took, whatever fails; only the row of a child whose
\* branch went in a delete that then failed may say otherwise (sessions.ts,
\* result, answers, cancel, sweep; store.ts:111-122).
THEOREM AnswersGivenOnce == Spec => []AnswersHeld
<1>1. Inv => AnswersHeld
    <2> SUFFICES ASSUME Inv PROVE AnswersHeld
        OBVIOUS
    <2>1. HandedOnce
        BY DEF Inv, AnswerInv, AnswerOK, HandedOnce, Ready, Types, TypeOK
    <2>2. CancelWins
        BY DEF Inv, SaidInv, CancelWins, Types, TypeOK
    <2>3. TakenIsExpired
        BY DEF Inv, ChildInv, TakenIsExpired
    <2> QED
        BY <2>1, <2>2, <2>3 DEF AnswersHeld
<1> QED
    BY <1>1, InvHolds, PTL

\* No step takes away a branch that a run holds or that was kept, unless an
\* earlier sweep's delete took that child's branch and then failed
\* (sessions.ts, sweep, #busy).
THEOREM SweepTakesIdle == Spec => SweepSpares
<1>1. Inv => \A n \in Names \ torn : n \in left /\ n \notin branches' => busy[n] = None /\ ~kept[n]
    BY DEF Inv, ChildInv
<1> QED
    BY <1>1, InvHolds, PTL DEF Spec, SweepSpares

=============================================================================
