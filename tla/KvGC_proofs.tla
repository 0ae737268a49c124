----------------------------- MODULE KvGC_proofs -----------------------------
(* Theorems about KvGC, for every set of handles, branches and addresses    *)
(* and every bound on commits and sweeps: types; leases; and what branches  *)
(* name, whatever is stored (histories, published commits, commits in       *)
(* flight, commits given up), which depends neither on the lease nor on     *)
(* what a sweep removes; how branches move, and their backups; and what a   *)
(* sweep keeps.                                                             *)
EXTENDS KvGC, TLAPS

-----------------------------------------------------------------------------
(* Types.  A call always has a commit to work with, and one that publishes  *)
(* has a commit to publish: without that the base of a handle could become  *)
(* None.                                                                    *)

TargetsOK == \A w \in Writers :
    /\ pc[w] # "idle" => theirs[w] # None
    /\ pc[w] \in {"publish", "rewait"} => NewHead(w) # None

TypeInv == TypeOK /\ TargetsOK

LEMMA InitType == Init => TypeInv
<1> SUFFICES ASSUME Init PROVE TypeInv
    OBVIOUS
<1> USE BoundsAssumption DEF Init, Commit, None, Root
<1>1. PICK b \in Branches : head = [x \in Branches |-> IF x = b THEN Root ELSE None]
    OBVIOUS
<1>2. StoreOK
    BY <1>1 DEF StoreOK
<1>3. LeaseOK
    <2>1. [owner |-> 0, released |-> TRUE] \in Lease
        BY DEF Lease
    <2> QED
        BY <2>1 DEF LeaseOK
<1>4. HashOK
    BY DEF HashOK
<1>5. SweepOK
    BY DEF SweepOK
<1>6. HandleOK
    BY <1>3 DEF HandleOK, Draft, NoDraft, LeaseOK
<1>7. TargetsOK
    BY DEF TargetsOK
<1> QED
    BY <1>2, <1>3, <1>4, <1>5, <1>6, <1>7 DEF TypeInv, TypeOK

LEMMA ReturnType ==
    ASSUME TypeInv, NEW w \in Writers, NEW b \in Branches, NEW c \in Commit, Return(w, b, c)
    PROVE  HandleOK' /\ TargetsOK'
<1> USE DEF TypeInv, TypeOK, HandleOK, Return, Goto
<1>1. [owner |-> 0, released |-> TRUE] \in Lease
    BY BoundsAssumption DEF Lease
<1>2. NoDraft \in Draft
    BY DEF NoDraft, Draft
<1>3. HandleOK'
    BY <1>1, <1>2
<1>4. TargetsOK'
    BY DEF TargetsOK, NewHead
<1> QED
    BY <1>3, <1>4

LEMMA GiveUpType ==
    ASSUME TypeInv, NEW w \in Writers, NEW left, GiveUp(w, left)
    PROVE  TypeInv'
<1> USE DEF TypeInv, TypeOK, GiveUp
<1>1. br[w] \in Branches /\ base[w] \in Commit
    BY DEF HandleOK
<1>2. HandleOK' /\ TargetsOK'
    BY <1>1, ReturnType
<1>3. InFlight(w) \subseteq Commit
    BY DEF InFlight, HandleOK
<1>4. StoreOK'
    BY DEF StoreOK
<1>5. HashOK'
    BY <1>3 DEF HashOK, hashVars
<1>6. LeaseOK'
    BY DEF LeaseOK, leaseVars
<1>7. SweepOK'
    BY DEF SweepOK, sweepVars
<1> QED
    BY <1>2, <1>4, <1>5, <1>6, <1>7

LEMMA CallType ==
    ASSUME TypeInv, NEW w \in Writers, Call(w)
    PROVE  TypeInv'
<1> USE DEF TypeInv, TypeOK
<1>1. ASSUME NEW o, NEW label \in {"build", "ancestor", "claim"}, NEW b \in Branches,
             NEW c \in Commit, Begin(w, o, label, b, c)
      PROVE  TypeInv'
    <2> USE <1>1 DEF Begin, Goto
    <2>1. StoreOK'
        BY DEF StoreOK, storeVars
    <2>2. LeaseOK'
        BY DEF LeaseOK, leaseVars
    <2>3. HashOK'
        BY DEF HashOK, hashVars, ghostVars
    <2>4. SweepOK'
        BY DEF SweepOK, sweepVars
    <2>5. HandleOK'
        BY DEF HandleOK
    <2>6. TargetsOK'
        BY DEF TargetsOK, HandleOK, NewHead, Commit, None
    <2> QED
        BY <2>1, <2>2, <2>3, <2>4, <2>5, <2>6
<1>2. CASE BeginCommit(w)
    <2>1. br[w] \in Branches /\ base[w] \in Commit /\ head[br[w]] \in Commit
        BY <1>2 DEF BeginCommit, StoreOK, HandleOK
    <2> QED
        BY <1>1, <1>2, <2>1 DEF BeginCommit
<1>3. CASE BeginMerge(w)
    <2>1. PICK b \in Branches \ {br[w]} :
              head[b] \in stored /\ Begin(w, "merge", "ancestor", b, head[b])
        BY <1>3 DEF BeginMerge
    <2> QED
        BY <1>1, <2>1 DEF StoreOK
<1>4. CASE BeginReset(w)
    <2>1. PICK c \in known : Begin(w, "reset", "claim", br[w], c)
        BY <1>4 DEF BeginReset
    <2>2. br[w] \in Branches /\ c \in Commit
        BY DEF HandleOK, HashOK
    <2> QED
        BY <1>1, <2>1, <2>2
<1>5. CASE BeginCreate(w)
    <2>1. PICK b \in Branches, c \in known : Begin(w, "create", "claim", b, c)
        BY <1>5 DEF BeginCreate
    <2> QED
        BY <1>1, <2>1 DEF HashOK
<1>6. CASE Attach(w)
    <2>1. PICK b \in Branches : head[b] # None /\ Return(w, b, head[b])
        BY <1>6 DEF Attach
    <2>2. head[b] \in Commit
        BY <2>1 DEF StoreOK
    <2>3. HandleOK' /\ TargetsOK'
        BY <2>1, <2>2, ReturnType
    <2> USE <1>6 DEF Attach
    <2>4. StoreOK'
        BY DEF StoreOK, storeVars
    <2>5. LeaseOK'
        BY DEF LeaseOK, leaseVars
    <2>6. HashOK'
        BY DEF HashOK, hashVars, ghostVars
    <2>7. SweepOK'
        BY DEF SweepOK, sweepVars
    <2> QED
        BY <2>3, <2>4, <2>5, <2>6, <2>7
<1>7. CASE DeleteBranch(w)
    <2> USE <1>7 DEF DeleteBranch
    <2>1. StoreOK'
        BY DEF StoreOK
    <2>2. LeaseOK'
        BY DEF LeaseOK, leaseVars
    <2>3. HashOK'
        BY DEF HashOK, hashVars, ghostVars
    <2>4. SweepOK'
        BY DEF SweepOK, sweepVars
    <2>5. HandleOK' /\ TargetsOK'
        BY DEF HandleOK, TargetsOK, NewHead, writerVars
    <2> QED
        BY <2>1, <2>2, <2>3, <2>4, <2>5
<1> QED
    BY <1>2, <1>3, <1>4, <1>5, <1>6, <1>7 DEF Call

LEMMA SweepType ==
    ASSUME TypeInv, Sweep \/ SweepDies \/ LeaseLapses \/ MarkerLapses
    PROVE  TypeInv'
<1> USE DEF TypeInv, TypeOK
<1>1. (UNCHANGED writerVars) => HandleOK' /\ TargetsOK'
    BY DEF HandleOK, TargetsOK, NewHead, writerVars
<1>2. (UNCHANGED <<hashVars, ghostVars>>) => HashOK'
    BY DEF HashOK, hashVars, ghostVars
<1>3. (UNCHANGED leaseVars) => LeaseOK'
    BY DEF LeaseOK, leaseVars
<1>4. (UNCHANGED storeVars) => StoreOK'
    BY DEF StoreOK, storeVars
<1>5. (UNCHANGED sweepVars) => SweepOK'
    BY DEF SweepOK, sweepVars
<1>6. SweepForgets /\ phase' \in {"off", "release"} => SweepOK'
    BY DEF SweepForgets, SweepOK
<1>7. CASE SweepStart
    <2> USE <1>7 DEF SweepStart
    <2>1. LeaseOK'
        <3>1. lease.owner + 1 \in 0 .. MaxSweeps
            BY BoundsAssumption DEF LeaseOK, Lease
        <3>2. [owner |-> lease.owner + 1, released |-> FALSE] \in Lease
            BY <3>1 DEF Lease
        <3> QED
            BY <3>2 DEF LeaseOK
    <2>2. SweepOK'
        <3>1. cut' \in Nat
            BY BoundsAssumption DEF HashOK, Commit
        <3> QED
            BY <3>1 DEF SweepOK, SweepStep
    <2> QED
        BY <1>1, <1>2, <1>4, <2>1, <2>2
<1>8. CASE ReadMarkers
    <2>1. SweepOK'
        BY <1>8 DEF ReadMarkers, SweepOK, SweepStep
    <2> QED
        BY <1>1, <1>2, <1>3, <1>4, <1>8, <2>1 DEF ReadMarkers
<1>9. CASE Visit
    <2>1. \A c : ParentsOf(c) \subseteq Commit /\ TreeOf(c) \subseteq Items
        BY DEF ParentsOf, TreeOf, HashOK, StoreOK
    <2>2. SweepOK'
        BY <1>9, <2>1 DEF Visit, SweepOK, SweepStep
    <2> QED
        BY <1>1, <1>2, <1>3, <1>4, <1>9, <2>2 DEF Visit
<1>10. CASE ReadHead
    <2>1. SweepOK'
        BY <1>10 DEF ReadHead, SweepOK, SweepStep, StoreOK
    <2> QED
        BY <1>1, <1>2, <1>3, <1>4, <1>10, <2>1 DEF ReadHead
<1>11. CASE Collect
    <2>1. SweepOK'
        BY <1>11 DEF Collect, SweepOK, SweepStep, StoreOK
    <2> QED
        BY <1>1, <1>2, <1>3, <1>4, <1>11, <2>1 DEF Collect
<1>12. CASE Remove
    <2>1. StoreOK'
        BY <1>12 DEF Remove, StoreOK
    <2> QED
        BY <1>1, <1>2, <1>3, <1>6, <1>12, <2>1 DEF Remove, SweepStep
<1>13. CASE Release
    <2>1. LeaseOK'
        BY <1>13 DEF Release, LeaseOK, Lease
    <2> QED
        BY <1>1, <1>2, <1>4, <1>6, <1>13, <2>1 DEF Release
<1>14. CASE SweepDies
    BY <1>1, <1>2, <1>3, <1>4, <1>6, <1>14 DEF SweepDies
<1>15. CASE LeaseLapses
    <2>1. LeaseOK'
        BY <1>15 DEF LeaseLapses, LeaseOK
    <2> QED
        BY <1>1, <1>2, <1>4, <1>5, <1>15, <2>1 DEF LeaseLapses
<1>16. CASE MarkerLapses
    <2>1. StoreOK'
        BY <1>16 DEF MarkerLapses, StoreOK
    <2> QED
        BY <1>1, <1>2, <1>3, <1>5, <1>16, <2>1 DEF MarkerLapses
<1> QED
    BY <1>7, <1>8, <1>9, <1>10, <1>11, <1>12, <1>13, <1>14, <1>15, <1>16 DEF Sweep

\* A step of a handle that writes only its own program counter and locals.
LEMMA LocalType ==
    ASSUME TypeInv, HandleOK', TargetsOK',
           UNCHANGED <<storeVars, leaseVars, hashVars, ghostVars, sweepVars>>
    PROVE  TypeInv'
BY DEF TypeInv, TypeOK, StoreOK, LeaseOK, HashOK, SweepOK,
       storeVars, leaseVars, hashVars, ghostVars, sweepVars

LEMMA StepType ==
    ASSUME TypeInv, NEW w \in Writers, Step(w)
    PROVE  TypeInv'
<1> USE DEF TypeInv, TypeOK
<1>0. /\ br[w] \in Branches /\ base[w] \in Commit
      /\ \A c : TreeOf(c) \subseteq Items /\ ParentsOf(c) \subseteq Commit
      /\ InFlight(w) \subseteq Commit
    BY DEF HandleOK, HashOK, StoreOK, TreeOf, ParentsOf, InFlight
<1>1. CASE Build(w)
    <2>0. PICK t \in {TreeOf(base[w]), tree[base[w]]} : \E kept \in SUBSET t : \E x \in Items :
              draft' = [draft EXCEPT ![w] =
                          [parents |-> {base[w]}, tree |-> kept \cup {x}, put |-> {x}]]
        BY <1>1 DEF Build
    <2>1. PICK kept \in SUBSET t : \E x \in Items :
              draft' = [draft EXCEPT ![w] =
                          [parents |-> {base[w]}, tree |-> kept \cup {x}, put |-> {x}]]
        BY <2>0
    <2>2. PICK x \in Items :
              draft' = [draft EXCEPT ![w] =
                          [parents |-> {base[w]}, tree |-> kept \cup {x}, put |-> {x}]]
        BY <2>1
    <2>3. [parents |-> {base[w]}, tree |-> kept \cup {x}, put |-> {x}] \in Draft
        <3>1. kept \subseteq Items
            BY <1>0 DEF HashOK
        <3> QED
            BY <1>0, <3>1 DEF Draft
    <2>4. HandleOK'
        BY <1>1, <2>2, <2>3 DEF Build, HandleOK, Goto
    <2>5. TargetsOK'
        BY <1>1 DEF Build, HandleOK, Goto, TargetsOK, NewHead
    <2> QED
        BY <1>1, <2>4, <2>5, LocalType DEF Build
<1>2. CASE Wait(w)
    <2> USE <1>2 DEF Wait, Goto
    <2>1. HandleOK'
        BY DEF HandleOK, LeaseOK
    <2>2. TargetsOK'
        BY DEF HandleOK, TargetsOK, NewHead
    <2> QED
        BY <2>1, <2>2, LocalType
<1>3. CASE Land(w)
    <2> DEFINE c == minted + 1
               d == draft[w]
               first == ours[w] = None /\ op[w] # "merge"
    <2> USE <1>3 DEF Land
    <2>1. c \in Commit /\ c # None
        BY BoundsAssumption DEF HashOK, Commit, None
    <2>2. d \in Draft /\ NoDraft \in Draft
        BY DEF HandleOK, Draft, NoDraft
    <2>3. StoreOK'
        BY <2>1, <2>2 DEF StoreOK, Draft
    <2>4. HashOK'
        BY <2>1, <2>2 DEF HashOK, Draft, ghostVars
    <2>5. LeaseOK' /\ SweepOK'
        BY DEF LeaseOK, SweepOK, leaseVars, sweepVars
    <2>6. HandleOK'
        BY <2>1, <2>2 DEF HandleOK, Goto
    <2>7. TargetsOK'
        BY <2>1 DEF HandleOK, Goto, TargetsOK, NewHead
    <2> QED
        BY <2>3, <2>4, <2>5, <2>6, <2>7
<1>4. CASE LandAgain(w) \/ PublishAgain(w) \/ FastForward(w) \/ InstallAgain(w)
    <2> USE <1>4 DEF LandAgain, PublishAgain, FastForward, InstallAgain, Goto
    <2>1. HandleOK'
        BY DEF HandleOK
    <2>2. TargetsOK'
        BY DEF HandleOK, TargetsOK, NewHead
    <2> QED
        BY <2>1, <2>2, LocalType
<1>5. CASE Publish(w)
    <2> USE <1>5 DEF Publish
    <2>1. NewHead(w) \in Commit
        BY DEF TargetsOK, NewHead, HandleOK
    <2>2. HandleOK' /\ TargetsOK'
        BY <1>0, <2>1, ReturnType
    <2>3. Expected(w) \in Commit \cup {None}
        BY DEF Expected, HandleOK
    <2>4. StoreOK'
        BY <2>1, <2>3 DEF StoreOK
    <2>5. HashOK'
        BY <2>1 DEF HashOK, hashVars
    <2>6. LeaseOK' /\ SweepOK'
        BY DEF LeaseOK, SweepOK, leaseVars, sweepVars
    <2> QED
        BY <2>2, <2>4, <2>5, <2>6
<1>6. CASE LostRace(w)
    <2> USE <1>6 DEF LostRace, LostPublish, Goto
    <2>1. head[br[w]] \in Commit /\ head[br[w]] # None
        BY <1>0 DEF StoreOK
    <2>2. HandleOK'
        BY <2>1 DEF HandleOK
    <2>3. TargetsOK'
        BY <2>1 DEF HandleOK, TargetsOK, NewHead
    <2> QED
        BY <2>2, <2>3, LocalType
<1>7. CASE LostCommit(w) \/ MergeRefused(w) \/ MergeNoOp(w) \/ CheckFails(w) \/ InstallFails(w)
    BY <1>7, GiveUpType DEF LostCommit, MergeRefused, MergeNoOp, CheckFails, InstallFails, Refuse
<1>8. CASE Resolve(w)
    <2>1. PICK put \in {{}} \cup {{x} : x \in Items} :
              draft' = [draft EXCEPT ![w] =
                 [parents |-> {OurSide(w), theirs[w]},
                  tree |-> TreeOf(OurSide(w)) \cup TreeOf(theirs[w]) \cup put, put |-> put]]
        BY <1>8 DEF Resolve
    <2>2. theirs[w] \in Commit
        BY <1>8 DEF Resolve, TargetsOK, HandleOK
    <2>3. OurSide(w) \in Commit
        BY DEF OurSide, HandleOK
    <2>4. [parents |-> {OurSide(w), theirs[w]},
           tree |-> TreeOf(OurSide(w)) \cup TreeOf(theirs[w]) \cup put, put |-> put] \in Draft
        BY <1>0, <2>2, <2>3 DEF Draft
    <2>5. HandleOK'
        BY <1>8, <2>1, <2>4 DEF Resolve, HandleOK, Goto
    <2>6. TargetsOK'
        BY <1>8 DEF Resolve, HandleOK, Goto, TargetsOK, NewHead
    <2> QED
        BY <1>8, <2>5, <2>6, LocalType DEF Resolve
<1>9. CASE Check(w)
    <2> USE <1>9 DEF Check, Goto
    <2>1. InstallOver(w) \in Commit \cup {None}
        BY <1>0 DEF InstallOver, StoreOK
    <2>2. HandleOK'
        BY <2>1 DEF HandleOK
    <2>3. TargetsOK'
        BY DEF HandleOK, TargetsOK, NewHead
    <2> QED
        BY <2>2, <2>3, LocalType
<1>10. CASE Install(w)
    <2> USE <1>10 DEF Install
    <2>1. theirs[w] \in Commit /\ exp[w] \in Commit \cup {None}
        BY DEF TargetsOK, HandleOK
    <2>2. HandleOK' /\ TargetsOK'
        BY <1>0, <2>1, ReturnType
    <2>3. StoreOK'
        BY <2>1 DEF StoreOK
    <2>4. HashOK'
        BY <2>1 DEF HashOK, hashVars
    <2>5. LeaseOK' /\ SweepOK'
        BY DEF LeaseOK, SweepOK, leaseVars, sweepVars
    <2> QED
        BY <2>2, <2>3, <2>4, <2>5
<1> QED
    BY <1>1, <1>2, <1>3, <1>4, <1>5, <1>6, <1>7, <1>8, <1>9, <1>10 DEF Step

LEMMA NextType == TypeInv /\ [Next]_vars => TypeInv'
<1> SUFFICES ASSUME TypeInv, [Next]_vars PROVE TypeInv'
    OBVIOUS
<1>1. ASSUME NEW w \in Writers, Call(w) \/ Step(w) \/ Crash(w) PROVE TypeInv'
    BY <1>1, CallType, StepType, GiveUpType DEF Crash
<1>2. CASE UNCHANGED vars
    BY <1>2 DEF vars, storeVars, leaseVars, hashVars, ghostVars, sweepVars, writerVars,
                TypeInv, TypeOK, StoreOK, LeaseOK, HashOK, SweepOK, HandleOK, TargetsOK, NewHead
<1> QED
    BY <1>1, <1>2, SweepType DEF Next

\* Every variable keeps its type, and a handle a base commit that landed.
THEOREM TypeCorrect == Spec => []TypeOK
<1>1. Spec => []TypeInv
    BY InitType, NextType, PTL DEF Spec
<1> QED
    BY <1>1, PTL DEF TypeInv

-----------------------------------------------------------------------------
(* The lease excludes.  While a sweep runs its lease is live, as long as    *)
(* the sweep does not outlast it; a handle's write expects the lease record *)
(* it read when none was live; and a record never comes back, because every *)
(* sweep writes one of its own.                                             *)

HandleLease(w) ==
    /\ seen[w].owner <= lease.owner
    /\ pc[w] \in {"land", "publish", "check", "install"} /\ seen[w] = lease => ~Live

LeaseInv ==
    /\ phase # "off" => Live
    /\ \A w \in Writers : HandleLease(w)

LEMMA InitLease == Init => LeaseInv
BY DEF Init, LeaseInv, HandleLease, Live

LEMMA LeaseFrame ==
    ASSUME LeaseInv, NEW w \in Writers, UNCHANGED <<leaseVars, phase>>,
           \A v \in Writers \ {w} : pc'[v] = pc[v] /\ seen'[v] = seen[v],
           HandleLease(w)'
    PROVE  LeaseInv'
BY DEF LeaseInv, HandleLease, leaseVars, Live

LEMMA ReturnLease ==
    ASSUME TypeInv, LeaseInv, NEW w \in Writers, NEW b, NEW c, Return(w, b, c),
           UNCHANGED <<leaseVars, phase>>
    PROVE  LeaseInv'
<1> USE DEF TypeInv, TypeOK, HandleOK
<1>1. \A v \in Writers \ {w} : pc'[v] = pc[v] /\ seen'[v] = seen[v]
    BY DEF Return, Goto
<1>2. pc'[w] = "idle" /\ seen'[w] = [owner |-> 0, released |-> TRUE]
    BY DEF Return, Goto
<1>3. 0 <= lease'.owner
    BY DEF LeaseOK, Lease, leaseVars
<1>4. HandleLease(w)'
    BY <1>2, <1>3 DEF HandleLease
<1> QED
    BY <1>1, <1>4, LeaseFrame

LEMMA HandleLeaseStep ==
    ASSUME TypeInv, LeaseInv, NEW w \in Writers, Call(w) \/ Step(w) \/ Crash(w)
    PROVE  LeaseInv'
<1> USE DEF TypeInv, TypeOK
<1>1. CASE \E o, label, b, c : /\ label \in {"build", "ancestor", "claim"}
                               /\ Begin(w, o, label, b, c)
    <2>1. PICK o, label, b, c : /\ label \in {"build", "ancestor", "claim"}
                                /\ Begin(w, o, label, b, c)
        BY <1>1
    <2> USE <2>1 DEF Begin, Goto, HandleOK
    <2>2. HandleLease(w)'
        BY DEF LeaseInv, HandleLease, leaseVars
    <2> QED
        BY <2>2, LeaseFrame DEF sweepVars
<1>2. CASE Attach(w)
    <2>1. PICK b \in Branches : Return(w, b, head[b])
        BY <1>2 DEF Attach
    <2> QED
        BY <1>2, <2>1, ReturnLease DEF Attach, sweepVars
<1>3. CASE DeleteBranch(w)
    BY <1>3 DEF DeleteBranch, LeaseInv, HandleLease, Live, leaseVars, sweepVars, writerVars
<1>4. CASE \E left : GiveUp(w, left)
    BY <1>4, ReturnLease DEF GiveUp, sweepVars
<1>5. CASE Build(w) \/ LandAgain(w) \/ PublishAgain(w) \/ LostRace(w) \/ Resolve(w)
           \/ FastForward(w) \/ InstallAgain(w)
    <2> USE <1>5 DEF Build, LandAgain, PublishAgain, LostRace, Resolve, FastForward,
                     InstallAgain, Goto, HandleOK
    <2>1. HandleLease(w)'
        BY DEF LeaseInv, HandleLease, leaseVars
    <2> QED
        BY <2>1, LeaseFrame DEF sweepVars
<1>6. CASE Wait(w)
    <2> USE <1>6 DEF Wait, Goto, HandleOK
    <2>1. HandleLease(w)'
        BY DEF LeaseInv, HandleLease, leaseVars, Live, LeaseOK, Lease
    <2> QED
        BY <2>1, LeaseFrame DEF sweepVars
<1>7. CASE Land(w) \/ Check(w)
    <2> USE <1>7 DEF Land, Check, Goto, HandleOK
    <2>1. HandleLease(w)'
        BY DEF LeaseInv, HandleLease, leaseVars, Live
    <2> QED
        BY <2>1, LeaseFrame DEF sweepVars
<1>8. CASE Publish(w) \/ Install(w)
    BY <1>8, ReturnLease DEF Publish, Install, sweepVars
<1> QED
    BY <1>1, <1>2, <1>3, <1>4, <1>5, <1>6, <1>7, <1>8
    DEF Call, Step, Crash, BeginCommit, BeginMerge, BeginReset, BeginCreate,
        LostCommit, MergeRefused, MergeNoOp, CheckFails, InstallFails, Refuse

LEMMA SweepLeaseStep ==
    ASSUME Overrun = FALSE, TypeInv, LeaseInv, Sweep \/ SweepDies \/ LeaseLapses \/ MarkerLapses
    PROVE  LeaseInv'
<1> USE DEF TypeInv, TypeOK
<1>1. CASE SweepStart
    <2> USE <1>1 DEF SweepStart, SweepStep
    <2>1. lease'.owner = lease.owner + 1 /\ lease'.released = FALSE /\ lapsed' = FALSE
        OBVIOUS
    <2>2. \A w \in Writers : HandleLease(w)'
        <3> SUFFICES ASSUME NEW w \in Writers PROVE HandleLease(w)'
            OBVIOUS
        <3>1. seen[w].owner <= lease.owner /\ seen[w].owner \in Nat /\ lease.owner \in Nat
            BY BoundsAssumption DEF LeaseInv, HandleLease, HandleOK, LeaseOK, Lease
        <3>2. seen'[w] = seen[w]
            BY DEF writerVars
        <3>3. seen[w].owner < lease'.owner
            BY <2>1, <3>1
        <3> QED
            BY <3>1, <3>2, <3>3 DEF HandleLease
    <2>3. Live'
        <3>1. lease.owner \in Nat
            BY DEF LeaseOK, Lease
        <3> QED
            BY <2>1, <3>1 DEF Live
    <2> QED
        BY <2>2, <2>3 DEF LeaseInv
<1>2. CASE ReadMarkers \/ Visit \/ ReadHead \/ Collect \/ Remove \/ MarkerLapses
    BY <1>2 DEF ReadMarkers, Visit, ReadHead, Collect, Remove, MarkerLapses, SweepStep,
                LeaseInv, HandleLease, Live, leaseVars, writerVars, sweepVars
<1>3. CASE Release
    <2> USE <1>3 DEF Release
    <2>1. lease'.owner = lease.owner /\ lease'.released = TRUE
        BY DEF LeaseOK, Lease
    <2> QED
        BY <2>1 DEF LeaseInv, HandleLease, Live, writerVars
<1>4. CASE SweepDies
    BY <1>4 DEF SweepDies, LeaseInv, HandleLease, Live, leaseVars, writerVars
<1>5. CASE LeaseLapses
    BY <1>5 DEF LeaseLapses, LeaseInv, HandleLease, Live, sweepVars, writerVars
<1> QED
    BY <1>1, <1>2, <1>3, <1>4, <1>5 DEF Sweep

LEMMA NextLease ==
    ASSUME Overrun = FALSE, TypeInv, LeaseInv, [Next]_vars
    PROVE  LeaseInv'
<1>1. CASE UNCHANGED vars
    BY <1>1 DEF vars, leaseVars, sweepVars, writerVars, LeaseInv, HandleLease, Live
<1> QED
    BY <1>1, HandleLeaseStep, SweepLeaseStep DEF Next

LEMMA StepLandsNothing ==
    ASSUME TypeInv, LeaseInv, phase # "off", phase' # "off", [Next]_vars
    PROVE  LandsNothing
<1> USE DEF TypeInv, TypeOK, LandsNothing
<1>1. Live
    BY DEF LeaseInv
<1>2. \A w \in Writers : pc[w] \in {"land", "publish", "check", "install"} => seen[w] # lease
    BY <1>1 DEF LeaseInv, HandleLease
<1>3. (UNCHANGED storeVars) => LandsNothing
    BY DEF storeVars
<1>4. ASSUME NEW w \in Writers, Call(w) PROVE LandsNothing
    <2>1. CASE DeleteBranch(w)
        BY <2>1 DEF DeleteBranch, StoreOK
    <2> QED
        BY <1>3, <1>4, <2>1 DEF Call, BeginCommit, BeginMerge, BeginReset, BeginCreate,
                                Begin, Attach
<1>5. ASSUME NEW w \in Writers, NEW left, GiveUp(w, left) PROVE LandsNothing
    BY <1>5 DEF GiveUp
<1>6. ASSUME NEW w \in Writers, Step(w) PROVE LandsNothing
    <2>1. ~Land(w) /\ ~Publish(w) /\ ~Install(w)
        BY <1>2 DEF Land, Publish, CanPublish, Install
    <2> QED
        BY <1>3, <1>5, <1>6, <2>1
        DEF Step, Build, Wait, LandAgain, PublishAgain, LostRace, LostCommit, MergeRefused,
            MergeNoOp, Resolve, FastForward, Check, CheckFails, InstallAgain, InstallFails, Refuse
<1>7. ASSUME Sweep \/ SweepDies \/ LeaseLapses PROVE LandsNothing
    <2>1. CASE Remove
        BY <2>1 DEF Remove
    <2> QED
        BY <1>3, <1>7, <2>1 DEF Sweep, SweepStart, ReadMarkers, Visit, ReadHead, Collect,
                                Release, SweepDies, LeaseLapses
<1>8. CASE MarkerLapses
    BY <1>8 DEF MarkerLapses, StoreOK
<1>9. CASE UNCHANGED vars
    BY <1>3, <1>9 DEF vars
<1> QED
    BY <1>4, <1>5, <1>6, <1>7, <1>8, <1>9 DEF Next, Crash

\* No write of a handle, of any kind, lands between the first read of a
\* sweep and its removals, as long as no sweep outlasts its lease.
THEOREM SweepExcludesWriters ==
    ASSUME Overrun = FALSE
    PROVE  Spec => NothingLandsUnderSweep
<1>1. Init => TypeInv /\ LeaseInv
    BY InitType, InitLease
<1>2. TypeInv /\ LeaseInv /\ [Next]_vars => (TypeInv /\ LeaseInv)'
    BY NextType, NextLease
<1>3. TypeInv /\ LeaseInv /\ [Next]_vars
          => [phase # "off" /\ phase' # "off" => LandsNothing]_vars
    BY StepLandsNothing
<1> QED
    BY <1>1, <1>2, <1>3, PTL DEF Spec, NothingLandsUnderSweep

-----------------------------------------------------------------------------
(* Histories are closed, and only grow at a commit's landing.              *)

HashInv ==
    /\ stored \subseteq 1 .. minted /\ known \subseteq 1 .. minted /\ dropped \subseteq 1 .. minted
    /\ tree[Root] = {}
    /\ \A c \in Commit :
        /\ parents[c] \subseteq 1 .. (c - 1)
        /\ anc[c] \subseteq 1 .. c /\ c \in anc[c]
        /\ \A a \in anc[c] : anc[a] \subseteq anc[c]
        /\ \A p \in parents[c] : anc[p] \subseteq anc[c]
        /\ \A a \in anc[c] : a = c \/ \E p \in parents[c] : a \in anc[p]
        /\ c > minted => anc[c] = {c} /\ parents[c] = {} /\ marker[c] = "none"

\* Published commits: closed under history, unmarked, never given up; every
\* head, base and merge source is one.
KnownInv ==
    /\ Root \in known
    /\ \A c \in known : anc[c] \subseteq known /\ marker[c] = "none" /\ c \notin dropped
    /\ \A b \in Branches : head[b] # None => head[b] \in known
    /\ \A w \in Writers : base[w] \in known /\ (pc[w] # "idle" => theirs[w] \in known)

\* The shape of a call at each step: which commits it has landed, and over what.
HandleInv(w) ==
    /\ pc[w] = "idle" => op[w] = "none"
    /\ pc[w] \in {"idle", "build", "claim", "check", "install"} => InFlight(w) = {}
    /\ pc[w] \in {"build", "wait", "land", "publish", "rewait", "ancestor"} =>
        op[w] \in {"commit", "raise", "merge"}
    /\ pc[w] \in {"claim", "check", "install"} => op[w] \in {"merge", "reset", "create"}
    /\ pc[w] \in {"build", "wait", "land", "ancestor"} => merged[w] = None
    /\ pc[w] = "build" => op[w] # "merge"
    /\ pc[w] = "ancestor" => op[w] = "merge" \/ ours[w] # None
    /\ pc[w] \in {"publish", "rewait"} /\ merged[w] = None => op[w] # "merge"
    /\ op[w] = "merge" => ours[w] = None
    /\ merged[w] # None /\ ours[w] = None => op[w] = "merge"
    /\ ours[w] # None => parents[ours[w]] = {base[w]}
    /\ merged[w] # None => parents[merged[w]] = {OurSide(w), theirs[w]}
    /\ pc[w] \in {"wait", "land"} =>
        draft[w].parents = IF ours[w] = None /\ op[w] # "merge" THEN {base[w]}
                           ELSE {OurSide(w), theirs[w]}
    /\ pc[w] \in {"claim", "check", "install"} /\ op[w] = "merge" => base[w] \in anc[theirs[w]]
    /\ pc[w] = "install" => exp[w] = IF op[w] = "merge" THEN base[w]
                                     ELSE IF op[w] = "create" THEN None ELSE exp[w]

\* A commit in flight belongs to one call, and is not published or given up.
FlightInv ==
    /\ \A w \in Writers : HandleInv(w)
    /\ \A w \in Writers : InFlight(w) \subseteq 1 .. minted /\ InFlight(w) \cap (known \cup dropped) = {}
    /\ \A v, w \in Writers : v # w => InFlight(v) \cap InFlight(w) = {}

HistoryInv == HashInv /\ KnownInv /\ FlightInv

LEMMA InitHistory == Init => HistoryInv
<1> SUFFICES ASSUME Init PROVE HistoryInv
    OBVIOUS
<1> USE BoundsAssumption DEF Init, Commit, None, Root
<1>1. HashInv
    BY DEF HashInv
<1>2. KnownInv
    BY DEF KnownInv
<1>3. FlightInv
    BY DEF FlightInv, HandleInv, InFlight
<1> QED
    BY <1>1, <1>2, <1>3 DEF HistoryInv

\* Nothing landed.
LEMMA HashKept ==
    ASSUME HashInv, UNCHANGED hashVars, stored' \subseteq 1 .. minted,
           known' \subseteq 1 .. minted, dropped' \subseteq 1 .. minted,
           \A c \in Commit : marker[c] = "none" => marker'[c] = "none"
    PROVE  HashInv'
BY DEF HashInv, hashVars

\* The invariant of the other handles, when a step writes w's locals and
\* nothing a call of theirs refers to.
LEMMA OthersKeep ==
    ASSUME TypeInv, HistoryInv, NEW w \in Writers, NEW v \in Writers, v # w,
           pc'[v] = pc[v], op'[v] = op[v], base'[v] = base[v], ours'[v] = ours[v],
           merged'[v] = merged[v], theirs'[v] = theirs[v], exp'[v] = exp[v],
           draft'[v] = draft[v],
           \A c \in 1 .. minted : parents'[c] = parents[c] /\ anc'[c] = anc[c]
    PROVE  HandleInv(v)' /\ InFlight(v)' = InFlight(v)
<1> USE DEF TypeInv, TypeOK, HandleOK, HashOK, Commit, None
<1>1. InFlight(v)' = InFlight(v) /\ OurSide(v)' = OurSide(v)
    BY DEF InFlight, OurSide
<1>2. HandleInv(v) /\ InFlight(v) \subseteq 1 .. minted
    BY DEF HistoryInv, FlightInv
<1>3. ours[v] # None => parents'[ours[v]] = parents[ours[v]]
    BY <1>2 DEF InFlight
<1>4. merged[v] # None => parents'[merged[v]] = parents[merged[v]]
    BY <1>2 DEF InFlight
<1>5. pc[v] # "idle" => anc'[theirs[v]] = anc[theirs[v]]
    BY DEF HistoryInv, KnownInv, HashInv
<1> QED
    BY <1>1, <1>2, <1>3, <1>4, <1>5 DEF HandleInv

\* A step that writes only the locals of one call, and not what it landed.
LEMMA LocalHistory ==
    ASSUME TypeInv, HistoryInv, NEW w \in Writers,
           UNCHANGED <<storeVars, hashVars, ghostVars, br, base, ours, merged>>,
           \A v \in Writers \ {w} : /\ pc'[v] = pc[v] /\ op'[v] = op[v] /\ theirs'[v] = theirs[v]
                                    /\ exp'[v] = exp[v] /\ draft'[v] = draft[v],
           pc'[w] # "idle" => theirs'[w] \in known,
           HandleInv(w)'
    PROVE  HistoryInv'
<1> USE DEF storeVars, hashVars, ghostVars
<1>1. HashInv'
    BY DEF HistoryInv, HashInv
<1>2. KnownInv'
    BY DEF HistoryInv, KnownInv
<1>3. \A v \in Writers : InFlight(v)' = InFlight(v)
    BY DEF InFlight
<1>4. \A v \in Writers : HandleInv(v)'
    BY OthersKeep
<1>5. FlightInv'
    BY <1>3, <1>4 DEF HistoryInv, FlightInv
<1> QED
    BY <1>1, <1>2, <1>5 DEF HistoryInv

\* A call that returns leaves its handle with nothing in flight.
LEMMA ReturnHistory ==
    ASSUME TypeInv, HistoryInv, NEW w \in Writers, NEW b \in Branches, NEW c \in Commit,
           Return(w, b, c), UNCHANGED hashVars,
           known' \cap UNION {InFlight(v) : v \in Writers \ {w}} \subseteq known,
           dropped' \subseteq dropped \cup InFlight(w)
    PROVE  FlightInv'
<1> USE DEF TypeInv, TypeOK, HandleOK, Return, Goto, hashVars
<1>1. \A v \in Writers \ {w} : HandleInv(v)' /\ InFlight(v)' = InFlight(v)
    BY OthersKeep
<1>2. InFlight(w)' = {}
    BY DEF InFlight
<1>3. HandleInv(w)'
    BY <1>2 DEF HandleInv, None
<1>4. \A v \in Writers : InFlight(v) \subseteq 1 .. minted /\ InFlight(v) \cap (known \cup dropped) = {}
    BY DEF HistoryInv, FlightInv
<1>5. \A v \in Writers \ {w} : InFlight(v) \cap InFlight(w) = {}
    BY DEF HistoryInv, FlightInv
<1>6. \A v \in Writers \ {w} : InFlight(v)' \subseteq 1 .. minted /\ InFlight(v)' \cap (known \cup dropped)' = {}
    BY <1>1, <1>4, <1>5
<1>7. \A u, v \in Writers : u # v => InFlight(u)' \cap InFlight(v)' = {}
    BY <1>1, <1>2 DEF HistoryInv, FlightInv
<1> QED
    BY <1>1, <1>2, <1>3, <1>6, <1>7 DEF FlightInv

\* A step of no handle.
LEMMA IdleHandles ==
    ASSUME HistoryInv, UNCHANGED <<writerVars, hashVars, ghostVars>>
    PROVE  FlightInv'
<1> USE DEF writerVars, hashVars, ghostVars
<1>1. \A v \in Writers : InFlight(v)' = InFlight(v) /\ OurSide(v)' = OurSide(v)
    BY DEF InFlight, OurSide
<1>2. \A v \in Writers : HandleInv(v)'
    <2> SUFFICES ASSUME NEW v \in Writers PROVE HandleInv(v)'
        OBVIOUS
    <2>1. HandleInv(v)
        BY DEF HistoryInv, FlightInv
    <2> QED
        BY <1>1, <2>1 DEF HandleInv
<1> QED
    BY <1>1, <1>2 DEF HistoryInv, FlightInv

LEMMA GiveUpHistory ==
    ASSUME TypeInv, HistoryInv, NEW w \in Writers, NEW left, GiveUp(w, left)
    PROVE  HistoryInv'
<1> USE DEF TypeInv, TypeOK, HandleOK, GiveUp
<1>1. FlightInv'
    BY ReturnHistory
<1>2. InFlight(w) \subseteq 1 .. minted /\ InFlight(w) \cap known = {}
    BY DEF HistoryInv, FlightInv
<1>3. \A c \in Commit : marker'[c] \in {"none", marker[c]}
    OBVIOUS
<1>4. HashInv'
    BY <1>2, <1>3 DEF HistoryInv, HashInv, hashVars
<1>5. KnownInv'
    <2>1. \A c \in known : marker'[c] = "none" /\ c \notin dropped'
        BY <1>2, <1>3 DEF HistoryInv, KnownInv, HashOK
    <2>2. \A v \in Writers : base'[v] = base[v] /\ (pc'[v] # "idle" => theirs'[v] = theirs[v] /\ pc[v] # "idle")
        BY DEF Return, Goto
    <2> QED
        BY <2>1, <2>2 DEF HistoryInv, KnownInv, hashVars
<1> QED
    BY <1>1, <1>4, <1>5 DEF HistoryInv

LEMMA CallHistory ==
    ASSUME TypeInv, HistoryInv, NEW w \in Writers, Call(w)
    PROVE  HistoryInv'
<1> USE DEF TypeInv, TypeOK, HandleOK
<1>0. /\ \A b \in Branches : head[b] # None => head[b] \in known
      /\ base[w] \in known
    BY DEF HistoryInv, KnownInv
<1>1. ASSUME NEW o, NEW label, NEW b, NEW c \in known, Begin(w, o, label, b, c),
             \/ label = "build" /\ o \in {"commit", "raise"}
             \/ label = "ancestor" /\ o = "merge"
             \/ label = "claim" /\ o \in {"reset", "create"}
      PROVE  HistoryInv'
    <2> USE <1>1 DEF Begin, Goto
    <2>1. ours[w] = None /\ merged[w] = None
        BY DEF HistoryInv, FlightInv, HandleInv, InFlight
    <2>2. pc'[w] = label /\ op'[w] = o /\ theirs'[w] = c /\ ours'[w] = None /\ merged'[w] = None
        BY <2>1
    <2>3. HandleInv(w)'
        BY <2>2 DEF HandleInv, InFlight
    <2> QED
        BY <2>2, <2>3, LocalHistory
<1>2. CASE BeginCommit(w)
    BY <1>0, <1>1, <1>2 DEF BeginCommit
<1>3. CASE BeginMerge(w)
    <2>1. PICK b \in Branches \ {br[w]} :
              head[b] \in stored /\ Begin(w, "merge", "ancestor", b, head[b])
        BY <1>3 DEF BeginMerge
    <2>2. head[b] \in known
        BY <1>0, <2>1 DEF StoreOK, Commit, None
    <2> QED
        BY <1>1, <2>1, <2>2
<1>4. CASE BeginReset(w)
    BY <1>1, <1>4 DEF BeginReset
<1>5. CASE BeginCreate(w)
    BY <1>1, <1>5 DEF BeginCreate
<1>6. CASE Attach(w)
    <2>1. PICK b \in Branches : head[b] # None /\ Return(w, b, head[b])
        BY <1>6 DEF Attach
    <2>2. head[b] \in known /\ head[b] \in Commit
        BY <1>0, <2>1 DEF HashOK
    <2> USE <1>6 DEF Attach
    <2>3. FlightInv'
        BY <2>1, <2>2, ReturnHistory DEF ghostVars
    <2>4. HashInv'
        BY DEF HistoryInv, HashInv, hashVars, storeVars, ghostVars
    <2>5. \A v \in Writers : base'[v] \in known /\ (pc'[v] # "idle" => theirs'[v] = theirs[v] /\ pc[v] # "idle")
        BY <2>1, <2>2 DEF Return, Goto, HistoryInv, KnownInv
    <2>6. KnownInv'
        BY <2>5 DEF HistoryInv, KnownInv, hashVars, storeVars, ghostVars
    <2> QED
        BY <2>3, <2>4, <2>6 DEF HistoryInv
<1>7. CASE DeleteBranch(w)
    <2> USE <1>7 DEF DeleteBranch, hashVars, ghostVars, writerVars
    <2>1. HashInv'
        BY DEF HistoryInv, HashInv
    <2>2. KnownInv'
        BY DEF HistoryInv, KnownInv, StoreOK
    <2>3. FlightInv'
        BY IdleHandles
    <2> QED
        BY <2>1, <2>2, <2>3 DEF HistoryInv
<1> QED
    BY <1>2, <1>3, <1>4, <1>5, <1>6, <1>7 DEF Call

\* What a publish or a landing adds to the histories: the commit landed over
\* a handle's base, and the merge of it with a published head.
LEMMA FlightHistory ==
    ASSUME TypeInv, HistoryInv, NEW w \in Writers, pc[w] = "publish"
    PROVE  /\ NewHead(w) \in InFlight(w) /\ NewHead(w) \in Commit
           /\ anc[NewHead(w)] \subseteq known \cup InFlight(w)
           /\ Expected(w) \in anc[NewHead(w)]
           /\ Expected(w) \in known
<1> USE DEF TypeInv, TypeOK, HandleOK, HashOK
<1>1. /\ HandleInv(w)
      /\ base[w] \in known /\ theirs[w] \in known
      /\ \A c \in known : anc[c] \subseteq known
      /\ InFlight(w) \subseteq 1 .. minted
    BY DEF HistoryInv, FlightInv, KnownInv
<1>2. \A c \in Commit : /\ c \in anc[c]
                        /\ \A a \in anc[c] : a = c \/ \E p \in parents[c] : a \in anc[p]
                        /\ \A p \in parents[c] : anc[p] \subseteq anc[c]
    BY DEF HistoryInv, HashInv
<1>3. ours[w] # None => anc[ours[w]] \subseteq known \cup {ours[w]} /\ base[w] \in anc[ours[w]]
    BY <1>1, <1>2 DEF HandleInv
<1>4. CASE merged[w] = None
    <2>1. ours[w] # None
        BY <1>4 DEF TargetsOK, NewHead
    <2> QED
        BY <1>1, <1>3, <1>4, <2>1 DEF NewHead, Expected, InFlight
<1>5. CASE merged[w] # None
    <2>1. merged[w] \in Commit /\ parents[merged[w]] = {OurSide(w), theirs[w]}
        BY <1>1, <1>5 DEF HandleInv
    <2>2. OurSide(w) \in Commit /\ theirs[w] \in Commit
        BY <1>1 DEF OurSide
    <2>3. OurSide(w) \in anc[merged[w]] /\ theirs[w] \in anc[merged[w]]
        BY <1>2, <2>1, <2>2
    <2>4. anc[OurSide(w)] \subseteq known \cup InFlight(w)
        BY <1>1, <1>3 DEF OurSide, InFlight
    <2>5. anc[merged[w]] \subseteq known \cup InFlight(w)
        BY <1>1, <1>2, <1>5, <2>1, <2>4 DEF InFlight
    <2>6. op[w] = "merge" => OurSide(w) = base[w]
        BY <1>1 DEF HandleInv, OurSide
    <2> QED
        BY <1>1, <1>5, <2>1, <2>3, <2>5, <2>6 DEF NewHead, Expected, InFlight
<1> QED
    BY <1>4, <1>5

LEMMA PublishHistory ==
    ASSUME TypeInv, HistoryInv, NEW w \in Writers, Publish(w)
    PROVE  HistoryInv'
<1> DEFINE n == NewHead(w)
<1> USE DEF TypeInv, TypeOK, Publish
<1>1. /\ n \in InFlight(w) /\ n \in Commit
      /\ anc[n] \subseteq known \cup InFlight(w) /\ Expected(w) \in anc[n]
    BY FlightHistory
<1>2. InFlight(w) \subseteq 1 .. minted /\ InFlight(w) \cap (known \cup dropped) = {}
    BY DEF HistoryInv, FlightInv
<1>3. \A c \in Commit : marker'[c] \in {"none", marker[c]}
    OBVIOUS
<1>4. n \in anc[n] /\ \A a \in anc[n] : anc[a] \subseteq anc[n]
    BY <1>1 DEF HistoryInv, HashInv
<1>5. FlightInv'
    <2>1. known' \cap UNION {InFlight(v) : v \in Writers \ {w}} \subseteq known
        BY <1>1 DEF HistoryInv, FlightInv
    <2>2. br[w] \in Branches
        BY DEF HandleOK
    <2> QED
        BY <1>1, <2>1, <2>2, ReturnHistory
<1>6. HashInv'
    <2>1. known' \subseteq 1 .. minted /\ stored' \subseteq 1 .. minted /\ dropped' \subseteq 1 .. minted
        BY <1>1, <1>2 DEF HistoryInv, HashInv
    <2> QED
        BY <1>3, <2>1, HashKept DEF HistoryInv
<1>7. KnownInv'
    <2>1. \A c \in known' : anc[c] \subseteq known'
        BY <1>4 DEF HistoryInv, KnownInv
    <2>2. \A c \in known' : marker'[c] = "none" /\ c \notin dropped'
        <3>1. \A c \in known : c \in Commit /\ marker[c] = "none" /\ c \notin dropped
            BY DEF HistoryInv, KnownInv, HashOK
        <3>2. \A c \in InFlight(w) : c \in Commit /\ marker'[c] = "none" /\ c \notin dropped
            BY <1>2 DEF InFlight, HandleOK
        <3> QED
            BY <1>1, <1>3, <3>1, <3>2
    <2>3. \A b \in Branches : head'[b] \in {n, head[b]}
        BY DEF StoreOK
    <2>4. \A v \in Writers : /\ base'[v] \in {n, base[v]}
                             /\ pc'[v] # "idle" => theirs'[v] = theirs[v] /\ pc[v] # "idle"
        BY DEF Return, Goto, HandleOK
    <2>5. n \in known' /\ known \subseteq known'
        BY <1>4
    <2> QED
        BY <2>1, <2>2, <2>3, <2>4, <2>5 DEF HistoryInv, KnownInv, hashVars
<1> QED
    BY <1>5, <1>6, <1>7 DEF HistoryInv

LEMMA InstallHistory ==
    ASSUME TypeInv, HistoryInv, NEW w \in Writers, Install(w)
    PROVE  HistoryInv'
<1> USE DEF TypeInv, TypeOK, Install
<1>1. theirs[w] \in known /\ theirs[w] \in Commit /\ base[w] \in known /\ base[w] \in Commit
    BY DEF HistoryInv, KnownInv, HashOK, HandleOK
<1>2. known' = known
    BY <1>1
<1>3. br[w] \in Branches /\ InstallAt(w) \in Branches
    BY DEF HandleOK, InstallAt
<1>4. FlightInv'
    BY <1>1, <1>2, <1>3, ReturnHistory
<1>5. HashInv'
    <2>1. stored' \subseteq 1 .. minted /\ known' \subseteq 1 .. minted /\ dropped' \subseteq 1 .. minted
        BY <1>1, <1>2 DEF HistoryInv, HashInv
    <2> QED
        BY <2>1, HashKept DEF HistoryInv
<1>6. \A v \in Writers : base'[v] \in known /\ (pc'[v] # "idle" => theirs'[v] = theirs[v] /\ pc[v] # "idle")
    BY <1>1 DEF HistoryInv, KnownInv, Return, Goto, HandleOK
<1>7. KnownInv'
    BY <1>1, <1>2, <1>3, <1>6 DEF HistoryInv, KnownInv, StoreOK, hashVars
<1> QED
    BY <1>4, <1>5, <1>7 DEF HistoryInv

LEMMA LandHistory ==
    ASSUME TypeInv, HistoryInv, NEW w \in Writers, Land(w)
    PROVE  HistoryInv'
<1> DEFINE c == minted + 1
           d == draft[w]
           first == ours[w] = None /\ op[w] # "merge"
<1> USE DEF TypeInv, TypeOK, HashOK, HandleOK
<1>1. /\ c \in Commit /\ c \notin 1 .. minted /\ minted' = c
      /\ 1 .. minted \subseteq Commit /\ minted \in Nat /\ minted >= 1
    BY BoundsAssumption DEF Commit, Land
<1>2. /\ HandleInv(w) /\ InFlight(w) \subseteq 1 .. minted
      /\ base[w] \in known /\ theirs[w] \in known /\ known \subseteq 1 .. minted
    BY DEF Land, HistoryInv, FlightInv, KnownInv, HashInv
<1>3. /\ d.parents = IF first THEN {base[w]} ELSE {OurSide(w), theirs[w]}
      /\ d.parents \subseteq 1 .. minted /\ merged[w] = None
    <2>1. /\ d.parents = IF first THEN {base[w]} ELSE {OurSide(w), theirs[w]}
          /\ merged[w] = None
        BY <1>2 DEF Land, HandleInv
    <2>2. base[w] \in 1 .. minted /\ theirs[w] \in 1 .. minted
        BY <1>2
    <2>3. OurSide(w) \in 1 .. minted
        BY <1>2, <2>2 DEF OurSide, InFlight
    <2> QED
        BY <2>1, <2>2, <2>3
<1>4. /\ parents' = [parents EXCEPT ![c] = d.parents]
      /\ anc' = [anc EXCEPT ![c] = {c} \cup UNION {anc[p] : p \in d.parents}]
      /\ tree' = [tree EXCEPT ![c] = d.tree]
      /\ stored' = stored \cup {c} /\ known' = known /\ dropped' = dropped
      /\ marker' = [marker EXCEPT ![c] = "live"] /\ head' = head
    BY DEF Land, ghostVars
<1>5. \A x \in Commit \ {c} : parents'[x] = parents[x] /\ anc'[x] = anc[x] /\ tree'[x] = tree[x]
                              /\ marker'[x] = marker[x]
    BY <1>4 DEF StoreOK
<1>6. parents'[c] = d.parents /\ anc'[c] = {c} \cup UNION {anc[p] : p \in d.parents}
    BY <1>1, <1>4
<1>7. \A p \in 1 .. minted : /\ anc[p] \subseteq 1 .. minted /\ p \in anc[p]
                             /\ \A a \in anc[p] : anc[a] \subseteq anc[p]
    <2>1. \A p \in 1 .. minted : p \in Commit /\ 1 .. p \subseteq 1 .. minted
        BY <1>1
    <2> QED
        BY <2>1 DEF HistoryInv, HashInv
<1>8. anc'[c] \subseteq 1 .. c /\ c \in anc'[c] /\ parents'[c] \subseteq 1 .. minted
    <2>1. 1 .. minted \subseteq 1 .. c /\ c \in 1 .. c
        BY <1>1
    <2>2. UNION {anc[p] : p \in d.parents} \subseteq 1 .. minted
        <3>1. \A p \in d.parents : anc[p] \subseteq 1 .. minted
            BY <1>3, <1>7
        <3> QED
            BY <3>1
    <2>3. parents'[c] \subseteq 1 .. minted
        BY <1>3, <1>6
    <2> QED
        BY <1>6, <2>1, <2>2, <2>3
<1>9. HashInv'
    <2>1. /\ stored' \subseteq 1 .. minted' /\ known' \subseteq 1 .. minted'
          /\ dropped' \subseteq 1 .. minted'
        BY <1>1, <1>4 DEF HistoryInv, HashInv
    <2>2. tree'[Root] = {}
        BY <1>1, <1>5 DEF HistoryInv, HashInv, Root, Commit
    <2>3. ASSUME NEW x \in Commit, x # c
          PROVE  /\ parents'[x] \subseteq 1 .. (x - 1)
                 /\ anc'[x] \subseteq 1 .. x /\ x \in anc'[x]
                 /\ \A a \in anc'[x] : anc'[a] \subseteq anc'[x]
                 /\ \A p \in parents'[x] : anc'[p] \subseteq anc'[x]
                 /\ \A a \in anc'[x] : a = x \/ \E p \in parents'[x] : a \in anc'[p]
                 /\ x > minted' => anc'[x] = {x} /\ parents'[x] = {} /\ marker'[x] = "none"
        <3>1. parents'[x] = parents[x] /\ anc'[x] = anc[x] /\ marker'[x] = marker[x]
            BY <1>5, <2>3
        <3>2. /\ parents[x] \subseteq 1 .. (x - 1)
              /\ anc[x] \subseteq 1 .. x /\ x \in anc[x]
              /\ \A a \in anc[x] : anc[a] \subseteq anc[x]
              /\ \A p \in parents[x] : anc[p] \subseteq anc[x]
              /\ \A a \in anc[x] : a = x \/ \E p \in parents[x] : a \in anc[p]
              /\ x > minted => anc[x] = {x} /\ parents[x] = {} /\ marker[x] = "none"
            BY DEF HistoryInv, HashInv
        <3>3. c \notin anc[x] /\ c \notin parents[x]
            <4>1. CASE x > minted
                BY <2>3, <3>2, <4>1
            <4>2. CASE x <= minted
                BY <1>1, <3>2, <4>2 DEF Commit
            <4> QED
                BY <1>1, <4>1, <4>2 DEF Commit
        <3>4. \A a \in anc[x] \cup parents[x] : anc'[a] = anc[a]
            BY <1>5, <3>3
        <3>5. x > minted' => x > minted
            BY <1>1 DEF Commit
        <3> QED
            BY <3>1, <3>2, <3>4, <3>5
    <2>4. /\ parents'[c] \subseteq 1 .. (c - 1)
          /\ anc'[c] \subseteq 1 .. c /\ c \in anc'[c]
          /\ \A a \in anc'[c] : anc'[a] \subseteq anc'[c]
          /\ \A p \in parents'[c] : anc'[p] \subseteq anc'[c]
          /\ \A a \in anc'[c] : a = c \/ \E p \in parents'[c] : a \in anc'[p]
          /\ ~(c > minted')
        <3>1. \A a \in 1 .. minted : anc'[a] = anc[a]
            BY <1>1, <1>5
        <3>2. \A p \in d.parents : anc'[p] = anc[p] /\ anc[p] \subseteq anc'[c]
            BY <1>3, <1>6, <3>1
        <3>3. \A a \in anc'[c] : a = c \/ \E p \in parents'[c] : a \in anc'[p]
            BY <1>6, <3>2
        <3>4. \A a \in anc'[c] : anc'[a] \subseteq anc'[c]
            <4> SUFFICES ASSUME NEW a \in anc'[c], a # c PROVE anc'[a] \subseteq anc'[c]
                OBVIOUS
            <4>1. PICK p \in d.parents : a \in anc[p]
                BY <1>6
            <4>2. a \in 1 .. minted /\ anc[a] \subseteq anc[p]
                BY <1>3, <1>7, <4>1
            <4> QED
                BY <3>1, <3>2, <4>1, <4>2
        <3>5. parents'[c] \subseteq 1 .. (c - 1) /\ ~(c > minted')
            BY <1>1, <1>8
        <3> QED
            BY <1>6, <1>8, <3>2, <3>3, <3>4, <3>5
    <2> QED
        BY <2>1, <2>2, <2>3, <2>4 DEF HashInv
<1>10. KnownInv'
    <2>1. \A x \in known : x \in Commit \ {c}
        BY <1>1, <1>2
    <2>2. \A v \in Writers : base'[v] = base[v] /\ theirs'[v] = theirs[v]
                             /\ (pc'[v] # "idle" => pc[v] # "idle")
        BY DEF Land, Goto
    <2> QED
        BY <1>4, <1>5, <2>1, <2>2 DEF HistoryInv, KnownInv
<1>11. /\ ours'[w] = IF first THEN c ELSE ours[w]
       /\ merged'[w] = IF first THEN None ELSE c
       /\ pc'[w] = IF first /\ theirs[w] # base[w] THEN "ancestor" ELSE "publish"
       /\ op' = op /\ base' = base /\ theirs' = theirs /\ exp' = exp
       /\ \A v \in Writers \ {w} : /\ pc'[v] = pc[v] /\ ours'[v] = ours[v] /\ merged'[v] = merged[v]
                                   /\ draft'[v] = draft[v]
    BY <1>3 DEF Land, Goto
<1>12. \A v \in Writers \ {w} : HandleInv(v)' /\ InFlight(v)' = InFlight(v)
    BY <1>1, <1>5, <1>11, OthersKeep
<1>13. HandleInv(w)'
    <2>1. c # None /\ op[w] \in {"commit", "raise", "merge"} /\ (op[w] = "merge" => ours[w] = None)
        BY <1>1, <1>2 DEF Land, HandleInv, Commit, None
    <2>2. first => parents'[ours'[w]] = {base[w]} /\ op[w] # "merge"
        BY <1>3, <1>6, <1>11
    <2>3. ~first => /\ OurSide(w)' = OurSide(w)
                    /\ parents'[merged'[w]] = {OurSide(w), theirs[w]}
                    /\ ours[w] # None => parents'[ours[w]] = {base[w]}
        <3>1. ours[w] # None => ours[w] \in 1 .. minted /\ parents[ours[w]] = {base[w]}
            BY <1>2 DEF HandleInv, InFlight
        <3>2. \A x \in 1 .. minted : parents'[x] = parents[x]
            BY <1>1, <1>5
        <3> QED
            BY <1>3, <1>6, <1>11, <3>1, <3>2 DEF OurSide
    <2> QED
        BY <1>11, <2>1, <2>2, <2>3 DEF HandleInv
<1>14. InFlight(w)' \subseteq InFlight(w) \cup {c}
    BY <1>11 DEF InFlight
<1>15. \A v \in Writers : InFlight(v) \subseteq 1 .. minted
    BY DEF HistoryInv, FlightInv
<1>16. FlightInv'
    <2>1. \A v \in Writers : HandleInv(v)'
        BY <1>12, <1>13
    <2>2. \A v \in Writers : InFlight(v)' \subseteq 1 .. minted' /\ InFlight(v)' \cap (known' \cup dropped') = {}
        <3>1. \A v \in Writers : InFlight(v)' \subseteq InFlight(v) \cup {c}
            BY <1>12, <1>14
        <3>2. 1 .. minted \cup {c} \subseteq 1 .. minted'
            BY <1>1
        <3>3. c \notin known' \cup dropped'
            BY <1>1, <1>4 DEF HistoryInv, HashInv
        <3> QED
            BY <1>4, <1>15, <3>1, <3>2, <3>3 DEF HistoryInv, FlightInv
    <2>3. \A u, v \in Writers : u # v => InFlight(u)' \cap InFlight(v)' = {}
        BY <1>1, <1>12, <1>14, <1>15 DEF HistoryInv, FlightInv
    <2> QED
        BY <2>1, <2>2, <2>3 DEF FlightInv
<1> QED
    BY <1>9, <1>10, <1>16 DEF HistoryInv

\* A walk of the stored history stays inside the history.
LEMMA WalkInHistory ==
    ASSUME TypeInv, HistoryInv, NEW c \in Commit
    PROVE  Walk(c) \subseteq anc[c]
<1> USE DEF TypeInv, TypeOK, HashOK
<1>1. c \in anc[c] /\ anc[c] \in SUBSET Commit
    BY DEF HistoryInv, HashInv
<1>2. \A x \in anc[c] : ParentsOf(x) \subseteq anc[c]
    <2> SUFFICES ASSUME NEW x \in anc[c], NEW p \in ParentsOf(x) PROVE p \in anc[c]
        OBVIOUS
    <2>1. x \in Commit /\ p \in parents[x] /\ p \in Commit
        BY <1>1 DEF ParentsOf
    <2>2. anc[x] \subseteq anc[c] /\ anc[p] \subseteq anc[x] /\ p \in anc[p]
        BY <2>1 DEF HistoryInv, HashInv
    <2> QED
        BY <2>2
<1> QED
    BY <1>1, <1>2 DEF Walk

LEMMA StepHistory ==
    ASSUME TypeInv, HistoryInv, NEW w \in Writers, Step(w)
    PROVE  HistoryInv'
<1> USE DEF TypeInv, TypeOK, HandleOK
<1>0. HandleInv(w) /\ (pc[w] # "idle" => theirs[w] \in known) /\ base[w] \in known
    BY DEF HistoryInv, FlightInv, KnownInv
<1>1. CASE Build(w)
    <2>1. draft'[w].parents = {base[w]}
        BY <1>1 DEF Build
    <2>2. HandleInv(w)'
        BY <1>0, <1>1, <2>1 DEF Build, Goto, HandleInv, InFlight
    <2> QED
        BY <1>0, <1>1, <2>2, LocalHistory DEF Build, Goto
<1>2. CASE Wait(w)
    <2> USE <1>2 DEF Wait, Goto
    <2>1. HandleInv(w)'
        BY <1>0 DEF HandleInv, InFlight, hashVars, OurSide
    <2> QED
        BY <1>0, <2>1, LocalHistory
<1>3. CASE LandAgain(w) \/ PublishAgain(w) \/ InstallAgain(w)
    <2>1. /\ \/ pc[w] = "land" /\ pc'[w] = "wait"
             \/ pc[w] = "publish" /\ pc'[w] = "rewait"
             \/ pc[w] = "install" /\ pc'[w] = "claim"
          /\ \A v \in Writers \ {w} : pc'[v] = pc[v]
          /\ UNCHANGED <<storeVars, hashVars, ghostVars, op, br, base, ours, merged, theirs, exp, draft>>
        BY <1>3 DEF LandAgain, PublishAgain, InstallAgain, Goto
    <2>2. HandleInv(w)'
        BY <1>0, <2>1 DEF HandleInv, InFlight, hashVars, OurSide
    <2> QED
        BY <1>0, <2>1, <2>2, LocalHistory
<1>4. CASE Check(w)
    <2>1. /\ pc[w] = "check" /\ pc'[w] = "install" /\ exp'[w] = InstallOver(w)
          /\ \A v \in Writers \ {w} : pc'[v] = pc[v] /\ exp'[v] = exp[v]
          /\ UNCHANGED <<storeVars, hashVars, ghostVars, op, br, base, ours, merged, theirs, draft>>
        BY <1>4 DEF Check, Goto
    <2>2. HandleInv(w)'
        BY <1>0, <2>1 DEF HandleInv, InFlight, hashVars, OurSide, InstallOver
    <2> QED
        BY <1>0, <2>1, <2>2, LocalHistory
<1>5. CASE LostRace(w)
    <2> USE <1>5 DEF LostRace, LostPublish, Goto
    <2>1. head[br[w]] \in known /\ ours[w] # None
        BY DEF HistoryInv, KnownInv, TargetsOK, NewHead
    <2>2. HandleInv(w)'
        BY <1>0, <2>1 DEF HandleInv, InFlight, hashVars, OurSide
    <2> QED
        BY <2>1, <2>2, LocalHistory
<1>6. CASE Resolve(w)
    <2> USE <1>6 DEF Resolve, Goto
    <2>1. draft'[w].parents = {OurSide(w), theirs[w]}
        OBVIOUS
    <2>2. HandleInv(w)'
        BY <1>0, <2>1 DEF HandleInv, InFlight, hashVars, OurSide
    <2> QED
        BY <1>0, <2>2, LocalHistory
<1>7. CASE FastForward(w)
    <2> USE <1>7 DEF FastForward, Goto
    <2>1. op[w] = "merge" /\ ours[w] = None /\ merged[w] = None
        BY <1>0 DEF Ahead, HandleInv
    <2>2. base[w] \in anc[theirs[w]]
        BY <1>0, WalkInHistory DEF Ahead, HashOK
    <2>3. HandleInv(w)'
        BY <1>0, <2>1, <2>2 DEF HandleInv, InFlight, hashVars, OurSide
    <2> QED
        BY <1>0, <2>3, LocalHistory
<1>8. CASE LostCommit(w) \/ MergeRefused(w) \/ MergeNoOp(w) \/ CheckFails(w) \/ InstallFails(w)
    BY <1>8, GiveUpHistory DEF LostCommit, MergeRefused, MergeNoOp, CheckFails, InstallFails, Refuse
<1> QED
    BY <1>1, <1>2, <1>3, <1>5, <1>6, <1>7, <1>8, <1>4, LandHistory, PublishHistory, InstallHistory
    DEF Step

LEMMA SweepHistory ==
    ASSUME TypeInv, HistoryInv, Sweep \/ SweepDies \/ LeaseLapses \/ MarkerLapses \/ UNCHANGED vars
    PROVE  HistoryInv'
<1> USE DEF TypeInv, TypeOK
<1>1. /\ UNCHANGED <<writerVars, hashVars, ghostVars, head>>
      /\ stored' \subseteq stored
      /\ \A c \in Commit : marker[c] = "none" => marker'[c] = "none"
    <2>1. CASE UNCHANGED storeVars /\ UNCHANGED <<writerVars, hashVars, ghostVars>>
        BY <2>1 DEF storeVars
    <2>2. CASE Remove
        BY <2>2 DEF Remove, StoreOK
    <2>3. CASE MarkerLapses
        BY <2>3 DEF MarkerLapses, StoreOK
    <2> QED
        BY <2>1, <2>2, <2>3 DEF Sweep, SweepStart, ReadMarkers, Visit, ReadHead, Collect, Release,
                                SweepDies, LeaseLapses, vars
<1>2. FlightInv'
    BY <1>1, IdleHandles
<1>3. HashInv'
    BY <1>1, HashKept DEF HistoryInv, HashInv, ghostVars
<1>4. KnownInv'
    BY <1>1 DEF HistoryInv, KnownInv, HashOK, hashVars, ghostVars, writerVars
<1> QED
    BY <1>2, <1>3, <1>4 DEF HistoryInv

LEMMA NextHistory == TypeInv /\ HistoryInv /\ [Next]_vars => HistoryInv'
BY CallHistory, StepHistory, GiveUpHistory, SweepHistory DEF Next, Crash

LEMMA HistoryCorrect == Spec => [](TypeInv /\ HistoryInv)
<1>1. Init => TypeInv /\ HistoryInv
    BY InitType, InitHistory
<1>2. TypeInv /\ HistoryInv /\ [Next]_vars => (TypeInv /\ HistoryInv)'
    BY NextType, NextHistory
<1> QED
    BY <1>1, <1>2, PTL DEF Spec

-----------------------------------------------------------------------------

\* No commit in a branch's history is still marked in flight.
THEOREM PublishClearsMarkers == Spec => []PublishedUnmarked
<1>1. TypeInv /\ HistoryInv => PublishedUnmarked
    BY DEF HistoryInv, KnownInv, PublishedUnmarked
<1> QED
    BY <1>1, HistoryCorrect, PTL

\* A commit whose call failed or crashed is in no branch's history, ever.
THEOREM DroppedStaysOut == Spec => []DroppedUnreachable
<1>1. TypeInv /\ HistoryInv => DroppedUnreachable
    BY DEF HistoryInv, KnownInv, DroppedUnreachable
<1> QED
    BY <1>1, HistoryCorrect, PTL

-----------------------------------------------------------------------------
(* KvGC implements KvBranches.                                             *)

Published == [c \in Commit |-> IF c \in known THEN anc[c] ELSE {}]

LEMMA PublishedKnown ==
    ASSUME TypeInv, HistoryInv
    PROVE  B!Known = known /\ \A c \in known : Published[c] = anc[c]
<1>1. \A c \in known : c \in Commit /\ c \in anc[c]
    BY DEF TypeInv, TypeOK, HashOK, HistoryInv, HashInv
<1> QED
    BY <1>1 DEF B!Known, Published

LEMMA InitBranches == Init => B!Init
<1> SUFFICES ASSUME Init PROVE B!Init
    OBVIOUS
<1>1. known = {Root} /\ anc = [c \in Commit |-> {c}]
    BY DEF Init
<1>2. \A c \in Commit : (IF c \in known THEN anc[c] ELSE {}) = IF c = Root THEN {Root} ELSE {}
    BY <1>1
<1>3. \E b \in Branches : head = [x \in Branches |-> IF x = b THEN Root ELSE None]
    BY DEF Init
<1> QED
    BY <1>2, <1>3 DEF B!Init

\* A step that moves no head and publishes nothing.
LEMMA StutterBranches ==
    ASSUME TypeInv, HistoryInv, UNCHANGED <<head, known>>, \A c \in known : anc'[c] = anc[c]
    PROVE  UNCHANGED B!vars
BY DEF B!vars

LEMMA PublishBranches ==
    ASSUME TypeInv, TypeInv', HistoryInv, NEW w \in Writers, Publish(w),
           NEW b \in Branches, b = br[w]
    PROVE  B!Advance(b)
<1> DEFINE n == NewHead(w)
<1> USE DEF TypeInv, TypeOK
<1>1. /\ n \in InFlight(w) /\ n \in Commit
      /\ anc[n] \subseteq known \cup InFlight(w) /\ Expected(w) \in anc[n] /\ Expected(w) \in known
    BY FlightHistory DEF Publish
<1>2. /\ head[b] = Expected(w) /\ head' = [head EXCEPT ![b] = n]
      /\ known' = known \cup anc[n] /\ anc' = anc
    BY DEF Publish, CanPublish, HandleOK, hashVars
<1>3. n \in Commit \ B!Known
    BY <1>1, PublishedKnown DEF HistoryInv, FlightInv
<1>4. head[b] # None
    BY <1>1, <1>2 DEF HashOK, Commit, None
<1>5. \A x \in known' : Published'[x] = anc[x]
    BY <1>2 DEF Published, HashOK
<1>6. \A x \in Commit \ known' : Published'[x] = {}
    BY DEF Published
<1>7. n \in anc[n] /\ \A x \in anc[n] : x \in anc[x] /\ anc[x] \subseteq anc[n] /\ x \in known'
    BY <1>1, <1>2 DEF HistoryInv, HashInv, HashOK
<1>8. Published' \in [Commit -> SUBSET Commit]
    BY DEF Published, HashOK
<1>9. \A x \in B!Known : Published'[x] = Published[x]
    BY <1>2, <1>5, PublishedKnown
<1>10. {head[b], n} \subseteq Published'[n]
    BY <1>1, <1>2, <1>5, <1>7
<1>11. \A x \in Published'[n] : x \in Published'[x] /\ Published'[x] \subseteq Published'[n]
    BY <1>5, <1>7
<1>12. \A x \in Commit : Published'[x] # {} => x \in B!Known \cup Published'[n]
    BY <1>2, <1>5, <1>6, <1>7, PublishedKnown
<1> QED
    BY <1>2, <1>3, <1>4, <1>8, <1>9, <1>10, <1>11, <1>12 DEF B!Advance, Published

LEMMA InstallBranches ==
    ASSUME TypeInv, HistoryInv, NEW w \in Writers, Install(w)
    PROVE  B!Next
<1> DEFINE b == InstallAt(w)
<1> USE DEF TypeInv, TypeOK
<1>1. /\ theirs[w] \in known /\ b \in Branches
      /\ head[b] = exp[w] /\ head' = [head EXCEPT ![b] = theirs[w]]
    BY DEF Install, HistoryInv, KnownInv, InstallAt, HandleOK
<1>2. known' = known /\ anc' = anc
    BY <1>1 DEF Install, hashVars
<1>3. theirs[w] \in B!Known /\ UNCHANGED Published
    BY <1>1, <1>2, PublishedKnown DEF Published
<1>4. CASE exp[w] = None
    <2>1. B!Create(b)
        BY <1>1, <1>3, <1>4 DEF B!Create, Published
    <2> QED
        BY <1>1, <2>1 DEF B!Next
<1>5. CASE exp[w] # None /\ op[w] = "reset"
    <2>1. "reset" \in Ops
        BY <1>5 DEF HandleOK
    <2>2. B!Reset(b)
        BY <1>1, <1>3, <1>5, <2>1 DEF B!Reset, Published
    <2> QED
        BY <1>1, <2>2 DEF B!Next
<1>6. CASE exp[w] # None /\ op[w] = "merge"
    <2>1. head[b] \in anc[theirs[w]]
        BY <1>1, <1>6 DEF Install, HistoryInv, FlightInv, HandleInv
    <2>2. head[b] \in Published[theirs[w]]
        BY <1>1, <2>1, PublishedKnown
    <2>3. B!FastForward(b)
        BY <1>1, <1>3, <1>6, <2>2 DEF B!FastForward, Published
    <2> QED
        BY <1>1, <2>3 DEF B!Next
<1> QED
    BY <1>4, <1>5, <1>6 DEF Install, HistoryInv, FlightInv, HandleInv

LEMMA DeleteBranches ==
    ASSUME TypeInv, HistoryInv, NEW w \in Writers, DeleteBranch(w)
    PROVE  B!Next
<1>1. PICK b \in Branches : head[b] # None /\ head' = [head EXCEPT ![b] = None]
    BY DEF DeleteBranch
<1>2. UNCHANGED Published
    BY DEF DeleteBranch, Published, hashVars, ghostVars
<1>3. B!Delete(b)
    BY <1>1, <1>2 DEF B!Delete, Published
<1> QED
    BY <1>3 DEF B!Next

LEMMA NextBranches ==
    ASSUME TypeInv, HistoryInv, [Next]_vars
    PROVE  [B!Next]_(B!vars)
<1>1. ASSUME NEW w \in Writers, Land(w) PROVE UNCHANGED B!vars
    <2>1. minted + 1 \notin known
        BY DEF HistoryInv, HashInv, TypeInv, TypeOK, HashOK, Commit
    <2>2. UNCHANGED <<head, known>> /\ \A c \in known : anc'[c] = anc[c]
        BY <1>1, <2>1 DEF Land, ghostVars, TypeInv, TypeOK, HashOK
    <2> QED
        BY <2>2, StutterBranches
<1>2. ASSUME NEW w \in Writers, Publish(w) PROVE B!Next
    <2>1. PICK b \in Branches : b = br[w]
        BY DEF TypeInv, TypeOK, HandleOK
    <2>2. TypeInv'
        BY NextType
    <2>3. B!Advance(b)
        BY <1>2, <2>1, <2>2, PublishBranches
    <2> QED
        BY <2>3 DEF B!Next
<1>3. (UNCHANGED <<head, known, anc>>) => UNCHANGED B!vars
    BY StutterBranches
<1>4. ASSUME NEW w \in Writers, Call(w), ~DeleteBranch(w) PROVE UNCHANGED B!vars
    BY <1>3, <1>4 DEF Call, BeginCommit, BeginMerge, BeginReset, BeginCreate, Begin, Attach,
                      storeVars, hashVars, ghostVars
<1>5. ASSUME NEW w \in Writers, NEW left, GiveUp(w, left) PROVE UNCHANGED B!vars
    BY <1>3, <1>5 DEF GiveUp, hashVars
<1>6. ASSUME NEW w \in Writers, Step(w), ~Land(w), ~Publish(w), ~Install(w) PROVE UNCHANGED B!vars
    BY <1>3, <1>5, <1>6
    DEF Step, Build, Wait, LandAgain, PublishAgain, LostRace, LostCommit, MergeRefused, MergeNoOp,
        Resolve, FastForward, Check, CheckFails, InstallAgain, InstallFails, Refuse,
        storeVars, hashVars, ghostVars
<1>7. Sweep \/ SweepDies \/ LeaseLapses \/ MarkerLapses \/ UNCHANGED vars => UNCHANGED B!vars
    BY <1>3 DEF Sweep, SweepStart, ReadMarkers, Visit, ReadHead, Collect, Remove, Release, SweepDies,
                LeaseLapses, MarkerLapses, vars, storeVars, hashVars, ghostVars
<1> QED
    BY <1>1, <1>2, <1>4, <1>5, <1>6, <1>7, InstallBranches, DeleteBranches DEF Next, Crash

\* The commit protocol implements atomic branches: whatever races it, a
\* branch loses no commit but to a reset, and history is never rewritten.
THEOREM ImplementsBranches == Spec => AtomicBranches
<1>1. TypeInv /\ HistoryInv /\ [Next]_vars => [B!Next]_(B!vars)
    BY NextBranches
<1> QED
    BY <1>1, InitBranches, HistoryCorrect, PTL DEF Spec, AtomicBranches, B!Spec

\* The same from any store that is in order, whatever history it has already:
\* every step of any behaviour from there moves each branch in one step of
\* KvBranches, or moves none.
THEOREM MovesAreAtomic == TypeInv /\ HistoryInv /\ [][Next]_vars => AtomicMoves
<1>1. TypeInv /\ HistoryInv /\ [Next]_vars => (TypeInv /\ HistoryInv)'
    BY NextType, NextHistory
<1>2. TypeInv /\ HistoryInv /\ [Next]_vars => [B!Next]_(B!vars)
    BY NextBranches
<1> QED
    BY <1>1, <1>2, PTL DEF AtomicMoves

-----------------------------------------------------------------------------
(* The backup beside a head.                                               *)

BackupMoves == \A b \in Branches :
    head'[b] # head[b] => prev'[b] = IF head'[b] = None THEN None ELSE head[b]

LEMMA StepBacksUp ==
    ASSUME TypeInv, [Next]_vars
    PROVE  BackupMoves
<1> USE DEF TypeInv, TypeOK, BackupMoves
<1>1. ASSUME UNCHANGED head PROVE BackupMoves
    BY <1>1
<1>2. ASSUME NEW b \in Branches, NEW c, c # None, NEW old, head[b] = old,
             head' = [head EXCEPT ![b] = c], prev' = [prev EXCEPT ![b] = old]
      PROVE  BackupMoves
    BY <1>2 DEF StoreOK
<1>3. ASSUME NEW w \in Writers, Publish(w) PROVE BackupMoves
    <2>1. br[w] \in Branches /\ NewHead(w) # None
        BY <1>3 DEF Publish, HandleOK, TargetsOK
    <2>2. /\ head[br[w]] = Expected(w) /\ head' = [head EXCEPT ![br[w]] = NewHead(w)]
          /\ prev' = [prev EXCEPT ![br[w]] = Expected(w)]
        BY <1>3 DEF Publish, CanPublish
    <2> QED
        BY <1>2, <2>1, <2>2
<1>4. ASSUME NEW w \in Writers, Install(w) PROVE BackupMoves
    <2>1. InstallAt(w) \in Branches /\ theirs[w] # None
        BY <1>4 DEF Install, InstallAt, HandleOK, TargetsOK
    <2>2. /\ head[InstallAt(w)] = exp[w] /\ head' = [head EXCEPT ![InstallAt(w)] = theirs[w]]
          /\ prev' = [prev EXCEPT ![InstallAt(w)] = exp[w]]
        BY <1>4 DEF Install
    <2> QED
        BY <1>2, <2>1, <2>2
<1>5. ASSUME NEW w \in Writers, DeleteBranch(w) PROVE BackupMoves
    <2>1. PICK b \in Branches :
              head' = [head EXCEPT ![b] = None] /\ prev' = [prev EXCEPT ![b] = None]
        BY <1>5 DEF DeleteBranch
    <2> QED
        BY <2>1 DEF StoreOK
<1>6. ASSUME NEW w \in Writers, Call(w), ~DeleteBranch(w) PROVE BackupMoves
    BY <1>1, <1>6 DEF Call, BeginCommit, BeginMerge, BeginReset, BeginCreate, Begin, Attach, storeVars
<1>7. ASSUME NEW w \in Writers, NEW left, GiveUp(w, left) PROVE BackupMoves
    BY <1>1, <1>7 DEF GiveUp
<1>8. ASSUME NEW w \in Writers, Step(w), ~Publish(w), ~Install(w) PROVE BackupMoves
    BY <1>1, <1>7, <1>8
    DEF Step, Build, Wait, Land, LandAgain, PublishAgain, LostRace, LostCommit, MergeRefused,
        MergeNoOp, Resolve, FastForward, Check, CheckFails, InstallAgain, InstallFails, Refuse,
        storeVars
<1>9. ASSUME Sweep \/ SweepDies \/ LeaseLapses \/ MarkerLapses \/ UNCHANGED vars PROVE BackupMoves
    BY <1>1, <1>9 DEF Sweep, SweepStart, ReadMarkers, Visit, ReadHead, Collect, Remove, Release,
                      SweepDies, LeaseLapses, MarkerLapses, vars, storeVars
<1> QED
    BY <1>3, <1>4, <1>5, <1>6, <1>7, <1>8, <1>9 DEF Next, Crash

\* HEAD and its backup move in one write, so a damaged head can be put back:
\* whoever moves it, and whatever raced, the backup is the head just before;
\* it goes with its branch, and a new branch has none.
THEOREM BackupIsLastHead == Spec => BackupFollows
<1>1. TypeInv /\ [Next]_vars => [BackupMoves]_vars
    BY StepBacksUp
<1> QED
    BY <1>1, InitType, NextType, PTL DEF Spec, BackupFollows, BackupMoves

-----------------------------------------------------------------------------
(* What a sweep keeps.  First, that it takes nothing of a head's history:   *)
(* for sweeps that do not outlast their lease and spare no young orphans,   *)
(* with nobody resetting or deleting a branch that is being merged          *)
(* elsewhere.  The run gc_unpinned shows that it fails without the last,    *)
(* and README.md how it fails without the second.                           *)
(* Then what is left when a sweep may spare young orphans (its minAge),     *)
(* which is the default: the commits in flight, always; and the commit a    *)
(* head names, as long as handles refuse a moved head instead of merging.   *)


\* No overrun, no young orphans spared, no unpinned merge source.
Quiet == Overrun = FALSE /\ KeepYoung = FALSE /\ PinSources = TRUE

-----------------------------------------------------------------------------
(* The inductive invariant.                                                *)

\* A commit in flight is stored, and lacks only what its parents lack.
MarkInv == \A c \in Commit : marker[c] # "none" =>
    c \in stored /\ tree[c] \ items \subseteq UNION {tree[p] : p \in parents[c]}

\* A published commit that is stored is whole, with its whole history.
KnownIntact == \A c \in known \cap stored : \A a \in anc[c] : Intact(a)

HeadsStored == \A b \in Branches : head[b] # None => head[b] \in stored

\* What a batch does not put, its parents refer to.
DraftOK(w) == pc[w] \in {"wait", "land"} =>
    draft[w].tree \ draft[w].put \subseteq UNION {tree[p] : p \in draft[w].parents}

\* A merge that found a common ancestor can count on the base of our side,
\* as long as our side keeps its marker.
MergeOK(w) ==
    ours[w] # None /\ marker[ours[w]] # "none" /\ (merged[w] # None \/ pc[w] \in {"wait", "land"})
        => base[w] \in anc[theirs[w]] \/ base[w] \in stored

\* A branch being merged elsewhere keeps what is merged.
PinOK(w) == op[w] = "merge" =>
    tb[w] # br[w] /\ head[tb[w]] # None /\ theirs[w] \in anc[head[tb[w]]]

\* What was found installable stays so until the lease moves; and no lease
\* record was seen released before it was.
InstallOK(w) ==
    /\ pc[w] = "install" /\ seen[w] = lease => Installable(w)
    /\ seen[w].owner = lease.owner /\ seen[w].released => lease.released

HandlesIntact ==
    /\ lease.owner = 0 => lease.released
    /\ \A w \in Writers : DraftOK(w) /\ MergeOK(w) /\ PinOK(w) /\ InstallOK(w)

\* The sweep's roots: each is found, or still to be read.
RootsMarked ==
    /\ \A c \in Commit : marker[c] # "none" => c \in gray \cup black \cup stale
    /\ \A b \in Branches \ todo : head[b] \in {None} \cup gray \cup black

\* What is visited is followed to its parents, and a history that is all
\* there is visited or reached by a commit of it that is still to be visited.
HistoryMarked ==
    /\ gray \cap black = {}
    /\ \A c \in black \cap stored : parents[c] \subseteq gray \cup black /\ tree[c] \subseteq keep
    /\ \A c \in black : anc[c] \subseteq stored =>
        \A a \in anc[c] : a \in black \/ \E g \in gray \cap anc[c] : a \in anc[g]

MarksInv ==
    /\ phase \in {"off", "markers", "release"} => gray = {} /\ black = {} /\ keep = {}
    /\ phase = "markers" => todo = Branches
    /\ phase \in {"markers", "heads"} => cut = minted + 1
    /\ phase \in {"heads", "remove"} => RootsMarked /\ HistoryMarked
    /\ phase = "remove" =>
        gray = {} /\ todo = {} /\ gone = stored \ black /\ goneItems \cap keep = {}

IntactInv == MarkInv /\ KnownIntact /\ HeadsStored /\ HandlesIntact /\ MarksInv

LEMMA InitIntact == Init => IntactInv
<1> SUFFICES ASSUME Init PROVE IntactInv
    OBVIOUS
<1> USE BoundsAssumption DEF Init, Commit, None, Root
<1>1. MarkInv /\ KnownIntact /\ HeadsStored
    BY DEF MarkInv, KnownIntact, HeadsStored, Intact
<1>2. HandlesIntact
    <2>1. lease.owner = 0 /\ lease.released
        OBVIOUS
    <2>2. \A w \in Writers : pc[w] = "idle" /\ op[w] = "none" /\ ours[w] = None
        OBVIOUS
    <2> QED
        BY <2>1, <2>2 DEF HandlesIntact, DraftOK, MergeOK, PinOK, InstallOK
<1>3. MarksInv
    BY DEF MarksInv
<1> QED
    BY <1>1, <1>2, <1>3 DEF IntactInv

-----------------------------------------------------------------------------
(* Frames.                                                                 *)

\* What another handle relies on, when histories only grow, nothing is
\* removed and the head it is merging keeps what it merges.
LEMMA OthersIntact ==
    ASSUME TypeInv, HistoryInv, IntactInv, NEW v \in Writers,
           pc'[v] = pc[v], op'[v] = op[v], br'[v] = br[v], tb'[v] = tb[v], base'[v] = base[v],
           ours'[v] = ours[v], merged'[v] = merged[v], theirs'[v] = theirs[v],
           draft'[v] = draft[v], seen'[v] = seen[v], lease' = lease,
           \A c \in 1 .. minted : /\ anc'[c] = anc[c] /\ tree'[c] = tree[c]
                                  /\ marker[c] = "none" => marker'[c] = "none",
           stored \subseteq stored',
           op[v] = "merge" => head'[tb[v]] # None /\ theirs[v] \in anc'[head'[tb[v]]]
    PROVE  (DraftOK(v) /\ MergeOK(v) /\ PinOK(v) /\ InstallOK(v))'
<1> USE DEF TypeInv, TypeOK, HandleOK, HashOK
<1>1. /\ DraftOK(v) /\ MergeOK(v) /\ PinOK(v) /\ InstallOK(v)
      /\ HandleInv(v) /\ InFlight(v) \subseteq 1 .. minted
      /\ base[v] \in 1 .. minted /\ (pc[v] # "idle" => theirs[v] \in 1 .. minted)
    <2>1. DraftOK(v) /\ MergeOK(v) /\ PinOK(v) /\ InstallOK(v)
        BY DEF IntactInv, HandlesIntact
    <2>2. HandleInv(v) /\ InFlight(v) \subseteq 1 .. minted
        BY DEF HistoryInv, FlightInv
    <2>3. base[v] \in 1 .. minted /\ (pc[v] # "idle" => theirs[v] \in 1 .. minted)
        <3>1. known \subseteq 1 .. minted
            BY DEF HistoryInv, HashInv
        <3> QED
            BY <3>1 DEF HistoryInv, KnownInv
    <2> QED
        BY <2>1, <2>2, <2>3
<1>2. DraftOK(v)'
    <2>1. pc[v] \in {"wait", "land"} => draft[v].parents \subseteq 1 .. minted
        BY <1>1 DEF HandleInv, OurSide, InFlight
    <2> QED
        BY <1>1, <2>1 DEF DraftOK
<1>3. MergeOK(v)'
    <2>1. ours[v] # None => ours[v] \in 1 .. minted /\ pc[v] # "idle"
        BY <1>1 DEF InFlight, HandleInv
    <2> QED
        BY <1>1, <2>1 DEF MergeOK
<1>4. PinOK(v)'
    BY <1>1 DEF PinOK
<1>5. InstallOK(v)'
    BY <1>1 DEF InstallOK, Installable
<1> QED
    BY <1>2, <1>3, <1>4, <1>5

\* A step that writes one handle's locals.
LEMMA LocalIntact ==
    ASSUME TypeInv, HistoryInv, IntactInv, NEW w \in Writers,
           UNCHANGED <<storeVars, leaseVars, hashVars, ghostVars, sweepVars>>,
           \A v \in Writers \ {w} :
               /\ pc'[v] = pc[v] /\ op'[v] = op[v] /\ br'[v] = br[v] /\ tb'[v] = tb[v]
               /\ base'[v] = base[v] /\ ours'[v] = ours[v] /\ merged'[v] = merged[v]
               /\ theirs'[v] = theirs[v] /\ draft'[v] = draft[v] /\ seen'[v] = seen[v],
           (DraftOK(w) /\ MergeOK(w) /\ PinOK(w) /\ InstallOK(w))'
    PROVE  IntactInv'
<1> USE DEF storeVars, leaseVars, hashVars, ghostVars, sweepVars
<1>1. MarkInv' /\ KnownIntact' /\ HeadsStored'
    BY DEF IntactInv, MarkInv, KnownIntact, HeadsStored, Intact
<1>2. MarksInv'
    BY DEF IntactInv, MarksInv, RootsMarked, HistoryMarked
<1>3. ASSUME NEW v \in Writers \ {w} PROVE (DraftOK(v) /\ MergeOK(v) /\ PinOK(v) /\ InstallOK(v))'
    <2>1. op[v] = "merge" => head'[tb[v]] # None /\ theirs[v] \in anc'[head'[tb[v]]]
        BY DEF IntactInv, HandlesIntact, PinOK
    <2> QED
        BY <2>1, OthersIntact
<1>4. HandlesIntact'
    BY <1>3 DEF IntactInv, HandlesIntact
<1> QED
    BY <1>1, <1>2, <1>4 DEF IntactInv

\* A call that returns relies on nothing.
LEMMA ReturnIntact ==
    ASSUME TypeInv, IntactInv, NEW w \in Writers, NEW b, NEW c, Return(w, b, c), UNCHANGED lease
    PROVE  (DraftOK(w) /\ MergeOK(w) /\ PinOK(w) /\ InstallOK(w))'
<1> USE DEF TypeInv, TypeOK, HandleOK, Return, Goto
<1>1. pc'[w] = "idle" /\ op'[w] = "none" /\ ours'[w] = None
    OBVIOUS
<1>2. seen'[w].owner = 0
    OBVIOUS
<1> QED
    BY <1>1, <1>2 DEF DraftOK, MergeOK, PinOK, InstallOK, IntactInv, HandlesIntact

-----------------------------------------------------------------------------
(* A handle's local steps.                                                 *)

\* The ancestor a merge found: if our base is gone, it is the base itself,
\* and then it is in the other side's history.
LEMMA MergeBase ==
    ASSUME TypeInv, HistoryInv, NEW w \in Writers, pc[w] = "ancestor", ours[w] # None,
           HasMergeBase(OurSide(w), theirs[w])
    PROVE  base[w] \in anc[theirs[w]] \/ base[w] \in stored
<1> USE DEF TypeInv, TypeOK, HandleOK, HashOK
<1>1. /\ OurSide(w) = ours[w] /\ ours[w] \in Commit /\ ours[w] \notin known
      /\ base[w] \in Commit /\ theirs[w] \in known /\ theirs[w] \in Commit
      /\ anc[theirs[w]] \subseteq known
    BY DEF HistoryInv, FlightInv, KnownInv, OurSide, InFlight
<1>2. parents[ours[w]] = {base[w]}
    BY DEF HistoryInv, FlightInv, HandleInv
<1>3. PICK a \in Walk(ours[w]) : a \in Walk(theirs[w])
    BY <1>1 DEF HasMergeBase
<1>4. a \in anc[theirs[w]]
    BY <1>1, <1>3, WalkInHistory
<1> SUFFICES ASSUME base[w] \notin stored PROVE base[w] \in anc[theirs[w]]
    OBVIOUS
<1>5. {ours[w], base[w]} \in SUBSET Commit
    BY <1>1
<1>6. \A x \in {ours[w], base[w]} : ParentsOf(x) \subseteq {ours[w], base[w]}
    BY <1>2 DEF ParentsOf
<1>7. a \in {ours[w], base[w]}
    BY <1>3, <1>5, <1>6 DEF Walk
<1> QED
    BY <1>1, <1>4, <1>7

LEMMA CallIntact ==
    ASSUME Quiet, TypeInv, HistoryInv, IntactInv, NEW w \in Writers, Call(w)
    PROVE  IntactInv'
<1> USE DEF TypeInv, TypeOK, HandleOK
<1>1. ASSUME NEW o, NEW label \in {"build", "ancestor", "claim"}, NEW b \in Branches, NEW c \in Commit,
             Begin(w, o, label, b, c), o = "merge" => b # br[w] /\ head[b] = c /\ c \in stored
      PROVE  IntactInv'
    <2> USE <1>1 DEF Begin, Goto
    <2>1. ours[w] = None /\ merged[w] = None
        BY DEF HistoryInv, FlightInv, HandleInv, InFlight
    <2>2. DraftOK(w)' /\ MergeOK(w)'
        BY <2>1 DEF DraftOK, MergeOK
    <2>3. PinOK(w)'
        BY DEF PinOK, HistoryInv, HashInv, storeVars, hashVars, Commit, None
    <2>4. InstallOK(w)'
        BY DEF InstallOK, leaseVars, IntactInv, HandlesIntact
    <2> QED
        BY <2>2, <2>3, <2>4, LocalIntact
<1>2. CASE BeginCommit(w)
    <2>1. br[w] \in Branches /\ base[w] \in Commit /\ head[br[w]] \in Commit
        BY <1>2 DEF BeginCommit, StoreOK
    <2> QED
        BY <1>1, <1>2, <2>1 DEF BeginCommit
<1>3. CASE BeginMerge(w)
    <2>1. PICK b \in Branches \ {br[w]} :
              head[b] \in stored /\ Begin(w, "merge", "ancestor", b, head[b])
        BY <1>3 DEF BeginMerge
    <2> QED
        BY <1>1, <2>1 DEF StoreOK
<1>4. CASE BeginReset(w)
    <2>1. PICK c \in known : Begin(w, "reset", "claim", br[w], c)
        BY <1>4 DEF BeginReset
    <2>2. br[w] \in Branches /\ c \in Commit
        BY DEF HashOK
    <2> QED
        BY <1>1, <2>1, <2>2
<1>5. CASE BeginCreate(w)
    <2>1. PICK b \in Branches, c \in known : Begin(w, "create", "claim", b, c)
        BY <1>5 DEF BeginCreate
    <2> QED
        BY <1>1, <2>1 DEF HashOK
<1>6. CASE Attach(w)
    <2>1. PICK b \in Branches : Return(w, b, head[b])
        BY <1>6 DEF Attach
    <2> USE <1>6 DEF Attach
    <2>2. (DraftOK(w) /\ MergeOK(w) /\ PinOK(w) /\ InstallOK(w))'
        BY <2>1, ReturnIntact DEF leaseVars
    <2>3. \A v \in Writers \ {w} :
               /\ pc'[v] = pc[v] /\ op'[v] = op[v] /\ br'[v] = br[v] /\ tb'[v] = tb[v]
               /\ base'[v] = base[v] /\ ours'[v] = ours[v] /\ merged'[v] = merged[v]
               /\ theirs'[v] = theirs[v] /\ draft'[v] = draft[v] /\ seen'[v] = seen[v]
        BY <2>1 DEF Return, Goto
    <2> QED
        BY <2>2, <2>3, LocalIntact
<1>7. CASE DeleteBranch(w)
    <2>1. PICK b \in Branches \ {br[w]} : ~Pinned(b) /\ head' = [head EXCEPT ![b] = None]
        BY <1>7 DEF DeleteBranch
    <2> USE <1>7 DEF DeleteBranch, leaseVars, hashVars, ghostVars, sweepVars, writerVars
    <2>2. MarkInv' /\ KnownIntact' /\ HeadsStored'
        BY <2>1 DEF IntactInv, MarkInv, KnownIntact, HeadsStored, Intact, StoreOK
    <2>3. MarksInv'
        <3>1. \A x \in Branches : head'[x] \in {None, head[x]}
            BY <2>1 DEF StoreOK
        <3> QED
            BY <3>1 DEF IntactInv, MarksInv, RootsMarked, HistoryMarked
    <2>4. ASSUME NEW v \in Writers PROVE (DraftOK(v) /\ MergeOK(v) /\ PinOK(v) /\ InstallOK(v))'
        <3>1. op[v] = "merge" => tb[v] # b
            BY <2>1 DEF Pinned, Quiet
        <3>2. op[v] = "merge" => head'[tb[v]] # None /\ theirs[v] \in anc'[head'[tb[v]]]
            BY <2>1, <3>1 DEF IntactInv, HandlesIntact, PinOK, StoreOK
        <3> QED
            BY <3>2, OthersIntact
    <2>5. HandlesIntact'
        BY <2>4 DEF IntactInv, HandlesIntact
    <2> QED
        BY <2>2, <2>3, <2>5 DEF IntactInv
<1> QED
    BY <1>2, <1>3, <1>4, <1>5, <1>6, <1>7 DEF Call

\* The steps of a call that write nothing to the store.
LEMMA LocalStepIntact ==
    ASSUME TypeInv, HistoryInv, IntactInv, NEW w \in Writers,
           \/ Build(w) \/ Wait(w) \/ LandAgain(w) \/ PublishAgain(w) \/ LostRace(w) \/ Resolve(w)
           \/ FastForward(w) \/ Check(w) \/ InstallAgain(w)
    PROVE  IntactInv'
<1> USE DEF TypeInv, TypeOK, HandleOK, Goto
<1>0. DraftOK(w) /\ MergeOK(w) /\ PinOK(w) /\ InstallOK(w) /\ HandleInv(w)
    BY DEF IntactInv, HandlesIntact, HistoryInv, FlightInv
<1> DEFINE OnlyHandle ==
        /\ UNCHANGED <<storeVars, leaseVars, hashVars, ghostVars, sweepVars, br, tb, base, ours, merged, op>>
        /\ \A v \in Writers \ {w} : /\ pc'[v] = pc[v] /\ theirs'[v] = theirs[v]
                                    /\ draft'[v] = draft[v] /\ seen'[v] = seen[v]
<1>1. ASSUME OnlyHandle, (DraftOK(w) /\ MergeOK(w) /\ PinOK(w) /\ InstallOK(w))' PROVE IntactInv'
    BY <1>1, LocalIntact
<1> USE DEF storeVars, leaseVars, hashVars, ghostVars, sweepVars
<1>2. CASE Build(w)
    <2>1. draft'[w].tree \ draft'[w].put \subseteq tree[base[w]] /\ draft'[w].parents = {base[w]}
        BY <1>2 DEF Build, TreeOf
    <2>2. DraftOK(w)'
        BY <1>2, <2>1 DEF DraftOK, Build
    <2>3. ours[w] = None
        BY <1>0, <1>2 DEF Build, HandleInv, InFlight
    <2>4. (MergeOK(w) /\ PinOK(w) /\ InstallOK(w))'
        BY <1>0, <1>2, <2>3 DEF Build, MergeOK, PinOK, InstallOK
    <2> QED
        BY <1>1, <1>2, <2>2, <2>4 DEF Build
<1>3. CASE Wait(w)
    <2>1. (DraftOK(w) /\ MergeOK(w) /\ PinOK(w))'
        BY <1>0, <1>3 DEF Wait, DraftOK, MergeOK, PinOK
    <2>2. InstallOK(w)'
        BY <1>3 DEF Wait, InstallOK
    <2> QED
        BY <1>1, <1>3, <2>1, <2>2 DEF Wait
<1>4. CASE LandAgain(w) \/ PublishAgain(w) \/ InstallAgain(w) \/ FastForward(w)
    <2>1. /\ OnlyHandle /\ UNCHANGED <<theirs, draft, seen>>
          /\ \/ pc[w] = "land" /\ pc'[w] = "wait"
             \/ pc[w] = "publish" /\ pc'[w] = "rewait"
             \/ pc[w] \in {"install", "ancestor"} /\ pc'[w] = "claim"
        BY <1>4 DEF LandAgain, PublishAgain, InstallAgain, FastForward
    <2>2. (DraftOK(w) /\ MergeOK(w) /\ PinOK(w) /\ InstallOK(w))'
        BY <1>0, <2>1 DEF DraftOK, MergeOK, PinOK, InstallOK
    <2> QED
        BY <1>1, <2>1, <2>2
<1>5. CASE LostRace(w)
    <2>1. (DraftOK(w) /\ MergeOK(w) /\ PinOK(w) /\ InstallOK(w))'
        BY <1>0, <1>5 DEF LostRace, LostPublish, DraftOK, MergeOK, PinOK, InstallOK
    <2> QED
        BY <1>1, <1>5, <2>1 DEF LostRace
<1>6. CASE Resolve(w)
    <2>1. /\ draft'[w].tree \ draft'[w].put \subseteq tree[OurSide(w)] \cup tree[theirs[w]]
          /\ draft'[w].parents = {OurSide(w), theirs[w]}
        BY <1>6 DEF Resolve, TreeOf
    <2>2. DraftOK(w)'
        BY <1>6, <2>1 DEF DraftOK, Resolve
    <2>3. MergeOK(w)'
        BY <1>6, MergeBase DEF MergeOK, Resolve
    <2>4. (PinOK(w) /\ InstallOK(w))'
        BY <1>0, <1>6 DEF Resolve, PinOK, InstallOK
    <2> QED
        BY <1>1, <1>6, <2>2, <2>3, <2>4 DEF Resolve
<1>7. CASE Check(w)
    <2>1. (DraftOK(w) /\ MergeOK(w) /\ PinOK(w))'
        BY <1>0, <1>7 DEF Check, DraftOK, MergeOK, PinOK
    <2>2. InstallOK(w)'
        BY <1>0, <1>7 DEF Check, InstallOK, Installable
    <2> QED
        BY <1>1, <1>7, <2>1, <2>2 DEF Check
<1> QED
    BY <1>2, <1>3, <1>4, <1>5, <1>6, <1>7

-----------------------------------------------------------------------------
(* The steps of a call that write to the store.                            *)

\* No write lands while a sweep runs.
LEMMA WritesWhenOff ==
    ASSUME LeaseInv, NEW w \in Writers, seen[w] = lease, pc[w] \in {"land", "publish", "install"}
    PROVE  phase = "off"
BY DEF LeaseInv, HandleLease

LEMMA LandIntact ==
    ASSUME TypeInv, HistoryInv, LeaseInv, IntactInv, NEW w \in Writers, Land(w)
    PROVE  IntactInv'
<1> DEFINE c == minted + 1
           d == draft[w]
<1> USE DEF TypeInv, TypeOK, HashOK, HandleOK
<1>1. /\ c \in Commit /\ c \notin 1 .. minted /\ phase = "off"
      /\ parents' = [parents EXCEPT ![c] = d.parents] /\ tree' = [tree EXCEPT ![c] = d.tree]
      /\ stored' = stored \cup {c} /\ items' = items \cup d.put
      /\ marker' = [marker EXCEPT ![c] = "live"]
      /\ UNCHANGED <<head, known, dropped, lease, sweepVars, op, br, tb, base, theirs, seen>>
    BY WritesWhenOff, BoundsAssumption DEF Land, Commit, leaseVars, ghostVars
<1>2. \A x \in Commit \ {c} :
          parents'[x] = parents[x] /\ tree'[x] = tree[x] /\ anc'[x] = anc[x] /\ marker'[x] = marker[x]
    BY DEF Land, StoreOK
<1>3. parents'[c] = d.parents /\ tree'[c] = d.tree
    BY <1>1
<1>4. known \subseteq 1 .. minted /\ stored \subseteq 1 .. minted
    BY DEF HistoryInv, HashInv
<1>5. \A x \in 1 .. minted : x \in Commit \ {c} /\ anc[x] \subseteq 1 .. minted /\ parents[x] \subseteq 1 .. minted
    <2>1. \A x \in 1 .. minted : x \in Commit /\ 1 .. x \subseteq 1 .. minted /\ 1 .. (x - 1) \subseteq 1 .. minted
        BY BoundsAssumption DEF Commit
    <2>2. \A x \in 1 .. minted : anc[x] \subseteq 1 .. x /\ parents[x] \subseteq 1 .. (x - 1)
        BY <2>1 DEF HistoryInv, HashInv
    <2> QED
        BY <1>1, <2>1, <2>2
<1>6. d.parents \subseteq 1 .. minted /\ d.tree \ d.put \subseteq UNION {tree[p] : p \in d.parents}
    <2>1. HandleInv(w) /\ InFlight(w) \subseteq 1 .. minted /\ base[w] \in known /\ theirs[w] \in known
        BY DEF Land, HistoryInv, FlightInv, KnownInv
    <2>2. d.parents \subseteq 1 .. minted
        <3>1. d.parents \subseteq {base[w], OurSide(w), theirs[w]}
            BY <2>1 DEF Land, HandleInv
        <3>2. {base[w], OurSide(w), theirs[w]} \subseteq 1 .. minted
            BY <1>4, <2>1 DEF OurSide, InFlight
        <3> QED
            BY <3>1, <3>2
    <2>3. d.tree \ d.put \subseteq UNION {tree[p] : p \in d.parents}
        BY DEF Land, IntactInv, HandlesIntact, DraftOK
    <2> QED
        BY <2>2, <2>3
<1>7. MarkInv'
    <2> SUFFICES ASSUME NEW x \in Commit, marker'[x] # "none"
                 PROVE  x \in stored' /\ \A i \in tree'[x] \ items' : \E p \in parents'[x] : i \in tree'[p]
        BY DEF MarkInv
    <2>1. CASE x = c
        <3>1. \A p \in d.parents : tree'[p] = tree[p]
            BY <1>2, <1>5, <1>6
        <3> QED
            BY <1>1, <1>3, <1>6, <2>1, <3>1
    <2>2. CASE x # c
        <3>1. marker[x] # "none" /\ x \in 1 .. minted
            BY <1>2, <2>2 DEF HistoryInv, HashInv, Commit
        <3>2. \A p \in parents[x] : tree'[p] = tree[p]
            BY <1>2, <1>5, <3>1
        <3> QED
            BY <1>1, <1>2, <2>2, <3>1, <3>2 DEF IntactInv, MarkInv
    <2> QED
        BY <2>1, <2>2
<1>8. KnownIntact'
    <2> SUFFICES ASSUME NEW x \in known' \cap stored', NEW a \in anc'[x] PROVE Intact(a)'
        BY DEF KnownIntact
    <2>1. x \in known \cap stored /\ x \in 1 .. minted
        BY <1>1, <1>4
    <2>2. a \in 1 .. minted /\ a \in anc[x]
        BY <1>2, <1>5, <2>1
    <2> QED
        BY <1>1, <1>2, <1>5, <2>1, <2>2 DEF IntactInv, KnownIntact, Intact
<1>9. HeadsStored'
    BY <1>1 DEF IntactInv, HeadsStored
<1>10. MarksInv'
    BY <1>1 DEF IntactInv, MarksInv, sweepVars
<1>11. /\ op[w] = "merge" => head[tb[w]] \in 1 .. minted
       /\ DraftOK(w) /\ MergeOK(w) /\ PinOK(w) /\ InstallOK(w) /\ HandleInv(w)
    BY <1>4 DEF IntactInv, HandlesIntact, PinOK, HistoryInv, KnownInv, FlightInv
<1>12. (DraftOK(w) /\ MergeOK(w) /\ PinOK(w) /\ InstallOK(w))'
    <2>1. pc'[w] \in {"ancestor", "publish"}
        BY DEF Land, Goto
    <2>2. DraftOK(w)' /\ InstallOK(w)'
        BY <1>1, <1>11, <2>1 DEF DraftOK, InstallOK
    <2>3. PinOK(w)'
        BY <1>1, <1>2, <1>5, <1>11 DEF PinOK
    <2>4. MergeOK(w)'
        <3>1. CASE ours[w] = None /\ op[w] # "merge"
            BY <1>11, <2>1, <3>1 DEF Land, HandleInv, MergeOK
        <3>2. CASE ~(ours[w] = None /\ op[w] # "merge")
            <4>1. ours' = ours /\ pc[w] = "land"
                BY <3>2 DEF Land
            <4>2. ours[w] # None => marker'[ours[w]] = marker[ours[w]]
                BY <1>2, <1>5 DEF HistoryInv, FlightInv, InFlight
            <4>3. anc'[theirs[w]] = anc[theirs[w]]
                BY <1>2, <1>4, <1>5, <4>1 DEF HistoryInv, KnownInv
            <4> QED
                BY <1>1, <1>11, <4>1, <4>2, <4>3 DEF MergeOK
        <3> QED
            BY <3>1, <3>2
    <2> QED
        BY <2>2, <2>3, <2>4
<1>13. ASSUME NEW v \in Writers \ {w} PROVE (DraftOK(v) /\ MergeOK(v) /\ PinOK(v) /\ InstallOK(v))'
    <2>1. /\ pc'[v] = pc[v] /\ ours'[v] = ours[v] /\ merged'[v] = merged[v] /\ draft'[v] = draft[v]
        BY DEF Land, Goto
    <2>2. op[v] = "merge" => head[tb[v]] # None /\ theirs[v] \in anc[head[tb[v]]]
        BY DEF IntactInv, HandlesIntact, PinOK
    <2>3. op[v] = "merge" => head'[tb[v]] # None /\ theirs[v] \in anc'[head'[tb[v]]]
        BY <1>1, <1>2, <1>4, <1>5, <2>2 DEF HistoryInv, KnownInv
    <2> QED
        BY <1>1, <1>2, <1>5, <2>1, <2>3, OthersIntact
<1>14. HandlesIntact'
    BY <1>1, <1>12, <1>13 DEF IntactInv, HandlesIntact
<1> QED
    BY <1>7, <1>8, <1>9, <1>10, <1>14 DEF IntactInv

\* What a publish that finds its markers publishes is whole.
LEMMA PublishedIntact ==
    ASSUME TypeInv, HistoryInv, IntactInv, NEW w \in Writers, pc[w] = "publish", CanPublish(w)
    PROVE  \A a \in anc[NewHead(w)] : Intact(a)
<1> USE DEF TypeInv, TypeOK, HashOK, HandleOK
<1>1. /\ HandleInv(w) /\ MergeOK(w) /\ PinOK(w)
      /\ base[w] \in known /\ theirs[w] \in known
      /\ br[w] \in Branches /\ head[br[w]] = Expected(w) /\ Expected(w) # None
      /\ \A c \in InFlight(w) : marker[c] # "none"
    <2>1. /\ HandleInv(w) /\ base[w] \in known /\ theirs[w] \in known
        BY DEF HistoryInv, FlightInv, KnownInv
    <2>2. Expected(w) # None
        BY FlightHistory DEF Commit, None
    <2> QED
        BY <2>1, <2>2 DEF CanPublish, MarkersHeld, IntactInv, HandlesIntact
<1>2. ASSUME NEW b \in Branches, head[b] # None PROVE \A a \in anc[head[b]] : Intact(a)
    BY <1>2 DEF IntactInv, HeadsStored, KnownIntact, HistoryInv, KnownInv
<1>3. ASSUME NEW c \in Commit, marker[c] # "none", \A p \in parents[c] : Intact(p) PROVE Intact(c)
    BY <1>3 DEF IntactInv, MarkInv, Intact
<1>4. \A c \in Commit : /\ \A a \in anc[c] : a = c \/ \E p \in parents[c] : a \in anc[p]
                        /\ \A a \in anc[c] : anc[a] \subseteq anc[c]
                        /\ c \in anc[c]
    BY DEF HistoryInv, HashInv
<1>5. ASSUME NEW c \in InFlight(w), \A p \in parents[c] : \A a \in anc[p] : Intact(a)
      PROVE  \A a \in anc[c] : Intact(a)
    <2>1. c \in Commit
        BY DEF InFlight
    <2>2. \A p \in parents[c] : p \in Commit /\ Intact(p)
        BY <1>4, <1>5, <2>1
    <2>3. Intact(c)
        BY <1>1, <1>3, <2>1, <2>2
    <2> QED
        BY <1>4, <1>5, <2>1, <2>3
<1>6. CASE merged[w] = None
    <2>1. ours[w] # None /\ NewHead(w) = ours[w] /\ Expected(w) = base[w]
        BY <1>6 DEF TargetsOK, NewHead, Expected
    <2>2. \A p \in parents[ours[w]] : \A a \in anc[p] : Intact(a)
        BY <1>1, <1>2, <2>1 DEF HandleInv
    <2> QED
        BY <1>5, <2>1, <2>2 DEF InFlight
<1>7. CASE merged[w] # None /\ op[w] = "merge"
    <2>1. NewHead(w) = merged[w] /\ Expected(w) = base[w] /\ parents[merged[w]] = {base[w], theirs[w]}
        BY <1>1, <1>7 DEF NewHead, Expected, HandleInv, OurSide
    <2>2. \A a \in anc[base[w]] : Intact(a)
        BY <1>1, <1>2, <2>1
    <2>3. \A a \in anc[theirs[w]] : Intact(a)
        <3>1. /\ tb[w] \in Branches /\ head[tb[w]] # None /\ theirs[w] \in anc[head[tb[w]]]
            BY <1>1, <1>7 DEF PinOK
        <3>2. head[tb[w]] \in Commit
            BY <3>1 DEF StoreOK
        <3> QED
            BY <1>2, <1>4, <3>1, <3>2
    <2> QED
        BY <1>5, <1>7, <2>1, <2>2, <2>3 DEF InFlight
<1>8. CASE merged[w] # None /\ op[w] # "merge"
    <2>1. NewHead(w) = merged[w] /\ Expected(w) = theirs[w]
        BY <1>8 DEF NewHead, Expected
    <2>2. \A a \in anc[theirs[w]] : Intact(a)
        BY <1>1, <1>2, <2>1
    <2>3. ours[w] # None /\ parents[ours[w]] = {base[w]} /\ parents[merged[w]] = {ours[w], theirs[w]}
        BY <1>1, <1>8 DEF HandleInv, OurSide
    <2>4. \A a \in anc[base[w]] : Intact(a)
        <3>1. base[w] \in anc[theirs[w]] \/ base[w] \in stored
            BY <1>1, <1>8, <2>3 DEF MergeOK, InFlight
        <3>2. theirs[w] \in Commit
            BY <1>1
        <3> QED
            BY <1>1, <1>4, <2>2, <3>1, <3>2 DEF IntactInv, KnownIntact
    <2>5. \A a \in anc[ours[w]] : Intact(a)
        BY <1>5, <2>3, <2>4 DEF InFlight
    <2> QED
        BY <1>5, <1>8, <2>1, <2>2, <2>3, <2>5 DEF InFlight
<1> QED
    BY <1>6, <1>7, <1>8

\* The other handles, after a call of w returned.
LEMMA OthersReturn ==
    ASSUME TypeInv, HistoryInv, IntactInv, NEW w \in Writers, NEW b, NEW c, Return(w, b, c),
           UNCHANGED <<lease, hashVars>>, stored \subseteq stored',
           \A x \in Commit : marker[x] = "none" => marker'[x] = "none",
           NEW v \in Writers \ {w},
           op[v] = "merge" => head'[tb[v]] # None /\ theirs[v] \in anc[head'[tb[v]]]
    PROVE  (DraftOK(v) /\ MergeOK(v) /\ PinOK(v) /\ InstallOK(v))'
<1>1. /\ pc'[v] = pc[v] /\ op'[v] = op[v] /\ br'[v] = br[v] /\ tb'[v] = tb[v]
      /\ base'[v] = base[v] /\ ours'[v] = ours[v] /\ merged'[v] = merged[v]
      /\ theirs'[v] = theirs[v] /\ draft'[v] = draft[v] /\ seen'[v] = seen[v]
    BY DEF Return, Goto, TypeInv, TypeOK, HandleOK
<1>2. 1 .. minted \subseteq Commit
    BY BoundsAssumption DEF Commit, TypeInv, TypeOK, HashOK
<1> QED
    BY <1>1, <1>2, OthersIntact DEF hashVars

LEMMA GiveUpIntact ==
    ASSUME TypeInv, HistoryInv, IntactInv, NEW w \in Writers, NEW left, GiveUp(w, left)
    PROVE  IntactInv'
<1> USE DEF TypeInv, TypeOK
<1>1. /\ UNCHANGED <<stored, items, head, lease, hashVars, known, sweepVars>>
      /\ Return(w, br[w], base[w])
      /\ \A c \in Commit : marker'[c] \in {"none", marker[c]}
    BY DEF GiveUp, leaseVars
<1>2. MarkInv' /\ KnownIntact' /\ HeadsStored'
    BY <1>1 DEF IntactInv, MarkInv, KnownIntact, HeadsStored, Intact, hashVars
<1>3. MarksInv'
    BY <1>1 DEF IntactInv, MarksInv, RootsMarked, HistoryMarked, hashVars, sweepVars
<1>4. (DraftOK(w) /\ MergeOK(w) /\ PinOK(w) /\ InstallOK(w))'
    BY <1>1, ReturnIntact
<1>5. ASSUME NEW v \in Writers \ {w} PROVE (DraftOK(v) /\ MergeOK(v) /\ PinOK(v) /\ InstallOK(v))'
    <2>1. op[v] = "merge" => head'[tb[v]] # None /\ theirs[v] \in anc[head'[tb[v]]]
        BY <1>1 DEF IntactInv, HandlesIntact, PinOK
    <2> QED
        BY <1>1, <2>1, OthersReturn
<1>6. HandlesIntact'
    BY <1>1, <1>4, <1>5 DEF IntactInv, HandlesIntact
<1> QED
    BY <1>2, <1>3, <1>6 DEF IntactInv

LEMMA PublishIntact ==
    ASSUME TypeInv, HistoryInv, LeaseInv, IntactInv, NEW w \in Writers, Publish(w)
    PROVE  IntactInv'
<1> DEFINE n == NewHead(w)
<1> USE DEF TypeInv, TypeOK
<1>1. /\ UNCHANGED <<stored, items, lease, hashVars, sweepVars>>
      /\ Return(w, br[w], n) /\ pc[w] = "publish" /\ CanPublish(w)
      /\ br[w] \in Branches /\ head' = [head EXCEPT ![br[w]] = n]
      /\ known' = known \cup anc[n]
      /\ \A c \in Commit : marker'[c] \in {"none", marker[c]}
    BY DEF Publish, leaseVars, HandleOK
<1>2. phase = "off"
    BY <1>1, WritesWhenOff DEF CanPublish
<1>3. /\ n \in InFlight(w) /\ n \in Commit /\ head[br[w]] \in anc[n] /\ head[br[w]] \in known
      /\ \A a \in anc[n] : Intact(a) /\ anc[a] \subseteq anc[n]
    <2>1. \A a \in anc[n] : Intact(a)
        BY <1>1, PublishedIntact
    <2>2. n \in InFlight(w) /\ n \in Commit /\ head[br[w]] \in anc[n] /\ head[br[w]] \in known
        BY <1>1, FlightHistory DEF CanPublish
    <2> QED
        BY <2>1, <2>2 DEF HistoryInv, HashInv
<1>4. n \in stored
    BY <1>1, <1>3 DEF CanPublish, MarkersHeld, IntactInv, MarkInv
<1>5. MarkInv'
    BY <1>1 DEF IntactInv, MarkInv, hashVars
<1>6. KnownIntact'
    <2> SUFFICES ASSUME NEW c \in known' \cap stored', NEW a \in anc[c] PROVE Intact(a)
        BY <1>1 DEF KnownIntact, Intact, hashVars
    <2> QED
        BY <1>1, <1>3 DEF IntactInv, KnownIntact
<1>7. HeadsStored'
    BY <1>1, <1>4 DEF IntactInv, HeadsStored, StoreOK
<1>8. MarksInv'
    BY <1>1, <1>2 DEF IntactInv, MarksInv, sweepVars
<1>9. (DraftOK(w) /\ MergeOK(w) /\ PinOK(w) /\ InstallOK(w))'
    BY <1>1, ReturnIntact
<1>10. ASSUME NEW v \in Writers \ {w} PROVE (DraftOK(v) /\ MergeOK(v) /\ PinOK(v) /\ InstallOK(v))'
    <2>1. op[v] = "merge" => head'[tb[v]] # None /\ theirs[v] \in anc[head'[tb[v]]]
        <3>1. op[v] = "merge" => head[tb[v]] # None /\ theirs[v] \in anc[head[tb[v]]]
            BY DEF IntactInv, HandlesIntact, PinOK
        <3>2. tb[v] \in Branches /\ n # None
            BY <1>3 DEF HandleOK, Commit, None
        <3>3. CASE tb[v] = br[w]
            BY <1>1, <1>3, <3>1, <3>2, <3>3 DEF StoreOK
        <3>4. CASE tb[v] # br[w]
            BY <1>1, <3>1, <3>2, <3>4 DEF StoreOK
        <3> QED
            BY <3>3, <3>4
    <2> QED
        BY <1>1, <2>1, OthersReturn
<1>11. HandlesIntact'
    BY <1>1, <1>9, <1>10 DEF IntactInv, HandlesIntact
<1> QED
    BY <1>5, <1>6, <1>7, <1>8, <1>11 DEF IntactInv

LEMMA InstallIntact ==
    ASSUME Quiet, TypeInv, HistoryInv, LeaseInv, IntactInv, NEW w \in Writers, Install(w)
    PROVE  IntactInv'
<1> DEFINE b == InstallAt(w)
           t == theirs[w]
<1> USE DEF TypeInv, TypeOK
<1>1. /\ UNCHANGED <<items, marker, lease, hashVars, sweepVars>>
      /\ \E c : Return(w, br[w], c)
      /\ b \in Branches /\ head[b] = exp[w] /\ head' = [head EXCEPT ![b] = t]
      /\ stored' = stored \cup {t} /\ t \in known /\ known' = known
    BY DEF Install, leaseVars, HandleOK, InstallAt, HistoryInv, KnownInv
<1>2. phase = "off"
    BY WritesWhenOff DEF Install
<1>3. t \in stored \/ t = Root
    BY DEF Install, IntactInv, HandlesIntact, InstallOK, Installable
<1>4. Root \in Commit /\ anc[Root] = {Root} /\ tree[Root] = {}
    <2>1. Root \in Commit
        BY BoundsAssumption DEF Root, Commit
    <2>2. anc[Root] \subseteq 1 .. 1 /\ Root \in anc[Root]
        BY <2>1 DEF HistoryInv, HashInv, Root
    <2> QED
        BY <2>1, <2>2 DEF HistoryInv, HashInv, Root
<1>5. \A c \in Commit : Intact(c) => Intact(c)'
    BY <1>1 DEF Intact, hashVars
<1>6. MarkInv'
    BY <1>1 DEF IntactInv, MarkInv, hashVars
<1>7. KnownIntact'
    <2> SUFFICES ASSUME NEW c \in known \cap stored', NEW a \in anc[c] PROVE Intact(a)'
        BY <1>1 DEF KnownIntact, hashVars
    <2>1. CASE c \in stored
        BY <1>5, <2>1 DEF IntactInv, KnownIntact, HashOK
    <2>2. CASE c \notin stored
        <3>1. c = Root /\ a = Root
            BY <1>1, <1>3, <1>4, <2>2
        <3> QED
            BY <1>1, <1>3, <1>4, <2>2, <3>1 DEF Intact, hashVars
    <2> QED
        BY <2>1, <2>2
<1>8. HeadsStored'
    BY <1>1 DEF IntactInv, HeadsStored, StoreOK
<1>9. MarksInv'
    BY <1>1, <1>2 DEF IntactInv, MarksInv, sweepVars
<1>10. (DraftOK(w) /\ MergeOK(w) /\ PinOK(w) /\ InstallOK(w))'
    BY <1>1, ReturnIntact
<1>11. ASSUME NEW v \in Writers \ {w} PROVE (DraftOK(v) /\ MergeOK(v) /\ PinOK(v) /\ InstallOK(v))'
    <2>1. op[v] = "merge" => head'[tb[v]] # None /\ theirs[v] \in anc[head'[tb[v]]]
        <3> SUFFICES ASSUME op[v] = "merge"
                     PROVE  head'[tb[v]] # None /\ theirs[v] \in anc[head'[tb[v]]]
            OBVIOUS
        <3>1. tb[v] \in Branches /\ head[tb[v]] # None /\ theirs[v] \in anc[head[tb[v]]]
            BY DEF IntactInv, HandlesIntact, PinOK, HandleOK
        <3>2. CASE tb[v] # b
            BY <1>1, <3>1, <3>2 DEF StoreOK
        <3>3. CASE tb[v] = b
            <4>1. op[w] # "reset"
                BY <3>3 DEF Install, Pinned, Quiet, InstallAt
            <4>2. exp[w] # None /\ pc[w] = "install"
                BY <1>1, <3>1, <3>3 DEF Install
            <4>3. HandleInv(w)
                BY DEF HistoryInv, FlightInv
            <4>4. op[w] = "merge" /\ exp[w] = base[w] /\ base[w] \in anc[t]
                BY <4>1, <4>2, <4>3 DEF HandleInv
            <4>5. t \in Commit /\ t # None
                <5>1. t \in Commit
                    BY <1>1 DEF HashOK
                <5> QED
                    BY <5>1 DEF Commit, None
            <4>6. anc[base[w]] \subseteq anc[t] /\ head'[tb[v]] = t
                BY <1>1, <3>3, <4>4, <4>5 DEF HistoryInv, HashInv, StoreOK
            <4> QED
                BY <1>1, <3>1, <3>3, <4>4, <4>5, <4>6
        <3> QED
            BY <3>2, <3>3
    <2>2. PICK c : Return(w, br[w], c)
        BY <1>1
    <2> QED
        BY <1>1, <2>1, <2>2, OthersReturn
<1>12. HandlesIntact'
    BY <1>1, <1>10, <1>11 DEF IntactInv, HandlesIntact
<1> QED
    BY <1>6, <1>7, <1>8, <1>9, <1>12 DEF IntactInv

-----------------------------------------------------------------------------
(* The sweep.                                                              *)

\* A step of the sweep that removes nothing and leaves the lease alone.
LEMMA MarkingIntact ==
    ASSUME TypeInv, HistoryInv, IntactInv, MarksInv',
           UNCHANGED <<stored, items, head, lease, hashVars, ghostVars, writerVars>>,
           \A c \in Commit : marker'[c] = "none" <=> marker[c] = "none"
    PROVE  IntactInv'
<1> USE DEF TypeInv, TypeOK, hashVars, ghostVars, writerVars
<1>1. MarkInv' /\ KnownIntact' /\ HeadsStored'
    BY DEF IntactInv, MarkInv, KnownIntact, HeadsStored, Intact
<1>2. ASSUME NEW v \in Writers PROVE (DraftOK(v) /\ MergeOK(v) /\ PinOK(v) /\ InstallOK(v))'
    <2>1. 1 .. minted \subseteq Commit
        BY BoundsAssumption DEF Commit, HashOK
    <2>2. op[v] = "merge" => head'[tb[v]] # None /\ theirs[v] \in anc'[head'[tb[v]]]
        BY DEF IntactInv, HandlesIntact, PinOK
    <2> QED
        BY <2>1, <2>2, OthersIntact
<1>3. HandlesIntact'
    BY <1>2 DEF IntactInv, HandlesIntact
<1> QED
    BY <1>1, <1>3 DEF IntactInv

LEMMA ReadMarkersMarks ==
    ASSUME TypeInv, MarksInv, ReadMarkers
    PROVE  MarksInv'
<1>1. /\ phase = "markers" /\ phase' = "heads" /\ black' = {} /\ keep' = {} /\ todo' = Branches
      /\ cut' = minted' + 1 /\ stale' = {c \in Commit : marker[c] = "lapsed"}
      /\ gray' = {c \in Commit : marker[c] = "live"} /\ marker' = marker
    BY DEF ReadMarkers, SweepStep, MarksInv, hashVars, storeVars
<1>2. RootsMarked'
    BY <1>1 DEF RootsMarked, TypeInv, TypeOK, StoreOK
<1>3. HistoryMarked'
    BY <1>1 DEF HistoryMarked
<1> QED
    BY <1>1, <1>2, <1>3 DEF MarksInv

\* Visiting a commit hands what reached its history through it on to its
\* parents: their numbers are lower, so nothing reaches back to it.
LEMMA VisitMarks ==
    ASSUME TypeInv, HistoryInv, MarksInv, Visit
    PROVE  MarksInv'
<1> USE DEF TypeInv, TypeOK, HashOK, SweepOK
<1>1. PICK c \in gray : /\ black' = black \cup {c}
                        /\ gray' = (gray \cup ParentsOf(c)) \ (black \cup {c})
                        /\ keep' = keep \cup TreeOf(c)
    BY DEF Visit
<1>2. /\ phase = "heads" /\ phase' = "heads" /\ cut = minted + 1 /\ RootsMarked /\ HistoryMarked
      /\ UNCHANGED <<storeVars, hashVars, cut, todo, stale>>
    BY DEF Visit, SweepStep, MarksInv
<1>3. RootsMarked'
    BY <1>1, <1>2 DEF RootsMarked, storeVars
<1>4. c \in Commit /\ c \notin black
    BY <1>1, <1>2 DEF HistoryMarked
<1>5. \A x \in Commit : /\ anc[x] \subseteq Commit /\ x \in anc[x]
                        /\ \A a \in anc[x] : anc[a] \subseteq anc[x]
                        /\ \A p \in parents[x] : anc[p] \subseteq anc[x] /\ p \in Commit
                        /\ \A a \in anc[x] : a = x \/ \E p \in parents[x] : a \in anc[p]
    BY DEF HistoryInv, HashInv
<1>6. \A p \in parents[c] : c \notin anc[p]
    <2> SUFFICES ASSUME NEW p \in parents[c] PROVE c \notin anc[p]
        OBVIOUS
    <2>1. p \in Commit /\ p \in 1 .. (c - 1) /\ anc[p] \subseteq 1 .. p
        BY <1>4 DEF HistoryInv, HashInv
    <2> QED
        BY <1>4, <2>1 DEF Commit
<1> DEFINE Reached(a, x) == a \in black' \/ \E g \in gray' \cap anc[x] : a \in anc[g]
<1>7. ASSUME anc[c] \subseteq stored, NEW a \in anc[c] PROVE Reached(a, c)
    <2>1. CASE a = c
        BY <1>1, <2>1
    <2>2. CASE a # c
        <3>1. PICK p \in parents[c] : a \in anc[p]
            BY <1>4, <1>5, <2>2
        <3>2. c \in stored /\ p \in ParentsOf(c) /\ p \in anc[c] /\ p # c /\ p \in Commit
            BY <1>4, <1>5, <1>6, <1>7, <3>1 DEF ParentsOf
        <3>3. CASE p \in black
            <4>1. anc[p] \subseteq stored
                BY <1>4, <1>5, <1>7, <3>1
            <4>2. a \in black \/ \E g \in gray \cap anc[p] : a \in anc[g]
                BY <1>2, <3>1, <3>3, <4>1 DEF HistoryMarked
            <4>3. ASSUME NEW g \in gray \cap anc[p], a \in anc[g] PROVE Reached(a, c)
                <5>1. g \in anc[c] /\ g # c /\ g \notin black
                    BY <1>2, <1>4, <1>5, <1>6, <3>1 DEF HistoryMarked
                <5> QED
                    BY <1>1, <4>3, <5>1
            <4> QED
                BY <1>1, <4>2, <4>3
        <3>4. CASE p \notin black
            BY <1>1, <3>1, <3>2, <3>4
        <3> QED
            BY <3>3, <3>4
    <2> QED
        BY <2>1, <2>2
<1>8. ASSUME NEW x \in black, anc[x] \subseteq stored, NEW a \in anc[x] PROVE Reached(a, x)
    <2>1. x \in Commit
        OBVIOUS
    <2>2. a \in black \/ \E g \in gray \cap anc[x] : a \in anc[g]
        BY <1>2, <1>8 DEF HistoryMarked
    <2>3. ASSUME NEW g \in gray \cap anc[x], a \in anc[g] PROVE Reached(a, x)
        <3>1. CASE g = c
            <4>1. anc[c] \subseteq anc[x]
                BY <1>5, <2>1, <2>3, <3>1
            <4>2. Reached(a, c)
                BY <1>7, <1>8, <2>3, <3>1, <4>1
            <4> QED
                BY <4>1, <4>2
        <3>2. CASE g # c
            BY <1>1, <1>2, <2>3, <3>2 DEF HistoryMarked
        <3> QED
            BY <3>1, <3>2
    <2> QED
        BY <1>1, <2>2, <2>3
<1>9. HistoryMarked'
    <2>1. stored' = stored /\ anc' = anc /\ parents' = parents /\ tree' = tree
        BY <1>2 DEF storeVars, hashVars
    <2>2. gray' \cap black' = {}
        BY <1>1
    <2>3. \A x \in black' \cap stored : parents[x] \subseteq gray' \cup black' /\ tree[x] \subseteq keep'
        BY <1>1, <1>2 DEF HistoryMarked, ParentsOf, TreeOf
    <2>4. \A x \in black' : anc[x] \subseteq stored => \A a \in anc[x] : Reached(a, x)
        BY <1>1, <1>7, <1>8
    <2> QED
        BY <2>1, <2>2, <2>3, <2>4 DEF HistoryMarked
<1> QED
    BY <1>2, <1>3, <1>9 DEF MarksInv, hashVars

LEMMA ReadHeadMarks ==
    ASSUME TypeInv, HistoryInv, MarksInv, ReadHead
    PROVE  MarksInv'
<1>1. PICK b \in todo : todo' = todo \ {b} /\ gray' = {head[b]} \ ({None} \cup black)
    BY DEF ReadHead
<1>2. /\ phase = "heads" /\ phase' = "heads" /\ cut = minted + 1 /\ RootsMarked /\ HistoryMarked
      /\ gray = {}
      /\ UNCHANGED <<storeVars, hashVars, cut, black, keep, stale>>
    BY DEF ReadHead, SweepStep, MarksInv
<1>3. RootsMarked'
    BY <1>1, <1>2 DEF RootsMarked, storeVars
<1>4. HistoryMarked'
    BY <1>1, <1>2 DEF HistoryMarked, storeVars, hashVars
<1> QED
    BY <1>2, <1>3, <1>4 DEF MarksInv, hashVars

LEMMA CollectMarks ==
    ASSUME TypeInv, HistoryInv, MarksInv, Collect
    PROVE  MarksInv'
<1> USE DEF TypeInv, TypeOK, StoreOK, SweepOK, HashOK
<1>1. /\ phase = "heads" /\ phase' = "remove" /\ cut = minted + 1 /\ RootsMarked /\ HistoryMarked
      /\ gray = {} /\ todo = {}
      /\ UNCHANGED <<storeVars, hashVars, cut, todo, gray, black, keep, stale>>
      /\ gone' = {c \in stored \ black : c < cut}
    BY DEF Collect, SweepStep, MarksInv
<1>2. gone' = stored \ black
    <2>1. \A c \in stored : c < cut
        BY <1>1 DEF HistoryInv, HashInv, Commit
    <2> QED
        BY <1>1, <2>1
<1>3. goneItems' \cap keep = {}
    BY DEF Collect
<1>4. RootsMarked' /\ HistoryMarked'
    BY <1>1 DEF RootsMarked, HistoryMarked, storeVars, hashVars
<1> QED
    BY <1>1, <1>2, <1>3, <1>4 DEF MarksInv, storeVars

\* A new lease record: no handle has read it.
LEMMA StartIntact ==
    ASSUME Quiet, TypeInv, LeaseInv, IntactInv, SweepStart
    PROVE  IntactInv'
<1> USE DEF TypeInv, TypeOK, storeVars, hashVars, ghostVars, writerVars
<1>1. /\ phase = "off" /\ phase' = "markers" /\ lease' = [owner |-> lease.owner + 1, released |-> FALSE]
      /\ cut' = minted + 1 /\ todo' = Branches
      /\ UNCHANGED <<storeVars, hashVars, ghostVars, writerVars, gray, black, keep>>
    BY DEF SweepStart, SweepStep, Quiet
<1>2. MarkInv' /\ KnownIntact' /\ HeadsStored'
    BY <1>1 DEF IntactInv, MarkInv, KnownIntact, HeadsStored, Intact
<1>3. MarksInv'
    BY <1>1 DEF IntactInv, MarksInv
<1>4. lease'.owner = lease.owner + 1 /\ lease.owner \in Nat
    BY <1>1 DEF LeaseOK, Lease
<1>5. ASSUME NEW v \in Writers PROVE (DraftOK(v) /\ MergeOK(v) /\ PinOK(v) /\ InstallOK(v))'
    <2>1. DraftOK(v) /\ MergeOK(v) /\ PinOK(v)
        BY DEF IntactInv, HandlesIntact
    <2>2. (DraftOK(v) /\ MergeOK(v) /\ PinOK(v))'
        BY <1>1, <2>1 DEF DraftOK, MergeOK, PinOK
    <2>3. seen[v].owner \in Nat /\ seen[v].owner <= lease.owner
        BY DEF LeaseInv, HandleLease, HandleOK, Lease
    <2>4. seen'[v].owner # lease'.owner
        BY <1>1, <1>4, <2>3
    <2>5. InstallOK(v)'
        BY <2>4 DEF InstallOK
    <2> QED
        BY <2>2, <2>5
<1>6. HandlesIntact'
    BY <1>4, <1>5 DEF HandlesIntact
<1> QED
    BY <1>2, <1>3, <1>6 DEF IntactInv

\* What was visited stays, and everything else goes: a published commit that
\* is left was visited, and so was its whole history.
LEMMA RemoveIntact ==
    ASSUME TypeInv, HistoryInv, LeaseInv, IntactInv, Remove
    PROVE  IntactInv'
<1> USE DEF TypeInv, TypeOK, hashVars, ghostVars, writerVars, leaseVars
<1>1. /\ phase = "remove" /\ phase' = "release"
      /\ stored' = stored \ gone /\ items' = items \ goneItems
      /\ marker' = [c \in Commit |-> IF c \in stale THEN "none" ELSE marker[c]]
      /\ gray' = {} /\ black' = {} /\ keep' = {}
      /\ UNCHANGED <<head, lease, lapsed, hashVars, ghostVars, writerVars>>
    BY DEF Remove, SweepStep, SweepForgets
<1>2. /\ RootsMarked /\ HistoryMarked /\ gray = {} /\ todo = {}
      /\ gone = stored \ black /\ goneItems \cap keep = {}
    BY <1>1 DEF IntactInv, MarksInv
<1>3. stored' = stored \cap black
    BY <1>1, <1>2
<1>4. \A c \in stored' : anc[c] \subseteq stored => anc[c] \subseteq stored'
    BY <1>2, <1>3 DEF HistoryMarked
<1>5. \A c \in stored' : tree[c] \cap items \subseteq items'
    BY <1>1, <1>2, <1>3 DEF HistoryMarked
<1>6. MarkInv'
    <2> SUFFICES ASSUME NEW c \in Commit, marker'[c] # "none"
                 PROVE  c \in stored' /\ tree[c] \ items' \subseteq UNION {tree[p] : p \in parents[c]}
        BY <1>1 DEF MarkInv
    <2>1. marker[c] # "none" /\ c \notin stale
        BY <1>1
    <2>2. c \in stored'
        BY <1>2, <1>3, <2>1 DEF RootsMarked, IntactInv, MarkInv
    <2> QED
        BY <1>5, <2>1, <2>2 DEF IntactInv, MarkInv
<1>7. KnownIntact'
    <2> SUFFICES ASSUME NEW c \in known \cap stored', NEW a \in anc[c]
                 PROVE  a \in stored' /\ tree[a] \subseteq items'
        BY <1>1 DEF KnownIntact, Intact
    <2>1. c \in stored /\ \A x \in anc[c] : Intact(x)
        BY <1>3 DEF IntactInv, KnownIntact
    <2>2. a \in stored'
        BY <1>4, <2>1 DEF Intact
    <2> QED
        BY <1>5, <2>1, <2>2 DEF Intact
<1>8. HeadsStored'
    BY <1>1, <1>2, <1>3 DEF IntactInv, HeadsStored, RootsMarked
<1>9. ASSUME NEW v \in Writers PROVE (DraftOK(v) /\ MergeOK(v) /\ PinOK(v) /\ InstallOK(v))'
    <2>1. DraftOK(v) /\ MergeOK(v) /\ PinOK(v) /\ InstallOK(v) /\ HandleInv(v)
        BY DEF IntactInv, HandlesIntact, HistoryInv, FlightInv
    <2>2. (DraftOK(v) /\ PinOK(v))'
        BY <1>1, <2>1 DEF DraftOK, PinOK
    <2>3. MergeOK(v)'
        <3> SUFFICES ASSUME ours[v] # None, marker'[ours[v]] # "none",
                            merged[v] # None \/ pc[v] \in {"wait", "land"}
                     PROVE  base[v] \in anc[theirs[v]] \/ base[v] \in stored'
            BY <1>1 DEF MergeOK
        <3>1. ours[v] \in Commit /\ marker[ours[v]] # "none"
            BY <1>1 DEF HandleOK
        <3>2. ours[v] \in stored'
            BY <1>6, <1>1, <3>1 DEF MarkInv
        <3>3. base[v] \in parents[ours[v]]
            BY <2>1 DEF HandleInv
        <3>4. base[v] \in black
            BY <1>2, <1>3, <3>2, <3>3 DEF HistoryMarked
        <3> QED
            BY <1>3, <2>1, <3>1, <3>4 DEF MergeOK
    <2>4. InstallOK(v)'
        <3>1. pc[v] = "install" => seen[v] # lease
            BY <1>1 DEF LeaseInv, HandleLease
        <3> QED
            BY <1>1, <2>1, <3>1 DEF InstallOK
    <2> QED
        BY <2>2, <2>3, <2>4
<1>10. HandlesIntact'
    BY <1>1, <1>9 DEF IntactInv, HandlesIntact
<1>11. MarksInv'
    BY <1>1 DEF MarksInv
<1> QED
    BY <1>6, <1>7, <1>8, <1>10, <1>11 DEF IntactInv

\* The record is marked released: what a handle read of it was the live one.
LEMMA ReleaseIntact ==
    ASSUME TypeInv, LeaseInv, IntactInv, Release
    PROVE  IntactInv'
<1> USE DEF TypeInv, TypeOK, storeVars, hashVars, ghostVars, writerVars
<1>1. /\ phase # "off" /\ phase' = "off" /\ gray' = {} /\ black' = {} /\ keep' = {}
      /\ UNCHANGED <<storeVars, hashVars, ghostVars, writerVars>>
    BY DEF Release, SweepForgets
<1>2. lease'.owner = lease.owner /\ lease'.released
    BY DEF Release, LeaseOK, Lease
<1>3. ~lease.released
    BY <1>1 DEF LeaseInv, Live
<1>4. MarkInv' /\ KnownIntact' /\ HeadsStored'
    BY <1>1 DEF IntactInv, MarkInv, KnownIntact, HeadsStored, Intact
<1>5. MarksInv'
    BY <1>1 DEF MarksInv
<1>6. ASSUME NEW v \in Writers PROVE (DraftOK(v) /\ MergeOK(v) /\ PinOK(v) /\ InstallOK(v))'
    <2>1. DraftOK(v) /\ MergeOK(v) /\ PinOK(v) /\ InstallOK(v)
        BY DEF IntactInv, HandlesIntact
    <2>2. (DraftOK(v) /\ MergeOK(v) /\ PinOK(v))'
        BY <1>1, <2>1 DEF DraftOK, MergeOK, PinOK
    <2>3. seen'[v] # lease'
        BY <1>1, <1>2, <1>3, <2>1 DEF InstallOK
    <2>4. InstallOK(v)'
        BY <1>2, <2>3 DEF InstallOK
    <2> QED
        BY <2>2, <2>4
<1>7. HandlesIntact'
    BY <1>2, <1>6 DEF HandlesIntact
<1> QED
    BY <1>4, <1>5, <1>7 DEF IntactInv

LEMMA SweepIntact ==
    ASSUME Quiet, TypeInv, HistoryInv, LeaseInv, IntactInv,
           Sweep \/ SweepDies \/ LeaseLapses \/ MarkerLapses
    PROVE  IntactInv'
<1>1. CASE ReadMarkers \/ Visit \/ ReadHead \/ Collect
    <2>1. MarksInv'
        BY <1>1, ReadMarkersMarks, VisitMarks, ReadHeadMarks, CollectMarks DEF IntactInv
    <2>2. UNCHANGED <<storeVars, leaseVars, hashVars, ghostVars, writerVars>>
        BY <1>1 DEF ReadMarkers, Visit, ReadHead, Collect
    <2> QED
        BY <2>1, <2>2, MarkingIntact DEF storeVars, leaseVars
<1>2. CASE SweepDies
    <2>1. MarksInv'
        BY <1>2 DEF SweepDies, SweepForgets, MarksInv
    <2> QED
        BY <1>2, <2>1, MarkingIntact DEF SweepDies, storeVars, leaseVars
<1>3. CASE LeaseLapses
    <2>1. MarksInv'
        BY <1>3 DEF LeaseLapses, IntactInv, MarksInv, RootsMarked, HistoryMarked,
                    storeVars, hashVars, sweepVars
    <2> QED
        BY <1>3, <2>1, MarkingIntact DEF LeaseLapses, storeVars
<1>4. CASE MarkerLapses
    <2>1. PICK c \in Commit : marker[c] = "live" /\ marker' = [marker EXCEPT ![c] = "lapsed"]
        BY <1>4 DEF MarkerLapses
    <2>2. \A x \in Commit : marker'[x] = "none" <=> marker[x] = "none"
        BY <2>1 DEF TypeInv, TypeOK, StoreOK
    <2>3. UNCHANGED <<stored, items, head, lease, hashVars, ghostVars, sweepVars, writerVars>>
        BY <1>4 DEF MarkerLapses, leaseVars
    <2>4. MarksInv'
        BY <2>2, <2>3 DEF IntactInv, MarksInv, RootsMarked, HistoryMarked, hashVars, sweepVars
    <2> QED
        BY <2>2, <2>3, <2>4, MarkingIntact
<1> QED
    BY <1>1, <1>2, <1>3, <1>4, StartIntact, RemoveIntact, ReleaseIntact DEF Sweep

-----------------------------------------------------------------------------
(* The theorems.                                                           *)

LEMMA NextIntact ==
    ASSUME Quiet, TypeInv, HistoryInv, LeaseInv, IntactInv, [Next]_vars
    PROVE  IntactInv'
<1>1. ASSUME NEW w \in Writers, Step(w) PROVE IntactInv'
    BY <1>1, LocalStepIntact, LandIntact, PublishIntact, InstallIntact, GiveUpIntact
    DEF Step, LostCommit, MergeRefused, MergeNoOp, CheckFails, InstallFails, Refuse
<1>2. ASSUME NEW w \in Writers, Crash(w) PROVE IntactInv'
    BY <1>2, GiveUpIntact DEF Crash
<1>3. CASE UNCHANGED vars
    <2>1. MarksInv'
        BY <1>3 DEF vars, IntactInv, MarksInv, RootsMarked, HistoryMarked, storeVars, hashVars, sweepVars
    <2> QED
        BY <1>3, <2>1, MarkingIntact DEF vars, storeVars, leaseVars
<1> QED
    BY <1>1, <1>2, <1>3, CallIntact, SweepIntact DEF Next

LEMMA IntactImplies ==
    ASSUME TypeInv, HistoryInv, IntactInv
    PROVE  HistoryIntact
BY DEF HistoryIntact, IntactInv, HeadsStored, KnownIntact, HistoryInv, KnownInv

\* A sweep beside any number of handles takes nothing a branch needs: every
\* commit in every branch's history keeps its records and its content.
THEOREM SweepKeepsHistory ==
    ASSUME Quiet
    PROVE  Spec => []HistoryIntact
<1> DEFINE Inv == TypeInv /\ HistoryInv /\ LeaseInv /\ IntactInv
<1>1. Init => Inv
    BY InitType, InitHistory, InitLease, InitIntact
<1>2. Inv /\ [Next]_vars => Inv'
    BY NextType, NextHistory, NextLease, NextIntact DEF Quiet
<1>3. Inv => HistoryIntact
    BY IntactImplies
<1> QED
    BY <1>1, <1>2, <1>3, PTL DEF Spec

-----------------------------------------------------------------------------
(* With young orphans spared.                                               *)

\* No call merges: commits are made with onMoved: 'raise'.
Raising == Overrun = FALSE /\ Ops \cap {"commit", "merge"} = {}

-----------------------------------------------------------------------------
(* Its inductive invariant.  The first part holds whatever the handles do.  *)

\* What is visited has its content marked.
ContentMarked == \A c \in black \cap stored : tree[c] \subseteq keep

\* The commits a sweep leaves, marked or young, keep what they refer to.
SpareInv ==
    /\ phase \in {"off", "markers", "release"} => gray = {} /\ black = {} /\ keep = {}
    /\ phase = "markers" => todo = Branches
    /\ phase \in {"heads", "remove"} => RootsMarked /\ ContentMarked
    /\ phase = "remove" =>
        /\ gray = {} /\ todo = {} /\ gone \cap black = {}
        /\ \A c \in stored \ gone : tree[c] \cap goneItems = {}

CallsOK ==
    /\ lease.owner = 0 => lease.released
    /\ \A w \in Writers : DraftOK(w) /\ InstallOK(w)

YoungInv == MarkInv /\ HeadsStored /\ SpareInv /\ CallsOK

\* A published commit that is stored is whole: not so its history.
KnownWhole == \A c \in known \cap stored : Intact(c)

\* A commit that does not merge is made over the head it started from.
OverBase(w) == op[w] = "raise" =>
    /\ theirs[w] = base[w] /\ merged[w] = None /\ pc[w] # "ancestor"
    /\ pc[w] \in {"build", "wait", "land"} => ours[w] = None

RaiseInv == KnownWhole /\ \A w \in Writers : OverBase(w)

LEMMA InitYoung == Init => YoungInv /\ RaiseInv
<1> SUFFICES ASSUME Init PROVE YoungInv /\ RaiseInv
    OBVIOUS
<1> USE BoundsAssumption DEF Init, Commit, None, Root
<1>1. MarkInv /\ HeadsStored /\ KnownWhole
    BY DEF MarkInv, HeadsStored, KnownWhole, Intact
<1>2. CallsOK /\ \A w \in Writers : OverBase(w)
    <2>1. lease.owner = 0 /\ lease.released
        OBVIOUS
    <2>2. \A w \in Writers : pc[w] = "idle" /\ op[w] = "none"
        OBVIOUS
    <2> QED
        BY <2>1, <2>2 DEF CallsOK, DraftOK, InstallOK, OverBase
<1>3. SpareInv
    BY DEF SpareInv
<1> QED
    BY <1>1, <1>2, <1>3 DEF YoungInv, RaiseInv

-----------------------------------------------------------------------------
(* Frames.                                                                 *)

\* What a handle relies on, when histories only grow and nothing is removed.
LEMMA CallKept ==
    ASSUME TypeInv, HistoryInv, YoungInv, NEW v \in Writers,
           pc'[v] = pc[v], op'[v] = op[v], theirs'[v] = theirs[v],
           draft'[v] = draft[v], seen'[v] = seen[v], lease' = lease,
           \A c \in 1 .. minted : tree'[c] = tree[c],
           stored \subseteq stored'
    PROVE  (DraftOK(v) /\ InstallOK(v))'
<1> USE DEF TypeInv, TypeOK, HandleOK, HashOK
<1>1. DraftOK(v) /\ InstallOK(v)
    BY DEF YoungInv, CallsOK
<1>2. HandleInv(v) /\ InFlight(v) \subseteq 1 .. minted
    BY DEF HistoryInv, FlightInv
<1>3. base[v] \in 1 .. minted /\ (pc[v] # "idle" => theirs[v] \in 1 .. minted)
    <2>1. known \subseteq 1 .. minted
        BY DEF HistoryInv, HashInv
    <2> QED
        BY <2>1 DEF HistoryInv, KnownInv
<1>4. DraftOK(v)'
    <2>1. pc[v] \in {"wait", "land"} => draft[v].parents \subseteq 1 .. minted
        BY <1>2, <1>3 DEF HandleInv, OurSide, InFlight
    <2>2. pc[v] \in {"wait", "land"} => \A p \in draft[v].parents : tree'[p] = tree[p]
        BY <2>1
    <2>3. pc[v] \in {"wait", "land"} =>
              \A i \in draft[v].tree \ draft[v].put : \E p \in draft[v].parents : i \in tree[p]
        BY <1>1 DEF DraftOK
    <2>4. pc[v] \in {"wait", "land"} =>
              \A i \in draft[v].tree \ draft[v].put : \E p \in draft[v].parents : i \in tree'[p]
        BY <2>2, <2>3
    <2> QED
        BY <2>4 DEF DraftOK
<1>5. InstallOK(v)'
    BY <1>1 DEF InstallOK, Installable
<1> QED
    BY <1>4, <1>5

\* A step that writes one handle's locals.
LEMMA LocalYoung ==
    ASSUME TypeInv, HistoryInv, YoungInv, NEW w \in Writers,
           UNCHANGED <<storeVars, leaseVars, hashVars, sweepVars>>,
           \A v \in Writers \ {w} :
               /\ pc'[v] = pc[v] /\ op'[v] = op[v] /\ theirs'[v] = theirs[v]
               /\ draft'[v] = draft[v] /\ seen'[v] = seen[v],
           (DraftOK(w) /\ InstallOK(w))'
    PROVE  YoungInv'
<1> USE DEF storeVars, leaseVars, hashVars, sweepVars
<1>1. MarkInv' /\ HeadsStored'
    BY DEF YoungInv, MarkInv, HeadsStored
<1>2. SpareInv'
    BY DEF YoungInv, SpareInv, RootsMarked, ContentMarked
<1>3. \A v \in Writers \ {w} : (DraftOK(v) /\ InstallOK(v))'
    BY CallKept
<1>4. CallsOK'
    BY <1>3 DEF YoungInv, CallsOK
<1> QED
    BY <1>1, <1>2, <1>4 DEF YoungInv

\* A call that returns relies on nothing, and the others on what they did.
LEMMA ReturnYoung ==
    ASSUME TypeInv, HistoryInv, YoungInv, NEW w \in Writers, NEW b, NEW c, Return(w, b, c),
           UNCHANGED <<lease, hashVars>>, stored \subseteq stored'
    PROVE  CallsOK'
<1> USE DEF TypeInv, TypeOK, HandleOK, HashOK, Return, Goto
<1>1. pc'[w] = "idle" /\ seen'[w].owner = 0
    OBVIOUS
<1>2. (DraftOK(w) /\ InstallOK(w))'
    BY <1>1 DEF DraftOK, InstallOK, YoungInv, CallsOK
<1>3. \A v \in Writers \ {w} : (DraftOK(v) /\ InstallOK(v))'
    BY CallKept DEF hashVars
<1> QED
    BY <1>2, <1>3 DEF YoungInv, CallsOK

-----------------------------------------------------------------------------
(* The steps of a handle.                                                  *)

LEMMA CallYoung ==
    ASSUME TypeInv, HistoryInv, YoungInv, NEW w \in Writers, Call(w)
    PROVE  YoungInv'
<1> USE DEF TypeInv, TypeOK, HandleOK
<1>1. ASSUME NEW o, NEW label \in {"build", "ancestor", "claim"}, NEW b, NEW c,
             Begin(w, o, label, b, c)
      PROVE  YoungInv'
    <2> USE <1>1 DEF Begin, Goto
    <2>1. (DraftOK(w) /\ InstallOK(w))'
        BY DEF DraftOK, InstallOK, YoungInv, CallsOK, leaseVars
    <2> QED
        BY <2>1, LocalYoung
<1>2. CASE BeginCommit(w) \/ BeginMerge(w) \/ BeginReset(w) \/ BeginCreate(w)
    BY <1>1, <1>2 DEF BeginCommit, BeginMerge, BeginReset, BeginCreate
<1>3. CASE Attach(w)
    <2>1. PICK b \in Branches : Return(w, b, head[b])
        BY <1>3 DEF Attach
    <2> USE <1>3 DEF Attach, storeVars, leaseVars, hashVars, sweepVars
    <2>2. CallsOK'
        BY <2>1, ReturnYoung
    <2>3. (MarkInv /\ HeadsStored /\ SpareInv)'
        BY DEF YoungInv, MarkInv, HeadsStored, SpareInv, RootsMarked, ContentMarked
    <2> QED
        BY <2>2, <2>3 DEF YoungInv
<1>4. CASE DeleteBranch(w)
    <2>1. PICK b \in Branches \ {br[w]} : head' = [head EXCEPT ![b] = None]
        BY <1>4 DEF DeleteBranch
    <2> USE <1>4 DEF DeleteBranch, leaseVars, hashVars, ghostVars, sweepVars, writerVars
    <2>2. MarkInv' /\ HeadsStored'
        BY <2>1 DEF YoungInv, MarkInv, HeadsStored, StoreOK
    <2>3. SpareInv'
        <3>1. \A x \in Branches : head'[x] \in {None, head[x]}
            BY <2>1 DEF StoreOK
        <3> QED
            BY <3>1 DEF YoungInv, SpareInv, RootsMarked, ContentMarked
    <2>4. CallsOK'
        BY DEF YoungInv, CallsOK, DraftOK, InstallOK, Installable
    <2> QED
        BY <2>2, <2>3, <2>4 DEF YoungInv
<1> QED
    BY <1>2, <1>3, <1>4 DEF Call

\* The steps of a call that write nothing to the store.
LEMMA LocalStepYoung ==
    ASSUME TypeInv, HistoryInv, YoungInv, NEW w \in Writers,
           \/ Build(w) \/ Wait(w) \/ LandAgain(w) \/ PublishAgain(w) \/ LostRace(w) \/ Resolve(w)
           \/ FastForward(w) \/ Check(w) \/ InstallAgain(w)
    PROVE  YoungInv'
<1> USE DEF TypeInv, TypeOK, HandleOK, Goto
<1>0. DraftOK(w) /\ InstallOK(w)
    BY DEF YoungInv, CallsOK
<1> DEFINE OnlyHandle ==
        /\ UNCHANGED <<storeVars, leaseVars, hashVars, sweepVars>>
        /\ \A v \in Writers \ {w} : /\ pc'[v] = pc[v] /\ op'[v] = op[v] /\ theirs'[v] = theirs[v]
                                    /\ draft'[v] = draft[v] /\ seen'[v] = seen[v]
<1>1. ASSUME OnlyHandle, (DraftOK(w) /\ InstallOK(w))' PROVE YoungInv'
    BY <1>1, LocalYoung
<1>2. OnlyHandle
    BY DEF Build, Wait, LandAgain, PublishAgain, LostRace, Resolve, FastForward, Check, InstallAgain
<1> HIDE DEF OnlyHandle
<1> USE DEF storeVars, leaseVars, hashVars, sweepVars
<1>3. CASE Build(w)
    <2>1. draft'[w].tree \ draft'[w].put \subseteq tree[base[w]] /\ draft'[w].parents = {base[w]}
        BY <1>3 DEF Build, TreeOf
    <2>2. DraftOK(w)'
        BY <1>3, <2>1 DEF DraftOK, Build
    <2>3. InstallOK(w)'
        BY <1>0, <1>3 DEF Build, InstallOK
    <2> QED
        BY <1>1, <1>2, <2>2, <2>3
<1>4. CASE Wait(w)
    <2>1. DraftOK(w)' /\ InstallOK(w)'
        BY <1>0, <1>4 DEF Wait, DraftOK, InstallOK
    <2> QED
        BY <1>1, <1>2, <2>1
<1>5. CASE LandAgain(w) \/ PublishAgain(w) \/ InstallAgain(w) \/ FastForward(w) \/ LostRace(w)
    <2>1. /\ UNCHANGED <<draft, seen, lease, tree, stored>>
          /\ \/ pc[w] = "land" /\ pc'[w] = "wait"
             \/ pc[w] = "publish" /\ pc'[w] \in {"rewait", "ancestor"}
             \/ pc[w] \in {"install", "ancestor"} /\ pc'[w] = "claim"
        BY <1>5 DEF LandAgain, PublishAgain, InstallAgain, FastForward, LostRace, LostPublish
    <2>2. (DraftOK(w) /\ InstallOK(w))'
        BY <1>0, <2>1 DEF DraftOK, InstallOK
    <2> QED
        BY <1>1, <1>2, <2>2
<1>6. CASE Resolve(w)
    <2>1. /\ draft'[w].tree \ draft'[w].put \subseteq tree[OurSide(w)] \cup tree[theirs[w]]
          /\ draft'[w].parents = {OurSide(w), theirs[w]}
        BY <1>6 DEF Resolve, TreeOf
    <2>2. DraftOK(w)'
        BY <1>6, <2>1 DEF DraftOK, Resolve
    <2>3. InstallOK(w)'
        BY <1>0, <1>6 DEF Resolve, InstallOK
    <2> QED
        BY <1>1, <1>2, <2>2, <2>3
<1>7. CASE Check(w)
    <2>1. DraftOK(w)' /\ InstallOK(w)'
        BY <1>0, <1>7 DEF Check, DraftOK, InstallOK, Installable
    <2> QED
        BY <1>1, <1>2, <2>1
<1> QED
    BY <1>3, <1>4, <1>5, <1>6, <1>7

LEMMA LandYoung ==
    ASSUME TypeInv, HistoryInv, LeaseInv, YoungInv, NEW w \in Writers, Land(w)
    PROVE  YoungInv'
<1> DEFINE c == minted + 1
           d == draft[w]
<1> USE DEF TypeInv, TypeOK, HashOK, HandleOK
<1>1. /\ c \in Commit /\ c \notin 1 .. minted /\ phase = "off"
      /\ parents' = [parents EXCEPT ![c] = d.parents] /\ tree' = [tree EXCEPT ![c] = d.tree]
      /\ stored' = stored \cup {c} /\ items' = items \cup d.put
      /\ marker' = [marker EXCEPT ![c] = "live"]
      /\ UNCHANGED <<head, lease, sweepVars, op, theirs, seen>>
    BY WritesWhenOff, BoundsAssumption DEF Land, Commit, leaseVars
<1>2. \A x \in Commit \ {c} :
          parents'[x] = parents[x] /\ tree'[x] = tree[x] /\ marker'[x] = marker[x]
    BY <1>1 DEF StoreOK
<1>3. parents'[c] = d.parents /\ tree'[c] = d.tree
    BY <1>1
<1>4. known \subseteq 1 .. minted /\ stored \subseteq 1 .. minted
    BY DEF HistoryInv, HashInv
<1>5. \A x \in 1 .. minted : x \in Commit \ {c} /\ parents[x] \subseteq 1 .. minted
    <2>1. \A x \in 1 .. minted : x \in Commit /\ 1 .. (x - 1) \subseteq 1 .. minted
        BY BoundsAssumption DEF Commit
    <2>2. \A x \in 1 .. minted : parents[x] \subseteq 1 .. (x - 1)
        BY <2>1 DEF HistoryInv, HashInv
    <2> QED
        BY <1>1, <2>1, <2>2
<1>6. d.parents \subseteq 1 .. minted /\ d.tree \ d.put \subseteq UNION {tree[p] : p \in d.parents}
    <2>1. HandleInv(w) /\ InFlight(w) \subseteq 1 .. minted /\ base[w] \in known /\ theirs[w] \in known
        BY DEF Land, HistoryInv, FlightInv, KnownInv
    <2>2. d.parents \subseteq {base[w], OurSide(w), theirs[w]}
        BY <2>1 DEF Land, HandleInv
    <2>3. {base[w], OurSide(w), theirs[w]} \subseteq 1 .. minted
        BY <1>4, <2>1 DEF OurSide, InFlight
    <2>4. d.tree \ d.put \subseteq UNION {tree[p] : p \in d.parents}
        BY DEF Land, YoungInv, CallsOK, DraftOK
    <2> QED
        BY <2>2, <2>3, <2>4
<1>7. MarkInv'
    <2> SUFFICES ASSUME NEW x \in Commit, marker'[x] # "none"
                 PROVE  x \in stored' /\ \A i \in tree'[x] \ items' : \E p \in parents'[x] : i \in tree'[p]
        BY DEF MarkInv
    <2>1. CASE x = c
        <3>1. \A p \in d.parents : tree'[p] = tree[p]
            BY <1>2, <1>5, <1>6
        <3> QED
            BY <1>1, <1>3, <1>6, <2>1, <3>1
    <2>2. CASE x # c
        <3>1. marker[x] # "none" /\ x \in 1 .. minted
            <4>1. marker[x] # "none"
                BY <1>2, <2>2
            <4>2. ~(x > minted)
                BY <4>1 DEF HistoryInv, HashInv
            <4> QED
                BY <4>1, <4>2 DEF Commit
        <3>2. \A p \in parents[x] : tree'[p] = tree[p]
            BY <1>2, <1>5, <3>1
        <3> QED
            BY <1>1, <1>2, <2>2, <3>1, <3>2 DEF YoungInv, MarkInv
    <2> QED
        BY <2>1, <2>2
<1>8. HeadsStored'
    BY <1>1 DEF YoungInv, HeadsStored
<1>9. SpareInv'
    BY <1>1 DEF YoungInv, SpareInv, sweepVars
<1>10. (DraftOK(w) /\ InstallOK(w))'
    <2>1. pc'[w] \in {"ancestor", "publish"}
        BY DEF Land, Goto
    <2> QED
        BY <1>1, <2>1 DEF DraftOK, InstallOK, YoungInv, CallsOK
<1>11. ASSUME NEW v \in Writers \ {w} PROVE (DraftOK(v) /\ InstallOK(v))'
    <2>1. pc'[v] = pc[v] /\ draft'[v] = draft[v]
        BY DEF Land, Goto
    <2> QED
        BY <1>1, <1>2, <1>5, <2>1, CallKept
<1>12. CallsOK'
    BY <1>1, <1>10, <1>11 DEF YoungInv, CallsOK
<1> QED
    BY <1>7, <1>8, <1>9, <1>12 DEF YoungInv

LEMMA GiveUpYoung ==
    ASSUME TypeInv, HistoryInv, YoungInv, NEW w \in Writers, NEW left, GiveUp(w, left)
    PROVE  YoungInv'
<1> USE DEF TypeInv, TypeOK
<1>1. /\ UNCHANGED <<stored, items, head, lease, hashVars, sweepVars>>
      /\ Return(w, br[w], base[w])
      /\ \A c \in Commit : marker'[c] \in {"none", marker[c]}
    BY DEF GiveUp, leaseVars
<1>2. MarkInv' /\ HeadsStored'
    BY <1>1 DEF YoungInv, MarkInv, HeadsStored, hashVars
<1>3. SpareInv'
    BY <1>1 DEF YoungInv, SpareInv, RootsMarked, ContentMarked, hashVars, sweepVars
<1>4. CallsOK'
    BY <1>1, ReturnYoung
<1> QED
    BY <1>2, <1>3, <1>4 DEF YoungInv

LEMMA PublishYoung ==
    ASSUME TypeInv, HistoryInv, LeaseInv, YoungInv, NEW w \in Writers, Publish(w)
    PROVE  YoungInv'
<1> DEFINE n == NewHead(w)
<1> USE DEF TypeInv, TypeOK
<1>1. /\ UNCHANGED <<stored, items, lease, hashVars, sweepVars>>
      /\ Return(w, br[w], n) /\ pc[w] = "publish" /\ CanPublish(w)
      /\ br[w] \in Branches /\ head' = [head EXCEPT ![br[w]] = n]
      /\ \A c \in Commit : marker'[c] \in {"none", marker[c]}
    BY DEF Publish, leaseVars, HandleOK
<1>2. phase = "off"
    BY <1>1, WritesWhenOff DEF CanPublish
<1>3. n \in InFlight(w) /\ n \in Commit
    BY <1>1, FlightHistory
<1>4. n \in stored
    BY <1>1, <1>3 DEF CanPublish, MarkersHeld, YoungInv, MarkInv
<1>5. MarkInv' /\ HeadsStored'
    BY <1>1, <1>4 DEF YoungInv, MarkInv, HeadsStored, StoreOK, hashVars
<1>6. SpareInv'
    BY <1>1, <1>2 DEF YoungInv, SpareInv, sweepVars
<1>7. CallsOK'
    BY <1>1, ReturnYoung
<1> QED
    BY <1>5, <1>6, <1>7 DEF YoungInv

LEMMA InstallYoung ==
    ASSUME TypeInv, HistoryInv, LeaseInv, YoungInv, NEW w \in Writers, Install(w)
    PROVE  YoungInv'
<1> DEFINE b == InstallAt(w)
           t == theirs[w]
<1> USE DEF TypeInv, TypeOK
<1>1. /\ UNCHANGED <<items, marker, lease, hashVars, sweepVars>>
      /\ \E c : Return(w, br[w], c)
      /\ b \in Branches /\ head' = [head EXCEPT ![b] = t] /\ stored' = stored \cup {t}
    BY DEF Install, leaseVars, HandleOK, InstallAt
<1>2. phase = "off"
    BY WritesWhenOff DEF Install
<1>3. MarkInv' /\ HeadsStored'
    BY <1>1 DEF YoungInv, MarkInv, HeadsStored, StoreOK, hashVars
<1>4. SpareInv'
    BY <1>1, <1>2 DEF YoungInv, SpareInv, sweepVars
<1>5. CallsOK'
    BY <1>1, ReturnYoung
<1> QED
    BY <1>3, <1>4, <1>5 DEF YoungInv

LEMMA HandleYoung ==
    ASSUME TypeInv, HistoryInv, LeaseInv, YoungInv, NEW w \in Writers, Call(w) \/ Step(w) \/ Crash(w)
    PROVE  YoungInv'
BY CallYoung, LocalStepYoung, LandYoung, PublishYoung, InstallYoung, GiveUpYoung
DEF Step, Crash, LostCommit, MergeRefused, MergeNoOp, CheckFails, InstallFails, Refuse

-----------------------------------------------------------------------------
(* The sweep.                                                              *)

\* A step of the sweep that removes nothing and leaves the lease alone.
LEMMA MarkingYoung ==
    ASSUME YoungInv, SpareInv',
           UNCHANGED <<stored, items, head, lease, hashVars, writerVars>>,
           \A c \in Commit : marker'[c] = "none" <=> marker[c] = "none"
    PROVE  YoungInv'
<1> USE DEF hashVars, writerVars
<1>1. MarkInv' /\ HeadsStored'
    BY DEF YoungInv, MarkInv, HeadsStored
<1>2. CallsOK'
    BY DEF YoungInv, CallsOK, DraftOK, InstallOK, Installable
<1> QED
    BY <1>1, <1>2 DEF YoungInv

LEMMA CollectSpares ==
    ASSUME TypeInv, YoungInv, Collect
    PROVE  SpareInv'
<1> USE DEF TypeInv, TypeOK, StoreOK, SweepOK, HashOK
<1> DEFINE orphans == {c \in stored \ black : c < cut}
           young == {y \in stored \ black : y >= cut}
           marked == keep \cup UNION {tree[c] : c \in young}
<1>1. /\ phase = "heads" /\ phase' = "remove" /\ RootsMarked /\ ContentMarked
      /\ gray = {} /\ todo = {}
      /\ UNCHANGED <<stored, marker, head, tree, todo, gray, black, keep, stale>>
    BY DEF Collect, SweepStep, YoungInv, SpareInv, storeVars, hashVars
<1>2. gone' = orphans
    BY DEF Collect
<1>3. goneItems' \cap marked = {}
    BY DEF Collect
<1>4. ASSUME NEW c \in stored \ orphans PROVE tree[c] \cap goneItems' = {}
    <2>1. tree[c] \subseteq marked
        <3>1. CASE c \in black
            BY <1>1, <3>1 DEF ContentMarked
        <3>2. CASE c \notin black
            <4>1. c \in Nat /\ cut \in Nat
                BY DEF Commit
            <4>2. c \in young
                BY <1>4, <3>2, <4>1
            <4> QED
                BY <4>2
        <3> QED
            BY <3>1, <3>2
    <2> QED
        BY <1>3, <2>1
<1>5. RootsMarked' /\ ContentMarked'
    BY <1>1 DEF RootsMarked, ContentMarked
<1> QED
    BY <1>1, <1>2, <1>4, <1>5 DEF SpareInv

LEMMA MarkingSpares ==
    ASSUME TypeInv, YoungInv, ReadMarkers \/ Visit \/ ReadHead \/ Collect
    PROVE  SpareInv'
<1> USE DEF TypeInv, TypeOK, StoreOK, SweepOK, SweepStep, storeVars, hashVars
<1>0. SpareInv
    BY DEF YoungInv
<1>1. CASE ReadMarkers
    <2>1. /\ phase' = "heads" /\ black' = {} /\ keep' = {} /\ todo' = Branches
          /\ stale' = {c \in Commit : marker[c] = "lapsed"} /\ marker' = marker
          /\ gray' = {c \in Commit : marker[c] = "live"}
        BY <1>0, <1>1 DEF ReadMarkers, SpareInv
    <2>2. RootsMarked' /\ ContentMarked'
        BY <2>1 DEF RootsMarked, ContentMarked
    <2> QED
        BY <2>1, <2>2 DEF SpareInv
<1>2. CASE Visit
    <2>1. PICK c \in gray : /\ black' = black \cup {c}
                            /\ gray' = (gray \cup ParentsOf(c)) \ (black \cup {c})
                            /\ keep' = keep \cup TreeOf(c)
        BY <1>2 DEF Visit
    <2>2. /\ phase' = "heads" /\ RootsMarked /\ ContentMarked
          /\ UNCHANGED <<stored, marker, head, tree, todo, stale>>
        BY <1>0, <1>2 DEF Visit, SpareInv
    <2>3. RootsMarked'
        BY <2>1, <2>2 DEF RootsMarked
    <2>4. ContentMarked'
        BY <2>1, <2>2 DEF ContentMarked, TreeOf
    <2> QED
        BY <2>2, <2>3, <2>4 DEF SpareInv
<1>3. CASE ReadHead
    <2>1. PICK b \in todo : todo' = todo \ {b} /\ gray' = {head[b]} \ ({None} \cup black)
        BY <1>3 DEF ReadHead
    <2>2. /\ phase' = "heads" /\ RootsMarked /\ ContentMarked /\ gray = {}
          /\ UNCHANGED <<stored, marker, head, tree, black, keep, stale>>
        BY <1>0, <1>3 DEF ReadHead, SpareInv
    <2>3. RootsMarked' /\ ContentMarked'
        BY <2>1, <2>2 DEF RootsMarked, ContentMarked
    <2> QED
        BY <2>2, <2>3 DEF SpareInv
<1> QED
    BY <1>1, <1>2, <1>3, CollectSpares

\* A new lease record: no handle has read it.
LEMMA StartYoung ==
    ASSUME TypeInv, LeaseInv, YoungInv, SweepStart
    PROVE  YoungInv'
<1> USE DEF TypeInv, TypeOK, storeVars, hashVars, writerVars
<1>1. /\ phase' = "markers" /\ lease' = [owner |-> lease.owner + 1, released |-> FALSE]
      /\ todo' = Branches
      /\ UNCHANGED <<storeVars, hashVars, writerVars, gray, black, keep>> /\ phase = "off"
    BY DEF SweepStart, SweepStep
<1>2. MarkInv' /\ HeadsStored' /\ SpareInv'
    BY <1>1 DEF YoungInv, MarkInv, HeadsStored, SpareInv
<1>3. lease'.owner = lease.owner + 1 /\ lease.owner \in Nat
    BY <1>1 DEF LeaseOK, Lease
<1>4. ASSUME NEW v \in Writers PROVE (DraftOK(v) /\ InstallOK(v))'
    <2>1. DraftOK(v)'
        BY <1>1 DEF YoungInv, CallsOK, DraftOK
    <2>2. seen[v].owner \in Nat /\ seen[v].owner <= lease.owner
        BY DEF LeaseInv, HandleLease, HandleOK, Lease
    <2>3. seen'[v].owner # lease'.owner
        BY <1>1, <1>3, <2>2
    <2> QED
        BY <2>1, <2>3 DEF InstallOK
<1>5. CallsOK'
    BY <1>3, <1>4 DEF CallsOK
<1> QED
    BY <1>2, <1>5 DEF YoungInv

\* What was marked stays, and what a young orphan refers to.
LEMMA RemoveYoung ==
    ASSUME TypeInv, LeaseInv, YoungInv, Remove
    PROVE  /\ YoungInv'
           /\ stored' \subseteq stored
           /\ \A c \in stored' : tree[c] \cap items \subseteq items'
<1> USE DEF TypeInv, TypeOK, hashVars, writerVars, leaseVars
<1>1. /\ phase = "remove" /\ phase' = "release"
      /\ stored' = stored \ gone /\ items' = items \ goneItems
      /\ marker' = [c \in Commit |-> IF c \in stale THEN "none" ELSE marker[c]]
      /\ gray' = {} /\ black' = {} /\ keep' = {}
      /\ UNCHANGED <<head, lease, lapsed, hashVars, writerVars>>
    BY DEF Remove, SweepStep, SweepForgets
<1>2. /\ RootsMarked /\ gray = {} /\ todo = {} /\ gone \cap black = {}
      /\ \A c \in stored \ gone : tree[c] \cap goneItems = {}
    BY <1>1 DEF YoungInv, SpareInv
<1>3. \A c \in stored' : tree[c] \cap items \subseteq items'
    BY <1>1, <1>2
<1>4. MarkInv'
    <2> SUFFICES ASSUME NEW c \in Commit, marker'[c] # "none"
                 PROVE  c \in stored' /\ tree[c] \ items' \subseteq UNION {tree[p] : p \in parents[c]}
        BY <1>1 DEF MarkInv
    <2>1. marker[c] # "none" /\ c \notin stale
        BY <1>1
    <2>2. c \in stored'
        BY <1>1, <1>2, <2>1 DEF RootsMarked, YoungInv, MarkInv
    <2> QED
        BY <1>3, <2>1, <2>2 DEF YoungInv, MarkInv
<1>5. HeadsStored'
    BY <1>1, <1>2 DEF YoungInv, HeadsStored, RootsMarked
<1>6. ASSUME NEW v \in Writers PROVE (DraftOK(v) /\ InstallOK(v))'
    <2>1. DraftOK(v) /\ InstallOK(v)
        BY DEF YoungInv, CallsOK
    <2>2. DraftOK(v)'
        BY <1>1, <2>1 DEF DraftOK
    <2>3. pc[v] = "install" => seen[v] # lease
        BY <1>1 DEF LeaseInv, HandleLease
    <2> QED
        BY <1>1, <2>1, <2>2, <2>3 DEF InstallOK
<1>7. CallsOK' /\ SpareInv'
    BY <1>1, <1>6 DEF YoungInv, CallsOK, SpareInv
<1> QED
    BY <1>1, <1>3, <1>4, <1>5, <1>7 DEF YoungInv

\* The record is marked released: what a handle read of it was the live one.
LEMMA ReleaseYoung ==
    ASSUME TypeInv, LeaseInv, YoungInv, Release
    PROVE  YoungInv'
<1> USE DEF TypeInv, TypeOK, storeVars, hashVars, writerVars
<1>1. /\ phase # "off" /\ phase' = "off" /\ gray' = {} /\ black' = {} /\ keep' = {}
      /\ UNCHANGED <<storeVars, hashVars, writerVars>>
    BY DEF Release, SweepForgets
<1>2. lease'.owner = lease.owner /\ lease'.released
    BY DEF Release, LeaseOK, Lease
<1>3. ~lease.released
    BY <1>1 DEF LeaseInv, Live
<1>4. MarkInv' /\ HeadsStored' /\ SpareInv'
    BY <1>1 DEF YoungInv, MarkInv, HeadsStored, SpareInv
<1>5. ASSUME NEW v \in Writers PROVE (DraftOK(v) /\ InstallOK(v))'
    <2>1. DraftOK(v) /\ InstallOK(v)
        BY DEF YoungInv, CallsOK
    <2>2. DraftOK(v)'
        BY <1>1, <2>1 DEF DraftOK
    <2>3. seen'[v] # lease'
        BY <1>1, <1>2, <1>3, <2>1 DEF InstallOK
    <2> QED
        BY <1>2, <2>2, <2>3 DEF InstallOK
<1>6. CallsOK'
    BY <1>2, <1>5 DEF CallsOK
<1> QED
    BY <1>4, <1>6 DEF YoungInv

LEMMA SweepYoung ==
    ASSUME TypeInv, LeaseInv, YoungInv, Sweep \/ SweepDies \/ LeaseLapses \/ MarkerLapses
    PROVE  YoungInv'
<1>1. CASE ReadMarkers \/ Visit \/ ReadHead \/ Collect
    <2>1. SpareInv'
        BY <1>1, MarkingSpares
    <2>2. UNCHANGED <<storeVars, leaseVars, hashVars, writerVars>>
        BY <1>1 DEF ReadMarkers, Visit, ReadHead, Collect
    <2> QED
        BY <2>1, <2>2, MarkingYoung DEF storeVars, leaseVars
<1>2. CASE SweepDies
    <2>1. SpareInv'
        BY <1>2 DEF SweepDies, SweepForgets, SpareInv
    <2> QED
        BY <1>2, <2>1, MarkingYoung DEF SweepDies, storeVars, leaseVars
<1>3. CASE LeaseLapses
    <2>1. SpareInv'
        BY <1>3 DEF LeaseLapses, YoungInv, SpareInv, RootsMarked, ContentMarked,
                    storeVars, hashVars, sweepVars
    <2> QED
        BY <1>3, <2>1, MarkingYoung DEF LeaseLapses, storeVars
<1>4. CASE MarkerLapses
    <2>1. PICK c \in Commit : marker[c] = "live" /\ marker' = [marker EXCEPT ![c] = "lapsed"]
        BY <1>4 DEF MarkerLapses
    <2>2. \A x \in Commit : marker'[x] = "none" <=> marker[x] = "none"
        BY <2>1 DEF TypeInv, TypeOK, StoreOK
    <2>3. UNCHANGED <<stored, items, head, lease, hashVars, sweepVars, writerVars>>
        BY <1>4 DEF MarkerLapses, leaseVars
    <2>4. SpareInv'
        BY <2>2, <2>3 DEF YoungInv, SpareInv, RootsMarked, ContentMarked, hashVars, sweepVars
    <2> QED
        BY <2>2, <2>3, <2>4, MarkingYoung
<1> QED
    BY <1>1, <1>2, <1>3, <1>4, StartYoung, RemoveYoung, ReleaseYoung DEF Sweep

LEMMA NextYoung ==
    ASSUME TypeInv, HistoryInv, LeaseInv, YoungInv, [Next]_vars
    PROVE  YoungInv'
<1>1. CASE UNCHANGED vars
    <2>1. SpareInv'
        BY <1>1 DEF vars, YoungInv, SpareInv, RootsMarked, ContentMarked, storeVars, hashVars, sweepVars
    <2> QED
        BY <1>1, <2>1, MarkingYoung DEF vars, storeVars, leaseVars
<1> QED
    BY <1>1, HandleYoung, SweepYoung DEF Next

-----------------------------------------------------------------------------
(* Without merges.                                                         *)

LEMMA RaiseOps ==
    ASSUME Raising, TypeInv, HistoryInv, NEW w \in Writers
    PROVE  /\ op[w] \notin {"commit", "merge"}
           /\ pc[w] \in {"build", "wait", "land", "publish", "rewait", "ancestor"} => op[w] = "raise"
<1>1. op[w] \in Ops \cup {"none"}
    BY DEF TypeInv, TypeOK, HandleOK
<1>2. op[w] \notin {"commit", "merge"}
    BY <1>1 DEF Raising
<1> QED
    BY <1>2 DEF HistoryInv, FlightInv, HandleInv

\* A step that keeps, for each known commit, its records or their absence,
\* and its content.
LEMMA WholeKept ==
    ASSUME KnownWhole, known' = known, tree' = tree, stored' \subseteq stored, items \subseteq items'
    PROVE  KnownWhole'
BY DEF KnownWhole, Intact

LEMMA OverBaseReturn ==
    ASSUME TypeInv, RaiseInv, NEW w \in Writers, NEW b, NEW c, Return(w, b, c)
    PROVE  \A v \in Writers : OverBase(v)'
BY DEF TypeInv, TypeOK, HandleOK, Return, Goto, OverBase, RaiseInv

LEMMA PublishRaise ==
    ASSUME Raising, TypeInv, HistoryInv, YoungInv, RaiseInv, NEW w \in Writers, Publish(w)
    PROVE  RaiseInv'
<1> USE DEF TypeInv, TypeOK, HandleOK, StoreOK, HashOK
<1>1. /\ op[w] = "raise" /\ merged[w] = None /\ ours[w] # None /\ pc[w] = "publish"
      /\ NewHead(w) = ours[w] /\ InFlight(w) = {ours[w]} /\ Expected(w) = base[w]
    <2>1. op[w] = "raise" /\ pc[w] = "publish"
        BY RaiseOps DEF Publish
    <2>2. merged[w] = None
        BY <2>1 DEF RaiseInv, OverBase
    <2> QED
        BY <2>1, <2>2 DEF TargetsOK, NewHead, InFlight, Expected
<1>2. /\ parents[ours[w]] = {base[w]} /\ anc[ours[w]] \subseteq known \cup {ours[w]} /\ base[w] \in known
    <2>1. parents[ours[w]] = {base[w]} /\ base[w] \in known
        BY <1>1 DEF HistoryInv, FlightInv, HandleInv, KnownInv
    <2> QED
        BY <1>1, <2>1, FlightHistory
<1>3. base[w] \in stored /\ marker[ours[w]] # "none" /\ base[w] \in Commit
    BY <1>1 DEF Publish, CanPublish, MarkersHeld, YoungInv, HeadsStored, None, Commit
<1>4. Intact(base[w])
    BY <1>2, <1>3 DEF RaiseInv, KnownWhole
<1>5. Intact(ours[w])
    <2>1. ours[w] \in Commit
        BY <1>1
    <2> QED
        BY <1>2, <1>3, <1>4, <2>1 DEF YoungInv, MarkInv, Intact
<1>6. KnownWhole'
    <2>1. stored' = stored /\ items' = items /\ tree' = tree /\ known' \subseteq known \cup {ours[w]}
        BY <1>1, <1>2 DEF Publish, hashVars
    <2> QED
        BY <1>5, <2>1 DEF RaiseInv, KnownWhole, Intact
<1>7. \A v \in Writers : OverBase(v)'
    BY OverBaseReturn DEF Publish
<1> QED
    BY <1>6, <1>7 DEF RaiseInv

LEMMA InstallRaise ==
    ASSUME TypeInv, HistoryInv, YoungInv, RaiseInv, NEW w \in Writers, Install(w)
    PROVE  RaiseInv'
<1>1. /\ stored' = stored \cup {theirs[w]} /\ items' = items /\ tree' = tree
      /\ theirs[w] \in known /\ known' = known
    BY DEF Install, hashVars, HistoryInv, KnownInv
<1>2. theirs[w] \in stored \/ theirs[w] = Root
    BY DEF Install, YoungInv, CallsOK, InstallOK, Installable
<1>3. tree[Root] = {}
    BY DEF HistoryInv, HashInv
<1>4. KnownWhole'
    BY <1>1, <1>2, <1>3 DEF RaiseInv, KnownWhole, Intact
<1>5. \A v \in Writers : OverBase(v)'
    <2>1. \E c : Return(w, br[w], c)
        BY DEF Install
    <2> QED
        BY <2>1, OverBaseReturn
<1> QED
    BY <1>4, <1>5 DEF RaiseInv

LEMMA LandRaise ==
    ASSUME Raising, TypeInv, HistoryInv, RaiseInv, NEW w \in Writers, Land(w)
    PROVE  RaiseInv'
<1> USE DEF TypeInv, TypeOK, HandleOK, HashOK
<1>1. op[w] = "raise" /\ ours[w] = None /\ theirs[w] = base[w] /\ merged[w] = None
    BY RaiseOps DEF Land, RaiseInv, OverBase
<1>2. pc'[w] = "publish" /\ merged' = merged
    BY <1>1 DEF Land, Goto
<1>3. \A v \in Writers : OverBase(v)'
    BY <1>1, <1>2 DEF Land, Goto, RaiseInv, OverBase
<1>4. /\ stored' = stored \cup {minted + 1} /\ items \subseteq items' /\ known' = known
      /\ tree' = [tree EXCEPT ![minted + 1] = draft[w].tree]
    BY DEF Land, ghostVars
<1>5. known \subseteq 1 .. minted
    BY DEF HistoryInv, HashInv
<1>6. \A c \in known : c # minted + 1 /\ tree'[c] = tree[c]
    <2>1. \A c \in known : c \in Commit /\ c # minted + 1
        BY <1>5 DEF Commit
    <2> QED
        BY <1>4, <2>1
<1>7. KnownWhole'
    BY <1>4, <1>6 DEF RaiseInv, KnownWhole, Intact
<1> QED
    BY <1>3, <1>7 DEF RaiseInv

LEMMA HandleRaise ==
    ASSUME Raising, TypeInv, HistoryInv, YoungInv, RaiseInv, NEW w \in Writers,
           Call(w) \/ Step(w) \/ Crash(w)
    PROVE  RaiseInv'
<1> USE DEF TypeInv, TypeOK, HandleOK
<1>1. ASSUME NEW o, NEW label \in {"build", "ancestor", "claim"}, NEW b, NEW c,
             Begin(w, o, label, b, c), o = "raise" => c = base[w] /\ label = "build"
      PROVE  RaiseInv'
    <2>1. ours[w] = None /\ merged[w] = None
        BY <1>1 DEF Begin, HistoryInv, FlightInv, HandleInv, InFlight
    <2>2. \A v \in Writers : OverBase(v)'
        BY <1>1, <2>1 DEF Begin, Goto, RaiseInv, OverBase
    <2>3. KnownWhole'
        BY <1>1, WholeKept DEF Begin, storeVars, hashVars, ghostVars, RaiseInv
    <2> QED
        BY <2>2, <2>3 DEF RaiseInv
<1>2. CASE BeginCommit(w) \/ BeginMerge(w) \/ BeginReset(w) \/ BeginCreate(w)
    BY <1>1, <1>2 DEF BeginCommit, BeginMerge, BeginReset, BeginCreate
<1>3. CASE Attach(w) \/ (\E left : GiveUp(w, left))
    <2>1. KnownWhole'
        BY <1>3, WholeKept DEF Attach, GiveUp, storeVars, hashVars, ghostVars, RaiseInv
    <2>2. \E b, c : Return(w, b, c)
        BY <1>3 DEF Attach, GiveUp
    <2> QED
        BY <2>1, <2>2, OverBaseReturn DEF RaiseInv
<1>4. CASE DeleteBranch(w)
    <2>1. KnownWhole'
        BY <1>4, WholeKept DEF DeleteBranch, hashVars, ghostVars, RaiseInv
    <2> QED
        BY <1>4, <2>1 DEF DeleteBranch, writerVars, RaiseInv, OverBase
<1>5. CASE Build(w) \/ Wait(w) \/ LandAgain(w) \/ PublishAgain(w) \/ Check(w) \/ InstallAgain(w)
    <2>1. UNCHANGED <<storeVars, hashVars, ghostVars, op, base, ours, merged, theirs>>
        BY <1>5 DEF Build, Wait, LandAgain, PublishAgain, Check, InstallAgain
    <2>2. KnownWhole'
        BY <2>1, WholeKept DEF storeVars, hashVars, ghostVars, RaiseInv
    <2>3. /\ \A v \in Writers \ {w} : pc'[v] = pc[v]
          /\ pc'[w] # "ancestor"
          /\ pc'[w] \in {"build", "wait", "land"} => pc[w] \in {"build", "wait", "land"}
        BY <1>5 DEF Build, Wait, LandAgain, PublishAgain, Check, InstallAgain, Goto
    <2> QED
        BY <2>1, <2>2, <2>3 DEF RaiseInv, OverBase
<1>6. ~LostRace(w) /\ ~Resolve(w) /\ ~FastForward(w)
    BY RaiseOps DEF LostRace, Resolve, FastForward, Ahead, RaiseInv, OverBase
<1> QED
    BY <1>2, <1>3, <1>4, <1>5, <1>6, PublishRaise, InstallRaise, LandRaise
    DEF Call, Step, Crash, LostCommit, MergeRefused, MergeNoOp, CheckFails, InstallFails, Refuse

LEMMA NextRaise ==
    ASSUME Raising, TypeInv, HistoryInv, LeaseInv, YoungInv, RaiseInv, [Next]_vars
    PROVE  RaiseInv'
<1>1. CASE Remove
    <2>1. stored' \subseteq stored /\ \A c \in stored' : tree[c] \cap items \subseteq items'
        BY <1>1, RemoveYoung
    <2>2. UNCHANGED <<hashVars, ghostVars, writerVars>>
        BY <1>1 DEF Remove
    <2>3. KnownWhole'
        BY <2>1, <2>2 DEF RaiseInv, KnownWhole, Intact, hashVars, ghostVars
    <2> QED
        BY <2>2, <2>3 DEF RaiseInv, OverBase, writerVars
<1>2. CASE \/ SweepStart \/ ReadMarkers \/ Visit \/ ReadHead \/ Collect \/ Release
           \/ SweepDies \/ LeaseLapses \/ MarkerLapses \/ UNCHANGED vars
    <2>1. UNCHANGED <<stored, items, hashVars, ghostVars, writerVars>>
        BY <1>2 DEF SweepStart, ReadMarkers, Visit, ReadHead, Collect, Release, SweepDies,
                    LeaseLapses, MarkerLapses, vars, storeVars
    <2>2. KnownWhole'
        BY <2>1, WholeKept DEF RaiseInv, hashVars, ghostVars
    <2> QED
        BY <2>1, <2>2 DEF RaiseInv, OverBase, writerVars
<1> QED
    BY <1>1, <1>2, HandleRaise DEF Next, Sweep

-----------------------------------------------------------------------------
(* The theorems.                                                           *)

\* A marker keeps the commit it is for, and what that commit added, for as
\* long as it is there, whatever age a sweep spares: until the commit is
\* published or given up.
THEOREM MarkersKeepFlights ==
    ASSUME Overrun = FALSE
    PROVE  Spec => []MarkersProtect
<1> DEFINE Inv == TypeInv /\ HistoryInv /\ LeaseInv /\ YoungInv
<1>1. Init => Inv
    BY InitType, InitHistory, InitLease, InitYoung
<1>2. Inv /\ [Next]_vars => Inv'
    BY NextType, NextHistory, NextLease, NextYoung
<1>3. Inv => MarkersProtect
    BY DEF MarkersProtect, YoungInv, MarkInv, Intact
<1> QED
    BY <1>1, <1>2, <1>3, PTL DEF Spec

\* A reader can open any branch: what its head refers to is in the store.
\* Either no sweep spares young orphans and no branch is taken away while it
\* is merged, or no call merges.
THEOREM HeadsStayIntact ==
    ASSUME Quiet \/ Raising
    PROVE  Spec => []HeadsIntact
<1>1. CASE Quiet
    <2>1. Spec => [](HistoryInv /\ HistoryIntact)
        BY <1>1, HistoryCorrect, SweepKeepsHistory, PTL
    <2>2. HistoryInv /\ HistoryIntact /\ TypeInv => HeadsIntact
        <3>1. HistoryInv => \A c \in Commit : c \in anc[c]
            BY DEF HistoryInv, HashInv
        <3>2. TypeInv => \A b \in Branches : head[b] # None => head[b] \in Commit
            BY DEF TypeInv, TypeOK, StoreOK
        <3> QED
            BY <3>1, <3>2 DEF HistoryIntact, HeadsIntact
    <2> QED
        BY <2>1, <2>2, HistoryCorrect, PTL
<1>2. CASE Raising
    <2> DEFINE Inv == TypeInv /\ HistoryInv /\ LeaseInv /\ YoungInv /\ RaiseInv
    <2>1. Init => Inv
        BY InitType, InitHistory, InitLease, InitYoung
    <2>2. Inv /\ [Next]_vars => Inv'
        BY <1>2, NextType, NextHistory, NextLease, NextYoung, NextRaise DEF Raising
    <2>3. Inv => HeadsIntact
        BY DEF HeadsIntact, YoungInv, HeadsStored, RaiseInv, KnownWhole, HistoryInv, KnownInv
    <2> QED
        BY <2>1, <2>2, <2>3, PTL DEF Spec
<1> QED
    BY <1>1, <1>2
=============================================================================
