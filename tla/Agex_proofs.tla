---------------------------- MODULE Agex_proofs ----------------------------
(* What an agent's turns, its tasks and its maps keep, for any limits, calls, *)
(* items and crashes: TurnsTrue and StopsKept for every behaviour of TSpec,    *)
(* MapsTrue for every behaviour of MSpec.                                      *)
(*                                                                             *)
(* The turns' invariant, Inv:                                                  *)
(*   StoreInv   a stored run is within its limits, and true of its calls;      *)
(*   TurnInv    so is the run in progress (RoundInv); which calls of its reply *)
(*              were made, and which is in flight (CallsInv, PlaceInv);        *)
(*   PlaneInv   what the task's plane, its world and its result say of each    *)
(*              other at each point of the turn.                               *)
(* The maps', MapInv:                                                          *)
(*   OneOrder     the delegates of a map are its items' in order, each once;   *)
(*   JobsTrue     what a job's state says of its run's end and its reply;      *)
(*   Behind       all but the last MaxParallel delegates of a map are done;    *)
(*   Collected    a reply once collected is of a job that has settled.         *)
EXTENDS AgexTask, AgexMap, FiniteSetTheorems, SequenceTheorems, TLAPS

-----------------------------------------------------------------------------
(* Types.                                                                  *)

CallIds == Ids \X Nat
Answers == [call : CallIds, how : {"ran", "over", "cut", "left"}]
Messages == [id : Ids, run : 1 .. MaxTurns, role : {"user", "assistant", "tool", "note", "notice"},
             calls : SUBSET CallIds, results : Seq(Answers)]
RunRecord == [status : Ended, sums : Nat, msgs : Seq(Messages)]
Places == {"idle", "opening", "folding", "prepare", "asking", "calls", "call", "deliver", "ending"}
States == Settled \cup {"running", "none"}

TurnType(t) ==
    /\ DOMAIN t = {"pc", "run", "resumed", "msgs", "calls", "res", "cutting", "made", "sums",
                   "spent", "told", "folded", "status"}
    /\ t.pc \in Places /\ t.run \in Nat /\ t.resumed \in BOOLEAN /\ t.msgs \in Seq(Messages)
    /\ t.calls \in Seq(CallIds) /\ t.res \in Seq(Answers) /\ t.cutting \in CallIds \cup {NoCall}
    /\ t.made \in 0 .. MaxSteps /\ t.sums \in 0 .. t.made /\ t.spent \in Nat
    /\ t.told \in BOOLEAN /\ t.status \in Ended

HostType ==
    /\ aborted \in BOOLEAN /\ tool \in {"off", "running"} /\ result \in Settled \cup {"none"}
    /\ plane \in [now : States, kept : States]
    /\ nudged \in 0 .. Nudges /\ taken \in 0 .. MaxTurns
    /\ world \in {"none", "open", "kept", "gone"} /\ again \in BOOLEAN
    /\ ran \in Ended \cup {"none", "threw", "died"}

-----------------------------------------------------------------------------
(* Messages: their calls and results, and whether a call was made, `b`     *)
(* being the calls begun.                                                  *)

CallsIn(ms) == UNION {ms[i].calls : i \in DOMAIN ms}
ResultsIn(ms) == UNION {ToSet(ms[i].results) : i \in DOMAIN ms}
Replies(ms) == {i \in DOMAIN ms : ms[i].role = "assistant"}
Says(a, b) == (a.how \in {"ran", "cut"}) <=> (a.call \in b)

\* What is said of a call is of one that was asked for, and true; and those
\* made are within the limit.
Heard(ms, b) ==
    /\ IsFiniteSet(CallsIn(ms))
    /\ \A a \in ResultsIn(ms) : a.call \in CallsIn(ms) /\ Says(a, b)
    /\ MaxToolCalls # NoLimit => Cardinality(CallsIn(ms) \cap b) <= MaxToolCalls

\* A stored run, of a turn no later than the n-th.
StoredRun(r, b, n) ==
    /\ Heard(r.msgs, b)
    /\ Cardinality(Replies(r.msgs)) + r.sums <= MaxSteps
    /\ \A c \in CallsIn(r.msgs) : c[1][1] <= n

-----------------------------------------------------------------------------
(* The turn in progress, the n-th: its counts; the calls of its reply, of  *)
(* which those answered are in `res`, and one may be in flight; and what   *)
(* its place says.                                                         *)

Before(c, t, n) == c[1][1] < n \/ (c[1][1] = n /\ c[1][2] <= Len(t.msgs))

RoundInv(t, b, n) ==
    /\ t.run \in 1 .. MaxTurns
    /\ Heard(t.msgs, b)
    /\ Cardinality(Replies(t.msgs)) + t.sums <= t.made
    /\ Cardinality(CallsIn(t.msgs) \cap b) <= t.spent
    /\ \A c \in CallsIn(t.msgs) \cup b : Before(c, t, n)

CallsInv(t, b, n) ==
    /\ \A i \in DOMAIN t.calls : t.calls[i] \in CallsIn(t.msgs) /\ t.calls[i][1][1] = n
    /\ \A i, j \in DOMAIN t.calls : t.calls[i] = t.calls[j] => i = j
    /\ \A a \in ResultsIn(t.msgs) : \A i \in DOMAIN t.calls : a.call # t.calls[i]
    /\ Len(t.res) <= Len(t.calls)
    /\ \A i \in DOMAIN t.res : t.res[i].call = t.calls[i] /\ Says(t.res[i], b)
    /\ \A i \in DOMAIN t.calls : i > Len(t.res) => (t.calls[i] \in b <=> t.cutting = t.calls[i])

CutOff(t) == t.pc = "call" \/ (t.pc = "ending" /\ t.status = "cancelled")

PlaceInv(t) ==
    /\ t.cutting # NoCall => Len(t.res) < Len(t.calls) /\ t.cutting = t.calls[Len(t.res) + 1] /\ CutOff(t)
    /\ t.pc = "call" => t.cutting # NoCall
    /\ t.pc = "calls" /\ t.calls # <<>> => Len(t.res) < Len(t.calls)
    /\ t.pc \in {"opening", "prepare", "asking"} => t.calls = <<>>
    /\ t.pc = "prepare" => t.made < MaxSteps
    /\ t.pc = "asking" => Cardinality(Replies(t.msgs)) + t.sums < t.made

-----------------------------------------------------------------------------
(* The invariant of the turns.                                             *)

\* A turn runs, and not a fold between turns; the turns over are then one
\* fewer than those taken.
InTurn == turn.pc \notin {"idle", "folding"}
Past == IF InTurn THEN taken - 1 ELSE taken

\* Calls begun are of turns that were taken, so a new one's are none of them.
StoreInv ==
    /\ stored \in Seq(RunRecord) /\ Len(stored) <= Past /\ begun \subseteq CallIds
    /\ \A n \in DOMAIN stored : StoredRun(stored[n], begun, Past)
    /\ \A c \in begun : c[1][1] <= taken

\* A tool works only for the call in flight: once its turn is gone, or a
\* result of the call stands, none does.
TurnInv ==
    /\ TurnType(turn)
    /\ InTurn =>
          /\ turn.resumed => stored # <<>>
          /\ RoundInv(turn, begun, taken) /\ CallsInv(turn, begun, taken) /\ PlaceInv(turn)
          /\ tool = "running" => turn.cutting # NoCall
    /\ ~InTurn => (turn.pc = "idle" => turn = Idle) /\ turn.msgs = <<>> /\ tool = "off"

\* What the task's plane says, and the world that is kept or deleted for it.
\* While nothing has settled the task, `again` says that the plane as last
\* committed waits for an answer; a result not yet on the plane is that of a
\* call in flight, or cut off.
PlaneInv ==
    /\ (plane.now = "none") <=> (plane.kept = "none")
    /\ ~AsTask => result = "none" /\ world = "none"
    /\ AsTask => turn.pc # "folding"
    /\ AsTask /\ InTurn => world = "open" /\ ran = "none"
    /\ world = "none" => result = "none" /\ plane.kept \in {"none", "running"}
    /\ turn.pc = "opening" => result = "none"
    /\ ~InTurn \/ result = "none" => plane.now = plane.kept
    /\ InTurn \/ result = "none" => (again <=> plane.kept = "needs_input")
    /\ InTurn /\ result # "none" /\ plane.now # result => CutOff(turn)
    /\ ~InTurn /\ result # "none" /\ ran # "cancelled" => plane.kept = result
    /\ ran = "threw" => result = "none"
    /\ PlaneTrue

Inv == HostType /\ StoreInv /\ TurnInv /\ PlaneInv

-----------------------------------------------------------------------------
(* Messages.                                                               *)

LEMMA Appended ==
    ASSUME NEW ms \in Seq(Messages), NEW m \in Messages
    PROVE  LET t == Append(ms, m) IN
           /\ t \in Seq(Messages) /\ Len(t) = Len(ms) + 1 /\ DOMAIN t = DOMAIN ms \cup {Len(ms) + 1}
           /\ CallsIn(t) = CallsIn(ms) \cup m.calls
           /\ ResultsIn(t) = ResultsIn(ms) \cup ToSet(m.results)
           /\ Replies(t) = Replies(ms) \cup (IF m.role = "assistant" THEN {Len(ms) + 1} ELSE {})
<1> DEFINE t == Append(ms, m)
<1>1. /\ t \in Seq(Messages) /\ Len(t) = Len(ms) + 1 /\ Len(ms) \in Nat /\ t[Len(ms) + 1] = m
      /\ DOMAIN t = 1 .. Len(ms) + 1 /\ DOMAIN ms = 1 .. Len(ms)
      /\ \A i \in 1 .. Len(ms) : t[i] = ms[i]
    OBVIOUS
<1> HIDE DEF t
<1>2. DOMAIN t = DOMAIN ms \cup {Len(ms) + 1} /\ Len(ms) + 1 \notin DOMAIN ms
    BY <1>1
<1>3. \A i \in DOMAIN ms : t[i] = ms[i]
    BY <1>1
<1>4. CallsIn(t) = CallsIn(ms) \cup m.calls
    BY <1>1, <1>2, <1>3 DEF CallsIn
<1>5. ResultsIn(t) = ResultsIn(ms) \cup ToSet(m.results)
    BY <1>1, <1>2, <1>3 DEF ResultsIn
<1>6. Replies(t) = Replies(ms) \cup (IF m.role = "assistant" THEN {Len(ms) + 1} ELSE {})
    BY <1>1, <1>2, <1>3 DEF Replies
<1> QED
    BY <1>1, <1>2, <1>4, <1>5, <1>6 DEF t

LEMMA RepliesFinite ==
    ASSUME NEW ms \in Seq(Messages)
    PROVE  IsFiniteSet(Replies(ms)) /\ Cardinality(Replies(ms)) \in Nat
<1>1. DOMAIN ms = 1 .. Len(ms) /\ Len(ms) \in Nat
    OBVIOUS
<1>2. IsFiniteSet(1 .. Len(ms)) /\ Replies(ms) \subseteq 1 .. Len(ms)
    BY <1>1, FS_Interval DEF Replies
<1>3. IsFiniteSet(Replies(ms))
    BY <1>2, FS_Subset
<1> QED
    BY <1>3, FS_CardinalityType

\* A message that asks for nothing, and whose results are true.
LEMMA Spoken ==
    ASSUME NEW ms \in Seq(Messages), NEW m \in Messages, NEW b, Heard(ms, b),
           m.role # "assistant", m.calls = {},
           \A a \in ToSet(m.results) : a.call \in CallsIn(ms) /\ Says(a, b)
    PROVE  LET t == Append(ms, m) IN
           /\ t \in Seq(Messages) /\ Len(t) = Len(ms) + 1 /\ Heard(t, b)
           /\ CallsIn(t) = CallsIn(ms) /\ Replies(t) = Replies(ms)
<1> DEFINE t == Append(ms, m)
<1>0. /\ t \in Seq(Messages) /\ Len(t) = Len(ms) + 1 /\ CallsIn(t) = CallsIn(ms) \cup m.calls
      /\ ResultsIn(t) = ResultsIn(ms) \cup ToSet(m.results)
      /\ Replies(t) = Replies(ms) \cup (IF m.role = "assistant" THEN {Len(ms) + 1} ELSE {})
    BY Appended
<1> HIDE DEF t
<1>1. /\ t \in Seq(Messages) /\ Len(t) = Len(ms) + 1 /\ CallsIn(t) = CallsIn(ms)
      /\ ResultsIn(t) = ResultsIn(ms) \cup ToSet(m.results) /\ Replies(t) = Replies(ms)
    BY <1>0
<1>2. Heard(t, b)
    BY <1>1 DEF Heard
<1> QED
    BY <1>1, <1>2 DEF t

\* A reply, whose calls are new.
LEMMA Replied ==
    ASSUME NEW ms \in Seq(Messages), NEW m \in Messages, NEW b, Heard(ms, b),
           m.role = "assistant", m.results = <<>>, IsFiniteSet(m.calls), m.calls \cap b = {}
    PROVE  LET t == Append(ms, m) IN
           /\ t \in Seq(Messages) /\ Len(t) = Len(ms) + 1 /\ Heard(t, b)
           /\ CallsIn(t) = CallsIn(ms) \cup m.calls /\ ResultsIn(t) = ResultsIn(ms)
           /\ CallsIn(t) \cap b = CallsIn(ms) \cap b
           /\ Cardinality(Replies(t)) = Cardinality(Replies(ms)) + 1
<1> DEFINE t == Append(ms, m)
<1>1. ToSet(m.results) = {}
    BY DEF ToSet
<1>0. /\ t \in Seq(Messages) /\ Len(t) = Len(ms) + 1 /\ CallsIn(t) = CallsIn(ms) \cup m.calls
      /\ ResultsIn(t) = ResultsIn(ms) \cup ToSet(m.results)
      /\ Replies(t) = Replies(ms) \cup (IF m.role = "assistant" THEN {Len(ms) + 1} ELSE {})
    BY Appended
<1> HIDE DEF t
<1>2. /\ t \in Seq(Messages) /\ Len(t) = Len(ms) + 1 /\ CallsIn(t) = CallsIn(ms) \cup m.calls
      /\ ResultsIn(t) = ResultsIn(ms) /\ Replies(t) = Replies(ms) \cup {Len(ms) + 1}
    BY <1>0, <1>1
<1>3. CallsIn(t) \cap b = CallsIn(ms) \cap b
    BY <1>2
<1>4. IsFiniteSet(CallsIn(t))
    <2>1. IsFiniteSet(CallsIn(ms)) /\ IsFiniteSet(m.calls)
        BY DEF Heard
    <2>2. IsFiniteSet(CallsIn(ms) \cup m.calls)
        BY <2>1, FS_Union
    <2> QED
        BY <1>2, <2>2
<1>5. Heard(t, b)
    BY <1>2, <1>3, <1>4 DEF Heard
<1>6. Len(ms) + 1 \notin Replies(ms)
    BY DEF Replies
<1>7. Cardinality(Replies(t)) = Cardinality(Replies(ms)) + 1
    BY <1>2, <1>6, RepliesFinite, FS_AddElement
<1> QED
    BY <1>2, <1>3, <1>5, <1>7 DEF t

\* A call begun that is none of these messages'.
LEMMA HeardStill ==
    ASSUME NEW ms, NEW b, NEW c, Heard(ms, b), c \notin CallsIn(ms)
    PROVE  Heard(ms, b \cup {c})
<1>1. CallsIn(ms) \cap (b \cup {c}) = CallsIn(ms) \cap b
    OBVIOUS
<1> QED
    BY <1>1 DEF Heard, Says

LEMMA NoMessages ==
    /\ <<>> \in Seq(Messages) /\ CallsIn(<<>>) = {} /\ ResultsIn(<<>>) = {} /\ Replies(<<>>) = {}
    BY DEF CallsIn, ResultsIn, Replies

LEMMA MadeFinite ==
    ASSUME NEW ms, NEW b, Heard(ms, b)
    PROVE  /\ IsFiniteSet(CallsIn(ms) \cap b) /\ Cardinality(CallsIn(ms) \cap b) \in Nat
           /\ Cardinality(CallsIn(ms)) \in Nat /\ Cardinality(CallsIn(ms) \cap b) <= Cardinality(CallsIn(ms))
    BY FS_Subset, FS_CardinalityType DEF Heard

LEMMA CallsTyped == ASSUME NEW ms \in Seq(Messages) PROVE CallsIn(ms) \subseteq CallIds
<1>1. \A i \in DOMAIN ms : ms[i] \in Messages
    OBVIOUS
<1>2. \A i \in DOMAIN ms : ms[i].calls \subseteq CallIds
    BY <1>1 DEF Messages
<1> QED
    BY <1>2 DEF CallsIn

-----------------------------------------------------------------------------
(* Frames: what a step of the turn, and one of the store, leaves to show.  *)

LEMMA StoreKeeps ==
    ASSUME StoreInv, HostType, HostType', stored' = stored, begun' = begun, taken' >= taken, Past' >= Past
    PROVE  StoreInv'
<1>1. taken \in Nat /\ taken' \in Nat /\ Past \in Int /\ Past' \in Int
    BY AgexAssumption DEF HostType, Past
<1>2. stored \in Seq(RunRecord) /\ Len(stored) \in Nat /\ DOMAIN stored = 1 .. Len(stored)
    BY DEF StoreInv
<1>3. Len(stored) <= Past'
    BY <1>1, <1>2 DEF StoreInv
<1>4. \A c \in begun : c \in CallIds /\ c[1][1] <= taken'
    BY <1>1 DEF StoreInv, CallIds, Ids
<1>5. ASSUME NEW n \in DOMAIN stored PROVE StoredRun(stored[n], begun, Past')
    <2>1. StoredRun(stored[n], begun, Past) /\ stored[n] \in RunRecord
        BY <1>2, <1>5 DEF StoreInv
    <2>2. ASSUME NEW c \in CallsIn(stored[n].msgs) PROVE c[1][1] \in Nat /\ c[1][1] <= Past'
        <3>1. c \in CallIds
            BY <2>1, CallsTyped DEF RunRecord
        <3>2. c[1][1] \in Nat /\ c[1][1] <= Past
            BY <2>1, <3>1 DEF StoredRun, CallIds, Ids
        <3> QED
            BY <1>1, <3>2
    <2> QED
        BY <2>1, <2>2 DEF StoredRun
<1> QED
    BY <1>2, <1>3, <1>4, <1>5 DEF StoreInv

\* A step of the turn alone, or one that nudges the model.
LEMMA TurnNudge ==
    ASSUME Inv, InTurn, TurnType(turn'), turn'.pc \notin {"idle", "folding", "opening"},
           CutOff(turn) => CutOff(turn'), turn'.resumed = turn.resumed,
           RoundInv(turn', begun, taken), CallsInv(turn', begun, taken), PlaceInv(turn'),
           tool = "running" => turn'.cutting # NoCall,
           UNCHANGED <<stored, aborted, tool, result, plane, taken, begun, task>>,
           nudged' \in 0 .. Nudges
    PROVE  Inv'
<1>1. HostType'
    BY DEF Inv, HostType, task
<1>2. InTurn' /\ Past' = Past
    BY DEF InTurn, Past
<1>3. StoreInv'
    <2>1. taken \in Nat /\ Past \in Int
        BY AgexAssumption DEF Inv, HostType, Past
    <2>2. taken' >= taken /\ Past' >= Past
        BY <1>2, <2>1
    <2> QED
        BY <1>1, <2>2, StoreKeeps DEF Inv
<1>4. TurnInv'
    BY <1>2 DEF Inv, TurnInv
<1>5. PlaneInv'
    BY <1>2 DEF Inv, PlaneInv, PlaneTrue, task, AsTask
<1> QED
    BY <1>1, <1>3, <1>4, <1>5 DEF Inv

LEMMA TurnStep ==
    ASSUME Inv, InTurn, TurnType(turn'), turn'.pc \notin {"idle", "folding", "opening"},
           CutOff(turn) => CutOff(turn'), turn'.resumed = turn.resumed,
           RoundInv(turn', begun, taken), CallsInv(turn', begun, taken), PlaceInv(turn'),
           tool = "running" => turn'.cutting # NoCall,
           UNCHANGED <<stored, aborted, tool, host, taken, begun, task>>
    PROVE  Inv'
<1>1. nudged' \in 0 .. Nudges
    BY DEF Inv, HostType, host
<1>2. UNCHANGED <<stored, aborted, tool, result, plane, taken, begun, task>>
    BY DEF host
<1> QED
    BY <1>1, <1>2, TurnNudge

LEMMA NoCallsHeld ==
    ASSUME NEW t, NEW b, NEW n, t.calls = <<>>, t.res = <<>>
    PROVE  CallsInv(t, b, n)
    BY DEF CallsInv

\* The loop's head.
LEMMA Rounds ==
    ASSUME NEW t, TurnType(t), NEW b, NEW n, RoundInv(t, b, n),
           t.calls = <<>>, t.res = <<>>, t.cutting = NoCall
    PROVE  /\ TurnType(Round(t)) /\ Round(t).pc \in {"ending", "prepare"}
           /\ RoundInv(Round(t), b, n) /\ CallsInv(Round(t), b, n) /\ PlaceInv(Round(t))
           /\ Round(t).resumed = t.resumed /\ Round(t).cutting = NoCall
<1>1. PICK u : u = Round(t)
    OBVIOUS
<1>2. /\ DOMAIN u = DOMAIN t /\ u.msgs = t.msgs /\ u.calls = t.calls /\ u.res = t.res
      /\ u.cutting = t.cutting /\ u.made = t.made /\ u.sums = t.sums /\ u.spent = t.spent
      /\ u.told = t.told /\ u.run = t.run /\ u.resumed = t.resumed
      /\ \/ u.pc = "ending" /\ u.status \in {"failed", "cancelled"}
         \/ u.pc = "prepare" /\ u.status = t.status /\ ~(t.made >= MaxSteps)
    BY <1>1 DEF Round, TurnType
<1>3. TurnType(u) /\ u.pc \in {"ending", "prepare"}
    BY <1>2 DEF TurnType, Places, Ended
<1>4. RoundInv(u, b, n)
    BY <1>2 DEF RoundInv, Before
<1>5. CallsInv(u, b, n)
    BY <1>2, NoCallsHeld
<1>6. u.pc = "prepare" => u.made < MaxSteps
    BY <1>2, AgexAssumption DEF TurnType
<1>7. PlaceInv(u)
    BY <1>2, <1>6 DEF PlaceInv
<1> QED
    BY <1>1, <1>2, <1>3, <1>4, <1>5, <1>7

\* The turn's end.
SameButPlace(t, u) ==
    /\ DOMAIN u = DOMAIN t /\ u.msgs = t.msgs /\ u.calls = t.calls /\ u.res = t.res
    /\ u.cutting = t.cutting /\ u.made = t.made /\ u.sums = t.sums /\ u.spent = t.spent
    /\ u.told = t.told /\ u.run = t.run /\ u.resumed = t.resumed

LEMMA Ends ==
    ASSUME NEW t, TurnType(t), NEW b, NEW n, RoundInv(t, b, n), CallsInv(t, b, n), PlaceInv(t),
           NEW u, SameButPlace(t, u), u.pc = "ending", u.status \in Ended,
           t.cutting # NoCall => u.status = "cancelled"
    PROVE  TurnType(u) /\ RoundInv(u, b, n) /\ CallsInv(u, b, n) /\ PlaceInv(u)
<1>3. TurnType(u)
    BY DEF TurnType, Places, SameButPlace
<1>4. RoundInv(u, b, n)
    BY DEF RoundInv, Before, SameButPlace
<1>5. CallsInv(u, b, n)
    BY DEF CallsInv, SameButPlace
<1>7. PlaceInv(u)
    BY DEF PlaceInv, CutOff, SameButPlace
<1> QED
    BY <1>3, <1>4, <1>5, <1>7

LEMMA RunningFacts ==
    ASSUME Inv, turn.pc \notin {"idle", "folding"}
    PROVE  /\ InTurn /\ TurnType(turn)
           /\ RoundInv(turn, begun, taken) /\ CallsInv(turn, begun, taken) /\ PlaceInv(turn)
           /\ tool = "running" => turn.cutting # NoCall
    BY DEF Inv, InTurn, TurnInv

LEMMA EndsKeeps ==
    ASSUME Inv, turn.pc \notin {"idle", "folding", "ending"}, SameButPlace(turn, turn'),
           turn'.pc = "ending", turn'.status \in Ended, turn.cutting # NoCall => turn'.status = "cancelled",
           UNCHANGED <<stored, aborted, tool, host, taken, begun, task>>
    PROVE  Inv'
<1>1. InTurn /\ TurnType(turn) /\ (tool = "running" => turn.cutting # NoCall)
    BY RunningFacts
<1>2. TurnType(turn') /\ RoundInv(turn', begun, taken) /\ CallsInv(turn', begun, taken) /\ PlaceInv(turn')
    BY RunningFacts, Ends
<1>3. CutOff(turn) => CutOff(turn')
    <2>1. turn.pc = "call" => turn.cutting # NoCall
        BY RunningFacts DEF PlaceInv
    <2> QED
        BY <2>1 DEF CutOff
<1>4. turn'.resumed = turn.resumed /\ turn'.cutting = turn.cutting /\ turn'.pc \notin {"idle", "folding", "opening"}
    BY DEF SameButPlace
<1> QED
    BY <1>1, <1>2, <1>3, <1>4, TurnStep

LEMMA FailsKeeps ==
    ASSUME Inv, turn.pc \notin {"idle", "folding", "ending"}, NEW status \in Ended, Fails(status), UNCHANGED task,
           turn.cutting # NoCall => aborted
    PROVE  Inv'
<1>1. PICK s : s = IF aborted THEN "cancelled" ELSE status
    OBVIOUS
<1>2. s \in Ended /\ (turn.cutting # NoCall => s = "cancelled")
    BY <1>1 DEF Ended
<1>3. turn' = [turn EXCEPT !.pc = "ending", !.status = s]
    BY <1>1 DEF Fails
<1>4. SameButPlace(turn, turn') /\ turn'.pc = "ending" /\ turn'.status = s
    BY <1>3, RunningFacts DEF SameButPlace, TurnType
<1>6. UNCHANGED <<stored, aborted, tool, host, taken, begun, task>>
    BY DEF Fails
<1> QED
    BY <1>2, <1>4, <1>6, EndsKeeps

-----------------------------------------------------------------------------
(* The steps of a turn up to a reply.                                      *)

LEMMA NoCallApart == NoCall \notin CallIds
    BY DEF NoCall, CallIds

LEMMA Quiet ==
    ASSUME NEW t, TurnType(t), NEW b, NEW n, CallsInv(t, b, n), PlaceInv(t), t.calls = <<>>
    PROVE  t.res = <<>> /\ t.cutting = NoCall
<1>1. Len(t.calls) = 0 /\ Len(t.res) \in Nat /\ t.res \in Seq(Answers)
    BY DEF TurnType
<1>2. Len(t.res) <= 0
    BY <1>1 DEF CallsInv
<1>3. t.res = <<>>
    BY <1>1, <1>2, EmptySeq
<1> QED
    BY <1>1, <1>3 DEF PlaceInv

LEMMA OpenedKeeps == ASSUME Inv, Opened, UNCHANGED task PROVE Inv'
<1>1. turn.pc = "opening" /\ turn' = Round(turn)
    BY DEF Opened
<1>2. /\ InTurn /\ TurnType(turn) /\ RoundInv(turn, begun, taken)
      /\ CallsInv(turn, begun, taken) /\ PlaceInv(turn)
      /\ tool = "running" => turn.cutting # NoCall
    BY <1>1, RunningFacts
<1>3. turn.calls = <<>> /\ turn.res = <<>> /\ turn.cutting = NoCall
    BY <1>1, <1>2, Quiet DEF PlaceInv
<1>4. /\ TurnType(turn') /\ turn'.pc \in {"ending", "prepare"}
      /\ RoundInv(turn', begun, taken) /\ CallsInv(turn', begun, taken) /\ PlaceInv(turn')
      /\ turn'.resumed = turn.resumed
    BY <1>1, <1>2, <1>3, Rounds
<1>5. ~CutOff(turn) /\ tool # "running"
    BY <1>1, <1>2, <1>3 DEF CutOff
<1> QED
    BY <1>2, <1>4, <1>5, TurnStep DEF Opened

LEMMA PrepareKeeps == ASSUME Inv, Prepare, UNCHANGED task PROVE Inv'
<1>1. /\ InTurn /\ TurnType(turn) /\ RoundInv(turn, begun, taken)
      /\ CallsInv(turn, begun, taken) /\ PlaceInv(turn)
      /\ tool = "running" => turn.cutting # NoCall
    BY RunningFacts DEF Prepare
<1>2. PICK n \in 0 .. MaxSums : /\ n > 0 => n <= MaxSteps - turn.made - 1
                                /\ turn' = [turn EXCEPT !.pc = "asking", !.made = @ + n + 1, !.sums = @ + n]
    BY DEF Prepare
<1>3. turn.pc = "prepare" /\ turn.calls = <<>> /\ turn.res = <<>> /\ turn.cutting = NoCall /\ turn.made < MaxSteps
    BY <1>1, Quiet DEF Prepare, PlaceInv
<1>4. /\ DOMAIN turn' = DOMAIN turn /\ turn'.msgs = turn.msgs /\ turn'.calls = turn.calls /\ turn'.res = turn.res
      /\ turn'.cutting = turn.cutting /\ turn'.made = turn.made + n + 1 /\ turn'.sums = turn.sums + n
      /\ turn'.spent = turn.spent /\ turn'.told = turn.told /\ turn'.run = turn.run
      /\ turn'.resumed = turn.resumed /\ turn'.pc = "asking" /\ turn'.status = turn.status
    BY <1>1, <1>2 DEF TurnType
<1>5. /\ n \in Nat /\ MaxSteps \in Nat /\ turn.made \in Nat /\ turn.sums \in Nat
      /\ turn.sums <= turn.made /\ Cardinality(Replies(turn.msgs)) \in Nat
    BY <1>1, AgexAssumption, RepliesFinite DEF TurnType
<1>6. turn'.made \in 0 .. MaxSteps /\ turn'.sums \in 0 .. turn'.made
    BY <1>2, <1>3, <1>4, <1>5
<1>7. TurnType(turn')
    BY <1>1, <1>4, <1>6 DEF TurnType, Places
<1>8. Cardinality(Replies(turn'.msgs)) + turn'.sums < turn'.made
    BY <1>1, <1>4, <1>5 DEF RoundInv
<1>9. RoundInv(turn', begun, taken)
    <2>1. Cardinality(Replies(turn'.msgs)) + turn'.sums <= turn'.made
        BY <1>4, <1>5, <1>8
    <2> QED
        BY <1>1, <1>4, <2>1 DEF RoundInv, Before
<1>10. CallsInv(turn', begun, taken) /\ PlaceInv(turn')
    BY <1>3, <1>4, <1>8, NoCallsHeld DEF PlaceInv
<1>11. ~CutOff(turn) /\ tool # "running"
    BY <1>1, <1>3 DEF CutOff
<1>12. UNCHANGED <<stored, aborted, tool, host, taken, begun, task>>
    BY DEF Prepare
<1> QED
    BY <1>1, <1>4, <1>7, <1>9, <1>10, <1>11, <1>12, TurnStep

LEMMA ReplyCalls ==
    ASSUME NEW n \in Nat, NEW id
    PROVE  LET calls == [i \in 1 .. n |-> <<id, i>>] IN
           IsFiniteSet(ToSet(calls)) /\ ToSet(calls) = {<<id, i>> : i \in 1 .. n}
<1> DEFINE calls == [i \in 1 .. n |-> <<id, i>>]
<1>1. ToSet(calls) = {calls[i] : i \in 1 .. n}
    BY DEF ToSet
<1>2. ToSet(calls) = {<<id, i>> : i \in 1 .. n}
    BY <1>1
<1>3. IsFiniteSet(1 .. n)
    BY FS_Interval
<1>4. IsFiniteSet({calls[i] : i \in 1 .. n})
    <2> DEFINE g == [i \in 1 .. n |-> calls[i]]
    <2>1. g \in Surjection(1 .. n, {calls[i] : i \in 1 .. n})
        BY DEF Surjection
    <2> QED
        BY <1>3, <2>1, FS_Surjection
<1> QED
    BY <1>1, <1>2, <1>4

LEMMA ReplyKeeps == ASSUME Inv, Reply, UNCHANGED task PROVE Inv'
<1>1. /\ InTurn /\ TurnType(turn) /\ RoundInv(turn, begun, taken)
      /\ CallsInv(turn, begun, taken) /\ PlaceInv(turn)
      /\ tool = "running" => turn.cutting # NoCall
    BY RunningFacts DEF Reply
<1>2. turn.pc = "asking" /\ turn.calls = <<>> /\ turn.res = <<>> /\ turn.cutting = NoCall
    BY <1>1, Quiet DEF Reply, PlaceInv
<1>3. taken \in Nat /\ begun \subseteq CallIds /\ turn.msgs \in Seq(Messages) /\ Len(turn.msgs) \in Nat
    BY <1>1, AgexAssumption DEF Inv, HostType, StoreInv, TurnType
<1>4. PICK id : id = NewId(taken, turn)
    OBVIOUS
<1>5. id = <<taken, Len(turn.msgs) + 1>> /\ id \in Ids
    BY <1>3, <1>4 DEF NewId, Ids
<1>6. PICK n, calls :
         /\ n \in Nat
         /\ calls = [i \in 1 .. n |-> <<id, i>>]
         /\ turn' = [Say1(turn, "assistant", ToSet(calls), <<>>) EXCEPT !.pc = "calls", !.calls = calls, !.res = <<>>]
    <2>1. PICK n \in 0 .. IF turn.made <= WideTo THEN CallsPer ELSE 1 :
             turn' = [Say1(turn, "assistant", ToSet([i \in 1 .. n |-> <<id, i>>]), <<>>) EXCEPT
                        !.pc = "calls", !.calls = [i \in 1 .. n |-> <<id, i>>], !.res = <<>>]
        BY <1>4 DEF Reply
    <2>2. n \in Nat
        BY AgexAssumption
    <2> QED
        BY <2>1, <2>2
<1>7. PICK m : m = Msg(turn, "assistant", ToSet(calls), <<>>)
    OBVIOUS
<1>8. /\ IsFiniteSet(ToSet(calls)) /\ ToSet(calls) = {<<id, i>> : i \in 1 .. n}
    BY <1>6, ReplyCalls
<1>9. calls \in Seq(CallIds) /\ ToSet(calls) \subseteq CallIds /\ DOMAIN calls = 1 .. n
    <2>1. \A i \in 1 .. n : <<id, i>> \in CallIds
        BY <1>5 DEF CallIds
    <2>2. calls \in Seq(CallIds) /\ DOMAIN calls = 1 .. n
        BY <1>6, <2>1
    <2> QED
        BY <1>8, <2>1, <2>2
<1>10. m \in Messages /\ m.role = "assistant" /\ m.results = <<>> /\ m.calls = ToSet(calls)
    <2>1. /\ m.id = id /\ m.run = turn.run /\ m.role = "assistant" /\ m.calls = ToSet(calls) /\ m.results = <<>>
          /\ m = [id |-> m.id, run |-> m.run, role |-> m.role, calls |-> m.calls, results |-> m.results]
        BY <1>4, <1>7 DEF Msg
    <2>2. m.run \in 1 .. MaxTurns
        BY <1>1, <2>1 DEF RoundInv
    <2>3. <<>> \in Seq(Answers)
        OBVIOUS
    <2> QED
        BY <1>5, <1>9, <2>1, <2>2, <2>3 DEF Messages
<1>11. /\ DOMAIN turn' = DOMAIN turn /\ turn'.msgs = Append(turn.msgs, m) /\ turn'.calls = calls /\ turn'.res = <<>>
       /\ turn'.cutting = turn.cutting /\ turn'.made = turn.made /\ turn'.sums = turn.sums
       /\ turn'.spent = turn.spent /\ turn'.told = turn.told /\ turn'.run = turn.run
       /\ turn'.resumed = turn.resumed /\ turn'.pc = "calls" /\ turn'.status = turn.status
    BY <1>1, <1>6, <1>7 DEF TurnType, Say1
<1>12. \A c \in CallsIn(turn.msgs) \cup begun : c \notin ToSet(calls)
    <2>1. SUFFICES ASSUME NEW c \in CallsIn(turn.msgs) \cup begun, NEW i \in 1 .. n, c = <<id, i>>
                   PROVE  FALSE
        BY <1>8
    <2>2. Before(c, turn, taken)
        BY <1>1 DEF RoundInv
    <2>3. c[1][1] = taken /\ c[1][2] = Len(turn.msgs) + 1
        BY <1>5, <2>1
    <2> QED
        BY <1>3, <2>2, <2>3 DEF Before
<1>13. Heard(turn.msgs, begun)
    BY <1>1 DEF RoundInv
<1>14. /\ turn'.msgs \in Seq(Messages) /\ Len(turn'.msgs) = Len(turn.msgs) + 1 /\ Heard(turn'.msgs, begun)
       /\ CallsIn(turn'.msgs) = CallsIn(turn.msgs) \cup ToSet(calls) /\ ResultsIn(turn'.msgs) = ResultsIn(turn.msgs)
       /\ CallsIn(turn'.msgs) \cap begun = CallsIn(turn.msgs) \cap begun
       /\ Cardinality(Replies(turn'.msgs)) = Cardinality(Replies(turn.msgs)) + 1
    <2>1. m.calls \cap begun = {} /\ IsFiniteSet(m.calls)
        BY <1>8, <1>10, <1>12
    <2> QED
        BY <1>3, <1>10, <1>11, <1>13, <2>1, Replied
<1>15. TurnType(turn')
    BY <1>1, <1>9, <1>11, <1>14 DEF TurnType, Places
<1>16. RoundInv(turn', begun, taken)
    <2>1. Cardinality(Replies(turn'.msgs)) + turn'.sums <= turn'.made
        <3>1. Cardinality(Replies(turn.msgs)) + turn.sums < turn.made
            BY <1>1, <1>2 DEF PlaceInv
        <3> QED
            BY <1>1, <1>3, <1>11, <1>14, <3>1, RepliesFinite DEF TurnType
    <2>2. ASSUME NEW c \in CallsIn(turn'.msgs) \cup begun PROVE Before(c, turn', taken)
        <3>1. CASE c \in ToSet(calls)
            <4>1. c[1] = id
                BY <1>8, <3>1
            <4> QED
                BY <1>3, <1>5, <1>14, <4>1 DEF Before
        <3>2. CASE c \in CallsIn(turn.msgs) \cup begun
            <4>1. Before(c, turn, taken) /\ c \in CallIds
                BY <1>1, <1>3, <3>2, CallsTyped DEF RoundInv
            <4> QED
                BY <1>3, <1>14, <4>1 DEF Before, CallIds, Ids
        <3> QED
            BY <1>14, <3>1, <3>2
    <2> QED
        BY <1>1, <1>11, <1>14, <2>1, <2>2 DEF RoundInv
<1>17. CallsInv(turn', begun, taken)
    <2>1. ASSUME NEW i \in DOMAIN calls PROVE calls[i] = <<id, i>> /\ calls[i] \in ToSet(calls) /\ calls[i][1][1] = taken
        BY <1>5, <1>6, <1>9 DEF ToSet
    <2>2. \A i, j \in DOMAIN calls : calls[i] = calls[j] => i = j
        BY <2>1
    <2>3. ASSUME NEW a \in ResultsIn(turn'.msgs), NEW i \in DOMAIN calls PROVE a.call # calls[i]
        <3>1. a.call \in CallsIn(turn.msgs)
            BY <1>13, <1>14 DEF Heard
        <3> QED
            BY <1>12, <2>1, <3>1
    <2>4. ASSUME NEW i \in DOMAIN calls PROVE calls[i] \notin begun /\ NoCall # calls[i]
        BY <1>9, <1>12, <2>1, NoCallApart
    <2> QED
        BY <1>2, <1>9, <1>11, <1>14, <2>1, <2>2, <2>3, <2>4 DEF CallsInv
<1>18. PlaceInv(turn')
    <2>1. calls # <<>> => Len(<<>>) < Len(calls)
        BY <1>9, EmptySeq, LenProperties
    <2> QED
        BY <1>2, <1>11, <2>1 DEF PlaceInv
<1>19. ~CutOff(turn) /\ tool # "running" /\ UNCHANGED <<stored, aborted, tool, host, taken, begun, task>>
    BY <1>1, <1>2 DEF CutOff, Reply
<1> QED
    BY <1>1, <1>11, <1>15, <1>16, <1>17, <1>18, <1>19, TurnStep

\* The messages a turn adds that ask for nothing.
LEMMA Says1 ==
    ASSUME Inv, NEW t, TurnType(t), RoundInv(t, begun, taken),
           NEW role \in {"user", "tool", "note", "notice"}, NEW results \in Seq(Answers),
           \A a \in ToSet(results) : a.call \in CallsIn(t.msgs) /\ Says(a, begun)
    PROVE  LET u == Say1(t, role, {}, results) IN
           /\ TurnType(u) /\ RoundInv(u, begun, taken)
           /\ CallsIn(u.msgs) = CallsIn(t.msgs) /\ Replies(u.msgs) = Replies(t.msgs)
           /\ u.calls = t.calls /\ u.res = t.res /\ u.cutting = t.cutting /\ u.made = t.made /\ u.sums = t.sums
           /\ u.spent = t.spent /\ u.told = t.told /\ u.run = t.run /\ u.resumed = t.resumed
           /\ u.pc = t.pc /\ u.status = t.status /\ DOMAIN u = DOMAIN t
<1>1. PICK m : m = Msg(t, role, {}, results)
    OBVIOUS
<1>2. PICK u : u = Say1(t, role, {}, results)
    OBVIOUS
<1>3. /\ u.calls = t.calls /\ u.res = t.res /\ u.cutting = t.cutting /\ u.made = t.made /\ u.sums = t.sums
      /\ u.spent = t.spent /\ u.told = t.told /\ u.run = t.run /\ u.resumed = t.resumed
      /\ u.pc = t.pc /\ u.status = t.status /\ DOMAIN u = DOMAIN t /\ u.msgs = Append(t.msgs, m)
    BY <1>1, <1>2 DEF Say1, TurnType
<1>4. taken \in Nat /\ t.msgs \in Seq(Messages) /\ Len(t.msgs) \in Nat /\ begun \subseteq CallIds
    BY AgexAssumption DEF Inv, HostType, TurnType, StoreInv
<1>5. m \in Messages /\ m.role # "assistant" /\ m.calls = {} /\ m.results = results
    <2>1. /\ m.id = <<taken, Len(t.msgs) + 1>> /\ m.run = t.run /\ m.role = role /\ m.calls = {} /\ m.results = results
          /\ m = [id |-> m.id, run |-> m.run, role |-> m.role, calls |-> m.calls, results |-> m.results]
        BY <1>1 DEF Msg, NewId
    <2>2. m.run \in 1 .. MaxTurns /\ m.id \in Ids
        BY <1>4, <2>1 DEF RoundInv, Ids
    <2> QED
        BY <2>1, <2>2 DEF Messages
<1>6. /\ u.msgs \in Seq(Messages) /\ Len(u.msgs) = Len(t.msgs) + 1 /\ Heard(u.msgs, begun)
      /\ CallsIn(u.msgs) = CallsIn(t.msgs) /\ Replies(u.msgs) = Replies(t.msgs)
    BY <1>3, <1>4, <1>5, Spoken DEF RoundInv
<1>7. TurnType(u)
    BY <1>3, <1>6 DEF TurnType
<1>8. ASSUME NEW c \in CallsIn(t.msgs) \cup begun PROVE Before(c, u, taken)
    <2>1. Before(c, t, taken) /\ c \in CallIds
        BY <1>4, CallsTyped DEF RoundInv
    <2> QED
        BY <1>4, <1>6, <2>1 DEF Before, CallIds, Ids
<1>9. RoundInv(u, begun, taken)
    BY <1>3, <1>6, <1>8 DEF RoundInv
<1> QED
    BY <1>2, <1>3, <1>6, <1>7, <1>9

LEMMA NoResults == <<>> \in Seq(Answers) /\ ToSet(<<>>) = {}
    BY DEF ToSet

LEMMA StopKeeps == ASSUME Inv, Stop, UNCHANGED task PROVE Inv'
<1>1. /\ InTurn /\ TurnType(turn) /\ RoundInv(turn, begun, taken)
      /\ CallsInv(turn, begun, taken) /\ PlaceInv(turn)
      /\ tool = "running" => turn.cutting # NoCall
    BY RunningFacts DEF Stop
<1>2. turn.pc = "calls" /\ turn.calls = <<>> /\ turn.res = <<>> /\ turn.cutting = NoCall
    BY <1>1, Quiet DEF Stop
<1>3. CASE AsTask /\ nudged < Nudges
    <2>1. PICK t : t = Say1(turn, "user", {}, <<>>)
        OBVIOUS
    <2>2. /\ TurnType(t) /\ RoundInv(t, begun, taken) /\ t.calls = <<>> /\ t.res = <<>>
          /\ t.cutting = NoCall /\ t.resumed = turn.resumed
        BY <1>1, <1>2, <2>1, NoResults, Says1
    <2>3. turn' = Round(t) /\ nudged' = nudged + 1
        BY <1>3, <2>1 DEF Stop
    <2>4. /\ TurnType(turn') /\ turn'.pc \in {"ending", "prepare"} /\ RoundInv(turn', begun, taken)
          /\ CallsInv(turn', begun, taken) /\ PlaceInv(turn') /\ turn'.resumed = turn.resumed
        BY <2>2, <2>3, Rounds
    <2>5. nudged' \in 0 .. Nudges
        BY <1>3, <2>3, AgexAssumption DEF Inv, HostType
    <2>6. ~CutOff(turn) /\ tool # "running"
        BY <1>1, <1>2 DEF CutOff
    <2>7. UNCHANGED <<stored, aborted, tool, result, plane, taken, begun, task>>
        BY DEF Stop
    <2> QED
        BY <1>1, <2>4, <2>5, <2>6, <2>7, TurnNudge
<1>4. CASE ~(AsTask /\ nudged < Nudges)
    <2>1. /\ turn' = [turn EXCEPT !.pc = "ending", !.status = IF AsTask THEN "failed" ELSE "completed"]
          /\ UNCHANGED nudged
        BY <1>4 DEF Stop
    <2>2. SameButPlace(turn, turn') /\ turn'.pc = "ending" /\ turn'.status \in Ended
        BY <1>1, <2>1 DEF SameButPlace, TurnType, Ended
    <2>3. UNCHANGED <<stored, aborted, tool, host, taken, begun, task>>
        BY <2>1 DEF Stop, host
    <2> QED
        BY <1>2, <2>2, <2>3, EndsKeeps
<1> QED
    BY <1>3, <1>4

-----------------------------------------------------------------------------
(* The calls of a reply.                                                   *)

\* The next call is asked for, and not begun; what is appended to the
\* results says what became of it.
LEMMA NextCall ==
    ASSUME NEW t, TurnType(t), NEW b, NEW n, CallsInv(t, b, n), Len(t.res) < Len(t.calls)
    PROVE  LET c == t.calls[Len(t.res) + 1] IN
           /\ Len(t.res) + 1 \in DOMAIN t.calls /\ c \in CallIds /\ c \in CallsIn(t.msgs) /\ c[1][1] = n
           /\ (c \in b) <=> (t.cutting = c)
<1>1. /\ Len(t.res) \in Nat /\ Len(t.calls) \in Nat /\ DOMAIN t.calls = 1 .. Len(t.calls)
      /\ \A i \in DOMAIN t.calls : t.calls[i] \in CallIds
    BY DEF TurnType
<1>2. Len(t.res) + 1 \in DOMAIN t.calls /\ Len(t.res) + 1 > Len(t.res)
    BY <1>1
<1> QED
    BY <1>1, <1>2 DEF CallsInv

LEMMA ResultAdded ==
    ASSUME NEW t, TurnType(t), NEW b, NEW n, CallsInv(t, b, n), PlaceInv(t), Len(t.res) < Len(t.calls),
           NEW a \in Answers, a.call = t.calls[Len(t.res) + 1], Says(a, b),
           NEW u, u.msgs = t.msgs, u.calls = t.calls, u.res = Append(t.res, a), u.cutting = NoCall
    PROVE  CallsInv(u, b, n) /\ u.res \in Seq(Answers) /\ Len(u.res) = Len(t.res) + 1
<1>1. /\ Len(t.res) \in Nat /\ Len(t.calls) \in Nat /\ DOMAIN t.calls = 1 .. Len(t.calls)
      /\ t.res \in Seq(Answers) /\ DOMAIN t.res = 1 .. Len(t.res)
      /\ \A i \in DOMAIN t.calls : t.calls[i] \in CallIds
    BY DEF TurnType
<1>2. /\ u.res \in Seq(Answers) /\ Len(u.res) = Len(t.res) + 1 /\ DOMAIN u.res = 1 .. Len(t.res) + 1
      /\ \A i \in 1 .. Len(t.res) : u.res[i] = t.res[i]
      /\ u.res[Len(t.res) + 1] = a
    BY <1>1
<1>3. Len(u.res) <= Len(u.calls)
    BY <1>1, <1>2
<1>4. ASSUME NEW i \in DOMAIN u.res PROVE u.res[i].call = u.calls[i] /\ Says(u.res[i], b)
    <2>1. CASE i = Len(t.res) + 1
        BY <1>2, <2>1
    <2>2. CASE i \in 1 .. Len(t.res)
        BY <1>1, <1>2, <2>2 DEF CallsInv
    <2> QED
        BY <1>1, <1>2, <2>1, <2>2
<1>5. ASSUME NEW i \in DOMAIN u.calls, i > Len(u.res) PROVE u.calls[i] \in b <=> u.cutting = u.calls[i]
    <2>1. i \in DOMAIN t.calls /\ i > Len(t.res) /\ i # Len(t.res) + 1
        BY <1>1, <1>2, <1>5
    <2>2. t.calls[i] \in b <=> t.cutting = t.calls[i]
        BY <2>1 DEF CallsInv
    <2>3. t.calls[i] # t.calls[Len(t.res) + 1]
        BY <1>1, <2>1 DEF CallsInv
    <2>4. t.calls[i] # NoCall
        BY <1>1, <2>1, NoCallApart
    <2>5. t.cutting # t.calls[i]
        BY <2>3, <2>4 DEF PlaceInv
    <2> QED
        BY <2>2, <2>4, <2>5
<1> QED
    BY <1>2, <1>3, <1>4, <1>5 DEF CallsInv

LEMMA RefusedKeeps == ASSUME Inv, CallRefused, UNCHANGED task PROVE Inv'
<1>1. /\ InTurn /\ TurnType(turn) /\ RoundInv(turn, begun, taken)
      /\ CallsInv(turn, begun, taken) /\ PlaceInv(turn)
      /\ tool = "running" => turn.cutting # NoCall
    BY RunningFacts DEF CallRefused
<1>2. turn.pc = "calls" /\ turn.cutting = NoCall /\ Len(turn.res) < Len(turn.calls)
    BY <1>1 DEF CallRefused, PlaceInv, CutOff
<1>3. PICK a : a = Answer(Next1, "over")
    OBVIOUS
<1>4. /\ DOMAIN turn' = DOMAIN turn /\ turn'.msgs = turn.msgs /\ turn'.calls = turn.calls
      /\ turn'.res = Append(turn.res, a) /\ turn'.cutting = turn.cutting /\ turn'.made = turn.made
      /\ turn'.sums = turn.sums /\ turn'.spent = turn.spent /\ turn'.told = turn.told /\ turn'.run = turn.run
      /\ turn'.resumed = turn.resumed /\ turn'.pc = "deliver" /\ turn'.status = turn.status
    BY <1>1, <1>3 DEF CallRefused, TurnType
<1>5. Next1 \in CallIds /\ Next1 \notin begun
    BY <1>1, <1>2, NextCall, NoCallApart DEF Next1
<1>6. a \in Answers /\ a.call = turn.calls[Len(turn.res) + 1] /\ Says(a, begun)
    BY <1>3, <1>5 DEF Answer, Answers, Says, Next1
<1>7. CallsInv(turn', begun, taken) /\ turn'.res \in Seq(Answers) /\ Len(turn'.res) = Len(turn.res) + 1
    BY <1>1, <1>2, <1>4, <1>6, ResultAdded
<1>8. TurnType(turn')
    BY <1>1, <1>4, <1>7 DEF TurnType, Places
<1>9. RoundInv(turn', begun, taken)
    BY <1>1, <1>4 DEF RoundInv, Before
<1>10. PlaceInv(turn')
    BY <1>2, <1>4 DEF PlaceInv
<1>11. ~CutOff(turn) /\ tool # "running" /\ UNCHANGED <<stored, aborted, tool, host, taken, begun, task>>
    BY <1>1, <1>2 DEF CutOff, CallRefused
<1> QED
    BY <1>1, <1>4, <1>7, <1>8, <1>9, <1>10, <1>11, TurnStep

LEMMA CallToolKeeps == ASSUME Inv, CallTool, UNCHANGED task PROVE Inv'
<1>1. /\ InTurn /\ TurnType(turn) /\ RoundInv(turn, begun, taken)
      /\ CallsInv(turn, begun, taken) /\ PlaceInv(turn)
      /\ tool = "running" => turn.cutting # NoCall
    BY RunningFacts DEF CallTool
<1>2. turn.pc = "calls" /\ turn.cutting = NoCall /\ Len(turn.res) < Len(turn.calls)
    BY <1>1 DEF CallTool, PlaceInv, CutOff
<1>3. PICK c : c = Next1
    OBVIOUS
<1>4. /\ DOMAIN turn' = DOMAIN turn /\ turn'.msgs = turn.msgs /\ turn'.calls = turn.calls
      /\ turn'.res = turn.res /\ turn'.cutting = c /\ turn'.made = turn.made
      /\ turn'.sums = turn.sums /\ turn'.spent = turn.spent + 1 /\ turn'.told = turn.told /\ turn'.run = turn.run
      /\ turn'.resumed = turn.resumed /\ turn'.pc = "call" /\ turn'.status = turn.status
    BY <1>1, <1>3 DEF CallTool, TurnType
<1>5. /\ Len(turn.res) + 1 \in DOMAIN turn.calls /\ c \in CallIds /\ c \in CallsIn(turn.msgs) /\ c[1][1] = taken
      /\ c \notin begun /\ c = turn.calls[Len(turn.res) + 1] /\ c # NoCall
    BY <1>1, <1>2, <1>3, NextCall, NoCallApart DEF Next1
<1>6. begun' = begun \cup {c} /\ tool' = "running" /\ UNCHANGED <<stored, aborted, host, taken, task>>
    BY <1>3 DEF CallTool
<1>7. HostType'
    BY <1>6 DEF Inv, HostType, host, task
<1>8. InTurn' /\ Past' = Past /\ Past = taken - 1 /\ taken \in Nat
    BY <1>1, <1>4, <1>6, AgexAssumption DEF InTurn, Past, Inv, HostType
<1>9. StoreInv'
    <2>1. begun' \subseteq CallIds /\ \A d \in begun' : d[1][1] <= taken'
        BY <1>5, <1>6, <1>8 DEF Inv, StoreInv
    <2>2. ASSUME NEW k \in DOMAIN stored PROVE StoredRun(stored[k], begun \cup {c}, Past)
        <3>1. StoredRun(stored[k], begun, Past)
            BY DEF Inv, StoreInv
        <3>2. c \notin CallsIn(stored[k].msgs)
            BY <1>5, <1>8, <3>1 DEF StoredRun
        <3>3. Heard(stored[k].msgs, begun \cup {c})
            BY <3>1, <3>2, HeardStill DEF StoredRun
        <3> QED
            BY <3>1, <3>3 DEF StoredRun
    <2> QED
        BY <1>6, <1>8, <2>1, <2>2 DEF Inv, StoreInv
<1>10. TurnType(turn')
    BY <1>1, <1>4, <1>5 DEF TurnType, Places
<1>11. RoundInv(turn', begun', taken')
    <2> DEFINE M == CallsIn(turn.msgs)
    <2>1. /\ Heard(turn.msgs, begun) /\ Cardinality(M \cap begun) <= turn.spent
          /\ \A d \in M \cup begun : Before(d, turn, taken)
        BY <1>1 DEF RoundInv
    <2>2. IsFiniteSet(M \cap begun) /\ Cardinality(M \cap begun) \in Nat
        BY <2>1, MadeFinite
    <2>3. M \cap (begun \cup {c}) = (M \cap begun) \cup {c} /\ c \notin M \cap begun
        BY <1>5
    <2>4. Cardinality(M \cap (begun \cup {c})) = Cardinality(M \cap begun) + 1
        BY <2>2, <2>3, FS_AddElement
    <2>5. Cardinality(M \cap (begun \cup {c})) <= turn.spent + 1
        BY <1>1, <2>1, <2>2, <2>4 DEF TurnType
    <2>6. MaxToolCalls # NoLimit => Cardinality(M \cap (begun \cup {c})) <= MaxToolCalls
        <3>1. SUFFICES ASSUME MaxToolCalls # NoLimit PROVE Cardinality(M \cap (begun \cup {c})) <= MaxToolCalls
            OBVIOUS
        <3>2. ~(turn.spent >= MaxToolCalls) /\ MaxToolCalls \in Nat /\ turn.spent \in Nat
            BY <1>1, <3>1, AgexAssumption DEF CallTool, Over, TurnType
        <3> QED
            BY <2>1, <2>2, <2>4, <3>2
    <2>7. Heard(turn.msgs, begun \cup {c})
        <3>1. ASSUME NEW a \in ResultsIn(turn.msgs) PROVE a.call \in M /\ Says(a, begun \cup {c})
            <4>1. a.call \in M /\ Says(a, begun)
                BY <2>1 DEF Heard
            <4>2. a.call # c
                BY <1>1, <1>5 DEF CallsInv
            <4> QED
                BY <4>1, <4>2 DEF Says
        <3> QED
            BY <2>1, <2>6, <3>1 DEF Heard
    <2> QED
        BY <1>1, <1>4, <1>5, <1>6, <2>1, <2>5, <2>7 DEF RoundInv, Before
<1>12. CallsInv(turn', begun', taken')
    <2>1. /\ Len(turn.res) \in Nat /\ Len(turn.calls) \in Nat /\ DOMAIN turn.calls = 1 .. Len(turn.calls)
          /\ DOMAIN turn.res = 1 .. Len(turn.res) /\ \A i \in DOMAIN turn.calls : turn.calls[i] # NoCall
        BY <1>1, NoCallApart DEF TurnType
    <2>2. ASSUME NEW i \in DOMAIN turn.res
          PROVE turn.res[i].call = turn.calls[i] /\ Says(turn.res[i], begun \cup {c})
        <3>1. turn.res[i].call = turn.calls[i] /\ Says(turn.res[i], begun)
            BY <1>1 DEF CallsInv
        <3>2. i \in DOMAIN turn.calls /\ i # Len(turn.res) + 1
            BY <1>2, <2>1
        <3>3. turn.calls[i] # c
            BY <1>1, <1>5, <3>2 DEF CallsInv
        <3> QED
            BY <3>1, <3>3 DEF Says
    <2>3. ASSUME NEW i \in DOMAIN turn.calls, i > Len(turn.res)
          PROVE turn.calls[i] \in begun \cup {c} <=> c = turn.calls[i]
        BY <1>1, <1>2, <2>1, <2>3 DEF CallsInv
    <2>4. /\ \A i \in DOMAIN turn.calls : turn.calls[i] \in CallsIn(turn.msgs) /\ turn.calls[i][1][1] = taken
          /\ \A i, j \in DOMAIN turn.calls : turn.calls[i] = turn.calls[j] => i = j
          /\ \A a \in ResultsIn(turn.msgs) : \A i \in DOMAIN turn.calls : a.call # turn.calls[i]
          /\ Len(turn.res) <= Len(turn.calls)
        BY <1>1 DEF CallsInv
    <2>5. taken' = taken /\ begun' = begun \cup {c} /\ turn'.cutting = c
        BY <1>4, <1>6
    <2>6. CallsInv(turn', begun \cup {c}, taken)
        <3> DEFINE b == begun \cup {c}
        <3>2. \A i \in DOMAIN turn.res : turn.res[i].call = turn.calls[i] /\ Says(turn.res[i], b)
            BY <2>2
        <3>3. \A i \in DOMAIN turn.calls : i > Len(turn.res) => (turn.calls[i] \in b <=> c = turn.calls[i])
            BY <2>3
        <3> HIDE DEF b
        <3>4. CallsInv(turn', b, taken)
            BY <1>4, <2>4, <3>2, <3>3 DEF CallsInv
        <3> QED
            BY <3>4 DEF b
    <2> QED
        BY <2>5, <2>6
<1>13. PlaceInv(turn')
    BY <1>2, <1>4, <1>5 DEF PlaceInv, CutOff
<1>14. TurnInv'
    BY <1>1, <1>4, <1>5, <1>6, <1>8, <1>10, <1>11, <1>12, <1>13 DEF Inv, TurnInv
<1>15. PlaneInv'
    BY <1>1, <1>4, <1>6, <1>8 DEF Inv, PlaneInv, PlaneTrue, host, task, AsTask, CutOff
<1> QED
    BY <1>7, <1>9, <1>14, <1>15 DEF Inv

LEMMA CallReturnsKeeps == ASSUME Inv, CallReturns, UNCHANGED task PROVE Inv'
<1>1. /\ InTurn /\ TurnType(turn) /\ RoundInv(turn, begun, taken)
      /\ CallsInv(turn, begun, taken) /\ PlaceInv(turn)
    BY RunningFacts DEF CallReturns
<1>2. /\ turn.pc = "call" /\ turn.cutting # NoCall /\ Len(turn.res) < Len(turn.calls)
      /\ turn.cutting = turn.calls[Len(turn.res) + 1]
    BY <1>1 DEF CallReturns, PlaceInv
<1>3. PICK a : a = Answer(turn.cutting, "ran")
    OBVIOUS
<1>4. /\ DOMAIN turn' = DOMAIN turn /\ turn'.msgs = turn.msgs /\ turn'.calls = turn.calls
      /\ turn'.res = Append(turn.res, a) /\ turn'.cutting = NoCall /\ turn'.made = turn.made
      /\ turn'.sums = turn.sums /\ turn'.spent = turn.spent /\ turn'.told = turn.told /\ turn'.run = turn.run
      /\ turn'.resumed = turn.resumed /\ turn'.pc = "deliver" /\ turn'.status = turn.status
    BY <1>1, <1>3 DEF CallReturns, TurnType
<1>5. turn.cutting \in CallIds /\ turn.cutting \in begun
    BY <1>1, <1>2, NextCall
<1>6. a \in Answers /\ a.call = turn.calls[Len(turn.res) + 1] /\ Says(a, begun)
    BY <1>2, <1>3, <1>5 DEF Answer, Answers, Says
<1>7. CallsInv(turn', begun, taken) /\ turn'.res \in Seq(Answers) /\ Len(turn'.res) = Len(turn.res) + 1
    BY <1>1, <1>2, <1>4, <1>6, ResultAdded
<1>8. TurnType(turn')
    BY <1>1, <1>4, <1>7 DEF TurnType, Places
<1>9. RoundInv(turn', begun, taken)
    BY <1>1, <1>4 DEF RoundInv, Before
<1>10. PlaceInv(turn')
    BY <1>2, <1>4 DEF PlaceInv
<1>11. tool' = "off" /\ UNCHANGED <<stored, aborted, result, nudged, taken, begun, task>>
    BY DEF CallReturns
<1>12. /\ DOMAIN plane' = {"now", "kept"} /\ plane'.kept = plane.kept
       /\ plane'.now = IF result = "none" THEN plane.now ELSE result
    BY DEF CallReturns, Inv, HostType
<1>18. plane' \in [now : States, kept : States]
    <2>1. plane \in [now : States, kept : States] /\ result \in States
        BY DEF Inv, HostType, States
    <2>2. plane' = plane \/ plane' = [plane EXCEPT !.now = result]
        BY DEF CallReturns
    <2> QED
        BY <2>1, <2>2
<1>13. HostType'
    BY <1>11, <1>18 DEF Inv, HostType, task
<1>14. InTurn' /\ Past' = Past
    BY <1>4, <1>11, <1>1 DEF InTurn, Past
<1>15. StoreInv'
    <2>1. taken \in Nat /\ Past \in Int
        BY AgexAssumption DEF Inv, HostType, Past
    <2>2. taken' >= taken /\ Past' >= Past
        BY <1>11, <1>14, <2>1
    <2> QED
        BY <1>11, <1>13, <2>2, StoreKeeps DEF Inv
<1>16. TurnInv'
    BY <1>1, <1>4, <1>7, <1>8, <1>9, <1>10, <1>11, <1>14 DEF Inv, TurnInv
<1>17. PlaneInv'
    <2>1. result # "none" => plane.now # "none" /\ plane.kept # "none"
        BY DEF Inv, PlaneInv, AsTask
    <2>2. AsTask' <=> AsTask
        BY <1>12, <2>1 DEF AsTask, Inv, HostType, Settled
    <2>3. (plane'.now = "none") <=> (plane'.kept = "none")
        BY <1>12, <2>1, <2>2 DEF Inv, PlaneInv, AsTask
    <2>4. result' # "none" => plane'.now = result'
        BY <1>11, <1>12
    <2>5. PlaneTrue'
        BY <1>11, <1>12 DEF Inv, PlaneInv, PlaneTrue, task
    <2>6. result' = "none" => plane'.now = plane'.kept
        BY <1>11, <1>12 DEF Inv, PlaneInv
    <2> QED
        BY <1>1, <1>4, <1>11, <1>12, <1>14, <2>2, <2>3, <2>4, <2>5, <2>6 DEF Inv, PlaneInv, task
<1> QED
    BY <1>13, <1>15, <1>16, <1>17 DEF Inv

LEMMA DeliverKeeps == ASSUME Inv, Deliver, UNCHANGED task PROVE Inv'
<1>1. /\ InTurn /\ TurnType(turn) /\ RoundInv(turn, begun, taken)
      /\ CallsInv(turn, begun, taken) /\ PlaceInv(turn)
      /\ tool = "running" => turn.cutting # NoCall
    BY RunningFacts DEF Deliver
<1>2. turn.pc = "deliver" /\ turn.cutting = NoCall
    BY <1>1 DEF Deliver, PlaceInv, CutOff
<1>3. UNCHANGED <<stored, aborted, tool, host, taken, begun, task>>
    BY DEF Deliver
<1>4. ~CutOff(turn) /\ tool # "running"
    BY <1>1, <1>2 DEF CutOff
<1>5. CASE AsTask /\ result # "none"
    <2>1. turn' = [turn EXCEPT !.pc = "ending"]
        BY <1>5 DEF Deliver
    <2>2. SameButPlace(turn, turn') /\ turn'.pc = "ending" /\ turn'.status \in Ended
        BY <1>1, <2>1 DEF SameButPlace, TurnType
    <2> QED
        BY <1>2, <1>3, <2>2, EndsKeeps
<1>6. CASE ~(AsTask /\ result # "none") /\ Len(turn.res) < Len(turn.calls)
    <2>1. turn' = [turn EXCEPT !.pc = "calls"]
        BY <1>6 DEF Deliver
    <2>2. SameButPlace(turn, turn') /\ turn'.pc = "calls" /\ turn'.status = turn.status
        BY <1>1, <2>1 DEF SameButPlace, TurnType
    <2>3. TurnType(turn')
        BY <1>1, <2>2 DEF TurnType, Places, SameButPlace
    <2>4. RoundInv(turn', begun, taken)
        BY <1>1, <2>2 DEF RoundInv, Before, SameButPlace
    <2>5. CallsInv(turn', begun, taken)
        BY <1>1, <2>2 DEF CallsInv, SameButPlace
    <2>6. PlaceInv(turn')
        BY <1>2, <1>6, <2>2 DEF PlaceInv, SameButPlace
    <2>7. turn'.resumed = turn.resumed
        BY <2>2 DEF SameButPlace
    <2> QED
        BY <1>1, <1>3, <1>4, <2>2, <2>3, <2>4, <2>5, <2>6, <2>7, TurnStep
<1>7. CASE ~(AsTask /\ result # "none") /\ ~(Len(turn.res) < Len(turn.calls)) /\ turn.told
    <2>1. turn' = [turn EXCEPT !.pc = "ending", !.status = "failed"]
        BY <1>7 DEF Deliver, AfterNotice
    <2>2. SameButPlace(turn, turn') /\ turn'.pc = "ending" /\ turn'.status \in Ended
        BY <1>1, <2>1 DEF SameButPlace, TurnType, Ended
    <2> QED
        BY <1>2, <1>3, <2>2, EndsKeeps
<1>8. CASE ~(AsTask /\ result # "none") /\ ~(Len(turn.res) < Len(turn.calls)) /\ ~turn.told
    <2>1. PICK s : s = Say1(turn, "tool", {}, turn.res)
        OBVIOUS
    <2>2. turn.res \in Seq(Answers) /\ DOMAIN turn.res \subseteq DOMAIN turn.calls
        BY <1>1 DEF TurnType, CallsInv
    <2>3. \A a \in ToSet(turn.res) : a.call \in CallsIn(turn.msgs) /\ Says(a, begun)
        BY <1>1, <2>2 DEF CallsInv, ToSet
    <2>4. /\ TurnType(s) /\ RoundInv(s, begun, taken) /\ s.cutting = turn.cutting /\ s.resumed = turn.resumed
        BY <1>1, <2>1, <2>2, <2>3, Says1
    <2>5. PICK t : t = ToolMessage(turn)
        OBVIOUS
    <2>6. /\ DOMAIN t = DOMAIN s /\ t.msgs = s.msgs /\ t.calls = <<>> /\ t.res = <<>>
          /\ t.cutting = s.cutting /\ t.made = s.made /\ t.sums = s.sums /\ t.spent = s.spent
          /\ t.told = s.told /\ t.run = s.run /\ t.resumed = s.resumed /\ t.pc = s.pc /\ t.status = s.status
        BY <2>1, <2>4, <2>5 DEF ToolMessage, TurnType
    <2>7. TurnType(t) /\ RoundInv(t, begun, taken)
        BY <2>4, <2>6 DEF TurnType, RoundInv, Before
    <2>8. PICK u : u = IF Over THEN Noticed(t) ELSE t
        OBVIOUS
    <2>9. TurnType(u) /\ RoundInv(u, begun, taken) /\ u.calls = <<>> /\ u.res = <<>> /\ u.cutting = NoCall
          /\ u.resumed = turn.resumed
        <3>1. CASE ~Over
            BY <1>2, <2>4, <2>6, <2>7, <2>8, <3>1
        <3>2. CASE Over
            <4>1. PICK r : r = Say1(t, "notice", {}, <<>>)
                OBVIOUS
            <4>2. /\ TurnType(r) /\ RoundInv(r, begun, taken) /\ r.calls = t.calls /\ r.res = t.res
                  /\ r.cutting = t.cutting /\ r.resumed = t.resumed
                BY <2>7, <4>1, NoResults, Says1
            <4>3. /\ DOMAIN u = DOMAIN r /\ u.msgs = r.msgs /\ u.calls = r.calls /\ u.res = r.res
                  /\ u.cutting = r.cutting /\ u.made = r.made /\ u.sums = r.sums /\ u.spent = r.spent
                  /\ u.told = TRUE /\ u.run = r.run /\ u.resumed = r.resumed /\ u.pc = r.pc /\ u.status = r.status
                BY <2>8, <3>2, <4>1, <4>2 DEF Noticed, TurnType
            <4>4. TurnType(u) /\ RoundInv(u, begun, taken)
                BY <4>2, <4>3 DEF TurnType, RoundInv, Before
            <4> QED
                BY <1>2, <2>4, <2>6, <4>2, <4>3, <4>4
        <3> QED
            BY <3>1, <3>2
    <2>10. turn' = Round(u)
        BY <1>8, <2>5, <2>8 DEF Deliver, AfterNotice
    <2>11. /\ TurnType(turn') /\ turn'.pc \in {"ending", "prepare"} /\ RoundInv(turn', begun, taken)
           /\ CallsInv(turn', begun, taken) /\ PlaceInv(turn') /\ turn'.resumed = turn.resumed
        BY <2>9, <2>10, Rounds
    <2> QED
        BY <1>1, <1>3, <1>4, <2>11, TurnStep
<1> QED
    BY <1>5, <1>6, <1>7, <1>8

LEMMA FailuresKeep ==
    ASSUME Inv, PrepareStopped \/ ReplyStopped \/ RequestFails \/ CallStopped \/ CallCut \/ DeliverFails,
           UNCHANGED task
    PROVE  Inv'
<1>1. PICK s \in Ended : /\ Fails(s) /\ turn.pc \in {"prepare", "asking", "calls", "call", "deliver"}
                         /\ turn.pc = "call" => aborted
    BY DEF PrepareStopped, ReplyStopped, RequestFails, CallStopped, CallCut, DeliverFails, Ended
<1>2. turn.cutting # NoCall => turn.pc = "call"
    BY <1>1, RunningFacts DEF PlaceInv, CutOff
<1> QED
    BY <1>1, <1>2, FailsKeeps

LEMMA ToolEndsKeeps == ASSUME Inv, ToolEnds, UNCHANGED task PROVE Inv'
<1>1. tool' = "off" /\ UNCHANGED <<stored, turn, aborted, host, taken, begun, task>>
    BY DEF ToolEnds
<1>2. HostType'
    BY <1>1 DEF Inv, HostType, host, task
<1>3. StoreInv' /\ TurnInv' /\ PlaneInv'
    BY <1>1 DEF Inv, StoreInv, TurnInv, PlaneInv, PlaneTrue, Past, InTurn, host, task, AsTask
<1> QED
    BY <1>2, <1>3 DEF Inv

LEMMA CancelKeeps == ASSUME Inv, Cancel, UNCHANGED task PROVE Inv'
<1>1. aborted' = TRUE /\ UNCHANGED <<stored, turn, tool, host, taken, begun, task>>
    BY DEF Cancel
<1>2. HostType'
    BY <1>1 DEF Inv, HostType, host, task
<1>3. StoreInv' /\ TurnInv' /\ PlaneInv'
    BY <1>1 DEF Inv, StoreInv, TurnInv, PlaneInv, PlaneTrue, Past, InTurn, host, task, AsTask
<1> QED
    BY <1>2, <1>3 DEF Inv

LEMMA SettleKeeps == ASSUME Inv, Settle, UNCHANGED task PROVE Inv'
<1>1. /\ AsTask /\ tool = "running" /\ result' \in Settled
      /\ UNCHANGED <<stored, turn, aborted, tool, plane, nudged, taken, begun, task>>
    BY DEF Settle
<1>2. InTurn /\ turn.cutting # NoCall /\ PlaceInv(turn)
    BY <1>1 DEF Inv, TurnInv
<1>3. CutOff(turn) /\ turn.pc # "opening" /\ result' # "none"
    BY <1>1, <1>2 DEF PlaceInv, CutOff, Settled
<1>4. HostType'
    BY <1>1 DEF Inv, HostType, task
<1>5. StoreInv' /\ TurnInv'
    BY <1>1 DEF Inv, StoreInv, TurnInv, Past, InTurn
<1>6. world = "open" /\ ran = "none"
    BY <1>1, <1>2 DEF Inv, PlaneInv
<1>7. PlaneInv'
    BY <1>1, <1>2, <1>3, <1>6 DEF Inv, PlaneInv, PlaneTrue, InTurn, task, AsTask
<1> QED
    BY <1>4, <1>5, <1>7 DEF Inv

-----------------------------------------------------------------------------
(* Turns that begin.                                                       *)

LEMMA IdleFacts ==
    ASSUME Inv, turn = Idle
    PROVE  /\ turn.pc = "idle" /\ ~InTurn /\ tool = "off" /\ Past = taken /\ taken \in Nat
           /\ stored \in Seq(RunRecord) /\ Len(stored) \in Nat /\ Len(stored) <= taken
           /\ begun \subseteq CallIds /\ \A c \in begun : c[1][1] <= taken
    BY AgexAssumption DEF Inv, Idle, InTurn, TurnInv, StoreInv, Past, HostType

LEMMA BeginsKeep ==
    ASSUME Inv, turn = Idle, taken < MaxTurns, taken' = taken + 1, TurnType(turn'), turn'.pc = "opening",
           turn'.calls = <<>>, turn'.res = <<>>, turn'.cutting = NoCall, turn'.resumed => stored # <<>>,
           RoundInv(turn', begun, taken + 1),
           aborted' = FALSE, nudged' = 0, result' = "none", UNCHANGED <<stored, tool, plane, begun>>,
           HostType', world' = "open" \/ ~AsTask, AsTask => ran' = "none", ran' = "threw" => result' = "none",
           ~AsTask => world' = "none", world' = "none" => plane.kept \in {"none", "running"},
           again' <=> plane.kept = "needs_input", world' # "kept"
    PROVE  Inv'
<1>1. InTurn' /\ Past' = taken /\ Past = taken /\ taken \in Nat /\ tool = "off" /\ ~InTurn
    BY IdleFacts DEF InTurn, Past
<1>2. StoreInv'
    <2>1. taken' >= taken /\ Past' >= Past
        BY <1>1
    <2> QED
        BY <2>1, StoreKeeps DEF Inv
<1>3. CallsInv(turn', begun, taken + 1)
    BY NoCallsHeld
<1>4. PlaceInv(turn')
    BY DEF PlaceInv
<1>5. TurnInv'
    BY <1>1, <1>3, <1>4 DEF TurnInv
<1>6. plane.now = plane.kept
    BY <1>1 DEF Inv, PlaneInv
<1>7. PlaneInv'
    BY <1>1, <1>6 DEF Inv, PlaneInv, PlaneTrue, AsTask
<1> QED
    BY <1>2, <1>5, <1>7 DEF Inv

LEMMA NoCalls ==
    /\ <<>> \in Seq(CallIds) /\ <<>> \in Seq(Answers) /\ NoCall \in CallIds \cup {NoCall}
    /\ "opening" \in Places /\ "completed" \in Ended
    BY DEF Places, Ended

LEMMA MaxPositive == 0 \in 0 .. MaxSteps /\ 0 \in 0 .. 0 /\ 0 \in Nat
    BY AgexAssumption

LEMMA FreshTurn ==
    ASSUME Inv, Say
    PROVE  /\ TurnType(turn') /\ turn'.pc = "opening" /\ turn'.calls = <<>> /\ turn'.res = <<>>
           /\ turn'.cutting = NoCall /\ ~turn'.resumed /\ RoundInv(turn', begun, taken + 1)
           /\ turn = Idle /\ taken < MaxTurns /\ taken' = taken + 1 /\ aborted' = FALSE
           /\ nudged' = 0 /\ result' = "none" /\ UNCHANGED <<stored, tool, plane, begun>>
<1>1. /\ turn = Idle /\ taken < MaxTurns /\ taken' = taken + 1 /\ aborted' = FALSE
      /\ nudged' = 0 /\ result' = "none" /\ UNCHANGED <<stored, tool, plane, begun>>
    BY DEF Say, Begin
<1>2. PICK m : m = Opening
    OBVIOUS
<1>0. PICK ms : ms = <<m>>
    OBVIOUS
<1>3. turn' = [[Idle EXCEPT !.run = Len(stored) + 1, !.msgs = ms] EXCEPT !.pc = "opening", !.folded = Len(folds)]
    BY <1>0, <1>2 DEF Say, Begin
<1>4. /\ DOMAIN turn' = {"pc", "run", "resumed", "msgs", "calls", "res", "cutting", "made", "sums",
                         "spent", "told", "folded", "status"}
      /\ turn'.pc = "opening" /\ turn'.run = Len(stored) + 1 /\ turn'.resumed = FALSE /\ turn'.msgs = ms
      /\ turn'.calls = <<>> /\ turn'.res = <<>> /\ turn'.cutting = NoCall /\ turn'.made = 0 /\ turn'.sums = 0
      /\ turn'.spent = 0 /\ turn'.told = FALSE /\ turn'.status = "completed"
    BY <1>3 DEF Idle
<1>5. /\ taken \in Nat /\ Len(stored) \in Nat /\ Len(stored) <= taken /\ begun \subseteq CallIds
      /\ \A c \in begun : c[1][1] <= taken
    BY <1>1, IdleFacts
<1>6. m \in Messages /\ m.role # "assistant" /\ m.calls = {} /\ m.results = <<>>
    <2>1. /\ m.id = <<taken + 1, Len(Idle.msgs) + 1>> /\ m.run = Len(stored) + 1 /\ m.role = "user"
          /\ m.calls = {} /\ m.results = <<>>
          /\ m = [id |-> m.id, run |-> m.run, role |-> m.role, calls |-> m.calls, results |-> m.results]
        BY <1>2 DEF Opening, NewId
    <2>2. Len(Idle.msgs) = 0
        BY DEF Idle
    <2>3. m.id \in Ids /\ m.run \in 1 .. MaxTurns
        BY <1>1, <1>5, <2>1, <2>2, AgexAssumption DEF Ids
    <2> QED
        BY <2>1, <2>3, NoResults DEF Messages
<1>7. Heard(<<>>, begun)
    <2>1. CallsIn(<<>>) = {} /\ ResultsIn(<<>>) = {} /\ {} \cap begun = {}
        BY NoMessages
    <2>2. IsFiniteSet({}) /\ Cardinality({}) = 0
        BY FS_EmptySet
    <2>3. MaxToolCalls # NoLimit => 0 <= MaxToolCalls
        BY AgexAssumption
    <2> QED
        BY <2>1, <2>2, <2>3 DEF Heard
<1>8. ms = Append(<<>>, m)
    BY <1>0
<1>9. /\ ms \in Seq(Messages) /\ Heard(ms, begun)
      /\ CallsIn(ms) = {} /\ Replies(ms) = {}
    <2>1. \A a \in ToSet(m.results) : a.call \in CallsIn(<<>>) /\ Says(a, begun)
        BY <1>6, NoResults
    <2> QED
        BY <1>6, <1>7, <1>8, <2>1, NoMessages, Spoken
<1>10. TurnType(turn')
    <2>1. turn'.run \in Nat /\ turn'.made \in 0 .. MaxSteps /\ turn'.sums \in 0 .. turn'.made /\ turn'.spent \in Nat
        BY <1>4, <1>5, MaxPositive
    <2> QED
        BY <1>4, <1>9, <2>1, NoCalls DEF TurnType
<1>11. RoundInv(turn', begun, taken + 1)
    <2>1. turn'.run \in 1 .. MaxTurns
        BY <1>1, <1>4, <1>5, AgexAssumption
    <2>2. Cardinality({}) = 0 /\ {} \cap begun = {} /\ {} \cup begun = begun /\ 0 + 0 <= 0
        BY FS_EmptySet
    <2>3. ASSUME NEW c \in begun PROVE Before(c, turn', taken + 1)
        <3>1. c[1][1] \in Nat /\ c[1][1] <= taken
            BY <1>5 DEF CallIds, Ids
        <3> QED
            BY <1>5, <3>1 DEF Before
    <2>4. /\ Cardinality(Replies(turn'.msgs)) + turn'.sums <= turn'.made
          /\ Cardinality(CallsIn(turn'.msgs) \cap begun) <= turn'.spent
        BY <1>4, <1>9, <2>2
    <2>5. \A c \in CallsIn(turn'.msgs) \cup begun : Before(c, turn', taken + 1)
        BY <1>4, <1>9, <2>3
    <2> QED
        BY <1>4, <1>9, <2>1, <2>4, <2>5 DEF RoundInv
<1> QED
    BY <1>1, <1>4, <1>10, <1>11

LEMMA BegunTypes ==
    ASSUME Inv, taken < MaxTurns, taken' = taken + 1, aborted' = FALSE, nudged' = 0, result' = "none",
           UNCHANGED <<tool, plane>>, world' \in {"none", "open", "kept", "gone"}, again' \in BOOLEAN,
           ran' \in Ended \cup {"none", "threw", "died"}
    PROVE  HostType'
<1>1. taken' \in 0 .. MaxTurns /\ nudged' \in 0 .. Nudges
    BY AgexAssumption DEF Inv, HostType
<1> QED
    BY <1>1 DEF Inv, HostType, Settled

LEMMA RunTaskKeeps == ASSUME Inv, RunTask PROVE Inv'
<1>1. /\ AsTask /\ world = "none" /\ Say /\ world' = "open" /\ again' = FALSE /\ ran' = "none"
    BY DEF RunTask
<1>2. HostType'
    BY <1>1, FreshTurn, BegunTypes
<1>3. plane.kept # "needs_input"
    BY <1>1 DEF Inv, PlaneInv
<1> QED
    BY <1>1, <1>2, <1>3, FreshTurn, BeginsKeep

LEMMA ResumeTaskKeeps == ASSUME Inv, ResumeTask PROVE Inv'
<1>1. /\ AsTask /\ plane.kept = "needs_input" /\ Say /\ world' = "open" /\ again' = TRUE /\ ran' = "none"
    BY DEF ResumeTask
<1>2. HostType'
    BY <1>1, FreshTurn, BegunTypes
<1> QED
    BY <1>1, <1>2, FreshTurn, BeginsKeep

LEMMA NoTask ==
    ASSUME Inv, ~AsTask
    PROVE  /\ result = "none" /\ world = "none" /\ plane.kept = "none" /\ (again <=> plane.kept = "needs_input")
           /\ world \in {"none", "open", "kept", "gone"} /\ again \in BOOLEAN
           /\ ran \in Ended \cup {"none", "threw", "died"}
    BY DEF Inv, PlaneInv, AsTask, HostType

LEMMA SayKeeps == ASSUME Inv, ~AsTask, Say, UNCHANGED task PROVE Inv'
<1>1. UNCHANGED <<world, keep, again, ran, offered>>
    BY DEF task
<1>2. HostType'
    BY <1>1, NoTask, FreshTurn, BegunTypes
<1> QED
    BY <1>1, <1>2, NoTask, FreshTurn, BeginsKeep

LEMMA ResumeKeeps == ASSUME Inv, Resume, UNCHANGED task PROVE Inv'
<1>1. /\ turn = Idle /\ taken < MaxTurns /\ taken' = taken + 1 /\ aborted' = FALSE /\ ~AsTask /\ stored # <<>>
      /\ nudged' = 0 /\ result' = "none" /\ UNCHANGED <<stored, tool, plane, begun>>
    BY DEF Resume, Begin, Interrupted
<1>2. PICK r : r = LastRun
    OBVIOUS
<1>3. /\ taken \in Nat /\ Len(stored) \in Nat /\ Len(stored) <= taken /\ begun \subseteq CallIds
      /\ Past = taken /\ \A c \in begun : c[1][1] <= taken
    BY <1>1, IdleFacts
<1>4. r \in RunRecord /\ StoredRun(r, begun, taken) /\ Len(stored) >= 1
    <2>1. Len(stored) \in DOMAIN stored /\ Len(stored) >= 1 /\ stored \in Seq(RunRecord)
        BY <1>1, EmptySeq DEF Inv, StoreInv
    <2> QED
        BY <1>2, <1>3, <2>1 DEF Inv, StoreInv, LastRun
<1>5. PICK told : told \in BOOLEAN /\ told = (\E m \in ToSet(r.msgs) : m.role = "notice")
    OBVIOUS
<1>6. turn' = [[Idle EXCEPT !.run = Len(stored), !.resumed = TRUE, !.msgs = r.msgs, !.sums = r.sums,
                  !.made = Cardinality(Replies(r.msgs)) + r.sums,
                  !.spent = Cardinality(CallsIn(r.msgs)), !.told = told] EXCEPT !.pc = "opening", !.folded = Len(folds)]
    BY <1>2, <1>5 DEF Resume, Begin, Replies, CallsIn
<1>7. /\ DOMAIN turn' = {"pc", "run", "resumed", "msgs", "calls", "res", "cutting", "made", "sums",
                         "spent", "told", "folded", "status"}
      /\ turn'.pc = "opening" /\ turn'.run = Len(stored) /\ turn'.resumed = TRUE /\ turn'.msgs = r.msgs
      /\ turn'.calls = <<>> /\ turn'.res = <<>> /\ turn'.cutting = NoCall
      /\ turn'.made = Cardinality(Replies(r.msgs)) + r.sums /\ turn'.sums = r.sums
      /\ turn'.spent = Cardinality(CallsIn(r.msgs)) /\ turn'.told = told /\ turn'.status = "completed"
    BY <1>6 DEF Idle
<1>8. /\ r.msgs \in Seq(Messages) /\ r.sums \in Nat /\ Heard(r.msgs, begun)
      /\ Cardinality(Replies(r.msgs)) + r.sums <= MaxSteps
      /\ \A c \in CallsIn(r.msgs) : c[1][1] <= taken
    BY <1>4 DEF RunRecord, StoredRun
<1>9. /\ Cardinality(Replies(r.msgs)) \in Nat /\ Cardinality(CallsIn(r.msgs)) \in Nat
      /\ Cardinality(CallsIn(r.msgs) \cap begun) <= Cardinality(CallsIn(r.msgs))
    BY <1>8, RepliesFinite, MadeFinite
<1>10. TurnType(turn')
    <2>1. turn'.made \in 0 .. MaxSteps /\ turn'.sums \in 0 .. turn'.made
        BY <1>7, <1>8, <1>9, AgexAssumption
    <2> QED
        BY <1>3, <1>5, <1>7, <1>8, <1>9, <2>1, NoCalls DEF TurnType
<1>11. RoundInv(turn', begun, taken + 1)
    <2>1. turn'.run \in 1 .. MaxTurns
        BY <1>1, <1>3, <1>4, <1>7, AgexAssumption
    <2>2. ASSUME NEW c \in CallsIn(r.msgs) \cup begun PROVE Before(c, turn', taken + 1)
        <3>1. c \in CallIds /\ c[1][1] <= taken
            BY <1>3, <1>8, CallsTyped
        <3> QED
            BY <1>3, <3>1 DEF Before, CallIds, Ids
    <2>3. Cardinality(Replies(turn'.msgs)) + turn'.sums <= turn'.made
        BY <1>7, <1>8, <1>9
    <2> QED
        BY <1>7, <1>8, <1>9, <2>1, <2>2, <2>3 DEF RoundInv
<1>12. UNCHANGED <<world, keep, again, ran, offered>>
    BY DEF task
<1>13. HostType'
    BY <1>1, <1>12, NoTask, BegunTypes
<1> QED
    BY <1>1, <1>7, <1>10, <1>11, <1>12, <1>13, NoTask, BeginsKeep

-----------------------------------------------------------------------------
(* Turns that are over: stored, thrown or lost.                            *)

IdleFields == {"pc", "run", "resumed", "msgs", "calls", "res", "cutting", "made", "sums", "spent",
               "told", "folded", "status"}

LEMMA IdleType == TurnType(Idle) /\ Idle.pc = "idle" /\ Idle.msgs = <<>>
<1>1. /\ DOMAIN Idle = IdleFields /\ Idle.pc = "idle" /\ Idle.run = 0 /\ Idle.resumed = FALSE /\ Idle.msgs = <<>>
      /\ Idle.calls = <<>> /\ Idle.res = <<>> /\ Idle.cutting = NoCall /\ Idle.made = 0 /\ Idle.sums = 0
      /\ Idle.spent = 0 /\ Idle.told = FALSE /\ Idle.status = "completed"
    BY DEF Idle, IdleFields
<1>2. /\ Idle.run \in Nat /\ Idle.made \in 0 .. MaxSteps /\ Idle.sums \in 0 .. Idle.made /\ Idle.spent \in Nat
      /\ "idle" \in Places
    BY <1>1, MaxPositive DEF Places
<1> QED
    BY <1>1, <1>2, NoMessages, NoCalls DEF TurnType, IdleFields

LEMMA FoldKeeps == ASSUME Inv, BeginFold \/ FoldMade, UNCHANGED task PROVE Inv'
<1>1. UNCHANGED <<stored, tool, host, taken, begun, task>> /\ aborted' \in BOOLEAN
    BY DEF Inv, HostType, BeginFold, FoldMade
<1>2. ~InTurn /\ ~InTurn' /\ tool = "off" /\ TurnType(turn')
      /\ (turn'.pc = "idle" => turn' = Idle) /\ turn'.msgs = <<>> /\ (turn'.pc = "folding" => ~AsTask)
    <2>1. CASE BeginFold
        <3>1. /\ turn = Idle /\ ~AsTask
              /\ turn' = [Idle EXCEPT !.pc = "folding", !.run = Len(stored) + 1, !.folded = Len(folds)]
            BY <2>1 DEF BeginFold
        <3>2. ~InTurn /\ tool = "off" /\ Len(stored) + 1 \in Nat
            BY <3>1, IdleFacts
        <3>3. /\ DOMAIN turn' = IdleFields /\ turn'.pc = "folding" /\ turn'.run = Len(stored) + 1 /\ turn'.resumed = FALSE
              /\ turn'.msgs = <<>> /\ turn'.calls = <<>> /\ turn'.res = <<>> /\ turn'.cutting = NoCall /\ turn'.made = 0
              /\ turn'.sums = 0 /\ turn'.spent = 0 /\ turn'.told = FALSE /\ turn'.status = "completed"
            BY <3>1 DEF Idle, IdleFields
        <3>4. /\ turn'.made \in 0 .. MaxSteps /\ turn'.sums \in 0 .. turn'.made /\ turn'.spent \in Nat
              /\ "folding" \in Places
            BY <3>3, MaxPositive DEF Places
        <3>5. TurnType(turn')
            BY <3>2, <3>3, <3>4, NoMessages, NoCalls DEF TurnType, IdleFields
        <3> QED
            BY <3>1, <3>2, <3>3, <3>5 DEF InTurn
    <2>2. CASE FoldMade
        BY <2>2, IdleType DEF FoldMade, InTurn, Inv, TurnInv
    <2> QED
        BY <1>1, <2>1, <2>2
<1>3. HostType'
    BY <1>1 DEF Inv, HostType, host, task
<1>4. StoreInv'
    BY <1>1, <1>2 DEF Inv, StoreInv, Past
<1>5. TurnInv'
    BY <1>1, <1>2 DEF TurnInv
<1>6. PlaneInv'
    <2>1. turn'.pc # "opening"
        BY <1>2 DEF InTurn
    <2> QED
        BY <1>1, <1>2, <2>1 DEF Inv, PlaneInv, PlaneTrue, host, task, AsTask
<1> QED
    BY <1>3, <1>4, <1>5, <1>6 DEF Inv

\* The turn is gone, and no tool works on.
LEMMA TurnGone ==
    ASSUME Inv, turn' = Idle, tool' = "off", aborted' = FALSE, UNCHANGED <<taken, begun, stored>>, HostType'
    PROVE  StoreInv' /\ TurnInv' /\ ~InTurn' /\ turn'.pc = "idle"
<1>1. ~InTurn' /\ turn'.pc = "idle"
    BY IdleType DEF InTurn
<1>2. taken \in Nat /\ Past' = taken /\ Past \in {taken - 1, taken}
    BY <1>1, AgexAssumption DEF Inv, HostType, Past
<1>3. StoreInv'
    <2>1. taken' >= taken /\ Past' >= Past
        BY <1>2
    <2> QED
        BY <2>1, StoreKeeps DEF Inv
<1> QED
    BY <1>1, <1>3, IdleType DEF TurnInv

LEMMA BeginThrowsKeeps == ASSUME Inv, BeginThrows PROVE Inv'
<1>1. /\ turn.pc = "opening" /\ AsTask /\ turn' = Idle /\ aborted' = FALSE /\ ran' = "threw"
      /\ UNCHANGED <<stored, tool, host, taken, begun, world, keep, again, offered>>
    BY DEF BeginThrows
<1>2. InTurn /\ tool = "off" /\ result = "none" /\ world = "open" /\ plane.now = plane.kept
      /\ (again <=> plane.kept = "needs_input")
    <2>1. /\ InTurn /\ PlaceInv(turn) /\ (tool = "running" => turn.cutting # NoCall)
        BY <1>1, RunningFacts
    <2>2. turn.cutting = NoCall
        BY <1>1, <2>1 DEF PlaceInv, CutOff
    <2> QED
        BY <1>1, <2>1, <2>2 DEF Inv, HostType, PlaneInv
<1>3. HostType'
    BY <1>1 DEF Inv, HostType, host
<1>4. StoreInv' /\ TurnInv' /\ ~InTurn' /\ turn'.pc = "idle"
    BY <1>1, <1>2, <1>3, TurnGone
<1>5. PlaneInv'
    BY <1>1, <1>2, <1>4 DEF Inv, PlaneInv, PlaneTrue, AsTask, host
<1> QED
    BY <1>3, <1>4, <1>5 DEF Inv

LEMMA DiesKeeps == ASSUME Inv, Dies PROVE Inv'
<1>1. /\ turn # Idle /\ turn' = Idle /\ aborted' = FALSE /\ tool' = "off" /\ result' = "none" /\ nudged' = 0
      /\ plane' = [plane EXCEPT !.now = plane.kept]
      /\ ran' = "died" /\ offered' = FALSE /\ UNCHANGED <<stored, taken, begun, world, keep, again>>
    BY DEF Dies, Crash
<1>2. DOMAIN plane' = {"now", "kept"} /\ plane'.now = plane.kept /\ plane'.kept = plane.kept
    BY <1>1 DEF Inv, HostType
<1>3. HostType'
    <2>1. nudged' \in 0 .. Nudges /\ taken' \in 0 .. MaxTurns
        BY <1>1, AgexAssumption DEF Inv, HostType
    <2>2. plane'.now \in States /\ plane'.kept \in States
        BY <1>2 DEF Inv, HostType
    <2> QED
        BY <1>1, <1>2, <2>1, <2>2 DEF Inv, HostType
<1>4. StoreInv' /\ TurnInv' /\ ~InTurn' /\ turn'.pc = "idle"
    BY <1>1, <1>3, TurnGone
<1>5. again <=> plane.kept = "needs_input"
    <2>1. CASE InTurn
        BY <2>1 DEF Inv, PlaneInv
    <2>2. CASE ~InTurn
        <3>1. turn.pc = "folding"
            BY <1>1, <2>2 DEF Inv, TurnInv, InTurn
        <3>2. ~AsTask
            BY <3>1 DEF Inv, PlaneInv
        <3> QED
            BY <3>2, NoTask
    <2> QED
        BY <2>1, <2>2
<1>6. AsTask' <=> AsTask
    BY <1>2 DEF AsTask, Inv, PlaneInv
<1>7. PlaneInv'
    BY <1>1, <1>2, <1>4, <1>5, <1>6 DEF Inv, PlaneInv, PlaneTrue, AsTask
<1> QED
    BY <1>3, <1>4, <1>7 DEF Inv

LEMMA AbandonKeeps == ASSUME Inv, Abandon, UNCHANGED task PROVE Inv'
<1>1. /\ ~AsTask /\ turn = Idle /\ stored # <<>>
      /\ UNCHANGED <<turn, aborted, tool, host, taken, begun, task>>
    BY DEF Abandon, Interrupted
<1>2. PICK n : n = Len(stored)
    OBVIOUS
<1>3. PICK m : m = [id |-> <<0, n>>, run |-> n, role |-> "note", calls |-> {}, results |-> <<>>]
    OBVIOUS
<1>4. PICK status \in {"cancelled", "failed"} :
         stored' = [stored EXCEPT ![n] = [status |-> status, sums |-> stored[n].sums, msgs |-> Append(stored[n].msgs, m)]]
    BY <1>2, <1>3 DEF Abandon
<1>5. /\ stored \in Seq(RunRecord) /\ n \in Nat /\ n >= 1 /\ n \in DOMAIN stored /\ n <= taken /\ taken <= MaxTurns
      /\ Past = taken /\ stored[n] \in RunRecord /\ taken \in Nat
    BY <1>1, <1>2, IdleFacts, EmptySeq, AgexAssumption DEF Inv, HostType
<1>6. m \in Messages /\ m.role # "assistant" /\ m.calls = {} /\ m.results = <<>>
    <2>1. n \in 1 .. MaxTurns /\ <<0, n>> \in Ids
        BY <1>5, AgexAssumption DEF Ids
    <2> QED
        BY <1>3, <2>1, NoResults DEF Messages
<1> DEFINE r == [status |-> status, sums |-> stored[n].sums, msgs |-> Append(stored[n].msgs, m)]
<1>12. stored' = [stored EXCEPT ![n] = r]
    BY <1>4
<1>8. /\ r = [status |-> r.status, sums |-> r.sums, msgs |-> r.msgs]
      /\ r.status = status /\ r.sums = stored[n].sums /\ r.msgs = Append(stored[n].msgs, m)
    BY <1>5 DEF RunRecord
<1> HIDE DEF r
<1>9. StoredRun(stored[n], begun, taken) /\ stored[n].msgs \in Seq(Messages) /\ stored[n].sums \in Nat
    BY <1>5 DEF Inv, StoreInv, RunRecord
<1>10. /\ r.msgs \in Seq(Messages) /\ Heard(r.msgs, begun)
       /\ CallsIn(r.msgs) = CallsIn(stored[n].msgs) /\ Replies(r.msgs) = Replies(stored[n].msgs)
    <2>1. \A a \in ToSet(m.results) : a.call \in CallsIn(stored[n].msgs) /\ Says(a, begun)
        BY <1>6, NoResults
    <2> QED
        BY <1>6, <1>8, <1>9, <2>1, Spoken DEF StoredRun
<1>11. r \in RunRecord /\ StoredRun(r, begun, taken)
    BY <1>8, <1>9, <1>10 DEF RunRecord, StoredRun, Ended
<1>13. stored' \in Seq(RunRecord) /\ Len(stored') = n /\ \A k \in DOMAIN stored' : StoredRun(stored'[k], begun, taken)
    <2>1. \A k \in DOMAIN stored : StoredRun(stored[k], begun, taken)
        BY <1>5 DEF Inv, StoreInv
    <2>2. stored' \in Seq(RunRecord) /\ Len(stored') = n /\ DOMAIN stored' = DOMAIN stored
          /\ \A k \in DOMAIN stored : stored'[k] = IF k = n THEN r ELSE stored[k]
        BY <1>2, <1>5, <1>11, <1>12
    <2> QED
        BY <1>11, <2>1, <2>2
<1>14. HostType'
    BY <1>1 DEF Inv, HostType, host, task
<1>15. ~InTurn /\ ~InTurn' /\ Past' = taken
    BY <1>1, IdleFacts DEF InTurn, Past
<1>16. StoreInv'
    BY <1>1, <1>5, <1>13, <1>15 DEF Inv, StoreInv
<1>17. TurnInv'
    BY <1>1, <1>15 DEF Inv, TurnInv
<1>18. PlaneInv'
    BY <1>1, <1>15 DEF Inv, PlaneInv, PlaneTrue, host, task, AsTask
<1> QED
    BY <1>14, <1>16, <1>17, <1>18 DEF Inv

LEMMA PutAwayKeeps == ASSUME Inv, PutAway PROVE Inv'
<1>1. /\ AsTask /\ world = "open" /\ turn = Idle /\ ran \notin {"none", "died"} /\ world' \in {"kept", "gone"}
      /\ offered' = (Waiting /\ ran # "threw") /\ UNCHANGED <<vars, keep, again, ran>>
    BY DEF PutAway
<1>2. UNCHANGED <<stored, turn, aborted, tool, result, plane, nudged, taken, begun>>
    BY <1>1 DEF vars
<1>3. ~InTurn /\ turn.pc = "idle"
    BY <1>1, IdleFacts
<1>4. HostType'
    BY <1>1, <1>2 DEF Inv, HostType
<1>5. StoreInv' /\ TurnInv'
    BY <1>2 DEF Inv, StoreInv, TurnInv, InTurn, Past
<1>6. PlaneTrue'
    <2>1. SUFFICES ASSUME ran # "cancelled"
                   PROVE  /\ result # "none" => plane.kept = result
                          /\ offered' => plane.kept = "needs_input"
        BY <1>1, <1>2 DEF PlaneTrue
    <2>2. result # "none" => plane.kept = result
        BY <1>3, <2>1 DEF Inv, PlaneInv
    <2>3. offered' => (result = "needs_input" \/ (result = "none" /\ again))
        BY <1>1 DEF Waiting
    <2>4. result = "none" /\ again => plane.kept = "needs_input"
        BY DEF Inv, PlaneInv
    <2>5. result = "needs_input" => plane.kept = "needs_input"
        BY <2>2
    <2> QED
        BY <2>2, <2>3, <2>4, <2>5
<1>7. PlaneInv'
    BY <1>1, <1>2, <1>3, <1>6 DEF Inv, PlaneInv, AsTask, InTurn
<1> QED
    BY <1>4, <1>5, <1>7 DEF Inv

-----------------------------------------------------------------------------
(* A turn that ends: every call has its result, and the run is stored.     *)

LEMMA LeftTrue ==
    ASSUME TurnType(turn), CallsInv(turn, begun, taken)
    PROVE  Left \in Seq(Answers) /\ \A a \in ToSet(Left) : a.call \in CallsIn(turn.msgs) /\ Says(a, begun)
<1>1. /\ Len(turn.res) \in Nat /\ Len(turn.calls) \in Nat /\ DOMAIN turn.calls = 1 .. Len(turn.calls)
      /\ Len(turn.res) <= Len(turn.calls) /\ \A i \in DOMAIN turn.calls : turn.calls[i] \in CallIds
    BY DEF TurnType, CallsInv
<1>0. Len(turn.calls) - Len(turn.res) \in Nat
    BY <1>1
<1>2. PICK k : k \in Nat /\ k = Len(turn.calls) - Len(turn.res)
    BY <1>0
<1>3. ASSUME NEW i \in 1 .. k
      PROVE  Left[i] \in Answers /\ Left[i].call \in CallsIn(turn.msgs) /\ Says(Left[i], begun)
    <2>1. PICK c : c = turn.calls[Len(turn.res) + i]
        OBVIOUS
    <2>2. Len(turn.res) + i \in DOMAIN turn.calls /\ Len(turn.res) + i > Len(turn.res)
        BY <1>1, <1>2
    <2>3. c \in CallIds /\ c \in CallsIn(turn.msgs) /\ (c \in begun <=> turn.cutting = c)
        BY <1>1, <2>1, <2>2 DEF CallsInv
    <2>4. Left[i] = Answer(c, IF c = turn.cutting THEN "cut" ELSE "left")
        BY <1>2, <2>1 DEF Left
    <2> QED
        BY <2>3, <2>4 DEF Answer, Answers, Says
<1>4. Left = [i \in 1 .. k |-> Left[i]]
    BY <1>2 DEF Left
<1>5. Left \in Seq(Answers) /\ DOMAIN Left = 1 .. k
    <2>1. PICK l : l = Left
        OBVIOUS
    <2>2. l \in [1 .. k -> Answers]
        BY <1>3, <1>4, <2>1
    <2>3. l \in Seq(Answers) /\ DOMAIN l = 1 .. k
        BY <1>2, <2>2, SeqDef
    <2> QED
        BY <2>1, <2>3
<1> QED
    BY <1>3, <1>5 DEF ToSet

LEMMA Joined ==
    ASSUME NEW s \in Seq(Answers), NEW t \in Seq(Answers)
    PROVE  s \o t \in Seq(Answers) /\ \A a \in ToSet(s \o t) : a \in ToSet(s) \/ a \in ToSet(t)
<1>1. /\ s \o t \in Seq(Answers) /\ Len(s) \in Nat /\ Len(t) \in Nat /\ DOMAIN (s \o t) = 1 .. Len(s) + Len(t)
      /\ DOMAIN s = 1 .. Len(s) /\ DOMAIN t = 1 .. Len(t)
      /\ \A i \in 1 .. Len(s) + Len(t) : (s \o t)[i] = IF i <= Len(s) THEN s[i] ELSE t[i - Len(s)]
    OBVIOUS
<1>2. ASSUME NEW i \in DOMAIN (s \o t) PROVE (s \o t)[i] \in ToSet(s) \/ (s \o t)[i] \in ToSet(t)
    <2>1. CASE i <= Len(s)
        BY <1>1, <2>1 DEF ToSet
    <2>2. CASE ~(i <= Len(s))
        <3>1. i - Len(s) \in DOMAIN t
            BY <1>1, <2>2
        <3> QED
            BY <1>1, <2>2, <3>1 DEF ToSet
    <2> QED
        BY <2>1, <2>2
<1> QED
    BY <1>1, <1>2 DEF ToSet

LEMMA RunStored ==
    ASSUME Inv, turn.pc = "ending"
    PROVE  Run(turn) \in RunRecord /\ StoredRun(Run(turn), begun, taken)
<1>1. TurnType(turn) /\ RoundInv(turn, begun, taken) /\ CallsInv(turn, begun, taken) /\ PlaceInv(turn)
    BY RunningFacts
<1>2. PICK t : t = Answered(turn)
    OBVIOUS
<1>3. /\ TurnType(t) /\ RoundInv(t, begun, taken) /\ t.made = turn.made /\ t.sums = turn.sums /\ t.status = turn.status
    <2>1. CASE turn.calls = <<>>
        BY <1>1, <1>2, <2>1 DEF Answered
    <2>2. CASE turn.calls # <<>>
        <3>1. PICK results : results = turn.res \o Left
            OBVIOUS
        <3>2. turn.res \in Seq(Answers) /\ DOMAIN turn.res \subseteq DOMAIN turn.calls
            BY <1>1 DEF TurnType, CallsInv
        <3>3. \A a \in ToSet(turn.res) : a.call \in CallsIn(turn.msgs) /\ Says(a, begun)
            BY <1>1, <3>2 DEF CallsInv, ToSet
        <3>4. results \in Seq(Answers) /\ \A a \in ToSet(results) : a.call \in CallsIn(turn.msgs) /\ Says(a, begun)
            BY <1>1, <3>1, <3>2, <3>3, LeftTrue, Joined
        <3>5. t = Say1(turn, "tool", {}, results)
            BY <1>2, <2>2, <3>1 DEF Answered
        <3> QED
            BY <1>1, <3>4, <3>5, Says1
    <2> QED
        BY <2>1, <2>2
<1>4. PICK u : u = Closed(t)
    OBVIOUS
<1>5. /\ TurnType(u) /\ RoundInv(u, begun, taken) /\ u.made = turn.made /\ u.sums = turn.sums
    <2>1. u = t \/ u = Say1(t, "note", {}, <<>>)
        BY <1>4 DEF Closed
    <2>2. CASE u = Say1(t, "note", {}, <<>>)
        BY <1>3, <2>2, NoResults, Says1
    <2> QED
        BY <1>3, <2>1, <2>2
<1>6. PICK r : r = Run(turn)
    OBVIOUS
<1>7. r = [status |-> turn.status, sums |-> u.sums, msgs |-> u.msgs]
    BY <1>2, <1>4, <1>5, <1>6 DEF Run
<1>8. /\ u.msgs \in Seq(Messages) /\ u.made \in Nat /\ u.made <= MaxSteps /\ u.sums \in Nat /\ turn.status \in Ended
      /\ Cardinality(Replies(u.msgs)) + u.sums <= u.made /\ Cardinality(Replies(u.msgs)) \in Nat
    BY <1>1, <1>5, AgexAssumption, RepliesFinite DEF TurnType, RoundInv
<1>9. r \in RunRecord /\ r.msgs = u.msgs /\ r.sums = u.sums
    BY <1>7, <1>8 DEF RunRecord
<1>10. ASSUME NEW c \in CallsIn(u.msgs) PROVE c[1][1] <= taken
    <2>1. c \in CallIds /\ Before(c, u, taken) /\ taken \in Nat
        BY <1>5, <1>8, CallsTyped, AgexAssumption DEF RoundInv, Inv, HostType
    <2> QED
        BY <2>1 DEF Before, CallIds, Ids
<1>11. Cardinality(Replies(u.msgs)) + u.sums <= MaxSteps
    BY <1>8, AgexAssumption
<1> QED
    BY <1>5, <1>6, <1>9, <1>10, <1>11 DEF StoredRun, RoundInv

\* The runs before the one that ends.
LEMMA EarlierRuns ==
    ASSUME Inv, InTurn
    PROVE  /\ Earlier \in Seq(RunRecord) /\ Len(Earlier) \in Nat /\ Len(Earlier) < taken
           /\ \A n \in DOMAIN Earlier : StoredRun(Earlier[n], begun, taken)
<1>1. /\ stored \in Seq(RunRecord) /\ Len(stored) \in Nat /\ DOMAIN stored = 1 .. Len(stored)
      /\ taken \in Nat /\ Past = taken - 1 /\ Len(stored) < taken
    BY AgexAssumption DEF Inv, HostType, StoreInv, Past
<1>2. turn.resumed => stored # <<>>
    BY DEF Inv, TurnInv
<1>3. /\ Earlier \in Seq(RunRecord) /\ Len(Earlier) \in Nat /\ Len(Earlier) <= Len(stored)
      /\ DOMAIN Earlier = 1 .. Len(Earlier) /\ \A n \in 1 .. Len(Earlier) : Earlier[n] = stored[n]
    <2>1. CASE turn.resumed
        <3>1. Earlier = SubSeq(stored, 1, Len(stored) - 1) /\ Len(stored) >= 1
            BY <1>1, <1>2, <2>1, EmptySeq DEF Earlier, Front
        <3> QED
            BY <1>1, <3>1
    <2>2. CASE ~turn.resumed
        BY <1>1, <2>2 DEF Earlier
    <2> QED
        BY <2>1, <2>2
<1>4. ASSUME NEW n \in DOMAIN Earlier PROVE StoredRun(Earlier[n], begun, taken)
    <2>1. n \in DOMAIN stored /\ Earlier[n] = stored[n] /\ stored[n] \in RunRecord /\ StoredRun(stored[n], begun, taken - 1)
        BY <1>1, <1>3 DEF Inv, StoreInv
    <2>2. ASSUME NEW c \in CallsIn(stored[n].msgs) PROVE c[1][1] <= taken
        <3>1. c \in CallIds /\ c[1][1] <= taken - 1
            BY <2>1, CallsTyped DEF RunRecord, StoredRun
        <3> QED
            BY <1>1, <3>1 DEF CallIds, Ids
    <2> QED
        BY <2>1, <2>2 DEF StoredRun
<1> QED
    BY <1>1, <1>3, <1>4

LEMMA EndTurnKeeps == ASSUME Inv, EndTurn PROVE Inv'
<1>1. /\ turn.pc = "ending" /\ (turn.cutting # NoCall => tool = "off") /\ ran' = turn.status
      /\ turn' = Idle /\ aborted' = FALSE /\ plane' = [plane EXCEPT !.kept = plane.now]
      /\ UNCHANGED <<tool, result, nudged, taken, begun, world, keep, again, offered>>
    BY DEF EndTurn, End
<1>2. /\ InTurn /\ TurnType(turn) /\ PlaceInv(turn) /\ (tool = "running" => turn.cutting # NoCall)
    BY <1>1, RunningFacts
<1>3. tool = "off" /\ turn.status \in Ended
    BY <1>1, <1>2 DEF Inv, HostType, TurnType
<1>4. PICK r : r = Run(turn)
    OBVIOUS
<1>5. r \in RunRecord /\ StoredRun(r, begun, taken)
    BY <1>1, <1>4, RunStored
<1>6. stored' = Append(Earlier, r)
    BY <1>4 DEF EndTurn, End
<1>7. stored' \in Seq(RunRecord) /\ Len(stored') <= taken /\ \A n \in DOMAIN stored' : StoredRun(stored'[n], begun, taken)
    <2>1. /\ Earlier \in Seq(RunRecord) /\ Len(Earlier) \in Nat /\ Len(Earlier) < taken
          /\ \A n \in DOMAIN Earlier : StoredRun(Earlier[n], begun, taken)
        BY <1>2, EarlierRuns
    <2>2. /\ stored' \in Seq(RunRecord) /\ Len(stored') = Len(Earlier) + 1 /\ DOMAIN stored' = 1 .. Len(Earlier) + 1
          /\ DOMAIN Earlier = 1 .. Len(Earlier) /\ stored'[Len(Earlier) + 1] = r
          /\ \A n \in 1 .. Len(Earlier) : stored'[n] = Earlier[n]
        BY <1>5, <1>6, <2>1
    <2>3. taken \in Nat
        BY AgexAssumption DEF Inv, HostType
    <2>4. ASSUME NEW n \in DOMAIN stored' PROVE StoredRun(stored'[n], begun, taken)
        <3>1. n \in 1 .. Len(Earlier) \/ n = Len(Earlier) + 1
            BY <2>1, <2>2
        <3> QED
            BY <1>5, <2>1, <2>2, <3>1
    <2> QED
        BY <2>1, <2>2, <2>3, <2>4
<1>8. DOMAIN plane' = {"now", "kept"} /\ plane'.now = plane.now /\ plane'.kept = plane.now
    BY <1>1 DEF Inv, HostType
<1>9. HostType'
    BY <1>1, <1>3, <1>8 DEF Inv, HostType
<1>10. ~InTurn' /\ turn'.pc = "idle" /\ Past' = taken
    BY <1>1, IdleType DEF InTurn, Past
<1>11. StoreInv'
    BY <1>1, <1>7, <1>10 DEF Inv, StoreInv
<1>12. TurnInv'
    BY <1>1, <1>3, <1>10, IdleType DEF TurnInv
<1>13. result # "none" /\ ran' # "cancelled" => plane'.kept = result
    BY <1>1, <1>2, <1>8 DEF Inv, PlaneInv, CutOff
<1>14. (AsTask' <=> AsTask) /\ (AsTask => world = "open") /\ ran' # "threw"
    BY <1>1, <1>2, <1>3, <1>8 DEF AsTask, Inv, PlaneInv, Ended
<1>15. (result = "none" => (again <=> plane'.kept = "needs_input")) /\ (world = "none" => plane'.kept \in {"none", "running"})
    BY <1>2, <1>8 DEF Inv, PlaneInv
<1>16. world # "kept"
    BY <1>2 DEF Inv, PlaneInv
<1>17. PlaneInv'
    BY <1>1, <1>8, <1>10, <1>13, <1>14, <1>15, <1>16 DEF Inv, PlaneInv, PlaneTrue, AsTask
<1> QED
    BY <1>9, <1>11, <1>12, <1>17 DEF Inv
-----------------------------------------------------------------------------
(* What every state and every step keeps.                                  *)

LEMMA TurnsStart == TInit => Inv
<1> SUFFICES ASSUME TInit PROVE Inv
    OBVIOUS
<1>1. /\ stored = <<>> /\ turn = Idle /\ aborted = FALSE /\ tool = "off" /\ result = "none" /\ nudged = 0
      /\ taken = 0 /\ begun = {} /\ world = "none" /\ again = FALSE /\ ran = "none" /\ offered = FALSE
    BY DEF TInit, Init
<1>2. PICK s \in {"none", "running"} : plane = [now |-> s, kept |-> s]
    BY DEF TInit, Init
<1>3. plane \in [now : States, kept : States] /\ plane.now = s /\ plane.kept = s /\ s \in States /\ s # "needs_input"
    BY <1>2 DEF States
<1>4. ~InTurn /\ Past = 0 /\ turn.pc = "idle"
    BY <1>1, IdleType DEF InTurn, Past
<1>5. HostType
    <2>1. nudged \in 0 .. Nudges /\ taken \in 0 .. MaxTurns
        BY <1>1, AgexAssumption
    <2> QED
        BY <1>1, <1>3, <2>1 DEF HostType
<1>6. stored \in Seq(RunRecord) /\ Len(stored) <= Past /\ DOMAIN stored = {}
    BY <1>1, <1>4
<1>7. StoreInv
    BY <1>1, <1>6 DEF StoreInv
<1>8. TurnInv
    BY <1>1, <1>4, IdleType DEF TurnInv
<1>9. PlaneInv
    BY <1>1, <1>3, <1>4 DEF PlaneInv, PlaneTrue, AsTask
<1> QED
    BY <1>5, <1>7, <1>8, <1>9 DEF Inv

LEMMA Stutters == ASSUME Inv, UNCHANGED tvars PROVE Inv'
<1>1. UNCHANGED <<stored, turn, aborted, tool, result, plane, nudged, taken, begun, world, keep, again, ran, offered>>
    BY DEF tvars, vars, task
<1> QED
    BY <1>1 DEF Inv, HostType, StoreInv, TurnInv, PlaneInv, PlaneTrue, AsTask, InTurn, Past

LEMMA AskKeeps == ASSUME Inv, Ask, UNCHANGED task PROVE Inv'
<1>1. \/ Prepare \/ FoldMade \/ Reply \/ Stop
      \/ PrepareStopped \/ ReplyStopped \/ RequestFails
    BY DEF Ask
<1> QED
    BY <1>1, PrepareKeeps, FoldKeeps, ReplyKeeps, StopKeeps, FailuresKeep

LEMMA CallsKeep == ASSUME Inv, Calls, UNCHANGED task PROVE Inv'
<1>1. \/ CallRefused \/ CallTool \/ CallReturns \/ ToolEnds \/ Deliver
      \/ CallStopped \/ CallCut \/ DeliverFails
    BY DEF Calls
<1> QED
    BY <1>1, RefusedKeeps, CallToolKeeps, CallReturnsKeeps, ToolEndsKeeps, DeliverKeeps, FailuresKeep

LEMMA TurnsKept == ASSUME Inv, [TNext]_tvars PROVE Inv'
<1>1. CASE RunTask \/ ResumeTask \/ BeginThrows \/ EndTurn \/ PutAway \/ Dies
    BY <1>1, RunTaskKeeps, ResumeTaskKeeps, BeginThrowsKeeps, EndTurnKeeps, PutAwayKeeps, DiesKeeps
<1>2. CASE Others /\ UNCHANGED task
    <2>1. Resume \/ BeginFold \/ Opened \/ Ask \/ Calls \/ Settle \/ Abandon \/ Cancel
        BY <1>2 DEF Others
    <2> QED
        BY <1>2, <2>1, ResumeKeeps, FoldKeeps, OpenedKeeps, AskKeeps, CallsKeep, SettleKeeps, AbandonKeeps, CancelKeeps
<1>3. CASE ~AsTask /\ Say /\ UNCHANGED task
    BY <1>3, SayKeeps
<1>4. CASE UNCHANGED tvars
    BY <1>4, Stutters
<1> QED
    BY <1>1, <1>2, <1>3, <1>4 DEF TNext

LEMMA MessageIs == ASSUME NEW m \in Messages PROVE MsgOK(m)
<1>1. /\ m.id \in Ids /\ m.run \in 1 .. MaxTurns /\ m.role \in {"user", "assistant", "tool", "note", "notice"}
      /\ m.calls \subseteq CallIds /\ m.results \in Seq(Answers)
    BY DEF Messages
<1>2. \A i \in DOMAIN m.results : m.results[i] \in Answers
    BY <1>1
<1>3. \A a \in ToSet(m.results) : a.how \in {"ran", "over", "cut", "left"}
    BY <1>2 DEF ToSet, Answers
<1> QED
    BY <1>1, <1>3 DEF MsgOK, CallIds

LEMMA Member == ASSUME NEW S, NEW s \in Seq(S), NEW x \in ToSet(s) PROVE x \in S /\ \E i \in DOMAIN s : x = s[i]
    BY DEF ToSet

LEMMA InvTypes == Inv => TypeOK
<1> SUFFICES ASSUME Inv PROVE TypeOK
    OBVIOUS
<1>1. stored \in Seq(RunRecord) /\ TurnType(turn) /\ HostType
    BY DEF Inv, StoreInv, TurnInv
<1>2. ASSUME NEW r \in ToSet(stored) PROVE r.status \in Ended /\ \A m \in ToSet(r.msgs) : MsgOK(m)
    <2>1. r \in RunRecord
        BY <1>1, Member
    <2>2. r.status \in Ended /\ r.msgs \in Seq(Messages)
        BY <2>1 DEF RunRecord
    <2> QED
        BY <2>2, Member, MessageIs
<1>3. \A m \in ToSet(turn.msgs) : MsgOK(m)
    <2>1. turn.msgs \in Seq(Messages)
        BY <1>1 DEF TurnType
    <2> QED
        BY <2>1, Member, MessageIs
<1>4. turn.made \in 0 .. MaxSteps /\ turn.sums <= turn.made
    BY <1>1, AgexAssumption DEF TurnType
<1>5. nudged <= Nudges /\ taken <= MaxTurns
    BY <1>1, AgexAssumption DEF HostType
<1>6. plane \in [now : Settled \cup {"running", "none"}, kept : Settled \cup {"running", "none"}]
    BY <1>1 DEF HostType, States
<1> QED
    BY <1>1, <1>2, <1>3, <1>4, <1>5, <1>6 DEF TypeOK, TurnType, HostType, Places

LEMMA InvReports == Inv => ReportsTrue
<1> SUFFICES ASSUME Inv, NEW r \in ToSet(stored), NEW m \in ToSet(r.msgs), NEW a \in ToSet(m.results)
             PROVE  (a.how \in {"ran", "cut"}) = (a.call \in begun)
    BY DEF ReportsTrue
<1>1. r \in RunRecord /\ Heard(r.msgs, begun)
    BY Member DEF Inv, StoreInv, StoredRun
<1>2. PICK i \in DOMAIN r.msgs : m = r.msgs[i]
    BY DEF ToSet
<1>3. a \in ResultsIn(r.msgs)
    BY <1>2 DEF ResultsIn
<1> QED
    BY <1>1, <1>3 DEF Heard, Says

LEMMA InvBounds == Inv => RunsBounded
<1> SUFFICES ASSUME Inv, NEW r \in ToSet(stored)
             PROVE  /\ Cardinality(Replies(r.msgs)) + r.sums <= MaxSteps
                    /\ MaxToolCalls # NoLimit =>
                         Cardinality((UNION {CallsOf(m.results) : m \in ToSet(r.msgs)}) \cap begun) <= MaxToolCalls
    BY DEF RunsBounded, Replies
<1>1. r \in RunRecord /\ StoredRun(r, begun, Past)
    BY Member DEF Inv, StoreInv
<1> DEFINE said == UNION {CallsOf(m.results) : m \in ToSet(r.msgs)}
           made == said \cap begun
<1>2. said \subseteq CallsIn(r.msgs)
    <2> SUFFICES ASSUME NEW c \in said PROVE c \in CallsIn(r.msgs)
        OBVIOUS
    <2>1. PICK m \in ToSet(r.msgs) : c \in CallsOf(m.results)
        OBVIOUS
    <2>2. PICK a \in ToSet(m.results) : c = a.call
        BY <2>1 DEF CallsOf
    <2>3. PICK i \in DOMAIN r.msgs : m = r.msgs[i]
        BY DEF ToSet
    <2>4. a \in ResultsIn(r.msgs)
        BY <2>2, <2>3 DEF ResultsIn
    <2> QED
        BY <1>1, <2>2, <2>4 DEF StoredRun, Heard
<1>8. made \subseteq CallsIn(r.msgs) \cap begun
    <2> HIDE DEF said
    <2> QED
        BY <1>2
<1> HIDE DEF made, said
<1>3. Heard(r.msgs, begun)
    BY <1>1 DEF StoredRun
<1>4. IsFiniteSet(CallsIn(r.msgs) \cap begun) /\ Cardinality(CallsIn(r.msgs) \cap begun) \in Nat
    BY <1>3, MadeFinite
<1>5. IsFiniteSet(made) /\ Cardinality(made) <= Cardinality(CallsIn(r.msgs) \cap begun)
    BY <1>8, <1>4, FS_Subset
<1>6. Cardinality(made) \in Nat
    BY <1>5, FS_CardinalityType
<1>7. MaxToolCalls # NoLimit => Cardinality(made) <= MaxToolCalls
    BY <1>3, <1>4, <1>5, <1>6, AgexAssumption DEF Heard
<1>9. Cardinality(Replies(r.msgs)) + r.sums <= MaxSteps
    BY <1>1 DEF StoredRun
<1> QED
    BY <1>7, <1>9 DEF made, said

\* In every state: messages, runs and planes are well formed; a run, resumed
\* or not, is within its limits on model and tool calls (agent.ts:631-639);
\* what a stored run says of a call is what happened to it (agent.ts:731-732,
\* 798-816); and a kept world's plane says how its task came out, unless its
\* run was cancelled while its code settled it (task.ts:824-829, 900-911).
THEOREM AgentStaysTrue == TSpec => []TurnsTrue
<1>1. Inv => TurnsTrue
    BY InvTypes, InvReports, InvBounds DEF TurnsTrue, Inv, PlaneInv
<1> QED
    BY TurnsStart, TurnsKept, <1>1, PTL DEF TSpec

LEMMA ToolOff == ASSUME Inv, turn.pc = "ending", turn.cutting # NoCall => tool = "off" PROVE tool = "off"
    BY RunningFacts DEF Inv, HostType

\* The steps that store a run, begin a call or delete a world.
LEMMA StoringSteps ==
    ASSUME [TNext]_tvars, stored' # stored
    PROVE  EndTurn \/ Abandon
    BY DEF TNext, tvars, vars, task, host, Others, RunTask, ResumeTask, BeginThrows, PutAway, Dies, Crash, Say, Resume,
           Begin, BeginFold, Opened, Ask, Calls, Settle, Cancel, Fails, Prepare, PrepareStopped, FoldMade, Reply,
           ReplyStopped, RequestFails, Stop, CallStopped, CallRefused, CallTool, CallReturns, CallCut, ToolEnds,
           Deliver, DeliverFails

LEMMA BeginningSteps ==
    ASSUME [TNext]_tvars, begun' # begun
    PROVE  CallTool
    BY DEF TNext, tvars, vars, task, host, Others, RunTask, ResumeTask, BeginThrows, EndTurn, End, PutAway, Dies, Crash,
           Say, Resume, Begin, BeginFold, Opened, Ask, Calls, Settle, Abandon, Cancel, Fails, Prepare, PrepareStopped,
           FoldMade, Reply, ReplyStopped, RequestFails, Stop, CallStopped, CallRefused, CallReturns, CallCut, ToolEnds,
           Deliver, DeliverFails

LEMMA DeletingSteps ==
    ASSUME [TNext]_tvars, world' = "gone", world # "gone"
    PROVE  PutAway
    BY DEF TNext, tvars, task, RunTask, ResumeTask, BeginThrows, EndTurn, Dies

\* In every step: a run is stored when no tool of it works on any more
\* (agent.ts:869-871); a turn that was stopped begins no call
\* (agent.ts:505-511, 707); and the world of a task that waits for an answer
\* is deleted for no other reason than that the task settled, however often
\* its resume is stopped, fails or dies (task.ts:535-538).
THEOREM AgentStopsKept == TSpec => StopsKept
<1>1. Inv /\ [TNext]_tvars => (stored' # stored => tool = "off")
    <2> SUFFICES ASSUME Inv, [TNext]_tvars, stored' # stored PROVE tool = "off"
        OBVIOUS
    <2>1. CASE EndTurn
        BY <2>1, ToolOff DEF EndTurn, End
    <2>2. CASE Abandon
        BY <2>2, IdleFacts DEF Abandon
    <2> QED
        BY <2>1, <2>2, StoringSteps
<1>2. Inv /\ [TNext]_tvars => (aborted => begun' = begun)
    BY BeginningSteps DEF CallTool
<1>3. Inv /\ [TNext]_tvars =>
        (world' = "gone" /\ world # "gone" /\ plane.kept = "needs_input" => result \in {"success", "failed"})
    <2> SUFFICES ASSUME Inv, PutAway, world' = "gone", plane.kept = "needs_input"
                 PROVE  result \in {"success", "failed"}
        BY DeletingSteps
    <2>1. ~Waiting /\ turn = Idle /\ ran # "none"
        BY DEF PutAway
    <2>2. ~InTurn
        BY <2>1, IdleFacts
    <2>3. result = "none" => again
        BY DEF Inv, PlaneInv
    <2>4. ran = "threw" => result = "none"
        BY DEF Inv, PlaneInv
    <2>5. result \in Settled \cup {"none"}
        BY DEF Inv, HostType
    <2> QED
        BY <2>1, <2>3, <2>4, <2>5 DEF Waiting, Settled
<1>4. (stored' # stored => tool = "off") => [stored' # stored => tool = "off"]_vars
    OBVIOUS
<1>5. (aborted => begun' = begun) => [aborted => begun' = begun]_vars
    OBVIOUS
<1> QED
    BY TurnsStart, TurnsKept, <1>1, <1>2, <1>3, <1>4, <1>5, PTL DEF TSpec, StopsKept, CallsOver, CancelHeard, AskedStays


-----------------------------------------------------------------------------
(* The maps of an agent's code.                                            *)

JobEnds == {"cancelled", "answered"}

\* Where a map's loops are, and which delegates it has asked: a job is asked
\* exactly if it is not new (code-tasks.ts:490-507).
LoopAt(m) ==
    /\ pc[m] = "off" => next[m] = 1
    /\ pc[m] = "loop" => next[m] <= Items + Len(started[m])
    /\ pc[m] = "ask" => next[m] <= Items
    /\ pc[m] = "returned" => next[m] = Items + Len(started[m]) + 1
OneOrder(m) ==
    /\ \A i \in DOMAIN started[m] : started[m][i][1] = m /\ started[m][i][2] < next[m]
    /\ \A i, k \in DOMAIN started[m] : i < k => started[m][i][2] < started[m][k][2]
Asks == \A j \in Job : job[j] = "new" <=> j \notin Mine(j[1])

\* A run that ends settles its `done`, and its reply with it
\* (code-tasks.ts:366-377).
JobsTrue(j) ==
    /\ job[j] \in {"new", "queued", "running"} => j \notin done
    /\ job[j] \in {"landing", "answered"} => reply[j] \in {"success", "failed"}
    /\ j \in ending => job[j] = "cancelled"
    /\ j \in swept => job[j] \in JobEnds /\ j \notin ending
    /\ reply[j] = "success" => j \in done
    /\ reply[j] = "never ran" => j \notin done
    /\ reply[j] = "cancelled" => job[j] \in {"new", "cancelled"}

\* An item passed without being asked is cancelled; one not reached has no
\* reply (code-tasks.ts:498-501).
Passed(j) ==
    /\ j[2] >= next[j[1]] => reply[j] = "never ran"
    /\ j[2] < next[j[1]] /\ j \notin Mine(j[1]) => reply[j] = "cancelled"

\* The delegate MaxParallel places back is done before another is asked
\* (code-tasks.ts:495-497).
Ahead(m) == IF pc[m] = "ask" THEN MaxParallel - 1 ELSE MaxParallel
Behind(m) == \A i \in DOMAIN started[m] : i <= Len(started[m]) - Ahead(m) => started[m][i] \in done

\* What was collected has settled, and has a reply (code-tasks.ts:508-540).
Collected(m) ==
    \A i \in DOMAIN started[m] : i < next[m] - Items =>
        LET j == started[m][i] IN
        /\ job[j] \in JobEnds
        /\ reply[j] = "never ran" => job[j] = "cancelled" /\ j \notin ending

MapInv ==
    /\ MTypeOK
    /\ \A m \in Maps : LoopAt(m) /\ OneOrder(m) /\ Behind(m) /\ Collected(m)
    /\ Asks
    /\ \A j \in Job : JobsTrue(j) /\ Passed(j)
    /\ StopsAll

-----------------------------------------------------------------------------
(* Jobs, and the delegates of a map.                                        *)

LEMMA JobIs ==
    /\ \A j \in Job : j[1] \in Maps /\ j[2] \in 1 .. Items /\ j = <<j[1], j[2]>>
    /\ \A m \in Maps : \A k \in 1 .. Items :
           <<m, k>> \in Job /\ <<m, k>>[1] = m /\ <<m, k>>[2] = k
BY DEF Job

LEMMA TypeFacts ==
    ASSUME MTypeOK, NEW m \in Maps
    PROVE  /\ started[m] \in Seq(Job) /\ Len(started[m]) \in Nat
           /\ DOMAIN started[m] = 1 .. Len(started[m])
           /\ \A i \in 1 .. Len(started[m]) : started[m][i] \in Job
           /\ next[m] \in Nat \ {0}
<1>1. started[m] \in Seq(Job) /\ next[m] \in Nat \ {0}
    BY DEF MTypeOK
<1> QED
    BY <1>1

LEMMA SlotFreeBoolean == SlotFree \in BOOLEAN
BY DEF SlotFree

\* A delegate of a map is one it started, so of its own items.
LEMMA MineOwn ==
    ASSUME MapInv, NEW m \in Maps, NEW j \in Mine(m)
    PROVE  j \in Job /\ j[1] = m /\ j[2] < next[m] /\ job[j] # "new"
<1>1. PICK i \in DOMAIN started[m] : j = started[m][i]
    BY DEF Mine
<1>2. j \in Job /\ j[1] = m /\ j[2] < next[m]
    BY <1>1, TypeFacts DEF MapInv, OneOrder
<1> QED
    BY <1>2 DEF MapInv, Asks

-----------------------------------------------------------------------------
(* Steps that ask no delegate and pass no item.                             *)

\* What such a step may do to the jobs: a new one stays new, a settled one
\* settled, a run that is done stays done.
JobsMove ==
    /\ \A j \in Job : job'[j] = "new" <=> job[j] = "new"
    /\ \A j \in Job : job[j] \in JobEnds => job'[j] \in JobEnds
    /\ \A j \in Job : reply'[j] = "never ran" => reply[j] = "never ran"
    /\ \A j \in Job : job[j] = "cancelled" => job'[j] = "cancelled" /\ (j \in ending' => j \in ending)
    /\ \A j \in Job : job[j] = "new" => reply'[j] = reply[j]
    /\ done \subseteq done'

LEMMA Standing ==
    ASSUME MapInv, JobsMove, MTypeOK', UNCHANGED <<started, next>>,
           \A m \in Maps : LoopAt(m)' /\ Behind(m)',
           \A j \in Job : JobsTrue(j)', StopsAll'
    PROVE  MapInv'
<1>1. \A m \in Maps : Mine(m)' = Mine(m)
    BY DEF Mine
<1>2. \A m \in Maps : OneOrder(m)'
    BY DEF MapInv, OneOrder

<1>4. \A m \in Maps : Collected(m)'
    BY TypeFacts DEF MapInv, Collected, JobsMove
<1>5. Asks'
  <2>1. \A j \in Job : job'[j] = "new" <=> j \notin Mine(j[1])
    BY DEF MapInv, Asks, JobsMove
  <2> QED
    BY <1>1, <2>1, JobIs DEF Asks
<1>6. \A j \in Job : Passed(j)'
  <2> TAKE j \in Job
  <2>1. j[2] >= next[j[1]] => job[j] = "new"
    <3> SUFFICES ASSUME j[2] >= next[j[1]] PROVE job[j] = "new"
        OBVIOUS
    <3>1. j \notin Mine(j[1])
        BY MineOwn, JobIs, TypeFacts DEF MapInv
    <3> QED
        BY <3>1 DEF MapInv, Asks
  <2>2. j \notin Mine(j[1]) => job[j] = "new"
    BY DEF MapInv, Asks
  <2>3. j[2] >= next[j[1]] => reply'[j] = "never ran"
    BY <2>1 DEF MapInv, Passed, JobsMove
  <2>4. j[2] < next[j[1]] /\ j \notin Mine(j[1]) => reply'[j] = "cancelled"
    BY <2>2 DEF MapInv, Passed, JobsMove
  <2>5. Mine(j[1])' = Mine(j[1])
    BY <1>1, JobIs
  <2> QED
    BY <2>3, <2>4, <2>5 DEF Passed
<1> QED
    BY <1>2, <1>4, <1>5, <1>6 DEF MapInv

LEMMA CallStep ==
    ASSUME MapInv, NEW m \in Maps, Call(m)
    PROVE  MapInv'
<1> USE DEF Call
<1>1. MTypeOK'
    BY DEF MapInv, MTypeOK
<1>2. JobsMove
    BY DEF JobsMove
<1>3. \A n \in Maps : LoopAt(n)'
  <2>1. next[m] = 1 /\ next[m] <= Items + Len(started[m])
    BY TypeFacts, MapAssumption DEF MapInv, LoopAt
  <2> QED
    BY <2>1 DEF MapInv, LoopAt, MTypeOK
<1>4. \A n \in Maps : Behind(n)'
    BY DEF MapInv, Behind, Ahead, MTypeOK
<1>5. \A j \in Job : JobsTrue(j)'
    BY DEF MapInv, JobsTrue, JobEnds
<1>6. StopsAll'
    BY DEF StopsAll
<1> QED
    BY <1>1, <1>2, <1>3, <1>4, <1>5, <1>6, Standing

LEMMA AskForStep ==
    ASSUME MapInv, NEW m \in Maps, AskFor(m)
    PROVE  MapInv'
<1> USE DEF AskFor
<1>1. MTypeOK'
    BY DEF MapInv, MTypeOK
<1>2. JobsMove
    BY DEF JobsMove
<1>3. \A n \in Maps : LoopAt(n)'
    BY DEF MapInv, LoopAt, MTypeOK
<1>4. \A n \in Maps : Behind(n)'
  <2>1. ASSUME NEW i \in DOMAIN started[m], i <= Len(started[m]) - (MaxParallel - 1)
        PROVE  started[m][i] \in done
    <3>1. MaxParallel \in Nat \ {0} /\ Len(started[m]) \in Nat /\ i \in 1 .. Len(started[m])
        BY MapAssumption, TypeFacts DEF MapInv
    <3>2. CASE i <= Len(started[m]) - MaxParallel
        BY <3>2 DEF MapInv, Behind, Ahead
    <3>3. CASE i = Len(started[m]) - MaxParallel + 1
        BY <3>1, <3>3 DEF Room
    <3> QED
        BY <2>1, <3>1, <3>2, <3>3
  <2>2. \A n \in Maps : n # m => pc'[n] = pc[n]
    BY DEF MapInv, MTypeOK
  <2>3. pc'[m] = "ask"
    BY DEF MapInv, MTypeOK
  <2> QED
    BY <2>1, <2>2, <2>3 DEF MapInv, Behind, Ahead
<1>5. \A j \in Job : JobsTrue(j)'
    BY DEF MapInv, JobsTrue, JobEnds
<1>6. StopsAll'
    BY DEF MapInv, StopsAll
<1> QED
    BY <1>1, <1>2, <1>3, <1>4, <1>5, <1>6, Standing

LEMMA AskThrowsStep ==
    ASSUME MapInv, NEW m \in Maps, AskThrows(m)
    PROVE  MapInv'
<1> USE DEF AskThrows
<1>1. MTypeOK'
    BY DEF MapInv, MTypeOK
<1>2. JobsMove
    BY DEF JobsMove
<1>3. \A n \in Maps : LoopAt(n)'
    BY DEF MapInv, LoopAt, MTypeOK
<1>4. \A n \in Maps : Behind(n)'
  <2>1. ASSUME NEW i \in DOMAIN started[m], i <= Len(started[m]) - MaxParallel
        PROVE  started[m][i] \in done
    <3>1. i \in Nat /\ i <= Len(started[m]) - (MaxParallel - 1)
        BY <2>1, TypeFacts, MapAssumption DEF MapInv
    <3> QED
        BY <3>1 DEF MapInv, Behind, Ahead
  <2>2. \A n \in Maps : n # m => pc'[n] = pc[n]
    BY DEF MapInv, MTypeOK
  <2>3. pc'[m] = "threw"
    BY DEF MapInv, MTypeOK
  <2> QED
    BY <2>1, <2>2, <2>3 DEF MapInv, Behind, Ahead
<1>5. \A j \in Job : JobsTrue(j)'
    BY DEF MapInv, JobsTrue, JobEnds
<1>6. StopsAll'
    BY DEF MapInv, StopsAll
<1> QED
    BY <1>1, <1>2, <1>3, <1>4, <1>5, <1>6, Standing

LEMMA StartsStep ==
    ASSUME MapInv, NEW j \in Job, Starts(j)
    PROVE  MapInv'
<1> USE DEF Starts
<1>1. MTypeOK'
    BY DEF MapInv, MTypeOK, JobStates
<1>2. JobsMove
    BY DEF MapInv, MTypeOK, JobsMove, JobEnds
<1>3. \A n \in Maps : LoopAt(n)' /\ Behind(n)'
    BY DEF MapInv, LoopAt, Behind, Ahead
<1>4. \A k \in Job : JobsTrue(k)'
    BY DEF MapInv, JobsTrue, MTypeOK, JobEnds
<1>5. StopsAll'
    BY DEF MapInv, StopsAll, MTypeOK
<1> QED
    BY <1>1, <1>2, <1>3, <1>4, <1>5, Standing

\* A map that has returned collected every delegate, so none of its jobs runs.
LEMMA ReturnedSettled ==
    ASSUME MapInv, NEW j \in Job, pc[j[1]] = "returned", job[j] # "new"
    PROVE  job[j] \in JobEnds /\ (reply[j] = "never ran" => j \notin ending)
<1>1. j[1] \in Maps /\ j \in Mine(j[1])
    BY JobIs DEF MapInv, Asks
<1>2. PICK i \in DOMAIN started[j[1]] : j = started[j[1]][i]
    BY <1>1 DEF Mine
<1>3. i < next[j[1]] - Items
    BY <1>1, TypeFacts, MapAssumption DEF MapInv, LoopAt
<1> QED
    BY <1>1, <1>2, <1>3 DEF MapInv, Collected

LEMMA RunsStep ==
    ASSUME MapInv, NEW j \in Job, Runs(j)
    PROVE  MapInv'
<1>1. /\ job[j] = "running" \/ j \in ending
      /\ ending' = ending \ {j} /\ done' = done \cup {j}
      /\ job' = IF job[j] = "running" THEN [job EXCEPT ![j] = "landing"] ELSE job
      /\ UNCHANGED <<pc, started, next, swept, jobs, stopped>>
    BY DEF Runs
<1>2. PICK r \in {"success", "failed", "cancelled"} :
        /\ r = "cancelled" => j \in ending
        /\ reply' = IF pc[j[1]] = "returned" THEN reply ELSE [reply EXCEPT ![j] = r]
    BY DEF Runs
<1>3. job[j] = "running" \/ job[j] = "cancelled"
    BY <1>1 DEF MapInv, JobsTrue
<1>4. job[j] = "running" => pc[j[1]] # "returned" /\ j \notin ending
    BY ReturnedSettled DEF MapInv, JobsTrue, JobEnds
<1>4a. pc[j[1]] = "returned" => reply[j] # "never ran"
    BY <1>1, <1>3, <1>4, ReturnedSettled
<1>5. MTypeOK'
    BY <1>1, <1>2 DEF MapInv, MTypeOK, JobStates
<1>6. JobsMove
    BY <1>1, <1>2, <1>3 DEF MapInv, MTypeOK, JobsMove, JobEnds
<1>7. \A n \in Maps : LoopAt(n)' /\ Behind(n)'
    BY <1>1 DEF MapInv, LoopAt, Behind, Ahead
<1>8. \A k \in Job : JobsTrue(k)'
    BY <1>1, <1>2, <1>3, <1>4, <1>4a DEF MapInv, JobsTrue, MTypeOK, JobEnds
<1>9. StopsAll'
    BY <1>1 DEF MapInv, StopsAll, MTypeOK
<1> QED
    BY <1>1, <1>5, <1>6, <1>7, <1>8, <1>9, Standing

LEMMA LandsStep ==
    ASSUME MapInv, NEW j \in Job, Lands(j) \/ Sweeps(j)
    PROVE  MapInv'
<1> USE DEF Lands, Sweeps
<1>1. MTypeOK'
    BY DEF MapInv, MTypeOK, JobStates
<1>2. JobsMove
    BY DEF MapInv, MTypeOK, JobsMove, JobEnds
<1>3. \A n \in Maps : LoopAt(n)' /\ Behind(n)'
    BY DEF MapInv, LoopAt, Behind, Ahead
<1>4. \A k \in Job : JobsTrue(k)'
    BY DEF MapInv, JobsTrue, MTypeOK, JobEnds
<1>5. StopsAll'
    BY DEF MapInv, StopsAll, MTypeOK
<1> QED
    BY <1>1, <1>2, <1>3, <1>4, <1>5, Standing

LEMMA CancelStep ==
    ASSUME MapInv, NEW set \in SUBSET Job, CancelJobs(set),
           UNCHANGED <<pc, started, next, swept, done, reply, jobs>>,
           stopped' = stopped \/ (stopped' = TRUE /\ set = jobs)
    PROVE  MapInv'
<1>1. PICK late \in SUBSET {j \in set : job[j] = "landing"} :
        /\ job' = [j \in Job |-> IF j \in late \/ (j \in set /\ Stops(j)) THEN "cancelled" ELSE job[j]]
        /\ ending' = ending \cup {j \in set : job[j] = "running"}
    BY DEF CancelJobs
<1>2. \A j \in Job :
        \/ job'[j] = job[j] /\ ~(j \in set /\ Stops(j))
        \/ job'[j] = "cancelled" /\ job[j] \in {"queued", "running", "landing"}
    BY <1>1 DEF Stops
<1>3. MTypeOK'
    BY <1>1 DEF MapInv, MTypeOK, JobStates
<1>4. JobsMove
    BY <1>1, <1>2 DEF JobsMove, JobEnds
<1>5. \A n \in Maps : LoopAt(n)' /\ Behind(n)'
    BY DEF MapInv, LoopAt, Behind, Ahead
<1>6. \A k \in Job : JobsTrue(k)'
    BY <1>1, <1>2 DEF MapInv, JobsTrue, Stops, JobEnds
<1>7. StopsAll'
    BY <1>2 DEF MapInv, StopsAll, Stops
<1> QED
    BY <1>3, <1>4, <1>5, <1>6, <1>7, Standing

-----------------------------------------------------------------------------
(* Steps that pass an item, ask a delegate, or collect a reply.             *)

LEMMA SkipStep ==
    ASSUME MapInv, NEW m \in Maps, Skip(m)
    PROVE  MapInv'
<1> DEFINE j == <<m, next[m]>>
<1>1. /\ pc[m] = "loop" /\ next[m] <= Items /\ stopped
      /\ reply' = [reply EXCEPT ![j] = "cancelled"]
      /\ UNCHANGED <<started, job, ending, swept, done, stopped>>
    BY DEF Skip
<1>2. /\ next' = [next EXCEPT ![m] = @ + 1]
      /\ pc' = [pc EXCEPT ![m] = IF next[m] >= Items + Len(started[m]) THEN "returned" ELSE "loop"]
      /\ jobs' \subseteq jobs
    BY DEF Skip, Onward
<1>3. /\ j \in Job /\ j[1] = m /\ j[2] = next[m] /\ next[m] \in Nat \ {0} /\ Items \in Nat
      /\ next'[m] = next[m] + 1 /\ (\A n \in Maps : n # m => next'[n] = next[n] /\ pc'[n] = pc[n])
  <2>1. next[m] \in 1 .. Items /\ Items \in Nat
    BY <1>1, TypeFacts, MapAssumption DEF MapInv
  <2>2. j \in Job /\ j[1] = m /\ j[2] = next[m]
    BY <2>1, JobIs
  <2>3. next'[m] = next[m] + 1 /\ (\A n \in Maps : n # m => next'[n] = next[n])
    BY <1>2 DEF MapInv, MTypeOK
  <2>4. \A n \in Maps : n # m => pc'[n] = pc[n]
    BY <1>2 DEF MapInv, MTypeOK
  <2> QED
    BY <2>1, <2>2, <2>3, <2>4
<1> HIDE DEF j
<1>4. j \notin Mine(m) /\ job[j] = "new"
    BY <1>3, MineOwn DEF MapInv, Asks
<1>5. \A n \in Maps : Mine(n)' = Mine(n)
    BY <1>1 DEF Mine
<1>6. MTypeOK'
  <2>1. next' \in [Maps -> Nat \ {0}]
    <3>1. next \in [Maps -> Nat \ {0}] /\ next' = [next EXCEPT ![m] = next[m] + 1]
        BY <1>2 DEF MapInv, MTypeOK
    <3>2. next[m] + 1 \in Nat \ {0}
        BY <1>3
    <3> QED
        BY <3>1, <3>2
  <2>2. pc' \in [Maps -> {"off", "loop", "ask", "returned", "threw"}]
    BY <1>2 DEF MapInv, MTypeOK
  <2> QED
    BY <1>1, <1>2, <1>3, <2>1, <2>2 DEF MapInv, MTypeOK
<1>7. \A n \in Maps : LoopAt(n)'
  <2>1. Len(started[m]) \in Nat
    BY TypeFacts DEF MapInv
  <2>2. LoopAt(m)'
    <3>1. pc'[m] = IF next[m] >= Items + Len(started[m]) THEN "returned" ELSE "loop"
        BY <1>2 DEF MapInv, MTypeOK
    <3> QED
        BY <1>1, <1>3, <2>1, <3>1 DEF LoopAt
  <2>3. \A n \in Maps : n # m => LoopAt(n)'
    BY <1>1, <1>3 DEF MapInv, LoopAt
  <2> QED
    BY <2>2, <2>3
<1>8. \A n \in Maps : OneOrder(n)'
  <2>1. \A n \in Maps : \A i \in DOMAIN started[n] : started[n][i][2] < next'[n]
    <3> TAKE n \in Maps
    <3> TAKE i \in DOMAIN started[n]
    <3>1. started[n][i] \in Job /\ started[n][i][2] < next[n]
        BY TypeFacts DEF MapInv, OneOrder
    <3> QED
        BY <1>3, <3>1, JobIs
  <2> QED
    BY <1>1, <2>1 DEF MapInv, OneOrder
<1>9. \A n \in Maps : Behind(n)'
  <2>1. Ahead(m)' = Ahead(m)
    BY <1>1, <1>2 DEF MapInv, MTypeOK, Ahead
  <2>2. \A n \in Maps : Ahead(n)' = Ahead(n)
    BY <1>3, <2>1 DEF Ahead
  <2> QED
    BY <1>1, <2>2 DEF MapInv, Behind
<1>10. \A n \in Maps : Collected(n)'
  <2>1. \A n \in Maps : n # m => Collected(n)'
    <3> TAKE n \in Maps
    <3> HAVE n # m
    <3>1. \A k \in Job : reply'[k] = "never ran" => reply[k] = "never ran"
        BY <1>1, <1>3 DEF MapInv, MTypeOK
    <3>2. \A i \in DOMAIN started[n] : started[n][i] \in Job
        BY TypeFacts DEF MapInv
    <3>3. Collected(n) /\ next'[n] = next[n]
        BY <1>3 DEF MapInv
    <3> QED
        BY <1>1, <3>1, <3>2, <3>3 DEF Collected
  <2>2. Collected(m)'
    <3>1. \A i \in DOMAIN started[m] : ~(i < next'[m] - Items)
        BY <1>1, <1>3, TypeFacts DEF MapInv
    <3> QED
        BY <1>1, <3>1 DEF Collected
  <2> QED
    BY <2>1, <2>2
<1>11. Asks'
  <2>1. \A k \in Job : job[k] = "new" <=> k \notin Mine(k[1])
    BY DEF MapInv, Asks
  <2> QED
    BY <1>1, <1>5, <2>1, JobIs DEF Asks
<1>12. \A k \in Job : JobsTrue(k)'
    BY <1>1, <1>3, <1>4 DEF MapInv, JobsTrue, MTypeOK, JobEnds
<1>13. \A k \in Job : Passed(k)'
  <2> TAKE k \in Job
  <2>1. k[1] \in Maps /\ k[2] \in 1 .. Items /\ Mine(k[1])' = Mine(k[1])
    BY <1>5, JobIs
  <2>2. CASE k = j
    <3>1. reply'[k] = "cancelled"
        BY <1>1, <1>3, <2>2 DEF MapInv, MTypeOK
    <3>2. k[2] = next[m] /\ next'[k[1]] = next[m] + 1
        BY <1>3, <2>2
    <3>3. ~(k[2] >= next'[k[1]])
        BY <1>3, <3>2
    <3> QED
        BY <3>1, <3>3 DEF Passed
  <2>3. CASE k # j
    <3>1. reply'[k] = reply[k]
        BY <1>1, <2>3 DEF MapInv, MTypeOK
    <3>2. CASE k[1] # m
        BY <1>3, <2>1, <3>1, <3>2 DEF MapInv, Passed
    <3>3. CASE k[1] = m
        <4>1. k[2] # next[m]
            BY <2>3, <3>3, JobIs DEF j
        <4>2. k[2] >= next'[k[1]] => k[2] >= next[k[1]]
            BY <1>3, <2>1, <3>3
        <4>3. k[2] < next'[k[1]] => k[2] < next[k[1]]
            BY <1>3, <2>1, <3>3, <4>1
        <4> QED
            BY <2>1, <3>1, <4>2, <4>3 DEF MapInv, Passed
    <3> QED
        BY <3>2, <3>3
  <2> QED
    BY <2>2, <2>3
<1>14. StopsAll'
    BY <1>1, <1>2 DEF MapInv, StopsAll
<1> QED
    BY <1>6, <1>7, <1>8, <1>9, <1>10, <1>11, <1>12, <1>13, <1>14 DEF MapInv

LEMMA CollectStep ==
    ASSUME MapInv, NEW m \in Maps, Collect(m)
    PROVE  MapInv'
<1>0. PICK i0, j : i0 = next[m] - Items /\ j = started[m][i0]
    OBVIOUS
<1>1. /\ pc[m] = "loop" /\ next[m] > Items /\ job[j] \in JobEnds
      /\ reply' = [reply EXCEPT ![j] = ReplyOf(j)]
      /\ UNCHANGED <<started, job, ending, swept, done, stopped>>
    BY <1>0 DEF Collect, JobEnds
<1>2. /\ next' = [next EXCEPT ![m] = next[m] + 1]
      /\ pc' = [pc EXCEPT ![m] = IF next[m] >= Items + Len(started[m]) THEN "returned" ELSE "loop"]
      /\ jobs' \subseteq jobs
    BY DEF Collect, Onward
<1>3. /\ next[m] \in Nat \ {0} /\ Items \in Nat /\ Len(started[m]) \in Nat
      /\ next'[m] = next[m] + 1 /\ (\A n \in Maps : n # m => next'[n] = next[n] /\ pc'[n] = pc[n])
  <2>1. next'[m] = next[m] + 1 /\ (\A n \in Maps : n # m => next'[n] = next[n])
    BY <1>2 DEF MapInv, MTypeOK
  <2>2. \A n \in Maps : n # m => pc'[n] = pc[n]
    BY <1>2 DEF MapInv, MTypeOK
  <2> QED
    BY <2>1, <2>2, TypeFacts, MapAssumption DEF MapInv
<1>4. i0 \in 1 .. Len(started[m]) /\ j \in Job
  <2>1. next[m] <= Items + Len(started[m])
    BY <1>1 DEF MapInv, LoopAt
  <2>2. i0 \in 1 .. Len(started[m])
    BY <1>0, <1>1, <1>3, <2>1
  <2> QED
    BY <1>0, <2>2, TypeFacts DEF MapInv
<1>5. j \in Mine(m)
    BY <1>0, <1>4, TypeFacts DEF MapInv, Mine
<1>6. \A n \in Maps : Mine(n)' = Mine(n)
    BY <1>1 DEF Mine
<1>7. /\ reply'[j] = "never ran" => reply[j] = "never ran" /\ job[j] = "cancelled" /\ j \notin ending
      /\ reply'[j] \in {"never ran", "success", "failed", "cancelled"}
      /\ job[j] = "answered" => reply'[j] \in {"success", "failed"}
      /\ reply'[j] = "success" => reply[j] = "success"
      /\ reply'[j] = "cancelled" => job[j] = "cancelled"
      /\ \A k \in Job : k # j => reply'[k] = reply[k]
  <2>1. reply'[j] = ReplyOf(j) /\ \A k \in Job : k # j => reply'[k] = reply[k]
    BY <1>1, <1>4 DEF MapInv, MTypeOK
  <2>2. /\ job[j] = "answered" => reply[j] \in {"success", "failed"}
        /\ job[j] \in {"cancelled", "answered"}
        /\ reply[j] = "cancelled" => job[j] = "cancelled"
        /\ j \in swept => j \notin ending
        /\ reply[j] \in {"never ran", "success", "failed", "cancelled"}
    BY <1>1, <1>4 DEF MapInv, MTypeOK, JobsTrue, JobEnds
  <2>3. CASE j \in swept
    BY <2>1, <2>2, <2>3 DEF ReplyOf
  <2>4. CASE j \notin swept /\ job[j] = "cancelled"
    BY <2>1, <2>4 DEF ReplyOf
  <2>5. CASE j \notin swept /\ job[j] = "answered"
    BY <2>1, <2>2, <2>5 DEF ReplyOf
  <2> QED
    BY <2>2, <2>3, <2>4, <2>5
<1>8. MTypeOK'
  <2>1. next' \in [Maps -> Nat \ {0}]
    <3>1. next[m] + 1 \in Nat \ {0}
        BY <1>3
    <3> QED
        BY <1>2, <3>1 DEF MapInv, MTypeOK
  <2>2. pc' \in [Maps -> {"off", "loop", "ask", "returned", "threw"}]
    BY <1>2 DEF MapInv, MTypeOK
  <2>3. reply' \in [Job -> {"never ran", "success", "failed", "cancelled"}]
    BY <1>1, <1>4, <1>7 DEF MapInv, MTypeOK
  <2> QED
    BY <1>1, <1>2, <2>1, <2>2, <2>3 DEF MapInv, MTypeOK
<1>9. \A n \in Maps : LoopAt(n)'
  <2>1. LoopAt(m)'
    <3>1. pc'[m] = IF next[m] >= Items + Len(started[m]) THEN "returned" ELSE "loop"
        BY <1>2 DEF MapInv, MTypeOK
    <3>2. next[m] <= Items + Len(started[m])
        BY <1>1 DEF MapInv, LoopAt
    <3> QED
        BY <1>1, <1>3, <3>1, <3>2 DEF LoopAt
  <2>2. \A n \in Maps : n # m => LoopAt(n)'
    BY <1>1, <1>3 DEF MapInv, LoopAt
  <2> QED
    BY <2>1, <2>2
<1>10. \A n \in Maps : OneOrder(n)'
  <2>1. \A n \in Maps : \A i \in DOMAIN started[n] : started[n][i][2] < next'[n]
    <3> TAKE n \in Maps
    <3> TAKE i \in DOMAIN started[n]
    <3>1. started[n][i] \in Job /\ started[n][i][2] < next[n]
        BY TypeFacts DEF MapInv, OneOrder
    <3> QED
        BY <1>3, <3>1, JobIs
  <2> QED
    BY <1>1, <2>1 DEF MapInv, OneOrder
<1>11. \A n \in Maps : Behind(n)'
  <2>1. Ahead(m)' = Ahead(m)
    BY <1>1, <1>2 DEF MapInv, MTypeOK, Ahead
  <2>2. \A n \in Maps : Ahead(n)' = Ahead(n)
    BY <1>3, <2>1 DEF Ahead
  <2> QED
    BY <1>1, <2>2 DEF MapInv, Behind
<1>12. \A n \in Maps : Collected(n)'
  <2> TAKE n \in Maps
  <2> SUFFICES ASSUME NEW i \in DOMAIN started[n], i < next'[n] - Items
               PROVE  /\ job[started[n][i]] \in JobEnds
                      /\ reply'[started[n][i]] = "never ran" =>
                            job[started[n][i]] = "cancelled" /\ started[n][i] \notin ending
    BY <1>1 DEF Collected
  <2>1. i \in 1 .. Len(started[n]) /\ started[n][i] \in Job
    BY TypeFacts DEF MapInv
  <2>2. CASE started[n][i] = j
    BY <1>1, <1>7, <2>2
  <2>3. CASE started[n][i] # j
    <3>1. i < next[n] - Items
      <4>1. CASE n = m
        BY <1>0, <1>3, <2>1, <2>3, <4>1
      <4>2. CASE n # m
        BY <1>3, <4>2
      <4> QED
        BY <4>1, <4>2
    <3> QED
        BY <1>7, <2>1, <2>3, <3>1 DEF MapInv, Collected
  <2> QED
    BY <2>2, <2>3
<1>13. Asks'
  <2>1. \A k \in Job : job[k] = "new" <=> k \notin Mine(k[1])
    BY DEF MapInv, Asks
  <2> QED
    BY <1>1, <1>6, <2>1, JobIs DEF Asks
<1>14. \A k \in Job : JobsTrue(k)'
  <2>1. JobsTrue(j)'
    BY <1>1, <1>4, <1>7 DEF MapInv, JobsTrue, JobEnds
  <2>2. \A k \in Job : k # j => JobsTrue(k)'
    BY <1>1, <1>7 DEF MapInv, JobsTrue, JobEnds
  <2> QED
    BY <2>1, <2>2
<1>15. \A k \in Job : Passed(k)'
  <2> TAKE k \in Job
  <2>1. k[1] \in Maps /\ k[2] \in 1 .. Items /\ Mine(k[1])' = Mine(k[1])
    BY <1>6, JobIs
  <2>2. /\ k[2] >= next'[k[1]] => k[2] >= next[k[1]]
        /\ k[2] < next'[k[1]] => k[2] < next[k[1]]
    <3>1. CASE k[1] = m
        BY <1>1, <1>3, <2>1, <3>1
    <3>2. CASE k[1] # m
        BY <1>3, <2>1, <3>2
    <3> QED
        BY <3>1, <3>2
  <2>3. CASE k = j
    <3>1. k[1] = m /\ k[2] < next[m]
        BY <1>5, <2>3, MineOwn
    <3>2. ~(k[2] >= next'[k[1]])
        BY <1>3, <2>1, <3>1
    <3>3. k \in Mine(k[1])'
        BY <1>5, <2>1, <2>3, <3>1
    <3> QED
        BY <3>2, <3>3 DEF Passed
  <2>4. CASE k # j
    BY <1>7, <2>1, <2>2, <2>4 DEF MapInv, Passed
  <2> QED
    BY <2>3, <2>4
<1>16. StopsAll'
    BY <1>1, <1>2 DEF MapInv, StopsAll
<1> QED
    BY <1>8, <1>9, <1>10, <1>11, <1>12, <1>13, <1>14, <1>15, <1>16 DEF MapInv

LEMMA AskedStep ==
    ASSUME MapInv, NEW m \in Maps, Asked(m)
    PROVE  MapInv'
<1>0. PICK j, n0 : j = <<m, next[m]>> /\ n0 = Len(started[m])
    OBVIOUS
<1>1. /\ pc[m] = "ask"
      /\ job' = [job EXCEPT ![j] = IF stopped THEN "cancelled" ELSE IF SlotFree THEN "running" ELSE "queued"]
      /\ ending' = IF stopped /\ SlotFree THEN ending \cup {j} ELSE ending
      /\ jobs' = jobs \cup {j} /\ started' = [started EXCEPT ![m] = Append(started[m], j)]
      /\ next' = [next EXCEPT ![m] = next[m] + 1] /\ pc' = [pc EXCEPT ![m] = "loop"]
      /\ UNCHANGED <<swept, done, reply, stopped>>
    BY <1>0 DEF Asked
<1>2. /\ next[m] \in 1 .. Items /\ Items \in Nat /\ n0 \in Nat
      /\ j \in Job /\ j[1] = m /\ j[2] = next[m]
  <2>1. next[m] \in 1 .. Items /\ Items \in Nat /\ n0 \in Nat
    BY <1>0, <1>1, TypeFacts, MapAssumption DEF MapInv, LoopAt
  <2> QED
    BY <1>0, <2>1, JobIs
<1>3. /\ next'[m] = next[m] + 1 /\ pc'[m] = "loop" /\ started'[m] = Append(started[m], j)
      /\ \A n \in Maps : n # m => next'[n] = next[n] /\ pc'[n] = pc[n] /\ started'[n] = started[n]
  <2>1. next'[m] = next[m] + 1 /\ \A n \in Maps : n # m => next'[n] = next[n]
    BY <1>1 DEF MapInv, MTypeOK
  <2>2. pc'[m] = "loop" /\ \A n \in Maps : n # m => pc'[n] = pc[n]
    BY <1>1 DEF MapInv, MTypeOK
  <2>3. started'[m] = Append(started[m], j) /\ \A n \in Maps : n # m => started'[n] = started[n]
    BY <1>1 DEF MapInv, MTypeOK
  <2> QED
    BY <2>1, <2>2, <2>3
<1>4. /\ started'[m] \in Seq(Job) /\ Len(started'[m]) = n0 + 1
      /\ DOMAIN started'[m] = 1 .. n0 + 1 /\ DOMAIN started[m] = 1 .. n0
      /\ (\A i \in 1 .. n0 : started'[m][i] = started[m][i]) /\ started'[m][n0 + 1] = j
  <2>1. started[m] \in Seq(Job)
    BY TypeFacts DEF MapInv
  <2> QED
    BY <1>0, <1>2, <1>3, <2>1
<1>5. \A n \in Maps : \A k : k \in Mine(n)' <=> k \in Mine(n) \/ (n = m /\ k = j)
  <2>1. \A k : k \in Mine(m)' <=> k \in Mine(m) \/ k = j
    BY <1>2, <1>4 DEF Mine
  <2>2. \A n \in Maps : n # m => Mine(n)' = Mine(n)
    BY <1>3 DEF Mine
  <2> QED
    BY <2>1, <2>2
<1>6. j \notin Mine(m) /\ job[j] = "new" /\ reply[j] = "never ran" /\ j \notin done \cup swept
  <2>1. j \notin Mine(m)
    BY <1>2, MineOwn
  <2>2. job[j] = "new"
    BY <1>2, <2>1 DEF MapInv, Asks
  <2>3. reply[j] = "never ran"
    <3>1. j[2] >= next[j[1]]
        BY <1>2
    <3> QED
        BY <1>2, <3>1 DEF MapInv, Passed
  <2> QED
    BY <1>2, <2>1, <2>2, <2>3 DEF MapInv, JobsTrue, JobEnds
<1>7. /\ job'[j] \in {"cancelled", "running", "queued"} /\ (stopped => job'[j] = "cancelled")
      /\ \A k \in Job : k # j => job'[k] = job[k]
      /\ j \in ending' => job'[j] = "cancelled"
      /\ \A k \in Job : k # j => (k \in ending' <=> k \in ending)
  <2>1. job'[j] = IF stopped THEN "cancelled" ELSE IF SlotFree THEN "running" ELSE "queued"
    BY <1>1, <1>2 DEF MapInv, MTypeOK
  <2>2. \A k \in Job : k # j => job'[k] = job[k]
    BY <1>1, <1>2 DEF MapInv, MTypeOK
  <2>3. j \notin ending
    BY <1>2, <1>6 DEF MapInv, JobsTrue
  <2> QED
    BY <1>1, <2>1, <2>2, <2>3
<1>8. MTypeOK'
  <2>1. next' \in [Maps -> Nat \ {0}]
    <3>1. next[m] + 1 \in Nat \ {0}
        BY <1>2
    <3> QED
        BY <1>1, <3>1 DEF MapInv, MTypeOK
  <2>2. pc' \in [Maps -> {"off", "loop", "ask", "returned", "threw"}]
    BY <1>1 DEF MapInv, MTypeOK
  <2>3. started' \in [Maps -> Seq(Job)]
    BY <1>1, <1>3, <1>4 DEF MapInv, MTypeOK
  <2>4. job' \in [Job -> JobStates]
    BY <1>1, <1>2 DEF MapInv, MTypeOK, JobStates
  <2> QED
    BY <1>1, <1>2, <2>1, <2>2, <2>3, <2>4 DEF MapInv, MTypeOK
<1>9. \A n \in Maps : LoopAt(n)'
  <2>1. LoopAt(m)'
    BY <1>2, <1>3, <1>4 DEF LoopAt
  <2>2. \A n \in Maps : n # m => LoopAt(n)'
    BY <1>3 DEF MapInv, LoopAt
  <2> QED
    BY <2>1, <2>2
<1>10. \A n \in Maps : OneOrder(n)'
  <2>1. \A i \in 1 .. n0 : /\ started[m][i] \in Job /\ started[m][i][1] = m /\ started[m][i][2] < next[m]
                           /\ \A k \in 1 .. n0 : i < k => started[m][i][2] < started[m][k][2]
    BY <1>4, TypeFacts DEF MapInv, OneOrder
  <2>2. OneOrder(m)'
    <3>1. \A i \in DOMAIN started'[m] : started'[m][i][1] = m /\ started'[m][i][2] < next'[m]
        BY <1>2, <1>3, <1>4, <2>1, JobIs
    <3>2. ASSUME NEW i \in DOMAIN started'[m], NEW k \in DOMAIN started'[m], i < k
          PROVE  started'[m][i][2] < started'[m][k][2]
        <4>1. i \in 1 .. n0 /\ started'[m][i] = started[m][i] /\ (k \in 1 .. n0 \/ k = n0 + 1)
            BY <1>2, <1>4, <3>2
        <4>2. CASE k \in 1 .. n0
            BY <1>4, <2>1, <3>2, <4>1, <4>2
        <4>3. CASE k = n0 + 1
            BY <1>2, <1>4, <2>1, <4>1, <4>3
        <4> QED
            BY <4>1, <4>2, <4>3
    <3> QED
        BY <3>1, <3>2 DEF OneOrder
  <2>3. \A n \in Maps : n # m => OneOrder(n)'
    BY <1>3 DEF MapInv, OneOrder
  <2> QED
    BY <2>2, <2>3
<1>11. \A n \in Maps : Behind(n)'
  <2>1. Behind(m)'
    <3>1. ASSUME NEW i \in 1 .. n0 + 1, i <= n0 + 1 - MaxParallel
          PROVE  started'[m][i] \in done
      <4>1. i \in 1 .. n0 /\ i <= n0 - (MaxParallel - 1)
        BY <1>2, <3>1, MapAssumption
      <4>2. Behind(m) /\ Ahead(m) = MaxParallel - 1
        BY <1>1 DEF MapInv, Ahead
      <4>3. started[m][i] \in done
        BY <1>0, <1>4, <4>1, <4>2 DEF Behind
      <4> QED
        BY <1>4, <4>1, <4>3
    <3>2. \A i \in DOMAIN started'[m] : i <= Len(started'[m]) - MaxParallel => started'[m][i] \in done
        BY <1>2, <1>4, <3>1, MapAssumption
    <3> QED
        BY <1>1, <1>3, <3>2 DEF Behind, Ahead
  <2>2. \A n \in Maps : n # m => Behind(n)'
    BY <1>1, <1>3 DEF MapInv, Behind, Ahead
  <2> QED
    BY <2>1, <2>2
<1>12. \A n \in Maps : Collected(n)'
  <2>1. Collected(m)'
    <3>1. \A i \in DOMAIN started'[m] : ~(i < next'[m] - Items)
        BY <1>2, <1>3, <1>4
    <3> QED
        BY <3>1 DEF Collected
  <2>2. \A n \in Maps : n # m => Collected(n)'
    <3> TAKE n \in Maps
    <3> HAVE n # m
    <3> SUFFICES ASSUME NEW i \in DOMAIN started[n], i < next[n] - Items
                 PROVE  /\ job'[started[n][i]] \in JobEnds
                        /\ reply[started[n][i]] = "never ran" =>
                              job'[started[n][i]] = "cancelled" /\ started[n][i] \notin ending'
        BY <1>1, <1>3 DEF Collected
    <3>1. /\ started[n][i] \in Job /\ job[started[n][i]] \in JobEnds
          /\ reply[started[n][i]] = "never ran" =>
                job[started[n][i]] = "cancelled" /\ started[n][i] \notin ending
        BY TypeFacts DEF MapInv, Collected
    <3> QED
        BY <1>6, <1>7, <3>1
  <2> QED
    BY <2>1, <2>2
<1>13. Asks'
  <2> SUFFICES ASSUME NEW k \in Job PROVE job'[k] = "new" <=> k \notin Mine(k[1])'
    BY DEF Asks
  <2>1. k[1] \in Maps /\ (k \in Mine(k[1])' <=> k \in Mine(k[1]) \/ (k[1] = m /\ k = j))
    BY <1>5, JobIs
  <2>2. job[k] = "new" <=> k \notin Mine(k[1])
    BY DEF MapInv, Asks
  <2> QED
    BY <1>2, <1>7, <2>1, <2>2
<1>14. \A k \in Job : JobsTrue(k)'
  <2>1. JobsTrue(j)'
    BY <1>1, <1>6, <1>7 DEF JobsTrue, JobEnds
  <2>2. \A k \in Job : k # j => JobsTrue(k)'
    BY <1>1, <1>7 DEF MapInv, JobsTrue, JobEnds
  <2> QED
    BY <2>1, <2>2
<1>15. \A k \in Job : Passed(k)'
  <2> TAKE k \in Job
  <2>1. k[1] \in Maps /\ k[2] \in 1 .. Items /\ (k \in Mine(k[1])' <=> k \in Mine(k[1]) \/ (k[1] = m /\ k = j))
    BY <1>5, JobIs
  <2>2. CASE k = j
    <3>1. k[2] = next[m] /\ next'[k[1]] = next[m] + 1 /\ k \in Mine(k[1])'
        BY <1>2, <1>3, <2>1, <2>2
    <3>2. ~(k[2] >= next'[k[1]])
        BY <1>2, <3>1
    <3> QED
        BY <3>1, <3>2 DEF Passed
  <2>3. CASE k # j
    <3>1. /\ k[2] >= next'[k[1]] => k[2] >= next[k[1]]
          /\ k[2] < next'[k[1]] => k[2] < next[k[1]]
      <4>1. CASE k[1] = m
        <5>1. k[2] # next[m]
            BY <1>0, <2>3, <4>1, JobIs
        <5> QED
            BY <1>2, <1>3, <2>1, <4>1, <5>1
      <4>2. CASE k[1] # m
        BY <1>3, <2>1, <4>2
      <4> QED
        BY <4>1, <4>2
    <3> QED
        BY <1>1, <2>1, <2>3, <3>1 DEF MapInv, Passed
  <2> QED
    BY <2>2, <2>3
<1>16. StopsAll'
    BY <1>1, <1>2, <1>7 DEF MapInv, StopsAll
<1> QED
    BY <1>8, <1>9, <1>10, <1>11, <1>12, <1>13, <1>14, <1>15, <1>16 DEF MapInv

-----------------------------------------------------------------------------
(* The theorem.                                                             *)

LEMMA NothingStarted == <<>> \in Seq(Job) /\ DOMAIN <<>> = {}
OBVIOUS

LEMMA MapStarts == MInit => MapInv
<1> SUFFICES ASSUME MInit PROVE MapInv
    OBVIOUS
<1>1. MTypeOK
  <2>1. 1 \in Nat \ {0}
    OBVIOUS
  <2>2. started \in [Maps -> Seq(Job)] /\ next \in [Maps -> Nat \ {0}]
    BY <2>1, NothingStarted DEF MInit
  <2> QED
    BY <2>2 DEF MInit, MTypeOK, JobStates
<1>2. \A m \in Maps : DOMAIN started[m] = {} /\ Mine(m) = {} /\ pc[m] = "off" /\ next[m] = 1
  <2>1. \A m \in Maps : started[m] = <<>> /\ pc[m] = "off" /\ next[m] = 1
    BY DEF MInit
  <2>2. DOMAIN <<>> = {}
    BY NothingStarted
  <2>3. \A m \in Maps : DOMAIN started[m] = {}
    BY <2>1, <2>2
  <2> QED
    BY <2>1, <2>3 DEF Mine
<1>3. \A m \in Maps : LoopAt(m) /\ OneOrder(m) /\ Behind(m) /\ Collected(m)
    BY <1>2 DEF LoopAt, OneOrder, Behind, Collected
<1>4. Asks
    BY <1>2, JobIs DEF MInit, Asks
<1>5. \A j \in Job : JobsTrue(j)
    BY DEF MInit, JobsTrue, JobEnds
<1>6. \A j \in Job : Passed(j)
  <2> TAKE j \in Job
  <2>1. reply[j] = "never ran" /\ next[j[1]] = 1 /\ j[2] \in 1 .. Items
    BY <1>2, JobIs DEF MInit
  <2>2. \A k \in 1 .. Items : ~(k < 1)
    BY MapAssumption
  <2>3. ~(j[2] < next[j[1]])
    BY <2>1, <2>2
  <2> QED
    BY <2>1, <2>3 DEF Passed
<1>7. StopsAll
    BY DEF MInit, StopsAll
<1> QED
    BY <1>1, <1>3, <1>4, <1>5, <1>6, <1>7 DEF MapInv

LEMMA MapKept == MapInv /\ [MNext]_mvars => MapInv'
<1> SUFFICES ASSUME MapInv, [MNext]_mvars PROVE MapInv'
    OBVIOUS
<1>1. ASSUME NEW m \in Maps, Call(m) PROVE MapInv'
    BY <1>1, CallStep
<1>2. ASSUME NEW m \in Maps, Skip(m) PROVE MapInv'
    BY <1>2, SkipStep
<1>3. ASSUME NEW m \in Maps, AskFor(m) PROVE MapInv'
    BY <1>3, AskForStep
<1>4. ASSUME NEW m \in Maps, Asked(m) PROVE MapInv'
    BY <1>4, AskedStep
<1>5. ASSUME NEW m \in Maps, AskThrows(m) PROVE MapInv'
    BY <1>5, AskThrowsStep
<1>6. ASSUME NEW m \in Maps, Collect(m) PROVE MapInv'
    BY <1>6, CollectStep
<1>7. ASSUME NEW j \in Job, Starts(j) PROVE MapInv'
    BY <1>7, StartsStep
<1>8. ASSUME NEW j \in Job, Runs(j) PROVE MapInv'
    BY <1>8, RunsStep
<1>9. ASSUME NEW j \in Job, Lands(j) \/ Sweeps(j) PROVE MapInv'
    BY <1>9, LandsStep
<1>10. CASE CancelTurn
  <2>1. jobs \in SUBSET Job
    BY DEF MapInv, MTypeOK
  <2> QED
    BY <1>10, <2>1, CancelStep DEF CancelTurn
<1>11. CASE CancelOne
  <2>1. PICK j \in Job : CancelJobs({j})
    BY <1>11 DEF CancelOne
  <2> QED
    BY <1>11, <2>1, CancelStep DEF CancelOne
<1>12. CASE UNCHANGED mvars
  <2> USE <1>12 DEF mvars
  <2>1. MTypeOK' /\ JobsMove
    BY DEF MapInv, MTypeOK, JobsMove
  <2>2. \A m \in Maps : LoopAt(m)' /\ Behind(m)'
    BY DEF MapInv, LoopAt, Behind, Ahead
  <2>3. (\A j \in Job : JobsTrue(j)') /\ StopsAll'
    BY DEF MapInv, JobsTrue, StopsAll, JobEnds
  <2> QED
    BY <2>1, <2>2, <2>3, Standing
<1> QED
    BY <1>1, <1>2, <1>3, <1>4, <1>5, <1>6, <1>7, <1>8, <1>9, <1>10, <1>11, <1>12 DEF MNext, Helper

\* The jobs of a map that queue or run are among its last MaxParallel.
LEMMA MapBounded == MapInv => ParallelBounded
<1> SUFFICES ASSUME MapInv, NEW m \in Maps
             PROVE  Cardinality({j \in Job : j[1] = m /\ job[j] \in {"queued", "running"}}) <= MaxParallel
    BY DEF ParallelBounded
<1> DEFINE n == Len(started[m])
           Going == {j \in Job : j[1] = m /\ job[j] \in {"queued", "running"}}
           low == IF n < MaxParallel THEN 1 ELSE n - MaxParallel + 1
           f == [i \in low .. n |-> started[m][i]]
           LastJob == {started[m][i] : i \in low .. n}
<1>1. n \in Nat /\ MaxParallel \in Nat \ {0} /\ low \in Nat \ {0} /\ DOMAIN started[m] = 1 .. n
    BY TypeFacts, MapAssumption DEF MapInv
<1>2. IsFiniteSet(low .. n) /\ Cardinality(low .. n) <= MaxParallel
  <2>1. low \in Int /\ n \in Int
    BY <1>1
  <2>2. IsFiniteSet(low .. n) /\ Cardinality(low .. n) = IF low > n THEN 0 ELSE n - low + 1
    BY <2>1, FS_Interval
  <2>3. CASE n < MaxParallel
    BY <1>1, <2>2, <2>3
  <2>4. CASE ~(n < MaxParallel)
    BY <1>1, <2>2, <2>4
  <2> QED
    BY <2>3, <2>4
<1>3. f \in Surjection(low .. n, LastJob)
    BY DEF Surjection
<1>4. IsFiniteSet(LastJob) /\ Cardinality(LastJob) <= Cardinality(low .. n)
    BY <1>2, <1>3, FS_Surjection
<1>5. Going \subseteq LastJob
  <2> SUFFICES ASSUME NEW j \in Job, j[1] = m, job[j] \in {"queued", "running"}
               PROVE  j \in LastJob
    OBVIOUS
  <2>1. j \notin done /\ j \in Mine(m)
    BY DEF MapInv, JobsTrue, Asks
  <2>2. PICK i \in 1 .. n : j = started[m][i]
    BY <1>1, <2>1 DEF Mine
  <2>3. ~(i <= n - Ahead(m))
    BY <1>1, <2>1, <2>2 DEF MapInv, Behind
  <2>4. Ahead(m) \in Nat /\ Ahead(m) <= MaxParallel
    BY <1>1 DEF Ahead
  <2>5. i \in low .. n
    BY <1>1, <2>3, <2>4
  <2> QED
    BY <2>2, <2>5
<1> HIDE DEF n, low, f, LastJob
<1>6. IsFiniteSet(Going) /\ Cardinality(Going) <= Cardinality(LastJob)
    BY <1>4, <1>5, FS_Subset
<1>7. Cardinality(Going) \in Nat /\ Cardinality(LastJob) \in Nat /\ Cardinality(low .. n) \in Nat
    BY <1>2, <1>4, <1>6, FS_CardinalityType
<1> QED
    BY <1>1, <1>2, <1>4, <1>6, <1>7

\* A map that has returned asked or passed every item, and collected each
\* delegate it asked.
LEMMA MapReplies == MapInv => RepliesTrue
<1> SUFFICES ASSUME MapInv, NEW m \in Maps, pc[m] = "returned", NEW i \in 1 .. Items, NEW j, j = <<m, i>>
             PROVE  /\ job[j] \in {"new", "answered", "cancelled"}
                    /\ reply[j] = "success" => j \in done /\ job[j] # "new"
                    /\ reply[j] = "cancelled" => job[j] \in {"cancelled", "new"}
                    /\ reply[j] = "never ran" => job[j] = "cancelled" /\ j \notin done
                    /\ job[j] = "answered" => reply[j] \in {"success", "failed"}
    BY DEF RepliesTrue
<1>1. j \in Job /\ j[1] = m /\ j[2] = i /\ JobsTrue(j)
    BY JobIs DEF MapInv
<1>2. next[m] = Items + Len(started[m]) + 1 /\ Len(started[m]) \in Nat /\ Items \in Nat
    BY TypeFacts, MapAssumption DEF MapInv, LoopAt
<1>3. CASE j \in Mine(m)
  <2>1. PICK k \in DOMAIN started[m] : j = started[m][k]
    BY <1>3 DEF Mine
  <2>2. k < next[m] - Items
    BY <1>2, TypeFacts DEF MapInv
  <2>3. job[j] \in JobEnds /\ (reply[j] = "never ran" => job[j] = "cancelled")
    BY <2>1, <2>2 DEF MapInv, Collected
  <2> QED
    BY <1>1, <2>3 DEF JobsTrue, JobEnds
<1>4. CASE j \notin Mine(m)
  <2>1. job[j] = "new"
    BY <1>1, <1>4 DEF MapInv, Asks
  <2>2. j[2] < next[j[1]]
    BY <1>1, <1>2
  <2>3. reply[j] = "cancelled"
    BY <1>1, <1>4, <2>2 DEF MapInv, Passed
  <2> QED
    BY <2>1, <2>3
<1> QED
    BY <1>3, <1>4

\* For any maps, items, limit and slots: a map has no more than MaxParallel
\* helpers queued or running, in whatever order they end and whatever is
\* cancelled or swept; once it returns it has a reply of each call that says
\* what became of its job; and no helper of it runs on once its code was
\* stopped (code-tasks.ts:429-442, 482-546).
THEOREM MapsStayTrue == MSpec => []MapsTrue
<1>1. MapInv => MapsTrue
    BY MapBounded, MapReplies DEF MapInv, MapsTrue
<1> QED
    BY <1>1, MapStarts, MapKept, PTL DEF MSpec
=============================================================================
