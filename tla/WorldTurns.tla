---------------------------- MODULE WorldTurns ----------------------------
(* A session's workspace (world/src/workspace.ts): its queue of calls       *)
(* (queue.ts), the turns opened on it (turns.ts), their inbox (inbox.ts),   *)
(* the runs they store (conversation.ts) and compaction's record            *)
(* (compaction.ts).                                                         *)
(*                                                                          *)
(* Calls run one at a time. Code a call runs may call the workspace back,   *)
(* as part of that call while it is in progress and as a call of its own    *)
(* afterwards. Folds are recorded, notes put and turns opened outside the   *)
(* queue. Another workspace on the same session commits at any moment.      *)
(*                                                                          *)
(* A commit keeps a tree of a file, the conversation's runs and its folds.  *)
(* Values are the numbers of the writes, turns and folds that made them. A  *)
(* run's body is the notes its turn had been handed.                        *)
EXTENDS Naturals, Sequences, FiniteSets, Functions, SequencesExt

CONSTANTS
    None,           \* no value, call or turn
    Kinds,          \* the calls the host makes
    Within,         \* the calls code makes back
    Autocommit,     \* the settings `autocommit` may have
    Turns,          \* 1 .. the turns opened; a turn's number is its run's
    MaxCalls, MaxWrites, MaxNotes, MaxFolds, MaxOthers,
    MaxAttempts     \* how often a checkout diffs again

AllKinds == {"write", "code", "commit", "discard", "refresh", "checkout", "close"}
Item == [id : Nat \cup {None}, kind : AllKinds \cup {"end"}, arg : Nat \cup Turns \cup {None}]
InProgress == [id : Nat \cup {None}, kind : AllKinds \cup {"end"}, arg : Nat \cup Turns \cup {None},
               step : {"run", "commit"}, wrote : Nat \cup {None}, dropped : BOOLEAN, try : Nat]
TurnState == [phase : {"none", "refused", "resuming", "open", "ending", "ended"},
              run : Turns \cup {None}, seen : Seq(Nat), made : Nat \cup {None}]

(* None is none of the values it stands for the lack of. *)
ASSUME TurnsAssumption ==
    /\ Kinds \subseteq AllKinds /\ Within \subseteq {"commit", "discard", "refresh"}
    /\ Autocommit \subseteq BOOLEAN
    /\ None \notin Turns /\ None \notin Turns \X Seq(Nat) /\ None \notin InProgress

VARIABLES
    branch,         \* the session's commits, oldest first
    base, pending,  \* the worktree: its commit, and the keys changed on it
    closed, autocommit,
    queue, active,  \* the calls waiting, and the one in progress
    turn, current,  \* each turn, and the one open here
    waiting, handed,\* the inbox: pending notes, and delivered ones
    recording,      \* folds being recorded: the keys each counted, or none yet
    notes, writes, calls, folds, others,
    settled,        \* the notes forgotten, and the turn that forgot each
    tardy           \* the notes handed over through a turn whose end had begun

tree == <<branch, base, pending>>
inbox == <<waiting, handed, notes, settled, tardy>>
counts == <<writes, calls, others>>
vars == <<tree, closed, autocommit, queue, active, turn, current, inbox, recording, folds, counts>>

Empty == <<>>
File == <<"file", None>>
Index == <<"index", None>>
FoldKeys == 1 .. MaxFolds
Tip == Len(branch)
At(c) == branch[c].tree
Has(f, k) == k \in DOMAIN f
Removed == {k \in DOMAIN pending : pending[k] = None}
Applied(f) == [k \in (DOMAIN f \cup DOMAIN pending) \ Removed |-> IF Has(pending, k) THEN pending[k] ELSE f[k]]
\* f with v at k.
With(f, k, v) == [x \in DOMAIN f \cup {k} |-> IF x = k THEN v ELSE f[x]]
View == Applied(At(base))
RunsIn(f) == IF Has(f, Index) THEN f[Index] ELSE {}
FoldsIn(f) == {k \in FoldKeys : Has(f, <<"fold", k>>)}

---------------------------------------------------------------------------
(* The worktree's commit, in one step: its own history is KvWorktree's. A    *)
(* branch that moved is merged with, unless both sides changed a key.       *)

Differ(f, g) ==
    {k \in DOMAIN f \cup DOMAIN g : ~(Has(f, k) /\ Has(g, k)) \/ f[k] # g[k]}
Mine == Differ(At(base), View)
Theirs == Differ(At(base), At(Tip))
Clash == \E k \in Mine \cap Theirs : k \in Differ(View, At(Tip))
Clean == DOMAIN pending = {}

Commit(info) ==
    /\ branch' = Append(branch, [tree |-> LET kept == (DOMAIN View \cap Mine) \cup (DOMAIN At(Tip) \ Mine)
                                          IN  [k \in kept |-> IF k \in Mine THEN View[k] ELSE At(Tip)[k]],
                                 stamp |-> info])
    /\ base' = Tip + 1
    /\ pending' = Empty

(* What a call commits as it ends: nothing, its changes, or a conflict that *)
(* leaves them pending.                                                     *)
CommitPending(info) ==
    IF Clean \/ Clash THEN UNCHANGED tree ELSE Commit(info)

Discard == pending' = Empty /\ UNCHANGED <<branch, base>>
Refresh == pending' = Empty /\ base' = Tip /\ UNCHANGED branch

---------------------------------------------------------------------------
Init ==
    /\ branch = <<[tree |-> Empty, stamp |-> None]>>
    /\ base = 1 /\ pending = Empty
    /\ closed = FALSE /\ autocommit \in Autocommit
    /\ queue = <<>> /\ active = None
    /\ turn = [t \in Turns |-> [phase |-> "none", run |-> None, seen |-> <<>>, made |-> None]]
    /\ current = None
    /\ waiting = <<>> /\ handed = <<>> /\ settled = Empty /\ tardy = {}
    /\ recording = <<>> /\ folds = 0
    /\ notes = 0 /\ writes = 0 /\ calls = 0 /\ others = 0

---------------------------------------------------------------------------
(* The queue *)

Queued(kind, arg) == [id |-> calls + 1, kind |-> kind, arg |-> arg]

Enqueue(kind, arg) == queue' = Append(queue, Queued(kind, arg)) /\ calls' = calls + 1

Ask(kind, arg) ==
    /\ calls < MaxCalls
    /\ arg \in (IF kind = "checkout" THEN 1 .. Tip ELSE {None})
    /\ Enqueue(kind, arg)
    /\ UNCHANGED <<tree, closed, autocommit, active, turn, current, inbox, recording, folds, writes, others>>

Idle == active = None
Call(kind, step) == ~Idle /\ active.kind = kind /\ active.step = step

Begin(call) ==
    active' = [id |-> call.id, kind |-> call.kind, arg |-> call.arg, step |-> "run",
               wrote |-> None, dropped |-> FALSE, try |-> 0]

(* A call on a closed workspace fails. A turn's end fails with it, and the   *)
(* turn is over.                                                            *)
Start ==
    /\ Idle /\ queue # <<>>
    /\ queue' = Tail(queue)
    /\ IF closed /\ Head(queue).kind # "close"
       THEN /\ active' = None
            /\ IF Head(queue).kind = "end"
               THEN /\ turn' = [turn EXCEPT ![Head(queue).arg].phase = "ended"]
                    /\ current' = IF current = Head(queue).arg THEN None ELSE current
               ELSE UNCHANGED <<turn, current>>
       ELSE Begin(Head(queue)) /\ UNCHANGED <<turn, current>>
    /\ UNCHANGED <<tree, closed, autocommit, inbox, recording, folds, counts>>

Finish == active' = None
Go(step) == active' = [active EXCEPT !.step = step]

rest == <<closed, autocommit, queue, turn, current, inbox, recording, folds>>

---------------------------------------------------------------------------
(* Calls that write: the files', and code's. They end with a commit of what *)
(* is pending, whoever left it.                                             *)

Put(k, v) == pending' = With(pending, k, v)

Write ==
    /\ Call("write", "run") \/ Call("code", "run")
    /\ writes < MaxWrites
    /\ writes' = writes + 1
    /\ Put(File, writes + 1)
    /\ active' = [active EXCEPT !.wrote = writes + 1, !.dropped = FALSE,
                                !.step = IF active.kind = "write" THEN "commit" ELSE "run"]
    /\ UNCHANGED <<branch, base, calls, others, rest>>

(* Code returns, fails, times out or is interrupted: all end it alike. *)
CodeEnd ==
    /\ Call("code", "run") /\ Go("commit")
    /\ UNCHANGED <<tree, counts, rest>>

AutoCommit ==
    /\ ~Idle /\ active.step = "commit" /\ active.kind \in {"write", "code"}
    /\ IF autocommit THEN CommitPending(None) ELSE UNCHANGED tree
    /\ Finish
    /\ UNCHANGED <<counts, rest>>

(* What code calls back runs at once when the call it names is the one in   *)
(* progress, and waits its turn otherwise.                                  *)
Back(token, kind) ==
    CASE kind = "commit" -> CommitPending(None) /\ UNCHANGED active
      [] kind = "discard" -> Discard /\ active' = [active EXCEPT !.dropped = @ \/ token = active.id]
      [] kind = "refresh" -> Refresh /\ active' = [active EXCEPT !.dropped = @ \/ token = active.id]

\* Mutant: any call in progress will do.
PartOfAny(token) == ~Idle

PartOf(token) == ~Idle /\ active.id = token

CallBack(token, kind) ==
    /\ token \in 1 .. calls
    /\ calls < MaxCalls
    /\ ~(\E i \in DOMAIN queue : queue[i].id = token)
    /\ ~Idle /\ active.id = token => active.kind = "code" /\ active.step = "run"
    /\ IF PartOf(token)
       THEN Back(token, kind) /\ calls' = calls + 1 /\ UNCHANGED queue
       ELSE Enqueue(kind, None) /\ UNCHANGED <<tree, active>>
    /\ UNCHANGED <<closed, autocommit, turn, current, inbox, recording, folds, writes, others>>

---------------------------------------------------------------------------
(* Versioning *)

CommitCall ==
    /\ Call("commit", "run") /\ CommitPending(None) /\ Finish
    /\ UNCHANGED <<counts, rest>>

DiscardCall ==
    /\ Call("discard", "run") /\ Discard /\ Finish
    /\ UNCHANGED <<counts, rest>>

RefreshCall ==
    /\ Call("refresh", "run") /\ Refresh /\ Finish
    /\ UNCHANGED <<counts, rest>>

(* A checkout takes what differs from its target, over the session's latest *)
(* commit, and diffs again when another commit came between.                *)
CheckoutDiff ==
    /\ Call("checkout", "run")
    /\ base' = Tip /\ UNCHANGED branch
    /\ LET target == At(active.arg)
           differing == Differ(At(Tip), target)
       IN  IF differing = {} \/ active.try = MaxAttempts
           THEN pending' = Empty /\ Finish
           ELSE /\ pending' = [k \in differing |-> IF Has(target, k) THEN target[k] ELSE None]
                /\ Go("commit")
    /\ UNCHANGED <<counts, rest>>

CheckoutCommit ==
    /\ Call("checkout", "commit")
    /\ CommitPending(None)
    /\ IF base = Tip THEN Finish
       ELSE active' = [active EXCEPT !.step = "run", !.try = @ + 1]
    /\ UNCHANGED <<counts, rest>>

CloseCall ==
    /\ Call("close", "run")
    /\ pending' = Empty /\ closed' = TRUE
    /\ Finish
    /\ UNCHANGED <<branch, base, autocommit, queue, turn, current, inbox, recording, folds, counts>>

(* Another workspace on the session writes the file, or ends a turn. *)
OtherCommit(kind) ==
    /\ others < MaxOthers
    /\ others' = others + 1
    /\ LET new == IF kind = "write" THEN With(At(Tip), File, MaxWrites + others + 1)
                  ELSE With(At(Tip), Index, RunsIn(At(Tip)) \cup {Cardinality(Turns) + others + 1})
       IN  branch' = Append(branch, [tree |-> new, stamp |-> None])
    /\ UNCHANGED <<base, pending, active, writes, calls, rest>>

---------------------------------------------------------------------------
(* The inbox *)

PutNote ==
    /\ notes < MaxNotes
    /\ notes' = notes + 1
    /\ waiting' = Append(waiting, notes + 1)
    /\ UNCHANGED <<tree, closed, autocommit, queue, active, turn, current, handed, settled, tardy, recording, folds, counts>>

Withdraw(n) ==
    /\ n \in DOMAIN waiting
    /\ waiting' = RemoveAt(waiting, n)
    /\ UNCHANGED <<tree, closed, autocommit, queue, active, turn, current, handed, notes, settled, tardy, recording, folds, counts>>

(* What was handed over waits again, before what waits (requeue). *)
Requeue == waiting' = handed \o waiting /\ handed' = <<>> /\ tardy' = tardy \ Range(handed)

Settled == /\ settled' = [n \in DOMAIN settled \cup Range(handed) |->
                            IF n \in Range(handed) THEN active.arg ELSE settled[n]]
           /\ handed' = <<>>

---------------------------------------------------------------------------
(* Turns *)

Phase(t, p) == turn' = [turn EXCEPT ![t].phase = p]
calm == <<tree, closed, autocommit, queue, active, inbox, recording, folds, counts>>

(* Resuming a run reads the conversation first; opening looks for another   *)
(* turn last.                                                               *)
Opened(t, r) ==
    IF current = None
    THEN /\ current' = t
         /\ turn' = [turn EXCEPT ![t].phase = "open", ![t].run = r]
    ELSE Phase(t, "refused") /\ UNCHANGED current

Unopened(t) == turn[t].phase = "none" /\ \A u \in Turns : u < t => turn[u].phase # "none"

NewTurn(t) ==
    /\ Unopened(t) /\ ~closed
    /\ Opened(t, t)
    /\ UNCHANGED calm

ResumeTurn(t, r) ==
    /\ Unopened(t) /\ ~closed
    /\ r \in RunsIn(View)
    /\ turn' = [turn EXCEPT ![t].phase = "resuming", ![t].run = r]
    /\ UNCHANGED <<current, calm>>

Resumed(t) ==
    /\ turn[t].phase = "resuming"
    /\ Opened(t, turn[t].run)
    /\ UNCHANGED calm

(* A delivery takes what waits, then what a source makes of its own. Notes  *)
(* of a source that throws, and all of them when they can't be rendered,    *)
(* wait for the next. Nothing keeps a tool that outlives its turn from      *)
(* delivering once the end has begun: the run is stored without those notes.*)
Deliver(t, made, outcome) ==
    /\ turn[t].phase \in {"open", "ending", "ended"}
    /\ made => notes < MaxNotes
    /\ waiting # <<>> \/ made
    /\ LET fresh == IF made THEN <<notes + 1>> ELSE <<>>
           taken == waiting \o (IF outcome = "throws" THEN <<>> ELSE fresh)
       IN  CASE outcome = "unreadable" ->
                    waiting' = taken /\ UNCHANGED <<handed, turn, tardy>>
             [] OTHER ->
                    /\ waiting' = IF outcome = "throws" THEN fresh ELSE <<>>
                    /\ handed' = handed \o taken
                    /\ IF turn[t].phase = "open"
                       THEN turn' = [turn EXCEPT ![t].seen = @ \o taken] /\ UNCHANGED tardy
                       ELSE tardy' = tardy \cup Range(taken) /\ UNCHANGED turn
    /\ notes' = IF made THEN notes + 1 ELSE notes
    /\ UNCHANGED <<tree, closed, autocommit, queue, active, current, settled, recording, folds, counts>>

(* A loop throws an attempt away: what it was handed is handed again. *)
ThrowAway(t) ==
    /\ turn[t].phase = "open" /\ handed # <<>>
    /\ Requeue
    /\ turn' = [turn EXCEPT ![t].seen = <<>>]
    /\ UNCHANGED <<tree, closed, autocommit, queue, active, current, notes, settled, recording, folds, counts>>

(* A turn ends once, as a call: its run is stored, its notes forgotten, and *)
(* what is pending committed with the stamp.                                *)
End(t) ==
    /\ turn[t].phase = "open"
    /\ Phase(t, "ending")
    /\ queue' = Append(queue, [id |-> None, kind |-> "end", arg |-> t])
    /\ UNCHANGED <<tree, closed, autocommit, active, current, inbox, recording, folds, counts>>

Release(t) == current' = IF current = t THEN None ELSE current

\* Mutant: a run that can't be stored leaves its notes where they were.
EndStoreLost(ok) ==
    /\ Call("end", "run")
    /\ LET t == active.arg
       IN  IF ok
           THEN /\ pending' = With(With(pending, Index, RunsIn(View) \cup {turn[t].run}),
                                   <<"run", turn[t].run>>, <<t, turn[t].seen>>)
                /\ Settled /\ Go("commit")
                /\ UNCHANGED <<waiting, tardy, turn, current>>
           ELSE /\ Phase(t, "ended") /\ Release(t) /\ Finish
                /\ UNCHANGED <<pending, settled, waiting, handed, tardy>>
    /\ UNCHANGED <<branch, base, closed, autocommit, queue, notes, recording, folds, counts>>

EndStore(ok) ==
    /\ Call("end", "run")
    /\ LET t == active.arg
       IN  IF ok
           THEN /\ pending' = With(With(pending, Index, RunsIn(View) \cup {turn[t].run}),
                                   <<"run", turn[t].run>>, <<t, turn[t].seen>>)
                /\ Settled /\ Go("commit")
                /\ UNCHANGED <<waiting, tardy, turn, current>>
           ELSE /\ Requeue
                /\ Phase(t, "ended") /\ Release(t) /\ Finish
                /\ UNCHANGED <<pending, settled>>
    /\ UNCHANGED <<branch, base, closed, autocommit, queue, notes, recording, folds, counts>>

EndCommit ==
    /\ Call("end", "commit")
    /\ CommitPending(active.arg)
    /\ turn' = [turn EXCEPT ![active.arg].phase = "ended",
                            ![active.arg].made = IF base' # base THEN base' ELSE None]
    /\ Release(active.arg)
    /\ Finish
    /\ UNCHANGED <<closed, autocommit, queue, inbox, recording, folds, counts>>

---------------------------------------------------------------------------
(* Folds: recorded one at a time, each under the number after the ones held *)
(* when it looked.                                                          *)

Record ==
    /\ ~closed /\ folds < MaxFolds
    /\ folds' = folds + 1
    /\ recording' = Append(recording, [fold |-> folds + 1, key |-> None])
    /\ UNCHANGED <<tree, closed, autocommit, queue, active, turn, current, inbox, counts>>

Count ==
    /\ recording # <<>> /\ recording[1].key = None
    /\ recording' = [recording EXCEPT ![1].key = Cardinality(FoldsIn(View)) + 1]
    /\ UNCHANGED <<tree, closed, autocommit, queue, active, turn, current, inbox, folds, counts>>

Recorded ==
    /\ recording # <<>> /\ recording[1].key # None
    /\ recording' = Tail(recording)
    /\ IF closed THEN UNCHANGED pending ELSE Put(<<"fold", recording[1].key>>, recording[1].fold)
    /\ UNCHANGED <<branch, base, closed, autocommit, queue, active, turn, current, inbox, folds, counts>>

---------------------------------------------------------------------------
Turning ==
    \E t \in Turns :
        \/ NewTurn(t)
        \/ \E r \in Turns : ResumeTurn(t, r)
        \/ Resumed(t)
        \/ \E made \in BOOLEAN, outcome \in {"fine", "throws", "unreadable"} : Deliver(t, made, outcome)
        \/ ThrowAway(t)
        \/ End(t)

Calling ==
    \/ \E kind \in Kinds, arg \in 1 .. Tip \cup {None} : Ask(kind, arg)
    \/ \E token \in 1 .. calls, kind \in Within : CallBack(token, kind)

Running ==
    \/ Start \/ AutoCommit \/ CommitCall \/ DiscardCall \/ RefreshCall
    \/ CheckoutDiff \/ CheckoutCommit \/ CloseCall
    \/ \E ok \in BOOLEAN : EndStore(ok)
    \/ EndCommit

Recording == Record \/ Count \/ Recorded

Next ==
    \/ Calling \/ Running \/ Write \/ CodeEnd
    \/ \E kind \in {"write", "end"} : OtherCommit(kind)
    \/ PutNote \/ \E n \in DOMAIN waiting : Withdraw(n)
    \/ Turning \/ Recording

Spec == Init /\ [][Next]_vars

(* The calls' own steps are taken, and code ends: it returns, or its run is *)
(* out of time.                                                             *)
Fairness ==
    /\ WF_vars(Running)
    /\ WF_vars(CodeEnd)
    /\ WF_vars(Call("write", "run") /\ Write)
    /\ WF_vars(\E t \in Turns : Resumed(t))

---------------------------------------------------------------------------
TypeOK ==
    /\ branch \in Seq(Range(branch)) /\ base \in DOMAIN branch
    /\ closed \in BOOLEAN /\ autocommit \in BOOLEAN
    /\ queue \in Seq(Item) /\ active \in InProgress \cup {None}
    /\ turn \in [Turns -> TurnState] /\ current \in Turns \cup {None}
    /\ notes \in Nat /\ waiting \in Seq(1 .. notes) /\ handed \in Seq(1 .. notes)
    /\ settled \in [DOMAIN settled -> Turns] /\ DOMAIN settled \subseteq 1 .. notes
    /\ tardy \subseteq 1 .. notes
    /\ calls \in Nat /\ writes \in Nat

(* One turn at a time: two whose opening awaited the conversation, or that   *)
(* began while another was ending, never share the workspace (workspace.ts, *)
(* turn, and Turn.end's release).                                           *)
OneTurn ==
    \A t \in Turns : turn[t].phase \in {"open", "ending"} => current = t

(* The notes handed over are in what the turn in progress will store: what   *)
(* an ended or discarded attempt saw has gone back to the queue, or was     *)
(* forgotten with a run that holds it (turns.ts, end; inbox.ts, requeue),   *)
(* but for the ones handed over once an end had begun.                      *)
HandedSeen ==
    ~closed => \A n \in Range(handed) \ tardy :
                   current # None /\ n \in Range(turn[current].seen)

(* A note is forgotten by a turn that was handed it before it ended, once.   *)
(* One handed over later is forgotten by the next end whose run is stored,   *)
(* whether or not that run holds it.                                         *)
SettledSeen ==
    \A n \in DOMAIN settled :
        /\ n \in tardy \/ n \in Range(turn[settled[n]].seen)
        /\ n \notin Range(waiting) \cup Range(handed)

(* A note that is no longer held apart is not excused for an earlier hand-   *)
(* over: put back, it is delivered as any other.                            *)
TardyHeld == tardy \subseteq Range(handed) \cup DOMAIN settled

(* "No stored run holds what the model saw, so the notes it was given        *)
(* haven't reached the conversation: they wait for the next delivery rather *)
(* than being lost" (turns.ts:244-246): a forgotten note is in a stored run. *)
(* False of a note delivered once the end had begun.                        *)
NotesStored == \A n \in DOMAIN settled : n \in Range(turn[settled[n]].seen)

(* Notes reach the model in the order they came, through every delivery     *)
(* that failed and every attempt thrown away (inbox.ts, restore, requeue).  *)
NotesInOrder ==
    LET all == handed \o waiting
    IN  \A i, j \in DOMAIN all : i < j => all[i] < all[j]

(* One turn at a time; the notes handed over are the ones its run will name, *)
(* and a note is forgotten once, by a turn whose run names it, but for those *)
(* delivered once an end had begun; and notes wait in the order they came   *)
(* (turns.ts, inbox.ts).                                                    *)
TurnsTrue == TypeOK /\ OneTurn /\ HandedSeen /\ SettledSeen /\ TardyHeld /\ NotesInOrder

(* An end that doesn't conflict leaves the session at a commit stamped with *)
(* its turn that holds the run as the turn gave it, whatever code still     *)
(* calls and other workspaces commit (turns.ts, end; queue.ts).             *)
EndLands ==
    [][(Call("end", "commit") /\ ~Clash /\ active' = None) =>
         /\ branch'[base'].stamp = active.arg
         /\ branch'[base'].tree[<<"run", turn[active.arg].run>>] = <<active.arg, turn[active.arg].seen>>]_vars

(* What a call wrote is in the commit it ends with, unless what it called   *)
(* back itself dropped it or another workspace's commit conflicts           *)
(* (workspace.ts, runCode, autoCommit, asPartOf).                           *)
CallLands ==
    [][(/\ ~Idle /\ active.step = "commit" /\ active.kind \in {"write", "code"}
        /\ active.wrote # None /\ ~active.dropped
        /\ autocommit /\ ~Clash /\ active' = None) =>
         LET t == branch'[base'].tree IN Has(t, File) /\ t[File] = active.wrote]_vars

(* A checkout that returns leaves the session as its target was, though     *)
(* other commits landed meanwhile (workspace.ts, restore).                  *)
RestoreExact ==
    [][(~Idle /\ active.kind = "checkout" /\ active' = None /\ active.try < MaxAttempts) =>
         branch'[base'].tree = At(active.arg)]_vars

(* "One key per fold, never rewritten" (compaction.ts:142). *)
FoldsKept ==
    [][\A k \in FoldsIn(View) : recording' # recording /\ Len(recording') < Len(recording) /\ ~closed =>
         recording[1].key # k]_vars

(* Every call returns, and every turn that is ending ends. *)
TurnsEnd == \A t \in Turns : turn[t].phase = "ending" ~> turn[t].phase = "ended"
CallsReturn == []<>(Idle /\ queue = <<>>)
=============================================================================
