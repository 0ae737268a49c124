------------------------------ MODULE AgexTurn ------------------------------
(* One agent session of agex-ts (agent.ts): the turn loop that asks the    *)
(* model, runs the tools it calls and stores the run, with the folds of    *)
(* compaction.ts and the hooks of a task (task.ts, taskHooks).             *)
(*                                                                         *)
(* A message is its id, its run, its role, the calls it makes and the      *)
(* results it carries.  What the model answers, whether a request reaches  *)
(* the budget and when a tool ends are free.  The world's side of a turn   *)
(* (its commits, notes and queue) is WorldTurns'.                          *)
EXTENDS Naturals, Sequences, FiniteSets, SequencesExt

CONSTANTS
    MaxSteps,       \* the agent's maxSteps: model calls in a run
    MaxToolCalls,   \* its maxToolCalls, or NoLimit
    NoLimit,
    CallsPer,       \* bound on the calls of a reply, after WideTo replies one
    WideTo,
    MaxSums,        \* bound on the calls one summary takes
    Nudges,         \* NUDGES: how often a task's model is told to settle
    MaxTurns,       \* bound on turns, resumed ones too
    MaxCrashes,     \* bound on crashes
    Ops             \* what may happen: "resume", "abandon", "fold", "cancel",
                    \* "flaky" (provider errors), "broken" (a delivery throws)

ASSUME AgexAssumption ==
    /\ MaxSteps \in Nat \ {0} /\ CallsPer \in Nat \ {0}
    /\ Nudges \in Nat /\ MaxTurns \in Nat /\ MaxCrashes \in Nat
    /\ NoLimit \notin Nat /\ MaxToolCalls \in Nat \cup {NoLimit}
    /\ WideTo \in Nat /\ MaxSums \in Nat

VARIABLES
    stored,     \* the runs the workspace holds, oldest first
    folds,      \* the anchors of the folds recorded, oldest first
    turn,       \* the turn running: the locals of _run and #turnBody
    aborted,    \* its abort signal
    tool,       \* the tool call in flight: "off" or "running"
    result,     \* TaskHost.result
    plane,      \* the state on the task's plane, and as last committed;
                \* "none" when the session runs no task
    nudged,     \* how often the model was nudged
    taken,      \* turns taken: what makes ids new
    begun,      \* the calls whose tool was called
    crashes

vars == <<stored, folds, turn, aborted, tool, result, plane, nudged, taken, begun, crashes>>
host == <<result, plane, nudged>>

AsTask == plane.now # "none"
Settled == {"success", "failed", "needs_input"}
Ended == {"completed", "failed", "cancelled", "interrupted"}

NoCall == <<>>

\* No turn, nor a fold between turns.
Idle == [pc |-> "idle", run |-> 0, resumed |-> FALSE, msgs |-> <<>>, calls |-> <<>>, res |-> <<>>,
         cutting |-> NoCall, made |-> 0, sums |-> 0, spent |-> 0, told |-> FALSE, folded |-> 0,
         status |-> "completed"]

-----------------------------------------------------------------------------
(* The conversation as one sequence, and what a fold takes out of it.      *)

\* Ids are new: no turn gives out what another gave.
NewId(n, t) == <<n, Len(t.msgs) + 1>>
Msg(t, role, calls, results) ==
    [id |-> NewId(taken, t), run |-> t.run, role |-> role, calls |-> calls, results |-> results]
Say1(t, role, calls, results) == [t EXCEPT !.msgs = Append(@, Msg(t, role, calls, results))]
Answer(c, how) == [call |-> c, how |-> how]
CallsOf(results) == {r.call : r \in ToSet(results)}

Earlier == IF turn.resumed THEN Front(stored) ELSE stored
Whole == FlattenSeq([n \in DOMAIN Earlier |-> Earlier[n].msgs]) \o turn.msgs
At(id) == SelectInSeq(Whole, LAMBDA m : m.id = id)

\* The fold in force: the latest whose anchor is in the conversation, as
\* the place of its anchor; 0 when there is none.
InForce ==
    LET n == SelectLastInSeq(folds, LAMBDA f : At(f) # 0)
    IN  IF n = 0 THEN 0 ELSE At(folds[n])

\* The latest tool result before the run's latest step, else the end of the
\* earlier runs.
Cut ==
    LET now == {i \in DOMAIN Whole : Whole[i].run = turn.run}
        steps == {i \in now : Whole[i].role = "tool" /\ \E j \in now : j > i /\ Whole[j].role = "assistant"}
    IN  IF steps # {} THEN CHOOSE i \in steps : \A j \in steps : j <= i
        ELSE Len(Whole) - Len(turn.msgs)

\* What a fold through place `end` keeps out of a request: all up to it, but
\* the opening message of a run it ends inside.
Removed(end) ==
    LET run == IF end = 0 THEN {} ELSE {i \in DOMAIN Whole : Whole[i].run = Whole[end].run}
    IN  (1 .. end) \ {i \in run : (\E j \in run : j > end) /\ \A j \in run : i <= j}

\* The summary and its acknowledgement.
Pair == << [role |-> "user", calls |-> {}, results |-> <<>>],
           [role |-> "assistant", calls |-> {}, results |-> <<>>] >>
Bare(m) == [role |-> IF m.role \in {"note", "notice"} THEN "user" ELSE m.role, calls |-> m.calls, results |-> m.results]

\* What the model is sent of the conversation up to `upto`.
View(end, upto) ==
    LET out == Removed(end)
        rest == SelectSeq([i \in 1 .. upto |-> i], LAMBDA i : i \notin out)
    IN  (IF end = 0 THEN <<>> ELSE Pair) \o [i \in DOMAIN rest |-> Bare(Whole[rest[i]])]

Request == View(InForce, Len(Whole))

-----------------------------------------------------------------------------
(* Starting a turn: say or wake, resume, a fold between turns.             *)

Init ==
    /\ \E state \in {"none", "running"} : plane = [now |-> state, kept |-> state]
    /\ stored = <<>> /\ folds = <<>> /\ turn = Idle /\ aborted = FALSE /\ tool = "off"
    /\ result = "none" /\ nudged = 0
    /\ taken = 0 /\ begun = {} /\ crashes = 0

LastRun == stored[Len(stored)]
Interrupted == stored # <<>> /\ LastRun.status = "interrupted"

\* The turn runs its loop again: the next request, a stop, or the bound on
\* model calls.
Round(t) ==
    IF t.made >= MaxSteps THEN [t EXCEPT !.pc = "ending", !.status = "failed"]
    ELSE IF aborted THEN [t EXCEPT !.pc = "ending", !.status = "cancelled"]
    ELSE [t EXCEPT !.pc = "prepare"]

Opening == [id |-> NewId(taken + 1, Idle), run |-> Len(stored) + 1, role |-> "user", calls |-> {}, results |-> <<>>]

\* A cancel made as the turn starts reaches it at its first check, which
\* the opening of the world's turn comes before.
Begin(t) ==
    /\ turn = Idle /\ taken < MaxTurns /\ taken' = taken + 1
    /\ turn' = [t EXCEPT !.pc = "opening", !.folded = Len(folds)] /\ aborted' = FALSE
    /\ UNCHANGED <<stored, folds, tool, plane, begun, crashes>>

Say ==
    /\ Begin([Idle EXCEPT !.run = Len(stored) + 1, !.msgs = <<Opening>>])
    /\ result' = "none" /\ nudged' = 0

\* The replies, calls and summaries of a resumed run count, as does the
\* notice that its tool calls are spent.
Resume ==
    /\ "resume" \in Ops /\ ~AsTask /\ Interrupted
    /\ Begin([Idle EXCEPT !.run = Len(stored), !.resumed = TRUE, !.msgs = LastRun.msgs,
                !.sums = LastRun.sums,
                !.made = Cardinality({i \in DOMAIN LastRun.msgs : LastRun.msgs[i].role = "assistant"}) + LastRun.sums,
                !.spent = Cardinality(UNION {LastRun.msgs[i].calls : i \in DOMAIN LastRun.msgs}),
                !.told = \E m \in ToSet(LastRun.msgs) : m.role = "notice"])
    /\ result' = "none" /\ nudged' = 0

Opened ==
    /\ turn.pc = "opening"
    /\ turn' = Round(turn)
    /\ UNCHANGED <<stored, folds, aborted, tool, host, taken, begun, crashes>>

\* fold(): made as one past the budget is, between turns.
BeginFold ==
    /\ "fold" \in Ops /\ ~AsTask /\ turn = Idle /\ ~Interrupted /\ stored # <<>>
    /\ turn' = [Idle EXCEPT !.pc = "folding", !.run = Len(stored) + 1, !.folded = Len(folds)] /\ aborted' = FALSE
    /\ UNCHANGED <<stored, folds, tool, host, taken, begun, crashes>>

-----------------------------------------------------------------------------
(* A model call: the request prepared, perhaps a fold first, the reply.    *)

\* The turn ends here, for a stop or an error.
Fails(status) ==
    /\ turn' = [turn EXCEPT !.pc = "ending", !.status = IF aborted THEN "cancelled" ELSE status]
    /\ UNCHANGED <<stored, folds, aborted, tool, host, taken, begun, crashes>>

Foldable == Cut # 0 /\ Cut > InForce

\* A fold and the summary calls it takes, at most as many as leave one for
\* the request after it; none is made when they give no summary.
Prepare ==
    LET spare == MaxSteps - turn.made - 1 IN
    /\ turn.pc = "prepare"
    /\ \E n \in 0 .. MaxSums, made \in BOOLEAN :
         /\ n > 0 => Foldable /\ n <= spare
         /\ made => n > 0
         /\ folds' = IF made THEN Append(folds, Whole[Cut].id) ELSE folds
         /\ turn' = [turn EXCEPT !.pc = "asking", !.made = @ + n + 1, !.sums = @ + n]
    /\ UNCHANGED <<stored, aborted, tool, host, taken, begun, crashes>>

\* A stop ends the summary's call, and the turn with it.
PrepareStopped == turn.pc = "prepare" /\ aborted /\ Fails("cancelled")

FoldMade ==
    /\ turn.pc = "folding"
    /\ \/ /\ Foldable /\ folds' = Append(folds, Whole[Cut].id)
       \/ UNCHANGED folds
    /\ turn' = Idle
    /\ UNCHANGED <<stored, aborted, tool, host, taken, begun, crashes>>

\* Any event of the stream meets the check for a stop.
Reply ==
    /\ turn.pc = "asking" /\ ~aborted
    /\ \E n \in 0 .. IF turn.made <= WideTo THEN CallsPer ELSE 1 :
         LET calls == [i \in 1 .. n |-> <<NewId(taken, turn), i>>] IN
         turn' = [Say1(turn, "assistant", ToSet(calls), <<>>) EXCEPT !.pc = "calls", !.calls = calls, !.res = <<>>]
    /\ UNCHANGED <<stored, folds, aborted, tool, host, taken, begun, crashes>>

ReplyStopped == turn.pc = "asking" /\ aborted /\ Fails("cancelled")

\* A provider's error worth retrying leaves the run to be resumed.
RequestFails ==
    /\ turn.pc = "asking" /\ "flaky" \in Ops
    /\ \E status \in {"interrupted", "failed"} : Fails(status)

\* A reply that calls nothing ends the turn, but a task's, whose model is
\* told to settle it, and given up on.
Stop ==
    /\ turn.pc = "calls" /\ turn.calls = <<>>
    /\ IF AsTask /\ nudged < Nudges
       THEN turn' = Round(Say1(turn, "user", {}, <<>>)) /\ nudged' = nudged + 1
       ELSE /\ turn' = [turn EXCEPT !.pc = "ending", !.status = IF AsTask THEN "failed" ELSE "completed"]
            /\ UNCHANGED nudged
    /\ UNCHANGED <<stored, folds, aborted, tool, result, plane, taken, begun, crashes>>

-----------------------------------------------------------------------------
(* The calls of a reply, one after the other.                              *)

Next1 == turn.calls[Len(turn.res) + 1]
Over == MaxToolCalls # NoLimit /\ turn.spent >= MaxToolCalls

CallStopped == turn.pc = "calls" /\ turn.calls # <<>> /\ aborted /\ Fails("cancelled")

\* Past the limit the call is answered without being made.
CallRefused ==
    /\ turn.pc = "calls" /\ turn.calls # <<>> /\ ~aborted /\ Over
    /\ turn' = [turn EXCEPT !.pc = "deliver", !.res = Append(@, Answer(Next1, "over"))]
    /\ UNCHANGED <<stored, folds, aborted, tool, host, taken, begun, crashes>>

CallTool ==
    /\ turn.pc = "calls" /\ turn.calls # <<>> /\ ~aborted /\ ~Over
    /\ turn' = [turn EXCEPT !.pc = "call", !.cutting = Next1, !.spent = @ + 1]
    /\ tool' = "running" /\ begun' = begun \cup {Next1}
    /\ UNCHANGED <<stored, folds, aborted, host, taken, crashes>>

\* The task's code settles it, once or again: the record is the last.
Settle ==
    /\ AsTask /\ tool = "running"
    /\ result' \in Settled /\ result' # result
    /\ UNCHANGED <<stored, folds, turn, aborted, tool, plane, nudged, taken, begun, crashes>>

\* Mutant: the result stands only once it was delivered.
CallReturnsUnsaid ==
    /\ turn.pc = "call" /\ tool = "running" /\ ~aborted
    /\ tool' = "off"
    /\ turn' = [turn EXCEPT !.pc = "deliver", !.cutting = NoCall]
    /\ plane' = IF result = "none" THEN plane ELSE [plane EXCEPT !.now = result]
    /\ UNCHANGED <<stored, folds, aborted, result, nudged, taken, begun, crashes>>

\* The call's result stands from here, however the turn ends.  A settled
\* task is recorded on its plane, with the workspace's next commit.
CallReturns ==
    /\ turn.pc = "call" /\ tool = "running" /\ ~aborted
    /\ tool' = "off"
    /\ turn' = [turn EXCEPT !.pc = "deliver", !.cutting = NoCall, !.res = Append(@, Answer(turn.cutting, "ran"))]
    /\ plane' = IF result = "none" THEN plane ELSE [plane EXCEPT !.now = result]
    /\ UNCHANGED <<stored, folds, aborted, result, nudged, taken, begun, crashes>>

\* A stop ends the turn at once; the call's own end follows.
CallCut == turn.pc = "call" /\ aborted /\ Fails("cancelled")

\* Mutant: the call a stop cut off isn't told to stop.
ToolEndsUntold ==
    /\ tool = "running" /\ turn.pc # "call" /\ ~aborted /\ tool' = "off"
    /\ UNCHANGED <<stored, folds, turn, aborted, host, taken, begun, crashes>>

ToolEnds ==
    /\ tool = "running" /\ turn.pc # "call" /\ tool' = "off"
    /\ UNCHANGED <<stored, folds, turn, aborted, host, taken, begun, crashes>>

\* The notice given, calls refused past it end the turn.
AfterNotice(t) == t.told
Noticed(t) == [Say1(t, "notice", {}, <<>>) EXCEPT !.told = TRUE]
ToolMessage(t) == [Say1(t, "tool", {}, t.res) EXCEPT !.calls = <<>>, !.res = <<>>]

\* The result is delivered with the notes waiting: the next call, the end
\* of a settled task, or the next request.
Deliver ==
    /\ turn.pc = "deliver"
    /\ LET more == Len(turn.res) < Len(turn.calls) IN
       turn' = IF AsTask /\ result # "none" THEN [turn EXCEPT !.pc = "ending"]
               ELSE IF more THEN [turn EXCEPT !.pc = "calls"]
               ELSE IF AfterNotice(turn) THEN [turn EXCEPT !.pc = "ending", !.status = "failed"]
               ELSE Round(IF Over THEN Noticed(ToolMessage(turn)) ELSE ToolMessage(turn))
    /\ UNCHANGED <<stored, folds, aborted, tool, host, taken, begun, crashes>>

DeliverFails == turn.pc = "deliver" /\ "broken" \in Ops /\ Fails("failed")

-----------------------------------------------------------------------------
(* The end of a turn: every call gets its result, the call cut off lets go *)
(* of the workspace, and the run is stored with the turn's last commit.    *)

Left == [i \in 1 .. (Len(turn.calls) - Len(turn.res)) |->
          LET c == turn.calls[Len(turn.res) + i]
          IN  Answer(c, IF c = turn.cutting THEN "cut" ELSE "left")]
Answered(t) == IF t.calls = <<>> THEN t ELSE Say1(t, "tool", {}, t.res \o Left)
Closed(t) == IF t.status \in {"cancelled", "failed"} THEN Say1(t, "note", {}, <<>>) ELSE t
Run(t) == [status |-> t.status, sums |-> t.sums, msgs |-> Closed(Answered(t)).msgs]

End ==
    /\ turn.pc = "ending" /\ (turn.cutting # NoCall => tool = "off")
    /\ stored' = Append(Earlier, Run(turn))
    /\ plane' = [plane EXCEPT !.kept = plane.now]
    /\ turn' = Idle /\ aborted' = FALSE
    /\ UNCHANGED <<folds, tool, result, nudged, taken, begun, crashes>>

\* abandon(): the last run, interrupted, is closed with a note.
Abandon ==
    /\ "abandon" \in Ops /\ ~AsTask /\ turn = Idle /\ Interrupted
    /\ \E status \in {"cancelled", "failed"} :
         stored' = [stored EXCEPT ![Len(stored)] =
           [status |-> status, sums |-> @.sums,
            msgs |-> Append(@.msgs, [id |-> <<0, Len(stored)>>, run |-> Len(stored), role |-> "note",
                                     calls |-> {}, results |-> <<>>])]]
    /\ UNCHANGED <<folds, turn, aborted, tool, host, taken, begun, crashes>>

Cancel ==
    /\ "cancel" \in Ops /\ turn # Idle /\ ~aborted
    /\ aborted' = TRUE
    /\ UNCHANGED <<stored, folds, turn, tool, host, taken, begun, crashes>>

\* The process dies with the turn: nothing of it is stored but the folds its
\* calls' commits landed.
Crash ==
    /\ crashes < MaxCrashes /\ crashes' = crashes + 1 /\ turn # Idle
    /\ turn' = Idle /\ aborted' = FALSE /\ tool' = "off" /\ result' = "none"
    /\ \E n \in turn.folded .. Len(folds) : folds' = SubSeq(folds, 1, n)
    /\ plane' = [plane EXCEPT !.now = plane.kept] /\ nudged' = 0
    /\ UNCHANGED <<stored, taken, begun>>

Ask == Prepare \/ PrepareStopped \/ FoldMade \/ Reply \/ ReplyStopped \/ RequestFails \/ Stop
Calls == CallStopped \/ CallRefused \/ CallTool \/ CallReturns \/ CallCut \/ ToolEnds \/ Deliver \/ DeliverFails

Works == Opened \/ Ask \/ Calls \/ End
Next == Say \/ Resume \/ BeginFold \/ Works \/ Settle \/ Abandon \/ Cancel \/ Crash
Spec == Init /\ [][Next]_vars

-----------------------------------------------------------------------------
(* Properties.                                                             *)

Ids == Nat \X Nat

MsgOK(m) ==
    /\ m.id \in Ids /\ m.run \in 1 .. MaxTurns /\ m.role \in {"user", "assistant", "tool", "note", "notice"}
    /\ m.calls \subseteq Ids \X Nat
    /\ \A a \in ToSet(m.results) : a.how \in {"ran", "over", "cut", "left"}

TypeOK ==
    /\ \A r \in ToSet(stored) : r.status \in Ended /\ \A m \in ToSet(r.msgs) : MsgOK(m)
    /\ \A m \in ToSet(turn.msgs) : MsgOK(m)
    /\ turn.pc \in {"idle", "opening", "folding", "prepare", "asking", "calls", "call", "deliver", "ending"}
    /\ turn.made \in 0 .. MaxSteps /\ turn.sums <= turn.made /\ turn.status \in Ended
    /\ aborted \in BOOLEAN /\ tool \in {"off", "running"}
    /\ result \in Settled \cup {"none"}
    /\ plane \in [now : Settled \cup {"running", "none"}, kept : Settled \cup {"running", "none"}]
    /\ nudged <= Nudges /\ taken <= MaxTurns

\* A request a provider accepts: the results of a reply's calls follow it at
\* once, each once and no other, replies do not follow each other, and the
\* model is the next to speak.
Accepted(req) ==
    /\ \A i \in DOMAIN req : req[i].role = "assistant" /\ req[i].calls # {} =>
         /\ i < Len(req) /\ req[i + 1].role = "tool"
         /\ Len(req[i + 1].results) = Cardinality(req[i].calls)
         /\ CallsOf(req[i + 1].results) = req[i].calls
    /\ \A i \in DOMAIN req : req[i].role = "tool" =>
         i > 1 /\ req[i - 1].role = "assistant" /\ req[i - 1].calls # {}
    /\ \A i \in 1 .. Len(req) - 1 : ~(req[i].role = "assistant" /\ req[i + 1].role = "assistant")
    /\ req # <<>> /\ req[Len(req)].role # "assistant"

\* Every request is one a provider accepts, whatever cut an earlier run
\* short, wherever a fold ended and however the run was resumed
\* (agent.ts:803-817, compaction.ts:25-27); the summary's own request too.
RequestsAccepted ==
    /\ turn.pc = "asking" => Accepted(Request)
    /\ turn.pc \in {"prepare", "folding"} /\ Foldable =>
         Accepted(Append(View(InForce, Cut), [role |-> "user", calls |-> {}, results |-> <<>>]))

\* The request always holds the message the run in progress opened with
\* (compaction.ts:14-17), and the latest step whole.
OpeningSent ==
    turn.pc = "asking" =>
      LET first == Len(Whole) - Len(turn.msgs) + 1 IN
      /\ first \notin Removed(InForce)
      /\ \A i \in DOMAIN Whole : Whole[i].role = "assistant" /\ Whole[i].run = turn.run
            /\ (\A j \in i + 1 .. Len(Whole) : Whole[j].role # "assistant") => i \notin Removed(InForce)

\* What a stored run says of a call is what happened to it: a call whose
\* result stands or was cut off was made, one refused or left was not
\* (agent.ts:731-732, 798-816).
ReportsTrue ==
    \A r \in ToSet(stored) : \A m \in ToSet(r.msgs) : \A a \in ToSet(m.results) :
      (a.how \in {"ran", "cut"}) = (a.call \in begun)

\* A run, resumed or not (agent.ts:631-639), makes no more model calls than its agent's
\* maxSteps, summaries among them, nor more tool calls than its limit.
RunsBounded ==
    \A r \in ToSet(stored) :
      /\ Cardinality({i \in DOMAIN r.msgs : r.msgs[i].role = "assistant"}) + r.sums <= MaxSteps
      /\ MaxToolCalls # NoLimit =>
           Cardinality((UNION {CallsOf(m.results) : m \in ToSet(r.msgs)}) \cap begun) <= MaxToolCalls

\* A turn stores its run when the call a stop cut off has let go of the
\* workspace: no tool works on beside the commit, or after it
\* (agent.ts:869-871).
CallsOver == [][stored' # stored => tool = "off"]_vars

\* Once stopped a turn begins no tool call (agent.ts:505-511, 707).
CancelHeard == [][aborted => begun' = begun]_vars

=============================================================================
