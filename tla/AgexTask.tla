------------------------------ MODULE AgexTask ------------------------------
(* A task of agex-ts over its world (task.ts): TaskRunner opens the world,  *)
(* runs the model there with the hooks of AgexTurn, and puts the world away *)
(* when the run ends: kept for an answer, or because the caller said so, or *)
(* deleted.  The world's store outlives the process.                        *)
EXTENDS AgexTurn

VARIABLES
    world,      \* "none", "open", "kept" or "gone"
    keep,       \* the caller's `keep`
    again,      \* whether the run resumes a task that asked (keepUnsettled)
    ran,        \* how its turn ended: "none" while it runs, "threw"
    offered     \* whether the outcome the caller holds has a resume

task == <<world, keep, again, ran, offered>>

TInit == Init /\ world = "none" /\ keep \in (IF AsTask THEN BOOLEAN ELSE {FALSE}) /\ again = FALSE /\ ran = "none" /\ offered = FALSE

\* run(): the world is opened, forked or scratch, and its plane begun.
RunTask ==
    /\ AsTask /\ world = "none" /\ Say
    /\ world' = "open" /\ again' = FALSE /\ ran' = "none" /\ offered' = FALSE
    /\ UNCHANGED keep

\* resume(): refused unless the world's plane waits for an answer.
ResumeTask ==
    /\ AsTask /\ world \in {"open", "kept"} /\ turn = Idle /\ ran # "none"
    /\ plane.kept = "needs_input" /\ Say
    /\ world' = "open" /\ again' = TRUE /\ ran' = "none" /\ offered' = FALSE
    /\ UNCHANGED keep

\* The turn couldn't begin: the loop throws, and the world is put away.
BeginThrows ==
    /\ turn.pc = "opening" /\ "broken" \in Ops /\ AsTask
    /\ turn' = Idle /\ aborted' = FALSE /\ ran' = "threw"
    /\ UNCHANGED <<stored, folds, tool, host, taken, begun, crashes, world, keep, again, offered>>

EndTurn == End /\ ran' = turn.status /\ UNCHANGED <<world, keep, again, offered>>

\* Mutant: only a run that asks keeps its world.
WaitingAsked == result = "needs_input"

\* Kept for a task that asked, and for one resumed that did not settle, so
\* that a resume cut short can be made again.
Waiting ==
    IF ran # "threw" THEN result = "needs_input" \/ (result = "none" /\ again)
    ELSE again /\ result \in {"none", "needs_input"}

PutAway ==
    /\ AsTask /\ world = "open" /\ turn = Idle /\ ran \notin {"none", "died"}
    /\ world' = IF keep \/ Waiting THEN "kept" ELSE "gone"
    /\ offered' = (Waiting /\ ran # "threw")
    /\ UNCHANGED <<vars, keep, again, ran>>

\* The process dies: the world stays in its store as it was last committed.
Dies ==
    /\ Crash /\ ran' = "died" /\ offered' = FALSE
    /\ UNCHANGED <<world, keep, again>>

Others == Resume \/ BeginFold \/ Opened \/ Ask \/ Calls \/ Settle \/ Abandon \/ Cancel

TNext ==
    \/ RunTask \/ ResumeTask \/ BeginThrows \/ EndTurn \/ PutAway \/ Dies
    \/ /\ Others \/ (~AsTask /\ Say)
       /\ UNCHANGED task

tvars == <<vars, task>>
TSpec == TInit /\ [][TNext]_tvars

-----------------------------------------------------------------------------
(* Properties.                                                             *)

\* The caller's outcome and the world it names agree, unless the task was
\* stopped while its code settled it: what a kept world's plane says is how
\* the task came out, so a resume offered is one that is not refused
\* (task.ts:824-829, 900-911), and a task that ended cannot be resumed.
PlaneTrue ==
    world = "kept" /\ ran # "cancelled" =>
      /\ result # "none" => plane.kept = result
      /\ offered => plane.kept = "needs_input"

\* A task for which a resume is offered waits for its answer (task.ts:555):
\* the resume is not refused.
OffersHold == offered => plane.kept = "needs_input"

\* The world of a task that waits for an answer is not lost before the task
\* settles, however often its resume is stopped, fails or dies
\* (task.ts:535-538).
AskedStays ==
    [][world' = "gone" /\ world # "gone" /\ plane.kept = "needs_input" => result \in {"success", "failed"}]_tvars

\* A turn's report and a task's plane say what became of it, and a resumed
\* run is bounded with the ones before it (agent.ts, task.ts).
TurnsTrue == TypeOK /\ RunsBounded /\ ReportsTrue /\ PlaneTrue

\* A run is stored with no call of its still going, nothing is begun once a
\* stop was heard, and a question asked stays to be answered (agent.ts, task.ts).
StopsKept == CallsOver /\ CancelHeard /\ AskedStays
=============================================================================
