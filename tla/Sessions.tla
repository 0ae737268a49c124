------------------------------ MODULE Sessions ------------------------------
(***************************************************************************)
(* Delegation over one parent workspace (world/src/sessions.ts): the job   *)
(* table of a Sessions helper, the runs that work on its children's        *)
(* branches, and the callers that ask, cancel, collect, sweep and close.   *)
(*                                                                         *)
(* JavaScript runs one callback at a time, so an action here is what the   *)
(* code does between two awaits.  A run is its token; a job, its child and *)
(* the child's branch go by one name.  The runner (the model's loop) and   *)
(* the store are elsewhere: a runner returns something, a store call       *)
(* succeeds or throws.  What a reply says is not modelled, and 'declined'  *)
(* and 'capped' count as 'answered'.                                       *)
(***************************************************************************)
EXTENDS Naturals, FiniteSets, Sequences

CONSTANTS
    Names,        \* children of this session
    MaxRuns,      \* bound: runs ever started
    MaxWorkers,   \* SessionsOptions.maxWorkers
    Ops           \* what the callers do in this instance

ASSUME RunsAssumption == MaxRuns \in Nat /\ MaxWorkers \in Nat \ {0}
ASSUME OpsAssumption ==
    Ops \subseteq {"resume", "cancel", "result", "keep", "listen", "sweep", "fail", "close"}

Run == 1 .. MaxRuns
None == 0

VARIABLES
    \* The store, and the asks between their fork and their job.
    branches, forking,
    \* The job table: #jobs (its status and kept), #answers (whose answer it
    \* is), #uncollected, #busy, #landing, #recorded.
    status, kept, answer, uncollected, busy, landing, recorded,
    \* The worker slots: #running and #slots.
    running, slots,
    \* The runs: whose they are, where they are, what the runner said.
    minted, job, pc, reply,
    \* Those who wait: #waiters, a wait() in progress, #closed, and close()'s
    \* copy of #runs.
    asleep, waiting, closed, closeOn,
    \* A sweep in progress: the names left to delete, and the rows before;
    \* and the children whose branches went in a sweep whose delete failed.
    left, saved, torn,
    \* What has happened: answers handed over, answers announced, runs that
    \* were cancelled, and runs whose remainder was committed for them.
    given, told, stopped, committed

storeVars == <<branches, forking>>
jobVars   == <<status, kept, answer, uncollected, busy, landing, recorded>>
slotVars  == <<running, slots>>
runVars   == <<minted, job, pc, reply>>
waitVars  == <<asleep, waiting, closed, closeOn>>
sweepVars == <<left, saved, torn>>
ghostVars == <<given, told, stopped, committed>>
vars == <<storeVars, jobVars, slotVars, runVars, waitVars, sweepVars, ghostVars>>

Final == {"answered", "failed"}
Listeners == {"answers", "wait"}

\* #notify wakes all who wait; answers() ends with the round in which it
\* finds the helper closed, and is not woken again.
Woken == IF closed = "open" THEN {} ELSE asleep \cap {"answers"}

Init ==
    /\ branches = {} /\ forking = {}
    /\ status = [n \in Names |-> "none"] /\ kept = [n \in Names |-> FALSE]
    /\ answer = [n \in Names |-> None] /\ uncollected = {}
    /\ busy = [n \in Names |-> None] /\ landing = {} /\ recorded = {}
    /\ running = 0 /\ slots = <<>>
    /\ minted = 0 /\ job = <<>> /\ pc = [t \in Run |-> "unborn"] /\ reply = [t \in Run |-> "none"]
    /\ asleep = {} /\ waiting = FALSE /\ closed = "open" /\ closeOn = {}
    /\ left = {} /\ saved = <<>> /\ torn = {}
    /\ given = {} /\ told = {} /\ stopped = {} /\ committed = {}

-----------------------------------------------------------------------------
(* Asking.                                                                 *)

SlotFree == running < MaxWorkers

\* #submit: reserve the branch, install the job, start its run, all in one
\* step; the run takes a slot or queues for one at once.
Start(n, keep) ==
    LET t == minted + 1 IN
    /\ t \in Run
    /\ minted' = t /\ job' = Append(job, n)
    /\ busy' = [busy EXCEPT ![n] = t]
    /\ status' = [status EXCEPT ![n] = "running"]
    /\ kept' = [kept EXCEPT ![n] = keep]
    /\ answer' = [answer EXCEPT ![n] = None]
    /\ uncollected' = uncollected \ {n}
    /\ IF SlotFree
       THEN running' = running + 1 /\ pc' = [pc EXCEPT ![t] = "run"] /\ UNCHANGED slots
       ELSE slots' = Append(slots, t) /\ pc' = [pc EXCEPT ![t] = "queued"] /\ UNCHANGED running
    /\ UNCHANGED <<branches, landing, recorded, reply, waitVars, sweepVars, ghostVars>>

\* ask of a new child: the fork refuses a branch that exists.
Fork(n) ==
    /\ closed = "open" /\ n \notin branches
    /\ branches' = branches \cup {n}
    /\ forking' = forking \cup {n}
    /\ UNCHANGED <<jobVars, slotVars, runVars, waitVars, sweepVars, ghostVars>>

\* The fork is done: its job starts, unless the helper closed meanwhile.
Forked(n) ==
    /\ n \in forking /\ closed = "open" /\ busy[n] = None
    /\ forking' = forking \ {n}
    /\ Start(n, FALSE)

\* The fork failed to seed its child, or the job may not start any more.
ForkRefused(n) ==
    /\ n \in forking
    /\ "fail" \in Ops \/ closed # "open" \/ busy[n] # None
    /\ forking' = forking \ {n}
    /\ UNCHANGED <<branches, jobVars, slotVars, runVars, waitVars, sweepVars, ghostVars>>

\* Mutant: a resume looks at the job's status, not at the run in flight.
ResumableByStatus(n) == status[n] \notin {"none", "running", "expired"}

\* A job may have ended while its run still holds the branch.
Resumable(n) == status[n] \notin {"none", "expired"} /\ busy[n] = None

Resume(n) ==
    /\ "resume" \in Ops /\ closed = "open" /\ Resumable(n)
    /\ Start(n, kept[n])
    /\ UNCHANGED forking

-----------------------------------------------------------------------------
(* A run.                                                                  *)

\* #releaseSlot: the slot goes to the next run that queues for it.
PassSlot(ends) ==
    IF slots = <<>>
    THEN running' = running - 1 /\ pc' = ends /\ UNCHANGED slots
    ELSE pc' = [ends EXCEPT ![Head(slots)] = "run"] /\ slots' = Tail(slots) /\ UNCHANGED running

\* The runner answers or throws; a cancelled job's answer goes no further.
\* The runner works through a handle of its own, and opening a child whose
\* branch is gone makes it anew (store.open creates).
RunnerReturns(t) ==
    /\ pc[t] = "run"
    /\ \E r \in Final : reply' = [reply EXCEPT ![t] = r]
    /\ PassSlot([pc EXCEPT ![t] = IF status[job[t]] = "cancelled" THEN "end" ELSE "land"])
    /\ branches' \in {branches, branches \cup {job[t]}}
    /\ UNCHANGED <<forking, jobVars, minted, job, waitVars, sweepVars, ghostVars>>

\* Mutant: a cancelled job's answer is recorded all the same.
RecordAnyway(t, r) ==
    LET n == job[t] IN
    /\ pc' = [pc EXCEPT ![t] = "tell"]
    /\ busy' = [busy EXCEPT ![n] = IF @ = t THEN None ELSE @]
    /\ answer' = [answer EXCEPT ![n] = t]
    /\ uncollected' = uncollected \cup {n}
    /\ recorded' = recorded \cup {t}
    /\ status' = [status EXCEPT ![n] = r]
    /\ asleep' = Woken
    /\ UNCHANGED <<storeVars, kept, landing, slotVars, minted, job, reply,
                   waiting, closed, closeOn, sweepVars, ghostVars>>

\* #record: the answer is stored and the branch freed, in one step, unless
\* the job was cancelled first; all who wait are told.
Record(t, r) ==
    LET n == job[t] IN
    /\ IF status[n] = "cancelled"
       THEN /\ pc' = [pc EXCEPT ![t] = "end"]
            /\ UNCHANGED <<status, answer, uncollected, busy, recorded, asleep>>
       ELSE /\ pc' = [pc EXCEPT ![t] = "tell"]
            /\ busy' = [busy EXCEPT ![n] = IF @ = t THEN None ELSE @]
            /\ answer' = [answer EXCEPT ![n] = t]
            /\ uncollected' = uncollected \cup {n}
            /\ recorded' = recorded \cup {t}
            /\ status' = [status EXCEPT ![n] = r]
            /\ asleep' = Woken
    /\ UNCHANGED <<storeVars, kept, landing, slotVars, minted, job, reply,
                   waiting, closed, closeOn, sweepVars, ghostVars>>

\* #land opens the child's branch to say what it did.
Land(t) ==
    /\ pc[t] = "land" /\ job[t] \in branches
    /\ pc' = [pc EXCEPT ![t] = "remainder"]
    /\ UNCHANGED <<storeVars, jobVars, slotVars, minted, job, reply, waitVars, sweepVars, ghostVars>>

\* #settle: an answer that cannot be landed is recorded as failed.  Nobody
\* but the sweep deletes a child here.
LandFails(t) ==
    /\ pc[t] \in {"land", "describe"}
    /\ "fail" \in Ops \/ (pc[t] = "land" /\ job[t] \notin branches)
    /\ Record(t, "failed")

\* #commitRemainder looks at what the delegate left uncommitted.  The last
\* look at a cancel and the guard against one are one step.
Remainder(t) ==
    /\ pc[t] = "remainder"
    /\ \/ pc' = [pc EXCEPT ![t] = "describe"] /\ UNCHANGED landing
       \/ /\ status[job[t]] # "cancelled"
          /\ pc' = [pc EXCEPT ![t] = "commit"]
          /\ landing' = landing \cup {job[t]}
    /\ UNCHANGED <<storeVars, status, kept, answer, uncollected, busy, recorded,
                   slotVars, minted, job, reply, waitVars, sweepVars, ghostVars>>

\* The commit is made for it, or fails and is reported.
CommitRemainder(t) ==
    /\ pc[t] = "commit"
    /\ landing' = landing \ {job[t]}
    /\ pc' = [pc EXCEPT ![t] = "describe"]
    /\ committed' \in {committed, committed \cup {t}}
    /\ UNCHANGED <<storeVars, status, kept, answer, uncollected, busy, recorded,
                   slotVars, minted, job, reply, waitVars, sweepVars, given, told, stopped>>

\* The changed paths and the provenance are read, and the answer recorded.
Describe(t) == pc[t] = "describe" /\ Record(t, reply[t])

\* #announce: onAnswer, once, for a recorded answer.
Tell(t) ==
    /\ pc[t] = "tell" /\ t \in recorded
    /\ recorded' = recorded \ {t}
    /\ told' = told \cup {t}
    /\ pc' = [pc EXCEPT ![t] = "end"]
    /\ UNCHANGED <<storeVars, status, kept, answer, uncollected, busy, landing, slotVars,
                   minted, job, reply, waitVars, sweepVars, given, stopped, committed>>

\* The end of #work, after onAnswer: the branch is freed only while it is
\* still this run's to free.
End(t) ==
    /\ pc[t] = "end"
    /\ pc' = [pc EXCEPT ![t] = "done"]
    /\ busy' = [busy EXCEPT ![job[t]] = IF @ = t THEN None ELSE @]
    /\ UNCHANGED <<storeVars, status, kept, answer, uncollected, landing, recorded, slotVars,
                   minted, job, reply, waitVars, sweepVars, ghostVars>>

-----------------------------------------------------------------------------
(* The callers.                                                            *)

\* s without x, which it has at most once.
Without(s, x) ==
    LET places == {i \in DOMAIN s : s[i] = x} IN
    [i \in 1 .. (IF places = {} THEN Len(s) ELSE Len(s) - 1) |->
        IF \E j \in places : j <= i THEN s[i + 1] ELSE s[i]]

\* Mutant: nobody who waits is told.
CancelQuietly(n) ==
    /\ "cancel" \in Ops
    /\ status[n] = "running" /\ n \notin landing
    /\ LET t == busy[n] IN
       /\ slots' = Without(slots, t)
       /\ pc' = IF pc[t] = "queued" THEN [pc EXCEPT ![t] = "end"] ELSE pc
       /\ stopped' = stopped \cup {t}
    /\ status' = [status EXCEPT ![n] = "cancelled"]
    /\ UNCHANGED <<storeVars, kept, answer, uncollected, busy, landing, recorded, running,
                   minted, job, reply, waitVars, sweepVars, given, told, committed>>

\* The job is cancelled unless its remainder is being committed, and its
\* run's signal aborted: one that queues for a slot gives up its place.
Cancel(n) ==
    /\ "cancel" \in Ops
    /\ status[n] = "running" /\ n \notin landing
    /\ LET t == busy[n] IN
       /\ slots' = Without(slots, t)
       /\ pc' = IF pc[t] = "queued" THEN [pc EXCEPT ![t] = "end"] ELSE pc
       /\ stopped' = stopped \cup {t}
    /\ status' = [status EXCEPT ![n] = "cancelled"]
    /\ asleep' = Woken
    /\ UNCHANGED <<storeVars, kept, answer, uncollected, busy, landing, recorded, running,
                   minted, job, reply, waiting, closed, closeOn, sweepVars, given, told, committed>>

\* A job's answer may be read again and again; once read it is collected.
Result(n) ==
    /\ "result" \in Ops
    /\ status[n] \notin {"running", "expired"} /\ answer[n] # None
    /\ uncollected' = uncollected \ {n}
    /\ given' = given \cup {answer[n]}
    /\ UNCHANGED <<storeVars, status, kept, answer, busy, landing, recorded, slotVars, runVars,
                   waitVars, sweepVars, told, stopped, committed>>

Ready == {n \in uncollected : status[n] # "expired" /\ answer[n] # None}

\* One round of answers(): it starts to listen before it takes.
Answers ==
    /\ "listen" \in Ops /\ "answers" \notin asleep
    /\ given' = given \cup {answer[n] : n \in Ready}
    /\ uncollected' = {}
    /\ asleep' = asleep \cup {"answers"}
    /\ UNCHANGED <<storeVars, status, kept, answer, busy, landing, recorded, slotVars, runVars,
                   waiting, closed, closeOn, sweepVars, told, stopped, committed>>

\* wait(), with no timeout.
Wait ==
    /\ "listen" \in Ops /\ ~waiting
    /\ waiting' = TRUE
    /\ UNCHANGED <<storeVars, jobVars, slotVars, runVars, asleep, closed, closeOn, sweepVars, ghostVars>>

Waiting == closed = "open" /\ \E n \in Names : status[n] = "running"

WaitLooks ==
    /\ waiting /\ "wait" \notin asleep
    /\ IF Ready # {} \/ ~Waiting
       THEN waiting' = FALSE /\ UNCHANGED asleep
       ELSE asleep' = asleep \cup {"wait"} /\ UNCHANGED waiting
    /\ UNCHANGED <<storeVars, jobVars, slotVars, runVars, closed, closeOn, sweepVars, ghostVars>>

Keep(n) ==
    /\ "keep" \in Ops
    /\ status[n] \notin {"none", "expired"}
    /\ kept' = [kept EXCEPT ![n] = TRUE]
    /\ UNCHANGED <<storeVars, status, answer, uncollected, busy, landing, recorded, slotVars, runVars,
                   waitVars, sweepVars, ghostVars>>

\* close() stops the asks, and waits for the runs there are.
Close ==
    /\ "close" \in Ops /\ closed = "open"
    /\ closed' = "closing"
    /\ closeOn' = {t \in 1 .. minted : pc[t] # "done"}
    /\ asleep' = {}
    /\ UNCHANGED <<storeVars, jobVars, slotVars, runVars, waiting, sweepVars, ghostVars>>

CloseEnds ==
    /\ closed = "closing" /\ \A t \in closeOn : pc[t] = "done"
    /\ closed' = "closed"
    /\ UNCHANGED <<storeVars, jobVars, slotVars, runVars, asleep, waiting, closeOn, sweepVars, ghostVars>>

-----------------------------------------------------------------------------
(* The retention sweep.                                                    *)

\* Finished, held by no run, not kept; which of these were left untouched
\* long enough is any choice.
Sweepable(n) == status[n] \notin {"none", "running", "expired"} /\ busy[n] = None /\ ~kept[n]

\* Mutant: the jobs are marked once their branches are gone.
SweepUnmarked == \E swept \in SUBSET {n \in Names : Sweepable(n)} :
    /\ "sweep" \in Ops /\ left = {} /\ saved = <<>> /\ swept # {}
    /\ left' = swept
    /\ saved' = [n \in swept |->
                   [status |-> status[n], answer |-> answer[n], uncollected |-> n \in uncollected]]
    /\ UNCHANGED <<storeVars, jobVars, slotVars, runVars, waitVars, torn, ghostVars>>

\* The jobs are marked before their branches go, in one step.
Sweep == \E swept \in SUBSET {n \in Names : Sweepable(n)} :
    /\ "sweep" \in Ops /\ left = {} /\ saved = <<>> /\ swept # {}
    /\ left' = swept
    /\ saved' = [n \in swept |->
                   [status |-> status[n], answer |-> answer[n], uncollected |-> n \in uncollected]]
    /\ status' = [n \in Names |-> IF n \in swept THEN "expired" ELSE status[n]]
    /\ answer' = [n \in Names |-> IF n \in swept THEN None ELSE answer[n]]
    /\ uncollected' = uncollected \ swept
    /\ UNCHANGED <<storeVars, kept, busy, landing, recorded, slotVars, runVars, waitVars, torn, ghostVars>>

\* Store.delete: when every branch is there, one goes at a time.
SweepDeletes(n) ==
    /\ n \in left /\ left \subseteq branches
    /\ branches' = branches \ {n}
    /\ left' = left \ {n}
    /\ UNCHANGED <<forking, jobVars, slotVars, runVars, waitVars, saved, torn, ghostVars>>

SweepEnds ==
    /\ saved # <<>> /\ left = {}
    /\ saved' = <<>>
    /\ UNCHANGED <<storeVars, jobVars, slotVars, runVars, waitVars, left, torn, ghostVars>>

\* The delete throws, after any number of branches went, and every row is
\* put back, over whatever job the child has by now.
SweepFails ==
    /\ saved # <<>>
    /\ LET swept == DOMAIN saved IN
       /\ status' = [n \in Names |-> IF n \in swept THEN saved[n].status ELSE status[n]]
       /\ answer' = [n \in Names |-> IF n \in swept /\ saved[n].answer # None
                                     THEN saved[n].answer ELSE answer[n]]
       /\ uncollected' = uncollected \cup {n \in swept : saved[n].uncollected}
    /\ left' = {} /\ saved' = <<>>
    /\ torn' = torn \cup (DOMAIN saved \ left)
    /\ UNCHANGED <<storeVars, kept, busy, landing, recorded, slotVars, runVars, waitVars, ghostVars>>

-----------------------------------------------------------------------------

Ask == \E n \in Names : Fork(n) \/ Forked(n) \/ ForkRefused(n) \/ Resume(n)

Step(t) ==
    \/ RunnerReturns(t) \/ Land(t) \/ LandFails(t) \/ Remainder(t) \/ CommitRemainder(t)
    \/ Describe(t) \/ Tell(t) \/ End(t)

Caller ==
    \/ \E n \in Names : Cancel(n) \/ Result(n) \/ Keep(n)
    \/ Wait \/ Close

SweepStep == (\E n \in Names : SweepDeletes(n)) \/ SweepEnds \/ SweepFails

Next ==
    \/ Ask \/ Caller
    \/ \E t \in Run : Step(t)
    \/ Answers \/ WaitLooks \/ CloseEnds
    \/ Sweep \/ SweepStep

Spec == Init /\ [][Next]_vars

-----------------------------------------------------------------------------
(* Properties.                                                             *)

TypeOK ==
    /\ branches \subseteq Names /\ forking \subseteq Names
    /\ status \in [Names -> {"none", "running", "cancelled", "expired"} \cup Final]
    /\ kept \in [Names -> BOOLEAN]
    /\ answer \in [Names -> Run \cup {None}] /\ uncollected \subseteq Names
    /\ busy \in [Names -> Run \cup {None}] /\ landing \subseteq Names /\ recorded \subseteq Run
    /\ running \in 0 .. MaxWorkers /\ slots \in Seq(Run)
    /\ minted \in 0 .. MaxRuns /\ job \in Seq(Names) /\ Len(job) = minted
    /\ pc \in [Run -> {"unborn", "queued", "run", "land", "remainder", "commit", "describe",
                       "tell", "end", "done"}]
    /\ reply \in [Run -> Final \cup {"none"}]
    /\ asleep \subseteq Listeners /\ waiting \in BOOLEAN
    /\ closed \in {"open", "closing", "closed"} /\ closeOn \subseteq Run
    /\ left \subseteq Names /\ torn \subseteq Names /\ DOMAIN saved \subseteq Names
    /\ given \subseteq Run /\ told \subseteq Run /\ stopped \subseteq Run /\ committed \subseteq Run

Working(t) == pc[t] \in {"queued", "run", "land", "remainder", "commit", "describe"}

\* A child does one task at a time: of two runs on one branch, one has
\* recorded its answer or was cancelled and has stopped, whatever is
\* resumed while an earlier run is still announcing.
OneTaskAtATime ==
    \A t, u \in 1 .. minted : Working(t) /\ Working(u) /\ job[t] = job[u] => t = u

\* The worker slots: no more runs than workers, a run waits for a slot only
\* while all are taken, and nothing that was cancelled waits for one.
SlotsExact ==
    /\ running = Cardinality({t \in Run : pc[t] = "run"})
    /\ slots # <<>> => running = MaxWorkers
    /\ {slots[i] : i \in DOMAIN slots} = {t \in Run : pc[t] = "queued"}

\* The job table tells the truth: a running job has a run that will settle
\* it, and an answer is of the child's last run and goes with its status.
\* The row of a torn child may be an older job's, put back over a new one.
JobsTrue ==
    \A n \in Names :
        /\ status[n] = "running" => busy[n] # None /\ job[busy[n]] = n /\ Working(busy[n])
        /\ answer[n] # None =>
            /\ job[answer[n]] = n
            /\ n \notin torn => /\ status[n] \in Final
                               /\ \A t \in 1 .. minted : job[t] = n => t <= answer[n]

\* An answer is handed over once: what waits to be collected has not been
\* read or taken before, unless its child is torn.
HandedOnce == \A n \in Ready \ torn : answer[n] \notin given

\* A cancel is final: a run that was cancelled is never answered from,
\* announced or handed over, unless the row of a torn child was put back
\* over the cancel.
CancelWins == \A t \in stopped : t \in given \cup told \cup recorded => job[t] \in torn

\* A branch with a run on it, or one that was kept, is not swept away under
\* it, whoever resumes or keeps it while a sweep is deleting, and whatever
\* part of an earlier sweep failed; a torn child may be asked anew beside
\* the sweep that takes it again.
SweepSpares == [][
    \A n \in Names \ torn : n \in left /\ n \notin branches' => busy[n] = None /\ ~kept[n]
    ]_vars

\* A cancelled job gets no commit made for it: "A cancel either wins
\* outright or finds the job answering".
CancelCommitsNothing == stopped \cap committed = {}

\* Once the sweep has taken a branch its job is expired, and has no answer
\* to read or child to resume, unless it is torn.
TakenIsExpired ==
    \A n \in Names \ (branches \cup left \cup torn) : status[n] \in {"none", "expired"}

\* The same of every child, "put back if the delete fails" notwithstanding.
PutBackWhole ==
    \A n \in Names \ (branches \cup left) : status[n] \in {"none", "expired"}

\* The job table is true: a child does one task at a time, its slots are
\* exact, and a job's row says what its runs do (sessions.ts, #jobs).
JobsHeld == TypeOK /\ OneTaskAtATime /\ SlotsExact /\ JobsTrue

\* An answer is handed over once, never after a cancel, and never from a
\* branch the sweep took, but for the children of a sweep that failed half
\* way (sessions.ts, result, answers, cancel, sweep).
AnswersHeld == HandedOnce /\ CancelWins /\ TakenIsExpired

=============================================================================
