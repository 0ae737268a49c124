------------------------------- MODULE AgexMap -------------------------------
(* Agent-defined tasks (code-tasks.ts): `map` runs a task once per item, each *)
(* as a delegate of the world, at most MaxParallel at once. Several maps of    *)
(* one piece of code share the world's helper, whose slots the delegates       *)
(* queue for (sessions.ts #acquire). A job here is what Sessions models of it. *)
EXTENDS Naturals, Sequences, FiniteSets

CONSTANTS
    Maps,           \* the maps code has running
    Items,          \* how many items each map has
    MaxParallel,    \* AgentTasks' limit
    Slots,          \* the helper's maxWorkers
    MapOps          \* "turn": the turn is cancelled; "one": a delegate is;
                    \* "sweep": one that settled is swept

ASSUME MapAssumption == Items \in Nat /\ MaxParallel \in Nat \ {0} /\ Slots \in Nat

Job == Maps \X (1 .. Items)

VARIABLES
    pc,         \* per map: "off", "loop", "ask", "returned", "threw"
    started,    \* per map: its delegates in the order they were asked
    next,       \* per map: the item its loop is at; past the items, the
                \* delegate whose reply it collects
    job,        \* per job: "new", "queued", "running", "landing", "answered",
                \* "cancelled"
    ending,     \* the cancelled jobs whose runs have not ended
    swept,      \* the jobs whose rows say expired
    done,       \* the jobs whose TaskRun.done has settled
    reply,      \* per job: its TaskRun's reply
    jobs,       \* AgentTasks.#jobs
    stopped     \* AgentTasks.#stopped

mvars == <<pc, started, next, job, ending, swept, done, reply, jobs, stopped>>

MInit ==
    /\ pc = [m \in Maps |-> "off"] /\ started = [m \in Maps |-> <<>>] /\ next = [m \in Maps |-> 1]
    /\ job = [j \in Job |-> "new"] /\ ending = {} /\ swept = {} /\ done = {} /\ reply = [j \in Job |-> "never ran"]
    /\ jobs = {} /\ stopped = FALSE

\* A map begun forgets a cancel made before it.
Call(m) ==
    /\ pc[m] = "off" /\ Items > 0 /\ pc' = [pc EXCEPT ![m] = "loop"] /\ stopped' = FALSE
    /\ UNCHANGED <<started, next, job, ending, swept, done, reply, jobs>>

\* A run holds its slot until it ends; its answer lands after.
Running == {j \in Job : job[j] = "running"} \cup ending
SlotFree == Cardinality(Running) < Slots /\ \A j \in Job : job[j] # "queued"

\* The loop waits for the delegate MaxParallel places back to be done.
Room(m) ==
    LET n == Len(started[m]) IN n >= MaxParallel => started[m][n - MaxParallel + 1] \in done

Mine(m) == {started[m][i] : i \in DOMAIN started[m]}

\* The loops go on, to the next item or delegate, or the map returns.
Onward(m) ==
    LET over == next[m] >= Items + Len(started[m]) IN
    /\ next' = [next EXCEPT ![m] = @ + 1]
    /\ pc' = [pc EXCEPT ![m] = IF over THEN "returned" ELSE "loop"]
    /\ jobs' = IF over THEN jobs \ Mine(m) ELSE jobs

Skip(m) ==
    /\ pc[m] = "loop" /\ next[m] <= Items /\ Room(m) /\ stopped
    /\ reply' = [reply EXCEPT ![<<m, next[m]>>] = "cancelled"]
    /\ Onward(m)
    /\ UNCHANGED <<started, job, ending, swept, done, stopped>>

AskFor(m) ==
    /\ pc[m] = "loop" /\ next[m] <= Items /\ Room(m) /\ ~stopped
    /\ pc' = [pc EXCEPT ![m] = "ask"]
    /\ UNCHANGED <<started, next, job, ending, swept, done, reply, jobs, stopped>>

\* Mutant: nor is it told.
AskedUntold(m) ==
    /\ pc[m] = "ask"
    /\ LET j == <<m, next[m]>> IN
         /\ job' = [job EXCEPT ![j] = IF SlotFree THEN "running" ELSE "queued"]
         /\ jobs' = jobs \cup {j} /\ started' = [started EXCEPT ![m] = Append(@, j)]
    /\ next' = [next EXCEPT ![m] = @ + 1] /\ pc' = [pc EXCEPT ![m] = "loop"]
    /\ UNCHANGED <<ending, swept, done, reply, stopped>>

\* The delegate is forked, and takes a slot or queues for one. A cancel
\* that came meanwhile did not see it.
Asked(m) ==
    /\ pc[m] = "ask"
    /\ LET j == <<m, next[m]>> IN
         /\ job' = [job EXCEPT ![j] = IF stopped THEN "cancelled" ELSE IF SlotFree THEN "running" ELSE "queued"]
         /\ ending' = IF stopped /\ SlotFree THEN ending \cup {j} ELSE ending
         /\ jobs' = jobs \cup {j} /\ started' = [started EXCEPT ![m] = Append(@, j)]
    /\ next' = [next EXCEPT ![m] = @ + 1] /\ pc' = [pc EXCEPT ![m] = "loop"]
    /\ UNCHANGED <<swept, done, reply, stopped>>

\* A fork refused: the call throws, and forgets the delegates it asked.
AskThrows(m) ==
    /\ pc[m] = "ask" /\ pc' = [pc EXCEPT ![m] = "threw"] /\ jobs' = jobs \ Mine(m)
    /\ UNCHANGED <<started, next, job, ending, swept, done, reply, stopped>>

Starts(j) ==
    /\ job[j] = "queued" /\ Cardinality(Running) < Slots
    /\ job' = [job EXCEPT ![j] = "running"]
    /\ UNCHANGED <<pc, started, next, ending, swept, done, reply, jobs, stopped>>

\* TaskRun.run ends: the helper settled the task, asked, failed, or was
\* stopped; a stop that came after it settled the task changes nothing. What
\* a map has returned is a copy.
Runs(j) ==
    /\ job[j] = "running" \/ j \in ending
    /\ ending' = ending \ {j} /\ done' = done \cup {j}
    /\ \E r \in {"success", "failed"} \cup (IF j \in ending THEN {"cancelled"} ELSE {}) :
         reply' = IF pc[j[1]] = "returned" THEN reply ELSE [reply EXCEPT ![j] = r]
    /\ job' = IF job[j] = "running" THEN [job EXCEPT ![j] = "landing"] ELSE job
    /\ UNCHANGED <<pc, started, next, swept, jobs, stopped>>

\* An answer is recorded, whether or not the work landed.
Lands(j) ==
    /\ job[j] = "landing" /\ job' = [job EXCEPT ![j] = "answered"]
    /\ UNCHANGED <<pc, started, next, ending, swept, done, reply, jobs, stopped>>

\* A sweep marks what has settled expired, and puts it back if its delete
\* fails.
Sweeps(j) ==
    /\ "sweep" \in MapOps /\ job[j] \in {"answered", "cancelled"} /\ j \notin ending
    /\ swept' = IF j \in swept THEN swept \ {j} ELSE swept \cup {j}
    /\ UNCHANGED <<pc, started, next, job, ending, done, reply, jobs, stopped>>

\* A job is cancelled at once, its run stops after; of one that is landing a
\* cancel wins or finds it answering.
Stops(j) == job[j] \in {"queued", "running"}
CancelJobs(set) ==
    \E late \in SUBSET {j \in set : job[j] = "landing"} :
        /\ job' = [j \in Job |-> IF j \in late \/ (j \in set /\ Stops(j)) THEN "cancelled" ELSE job[j]]
        /\ ending' = ending \cup {j \in set : job[j] = "running"}

CancelTurn ==
    /\ "turn" \in MapOps /\ ~stopped /\ stopped' = TRUE
    /\ CancelJobs(jobs)
    /\ UNCHANGED <<pc, started, next, swept, done, reply, jobs>>

\* Someone stops one delegate, listed with the world's others.
CancelOne ==
    /\ "one" \in MapOps
    /\ \E j \in Job : CancelJobs({j})
    /\ UNCHANGED <<pc, started, next, swept, done, reply, jobs, stopped>>

\* A cancelled job's call is cancelled; one whose answer cannot be read is no
\* success.
ReplyOf(j) ==
    IF j \in swept THEN IF reply[j] = "success" THEN "failed" ELSE reply[j]
    ELSE IF job[j] = "cancelled" THEN "cancelled" ELSE reply[j]

\* Each reply once its job has settled, in the order they were asked.
Collect(m) ==
    /\ pc[m] = "loop" /\ next[m] > Items
    /\ LET j == started[m][next[m] - Items] IN
         /\ job[j] \in {"cancelled", "answered"}
         /\ reply' = [reply EXCEPT ![j] = ReplyOf(j)]
    /\ Onward(m)
    /\ UNCHANGED <<started, job, ending, swept, done, stopped>>

Helper == \E j \in Job : Starts(j) \/ Runs(j) \/ Lands(j) \/ Sweeps(j)
MNext ==
    \/ \E m \in Maps : Call(m) \/ Skip(m) \/ AskFor(m) \/ Asked(m) \/ AskThrows(m) \/ Collect(m)
    \/ Helper \/ CancelTurn \/ CancelOne
MSpec == MInit /\ [][MNext]_mvars

-----------------------------------------------------------------------------
JobStates == {"new", "queued", "running", "landing", "answered", "cancelled"}
MTypeOK ==
    /\ pc \in [Maps -> {"off", "loop", "ask", "returned", "threw"}]
    /\ started \in [Maps -> Seq(Job)] /\ next \in [Maps -> Nat \ {0}]
    /\ job \in [Job -> JobStates]
    /\ ending \subseteq Job /\ swept \subseteq Job /\ done \subseteq Job /\ jobs \subseteq Job
    /\ reply \in [Job -> {"never ran", "success", "failed", "cancelled"}]
    /\ stopped \in BOOLEAN

\* At most MaxParallel of a map's helpers run at once, in whatever order they
\* end (code-tasks.ts:482-497).
ParallelBounded ==
    \A m \in Maps : Cardinality({j \in Job : j[1] = m /\ job[j] \in {"queued", "running"}}) <= MaxParallel

\* A map that returns has a reply of each call: a success only of a helper
\* that ran to its end, and of one that was cancelled only if it ended after
\* its reply was collected; "cancelled" only of one that was cancelled or
\* never asked; "never ran" only of one that never did (cancelled first, and
\* swept before its reply was collected); and of one that answered what it
\* answered (code-tasks.ts:505-545).
RepliesTrue ==
    \A m \in Maps : pc[m] = "returned" => \A i \in 1 .. Items :
      LET j == <<m, i>> IN
      /\ job[j] \in {"new", "answered", "cancelled"}
      /\ reply[j] = "success" => j \in done /\ job[j] # "new"
      /\ reply[j] = "cancelled" => job[j] \in {"cancelled", "new"}
      /\ reply[j] = "never ran" => job[j] = "cancelled" /\ j \notin done
      /\ job[j] = "answered" => reply[j] \in {"success", "failed"}

\* A helper asked while its code was being stopped does not run on: once the
\* turn is cancelled, and no map begun since, no helper of a map starts
\* unless it is asked after (code-tasks.ts:505-506).
StopsAll == stopped => \A j \in Job : ~(job[j] \in {"queued", "running"} /\ j \in jobs)

\* A map runs no more at once than it may, replies with what became of each
\* item, and once stopped stops all it started (code-tasks.ts:482-546).
MapsTrue == MTypeOK /\ ParallelBounded /\ RepliesTrue /\ StopsAll
=============================================================================
