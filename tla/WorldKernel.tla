--------------------------- MODULE WorldKernel ---------------------------
(* A session's kernel (world/src/kernel/kernel.ts): code run in a worker,   *)
(* one run at a time, and the worker itself (worker-core.ts), over the      *)
(* messages of messages.ts.                                                 *)
(*                                                                          *)
(* A worker serves many runs, and starts afresh after one that was stopped. *)
(* Code calls the host by message. What a run left behind in its worker       *)
(* goes on: a timer of an earlier run calls during a later one, and call    *)
(* numbers start over with each run. Time is counted in ticks: the code's   *)
(* own, and the time it waits for host objects, which stops its clock up to *)
(* a cap.                                                                   *)
EXTENDS Naturals, Sequences

CONSTANTS
    Workers,                \* 1 .. the workers booted
    MaxRuns,                \* the runs made
    Targets,                \* what code calls: "fs", "host"; and imports: "resolve"
    PerRun,                 \* the calls of a run
    MaxLate,                \* the calls of code that runs left behind
    Timeout, HostTime       \* in ticks

ASSUME KernelAssumption ==
    /\ Workers \subseteq Nat \ {0} /\ MaxRuns \in Nat
    /\ PerRun \in Nat /\ MaxLate \in Nat /\ Timeout \in Nat /\ HostTime \in Nat

VARIABLES
    kclosed,
    worker, booting,        \* the kernel's worker, and the one starting
    proc,                   \* each worker: none, booting, up, dead
    down, up,               \* messages to the host, and to the worker
    run, stage, mine,       \* the host's run, how far it is, its worker
    taken,                  \* the calls the host is answering
    used, hostUsed, spent,  \* the run's clock
    cur, unanswered, asked, \* each worker's run, its unanswered calls, each run's calls
    behind, late,           \* runs that left code behind, and the calls it made
    load, joined,           \* an import each worker keeps, and who awaits it
    applied, got, elapsed   \* file calls done; answers got; the run's ticks

host == <<kclosed, worker, booting, run, stage, mine, taken, used, hostUsed, spent, applied, elapsed>>
code == <<cur, unanswered, asked, behind, late, load, joined, got>>
kvars == <<host, proc, down, up, code>>

Nobody == 0
Runs == 1 .. MaxRuns
\* What a worker keeps of an import besides the run that asked the host for
\* it: that code left behind asked, that it is being loaded, that it is loaded.
Astray == MaxRuns + 1
Loading == MaxRuns + 2
Loaded == MaxRuns + 3

KInit ==
    /\ kclosed = FALSE /\ worker = Nobody /\ booting = Nobody
    /\ proc = [g \in Workers |-> "none"]
    /\ down = [g \in Workers |-> <<>>] /\ up = [g \in Workers |-> <<>>]
    /\ run = Nobody /\ stage = "idle" /\ mine = Nobody /\ taken = {}
    /\ used = 0 /\ hostUsed = 0 /\ spent = FALSE /\ elapsed = 0
    /\ cur = [g \in Workers |-> Nobody] /\ unanswered = [g \in Workers |-> {}]
    /\ asked = [r \in Runs |-> 0]
    /\ behind = [g \in Workers |-> {}] /\ late = 0
    /\ load = [g \in Workers |-> Nobody] /\ joined = [g \in Workers |-> {}]
    /\ applied = {} /\ got = {}

Tell(g, msg) == up' = IF proc[g] = "up" THEN [up EXCEPT ![g] = Append(@, msg)] ELSE up
Say(g, msg) == down' = [down EXCEPT ![g] = Append(@, msg)]
clock == <<used, hostUsed, spent, elapsed>>

---------------------------------------------------------------------------
(* The host's run: prepared, started, posted. *)

BeginRun ==
    /\ stage = "idle" /\ run + 1 \in Runs
    /\ run' = run + 1
    /\ stage' = IF kclosed THEN "idle" ELSE "preparing"
    /\ UNCHANGED <<kclosed, worker, booting, mine, taken, clock, applied, proc, down, up, code>>

(* Transforming the code and compiling the modules it imports, which fails  *)
(* for code that doesn't parse. A worker is started when there is none.     *)
Prepared(ok) ==
    /\ stage = "preparing"
    /\ \/ ~ok /\ stage' = "idle" /\ UNCHANGED <<booting, proc, mine>>
       \/ ok /\ worker # Nobody /\ stage' = "starting" /\ mine' = worker /\ UNCHANGED <<booting, proc>>
       \/ /\ ok /\ worker = Nobody
          /\ \E g \in Workers :
                /\ proc[g] = "none" /\ \A h \in Workers : h < g => proc[h] # "none"
                /\ booting' = g /\ proc' = [proc EXCEPT ![g] = "booting"]
          /\ mine' = Nobody /\ stage' = "starting"
    /\ UNCHANGED <<kclosed, worker, run, taken, clock, applied, down, up, code>>

(* A worker killed while it was starting is terminated once it has. *)
Booted(g) ==
    /\ proc[g] = "booting"
    /\ IF booting = g
       THEN /\ worker' = g /\ booting' = Nobody /\ mine' = g
            /\ proc' = [proc EXCEPT ![g] = "up"]
            /\ UNCHANGED stage
       ELSE /\ proc' = [proc EXCEPT ![g] = "dead"]
            /\ stage' = "idle"
            /\ UNCHANGED <<worker, booting, mine>>
    /\ UNCHANGED <<kclosed, run, taken, clock, applied, down, up, code>>

\* Mutant: the run waits on for a worker that failed to start.
BootFailedQuiet(g) ==
    /\ proc[g] = "booting"
    /\ proc' = [proc EXCEPT ![g] = "dead"]
    /\ booting' = IF booting = g THEN Nobody ELSE booting
    /\ UNCHANGED <<kclosed, worker, run, stage, mine, taken, clock, applied, down, up, code>>

BootFailed(g) ==
    /\ proc[g] = "booting"
    /\ proc' = [proc EXCEPT ![g] = "dead"]
    /\ booting' = IF booting = g THEN Nobody ELSE booting
    /\ stage' = "idle"
    /\ UNCHANGED <<kclosed, worker, run, mine, taken, clock, applied, down, up, code>>

Posted ==
    /\ stage = "starting" /\ mine # Nobody
    /\ IF kclosed THEN stage' = "idle" /\ UNCHANGED up
       ELSE stage' = "running" /\ Tell(mine, [type |-> "run", run |-> run])
    /\ used' = 0 /\ hostUsed' = 0 /\ spent' = (HostTime = 0) /\ elapsed' = 0
    /\ UNCHANGED <<kclosed, worker, booting, run, mine, taken, applied, proc, down, code>>

---------------------------------------------------------------------------
(* Ways a run stops: its worker is killed with it. *)

Kill ==
    /\ worker' = Nobody /\ booting' = Nobody
    /\ proc' = IF worker = Nobody THEN proc ELSE [proc EXCEPT ![worker] = "dead"]
    /\ up' = IF worker = Nobody THEN up ELSE [up EXCEPT ![worker] = <<>>]
    /\ down' = IF worker = Nobody THEN down ELSE [down EXCEPT ![worker] = <<>>]

EndRun == stage' = IF stage = "running" THEN "ending" ELSE stage
spared == <<run, mine, taken, clock, applied, code>>

Interrupt ==
    /\ stage = "running"
    /\ EndRun /\ Kill
    /\ UNCHANGED <<kclosed, spared>>

Due == IF spent \/ ~(\E c \in taken : c.run = run /\ c.target = "host")
       THEN used >= Timeout ELSE FALSE

TimedOut ==
    /\ stage = "running" /\ Due
    /\ EndRun /\ Kill
    /\ UNCHANGED <<kclosed, spared>>

(* A worker that fails between runs is started afresh by the next. *)
Died(g) ==
    /\ proc[g] = "up" /\ worker = g
    /\ Kill
    /\ IF mine = g THEN EndRun ELSE UNCHANGED stage
    /\ UNCHANGED <<kclosed, spared>>

Close ==
    /\ ~kclosed /\ kclosed' = TRUE
    /\ EndRun /\ Kill
    /\ UNCHANGED spared

---------------------------------------------------------------------------
(* The clock: the code's own time, and a host object's while one is called, *)
(* until all of that is spent.                                              *)

Hosting == {c \in taken : c.run = run /\ c.target = "host"}

Tick ==
    /\ stage = "running" /\ ~Due
    /\ elapsed' = elapsed + 1
    /\ IF Hosting # {} /\ ~spent
       THEN /\ hostUsed' = hostUsed + 1
            /\ spent' = (hostUsed + 1 >= HostTime)
            /\ UNCHANGED used
       ELSE used' = used + 1 /\ UNCHANGED <<hostUsed, spent>>
    /\ UNCHANGED <<kclosed, worker, booting, run, stage, mine, taken, applied, proc, down, up, code>>

---------------------------------------------------------------------------
(* Calls on the host. Messages of another run, or of one that ended, are    *)
(* dropped.                                                                 *)

Heard(g, msg) == stage = "running" /\ mine = g /\ msg.run = run

Hear(g) ==
    /\ down[g] # <<>>
    /\ down' = [down EXCEPT ![g] = Tail(@)]
    /\ LET msg == Head(down[g])
       IN  IF ~Heard(g, msg) THEN UNCHANGED <<taken, stage>>
           ELSE IF msg.type = "done" THEN stage' = "ending" /\ UNCHANGED taken
           ELSE taken' = taken \cup {[run |-> msg.run, during |-> run, call |-> msg.call,
                                      target |-> msg.target, worker |-> g]}
                /\ UNCHANGED stage
    /\ UNCHANGED <<kclosed, worker, booting, run, mine, clock, applied, proc, up, code>>

(* A call is answered, with a value or an error, unless its worker is gone. *)
Answer(c) ==
    /\ c \in taken
    /\ taken' = taken \ {c}
    /\ applied' = IF c.target = "fs" THEN applied \cup {c} ELSE applied
    /\ IF worker = c.worker
       THEN Tell(c.worker, [type |-> "reply", run |-> c.run, call |-> c.call])
       ELSE UNCHANGED up
    /\ UNCHANGED <<kclosed, worker, booting, run, stage, mine, clock, proc, down, code>>

\* Mutant: a run that was stopped waits for nothing.
OwedNone == {}

(* The calls the host took land before the run's output is given. A host    *)
(* object's are not waited for.                                             *)
Owed == {c \in taken : c.during = run /\ c.target # "host"}

Resolve ==
    /\ stage = "ending" /\ Owed = {}
    /\ stage' = "idle"
    /\ UNCHANGED <<kclosed, worker, booting, run, mine, taken, clock, applied, proc, down, up, code>>

---------------------------------------------------------------------------
(* The worker *)

Up(g) == proc[g] = "up"

Answers(g, msg) == cur[g] = msg.run

(* The resolver's answer to an import is a URL, which is loaded next, or    *)
(* that there is none, and the import has failed.                           *)
Resolved(g, found) ==
    /\ load' = [load EXCEPT ![g] = IF found THEN Loading ELSE Nobody]
    /\ joined' = IF found THEN joined ELSE [joined EXCEPT ![g] = {}]

Listen(g) ==
    /\ Up(g) /\ up[g] # <<>>
    /\ up' = [up EXCEPT ![g] = Tail(@)]
    /\ LET msg == Head(up[g])
           mycall == {c \in unanswered[g] : c.call = msg.call}
       IN  CASE msg.type = "run" ->
                    /\ cur' = [cur EXCEPT ![g] = msg.run]
                    /\ unanswered' = [unanswered EXCEPT ![g] = {}]
                    /\ UNCHANGED <<got, load, joined>>
             [] msg.type = "reply" /\ Answers(g, msg) ->
                    /\ unanswered' = [unanswered EXCEPT ![g] = @ \ mycall]
                    /\ got' = got \cup {[run |-> cur[g], of |-> msg.run, call |-> msg.call] : c \in mycall}
                    /\ IF \E c \in mycall : c.target = "resolve"
                       THEN \E found \in BOOLEAN : Resolved(g, found)
                       ELSE UNCHANGED <<load, joined>>
                    /\ UNCHANGED cur
             [] OTHER -> UNCHANGED <<cur, unanswered, got, load, joined>>
    /\ UNCHANGED <<host, proc, down, asked, behind, late>>

CodeCall(g, target) ==
    /\ Up(g) /\ cur[g] # Nobody /\ asked[cur[g]] < PerRun
    /\ target # "resolve"
    /\ LET r == cur[g]
       IN  /\ asked' = [asked EXCEPT ![r] = @ + 1]
           /\ unanswered' = [unanswered EXCEPT ![g] = @ \cup {[call |-> asked[r] + 1, target |-> target]}]
           /\ Say(g, [type |-> "call", run |-> r, call |-> asked[r] + 1, target |-> target])
    /\ UNCHANGED <<host, proc, up, cur, behind, late, load, joined, got>>

(* An import that is kept is joined; one that isn't begins: with the host's  *)
(* resolver, or, of a URL, with the loading itself. The import kept is of   *)
(* any one specifier.                                                       *)
Import(g, url) ==
    /\ "resolve" \in Targets /\ Up(g) /\ cur[g] # Nobody /\ load[g] # Loaded
    /\ cur[g] \notin joined[g]
    /\ joined' = [joined EXCEPT ![g] = @ \cup {cur[g]}]
    /\ LET r == cur[g]
       IN  \/ /\ load[g] # Nobody
              /\ UNCHANGED <<asked, unanswered, load, down>>
           \/ /\ load[g] = Nobody /\ url
              /\ load' = [load EXCEPT ![g] = Loading]
              /\ UNCHANGED <<asked, unanswered, down>>
           \/ /\ load[g] = Nobody /\ ~url /\ asked[r] < PerRun
              /\ asked' = [asked EXCEPT ![r] = @ + 1]
              /\ unanswered' = [unanswered EXCEPT ![g] = @ \cup {[call |-> asked[r] + 1, target |-> "resolve"]}]
              /\ load' = [load EXCEPT ![g] = r]
              /\ Say(g, [type |-> "call", run |-> r, call |-> asked[r] + 1, target |-> "resolve"])
    /\ UNCHANGED <<host, proc, up, cur, behind, late, got>>

(* A module loads, for the worker's life, or fails to and is not kept,      *)
(* whichever run is in progress by then, or none.                           *)
LoadModule(g, ok) ==
    /\ Up(g) /\ load[g] = Loading
    /\ load' = [load EXCEPT ![g] = IF ok THEN Loaded ELSE Nobody]
    /\ joined' = [joined EXCEPT ![g] = {}]
    /\ UNCHANGED <<host, proc, down, up, cur, unanswered, asked, behind, late, got>>

\* Mutant: an import the run leaves unanswered is kept for the next.
CodeDoneKeeps(g) ==
    /\ Up(g) /\ cur[g] # Nobody
    /\ cur' = [cur EXCEPT ![g] = Nobody]
    /\ unanswered' = [unanswered EXCEPT ![g] = {}]
    /\ joined' = [joined EXCEPT ![g] = {}]
    /\ behind' = [behind EXCEPT ![g] = @ \cup {cur[g]}]
    /\ Say(g, [type |-> "done", run |-> cur[g]])
    /\ UNCHANGED <<host, proc, up, asked, late, load, got>>

(* Code returns or throws; its unanswered calls are abandoned, and an import *)
(* among them is asked for again by the next; one that is loading goes on.  *)
(* A timer the code left keeps calling, and importing.                      *)
CodeDone(g) ==
    /\ Up(g) /\ cur[g] # Nobody
    /\ cur' = [cur EXCEPT ![g] = Nobody]
    /\ unanswered' = [unanswered EXCEPT ![g] = {}]
    /\ joined' = [joined EXCEPT ![g] = {}]
    /\ load' = IF \E c \in unanswered[g] : c.target = "resolve"
               THEN [load EXCEPT ![g] = Nobody] ELSE load
    /\ behind' = [behind EXCEPT ![g] = @ \cup {cur[g]}]
    /\ Say(g, [type |-> "done", run |-> cur[g]])
    /\ UNCHANGED <<host, proc, up, asked, late, got>>

LateCall(g, r, target) ==
    /\ Up(g) /\ r \in behind[g] /\ late < MaxLate
    /\ late' = late + 1
    /\ IF target = "resolve"
       THEN load[g] = Nobody /\ load' = [load EXCEPT ![g] = Astray]
       ELSE UNCHANGED load
    /\ asked' = [asked EXCEPT ![r] = @ + 1]
    /\ Say(g, [type |-> "call", run |-> r, call |-> asked[r] + 1, target |-> target])
    /\ UNCHANGED <<host, proc, up, cur, unanswered, behind, joined, got>>

LateImport(g) ==
    /\ "resolve" \in Targets /\ Up(g) /\ behind[g] # {} /\ late < MaxLate /\ load[g] = Nobody
    /\ late' = late + 1
    /\ load' = [load EXCEPT ![g] = Loading]
    /\ UNCHANGED <<host, proc, down, up, cur, unanswered, asked, behind, joined, got>>

---------------------------------------------------------------------------
HostSteps ==
    \/ \E ok \in BOOLEAN : Prepared(ok)
    \/ Posted \/ Resolve
    \/ \E g \in Workers : Booted(g) \/ BootFailed(g)

KNext ==
    \/ BeginRun \/ HostSteps \/ Interrupt \/ TimedOut \/ Close \/ Tick
    \/ \E g \in Workers :
        \/ Died(g) \/ Hear(g) \/ Listen(g) \/ CodeDone(g) \/ LateImport(g)
        \/ \E b \in BOOLEAN : Import(g, b) \/ LoadModule(g, b)
        \/ \E target \in Targets :
            \/ CodeCall(g, target)
            \/ \E r \in Runs : LateCall(g, r, target)
    \/ \E c \in taken : Answer(c)

KSpec == KInit /\ [][KNext]_kvars

---------------------------------------------------------------------------
KTypeOK ==
    /\ worker \in Workers \cup {Nobody} /\ booting \in Workers \cup {Nobody}
    /\ mine \in Workers \cup {Nobody}
    /\ run \in Runs \cup {Nobody}
    /\ stage \in {"idle", "preparing", "starting", "running", "ending"}
    /\ \A g \in Workers :
        /\ cur[g] \in Runs \cup {Nobody} /\ load[g] \in Runs \cup {Nobody, Astray, Loading, Loaded}
        /\ cur[g] = Nobody => unanswered[g] = {} /\ joined[g] = {}

(* A file call is done in the run that made it, before that run's output is *)
(* given and its changes committed: never by code an earlier run left       *)
(* behind, nor after a stop (kernel.ts, run: answering, and the run's id).  *)
FilesInRun ==
    [][\A c \in applied' \ applied : c.run = run /\ stage \in {"running", "ending"}]_kvars

(* An answer code gets is to the call it made, though call numbers start    *)
(* over with each run of the worker (worker-core.ts, Bridge, bootWorker).   *)
AnswersOwn == \A a \in got : a.run = a.of

(* A run takes no more than its time and its host objects' together         *)
(* (kernel.ts, pause, resume).                                              *)
TimeBounded == stage = "running" => elapsed <= Timeout + HostTime

(* A worker that is up is the kernel's, so none runs on after a stop or a   *)
(* close (kernel.ts, start, kill).                                          *)
NoStrays == \A g \in Workers : proc[g] = "up" => worker = g

(* "Nothing carries over between runs but what the code writes to the files *)
(* or the cache" (worker-core.ts:21): the answer of the host a run awaits   *)
(* for an import is to a call of its own, which the host will take. But     *)
(* what is being loaded carries over, as "a library loads once" (line 270), *)
(* and so does an import code left behind has asked for.                    *)
ImportsOwn == \A g \in Workers : \A r \in joined[g] : load[g] \in {r, Loading, Astray}

(* That a run awaits no import an earlier run asked for: false of one code   *)
(* left behind asked for, whose call the host drops. The run waits for it   *)
(* until it is out of time, and so does every later one of the worker.      *)
ImportsAnswered == \A g \in Workers : \A r \in joined[g] : load[g] \in {r, Loading}

(* No worker outlives its kernel's stop, an answer is to the call made, a   *)
(* run takes no more than its time, an import the host was asked for is the *)
(* run's that awaits it or code's left behind, and files change only within *)
(* the run that calls them (kernel.ts, worker-core.ts).                     *)
KernelTrue == [](KTypeOK /\ AnswersOwn /\ TimeBounded /\ NoStrays /\ ImportsOwn) /\ FilesInRun
=============================================================================
