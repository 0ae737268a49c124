------------------------------- MODULE MCLive -------------------------------
(* Liveness, on instances for TLC: a store's handles beside a sweep, the    *)
(* hosts of one database, a workspace's calls and turns, its kernel, an     *)
(* agent's turn and the maps of its code. One run explores each by itself:  *)
(* the initial states choose which one moves, and the others rest.          *)
EXTENDS WorldKernel, FiniteSets

CONSTANTS Nil, w1, w2, b1, x, h1, h2, q, f

VARIABLES part,
    \* KvGC
    stored, items, marker, head, prev, lease, lapsed, minted, parents, tree, anc, known, dropped,
    phase, cut, todo, gray, black, keep, stale, gone, goneItems,
    pc, op, br, tb, base, ours, merged, theirs, exp, draft, seen,
    \* KvHost
    role, holder, newest, left, closing, chain, lock, grants, net, call, runs, crashes,
    \* WorldTurns
    branch, at, pending, closed, autocommit, queue, active, turn, current, waiting, handed,
    recording, notes, writes, calls, folds, others, settled, tardy,
    \* AgexMap
    mpc, started, next, job, ending, swept, done, reply, jobs, stopped,
    \* AgexTurn
    record, anchors, loop, aborted, tool, result, plane, nudged, turns, begun, deaths

gc == <<stored, items, marker, head, prev, lease, lapsed, minted, parents, tree, anc, known, dropped,
        phase, cut, todo, gray, black, keep, stale, gone, goneItems,
        pc, op, br, tb, base, ours, merged, theirs, exp, draft, seen>>
hosts == <<role, holder, newest, left, closing, chain, lock, grants, net, call, runs, crashes>>
world == <<branch, at, pending, closed, autocommit, queue, active, turn, current, waiting, handed,
           recording, notes, writes, calls, folds, others, settled, tardy>>
maps == <<mpc, started, next, job, ending, swept, done, reply, jobs, stopped>>
agent == <<record, anchors, loop, aborted, tool, result, plane, nudged, turns, begun, deaths>>
vars == <<part, gc, hosts, world, kvars, maps, agent>>

Writers == {w1, w2}
Hosts == {h1, h2}
Calls == {q, f}

Gc == INSTANCE KvGC WITH
    Branches <- {b1}, Items <- {x}, MaxCommits <- 3, MaxSweeps <- 1,
    Ops <- {"commit", "raise", "crash"}, KeepYoung <- FALSE, Overrun <- FALSE, PinSources <- TRUE

Host == INSTANCE KvHost WITH
    RetrySafe <- {f}, OpenFails <- TRUE, MaxCrashes <- 1, None <- Nil, gone <- left

Turn == INSTANCE WorldTurns WITH
    Kinds <- {"code", "checkout", "close"}, Within <- {"commit"}, Autocommit <- {TRUE}, Turns <- {1, 2},
    MaxCalls <- 2, MaxWrites <- 2, MaxNotes <- 0, MaxFolds <- 0, MaxOthers <- 1, MaxAttempts <- 2,
    None <- Nil, base <- at

\* The kernel's code calls its files and a host object, and leaves a timer
\* behind; or it imports a module, and code left behind may import it too.
Imports == INSTANCE WorldKernel WITH Targets <- {"resolve"}, MaxLate <- 1, HostTime <- 0

\* One map, of more items than run at once.
Map == INSTANCE AgexMap WITH
    Maps <- {1}, Items <- 3, MaxParallel <- 2, Slots <- 2, MapOps <- {"turn", "one"}, pc <- mpc

Agent == INSTANCE AgexTurn WITH
    MaxSteps <- 3, MaxToolCalls <- 1, NoLimit <- Nil, CallsPer <- 2, WideTo <- 1, MaxSums <- 0,
    Nudges <- 1, MaxTurns <- 1, MaxCrashes <- 0, Ops <- {"cancel", "flaky", "broken"},
    stored <- record, folds <- anchors, turn <- loop, taken <- turns, crashes <- deaths

-----------------------------------------------------------------------------
Init ==
    /\ part \in {"gc", "hosts", "world", "code", "imports", "maps", "agent"}
    /\ Gc!Init /\ Host!Init /\ Turn!Init /\ KInit /\ Map!MInit
    /\ Agent!Init /\ (part # "agent" => plane.now = "none")

InGc(a) == part = "gc" /\ a /\ UNCHANGED <<part, hosts, world, kvars, maps, agent>>
InHosts(a) == part = "hosts" /\ a /\ UNCHANGED <<part, gc, world, kvars, maps, agent>>
InWorld(a) == part = "world" /\ a /\ UNCHANGED <<part, gc, hosts, kvars, maps, agent>>
InCode(a) == part = "code" /\ a /\ UNCHANGED <<part, gc, hosts, world, maps, agent>>
InImports(a) == part = "imports" /\ a /\ UNCHANGED <<part, gc, hosts, world, maps, agent>>
InMaps(a) == part = "maps" /\ a /\ UNCHANGED <<part, gc, hosts, world, kvars, agent>>
InAgent(a) == part = "agent" /\ a /\ UNCHANGED <<part, gc, hosts, world, kvars, maps>>

Next ==
    \/ InGc(Gc!Next) \/ InHosts(Host!Next) \/ InWorld(Turn!Next)
    \/ InCode(KNext) \/ InImports(Imports!KNext)
    \/ InMaps(Map!MNext) \/ InAgent(Agent!Next)

Spec == Init /\ [][Next]_vars

-----------------------------------------------------------------------------
(* Fairness. As `part` never changes, a condition on one action of each     *)
(* part is the condition on each of them.                                   *)
(*   gc: each handle's pending awaits settle, a sweep that has not died     *)
(*     goes on, and wall time passes.                                       *)
(*   hosts: the lock is granted to the next in its queue, the holder's      *)
(*     tasks end, a message posted to a live host arrives, timers fire.     *)
(*   world: the calls' own steps are taken, and code ends.                  *)
(*   code, imports: messages arrive, files answer, workers start or fail,   *)
(*     time passes; code may run for ever, a host object never return.      *)
(*   maps: the loop goes on, a delegate started ends, and lands.            *)
(*   agent: the model and the tools answer, or are stopped.                 *)
(* Nobody has to connect, call, close, cancel, be killed or begin a turn.   *)

Fairness ==
    /\ WF_vars(InGc(Gc!Step(w1)) \/ InHosts(Host!Works(h1)) \/ InWorld(Turn!Running)
               \/ InCode(HostSteps) \/ InImports(Imports!HostSteps)
               \/ InMaps(Map!Skip(1) \/ Map!AskFor(1) \/ Map!Asked(1)) \/ InAgent(Agent!Works))
    /\ WF_vars(InGc(Gc!Step(w2)) \/ InHosts(Host!Works(h2)) \/ InWorld(Turn!CodeEnd)
               \/ InCode(TimedOut) \/ InImports(Imports!TimedOut) \/ InMaps(Map!Collect(1)))
    /\ WF_vars(InGc(Gc!Sweep /\ phase # "off") \/ InHosts(Host!Shutdown(h1))
               \/ InWorld(Turn!Call("write", "run") /\ Turn!Write)
               \/ InCode(Tick) \/ InImports(Imports!Tick) \/ InMaps(Map!Starts(<<1, 1>>)))
    /\ WF_vars(InGc(Gc!LeaseLapses) \/ InHosts(Host!Shutdown(h2))
               \/ InWorld(\E t \in {1, 2} : Turn!Resumed(t))
               \/ InCode(Hear(1)) \/ InImports(Imports!Hear(1)) \/ InMaps(Map!Starts(<<1, 2>>)))
    /\ WF_vars(InHosts(Host!SeekHolder(h1)) \/ InCode(Hear(2)) \/ InImports(Imports!Hear(2))
               \/ InMaps(Map!Starts(<<1, 3>>)))
    /\ WF_vars(InHosts(Host!SeekHolder(h2)) \/ InCode(Listen(1)) \/ InImports(Imports!Listen(1))
               \/ InMaps(Map!Runs(<<1, 1>>)))
    /\ WF_vars(InHosts(Host!Receive(h1, h2)) \/ InCode(Listen(2)) \/ InImports(Imports!Listen(2))
               \/ InMaps(Map!Runs(<<1, 2>>)))
    /\ WF_vars(InHosts(Host!Receive(h2, h1)) \/ InMaps(Map!Runs(<<1, 3>>))
               \/ InCode(\E c \in taken : c.target # "host" /\ Answer(c))
               \/ InImports(\E c \in taken : Imports!Answer(c)))
    /\ WF_vars(InHosts(Host!Lose(q)) \/ InMaps(Map!Lands(<<1, 1>>)))
    /\ WF_vars(InHosts(Host!Lose(f)) \/ InMaps(Map!Lands(<<1, 2>>)))
    /\ WF_vars(InMaps(Map!Lands(<<1, 3>>)))

FairSpec == Spec /\ Fairness

-----------------------------------------------------------------------------
(* Properties. What is said of a state here is said of one that comes again *)
(* and again: of P ~> Q where Q holds whenever P does not, the same.        *)

\* A sweep delays a call by at most its lease: every call on a handle comes
\* back, whether the sweep beside it ends, throws or dies holding the lease.
\* At the bound on commits no batch can land, and the question is void.
CallsReturn == \A w \in Writers : []<>(pc[w] = "idle" \/ minted = 3)

\* A call kept back although the holder is known: one a refusal that came
\* late left behind.
Stranded(c) == call[c].st = "unsent" /\ holder[call[c].at] # Nil

\* Every host in the end knows the holder, the one at the head of the lock's
\* queue (host.ts, #seekHolder). A call is answered, or fails, as long as its
\* tab lives: a holder's closing or dying never leaves it waiting for good
\* (host.ts:16-24), unless a late refusal stranded it.
HostsServe ==
    /\ \A h \in Hosts : <>[](Host!Live(h) => holder[h] = Head(lock))
    /\ \A c \in Calls : []<>(call[c].st \notin Host!Pending \/ Stranded(c))

\* Every turn that is ending ends (turns.ts, end), and the queue of calls
\* drains (queue.ts). A run in progress has a worker it will hear of, or is
\* stopped by its time: it ends, however the worker or the code fares
\* (kernel.ts, run).
WorldProgress ==
    /\ \A t \in {1, 2} : []<>(turn[t].phase # "ending")
    /\ []<>(Turn!Idle /\ queue = <<>>)
    /\ []<>(stage = "idle")

\* A map of the code's returns, or throws, whatever is cancelled
\* (code-tasks.ts:508-510). An agent's turn ends: whatever the model goes on
\* calling, however its requests fail, and a stop waits no longer than the
\* call it cut off (agent.ts:644, 869-881).
AgentProgress ==
    /\ []<>(mpc[1] \in {"off", "returned", "threw"})
    /\ []<>(loop.pc = "idle")
=============================================================================
