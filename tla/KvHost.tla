------------------------------- MODULE KvHost -------------------------------
(***************************************************************************)
(* The worker host (kvsql/src/host.ts): one database, one host in each     *)
(* tab's worker, one Web Lock they queue for and one BroadcastChannel they *)
(* talk on.  The host at the head of the lock's queue opens the database   *)
(* and runs every tab's calls; the others forward theirs to it, and hand   *)
(* over when it closes or its tab is killed.                               *)
(*                                                                         *)
(* A handler runs to its first await in one step.  The channel keeps the   *)
(* order of one sender's messages to one receiver and no other: not that   *)
(* of two senders, nor of a message and a lock's grant.  The clock ticks   *)
(* between two grants of the lock, so epochs are the grants counted and no *)
(* two are equal.  A host has one connection and an id of its own.  The    *)
(* order waiting calls are sent in, what a call does, `delete` and `copy`  *)
(* are not modelled.                                                       *)
(***************************************************************************)
EXTENDS Naturals, FiniteSets, Sequences, SequencesExt

CONSTANTS
    Hosts, None,
    Calls,        \* what the tabs' clients call
    RetrySafe,    \* RETRY_SAFE: those that may run twice
    OpenFails,    \* whether the database may fail to open
    MaxCrashes    \* bound: tabs killed

ASSUME CallsAssumption == IsFiniteSet(Calls)
ASSUME NoneAssumption == None \notin Hosts
ASSUME RetrySafeAssumption == RetrySafe \subseteq Calls
ASSUME OpenFailsAssumption == OpenFails \in BOOLEAN
ASSUME CrashesAssumption == MaxCrashes \in Nat

VARIABLES
    \* Each host: #role, #holder, #newest (its epoch), #gone, and how far its
    \* connection is with closing ("stopping" is #stopping).
    role, holder, newest, gone, closing,
    chain,        \* #chain of each host: the tasks the holder runs in order
    lock,         \* the Web Lock's queue: its head has the lock
    grants,       \* how often the lock was granted: the clock
    net,          \* net[a][b]: the messages of a that b has yet to receive
    call,         \* each call: where it is, who asked, whom it was sent to
    runs,         \* how often each call ran
    crashes

hostVars == <<role, holder, newest, gone, closing>>
callVars == <<call, runs>>
vars == <<hostVars, chain, lock, grants, net, callVars, crashes>>

Pending == {"unsent", "sent", "doubted", "here"}
Outcomes == {"answered", "failed", "lost"}

Live(h) == role[h] \in {"connecting", "forwarding", "opening", "holder", "failed"}
Holding(h) == role[h] \in {"opening", "holder", "failed"}
Peers(h) == {p \in Hosts \ {h} : Live(p)}
PendingOf(h) == {c \in Calls : call[c].at = h /\ call[c].st \in Pending}
Unsent(h) == {c \in Calls : call[c].at = h /\ call[c].st = "unsent"}
\* #inflight; a "doubted" call is one whose grace (LOST_GRACE_MS) runs.
Inflight(h) == {c \in Calls : call[c].at = h /\ call[c].st \in {"sent", "doubted"}}

Init ==
    /\ role = [h \in Hosts |-> "off"] /\ holder = [h \in Hosts |-> None]
    /\ newest = [h \in Hosts |-> 0] /\ gone = [h \in Hosts |-> {}]
    /\ closing = [h \in Hosts |-> "no"]
    /\ chain = [h \in Hosts |-> <<>>]
    /\ lock = <<>> /\ grants = 0
    /\ net = [a \in Hosts |-> [b \in Hosts |-> <<>>]]
    /\ call = [c \in Calls |-> [st |-> "new", at |-> None, to |-> None]]
    /\ runs = [c \in Calls |-> 0]
    /\ crashes = 0

-----------------------------------------------------------------------------
(* The channel.                                                            *)

Hello == [t |-> "hello"]
Released == [t |-> "released"]

Announce(epoch) == [t |-> "holder", epoch |-> epoch]

Request(c) == [t |-> "request", c |-> c]
Response(c, st) == [t |-> "response", c |-> c, st |-> st]

\* #post: each live host but the sender gets the message.
Broadcast(n, h, m) ==
    [n EXCEPT ![h] = [b \in Hosts |-> IF b \in Peers(h) THEN Append(@[b], m) ELSE @[b]]]

\* A request or an answer: only the one it names acts on it.
Tell(n, h, b, msgs) ==
    IF b \in Peers(h) THEN [n EXCEPT ![h][b] = @ \o msgs] ELSE n

\* The lock's queue once `x`, if it is there, has left it.
Without(s, x) ==
    LET places == {i \in DOMAIN s : s[i] = x}
        passed(i) == \E j \in places : j <= i
    IN  [i \in 1 .. (IF places = {} THEN Len(s) ELSE Len(s) - 1) |->
            IF passed(i) THEN s[i + 1] ELSE s[i]]

\* A closed channel receives nothing more.
Deaf(n, h) == [a \in Hosts |-> [n[a] EXCEPT ![h] = <<>>]]

-----------------------------------------------------------------------------
(* The holder becomes known.                                               *)

\* The calls h sent to another than w and has no answer to: #setHolder sends
\* those safe to run twice again, and doubts the others.
Elsewhere(h, w) == {c \in Inflight(h) : call[c].to # w}

\* Mutant: the others are sent again too.
ResendAll(h, w) == Elsewhere(h, w)

Resend(h, w) == Elsewhere(h, w) \cap RetrySafe

\* #setHolder(worker), for the calls: those that wait go to w, or on h's own
\* chain if w is h.
Reroute(h, w) ==
    LET out == Unsent(h) \cup Resend(h, w) IN
    [c \in Calls |->
        IF c \in out THEN [st |-> IF w = h THEN "here" ELSE "sent", at |-> h, to |-> w]
        ELSE IF c \in Elsewhere(h, w) THEN [call[c] EXCEPT !.st = "doubted"]
        ELSE call[c]]

\* Mutant: the calls that waited are not sent with those sent again.
OutgoingResent(h, w) == SetToSeqs(Resend(h, w))

\* The orders they may go out in.
Outgoing(h, w) == SetToSeqs(Unsent(h) \cup Resend(h, w))

Task(c, from) == [t |-> "call", c |-> c, from |-> from, ran |-> "no"]
Tasks(s, h) == [i \in DOMAIN s |-> Task(s[i], h)]
\* The first task has run, with an outcome.
Ran(s, outcome) ==
    [s EXCEPT ![1] = [t |-> "call", c |-> @.c, from |-> @.from, ran |-> outcome]]
OpenTask == [t |-> "open"]
QuitTask == [t |-> "quit"]

\* The connection is made: the host asks for the holder and queues for the
\* lock.
Start(h) ==
    /\ role[h] = "off"
    /\ role' = [role EXCEPT ![h] = "connecting"]
    /\ lock' = Append(lock, h)
    /\ net' = Broadcast(net, h, Hello)
    /\ UNCHANGED <<holder, newest, gone, closing, chain, grants, callVars, crashes>>

\* #seekHolder's timer; none while a hello or an announcement is on its way,
\* which bounds the hellos.
SeekHolder(h) ==
    /\ Live(h) /\ holder[h] = None /\ ~Holding(h)
    /\ \A p \in Hosts : /\ ~Contains(net[h][p], Hello)
                        /\ \A i \in DOMAIN net[p][h] : net[p][h][i].t # "holder"
    /\ net' = Broadcast(net, h, Hello)
    /\ UNCHANGED <<hostVars, chain, lock, grants, callVars, crashes>>

\* #hold: the lock is h's.  It announces itself, opens the database and runs
\* what waited, here.
Hold(h) ==
    /\ lock # <<>> /\ Head(lock) = h /\ Live(h) /\ ~Holding(h)
    /\ grants' = grants + 1
    /\ role' = [role EXCEPT ![h] = "opening"]
    /\ newest' = [newest EXCEPT ![h] = grants']
    /\ holder' = [holder EXCEPT ![h] = h]
    /\ net' = Broadcast(net, h, Announce(grants'))
    /\ call' = Reroute(h, h)
    /\ \E s \in Outgoing(h, h) :
          chain' = [chain EXCEPT ![h] = <<OpenTask>> \o Tasks(s, h)]
    /\ UNCHANGED <<gone, closing, lock, runs, crashes>>

\* #open ends: the database is open, or the host holds the lock and answers
\* with the error.
Open(h) ==
    /\ chain[h] # <<>> /\ Head(chain[h]) = OpenTask
    /\ \/ role' = [role EXCEPT ![h] = "holder"]
       \/ OpenFails /\ role' = [role EXCEPT ![h] = "failed"]
    /\ chain' = [chain EXCEPT ![h] = Tail(@)]
    /\ UNCHANGED <<holder, newest, gone, closing, lock, grants, net, callVars, crashes>>

-----------------------------------------------------------------------------
(* A call.                                                                 *)

\* #onPort, #route: run it here, send it to the holder or keep it for one.
Ask(h, c) ==
    /\ Live(h) /\ closing[h] = "no" /\ call[c].st = "new"
    /\ IF Holding(h)
       THEN /\ call' = [call EXCEPT ![c] = [st |-> "here", at |-> h, to |-> h]]
            /\ chain' = [chain EXCEPT ![h] = Append(@, Task(c, h))]
            /\ UNCHANGED net
       ELSE IF holder[h] # None
       THEN /\ call' = [call EXCEPT ![c] = [st |-> "sent", at |-> h, to |-> holder[h]]]
            /\ net' = Tell(net, h, holder[h], <<Request(c)>>)
            /\ UNCHANGED chain
       ELSE /\ call' = [call EXCEPT ![c] = [st |-> "unsent", at |-> h, to |-> None]]
            /\ UNCHANGED <<chain, net>>
    /\ UNCHANGED <<hostVars, lock, grants, runs, crashes>>

\* #perform: the database runs it and commits, or refuses it.
Perform(h) ==
    LET task == Head(chain[h]) IN
    /\ chain[h] # <<>> /\ task.t = "call" /\ task.ran = "no"
    /\ IF role[h] = "failed"
       THEN UNCHANGED runs /\ chain' = [chain EXCEPT ![h] = Ran(@, "failed")]
       ELSE /\ runs' = [runs EXCEPT ![task.c] = @ + 1]
            /\ chain' = [chain EXCEPT ![h] = Ran(@, "answered")]
    /\ UNCHANGED <<hostVars, lock, grants, net, call, crashes>>

\* Its outcome goes back: to the tab's own client, or over the channel.
Answer(h) ==
    LET task == Head(chain[h]) IN
    /\ chain[h] # <<>> /\ task.t = "call" /\ task.ran # "no"
    /\ chain' = [chain EXCEPT ![h] = Tail(@)]
    /\ IF task.from = h
       THEN call' = [call EXCEPT ![task.c].st = task.ran] /\ UNCHANGED net
       ELSE net' = Tell(net, h, task.from, <<Response(task.c, task.ran)>>) /\ UNCHANGED call
    /\ UNCHANGED <<hostVars, lock, grants, runs, crashes>>

\* The grace is over: ConnectionLostError.
Lose(c) ==
    /\ call[c].st = "doubted"
    /\ call' = [call EXCEPT ![c].st = "lost"]
    /\ UNCHANGED <<hostVars, chain, lock, grants, net, runs, crashes>>

-----------------------------------------------------------------------------
(* A message is received: `n` is the channel without it.                   *)

\* A host that takes requests and answers hellos.
Serves(h) == Holding(h) /\ closing[h] # "stopping"

OnHello(h, n) ==
    /\ net' = IF Serves(h) THEN Broadcast(n, h, Announce(newest[h])) ELSE n
    /\ UNCHANGED <<hostVars, chain, callVars>>

\* Mutant: any announcement counts.
AcceptsAny(h, from, epoch) == ~Holding(h) /\ from \notin gone[h]

\* #onHolder: an announcement counts if it is newer than the newest, and not
\* from a holder that said it was going.
Accepts(h, from, epoch) == ~Holding(h) /\ from \notin gone[h] /\ epoch > newest[h]

OnHolder(h, from, epoch, n) ==
    \/ /\ ~Accepts(h, from, epoch)
       /\ net' = n
       /\ UNCHANGED <<hostVars, chain, callVars>>
    \/ /\ Accepts(h, from, epoch)
       /\ newest' = [newest EXCEPT ![h] = epoch]
       /\ holder' = [holder EXCEPT ![h] = from]
       /\ role' = [role EXCEPT ![h] = "forwarding"]
       /\ call' = Reroute(h, from)
       /\ \E s \in Outgoing(h, from) :
             net' = Tell(n, h, from, [i \in DOMAIN s |-> Request(s[i])])
       /\ UNCHANGED <<gone, closing, chain, runs>>

\* #onRequest: queued, or refused by a holder that is closing.
OnRequest(h, from, c, n) ==
    /\ IF Serves(h)
       THEN chain' = [chain EXCEPT ![h] = Append(@, Task(c, from))] /\ net' = n
       ELSE net' = Tell(n, h, from, <<Response(c, "retry")>>) /\ UNCHANGED chain
    /\ UNCHANGED <<hostVars, callVars>>

\* The holder is going: the host looks for the next one.
Unknown(h) ==
    /\ holder' = [holder EXCEPT ![h] = None]
    /\ role' = [role EXCEPT ![h] = IF @ = "forwarding" THEN "connecting" ELSE @]

\* #onResponse: an answer counts if the call is out with the one it is from.
OnResponse(h, from, c, st, n) ==
    LET out == c \in Inflight(h) /\ call[c].to = from IN
    /\ net' = n
    /\ IF ~out THEN UNCHANGED <<hostVars, call>>
       ELSE IF st = "retry"
       THEN /\ call' = [call EXCEPT ![c].st = "unsent"]
            /\ gone' = [gone EXCEPT ![h] = @ \cup {from}]
            /\ IF holder[h] = from THEN Unknown(h) ELSE UNCHANGED <<holder, role>>
            /\ UNCHANGED <<newest, closing>>
       ELSE call' = [call EXCEPT ![c].st = st] /\ UNCHANGED hostVars
    /\ UNCHANGED <<chain, runs>>

\* 'released', and #holderReleased: what the holder did not answer never ran.
OnReleased(h, from, n) ==
    /\ net' = n
    /\ gone' = [gone EXCEPT ![h] = @ \cup {from}]
    /\ IF holder[h] = from
       THEN /\ Unknown(h)
            /\ call' = [c \in Calls |-> IF c \in Inflight(h) /\ call[c].to = from
                                        THEN [call[c] EXCEPT !.st = "unsent"] ELSE call[c]]
       ELSE UNCHANGED <<holder, role, call>>
    /\ UNCHANGED <<newest, closing, chain, runs>>

Receive(from, h) ==
    LET m == Head(net[from][h])
        n == [net EXCEPT ![from][h] = Tail(@)] IN
    /\ Live(h) /\ net[from][h] # <<>>
    /\ \/ m.t = "hello" /\ OnHello(h, n)
       \/ m.t = "holder" /\ OnHolder(h, from, m.epoch, n)
       \/ m.t = "request" /\ OnRequest(h, from, m.c, n)
       \/ m.t = "response" /\ OnResponse(h, from, m.c, m.st, n)
       \/ m.t = "released" /\ OnReleased(h, from, n)
    /\ UNCHANGED <<lock, grants, crashes>>

-----------------------------------------------------------------------------
(* Closing, and dying.                                                     *)

\* The client closes: its earlier calls are answered first.
Close(h) ==
    /\ Live(h) /\ closing[h] = "no"
    /\ closing' = [closing EXCEPT ![h] = "waiting"]
    /\ UNCHANGED <<role, holder, newest, gone, chain, lock, grants, net, callVars, crashes>>

\* #enqueue of the quit.
QuitsLast(h) == Append(chain[h], QuitTask)

\* #closePort goes on, #shutdown: a holder closes the database after the
\* calls it has; another leaves the lock's queue at once.
Shutdown(h) ==
    /\ Live(h) /\ closing[h] = "waiting" /\ PendingOf(h) = {}
    /\ closing' = [closing EXCEPT ![h] = "stopping"]
    /\ IF Holding(h)
       THEN /\ chain' = [chain EXCEPT ![h] = QuitsLast(h)]
            /\ UNCHANGED <<role, lock, net>>
       ELSE /\ role' = [role EXCEPT ![h] = "closed"]
            /\ lock' = Without(lock, h)
            /\ net' = Deaf(net, h)
            /\ UNCHANGED chain
    /\ UNCHANGED <<holder, newest, gone, grants, callVars, crashes>>

\* The database is closed: the holder says so and lets the lock go.
Release(h) ==
    /\ chain[h] # <<>> /\ Head(chain[h]) = QuitTask
    /\ chain' = [chain EXCEPT ![h] = Tail(@)]
    /\ role' = [role EXCEPT ![h] = "closed"]
    /\ lock' = Without(lock, h)
    /\ net' = Deaf(Broadcast(net, h, Released), h)
    /\ UNCHANGED <<holder, newest, gone, closing, grants, callVars, crashes>>

\* The tab is killed: its calls have nobody to answer, the browser lets its
\* lock go, and what it posted last arrives or is lost.
Crash(h) ==
    /\ Live(h) /\ crashes < MaxCrashes
    /\ crashes' = crashes + 1
    /\ role' = [role EXCEPT ![h] = "killed"]
    /\ chain' = [chain EXCEPT ![h] = <<>>]
    /\ lock' = Without(lock, h)
    /\ \/ net' = Deaf(net, h)
       \/ net' = [Deaf(net, h) EXCEPT ![h] = [b \in Hosts |-> <<>>]]
    /\ call' = [c \in Calls |-> IF c \in PendingOf(h)
                                THEN [call[c] EXCEPT !.st = "orphaned"] ELSE call[c]]
    /\ UNCHANGED <<holder, newest, gone, closing, grants, runs>>

Works(h) == Hold(h) \/ Open(h) \/ Perform(h) \/ Answer(h) \/ Release(h)

Next ==
    \/ \E h \in Hosts : \/ Start(h) \/ SeekHolder(h) \/ Works(h)
                        \/ Close(h) \/ Shutdown(h) \/ Crash(h)
                        \/ \E c \in Calls : Ask(h, c)
                        \/ \E from \in Hosts : Receive(from, h)
    \/ \E c \in Calls : Lose(c)

Spec == Init /\ [][Next]_vars

-----------------------------------------------------------------------------
(* Correctness.                                                            *)

Message == [t : {"hello", "released"}] \cup [t : {"holder"}, epoch : 0 .. grants]
    \cup [t : {"request"}, c : Calls]
    \cup [t : {"response"}, c : Calls, st : {"answered", "failed", "retry"}]

TaskSet == [t : {"open", "quit"}] \cup
    [t : {"call"}, c : Calls, from : Hosts, ran : {"no", "answered", "failed"}]

\* Each variable has its type: the type invariant.
TypeOK ==
    /\ role \in [Hosts -> {"off", "connecting", "forwarding", "opening", "holder", "failed",
                           "closed", "killed"}]
    /\ holder \in [Hosts -> Hosts \cup {None}]
    /\ grants \in Nat /\ newest \in [Hosts -> 0 .. grants]
    /\ gone \in [Hosts -> SUBSET Hosts]
    /\ closing \in [Hosts -> {"no", "waiting", "stopping"}]
    /\ chain \in [Hosts -> Seq(TaskSet)]
    /\ lock \in Seq(Hosts)
    /\ net \in [Hosts -> [Hosts -> Seq(Message)]]
    /\ call \in [Calls -> [st : {"new", "orphaned"} \cup Pending \cup Outcomes,
                           at : Hosts \cup {None}, to : Hosts \cup {None}]]
    /\ runs \in [Calls -> Nat]
    /\ crashes \in 0 .. MaxCrashes

\* A query, a transaction or a procedure's call is committed at most once,
\* however often the lock changes hands, tabs close or are killed and
\* messages overtake each other (host.ts:16-24).
RunsOnce == \A c \in Calls \ RetrySafe : runs[c] <= 1

\* A call that waits for the next holder has not run, and no host still has
\* it to run: a holder that closes answered all it ran before it let go
\* (host.ts:22-24, #holderReleased).
WaitingNeverRan ==
    \A c \in Calls \ RetrySafe : call[c].st = "unsent" =>
        /\ runs[c] = 0
        /\ \A h, from \in Hosts : ~Contains(chain[h], Task(c, from))
        /\ \A a, b \in Hosts : ~Contains(net[a][b], Request(c))

\* A call runs at most once, and one that waits for another holder has never
\* run (host.ts, #onRequest, close).
RunsAtMostOnce == TypeOK /\ RunsOnce /\ WaitingNeverRan

\* A call fails with ConnectionLostError only once the worker it was sent to
\* has lost the lock: a late announcement of an earlier holder never makes a
\* host give up calls the holder is running (#onHolder's epochs).
LostIsHonest ==
    [][\A c \in Calls : call[c].st # "lost" /\ call'[c].st = "lost" => ~Holding(call[c].to)]_vars

=============================================================================
