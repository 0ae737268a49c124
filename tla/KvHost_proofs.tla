---------------------------- MODULE KvHost_proofs ----------------------------
(* That a call runs at most once, and that one given up was given up for    *)
(* good, for any hosts, calls and kills (KvHost: RunsAtMostOnce,            *)
(* LostIsHonest).                                                           *)
EXTENDS KvHost, FiniteSetTheorems, TLAPS

-----------------------------------------------------------------------------
(* The inductive invariant.                                                 *)

\* A host that has had the lock.
Held(w) == Holding(w) \/ role[w] \in {"closed", "killed"}

\* The one that has the lock is the lock's first, and the clock is its epoch.
LockInv == \A w \in Hosts : Holding(w) => lock # <<>> /\ lock[1] = w /\ newest[w] = grants

\* What h knows of w: no announcement of w's is newer than h's newest.
Knows(h, w) == Held(w) /\ (Holding(w) => newest[h] >= newest[w])

HolderInv == \A h \in Hosts : holder[h] # None => Knows(h, holder[h])

\* A message: an announcement is of its sender's epoch; the release is the
\* sender's last.
MessageInv ==
    \A a, b \in Hosts : \A i \in DOMAIN net[a][b] :
        /\ net[a][b][i].t = "holder" =>
              Held(a) /\ (Holding(a) => net[a][b][i].epoch = newest[a])
        /\ net[a][b][i].t = "released" => i = Len(net[a][b]) /\ role[a] = "closed"

\* Only a holder has tasks, only a live host gets messages; the quit is the
\* last task, of a host with no call of its own left.
HostInv ==
    \A h \in Hosts :
        /\ ~Holding(h) => chain[h] = <<>>
        /\ ~Live(h) => \A a \in Hosts : net[a][h] = <<>>
        /\ closing[h] = "stopping" => PendingOf(h) = {}
        /\ \A i \in DOMAIN chain[h] :
              chain[h][i].t = "quit" => i = Len(chain[h]) /\ closing[h] = "stopping"

\* A call under way is a live tab's; one out is out with a host that held the
\* lock, one doubted with a host that has lost it.
CallInv ==
    \A c \in Calls : LET h == call[c].at
                         w == call[c].to IN
        /\ call[c].st \in Pending => h \in Hosts /\ Live(h)
        /\ call[c].st \in {"sent", "doubted"} => w \in Hosts \ {h} /\ Knows(h, w)
        /\ call[c].st = "doubted" => c \notin RetrySafe /\ ~Holding(w)
        /\ call[c].st = "here" => w = h

\* A task, a request or an answer of the call c, and whether a chain or a
\* channel has one.
About(x, c) == x.t \in {"call", "request", "response"} /\ x.c = c
Has(s, c) == \E i \in DOMAIN s : About(s[i], c)
Once(s, c) == \A i, j \in DOMAIN s : About(s[i], c) /\ About(s[j], c) => i = j

\* There is at most one of a call: its request on the way to the host it was
\* sent to, its task there, or its answer on the way back.
InNet(c) ==
    \A a, b \in Hosts : \A i \in DOMAIN net[a][b] :
        About(net[a][b][i], c) =>
            /\ call[c].st \notin {"new", "unsent", "here"} /\ a # b
            /\ IF net[a][b][i].t = "request"
               THEN a = call[c].at /\ b = call[c].to /\ runs[c] = 0
               ELSE a = call[c].to /\ b = call[c].at /\ (net[a][b][i].st = "retry" => runs[c] = 0)

InChain(c) ==
    \A b \in Hosts : \A i \in DOMAIN chain[b] :
        About(chain[b][i], c) =>
            /\ b = call[c].to /\ chain[b][i].from = call[c].at
            /\ call[c].st \notin {"new", "unsent"}
            /\ call[c].st = "here" <=> b = call[c].at
            /\ chain[b][i].ran # "answered" => runs[c] = 0

OneCopy(c) ==
    \A a, b \in Hosts :
        /\ Once(chain[a], c) /\ Once(net[a][b], c)
        /\ Has(net[a][b], c) => ~Has(net[b][a], c) /\ ~Has(chain[a], c) /\ ~Has(chain[b], c)

\* How often a call ran; one that ran, out with a host that was not killed,
\* is there or has its answer on the way.
RunsInv(c) ==
    /\ runs[c] \in {0, 1}
    /\ call[c].st \in {"new", "unsent"} => runs[c] = 0
    /\ call[c].st \in {"sent", "doubted"} /\ role[call[c].to] # "killed" /\ runs[c] = 1 =>
          Has(chain[call[c].to], c) \/ Has(net[call[c].to][call[c].at], c)

CopyOK(c) == InNet(c) /\ InChain(c) /\ OneCopy(c) /\ RunsInv(c)
CopyInv == \A c \in Calls \ RetrySafe : CopyOK(c)

Inv == /\ TypeOK /\ LockInv /\ HolderInv /\ MessageInv /\ HostInv /\ CallInv
       /\ CopyInv

-----------------------------------------------------------------------------
(* Sequences.                                                               *)

\* t has nothing new about the call c; and what s had of it.
Quiet(s, t, c) ==
    /\ Once(s, c) => Once(t, c)
    /\ \A i \in DOMAIN t : About(t[i], c) => \E j \in DOMAIN s : s[j] = t[i]
Same(s, t, c) == Quiet(s, t, c) /\ (Has(s, c) => Has(t, c))

LEMMA NoneIn == ASSUME NEW s, NEW c, NEW e, DOMAIN e = {} PROVE Quiet(s, e, c) /\ ~Has(e, c)
BY DEF Quiet, Once, Has

LEMMA NoneNew == ASSUME NEW s, NEW t, NEW c, Quiet(s, t, c), ~Has(s, c) PROVE ~Has(t, c)
BY DEF Quiet, Has

LEMMA AppendSeq ==
    ASSUME NEW T, NEW s \in Seq(T), NEW x \in T
    PROVE  /\ Append(s, x) \in Seq(T) /\ Len(Append(s, x)) = Len(s) + 1
           /\ \A i \in DOMAIN s : i \in DOMAIN Append(s, x) /\ Append(s, x)[i] = s[i]
           /\ Append(s, x)[Len(s) + 1] = x
           /\ \A i \in DOMAIN Append(s, x) : i \in DOMAIN s \/ i = Len(s) + 1
OBVIOUS

LEMMA AppendOther ==
    ASSUME NEW T, NEW s \in Seq(T), NEW x \in T, NEW c, ~About(x, c)
    PROVE  Same(s, Append(s, x), c)
<1> DEFINE t == Append(s, x)
<1>1. /\ \A i \in DOMAIN s : i \in DOMAIN t /\ t[i] = s[i]
      /\ \A i \in DOMAIN t : i \in DOMAIN s \/ t[i] = x
    BY AppendSeq
<1> HIDE DEF t
<1> QED
    BY <1>1 DEF Same, Quiet, Once, Has

LEMMA AppendIt ==
    ASSUME NEW T, NEW s \in Seq(T), NEW x \in T, NEW c, About(x, c), ~Has(s, c)
    PROVE  /\ Once(Append(s, x), c) /\ Has(Append(s, x), c)
           /\ \A i \in DOMAIN Append(s, x) : About(Append(s, x)[i], c) => Append(s, x)[i] = x
<1> DEFINE t == Append(s, x)
<1>1. /\ \A i \in DOMAIN t : (i \in DOMAIN s /\ t[i] = s[i]) \/ i = Len(s) + 1
      /\ t[Len(s) + 1] = x /\ Len(s) + 1 \in DOMAIN t
    BY AppendSeq
<1> HIDE DEF t
<1>2. \A i \in DOMAIN t : About(t[i], c) => i = Len(s) + 1
    BY <1>1 DEF Has
<1>3. Once(t, c) /\ Has(t, c) /\ \A i \in DOMAIN t : About(t[i], c) => t[i] = x
    BY <1>1, <1>2 DEF Once, Has
<1> QED
    BY <1>3 DEF t

LEMMA TailSeq ==
    ASSUME NEW T, NEW s \in Seq(T), s # <<>>
    PROVE  /\ s[1] \in T /\ 1 \in DOMAIN s /\ Head(s) = s[1]
           /\ Tail(s) \in Seq(T) /\ Len(Tail(s)) = Len(s) - 1
           /\ \A i \in DOMAIN Tail(s) : i + 1 \in DOMAIN s /\ Tail(s)[i] = s[i + 1]
           /\ \A j \in DOMAIN s : j = 1 \/ (j - 1 \in DOMAIN Tail(s) /\ Tail(s)[j - 1] = s[j])
OBVIOUS

LEMMA TailQuiet ==
    ASSUME NEW T, NEW s \in Seq(T), s # <<>>, NEW c
    PROVE  /\ Quiet(s, Tail(s), c)
           /\ ~About(s[1], c) => Same(s, Tail(s), c)
           /\ About(s[1], c) /\ Once(s, c) => ~Has(Tail(s), c)
<1> DEFINE t == Tail(s)
<1>1. /\ \A i \in DOMAIN t : i \in Nat /\ i >= 1 /\ i + 1 \in DOMAIN s /\ t[i] = s[i + 1]
      /\ \A j \in DOMAIN s : j = 1 \/ (j - 1 \in DOMAIN t /\ t[j - 1] = s[j])
      /\ 1 \in DOMAIN s
    BY TailSeq
<1> HIDE DEF t
<1>2. Once(s, c) => Once(t, c)
    BY <1>1 DEF Once
<1>3. \A i \in DOMAIN t : About(t[i], c) => \E j \in DOMAIN s : s[j] = t[i]
    BY <1>1
<1>4. ~About(s[1], c) => (Has(s, c) => Has(t, c))
    BY <1>1 DEF Has
<1>5. About(s[1], c) /\ Once(s, c) => ~Has(t, c)
    <2> SUFFICES ASSUME About(s[1], c), Once(s, c), NEW i \in DOMAIN t, About(t[i], c) PROVE FALSE
        BY DEF Has
    <2> QED
        BY <1>1 DEF Once
<1> QED
    BY <1>2, <1>3, <1>4, <1>5 DEF Same, Quiet, t

LEMMA JoinSeq ==
    ASSUME NEW T, NEW s \in Seq(T), NEW r \in Seq(T)
    PROVE  /\ s \o r \in Seq(T) /\ Len(s \o r) = Len(s) + Len(r)
           /\ \A i \in DOMAIN s : i \in DOMAIN (s \o r) /\ (s \o r)[i] = s[i]
           /\ \A i \in DOMAIN r : Len(s) + i \in DOMAIN (s \o r) /\ (s \o r)[Len(s) + i] = r[i]
           /\ \A i \in DOMAIN (s \o r) : i \in DOMAIN s \/ (i - Len(s) \in DOMAIN r /\ (s \o r)[i] = r[i - Len(s)])
OBVIOUS

\* The new ones are all at the end.
LEMMA JoinQuiet ==
    ASSUME NEW T, NEW s \in Seq(T), NEW r \in Seq(T), NEW c
    PROVE  /\ ~Has(r, c) => Same(s, s \o r, c)
           /\ ~Has(s, c) /\ Once(r, c) => Once(s \o r, c)
           /\ \A i \in DOMAIN (s \o r) : About((s \o r)[i], c) =>
                  (\E j \in DOMAIN s : s[j] = (s \o r)[i]) \/ (\E j \in DOMAIN r : r[j] = (s \o r)[i])
<1> DEFINE t == s \o r
<1>1. /\ \A i \in DOMAIN s : i \in DOMAIN t /\ t[i] = s[i]
      /\ \A i \in DOMAIN t : i \in Nat /\ ((i \in DOMAIN s /\ t[i] = s[i]) \/ (i - Len(s) \in DOMAIN r /\ t[i] = r[i - Len(s)]))
      /\ Len(s) \in Nat
    BY JoinSeq
<1> HIDE DEF t
<1>2. ~Has(r, c) => Same(s, t, c)
    BY <1>1 DEF Same, Quiet, Once, Has
<1>3. ~Has(s, c) /\ Once(r, c) => Once(t, c)
    <2> SUFFICES ASSUME ~Has(s, c), Once(r, c), NEW i \in DOMAIN t, NEW j \in DOMAIN t,
                        About(t[i], c), About(t[j], c)
                 PROVE  i = j
        BY DEF Once
    <2>1. i - Len(s) = j - Len(s)
        BY <1>1 DEF Once, Has
    <2> QED
        BY <2>1, <1>1
<1>4. \A i \in DOMAIN t : About(t[i], c) =>
          (\E j \in DOMAIN s : s[j] = t[i]) \/ (\E j \in DOMAIN r : r[j] = t[i])
    BY <1>1
<1> QED
    BY <1>2, <1>3, <1>4 DEF t

LEMMA WithoutSeq ==
    ASSUME NEW T, NEW s \in Seq(T), NEW x
    PROVE  /\ Without(s, x) \in Seq(T)
           /\ s # <<>> /\ s[1] # x => Without(s, x) # <<>> /\ Without(s, x)[1] = s[1]
<1> DEFINE places == {i \in DOMAIN s : s[i] = x}
           n == IF places = {} THEN Len(s) ELSE Len(s) - 1
           t == [i \in 1 .. n |-> IF \E j \in places : j <= i THEN s[i + 1] ELSE s[i]]
<1>1. n \in Nat /\ (s # <<>> /\ s[1] # x => n >= 1)
    OBVIOUS
<1>2. \A i \in 1 .. n : i \in DOMAIN s /\ (places # {} => i + 1 \in DOMAIN s)
    OBVIOUS
<1>3. Without(s, x) = t
    BY DEF Without
<1>4. \A i \in 1 .. n : t[i] \in T
    BY <1>2
<1>5. s # <<>> /\ s[1] # x => t[1] = s[1]
    BY <1>1
<1>6. t \in [1 .. n -> T]
    BY <1>2, <1>4
<1> HIDE DEF t, n
<1>7. t \in Seq(T) /\ Len(t) = n
    BY <1>1, <1>6
<1> QED
    BY <1>1, <1>3, <1>5, <1>7

-----------------------------------------------------------------------------
(* The channel.                                                             *)

NetOf(T) == [Hosts -> [Hosts -> Seq(T)]]

LEMMA BroadcastNet ==
    ASSUME NEW T, NEW n \in NetOf(T), NEW h \in Hosts, NEW m \in T
    PROVE  /\ Broadcast(n, h, m) \in NetOf(T)
           /\ \A a, b \in Hosts : Broadcast(n, h, m)[a][b] =
                 IF a = h /\ b # h /\ Live(b) THEN Append(n[a][b], m) ELSE n[a][b]
<1> DEFINE new == [b \in Hosts |-> IF b \in Peers(h) THEN Append(n[h][b], m) ELSE n[h][b]]
<1>1. Broadcast(n, h, m) = [n EXCEPT ![h] = new]
    BY DEF Broadcast
<1>2. new \in [Hosts -> Seq(T)]
    BY AppendSeq DEF NetOf
<1>3. \A b \in Hosts : b \in Peers(h) <=> b # h /\ Live(b)
    BY DEF Peers
<1>4. \A b \in Hosts : new[b] = IF b # h /\ Live(b) THEN Append(n[h][b], m) ELSE n[h][b]
    BY <1>3
<1> HIDE DEF new
<1> QED
    BY <1>1, <1>2, <1>4 DEF NetOf

LEMMA TellNet ==
    ASSUME NEW T, NEW n \in NetOf(T), NEW h \in Hosts, NEW p \in Hosts, NEW msgs \in Seq(T)
    PROVE  /\ Tell(n, h, p, msgs) \in NetOf(T)
           /\ \A a, b \in Hosts : Tell(n, h, p, msgs)[a][b] =
                 IF a = h /\ b = p /\ p # h /\ Live(p) THEN n[a][b] \o msgs ELSE n[a][b]
<1>1. p \in Peers(h) <=> p # h /\ Live(p)
    BY DEF Peers
<1>2. n[h][p] \o msgs \in Seq(T)
    BY JoinSeq DEF NetOf
<1>3. CASE p \in Peers(h)
    <2>1. Tell(n, h, p, msgs) = [n EXCEPT ![h] = [n[h] EXCEPT ![p] = n[h][p] \o msgs]]
        BY <1>3 DEF Tell, NetOf
    <2> QED
        BY <1>1, <1>2, <1>3, <2>1 DEF NetOf
<1>4. CASE p \notin Peers(h)
    BY <1>1, <1>4 DEF Tell
<1> QED
    BY <1>3, <1>4

LEMMA DeafNet ==
    ASSUME NEW T, NEW n \in NetOf(T), NEW h \in Hosts
    PROVE  /\ Deaf(n, h) \in NetOf(T)
           /\ \A a, b \in Hosts : Deaf(n, h)[a][b] = IF b = h THEN <<>> ELSE n[a][b]
BY DEF Deaf, NetOf

LEMMA MoreMessages ==
    ASSUME TypeOK, grants' \in Nat, grants <= grants'
    PROVE  Message \subseteq Message' /\ (\A s \in Seq(Message) : s \in Seq(Message')) /\ net \in NetOf(Message')
<1>1. Message \subseteq Message'
    BY DEF Message, TypeOK
<1>2. ASSUME NEW s \in Seq(Message) PROVE s \in Seq(Message')
    BY <1>1, <1>2
<1> QED
    BY <1>1, <1>2 DEF TypeOK, NetOf

LEMMA MessageTypes ==
    /\ Hello \in Message /\ Released \in Message
    /\ \A c \in Calls : Request(c) \in Message
    /\ \A c \in Calls : \A st \in {"answered", "failed", "retry"} : Response(c, st) \in Message
    /\ \A e \in 0 .. grants : Announce(e) \in Message
    /\ OpenTask \in TaskSet /\ QuitTask \in TaskSet
    /\ \A c \in Calls, h \in Hosts : Task(c, h) \in TaskSet
BY DEF Message, Hello, Released, Request, Response, Announce, TaskSet, OpenTask, QuitTask, Task

\* What the types say of a channel, a chain, a host and a call.
LEMMA Typed ==
    ASSUME TypeOK
    PROVE  /\ net \in NetOf(Message) /\ \A a, b \in Hosts : net[a][b] \in Seq(Message)
           /\ \A h \in Hosts : /\ chain[h] \in Seq(TaskSet)
                               /\ newest[h] \in Nat /\ newest[h] <= grants
                               /\ holder[h] \in Hosts \cup {None}
           /\ grants \in Nat /\ lock \in Seq(Hosts)
           /\ \A c \in Calls : call[c].at \in Hosts \cup {None} /\ call[c].to \in Hosts \cup {None}
           /\ DOMAIN role = Hosts /\ DOMAIN holder = Hosts /\ DOMAIN newest = Hosts /\ DOMAIN gone = Hosts
           /\ DOMAIN closing = Hosts /\ DOMAIN chain = Hosts /\ DOMAIN call = Calls /\ DOMAIN runs = Calls
<1>1. net \in NetOf(Message)
    BY DEF TypeOK, NetOf
<1>2. \A a, b \in Hosts : net[a][b] \in Seq(Message)
    BY <1>1 DEF NetOf
<1>3. \A h \in Hosts : chain[h] \in Seq(TaskSet) /\ newest[h] \in Nat /\ newest[h] <= grants
    BY DEF TypeOK
<1>4. \A h \in Hosts : holder[h] \in Hosts \cup {None}
    BY DEF TypeOK
<1>5. \A c \in Calls : call[c].at \in Hosts \cup {None} /\ call[c].to \in Hosts \cup {None}
    BY DEF TypeOK
<1> QED
    BY <1>1, <1>2, <1>3, <1>4, <1>5 DEF TypeOK

LEMMA SameClock == ASSUME grants' = grants PROVE Message' = Message
BY DEF Message

LEMMA Orders ==
    ASSUME NEW S \in SUBSET Calls, NEW s \in SetToSeqs(S)
    PROVE  s \in Seq(S) /\ \A i, j \in DOMAIN s : s[i] = s[j] => i = j
<1>1. Cardinality(S) \in Nat
    BY CallsAssumption, FS_Subset, FS_CardinalityType
<1>2. /\ s \in [1 .. Cardinality(S) -> S]
      /\ \A i, j \in 1 .. Cardinality(S) : i # j => s[i] # s[j]
    BY DEF SetToSeqs
<1> QED
    BY <1>1, <1>2

\* The requests, and the tasks, of some calls in an order.
LEMMA Requested ==
    ASSUME NEW S \in SUBSET Calls, NEW s \in SetToSeqs(S), NEW r, r = [i \in DOMAIN s |-> Request(s[i])]
    PROVE  /\ r \in Seq(Message)
           /\ \A i \in DOMAIN r : r[i].t = "request" /\ r[i].c \in S
           /\ \A c : Once(r, c) /\ (Has(r, c) => c \in S)
<1>1. s \in Seq(S) /\ \A i, j \in DOMAIN s : s[i] = s[j] => i = j
    BY Orders
<1>2. DOMAIN r = 1 .. Len(s) /\ Len(s) \in Nat /\ \A i \in DOMAIN r : r[i] = [t |-> "request", c |-> s[i]] /\ s[i] \in S
    BY <1>1 DEF Request
<1>3. r \in Seq(Message)
    <2>1. \A i \in 1 .. Len(s) : Request(s[i]) \in Message
        BY <1>1, MessageTypes
    <2>2. r \in [1 .. Len(s) -> Message]
        BY <1>1, <2>1
    <2> QED
        BY <2>2, <1>2
<1> QED
    BY <1>1, <1>2, <1>3 DEF Once, Has, About

LEMMA Tasked ==
    ASSUME NEW S \in SUBSET Calls, NEW s \in SetToSeqs(S), NEW h \in Hosts
    PROVE  LET r == <<OpenTask>> \o Tasks(s, h) IN
           /\ r \in Seq(TaskSet)
           /\ \A i \in DOMAIN r : r[i].t = "open" \/ (r[i].t = "call" /\ r[i].c \in S /\ r[i].from = h /\ r[i].ran = "no")
           /\ \A c : Once(r, c) /\ (Has(r, c) => c \in S)
<1>1. s \in Seq(S) /\ \A i, j \in DOMAIN s : s[i] = s[j] => i = j
    BY Orders
<1> DEFINE t == Tasks(s, h)
           o == <<OpenTask>>
           r == o \o t
<1>2. /\ DOMAIN t = 1 .. Len(s) /\ Len(s) \in Nat
      /\ \A i \in DOMAIN t : t[i] = [t |-> "call", c |-> s[i], from |-> h, ran |-> "no"] /\ s[i] \in S
    BY <1>1 DEF Tasks, Task
<1>3. t \in Seq(TaskSet)
    <2>1. \A i \in 1 .. Len(s) : Task(s[i], h) \in TaskSet
        BY <1>1, MessageTypes
    <2>2. t \in [1 .. Len(s) -> TaskSet]
        BY <1>1, <2>1 DEF Tasks
    <2> QED
        BY <2>2, <1>2
<1>5. o \in Seq(TaskSet) /\ DOMAIN o = {1} /\ o[1] = [t |-> "open"] /\ Len(o) = 1
    BY MessageTypes DEF OpenTask
<1> HIDE DEF t, o
<1>6. /\ r \in Seq(TaskSet)
      /\ \A i \in DOMAIN r : r[i] = o[1] \/ \E j \in DOMAIN t : r[i] = t[j]
    <2>1. /\ o \o t \in Seq(TaskSet)
          /\ \A i \in DOMAIN o : (o \o t)[i] = o[i]
          /\ \A i \in DOMAIN (o \o t) : i \in DOMAIN o \/ (i - Len(o) \in DOMAIN t /\ (o \o t)[i] = t[i - Len(o)])
        BY <1>3, <1>5, JoinSeq
    <2> HIDE DEF r
    <2>2. r = o \o t
        BY DEF r
    <2> QED
        BY <1>5, <2>1, <2>2
<1>7. \A c : ~Has(o, c) /\ Once(t, c) /\ (Has(t, c) => c \in S)
    BY <1>1, <1>2, <1>5 DEF Once, Has, About
<1>8. \A c : Once(r, c)
    BY <1>3, <1>5, <1>7, JoinQuiet
<1> HIDE DEF r
<1>9. \A c : Has(r, c) => c \in S
    BY <1>2, <1>5, <1>6 DEF Has, About
<1>10. \A i \in DOMAIN r : r[i].t = "open" \/ (r[i].t = "call" /\ r[i].c \in S /\ r[i].from = h /\ r[i].ran = "no")
    BY <1>2, <1>5, <1>6
<1> QED
    BY <1>6, <1>8, <1>9, <1>10 DEF r, o, t

-----------------------------------------------------------------------------
(* What a step keeps.                                                       *)

\* A channel: as it was, emptied, its first message taken or some sent.
ChannelStep(a, b, M) ==
    \/ net'[a][b] = net[a][b]
    \/ net'[a][b] = <<>>
    \/ net[a][b] # <<>> /\ net'[a][b] = Tail(net[a][b])
    \/ role[a] # "closed" /\ \E m \in M : m \in Message' /\ net'[a][b] = Append(net[a][b], m)
    \/ role[a] # "closed" /\ \E r \in Seq(Message') : net'[a][b] = net[a][b] \o r /\ \A i \in DOMAIN r : r[i] \in M

LEMMA ChannelKeeps ==
    ASSUME NEW a \in Hosts, NEW b \in Hosts, NEW M, ChannelStep(a, b, M), net[a][b] \in Seq(Message')
    PROVE  \A i \in DOMAIN net'[a][b] :
              \/ net'[a][b][i] \in M
              \/ \E j \in DOMAIN net[a][b] :
                    /\ net'[a][b][i] = net[a][b][j]
                    /\ j = Len(net[a][b]) => i = Len(net'[a][b]) \/ role[a] # "closed"
<1>1. CASE net'[a][b] = net[a][b]
    BY <1>1
<1>2. CASE net'[a][b] = <<>>
    BY <1>2
<1>3. CASE net[a][b] # <<>> /\ net'[a][b] = Tail(net[a][b])
    BY <1>3
<1>4. CASE role[a] # "closed" /\ \E m \in M : m \in Message' /\ net'[a][b] = Append(net[a][b], m)
    BY <1>4
<1>5. CASE role[a] # "closed" /\ \E r \in Seq(Message') : net'[a][b] = net[a][b] \o r /\ \A i \in DOMAIN r : r[i] \in M
    <2>1. PICK r \in Seq(Message') : net'[a][b] = net[a][b] \o r /\ \A i \in DOMAIN r : r[i] \in M
        BY <1>5
    <2> QED
        BY <1>5, <2>1, JoinSeq
<1> QED
    BY <1>1, <1>2, <1>3, <1>4, <1>5 DEF ChannelStep

LEMMA ChannelQuiet ==
    ASSUME NEW a \in Hosts, NEW b \in Hosts, NEW M, ChannelStep(a, b, M), net[a][b] \in Seq(Message'),
           NEW c, \A m \in M : ~About(m, c)
    PROVE  /\ Quiet(net[a][b], net'[a][b], c)
           /\ \/ Has(net[a][b], c) => Has(net'[a][b], c)
              \/ net'[a][b] = <<>>
              \/ net'[a][b] = Tail(net[a][b]) /\ About(net[a][b][1], c)
<1>1. CASE net'[a][b] = net[a][b]
    BY <1>1 DEF Quiet
<1>2. CASE net'[a][b] = <<>>
    <2>1. DOMAIN net'[a][b] = {}
        BY <1>2
    <2> QED
        BY <1>2, <2>1, NoneIn
<1>3. CASE net[a][b] # <<>> /\ net'[a][b] = Tail(net[a][b])
    BY <1>3, TailQuiet DEF Same
<1>4. CASE role[a] # "closed" /\ \E m \in M : m \in Message' /\ net'[a][b] = Append(net[a][b], m)
    BY <1>4, AppendOther DEF Same
<1>5. CASE role[a] # "closed" /\ \E r \in Seq(Message') : net'[a][b] = net[a][b] \o r /\ \A i \in DOMAIN r : r[i] \in M
    <2>1. PICK r \in Seq(Message') : net'[a][b] = net[a][b] \o r /\ \A i \in DOMAIN r : r[i] \in M
        BY <1>5
    <2>2. ~Has(r, c)
        BY <2>1 DEF Has
    <2> QED
        BY <2>1, <2>2, JoinQuiet DEF Same
<1> QED
    BY <1>1, <1>2, <1>3, <1>4, <1>5 DEF ChannelStep

\* No host gets the lock a second time, and no epoch shrinks.
Onward ==
    \A w \in Hosts :
        /\ Held(w) => Held(w)'
        /\ Holding(w)' => (Holding(w) /\ newest'[w] = newest[w]) \/ ~Held(w)
        /\ newest'[w] >= newest[w]
        /\ role[w] = "closed" => role'[w] = "closed"

LEMMA KnowsStill ==
    ASSUME TypeOK, TypeOK', Onward, NEW h \in Hosts, NEW w \in Hosts, Knows(h, w)
    PROVE  Knows(h, w)'
BY DEF Onward, Knows, TypeOK

\* Messages: those there were, and new ones that are as they should be.
LEMMA MessagesKept ==
    ASSUME TypeOK, MessageInv, Onward, NEW M, \A a, b \in Hosts : ChannelStep(a, b, M[a][b]),
           \A a, b \in Hosts : net[a][b] \in Seq(Message'),
           \A a, b \in Hosts : \A m \in M[a][b] :
              /\ m.t = "holder" => Held(a)' /\ (Holding(a)' => m.epoch = newest'[a])
              /\ m.t # "released"
    PROVE  MessageInv'
<1> SUFFICES ASSUME NEW a \in Hosts, NEW b \in Hosts, NEW i \in DOMAIN net'[a][b]
             PROVE  /\ net'[a][b][i].t = "holder" =>
                          Held(a)' /\ (Holding(a)' => net'[a][b][i].epoch = newest'[a])
                    /\ net'[a][b][i].t = "released" => i = Len(net'[a][b]) /\ role'[a] = "closed"
    BY DEF MessageInv
<1>1. CASE net'[a][b][i] \in M[a][b]
    BY <1>1
<1>2. CASE \E j \in DOMAIN net[a][b] :
              /\ net'[a][b][i] = net[a][b][j]
              /\ j = Len(net[a][b]) => i = Len(net'[a][b]) \/ role[a] # "closed"
    BY <1>2 DEF MessageInv, Onward, Held, Holding
<1>3. ChannelStep(a, b, M[a][b]) /\ net[a][b] \in Seq(Message')
    OBVIOUS
<1> QED
    BY <1>1, <1>2, <1>3, ChannelKeeps

\* A call whose messages and tasks a step leaves alone.
LEMMA Untouched ==
    ASSUME NEW c \in Calls, CopyOK(c), call'[c] = call[c], runs'[c] = runs[c],
           \A a, b \in Hosts : Quiet(net[a][b], net'[a][b], c),
           \A a \in Hosts : Quiet(chain[a], chain'[a], c),
           call[c].st \in {"sent", "doubted"} /\ role'[call[c].to] # "killed" =>
              /\ role[call[c].to] # "killed"
              /\ Has(chain[call[c].to], c) => Has(chain[call[c].to], c)'
              /\ Has(net[call[c].to][call[c].at], c) => Has(net[call[c].to][call[c].at], c)'
    PROVE  CopyOK(c)'
<1>1. \A a, b \in Hosts : Has(net[a][b], c)' => Has(net[a][b], c)
    BY DEF Quiet, Has
<1>2. \A a \in Hosts : Has(chain[a], c)' => Has(chain[a], c)
    BY DEF Quiet, Has
<1>3. InNet(c)'
    BY DEF CopyOK, InNet, Quiet
<1>4. InChain(c)'
    BY DEF CopyOK, InChain, Quiet
<1>5. OneCopy(c)'
    BY <1>1, <1>2 DEF CopyOK, OneCopy, Quiet
<1>6. RunsInv(c)'
    BY DEF CopyOK, RunsInv
<1> QED
    BY <1>3, <1>4, <1>5, <1>6 DEF CopyOK

-----------------------------------------------------------------------------
(* The steps.                                                               *)

LEMMA InitInv == Init => Inv
<1> SUFFICES ASSUME Init PROVE Inv
    OBVIOUS
<1> USE DEF Init
<1>1. \A a, b \in Hosts : net[a][b] = <<>> /\ DOMAIN net[a][b] = {} /\ DOMAIN chain[a] = {}
    OBVIOUS
<1>2. TypeOK
    <2>1. net \in [Hosts -> [Hosts -> Seq(Message)]] /\ chain \in [Hosts -> Seq(TaskSet)]
        OBVIOUS
    <2> QED
        BY <2>1, CrashesAssumption DEF TypeOK
<1>3. \A h \in Hosts : ~Holding(h) /\ ~Live(h)
    BY DEF Holding, Live
<1>4. \A c \in Calls : \A a, b \in Hosts : ~Has(net[a][b], c) /\ ~Has(chain[a], c) /\ Once(net[a][b], c) /\ Once(chain[a], c)
    BY <1>1 DEF Has, Once
<1>5. \A c \in Calls : CopyOK(c)
    BY <1>1, <1>4 DEF CopyOK, InNet, InChain, OneCopy, RunsInv
<1>6. HolderInv /\ LockInv /\ MessageInv
    BY <1>1, <1>3 DEF HolderInv, LockInv, MessageInv
<1>7. HostInv
    BY <1>1, <1>3 DEF HostInv
<1>8. CallInv
    BY DEF CallInv, Pending
<1> QED
    BY <1>2, <1>5, <1>6, <1>7, <1>8 DEF Inv, CopyInv

\* A broadcast.
LEMMA Announced ==
    ASSUME TypeOK, NEW h \in Hosts, NEW m \in Message', grants' \in Nat, grants <= grants',
           role[h] # "closed", net' = Broadcast(net, h, m)
    PROVE  /\ net' \in NetOf(Message')
           /\ \A a, b \in Hosts : net'[a][b] = IF a = h /\ b # h /\ Live(b) THEN Append(net[a][b], m) ELSE net[a][b]
           /\ \A a, b \in Hosts : net[a][b] \in Seq(Message') /\ ChannelStep(a, b, IF a = h THEN {m} ELSE {})
           /\ \A c : ~About(m, c) => \A a, b \in Hosts : Same(net[a][b], net'[a][b], c)
<1>1. net \in NetOf(Message')
    BY MoreMessages
<1>2. net' \in NetOf(Message') /\ \A a, b \in Hosts :
          net'[a][b] = IF a = h /\ b # h /\ Live(b) THEN Append(net[a][b], m) ELSE net[a][b]
    BY <1>1, BroadcastNet
<1>3. \A a, b \in Hosts : net[a][b] \in Seq(Message')
    BY <1>1 DEF NetOf
<1>4. \A a, b \in Hosts : ChannelStep(a, b, IF a = h THEN {m} ELSE {})
    <2> SUFFICES ASSUME NEW a \in Hosts, NEW b \in Hosts PROVE ChannelStep(a, b, IF a = h THEN {m} ELSE {})
        OBVIOUS
    <2>1. CASE net'[a][b] = net[a][b]
        BY <2>1 DEF ChannelStep
    <2>2. CASE a = h /\ net'[a][b] = Append(net[a][b], m)
        BY <2>2 DEF ChannelStep
    <2> QED
        BY <1>2, <2>1, <2>2
<1>5. ASSUME NEW c, ~About(m, c), NEW a \in Hosts, NEW b \in Hosts PROVE Same(net[a][b], net'[a][b], c)
    <2>1. CASE net'[a][b] = net[a][b]
        BY <2>1 DEF Same, Quiet
    <2>2. CASE net'[a][b] = Append(net[a][b], m)
        BY <1>3, <1>5, <2>2, AppendOther
    <2> QED
        BY <1>2, <2>1, <2>2
<1> QED
    BY <1>2, <1>3, <1>4, <1>5

\* What is not about a call, the call being as it was.
LEMMA CopiesKept ==
    ASSUME Inv, Onward, NEW c \in Calls \ RetrySafe, call'[c] = call[c], runs'[c] = runs[c],
           \A a, b \in Hosts : Same(net[a][b], net'[a][b], c),
           \A a \in Hosts : Same(chain[a], chain'[a], c),
           \A w \in Hosts : role'[w] = "killed" \/ role[w] # "killed"
    PROVE  CopyOK(c)'
<1>1. CopyOK(c)
    BY DEF Inv, CopyInv
<1>2. call[c].st \in {"sent", "doubted"} => call[c].at \in Hosts /\ call[c].to \in Hosts
    BY DEF Inv, CallInv, Pending
<1> QED
    BY <1>1, <1>2, Untouched DEF Same

LEMMA StartStep == ASSUME Inv, NEW h \in Hosts, Start(h) PROVE Inv'
<1> USE DEF Inv
<1>1. /\ role' = [role EXCEPT ![h] = "connecting"] /\ role[h] = "off"
      /\ UNCHANGED <<holder, newest, gone, closing, chain, grants, call, runs, crashes>>
      /\ net' = Broadcast(net, h, Hello) /\ lock' = Append(lock, h)
    BY DEF Start, callVars
<1>2. /\ net' \in NetOf(Message')
      /\ \A a, b \in Hosts : net'[a][b] = IF a = h /\ b # h /\ Live(b) THEN Append(net[a][b], Hello) ELSE net[a][b]
      /\ \A a, b \in Hosts : net[a][b] \in Seq(Message') /\ ChannelStep(a, b, IF a = h THEN {Hello} ELSE {})
      /\ \A c : ~About(Hello, c) => \A a, b \in Hosts : Same(net[a][b], net'[a][b], c)
    <2>1. Hello \in Message' /\ grants' \in Nat /\ grants <= grants'
        BY <1>1, Typed, MessageTypes, SameClock
    <2> QED
        BY <1>1, <2>1, Announced
<1>3. TypeOK'
    BY <1>1, <1>2, AppendSeq DEF TypeOK, NetOf, Message
<1>4. Onward
    BY <1>1, Typed DEF Onward, Held, Holding
<1>6. MessageInv'
    <2> DEFINE M == [a \in Hosts |-> [b \in Hosts |-> IF a = h THEN {Hello} ELSE {}]]
    <2>1. \A a, b \in Hosts : M[a][b] = IF a = h THEN {Hello} ELSE {}
        OBVIOUS
    <2> HIDE DEF M
    <2> QED
        BY <1>2, <1>4, <2>1, MessagesKept DEF Hello
<1>7. LockInv'
    <2>1. lock # <<>> => lock' # <<>> /\ lock'[1] = lock[1]
        BY <1>1, Typed
    <2> QED
        BY <1>1, <2>1, Typed DEF LockInv, Holding
<1>8. HolderInv'
    BY <1>1, <1>3, <1>4, Typed, KnowsStill DEF HolderInv
<1>9. HostInv'
    <2>1. \A g \in Hosts : (Live(g) => Live(g)') /\ (Holding(g)' <=> Holding(g))
        BY <1>1, Typed DEF Live, Holding
    <2>2. \A g \in Hosts : PendingOf(g)' = PendingOf(g)
        BY <1>1 DEF PendingOf
    <2> QED
        BY <1>1, <1>2, <2>1, <2>2 DEF HostInv
<1>10. CallInv'
    <2>1. \A g \in Hosts : Live(g) => Live(g)'
        BY <1>1, Typed DEF Live
    <2>2. \A g \in Hosts : Holding(g)' <=> Holding(g)
        BY <1>1, Typed DEF Holding
    <2> QED
        BY <1>1, <1>3, <1>4, <2>1, <2>2, KnowsStill DEF CallInv, Pending
<1>11. CopyInv'
    <2> SUFFICES ASSUME NEW c \in Calls \ RetrySafe PROVE CopyOK(c)'
        BY DEF CopyInv
    <2>1. ~About(Hello, c)
        BY DEF About, Hello
    <2> QED
        BY <1>1, <1>2, <1>4, <2>1, Typed, CopiesKept DEF Same, Quiet
<1> QED
    BY <1>3, <1>6, <1>7, <1>8, <1>9, <1>10, <1>11

LEMMA SeekStep == ASSUME Inv, NEW h \in Hosts, SeekHolder(h) PROVE Inv'
<1> USE DEF Inv
<1>1. /\ UNCHANGED <<role, holder, newest, gone, closing, chain, lock, grants, call, runs, crashes>>
      /\ net' = Broadcast(net, h, Hello) /\ Live(h)
    BY DEF SeekHolder, callVars, hostVars
<1>2. /\ net' \in NetOf(Message')
      /\ \A a, b \in Hosts : net'[a][b] = IF a = h /\ b # h /\ Live(b) THEN Append(net[a][b], Hello) ELSE net[a][b]
      /\ \A a, b \in Hosts : net[a][b] \in Seq(Message') /\ ChannelStep(a, b, IF a = h THEN {Hello} ELSE {})
      /\ \A c : ~About(Hello, c) => \A a, b \in Hosts : Same(net[a][b], net'[a][b], c)
    <2>1. Hello \in Message' /\ grants' \in Nat /\ grants <= grants' /\ role[h] # "closed"
        BY <1>1, Typed, MessageTypes, SameClock DEF Live
    <2> QED
        BY <1>1, <2>1, Announced
<1>3. TypeOK'
    BY <1>1, <1>2 DEF TypeOK, NetOf, Message
<1>4. Onward
    BY <1>1, Typed DEF Onward, Held, Holding
<1>6. MessageInv'
    <2> DEFINE M == [a \in Hosts |-> [b \in Hosts |-> IF a = h THEN {Hello} ELSE {}]]
    <2>1. \A a, b \in Hosts : M[a][b] = IF a = h THEN {Hello} ELSE {}
        OBVIOUS
    <2> HIDE DEF M
    <2> QED
        BY <1>2, <1>4, <2>1, MessagesKept DEF Hello
<1>7. LockInv' /\ HolderInv' /\ CallInv'
    BY <1>1 DEF LockInv, HolderInv, CallInv, Holding, Live, Knows, Held
<1>8. HostInv'
    <2>1. \A g \in Hosts : PendingOf(g)' = PendingOf(g)
        BY <1>1 DEF PendingOf
    <2> QED
        BY <1>1, <1>2, <2>1 DEF HostInv, Holding, Live
<1>9. CopyInv'
    <2> SUFFICES ASSUME NEW c \in Calls \ RetrySafe PROVE CopyOK(c)'
        BY DEF CopyInv
    <2>1. ~About(Hello, c)
        BY DEF About, Hello
    <2> QED
        BY <1>1, <1>2, <1>4, <2>1, Typed, CopiesKept DEF Same, Quiet
<1> QED
    BY <1>3, <1>6, <1>7, <1>8, <1>9

\* A step that sends and takes no message.
LEMMA Silent ==
    ASSUME TypeOK, MessageInv, Onward, net' = net, grants' = grants
    PROVE  /\ MessageInv' /\ \A c : \A a, b \in Hosts : Same(net[a][b], net'[a][b], c)
<1> DEFINE M == [a \in Hosts |-> [b \in Hosts |-> {}]]
<1>1. \A a, b \in Hosts : M[a][b] = {}
    OBVIOUS
<1> HIDE DEF M
<1>2. \A a, b \in Hosts : ChannelStep(a, b, M[a][b]) /\ net[a][b] \in Seq(Message')
    BY Typed, SameClock DEF ChannelStep
<1> QED
    BY <1>1, <1>2, MessagesKept DEF Same, Quiet

LEMMA OpenStep == ASSUME Inv, NEW h \in Hosts, Open(h) PROVE Inv'
<1> USE DEF Inv
<1>1. PICK r \in {"holder", "failed"} :
          /\ role' = [role EXCEPT ![h] = r] /\ chain' = [chain EXCEPT ![h] = Tail(chain[h])]
          /\ chain[h] # <<>> /\ chain[h][1] = OpenTask
          /\ UNCHANGED <<holder, newest, gone, closing, lock, grants, net, call, runs, crashes>>
    BY Typed, TailSeq DEF Open, callVars
<1>2. Holding(h) /\ Holding(h)' /\ Live(h)
    BY <1>1, Typed DEF HostInv, Holding, Live
<1>3. \A w \in Hosts : (Holding(w)' <=> Holding(w)) /\ (Live(w)' <=> Live(w)) /\ (Held(w)' <=> Held(w))
    BY <1>1, <1>2, Typed DEF Holding, Live, Held
<1>4. TypeOK'
    BY <1>1, TailSeq DEF TypeOK, Message
<1>5. Onward
    BY <1>1, <1>3, Typed DEF Onward, Holding
<1>6. MessageInv' /\ \A c : \A a, b \in Hosts : Same(net[a][b], net'[a][b], c)
    BY <1>1, <1>5, Silent
<1>7. LockInv' /\ HolderInv' /\ CallInv'
    <2>1. LockInv'
        BY <1>1, <1>3 DEF LockInv
    <2>2. HolderInv'
        BY <1>1, <1>3, Typed DEF HolderInv, Knows
    <2>3. CallInv'
        BY <1>1, <1>3 DEF CallInv, Knows
    <2> QED
        BY <2>1, <2>2, <2>3
<1>8. HostInv'
    <2>1. \A g \in Hosts : PendingOf(g)' = PendingOf(g)
        BY <1>1 DEF PendingOf
    <2>2. \A g \in Hosts \ {h} : chain'[g] = chain[g]
        BY <1>1, Typed
    <2>3. \A i \in DOMAIN chain'[h] : chain'[h][i] = chain[h][i + 1] /\ i + 1 \in DOMAIN chain[h]
                                      /\ (i + 1 = Len(chain[h]) => i = Len(chain'[h]))
        BY <1>1, Typed, TailSeq
    <2> QED
        BY <1>1, <1>2, <1>3, <2>1, <2>2, <2>3 DEF HostInv
<1>9. CopyInv'
    <2> SUFFICES ASSUME NEW c \in Calls \ RetrySafe PROVE CopyOK(c)'
        BY DEF CopyInv
    <2>1. ~About(chain[h][1], c)
        BY <1>1 DEF About, OpenTask
    <2>2. \A a \in Hosts : Same(chain[a], chain'[a], c)
        <3>1. chain'[h] = Tail(chain[h]) /\ \A a \in Hosts \ {h} : chain'[a] = chain[a]
            BY <1>1, Typed
        <3>2. Same(chain[h], chain'[h], c)
            BY <1>1, <2>1, <3>1, Typed, TailQuiet
        <3> QED
            BY <3>1, <3>2 DEF Same, Quiet
    <2>3. \A w \in Hosts : role'[w] = "killed" \/ role[w] # "killed"
        BY <1>1, <1>2, Typed DEF Live
    <2> QED
        BY <1>1, <1>5, <1>6, <2>2, <2>3, CopiesKept
<1> QED
    BY <1>4, <1>6, <1>7, <1>8, <1>9

LEMMA CloseStep == ASSUME Inv, NEW h \in Hosts, Close(h) PROVE Inv'
<1> USE DEF Inv
<1>1. /\ closing' = [closing EXCEPT ![h] = "waiting"] /\ closing[h] = "no"
      /\ UNCHANGED <<role, holder, newest, gone, chain, lock, grants, net, call, runs, crashes>>
    BY DEF Close, callVars
<1>2. TypeOK' /\ Onward
    <2>1. TypeOK'
        BY <1>1 DEF TypeOK, Message
    <2> QED
        BY <1>1, <2>1, Typed DEF Onward, Held, Holding
<1>3. MessageInv' /\ \A c : \A a, b \in Hosts : Same(net[a][b], net'[a][b], c)
    BY <1>1, <1>2, Silent
<1>4. LockInv' /\ HolderInv' /\ CallInv'
    BY <1>1 DEF LockInv, HolderInv, CallInv, Knows, Holding, Held, Live
<1>5. HostInv'
    <2>1. \A g \in Hosts : PendingOf(g)' = PendingOf(g)
        BY <1>1 DEF PendingOf
    <2> QED
        BY <1>1, <2>1, Typed DEF HostInv, Holding, Live
<1>6. CopyInv'
    BY <1>1, <1>2, <1>3, CopiesKept DEF CopyInv, Same, Quiet
<1> QED
    BY <1>2, <1>3, <1>4, <1>5, <1>6

LEMMA LoseStep == ASSUME Inv, NEW c \in Calls, Lose(c) PROVE Inv'
<1> USE DEF Inv
<1>1. /\ call[c].st = "doubted" /\ call' = [call EXCEPT ![c].st = "lost"]
      /\ UNCHANGED <<role, holder, newest, gone, closing, chain, lock, grants, net, runs, crashes>>
    BY DEF Lose, hostVars
<1>2. /\ call'[c].st = "lost" /\ call'[c].at = call[c].at /\ call'[c].to = call[c].to
      /\ \A d \in Calls \ {c} : call'[d] = call[d]
    BY <1>1 DEF TypeOK
<1>3. TypeOK' /\ Onward
    <2>1. TypeOK'
        BY <1>1 DEF TypeOK, Message, Outcomes
    <2> QED
        BY <1>1, <2>1, Typed DEF Onward, Held, Holding
<1>4. MessageInv' /\ \A d : \A a, b \in Hosts : Same(net[a][b], net'[a][b], d)
    BY <1>1, <1>3, Silent
<1>5. LockInv' /\ HolderInv' /\ CallInv'
    BY <1>1, <1>2 DEF LockInv, HolderInv, CallInv, Knows, Holding, Held, Live, Pending
<1>6. HostInv'
    <2>1. \A g \in Hosts : PendingOf(g)' \subseteq PendingOf(g)
        BY <1>1, <1>2 DEF PendingOf, Pending
    <2> QED
        BY <1>1, <2>1, Typed DEF HostInv, Holding, Live
<1>7. CopyInv'
    <2>1. ASSUME NEW d \in Calls \ RetrySafe, d # c PROVE CopyOK(d)'
        BY <1>1, <1>2, <1>3, <1>4, <2>1, CopiesKept DEF Same, Quiet
    <2>2. ASSUME c \notin RetrySafe PROVE CopyOK(c)'
        BY <1>1, <1>2, <2>2 DEF CopyInv, CopyOK, InNet, InChain, OneCopy, RunsInv, Has
    <2> QED
        BY <2>1, <2>2 DEF CopyInv
<1> QED
    BY <1>3, <1>4, <1>5, <1>6, <1>7

-----------------------------------------------------------------------------
(* A call is sent, and comes back.                                          *)

LEMMA TellOne ==
    ASSUME NEW T, NEW n \in NetOf(T), NEW h \in Hosts, NEW p \in Hosts, NEW m \in T,
           NEW msgs, msgs = <<m>>, NEW r, r = Tell(n, h, p, msgs)
    PROVE  /\ r \in NetOf(T)
           /\ \A a, b \in Hosts : r[a][b] =
                 IF a = h /\ b = p /\ p # h /\ Live(p) THEN Append(n[a][b], m) ELSE n[a][b]
<1>1. msgs \in Seq(T)
    OBVIOUS
<1>2. \A a, b \in Hosts : n[a][b] \in Seq(T)
    BY DEF NetOf
<1>3. \A a, b \in Hosts : n[a][b] \o msgs = Append(n[a][b], m)
    BY <1>2
<1> DEFINE q == Tell(n, h, p, msgs)
<1>4. /\ q \in NetOf(T)
      /\ \A a, b \in Hosts : q[a][b] =
            IF a = h /\ b = p /\ p # h /\ Live(p) THEN n[a][b] \o msgs ELSE n[a][b]
    <2>1. msgs \in Seq(T) /\ n \in NetOf(T) /\ h \in Hosts /\ p \in Hosts
        BY <1>1
    <2> QED
        BY ONLY <2>1, TellNet
<1> QED
    BY <1>3, <1>4

LEMMA NoCopies ==
    ASSUME NEW c \in Calls, CopyOK(c), call[c].st \in {"new", "unsent"}
    PROVE  runs[c] = 0 /\ \A a, b \in Hosts : ~Has(net[a][b], c) /\ ~Has(chain[a], c)
BY DEF CopyOK, InNet, InChain, RunsInv, Has

\* The only copy of the call c is its request to w.
LEMMA OutTo ==
    ASSUME NEW c \in Calls, NEW h \in Hosts, NEW w \in Hosts, h # w, runs'[c] = 0,
           call'[c].st = "sent", call'[c].at = h, call'[c].to = w,
           \A a, b \in Hosts : ~Has(chain[a], c)' /\ (a # h \/ b # w => ~Has(net[a][b], c)'),
           Once(net[h][w], c)', \A i \in DOMAIN net'[h][w] : About(net'[h][w][i], c) => net'[h][w][i].t = "request"
    PROVE  CopyOK(c)'
<1>1. InNet(c)'
    BY DEF InNet, Has
<1>2. InChain(c)' /\ RunsInv(c)'
    BY DEF InChain, RunsInv, Has
<1>3. \A a, b \in Hosts : ~Has(net[a][b], c)' => Once(net[a][b], c)'
    BY DEF Has, Once
<1>4. \A a \in Hosts : Once(chain[a], c)'
    BY DEF Has, Once
<1>5. OneCopy(c)'
    BY <1>3, <1>4 DEF OneCopy
<1> QED
    BY <1>1, <1>2, <1>5 DEF CopyOK

\* The only copy of the call c is its task at its own host.
LEMMA OwnTask ==
    ASSUME NEW c \in Calls, NEW h \in Hosts, runs'[c] = 0,
           call'[c].st = "here", call'[c].at = h, call'[c].to = h,
           \A a, b \in Hosts : ~Has(net[a][b], c)' /\ (a # h => ~Has(chain[a], c)'),
           Once(chain[h], c)', \A i \in DOMAIN chain'[h] : About(chain'[h][i], c) => chain'[h][i].from = h
    PROVE  CopyOK(c)'
<1>1. InNet(c)' /\ RunsInv(c)'
    BY DEF InNet, RunsInv, Has
<1>2. InChain(c)'
    BY DEF InChain, Has
<1>3. \A a, b \in Hosts : Once(net[a][b], c)' /\ Once(chain[a], c)'
    BY DEF Has, Once
<1>5. OneCopy(c)'
    BY <1>3 DEF OneCopy
<1> QED
    BY <1>1, <1>2, <1>5 DEF CopyOK

\* A call asked for is that of a live host, which is not closing.
LEMMA AskStep == ASSUME Inv, NEW h \in Hosts, NEW c \in Calls, Ask(h, c) PROVE Inv'
<1> USE DEF Inv
<1>1. /\ Live(h) /\ closing[h] = "no" /\ call[c].st = "new"
      /\ UNCHANGED <<role, holder, newest, gone, closing, lock, grants, runs, crashes>>
    BY DEF Ask, hostVars
<1>2. Onward /\ \A w \in Hosts : (Held(w)' <=> Held(w)) /\ (Holding(w)' <=> Holding(w)) /\ (Live(w)' <=> Live(w))
    BY <1>1, Typed DEF Onward, Held, Holding, Live
<1>3. LockInv' /\ HolderInv'
    BY <1>1 DEF LockInv, HolderInv, Knows, Held, Holding
<1>4. Message' = Message
    BY <1>1, SameClock
<1>5. c \notin RetrySafe => runs[c] = 0 /\ \A a, b \in Hosts : ~Has(net[a][b], c) /\ ~Has(chain[a], c)
    BY <1>1, NoCopies DEF CopyInv
<1>6. ASSUME NEW x, call' = [call EXCEPT ![c] = x],
             x \in [st : {"here", "sent", "unsent"}, at : {h}, to : Hosts \cup {None}],
             x.st = "here" => x.to = h, x.st = "sent" => x.to \in Hosts \ {h} /\ Knows(h, x.to)
      PROVE  /\ CallInv' /\ \A g \in Hosts : PendingOf(g)' \subseteq PendingOf(g) \cup (IF g = h THEN {c} ELSE {})
             /\ call' \in [Calls -> [st : {"new", "orphaned"} \cup Pending \cup Outcomes,
                                      at : Hosts \cup {None}, to : Hosts \cup {None}]]
             /\ call'[c] = x /\ \A d \in Calls \ {c} : call'[d] = call[d]
    <2>1. call'[c] = x /\ \A d \in Calls \ {c} : call'[d] = call[d]
        BY <1>6, Typed
    <2>2. CallInv'
        <3>1. \A d \in Calls : call'[d].st \in Pending => call'[d].at \in Hosts /\ Live(call'[d].at)
            BY <1>1, <1>6, <2>1 DEF CallInv
        <3> QED
            BY <1>1, <1>2, <1>6, <2>1, <3>1 DEF CallInv, Knows
    <2>3. call' \in [Calls -> [st : {"new", "orphaned"} \cup Pending \cup Outcomes,
                                at : Hosts \cup {None}, to : Hosts \cup {None}]]
        BY <1>6 DEF TypeOK, Pending
    <2>4. \A g \in Hosts : PendingOf(g)' \subseteq PendingOf(g) \cup (IF g = h THEN {c} ELSE {})
        BY <1>6, <2>1 DEF PendingOf
    <2> QED
        BY <2>1, <2>2, <2>3, <2>4
<1>7. CASE Holding(h)
    <2>1. /\ call' = [call EXCEPT ![c] = [st |-> "here", at |-> h, to |-> h]]
          /\ chain' = [chain EXCEPT ![h] = Append(chain[h], Task(c, h))] /\ net' = net
        BY <1>7 DEF Ask
    <2> DEFINE x == Task(c, h)
    <2>2. x \in TaskSet /\ x.t = "call" /\ x.c = c /\ x.from = h
        BY MessageTypes DEF Task
    <2> HIDE DEF x
    <2>3. /\ CallInv' /\ \A g \in Hosts : PendingOf(g)' \subseteq PendingOf(g) \cup (IF g = h THEN {c} ELSE {})
          /\ call' \in [Calls -> [st : {"new", "orphaned"} \cup Pending \cup Outcomes,
                                   at : Hosts \cup {None}, to : Hosts \cup {None}]]
          /\ call'[c].st = "here" /\ call'[c].at = h /\ call'[c].to = h
          /\ \A d \in Calls \ {c} : call'[d] = call[d]
        <3> DEFINE y == [st |-> "here", at |-> h, to |-> h]
        <3>1. /\ y \in [st : {"here", "sent", "unsent"}, at : {h}, to : Hosts \cup {None}]
              /\ y.st = "here" /\ y.at = h /\ y.to = h /\ call' = [call EXCEPT ![c] = y]
            BY <2>1
        <3> HIDE DEF y
        <3> QED
            BY <1>6, <2>1, <3>1
    <2>4. /\ chain'[h] = Append(chain[h], x) /\ chain'[h] \in Seq(TaskSet) /\ \A g \in Hosts \ {h} : chain'[g] = chain[g]
          /\ \A i \in DOMAIN chain'[h] : chain'[h][i] = x \/ (i \in DOMAIN chain[h] /\ chain'[h][i] = chain[h][i])
        BY <2>1, <2>2, Typed, AppendSeq DEF x
    <2>5. TypeOK'
        BY <1>1, <1>4, <2>1, <2>3, <2>4 DEF TypeOK
    <2>6. MessageInv' /\ \A d : \A a, b \in Hosts : Same(net[a][b], net'[a][b], d)
        BY <1>1, <1>2, <2>1, Silent
    <2>7. HostInv'
        BY <1>1, <1>2, <1>7, <2>1, <2>2, <2>3, <2>4, Typed DEF HostInv
    <2>8. CopyInv'
        <3>1. ASSUME NEW d \in Calls \ RetrySafe, d # c PROVE CopyOK(d)'
            <4>1. Same(chain[h], chain'[h], d)
                <5>1. ~About(x, d)
                    BY <2>2, <3>1 DEF About
                <5> QED
                    BY <2>2, <2>4, <5>1, Typed, AppendOther
            <4>2. \A g \in Hosts : Same(chain[g], chain'[g], d)
                BY <2>4, <4>1 DEF Same, Quiet
            <4> QED
                BY <1>1, <1>2, <2>3, <2>6, <3>1, <4>2, CopiesKept
        <3>2. ASSUME c \notin RetrySafe PROVE CopyOK(c)'
            <4>1. Once(chain'[h], c) /\ \A i \in DOMAIN chain'[h] : About(chain'[h][i], c) => chain'[h][i] = x
                BY <1>5, <2>2, <2>4, <3>2, Typed, AppendIt DEF About
            <4> QED
                BY <1>1, <1>5, <2>1, <2>2, <2>3, <2>4, <3>2, <4>1, OwnTask DEF Has
        <3> QED
            BY <3>1, <3>2 DEF CopyInv
    <2> QED
        BY <1>3, <2>3, <2>5, <2>6, <2>7, <2>8
<1>8. CASE ~Holding(h) /\ holder[h] # None
    <2> DEFINE w == holder[h]
               m == Request(c)
    <2>1. /\ call' = [call EXCEPT ![c] = [st |-> "sent", at |-> h, to |-> w]]
          /\ net' = Tell(net, h, w, <<m>>) /\ chain' = chain
        BY <1>8 DEF Ask
    <2>2. w \in Hosts \ {h} /\ Knows(h, w)
        BY <1>1, <1>8, Typed DEF HolderInv, Knows, Held, Holding, Live
    <2>3. m \in Message /\ m.t = "request" /\ m.c = c
        BY MessageTypes DEF Request
    <2> HIDE DEF m, w
    <2>4. /\ CallInv' /\ \A g \in Hosts : PendingOf(g)' \subseteq PendingOf(g) \cup (IF g = h THEN {c} ELSE {})
          /\ call' \in [Calls -> [st : {"new", "orphaned"} \cup Pending \cup Outcomes,
                                   at : Hosts \cup {None}, to : Hosts \cup {None}]]
          /\ call'[c].st = "sent" /\ call'[c].at = h /\ call'[c].to = w
          /\ \A d \in Calls \ {c} : call'[d] = call[d]
        <3> DEFINE y == [st |-> "sent", at |-> h, to |-> w]
        <3>1. /\ y \in [st : {"here", "sent", "unsent"}, at : {h}, to : Hosts \cup {None}]
              /\ y.st = "sent" /\ y.at = h /\ y.to = w /\ call' = [call EXCEPT ![c] = y]
            BY <2>1, <2>2
        <3> HIDE DEF y
        <3> QED
            BY <1>6, <2>1, <2>2, <3>1
    <2>5. /\ net' \in NetOf(Message)
          /\ \A a, b \in Hosts : net'[a][b] = IF a = h /\ b = w /\ w # h /\ Live(w) THEN Append(net[a][b], m) ELSE net[a][b]
        <3> DEFINE msgs == <<m>>
        <3>1. msgs \in Seq(Message) /\ Len(msgs) = 1 /\ msgs[1] = m /\ net' = Tell(net, h, w, msgs)
            BY <2>1, <2>3
        <3>2. net \in NetOf(Message)
            BY Typed
        <3> HIDE DEF msgs
        <3> QED
            BY <2>2, <3>1, <3>2, TellOne
    <2>6. TypeOK'
        BY <1>1, <1>4, <2>1, <2>4, <2>5 DEF TypeOK, NetOf
    <2>7. \A a, b \in Hosts : ChannelStep(a, b, IF a = h THEN {m} ELSE {}) /\ net[a][b] \in Seq(Message')
        BY <1>1, <1>4, <2>3, <2>5, Typed DEF ChannelStep, Live
    <2>8. MessageInv'
        <3> DEFINE M == [a \in Hosts |-> [b \in Hosts |-> IF a = h THEN {m} ELSE {}]]
        <3>1. \A a, b \in Hosts : M[a][b] = IF a = h THEN {m} ELSE {}
            OBVIOUS
        <3>2. \A a, b \in Hosts : \A x \in M[a][b] : x.t # "holder" /\ x.t # "released"
            BY <2>3
        <3> HIDE DEF M
        <3>3. \A a, b \in Hosts : ChannelStep(a, b, M[a][b]) /\ net[a][b] \in Seq(Message')
            BY <2>7, <3>1
        <3> QED
            BY <1>2, <3>3, <3>2, MessagesKept
    <2>9. HostInv'
        <3>1. \A g \in Hosts : ~Live(g)' => \A a \in Hosts : net'[a][g] = <<>>
            BY <1>2, <2>2, <2>5 DEF HostInv
        <3> QED
            BY <1>1, <1>2, <2>1, <2>4, <3>1, Typed DEF HostInv
    <2>10. CopyInv'
        <3>1. ASSUME NEW d \in Calls \ RetrySafe, d # c PROVE CopyOK(d)'
            <4>1. \A a, b \in Hosts : Same(net[a][b], net'[a][b], d)
                <5>1. ~About(m, d)
                    BY <2>3, <3>1 DEF About
                <5>2. \A a, b \in Hosts : net[a][b] \in Seq(Message) /\ Same(net[a][b], net[a][b], d)
                    BY Typed DEF Same, Quiet
                <5>3. \A a, b \in Hosts : Same(net[a][b], Append(net[a][b], m), d)
                    BY <2>3, <5>1, <5>2, AppendOther
                <5> QED
                    BY <2>5, <5>2, <5>3
            <4> QED
                BY <1>1, <1>2, <2>1, <2>4, <3>1, <4>1, CopiesKept DEF Same, Quiet
        <3>2. ASSUME c \notin RetrySafe PROVE CopyOK(c)'
            <4>1. Once(net'[h][w], c) /\ \A i \in DOMAIN net'[h][w] : About(net'[h][w][i], c) => net'[h][w][i] = m
                <5>1. CASE net'[h][w] = net[h][w]
                    BY <1>5, <2>2, <3>2, <5>1 DEF Once, Has
                <5>2. CASE net'[h][w] = Append(net[h][w], m)
                    <6>1. About(m, c) /\ net[h][w] \in Seq(Message) /\ ~Has(net[h][w], c)
                        BY <1>5, <2>2, <2>3, <3>2, Typed DEF About
                    <6> QED
                        BY <2>3, <5>2, <6>1, AppendIt
                <5> QED
                    BY <2>2, <2>5, <5>1, <5>2
            <4> QED
                BY <1>1, <1>5, <2>1, <2>2, <2>3, <2>4, <2>5, <3>2, <4>1, OutTo DEF Has
        <3> QED
            BY <3>1, <3>2 DEF CopyInv
    <2> QED
        BY <1>3, <2>4, <2>6, <2>8, <2>9, <2>10
<1>9. CASE ~Holding(h) /\ holder[h] = None
    <2>1. /\ call' = [call EXCEPT ![c] = [st |-> "unsent", at |-> h, to |-> None]]
          /\ net' = net /\ chain' = chain
        BY <1>9 DEF Ask
    <2>4. /\ CallInv' /\ \A g \in Hosts : PendingOf(g)' \subseteq PendingOf(g) \cup (IF g = h THEN {c} ELSE {})
          /\ call' \in [Calls -> [st : {"new", "orphaned"} \cup Pending \cup Outcomes,
                                   at : Hosts \cup {None}, to : Hosts \cup {None}]]
          /\ call'[c].st = "unsent" /\ call'[c].at = h /\ call'[c].to = None
          /\ \A d \in Calls \ {c} : call'[d] = call[d]
        <3> DEFINE y == [st |-> "unsent", at |-> h, to |-> None]
        <3>1. /\ y \in [st : {"here", "sent", "unsent"}, at : {h}, to : Hosts \cup {None}]
              /\ y.st = "unsent" /\ y.at = h /\ y.to = None /\ call' = [call EXCEPT ![c] = y]
            BY <2>1
        <3> HIDE DEF y
        <3> QED
            BY <1>6, <2>1, <3>1
    <2>5. TypeOK'
        BY <1>1, <1>4, <2>1, <2>4 DEF TypeOK
    <2>6. MessageInv' /\ \A d : \A a, b \in Hosts : Same(net[a][b], net'[a][b], d)
        BY <1>1, <1>2, <2>1, Silent
    <2>7. HostInv'
        BY <1>1, <1>2, <2>1, <2>4, Typed DEF HostInv
    <2>8. CopyInv'
        <3>1. ASSUME NEW d \in Calls \ RetrySafe, d # c PROVE CopyOK(d)'
            BY <1>1, <1>2, <2>1, <2>4, <2>6, <3>1, CopiesKept DEF Same, Quiet
        <3>2. ASSUME c \notin RetrySafe PROVE CopyOK(c)'
            BY <1>1, <1>5, <2>1, <2>4, <3>2 DEF CopyOK, InNet, InChain, OneCopy, RunsInv, Has, Once
        <3> QED
            BY <3>1, <3>2 DEF CopyInv
    <2> QED
        BY <1>3, <2>4, <2>5, <2>6, <2>7, <2>8
<1> QED
    BY <1>7, <1>8, <1>9

\* Where a call's one copy is, there is no other.
LEMMA OnlyTask ==
    ASSUME NEW c \in Calls, CopyOK(c), NEW h \in Hosts, Has(chain[h], c)
    PROVE  /\ call[c].to = h /\ \A g \in Hosts \ {h} : ~Has(chain[g], c)
           /\ \A a, b \in Hosts : ~Has(net[a][b], c)
<1>1. call[c].to = h /\ \A g \in Hosts \ {h} : ~Has(chain[g], c)
    BY DEF CopyOK, InChain, Has
<1>2. \A a, b \in Hosts : Has(net[a][b], c) => a = h \/ b = h
    BY <1>1 DEF CopyOK, InNet, Has
<1>3. \A a, b \in Hosts : Has(net[a][b], c) => ~Has(chain[a], c) /\ ~Has(chain[b], c)
    BY DEF CopyOK, OneCopy
<1> QED
    BY <1>1, <1>2, <1>3

LEMMA OnlyMessage ==
    ASSUME NEW c \in Calls, CopyOK(c), NEW f \in Hosts, NEW h \in Hosts, Has(net[f][h], c)
    PROVE  /\ \A g \in Hosts : ~Has(chain[g], c)
           /\ \A a, b \in Hosts : a # f \/ b # h => ~Has(net[a][b], c)
           /\ (f = call[c].at /\ h = call[c].to) \/ (f = call[c].to /\ h = call[c].at)
<1>1. (f = call[c].at /\ h = call[c].to) \/ (f = call[c].to /\ h = call[c].at)
    BY DEF CopyOK, InNet, Has
<1>2. \A a, b \in Hosts : Has(net[a][b], c) => (a = f /\ b = h) \/ (a = h /\ b = f)
    BY <1>1 DEF CopyOK, InNet, Has
<1>3. ~Has(net[h][f], c) /\ ~Has(chain[f], c) /\ ~Has(chain[h], c)
    BY DEF CopyOK, OneCopy
<1>4. \A g \in Hosts : ~Has(chain[g], c)
    BY <1>1, <1>3 DEF CopyOK, InChain, Has
<1>5. f # h
    BY DEF CopyOK, InNet, Has
<1> QED
    BY <1>1, <1>2, <1>3, <1>4, <1>5

LEMMA TaskFields ==
    ASSUME NEW x \in TaskSet, x.t = "call"
    PROVE  x.c \in Calls /\ x.from \in Hosts /\ x.ran \in {"no", "answered", "failed"}
BY DEF TaskSet

LEMMA RanSeq ==
    ASSUME NEW s \in Seq(TaskSet), s # <<>>, s[1].t = "call", NEW outcome \in {"answered", "failed"}
    PROVE  /\ Ran(s, outcome) \in Seq(TaskSet) /\ DOMAIN Ran(s, outcome) = DOMAIN s /\ Len(Ran(s, outcome)) = Len(s)
           /\ 1 \in DOMAIN s /\ \A i \in DOMAIN s : i # 1 => Ran(s, outcome)[i] = s[i]
           /\ Ran(s, outcome)[1] = [t |-> "call", c |-> s[1].c, from |-> s[1].from, ran |-> outcome]
<1> DEFINE x == [t |-> "call", c |-> s[1].c, from |-> s[1].from, ran |-> outcome]
<1>1. 1 \in DOMAIN s /\ s[1] \in TaskSet
    OBVIOUS
<1>2. x \in TaskSet
    BY <1>1, TaskFields DEF TaskSet
<1>3. Ran(s, outcome) = [s EXCEPT ![1] = x]
    BY DEF Ran
<1> HIDE DEF x
<1>4. [s EXCEPT ![1] = x] \in Seq(TaskSet)
    BY <1>1, <1>2
<1>5. /\ DOMAIN [s EXCEPT ![1] = x] = DOMAIN s /\ [s EXCEPT ![1] = x][1] = x
      /\ \A i \in DOMAIN s : i # 1 => [s EXCEPT ![1] = x][i] = s[i]
    BY <1>1
<1>6. Len([s EXCEPT ![1] = x]) = Len(s)
    BY <1>4, <1>5
<1> QED
    BY <1>1, <1>3, <1>4, <1>5, <1>6 DEF x

LEMMA PerformStep == ASSUME Inv, NEW h \in Hosts, Perform(h) PROVE Inv'
<1> USE DEF Inv
<1>1. /\ chain[h] # <<>> /\ chain[h][1].t = "call" /\ chain[h][1].ran = "no" /\ chain[h][1] \in TaskSet
      /\ UNCHANGED <<role, holder, newest, gone, closing, lock, grants, net, call, crashes>>
      /\ \E o \in {"answered", "failed"} :
            /\ chain' = [chain EXCEPT ![h] = Ran(chain[h], o)]
            /\ runs' = IF o = "failed" THEN runs ELSE [runs EXCEPT ![chain[h][1].c] = runs[chain[h][1].c] + 1]
    BY Typed, TailSeq DEF Perform, hostVars
<1>2. PICK outcome \in {"answered", "failed"}, task \in TaskSet, c \in Calls :
            /\ task = chain[h][1] /\ c = task.c
            /\ chain' = [chain EXCEPT ![h] = Ran(chain[h], outcome)]
            /\ runs' = IF outcome = "failed" THEN runs ELSE [runs EXCEPT ![c] = runs[c] + 1]
    BY <1>1, TaskFields
<1> DEFINE s == chain[h]
           t == chain'[h]
<1>3. /\ t \in Seq(TaskSet) /\ DOMAIN t = DOMAIN s /\ Len(t) = Len(s) /\ 1 \in DOMAIN s
      /\ \A i \in DOMAIN s : i # 1 => t[i] = s[i]
      /\ t[1].t = "call" /\ t[1].c = c /\ t[1].from = task.from /\ t[1].ran = outcome
      /\ \A g \in Hosts \ {h} : chain'[g] = chain[g]
    <2> DEFINE r == Ran(chain[h], outcome)
    <2>1. /\ r \in Seq(TaskSet) /\ DOMAIN r = DOMAIN s /\ Len(r) = Len(s) /\ 1 \in DOMAIN s
          /\ \A i \in DOMAIN s : i # 1 => r[i] = s[i]
          /\ r[1] = [t |-> "call", c |-> chain[h][1].c, from |-> chain[h][1].from, ran |-> outcome]
        <3>1. chain[h] \in Seq(TaskSet) /\ chain[h] # <<>> /\ chain[h][1].t = "call"
            BY <1>1, Typed
        <3> QED
            BY ONLY <3>1, outcome \in {"answered", "failed"}, RanSeq
    <2> HIDE DEF r
    <2>2. t = r /\ \A g \in Hosts \ {h} : chain'[g] = chain[g]
        BY <1>2, Typed DEF r
    <2> QED
        BY <1>2, <2>1, <2>2
<1> HIDE DEF s, t
<1>4. \A d : /\ Once(s, d) => Once(t, d)
             /\ Has(s, d) <=> Has(t, d)
             /\ d # c => Same(s, t, d)
    <2>1. \A i \in DOMAIN s : \A d : About(t[i], d) <=> About(s[i], d)
        BY <1>1, <1>2, <1>3 DEF About, s
    <2>2. \A d : d # c => \A i \in DOMAIN s : About(t[i], d) => t[i] = s[i]
        BY <1>3 DEF About
    <2> QED
        BY <1>3, <2>1, <2>2 DEF Once, Has, Same, Quiet
<1>5. TypeOK'
    <2>1. runs' \in [Calls -> Nat] /\ chain' \in [Hosts -> Seq(TaskSet)]
        BY <1>1, <1>2, <1>3 DEF TypeOK, t
    <2> QED
        BY <1>1, <2>1 DEF TypeOK, Message
<1>6. Onward
    BY <1>1, Typed DEF Onward, Held, Holding
<1>7. MessageInv' /\ \A d : \A a, b \in Hosts : Same(net[a][b], net'[a][b], d)
    BY <1>1, <1>6, Silent
<1>8. LockInv' /\ HolderInv' /\ CallInv'
    BY <1>1 DEF LockInv, HolderInv, CallInv, Knows, Held, Holding, Live
<1>9. HostInv'
    <2>1. \A g \in Hosts : PendingOf(g)' = PendingOf(g)
        BY <1>1 DEF PendingOf
    <2>2. Holding(h)
        BY <1>1 DEF HostInv
    <2>3. \A i \in DOMAIN t : t[i].t = "quit" => i = Len(t) /\ closing[h] = "stopping"
        BY <1>3 DEF HostInv, s
    <2> QED
        BY <1>1, <1>3, <2>1, <2>2, <2>3 DEF HostInv, Holding, Live, t
<1>10. CopyInv'
    <2>1. ASSUME NEW d \in Calls \ RetrySafe, d # c PROVE CopyOK(d)'
        <3>1. \A g \in Hosts : Same(chain[g], chain'[g], d)
            BY <1>3, <1>4, <2>1 DEF Same, Quiet, s, t
        <3>2. runs'[d] = runs[d]
            BY <1>1, <1>2, <2>1, Typed
        <3> QED
            BY <1>1, <1>6, <1>7, <3>1, <3>2, CopiesKept
    <2>2. ASSUME c \notin RetrySafe PROVE CopyOK(c)'
        <3>1. CopyOK(c) /\ Has(chain[h], c)
            BY <1>1, <1>2, <1>3, <2>2 DEF CopyInv, Has, About, s
        <3>2. /\ call[c].to = h /\ \A g \in Hosts \ {h} : ~Has(chain[g], c)
              /\ \A a, b \in Hosts : ~Has(net[a][b], c)
            BY <1>1, <3>1, OnlyTask
        <3>3. runs[c] = 0 /\ task.from = call[c].at /\ call[c].st \notin {"new", "unsent"}
              /\ (call[c].st = "here" <=> h = call[c].at)
            BY <1>1, <1>2, <1>3, <3>1 DEF CopyOK, InChain, About, s
        <3>4. runs'[c] = IF outcome = "failed" THEN 0 ELSE 1
            BY <1>1, <1>2, <3>3, Typed
        <3>5. /\ Once(t, c) /\ Has(t, c) /\ \A i \in DOMAIN t : About(t[i], c) => i = 1
            <4>1. Once(t, c) /\ Has(t, c)
                BY <1>4, <3>1 DEF CopyOK, OneCopy, s
            <4>2. About(t[1], c)
                BY <1>3 DEF About
            <4> QED
                BY <1>3, <4>1, <4>2 DEF Once
        <3>6. InNet(c)'
            BY <1>1, <3>2 DEF InNet, Has
        <3>7. InChain(c)'
            BY <1>1, <1>2, <1>3, <3>2, <3>3, <3>4, <3>5 DEF InChain, Has, t
        <3>8. OneCopy(c)'
            BY <1>1, <1>3, <3>2, <3>5 DEF OneCopy, Has, Once, t
        <3>9. RunsInv(c)'
            BY <1>1, <3>2, <3>3, <3>4, <3>5 DEF RunsInv, t
        <3> QED
            BY <3>6, <3>7, <3>8, <3>9 DEF CopyOK
    <2> QED
        BY <2>1, <2>2 DEF CopyInv
<1> QED
    BY <1>5, <1>7, <1>8, <1>9, <1>10

\* No copy of the call c is left.
LEMMA NoMore ==
    ASSUME NEW c \in Calls, runs'[c] \in {0, 1},
           call'[c].st \in {"new", "unsent", "sent", "doubted"} => runs'[c] = 0,
           \A a, b \in Hosts : ~Has(net[a][b], c)' /\ ~Has(chain[a], c)'
    PROVE  CopyOK(c)'
<1>1. InNet(c)' /\ InChain(c)' /\ RunsInv(c)'
    BY DEF InNet, InChain, RunsInv, Has
<1>2. \A a, b \in Hosts : Once(net[a][b], c)' /\ Once(chain[a], c)'
    BY DEF Has, Once
<1>3. OneCopy(c)'
    BY <1>2 DEF OneCopy
<1> QED
    BY <1>1, <1>3 DEF CopyOK

\* The only copy of the call c is its answer from w.
LEMMA OutFrom ==
    ASSUME NEW c \in Calls, NEW h \in Hosts, NEW w \in Hosts, h # w, runs'[c] \in {0, 1},
           call'[c].st \notin {"new", "unsent", "here"}, call'[c].at = h, call'[c].to = w,
           \A a, b \in Hosts : ~Has(chain[a], c)' /\ (a # w \/ b # h => ~Has(net[a][b], c)'),
           Once(net[w][h], c)', Has(net[w][h], c)',
           \A i \in DOMAIN net'[w][h] : About(net'[w][h][i], c) =>
              net'[w][h][i].t = "response" /\ (net'[w][h][i].st = "retry" => runs'[c] = 0)
    PROVE  CopyOK(c)'
<1>1. InNet(c)'
    BY DEF InNet, Has
<1>2. InChain(c)' /\ RunsInv(c)'
    BY DEF InChain, RunsInv, Has
<1>3. \A a, b \in Hosts : ~Has(net[a][b], c)' => Once(net[a][b], c)'
    BY DEF Has, Once
<1>4. \A a \in Hosts : Once(chain[a], c)'
    BY DEF Has, Once
<1>5. OneCopy(c)'
    BY <1>3, <1>4 DEF OneCopy
<1> QED
    BY <1>1, <1>2, <1>5 DEF CopyOK

\* A message from h to w is sent.
LEMMA Told ==
    ASSUME NEW n \in NetOf(Message), NEW h \in Hosts, NEW w \in Hosts, NEW m \in Message,
           net' = Tell(n, h, w, <<m>>)
    PROVE  /\ net' \in NetOf(Message)
           /\ \A a, b \in Hosts : net'[a][b] =
                 IF a = h /\ b = w /\ w # h /\ Live(w) THEN Append(n[a][b], m) ELSE n[a][b]
<1> DEFINE msgs == <<m>>
<1>1. msgs \in Seq(Message) /\ Len(msgs) = 1 /\ msgs[1] = m /\ net' = Tell(n, h, w, msgs)
    OBVIOUS
<1> HIDE DEF msgs
<1> QED
    BY <1>1, TellOne

\* The first task is done: what HostInv says of the rest.
LEMMA Shifted ==
    ASSUME TypeOK, HostInv, NEW h \in Hosts, chain[h] # <<>>, chain' = [chain EXCEPT ![h] = Tail(chain[h])]
    PROVE  /\ chain'[h] = Tail(chain[h]) /\ chain'[h] \in Seq(TaskSet)
           /\ \A g \in Hosts \ {h} : chain'[g] = chain[g]
           /\ \A g \in Hosts : \A i \in DOMAIN chain'[g] :
                 chain'[g][i].t = "quit" => i = Len(chain'[g]) /\ closing[g] = "stopping"
           /\ \A g \in Hosts : ~Holding(g) => chain'[g] = <<>>
           /\ \A c : ~About(chain[h][1], c) => \A g \in Hosts : Same(chain[g], chain'[g], c)
           /\ \A c : About(chain[h][1], c) /\ Once(chain[h], c) => ~Has(chain'[h], c)
<1>1. /\ chain'[h] = Tail(chain[h]) /\ chain'[h] \in Seq(TaskSet) /\ chain[h] \in Seq(TaskSet)
      /\ \A g \in Hosts \ {h} : chain'[g] = chain[g]
    BY Typed, TailSeq
<1>2. \A i \in DOMAIN chain'[h] : chain'[h][i] = chain[h][i + 1] /\ i + 1 \in DOMAIN chain[h]
                                  /\ (i + 1 = Len(chain[h]) => i = Len(chain'[h]))
    <2> DEFINE s == chain[h]
    <2>1. s \in Seq(TaskSet) /\ s # <<>>
        BY <1>1
    <2> HIDE DEF s
    <2>2. /\ Len(Tail(s)) = Len(s) - 1 /\ Len(s) \in Nat
          /\ \A i \in DOMAIN Tail(s) : i \in Nat /\ i + 1 \in DOMAIN s /\ Tail(s)[i] = s[i + 1]
        BY <2>1, TailSeq
    <2> DEFINE t == Tail(s)
    <2>3. chain'[h] = t
        BY <1>1 DEF s
    <2> HIDE DEF t
    <2>4. \A i \in DOMAIN t : t[i] = s[i + 1] /\ i + 1 \in DOMAIN s /\ (i + 1 = Len(s) => i = Len(t))
        BY <2>2 DEF t
    <2> QED
        BY <2>3, <2>4 DEF s
<1>3. \A g \in Hosts : \A i \in DOMAIN chain'[g] :
          chain'[g][i].t = "quit" => i = Len(chain'[g]) /\ closing[g] = "stopping"
    BY <1>1, <1>2 DEF HostInv
<1>4. \A g \in Hosts : ~Holding(g) => chain'[g] = <<>>
    BY <1>1 DEF HostInv
<1>5. ASSUME NEW c, ~About(chain[h][1], c), NEW g \in Hosts PROVE Same(chain[g], chain'[g], c)
    BY <1>1, <1>5, TailQuiet DEF Same, Quiet
<1>6. ASSUME NEW c, About(chain[h][1], c), Once(chain[h], c) PROVE ~Has(chain'[h], c)
    BY <1>1, <1>6, TailQuiet
<1> QED
    BY <1>1, <1>3, <1>4, <1>5, <1>6

\* Some calls have another state.
LEMMA PendingShrinks ==
    ASSUME \A c \in Calls : call'[c].at = call[c].at /\ (call'[c].st \in Pending => call[c].st \in Pending)
    PROVE  \A g \in Hosts : PendingOf(g)' \subseteq PendingOf(g)
BY DEF PendingOf

LEMMA AnswerStep == ASSUME Inv, NEW h \in Hosts, Answer(h) PROVE Inv'
<1> USE DEF Inv
<1>1. /\ chain[h] # <<>> /\ chain[h][1].t = "call" /\ chain[h][1].ran # "no" /\ chain[h][1] \in TaskSet
      /\ chain[h][1] = Head(chain[h])
    BY Typed, TailSeq DEF Answer
<1>2. PICK task \in TaskSet, c \in Calls, w \in Hosts, ran \in {"answered", "failed"} :
          task = chain[h][1] /\ task.t = "call" /\ c = task.c /\ w = task.from /\ ran = task.ran
    BY <1>1, TaskFields
<1>3. /\ chain' = [chain EXCEPT ![h] = Tail(chain[h])]
      /\ IF w = h THEN call' = [call EXCEPT ![c].st = ran] /\ net' = net
                  ELSE net' = Tell(net, h, w, <<Response(c, ran)>>) /\ call' = call
      /\ UNCHANGED <<role, holder, newest, gone, closing, lock, grants, runs, crashes>>
    BY <1>1, <1>2 DEF Answer, hostVars
<1>4. /\ chain'[h] = Tail(chain[h]) /\ chain'[h] \in Seq(TaskSet)
      /\ \A g \in Hosts \ {h} : chain'[g] = chain[g]
      /\ \A g \in Hosts : \A i \in DOMAIN chain'[g] :
            chain'[g][i].t = "quit" => i = Len(chain'[g]) /\ closing[g] = "stopping"
      /\ \A g \in Hosts : ~Holding(g) => chain'[g] = <<>>
      /\ \A d : ~About(chain[h][1], d) => \A g \in Hosts : Same(chain[g], chain'[g], d)
      /\ \A d : About(chain[h][1], d) /\ Once(chain[h], d) => ~Has(chain'[h], d)
    BY <1>1, <1>3, Shifted
<1>5. Onward /\ \A g \in Hosts : (Held(g)' <=> Held(g)) /\ (Holding(g)' <=> Holding(g)) /\ (Live(g)' <=> Live(g))
    BY <1>3, Typed DEF Onward, Held, Holding, Live
<1>6. LockInv' /\ HolderInv'
    BY <1>3 DEF LockInv, HolderInv, Knows, Held, Holding
<1>7. \A d \in Calls \ {c} : \A g \in Hosts : Same(chain[g], chain'[g], d)
    <2>1. \A d \in Calls \ {c} : ~About(chain[h][1], d)
        BY <1>2 DEF About
    <2> QED
        BY <1>4, <2>1
<1>8. c \notin RetrySafe => /\ CopyOK(c) /\ runs'[c] \in {0, 1}
                            /\ \A a, b \in Hosts : ~Has(net[a][b], c) /\ ~Has(chain[a], c)'
                            /\ call[c].to = h /\ call[c].at = w /\ call[c].st \notin {"new", "unsent"}
                            /\ (call[c].st = "here" <=> h = w)
    <2> SUFFICES ASSUME c \notin RetrySafe
                 PROVE  /\ CopyOK(c) /\ runs'[c] \in {0, 1}
                        /\ \A a, b \in Hosts : ~Has(net[a][b], c) /\ ~Has(chain[a], c)'
                        /\ call[c].to = h /\ call[c].at = w /\ call[c].st \notin {"new", "unsent"}
                        /\ (call[c].st = "here" <=> h = w)
        OBVIOUS
    <2>1. CopyOK(c) /\ runs'[c] \in {0, 1}
        BY <1>3 DEF CopyInv, CopyOK, RunsInv
    <2>2. About(chain[h][1], c) /\ 1 \in DOMAIN chain[h] /\ Has(chain[h], c)
        BY <1>1, <1>2, Typed, TailSeq DEF About, Has
    <2>3. /\ call[c].to = h /\ \A g \in Hosts \ {h} : ~Has(chain[g], c)
          /\ \A a, b \in Hosts : ~Has(net[a][b], c)
        BY <2>1, <2>2, OnlyTask
    <2>4. ~Has(chain'[h], c)
        BY <1>4, <2>1, <2>2 DEF CopyOK, OneCopy
    <2>5. \A a \in Hosts : ~Has(chain[a], c)'
        BY <1>4, <2>3, <2>4 DEF Has
    <2>6. call[c].at = w /\ call[c].st \notin {"new", "unsent"} /\ (call[c].st = "here" <=> h = w)
        BY <1>2, <2>1, <2>2 DEF CopyOK, InChain
    <2> QED
        BY <2>1, <2>3, <2>5, <2>6
<1>9. CASE w = h
    <2>1. /\ call' = [call EXCEPT ![c].st = ran] /\ net' = net
          /\ call'[c].st = ran /\ call'[c].at = call[c].at /\ call'[c].to = call[c].to
          /\ \A d \in Calls \ {c} : call'[d] = call[d]
        BY <1>3, <1>9 DEF TypeOK
    <2>2. TypeOK'
        <3>1. call' \in [Calls -> [st : {"new", "orphaned"} \cup Pending \cup Outcomes,
                                    at : Hosts \cup {None}, to : Hosts \cup {None}]]
            BY <2>1 DEF TypeOK, Outcomes
        <3> QED
            BY <1>3, <1>4, <2>1, <3>1 DEF TypeOK, Message
    <2>3. MessageInv' /\ \A d : \A a, b \in Hosts : Same(net[a][b], net'[a][b], d)
        BY <1>3, <1>5, <2>1, Silent
    <2>4. HostInv'
        <3>1. \A g \in Hosts : PendingOf(g)' \subseteq PendingOf(g)
            BY <2>1, PendingShrinks DEF Pending
        <3> QED
            BY <1>3, <1>4, <1>5, <2>1, <3>1 DEF HostInv
    <2>5. CallInv'
        BY <1>3, <1>5, <2>1 DEF CallInv, Knows, Pending
    <2>6. CopyInv'
        <3>1. ASSUME NEW d \in Calls \ RetrySafe, d # c PROVE CopyOK(d)'
            BY <1>3, <1>5, <1>7, <2>1, <2>3, <3>1, CopiesKept
        <3>2. ASSUME c \notin RetrySafe PROVE CopyOK(c)'
            BY <1>8, <2>1, <3>2, NoMore
        <3> QED
            BY <3>1, <3>2 DEF CopyInv
    <2> QED
        BY <1>6, <2>2, <2>3, <2>4, <2>5, <2>6
<1>10. CASE w # h
    <2> DEFINE m == Response(c, ran)
    <2>1. m \in Message /\ m.t = "response" /\ m.c = c /\ m.st = ran /\ net' = Tell(net, h, w, <<m>>)
        BY <1>3, <1>10, MessageTypes DEF Response
    <2> HIDE DEF m
    <2>2. call' = call /\ Message' = Message
        BY <1>3, <1>10, SameClock
    <2>3. /\ net' \in NetOf(Message)
          /\ \A a, b \in Hosts : net'[a][b] = IF a = h /\ b = w /\ Live(w) THEN Append(net[a][b], m) ELSE net[a][b]
        <3>1. net \in NetOf(Message)
            BY Typed
        <3> QED
            BY <1>10, <2>1, <3>1, Told
    <2>4. TypeOK'
        BY <1>3, <1>4, <2>2, <2>3 DEF TypeOK, NetOf
    <2>5. MessageInv'
        <3> DEFINE M == [a \in Hosts |-> [b \in Hosts |-> IF a = h THEN {m} ELSE {}]]
        <3>1. \A a, b \in Hosts : M[a][b] = IF a = h THEN {m} ELSE {}
            OBVIOUS
        <3>2. \A a, b \in Hosts : \A x \in M[a][b] : x.t # "holder" /\ x.t # "released"
            BY <2>1
        <3> HIDE DEF M
        <3>3. role[h] # "closed"
            BY <1>1 DEF HostInv, Holding
        <3>4. \A a, b \in Hosts : ChannelStep(a, b, IF a = h THEN {m} ELSE {}) /\ net[a][b] \in Seq(Message')
            BY <2>1, <2>2, <2>3, <3>3, Typed DEF ChannelStep
        <3>5. \A a, b \in Hosts : ChannelStep(a, b, M[a][b]) /\ net[a][b] \in Seq(Message')
            BY <3>1, <3>4
        <3> QED
            BY <1>5, <3>2, <3>5, MessagesKept
    <2>6. HostInv' /\ CallInv'
        <3>1. \A g \in Hosts : ~Live(g)' => \A a \in Hosts : net'[a][g] = <<>>
            BY <1>5, <2>3 DEF HostInv
        <3>2. \A g \in Hosts : PendingOf(g)' = PendingOf(g)
            BY <2>2 DEF PendingOf
        <3>3. HostInv'
            BY <1>3, <1>4, <1>5, <3>1, <3>2 DEF HostInv
        <3> QED
            BY <1>3, <1>5, <2>2, <3>3 DEF CallInv, Knows
    <2>7. \A d \in Calls \ {c} : \A a, b \in Hosts : Same(net[a][b], net'[a][b], d)
        <3>1. \A d \in Calls \ {c} : ~About(m, d)
            BY <2>1 DEF About
        <3>2. \A a, b \in Hosts : net[a][b] \in Seq(Message)
            BY Typed
        <3>3. \A d \in Calls \ {c} : \A a, b \in Hosts : Same(net[a][b], Append(net[a][b], m), d)
            BY <2>1, <3>1, <3>2, AppendOther
        <3>4. ASSUME NEW d \in Calls \ {c}, NEW a \in Hosts, NEW b \in Hosts PROVE Same(net[a][b], net'[a][b], d)
            <4>1. CASE net'[a][b] = net[a][b]
                BY <4>1 DEF Same, Quiet
            <4>2. CASE net'[a][b] = Append(net[a][b], m)
                BY <3>3, <4>2
            <4> QED
                BY <2>3, <4>1, <4>2
        <3> QED
            BY <3>4
    <2>8. CopyInv'
        <3>1. ASSUME NEW d \in Calls \ RetrySafe, d # c PROVE CopyOK(d)'
            BY <1>3, <1>5, <1>7, <2>2, <2>7, <3>1, CopiesKept
        <3>2. ASSUME c \notin RetrySafe PROVE CopyOK(c)'
            <4>1. CASE Live(w)
                <5>1. net'[h][w] = Append(net[h][w], m)
                    BY <2>3, <4>1
                <5>2. /\ Once(net'[h][w], c) /\ Has(net'[h][w], c)
                      /\ \A i \in DOMAIN net'[h][w] : About(net'[h][w][i], c) => net'[h][w][i] = m
                    <6>1. About(m, c) /\ net[h][w] \in Seq(Message) /\ ~Has(net[h][w], c)
                        BY <1>8, <2>1, <3>2, Typed DEF About
                    <6> DEFINE q == net[h][w]
                    <6> HIDE DEF q
                    <6>2. /\ Once(Append(q, m), c) /\ Has(Append(q, m), c)
                          /\ \A i \in DOMAIN Append(q, m) : About(Append(q, m)[i], c) => Append(q, m)[i] = m
                        BY <2>1, <6>1, AppendIt DEF q
                    <6> QED
                        BY <5>1, <6>2 DEF q
                <5>3. \A a, b \in Hosts : a # h \/ b # w => ~Has(net[a][b], c)'
                    BY <1>8, <2>3, <3>2
                <5> QED
                    BY <1>8, <1>10, <2>1, <2>2, <3>2, <5>2, <5>3, OutFrom
            <4>2. CASE ~Live(w)
                <5>1. \A a, b \in Hosts : ~Has(net[a][b], c)'
                    BY <1>8, <2>3, <3>2, <4>2
                <5>2. call[c].st \notin Pending
                    BY <1>8, <3>2, <4>2 DEF CallInv
                <5> QED
                    BY <1>8, <2>2, <3>2, <5>1, <5>2, NoMore DEF Pending
            <4> QED
                BY <4>1, <4>2
        <3> QED
            BY <3>1, <3>2 DEF CopyInv
    <2> QED
        BY <1>6, <2>4, <2>5, <2>6, <2>8
<1> QED
    BY <1>9, <1>10

-----------------------------------------------------------------------------
(* A message is received.                                                   *)

\* h receives m, the first message of from's; n is the channel without it.
Got(h, from, n, m) ==
    /\ Live(h) /\ net[from][h] # <<>> /\ m = net[from][h][1]
    /\ n = [net EXCEPT ![from][h] = Tail(@)]
    /\ UNCHANGED <<lock, grants, crashes>>

LEMMA MessageFields ==
    ASSUME NEW m \in Message
    PROVE  /\ m.t = "holder" => m.epoch \in 0 .. grants
           /\ m.t = "request" => m.c \in Calls
           /\ m.t = "response" => m.c \in Calls /\ m.st \in {"answered", "failed", "retry"}
BY DEF Message

LEMMA Taken ==
    ASSUME TypeOK, NEW h \in Hosts, NEW from \in Hosts, NEW n, NEW m, Got(h, from, n, m)
    PROVE  /\ n \in NetOf(Message) /\ m \in Message /\ Message' = Message
           /\ \A a, b \in Hosts : n[a][b] = IF a = from /\ b = h THEN Tail(net[a][b]) ELSE net[a][b]
           /\ \A c : ~About(m, c) => \A a, b \in Hosts : Same(net[a][b], n[a][b], c)
           /\ \A c \in Calls : About(m, c) /\ CopyOK(c) =>
                 \A a, b \in Hosts : ~Has(n[a][b], c) /\ ~Has(chain[a], c)
<1>1. /\ net \in NetOf(Message) /\ net[from][h] # <<>> /\ m = net[from][h][1]
      /\ n = [net EXCEPT ![from][h] = Tail(@)] /\ net[from][h] \in Seq(Message)
    BY Typed DEF Got
<1>2. n \in NetOf(Message) /\ \A a, b \in Hosts : n[a][b] = IF a = from /\ b = h THEN Tail(net[a][b]) ELSE net[a][b]
    <2>1. Tail(net[from][h]) \in Seq(Message)
        BY <1>1, TailSeq
    <2>2. n = [net EXCEPT ![from] = [net[from] EXCEPT ![h] = Tail(net[from][h])]]
        BY <1>1 DEF NetOf
    <2> QED
        BY <1>1, <2>1, <2>2 DEF NetOf
<1>3. m \in Message /\ 1 \in DOMAIN net[from][h]
    BY <1>1, TailSeq
<1>4. ASSUME NEW c, ~About(m, c), NEW a \in Hosts, NEW b \in Hosts PROVE Same(net[a][b], n[a][b], c)
    <2>1. CASE a = from /\ b = h
        BY <1>1, <1>2, <1>4, <2>1, TailQuiet
    <2>2. CASE ~(a = from /\ b = h)
        BY <1>2, <2>2 DEF Same, Quiet
    <2> QED
        BY <2>1, <2>2
<1>5. ASSUME NEW c \in Calls, About(m, c), CopyOK(c), NEW a \in Hosts, NEW b \in Hosts
      PROVE  ~Has(n[a][b], c) /\ ~Has(chain[a], c)
    <2>1. Has(net[from][h], c)
        BY <1>1, <1>3, <1>5 DEF Has
    <2>2. ~Has(chain[a], c) /\ (a # from \/ b # h => ~Has(net[a][b], c))
        BY <1>5, <2>1, OnlyMessage
    <2>3. ~Has(Tail(net[from][h]), c)
        BY <1>1, <1>5, TailQuiet DEF CopyOK, OneCopy
    <2> QED
        BY <1>2, <2>2, <2>3
<1>6. Message' = Message
    BY SameClock DEF Got
<1> QED
    BY <1>2, <1>3, <1>4, <1>5, <1>6

\* Who holds, or held, the lock is as before.
LEMMA Mild ==
    ASSUME TypeOK, \A g \in Hosts : role'[g] = role[g] \/ {role[g], role'[g]} \subseteq {"connecting", "forwarding"},
           \A g \in Hosts : newest'[g] = newest[g] \/ (newest'[g] >= newest[g] /\ ~Holding(g))
    PROVE  /\ Onward
           /\ \A g \in Hosts : (Held(g)' <=> Held(g)) /\ (Holding(g)' <=> Holding(g)) /\ (Live(g)' <=> Live(g))
           /\ \A g \in Hosts : role'[g] = "killed" <=> role[g] = "killed"
<1>1. \A g \in Hosts : (Held(g)' <=> Held(g)) /\ (Holding(g)' <=> Holding(g)) /\ (Live(g)' <=> Live(g))
    BY DEF Held, Holding, Live
<1>2. Onward
    BY <1>1, Typed DEF Onward
<1> QED
    BY <1>1, <1>2

LEMMA CallsKept ==
    ASSUME CallInv, call' = call,
           \A g \in Hosts : (Live(g)' <=> Live(g)) /\ (Holding(g)' <=> Holding(g)),
           \A g, w \in Hosts : Knows(g, w) => Knows(g, w)'
    PROVE  CallInv'
<1> SUFFICES ASSUME NEW c \in Calls
             PROVE  /\ call[c].st \in Pending => call[c].at \in Hosts /\ Live(call[c].at)'
                    /\ call[c].st \in {"sent", "doubted"} =>
                          call[c].to \in Hosts \ {call[c].at} /\ Knows(call[c].at, call[c].to)'
                    /\ call[c].st = "doubted" => c \notin RetrySafe /\ ~Holding(call[c].to)'
                    /\ call[c].st = "here" => call[c].to = call[c].at
    BY DEF CallInv
<1>1. call[c].st \in Pending => call[c].at \in Hosts /\ Live(call[c].at)
    BY DEF CallInv
<1>2. call[c].st \in {"sent", "doubted"} => call[c].to \in Hosts \ {call[c].at} /\ Knows(call[c].at, call[c].to)
    BY DEF CallInv
<1>3. /\ call[c].st = "doubted" => c \notin RetrySafe /\ ~Holding(call[c].to)
      /\ call[c].st = "here" => call[c].to = call[c].at
    BY DEF CallInv
<1> QED
    BY <1>1, <1>2, <1>3 DEF Pending

\* h sends no other messages than those of M.
Sends(h, n, M) ==
    \A a, b \in Hosts :
        \/ net'[a][b] = n[a][b]
        \/ a = h /\ b # h /\ \E x \in M : x \in Message /\ net'[a][b] = Append(net[a][b], x)
        \/ a = h /\ b # h /\ \E r \in Seq(Message) : net'[a][b] = net[a][b] \o r /\ \A i \in DOMAIN r : r[i] \in M
Sendable(h, M) ==
    \A x \in M : x.t # "released" /\ (x.t = "holder" => Held(h)' /\ (Holding(h)' => x.epoch = newest'[h]))

LEMMA GotMessage ==
    ASSUME Inv, NEW h \in Hosts, NEW from \in Hosts, NEW n, NEW m, Got(h, from, n, m), Onward, NEW M,
           Sends(h, n, M), Sendable(h, M)
    PROVE  MessageInv'
<1> DEFINE N == [a \in Hosts |-> [b \in Hosts |-> IF a = h THEN M ELSE {}]]
<1>1. \A a, b \in Hosts : N[a][b] = IF a = h THEN M ELSE {}
    OBVIOUS
<1> HIDE DEF N
<1>2. \A a, b \in Hosts : n[a][b] = IF a = from /\ b = h THEN Tail(net[a][b]) ELSE net[a][b]
    BY Taken DEF Inv
<1>3. Message' = Message /\ role[h] # "closed" /\ net[from][h] # <<>>
    BY SameClock DEF Got, Live
<1>4. \A a, b \in Hosts : ChannelStep(a, b, IF a = h THEN M ELSE {})
    <2> SUFFICES ASSUME NEW a \in Hosts, NEW b \in Hosts PROVE ChannelStep(a, b, IF a = h THEN M ELSE {})
        OBVIOUS
    <2> USE DEF Sends
    <2>1. CASE net'[a][b] = n[a][b]
        BY <1>2, <1>3, <2>1 DEF ChannelStep
    <2>2. CASE a = h /\ \E x \in M : x \in Message /\ net'[a][b] = Append(net[a][b], x)
        BY <1>3, <2>2 DEF ChannelStep
    <2>3. CASE a = h /\ \E r \in Seq(Message) : net'[a][b] = net[a][b] \o r /\ \A i \in DOMAIN r : r[i] \in M
        BY <1>3, <2>3 DEF ChannelStep
    <2> QED
        BY <2>1, <2>2, <2>3
<1>5. \A a, b \in Hosts : ChannelStep(a, b, N[a][b]) /\ net[a][b] \in Seq(Message')
    BY <1>1, <1>3, <1>4, Typed DEF Inv
<1>6. ASSUME NEW a \in Hosts, NEW b \in Hosts, NEW x \in N[a][b]
      PROVE  x.t # "released" /\ (x.t = "holder" => Held(a)' /\ (Holding(a)' => x.epoch = newest'[a]))
    <2>1. a = h /\ x \in M
        BY <1>1, <1>6
    <2> QED
        BY <2>1 DEF Sendable
<1> QED
    BY <1>5, <1>6, MessagesKept DEF Inv

LEMMA HelloStep ==
    ASSUME Inv, NEW h \in Hosts, NEW from \in Hosts, NEW n, NEW m, Got(h, from, n, m),
           m.t = "hello", OnHello(h, n)
    PROVE  Inv'
<1> USE DEF Inv
<1>1. /\ net' = IF Serves(h) THEN Broadcast(n, h, Announce(newest[h])) ELSE n
      /\ UNCHANGED <<role, holder, newest, gone, closing, chain, lock, grants, call, runs, crashes>>
    BY DEF OnHello, Got, hostVars, callVars
<1>2. /\ n \in NetOf(Message) /\ Message' = Message
      /\ \A a, b \in Hosts : n[a][b] = IF a = from /\ b = h THEN Tail(net[a][b]) ELSE net[a][b]
      /\ \A c : \A a, b \in Hosts : Same(net[a][b], n[a][b], c)
    <2>1. \A c : ~About(m, c)
        BY DEF About
    <2>2. /\ n \in NetOf(Message) /\ Message' = Message
          /\ \A a, b \in Hosts : n[a][b] = IF a = from /\ b = h THEN Tail(net[a][b]) ELSE net[a][b]
        BY Taken
    <2>3. \A c : ~About(m, c) => \A a, b \in Hosts : Same(net[a][b], n[a][b], c)
        BY Taken
    <2> QED
        BY <2>1, <2>2, <2>3
<1>3. Onward /\ \A g \in Hosts : (Held(g)' <=> Held(g)) /\ (Holding(g)' <=> Holding(g)) /\ (Live(g)' <=> Live(g))
    BY <1>1, Typed, Mild
<1> DEFINE x == Announce(newest[h])
<1>4. x.t = "holder" /\ x.epoch = newest[h]
    BY DEF Announce
<1>5. Serves(h) => x \in Message /\ Holding(h)
    <2> SUFFICES ASSUME Serves(h) PROVE x \in Message /\ Holding(h)
        OBVIOUS
    <2>1. Holding(h) /\ newest[h] = grants /\ grants \in Nat
        BY Typed DEF Serves, LockInv
    <2>2. x \in Message
        BY <2>1, MessageTypes
    <2> QED
        BY <2>1, <2>2
<1> HIDE DEF x
<1>6. /\ net' \in NetOf(Message)
      /\ \A a, b \in Hosts : \/ net'[a][b] = n[a][b]
                             \/ a = h /\ b # h /\ Live(b) /\ x \in Message /\ Holding(h) /\ net'[a][b] = Append(net[a][b], x)
    <2>1. CASE ~Serves(h)
        <3>1. net' = n
            BY <1>1, <2>1
        <3> QED
            BY <1>2, <3>1
    <2>2. CASE Serves(h)
        <3>1. net' = Broadcast(n, h, x)
            BY <1>1, <2>2 DEF x
        <3>2. /\ net' \in NetOf(Message)
              /\ \A a, b \in Hosts : net'[a][b] = IF a = h /\ b # h /\ Live(b) THEN Append(n[a][b], x) ELSE n[a][b]
            <4> DEFINE r == Broadcast(n, h, x)
            <4>1. /\ r \in NetOf(Message)
                  /\ \A a, b \in Hosts : r[a][b] = IF a = h /\ b # h /\ Live(b) THEN Append(n[a][b], x) ELSE n[a][b]
                BY <1>2, <1>5, <2>2, BroadcastNet
            <4> HIDE DEF r
            <4> QED
                BY <3>1, <4>1 DEF r
        <3>3. ASSUME NEW a \in Hosts, NEW b \in Hosts, net'[a][b] # n[a][b]
              PROVE  a = h /\ b # h /\ Live(b) /\ net'[a][b] = Append(net[a][b], x)
            <4>1. n[a][b] = net[a][b] \/ b = h
                BY <1>2
            <4> QED
                BY <3>2, <3>3, <4>1
        <3> QED
            BY <1>5, <2>2, <3>2, <3>3
    <2> QED
        BY <2>1, <2>2
<1>7. TypeOK'
    BY <1>1, <1>2, <1>6 DEF TypeOK, NetOf
<1>8. MessageInv'
    <2> DEFINE M == IF Holding(h) THEN {x} ELSE {}
    <2>1. \A y \in M : y.t = "holder" /\ Held(h)' /\ y.epoch = newest'[h]
        BY <1>1, <1>3, <1>4 DEF Held
    <2>2. \A a, b \in Hosts :
              \/ net'[a][b] = n[a][b]
              \/ a = h /\ b # h /\ \E y \in M : y \in Message /\ net'[a][b] = Append(net[a][b], y)
        BY <1>6
    <2> HIDE DEF M
    <2>3. Sendable(h, M)
        BY <2>1 DEF Sendable
    <2>4. Sends(h, n, M)
        BY <2>2 DEF Sends
    <2> QED
        BY <1>3, <2>3, <2>4, GotMessage
<1>9. LockInv' /\ HolderInv' /\ CallInv'
    <2>1. LockInv'
        BY <1>1, <1>3 DEF LockInv
    <2>2. \A g, w \in Hosts : Knows(g, w)' <=> Knows(g, w)
        BY <1>1, <1>3 DEF Knows
    <2>3. HolderInv'
        BY <1>1, <2>2, Typed DEF HolderInv
    <2>4. CallInv'
        BY <1>1, <1>3, <2>2, CallsKept
    <2> QED
        BY <2>1, <2>3, <2>4
<1>10. HostInv'
    <2>1. \A g \in Hosts : PendingOf(g)' = PendingOf(g)
        BY <1>1 DEF PendingOf
    <2>2. \A g \in Hosts : ~Live(g) => \A a \in Hosts : net'[a][g] = <<>>
        BY <1>2, <1>6 DEF HostInv, Got
    <2> QED
        BY <1>1, <1>3, <2>1, <2>2 DEF HostInv
<1>11. CopyInv'
    <2> SUFFICES ASSUME NEW c \in Calls \ RetrySafe PROVE CopyOK(c)'
        BY DEF CopyInv
    <2>1. ~About(x, c)
        BY <1>4 DEF About
    <2>2. ASSUME NEW a \in Hosts, NEW b \in Hosts PROVE Same(net[a][b], net'[a][b], c)
        <3>1. CASE net'[a][b] = n[a][b]
            BY <1>2, <3>1
        <3>2. CASE x \in Message /\ net'[a][b] = Append(net[a][b], x)
            BY <2>1, <3>2, Typed, AppendOther
        <3> QED
            BY <1>6, <3>1, <3>2
    <2> QED
        BY <1>1, <1>3, <2>2, CopiesKept DEF Same, Quiet
<1> QED
    BY <1>7, <1>8, <1>9, <1>10, <1>11

LEMMA Dropped ==
    ASSUME Inv, NEW h \in Hosts, NEW from \in Hosts, NEW n, NEW m, Got(h, from, n, m), net' = n,
           \A c : ~About(m, c), UNCHANGED <<role, holder, newest, gone, closing, chain, call, runs>>
    PROVE  Inv'
<1> USE DEF Inv
<1>1. /\ net' = n
      /\ UNCHANGED <<role, holder, newest, gone, closing, chain, lock, grants, call, runs, crashes>>
    BY DEF Got
<1>2. /\ n \in NetOf(Message) /\ Message' = Message
      /\ \A a, b \in Hosts : n[a][b] = IF a = from /\ b = h THEN Tail(net[a][b]) ELSE net[a][b]
    BY Taken
<1>3. \A c : \A a, b \in Hosts : Same(net[a][b], n[a][b], c)
    BY Taken
<1>4. Onward /\ \A g \in Hosts : (Held(g)' <=> Held(g)) /\ (Holding(g)' <=> Holding(g)) /\ (Live(g)' <=> Live(g))
    BY <1>1, Typed, Mild
<1>5. TypeOK'
    BY <1>1, <1>2 DEF TypeOK, NetOf
<1>6. MessageInv'
    <2> DEFINE M == {}
    <2>1. Sends(h, n, M) /\ Sendable(h, M)
        BY <1>1 DEF Sends, Sendable
    <2> HIDE DEF M
    <2> QED
        BY <1>4, <2>1, GotMessage
<1>7. LockInv' /\ HolderInv' /\ CallInv'
    <2>1. LockInv'
        BY <1>1, <1>4 DEF LockInv
    <2>2. \A g, w \in Hosts : Knows(g, w)' <=> Knows(g, w)
        BY <1>1, <1>4 DEF Knows
    <2>3. HolderInv'
        BY <1>1, <2>2, Typed DEF HolderInv
    <2>4. CallInv'
        BY <1>1, <1>4, <2>2, CallsKept
    <2> QED
        BY <2>1, <2>3, <2>4
<1>8. HostInv'
    <2>1. \A g \in Hosts : PendingOf(g)' = PendingOf(g)
        BY <1>1 DEF PendingOf
    <2>2. \A g \in Hosts : ~Live(g) => \A a \in Hosts : net'[a][g] = <<>>
        BY <1>1, <1>2 DEF HostInv, Got
    <2> QED
        BY <1>1, <1>4, <2>1, <2>2 DEF HostInv
<1>9. CopyInv'
    <2> SUFFICES ASSUME NEW c \in Calls \ RetrySafe PROVE CopyOK(c)'
        BY DEF CopyInv
    <2> QED
        BY <1>1, <1>3, <1>4, CopiesKept DEF Same, Quiet
<1> QED
    BY <1>5, <1>6, <1>7, <1>8, <1>9

\* Nothing is there of the call c but its state.
LEMMA Restated ==
    ASSUME NEW c \in Calls, CopyOK(c), call[c].st \in {"sent", "doubted"}, call'[c].st = "doubted",
           call'[c].at = call[c].at, call'[c].to = call[c].to, call[c].at \in Hosts, call[c].to \in Hosts,
           runs'[c] = runs[c],
           \A a, b \in Hosts : Same(net[a][b], net'[a][b], c),
           \A a \in Hosts : Same(chain[a], chain'[a], c),
           role'[call[c].to] = "killed" \/ role[call[c].to] # "killed"
    PROVE  CopyOK(c)'
<1>1. /\ \A a, b \in Hosts : Has(net[a][b], c)' <=> Has(net[a][b], c)
      /\ \A a \in Hosts : Has(chain[a], c)' <=> Has(chain[a], c)
    BY NoneNew DEF Same
<1>2. InNet(c)'
    BY DEF CopyOK, InNet, Same, Quiet
<1>3. InChain(c)'
    BY DEF CopyOK, InChain, Same, Quiet
<1>4. OneCopy(c)'
    BY <1>1 DEF CopyOK, OneCopy, Same, Quiet
<1>5. RunsInv(c)'
    BY <1>1 DEF CopyOK, RunsInv
<1> QED
    BY <1>2, <1>3, <1>4, <1>5 DEF CopyOK

LEMMA CallsAre ==
    ASSUME \A c \in Calls : \A h, w : call'[c].at = h /\ call'[c].to = w =>
              /\ call'[c].st \in Pending => h \in Hosts /\ Live(h)'
              /\ call'[c].st \in {"sent", "doubted"} => w \in Hosts \ {h} /\ Knows(h, w)'
              /\ call'[c].st = "doubted" => c \notin RetrySafe /\ ~Holding(w)'
              /\ call'[c].st = "here" => w = h
    PROVE  CallInv'
BY DEF CallInv, Live, Knows, Holding, Held

\* What an announcement does to the calls.
LEMMA Rerouted ==
    ASSUME Inv, NEW h \in Hosts, NEW w \in Hosts, Live(h), call' = Reroute(h, w)
    PROVE  LET out == Unsent(h) \cup Resend(h, w)
               st == IF w = h THEN "here" ELSE "sent" IN
           /\ out \in SUBSET Calls
           /\ \A c \in Calls : c \in out => call'[c].st = st /\ call'[c].at = h /\ call'[c].to = w
           /\ \A c \in Calls \ out : call'[c].at = call[c].at /\ call'[c].to = call[c].to
           /\ \A c \in Calls \ out : c \in Elsewhere(h, w) => call'[c].st = "doubted"
           /\ \A c \in Calls \ out : c \notin Elsewhere(h, w) => call'[c] = call[c]
           /\ \A c \in Calls \ RetrySafe : c \in out => call[c].st = "unsent"
           /\ \A c \in Calls : c \in Elsewhere(h, w) =>
                 call[c].st \in {"sent", "doubted"} /\ call[c].at = h /\ call[c].to # w
           /\ \A c \in Calls : c \in Elsewhere(h, w) /\ c \notin out => c \notin RetrySafe
           /\ \A g \in Hosts : PendingOf(g)' = PendingOf(g)
           /\ DOMAIN call' = Calls
           /\ call' \in [Calls -> [st : {"new", "orphaned"} \cup Pending \cup Outcomes,
                                    at : Hosts \cup {None}, to : Hosts \cup {None}]]
<1> DEFINE out == Unsent(h) \cup Resend(h, w)
           st == IF w = h THEN "here" ELSE "sent"
           T == [st : {"new", "orphaned"} \cup Pending \cup Outcomes, at : Hosts \cup {None}, to : Hosts \cup {None}]
<1>1. call \in [Calls -> T]
    BY DEF Inv, TypeOK
<1>2. /\ out \in SUBSET Calls /\ st \in {"here", "sent"}
      /\ \A c \in Calls : c \in out => call[c].at = h /\ call[c].st \in {"unsent", "sent", "doubted"}
      /\ \A c \in Calls : c \in Elsewhere(h, w) =>
            call[c].st \in {"sent", "doubted"} /\ call[c].at = h /\ call[c].to # w
      /\ \A c \in Calls \ RetrySafe : c \in out => call[c].st = "unsent"
      /\ \A c \in Calls : c \in Elsewhere(h, w) /\ c \notin out => c \notin RetrySafe
    BY DEF Unsent, Resend, Elsewhere, Inflight
<1> HIDE DEF st
<1>3. /\ DOMAIN call' = Calls
      /\ \A c \in Calls : call'[c] = IF c \in out THEN [st |-> st, at |-> h, to |-> w]
                                     ELSE IF c \in Elsewhere(h, w) THEN [call[c] EXCEPT !.st = "doubted"]
                                     ELSE call[c]
    BY DEF Reroute, st
<1> HIDE DEF out
<1>4. /\ \A c \in Calls : c \in out => call'[c].st = st /\ call'[c].at = h /\ call'[c].to = w
      /\ \A c \in Calls \ out : call'[c].at = call[c].at /\ call'[c].to = call[c].to
      /\ \A c \in Calls \ out : c \in Elsewhere(h, w) => call'[c].st = "doubted"
      /\ \A c \in Calls \ out : c \notin Elsewhere(h, w) => call'[c] = call[c]
    <2> SUFFICES ASSUME NEW c \in Calls
                 PROVE  /\ c \in out => call'[c].st = st /\ call'[c].at = h /\ call'[c].to = w
                        /\ c \notin out => call'[c].at = call[c].at /\ call'[c].to = call[c].to
                        /\ c \notin out /\ c \in Elsewhere(h, w) => call'[c].st = "doubted"
                        /\ c \notin out /\ c \notin Elsewhere(h, w) => call'[c] = call[c]
        OBVIOUS
    <2>1. CASE c \in out
        BY <1>3, <2>1
    <2>2. CASE c \notin out /\ c \in Elsewhere(h, w)
        BY <1>1, <1>3, <2>2
    <2>3. CASE c \notin out /\ c \notin Elsewhere(h, w)
        BY <1>3, <2>3
    <2> QED
        BY <2>1, <2>2, <2>3
<1>5. ASSUME NEW g \in Hosts PROVE PendingOf(g)' = PendingOf(g)
    <2>1. ASSUME NEW c \in Calls PROVE (call'[c].at = g /\ call'[c].st \in Pending) <=> (call[c].at = g /\ call[c].st \in Pending)
        BY <1>2, <1>4 DEF Pending
    <2> QED
        BY <2>1 DEF PendingOf
<1>6. ASSUME NEW c \in Calls PROVE call'[c] \in T
    <2>1. CASE c \in out
        BY <1>2, <1>3, <2>1 DEF Pending
    <2>2. CASE c \notin out /\ c \in Elsewhere(h, w)
        BY <1>1, <1>3, <2>2 DEF Pending
    <2>3. CASE c \notin out /\ c \notin Elsewhere(h, w)
        BY <1>1, <1>3, <2>3
    <2> QED
        BY <2>1, <2>2, <2>3
<1>7. \A c \in Calls : call'[c] \in T
    BY <1>6
<1>8. call' = [c \in Calls |-> call'[c]]
    BY DEF Reroute
<1> HIDE DEF T
<1>9. call' \in [Calls -> T]
    BY <1>7, <1>8
<1> QED
    BY <1>2, <1>3, <1>4, <1>5, <1>9 DEF out, st, T

\* A newer holder is announced: the calls that waited go to it.
LEMMA HolderStep ==
    ASSUME Inv, NEW h \in Hosts, NEW from \in Hosts, NEW n, NEW m, Got(h, from, n, m),
           m.t = "holder", OnHolder(h, from, m.epoch, n)
    PROVE  Inv'
<1> USE DEF Inv
<1>1. \A c : ~About(m, c)
    BY DEF About
<1>2. CASE ~Accepts(h, from, m.epoch)
    <2>1. net' = n /\ UNCHANGED <<role, holder, newest, gone, closing, chain, call, runs>>
        BY <1>2 DEF OnHolder, hostVars, callVars
    <2> QED
        BY <1>1, <2>1, Dropped
<1>3. CASE Accepts(h, from, m.epoch)
    <2>1. /\ newest' = [newest EXCEPT ![h] = m.epoch] /\ holder' = [holder EXCEPT ![h] = from]
          /\ role' = [role EXCEPT ![h] = "forwarding"] /\ call' = Reroute(h, from)
          /\ ~Holding(h) /\ m.epoch > newest[h]
          /\ UNCHANGED <<gone, closing, chain, lock, grants, runs, crashes>>
        BY <1>3 DEF OnHolder, Accepts, Got
    <2> DEFINE out == Unsent(h) \cup Resend(h, from)
    <2>2. PICK s \in SetToSeqs(out) : net' = Tell(n, h, from, [i \in DOMAIN s |-> Request(s[i])])
        BY <1>3 DEF OnHolder, Outgoing
    <2>3. /\ n \in NetOf(Message) /\ m \in Message /\ Message' = Message
          /\ \A a, b \in Hosts : n[a][b] = IF a = from /\ b = h THEN Tail(net[a][b]) ELSE net[a][b]
        BY Taken
    <2>4. \A c : \A a, b \in Hosts : Same(net[a][b], n[a][b], c)
        BY <1>1, Taken
    <2>5. Live(h) /\ m = net[from][h][1] /\ 1 \in DOMAIN net[from][h] /\ m.epoch \in 0 .. grants
        <3>1. Live(h) /\ m = net[from][h][1] /\ net[from][h] # <<>>
            BY DEF Got
        <3>2. 1 \in DOMAIN net[from][h]
            BY <3>1, Typed, TailSeq
        <3> QED
            BY <2>3, <3>1, <3>2, MessageFields
    <2>6. Held(from) /\ (Holding(from) => m.epoch = newest[from])
        BY <2>5 DEF MessageInv
    <2>7. from # h
        BY <2>1, <2>5, <2>6 DEF Held, Holding, Live
    <2>8. Onward /\ \A g \in Hosts : (Held(g)' <=> Held(g)) /\ (Holding(g)' <=> Holding(g)) /\ (Live(g)' <=> Live(g))
                                     /\ (role'[g] = "killed" <=> role[g] = "killed")
        <3>1. \A g \in Hosts : role'[g] = role[g] \/ {role[g], role'[g]} \subseteq {"connecting", "forwarding"}
            BY <2>1, <2>5, Typed DEF Live, Holding
        <3>2. \A g \in Hosts : newest'[g] = newest[g] \/ (newest'[g] >= newest[g] /\ ~Holding(g))
            BY <2>1, <2>5, Typed
        <3> QED
            BY <3>1, <3>2, Mild
    <2>9. /\ out \in SUBSET Calls
          /\ \A c \in Calls : c \in out => call'[c].st = "sent" /\ call'[c].at = h /\ call'[c].to = from
          /\ \A c \in Calls \ out : call'[c].at = call[c].at /\ call'[c].to = call[c].to
          /\ \A c \in Calls \ out : c \in Elsewhere(h, from) => call'[c].st = "doubted"
          /\ \A c \in Calls \ out : c \notin Elsewhere(h, from) => call'[c] = call[c]
          /\ \A c \in Calls \ RetrySafe : c \in out => call[c].st = "unsent"
          /\ \A c \in Calls : c \in Elsewhere(h, from) =>
                call[c].st \in {"sent", "doubted"} /\ call[c].at = h /\ call[c].to # from
          /\ \A c \in Calls : c \in Elsewhere(h, from) /\ c \notin out => c \notin RetrySafe
          /\ \A g \in Hosts : PendingOf(g)' = PendingOf(g)
          /\ call' \in [Calls -> [st : {"new", "orphaned"} \cup Pending \cup Outcomes,
                                   at : Hosts \cup {None}, to : Hosts \cup {None}]]
        BY <2>1, <2>5, <2>7, Rerouted
    <2> DEFINE r == [i \in DOMAIN s |-> Request(s[i])]
    <2>10. /\ r \in Seq(Message)
           /\ \A i \in DOMAIN r : r[i].t = "request" /\ r[i].c \in out
           /\ \A c : Once(r, c) /\ (Has(r, c) => c \in out)
        BY <2>2, <2>9, Requested
    <2>11. net' = Tell(n, h, from, r)
        BY <2>2
    <2> HIDE DEF out, r
    <2>12. /\ net' \in NetOf(Message)
           /\ \A a, b \in Hosts : net'[a][b] = IF a = h /\ b = from /\ Live(from) THEN net[a][b] \o r ELSE n[a][b]
        <3> DEFINE q == Tell(n, h, from, r)
        <3>1. /\ q \in NetOf(Message)
              /\ \A a, b \in Hosts : q[a][b] = IF a = h /\ b = from /\ from # h /\ Live(from) THEN n[a][b] \o r ELSE n[a][b]
            BY <2>3, <2>10, TellNet
        <3> HIDE DEF q
        <3>2. n[h][from] = net[h][from]
            BY <2>3, <2>7
        <3>3. net' = q
            BY <2>11 DEF q
        <3> QED
            BY <2>7, <3>1, <3>2, <3>3
    <2>13. TypeOK'
        <3>1. newest' \in [Hosts -> 0 .. grants'] /\ holder' \in [Hosts -> Hosts \cup {None}]
            BY <2>1, <2>5 DEF TypeOK
        <3>2. net' \in [Hosts -> [Hosts -> Seq(Message')]]
            BY <2>3, <2>12 DEF NetOf
        <3>3. role' \in [Hosts -> {"off", "connecting", "forwarding", "opening", "holder", "failed", "closed", "killed"}]
            BY <2>1 DEF TypeOK
        <3> QED
            BY <2>1, <2>9, <3>1, <3>2, <3>3 DEF TypeOK
    <2>14. MessageInv'
        <3> DEFINE M == [t : {"request"}, c : Calls]
        <3>1. \A i \in DOMAIN r : r[i] \in [t : {"request"}, c : Calls]
            <4> SUFFICES ASSUME NEW i \in DOMAIN r PROVE r[i] \in [t : {"request"}, c : Calls]
                OBVIOUS
            <4>1. r[i] \in Message /\ r[i].t = "request"
                BY <2>10
            <4> QED
                BY <4>1 DEF Message
        <3>2. Sendable(h, M)
            BY DEF Sendable
        <3> HIDE DEF M
        <3>3. Sends(h, n, M)
            <4> SUFFICES ASSUME NEW a \in Hosts, NEW b \in Hosts, net'[a][b] # n[a][b]
                         PROVE  /\ a = h /\ b # h
                                /\ \E q \in Seq(Message) : net'[a][b] = net[a][b] \o q /\ \A i \in DOMAIN q : q[i] \in M
                BY DEF Sends
            <4>1. a = h /\ b # h /\ net'[a][b] = net[a][b] \o r
                BY <2>7, <2>12
            <4> QED
                BY <2>10, <3>1, <4>1 DEF M
        <3> QED
            BY <2>8, <3>2, <3>3, GotMessage
    <2>15. LockInv'
        BY <2>1, <2>8, Typed DEF LockInv
    <2>16. \A g, w \in Hosts : Knows(g, w) => Knows(g, w)'
        BY <2>8, <2>13, KnowsStill
    <2>17. Knows(h, from)'
        BY <2>1, <2>5, <2>6, <2>7, <2>8, Typed DEF Knows
    <2>18. HolderInv'
        BY <2>1, <2>16, <2>17, Typed DEF HolderInv
    <2>19. HostInv'
        <3>1. \A g \in Hosts : ~Live(g) => \A a \in Hosts : net'[a][g] = <<>>
            BY <2>3, <2>5, <2>12 DEF HostInv
        <3> QED
            BY <2>1, <2>8, <2>9, <3>1 DEF HostInv
    <2>20. CallInv'
        <3> SUFFICES ASSUME NEW c \in Calls, NEW g, NEW w, call'[c].at = g, call'[c].to = w
                     PROVE  /\ call'[c].st \in Pending => g \in Hosts /\ Live(g)'
                            /\ call'[c].st \in {"sent", "doubted"} => w \in Hosts \ {g} /\ Knows(g, w)'
                            /\ call'[c].st = "doubted" => c \notin RetrySafe /\ ~Holding(w)'
                            /\ call'[c].st = "here" => w = g
            BY CallsAre
        <3>1. CASE c \in out
            <4>1. call'[c].st = "sent" /\ g = h /\ w = from
                BY <2>9, <3>1
            <4> QED
                BY <2>5, <2>7, <2>8, <2>17, <4>1
        <3>2. CASE c \notin out /\ c \in Elsewhere(h, from)
            <4>1. call'[c].st = "doubted" /\ g = h /\ call[c].to = w /\ c \notin RetrySafe
                BY <2>9, <3>2
            <4>2. w \in Hosts \ {h} /\ Knows(h, w)
                BY <2>9, <3>2, <4>1 DEF CallInv
            <4>3. ~Holding(w)
                BY <2>1, <2>5, <4>2, Typed DEF Knows, LockInv
            <4> QED
                BY <2>5, <2>8, <2>16, <4>1, <4>2, <4>3
        <3>3. CASE c \notin out /\ c \notin Elsewhere(h, from)
            <4>1. call'[c] = call[c] /\ call[c].at = g /\ call[c].to = w
                BY <2>9, <3>3
            <4>2. /\ call[c].st \in Pending => g \in Hosts /\ Live(g)
                  /\ call[c].st \in {"sent", "doubted"} => g \in Hosts /\ w \in Hosts \ {g} /\ Knows(g, w)
                  /\ call[c].st = "doubted" => w \in Hosts /\ c \notin RetrySafe /\ ~Holding(w)
                  /\ call[c].st = "here" => w = g
                BY <4>1 DEF CallInv, Pending
            <4> QED
                BY <2>8, <2>16, <4>1, <4>2
        <3> QED
            BY <3>1, <3>2, <3>3
    <2>21. CopyInv'
        <3> SUFFICES ASSUME NEW c \in Calls \ RetrySafe PROVE CopyOK(c)'
            BY DEF CopyInv
        <3>1. CopyOK(c)
            BY DEF CopyInv
        <3>2. CASE c \in out
            <4>1. runs[c] = 0 /\ \A a, b \in Hosts : ~Has(net[a][b], c) /\ ~Has(chain[a], c)
                BY <2>9, <3>1, <3>2, NoCopies
            <4>2. \A a, b \in Hosts : ~Has(n[a][b], c)
                BY <2>4, <4>1, NoneNew DEF Same
            <4>3. /\ Once(net'[h][from], c)
                  /\ \A i \in DOMAIN net'[h][from] : About(net'[h][from][i], c) => net'[h][from][i].t = "request"
                <5>1. CASE net'[h][from] = n[h][from]
                    BY <4>2, <5>1 DEF Once, Has
                <5>2. CASE net'[h][from] = net[h][from] \o r
                    <6> DEFINE q == net[h][from]
                    <6>1. q \in Seq(Message) /\ ~Has(q, c)
                        BY <4>1, Typed
                    <6> HIDE DEF q
                    <6>2. Once(q \o r, c) /\ \A i \in DOMAIN (q \o r) : About((q \o r)[i], c) => (q \o r)[i].t = "request"
                        <7>1. Once(q \o r, c)
                            BY <2>10, <6>1, JoinQuiet
                        <7>2. \A i \in DOMAIN (q \o r) : About((q \o r)[i], c) =>
                                 (\E j \in DOMAIN q : q[j] = (q \o r)[i]) \/ (\E j \in DOMAIN r : r[j] = (q \o r)[i])
                            BY <2>10, <6>1, JoinQuiet
                        <7> QED
                            BY <2>10, <6>1, <7>1, <7>2 DEF Has
                    <6> QED
                        BY <5>2, <6>2 DEF q
                <5> QED
                    BY <2>12, <5>1, <5>2
            <4>4. \A a, b \in Hosts : ~Has(chain[a], c)' /\ (a # h \/ b # from => ~Has(net[a][b], c)')
                BY <2>1, <2>12, <4>1, <4>2
            <4> QED
                BY <2>1, <2>7, <2>9, <3>2, <4>1, <4>3, <4>4, OutTo
        <3>3. CASE c \notin out
            <4>1. ASSUME NEW a \in Hosts, NEW b \in Hosts PROVE Same(net[a][b], net'[a][b], c)
                <5>1. CASE net'[a][b] = n[a][b]
                    BY <2>4, <5>1
                <5>2. CASE net'[a][b] = net[a][b] \o r
                    <6>1. ~Has(r, c)
                        BY <2>10, <3>3
                    <6> QED
                        BY <2>10, <5>2, <6>1, Typed, JoinQuiet
                <5> QED
                    BY <2>12, <5>1, <5>2
            <4>2. CASE c \in Elsewhere(h, from)
                <5>1. call[c].at \in Hosts /\ call[c].to \in Hosts
                    BY <2>9, <4>2 DEF CallInv
                <5>2. \A a \in Hosts : Same(chain[a], chain'[a], c)
                    BY <2>1 DEF Same, Quiet
                <5> QED
                    BY <2>1, <2>8, <2>9, <3>1, <3>3, <4>1, <4>2, <5>1, <5>2, Restated
            <4>3. CASE c \notin Elsewhere(h, from)
                <5>1. call'[c] = call[c] /\ runs'[c] = runs[c] /\ \A w \in Hosts : role'[w] = "killed" \/ role[w] # "killed"
                    BY <2>1, <2>8, <2>9, <3>3, <4>3
                <5>2. \A a \in Hosts : Same(chain[a], chain'[a], c)
                    BY <2>1 DEF Same, Quiet
                <5> QED
                    BY <2>8, <4>1, <5>1, <5>2, CopiesKept
            <4> QED
                BY <4>2, <4>3
        <3> QED
            BY <3>2, <3>3
    <2> QED
        BY <2>13, <2>14, <2>15, <2>18, <2>19, <2>20, <2>21
<1> QED
    BY <1>2, <1>3

\* The only copy of the call c is its task at the host it was sent to.
LEMMA AtHolder ==
    ASSUME NEW c \in Calls, NEW h \in Hosts, NEW w \in Hosts, h # w, runs'[c] = 0,
           call'[c].st \notin {"new", "unsent", "here"}, call'[c].at = h, call'[c].to = w,
           \A a, b \in Hosts : ~Has(net[a][b], c)' /\ (a # w => ~Has(chain[a], c)'),
           Once(chain[w], c)',
           \A i \in DOMAIN chain'[w] : About(chain'[w][i], c) => chain'[w][i].from = h
    PROVE  CopyOK(c)'
<1>1. InNet(c)' /\ RunsInv(c)'
    BY DEF InNet, RunsInv, Has
<1>2. InChain(c)'
    BY DEF InChain, Has
<1>3. \A a, b \in Hosts : Once(net[a][b], c)' /\ Once(chain[a], c)'
    BY DEF Has, Once
<1>5. OneCopy(c)'
    BY <1>3 DEF OneCopy
<1> QED
    BY <1>1, <1>2, <1>5 DEF CopyOK

\* A request is taken, or refused by a host that is no holder any more.
LEMMA RequestStep ==
    ASSUME Inv, NEW h \in Hosts, NEW from \in Hosts, NEW n, NEW m, Got(h, from, n, m),
           m.t = "request", OnRequest(h, from, m.c, n)
    PROVE  Inv'
<1> USE DEF Inv
<1>1. /\ n \in NetOf(Message) /\ m \in Message /\ Message' = Message
      /\ \A a, b \in Hosts : n[a][b] = IF a = from /\ b = h THEN Tail(net[a][b]) ELSE net[a][b]
    BY Taken
<1>2. PICK c \in Calls : c = m.c
    BY <1>1, MessageFields
<1>3. UNCHANGED <<role, holder, newest, gone, closing, lock, grants, call, runs, crashes>> /\ Live(h)
    BY DEF OnRequest, Got, hostVars, callVars
<1>4. /\ Onward
      /\ \A g \in Hosts : (Held(g)' <=> Held(g)) /\ (Holding(g)' <=> Holding(g)) /\ (Live(g)' <=> Live(g))
    BY <1>3, Typed, Mild
<1>5. LockInv' /\ HolderInv' /\ CallInv'
    <2>1. LockInv'
        BY <1>3, <1>4 DEF LockInv
    <2>2. \A g, w \in Hosts : Knows(g, w)' <=> Knows(g, w)
        BY <1>3, <1>4 DEF Knows
    <2>3. HolderInv'
        BY <1>3, <2>2, Typed DEF HolderInv
    <2>4. CallInv'
        BY <1>3, <1>4, <2>2, CallsKept
    <2> QED
        BY <2>1, <2>3, <2>4
<1>6. \A g \in Hosts : PendingOf(g)' = PendingOf(g)
    BY <1>3 DEF PendingOf
<1>7. \A d \in Calls \ {c} : \A a, b \in Hosts : Same(net[a][b], n[a][b], d)
    <2>1. \A d \in Calls \ {c} : ~About(m, d)
        BY <1>2 DEF About
    <2> QED
        BY <2>1, Taken
<1>8. c \notin RetrySafe => /\ from = call[c].at /\ h = call[c].to /\ from # h /\ runs[c] = 0
                            /\ call[c].st \notin {"new", "unsent", "here"}
                            /\ \A a, b \in Hosts : ~Has(n[a][b], c) /\ ~Has(chain[a], c)
    <2> SUFFICES ASSUME c \notin RetrySafe
                 PROVE  /\ from = call[c].at /\ h = call[c].to /\ from # h /\ runs[c] = 0
                        /\ call[c].st \notin {"new", "unsent", "here"}
                        /\ \A a, b \in Hosts : ~Has(n[a][b], c) /\ ~Has(chain[a], c)
        OBVIOUS
    <2>1. CopyOK(c) /\ About(m, c)
        BY <1>2 DEF CopyInv, About
    <2>2. m = net[from][h][1] /\ 1 \in DOMAIN net[from][h]
        BY Typed, TailSeq DEF Got
    <2>3. /\ from = call[c].at /\ h = call[c].to /\ from # h /\ runs[c] = 0
          /\ call[c].st \notin {"new", "unsent", "here"}
        BY <2>1, <2>2 DEF CopyOK, InNet
    <2>4. \A a, b \in Hosts : ~Has(n[a][b], c) /\ ~Has(chain[a], c)
        BY <2>1, Taken
    <2> QED
        BY <2>3, <2>4
<1>9. CASE Serves(h)
    <2> DEFINE x == Task(c, from)
    <2>1. net' = n /\ chain' = [chain EXCEPT ![h] = Append(chain[h], x)] /\ Holding(h) /\ closing[h] # "stopping"
        BY <1>2, <1>9 DEF OnRequest, Serves
    <2>2. x \in TaskSet /\ x.t = "call" /\ x.c = c /\ x.from = from
        BY MessageTypes DEF Task
    <2> HIDE DEF x
    <2>3. /\ chain'[h] = Append(chain[h], x) /\ chain'[h] \in Seq(TaskSet) /\ \A g \in Hosts \ {h} : chain'[g] = chain[g]
          /\ \A i \in DOMAIN chain'[h] : chain'[h][i] = x \/ (i \in DOMAIN chain[h] /\ chain'[h][i] = chain[h][i])
        BY <2>1, <2>2, Typed, AppendSeq
    <2>4. TypeOK'
        BY <1>1, <1>3, <2>1, <2>3 DEF TypeOK, NetOf
    <2>5. MessageInv'
        <3> DEFINE M == {}
        <3>1. Sends(h, n, M) /\ Sendable(h, M)
            BY <2>1 DEF Sends, Sendable
        <3> HIDE DEF M
        <3> QED
            BY <1>4, <3>1, GotMessage
    <2>6. HostInv'
        <3>1. \A g \in Hosts : ~Live(g) => \A a \in Hosts : net'[a][g] = <<>>
            BY <1>1, <1>3, <2>1 DEF HostInv
        <3>2. \A g \in Hosts : \A i \in DOMAIN chain'[g] :
                  chain'[g][i].t = "quit" => i = Len(chain'[g]) /\ closing[g] = "stopping"
            BY <2>1, <2>2, <2>3 DEF HostInv
        <3>3. \A g \in Hosts : ~Holding(g) => chain'[g] = <<>>
            BY <2>1, <2>3 DEF HostInv
        <3> QED
            BY <1>3, <1>4, <1>6, <3>1, <3>2, <3>3 DEF HostInv
    <2>7. CopyInv'
        <3>1. ASSUME NEW d \in Calls \ RetrySafe, d # c PROVE CopyOK(d)'
            <4>1. Same(chain[h], chain'[h], d)
                <5>1. ~About(x, d)
                    BY <2>2, <3>1 DEF About
                <5> QED
                    BY <2>2, <2>3, <5>1, Typed, AppendOther
            <4>2. \A g \in Hosts : Same(chain[g], chain'[g], d)
                BY <2>3, <4>1 DEF Same, Quiet
            <4>3. \A a, b \in Hosts : Same(net[a][b], net'[a][b], d)
                BY <1>7, <2>1, <3>1
            <4>4. \A w \in Hosts : role'[w] = "killed" \/ role[w] # "killed"
                BY <1>3
            <4> QED
                BY <1>3, <1>4, <4>2, <4>3, <4>4, CopiesKept
        <3>2. ASSUME c \notin RetrySafe PROVE CopyOK(c)'
            <4>1. Once(chain'[h], c) /\ \A i \in DOMAIN chain'[h] : About(chain'[h][i], c) => chain'[h][i] = x
                BY <1>8, <2>2, <2>3, <3>2, Typed, AppendIt DEF About
            <4>2. \A a, b \in Hosts : ~Has(net[a][b], c)' /\ (a # h => ~Has(chain[a], c)')
                BY <1>8, <2>1, <2>3, <3>2
            <4> QED
                BY <1>3, <1>8, <2>2, <3>2, <4>1, <4>2, AtHolder
        <3> QED
            BY <3>1, <3>2 DEF CopyInv
    <2> QED
        BY <1>5, <2>4, <2>5, <2>6, <2>7
<1>10. CASE ~Serves(h)
    <2> DEFINE x == Response(c, "retry")
    <2>1. net' = Tell(n, h, from, <<x>>) /\ chain' = chain
        BY <1>2, <1>10 DEF OnRequest
    <2>2. x \in Message /\ x.t = "response" /\ x.c = c
        BY MessageTypes DEF Response
    <2> HIDE DEF x
    <2>3. /\ net' \in NetOf(Message)
          /\ \A a, b \in Hosts : net'[a][b] = IF a = h /\ b = from /\ from # h /\ Live(from) THEN Append(n[a][b], x) ELSE n[a][b]
        BY <1>1, <2>1, <2>2, Told
    <2>4. TypeOK'
        BY <1>1, <1>3, <2>1, <2>3 DEF TypeOK, NetOf
    <2>5. \A a, b \in Hosts : \/ net'[a][b] = n[a][b]
                              \/ a = h /\ b = from /\ b # h /\ Live(b) /\ net'[a][b] = Append(net[a][b], x)
        <3> SUFFICES ASSUME NEW a \in Hosts, NEW b \in Hosts, net'[a][b] # n[a][b]
                     PROVE  a = h /\ b = from /\ b # h /\ Live(b) /\ net'[a][b] = Append(net[a][b], x)
            OBVIOUS
        <3>1. a = h /\ b = from /\ b # h /\ Live(b) /\ net'[a][b] = Append(n[a][b], x)
            BY <2>3
        <3>2. n[a][b] = net[a][b]
            BY <1>1, <3>1
        <3> QED
            BY <3>1, <3>2
    <2>6. MessageInv'
        <3> DEFINE M == {x}
        <3>1. Sends(h, n, M) /\ Sendable(h, M)
            BY <2>2, <2>5 DEF Sends, Sendable
        <3> HIDE DEF M
        <3> QED
            BY <1>4, <3>1, GotMessage
    <2>7. HostInv'
        <3>1. \A g \in Hosts : ~Live(g) => \A a \in Hosts : net'[a][g] = <<>>
            BY <1>1, <1>3, <2>5 DEF HostInv
        <3> QED
            BY <1>3, <1>4, <1>6, <2>1, <3>1 DEF HostInv
    <2>8. CopyInv'
        <3>1. ASSUME NEW d \in Calls \ RetrySafe, d # c PROVE CopyOK(d)'
            <4>1. ASSUME NEW a \in Hosts, NEW b \in Hosts PROVE Same(net[a][b], net'[a][b], d)
                <5>1. CASE net'[a][b] = n[a][b]
                    BY <1>7, <3>1, <5>1
                <5>2. CASE net'[a][b] = Append(net[a][b], x)
                    <6>1. ~About(x, d)
                        BY <2>2, <3>1 DEF About
                    <6> QED
                        BY <2>2, <5>2, <6>1, Typed, AppendOther
                <5> QED
                    BY <2>5, <5>1, <5>2
            <4>2. \A g \in Hosts : Same(chain[g], chain'[g], d)
                BY <2>1 DEF Same, Quiet
            <4>3. \A w \in Hosts : role'[w] = "killed" \/ role[w] # "killed"
                BY <1>3
            <4> QED
                BY <1>3, <1>4, <4>1, <4>2, <4>3, CopiesKept
        <3>2. ASSUME c \notin RetrySafe PROVE CopyOK(c)'
            <4>1. CASE net'[h][from] = n[h][from]
                <5>1. \A a, b \in Hosts : ~Has(net[a][b], c)' /\ ~Has(chain[a], c)'
                    BY <1>8, <2>1, <2>5, <3>2, <4>1
                <5> QED
                    BY <1>3, <1>8, <3>2, <5>1, NoMore
            <4>2. CASE net'[h][from] = Append(n[h][from], x)
                <5> DEFINE q == n[h][from]
                <5>1. About(x, c) /\ q \in Seq(Message) /\ ~Has(q, c)
                    BY <1>1, <1>8, <2>2, <3>2 DEF About, NetOf
                <5> HIDE DEF q
                <5>2. /\ Once(Append(q, x), c) /\ Has(Append(q, x), c)
                      /\ \A i \in DOMAIN Append(q, x) : About(Append(q, x)[i], c) => Append(q, x)[i] = x
                    BY <2>2, <5>1, AppendIt
                <5>3. /\ Once(net[h][from], c)' /\ Has(net[h][from], c)'
                      /\ \A i \in DOMAIN net'[h][from] : About(net'[h][from][i], c) => net'[h][from][i] = x
                    BY <4>2, <5>2 DEF q
                <5>4. \A a, b \in Hosts : ~Has(chain[a], c)' /\ (a # h \/ b # from => ~Has(net[a][b], c)')
                    BY <1>8, <2>1, <2>5, <3>2
                <5> QED
                    BY <1>3, <1>8, <2>2, <3>2, <5>3, <5>4, OutFrom
            <4> QED
                BY <2>3, <4>1, <4>2
        <3> QED
            BY <3>1, <3>2 DEF CopyInv
    <2> QED
        BY <1>5, <2>4, <2>6, <2>7, <2>8
<1> QED
    BY <1>9, <1>10

\* Some calls have an outcome, or wait again: the hosts, but for what h knows
\* of the holder, are as they were.
LEMMA Settled ==
    ASSUME Inv, NEW h \in Hosts, NEW from \in Hosts, NEW n, NEW m, Got(h, from, n, m), net' = n,
           \A c \in Calls : m.t # "response" => ~About(m, c),
           \/ UNCHANGED <<holder, role>> \/ Unknown(h),
           gone' \in [Hosts -> SUBSET Hosts], UNCHANGED <<newest, closing, chain, runs>>,
           call' \in [Calls -> [st : {"new", "orphaned"} \cup Pending \cup Outcomes,
                                at : Hosts \cup {None}, to : Hosts \cup {None}]],
           \A c \in Calls : call'[c] = call[c]
              \/ /\ call'[c].at = call[c].at /\ call'[c].to = call[c].to
                 /\ call[c].at = h /\ call[c].st \in {"sent", "doubted"}
                 /\ call'[c].st \in {"unsent", "answered", "failed"}
    PROVE  /\ TypeOK' /\ LockInv' /\ HolderInv' /\ MessageInv' /\ HostInv' /\ CallInv' /\ Onward
           /\ \A w \in Hosts : role'[w] = "killed" \/ role[w] # "killed"
<1> USE DEF Inv
<1>1. /\ n \in NetOf(Message) /\ m \in Message /\ Message' = Message
      /\ \A a, b \in Hosts : n[a][b] = IF a = from /\ b = h THEN Tail(net[a][b]) ELSE net[a][b]
    BY Taken
<1>2. UNCHANGED <<newest, closing, chain, lock, grants, runs, crashes>> /\ Live(h)
    BY DEF Got
<1>3. /\ \A g \in Hosts : holder'[g] = holder[g] \/ holder'[g] = None
      /\ \A g \in Hosts : role'[g] = role[g] \/ (role[g] = "forwarding" /\ role'[g] = "connecting")
      /\ holder' \in [Hosts -> Hosts \cup {None}]
      /\ role' \in [Hosts -> {"off", "connecting", "forwarding", "opening", "holder", "failed", "closed", "killed"}]
    <2>1. CASE UNCHANGED <<holder, role>>
        BY <2>1 DEF TypeOK
    <2>2. CASE Unknown(h)
        BY <2>2 DEF TypeOK, Unknown
    <2> QED
        BY <2>1, <2>2
<1>4. TypeOK'
    BY <1>1, <1>2, <1>3 DEF TypeOK, NetOf
<1>5. /\ Onward
      /\ \A g \in Hosts : (Held(g)' <=> Held(g)) /\ (Holding(g)' <=> Holding(g)) /\ (Live(g)' <=> Live(g))
      /\ \A g \in Hosts : role'[g] = "killed" <=> role[g] = "killed"
    BY <1>2, <1>3, Mild
<1>6. MessageInv'
    <2> DEFINE M == {}
    <2>1. Sends(h, n, M) /\ Sendable(h, M)
        BY DEF Sends, Sendable
    <2> HIDE DEF M
    <2> QED
        BY <1>5, <2>1, GotMessage
<1>7. LockInv'
    BY <1>2, <1>5 DEF LockInv
<1>8. \A g, w \in Hosts : Knows(g, w) => Knows(g, w)'
    BY <1>4, <1>5, KnowsStill
<1>9. HolderInv'
    <2> SUFFICES ASSUME NEW g \in Hosts, holder'[g] # None PROVE Knows(g, holder[g])'
        BY DEF HolderInv
    <2>1. PICK w \in Hosts : w = holder[g] /\ holder'[g] = w
        BY <1>3, Typed
    <2>2. Knows(g, w)'
        BY <1>8, <2>1 DEF HolderInv
    <2> QED
        BY <2>1, <2>2 DEF Knows, Held, Holding
<1>10. HostInv'
    <2>1. \A g \in Hosts : PendingOf(g)' \subseteq PendingOf(g)
        <3>1. \A c \in Calls : call'[c].at = call[c].at /\ (call'[c].st \in Pending => call[c].st \in Pending)
            BY DEF Pending
        <3> QED
            BY <3>1, PendingShrinks
    <2>2. \A g \in Hosts : ~Live(g) => \A a \in Hosts : net'[a][g] = <<>>
        BY <1>1, <1>2 DEF HostInv
    <2> QED
        BY <1>2, <1>5, <2>1, <2>2 DEF HostInv
<1>11. CallInv'
    <2> SUFFICES ASSUME NEW c \in Calls, NEW g, NEW w, call'[c].at = g, call'[c].to = w
                 PROVE  /\ call'[c].st \in Pending => g \in Hosts /\ Live(g)'
                        /\ call'[c].st \in {"sent", "doubted"} => w \in Hosts \ {g} /\ Knows(g, w)'
                        /\ call'[c].st = "doubted" => c \notin RetrySafe /\ ~Holding(w)'
                        /\ call'[c].st = "here" => w = g
        BY CallsAre
    <2>1. CASE call'[c] = call[c]
        <3>2. /\ call[c].st \in Pending => g \in Hosts /\ Live(g)
              /\ call[c].st \in {"sent", "doubted"} => g \in Hosts /\ w \in Hosts \ {g} /\ Knows(g, w)
              /\ call[c].st = "doubted" => w \in Hosts /\ c \notin RetrySafe /\ ~Holding(w)
              /\ call[c].st = "here" => w = g
            BY <2>1 DEF CallInv, Pending
        <3> QED
            BY <1>5, <1>8, <2>1, <3>2
    <2>2. CASE g = h /\ call'[c].st \in {"unsent", "answered", "failed"}
        BY <1>2, <1>5, <2>2
    <2> QED
        BY <2>1, <2>2
<1> QED
    BY <1>4, <1>5, <1>6, <1>7, <1>9, <1>10, <1>11

\* An answer: the call is done, or refused and waits.
LEMMA ResponseStep ==
    ASSUME Inv, NEW h \in Hosts, NEW from \in Hosts, NEW n, NEW m, Got(h, from, n, m),
           m.t = "response", OnResponse(h, from, m.c, m.st, n)
    PROVE  Inv'
<1> USE DEF Inv
<1>1. /\ n \in NetOf(Message) /\ m \in Message /\ Message' = Message
      /\ \A a, b \in Hosts : n[a][b] = IF a = from /\ b = h THEN Tail(net[a][b]) ELSE net[a][b]
    BY Taken
<1>2. PICK c \in Calls, st \in {"answered", "failed", "retry"} : c = m.c /\ st = m.st
    BY <1>1, MessageFields
<1>3. net' = n /\ UNCHANGED <<newest, closing, chain, lock, grants, runs, crashes>>
    BY DEF OnResponse, Got, hostVars
<1> DEFINE out == c \in Inflight(h) /\ call[c].to = from
<1>4. /\ out => call[c].at = h /\ call[c].st \in {"sent", "doubted"}
      /\ call[c].at = h /\ call[c].to = from /\ call[c].st \in {"sent", "doubted"} => out
    BY DEF Inflight
<1>5. /\ ~out => UNCHANGED <<role, holder, gone, call>>
      /\ out => /\ call' = [call EXCEPT ![c].st = IF st = "retry" THEN "unsent" ELSE st]
                /\ UNCHANGED <<holder, role>> \/ Unknown(h)
                /\ gone' = gone \/ gone' = [gone EXCEPT ![h] = gone[h] \cup {from}]
    BY <1>2 DEF OnResponse, hostVars
<1>6. /\ UNCHANGED <<holder, role>> \/ Unknown(h)
      /\ gone' \in [Hosts -> SUBSET Hosts]
    <2>1. gone \in [Hosts -> SUBSET Hosts]
        BY DEF TypeOK
    <2> QED
        BY <1>5, <2>1
<1>7. /\ call' \in [Calls -> [st : {"new", "orphaned"} \cup Pending \cup Outcomes,
                               at : Hosts \cup {None}, to : Hosts \cup {None}]]
      /\ \A d \in Calls \ {c} : call'[d] = call[d]
      /\ ~out => call'[c] = call[c]
      /\ out => /\ call'[c].at = call[c].at /\ call'[c].to = call[c].to
                /\ call'[c].st = IF st = "retry" THEN "unsent" ELSE st
    <2>1. call \in [Calls -> [st : {"new", "orphaned"} \cup Pending \cup Outcomes,
                               at : Hosts \cup {None}, to : Hosts \cup {None}]]
        BY DEF TypeOK
    <2>2. CASE out
        BY <1>5, <2>1, <2>2 DEF Pending, Outcomes
    <2>3. CASE ~out
        BY <1>5, <2>1, <2>3
    <2> QED
        BY <2>2, <2>3
<1>8. \A d \in Calls : call'[d] = call[d]
          \/ /\ call'[d].at = call[d].at /\ call'[d].to = call[d].to
             /\ call[d].at = h /\ call[d].st \in {"sent", "doubted"}
             /\ call'[d].st \in {"unsent", "answered", "failed"}
    BY <1>4, <1>7
<1> HIDE DEF out
<1>9. /\ TypeOK' /\ LockInv' /\ HolderInv' /\ MessageInv' /\ HostInv' /\ CallInv' /\ Onward
      /\ \A w \in Hosts : role'[w] = "killed" \/ role[w] # "killed"
    BY <1>3, <1>6, <1>7, <1>8, Settled
<1>10. \A d \in Calls \ {c} : \A a, b \in Hosts : Same(net[a][b], net'[a][b], d)
    <2>1. \A d \in Calls \ {c} : ~About(m, d)
        BY <1>2 DEF About
    <2> QED
        BY <1>3, <2>1, Taken
<1>11. CopyInv'
    <2>1. ASSUME NEW d \in Calls \ RetrySafe, d # c PROVE CopyOK(d)'
        <3>1. \A g \in Hosts : Same(chain[g], chain'[g], d)
            BY <1>3 DEF Same, Quiet
        <3> QED
            BY <1>3, <1>7, <1>9, <1>10, <2>1, <3>1, CopiesKept
    <2>2. ASSUME c \notin RetrySafe PROVE CopyOK(c)'
        <3>1. CopyOK(c) /\ About(m, c)
            BY <1>2, <2>2 DEF CopyInv, About
        <3>2. m = net[from][h][1] /\ 1 \in DOMAIN net[from][h]
            BY Typed, TailSeq DEF Got
        <3>3. /\ from = call[c].to /\ h = call[c].at /\ call[c].st \notin {"new", "unsent", "here"}
              /\ (st = "retry" => runs[c] = 0) /\ runs[c] \in {0, 1}
            <4>1. InNet(c) /\ RunsInv(c)
                BY <3>1 DEF CopyOK
            <4>2. /\ from = call[c].to /\ h = call[c].at /\ call[c].st \notin {"new", "unsent", "here"}
                  /\ (m.st = "retry" => runs[c] = 0)
                BY <3>1, <3>2, <4>1 DEF InNet
            <4> QED
                BY <1>2, <4>1, <4>2 DEF RunsInv
        <3>4. \A a, b \in Hosts : ~Has(net[a][b], c)' /\ ~Has(chain[a], c)'
            BY <1>3, <3>1, Taken
        <3>5. call'[c].st \in {"new", "unsent", "sent", "doubted"} => runs[c] = 0
            BY <1>4, <1>7, <3>3
        <3> QED
            BY <1>3, <3>3, <3>4, <3>5, NoMore
    <2> QED
        BY <2>1, <2>2 DEF CopyInv
<1> QED
    BY <1>9, <1>11

\* The holder has let the lock go: what it did not answer has never run.
LEMMA ReleasedStep ==
    ASSUME Inv, NEW h \in Hosts, NEW from \in Hosts, NEW n, NEW m, Got(h, from, n, m),
           m.t = "released", OnReleased(h, from, n)
    PROVE  Inv'
<1> USE DEF Inv
<1>1. /\ n \in NetOf(Message) /\ m \in Message /\ Message' = Message
      /\ \A a, b \in Hosts : n[a][b] = IF a = from /\ b = h THEN Tail(net[a][b]) ELSE net[a][b]
    BY Taken
<1>2. net' = n /\ UNCHANGED <<newest, closing, chain, lock, grants, runs, crashes>>
    BY DEF OnReleased, Got
<1>3. m = net[from][h][1] /\ 1 \in DOMAIN net[from][h] /\ net[from][h] \in Seq(Message) /\ net[from][h] # <<>>
    BY Typed, TailSeq DEF Got
<1>4. role[from] = "closed" /\ 1 = Len(net[from][h])
    BY <1>3 DEF MessageInv
<1>5. n[from][h] = <<>> /\ chain[from] = <<>> /\ \A a \in Hosts : net[a][from] = <<>>
    <2>1. Len(Tail(net[from][h])) = 0 /\ Tail(net[from][h]) \in Seq(Message)
        BY <1>3, <1>4, TailSeq
    <2>2. ~Holding(from) /\ ~Live(from)
        BY <1>4 DEF Holding, Live
    <2>3. n[from][h] = Tail(net[from][h])
        BY <1>1
    <2>4. Tail(net[from][h]) = <<>>
        <3> DEFINE t == Tail(net[from][h])
        <3>1. t \in Seq(Message) /\ Len(t) = 0
            BY <2>1
        <3> HIDE DEF t
        <3>2. t = <<>>
            BY <3>1
        <3> QED
            BY <3>2 DEF t
    <2>5. chain[from] = <<>> /\ \A a \in Hosts : net[a][from] = <<>>
        BY <2>2 DEF HostInv
    <2> QED
        BY <2>3, <2>4, <2>5
<1> DEFINE lost == {c \in Calls : holder[h] = from /\ c \in Inflight(h) /\ call[c].to = from}
<1>6. \A c \in lost : call[c].at = h /\ call[c].to = from /\ call[c].st \in {"sent", "doubted"}
    BY DEF Inflight
<1>7. /\ UNCHANGED <<holder, role>> \/ Unknown(h)
      /\ gone' \in [Hosts -> SUBSET Hosts]
      /\ call' = [c \in Calls |-> IF c \in lost THEN [call[c] EXCEPT !.st = "unsent"] ELSE call[c]]
    <2>1. gone' = [gone EXCEPT ![h] = gone[h] \cup {from}] /\ gone \in [Hosts -> SUBSET Hosts]
        BY DEF OnReleased, TypeOK
    <2>2. CASE holder[h] = from
        BY <2>1, <2>2 DEF OnReleased
    <2>3. CASE holder[h] # from
        <3>1. UNCHANGED <<holder, role, call>>
            BY <2>3 DEF OnReleased
        <3>2. call = [c \in Calls |-> call[c]]
            BY DEF TypeOK
        <3> QED
            BY <2>1, <2>3, <3>1, <3>2
    <2> QED
        BY <2>2, <2>3
<1> DEFINE T == [st : {"new", "orphaned"} \cup Pending \cup Outcomes, at : Hosts \cup {None}, to : Hosts \cup {None}]
<1>8. /\ call' \in [Calls -> T]
      /\ \A c \in Calls \ lost : call'[c] = call[c]
      /\ \A c \in lost : /\ call'[c].at = call[c].at /\ call'[c].to = call[c].to
                         /\ call'[c].st = "unsent"
    <2>1. call \in [Calls -> T]
        BY DEF TypeOK
    <2> HIDE DEF lost
    <2>2. \A c \in Calls : call'[c] = IF c \in lost THEN [call[c] EXCEPT !.st = "unsent"] ELSE call[c]
        BY <1>7
    <2>3. \A c \in Calls : [call[c] EXCEPT !.st = "unsent"] \in T
        BY <2>1 DEF Pending
    <2>4. \A c \in lost : c \in Calls
        BY DEF lost
    <2>5. \A c \in lost : call'[c].at = call[c].at /\ call'[c].to = call[c].to /\ call'[c].st = "unsent"
        BY <2>1, <2>2, <2>4
    <2>6. \A c \in Calls : call'[c] \in T
        BY <2>1, <2>2, <2>3
    <2> HIDE DEF T
    <2>7. call' \in [Calls -> T]
        BY <1>7, <2>6
    <2> QED
        BY <2>2, <2>5, <2>7
<1>9. \A d \in Calls : call'[d] = call[d]
          \/ /\ call'[d].at = call[d].at /\ call'[d].to = call[d].to
             /\ call[d].at = h /\ call[d].st \in {"sent", "doubted"}
             /\ call'[d].st \in {"unsent", "answered", "failed"}
    BY <1>6, <1>8
<1> HIDE DEF lost
<1>10. /\ TypeOK' /\ LockInv' /\ HolderInv' /\ MessageInv' /\ HostInv' /\ CallInv' /\ Onward
       /\ \A w \in Hosts : role'[w] = "killed" \/ role[w] # "killed"
    <2>1. \A c \in Calls : m.t # "response" => ~About(m, c)
        BY DEF About
    <2> QED
        BY <1>2, <1>7, <1>8, <1>9, <2>1, Settled
<1>11. \A c : \A a, b \in Hosts : Same(net[a][b], net'[a][b], c)
    <2>1. \A c : ~About(m, c)
        BY DEF About
    <2> QED
        BY <1>2, <2>1, Taken
<1>12. CopyInv'
    <2> SUFFICES ASSUME NEW c \in Calls \ RetrySafe PROVE CopyOK(c)'
        BY DEF CopyInv
    <2>1. CASE c \notin lost
        <3>1. \A g \in Hosts : Same(chain[g], chain'[g], c)
            BY <1>2 DEF Same, Quiet
        <3> QED
            BY <1>2, <1>8, <1>10, <1>11, <2>1, <3>1, CopiesKept
    <2>2. CASE c \in lost
        <3>1. CopyOK(c) /\ call[c].at = h /\ call[c].to = from /\ call[c].st \in {"sent", "doubted"}
            BY <1>6, <2>2 DEF CopyInv
        <3>2. \A a \in Hosts : ~Has(chain[a], c)
            BY <1>5, <3>1 DEF CopyOK, InChain, Has
        <3>3. \A a, b \in Hosts : ~Has(n[a][b], c)
            <4> SUFFICES ASSUME NEW a \in Hosts, NEW b \in Hosts, Has(n[a][b], c) PROVE FALSE
                OBVIOUS
            <4>1. Has(net[a][b], c)
                BY <1>2, <1>11, NoneNew DEF Same
            <4>2. (a = h /\ b = from) \/ (a = from /\ b = h)
                BY <3>1, <4>1 DEF CopyOK, InNet, Has
            <4>3. ~Has(net[h][from], c) /\ ~Has(n[from][h], c)
                BY <1>5 DEF Has
            <4> QED
                BY <4>1, <4>2, <4>3
        <3>4. runs[c] = 0
            <4>1. ~Has(chain[from], c) /\ ~Has(net[from][h], c)
                <5>1. ~About(m, c)
                    BY DEF About
                <5>2. \A i \in DOMAIN net[from][h] : i = 1
                    BY <1>3, <1>4
                <5> QED
                    BY <1>3, <3>2, <5>1, <5>2 DEF Has
            <4> QED
                BY <1>4, <3>1, <4>1 DEF CopyOK, RunsInv
        <3> QED
            BY <1>2, <1>8, <2>2, <3>2, <3>3, <3>4, NoMore
    <2> QED
        BY <2>1, <2>2
<1> QED
    BY <1>10, <1>12

LEMMA ReceiveStep == ASSUME Inv, NEW h \in Hosts, NEW from \in Hosts, Receive(from, h) PROVE Inv'
<1>1. Head(net[from][h]) = net[from][h][1]
    BY Typed, TailSeq DEF Receive, Inv
<1>2. PICK n, m : Got(h, from, n, m) /\
          \/ m.t = "hello" /\ OnHello(h, n)
          \/ m.t = "holder" /\ OnHolder(h, from, m.epoch, n)
          \/ m.t = "request" /\ OnRequest(h, from, m.c, n)
          \/ m.t = "response" /\ OnResponse(h, from, m.c, m.st, n)
          \/ m.t = "released" /\ OnReleased(h, from, n)
    BY <1>1 DEF Receive, Got
<1> QED
    BY <1>2, HelloStep, HolderStep, RequestStep, ResponseStep, ReleasedStep

-----------------------------------------------------------------------------
(* The lock changes hands.                                                  *)

LEMMA HoldStep == ASSUME Inv, NEW h \in Hosts, Hold(h) PROVE Inv'
<1> USE DEF Inv
<1>1. /\ lock # <<>> /\ lock[1] = h /\ Live(h) /\ ~Holding(h) /\ grants' = grants + 1
      /\ role' = [role EXCEPT ![h] = "opening"] /\ newest' = [newest EXCEPT ![h] = grants']
      /\ holder' = [holder EXCEPT ![h] = h] /\ net' = Broadcast(net, h, Announce(grants'))
      /\ call' = Reroute(h, h) /\ UNCHANGED <<gone, closing, lock, runs, crashes>>
    BY Typed DEF Hold
<1> DEFINE out == Unsent(h) \cup Resend(h, h)
<1>2. PICK s \in SetToSeqs(out) : chain' = [chain EXCEPT ![h] = <<OpenTask>> \o Tasks(s, h)]
    BY DEF Hold, Outgoing
<1>3. /\ out \in SUBSET Calls
      /\ \A c \in Calls : c \in out => call'[c].st = "here" /\ call'[c].at = h /\ call'[c].to = h
      /\ \A c \in Calls \ out : call'[c].at = call[c].at /\ call'[c].to = call[c].to
      /\ \A c \in Calls \ out : c \in Elsewhere(h, h) => call'[c].st = "doubted"
      /\ \A c \in Calls \ out : c \notin Elsewhere(h, h) => call'[c] = call[c]
      /\ \A c \in Calls \ RetrySafe : c \in out => call[c].st = "unsent"
      /\ \A c \in Calls : c \in Elsewhere(h, h) =>
            call[c].st \in {"sent", "doubted"} /\ call[c].at = h /\ call[c].to # h
      /\ \A c \in Calls : c \in Elsewhere(h, h) /\ c \notin out => c \notin RetrySafe
      /\ \A g \in Hosts : PendingOf(g)' = PendingOf(g)
      /\ call' \in [Calls -> [st : {"new", "orphaned"} \cup Pending \cup Outcomes,
                               at : Hosts \cup {None}, to : Hosts \cup {None}]]
    BY <1>1, Rerouted
<1> DEFINE r == <<OpenTask>> \o Tasks(s, h)
<1>4. /\ r \in Seq(TaskSet)
      /\ \A i \in DOMAIN r : r[i].t = "open" \/ (r[i].t = "call" /\ r[i].c \in out /\ r[i].from = h /\ r[i].ran = "no")
      /\ \A c : Once(r, c) /\ (Has(r, c) => c \in out)
    BY <1>2, <1>3, Tasked
<1> HIDE DEF out, r
<1>5. chain'[h] = r /\ (\A g \in Hosts \ {h} : chain'[g] = chain[g]) /\ chain[h] = <<>> /\ DOMAIN chain[h] = {}
    BY <1>1, <1>2, Typed DEF HostInv, r
<1>6. ~Held(h) /\ \A w \in Hosts \ {h} : ~Holding(w)
    BY <1>1 DEF LockInv, Held, Holding, Live
<1>7. /\ Holding(h)' /\ Live(h)' /\ Held(h)'
      /\ \A g \in Hosts \ {h} : (Held(g)' <=> Held(g)) /\ (Holding(g)' <=> Holding(g)) /\ (Live(g)' <=> Live(g))
      /\ \A w \in Hosts : role'[w] = "killed" \/ role[w] # "killed"
    BY <1>1, Typed DEF Held, Holding, Live
<1>8. grants \in Nat /\ grants' \in Nat /\ grants <= grants' /\ \A w \in Hosts : newest[w] <= grants
    BY <1>1, Typed
<1>9. Onward
    BY <1>1, <1>6, <1>7, <1>8, Typed DEF Onward, Held
<1> DEFINE x == Announce(grants')
<1>10. x \in Message' /\ x.t = "holder" /\ x.epoch = grants'
    BY <1>8 DEF Announce, Message
<1> HIDE DEF x
<1>11. /\ net' \in NetOf(Message')
       /\ \A a, b \in Hosts : net'[a][b] = IF a = h /\ b # h /\ Live(b) THEN Append(net[a][b], x) ELSE net[a][b]
       /\ \A a, b \in Hosts : net[a][b] \in Seq(Message') /\ ChannelStep(a, b, IF a = h THEN {x} ELSE {})
       /\ \A c : ~About(x, c) => \A a, b \in Hosts : Same(net[a][b], net'[a][b], c)
    <2>1. role[h] # "closed" /\ net' = Broadcast(net, h, x)
        BY <1>1 DEF Live, x
    <2> QED
        BY <1>8, <1>10, <2>1, Announced
<1>12. TypeOK'
    <2>1. newest' \in [Hosts -> 0 .. grants'] /\ holder' \in [Hosts -> Hosts \cup {None}]
        <3>1. newest \in [Hosts -> 0 .. grants']
            BY <1>1, <1>8 DEF TypeOK
        <3>2. grants' \in 0 .. grants'
            BY <1>8
        <3>3. newest' \in [Hosts -> 0 .. grants']
            BY <1>1, <3>1, <3>2
        <3> QED
            BY <1>1, <3>3 DEF TypeOK
    <2>2. net' \in [Hosts -> [Hosts -> Seq(Message')]]
        BY <1>11 DEF NetOf
    <2>3. role' \in [Hosts -> {"off", "connecting", "forwarding", "opening", "holder", "failed", "closed", "killed"}]
        BY <1>1 DEF TypeOK
    <2>4. chain' \in [Hosts -> Seq(TaskSet)]
        BY <1>2, <1>4 DEF TypeOK, r
    <2> QED
        BY <1>1, <1>3, <1>8, <2>1, <2>2, <2>3, <2>4 DEF TypeOK
<1>13. MessageInv'
    <2> DEFINE M == [a \in Hosts |-> [b \in Hosts |-> IF a = h THEN {x} ELSE {}]]
    <2>1. \A a, b \in Hosts : M[a][b] = IF a = h THEN {x} ELSE {}
        OBVIOUS
    <2> HIDE DEF M
    <2>2. \A a, b \in Hosts : \A m \in M[a][b] :
             /\ m.t = "holder" => Held(a)' /\ (Holding(a)' => m.epoch = newest'[a])
             /\ m.t # "released"
        BY <1>1, <1>7, <1>10, <2>1, Typed
    <2>3. ASSUME NEW a \in Hosts, NEW b \in Hosts PROVE ChannelStep(a, b, M[a][b]) /\ net[a][b] \in Seq(Message')
        <3>1. ChannelStep(a, b, IF a = h THEN {x} ELSE {}) /\ net[a][b] \in Seq(Message')
            BY <1>11
        <3>2. M[a][b] = IF a = h THEN {x} ELSE {}
            BY <2>1
        <3> QED
            BY <3>1, <3>2 DEF ChannelStep
    <2> QED
        BY <1>9, <2>2, <2>3, MessagesKept
<1>14. LockInv'
    BY <1>1, <1>6, <1>7, Typed DEF LockInv
<1>15. \A g, w \in Hosts : Knows(g, w) => Knows(g, w)'
    BY <1>9, <1>12, KnowsStill
<1>16. HolderInv'
    <2>1. Knows(h, h)'
        BY <1>1, <1>7, <1>8, Typed DEF Knows
    <2> QED
        BY <1>1, <1>15, <2>1, Typed DEF HolderInv
<1>17. HostInv'
    <2>1. \A g \in Hosts : ~Live(g) => \A a \in Hosts : net'[a][g] = <<>>
        BY <1>11 DEF HostInv
    <2>2. \A i \in DOMAIN chain'[h] : chain'[h][i].t # "quit"
        BY <1>4, <1>5
    <2>3. \A g \in Hosts \ {h} : /\ ~Holding(g)' => chain'[g] = <<>>
                                /\ \A i \in DOMAIN chain'[g] :
                                      chain'[g][i].t = "quit" => i = Len(chain'[g]) /\ closing[g] = "stopping"
        BY <1>5, <1>7 DEF HostInv
    <2> QED
        BY <1>1, <1>3, <1>7, <2>1, <2>2, <2>3 DEF HostInv
<1>18. CallInv'
    <2> SUFFICES ASSUME NEW c \in Calls, NEW g, NEW w, call'[c].at = g, call'[c].to = w
                 PROVE  /\ call'[c].st \in Pending => g \in Hosts /\ Live(g)'
                        /\ call'[c].st \in {"sent", "doubted"} => w \in Hosts \ {g} /\ Knows(g, w)'
                        /\ call'[c].st = "doubted" => c \notin RetrySafe /\ ~Holding(w)'
                        /\ call'[c].st = "here" => w = g
        BY CallsAre
    <2>1. CASE c \in out
        BY <1>3, <1>7, <2>1
    <2>2. CASE c \notin out /\ c \in Elsewhere(h, h)
        <3>1. call'[c].st = "doubted" /\ g = h /\ call[c].to = w /\ c \notin RetrySafe
            BY <1>3, <2>2
        <3>2. w \in Hosts \ {h} /\ Knows(h, w)
            BY <1>3, <2>2, <3>1 DEF CallInv
        <3> QED
            BY <1>6, <1>7, <1>15, <3>1, <3>2
    <2>3. CASE c \notin out /\ c \notin Elsewhere(h, h)
        <3>1. call'[c] = call[c] /\ call[c].at = g /\ call[c].to = w
            BY <1>3, <2>3
        <3>2. /\ call[c].st \in Pending => g \in Hosts /\ Live(g)
              /\ call[c].st \in {"sent", "doubted"} => g \in Hosts /\ w \in Hosts \ {g} /\ Knows(g, w)
              /\ call[c].st = "doubted" => w \in Hosts /\ c \notin RetrySafe /\ ~Holding(w) /\ Held(w)
              /\ call[c].st = "here" => w = g
            BY <3>1 DEF CallInv, Pending, Knows
        <3> QED
            BY <1>6, <1>7, <1>15, <3>1, <3>2
    <2> QED
        BY <2>1, <2>2, <2>3
<1>19. CopyInv'
    <2> SUFFICES ASSUME NEW c \in Calls \ RetrySafe PROVE CopyOK(c)'
        BY DEF CopyInv
    <2>1. CopyOK(c) /\ \A a, b \in Hosts : Same(net[a][b], net'[a][b], c)
        <3>1. ~About(x, c)
            BY <1>10 DEF About
        <3> QED
            BY <1>11, <3>1 DEF CopyInv
    <2>2. CASE c \in out
        <3>1. runs[c] = 0 /\ \A a, b \in Hosts : ~Has(net[a][b], c) /\ ~Has(chain[a], c)
            BY <1>3, <2>1, <2>2, NoCopies
        <3>2. \A a, b \in Hosts : ~Has(net[a][b], c)'
            BY <2>1, <3>1, NoneNew DEF Same
        <3>3. \A a \in Hosts : a # h => ~Has(chain[a], c)'
            BY <1>5, <3>1
        <3>4. Once(chain'[h], c) /\ \A i \in DOMAIN chain'[h] : About(chain'[h][i], c) => chain'[h][i].from = h
            BY <1>4, <1>5 DEF About
        <3> QED
            BY <1>1, <1>3, <2>2, <3>1, <3>2, <3>3, <3>4, OwnTask
    <2>3. CASE c \notin out
        <3>1. \A a \in Hosts : Same(chain[a], chain'[a], c)
            <4>1. Same(chain[h], chain'[h], c)
                <5>1. ~Has(r, c) /\ ~Has(chain[h], c)
                    BY <1>4, <1>5, <2>3 DEF Has
                <5> QED
                    BY <1>5, <5>1 DEF Same, Quiet, Has, Once
            <4> QED
                BY <1>5, <4>1 DEF Same, Quiet
        <3>2. CASE c \in Elsewhere(h, h)
            <4>1. /\ call[c].st \in {"sent", "doubted"} /\ call'[c].st = "doubted" /\ runs'[c] = runs[c]
                  /\ call'[c].at = call[c].at /\ call'[c].to = call[c].to
                BY <1>1, <1>3, <2>3, <3>2
            <4>2. call[c].at \in Hosts /\ call[c].to \in Hosts
                BY <4>1 DEF CallInv, Pending
            <4>3. role'[call[c].to] = "killed" \/ role[call[c].to] # "killed"
                BY <1>7, <4>2
            <4> QED
                BY <2>1, <3>1, <4>1, <4>2, <4>3, Restated
        <3>3. CASE c \notin Elsewhere(h, h)
            <4>1. call'[c] = call[c] /\ runs'[c] = runs[c]
                BY <1>1, <1>3, <2>3, <3>3
            <4> QED
                BY <1>7, <1>9, <2>1, <3>1, <4>1, CopiesKept
        <3> QED
            BY <3>2, <3>3
    <2> QED
        BY <2>2, <2>3
<1> QED
    BY <1>12, <1>13, <1>14, <1>16, <1>17, <1>18, <1>19

\* A host that is asked to close answers its own calls first.
LEMMA ShutdownStep == ASSUME Inv, NEW h \in Hosts, Shutdown(h) PROVE Inv'
<1> USE DEF Inv
<1>1. /\ Live(h) /\ closing[h] = "waiting" /\ PendingOf(h) = {}
      /\ closing' = [closing EXCEPT ![h] = "stopping"]
      /\ UNCHANGED <<holder, newest, gone, grants, call, runs, crashes>>
    BY DEF Shutdown, callVars
<1>2. \A g \in Hosts : PendingOf(g)' = PendingOf(g)
    BY <1>1 DEF PendingOf
<1>3. closing' \in [Hosts -> {"no", "waiting", "stopping"}] /\ Message' = Message
      /\ closing'[h] = "stopping" /\ \A g \in Hosts \ {h} : closing'[g] = closing[g]
    BY <1>1, SameClock DEF TypeOK
<1>4. CASE Holding(h)
    <2>1. UNCHANGED <<role, lock, net>> /\ chain' = [chain EXCEPT ![h] = Append(chain[h], QuitTask)]
        BY <1>4 DEF Shutdown, QuitsLast
    <2> DEFINE x == QuitTask
    <2>2. x \in TaskSet /\ x.t = "quit"
        BY MessageTypes DEF QuitTask
    <2> HIDE DEF x
    <2>3. /\ chain'[h] = Append(chain[h], x) /\ chain'[h] \in Seq(TaskSet) /\ \A g \in Hosts \ {h} : chain'[g] = chain[g]
          /\ Len(chain'[h]) = Len(chain[h]) + 1
          /\ \A i \in DOMAIN chain'[h] : i = Len(chain[h]) + 1 \/ (i \in DOMAIN chain[h] /\ chain'[h][i] = chain[h][i])
        <3>1. chain' = [chain EXCEPT ![h] = Append(chain[h], x)] /\ chain[h] \in Seq(TaskSet)
            BY <2>1, Typed DEF x
        <3> QED
            BY <2>2, <3>1, Typed, AppendSeq
    <2>4. TypeOK'
        BY <1>1, <1>3, <2>1, <2>3 DEF TypeOK
    <2>5. Onward /\ \A g \in Hosts : (Held(g)' <=> Held(g)) /\ (Holding(g)' <=> Holding(g)) /\ (Live(g)' <=> Live(g))
        BY <1>1, <2>1, Typed DEF Onward, Held, Holding, Live
    <2>6. MessageInv' /\ \A c : \A a, b \in Hosts : Same(net[a][b], net'[a][b], c)
        BY <1>1, <2>1, <2>5, Silent
    <2>7. LockInv' /\ HolderInv' /\ CallInv'
        BY <1>1, <2>1 DEF LockInv, HolderInv, CallInv, Knows, Held, Holding, Live
    <2>8. HostInv'
        <3>1. \A g \in Hosts : ~Holding(g)' => chain'[g] = <<>>
            BY <1>4, <2>3, <2>5 DEF HostInv
        <3>2. \A g \in Hosts : ~Live(g)' => \A a \in Hosts : net'[a][g] = <<>>
            BY <2>1, <2>5 DEF HostInv
        <3>3. \A g \in Hosts : \A i \in DOMAIN chain'[g] :
                  chain'[g][i].t = "quit" => i = Len(chain'[g]) /\ closing'[g] = "stopping"
            BY <1>1, <1>3, <2>3 DEF HostInv
        <3>4. \A g \in Hosts : closing'[g] = "stopping" => PendingOf(g)' = {}
            BY <1>1, <1>2, <1>3 DEF HostInv
        <3> QED
            BY <3>1, <3>2, <3>3, <3>4 DEF HostInv
    <2>9. CopyInv'
        <3> SUFFICES ASSUME NEW c \in Calls \ RetrySafe PROVE CopyOK(c)'
            BY DEF CopyInv
        <3>1. ~About(x, c)
            BY <2>2 DEF About
        <3>2. Same(chain[h], chain'[h], c)
            BY <2>2, <2>3, <3>1, Typed, AppendOther
        <3>3. \A g \in Hosts : Same(chain[g], chain'[g], c)
            BY <2>3, <3>2 DEF Same, Quiet
        <3>4. \A w \in Hosts : role'[w] = "killed" \/ role[w] # "killed"
            BY <2>1
        <3> QED
            BY <1>1, <2>5, <2>6, <3>3, <3>4, CopiesKept
    <2> QED
        BY <2>4, <2>6, <2>7, <2>8, <2>9
<1>5. CASE ~Holding(h)
    <2>1. /\ role' = [role EXCEPT ![h] = "closed"] /\ lock' = Without(lock, h)
          /\ net' = Deaf(net, h) /\ chain' = chain
        BY <1>5 DEF Shutdown
    <2>2. /\ net' \in NetOf(Message)
          /\ \A a, b \in Hosts : net'[a][b] = IF b = h THEN <<>> ELSE net[a][b]
        BY <2>1, Typed, DeafNet
    <2>3. TypeOK'
        <3>1. lock' \in Seq(Hosts)
            BY <2>1, Typed, WithoutSeq
        <3> QED
            BY <1>1, <1>3, <2>1, <2>2, <3>1 DEF TypeOK, NetOf
    <2>4. /\ ~Holding(h)' /\ ~Live(h)' /\ Held(h)' /\ ~Held(h)
          /\ \A g \in Hosts \ {h} : (Held(g)' <=> Held(g)) /\ (Holding(g)' <=> Holding(g)) /\ (Live(g)' <=> Live(g))
          /\ \A w \in Hosts : (role'[w] = "killed" <=> role[w] = "killed") /\ (role[w] = "closed" => role'[w] = "closed")
        BY <1>1, <1>5, <2>1, Typed DEF Held, Holding, Live
    <2>5. Onward
        BY <1>1, <2>4, Typed DEF Onward
    <2>6. MessageInv'
        <3> DEFINE M == [a \in Hosts |-> [b \in Hosts |-> {}]]
        <3>1. \A a, b \in Hosts : M[a][b] = {}
            OBVIOUS
        <3> HIDE DEF M
        <3>2. \A a, b \in Hosts : ChannelStep(a, b, M[a][b]) /\ net[a][b] \in Seq(Message')
            BY <1>3, <2>2, Typed DEF ChannelStep
        <3> QED
            BY <2>5, <3>1, <3>2, MessagesKept
    <2>7. LockInv'
        <3>1. \A w \in Hosts : Holding(w) => lock' # <<>> /\ lock'[1] = w
            BY <1>5, <2>1, Typed, WithoutSeq DEF LockInv
        <3> QED
            BY <1>1, <2>4, <3>1 DEF LockInv
    <2>8. \A g, w \in Hosts : Knows(g, w) => Knows(g, w)'
        BY <2>3, <2>5, KnowsStill
    <2>9. HolderInv'
        BY <1>1, <2>8, Typed DEF HolderInv
    <2>10. HostInv'
        <3>1. \A g \in Hosts : ~Live(g)' => \A a \in Hosts : net'[a][g] = <<>>
            BY <2>2, <2>4 DEF HostInv
        <3>2. \A g \in Hosts : closing'[g] = "stopping" => PendingOf(g)' = {}
            BY <1>1, <1>2, <1>3 DEF HostInv
        <3>3. \A g \in Hosts : ~Holding(g)' => chain'[g] = <<>>
            BY <1>5, <2>1, <2>4 DEF HostInv
        <3>4. \A g \in Hosts : \A i \in DOMAIN chain'[g] :
                  chain'[g][i].t = "quit" => i = Len(chain'[g]) /\ closing'[g] = "stopping"
            BY <1>3, <2>1 DEF HostInv
        <3> QED
            BY <3>1, <3>2, <3>3, <3>4 DEF HostInv
    <2>11. CallInv'
        <3> SUFFICES ASSUME NEW c \in Calls, NEW g, NEW w, call'[c].at = g, call'[c].to = w
                     PROVE  /\ call'[c].st \in Pending => g \in Hosts /\ Live(g)'
                            /\ call'[c].st \in {"sent", "doubted"} => w \in Hosts \ {g} /\ Knows(g, w)'
                            /\ call'[c].st = "doubted" => c \notin RetrySafe /\ ~Holding(w)'
                            /\ call'[c].st = "here" => w = g
            BY CallsAre
        <3>1. call'[c] = call[c] /\ call[c].at = g /\ call[c].to = w
            BY <1>1
        <3>2. /\ call[c].st \in Pending => g \in Hosts \ {h} /\ Live(g)
              /\ call[c].st \in {"sent", "doubted"} => g \in Hosts /\ w \in Hosts \ {g} /\ Knows(g, w)
              /\ call[c].st = "doubted" => w \in Hosts /\ c \notin RetrySafe /\ ~Holding(w)
              /\ call[c].st = "here" => w = g
            BY <1>1, <3>1 DEF CallInv, Pending, PendingOf
        <3> QED
            BY <2>4, <2>8, <3>1, <3>2
    <2>12. CopyInv'
        <3> SUFFICES ASSUME NEW c \in Calls \ RetrySafe PROVE CopyOK(c)'
            BY DEF CopyInv
        <3>1. CopyOK(c) /\ call'[c] = call[c] /\ runs'[c] = runs[c]
            BY <1>1 DEF CopyInv
        <3>2. \A a, b \in Hosts : Quiet(net[a][b], net'[a][b], c)
            <4> SUFFICES ASSUME NEW a \in Hosts, NEW b \in Hosts PROVE Quiet(net[a][b], net'[a][b], c)
                OBVIOUS
            <4>1. CASE net'[a][b] = net[a][b]
                BY <4>1 DEF Quiet
            <4>2. CASE net'[a][b] = <<>>
                <5>1. DOMAIN net'[a][b] = {}
                    BY <4>2
                <5> QED
                    BY <5>1, NoneIn
            <4> QED
                BY <2>2, <4>1, <4>2
        <3>3. \A a \in Hosts : Quiet(chain[a], chain'[a], c)
            BY <2>1 DEF Quiet
        <3>4. call[c].st \in {"sent", "doubted"} => call[c].at \in Hosts \ {h} /\ call[c].to \in Hosts
            BY <1>1 DEF CallInv, Pending, PendingOf
        <3> QED
            BY <2>1, <2>2, <2>4, <3>1, <3>2, <3>3, <3>4, Untouched
    <2> QED
        BY <2>3, <2>6, <2>7, <2>9, <2>10, <2>11, <2>12
<1> QED
    BY <1>4, <1>5

\* A host that closed leaves no call of its own, and another takes its place.
LEMMA ReleaseStep == ASSUME Inv, NEW h \in Hosts, Release(h) PROVE Inv'
<1> USE DEF Inv
<1>1. /\ chain[h] # <<>> /\ chain[h][1] = QuitTask /\ 1 \in DOMAIN chain[h] /\ chain[h] \in Seq(TaskSet)
      /\ chain' = [chain EXCEPT ![h] = Tail(chain[h])] /\ role' = [role EXCEPT ![h] = "closed"]
      /\ lock' = Without(lock, h) /\ net' = Deaf(Broadcast(net, h, Released), h)
      /\ UNCHANGED <<holder, newest, gone, closing, grants, call, runs, crashes>>
    BY Typed, TailSeq DEF Release, callVars
<1>2. Holding(h) /\ Live(h) /\ Held(h) /\ closing[h] = "stopping" /\ PendingOf(h) = {} /\ Len(chain[h]) = 1
    <2>1. Holding(h)
        BY <1>1 DEF HostInv
    <2>2. closing[h] = "stopping" /\ Len(chain[h]) = 1
        <3>1. chain[h][1].t = "quit"
            BY <1>1 DEF QuitTask
        <3> QED
            BY <1>1, <3>1 DEF HostInv
    <2>3. PendingOf(h) = {}
        BY <2>2 DEF HostInv
    <2> QED
        BY <2>1, <2>2, <2>3 DEF Holding, Live, Held
<1>3. /\ chain'[h] = <<>> /\ DOMAIN chain'[h] = {} /\ \A g \in Hosts \ {h} : chain'[g] = chain[g]
      /\ \A c : ~Has(chain[h], c)
    <2>1. chain'[h] = Tail(chain[h]) /\ \A g \in Hosts \ {h} : chain'[g] = chain[g]
        BY <1>1, Typed
    <2> DEFINE t == Tail(chain[h])
    <2>2. t \in Seq(TaskSet) /\ Len(t) = 0
        BY <1>1, <1>2, TailSeq
    <2>3. \A c : ~Has(chain[h], c)
        <3>1. \A c : ~About(chain[h][1], c)
            BY <1>1 DEF About, QuitTask
        <3>2. \A i \in DOMAIN chain[h] : i = 1
            BY <1>1, <1>2
        <3> QED
            BY <3>1, <3>2 DEF Has
    <2>4. chain'[h] = t
        BY <2>1
    <2> HIDE DEF t
    <2>5. t = <<>> /\ DOMAIN t = {}
        BY <2>2
    <2> QED
        BY <2>1, <2>3, <2>4, <2>5
<1>4. Message' = Message
    BY <1>1, SameClock
<1> DEFINE x == Released
<1>5. x \in Message /\ x.t = "released"
    BY MessageTypes DEF Released
<1> HIDE DEF x
<1>6. /\ net' \in NetOf(Message)
      /\ \A a, b \in Hosts : net'[a][b] = IF b = h THEN <<>>
                                          ELSE IF a = h /\ Live(b) THEN Append(net[a][b], x) ELSE net[a][b]
    <2> DEFINE n == Broadcast(net, h, x)
    <2>1. /\ n \in NetOf(Message)
          /\ \A a, b \in Hosts : n[a][b] = IF a = h /\ b # h /\ Live(b) THEN Append(net[a][b], x) ELSE net[a][b]
        BY <1>5, Typed, BroadcastNet
    <2>2. net' = Deaf(n, h)
        BY <1>1 DEF x
    <2> HIDE DEF n
    <2>3. net' \in NetOf(Message) /\ \A a, b \in Hosts : net'[a][b] = IF b = h THEN <<>> ELSE n[a][b]
        BY <2>1, <2>2, DeafNet
    <2> QED
        BY <2>1, <2>3
<1>7. TypeOK'
    <2>1. lock' \in Seq(Hosts)
        BY <1>1, Typed, WithoutSeq
    <2>2. chain' \in [Hosts -> Seq(TaskSet)]
        BY <1>1, TailSeq DEF TypeOK
    <2> QED
        BY <1>1, <1>4, <1>6, <2>1, <2>2 DEF TypeOK, NetOf
<1>8. /\ ~Holding(h)' /\ ~Live(h)' /\ Held(h)'
      /\ \A g \in Hosts \ {h} : (Held(g)' <=> Held(g)) /\ (Holding(g)' <=> Holding(g)) /\ (Live(g)' <=> Live(g))
      /\ \A w \in Hosts : (role'[w] = "killed" <=> role[w] = "killed") /\ (role[w] = "closed" => role'[w] = "closed")
    BY <1>1, <1>2, Typed DEF Held, Holding, Live
<1>9. Onward
    BY <1>1, <1>2, <1>8, Typed DEF Onward
<1>10. \A w \in Hosts : ~Holding(w)'
    BY <1>2, <1>8 DEF LockInv
<1>11. MessageInv'
    <2> SUFFICES ASSUME NEW a \in Hosts, NEW b \in Hosts, NEW i \in DOMAIN net'[a][b]
                 PROVE  /\ net'[a][b][i].t = "holder" => Held(a)'
                        /\ net'[a][b][i].t = "released" => i = Len(net'[a][b]) /\ role'[a] = "closed"
        BY <1>10 DEF MessageInv
    <2>1. CASE net'[a][b] = <<>>
        BY <2>1
    <2>2. CASE net'[a][b] = net[a][b]
        BY <1>8, <1>9, <2>2 DEF MessageInv, Onward
    <2>3. CASE a = h /\ net'[a][b] = Append(net[a][b], x)
        <3>1. /\ Len(net'[a][b]) = Len(net[a][b]) + 1 /\ net'[a][b][Len(net[a][b]) + 1] = x
              /\ i = Len(net[a][b]) + 1 \/ (i \in DOMAIN net[a][b] /\ net'[a][b][i] = net[a][b][i])
            <4> DEFINE q == net[a][b]
            <4>1. q \in Seq(Message)
                BY Typed
            <4> HIDE DEF q
            <4>2. /\ Len(Append(q, x)) = Len(q) + 1 /\ Append(q, x)[Len(q) + 1] = x
                  /\ \A j \in DOMAIN Append(q, x) : j = Len(q) + 1 \/ (j \in DOMAIN q /\ Append(q, x)[j] = q[j])
                BY <1>5, <4>1, AppendSeq
            <4> QED
                BY <2>3, <4>2 DEF q
        <3>2. role'[h] = "closed" /\ role[h] # "closed"
            BY <1>1, <1>2, Typed DEF Live
        <3>3. CASE i = Len(net[a][b]) + 1
            BY <1>5, <1>8, <2>3, <3>1, <3>2, <3>3
        <3>4. CASE i \in DOMAIN net[a][b] /\ net'[a][b][i] = net[a][b][i]
            BY <1>8, <2>3, <3>2, <3>4 DEF MessageInv
        <3> QED
            BY <3>1, <3>3, <3>4
    <2> QED
        BY <1>6, <2>1, <2>2, <2>3
<1>12. LockInv'
    BY <1>10 DEF LockInv
<1>13. \A g, w \in Hosts : Knows(g, w) => Knows(g, w)'
    BY <1>7, <1>9, KnowsStill
<1>14. HolderInv'
    BY <1>1, <1>13, Typed DEF HolderInv
<1>15. HostInv'
    <2>1. \A g \in Hosts : ~Live(g)' => \A a \in Hosts : net'[a][g] = <<>>
        BY <1>6, <1>8 DEF HostInv
    <2>2. \A g \in Hosts : PendingOf(g)' = PendingOf(g)
        BY <1>1 DEF PendingOf
    <2>3. \A g \in Hosts : ~Holding(g)' => chain'[g] = <<>>
        BY <1>3, <1>8 DEF HostInv
    <2>4. \A g \in Hosts : \A i \in DOMAIN chain'[g] :
              chain'[g][i].t = "quit" => i = Len(chain'[g]) /\ closing'[g] = "stopping"
        BY <1>1, <1>3 DEF HostInv
    <2> QED
        BY <1>1, <2>1, <2>2, <2>3, <2>4 DEF HostInv
<1>16. CallInv'
    <2> SUFFICES ASSUME NEW c \in Calls, NEW g, NEW w, call'[c].at = g, call'[c].to = w
                 PROVE  /\ call'[c].st \in Pending => g \in Hosts /\ Live(g)'
                        /\ call'[c].st \in {"sent", "doubted"} => w \in Hosts \ {g} /\ Knows(g, w)'
                        /\ call'[c].st = "doubted" => c \notin RetrySafe /\ ~Holding(w)'
                        /\ call'[c].st = "here" => w = g
        BY CallsAre
    <2>1. call'[c] = call[c] /\ call[c].at = g /\ call[c].to = w
        BY <1>1
    <2>2. /\ call[c].st \in Pending => g \in Hosts \ {h} /\ Live(g)
          /\ call[c].st \in {"sent", "doubted"} => g \in Hosts /\ w \in Hosts \ {g} /\ Knows(g, w)
          /\ call[c].st = "doubted" => w \in Hosts /\ c \notin RetrySafe /\ ~Holding(w)
          /\ call[c].st = "here" => w = g
        BY <1>2, <2>1 DEF CallInv, Pending, PendingOf
    <2> QED
        BY <1>8, <1>10, <1>13, <2>1, <2>2
<1>17. CopyInv'
    <2> SUFFICES ASSUME NEW c \in Calls \ RetrySafe PROVE CopyOK(c)'
        BY DEF CopyInv
    <2>1. CopyOK(c) /\ call'[c] = call[c] /\ runs'[c] = runs[c]
        BY <1>1 DEF CopyInv
    <2>2. ~About(x, c)
        BY <1>5 DEF About
    <2>3. ASSUME NEW a \in Hosts, NEW b \in Hosts
          PROVE  Quiet(net[a][b], net'[a][b], c) /\ (b # h => Same(net[a][b], net'[a][b], c))
        <3>1. CASE b # h /\ net'[a][b] = net[a][b]
            BY <3>1 DEF Same, Quiet
        <3>2. CASE b = h /\ net'[a][b] = <<>>
            <4>1. DOMAIN net'[a][b] = {}
                BY <3>2
            <4> QED
                BY <3>2, <4>1, NoneIn
        <3>3. CASE b # h /\ net'[a][b] = Append(net[a][b], x)
            BY <1>5, <2>2, <3>3, Typed, AppendOther DEF Same
        <3> QED
            BY <1>6, <3>1, <3>2, <3>3
    <2>4. \A a \in Hosts : Same(chain[a], chain'[a], c)
        <3>1. Same(chain[h], chain'[h], c)
            BY <1>3, NoneIn DEF Same
        <3> QED
            BY <1>3, <3>1 DEF Same, Quiet
    <2>5. call[c].st \in {"sent", "doubted"} => call[c].at \in Hosts \ {h} /\ call[c].to \in Hosts
        BY <1>2 DEF CallInv, Pending, PendingOf
    <2>6. /\ \A a, b \in Hosts : Quiet(net[a][b], net'[a][b], c)
          /\ \A a \in Hosts : Quiet(chain[a], chain'[a], c)
        BY <2>3, <2>4 DEF Same
    <2>7. call[c].st \in {"sent", "doubted"} /\ role'[call[c].to] # "killed" =>
              /\ role[call[c].to] # "killed"
              /\ Has(chain[call[c].to], c) => Has(chain[call[c].to], c)'
              /\ Has(net[call[c].to][call[c].at], c) => Has(net[call[c].to][call[c].at], c)'
        BY <1>8, <2>1, <2>3, <2>4, <2>5 DEF Same
    <2> QED
        BY <2>1, <2>6, <2>7, Untouched
<1> QED
    BY <1>7, <1>11, <1>12, <1>14, <1>15, <1>16, <1>17

\* The call c of a host that was killed.
LEMMA Orphaned ==
    ASSUME NEW c \in Calls, CopyOK(c), call[c].st \in {"sent", "doubted"}, call'[c].st = "orphaned",
           call'[c].at = call[c].at, call'[c].to = call[c].to, runs'[c] = runs[c],
           \A a, b \in Hosts : Quiet(net[a][b], net'[a][b], c),
           \A a \in Hosts : Quiet(chain[a], chain'[a], c)
    PROVE  CopyOK(c)'
<1>1. /\ \A a, b \in Hosts : Has(net[a][b], c)' => Has(net[a][b], c)
      /\ \A a \in Hosts : Has(chain[a], c)' => Has(chain[a], c)
    BY NoneNew
<1>2. InNet(c)'
    BY DEF CopyOK, InNet, Quiet
<1>3. InChain(c)'
    BY DEF CopyOK, InChain, Quiet
<1>4. OneCopy(c)'
    BY <1>1 DEF CopyOK, OneCopy, Quiet
<1>5. RunsInv(c)'
    BY DEF CopyOK, RunsInv
<1> QED
    BY <1>2, <1>3, <1>4, <1>5 DEF CopyOK

\* A tab that is killed takes its tasks and its calls with it.
LEMMA CrashStep == ASSUME Inv, NEW h \in Hosts, Crash(h) PROVE Inv'
<1> USE DEF Inv
<1>1. /\ Live(h) /\ crashes < MaxCrashes /\ crashes' = crashes + 1
      /\ role' = [role EXCEPT ![h] = "killed"] /\ chain' = [chain EXCEPT ![h] = <<>>] /\ lock' = Without(lock, h)
      /\ net' = Deaf(net, h) \/ net' = [Deaf(net, h) EXCEPT ![h] = [b \in Hosts |-> <<>>]]
      /\ call' = [c \in Calls |-> IF c \in PendingOf(h) THEN [call[c] EXCEPT !.st = "orphaned"] ELSE call[c]]
      /\ UNCHANGED <<holder, newest, gone, closing, grants, runs>>
    BY DEF Crash
<1>2. /\ net' \in NetOf(Message)
      /\ \A a, b \in Hosts : net'[a][b] = <<>> \/ (b # h /\ net'[a][b] = net[a][b])
      /\ \A a \in Hosts : net'[a][h] = <<>>
      /\ \A a, b \in Hosts : a # h /\ b # h => net'[a][b] = net[a][b]
    <2> DEFINE n == Deaf(net, h)
               none == [b \in Hosts |-> <<>>]
    <2>1. n \in NetOf(Message) /\ \A a, b \in Hosts : n[a][b] = IF b = h THEN <<>> ELSE net[a][b]
        BY Typed, DeafNet
    <2>2. none \in [Hosts -> Seq(Message)] /\ \A b \in Hosts : none[b] = <<>>
        OBVIOUS
    <2>3. net' = n \/ net' = [n EXCEPT ![h] = none]
        BY <1>1
    <2> HIDE DEF n, none
    <2>4. CASE net' = n
        BY <2>1, <2>4
    <2>5. CASE net' = [n EXCEPT ![h] = none]
        BY <2>1, <2>2, <2>5 DEF NetOf
    <2> QED
        BY <2>3, <2>4, <2>5
<1>3. /\ \A c \in Calls \ PendingOf(h) : call'[c] = call[c]
      /\ \A c \in PendingOf(h) : /\ call[c].at = h /\ call[c].st \in Pending /\ c \in Calls
                                 /\ call'[c].st = "orphaned" /\ call'[c].at = h /\ call'[c].to = call[c].to
      /\ call' \in [Calls -> [st : {"new", "orphaned"} \cup Pending \cup Outcomes,
                               at : Hosts \cup {None}, to : Hosts \cup {None}]]
    <2> DEFINE T == [st : {"new", "orphaned"} \cup Pending \cup Outcomes,
                     at : Hosts \cup {None}, to : Hosts \cup {None}]
               mine == PendingOf(h)
    <2>1. call \in [Calls -> T]
        BY DEF TypeOK
    <2>2. \A c \in mine : call[c].at = h /\ call[c].st \in Pending /\ c \in Calls
        BY DEF PendingOf
    <2> HIDE DEF mine
    <2>3. \A c \in Calls : call'[c] = IF c \in mine THEN [call[c] EXCEPT !.st = "orphaned"] ELSE call[c]
        BY <1>1 DEF mine
    <2>4. \A c \in Calls : [call[c] EXCEPT !.st = "orphaned"] \in T
        BY <2>1
    <2>5. \A c \in mine : call'[c].at = h /\ call'[c].to = call[c].to /\ call'[c].st = "orphaned"
        BY <2>1, <2>2, <2>3
    <2>6. \A c \in Calls : call'[c] \in T
        BY <2>1, <2>3, <2>4
    <2> HIDE DEF T
    <2>7. call' \in [Calls -> T]
        BY <1>1, <2>6
    <2> QED
        BY <2>2, <2>3, <2>5, <2>7 DEF T, mine
<1>4. Message' = Message
    BY <1>1, SameClock
<1>5. /\ ~Holding(h)' /\ ~Live(h)' /\ Held(h)'
      /\ \A g \in Hosts \ {h} : (Held(g)' <=> Held(g)) /\ (Holding(g)' <=> Holding(g)) /\ (Live(g)' <=> Live(g))
      /\ \A w \in Hosts : (role[w] = "closed" => role'[w] = "closed") /\ (w # h => role'[w] = role[w])
      /\ role'[h] = "killed"
    BY <1>1, Typed DEF Held, Holding, Live
<1>6. Onward
    BY <1>1, <1>5, Typed DEF Onward
<1>7. TypeOK'
    <2>1. lock' \in Seq(Hosts)
        BY <1>1, Typed, WithoutSeq
    <2>2. crashes' \in 0 .. MaxCrashes
        BY <1>1, CrashesAssumption DEF TypeOK
    <2>3. role' \in [Hosts -> {"off", "connecting", "forwarding", "opening", "holder", "failed", "closed", "killed"}]
        BY <1>1 DEF TypeOK
    <2>4. chain' \in [Hosts -> Seq(TaskSet)]
        <3>1. <<>> \in Seq(TaskSet)
            OBVIOUS
        <3> QED
            BY <1>1, <3>1 DEF TypeOK
    <2>5. net' \in [Hosts -> [Hosts -> Seq(Message')]]
        BY <1>2, <1>4 DEF NetOf
    <2> QED
        BY <1>1, <1>3, <2>1, <2>2, <2>3, <2>4, <2>5 DEF TypeOK
<1>8. MessageInv'
    <2> DEFINE M == [a \in Hosts |-> [b \in Hosts |-> {}]]
    <2>1. \A a, b \in Hosts : M[a][b] = {}
        OBVIOUS
    <2> HIDE DEF M
    <2>2. \A a, b \in Hosts : ChannelStep(a, b, M[a][b]) /\ net[a][b] \in Seq(Message')
        BY <1>2, <1>4, Typed DEF ChannelStep
    <2> QED
        BY <1>6, <2>1, <2>2, MessagesKept
<1>9. LockInv'
    <2>1. \A w \in Hosts \ {h} : Holding(w) => lock' # <<>> /\ lock'[1] = w
        BY <1>1, Typed, WithoutSeq DEF LockInv
    <2> QED
        BY <1>1, <1>5, <2>1 DEF LockInv
<1>10. \A g, w \in Hosts : Knows(g, w) => Knows(g, w)'
    BY <1>6, <1>7, KnowsStill
<1>11. HolderInv'
    BY <1>1, <1>10, Typed DEF HolderInv
<1>12. chain'[h] = <<>> /\ DOMAIN chain'[h] = {} /\ \A g \in Hosts \ {h} : chain'[g] = chain[g]
    BY <1>1, Typed
<1>13. HostInv'
    <2>1. \A g \in Hosts : ~Live(g)' => \A a \in Hosts : net'[a][g] = <<>>
        BY <1>2, <1>5 DEF HostInv
    <2>2. \A g \in Hosts : PendingOf(g)' \subseteq PendingOf(g)
        <3>1. \A c \in Calls : (call'[c].st \in Pending => call[c] = call'[c])
            BY <1>3 DEF Pending
        <3> QED
            BY <3>1 DEF PendingOf
    <2>3. \A g \in Hosts : ~Holding(g)' => chain'[g] = <<>>
        BY <1>5, <1>12 DEF HostInv
    <2>4. \A g \in Hosts : \A i \in DOMAIN chain'[g] :
              chain'[g][i].t = "quit" => i = Len(chain'[g]) /\ closing'[g] = "stopping"
        BY <1>1, <1>12 DEF HostInv
    <2> QED
        BY <1>1, <2>1, <2>2, <2>3, <2>4 DEF HostInv
<1>14. CallInv'
    <2> SUFFICES ASSUME NEW c \in Calls, NEW g, NEW w, call'[c].at = g, call'[c].to = w
                 PROVE  /\ call'[c].st \in Pending => g \in Hosts /\ Live(g)'
                        /\ call'[c].st \in {"sent", "doubted"} => w \in Hosts \ {g} /\ Knows(g, w)'
                        /\ call'[c].st = "doubted" => c \notin RetrySafe /\ ~Holding(w)'
                        /\ call'[c].st = "here" => w = g
        BY CallsAre
    <2>1. CASE c \in PendingOf(h)
        BY <1>3, <2>1 DEF Pending
    <2>2. CASE c \notin PendingOf(h)
        <3>1. call'[c] = call[c] /\ call[c].at = g /\ call[c].to = w
            BY <1>3, <2>2
        <3>2. /\ call[c].st \in Pending => g \in Hosts \ {h} /\ Live(g)
              /\ call[c].st \in {"sent", "doubted"} => g \in Hosts /\ w \in Hosts \ {g} /\ Knows(g, w)
              /\ call[c].st = "doubted" => w \in Hosts /\ c \notin RetrySafe /\ ~Holding(w)
              /\ call[c].st = "here" => w = g
            BY <2>2, <3>1 DEF CallInv, Pending, PendingOf
        <3> QED
            BY <1>5, <1>10, <3>1, <3>2
    <2> QED
        BY <2>1, <2>2
<1>15. CopyInv'
    <2> SUFFICES ASSUME NEW c \in Calls \ RetrySafe PROVE CopyOK(c)'
        BY DEF CopyInv
    <2>1. CopyOK(c) /\ runs'[c] = runs[c] /\ runs[c] \in {0, 1}
        BY <1>1 DEF CopyInv, CopyOK, RunsInv
    <2>2. ASSUME NEW a \in Hosts, NEW b \in Hosts PROVE Quiet(net[a][b], net'[a][b], c)
        <3>1. CASE net'[a][b] = net[a][b]
            BY <3>1 DEF Quiet
        <3>2. CASE net'[a][b] = <<>>
            <4>1. DOMAIN net'[a][b] = {}
                BY <3>2
            <4> QED
                BY <4>1, NoneIn
        <3> QED
            BY <1>2, <3>1, <3>2
    <2>3. ASSUME NEW a \in Hosts PROVE Quiet(chain[a], chain'[a], c)
        BY <1>12, NoneIn DEF Quiet
    <2>4. CASE c \notin PendingOf(h)
        <3>1. call'[c] = call[c]
            BY <1>3, <2>4
        <3>2. call[c].st \in {"sent", "doubted"} => call[c].at \in Hosts \ {h} /\ call[c].to \in Hosts
            BY <2>4 DEF CallInv, Pending, PendingOf
        <3>3. call[c].st \in {"sent", "doubted"} /\ role'[call[c].to] # "killed" =>
                  /\ role[call[c].to] # "killed"
                  /\ Has(chain[call[c].to], c) => Has(chain[call[c].to], c)'
                  /\ Has(net[call[c].to][call[c].at], c) => Has(net[call[c].to][call[c].at], c)'
            BY <1>2, <1>5, <1>12, <3>1, <3>2
        <3> QED
            BY <2>1, <2>2, <2>3, <3>1, <3>3, Untouched
    <2>5. CASE c \in PendingOf(h) /\ call[c].st \in {"sent", "doubted"}
        BY <1>3, <2>1, <2>2, <2>3, <2>5, Orphaned
    <2>6. CASE c \in PendingOf(h) /\ call[c].st \in {"unsent", "here"}
        <3>1. call'[c].st = "orphaned" /\ \A a, b \in Hosts : ~Has(net[a][b], c)
            BY <1>3, <2>1, <2>6 DEF CopyOK, InNet, Has
        <3>2. \A a \in Hosts \ {h} : ~Has(chain[a], c)
            BY <1>3, <2>1, <2>6 DEF CallInv, CopyOK, InChain, Has
        <3>3. \A a, b \in Hosts : ~Has(net[a][b], c)' /\ ~Has(chain[a], c)'
            <4>1. \A a, b \in Hosts : ~Has(net[a][b], c)'
                BY <2>2, <3>1, NoneNew
            <4>2. ~Has(chain'[h], c)
                BY <1>12, NoneIn
            <4> QED
                BY <1>12, <3>2, <4>1, <4>2
        <3> QED
            BY <2>1, <3>1, <3>3, NoMore
    <2> QED
        BY <1>3, <2>4, <2>5, <2>6 DEF Pending
<1> QED
    BY <1>7, <1>8, <1>9, <1>11, <1>13, <1>14, <1>15

-----------------------------------------------------------------------------
(* The theorems.                                                            *)

LEMMA StutterStep == ASSUME Inv, UNCHANGED vars PROVE Inv'
<1>1. UNCHANGED <<role, holder, newest, gone, closing, chain, lock, grants, net, call, runs, crashes>>
    BY DEF vars, hostVars, callVars
<1>2. TypeOK'
    BY <1>1, SameClock DEF Inv, TypeOK
<1>3. LockInv' /\ HolderInv' /\ MessageInv' /\ CallInv'
    BY <1>1 DEF Inv, LockInv, HolderInv, MessageInv, CallInv, Knows, Held, Holding, Live
<1>4. HostInv'
    <2>1. \A g \in Hosts : PendingOf(g)' = PendingOf(g)
        BY <1>1 DEF PendingOf
    <2> QED
        BY <1>1, <2>1 DEF Inv, HostInv, Holding, Live
<1>5. CopyInv'
    BY <1>1 DEF Inv, CopyInv, CopyOK, InNet, InChain, OneCopy, RunsInv, Has, Once
<1> QED
    BY <1>2, <1>3, <1>4, <1>5 DEF Inv

LEMMA NextInv == ASSUME Inv, [Next]_vars PROVE Inv'
<1>1. ASSUME NEW h \in Hosts, Works(h) PROVE Inv'
    BY <1>1, HoldStep, OpenStep, PerformStep, AnswerStep, ReleaseStep DEF Works
<1>2. ASSUME NEW h \in Hosts, Start(h) \/ SeekHolder(h) \/ Close(h) \/ Shutdown(h) \/ Crash(h) PROVE Inv'
    BY <1>2, StartStep, SeekStep, CloseStep, ShutdownStep, CrashStep
<1>3. ASSUME NEW h \in Hosts, NEW c \in Calls, Ask(h, c) PROVE Inv'
    BY <1>3, AskStep
<1>4. ASSUME NEW h \in Hosts, NEW from \in Hosts, Receive(from, h) PROVE Inv'
    BY <1>4, ReceiveStep
<1>5. ASSUME NEW c \in Calls, Lose(c) PROVE Inv'
    BY <1>5, LoseStep
<1> QED
    BY <1>1, <1>2, <1>3, <1>4, <1>5, StutterStep DEF Next

THEOREM Invariance == Spec => []Inv
<1>1. Inv /\ [Next]_vars => Inv'
    BY NextInv
<1> QED
    BY <1>1, InitInv, PTL DEF Spec

\* However tabs come, close and are killed, a call that is not safe to run
\* twice runs at most once, and one that waits for the next holder has not
\* run and is on its way nowhere (host.ts:16-24, #holderReleased).
THEOREM AtMostOnce == Spec => []RunsAtMostOnce
<1>1. ASSUME Inv PROVE RunsAtMostOnce
    <2> USE DEF Inv
    <2>1. RunsOnce
        BY <1>1 DEF RunsOnce, CopyInv, CopyOK, RunsInv
    <2>2. WaitingNeverRan
        <3> SUFFICES ASSUME NEW c \in Calls \ RetrySafe, call[c].st = "unsent"
                     PROVE  /\ runs[c] = 0
                            /\ \A h, from \in Hosts : ~Contains(chain[h], Task(c, from))
                            /\ \A a, b \in Hosts : ~Contains(net[a][b], Request(c))
            BY DEF WaitingNeverRan
        <3>1. runs[c] = 0 /\ \A a, b \in Hosts : ~Has(net[a][b], c) /\ ~Has(chain[a], c)
            BY <1>1, NoCopies DEF CopyInv
        <3>2. \A from \in Hosts : About(Task(c, from), c) /\ About(Request(c), c)
            BY DEF About, Task, Request
        <3>3. \A h, from \in Hosts : ~Contains(chain[h], Task(c, from))
            <4> SUFFICES ASSUME NEW h \in Hosts, NEW from \in Hosts, Contains(chain[h], Task(c, from)) PROVE FALSE
                OBVIOUS
            <4>1. PICK i \in DOMAIN chain[h] : chain[h][i] = Task(c, from)
                BY <1>1, Typed DEF Contains
            <4> QED
                BY <3>1, <3>2, <4>1 DEF Has
        <3>4. \A a, b \in Hosts : ~Contains(net[a][b], Request(c))
            <4> SUFFICES ASSUME NEW a \in Hosts, NEW b \in Hosts, Contains(net[a][b], Request(c)) PROVE FALSE
                OBVIOUS
            <4>1. PICK i \in DOMAIN net[a][b] : net[a][b][i] = Request(c)
                BY <1>1, Typed DEF Contains
            <4> QED
                BY <3>1, <3>2, <4>1 DEF Has
        <3> QED
            BY <3>1, <3>3, <3>4
    <2> QED
        BY <1>1, <2>1, <2>2 DEF RunsAtMostOnce
<1> QED
    BY <1>1, Invariance, PTL

\* No other step gives a call up.
LEMMA NotLost ==
    ASSUME Inv, NEW h \in Hosts, NEW c \in Calls, call'[c].st = "lost",
           \/ Start(h) \/ SeekHolder(h) \/ Works(h) \/ Close(h) \/ Shutdown(h) \/ Crash(h)
           \/ \E d \in Calls : Ask(h, d)
           \/ \E from \in Hosts : Receive(from, h)
    PROVE  call[c].st = "lost"
<1> USE DEF Inv
<1>1. DOMAIN call = Calls /\ \A d \in Calls : DOMAIN call[d] = {"st", "at", "to"}
    BY DEF TypeOK
<1>2. CASE Start(h) \/ SeekHolder(h) \/ Open(h) \/ Perform(h) \/ Release(h) \/ Close(h) \/ Shutdown(h)
    BY <1>2 DEF Start, SeekHolder, Open, Perform, Release, Close, Shutdown, callVars
<1>3. CASE Hold(h)
    BY <1>3, Rerouted DEF Hold
<1>4. CASE Answer(h)
    <2>1. chain[h] # <<>> /\ chain[h][1] = Head(chain[h]) /\ chain[h][1] \in TaskSet
        BY <1>4, Typed, TailSeq DEF Answer
    <2>2. PICK d \in Calls, ran \in {"answered", "failed"} : d = Head(chain[h]).c /\ ran = Head(chain[h]).ran
        BY <1>4, <2>1, TaskFields DEF Answer
    <2>3. call' = call \/ call' = [call EXCEPT ![d].st = ran]
        BY <1>4, <2>2 DEF Answer
    <2> QED
        BY <1>1, <2>2, <2>3
<1>5. CASE Crash(h)
    <2>1. call' = [d \in Calls |-> IF d \in PendingOf(h) THEN [call[d] EXCEPT !.st = "orphaned"] ELSE call[d]]
        BY <1>5 DEF Crash
    <2> QED
        BY <1>1, <2>1
<1>6. ASSUME NEW d \in Calls, Ask(h, d) PROVE call[c].st = "lost"
    BY <1>1, <1>6 DEF Ask
<1>7. ASSUME NEW from \in Hosts, Receive(from, h) PROVE call[c].st = "lost"
    <2>1. Live(h) /\ net[from][h] # <<>> /\ Head(net[from][h]) = net[from][h][1] /\ net[from][h][1] \in Message
        BY <1>7, Typed, TailSeq DEF Receive
    <2>2. PICK n, m : m \in Message /\
              \/ m.t = "hello" /\ OnHello(h, n)
              \/ m.t = "holder" /\ OnHolder(h, from, m.epoch, n)
              \/ m.t = "request" /\ OnRequest(h, from, m.c, n)
              \/ m.t = "response" /\ OnResponse(h, from, m.c, m.st, n)
              \/ m.t = "released" /\ OnReleased(h, from, n)
        BY <1>7, <2>1 DEF Receive
    <2>3. CASE OnHello(h, n) \/ OnRequest(h, from, m.c, n)
        BY <2>3 DEF OnHello, OnRequest, callVars
    <2>4. CASE OnHolder(h, from, m.epoch, n)
        BY <2>1, <2>4, Rerouted DEF OnHolder, callVars
    <2>5. CASE m.t = "response" /\ OnResponse(h, from, m.c, m.st, n)
        <3>1. PICK d \in Calls, st \in {"answered", "failed", "retry"} : d = m.c /\ st = m.st
            BY <2>2, <2>5, MessageFields
        <3>2. call' = call \/ call' = [call EXCEPT ![d].st = IF st = "retry" THEN "unsent" ELSE st]
            BY <2>5, <3>1 DEF OnResponse
        <3> QED
            BY <1>1, <3>1, <3>2
    <2>6. CASE OnReleased(h, from, n)
        <3>1. call' = call \/ \A d \in Calls : call'[d] = [call[d] EXCEPT !.st = "unsent"] \/ call'[d] = call[d]
            BY <2>6 DEF OnReleased
        <3> QED
            BY <1>1, <3>1
    <2> QED
        BY <2>2, <2>3, <2>4, <2>5, <2>6
<1> QED
    BY <1>2, <1>3, <1>4, <1>5, <1>6, <1>7 DEF Works

\* A call fails with ConnectionLostError only if the worker it was sent to has
\* lost the lock, whatever announcements come late (#onHolder, LOST_GRACE_MS).
THEOREM LostForGood == Spec => LostIsHonest
<1> DEFINE Honest == \A c \in Calls : call[c].st # "lost" /\ call'[c].st = "lost" => ~Holding(call[c].to)
<1>1. ASSUME Inv, [Next]_vars PROVE [Honest]_vars
    <2>1. CASE UNCHANGED vars
        BY <2>1
    <2>2. ASSUME NEW h \in Hosts,
                 \/ Start(h) \/ SeekHolder(h) \/ Works(h) \/ Close(h) \/ Shutdown(h) \/ Crash(h)
                 \/ \E d \in Calls : Ask(h, d)
                 \/ \E from \in Hosts : Receive(from, h)
          PROVE  Honest
        BY <1>1, <2>2, NotLost
    <2>3. ASSUME NEW d \in Calls, Lose(d) PROVE Honest
        <3>1. call[d].st = "doubted" /\ \A c \in Calls \ {d} : call'[c] = call[c]
            BY <1>1, <2>3, Typed DEF Lose, Inv
        <3>2. ~Holding(call[d].to)
            BY <1>1, <3>1 DEF Inv, CallInv
        <3> QED
            BY <3>1, <3>2
    <2> QED
        BY <1>1, <2>1, <2>2, <2>3 DEF Next
<1>2. Inv /\ [Next]_vars => [Honest]_vars
    BY <1>1
<1> QED
    BY <1>2, Invariance, PTL DEF Spec, LostIsHonest
=============================================================================
