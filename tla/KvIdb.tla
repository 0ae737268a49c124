------------------------------- MODULE KvIdb -------------------------------
(***************************************************************************)
(* kvgit's IndexedDB backend (kvgit-ts/src/backends/idb.ts): every call is  *)
(* one transaction, its requests served one at a time, its checks and its   *)
(* writes made from their callbacks.  IndexedDB runs a transaction only     *)
(* when no earlier one that writes (or, if it writes, none at all) is left, *)
(* commits one that has no request left, and may abort it until then.       *)
(***************************************************************************)
EXTENDS Naturals, Sequences, KvStore

VARIABLES
    queue,  \* the transactions that have not ended, by their callers, in order
    tx      \* caller -> its transaction: checks not yet answered, whether one
            \* failed, whether its writes were asked for, those not yet served
            \* and those made

vars == <<data, calls, queue, tx>>

NoTx == [checks |-> {}, failed |-> FALSE, landed |-> FALSE, puts |-> {}, made |-> <<>>]

IdbInit == Init /\ queue = <<>> /\ tx = [c \in Callers |-> NoTx]

Writes(c) == calls[c].op.kind = "batch"

\* #tx and the requests made with it: the checks, or at once the writes.
Requests(op) ==
    LET atOnce == DOMAIN op.expected = {}
    IN  [checks |-> DOMAIN op.expected, failed |-> FALSE, landed |-> atOnce,
         puts |-> IF atOnce THEN DOMAIN op.puts ELSE {}, made |-> <<>>]

Begin(c, op) ==
    /\ Ask(c, op)
    /\ queue' = Append(queue, c)
    /\ tx' = [tx EXCEPT ![c] = IF op.kind = "batch" THEN Requests(op) ELSE NoTx]

\* IndexedDB: whether a transaction runs.
Runs(c) ==
    \E i \in DOMAIN queue :
        /\ queue[i] = c
        /\ \A j \in 1..(i - 1) : ~Writes(queue[j]) /\ ~Writes(c)

\* The queue once transaction `c`, if it is there, has ended.
Without(c) ==
    LET ends == {i \in DOMAIN queue : queue[i] = c}
        passed(i) == \E j \in ends : j <= i
    IN  [i \in 1..(IF ends = {} THEN Len(queue) ELSE Len(queue) - 1) |->
            IF passed(i) THEN queue[i + 1] ELSE queue[i]]

Ended(c) == queue' = Without(c) /\ tx' = [tx EXCEPT ![c] = NoTx]

\* Mutant: the writes are asked for at the first check that holds.
CheckedEach(c, k) ==
    /\ k \in tx[c].checks /\ Runs(c)
    /\ LET holds == data[k] = calls[c].op.expected[k]
       IN  tx' = [tx EXCEPT ![c] = [@ EXCEPT
              !.checks = @ \ {k}, !.landed = @ \/ holds,
              !.puts = IF holds /\ ~tx[c].landed THEN DOMAIN calls[c].op.puts ELSE @]]
    /\ UNCHANGED <<data, calls, queue>>

\* casMany, cas: a check's answer; the writes are asked for with the last.
Checked(c, k) ==
    /\ k \in tx[c].checks /\ Runs(c)
    /\ LET left == tx[c].checks \ {k}
           failed == tx[c].failed \/ data[k] # calls[c].op.expected[k]
           apply == left = {} /\ ~failed
       IN  tx' = [tx EXCEPT ![c] =
              [checks |-> left, failed |-> failed, landed |-> apply,
               puts |-> IF apply THEN DOMAIN calls[c].op.puts ELSE {}, made |-> @.made]]
    /\ UNCHANGED <<data, calls, queue>>

\* A put's or a delete's request served.
Put(c, k) ==
    /\ k \in tx[c].puts /\ Runs(c)
    /\ tx' = [tx EXCEPT ![c] =
          [checks |-> {}, failed |-> FALSE, landed |-> TRUE, puts |-> @.puts \ {k},
           made |-> With(@.made, k, calls[c].op.puts[k])]]
    /\ UNCHANGED <<data, calls, queue>>

\* oncomplete: nothing is left to serve; the call's answer is whether it applied.
Complete(c) ==
    /\ Is(c, "batch") /\ Runs(c)
    /\ tx[c].checks = {} /\ tx[c].puts = {}
    /\ data' = Over(tx[c].made, data)
    /\ calls' = [calls EXCEPT ![c] = Done([landed |-> tx[c].landed])]
    /\ Ended(c)

\* get, getMany, has, keys, items: a request's answer.
Read(c, k) ==
    /\ Is(c, "read") /\ Runs(c)
    /\ ReadKey(c, k)
    /\ IF calls'[c].state = "done" THEN Ended(c) ELSE UNCHANGED <<queue, tx>>

\* onabort, onerror: a full disk, a lost connection.
Abort(c) == Fail(c) /\ Ended(c)

\* The answer taken, or the tab closed: its transaction is aborted.
Gone(c) == Leave(c) /\ Ended(c)

\* The tab closed as its transaction committed.
GoneCommitted(c) ==
    /\ Is(c, "batch") /\ Runs(c) /\ tx[c].landed /\ tx[c].puts = {}
    /\ data' = Over(tx[c].made, data)
    /\ calls' = [calls EXCEPT ![c] = Idle]
    /\ Ended(c)

IdbNext == \E c \in Callers :
    \/ \E op \in Ops : Begin(c, op)
    \/ \E k \in Keys : Checked(c, k) \/ Put(c, k) \/ Read(c, k)
    \/ Complete(c) \/ Abort(c) \/ Gone(c) \/ GoneCommitted(c)

IdbSpec == IdbInit /\ [][IdbNext]_vars
=============================================================================
