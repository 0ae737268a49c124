------------------------------ MODULE KvStore ------------------------------
(***************************************************************************)
(* What kvgit asks of a backend (kvgit-ts/src/types.ts, KVStore): calls     *)
(* made at once by several handles on one store.  A write is a batch, and   *)
(* lands whole or not at all, at one moment between its call and its        *)
(* answer, where everything it expected held; a read gives each key's value *)
(* at some moment of the call.  A call may fail, and then did nothing; its  *)
(* caller may die, and then it landed or not.  Of a store's own errors      *)
(* nothing more is promised.                                                *)
(***************************************************************************)
CONSTANTS
    Keys, Absent,  \* Absent: a key's null
    Callers,
    Ops            \* bound: what may be asked

VARIABLES
    data,   \* key -> its value, or Absent
    calls   \* caller -> its call: what was asked, what was read, what came of it

\* set, setMany, remove, removeMany, cas and casMany are batches: what they
\* expect, what they put (Absent: remove).  get, getMany, has, keys and items
\* are reads of some keys.
Idle == [state |-> "idle"]
Asking(op, got) == [state |-> "asked", op |-> op, got |-> got]
Asked(op) == Asking(op, <<>>)
Done(result) == [state |-> "done", result |-> result]

Init == data = [k \in Keys |-> Absent] /\ calls = [c \in Callers |-> Idle]

Ask(c, op) ==
    /\ calls[c] = Idle
    /\ calls' = [calls EXCEPT ![c] = Asked(op)]
    /\ UNCHANGED data

Is(c, kind) == calls[c].state = "asked" /\ calls[c].op.kind = kind
Holds(expected, at) == \A k \in DOMAIN expected : at[k] = expected[k]
Over(puts, at) == [k \in Keys |-> IF k \in DOMAIN puts THEN puts[k] ELSE at[k]]
With(f, k, v) == [j \in DOMAIN f \cup {k} |-> IF j = k THEN v ELSE f[j]]

Land(c) ==
    /\ Is(c, "batch")
    /\ LET op == calls[c].op
           ok == Holds(op.expected, data)
       IN  /\ data' = IF ok THEN Over(op.puts, data) ELSE data
           /\ calls' = [calls EXCEPT ![c] = Done([landed |-> ok])]

ReadKey(c, k) ==
    /\ Is(c, "read") /\ k \in calls[c].op.keys \ DOMAIN calls[c].got
    /\ LET got == With(calls[c].got, k, data[k])
       IN  calls' = [calls EXCEPT ![c] =
              IF DOMAIN got = @.op.keys THEN Done([got |-> got]) ELSE Asking(@.op, got)]
    /\ UNCHANGED data

Fail(c) ==
    /\ calls[c].state = "asked"
    /\ calls' = [calls EXCEPT ![c] = Done([failed |-> TRUE])]
    /\ UNCHANGED data

\* The answer taken, or the caller dead.
Leave(c) ==
    /\ calls[c] # Idle
    /\ calls' = [calls EXCEPT ![c] = Idle]
    /\ UNCHANGED data

\* The caller dead as its batch landed.
LandUnheard(c) ==
    /\ Is(c, "batch") /\ Holds(calls[c].op.expected, data)
    /\ data' = Over(calls[c].op.puts, data)
    /\ calls' = [calls EXCEPT ![c] = Idle]

Next == \E c \in Callers :
    \/ \E op \in Ops : Ask(c, op)
    \/ Land(c) \/ Fail(c) \/ Leave(c) \/ LandUnheard(c)
    \/ \E k \in Keys : ReadKey(c, k)

Spec == Init /\ [][Next]_<<data, calls>>
=============================================================================
