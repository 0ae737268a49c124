------------------------------- MODULE KvLog -------------------------------
(* The logged database of kvsql (kvsql/src/log.ts), within one epoch.       *)
(*                                                                          *)
(* Each copy of a database is a file and a repository of its own. The file  *)
(* holds the rows, the transactions not yet in the log ("pending") and the  *)
(* commit of the log it stands at ("base"); a file transaction changes all  *)
(* of them at once. The repository holds the log's branch, and beside it a  *)
(* branch and a tag while a rebase is made. Copies meet only through a      *)
(* remote, which the application's sync pushes to and pulls from at any     *)
(* moment. A call is the steps between its awaits; a crash may come between *)
(* any two, and leaves what the file and the repository hold.               *)
(*                                                                          *)
(* A commit is its number, given out as commits are made; what its hash     *)
(* covers never changes. A row's value is a number, a changeset the old and *)
(* the new values of the rows it touches. The schema version is the value   *)
(* of a row of its own, which only schema changes touch.                    *)
EXTENDS Naturals, Sequences, FiniteSets, FiniteSetsExt, SequencesExt, TLC

CONSTANTS
    Copies,     \* the copies of one database
    Rows,       \* the smallest things two changesets can clash on
    Schema,     \* the row standing for the schema version
    None,       \* no commit
    Ops,        \* which operations and failures an instance has
    Twins,      \* whether two copies may make changes that read the same
    MaxTx, MaxCommits, MaxCrashes

ASSUME LogAssumption ==
    /\ Schema \in Rows /\ None \notin Nat /\ Twins \in BOOLEAN
    /\ MaxTx \in Nat /\ MaxCommits \in Nat /\ MaxCrashes \in Nat
    /\ Ops \subseteq {"schema", "rebase", "keep", "restore", "sync", "fail", "close"}

VARIABLES
    commit,     \* the commits made: a line of commits, and an entry
    remote,     \* the remote's head of the branch
    head,       \* each repository's head of the log's branch
    temp,       \* and of the rebase's branch,
    tag,        \* the head a rebase starts from,
    saved,      \* and the checkpoints
    file,       \* each copy's file
    pc,         \* where its open database stands
    goal,       \* the call in progress
    wt,         \* the head its worktree knows
    rb,         \* the rebase in progress
    made,       \* the transactions made so far
    crashes

store == <<commit, remote, head, temp, tag, saved>>
vars == <<commit, remote, head, temp, tag, saved,
          file, pc, goal, wt, rb, made, crashes>>

Root == 0

---------------------------------------------------------------------------
(* Changesets *)

(* A transaction: what it changed, the schema version it ran under, and its *)
(* number, which nothing in the code sees. *)
Change(id, schema, from, to) == [id |-> id, schema |-> schema, from |-> from, to |-> to]

Do(data, t) == t.to @@ data
DoAll(data, ts) == FoldLeft(Do, data, ts)

\* Mutant: a changeset's old value is the one before its last change.
CombinedLast(ts) ==
    LET touching(r) == {i \in DOMAIN ts : r \in DOMAIN ts[i].from}
        touched == {r \in Rows : touching(r) # {}}
    IN  [from |-> [r \in touched |-> ts[Max(touching(r))].from[r]],
         to |-> [r \in touched |-> ts[Max(touching(r))].to[r]]]

(* Several changesets as one with the same net effect. *)
Combined(ts) ==
    LET touching(r) == {i \in DOMAIN ts : r \in DOMAIN ts[i].from}
        touched == {r \in Rows : touching(r) # {}}
        old == [r \in touched |-> ts[Min(touching(r))].from[r]]
        new == [r \in touched |-> ts[Max(touching(r))].to[r]]
        changed == {r \in touched : old[r] # new[r]}
    IN  [from |-> [r \in changed |-> old[r]], to |-> [r \in changed |-> new[r]]]

(* A changeset applies only over the values it was made over. *)
Fits(data, cs) == \A r \in DOMAIN cs.from : data[r] = cs.from[r]

HasSchemaChange(ts) == \E i \in DOMAIN ts : Schema \in DOMAIN ts[i].to

(* What an entry's digest covers: everything but who made it. *)
Body(t) == [t EXCEPT !.id = 0]
SameBodies(ts, us) ==
    Len(ts) = Len(us) /\ \A i \in DOMAIN ts : Body(ts[i]) = Body(us[i])

---------------------------------------------------------------------------
(* The log: a line of commits from the root *)

Line(k) == IF k = Root THEN <<>> ELSE commit[k].line
Entry(k) == commit[k].entry
(* Walking back from a commit to one before it. *)
After(k, base) ==
    LET place == IF base = Root THEN 0 ELSE CHOOSE i \in DOMAIN Line(k) : Line(k)[i] = base
    IN  SubSeq(Line(k), place + 1, Len(Line(k)))
TxsAfter(k, base) == FlattenSeq([i \in DOMAIN After(k, base) |-> Entry(After(k, base)[i])])
Holds(k, ancestor) == ancestor = Root \/ ancestor \in Range(Line(k))
MergeBase(j, k) == Max({Root} \cup (Range(Line(j)) \cap Range(Line(k))))

(* The commit that puts an entry after another commit. *)
NewCommit(parent, entry, c) ==
    [line |-> Append(Line(parent), Len(commit) + 1), entry |-> entry, by |-> c]
Room == Len(commit) < MaxCommits

Blank == [r \in Rows |-> 0]
DataAt(k) == DoAll(Blank, TxsAfter(k, Root))
Fresh == [base |-> Root, ahead |-> 0, data |-> Blank, pending |-> <<>>]

(* The first entry after the file's base is this file's own flush if the    *)
(* pending transactions it covers encode to its digest: drop them.          *)
OwnFlush(f, tip) ==
    /\ f.pending # <<>> /\ f.ahead = 0
    /\ After(tip, f.base) # <<>>
    /\ LET entry == Entry(After(tip, f.base)[1])
       IN  /\ Len(entry) <= Len(f.pending)
           /\ SameBodies(entry, SubSeq(f.pending, 1, Len(entry)))

DropOwnFlush(f, tip) ==
    IF OwnFlush(f, tip)
    THEN LET k == After(tip, f.base)[1]
         IN  [f EXCEPT !.base = k,
                       !.pending = SubSeq(@, Len(Entry(k)) + 1, Len(@))]
    ELSE f

---------------------------------------------------------------------------
NoRebase == [head |-> Root, onto |-> Root, start |-> Root, lines |-> <<>>,
             data |-> Blank, then |-> "retag"]
Call(op) == [op |-> op, retried |-> FALSE, keep |-> "none", onto |-> Root]

Init ==
    /\ commit = <<>> /\ remote = Root
    /\ head = [c \in Copies |-> Root]
    /\ temp = [c \in Copies |-> None]
    /\ tag = [c \in Copies |-> None]
    /\ saved = [c \in Copies |-> {}]
    /\ file = [c \in Copies |-> Fresh]
    /\ pc = [c \in Copies |-> "idle"]
    /\ goal = [c \in Copies |-> Call("none")]
    /\ wt = [c \in Copies |-> Root]
    /\ rb = [c \in Copies |-> NoRebase]
    /\ made = 0 /\ crashes = 0

(* Where a call goes next. *)
At(c, step) == pc' = [pc EXCEPT ![c] = step]
Become(c, g, step) == goal' = [goal EXCEPT ![c] = g] /\ At(c, step)
Finish(c) == Become(c, Call("none"), "idle") /\ rb' = [rb EXCEPT ![c] = NoRebase]
Shut(c) == Become(c, Call("none"), "closed") /\ rb' = [rb EXCEPT ![c] = NoRebase]

(* A call that throws. A failed open, and a close, leave the file closed; a *)
(* failed automatic checkpoint only goes on to the schema change's flush.   *)
Throw(c) ==
    CASE goal[c].op \in {"open", "close"} -> Shut(c)
      [] goal[c].op = "auto" -> Become(c, Call("flush"), "flush") /\ rb' = [rb EXCEPT ![c] = NoRebase]
      [] OTHER -> Finish(c)

(* Level with the branch: a flush goes on, a restore undoes, others end. *)
Level(c) ==
    CASE goal[c].op \in {"open", "rebase"} -> Finish(c)
      [] goal[c].op = "restoring" -> At(c, "undo") /\ UNCHANGED <<goal, rb>>
      [] OTHER -> At(c, "flush") /\ rb' = [rb EXCEPT ![c] = NoRebase] /\ UNCHANGED goal

---------------------------------------------------------------------------
(* Calls *)

(* A call's statements, its pending row and the log position are one file   *)
(* transaction. *)
Wrote(f, t) == [f EXCEPT !.data = Do(@, t), !.pending = Append(@, t)]

(* A schema change is checkpointed before, then flushed. *)
Transact(c) ==
    /\ pc[c] = "idle" /\ made < MaxTx
    /\ \E r \in IF "schema" \in Ops THEN Rows ELSE Rows \ {Schema} :
         LET data == file[c].data
             new == IF Twins THEN data[r] + 1 ELSE made + 1
             t == Change(made + 1, data[Schema], r :> data[r], r :> new)
         IN  /\ file' = [file EXCEPT ![c] = Wrote(@, t)]
             /\ IF r = Schema THEN Become(c, Call("auto"), "flush")
                              ELSE UNCHANGED <<goal, pc>>
    /\ made' = made + 1
    /\ UNCHANGED <<store, wt, rb, crashes>>

Begin(c) ==
    /\ pc[c] = "idle"
    /\ \/ /\ \/ file[c].pending # <<>> /\ Become(c, Call("flush"), "flush")
             \/ "close" \in Ops /\ Become(c, Call("close"), "flush")
             \/ "restore" \in Ops /\ \/ Become(c, Call("checkpoint"), "flush")
                                     \/ \E k \in saved[c] :
                                          Become(c, [Call("restore") EXCEPT !.onto = k], "flush")
          /\ UNCHANGED rb
       \/ /\ "rebase" \in Ops
          /\ \E onto \in {remote, head[c]}, keep \in IF "keep" \in Ops THEN {"none", "mine", "theirs"} ELSE {"none"} :
               /\ Become(c, [Call("rebase") EXCEPT !.keep = keep], "rebase")
               /\ rb' = [rb EXCEPT ![c] = [@ EXCEPT !.onto = onto]]
    /\ UNCHANGED <<store, file, wt, made, crashes>>

---------------------------------------------------------------------------
(* Flush *)

(* An automatic checkpoint flushes what came before the schema change. *)
ToFlush(c) ==
    IF goal[c].op = "auto" THEN SubSeq(file[c].pending, 1, Len(file[c].pending) - 1)
                           ELSE file[c].pending

Flushed(c) ==
    CASE goal[c].op \in {"auto", "checkpoint"} -> At(c, "tag") /\ UNCHANGED <<goal, rb>>
      [] goal[c].op = "restore" -> At(c, "restore") /\ UNCHANGED <<goal, rb>>
      [] goal[c].op = "close" -> Shut(c)
      [] OTHER -> Finish(c)

FlushStart(c) ==
    /\ pc[c] = "flush"
    /\ IF ToFlush(c) = <<>> THEN Flushed(c)
       ELSE /\ At(c, IF wt[c] # file[c].base THEN "catchup" ELSE "commit")
            /\ UNCHANGED <<goal, rb>>
    /\ UNCHANGED <<store, file, wt, made, crashes>>

(* The entry's commit: it lands if the branch is where the worktree knows   *)
(* it. It may land and yet be reported as failed, and then nobody here      *)
(* knows; a branch that moved is caught up with once.                       *)
Landing(c) ==
    /\ head[c] = wt[c] /\ Room
    /\ commit' = Append(commit, NewCommit(wt[c], ToFlush(c), c))
    /\ head' = [head EXCEPT ![c] = Len(commit')]

FlushCommit(c) ==
    /\ pc[c] = "commit"
    /\ \/ /\ Landing(c) /\ wt' = [wt EXCEPT ![c] = head'[c]]
          /\ At(c, "drop") /\ UNCHANGED <<goal, rb>>
       \/ /\ "fail" \in Ops /\ Landing(c) /\ UNCHANGED wt /\ Throw(c)
       \/ /\ head[c] # wt[c] /\ UNCHANGED <<commit, head, wt>>
          /\ IF goal[c].retried THEN Throw(c)
             ELSE Become(c, [goal[c] EXCEPT !.retried = TRUE], "catchup") /\ UNCHANGED rb
    /\ UNCHANGED <<remote, temp, tag, saved, file, made, crashes>>

\* Mutant: what was not flushed yet is dropped with the flush.
FlushDropAll(c) ==
    /\ pc[c] = "drop"
    /\ file' = [file EXCEPT ![c] = [@ EXCEPT !.base = wt[c], !.pending = <<>>]]
    /\ Flushed(c)
    /\ UNCHANGED <<store, wt, made, crashes>>

(* One file transaction drops what was flushed and moves the base. *)
FlushDrop(c) ==
    /\ pc[c] = "drop"
    /\ \/ /\ file' = [file EXCEPT ![c] =
                        [@ EXCEPT !.base = wt[c],
                                  !.pending = SubSeq(@, Len(Entry(wt[c])) + 1, Len(@))]]
          /\ Flushed(c)
       \/ "fail" \in Ops /\ UNCHANGED file /\ Throw(c)
    /\ UNCHANGED <<store, wt, made, crashes>>

(* A checkpoint tags the base. One before a schema change is not taken if   *)
(* the base is not just before the change; then the change itself flushes.  *)
Checkpoint(c) ==
    /\ pc[c] = "tag"
    /\ saved' = [saved EXCEPT ![c] =
                   IF file[c].base # Root /\ (goal[c].op = "auto" => Len(file[c].pending) = 1)
                   THEN @ \cup {file[c].base} ELSE @]
    /\ IF goal[c].op = "auto" THEN Become(c, Call("flush"), "flush") /\ UNCHANGED rb
                              ELSE Finish(c)
    /\ UNCHANGED <<commit, remote, head, temp, tag, file, wt, made, crashes>>

---------------------------------------------------------------------------
(* Restore, with no schema change since the checkpoint *)

RestoreStart(c) ==
    /\ pc[c] = "restore"
    /\ wt' = [wt EXCEPT ![c] = head[c]]
    /\ Become(c, [goal[c] EXCEPT !.op = "restoring"],
              IF head[c] # file[c].base THEN "catchup" ELSE "undo")
    /\ UNCHANGED <<store, file, rb, made, crashes>>

(* Everything since the checkpoint is undone by one more transaction. A     *)
(* checkpoint off the line, or behind a schema change, needs a new epoch.   *)
Restore(c) ==
    /\ pc[c] = "undo"
    /\ LET k == goal[c].onto
           since == TxsAfter(file[c].base, k)
           net == Combined(since)
           t == Change(0, file[c].data[Schema], net.to, net.from)
       IN  IF /\ file[c].pending = <<>> /\ Holds(file[c].base, k)
              /\ ~HasSchemaChange(since) /\ DOMAIN net.to # {}
           THEN /\ file' = [file EXCEPT ![c] = Wrote(@, t)]
                /\ Become(c, Call("flush"), "flush") /\ UNCHANGED rb
           ELSE UNCHANGED file /\ Finish(c)
    /\ UNCHANGED <<store, wt, made, crashes>>

---------------------------------------------------------------------------
(* Catching up *)

(* Refresh, drop this file's own flush if the log starts with it, then      *)
(* rebase what is pending onto the entries left, or replay them.            *)
CatchUp(c) ==
    /\ pc[c] = "catchup"
    /\ LET tip == head[c]
           f == DropOwnFlush(file[c], tip)
       IN  /\ wt' = [wt EXCEPT ![c] = tip]
           /\ IF ~Holds(tip, file[c].base) THEN UNCHANGED file /\ Throw(c)
              ELSE /\ file' = [file EXCEPT ![c] = f]
                   /\ IF f.base = tip THEN Level(c)
                      ELSE IF f.pending = <<>> THEN At(c, "replay") /\ UNCHANGED <<goal, rb>>
                      ELSE /\ At(c, "rebase") /\ rb' = [rb EXCEPT ![c] = [@ EXCEPT !.onto = tip]]
                           /\ UNCHANGED goal
    /\ UNCHANGED <<store, made, crashes>>

(* The last entry on the way to a tip that n transactions are done with. *)
Reached(base, tip, n) ==
    Max({base} \cup {k \in Range(After(tip, base)) : Len(TxsAfter(k, base)) <= n})

(* A file that n transactions of a line have been applied to. *)
Advanced(f, txs, base, n) ==
    [f EXCEPT !.data = DoAll(@, SubSeq(txs, f.ahead + 1, n)), !.base = base,
              !.ahead = n - Len(TxsAfter(base, f.base))]

(* A chunk of the log is applied with the file's new position: changesets,  *)
(* or one schema change. The base moves over the entries done with.         *)
Replay(c) ==
    /\ pc[c] = "replay"
    /\ LET f == file[c]
           txs == TxsAfter(wt[c], f.base)
       IN  \E n \in f.ahead .. Len(txs) :
             LET chunk == SubSeq(txs, f.ahead + 1, n)
             IN  /\ chunk = <<>> <=> f.ahead = Len(txs)
                 /\ HasSchemaChange(chunk) => Len(chunk) = 1
                 /\ file' = [file EXCEPT ![c] = Advanced(@, txs, Reached(f.base, wt[c], n), n)]
                 /\ IF n = Len(txs) THEN Level(c) ELSE UNCHANGED <<pc, goal, rb>>
    /\ UNCHANGED <<store, wt, made, crashes>>

---------------------------------------------------------------------------
(* Rebase *)

(* Whether this database's changes follow the log's: none may have run      *)
(* under another schema, nor over values the log changed.                   *)
Follows(data, mine) ==
    /\ ~HasSchemaChange(mine)
    /\ \A i \in DOMAIN mine : mine[i].schema = data[Schema]
    /\ Fits(data, Combined(mine))

(* The log's changes undone, as one entry. *)
Undoing(theirs, schema) ==
    LET net == Combined(theirs)
    IN  IF DOMAIN net.from = {} THEN <<>>
        ELSE << <<Change(0, schema, net.to, net.from)>> >>

(* The steps that put `lines` after `start` on the rebase's branch. *)
Plan(top, onto, start, lines, data, then) ==
    [head |-> top, onto |-> onto, start |-> start, lines |-> lines, data |-> data, then |-> then]
Build(c, plan, step) == rb' = [rb EXCEPT ![c] = plan] /\ At(c, step) /\ UNCHANGED goal

(* What the log has since the two parted, and what only this file has. *)
RebaseOn(c, f, target) ==
    LET parted == MergeBase(f.base, target)
        theirs == TxsAfter(target, parted)
        own == [i \in DOMAIN After(f.base, parted) |-> Entry(After(f.base, parted)[i])]
        lines == own \o IF f.pending = <<>> THEN <<>> ELSE <<f.pending>>
        mine == FlattenSeq(lines)
        data == DataAt(target)
    IN  \/ head[c] # f.base /\ ~Holds(target, head[c]) /\ Throw(c)
        \/ /\ head[c] = f.base \/ Holds(target, head[c])
           /\ \/ After(target, parted) = <<>> /\ Level(c)
              \/ /\ After(target, parted) # <<>> /\ lines = <<>>
                 /\ IF head[c] = target THEN At(c, "catchup") /\ UNCHANGED <<goal, rb>>
                    ELSE Build(c, Plan(head[c], target, target, <<>>, data, "retag"), "forward")
              \/ /\ After(target, parted) # <<>> /\ lines # <<>>
                 /\ \/ /\ goal[c].keep = "none"
                       /\ IF Follows(data, mine)
                          THEN Build(c, Plan(head[c], target, target, lines, DoAll(data, mine), "retag"), "branch")
                          ELSE Throw(c)
                    \/ /\ goal[c].keep = "theirs"
                       /\ Build(c, Plan(head[c], target, f.base, <<f.pending>>, data, "save"),
                                IF f.pending = <<>> THEN "save" ELSE "branch")
                    \/ /\ goal[c].keep = "mine"
                       /\ IF HasSchemaChange(theirs) THEN Throw(c)
                          ELSE Build(c, Plan(head[c], target, target,
                                             Undoing(theirs, data[Schema]) \o lines, f.data, "retag"),
                                     "keep")

(* Refresh, drop this file's own flush, and compare the two sides. *)
RebaseStart(c) ==
    /\ pc[c] = "rebase"
    /\ wt' = [wt EXCEPT ![c] = head[c]]
    /\ LET f == IF Holds(head[c], file[c].base) THEN DropOwnFlush(file[c], head[c]) ELSE file[c]
       IN  file' = [file EXCEPT ![c] = f] /\ RebaseOn(c, f, rb[c].onto)
    /\ UNCHANGED <<store, made, crashes>>

(* With nothing of its own, the branch moves if it is where it was. *)
Forward(c) ==
    /\ pc[c] = "forward"
    /\ IF head[c] = rb[c].head
       THEN /\ head' = [head EXCEPT ![c] = rb[c].onto]
            /\ At(c, "catchup") /\ UNCHANGED <<goal, rb>>
       ELSE UNCHANGED head /\ Throw(c)
    /\ UNCHANGED <<commit, remote, temp, tag, saved, file, wt, made, crashes>>

(* The log's side becomes a checkpoint before it is undone. *)
KeepMine(c) ==
    /\ pc[c] = "keep"
    /\ saved' = [saved EXCEPT ![c] = @ \cup {rb[c].onto}]
    /\ At(c, "branch")
    /\ UNCHANGED <<commit, remote, head, temp, tag, file, goal, wt, rb, made, crashes>>

RebaseBranch(c) ==
    /\ pc[c] = "branch"
    /\ temp' = [temp EXCEPT ![c] = rb[c].start]
    /\ At(c, IF rb[c].lines = <<>> THEN rb[c].then ELSE "line")
    /\ UNCHANGED <<commit, remote, head, tag, saved, file, goal, wt, rb, made, crashes>>

RebaseLine(c) ==
    /\ pc[c] = "line" /\ Room
    /\ commit' = Append(commit, NewCommit(temp[c], Head(rb[c].lines), c))
    /\ temp' = [temp EXCEPT ![c] = Len(commit')]
    /\ rb' = [rb EXCEPT ![c] = [@ EXCEPT !.lines = Tail(@)]]
    /\ At(c, IF Len(rb[c].lines) = 1 THEN rb[c].then ELSE "line")
    /\ UNCHANGED <<remote, head, tag, saved, file, goal, wt, made, crashes>>

(* This database's side becomes a checkpoint before it is dropped: its      *)
(* position, or what was pending, committed after it off the branch.        *)
KeepTheirs(c) ==
    /\ pc[c] = "save"
    /\ saved' = [saved EXCEPT ![c] = @ \cup
                   {IF file[c].pending = <<>> THEN file[c].base ELSE temp[c]}]
    /\ At(c, "unsave")
    /\ UNCHANGED <<commit, remote, head, temp, tag, file, goal, wt, rb, made, crashes>>

(* Then the file takes the log's side, or, past a schema change of its own, *)
(* is deleted to be rebuilt from the log.                                   *)
KeptTheirs(c) ==
    /\ pc[c] = "unsave"
    /\ temp' = [temp EXCEPT ![c] = None]
    /\ rb' = [rb EXCEPT ![c] = [@ EXCEPT !.start = rb[c].onto, !.lines = <<>>, !.then = "retag"]]
    /\ At(c, IF HasSchemaChange(TxsAfter(file[c].base, MergeBase(file[c].base, rb[c].onto))
                                \o file[c].pending)
             THEN "wipe" ELSE "branch")
    /\ UNCHANGED <<commit, remote, head, tag, saved, file, goal, wt, made, crashes>>

Wipe(c) ==
    /\ pc[c] = "wipe"
    /\ file' = [file EXCEPT ![c] = Fresh]
    /\ At(c, "publish")
    /\ UNCHANGED <<store, goal, wt, rb, made, crashes>>

(* The branch moves if it is where it was; opening finishes either way. *)
Publish(c) ==
    /\ pc[c] = "publish"
    /\ head' = [head EXCEPT ![c] = IF @ = rb[c].head THEN rb[c].onto ELSE @]
    /\ Shut(c)
    /\ UNCHANGED <<commit, remote, temp, tag, saved, file, wt, made, crashes>>

(* The head to move from is tagged before the file takes the rebase. *)
Retag(c) ==
    /\ pc[c] = "retag"
    /\ tag' = [tag EXCEPT ![c] = rb[c].head]
    /\ At(c, "store")
    /\ UNCHANGED <<commit, remote, head, temp, saved, file, goal, wt, rb, made, crashes>>

(* The file transaction that undoes, applies and applies again ends. *)
Store(c) ==
    /\ pc[c] = "store"
    /\ \/ /\ file' = [file EXCEPT ![c] = [base |-> temp[c], ahead |-> 0,
                                          data |-> rb[c].data, pending |-> <<>>]]
          /\ At(c, "move") /\ UNCHANGED <<goal, rb>>
       \/ "fail" \in Ops /\ UNCHANGED file /\ Throw(c)
    /\ UNCHANGED <<store, wt, made, crashes>>

\* Mutant: the branch moves from wherever it is.
MoveAny(c) ==
    /\ pc[c] = "move"
    /\ head' = [head EXCEPT ![c] = temp[c]]
    /\ wt' = [wt EXCEPT ![c] = temp[c]]
    /\ At(c, "dropbranch")
    /\ UNCHANGED <<commit, remote, temp, tag, saved, file, goal, rb, made, crashes>>

(* The log's branch moves to the rebase, from the tagged head and only from *)
(* there; if it is elsewhere the database closes.                           *)
Move(c) ==
    /\ pc[c] = "move"
    /\ IF head[c] = rb[c].head
       THEN /\ head' = [head EXCEPT ![c] = temp[c]]
            /\ wt' = [wt EXCEPT ![c] = temp[c]]
            /\ At(c, "dropbranch") /\ UNCHANGED <<goal, rb>>
       ELSE Shut(c) /\ UNCHANGED <<head, wt>>
    /\ UNCHANGED <<commit, remote, temp, tag, saved, file, made, crashes>>

DropBranch(c) ==
    /\ pc[c] = "dropbranch"
    /\ temp' = [temp EXCEPT ![c] = None]
    /\ At(c, "droptag")
    /\ UNCHANGED <<commit, remote, head, tag, saved, file, goal, wt, rb, made, crashes>>

DropTag(c) ==
    /\ pc[c] = "droptag"
    /\ tag' = [tag EXCEPT ![c] = None]
    /\ IF goal[c].op = "open" THEN At(c, "catchup") /\ UNCHANGED <<goal, rb>> ELSE Level(c)
    /\ UNCHANGED <<commit, remote, head, temp, saved, file, wt, made, crashes>>

---------------------------------------------------------------------------
(* Opening *)

Open(c) ==
    /\ pc[c] = "closed"
    /\ Become(c, Call("open"), "settle")
    /\ UNCHANGED <<store, file, wt, rb, made, crashes>>

(* Finish or drop a rebase a crash interrupted: if the file is at its tip,  *)
(* the branch moves there, from the tagged head and only from there.        *)
Settle(c) ==
    /\ pc[c] = "settle"
    /\ wt' = [wt EXCEPT ![c] = head[c]]
    /\ CASE temp[c] = None -> At(c, "droptag") /\ UNCHANGED <<goal, rb>>
         [] temp[c] # None /\ (file[c].base # temp[c] \/ Holds(head[c], temp[c])) ->
              At(c, "dropbranch") /\ UNCHANGED <<goal, rb>>
         [] OTHER ->
              IF head[c] = tag[c] THEN Build(c, [NoRebase EXCEPT !.head = head[c]], "move")
                                  ELSE Shut(c)
    /\ UNCHANGED <<store, file, made, crashes>>

---------------------------------------------------------------------------
(* The application's sync, and crashes *)

Push(c) ==
    /\ "sync" \in Ops /\ remote # head[c] /\ Holds(head[c], remote)
    /\ remote' = head[c]
    /\ UNCHANGED <<commit, head, temp, tag, saved, file, pc, goal, wt, rb, made, crashes>>

Pull(c) ==
    /\ "sync" \in Ops /\ remote # head[c] /\ Holds(remote, head[c])
    /\ head' = [head EXCEPT ![c] = remote]
    /\ UNCHANGED <<commit, remote, temp, tag, saved, file, pc, goal, wt, rb, made, crashes>>

Crash(c) ==
    /\ crashes < MaxCrashes /\ pc[c] # "closed"
    /\ crashes' = crashes + 1
    /\ Shut(c) /\ wt' = [wt EXCEPT ![c] = Root]
    /\ UNCHANGED <<store, file, made>>

---------------------------------------------------------------------------
Step(c) ==
    \/ FlushStart(c) \/ FlushCommit(c) \/ FlushDrop(c) \/ Checkpoint(c)
    \/ RestoreStart(c) \/ Restore(c) \/ CatchUp(c) \/ Replay(c)
    \/ RebaseStart(c) \/ Forward(c) \/ KeepMine(c) \/ RebaseBranch(c) \/ RebaseLine(c)
    \/ KeepTheirs(c) \/ KeptTheirs(c) \/ Wipe(c) \/ Publish(c) \/ Retag(c) \/ Store(c)
    \/ Move(c) \/ DropBranch(c) \/ DropTag(c) \/ Open(c) \/ Settle(c)

Next == \E c \in Copies :
    Transact(c) \/ Begin(c) \/ Step(c) \/ Push(c) \/ Pull(c) \/ Crash(c)

Spec == Init /\ [][Next]_vars

---------------------------------------------------------------------------
Steps == {"closed", "settle", "idle", "flush", "commit", "drop", "tag", "restore", "undo",
          "catchup", "replay", "rebase", "forward", "keep", "branch", "line", "save",
          "unsave", "wipe", "publish", "retag", "store", "move", "dropbranch", "droptag"}
Commits == 0 .. Len(commit)

(* Every record has its shape, and every reference is to a commit that is.  *)
TypeOK ==
    /\ \A k \in DOMAIN commit : /\ Range(commit[k].line) \subseteq 1 .. k
                                /\ Last(commit[k].line) = k /\ commit[k].by \in Copies
    /\ remote \in Commits /\ head \in [Copies -> Commits] /\ wt \in [Copies -> Commits]
    /\ temp \in [Copies -> Commits \cup {None}] /\ tag \in [Copies -> Commits \cup {None}]
    /\ saved \in [Copies -> SUBSET Commits]
    /\ \A c \in Copies : /\ file[c].base \in Commits /\ file[c].ahead \in 0 .. MaxTx
                         /\ file[c].data \in [Rows -> 0 .. MaxTx]
                         /\ rb[c].head \in Commits /\ rb[c].onto \in Commits
    /\ pc \in [Copies -> Steps] /\ made \in 0 .. MaxTx /\ crashes \in 0 .. MaxCrashes

Ids(ts) == {ts[i].id : i \in DOMAIN ts} \ {0}
Logged(k) == TxsAfter(k, Root)

(* The rows of a file are exactly what the log up to its position says,     *)
(* followed by its pending transactions: no step, crash or failure between  *)
(* the file's transactions and the log's commits leaves one applied twice,  *)
(* applied without being recorded, or recorded without being applied.       *)
FileIsLog ==
    \A c \in Copies :
        LET f == file[c]
            ahead == IF f.ahead = 0 THEN <<>> ELSE SubSeq(TxsAfter(head[c], f.base), 1, f.ahead)
        IN  f.data = DoAll(Blank, Logged(f.base) \o ahead \o f.pending)

(* A transaction a call has landed stays: pending in its file, in the log   *)
(* its file stands on, or in a checkpoint made when another side was kept.  *)
NothingLost ==
    \A i \in 1 .. made : \E c \in Copies :
        \/ i \in Ids(file[c].pending)
        \/ i \in Ids(Logged(file[c].base))
        \/ \E k \in saved[c] : i \in Ids(Logged(k))

(* No transaction is in a log, or in a file, twice: a flush that landed     *)
(* unnoticed is recognised and not written or rebased a second time.        *)
OnceEach ==
    \A c \in Copies :
        LET twice(ts) == \E i, j \in DOMAIN ts : i # j /\ ts[i].id = ts[j].id /\ ts[i].id # 0
        IN  ~twice(Logged(file[c].base) \o file[c].pending) /\ ~twice(Logged(head[c]))

(* A file is never past its branch, except at the tip of a rebase whose     *)
(* branch is still there: so opening can always tell where it stands.       *)
PositionHeld ==
    \A c \in Copies : \/ Holds(head[c], file[c].base)
                      \/ temp[c] = file[c].base /\ tag[c] # None

(* The log's branch is never moved off an entry another copy wrote: only a  *)
(* copy's own entries are rewritten, whatever sync did meanwhile.           *)
ForeignEntriesStay ==
    [][\A c \in Copies : \A k \in Range(Line(head[c])) :
          commit[k].by # c => k \in Range(Line(head[c])')]_vars

(* Both: opening can tell where a file stands, and only own entries go. *)
BranchKept == []PositionHeld /\ ForeignEntriesStay

(* Undoing to a checkpoint brings back what the checkpoint held. *)
RestoreExact ==
    [][\A c \in Copies : pc[c] = "undo" /\ file'[c] # file[c]
          => file'[c].data = DataAt(goal[c].onto)]_vars
=============================================================================
