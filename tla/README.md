# Verification of agex-ts

TLA+ models of the concurrent and failure-prone parts of this repository, TLC
configurations that check them on small instances, and TLAPS proofs of the
properties that matter most, for every value of the constants.

Paths below are relative to `src/packages/`. `PROJECT.json` maps every
definition to the lines it models, and lists the runs, the mutants, the
hazards and the theorems.

Contents: 1 the system, 2 the models, 3 the runs, 4 the proofs, 5 what was met
while modelling, 6 what is not modelled, 7 what is left to do.

## 1. The system

agex-ts is a stack of libraries for agents that run in a page or in Node.
Everything is single-threaded JavaScript per context (a page, a worker), so a
state can change under a function only at its awaits, in its callbacks, and
through what several contexts share: a key-value store, a Web Lock, a
BroadcastChannel, a message port.

| Package | What it is | Lines |
|---|---|---|
| `kvgit-ts` | a git-like versioned key-value store on a plain KV store | 12 k |
| `kvsql` | SQLite in a worker, its transactions logged to a kvgit branch | 10 k |
| `world` | an agent's workspace: files, sessions and delegates, turns, a code kernel | 22 k |
| `agex-ts` | the model loop over a workspace | 10 k |
| `termish-ts` | a shell interpreter with text utilities | 13 k |

### 1.1 Components

For each: its state; its operations; what is hard; what makes it correct.

**kvgit backends** (`kvgit-ts/src/backends/`, `types.ts`). A map of keys to
values, with batches that expect some keys' values; the promise of `KVStore`
over IndexedDB's transactions or SQLite's statements. Hard: checks and writes
are single requests, other calls come in between, a tab closes half way; an
IndexedDB database is opened and upgraded by tabs that block one another.
Correct if a batch lands whole or not at all, at one moment.

**kvgit trees** (`hamt.ts`, `keyset.ts`). A persistent map of content-addressed
nodes with a node cache. Hard: one map must have one root, whatever changes led
to it, or equal contents get different commits. Correct if a tree is the map it
stands for, its root depends on the map alone, and its nodes are all stored.

**kvgit commits and garbage collection** (`versioned/kv.ts`, `base.ts`,
`lease.ts`). State: in the store, commits (parents and the root of a tree),
tree nodes and blobs by content address, a head and a backup per branch, an
in-flight marker per commit that is not published, one GC lease; in a handle,
its branch, its base commit and the call in progress. Operations: commit
(fast-forward, or a three-way merge after a lost race), mergeHeads,
fastForward, resetTo, createBranch, deleteBranch, refresh and switchBranch, gc.
Hard: a commit takes several writes, a sweep several reads, and the two are
kept apart only by the lease record that every landing write expects and by
markers that are read before the heads. Correct if a branch moves atomically
and loses nothing, and if no sweep takes what a head needs.

**kvgit worktrees** (`worktree.ts`, `staged.ts`, `repo.ts`, `merges.ts`).
Pending updates and removals, a read cache, a handle. Hard: commit snapshots
the pending changes, awaits, and clears them; a write made meanwhile is cleared
too. Correct if every write is pending, committed or discarded by its owner.

**kvgit sync** (`sync/*.ts`). Per branch and remote the head last synced, a
shared record and a mark; fetch, pull, push, sync, forget, delete,
deleteBranchUnlessSynced. Hard: several tabs, a remote that moves, a deletion
that races a push. Correct if a branch is never overwritten on either side
unless it is an ancestor of what replaces it.

**kvsql worker host** (`kvsql/src/host.ts`, `protocol.ts`, `client.ts`). State
per host (one per tab's worker and database): its role, the holder it knows and
the newest it accepted, those that said they are gone, calls not yet sent and
calls sent, the chain of tasks it runs when it holds the lock. Shared: the Web
Lock's queue and the BroadcastChannel. Hard: handover at any moment, tabs
killed, messages of different senders and the lock in any order. Correct if a
write runs at most once, a caller is told the truth, and every call ends.

**kvsql logged database** (`log.ts`, `epoch.ts`, `checkpoint.ts`). State: the
file with its pending table and log position; the log's branch, a rebase's
branch and tag, epochs. Operations: transact, flush, open and recover, rebase,
adopt, newEpoch, checkpoint, restore. Hard: file and log are two stores, and a
crash can come between any two writes; a flush may find its own commit landed.
Correct if each transaction is in the file and in the log once and in order.

**world sessions** (`world/src/sessions.ts`). The job table, the answers and
who collected them, who holds a branch, the worker slots, those who listen;
ask, resume, the landing of an answer, cancel, result, take, answers, wait,
keep, sweep, close. Hard: every step of a run is an await in which a caller may
cancel, resume, read, sweep or close. Correct if a child does one task at a
time, a cancel is final, each answer is handed over once, no wakeup is lost and
no branch is swept away under a run.

**world turns, workspace, compaction** (`turns.ts`, `inbox.ts`, `queue.ts`,
`workspace.ts`, `compaction.ts`). A worktree behind a queue of calls, the turn
in progress, the notes queued and handed to it. Hard: code that a call runs
calls back; notes come while an end is queued; another workspace of the session
commits. Correct if a note is in a stored run or still waiting, never neither
or both, and if a call's commit holds what the call wrote.

**world agent git** (`agentgit.ts`, `wsgit/command.ts`, `merging.ts`). The
agent's head, its staged paths, an outstanding merge, kept in the tree they are
about. Hard: a verb is often two commits, and either may be refused, lost or
cut off. Correct if the files and the record agree with each other after it.

**world kernel** (`kernel/*.ts`). Runs code in a worker that may be killed and
restarted, with calls back to the host. Correct if an answer reaches only the
worker and run that asked, and a run ends within its time.

**agex agents, tasks, maps, providers** (`agent.ts`, `task.ts`,
`code-tasks.ts`, `ai-sdk.ts`, `compaction.ts`). The turn loop over a model and
tools, its retries, folds and stops; a task's world and its end; maps that run
delegates; a reply read off a stream. Correct if every request is one the
provider accepts, a stop stops, and what is reported is what happened.

**termish shell, file and network tools**: parsers, text utilities and HTTP.

### 1.2 How they interact

`agex` opens a turn on a `world` workspace, runs tools, and asks delegates
through `Sessions`; each workspace and each delegate is a branch of one kvgit
store, which other tabs may write and sweep at the same time. A `kvsql`
database is a file with a log on a kvgit branch; its hosts decide which tab's
worker has the file open. So the store's batches are under kvgit's commits, the
commits under everything, and each model relies on what the one below promises:
`KvGC` takes a batch for one step, as `KvStore` says; `KvWorktree`, `KvSync`,
`KvLog`, `WorldTurns` and `WorldGit` take a move of a head for one step, as
`KvBranches` says; `AgexTurn` takes a turn's end for one step, as `WorldTurns`
says; `AgexMap` takes a job for what `Sessions` says of it.

## 2. The models

| Module | Models |
|---|---|
| `KvStore` | what kvgit asks of a backend |
| `KvIdb`, `KvSqlite` | the two backends, which implement it |
| `KvIdbOpen`, `KvPrefix` | opening the IndexedDB database; prefix ranges |
| `KvHamt` | the trees commits keep |
| `KvBranches` | what kvgit promises: branches that move atomically |
| `KvGC` | the commit protocol beside its garbage collector |
| `KvWorktree`, `KvSync` | what is built on commits |
| `KvHost` | the hosts of one database: lock, channel, calls |
| `KvLog`, `KvEpoch` | the logged database within an epoch, and its epochs |
| `Sessions` | delegation: the job table, its runs and its callers |
| `WorldTurns`, `WorldGit`, `WorldKernel` | a workspace's calls and turns, the agent's git, the kernel |
| `AgexTurn`, `AgexTask`, `AgexMap`, `AgexProvider` | the agent's loop, tasks, maps and replies |
| `MC*` | their instances, fairness and the properties' groups |
| `*_proofs` | the theorems |

Everywhere an action is what the code does between two awaits, or between two
messages. A mutant is a definition marked `Mutant:` next to the one it would
replace; the specifications never use it. It breaks a property, or one part of
a property that has several; there is one for each property, in `PROJECT.json`.

### 2.1 The store and the backends

`KvStore` is calls made at once on a map `data`: a batch lands whole, at one
moment between its call and its answer, where everything it expected held; a
read gives each key's value at some moment of the call; a call that fails did
nothing; a caller that dies leaves a batch landed or not. It is no more than
`types.ts` asks, and less than one might think: a read of several keys is not a
snapshot, for `sqlite.ts:137-148` reads them one by one.

`KvIdb` has a queue of transactions (`queue`, `tx`): one begins only when no
earlier one that conflicts is left, its requests are answered one at a time,
its checks and writes made from their callbacks (`idb.ts:281`), and it may
abort until it commits. `KvSqlite` has one connection per process: `writer` is
the one in a write transaction, `work` what it has checked and written. Both
keep `data` and `calls` as `KvStore` does, so the refinement mapping is the
identity; it is checked in run `kvgit` (`StoresTrue`) and proved (4.2).

`KvIdbOpen` is tabs that open a database, each its own object store in it:
versions, upgrades that wait for other connections, requests given up but still
served. `KvPrefix` is a pure definition: the two backends' ranges of a prefix,
against "starts with", over every string of bounded length.

### 2.2 Trees, commits, garbage collection

`KvHamt` is `hamt.ts` on nodes that *are* their names: inserts that split, deletes
that collapse, batches, flush, derived handles, reads, walks, differences and the
node cache, with `map[h]` the plain map each handle stands for.

In `KvGC` a commit is its number, given out as batches land. What its hash
covers (`parents`, `tree`, and from them `anc`, its history) never changes;
whether its records and content are *stored* does. A tree is the set of
addresses it refers to, so commits share content. `marker`, `head`, `prev` and
`lease` are the store's records; `phase`, `todo`, `gray`, `black`, `keep` and
`stale` the sweep's locals; `pc`, `op`, `br`, `base`, `ours`, `merged`,
`theirs`, `draft`, `seen` a handle's.

| Code | Actions |
|---|---|
| `commitOnce`, `createCommit`, `landBatch`, `casHead` | `BeginCommit`, `Build`, `Wait`, `Land`, `LandAgain`, `Publish`, `PublishAgain`, `LostRace`, `LostCommit` |
| `threeWayMerge`, `mergeHeadsOnce` | `BeginMerge`, `MergeRefused`, `MergeNoOp`, `Resolve`, `FastForward` |
| `fastForward`, `resetTo`, `createBranchHead` | `BeginReset`, `BeginCreate`, `Check`, `CheckFails`, `Install`, `InstallAgain`, `InstallFails` |
| `deleteBranchHead`, `refresh`, `switchBranch` | `DeleteBranch`, `Attach` |
| `gcStore`, `sweep`, the lease | `SweepStart`, `ReadMarkers`, `Visit`, `ReadHead`, `Collect`, `Remove`, `Release`, `SweepDies`, `LeaseLapses`, `MarkerLapses` |
| a dying process | `Crash` |

Time is two flags: a lease's and a marker's expiry have passed. `seen` is the
lease record a writer read, which its write expects. Three flags name
assumptions. `Overrun = FALSE`: a sweep ends within its lease (the code only
warns if not). `KeepYoung`: a sweep may spare young orphans. `PinSources`:
nobody resets or deletes a branch while another handle merges it; the code does
not enforce this, which is the first finding.

`KvBranches` is the abstract specification; `B` in `KvGC` is the refinement
mapping: its branches are the heads, its published commits the ones some head
has named with their histories. `AtomicBranches` says every behaviour of `KvGC`
is one of `KvBranches`.

### 2.3 Worktrees and sync

`KvWorktree`: worktrees `w` with `updates`, `removals`, `cache`, a commit `cur`
and a `base` over a branch whose head, `tip`, moves in one step; writes at any
moment, the calls that move the branch queued on the handle (`queue`), each the
steps between its awaits (`CommitStart`, `CommitPublish`, `MergeStep`, `Land`,
`MergeStart`, `FastForward`, `Refresh`, `Reset`, `Loaded`). A value is the
number of the write that made it, so a lost or a repeated write shows. The count
of the writes, `writes`, and that of the calls, `asked`, are ghosts, and so are
`held`, the commits the branch has named, `late`, which marks what was written
during a call, and `old`, which marks a read of a commit its worktree is not based
on: the handle moved while the read was awaited (`Overtake`), or stood on a commit
not yet published.

`KvSync`: stores and remotes as nodes that have commits and a head; `record`,
`shared` and `mark` are what a store keeps of a remote; each tab's call is a
program counter over the awaits of `pull`, `push`, `sync`, `forget`, `delete`
and `deleteBranchUnlessSynced` (`Pull*`, `Push*`, `Forget*`, `Unless*`,
`DeleteRemote`). A transfer, either way, is steps too: what the receiver is said to
have (`PullFetch`, `PushJudge`), the sender's list (`Fetch`), and for each commit
its read (`Take`), the check that its parents are there (`CheckParents`) and its
landing (`LandCommit`), then the move of the branch; a sweep of either side
(`Sweep`), which may spare young orphans, falls between any two. `bare` names the
commits whose parents a sweep took, `stripped` the stores whose mark a forgetting
took from a sync, `forgot` the tabs whose remote was forgotten during their call:
ghosts, for the properties' exceptions. A call may be lost at any step, and its
answer too. `applyWire` remembers within a transfer the generation of a parent it
has seen (`apply.ts:257-258`); the model looks each parent up.

### 2.4 The logged database

`KvHost`. A host is one `DatabaseHost`: `role`, `holder`, `newest`, `gone`,
`closing` (`"stopping"` is `#stopping`) and `chain` are its fields. `lock` is
the Web Lock's queue, `net[a][b]` what `a` posted and `b` has not received. A
call's place (`"unsent"`, `"sent"`, `"doubted"`, `"here"`, or its outcome)
stands for the maps `#unsent` and `#inflight`; `runs` counts how often it was
performed.

| Code | Actions |
|---|---|
| constructor, `#seekHolder` | `Start`, `SeekHolder` |
| `#hold`, `#open` | `Hold`, `Open` |
| `#onPort`, `#route`, `#perform` and the answer | `Ask`, `Perform`, `Answer` |
| `#onChannel` and its handlers, `#setHolder` | `Receive` (`OnHello`, `OnHolder`, `OnRequest`, `OnResponse`, `OnReleased`, `Reroute`) |
| the grace timer | `Lose` |
| `#closePort`, `#shutdown`, `#letGo` | `Close`, `Shutdown`, `Release` |
| a killed tab | `Crash` |

`Perform` and `Answer` are two steps so that a tab can be killed between a
commit and its answer. The channel keeps the order of one sender's messages to
one receiver and nothing else, as the comment at `host.ts:834` says; the lock's
grant is ordered with nothing. Assumed: the clock ticks between two grants of
the lock (`host.ts:541-543` relies on it), so an epoch is the count of grants
and the tie on ids never decides; and one connection per host. The order in
which waiting calls are sent is left open.

`KvLog`: copies of a database, each a `file` (rows, pending transactions, log
position: one transaction changes all of them) and a repository (the branch,
and beside it a rebase's branch and tag), which meet through a remote. A call
is the steps between its awaits; a crash between any two leaves the file and
the repository. Actions: `Transact`, `FlushStart`, `FlushCommit`, `FlushDrop`,
`Checkpoint`, `Restore`, `CatchUp`, `Replay`, `RebaseStart`, `Forward`,
`KeepMine`, `KeepTheirs`, `Publish`, `Retag`, `Store`, `Move`, `DropBranch`,
`DropTag`, `Open`, `Settle`, `Push`, `Pull`, `Crash`. A changeset is the old and
new values of the rows it touches.

`KvEpoch`: one device's file and repository over a series of branches, and a
remote to which another device goes on writing an old epoch or starts a new
one; within an epoch the log is one step. Actions: the steps of `newEpoch`
(`TakeSnapshot`, `CreateEpoch`, `WriteSnapshot`, `StillThere`, `Move`, `Tidy`,
`DropEpoch`), of following (`Prepare`, `RebaseAcross`), of adopting (`Adopt`),
of opening (`Open`, `Settle`, `CopyBeside`, `Restore`), and failures of each.

### 2.5 Sessions

A run is its token, a job, its child and its branch go by one name. `status`,
`answer`, `uncollected`, `busy`, `landing` and `recorded` are the job table's
maps and sets; `running` and `slots` the worker slots; `pc` says which await a
run is at. `given`, `told`, `stopped` and `committed` only remember what
happened, for the properties.

| Code | Actions |
|---|---|
| `ask`, `#fork`, `#submit`, `#resumed` | `Fork`, `Forked`, `ForkRefused`, `Resume` (all through `Start`) |
| `#work`, `#acquire`, `#releaseSlot` | `RunnerReturns`, `PassSlot`, `End` |
| `#settle`, `#land`, `#commitRemainder`, `#record`, `#announce` | `Land`, `LandFails`, `Remainder`, `CommitRemainder`, `Describe`, `Tell` |
| `cancel`, `result`, `take`, `answers`, `wait`, `keep`, `close` | `Cancel`, `Result`, `Answers`, `Wait`, `WaitLooks`, `Keep`, `Close`, `CloseEnds` |
| `sweep`, `Store.delete` | `Sweep`, `SweepDeletes`, `SweepEnds`, `SweepFails` |

The runner and the store are outside: a runner returns something, a store call
succeeds or throws (`"fail" \in Ops`). A sweep's delete goes branch by branch
(`store.ts:111-122`) and may fail at any of them, or after the last, in any
instance (`SweepFails`); the children whose branches are gone by then, and whose
rows are put back all the same, are `torn`.

### 2.6 A session's workspace, its git, its kernel

`WorldTurns`: `branch` is the session's commits, `base` and `pending` the
worktree, `queue` and `active` the calls, `turn` and `current` the turns,
`waiting` and `handed` the inbox. Values are the numbers of the writes, turns
and folds that made them; a run's body is the notes its turn had been handed
before its end began. `deliver` asks nothing of its turn (`turns.ts:137-182`), so a
tool that outlives its turn's loop may deliver while the end is queued, storing
or over: those notes are `tardy`, until they are put back.

| Code | Actions |
|---|---|
| `Queue`, `#call`, `run` | `Ask`, `Start`, `Write`, `CodeEnd`, `AutoCommit` |
| code that calls back | `CallBack` |
| `commit`, `discard`, `refresh`, `checkout`, `close` | `CommitCall`, `DiscardCall`, `RefreshCall`, `CheckoutDiff`, `CheckoutCommit`, `CloseCall` |
| `turns.ts` | `NewTurn`, `ResumeTurn`, `Resumed`, `Deliver`, `ThrowAway`, `End`, `EndStore`, `EndCommit`, `Release` |
| `inbox.ts` | `PutNote`, `Requeue` (and `Deliver`, `Withdraw`, `Restored`, `Settled`) |
| `compaction.ts` | `Record`, `Recorded`, `Count` |
| another workspace | `OtherCommit` |

`WorldGit`: workspaces of one or two sessions over commits that keep files and
the agent's record (head, fork point, staged paths, outstanding merge); the
verbs of `agentgit.ts` with their two commits (`CommitStart`, `CommitLand`,
`RecordLands`, `RecordRefused`, `RecordLost`), checkouts, merges, reverts,
cherry-picks, aborts and stashes, and a crash at any step.

`WorldKernel`: the host's side (`run`, `stage`, `worker`, `taken`), the workers
(`proc`, `cur`, `late`), and the messages between them (`down`, `up`). A worker
serves many runs; code left behind goes on calling, and importing (`LateImport`).
An import asks the host, or is a URL; then it loads, in a step of its own
(`LoadModule`), in whichever run that falls; and it is kept for the worker's life.
`load` says whose call the kept import awaits, or that it is loading or loaded, and
`joined` which runs await it. Time is ticks.

### 2.7 The agent

`AgexTurn`: `stored` is the conversation, `folds` what compaction anchored,
`turn` the locals of the turn that runs (`_run`, `#turnBody`), `tool` its call
in flight. What the model answers, whether a request fits the budget and when a
tool ends are free. `AgexTask` puts a task's world around it (`plane`).
`AgexMap` is several `map`s that share a helper's slots: `pc`, `started` and
`next` are `#asDelegates`' loops, `job`, `ending` and `swept` what `Sessions`
says of each delegate (`ending`: cancelled, and its run not over), `done` and
`reply` its `TaskRun`. `AgexProvider` is the parts of a streamed reply and the
errors in it.

## 3. The runs

All with two TLC workers, each within a few minutes. Deadlock is not checked
where the system may stop, which is everywhere: at a bound, or with everything
closed and nobody calling. Bounds are named in the modules (`MaxCommits`,
`MaxSweeps`, `MaxRuns`, `MaxCrashes`, `MaxCalls`, ...) and stand in the guards.

A run may ask its questions of several instances: the initial states then
choose a `part`, which one moves while the rest stay where they are. So one run
is the union of its parts, and a fairness condition on an action of each part
is the condition on all of them.

| Run | Instance | Shows |
|---|---|---|
| `gc_race` | 2 handles, 2 branches, 1 address, 3 commits after the root, 1 sweep; commit, raise, switch, crash | `TypeOK`; published commits keep no marker; a given-up attempt is in no history; `KvBranches` is implemented |
| `gc_reset` | as above with 2 commits; raise, reset; young orphans may be spared | every head is whole; a marker protects its commit; the backup names the last head; nothing lands under a sweep |
| `gc_merge` | from a store with two forked branches, 2 addresses, 1 more commit; merge, commit, create, delete | every branch's whole history is kept; every step is one `KvBranches` allows |
| `gc_unpinned` | as `gc_merge`, merge and delete, `PinSources = FALSE` | violated: `HeadsIntact` |
| `sessions` | 2 children, 2 runs, 1 worker. Work: resume, cancel, result, listen, close, failures. Sweep: resume, cancel, keep, result, sweeps that may fail half way | `JobsHeld` (one task at a time, exact slots, a true job table), `AnswersHeld` (given once, never after a cancel), `SweepSpares`; close, wait and answers get through |
| `host_calls` | 3 hosts, 1 write, 2 kills | the write runs at most once; one that waits never ran; one called lost had lost its holder |
| `host_retry` | 2 hosts, 1 write | violated: `CallsAnswered` |
| `log_copies` | 2 copies, 2-3 transactions, 2-4 commits, 1 crash, in five parts (race, keep a side, fail, restore, close); epochs in three (2 taken with failures and 2 crashes; adopted; followed with a crash) | a file is its log and then what is pending; what landed stays, once; epochs lose and repeat nothing; a file is never past its branch but where opening can finish; no copy takes another's entries out; no epoch goes before its content is in the file |
| `kvgit` | worktrees: 2, 2 keys, 1-2 writes, 2-3 calls, in three parts; sync: 2 stores, 3 tabs, 1 remote, in four parts; trees: 2 handles, 3-4 keys with colliding hashes, buckets of 1 and of 2; both backends: 3 callers, 2 keys, 5 operations; opening: 3 tabs, versions to 3 | no phantom, and no stale cache but 5.1's; a commit takes what was staged and nothing else; history whole and branches that sync kept, but for 5.1's races; records true, refs move forward, deletes stay deleted; one map one root, reads true; the backends are `KvStore`; opens end with a store |
| `world` | turns: notes (2 turns, 3 notes), code that calls back (3 calls), restores, folds (3); git: commits, checkouts, merges, resolved conflicts, two sessions merging each other, cherry-picks, a stash, each with a failure; a stash merged, resolved or aborted, and merged again | no note lost or told twice, but late ones (5.3); the run is in its end's commit; calls land, restores are exact, folds are kept; the record is true and every verb does to the files what it promises |
| `agex` | 2 turns of 4 steps, 2 calls an answer, a fold, a nudge, a crash, with and without a task; 2 maps of 2 items on 1 slot; a reply of 4 parts in 2 streams, 2 providers | `TurnsTrue` (reports true, limits kept across a resume, a task's plane says how it came out); `StopsKept`; maps bounded and truthful; `ExchangesWhole` (requests accepted, the opening kept, replies whole) |
| `live` | 2 handles and a sweep that may die; 2 hosts, 2 calls, a kill, a database that may not open; 2 turns and 2 calls; a kernel's 2 runs; a map of 3; an agent's turn of 3 steps | liveness, under 3.1; and the kernel's safety |

Why the bounds are enough to be interesting. A lost race needs two handles and
two commits over one base, and a merge commit: three after the root. A sweep
that endangers a commit needs one orphan and one commit that shares its content
(one address), or a merge that takes content from one branch to another (two). A
resumed job needs two runs on one child; a hand-off of a slot needs two children
and one worker. A stale announcement needs an old holder, a new one and a third
that calls. A flush that finds the branch moved needs two copies and one commit
each; a rebase that conflicts, two transactions on one row; an epoch adopted,
three transactions of which one came late. A write made while a commit is in
flight needs two writes and one call, a cache filled late a second call. A push
that races a delete needs two tabs of one store; a swept transfer a second
commit. A tree that collapses needs two keys of one hash and a third that shares
all but its last nibble. A note that comes while a turn ends needs three notes
and a second turn; a commit that is not its caller's needs code that calls back
after it ended, so three calls. A late answer of a kernel needs a second run. A
sweep that fails half way needs two branches. The mutants show that the
instances reach the cases: each property fails, within its own run's bounds,
when one guard or step of the code is changed.

### 3.1 Fairness

Safety runs assume none. All conditions are weak fairness: each stays enabled
until it is done. What is assumed in `live` (`MCLive!Fairness`) and `sessions`:

- *gc*: each handle's call goes on (a pending promise settles), a sweep that has
  not died goes on, and a lease's expiry passes (`Date.now()` advances). Nothing
  is assumed of callers, of crashes, or that a sweep ever starts.
  `CallsReturn` excuses the state at the bound on commits, where no batch can
  land.
- *hosts*: the browser grants the lock to the next in its queue, a posted message
  reaches a live host, timers fire, and the holder's tasks end. No tab has to
  connect, call or close. `HostsServe` excuses a call that a late refusal
  stranded, which is finding 2.
- *sessions* (the part without a sweep): forks, runners and landings settle, and a
  listener that was woken looks. A runner that never returns would hold close() for good, as
  in the code.
- *world*: the steps of a call in progress are taken, a queued call starts, and
  code ends; a turn need not be ended, but one that is ending goes on.
- *kernel*: messages arrive, files answer, a worker starts or fails, time passes.
  Code may run for ever and a host object never answer: the run's time ends it.
- *maps, agent*: a delegate that started ends and lands; the model and the tools
  answer, or are stopped. Nobody has to cancel or to begin a turn.

### 3.2 Findings

1. **A merge source may be swept** (`gc_unpinned`, `base.ts:458`). A merge
   checks once that the other branch's commit exists and reads it over many
   awaits; its publish expects only its own head. If the source branch is
   deleted and swept meanwhile, the published commit refers to content that is
   gone. `fastForward` decides the same question against one lease record.
2. **A late refusal strands a call** (`host_retry`, `host.ts:964`). A closing
   holder answers `retry`; if the next holder is known by then, or is this host
   itself, the call is put among the unsent ones, which only the next change of
   holder empties. The client's `close()` waits for it. The other calls of the
   same moment fare better: their `released` message finds them in flight or
   their grace reports them lost.

Section 5 has what else was met and is not a run of its own.

## 4. The proofs

`tlapm` checks them from nothing; they hold for every set of handles, hosts,
children, keys, turns and so on, and for all bounds. TLC checked each inductive
invariant on the runs' instances before it was proved.

| Theorem | States | Assumes |
|---|---|---|
| `KvGC_proofs!TypeCorrect` | `Spec => []TypeOK` | |
| `KvGC_proofs!SweepExcludesWriters` | `Spec => NothingLandsUnderSweep` | no overrun |
| `KvGC_proofs!PublishClearsMarkers` | `Spec => []PublishedUnmarked` | |
| `KvGC_proofs!DroppedStaysOut` | `Spec => []DroppedUnreachable` | |
| `KvGC_proofs!ImplementsBranches` | `Spec => AtomicBranches` | |
| `KvGC_proofs!SweepKeepsHistory` | `Spec => []HistoryIntact` | `Quiet` |
| `KvGC_proofs!MarkersKeepFlights` | `Spec => []MarkersProtect` | no overrun |
| `KvGC_proofs!HeadsStayIntact` | `Spec => []HeadsIntact` | `Quiet`, or `Raising` |
| `KvGC_proofs!MovesAreAtomic` | `[][Next]_vars => AtomicMoves` | starts sound (4.1) |
| `KvGC_proofs!BackupIsLastHead` | `Spec => BackupFollows` | |
| `Kvgit_proofs!SqliteIsStore` | SQLite's specification implements `KvStore` | |
| `Kvgit_proofs!IdbIsStore` | IndexedDB's specification implements `KvStore` | |
| `KvHost_proofs!Invariance` | `Spec => []Inv` | |
| `KvHost_proofs!AtMostOnce` | `Spec => []RunsAtMostOnce` | |
| `KvHost_proofs!LostForGood` | `Spec => LostIsHonest` | |
| `Sessions_proofs!JobTableTrue` | `Spec => []JobsHeld` | |
| `Sessions_proofs!AnswersGivenOnce` | `Spec => []AnswersHeld` | |
| `Sessions_proofs!SweepTakesIdle` | `Spec => SweepSpares` | |
| `World_proofs!TurnsStayTrue` | `Spec => []TurnsTrue` | |
| `World_proofs!EndsAlwaysLand` | `Spec => EndLands` | |
| `World_proofs!KernelStaysTrue` | `KSpec => KernelTrue` | |
| `WorldGit_proofs!GitStaysTrue` | `GSpec => []GitTrue` | `Setting` |
| `WorldGit_proofs!GitMovesStayExact` | `GSpec => GitMovesExact` | `Setting` |
| `Agex_proofs!AgentStaysTrue` | `TSpec => []TurnsTrue` (`AgexTask`'s) | |
| `Agex_proofs!AgentStopsKept` | `TSpec => StopsKept` | |
| `Agex_proofs!MapsStayTrue` | `MSpec => []MapsTrue` | |
| `Kvgit_proofs!SyncStaysTrue` | `Spec => []SyncTrue` | |
| `Kvgit_proofs!SyncMovesStay` | `Spec => SyncMovesKept` | |
| `Kvgit_proofs!WorktreeStaysTrue` | `WSpec => []WorktreeTrue` | |
| `Kvgit_proofs!WorktreeMovesKept` | `WSpec => WorktreeCommitsTaken` | |
| `KvLog_proofs!BranchStaysTrue` | `Spec => BranchKept` | |

Besides these, only what the modules assume of their constants (sets are what
they are called, flags are Booleans, `None` is not a member), which TLC
evaluates on every run. `Quiet`: no overrun, no young orphans spared, merge
sources pinned. `Raising`: no overrun, and commits raise their branch instead of
merging. `gc_unpinned` shows that pinning is needed, and 5.1 that a sweep which
spares young orphans beside merges breaks a head. `Setting`: one agent works on a
session, the other workspaces on it only commit files, and a stash is a session of
its own.

Some properties name the states they leave out, each a ghost set to exactly when
the code gets there: `torn` children, `bare` commits, `stripped` stores, `old`
reads, `late` writes, `tardy` notes, imports gone `Astray`. Beside each stands the
same property without the exception, which TLC finds violated and section 5
explains: `PutBackWhole`, `BranchesWhole`, `SyncingAlwaysKept`, `CacheFresh`,
`PendingUntilCommit`, `NotesStored`, `ImportsAnswered`.

### 4.1 Garbage collection

**Types.** `TypeOK` alone is not inductive: `Publish` makes a
call's new commit the handle's base, so it must exist. `TargetsOK` adds that.

**Leases.** `LeaseInv`: while a sweep runs its record is live,
and no handle has read a record newer than the one stored. A landing write
expects a record it read while none was live, so it cannot match.

**Histories.** None of this depends on what is stored.
`HashInv`: histories are closed and hold only older commits. `KnownInv`:
published commits are closed under history, unmarked and never given up.
`FlightInv`: what a call has in flight is its own, unpublished, and its parents
are the base and the head it merged. The refinement follows: `Publish` and
`Install` are the abstract moves, and everything else is a stutter. A merge's
fast-forward needs that a walk of the stored history finds only true ancestors
(`WalkInHistory`); a walk is defined as a least closed set, so no recursion is
needed. `MovesAreAtomic` is the same of a store that has a history already, the
one the run `gc_merge` starts from: all it asks of the first state is `TypeInv`
and `HistoryInv`. `BackupFollows` is about single steps; it needs that a call
which lands found the head it read.

**What a sweep keeps.** `KnownIntact`: a published commit that
is stored at all is whole, with its whole history. It is kept by the sweep
because the sweep's marks follow histories to the end (`HistoryMarked`), because
every root is marked or still to be read (`RootsMarked`: markers before heads),
and because nothing lands meanwhile; it is kept by writers because a batch puts
what its parents do not refer to (`DraftOK`), merges have pinned sources
(`PinOK`) or a base that is an ancestor (`MergeOK`), and what is installed was
found stored under the same lease record (`InstallOK`).

**With young orphans.** A sweep that spares young orphans keeps
their own content and not their history, so `KnownIntact` is too strong.
`SpareInv` says only what is left after a sweep: roots and the content of what
was visited are marked, and whatever stays, marked or young, keeps what it
refers to. With `MarkInv` and `DraftOK` that gives `MarkersProtect` for any
calls at all. For heads it needs `KnownWhole` (a published commit that is stored
has its own content), which a merge over a base that is gone would break; hence
`Raising`.

### 4.2 The store

**SQLite.** What the connection in a write transaction has checked still holds,
because no other may write (`writer`); everyone else has begun nothing. Its
commit is `Land`, a lone statement is `Land`, a select is `ReadKey`; the rest
changes nothing the store promises.

**IndexedDB.** `QueueInv`: the queue has each transaction once, in the order of
their requests, and one that has begun has no earlier one in its way. So a
transaction that has checked or written is alone with its writes, and its
completion is one `Land`; aborts and closed tabs are `Fail` and `Leave`.

### 4.3 Hosts

`LockInv`: the host that has the lock is the first of its queue, and its epoch
the clock's. `HolderInv`, `MessageInv`: what a host knows of another and what a
message says of its sender were true once and are not too new; a release is the
sender's last message. `HostInv`, `CallInv`: where tasks and calls may be.
`CopyInv` is the heart: of a call not safe to repeat there is one copy at most,
its request on the way, its task in the holder's chain, or its answer on the way
back; it has run at most once, not at all while it waits, and if it ran and its
holder was not killed then the task or the answer is still there. So a call that
is sent again never ran, for its one answer would have come before the release.
`LostForGood` needs one more fact about a step, that nobody gets the lock twice
(`Onward`).

### 4.4 Sessions

`RunInv`: a run holds its child from its start until it records or ends.
`ChildInv`: who holds a child is its last run, and a child that is held, or that
is being forked, is out of the sweep's reach; what the sweep has left to delete
has nothing to lose. `QueueInv`: slots are counted exactly and nobody is in the
queue twice. `AnswerInv`: an answer, in the table or in a row the sweep may put
back, is of the child's last run, which is past it, and is new only before it is
given. `SaidInv`: what was said of a run was said after it recorded, and nothing
is said of a stopped one. `SweepTakesIdle` is an action property: the step that
deletes a branch finds `ChildInv` before it.

A delete that fails after it took a branch puts back the row of a child that may
since have been asked anew: its name is free. From then on that child's row may be
an older job's, and what of `ChildInv`, `AnswerInv` and `SaidInv` relates the row
to the child's last run holds of the others only. What does not depend on the row
holds of all: a child has one run, for `busy` is taken back by the run that holds
it and not by the sweep; slots are exact; and a job that is running has a run.

### 4.5 Turns

`TurnInv`: at most one turn is ending or storing, the call in progress is its
end's, and the current turn is one that is open here. `AskedInv`: a checkout is
of a commit there is. `StoreInv`: the run an end stored is pending until its
commit and exactly as it was stored, and no commit or pending change has a run
of a turn that has not ended. `NoteInv`: what was handed is in the turn's record
or back in the queue, forgotten notes were forgotten by a turn that ended, and
the inbox is in order, handed before waiting. That no note is lost but a tardy
one needs that nothing else is handed over between the store and the commit of an
end (`Storing # {}` gives that what is handed is `tardy`), and that a note put
back is no longer tardy (`TardyHeld`). `EndLands` follows from `StoreInv` and from
what a merge without a conflict keeps of ours (`Applied`).

### 4.6 The kernel

`Boots`: at most one worker is starting, for a run that has none yet, and one
that is up is the kernel's. `OneRun`: a run is in one place, a message on its
way to its worker, the worker's code, or the word that it is done on its way
back. So a worker that is kept for the next run has nothing of the last one but
code left behind, and what that code calls carries its own run's number:
`CallsNow` says that files answer only the run in progress. `ClockTrue` counts
the time charged to the run and to host objects apart, each within its own
bound, for a host that answers stops one clock and starts the other.
`LoadsTrue`: an import that awaits the host for a run is asked for by a call of
the worker's own run which has no answer yet, for the end of a run takes its
calls' imports with it; one that is loading, or that code left behind asked for,
may be anybody's. `AnswersOwn` is inductive as it stands.

### 4.7 The agent: turns, tasks and maps

What a run may say of a call depends on the call's whole life, so `Inv` follows
a turn's calls from the reply that asks for them. A call is named by its turn
and its place in it, so those of a new reply are none that was begun before
(`Before`). `CallsInv`: of the calls of the reply in progress those in `res` are
answered, truly; of the others at most one was begun, the one in flight or cut
off (`cutting`), which is why what the end of the turn says of them, "cut" of
that one and "left" of the rest, is true. `RoundInv`: replies and summaries are
no more than the model calls counted, and the calls begun no more than those
spent; `StoredRun` says the same of a stored run, and a resumed run starts its
counts from it. `PlaneInv` relates three records of one outcome, which are
written at different times: the host's `result` (by the task's code), the plane
(when the call returns) and the plane as committed (when the turn ends). They
differ only while the call that settled the task is in flight, or when a stop
cut it off, hence `ran # "cancelled"` in `PlaneTrue` (5.5 tells what a stop then
leaves); and as long as nothing settled the task, it was resumed (`again`)
exactly if its committed plane waits for an answer, which is what keeps its
world (`AskedStays`).

`MapInv`. `OneOrder`, `Asks`, `LoopAt`: a map's delegates are its items' in order,
each once, and a job is new exactly if its map did not ask it. `Behind`: all but
the last `MaxParallel` delegates of a map are done, so those that queue or run
are among the last, whatever the order in which they end; that is
`ParallelBounded`, and it needs the loop's `await` to be kept as a fact while the
fork is on its way (`Ahead`). `JobsTrue`, `Passed`: what a job's state says of
its run's end and reply, and what an item has that was passed by. `Collected`: a
reply that was collected is of a job that has settled, and if it says that the
helper never ran, none of its run is left to say otherwise. `StopsAll` is
inductive as it stands.

### 4.8 Sync

`HistoriesClosed`: a commit's history holds its members' histories, so what a
sweep's walk reaches it reaches with its parents, as far as they are there
(`Walk` is a least closed set, so no recursion is needed). `Landing`: a commit
that was found with its parents there has them when it lands, or a sweep took
them in between and it is `bare`; `Later` says that every other step leaves it
so. This is what `HistoryWhole` needs of a transfer, of which it is otherwise
free to stop part of the way. `RecordsKnown`, `CallSound`: what is recorded, and
what a call has read of a ref or a record, was there, which outlasts every later
move because a branch's past only grows; `ever` keeps it. `PushSound`: the
commit a push expects on the remote is in the history of the one it sends, or
there is none, and that is what makes a move go forward. `PushKnows`,
`PushMarked` and `UnlessSound` relate a call's earlier reads to the books as
they are now. The first is lost when a forgetting comes between, so it holds of
the calls outside `forgot`; a push that has begun has its mark, or its store is
`stripped`; a deletion's reads of the records are stale when it removes the
branch, and `UnlessSound` says why that is safe: a record can only have come
with the mark, and the removal expects none. `SyncMovesStay` follows step by
step: one call moves one ref (`OneMoves`), and finds the invariant before it.

### 4.9 Worktrees

A value counts as lost or repeated only against the commits it is in, so the
invariant follows a call's commit from where it is built to where it lands.
`Stands`: a call that has built one stands on it and it is nobody else's (`Own`:
no branch has had it, no commit follows it, no other handle is on it); every
other handle stands on its base, which is `NoPhantom`. `Builds`: a commit that is
not merged yet holds its base with what was taken (`Takes`) over it, and has its
base's history; one that is merged follows the head it expects, and holds what
was taken (`HoldsTaken`). The merge's part rests on a fact about histories: where
the branch's head follows a handle's base, that base is the one lowest common
ancestor of the head and the handle's own commit, so what changed since is
exactly what was taken. `ReadsTrue`: a read that no move of the handle overtook,
made while it stood on its base, is of the base.
`TakesAll`: a commit on its way has taken every write it will clear, but the late
ones. `WorktreeMovesKept` is then a fact about each step (`NothingOverwritten`,
`OnlyTaken`, `WritesKept`) that finds the invariant before it.

### 4.10 The logged database

`BranchKept` says that a file is never past its branch but at the tip of a rebase
which opening can finish, and that a copy takes only its own entries out of its
branch. Neither follows from what it says: a rebase decides in `RebaseStart` what
it will move the branch to, moves it several awaits later, and a push, a pull, a
crash and another open may come between. `LogInv` is what holds meanwhile.
`Lines`: commits form a forest, each holding all that a commit of its line holds;
a commit added leaves the others (`OneMore`), so what is known of commits stays
(`SoundStays`). `FromRemote`: entries another copy wrote that are in a copy's
branch, in a rebase's branch, or where a rebase goes or starts, have been in the
remote; and the remote only grows. `Knowing`: a rebase goes onto what the branch
holds, or onto a head of the remote that holds all others wrote in the branch.
`Rebasing`: from `RebaseStart` on, what the rebase leads to holds all that others
wrote before the head it will move from (`plan.head`), so the move is safe if the
branch is still there, and it is made only then. `Standing` keeps the same fact
over a crash: a file past its branch is at the tip of the rebase's branch, the
tag is the head to move from, and the tip holds all others wrote before it, which
`Settle` needs when it finishes the rebase. That `RebaseStart` establishes
`Rebasing` when the file is level with its branch rests on `Parting` and
`AfterLine`: were its target behind the branch, nothing would come after the
place where they parted, and there would be nothing to rebase.

### 4.11 The agent's git

*States.* `GitTrue` is about records of commits, which verbs write on a worktree
first and commit afterwards, while the session's head moves. `GitInv` follows a
record from the commit it was read at to the one that holds it. `StoreInv`,
`NodeInv`: a commit's history holds its members' histories, and the heads in its
record (`head`, `pre`) are agent commits of that history (`RecordAt`).
`WorkInv`: a worktree's commit is in the history of its session's head, so what
was true of a record there is true of it at the head when it lands there,
straight or merged (`LandingHas`). `OpInv` says what each step of a verb has:
the record it found (`old`), whose head is the one promised, and the one it is
to commit (`state`). `PromiseInv` is why a refused record may be put on the head
that won: the commits of other workspaces leave the session's record as it was,
so the record at the worktree's commit, at the session's head, and the one the
last verb returned agree. This is where `Setting` is needed: a workspace has one
agent (`workspace.ts` gives it one `WorkspaceIndex`, whose verbs run one at a
time), and 5.4 says what a second one on the same session would overwrite. A
stash is named after its session and numbered (`command.ts`), so another
session's agent has no part in it; the model has one stash, hence one agent
beside it.

*Moves.* `GitMovesExact` is about files, and about what a pop brings, neither of
which `GitInv` says anything of; `MovesInv` is inductive beside it. `FilesInv` is
of a worktree. What lands beside an agent is what the others write (`NearInv`). A
commit about to land has on its worktree the files it takes, and the agent head's
elsewhere (`LandsTrue`); one that has landed has those it took, or another's in
their place, and those it set aside (`TakesTrue`); a checkout, an abort or a stash
has its commit's files (`GoesTrue`). `StashInvs` follows the stash: it is of one
of the agent's commits, with nothing in between but a fork, and a history comes to
hold it by a merge of it only (`StashedInv`); a pop that records has made such a
merge, whole unless paths are left to resolve (`PopsTrue`), and one that drops the
stash has it in its history (`DropsTrue`).

### 4.12 What is only model-checked

Liveness and fairness (`CallsReturn`, `HostsServe`, `WorldProgress`,
`AgentProgress`): TLAPS does not reason about `ENABLED`. What counts or selects
along a sequence, because no installed backend can use induction over data:
`KvLog`'s `FileIsLog`, `NothingLost`, `OnceEach` and `RestoreExact` (folds of
transactions; `RowsTrue`, `LogMovesKept`), `KvHamt` (trees), `ExchangesWhole`,
that is `AgexTurn!RequestsAccepted` and `OpeningSent`, and
`AgexProvider!ReplyWhole` (selections from sequences). `CallsLand`: `CallLands`
as stated holds on the runs' instances and is no theorem for all constants, for
a write committed while its call goes on may be overtaken by another
workspace's. `SyncMovesKept` is proved without `GoneSurfaces`, which fails
(5.1). `EpochsTrue`: what was taken is counted along a series of branches'
entries, which is a fold again. `StorageTrue` and `StoresTrue` group trees,
opening and prefixes with the backends; of these the backends' refinements are
proved.

## 5. What was met while modelling

Not runs of their own, each confirmed with TLC on a variant of the instances
named. A form in `code` that "fails" is defined beside the property a run
checks. Lines are those of the repository's files.

### 5.1 kvgit

- *Young orphans and merges.* With the default `minAge`, commits c2 and c3 over
  c2 become orphans when their branch is reset; a sweep takes c2 and spares the
  younger c3, whose tree it keeps; the branch is reset to c3 (`resetTo` looks at
  c3's records only). A handle still at c2 commits, loses the race and merges:
  its merge base, c2, is found by walking parents (`kv.ts:422-509`), the changes
  of a commit that is gone read as those of an empty tree, and the merge carries
  an entry whose blob was swept. The published head refers to missing content,
  while `kv.ts:682-684` and `kv.ts:659` say that any `minAge` is safe beside
  writers. Hence `Raising` in 4.1.
- *A commit clears what was written meanwhile.* `set` says that a write "stays
  pending until commit" (`worktree.ts:188`); a commit clears all that is
  pending when it has landed, what was written during its awaits too
  (`worktree.ts:284`, `staged.ts:386`). `KvWorktree!PendingUntilCommit` fails;
  `WritesKept`, which holds, is about writes made while no call is in progress.
- *A stale read stays.* `get` puts what it awaited into the cache
  (`worktree.ts:144-148`), also when a commit, a refresh or a reset has meanwhile
  moved the handle and emptied the cache; and a read made while a commit is on its
  way is of the commit just built, which a raised or refused one never publishes.
  The value is read, and can be written back, until the next move, while
  `worktree.ts:82-83` says that reads see the commit the worktree is based on.
  `KvWorktree!CacheFresh` fails.
- *A transfer holds nothing it found.* `applyWire` looks whether a commit's
  parents are there, and lands the commit in a batch that expects nothing of them
  (`apply.ts:124-175`); only what the transfer itself landed, or found, is marked. The
  parents an earlier transfer or an old branch left there are swept between the
  two, and the branch ends at a commit without its history. `KvSync!BranchesWhole`
  fails, where `apply.ts:85-88` says that a parent missing from the store throws,
  and that what was applied is "valid, content-addressed history".
- *A young orphan is taken for its history.* It needs no race: a branch is dropped,
  a sweep with the default `minAge` spares its last synced commit and takes the older
  parent (`kv.ts:817-821` marks a young orphan's keyset alone), and a pull, which
  finds that commit there, tells the remote it has it (`sync.ts:114-115`). The branch is
  made anew at, or over, a commit whose parents are gone. `BranchesWhole` fails here
  too; what is broken either way is history, not the head's own content.
- *A forgetting takes a push's mark.* `clearSyncHead` lists a branch's records,
  finds none, and then removes the mark (`apply.ts:478-480`). A push that marked the
  branch before, or a pull that recorded the remote in between, is left without it,
  and `deleteBranchUnlessSynced` may delete the branch as one that does not sync.
  `apply.ts:374-381` says "the check and the delete are one step against a sync
  taking the branch up". `KvSync!SyncingAlwaysKept` fails; `SyncingKept`, which
  holds, shows that this takes a forgetting.
- *A reset comes back.* A handle that has not refreshed since its branch was
  reset to an older commit commits, loses the race, and merges: the last commit
  both have is the reset's target, so all that the reset took off is a change of
  its own and is on the branch again. `resetTo` says nothing of other handles
  (`base.ts`). `OnlyTaken` is about handles whose base is still in the branch's history.
- *The older record of what was shared.* A store that has one record for all
  remotes, from before each had its own (`apply.ts:437-459`), may push a branch
  back to a remote where it was deleted: `KvSync!GoneSurfaces` fails.
  `GoneStaysGone`, which holds, is about a remote's own record.
- *An abandoned open* (`idb.ts:398-438`): a blocked upgrade that was given up
  stays in IndexedDB's queue, and the opens behind it wait until it is served.

### 5.2 kvsql

- *Adopting twice.* What was adopted is looked for only as far back as the
  epoch's snapshot (`log.ts:2227-2237`), so across a second epoch the same
  entries are taken again; `kvsql/README.md:334-343` says that "adopting it
  again does nothing". `KvEpoch!TakenOnce` fails.
- *A landed flush nobody noticed.* With a crash right after a flush's commit,
  and then a move to an epoch another device started, the transactions stay
  pending, and are flushed again besides being adopted. No run has both.
- *Twins.* A flush is recognised by its bytes (`log.ts:2996-3004`), and an
  entry has no mark of who wrote it: of two copies that made byte-identical
  changes over one base, the second takes the first's entry for its own flush,
  where `kvsql/README.md:305-308` says that a column changed both ways stops a
  rebase. `KvLog` with `Twins = TRUE` violates `NothingLost`; the runs have
  `Twins = FALSE`.
- *An error's words.* `errors.ts:124-127` says of a refused rebase that the file
  and the log are left as they were; on the way the file's own flush may have
  been recognised and dropped from what is pending (`log.ts:2909-2931`).

### 5.3 Turns and folds

- *A fold recorded during a checkout* is committed with it, so the session is
  not exactly as its target was: `RestoreExact` is checked without folds.
- *A discard between a fold's count and its write* leaves a gap in the folds'
  numbers, and the next fold takes a key that is there ("never rewritten",
  `compaction.ts:140-142`): `FoldsKept` is checked without discards.
- *A note delivered too late.* `deliver` does not look whether its turn is
  ending (`turns.ts:137-182`). A tool that is let go by a stop, and delivers
  once its turn's end has begun, hands its notes to an inbox that the end
  settles when it has stored (`turns.ts:251`): they are forgotten, though no
  stored run holds them; delivered after the end, they are forgotten with the
  next turn's. `turns.ts:244-246` says that notes which "haven't reached the
  conversation" wait "rather than being lost". `WorldTurns!NotesStored` fails.
- *An end on a closed workspace* throws before it puts its notes back
  (`turns.ts:242-260`): `HandedSeen` says `~closed`.

### 5.4 Git and kernel

- *What a commit takes.* `agentgit.ts:18-21` says an agent commit holds exactly
  what the agent committed. It takes the files that differ from the agent's
  head in the worktree's view (`:561`, `:611`); one that a framework commit
  holds changed and a pending change has put back differs in neither, and the
  commit holds it changed. `WorldGit!CommitExact` fails with one workspace:
  write two files, let the call's commit take them, remove one, commit.
  `CommitExactAlone`, which holds, is about commits with nothing else pending.
- *A stash popped twice.* A pop that conflicts keeps its stash; its merge stays
  in the session's history when it is aborted (`agentgit.ts:997-1000`), so the
  next pop finds nothing to merge (`merging.ts:251-255`) and drops the stash
  without bringing it (`command.ts:622-637`), where the help says "merge one back
  and delete its branch" (`texts.ts:35`). `PopWhole` therefore speaks of the
  session's history, and of files that were merged with markers; part `pop` has
  these pops.
- *A record written again.* When the record of a verb is refused and written
  again, it overwrites what another workspace of the session recorded meanwhile.
- *A crash in a merge* between its two commits leaves the files merged, markers
  and all, and no merge outstanding.
- *Imports carry over* (`worker-core.ts:21-22`, against `:274-306`): "Nothing
  carries over between runs but what the code writes to the files or the cache",
  but the promises of imports do. An import still loading as its run ends is
  joined by the next run's, and serves it (`:270` wants a library to load once).
  One that code left behind asks the host for is joined too, and the host drops
  that call, for its run is over: the run that joined waits until its time is
  out, and so does every later run of that worker. `WorldKernel!ImportsAnswered`
  fails.

### 5.5 Sessions and the agent

- *A cancel can leave a commit* (`sessions.ts:1101`, against `:599-604`): the
  landing mark that keeps a cancel out is removed after the commit of a
  delegate's remainder and before its answer is recorded, two awaits later.
  `Sessions!CancelCommitsNothing` fails.
- *A sweep whose delete fails half way.* `Store.delete` deletes branch by branch
  and collects garbage at the end (`store.ts:111-122`), and may throw at any
  point; the sweep then puts back the rows of all (`sessions.ts:684-691`), also
  of those whose branches are gone ("put back if the delete fails", `:661-662`).
  Such a job offers an answer and a resume again; asked anew meanwhile under its
  old name, its new row is overwritten. `Sessions!PutBackWhole` (a child
  whose branch is gone has no job that says otherwise) fails; so do the safety
  properties of `Sessions` without their exception for `torn` children.
- *A map that waits for good.* A map that has started as many runs as it may
  waits for one to be done (`code-tasks.ts:495-496`); a job cancelled before it
  got a slot never runs (as the comment at `:509` knows), and is never done. It
  takes a second map that holds the slots. `live` has one map, with a slot for
  each run.
- *A cancelled call that succeeds.* `cancel` says that each call a stopped helper
  ran for fails, cancelled (`code-tasks.ts:429-430`). A delegate whose code
  settled the task before the stop reached it ends with a success
  (`taskOutcome`), and if the map, which has collected "cancelled" for it, still
  waits for another, the run's reply replaces it (`:545` reads the replies at
  the end). `RepliesTrue` allows that.
- *A reply of a swept delegate.* A delegate cancelled before it ran, and swept
  before its map came to it, has the reply "the helper never ran" (`:514-539`),
  not "cancelled".
- *Two readers of one run's events* share one wakeup (`agent.ts:893-958`): the
  second iterator replaces the first's, which then sleeps for good.
- *A resume that is refused.* A task that was cancelled may be kept with a
  resume offered (`task.ts:900-911`) when its plane no longer says that it waits
  for an answer, which a resume demands (`:824-829`; the doc at `:554-556`
  offers one "for a task waiting on an answer"). `AgexTask!OffersHold` fails.

## 6. What is not modelled

Whole components, each with its reason in `PROJECT.json`: refs and tags, the
GitHub remote, SQL statements and changesets, the file system under SQLite, the
file and network tools, the shell. They are formats, parsers, text and I/O:
sequential, and within reach of tests.

Of the components modelled: reads and lazy handles beside a sweep (nothing pins
what a reader reads, `kv.ts:1795`), repair of damaged heads, renames (kvgit);
`delete`, `copy` and several connections per host (kvsql's host); copying a
database and its blobs (logged database); a child's branch deleted by somebody
else and re-adoption at open (sessions); attachments, forks and publishing
(workspace); the linking of modules (kernel). A sweep slower than its lease
(`lease.ts:158`) is assumed away, as the code's own warning says. A callback
that awaits close (`sessions.ts:709`) is the caller's.

## 7. What is left to do

Proofs: what 4.12 lists, as far as other provers reach it. Models: repair of
heads beside a sweep; `delete` and its drain in the hosts; tags in sync.
