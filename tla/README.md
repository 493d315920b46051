# A verification development for HEROS

HEROS (`src/`, module `github.com/heros-foreal/heros`) is a service that carries out long-running
goals for a tenant: a goal is planned as a graph of tasks, a worker runs the tasks one at a time through
a tool contract, and a person is asked before anything is written. This directory holds TLA+ modules that
model it, TLC configurations that check them on small instances, and TLAPS proofs of the properties
that matter most. `PROJECT.json` ties every modelled definition to its source lines.

Run it with, for instance, `tlc -config worker_two.cfg MCWorkerRun.tla` and `tlapm WorkerRunProofs.tla`.

## 1. Inventory

| component | code under `src/` | state | operations | what makes it correct | modelled by |
|---|---|---|---|---|---|
| task graph | `internal/task` | the tasks of one goal: state, edges `DependsOn` (must succeed) and `Contributes` (must be terminal) | NewDAG, detectCycle, ReadySet, ClaimableSet, PropagateFailure, Stalled, Transition | a stored plan is acyclic; nothing starts before its prerequisites; everything behind a failure is blocked and nothing else; a plan is called stalled only when it is | `TaskDag`, `DagAlgorithms` |
| goal, ceilings | `internal/goal`, `internal/bounds` | goal state, ledger, criteria, terminal reason | Admit, EvaluateCompletion, CheckCeilings | a run ends once; success means the criteria hold; ceilings bound real calls | `RunStore`, `WorkerRun` (partly) |
| run store | `internal/store` | tables `goals`, `tasks`, `checkpoints`; lease columns | CreateGoal, SaveGoal, Cancel, SaveDAG, LoadDAG, Claim, Renew, Complete, Release, Decide, Checkpoint | one live lease per task; outcomes final; a late writer is refused | `RunStore` |
| worker | `internal/worker` | none of its own: the locals of one RunOnce | RunOnce, handleFailure, idle | charged calls, consent before effects, right verdicts, however cycles interleave | `WorkerRun` |
| planner | `internal/planner` | none | Plan, Revise | the plan grows by what results justify, within its ceiling | `WorkerRun` (as a table) |
| supervisor | `internal/api/supervisor*.go` | `running`, `subs`, `history` in memory | Start, drive, publish, Subscribe, Unsubscribe | one driver per goal; a run that can go on goes on; a slow reader stalls nobody | `Supervisor`, `EventStream` |
| console requests | `internal/api/{server,effects,converse,console}.go` | `subjects`, `pendingActions`, `approvals` in memory | load, ask, confirm, propose, startGoal, decideTask, handleCancelGoal | what spends or writes is agreed to, once; the decision is durable before the run is woken | `Console`, `Delivery`, `Supervisor` |
| tool contract, tools | `internal/toolcontract`, `internal/tools` | the registry and what its tools are bound to | Invoke; assess, synthesise, generate, gate, compare, propose, verify, deliver, publish | a tool acts on the repository of the run that called it; what is published was found; a delivery commits once | `Console`, `Findings`, `Delivery` |
| autonomy policy | `internal/autonomy` | none | which effects need a person | no level lets an effect through that another forbids | as the set `Gated` |
| memory | `internal/memory` | episodes, summaries, knowledge, preferences, turns | AppendEpisode, AppendTurn, SaveSummary, PromoteKnowledge | numbers without gaps or collisions | `Memory`, `Records` |
| conversation | `internal/converse`, `internal/api/converse.go` | the pending confirmation | Reply, streaming | what is shown does not depend on how the stream is cut | `Turn`, `Console` |
| accounts | `internal/auth`, `internal/api/{account,members,signup,middleware}.go` | users, sessions, invitations, resets, confirmations; the password gate | sign-in, sign-up, reset, invite, accept, set role, remove, confirm | an organization keeps an owner; a link is spent once; a reset ends every session there is | `Accounts` |
| rate limiter | `internal/ratelimit` | a bucket per key | Allow, Restore, sweep | the rate is bounded and a restored token is one token | `RateLimit` |
| tenancy and roles | `internal/tenancy` | none | role tables | authority is asked with the role held now | `Roles` |
| reading and editing code | `internal/{intake,discovery,edit}` | files, a clone | resolve, refresh, walk, index, Validate, Apply | an edit is applied to the text it was made for | `Delivery`, `Console` (partly) |
| routing | `internal/{router,intent}` | none | the table, the floor, the score | what must not be done from a sentence is not | `Routing` |
| providers, mail | `internal/{provider,mailer}` | none | a stream of frames; a mail | an answer cut short is no answer | `Turn`, `Accounts` (partly) |
| timeline, events | `internal/api/{timeline,server}.go` | none | read models, the event stream | what is told is true and whole | `Timeline`, `Records`, `EventStream` |
| daemon, deployment | `cmd/herosd`, `deploy`, `db/migrations` | the schema, the first account | boot, migrate, bootstrap | processes that start together do not harm each other | `Boot`, `Supervisor` |

How they interact. A request handler commits to the store and then calls `Supervisor.Start`. Start makes
one goroutine per goal; it calls `worker.RunOnce` until a cycle says there is no more. A cycle reads the
goal row, claims a task, gates it, invokes the tool, overwrites the goal row with the charged copy, records
the outcome and writes a checkpoint. When nothing is claimable, `idle` reads the graph and replans, waits
for a person, concludes or comes back later. People cancel a run or answer a parked task at any time. A
sentence typed at the console goes to a model or, failing that, to the keyword router; either may make a
goal. What goroutines share is the database and the process's maps (subjects, pending actions, the tool
registry, the supervisor's flags, the limiters' buckets) and the working tree of a clone; nothing else
synchronises them.

What is hard:

* **interleaving**: every store call of a cycle is a transaction of its own, and between two of them another
  cycle, a cancel, a decision or a propagation pass may commit; account requests interleave statement by
  statement, deliveries git command by git command;
* **stale copies**: the goal row and the clock are read once per cycle and used until its end; `idle` judges a
  graph it read earlier; a login verifies a password read before the hash; one registry serves every tenant;
* **leases**: expiry is judged on read with the `now` the caller brought;
* **partial failure**: Complete and Decide commit before they propagate; the goal row exists before its plan;
  a delivery that fails leaves its branch;
* **lost wake-ups and restarts**: what drives a run, and what waits for a person, is in memory only;
* **ladders and ceilings**: parks, reclaims and retries all count as attempts, the ceiling is tested in one
  place and charged in another.

`PROJECT.json` lists these at their lines under "hazards", with the properties that watch them.

## 2. The modules

| module | models | checked in |
|---|---|---|
| `TaskDag` | the graph's states, legal moves, readiness, stalling and, as a least fixed point, failure propagation | all runs of goals |
| `DagAlgorithms` | the loops of `detectCycle` and of `PropagateFailure` / `propagateFailure`, an action per iteration | `dag_algorithms` |
| `RunStore` | the Postgres leg for one goal; `StoreSpec` is the store under *any* clients | `console`, and all runs of goals |
| `Timeline` | what the timeline says of the tasks of a run | `console` |
| `WorkerRun` | `RunOnce` and `idle` by any number of workers, the answering and cancelling people | `worker_two` |
| `Supervisor` | Start, drive, the running flag, wake-ups, restarts | `supervisor_one_goal` |
| `Accounts`, with `RateLimit` and `Roles` | accounts, sessions and links under the requests that use them | `accounts`, `ownerless`, `late_sign_in` |
| `Turn` | one sentence put to a model, its stream, its scanner, the browser | `console` |
| `Console`, with `Routing` and `Memory` | loading, asking, confirming by two organizations, and the transcript | `console` |
| `EventStream` | the browsers that watch a run | `console` |
| `Boot` | processes that start together on one database | `console` |
| `Records`, an instance of `Memory` | the diary of a run and who reads it | `console` |
| `Findings`, `Delivery` | what the tools find, publish and commit | `console` |
| `...Proofs` | theorems | tlapm |
| `MC...` | the instances | TLC |

Refinement: `RunStore` is the abstract specification of what the store promises whoever calls it.
`WorkerRun` and `Supervisor` EXTEND it and keep its variables, so the refinement mapping is the identity;
`WorkerSpec => StoreSpec` is checked as a property, and it and `SupSpec => StoreSpec` are proved.

### TaskDag

`st` maps a task to its state; `Absent` stands for a task the plan does not hold yet. `Transitions` is the
table of `task.go`, `LegalMove` adds the joins at `ready` that Claim makes in one statement.
`Downstream(st)` is the least set closed under "unfinished, with a required dependency that failed, was
blocked, was cancelled or is in the set". The code computes it by sweeping; `DagAlgorithms` shows that the
sweeps end and that both of them find exactly it. `DagAlgorithms` takes every graph of `Size` tasks and up to
`MaxEdges` edges, required or contributory, self edges included: the search runs first, and on graphs it
accepts `Arrive` puts any state a store can hold when a task has just failed.

### RunStore

One goal. A variable per column of `tasks` that decides anything (`state`, `attempt`, `leasedBy`, `expiry`,
`approved`), the goal row as a record (`state`, `iterations`, `cause`), the clock, and `sweeping`, the
clients inside `propagateFailure`'s loop. One operator per statement or transaction:

| TLA+ | code |
|---|---|
| `SaveGoal`, `RefuseTerminalOverwrite` | SaveGoal: overwrites the whole row, refuses a different state over a terminal one |
| `Cancel` | Cancel: one transaction; tasks under a live lease are left |
| `SaveDAG` | an upsert: existing rows keep their execution columns |
| `Claim` | one `UPDATE ... FOR UPDATE SKIP LOCKED`, refused unless the goal runs |
| `Renew`, `Complete`, `Release` | guarded by the lease alone, with the caller's `now` |
| `Decide` | guarded by `awaiting_approval`, whatever the goal's state |
| `Sweep`, `Vanish` | one UPDATE of the propagation loop; a client that dies owes the rest |

Which claimable task is taken is left open: the SQL takes the first by id that no other statement has
locked. With SKIP LOCKED a claim can also miss a row that is locked at that instant; a claimer that misses
behaves like one that came before the row was claimable. `Lease` and `now` are small integers.

`StoreNext` lets any client call any operation with any worker id and any `now` up to the present. So
`PrerequisitesHold`, `SettledForever`, `LiveLeaseProtects` and `GoalEndsOnce` are promises of the store and
not of the worker's manners. `Timeline` adds what `whatNext` says of each unfinished task, read at any moment
of that traffic: `TimelineExplains` compares each sentence of a running run with what Claim would do
(`WouldBeClaimed`).

### WorkerRun and Supervisor

`pc[w]` names the store call the cycle makes next, or how the last RunOnce returned: `more`, `stop`,
`error`. `cycle[w]` holds its locals, and forgets
those that are not read again. `calls` (how often each tool ran) and `aborts` (cycles cut short) are
ghosts; `checkpoint` is the iteration of the latest checkpoint.

| step | actions |
|---|---|
| observe | `GoalNotClaimable`, `CeilingReached`, `Observe` |
| claim | `TakeTask`, `NothingToClaim` |
| gate | `Park` (completes as awaiting_approval and gives the lease up), `Invoke` |
| tool | `ToolReturns`: a result, an error, an effect nobody could confirm, a cancelled context |
| spend | `RecordSpend`: SaveGoal of the charged copy; refused after the run has ended |
| settle | `Settle`: succeed, fail, retry, hand back, or the lease is lost |
| persist | `Propagate`, `WriteCheckpoint` |
| idle | `PlanOutgrown`, `Replan`, `BlockedOnApproval`, `DeclareSuccess`, `DeclareExhausted`, `DeclareStalled`, `ComeBackLater`, then `Grow` or `Conclude` |
| people | `StorePlan`, `CancelRun`, `Answered`, `FinishDecline` |
| failure | `Abort`: the process died or a store call failed, at any step; where `idle` cannot read the graph it asks for another cycle (`more`) |

Abstractions. The ledger is its iteration column; tokens, cost and tool calls are charged by the same
write. What Revise finds in the results is the constant `Spawns`; which tasks the policy gates is `Gated`;
the completion criterion counts succeeded tasks of `Counted` against `Threshold`. Loading the goal and
reading the clock are one step, an older `now` being a tick in between. Gathering a task's inputs is part of
`Invoke`, because results of settled tasks are final. The branch of RunOnce for tasks that lack an
idempotency key is left out: SaveDAG refuses such a plan. Episodes are in `Records`.

In `Supervisor`, `running` is the flag of this goal, `drive[w]` its goroutines, `waking` the requests that
have committed and are about to call Start, `swallowed` a ghost set by a Start that found the flag set.
`DriveCycle`, `DriveStep` and `DriveReturns` are the loop; `Restart` kills the process at any point.
`interrupted` never happens here: every Start gets `context.Background()`. Each worker of the process leases
under the one name `herosd`; that is harmless because of `OneDriver` (theorem `DriverAsksFirst`), and two
processes at once are excluded by the deployment (`deploy/k8s/20-deployment.yaml`: one replica, strategy
Recreate).

### Accounts, RateLimit, Roles

A request is a process. `request[r]` holds the operation, its step and what it has in hand; the tables are
`user`, `org`, `session` and `link` (invitations, resets and confirmations, by the request that made them).

| TLA+ | code |
|---|---|
| `Knock`, `Pay`, `Refund` | the limiter before every public request, and whether its token is kept |
| `Acquire`, `Shed` | the password gate: a slot, or 503 |
| `LoginArrive`, `LoginVerify`, `LoginInsert`, `Logout` | the query, the hash and the insert of a sign-in |
| `SignupArrive`, `SignUp` | organization, owner and session in one transaction; then a confirmation link as `resend` makes it, where mail is configured |
| `RoleArrive`, `RemoveArrive`, `ReadOwners`, `SetRole`, `RemoveMember` | lockOwners is a snapshot and then a lock |
| `InviteArrive`, `CreateInvitation`, `SendInvitation`, `WithdrawUnsent`, `RevokeInvitation`, `AcceptArrive`, `AcceptClaim`, `AcceptInsert` | the claim decides, not the lookup before the hash |
| `ForgotArrive`, `CreatePasswordReset`, `ResetArrive`, `ResetPassword` | a reset deletes sessions and other reset links |
| `ResendArrive`, `ClearConfirmations`, `CreateEmailVerification`, `VerifyEmail` | a delete and an insert, no transaction |
| `Lapse`, `Tick`, `Drop` | a link lapses, time passes, a client leaves or the database aborts |

Three ghosts tell which password a session stands on. `generation` counts how often an account's password was
replaced; `request[r].gen` is the generation a sign-in read with the hash (or an acceptance gave the account), and
`opened` keeps it with the session. `overtaken` marks the requests that a reset found between reading the
hash and storing the session.

READ COMMITTED matters in one place: `LockedOwners` is what a `SELECT ... FOR UPDATE` returns, the rows of
the snapshot that still match when their lock is granted, and no new ones. Buckets hold integer shares of a
token; a tick gives one share back.

### Turn, Routing, Console, Memory

`Turn`: a document is a sequence of fields, written as symbols that the network cuts into frames wherever it
likes; `Seek` and `consume` are the two halves of the scanner, `deltas` the bounded channel to the browser.
The symbols are those the scanner tells apart; a character is written as one, two or six of them. `Console`: a request is a goroutine with a wish (load, ask or
confirm); `subject`, `tool` and `action` are the process's memory, `remembered` and `turns` the database. A
load replaces one tool after the other, each taken out and put back in two steps, as `Registry.Replace` does.
`Converse` is the model's turn, whose choice of capability is arbitrary; `Fallback` is the keyword router.
`Memory` is the protocol of a numbered append (advisory lock, `MAX(seq) + 1`, commit), used for the
transcript and, as an instance, for the diary in `Records`.

### EventStream, Records, Boot

`EventStream`: `publish` under the mutex, full channels skipped; `Subscribe` replays under the mutex and holds
it for good if the history does not fit; `Serve` returns at the first terminal event, and what the browser was
written by then (`got`) stays to be judged until `Unsubscribe`. `Records`: `trimEntries`
and what readers are told, while workers write and die. `Boot`: `main` in its order; the chain of migrations
runs outside a transaction while another transaction holds the gate, and either connection may die alone, a
statement in flight arriving after its process.

### Findings, Delivery

`Findings`: what a model returns is a choice; what the tools compute of it (ranking, the fence of the
synthesis and its one repair, the quality gate, the baseline and the comparison) is not. `Delivery`: the file,
the index, the commits, the branches and HEAD of one working tree, a step per git command or file access.
Text is abstracted to the set of changes a file has taken; `Rivals` are changes to one span.

## 3. The runs

| run | checks | bounds |
|---|---|---|
| `worker_two` | interleaved cycles: `LiveExecutorIsAlone`, `ResultFromHolder`, `NoEffectWithoutConsent`, `SuccessMeansMet`, `GivingUpIsRight`, `FailureReachesDependents`, and `StoreSpec` | 2 workers with names of their own (and so exchangeable: SYMMETRY), a plan that grows from one task to four (a chain of two, a contributor, a gated task) and proposes a fifth the ceiling refuses, clock to 2 (a lease can expire twice), 2 attempts, 2 iterations, one cycle cut short |
| `supervisor_one_goal` | one driver, the ledger against the calls really made, ceilings, the retry ladder, checkpoints, and `RunGoesOn` | 4 tasks, the last one over the ceiling on tasks; 2 goroutines, 2 requests, 2 attempts, 4 iterations, 2 aborts or restarts |
| `dag_algorithms` | the loops against `TaskDag` | every graph of 4 tasks and up to 3 edges, the edges of a task walked in any order |
| `accounts` | an organization keeps an owner, one account per invitation, what a reset revokes, what the limiters charge | 3 exchangeable requests (SYMMETRY) of one family of operations, an owner, an admin, an invitation and a reset link in the mail, one hash at a time, buckets of one token and limiters of two keys |
| `console` | one of seven parts per behaviour (below) | below |
| `cancel_in_flight` | violated: a cancelled run settles (finding 1) | 1 worker, no faults |
| `lost_wakeup` | violated: an approved task is taken up (finding 2) | no faults |
| `restart_unresumed` | violated: a planned run survives a restart (finding 3) | 1 restart |
| `premature_stall` | violated: a stalled run has nothing left to do (finding 4) | no faults |
| `ownerless` | violated: an organization always has an owner (finding 5) | 3 requests that set roles or remove |
| `late_sign_in` | violated: no session stands on a password that was replaced (finding 7) | 3 requests that sign in or reset |
| `tools_rebound` | violated: a run's tools act on its own repository (finding 6) | 2 organizations, the traffic of `console` |

The parts of `console` share no state; each behaviour is about one of them, so their bounds add and do not
multiply. A state is told apart by the variables of its part (`VIEW`): the others are as MCInit left them.

| part | bounds |
|---|---|
| turn | 9 documents and prose: escapes, a key spelled by a value or by the end of one, spaces, null and blank texts; frames of 1 to 12 symbols, so every token is cut everywhere, and a frame can hold a false key and all that follows it; a channel of 2 |
| stream | 2 watchers, up to 4 events through channels of 3, so a replay can fail to fit and a slow reader can lose one. In the code these are 200 (the iteration ceiling) and 256 |
| traffic | 4 requests of 2 organizations in 6 mixtures: two answers to one action, two loads at once, a load of another organization during a run, one fault, one restart |
| boot | 2 processes, 3 starts, 1 death, a chain of seven statements with two constraints that are dropped and added, every older release, six environments |
| diary | 2 writers, 4 episodes of which 2 are shown, one loss each |
| rows | the store under any two clients, and the timeline read meanwhile: 3 tasks with a required and contributory edges, 2 worker ids, clock to 2 with leases of 1 (a lease can be taken, expire, be retaken and be compared with two older clocks), 2 claims per task |
| tools | histories of up to 3 goals on 2 repositories; deliveries of one change twice, of rivals, and of independent changes in one tree, with one failed step, one crash, one refresh |

Why the bounds are enough: a chain of two required edges is the shortest in which one propagation pass is
not the whole of it, a contributory edge beside it distinguishes the two kinds of edge, two workers are what
a lease is about, and one more attempt, iteration or task than the plan needs makes each ceiling bite.
`MaxClaims` is 9 in the worker's runs, above what the clock and the ceilings allow, and only bounds
the rows of `console`. Three account requests are one more than a race of two needs: the third is the one who
profits (a session between a reset and its link, a demotion after a promotion).

Deadlock. The supervisor's runs do not check it: a run that waits for a person, has ended or has lost its
driver really stops. Nor do the runs of finite traffic (`accounts`, `console` and the three violations on their
modules): requests come to an end.

Fairness. `SupFairness` is weak fairness of each goroutine and of each request that has begun: the Go
scheduler runs them, and every one of their steps stays enabled until taken, except a claim, which turns
into `NothingToClaim`. Nobody has to answer or cancel, time does not have to pass, and nothing has to fail.
`RunGoesOn` needs its three exceptions, and each is a way in which nobody is left to drive the run: a Start
that found the flag set, a decline, which starts nothing, and a driver that died.
`DagAlgorithms` assumes that the loop goes on. The other modules state safety only and assume no fairness.

### What the runs show that the documents do not

Each of these is a run that TLC finds violated, quoted with its lines in `PROJECT.json`.

1. **A task under way in a cancelled run does not finish.** `Cancel` leaves the leased task, "the task
   finishes normally" (`src/internal/store/store.go:131`). In the code the cycle saves its spend before its
   outcome; after a cancel that save is refused (`worker.go:241`) and the cycle returns. The task stays
   `running`; its result and its charge are dropped (`CancelledRunSettles`).
2. **An approval can be answered "is running again" while nothing runs.** `drive` clears the flag after the
   last cycle returned; an approval between `idle`'s read and that moment finds the flag set and its Start
   returns (`ApprovedTaskRuns`).
3. **A restart resumes nothing.** The mechanisms of recovery are in the store, but nothing at boot calls
   Start for the running goals (`RunSurvivesRestart`).
4. **A run can be failed as stalled while its objective can start.** A decline commits before it propagates;
   a cycle that reads the graph in between finds nothing ready and something left, and the pass that follows
   then releases a task that only took a contribution (`StalledForGood`). Theorem `PropagatedNeverStalls`
   says more: an acyclic plan whose failures have propagated is never stalled, so *every* such verdict is
   given in this window.
5. **Two owners can leave none.** With A and B, where B is promoted while A's demotion waits, the locking
   statement finds that no row of its snapshot is an owner any more, locks nothing, and "the last owner"
   of the empty set is nobody (`AlwaysAnOwner`). `OwnerRemains` says that this is the only way.
6. **Runs share one registry.** Loading a repository rebinds the tools that every tenant's runs look up at
   each call; a run that is going continues on the repository loaded last (`ToolsActOnOwnRepository`).
7. **A reset does not sign out who is just signing in.** The page says "every other session has been signed
   out" (`account.go:189`). Login reads the hash, verifies the old password while argon2id runs, and inserts its
   session unconditionally; a reset committed in between deletes the sessions that are there, and this one
   comes after (`SignedOutEverywhere`). `ResetRevokes` says that this is the only way, and that links have none.

### What the modelling showed besides

Read in the code while translating it; the modules behave so, and no document promises otherwise unless
said. A reader of the code may want to know.

* When the model is unavailable, or its answer cannot be served, the keyword router serves the sentence at
  once, goals and effects too; `ConsentOnce` excepts it. The comment at `internal/api/converse.go:415` reads
  "anything that spends or writes is confirmed first, every time".
* A confirmation runs against the repository loaded when it is given, and is not in the transcript. Two loads
  of one organization at once can leave its subject, its remembered reference and the tools disagreeing.
* `Registry.Replace` deletes and then registers: for a moment the tool is missing.
* The baseline of a comparison is the last earlier run of the repository, of whatever intent.
* A terminal event in a replay ends the stream: a browser that subscribes after an approval is not shown
  what came after the question, though the comment says "history replays what a late subscriber missed"
  (`internal/api/supervisor.go:49`). So `StreamIsABeginning` promises a beginning of the run and says where it
  ends, not the whole. A replay longer than the channel leaves the mutex held, and nothing is published after
  it. An event is dropped when the goal cannot be read back.
* A stream without a usage frame costs nothing. A value that spells "text" can hide the text while it is
  drawn, if one frame brings both and the rest of the document; the final answer is right. `Retryable` and `RetrySafe` decide nothing in production code.
* The verifier of a delivery looks at the path and at HEAD, so a delivery that shared the tree can be
  verified though its commit is elsewhere; `VerifiedMeansDelivered` excepts those. A retry after a failure
  in the tree ends at `checkout -b`, which refuses the branch that exists.
* Two resends at once leave two live confirmation links.
* The timeline names a blocked contributor as waited for although the task can start (`timeline.go:263`), and
  says of a ready task "a worker will claim it next" (`timeline.go:216`) also when its run has ended or is
  paused and nothing will. `TimelineExplains` is a promise about running runs and leaves out both sentences.
* At boot, a migration makes the oldest account of an ownerless organization its owner, which repairs
  finding 5 at the next start. Of two processes that bootstrap at once the second exits, and starts when
  started again. A weak bootstrap password leaves the organization without an account. A gate connection that
  dies alone leaves its process migrating unguarded; the next boot repairs the schema. "Nothing else in this
  product takes an advisory lock" (`db/migrations/embed.go`) is not so: memory takes them.

## 4. The proofs

For every value of the constants, from the named ASSUMEs of the modules, each of which TLC evaluates in a run:

* the plan: edges are between tasks and acyclic where that is cited (`PlanShape`, `PlanIsAcyclic`), an initial
  plan is closed under its edges, leases and ceilings are positive, workers and consoles are clients
  (`StoreConstants`, `Callers`, `Planning`, `Ceilings`). `ChainsStandAlone`: each finding starts a chain of its
  own, which hangs on that finding and on nothing else, as the planner writes it (`internal/planner/plans.go`);
* the accounts: the first organization has an owner, and what was mailed before is an invitation or a reset
  link (`AccountsAssumption`, `StandingAssumption`, `LimitAssumption`);
* the schema: a constraint is dropped before it is added, what is dropped is made again, some statement
  gives an ownerless organization an owner (`ChainAssumption`: migrations 0003, 0006 and 0007), and no two
  accounts of an older database have one address (`InstalledAssumption`);
* the console and the tools: what a request may be for, that of two generators one was there before the other,
  that rivals are changes to one file, and that `Unlocked` and its like name nobody (`ConsoleAssumption`,
  `EventStreamAssumption`, `RecordsAssumption`, `FindingsAssumption`, `DeliveryAssumption`, `SizeAssumption`);
* the turn: frames are not empty and a call may be made at all (`TurnAssumption`); a document gives every field
  once and escapes nothing in a field's name, while its values are any sequences of characters
  (`DocumentAssumption`). The prompt asks for such documents, and the names it asks for are plain words.

Two more are hypotheses of the theorems that need them: `IsFiniteSet(Task)`, where tasks are counted, and
`OwnNames`, that no two workers lease under one name, for the three theorems on consent in `WorkerRunProofs`.

Every safety and action property of the passing runs is a theorem, and each rests on an inductive invariant
that TLC checked first.

* `RunStoreProofs`. `StoreSpec` implies type correctness, `PrerequisitesHold`, and the action properties
  `SettledForever`, `GoalEndsOnce` and `LiveLeaseProtects`. `PrerequisitesHold` is not inductive:
  Complete looks at the lease and not at the state, so a terminal task that still carried a lease could be
  rewritten under a dependent that has begun. The strengthening, `StoreInv`, says
  that a lease sits on a running task or on one that was cancelled after its lease ran out
  (`LeaseOnRunning`), that such a leftover exists only in an ended goal, where nothing can be claimed
  (`LeftoverMeansEnded`), and that what a begun task needs has succeeded or is terminal and unleased
  (`PrerequisitesSettled`). Of the graph: propagation leaves no task that waits for a dead one and changes
  unfinished tasks only (`PropagationLeavesNoneWaiting`, `PropagationKeepsOutcomes`); when nothing waits for a
  dead dependency, nothing runs and nobody is asked, an acyclic plan with work left has a ready task
  (`PropagatedNeverStalls`): acyclicity gives the unfinished tasks a minimal element, whose prerequisites
  are all terminal and none dead.
* `TimelineProofs`. `ARunningTimelineTellsTheTruth`: every sentence of a running run's timeline, in any traffic, with
  the exceptions the property names. It adds to
  `StoreInv` that what a ready task needs is settled (`ReadySettled`): a task is stored as ready only by a
  handing back or an approval, so it had begun. `ReadersGetTheStory`, of the diary on the same page: numbers are
  taken under the lock (`OneAtATime`), so a diary has no gap (`Numbered`) and what is added comes after all that
  was told. `AscendingIsInOrder` says that sorting a set of numbers by how many are below each lists all of
  it; `EssentialGoLast`, that trimming drops a failure only after everything plain.
  + In the same module, the loops on graphs of every size: `CyclesAreFound`, that the search answers yes exactly
    when there is a cycle; `BlockedIsWhatMustBe`, that both sweeps stop at exactly `Downstream`; and
    `PropagatedIsNotStalled`. `DagInv`: a grey task has its place on the stack and the stack is a path (`GreyHasPlace`, `PathOnStack`,
    `GreyWaits`); the black tasks are closed under edges and acyclic (`BlackClosed`, `BlackAcyclic`); a sweep
    blocks only downstream (`OnlyDownstream`), and a quiet one proves that nothing is left (`QuietBehind`).
* `WorkerRunProofs`. `WorkerInv` is inductive: store types, the types of the cycles' locals, that the
  clients in `sweeping` are callers, and that every copy of the goal row a cycle carries, and the row
  itself, stays within the ceiling. From it: `WorkerTypeCorrect`; `WorkerImplementsStore`
  (`WorkerSpec => StoreSpec`), by showing every step of a cycle, of a person and of a failure to be one
  step of `StoreNext` or a stutter; with it the corollary that the worker's runs keep every promise of
  the store (`RunKeepsThePromises`); and `ChargedWithinCeiling`.
  + `ConsentComesFirst`, `LiveExecutorsAreAlone`, `ResultsComeFromTheHolder`, for any number of
    workers with names of their own. The heart is `CopiesAreTrue`: as long as a task is leased
    under a cycle's name, what the claim returned (the expiry, the attempt, the approval) is what the row says;
    a task that waits for an answer has none (`ParkedIsUnanswered`), so an approval is never taken back.
  + `SuccessIsEarned`: the verdict of a run that succeeded is true when it is written and stays
    so, because a task that succeeded holds no lease and never moves again.
  + `FailureAlwaysSpreads`: the property is inductive once it is known how plans grow (`ChainsInv`): a chain
    enters whole, beside a result that stands, so no new task waits for a dead one; a pass ends only when
    it finds nothing, and what kills a task begins one.
  + `GivingUpIsAlwaysRight` (`GivingUpInv`): the goal row, and every copy a cycle may still write, gives a reason
    that stands (`Standing`). Where nothing can start and nothing can be added, only propagation changes
    anything, and a lease left on a cancelled task exists only in a cancelled run (`LeftoverMeansCancelled`).
* `SupervisorProofs`. `SupervisorImplementsStore`; `OneDriverAlways`, with the invariant that a goroutine exists
  only under the flag and a cycle acts only under a goroutine; `DriverAsksFirst`, consent under the single
  name the process leases with, where one driver stands in for names of their own; `LadderEnds`, from
  counting calls against claims (`CallsWithinAttempts`) and leaving a call to spare wherever a task may still
  be claimed (`RoomWhereNeeded`); `CheckpointsFollowTheLedger`; and `LedgerMissesNoCall` and
  `CeilingBoundsTheCalls`, for finite plans: `CallLedger` balances the calls of all tasks against what was
  charged, the one call in flight and the cycles cut short. What a sum over the tasks is, and what it becomes when one
  summand grows, is derived from the definition of the fold by taking a smallest set that would be an exception
  (`BySubsets`), since the library's induction theorems cannot be cited here.
* `AccountsProofs`. Any number of requests of every kind over any accounts; here a behaviour is not limited to
  one family of operations, if `Families` has a member with all of them. Each action is first shown to be one
  of a few kinds of change to the tables (`Opens`, `Founds`, `Regrades`, `Removes`, `Issues`, `Accepts`,
  `Resets` ...; lemma `StepCases`), and the properties are shown of those. `AccountsKeepTheirTables`: the
  columns' types, that what a request has in hand fits its operation, and that no session or usable link
  outlives its account; with the buckets and the password gate (`HashingOK`: only Acquire starts a hash) this
  is `AccountsTypeCorrect`. `EveryOrganizationKeepsAnOwner` (`OwnerRemains`): the owners that were locked are still
  owners when the write commits, so one of them other than the target is left. `AnInvitationMakesOneAccount`:
  a link in use names one account and any other none (`MadeOnce`), and nothing names a request that has not
  ended, whose link is yet to be made (`Untaken`). `AResetEndsWhatWasOpened` (`ResetRevokes`): a session
  belongs to a request that has ended, and a request that is signing in carries the generation of now or was
  overtaken by the reset that made it (`Fenced`), so the session it will store is one of the two the property allows.
  `BudgetsAreExact`: `BudgetIsExact` alone is not inductive, because a key nobody used yet may be the next
  one's; `BudgetInv` balances every key, used or not, against the bills of the requests that drew on it (`BillsOK`,
  `LimitersOK`, `Balanced`).
* `ConsoleProofs`. `WatchersSeeABeginning`: what a watcher was written and, while its stream goes on, what is in its
  channel, is the history up to now in order (`SeesWell`); a stream that has ended keeps what it was written. `ConsentIsGivenOnce` and `RepliesFollowQuestions`: nothing locks a pending action,
  and what makes consent sound is that the step that reads it takes it out of the map (`ConsentInv`); an answer is
  written by the request that wrote the question before it (`MemoryInv`, `RecordInv`). `BootingIsSafe`: as long as no
  connection died, the one that migrates holds the lock and what it is about to add is absent (`Alone`); a chain
  that ran whole left the whole schema (`Settled`); behind the statement that promotes there is an owner or
  nobody (`Peopled`).
* `TurnProofs`. `StreamShowsTheAnswer`: what is drawn while a model writes is the answer, for any set of
  documents, any values in them and any cut into frames, in four steps.
  + Where things stand in a document. A document is its fields joined, and each symbol of the whole is followed back
    to its field (`SpelledInAll`, `PartStands`). A quotation mark inside a value is behind a backslash (`Escaped`),
    so the key stands only where the text begins or where a value ends in its letters (`KeysAre`, `TextStands`).
  + How a value is read back. A place in a value is a number of whole characters and a part of the next one's escape
    (`InText`): what was handed on is those characters, what is held is that part. One more symbol moves to the
    next place or ends the value (`ReadOneMore`), hence so does a frame (`ReadingValue`).
  + How a search goes on. The scanner forgets what it has passed, so `SeekDoes` says what `Seek` did by where things
    stand in the whole of what arrived, in five cases: no key yet, a key whose colon or value has not come, a
    key that is no name, a text that is no string, a text. What it gave up held no key of the text (`Searched`).
  + `TurnInv`: after `sent` symbols the scanner is in one of those places (`Scans`), and a decided answer to show
    took all of them. At the end of a document the place in the value is its end (`WholeDocumentRead`).
  + The library's induction theorems cannot be cited here, so each of these inductions takes a least exception
    (`LeastNumber`) and shows that there is none. The attempt corrected the model twice: the cases of
    `ReadSymbol` overlapped after the closing mark, and `SpellsTheKey` excepted values that
    are the key's letters, where a value that ends in them hides the text too; the run has such documents now.
* `ToolsProofs`. `SynthesesAreGrounded`, `EvalSetsAreVaried`, `ComparisonsAreHonest`: what was published was true of
  findings that never change again (`FindingsInv`). `EveryCommitWasAgreed`, `NothingDeliveredTwice`,
  `VerifiedIsDelivered` (`DeliveryInv`): everything in a file, an index or a branch was agreed to (`OnlyAgreed`), and
  before anybody acted (`AgreedBeforeActing`); a commit needs a branch its delivery made (`BranchBeforeCommit`,
  `OneCommitEach`); who was alone in the tree finds it as it left it (`AloneInTree`).

Only model-checked: liveness (`RunGoesOn`, `LoopsEnd`), which is out of the prover's reach, and the seven
statements of documents and comments that the runs expecting a violation refute.

## 5. The plan

Done, in this order: the graph, the store and its proofs; the worker, the supervisor and the refinement;
accounts and limiters; conversation, events, boot and tools; consent, outcomes, the supervisor's theorems
and those of the accounts; the loops, the ledger, the verdicts, and the modules of the console and the tools;
the scanner of the stream.

What could follow: the parts under "Not modelled" that hold state (summaries and knowledge), once something in
production writes them.

## 6. Not modelled

* The in-memory store of the tests: the deployed service runs the Postgres leg.
* Several goals at once in the store: goals share no row, and claims, leases and flags are per goal. What
  they do share is in `Console` (the registry), `Delivery` (the working tree) and `Findings` (the baseline).
* Admission, which ends before the goal has a row. Pause and resume have no caller; Renew has none in the run
  loop and is in `StoreNext` only.
* The wall-clock ceiling: the column it reads is never written. The other ledger columns.
* The table of the autonomy policy: a static table; its effect is the set `Gated`.
* Profiles and preferences: one row, last writer wins. Knowledge and summaries: `PromoteKnowledge`,
  `SaveSummary` and `Compress` have no caller in production.
* The history page and the list of conversations: listings of rows.
* Two processes at once with the one worker name, which the deployment excludes.
* Walking, indexing and parsing a repository, prompts, rendering, SMTP, static files, flags and banners, the
  commands that check a live provider: input, output or text with no state of the system's own.
