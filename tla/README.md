# zcash-faucet: models and proofs

TLA+ models of the zcash-faucet (`src/`), the TLC runs that check them, and the
theorems TLAPS proves about them. The faucet gives away small drips of TAZ and
cTAZ. One Next.js process answers visitors; it keeps a ledger in SQLite (or in
Cloudflare D1, over HTTP), pays from one hot wallet per network, and refills the
wallet from mined coinbase. What can go wrong is what this project is about:
paying twice, releasing a claim whose coins may still move, blocking someone who
is owed a drip, telling a visitor something untrue, and shutting for good.

All paths below are relative to the repository root (`src/lib/...` is
`src/src/lib/...` in `PROJECT.json`).

## 1. The system

| Component | State | Operations | Interacts with |
|---|---|---|---|
| **Claim route** `src/app/api/faucet/route.ts` | the stack of each handler: `now`, request, claim id, outcome | POST: draining check, send health, proof of work, gates, burn, reserve, send, finalise, answer | all of the below |
| **Send queue** `src/lib/zcash/queue.ts` | tail promise, `pending`, one timer per task | `run(task, deadline)`, `depth` | claim route, reserve loop, drain, status page |
| **Claims ledger** `src/lib/db/index.ts`, `sql.ts` | table `claims` | `reserveClaim` (one atomic INSERT under four limits), `whyBlocked`, `finalizeClaim`, retention purge | claim route |
| **Used challenges** (same files) | table `used_challenges` | `spendChallenge`, `challengeAlreadySpent`, purge | claim route, proof of work |
| **Lease and send budget** `sendBudget.ts`, `config.ts`, `pendingLeaseSeconds` | constants derived at start-up | — | ledger, queue deadline |
| **Proof of work** `src/lib/pow.ts`, `powBudget.ts` | request times per client, subnet, and in all | `issueChallenge`, `verifySolution`, `spendVerifiedSolution`, difficulty | challenge route, claim route |
| **Senders** `zalletsend.ts`, `crosslinksend.ts`, `t2zsend.ts`, `realsend.ts` | an operation id, a poll deadline | submit, poll, classify the outcome | the wallet or node (another program) |
| **Send health** `src/lib/zcash/sendHealth.ts` | a log of outcomes in memory | `recordSend`, `readSendHealth` | claim route, readiness, status page |
| **Drain** `src/lib/drain.ts`, `src/instrumentation.ts` | one flag | on SIGTERM: refuse new claims, wait for the queues, exit | claim route, queue |
| **Reserve reconciler** `src/lib/reserve/*` | refill/harvest flags, failure counters, last sweep | a tick every 30 s that may queue one refill step | send queue, wallet |
| **Chain gates** `shieldGate.ts`, `walletLagGate.ts`, `externalTip.ts` | two references with their ages, one refresh in flight | read the outside view of the tip, wait for it, judge node and wallet | claim route, readiness |
| **Node status** `nodeStatus.ts`, `nodeStatusCache.ts`, `tipProgress.ts` | the memory of the tip, a single-flight cell | read our node with a deadline and a retry, judge a standing tip, serve the pages | gates, readiness, pages |
| **Crosslink readings** `src/lib/crosslink/*` | a cache per reading | read the node through a broker socket | gates, status page |
| **Ledger driver, probe** `driver.ts`, `probe.ts` | connection, cached probe | statements, migrations | ledger, readiness |
| **Rate limit, readiness, status** | sliding windows, cached verdicts | admit a request; judge the process | pages, watchdog |
| **Claim in the page** `page.tsx`, `faucetPhase.ts`, `claimRetry.ts` | phase, held claim (kept over reloads), a submission, the generated key | poll the status, hold, fire, submit, solve, retry quietly, show a card | claim route, status, challenge |
| **Miner** `deploy/z3/miner`, `src/lib/miner/heartbeat.ts` | heartbeat state and file; the threads and flags of a solve | guard, template, solve under a watcher of the tip, submit; beat, resume | node, status page, watchdog |
| **Deploy** `deploy/z3/auto-deploy.sh`, `install-ops.sh`, `redeploy.sh` | what was last deployed and what failed, in files; image tags | deploy what main has moved by, check it, roll it back | CI, main, the whole box |
| **Watchdog** `deploy/z3/watchdog.sh` | counters and flags of the process; a few of them in `/run`; the park marker | each sweep: restart what is down or stalled, heal a stuck node and rest the miner meanwhile, look for a fork | node, miner, readiness, deploy, owner |
| **Feedback, other pages, UI** | table `feedback` | capped insert, presentation | — |

### What is hard about it

* **Handlers interleave.** Each POST reads `now` first, then awaits its body and
  seconds of gates, then reserves with that old `now`. Handlers therefore
  reserve with clocks that run backwards to one another, beside purges nobody
  awaits.
* **The wallet is another program.** An operation pays or dies in its own time.
  The handler may be answered by a deadline, the reply may be lost, the process
  may end: the coins do not care. Everything the faucet says or records about a
  payment is a judgement under that uncertainty.
* **Two clocks for one row.** A pending row blocks for a lease that is derived
  from the queue and the sender's worst case, a sent row for the cooldown. The
  lease is only right if no handler outlives it.
* **Advisory reads in front of mutexes.** `challengeAlreadySpent` and
  `whyBlocked` read state that the deciding INSERT has already left behind.
* **Caches that age.** The gates judge one reading of our node against an outside
  view that others refresh; a verdict compares two things remembered at two
  moments.
* **The page outlives its assumptions.** Effects, keys and buttons call one
  `submit()`, each with the state of the render it was made in, while a claim is
  held over reloads and verdicts.
* **Threads and files of the miner.** A watcher is stopped while it may be about
  to sleep; a file is read at each start by a version that may not know it.
* **A deploy in halves.** A timer starts a script that may fail or be cut off
  after each of three halves; main moves under it, one half moves the checkout
  itself, and the next run knows only what three files and two tags say.
* **Heals that meddle.** The watchdog stops and starts the miner by one signal,
  restarts it by another, and so do systemd, the deploy and the owner. Half of
  what it knows is lost with its process, and every command may fail.
* **Feedback.** Send health judges the wallet by outcomes and closes the door
  that produces them.

### What makes each part correct

* queue: one task at a time, in order; the depth is true; a deadline answers the
  caller and frees nothing; nobody waits for ever.
* ledger: limits hold whatever the clocks of the callers; a purge forgets
  nothing that counts; a diagnosis names the limit that refused.
* claim pipeline: payments to one address are a cooldown apart; what is
  released can no longer pay; what visitors are told is true; a drain loses
  nothing; the lease covers the pipeline.
* challenge: one claim per living challenge; refusals of our making are free.
* send health: a wallet is judged by its own outcomes, is judged when it stops
  finishing sends, and the door never stays shut for lack of new evidence.
* sender: what is called paid is paid, what is called failed never will be, and
  the answer comes within the worst case the queue and the lease allow for.
* gates: a claim is refused for want of an outside view only after the network
  was asked in full; one that is served is near the tip of the references; a
  stall is claimed of a node that stands, and one that stands is excused for no
  more blocks than the reference that speaks for it lags.
* page: one claim at a time and none to an unseen key; a held claim ends with a
  submission, a word or the visitor; "nothing was asked of the wallet" is true.
* miner: no stale block after its watcher saw another tip, no lost wake-up, no
  lost count; a miner that waits on purpose is left alone.
* deploy: what is recorded as processed is on the box; a run that says the faucet
  serves is right; what CI passed is deployed in the end.
* watchdog: a stopped miner rests until the node is well and is given back then,
  whatever restarts; state is dropped no more often than one budget allows; only
  what both sides have settled is called a fork.
* reserve: one step at a time even when a step outlives its deadline; a refill
  survives restarts; a fruitless sweep is not repeated every tick, a refused one
  costs nothing, and no failure stops the loop for good.

## 2. The modules

| Module | Models | Abstracts to |
|---|---|---|
| `SerialWallet` | what the queue promises | abstract specification |
| `SendQueue` | `SerialQueue`, with the grain of the event loop | refines `SerialWallet` |
| `Ledger` | `claims`: reserve, finalise, purge, the four limits | abstract specification of the pipeline |
| `Diagnosis` | `whyBlocked` beside every other ledger step | extends `Ledger` |
| `DripClaim` | one network's claims from POST to payment: route, ledger, queue, wallet, clock, process | refines `Ledger`, uses `SerialWallet` |
| `Sender` | what a sender promises the route | abstract specification |
| `ZalletSend` | one send through zallet: unlock, submit, poll, collect, lost calls, a wallet that restarts | refines `Sender` |
| `Challenge` | a solution from issue to burn | — |
| `SendHealth` | the log, the verdict, the door it closes | — |
| `Reserve` | the refill and harvest loop and its step in the send queue | — |
| `TipReferences` | the outside view of the tip and the claim that waits for it | — |
| `NodeView` | the readings of our node, the memory of its tip, the page's cell | — |
| `ClaimPage` | a claim in the visitor's page | — |
| `TipWatch` | one solve of the miner with its threads | — |
| `Miner` | the miner's loop, its heartbeat over restarts, its two readers | uses `TipWatch` for the solve |
| `Deploy` | the way of a commit to the box: gate, halves, image, rollback | — |
| `Watchdog` | steps 6 to 8 of a sweep, with the node, the miner's unit, the marker and the owner | — |
| `*Proofs` (eight) | theorems | — |
| `MC*` | instances for TLC | — |

Modules with no variable in common are checked in one instance where their
questions are of one kind (`MCLoops`: what must never stand still; `MCVisit`:
what a visit passes; `MCSend`: what the lease is made of). The variable `part` of
such an instance chooses one module for the whole behaviour and leaves the
others at rest, so its state space is the sum of theirs, not the product. The
composition of components that do interact is inside a module: `DripClaim`
holds route, ledger, queue, sender, clock and process; `Diagnosis` a handler
beside the ledger; `Reserve` the reconciler beside the queue and its drips;
`SendHealth` the log beside the queue and the door.

**SendQueue.** `chain` is the order in which tasks were chained to `tail`;
`pending`, `timer` and `answer` are the fields and promises of the class. A task
is `waiting`, `running`, `resolved` (its promise has settled, the callbacks have
not run) or `settled`. `Admit`/`Refuse` are the synchronous part of `run()`,
`Start` the continuation that arms the deadline and calls the task, `Settle` the
`settle` callback, `Deliver` and `Expire` the two arms of the race. `Expire`
waits until nothing is `resolved`: timers are macrotasks.

**Ledger.** `row` is the table, one id per reservation ever asked for. `Reserve`
is `RESERVE_SQL` at a caller's `now`, up to `MaxStale` behind the clock. The
four limits keep the source's strict and non-strict cuts, their windows per
status, and their scopes: address, connection and cap per network, subnet across
networks. (The headers of `RESERVE_SQL` and `LIVE_BLOCK_SQL` still call the
connection limit global; the statements have it per network since 2026-08-04 and
the model follows the statements.) The purge is sent out with a cutoff by every
`reserveClaim` and runs at any later time: `cut` holds the newest cutoff, which
covers every older one. `open` is no part of the code: it is the set of claims
whose handler will still finalise, and the guard of `Tick` is the assumption
behind the lease, that no handler holds a row past it.

**DripClaim** discharges that assumption. It has a queue, a wallet, senders and
a clock bounded only by what the code bounds: a task leaves the queue within
`Residence` (`config.sendResidenceMs`), a handler reaches its reserve within
`MaxStale`. `PendingLeaseSeconds` is the source's formula, and `ImplementsLedger`
says every step of the pipeline is a step of `Ledger`, its `Tick` included. A
claim goes `new`, `gates`, `reserved`, `queued`, `done`. `op` is what the wallet
really does; `SenderReports` is what a sender may say of it: `zalletsend.ts`
says "failed" only of an operation never accepted or seen dead, everything else
it cannot tell is "unknown"; `crosslinksend.ts` has no unknown. The gates are
one step that may refuse. Seconds are coarse: a second does not pass inside a
ledger write or the hand-over of the wallet. `MaxStale` is below the lease in
the code because a request body may take 300 s at the most and the lease is at
least two residences of 309 s and a minute. A network has a queue and a wallet
of its own, so an instance is one network; what networks share, the subnet limit
and the send log, is in `Ledger` and `SendHealth`.

**Diagnosis** follows one refused handler through its four further statements
while all other ledger steps go on. `cause` remembers which limits refused;
`disturbed` whether the table changed since.

**Challenge.** The table outlives the process; `cut` is the newest purge cutoff
(cutoffs follow the clock, so it covers the older ones); an INSERT on the remote
ledger may land with its answer lost.

**SendHealth.** Records carry an age instead of a time; ages past the window are
one value, so the state space is finite with no last second. `streak` is history.

**Reserve.** `Timer` is the interval (it also begins a tick, unless one still
reads its balance), `TickYields`, `TickHoldsBack` and `TickAttempts` are the three
ways `tick()` goes on once the balance is there. The step is a task in `line`,
the send queue with its holder first; `reply` is what `run()` settled with before
the callbacks ran, and `HandleRefused`, `HandleLooked`, `HandleThrew` are those
callbacks with the `finally` behind them. A step that runs into its deadline is
answered and stays in the line. The gates and RPCs of `ZalletRefiller.step()` are
its outcomes: refused, moved or empty with a count of what is left, or thrown. A
balance is one of four readings (unreadable, below the low mark, in the band, at
the target), chosen anew at each tick, since drips, donations and confirmations
move it at any time. `lastHarvestAt` is an age that stops at the interval; a
clock never set is just as due. `why`, `attemptAge`, `askedAge`, `climbing` and
`fruitful` are history.

**ZalletSend and Sender.** `at` is where `send()` is, `wallet` what the wallet has
made of the request, `id` whether it still knows the operation. `Ask` lets the
wallet have the request before the reply is decided: `ReplyLost` is any failure
that is not provably in front of the wallet (`sendmanyFailureIsDefinite`),
`TurnedAway` the ones that are. `PollFinal`, `PollPending` and `PollFails` are one
call of `z_getoperationstatus` each; the deadline is looked at after a
`PollPending` only, as in `awaitOperation`. `WalletRestarts` forgets the
operations and what was not broadcast. Time is the sum of what calls and sleeps
took. `Sender` is the contract `DripClaim.SenderReports` states of a network with
an unknown outcome: its `Reports` is the same set, written over the same four
states of a payment.

**TipReferences.** `ref` holds a height and an age per reference, `asking` and
`said` the refresh under way, `sinceAttempt` the gap between attempts; `seen` is
the claim's one node reading, taken before it waits, and `waited` its polls.
References outside `Honest` say any height up to the tip (a reference that lies
high is the documented limit of the design). **NodeView** has readers that ask,
hear and land at different times, so that answers land in any order. The
reference it compares with, the highest usable one, answers with any height up to
the network's: it may stand, lag, flap or give way to another. What the network
really had then is kept beside the answer, as history. A page read fills `cell`, and `failedRead` is history. Heights that only equality and order
matter of are small numbers; ages stop at the last one that is told apart.

**ClaimPage.** React runs the effects of a change before the next event, so every
action ends where its effects have settled: `StatusLands` is a poll with the
give-up effect, the fire effect and the phase effect behind it. `inFlow`,
`sending` and `firing` are the three refs, `shown` is `phase`, `base` what
`basePhase()` makes of the last status. `Launch` is `submit()` behind its guards;
`job` holds submissions, two slots so that a second one could be seen. `Reload`
keeps only what the browser stores. `Replies` are the route's, the proxy's own
502, and none; `owed` is history, whether the claim behind the card may be paid.
Picking the other network is one more way for `base` to change.

**TipWatch and Miner.** `TipWatch` is `thread::scope` of `mine_once()`: the main
thread, the watcher and the solvers, with the flag and the wake-up of
`Shutdown::stop` as two steps and the check-and-park of `Shutdown::wait` as one,
since it holds the lock. `Miner` is the loop around it, with the heartbeat state
`hb`, its file, `start()` with `resume()` and `keep_unreadable()`, and the two
readers; the solve is one step of it. A start picks any version (a deploy or a
rollback); each knows one schema.

**Deploy.** `tick` holds what the scripts keep in shell variables while a run is
under way: the commit CI was asked about (`remote`), the parts the difference
touches (`todo`), whether a half has failed (`rc` and `miner_rc`, which every
exit path treats alike), whether the app was ready before (`wantReady`).
`TickStarts`, `AskCI`, `RebuildMiner`, `InstallOps` and `Done` are auto-deploy.sh
from the top down, the others redeploy.sh, and `EndsWith` is what auto-deploy.sh
makes of redeploy's code. What outlives a run is in `processed`, `failures` and
`ciPending` (the three files), `head` (the checkout), `ops`, `watchdog` and `bin`
(what is installed) and in the tags and the container. A commit is what it holds
of each part, each named by the commit that brought it, so that "touches" is a
difference and a revert is an old tree. Each command of the scripts that may fail
does so by a `Mishap`, of which an instance has `MaxFaults`; a reboot may come at
any step. `sound` are the apps that come up; our node decides whether a live one is
ready. Ages count starts of the timer. Manual commands (`rollback`, `status`,
`--no-pull`), the dated CI hatch, the self-update and the refresh of caddy are
left out.

**Watchdog.** `sweep` is where a sweep is and what it has read: the corroborated
tip of the body fetched in step 4 and the heights read once for steps 7 and 8.
`FetchesReady`, `HealsMiner`, `ChecksNode`, `ChecksAhead` and `ChecksHistory` are
its steps, and everything around the script may happen between two of them.
`mem` is what a process forgets, `disk` what it keeps in `/run`
(`flap_get`/`flap_set`), `marker` the file only a human removes. `ChecksNode` has
one action for each way out of `heal_node_if_stalled()`, in its order: off,
silent, higher than before, at the tip, stuck for too short a time, out of
attempts, one more rung of the ladder. `Releases` is
`release_miner_after_heal()`. `chains` is the world the script acts on: the
network's height, our node's, and how many top blocks only our node has;
`Lower` is a node that comes back with less. The estimate of zebra is a clock and
may say anything, so a sweep that no tip confirms goes either way; what the app
publishes as its tolerance is one of `Agreements`. Time is counted in sweeps.
`rewinds` is history. The miner is here a unit and what its heartbeat shows;
`Miner` has the rest of it, and its `WatchdogHeals` looks at step 6 from there.

## 3. The runs

All instances use the modules' own definitions; the bounds are constants of the
`.cfg` files, the `ClockBound`s and `AskBound` of the MC modules.

| Run | Question | Bounds, and why they suffice |
|---|---|---|
| `Loops_queue` (`MCLoops`) | Is the queue a serial wallet with final answers for everybody? Does the reserve loop keep one step inside, true books and a way out of every backoff? Is a streak of deadlines judged, and does a closed door open (`DoorFollowsTheSends`)? Does every solve end, with a clean join? Is what CI passed deployed in the end, and a stopped miner given back? | Queue: four calls, two slots: the backlog fills, refuses and refills, with a task behind the one that hangs. Reserve: a queue of three, an interval of three ticks, a backoff of 1, 2, 4. Log: a whole sample of one wallet; the derived window (2) is longer than its floor (1) and holds the streak with nothing to spare. Solve: two solvers, two tips, one solve after the other. Deploy: two commits, a backoff of two starts after two failures, one mishap. Watchdog: two heights, a ladder of two, one mishap, a miner that never templates (`Silent`) and no page delivered; both are in `Visit_gates`. Complete state space, no clock bound, liveness. |
| `Ledger_limits` (`MCLedger`) | Do limits and retention hold for late clocks, lost finalises and pending purges? Is a refusal explained by a limit that refused, with the right time? | two claims, two addresses, two networks; a connection and a subnet each claim may have or lack; windows 4, 2, 3. The ledger alone for eight seconds, so that each window opens, ends and is purged; beside a refused handler for two, up to its answer. Each allowance is one claim, so two claims already compete for it. Larger limits are in the theorems. |
| `DripClaim_pay` | Payments apart, releases final, answers true, drain settled? | two claims, two addresses, a queue of one (so that a claim can find it full), remote ledger, one crash or drain, an operation that outlives its task by a second, six seconds (cooldown 4, lease 3). |
| `DripClaim_lease` (`MCSend`) | Does the lease cover the pipeline? Does one send keep to its worst case, and to what the pipeline takes it to promise? | a queue of two, two claims and a refill step in front, every task at its full residence: the longest wait the limit allows. One send with timeouts 3, 2 and a poll interval of 2, the largest the assumption allows; complete. |
| `Visit_gates` (`MCVisit`) | One claim per living challenge and honest replay refusals? A full question before a refusal, service near the tip, stalls judged right? One claim at a time in the page, no held claim lost, true cards? A verdict per wallet? No lost count? Is what a deploy records on the box, and is "serving" true? Are rewinds budgeted, and does a stopped miner rest? | Challenge: three POSTs over two challenges of two seconds, one restart, three seconds. References: one honest, one not, tips to 4, limits of one second. Node: one claim and two pages, reads of one second, a stall of three, blocks to height 2, a reference at any height up to the network's. Page: one typed and one generated address, two submissions, the code's two retries, a give-up at two. Door: two networks. Miner: two versions, one count in all (theorems have any number). Deploy: three commits, so that one is pushed under a run of another and one follows both, the second sound or not; one mishap (the theorems have any number). Watchdog: three heights, a ladder of three whose last two rungs rewind, one mishap, in three parts: the node's heal, the miner's, and the fork checks, each with the state of the other two at rest. |
| `DripClaim_d1drain` | (violated) Does draining lose nothing with the remote ledger? | as `DripClaim_pay`, shorter. |
| `DripClaim_ctaz` | (violated) Is a cTAZ release final? | the network's sender in `BlindNets`. |
| `Watchdog_silent` | (violated) Is the page of a given-up miner cleared with its count? | three heights, one mishap. |
| `Watchdog_unsettled` | (violated) Is only what is settled compared? | five heights; a reference as deep as what must be settled, as in the code (10 and 10). |
| `Deploy_unjudged` | (violated) Does only what CI passed get to run? | three commits, no mishap. |
| `Miner_stalled` | (violated) Is a waiting miner left alone? | one version, one reason. |
| `Deploy_revert` | (violated) Is what is recorded on the box when main may take a commit back? | three commits, no mishap. |

Deadlock is not checked: in every module the system may rightly stop (all calls
answered, all claims done, the clock at its bound).

### Fairness

`SendQueue`: the event loop runs due continuations and timers (`LoopFairness`).
`EveryoneIsAnswered` has three parts: of them `AnswersFinal` needs none of it,
`HolderIsAnswered` lets a task hang for ever, and `EveryCallerAnswered` takes
`TaskFairness` as a premise, which the senders justify by bounding each of their
own waits (`senderWorstCaseMs`). `SendHealth`: time passes and timers fire; no
send need settle and no visitor need come. `Reserve`: the timer fires, reads of the balance end (their RPCs are
bounded), callbacks run, and whatever holds the wallet ends at last.
`RefillIsTried` takes as a premise that the drips let up: the refill yields to
them without limit, as its comment says. `TipWatch`: threads are scheduled, the
window is a clock's, and the RPC of the watcher has a timeout. In `MCLoops` the
fairness of each part binds only while that part runs (`InReserve`, `InHealth`,
`InSolve`, `InBox`); at rest it asks nothing. `Deploy`: the timer unit starts a run
every two minutes and a run goes on, CI answers and a node catches up at last;
what goes wrong is bounded, so from some point on nothing does. `MainIsDeployed`
takes as a premise that in the end nobody pushes further and that the last commit
is passed and sound. `Watchdog`: the unit is `Restart=always` and sweeps on; our
node gets the blocks there are and peers send again in the end; and a sweep finds
the node well (or the heal off) again and again (`SeenWell`, strongly fair, since
whether it does hangs on zebra's estimate and on what the app publishes). A node
with a chain of its own is outside of what `MinerIsGivenBack` asks: it may wait
for a human. No other run uses fairness.

### Mutants

An operator with a comment "Fault" stands before the definition it replaces and
is that definition with a mistake someone could make. Nothing else refers to it.
Each property of a passing run is violated under one of them (`PROJECT.json`,
"mutants"), which shows that the property constrains the code it is about; properties
with several parts have one for each part a mistake could break alone.

## 4. What is proved

TLAPS proves the following for all values of the constants that satisfy the
assumption of the module that declares them (`SendQueueAssumption`,
`LedgerAssumption` and `NoRowAssumption`, `DripClaimAssumption` and
`AbsentAssumption`, `ZalletSendAssumption`, `DiagnosisAssumption`,
`ReserveAssumption`, `ChallengeAssumption`, `NodeViewAssumption`,
`TipAssumption`, `ClaimPageAssumption`, `SendHealthAssumption`,
`MinerAssumption`, `TipWatchAssumption`, `WatchdogAssumption`,
`DeployAssumption`); TLC evaluates those on every run. What a theorem assumes
beyond them it states itself, and this section says so.

* **SendQueueProofs.** `IndInv` is a picture of the chain: no task is in it
  twice, the first `Served` of it are settled, a holder is the next one; and
  what a timer and an answer imply about their task. From it: `TypeCorrect`,
  `Exclusive`, `InOrder`, `DeadlineAfterStart`, `Depth` (with the set of tasks
  inside counted along), `AnswersAreFinal`, and `Implements`, the refinement of
  `SerialWallet`. The picture is needed because exclusion alone is not
  inductive: a second start is excluded by where the first one stands in the
  chain.
* **LedgerProofs.** `LedgerInv` adds to the types that an open row is pending
  and inside its lease and that no purge cutoff is newer than the present
  allows. `AddressCooldown` argues that a counted row stays live until its
  window ends, so an INSERT that would come too close is refused at any
  admissible `now`; `PurgeSafe` that a cutoff lies a grace below every window,
  and a stale reader at most a grace behind. `IpCap`, `SubnetCap` and
  `DailyCapHeld` argue that only `Reserve` adds a live row and that a stale
  clock counts more rows, never fewer.
* **DiagnosisProofs.** The waits that `whyBlocked()` tells are true because of a
  fact about the table that spacing alone does not give: of two rows of one
  address that can block, one has expired before the other was reserved
  (`Apart`), also where the newer is a lost handler's and nobody's any more. So
  a single row blocks an address, and its expiry is the wait. `CauseStands` ties
  the statements asked so far to the limits that refused, as long as nothing has
  disturbed the table. `SmallestIsLeast` and `NewestIsLast` give the reference
  time of a connection, whose rows are counted; that needs finite sets of claims.
* **SendProofs.** A claim is seen three ways in `DripClaim`: by its handler
  (`HandlerInv`), by the line of the wallet (`QueueInv`) and by its row (`RowInv`).
  `PunctualInv` says how late the handler of a claim can be: the ones in front of
  it in the line and its own send take a residence each, counted from when the
  holder took the wallet. With it a second never passes a lease that somebody still
  holds (`LeaseOutlastsTheLine`, the place where the formula of
  `pendingLeaseSeconds()` is needed), so every step is a step of the ledger:
  `LeaseCoversQueue`, the refinement. `LedgerProofs` is then instantiated with that
  lease, and its limits hold of the pipeline with nothing assumed of handlers
  (`PipelineKeepsLimits`). `DrainIsSafe` follows from the same invariant.
  With the ledger in the process (`~AsyncLedger`) the exit of a drain never finds a
  handler between its answer and its record (`NoEarlyExit`): `LocalDrainIsSafe`
  states of it the whole property that `DripClaim_d1drain` refutes for the other.
  `MoneyInv` ties what the wallet did to what caller, row and visitor were told, and
  `SpacedInv` says what the INSERT of the later claim saw of an earlier one that may
  still pay. Both hold for every sender, a blind one's "failed" being the exception
  they name, so `DenialsAlone` and `DeniedOrSpaced` bound what a blind sender can do:
  nothing said is false but a denial, and two payments come too near only where it
  denied one of them. For a sender that says "unknown" when it does not know
  (`BlindNets = {}`) there is no exception, and `TruthfulReplies` and
  `PaymentsSpaced` follow; for the other kind the run `DripClaim_ctaz` is the
  counterexample.
  `PipelineKeepsTheContract` says that what the pipeline sees of one claim's send is
  the abstract `Sender`: with `ImplementsItsPromise` below the two halves of a claim,
  modelled apart, fit together.
  For one zallet send, `ZalletInv` has a budget for each place (`Begun`,
  `OnTime`: how late it can be when `send()` is there with so many failed tries)
  and what has been `Asked` of the wallet there. From the budget `InTime`, from
  both `ImplementsItsPromise`, step by step. `InTime` needs the assumption
  `PollEvery <= RpcTimeout`, which the code does not make; see section 5.
* **VisitProofs.** What a visit passes, part by part.
  *Challenge:* the row of a winner stays in the table while its challenge lives
  (`RowOfWinner`), because a cutoff never passes the clock, hence `OneClaim`; a row
  is of a POST that got its claim or whose burn had no answer (`RowHasItsPost`),
  hence `ReplaysAreReal`.
  *Our node's readings:* reads overlap and land in any order, so the invariant
  bounds the age of the shared memory by the node's stay at its height and by every
  reading under way (`MemoryOfNode`, `MemoryOfReading`), and what it remembers of
  the reference by what the network had then (`MemoryOfNet`). `StallsAreTrue` and
  `NullIsAFailure` follow. The first says of an excused node that the network moved
  by no more blocks than the reference lagged; for an honest reference that is none.
  *References:* a claim waits no longer than its polls, and one that has not heard
  of an attempt stands behind the one under way or the gap after the last
  (`AttemptInTime`), so the wait covers the gap and a whole attempt:
  `RefusedAfterAsking`. The network moves a block a tick at the most from an honest
  answer on (`HonestAnswers`), hence `ServedIsNear`.
  *The page:* the flag stands for the submission under way (`FlagOfJob`), the key
  of an address made here was seen before the address goes anywhere
  (`KeySeenFirst`), and what is retried owes nothing (`RetriesOwnNothing`).
  *The counts* (`FileIsBehind`): a file of the version that runs
  says no more than that version knows, and one of another version stays only
  beside counts that were set aside. The second half is what a rollback needs:
  the file it meets is not its own. From it `CountsAreKept`.
  *Side by side:* a step of `MCVisit` is a step of one part, or a choice of its
  steps, and leaves the rest as it is. `PartsOfVisit` says so for every part, with
  the log, the box and the watchdog; from it and the types of each, `VisitTypes`.
* **LoopsProofs.** *The reconciler:* `ReserveInv` ties the harvest clock to the
  step in flight (`ClockInFlight`: what it is if the wallet was asked, what it returns to if
  not) and a pending reply to its step. From it: `OneStep`, which needs only that
  a step joins an empty line, whatever `stepInFlight` says; `FlagTrue`;
  `NeverStranded`; `HarvestClock`; and, with `Backlog`, `FruitlessWaits`.
  `ReserveTypes` keeps the ticks held back below the ceiling of the backoff. That the
  doubled wait is a number at all is an induction, done without an induction
  principle: `LeastNumber` takes the smallest exponent without a power
  (`DoublesExist`) and then the smallest whose power is none
  (`DoublingsAreNumbers`).
  *A solve:* `WatchInv` adds to the types what has `Stopped` the
  watcher: while the main thread joins, the flag is up and the watcher awake, and
  behind the join it is done. From it `CleanJoin`. The flag must be in it because
  the watcher parks by itself: only the flag it reads under the lock keeps it
  from going to sleep behind the wake-up.
  *Side by side:* `PartsOfLoops` and `LoopsTypes`, as for the visit. The fairness of
  the loops is not needed for either.
* **DeployProofs.** `TwoIsServing`: `StaysLive` says what a run that found the app
  ready has in front of it at each place, the old app alive until compose has
  replaced it. It holds with reverts and with containers compose declines to
  recreate. `RecordIsTrue` (`RecordInv`): main only grows (`Grows`), so what is
  installed can be compared; it is never older than what is recorded (`NotOlder`)
  and, for the ops files and the miner, never newer than what the run goes for
  (`NotNewer`), so that a part the difference leaves out is as the run wants it,
  and one that a run has passed without a failure as well (`HalvesDone`). The
  app may be newer, since redeploy pulls. The theorem assumes `~Reverts` (section
  5, number 7) and `~Declines` (the smaller observations). Of these only the
  container needs the second: `RecordIsBuilt` says the same of the ops files, the
  miner and the image that the compose file names, also where compose declines to
  recreate a container. `HostIsJudged` (`JudgedInv`) assumes nothing: a verdict
  that a commit passed is never taken back, the gate sets the checkout to such a
  commit, and no step moves it before the halves that install on the host are
  done. `DeployTypes` (`BoxInv`) needs main to have what the files and tags name
  (`NamesKnown`), since what a number may be grows with main.
* **WatchdogProofs.** *The watchdog:* `WatchdogInv` adds to the types that what
  only our node has is not all of it (`OwnIsOnTop`, without which a restart could leave a chain
  nobody has) and `Budget`. For `RewindsBudgeted` the attempts that are counted are
  not enough, since some are given back: `Spent` is the number of those a rewind
  may have been made in, all of them once a repayment was made and those that were
  confirmed before. A repayment leaves it as it is (`RepaidIsMem`), an attempt adds
  at most one (`AttemptIsCounted`), a rewind needs `DropAfter` of them. With the
  repayment made each time, the mutant, it goes down and no bound holds.
  `StoppedMinerRests` goes through the steps of a sweep: only `Releases` starts a
  unit while the flag is up, and it is called in the three places the property
  allows.
  What is left of a disagreement (section 5, number 3): `OneWayToSilence`, every
  step but the one that stops the miner leaves the flag of the page beside a count
  that is over its limit.
  *The log of the sends:* the log is one and its trim is one, so `VerdictsApart`
  has to show that neither an append nor a trim changes what counts for another
  wallet. `StreakOnRecord` keeps the last two of a streak on record, one deadline
  apart; with the derived window that makes the third shut the door
  (`StreaksAreJudged`). With the floor alone it would not (`sendHealth.ts:97`).

Only model-checked: liveness under fairness, which is out of the prover's reach
(`EveryoneIsAnswered`, `RefillIsTried`, `DoorFollowsTheSends`, of which
`StreaksAreJudged` is the safety half, `EverySolveEnds`, `MainIsDeployed`,
`MinerIsGivenBack`). Every safety property and every type that a passing run
checks is stated by a theorem.

## 5. Where code and text disagree

1. **The drain and the remote ledger** (`DripClaim_d1drain`). `drain()` watches
   the depth of the queues, which falls before the handler's finalise has had
   its HTTP answer. The exit can come between a payment and its record.
   `DrainLosesNothingSettled` is the part that holds, and with SQLite the
   condition it adds is always met before the poll's timer runs: there the whole
   property is proved (`LocalDrainIsSafe`).
2. **cTAZ has no unknown outcome** (`DripClaim_ctaz`). A lost or unreadable
   reply, and a payment of an unexpected amount, are plain errors; the route
   releases the claim and says nothing left the wallet. It is the only false thing
   the pipeline can say (`DenialsAlone`), and the only way to a second payment
   inside a cooldown that no lost record explains (`DeniedOrSpaced`).
3. **A page that stays marked as sent** (`Watchdog_silent`). Step 7 clears the
   count of step 6 when it stops the miner, but not `.paged`. If step 6 had given
   up before, the next stall ends without a page. No other step has that effect
   (`OneWayToSilence`).
4. **A fork is judged by the top of the chain** (`Watchdog_unsettled`). The history
   check asks for a settled node only if the node's height was read. If it was not,
   and the block is, a node that is behind with a block or two of its own is parked
   as one on another chain.
5. **What CI has not passed may run** (`Deploy_unjudged`). auto-deploy.sh resets
   to the commit CI passed, redeploy.sh then pulls main again and builds that. Only
   the app is concerned: what is installed on the host was judged (`HostIsJudged`).
6. **A waiting miner is restarted** (`Miner_stalled`). One failed RPC leaves the
   error count above zero until the next template; a miner that then waits for
   its node fetches none, so both readers take the wait for a stall.
7. **A revert is not deployed** (`Deploy_revert`). The difference is taken from the
   last commit that was processed, not from what is on the box. If a commit's run
   failed after it had installed something, and main takes the commit back, there
   is nothing to do: what was taken back goes on running, and the revert is
   recorded. For instance: the new app comes up live and broken for a reason
   redeploy.sh ascribes to the data (exit 1, nothing rolled back), and the fix is
   `git revert`. While main only goes forward the record is true (`RecordIsTrue`,
   `RecordIsBuilt`).

Smaller observations made while modelling, not among the runs:
a challenge can be burned twice after it expires, if it is verified before and
burned after, since the burn's own purge deletes the row that should have stopped
it (`index.ts:492`; `OneClaimWhileItLives` is the part that holds); "daily cap
reached" may be wrong, if the blocking row is released between the INSERT and the
diagnosis, which then falls through to the cap (`index.ts:167`; hence `disturbed`
in `UndisturbedIsTrue`);
the time given for the daily cap is one second early, since the cap counts
`created_at >= now - 86400`; with a stale `now` a connection can hold one row
more, by that clock, than its allowance, so the first expiry frees no slot; after
an unknown outcome the next send is submitted while the wallet still works on
the first; and with three decided sends a landed send does not reopen the door
when failures outnumber it ("a send that lands clears it", `sendHealth.ts:110`).
In the reserve loop: after a harvest ends its flag stays up until the next tick;
the backoff counts only ticks that wanted a step, so with drips in the queue its
"ceiling of 10 minutes" (`stepFailure.ts:79`) is exceeded; and after a timeout the
sweep may yet move funds, though the comment at `reconciler.ts:442` says "we know
the sweep did not move funds".

In the readings: the network's height that is remembered when our own tip moves
(`tipProgress.ts:101`) is up to 30 seconds old and usually a block behind; once the
cache catches up it differs for ever, so a quiet network excuses nothing and a
node that is level with it is called stalled after `TIP_STALL_MS`. The other way
round, a reference that stands or lags while it answers promptly (hosh 113 blocks
behind on a fetch seconds old, `externalTip.ts:457-462`) reads as a quiet network
and excuses a wedged node, if no other source is above it; the comment at
`tipProgress.ts:93` takes an independent tip that has not moved for "nobody is
producing blocks and our node is not at fault". `StallsAreJudged` is what holds:
the excuse covers no more blocks than the reference lags.

In the page: "Try again" on a card while the node is at fault holds the claim
without leaving the flow, and the phase effect does not run inside it
(`page.tsx:371`): the give-up drops the claim and the page goes on saying that it is
queued, although the comment at `page.tsx:405` says "and say so"; the hold stores no network, and is fired on the one that is picked
then; one that fires while another submission runs is lost (`HoldIsKept` says
so); "Edit the address" leaves the flow on; and the card of a failed send
("takes only the three that really left nothing", `page.tsx:1758`) also follows
the proxy's own 502 and a lost reply, behind which the wallet may have paid.
In the sender: an exhausted `pollStatus` sleeps three more times and the worst
case of `sendBudget.ts` covers it only because a call is saved, so with
`ZALLET_POLL_MS` above `ZALLET_RPC_TIMEOUT_MS` the worst case can be exceeded;
nothing in `config.ts` rules that out (the defaults are 1.5 s and 15 s).
In the miner: "accepted + rejected + discarded = solved" (`heartbeat.rs:80`) is
broken by an RPC error between the solve and the answer to the submit, and a
second unreadable file is replaced with a log line, as its comment admits.

In the deploy: `docker tag $IMAGE previous` (`redeploy.sh:476`) tags what the name
stands for, not what runs, so an image that the comparison refused and that was
"never started" (`:540`) is the one a later rollback starts. A restart of the
watchdog that fails is not tried again, since its files are then up to date. The exits for a late readiness
(`:667`) and for an image that cannot be read (`:621`) do not ask whether the new
image is what runs, so with a container compose declined to recreate a commit is
recorded that is not served: with `Declines` TLC finds `RecordedIsInstalled`
violated. A clock stepped backwards extends the backoff by the step, although the
comment at `auto-deploy.sh:72` says it does not. An exit 2 says that the faucet
serves also when it was down before the run; `TwoMeansServing` is about those that
found it ready. An app that is live and not ready for a reason that is not the
node's or the ledger's ("sends failing", "below reserve, refilling") is rolled back
too (`redeploy.sh:709`), although the previous image meets the same sends and the
same balance.

In the watchdog: the pages of step 8 say that while the marker exists "no watchdog
heal will START the miner" (`watchdog.sh:1449`), but step 6 does not look at it and
restarts a stalled miner past it; a process killed between `systemctl stop` and the
write of its flag (`:1180`) leaves a miner that nobody gives back; a miner that
systemd is about to start again is not "active" and is not stopped for the heal
(`:1179`), so it mines through it; and a node that comes back lower and climbs to
where it was counts as advancing (`:1044`), which ends the episode and its budget.

## 6. Bounds and abstractions to know about

* The times in `UndisturbedIsTrue` leave out a connection whose window is fuller than
  its allowance (`NoOlderClock`), as stale clocks can make it, see section 5. Times
  of the subnet limit are a fixed hour and of the cap a second early.
* `DripClaim` treats all gates as one refusing step; draining is a gate of its
  own, the proof of work is `Challenge`, send health is `SendHealth`.
* Amounts, addresses, hashes and wording are model values. Drip counts (best
  effort), the farming signals and feedback are left out.
* A wallet operation is one step from accepted to paid or dead. `OpMax` is a
  bound of the instance, not of the code.

* `NodeView`: no reference is above the network's height, as in `TipReferences`; a
  server on a chain of its own would be. A reference that gives way to an older
  answer of another source counts as asked at that moment.
* `ClaimPage`: a card's button and Enter act on the state the page has settled
  in; two events between a state change and its render are one render. The
  route's replies are any of `Replies`, whatever the page has asked.
* `Miner`: the faucet's and the watchdog's ages for a stale template are one
  `StallAge`; the file is fresh (a stale one is believed by nobody); counts are
  bounded by `MaxCounted`, in all.
* `ZalletSend`: a timer is not late (`DEADLINE_MARGIN_MS` is for that), and the
  wallet does not pay what it has declined.

* `Watchdog`: the network never reorganises below our node's own blocks; a
  corroborated tip is the network's height when the body was fetched; `/run` can
  be written; a step of a sweep is not cut in two by the end of the process; the
  miner's unit starts at boot; the fork check is on and `NODE_STOPS_MINER` is
  set; a stale or malformed reference is none.
* `Deploy`: the state files are written whole and not lost (a lost one falls back
  to the checkout, as its comment says); a partial install of the ops files is as
  good as none; which units run the miner is left out. The app's parts are one.

## 7. Not modelled, and what is left

* **Escalation of the proof of work** (`pow.ts`, `powBudget.ts`, `saltGuard.ts`):
  counters per client, subnet and in all that raise the bits of the next
  challenge. The hazard (one proof sent again is counted again) is listed without
  a property. Left to do.
* **Migrations and the ledger probe** (`driver.ts`, `probe.ts`): the hazard is the
  schema of a file two processes open; no state of these models is a schema.
* **Crosslink readings, readiness, the rate limiter, feedback**: caches, verdicts
  and sliding windows of the kinds `NodeView` and `SendHealth` already model; left
  to do, none of them pays or releases a claim.
* **The transparent senders** (`realsend.ts`, `t2zsend.ts`): transaction building
  by libraries; what they may report is inside `SenderReports`.
* **Drivers, HTTP, wallets, nodes, Equihash**: other programs, or pure I/O; they
  are the external actions of the modules.
* **Steps 1 to 5 of the watchdog**, which restart containers and page, its quiet
  rung about abandoned work (6b) and the reports: counters of the kind step 6 has.
* **Other pages, pictures and the scripts that test them**: presentation. They are
  most of the repository's lines, which is why the map covers a small share of
  them.

Proofs left: none of a safety property or a type that a run checks. What the parts
left out above would bring of their own comes with their modules, and liveness stays
with TLC.
