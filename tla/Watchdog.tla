------------------------------ MODULE Watchdog ------------------------------
(* The part of deploy/z3/watchdog.sh that heals the node and the miner, with *)
(* what it acts on: a node that follows the network or builds a chain of its *)
(* own, the miner's unit and heartbeat, the file that parks the miner, the   *)
(* owner, and the deploy that restarts a miner.                              *)
(* One sweep is four steps, in the script's order: /api/ready is fetched, a  *)
(* stalled miner is restarted (step 6), the heights are read and a stalled   *)
(* node healed (step 7), and a fork is looked for (step 8, twice).  Time is  *)
(* counted in sweeps.  Half of what a sweep knows is lost with the process,  *)
(* the other half is on disk.                                                *)
EXTENDS Integers

CONSTANTS
    MaxBlock,       \* bound on the heights
    Setback,        \* how far a node may come back below where it was
    LagFloor,       \* NODE_CONFIRMED_LAG_LIMIT
    Margin,         \* what is added to the app's agreeBlocks
    AheadLimit,     \* FORK_AHEAD_BLOCKS
    RefDepth,       \* REFERENCE_DEPTH: how far below the tip the app's reference block is
    SettleBlocks,   \* FORK_SETTLE_BLOCKS
    StallSweeps,    \* NODE_STALL_SECS, in sweeps
    NodeHealMax,    \* NODE_HEAL_MAX
    ClearAfter,     \* NODE_CLEAR_CACHE_AFTER
    DropAfter,      \* NODE_DROP_NONFINAL_AFTER
    MinerHealMax,   \* MINER_HEAL_MAX
    Agreements,     \* what the app may publish as agreeBlocks
    MaxMishaps,     \* bound on what fails around the script
    Nil             \* nothing read, or not counting

ASSUME WatchdogAssumption ==
    /\ MaxBlock \in Nat \ {0} /\ Setback \in Nat
    /\ LagFloor \in Nat /\ Margin \in Nat /\ AheadLimit \in Nat
    /\ RefDepth \in Nat /\ SettleBlocks \in Nat
    /\ StallSweeps \in Nat /\ NodeHealMax \in Nat /\ MinerHealMax \in Nat
    /\ ClearAfter \in Nat /\ DropAfter \in 1 .. NodeHealMax
    /\ Agreements \subseteq Nat \union {Nil}
    /\ MaxMishaps \in Nat
    /\ Nil \notin Nat

VARIABLES
    chains,         \* the network's height, and our node's: how many top blocks only it has, whether it is stuck
    unit,           \* the miner's unit, as systemd calls it
    beat,           \* what the miner's heartbeat shows
    marker,         \* the file miner-parked-by-fork-heal
    disk,           \* STATE_DIR: miner-stopped-for-node-heal, and step 6's count and delivery
    mem,            \* the variables of the process
    sweep,          \* where a sweep is, and what it has read
    mishaps,        \* how many things failed
    rewinds         \* history: non-finalized states dropped since the node was last seen well

minerState == <<unit, beat>>
watchdogVars == <<chains, minerState, marker, disk, mem, sweep, mishaps, rewinds>>

BlockHeights == 1 .. MaxBlock
HeightRead == BlockHeights \union {Nil}

\* The variables of a process that starts: node_last_height is 0 before the
\* first sweep, and WATCHDOG_NODE_HEAL_ENABLED is read once.
Started(healing) ==
    [healing |-> healing, last |-> 0, stall |-> Nil, attempts |-> 0, unconfirmed |-> 0, repaid |-> FALSE,
     gaveUp |-> FALSE, startPaged |-> FALSE, forkPaged |-> FALSE, historyPaged |-> FALSE]
Asleep == [at |-> "asleep", tip |-> Nil, heights |-> Nil]
Unstopped == [stopped |-> FALSE, heals |-> 0, healPaged |-> FALSE]

\* Types of the state.
WatchdogTypeOK ==
    /\ chains \in [net : BlockHeights, height : BlockHeights, own : 0 .. MaxBlock, wedged : BOOLEAN]
    /\ unit \in {"active", "activating", "inactive"}
    /\ beat \in {"young", "templating", "waiting", "stalled", "old"}
    /\ marker \in BOOLEAN
    /\ disk \in [stopped : BOOLEAN, heals : 0 .. MinerHealMax + 1, healPaged : BOOLEAN]
    /\ mem \in [healing : BOOLEAN, last : 0 .. MaxBlock, stall : 0 .. StallSweeps \union {Nil},
                attempts : 0 .. NodeHealMax, unconfirmed : 0 .. NodeHealMax, repaid : BOOLEAN,
                gaveUp : BOOLEAN, startPaged : BOOLEAN, forkPaged : BOOLEAN, historyPaged : BOOLEAN]
    /\ sweep \in [at : {"asleep", "miner", "node", "ahead", "history"}, tip : HeightRead, heights : HeightRead]
    /\ mishaps \in 0 .. MaxMishaps
    /\ rewinds \in Nat

WatchdogInit ==
    /\ chains = [net |-> 1, height |-> 1, own |-> 0, wedged |-> FALSE]
    /\ unit = "active" /\ beat = "young"
    /\ marker = FALSE /\ disk = Unstopped
    /\ mem = Started(TRUE) /\ sweep = Asleep
    /\ mishaps = 0 /\ rewinds = 0

OneFails == mishaps < MaxMishaps /\ mishaps' = mishaps + 1
NoneFails == UNCHANGED mishaps

-----------------------------------------------------------------------------
(* What is around the script.                                              *)

Outside == UNCHANGED <<marker, disk, mem, sweep, rewinds>>

NetGrows ==
    /\ chains.net < MaxBlock /\ chains' = [chains EXCEPT !.net = @ + 1]
    /\ Outside /\ NoneFails /\ UNCHANGED minerState

Syncs ==
    /\ ~chains.wedged /\ chains.own = 0 /\ chains.height < chains.net
    /\ chains' = [chains EXCEPT !.height = @ + 1]
    /\ Outside /\ NoneFails /\ UNCHANGED minerState

\* Blocks of its own give way to a longer chain.
Reorgs ==
    /\ ~chains.wedged /\ chains.own > 0 /\ chains.height < chains.net
    /\ chains' = [chains EXCEPT !.height = chains.net, !.own = 0]
    /\ Outside /\ NoneFails /\ UNCHANGED minerState

\* A block of ours is the network's next one, or one only our node has.
Mines ==
    /\ unit = "active" /\ beat = "templating" /\ chains.height < MaxBlock
    /\ \/ /\ chains.own = 0 /\ chains.height = chains.net
          /\ chains' = [chains EXCEPT !.height = @ + 1, !.net = @ + 1]
       \/ chains' = [chains EXCEPT !.height = @ + 1, !.own = @ + 1]
    /\ Outside /\ NoneFails /\ UNCHANGED minerState

\* The peers stop serving blocks, or one of them sends again.
Wedges ==
    /\ ~chains.wedged /\ OneFails /\ chains' = [chains EXCEPT !.wedged = TRUE]
    /\ Outside /\ UNCHANGED minerState

Unwedges ==
    /\ chains.wedged /\ chains' = [chains EXCEPT !.wedged = FALSE]
    /\ Outside /\ NoneFails /\ UNCHANGED minerState

\* A heartbeat moves while its process runs, and only ages after.
HeartbeatMoves ==
    /\ \/ unit = "active" /\ beat' \in {"templating", "waiting", "stalled"} \ {beat}
       \/ unit # "active" /\ beat = "templating" /\ beat' = "stalled"
       \/ unit # "active" /\ beat # "old" /\ beat' = "old"
    /\ Outside /\ NoneFails /\ UNCHANGED <<chains, unit>>

\* Restart=always: the service manager waits, and starts it again.
Crashes ==
    /\ unit = "active" /\ OneFails /\ unit' = "activating"
    /\ Outside /\ UNCHANGED <<chains, beat>>

StartsAgain ==
    /\ unit = "activating" /\ unit' = "active" /\ beat' = "young"
    /\ Outside /\ NoneFails /\ UNCHANGED chains

\* auto-deploy.sh with a new miner: only a running one is restarted, and none
\* while the marker is there.
DeploysMiner ==
    /\ unit = "active" /\ ~marker /\ beat' = "young"
    /\ Outside /\ NoneFails /\ UNCHANGED <<chains, unit>>

OwnerStops ==
    /\ unit # "inactive" /\ unit' = "inactive"
    /\ Outside /\ NoneFails /\ UNCHANGED <<chains, beat>>

OwnerStarts ==
    /\ unit = "inactive" /\ unit' = "active" /\ beat' = "young"
    /\ Outside /\ NoneFails /\ UNCHANGED chains

\* OPERATIONS.md: a snapshot puts the node on the network's chain, and only a
\* human takes the marker away.
OwnerReimports ==
    /\ chains.own > 0 /\ chains' = [chains EXCEPT !.own = 0, !.wedged = FALSE, !.height = chains.net]
    /\ Outside /\ NoneFails /\ UNCHANGED minerState

OwnerClears ==
    /\ marker /\ marker' = FALSE
    /\ NoneFails /\ UNCHANGED <<chains, minerState, disk, mem, sweep, rewinds>>

-----------------------------------------------------------------------------
(* The process ends, by a deploy or by its owner, and starts again; the box *)
(* reboots, which empties /run and starts every enabled unit.              *)

Restarted ==
    /\ \E healing \in BOOLEAN : mem' = Started(healing)
    /\ sweep' = Asleep /\ rewinds' = 0

WatchdogRestarts ==
    /\ OneFails /\ Restarted
    /\ UNCHANGED <<chains, minerState, marker, disk>>

Reboots ==
    /\ OneFails /\ Restarted
    /\ disk' = Unstopped /\ unit' = "active" /\ beat' = "young"
    /\ UNCHANGED <<chains, marker>>

-----------------------------------------------------------------------------
(* A sweep.                                                                *)

Past(place) == sweep' = [sweep EXCEPT !.at = place]

\* Step 4 fetches the body that steps 7 and 8 read: a tip two references agree
\* on, or none of use to corroborated_tip_height().
FetchesReady ==
    /\ sweep.at = "asleep"
    /\ \E tip \in {Nil, chains.net} : sweep' = [at |-> "miner", tip |-> tip, heights |-> Nil]
    /\ NoneFails /\ UNCHANGED <<chains, minerState, marker, disk, mem, rewinds>>

\* systemctl, which may fail.
StartsUnit == unit' = "active" /\ beat' = "young" /\ NoneFails

\* A page that is delivered, or not.
Paged(before) == {before, TRUE}

\* heal_miner_if_stalled(): nothing while step 7 keeps the miner stopped; a
\* beat that is not fresh, too young, or waiting for the node is left alone.
\* Fault (see README, "Mutants"): a miner that is stopped looks stalled.
MinerLooksStalled == beat \in {"templating", "stalled"}
MinerToHeal == ~disk.stopped /\ beat \in {"templating", "stalled"}

LeavesMiner ==
    /\ ~MinerToHeal
    /\ NoneFails /\ UNCHANGED <<minerState, disk>>

FindsMinerWell ==
    /\ MinerToHeal /\ beat = "templating"
    /\ disk' = IF disk.heals = 0 THEN disk ELSE [disk EXCEPT !.heals = 0, !.healPaged = FALSE]
    /\ NoneFails /\ UNCHANGED minerState

RestartsMiner ==
    /\ MinerToHeal /\ beat = "stalled" /\ disk.heals < MinerHealMax
    /\ disk' = [disk EXCEPT !.heals = @ + 1]
    /\ StartsUnit \/ (OneFails /\ UNCHANGED minerState)

\* The count goes on; past the first over the limit nothing reads it.
GivesMinerUp ==
    /\ MinerToHeal /\ beat = "stalled" /\ disk.heals >= MinerHealMax
    /\ \E paged \in Paged(disk.healPaged) :
           disk' = [disk EXCEPT !.heals = MinerHealMax + 1, !.healPaged = paged]
    /\ NoneFails /\ UNCHANGED minerState

HealsMiner ==
    /\ sweep.at = "miner" /\ Past("node")
    /\ LeavesMiner \/ FindsMinerWell \/ RestartsMiner \/ GivesMinerUp
    /\ UNCHANGED <<chains, marker, mem, rewinds>>

-----------------------------------------------------------------------------
(* heal_node_if_stalled().                                                 *)

Least(a, b) == IF a < b THEN a ELSE b
Most(a, b) == IF a < b THEN b ELSE a

\* The limit follows the tolerance the app publishes, between a floor and four
\* times the floor.
ConfirmedLimit(agree) ==
    IF agree = Nil THEN LagFloor ELSE Most(LagFloor, Least(agree + Margin, 4 * LagFloor))

\* Whether a corroborated tip says that the node is behind.  Zebra's estimate,
\* a clock, may say anything.
Confirmed(agree) == sweep.tip # Nil /\ sweep.tip - chains.height > ConfirmedLimit(agree)

Heard(height) == sweep.at = "node" /\ sweep' = [sweep EXCEPT !.at = "ahead", !.heights = height]

\* release_miner_after_heal(): the marker outranks it, and a start that failed
\* is tried again and paged once.
Releases(startPaged) ==
    \/ /\ (disk.stopped => marker)
       /\ startPaged = mem.startPaged
       /\ NoneFails /\ UNCHANGED <<minerState, disk>>
    \/ /\ disk.stopped /\ ~marker
       /\ \/ StartsUnit /\ disk' = [disk EXCEPT !.stopped = FALSE] /\ startPaged = FALSE
          \/ OneFails /\ startPaged \in Paged(mem.startPaged) /\ UNCHANGED <<minerState, disk>>

Holds == NoneFails /\ UNCHANGED <<minerState, disk>>

\* The variables of an episode that has ended.
Over(startPaged) ==
    [mem EXCEPT !.last = chains.height, !.stall = Nil, !.attempts = 0, !.unconfirmed = 0, !.repaid = FALSE,
                !.gaveUp = FALSE, !.startPaged = startPaged]

\* Fault: a heal that is switched off looks at nothing.
OffMeansOff ==
    /\ ~mem.healing /\ \E height \in {Nil, chains.height} : Heard(height)
    /\ Holds /\ UNCHANGED <<chains, mem, rewinds>>

HealIsOff ==
    /\ ~mem.healing /\ \E height \in {Nil, chains.height} : Heard(height)
    /\ \E startPaged \in BOOLEAN : Releases(startPaged) /\ mem' = [mem EXCEPT !.startPaged = startPaged]
    /\ UNCHANGED <<chains, rewinds>>

NodeIsSilent ==
    /\ mem.healing /\ Heard(Nil)
    /\ Holds /\ UNCHANGED <<chains, mem, rewinds>>

\* Higher than in the sweep before.  The first sweep of a process has none
\* before it, and releases nothing.
NodeAdvances ==
    /\ mem.healing /\ Heard(chains.height) /\ chains.height > mem.last
    /\ \E startPaged \in BOOLEAN :
          /\ IF mem.last = 0 THEN Holds /\ startPaged = mem.startPaged ELSE Releases(startPaged)
          /\ mem' = Over(startPaged)
    /\ rewinds' = 0
    /\ UNCHANGED chains

\* Not higher, and neither number is over its limit.  Fault: nothing is left
\* to do there.
IdleAtTheTip ==
    /\ mem.healing /\ Heard(chains.height) /\ chains.height <= mem.last
    /\ \E agree \in Agreements : ~Confirmed(agree)
    /\ Holds /\ mem' = [mem EXCEPT !.last = chains.height, !.stall = Nil]
    /\ UNCHANGED <<chains, rewinds>>

NodeAtTheTip ==
    /\ mem.healing /\ Heard(chains.height) /\ chains.height <= mem.last
    /\ \E agree \in Agreements : ~Confirmed(agree)
    /\ \E startPaged \in BOOLEAN :
          IF disk.stopped
          THEN Releases(startPaged) /\ mem' = Over(startPaged) /\ rewinds' = 0
          ELSE Holds /\ mem' = [mem EXCEPT !.last = chains.height, !.stall = Nil] /\ UNCHANGED rewinds
    /\ UNCHANGED chains

\* How many sweeps it has been stuck, this one included.
Stuck == IF mem.stall = Nil THEN 0 ELSE Least(mem.stall + 1, StallSweeps)

\* Behind by a corroborated tip, or by zebra's estimate alone.
Behind(confirmed) ==
    /\ mem.healing /\ Heard(chains.height) /\ chains.height <= mem.last
    /\ \E agree \in Agreements : Confirmed(agree) = confirmed

NodeStalls(confirmed) ==
    /\ Behind(confirmed) /\ Stuck < StallSweeps
    /\ mem' = [mem EXCEPT !.last = chains.height, !.stall = Stuck]
    /\ Holds /\ UNCHANGED <<chains, rewinds>>

\* Attempts that ran on the estimate alone rewound nothing; they are given back
\* once in an episode, when the lag is confirmed (#510).  Fault: all of them are.
RepaidInFull(confirmed) ==
    IF confirmed /\ mem.unconfirmed > 0 /\ ~mem.repaid
    THEN [mem EXCEPT !.attempts = 0, !.unconfirmed = 0, !.repaid = TRUE, !.gaveUp = FALSE]
    ELSE mem

Repaid(confirmed) ==
    IF confirmed /\ mem.unconfirmed > 0 /\ ~mem.repaid
    THEN [mem EXCEPT !.attempts = Most(0, @ - mem.unconfirmed), !.unconfirmed = 0, !.repaid = TRUE, !.gaveUp = FALSE]
    ELSE mem

GivesNodeUp(confirmed) ==
    LET m == Repaid(confirmed) IN
    /\ Behind(confirmed) /\ Stuck = StallSweeps /\ m.attempts = NodeHealMax
    /\ \E paged \in Paged(m.gaveUp) : mem' = [m EXCEPT !.last = chains.height, !.stall = Stuck, !.gaveUp = paged]
    /\ Holds /\ UNCHANGED <<chains, rewinds>>

\* The miner is stopped for a confirmed episode, once, if it is running; step 6
\* then has nothing to report of it.
StopsMiner(confirmed) ==
    IF confirmed /\ ~disk.stopped /\ unit = "active"
    THEN \/ unit' = "inactive" /\ disk' = [disk EXCEPT !.stopped = TRUE, !.heals = 0] /\ NoneFails /\ UNCHANGED beat
         \/ OneFails /\ UNCHANGED <<minerState, disk>>
    ELSE Holds

\* A node comes back as it was, or lower; without its non-finalized state it
\* comes back lower, and the blocks of its own go first.
Lower == [chains EXCEPT !.height = Most(1, @ - Setback), !.own = Most(0, @ - Setback)]
ComesBack == \E c \in {chains, Lower}, stuck \in {chains.wedged, FALSE} : chains' = [c EXCEPT !.wedged = stuck]
ComesBackRewound == \E stuck \in {chains.wedged, FALSE} : chains' = [Lower EXCEPT !.wedged = stuck]

\* The ladder: a restart, a restart without the peer cache, and one without the
\* non-finalized state too, if the chain volume is found.
HealsNode(confirmed) ==
    LET m == Repaid(confirmed)
        n == m.attempts + 1 IN
    /\ Behind(confirmed) /\ Stuck = StallSweeps /\ n <= NodeHealMax
    /\ mem' = [m EXCEPT !.last = chains.height, !.stall = Nil, !.attempts = n,
                        !.unconfirmed = IF confirmed THEN @ ELSE @ + 1]
    /\ StopsMiner(confirmed)
    /\ \/ ComesBack /\ UNCHANGED rewinds
       \/ n >= Most(ClearAfter, DropAfter) /\ confirmed /\ ComesBackRewound /\ rewinds' = rewinds + 1

ChecksNode ==
    /\ \/ HealIsOff \/ NodeIsSilent \/ NodeAdvances \/ NodeAtTheTip
       \/ \E confirmed \in BOOLEAN : NodeStalls(confirmed) \/ GivesNodeUp(confirmed) \/ HealsNode(confirmed)
    /\ UNCHANGED marker

-----------------------------------------------------------------------------
(* Step 8.                                                                 *)

\* The marker is written before the page, or could not be.
ParksMiner == IF marker THEN NoneFails /\ UNCHANGED marker
         ELSE \/ marker' = TRUE /\ NoneFails
              \/ OneFails /\ UNCHANGED marker
NoPark == NoneFails /\ UNCHANGED marker

\* heal_self_mined_fork().
ChecksAhead ==
    /\ sweep.at = "ahead" /\ Past("history")
    /\ \/ /\ Nil \in {sweep.tip, sweep.heights}
          /\ NoPark /\ UNCHANGED mem
       \/ /\ Nil \notin {sweep.tip, sweep.heights} /\ sweep.heights - sweep.tip <= AheadLimit
          /\ NoPark /\ mem' = [mem EXCEPT !.forkPaged = FALSE]
       \/ /\ Nil \notin {sweep.tip, sweep.heights} /\ sweep.heights - sweep.tip > AheadLimit
          /\ ParksMiner /\ \E paged \in Paged(mem.forkPaged) : mem' = [mem EXCEPT !.forkPaged = paged]
    /\ UNCHANGED <<chains, minerState, disk, rewinds>>

\* check_history_against_reference(): a height that was read is below the
\* reference, or not far enough above it.
Unsettled(ref) == sweep.heights # Nil /\ sweep.heights - ref < SettleBlocks
Differs(ref) == ref > chains.height - chains.own

\* The node is asked for its block at the height of the reference, and may not
\* have one.
ChecksHistory ==
    /\ sweep.at = "history" /\ sweep' = Asleep
    /\ \/ NoPark /\ UNCHANGED mem
       \/ \E ref \in BlockHeights :
             /\ ref <= chains.net - RefDepth /\ ref <= chains.height /\ ~Unsettled(ref)
             /\ \/ /\ ~Differs(ref)
                   /\ NoPark /\ mem' = [mem EXCEPT !.historyPaged = FALSE]
                \/ /\ Differs(ref)
                   /\ ParksMiner /\ \E paged \in Paged(mem.historyPaged) : mem' = [mem EXCEPT !.historyPaged = paged]
    /\ UNCHANGED <<chains, minerState, disk, rewinds>>

Network == NetGrows \/ Syncs \/ Reorgs \/ Wedges \/ Unwedges
MinerRuns == Mines \/ HeartbeatMoves \/ Crashes \/ StartsAgain \/ DeploysMiner
Owner == OwnerStops \/ OwnerStarts \/ OwnerReimports \/ OwnerClears
SweepSteps == FetchesReady \/ HealsMiner \/ ChecksNode \/ ChecksAhead \/ ChecksHistory
WatchdogNext == Network \/ MinerRuns \/ Owner \/ WatchdogRestarts \/ Reboots \/ SweepSteps

\* The unit is Restart=always and sleeps between sweeps; a network that has
\* blocks sends them in the end, and zebra's height is read, with an estimate
\* inside its limit, again and again.  Failures are bounded.
SeenWell == HealIsOff \/ NodeAdvances \/ NodeAtTheTip
WatchdogFairness ==
    /\ WF_watchdogVars(SweepSteps) /\ SF_watchdogVars(SeenWell /\ UNCHANGED marker)
    /\ WF_watchdogVars(Syncs) /\ WF_watchdogVars(Unwedges)

WatchdogSpec == WatchdogInit /\ [][WatchdogNext]_watchdogVars /\ WatchdogFairness

-----------------------------------------------------------------------------
(* Properties.                                                             *)

\* However the tip's confirmation comes and goes, one process drops the
\* non-finalized state no more often in one episode than the rungs of one
\* budget allow: attempts that are given back never pay for a rewind twice.
RewindsAreBudgeted == rewinds <= NodeHealMax - DropAfter + 1

\* From the moment step 7 stopped the miner no sweep starts it, not step 6's
\* restart of what looks stalled either, before the node was seen well, and
\* never past the marker ("the miner mined through the peer-cache drop and the
\* state rewind, which is the 2026-09-07 mechanism").
MinerRestsThroughTheHeal ==
    [][SweepSteps /\ disk.stopped /\ unit # "active" /\ unit' = "active"
         => /\ ~disk'.stopped /\ ~marker
            /\ ~mem.healing \/ chains.height > mem.last \/ mem'.attempts = 0]_watchdogVars

\* A miner that step 7 stopped is started again, over processes that end in the
\* middle, starts that fail and a heal that is switched off, unless the marker
\* is there or the node sits on a chain of its own ("an in-memory flag lost
\* mid-episode would leave the miner stopped forever").
MinerIsGivenBack == disk.stopped ~> (~disk.stopped \/ marker \/ chains.own > 0)

\* Step 6, of the delivery of its page: "episode state, so it clears with the
\* count.  Left set, a SECOND stall in the same process would be silent at the
\* give-up rung."
GiveUpIsOfThisStall == disk.healPaged => disk.heals > MinerHealMax

\* "it compares only what both sides have kept": the history check parks the
\* miner only over a chain of ours that is deeper than the settled top.
ComparesWhatIsKept ==
    [][sweep.at = "history" /\ marker' # marker => marker \/ chains.own > SettleBlocks]_watchdogVars
=============================================================================
