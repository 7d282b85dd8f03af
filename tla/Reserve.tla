------------------------------ MODULE Reserve ------------------------------
(***************************************************************************)
(* The reserve reconciler: src/src/lib/reserve/reconciler.ts with the      *)
(* rules of decide.ts and stepFailure.ts, the shield step of               *)
(* zalletRefiller.ts and the send queue it shares with the drips.          *)
(*                                                                         *)
(* A timer starts a tick, the tick reads the balance, and the rest of it   *)
(* runs when the reading is there.  It may put one shield step into the    *)
(* queue, which nobody awaits: the callbacks of the step run between later *)
(* ticks.  A balance is one of four readings and a count of coinbase is    *)
(* few, many (a backlog) or not told; the logged counters are left out.    *)
(***************************************************************************)
EXTENDS Naturals, Sequences

CONSTANTS Interval,        \* ticks in FAUCET_HARVEST_INTERVAL_SECONDS, 0: off
          MaxBackoff,      \* MAX_BACKOFF_TICKS
          ShieldCoinbase,  \* config.reserve.shieldCoinbase
          MaxFails,        \* bound: failedSteps counts no further
          MaxLine          \* bound: tasks in the send queue

ASSUME ReserveAssumption ==
    /\ {Interval, MaxBackoff, MaxFails, MaxLine} \subseteq Nat
    /\ MaxBackoff >= 1
    /\ ShieldCoinbase \in BOOLEAN

VARIABLES refilling, ticking, remaining, harvestAge, lastSweepMoved,
          harvesting, stepInFlight, failedSteps, ticksSinceAttempt,
          clockBefore,   \* harvestClockBefore, as the age it has now
          line,          \* the send queue, the holder of the wallet first
          reply,         \* what run() settled with, its callbacks yet to run
          \* History: why the last step was started and how long ago, how long
          \* since a harvest asked the wallet, and whether the balance was seen
          \* below the low mark and not at the target since.
          why, attemptAge, askedAge, climbing,
          fruitful       \* history: the last step to ask left a backlog behind

flags == <<refilling, ticking, remaining, lastSweepMoved, harvesting,
           stepInFlight, failedSteps, ticksSinceAttempt>>
clocks == <<harvestAge, clockBefore, attemptAge, askedAge>>
reserveVars == <<flags, clocks, line, reply, why, climbing, fruitful>>

Readings == {"unknown", "below", "band", "full"}
Counts == {"unknown", "few", "many"}

\* StepOutcome, or the error the step threw.
NoReply == [kind |-> "none", left |-> "unknown"]
Threw == [kind |-> "threw", left |-> "unknown"]
Refused == [kind |-> "refused", left |-> "unknown"]
Looked == [kind : {"moved", "empty"}, left : Counts]
Outcomes == {Threw, Refused} \union Looked

ReserveTypeOK ==
    /\ refilling \in {"undecided", "yes", "no"}
    /\ {ticking, lastSweepMoved, harvesting, stepInFlight, climbing, fruitful} \subseteq BOOLEAN
    /\ remaining \in Counts
    /\ {harvestAge, clockBefore, attemptAge, askedAge} \subseteq 0..Interval
    /\ failedSteps \in 0..MaxFails
    /\ ticksSinceAttempt \in 0..MaxBackoff
    /\ line \in Seq({"drip", "step"})
    /\ reply \in Outcomes \union {NoReply}
    /\ why \in {"refill", "harvest"}

\* A clock that was never set is as due as one that has run its interval, and
\* start() runs the first tick at once.
ReserveInit ==
    /\ refilling = "undecided"
    /\ ticking = TRUE
    /\ remaining = "unknown"
    /\ lastSweepMoved = TRUE
    /\ harvesting = FALSE
    /\ stepInFlight = FALSE
    /\ failedSteps = 0
    /\ ticksSinceAttempt = 0
    /\ harvestAge = Interval
    /\ clockBefore = Interval
    /\ attemptAge = Interval
    /\ askedAge = Interval
    /\ line = <<>>
    /\ reply = NoReply
    /\ why = "refill"
    /\ fruitful = FALSE
    /\ climbing = FALSE

-----------------------------------------------------------------------------
(* The rules.                                                              *)

DecideRefilling(before, reading) ==
    CASE reading = "below" -> "yes"
      [] reading = "full" -> "no"
      [] OTHER -> before

\* Fault: inside the band a fresh process does not resume.
InitialStranded(reading) ==
    CASE reading = "unknown" -> "undecided"
      [] reading = "below" -> "yes"
      [] OTHER -> "no"

InitialRefilling(reading) ==
    CASE reading = "unknown" -> "undecided"
      [] reading = "full" -> "no"
      [] OTHER -> "yes"

NextRefilling(reading) ==
    IF refilling = "undecided" THEN InitialRefilling(reading)
    ELSE DecideRefilling(refilling, reading)

ShouldHarvest(reading) ==
    /\ Interval > 0
    /\ reading # "unknown"
    /\ \/ lastSweepMoved /\ remaining = "many"
       \/ harvestAge = Interval

\* Fault: the flag alone keeps a second step out.
StartsBesideQueue(reading) ==
    /\ NextRefilling(reading) = "yes" \/ ShouldHarvest(reading)
    /\ ShieldCoinbase
    /\ ~stepInFlight

ShouldStartStep(reading) ==
    /\ NextRefilling(reading) = "yes" \/ ShouldHarvest(reading)
    /\ ShieldCoinbase
    /\ ~stepInFlight
    /\ line = <<>>

\* 2 ** n
Doublings[n \in 0 .. MaxFails] == IF n = 0 THEN 1 ELSE 2 * Doublings[n - 1]

BackoffTicks ==
    IF failedSteps = 0 THEN 0
    ELSE LET doubled == Doublings[failedSteps - 1] IN
         IF doubled < MaxBackoff THEN doubled ELSE MaxBackoff

ShouldAttempt == ticksSinceAttempt + 1 >= BackoffTicks

-----------------------------------------------------------------------------
(* The tick.                                                               *)

Older(age) == IF age < Interval THEN age + 1 ELSE age

\* setInterval: time passes, and a tick begins unless one is still reading.
Timer ==
    /\ ticking' = TRUE
    /\ harvestAge' = Older(harvestAge)
    /\ clockBefore' = Older(clockBefore)
    /\ attemptAge' = Older(attemptAge)
    /\ askedAge' = Older(askedAge)
    /\ UNCHANGED <<refilling, remaining, lastSweepMoved, harvesting, stepInFlight,
                   failedSteps, ticksSinceAttempt, line, reply, why, climbing, fruitful>>

\* Every tick: the balance is there, and what it means for the refill.
Read(reading) ==
    /\ ticking
    /\ ticking' = FALSE
    /\ refilling' = NextRefilling(reading)
    /\ climbing' = (reading = "below" \/ (climbing /\ reading # "full"))
    /\ UNCHANGED <<remaining, lastSweepMoved, failedSteps, askedAge, reply, fruitful>>

NothingStarted ==
    UNCHANGED <<stepInFlight, harvestAge, clockBefore, attemptAge, line, why>>

\* Fault: the flag is cleared under a harvest that still runs.
YieldsAndClears(reading) ==
    /\ Read(reading)
    /\ ~ShouldStartStep(reading)
    /\ harvesting' = FALSE
    /\ NothingStarted /\ UNCHANGED ticksSinceAttempt

TickYields(reading) ==
    /\ Read(reading)
    /\ ~ShouldStartStep(reading)
    /\ harvesting' = (harvesting /\ stepInFlight)
    /\ NothingStarted /\ UNCHANGED ticksSinceAttempt

HarvestOnly(reading) == ShouldHarvest(reading) /\ NextRefilling(reading) # "yes"

\* Fault: the wait starts over.
HoldsBackAnew(reading) ==
    /\ Read(reading)
    /\ ShouldStartStep(reading) /\ ~ShouldAttempt
    /\ ticksSinceAttempt' = 0
    /\ harvesting' = FALSE
    /\ NothingStarted

TickHoldsBack(reading) ==
    /\ Read(reading)
    /\ ShouldStartStep(reading) /\ ~ShouldAttempt
    /\ ticksSinceAttempt' = ticksSinceAttempt + 1
    /\ harvesting' = FALSE
    /\ NothingStarted

\* The step goes into the queue; a harvest stamps its clock on the attempt.
Begin(reading) ==
    /\ Read(reading)
    /\ ShouldStartStep(reading) /\ ShouldAttempt
    /\ harvesting' = HarvestOnly(reading)
    /\ stepInFlight' = TRUE
    /\ clockBefore' = harvestAge
    /\ harvestAge' = IF HarvestOnly(reading) THEN 0 ELSE harvestAge
    /\ line' = Append(line, "step")
    /\ why' = IF HarvestOnly(reading) THEN "harvest" ELSE "refill"
    /\ attemptAge' = 0

\* Fault: the attempt is counted as one more tick without one.
AttemptsUncounted(reading) ==
    Begin(reading) /\ ticksSinceAttempt' = ticksSinceAttempt + 1

TickAttempts(reading) == Begin(reading) /\ ticksSinceAttempt' = 0

Tick == \E reading \in Readings :
            TickYields(reading) \/ TickHoldsBack(reading) \/ TickAttempts(reading)

-----------------------------------------------------------------------------
(* The queue and the step.                                                 *)

DripArrives ==
    /\ Len(line) < MaxLine
    /\ line' = Append(line, "drip")
    /\ UNCHANGED <<flags, clocks, reply, why, climbing, fruitful>>

DripEnds ==
    /\ line # <<>> /\ Head(line) = "drip"
    /\ line' = Tail(line)
    /\ UNCHANGED <<flags, clocks, reply, why, climbing, fruitful>>

\* The caller of run() still waits for this step.
Awaited == stepInFlight /\ reply = NoReply

\* step() is over: refused by a gate, empty, moved, or thrown.  Past its
\* deadline nobody hears of it.
StepEnds ==
    /\ line # <<>> /\ Head(line) = "step"
    /\ line' = Tail(line)
    /\ IF Awaited THEN reply' \in Outcomes ELSE reply' = reply
    /\ UNCHANGED <<flags, clocks, why, climbing, fruitful>>

\* The deadline rejects the promise; the task keeps the wallet.
StepExpires ==
    /\ line # <<>> /\ Head(line) = "step"
    /\ Awaited
    /\ reply' = Threw
    /\ UNCHANGED <<flags, clocks, line, why, climbing, fruitful>>

Settled ==
    /\ stepInFlight' = FALSE
    /\ reply' = NoReply
    /\ UNCHANGED <<refilling, ticking, harvesting, ticksSinceAttempt, clockBefore,
                   attemptAge, line, why, climbing>>

\* History: the wallet was asked.
Asked ==
    /\ askedAge' = IF why = "harvest" THEN attemptAge ELSE askedAge
    /\ fruitful' = (reply = [kind |-> "moved", left |-> "many"])

\* Fault: a refusal costs the interval.
RefusedKeepsClock ==
    /\ reply = Refused
    /\ Settled
    /\ failedSteps' = 0
    /\ UNCHANGED <<remaining, lastSweepMoved, harvestAge, askedAge, fruitful>>

HandleRefused ==
    /\ reply = Refused
    /\ Settled
    /\ failedSteps' = 0
    /\ harvestAge' = clockBefore
    /\ UNCHANGED <<remaining, lastSweepMoved, askedAge, fruitful>>

HandleLooked ==
    /\ reply \in Looked
    /\ Settled
    /\ failedSteps' = 0
    /\ remaining' = reply.left
    /\ lastSweepMoved' = (reply.kind = "moved")
    /\ Asked
    /\ UNCHANGED harvestAge

\* Fault: a throw leaves the fast path on.
ThrewKeepsBacklog ==
    /\ reply = Threw
    /\ Settled
    /\ failedSteps' = IF failedSteps < MaxFails THEN failedSteps + 1 ELSE failedSteps
    /\ Asked
    /\ UNCHANGED <<remaining, lastSweepMoved, harvestAge>>

HandleThrew ==
    /\ reply = Threw
    /\ Settled
    /\ failedSteps' = IF failedSteps < MaxFails THEN failedSteps + 1 ELSE failedSteps
    /\ lastSweepMoved' = FALSE
    /\ Asked
    /\ UNCHANGED <<remaining, harvestAge>>

Handle == HandleRefused \/ HandleLooked \/ HandleThrew

\* Everything but what happened to the balance is memory.
Restart ==
    /\ refilling' = "undecided"
    /\ ticking' = TRUE
    /\ remaining' = "unknown"
    /\ lastSweepMoved' = TRUE
    /\ harvesting' = FALSE
    /\ stepInFlight' = FALSE
    /\ failedSteps' = 0
    /\ ticksSinceAttempt' = 0
    /\ harvestAge' = Interval
    /\ clockBefore' = Interval
    /\ attemptAge' = Interval
    /\ askedAge' = Interval
    /\ line' = <<>>
    /\ reply' = NoReply
    /\ why' = "refill"
    /\ fruitful' = FALSE
    /\ UNCHANGED climbing

ReserveNext == Timer \/ Tick \/ DripArrives \/ DripEnds \/ StepEnds \/ StepExpires
            \/ Handle \/ Restart

ReserveSpec == ReserveInit /\ [][ReserveNext]_reserveVars

\* The timer fires, a read of the balance ends, callbacks run, and whatever
\* holds the wallet ends at last.  No outcome is promised.
ReserveFairSpec == ReserveSpec /\ WF_reserveVars(Timer) /\ WF_reserveVars(Tick) /\ WF_reserveVars(Handle)
                 /\ WF_reserveVars(DripEnds) /\ WF_reserveVars(StepEnds)

-----------------------------------------------------------------------------
(* Properties.                                                             *)

\* A drip never waits behind more than one shield step, even when the step in
\* front has outlived its deadline and stepInFlight is already clear.
OneStepInside ==
    \A i, j \in DOMAIN line : line[i] = "step" /\ line[j] = "step" => i = j

\* While a step is in flight the panel says harvest exactly when the step was
\* started to harvest, whatever ticks pass over it.
FlagTellsTheHarvest == stepInFlight => (harvesting <=> why = "harvest")

\* Once the balance has been seen below the low mark, a decided loop refills
\* until it has seen the target, through any number of restarts inside the band.
NoStrandedRefill == climbing /\ refilling # "undecided" => refilling = "yes"

\* The harvest clock counts from the last harvest that asked the wallet: a
\* refill does not move it, and a refused harvest leaves it where it was.
ClockCountsAsks == ~stepInFlight => harvestAge = askedAge

\* What the panel and the log go by is true of the step.
BooksTellTheStep == FlagTellsTheHarvest /\ ClockCountsAsks

\* A harvest inside the interval is started only when the last step that asked
\* the wallet moved something and left a backlog: nothing fruitless is repeated
\* every tick.
FruitlessHarvestWaits ==
    [][ ~stepInFlight /\ stepInFlight' /\ harvesting' /\ askedAge < Interval
        => fruitful ]_reserveVars

\* With the drips gone, a loop that wants to refill tries again, whatever fails,
\* is refused or expires in between: no backoff is for ever.
RefillIsTried ==
    <>[](\A i \in DOMAIN line : line[i] # "drip")
        => (refilling = "yes" ~> stepInFlight \/ refilling # "yes")
=============================================================================
