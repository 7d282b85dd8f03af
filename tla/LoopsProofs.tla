----------------------------- MODULE LoopsProofs ----------------------------
(***************************************************************************)
(* Proofs about what runs for ever: the reserve reconciler, for every      *)
(* interval and backoff, and the threads of the miner's solve, for any     *)
(* number of them.                                                         *)
(***************************************************************************)
EXTENDS MCLoops, WatchdogProofs, DeployProofs, NaturalsInduction, WellFoundedInduction, TLAPS

\* The types the proofs of the properties need.
Typed ==
    /\ refilling \in {"undecided", "yes", "no"}
    /\ harvesting \in BOOLEAN /\ stepInFlight \in BOOLEAN /\ climbing \in BOOLEAN
    /\ line \in Seq({"drip", "step"})
    /\ why \in {"refill", "harvest"}

\* What the clock will be if the step in flight asked the wallet, and what it
\* goes back to if a gate refused.
ClockInFlight ==
    stepInFlight =>
        /\ clockBefore = askedAge
        /\ harvestAge = IF why = "harvest" THEN attemptAge ELSE askedAge

\* A reply yet to be handled belongs to the step in flight.
ReplyIsAwaited == reply # NoReply => stepInFlight

ReserveInv ==
    /\ Typed
    /\ ReplyIsAwaited
    /\ OneStepInside
    /\ FlagTellsTheHarvest
    /\ NoStrandedRefill
    /\ ClockCountsAsks
    /\ ClockInFlight

\* The queue loses its head: the steps left in it stand one place further on.
LEMMA TailKeepsOne ==
    ASSUME Typed, OneStepInside, line # <<>>, line' = Tail(line)
    PROVE  line' \in Seq({"drip", "step"}) /\ OneStepInside'
<1>1. line' \in Seq({"drip", "step"})
  BY DEF Typed
<1>2. \A i \in DOMAIN line' : i + 1 \in DOMAIN line /\ line'[i] = line[i + 1]
  BY DEF Typed
<1>3. OneStepInside'
  <2> SUFFICES ASSUME NEW i \in DOMAIN line', NEW j \in DOMAIN line',
                      line'[i] = "step", line'[j] = "step"
               PROVE  i = j
    BY DEF OneStepInside
  <2>1. i + 1 = j + 1
    BY <1>2 DEF OneStepInside
  <2>2. i \in Nat /\ j \in Nat
    BY <1>1
  <2> QED BY <2>1, <2>2
<1> QED BY <1>1, <1>3

\* A drip joins the queue: it is no step.
LEMMA DripKeepsOne ==
    ASSUME Typed, OneStepInside, line' = Append(line, "drip")
    PROVE  line' \in Seq({"drip", "step"}) /\ OneStepInside'
<1>1. line' \in Seq({"drip", "step"})
  BY DEF Typed
<1>2. \A i \in DOMAIN line' : line'[i] = "step" => i \in DOMAIN line /\ line[i] = "step"
  BY DEF Typed
<1> QED BY <1>1, <1>2 DEF OneStepInside

\* A step joins the queue: only an empty one.
LEMMA StepJoinsEmpty ==
    ASSUME line = <<>>, line' = Append(line, "step")
    PROVE  line' \in Seq({"drip", "step"}) /\ OneStepInside'
<1>1. line' = <<"step">>
  OBVIOUS
<1> QED BY <1>1 DEF OneStepInside

\* A process starts with nothing in flight and no decision.
LEMMA InvariantInit == ReserveInit => ReserveInv
<1> SUFFICES ASSUME ReserveInit PROVE ReserveInv
  OBVIOUS
<1>1. Typed
  <2>1. line = <<>> /\ <<>> \in Seq({"drip", "step"})
    BY DEF ReserveInit
  <2>2. refilling \in {"undecided", "yes", "no"} /\ why \in {"refill", "harvest"}
    BY DEF ReserveInit
  <2>3. harvesting \in BOOLEAN /\ stepInFlight \in BOOLEAN /\ climbing \in BOOLEAN
    BY DEF ReserveInit
  <2> QED BY <2>1, <2>2, <2>3 DEF Typed
<1>2. OneStepInside
  BY DEF ReserveInit, OneStepInside
<1>3. FlagTellsTheHarvest /\ NoStrandedRefill
  BY DEF ReserveInit, FlagTellsTheHarvest, NoStrandedRefill
<1>4. ClockCountsAsks /\ ClockInFlight /\ ReplyIsAwaited
  BY DEF ReserveInit, ClockCountsAsks, ClockInFlight, ReplyIsAwaited
<1> QED BY <1>1, <1>2, <1>3, <1>4 DEF ReserveInv

\* What every tick does to the refill, for each of the four readings.
LEMMA ReadKeeps ==
    ASSUME Typed, NoStrandedRefill, NEW reading \in Readings, Read(reading)
    PROVE  /\ refilling' \in {"undecided", "yes", "no"}
           /\ climbing' \in BOOLEAN
           /\ NoStrandedRefill'
BY DEF Typed, NoStrandedRefill, Readings, Read, NextRefilling, InitialRefilling,
       DecideRefilling

\* Every step keeps the invariant; the tick and the callbacks are the ones that
\* change the flag, the clock and the place of the step.
LEMMA ReserveStep == ReserveInv /\ [ReserveNext]_reserveVars => ReserveInv'
<1> SUFFICES ASSUME ReserveInv, [ReserveNext]_reserveVars PROVE ReserveInv'
  OBVIOUS
<1> USE DEF ReserveInv
<1>1. CASE Timer
  <2>1. Typed' /\ OneStepInside' /\ FlagTellsTheHarvest' /\ NoStrandedRefill'
    BY <1>1 DEF Timer, Typed, OneStepInside, FlagTellsTheHarvest, NoStrandedRefill
  <2>2. ClockCountsAsks' /\ ClockInFlight' /\ ReplyIsAwaited'
    BY <1>1 DEF Timer, ClockCountsAsks, ClockInFlight, ReplyIsAwaited
  <2> QED BY <2>1, <2>2
<1>2. ASSUME NEW reading \in Readings, TickYields(reading) PROVE ReserveInv'
  <2>1. Read(reading) /\ NothingStarted /\ harvesting' = (harvesting /\ stepInFlight)
    BY <1>2 DEF TickYields
  <2>2. Typed' /\ NoStrandedRefill'
    BY <2>1, ReadKeeps DEF Typed, NothingStarted
  <2>3. OneStepInside' /\ FlagTellsTheHarvest'
    BY <2>1 DEF NothingStarted, OneStepInside, FlagTellsTheHarvest, Typed
  <2>4. ClockCountsAsks' /\ ClockInFlight' /\ ReplyIsAwaited'
    BY <2>1 DEF Read, NothingStarted, ClockCountsAsks, ClockInFlight,
                ReplyIsAwaited
  <2> QED BY <2>2, <2>3, <2>4
<1>3. ASSUME NEW reading \in Readings, TickHoldsBack(reading) PROVE ReserveInv'
  <2>1. Read(reading) /\ NothingStarted /\ harvesting' = FALSE /\ ~stepInFlight
    BY <1>3 DEF TickHoldsBack, ShouldStartStep
  <2>2. Typed' /\ NoStrandedRefill'
    BY <2>1, ReadKeeps DEF Typed, NothingStarted
  <2>3. OneStepInside' /\ FlagTellsTheHarvest'
    BY <2>1 DEF NothingStarted, OneStepInside, FlagTellsTheHarvest
  <2>4. ClockCountsAsks' /\ ClockInFlight' /\ ReplyIsAwaited'
    BY <2>1 DEF Read, NothingStarted, ClockCountsAsks, ClockInFlight,
                ReplyIsAwaited
  <2> QED BY <2>2, <2>3, <2>4
<1>4. ASSUME NEW reading \in Readings, TickAttempts(reading) PROVE ReserveInv'
  <2>1. Begin(reading) /\ Read(reading) /\ line = <<>> /\ ~stepInFlight
    BY <1>4 DEF TickAttempts, Begin, ShouldStartStep
  <2>2. line' \in Seq({"drip", "step"}) /\ OneStepInside'
    BY <2>1, StepJoinsEmpty DEF Begin
  <2>3. harvesting' \in BOOLEAN /\ stepInFlight' /\ FlagTellsTheHarvest'
        /\ why' \in {"refill", "harvest"}
    <3>1. HarvestOnly(reading) \in BOOLEAN
      BY DEF HarvestOnly, ShouldHarvest
    <3> QED BY <2>1, <3>1 DEF Begin, FlagTellsTheHarvest
  <2>4. stepInFlight' = TRUE
    BY <2>1 DEF Begin
  <2>5. Typed' /\ NoStrandedRefill'
    BY <2>1, <2>2, <2>3, <2>4, ReadKeeps DEF Typed
  <2>6. ClockCountsAsks' /\ ClockInFlight' /\ ReplyIsAwaited'
    BY <2>1 DEF Begin, Read, ClockCountsAsks, ClockInFlight,
                ReplyIsAwaited
  <2> QED BY <2>2, <2>3, <2>5, <2>6
<1>5. CASE DripArrives
  <2>1. line' \in Seq({"drip", "step"}) /\ OneStepInside'
    BY <1>5, DripKeepsOne DEF DripArrives
  <2> QED BY <1>5, <2>1 DEF DripArrives, flags, clocks, Typed, FlagTellsTheHarvest,
             NoStrandedRefill, ClockCountsAsks, ClockInFlight, ReplyIsAwaited
<1>6. CASE DripEnds \/ StepEnds
  <2>1. line' \in Seq({"drip", "step"}) /\ OneStepInside'
    BY <1>6, TailKeepsOne DEF DripEnds, StepEnds
  <2> QED BY <1>6, <2>1 DEF DripEnds, StepEnds, flags, clocks, Typed,
             FlagTellsTheHarvest, NoStrandedRefill, ClockCountsAsks, ClockInFlight,
             ReplyIsAwaited, Awaited
<1>7. CASE StepExpires
  BY <1>7 DEF StepExpires, flags, clocks, Typed, OneStepInside, FlagTellsTheHarvest,
              NoStrandedRefill, ClockCountsAsks, ClockInFlight, ReplyIsAwaited, Awaited
<1>8. CASE Handle
  <2>1. Settled /\ reply # NoReply
    BY <1>8 DEF Handle, HandleRefused, HandleLooked, HandleThrew, Refused, Threw, Looked,
                NoReply
  <2>2. Typed' /\ OneStepInside' /\ FlagTellsTheHarvest' /\ NoStrandedRefill'
    BY <2>1 DEF Settled, Typed, OneStepInside, FlagTellsTheHarvest, NoStrandedRefill
  <2>3. stepInFlight' = FALSE /\ reply' = NoReply
    BY <2>1 DEF Settled
  <2>4. stepInFlight
    BY <2>1 DEF ReplyIsAwaited
  <2>5. harvestAge' = askedAge'
    <3>1. CASE HandleRefused
      BY <2>4, <3>1 DEF HandleRefused, ClockInFlight
    <3>2. CASE HandleLooked
      BY <2>4, <3>2 DEF HandleLooked, Asked, ClockInFlight
    <3>3. CASE HandleThrew
      BY <2>4, <3>3 DEF HandleThrew, Asked, ClockInFlight
    <3> QED BY <1>8, <3>1, <3>2, <3>3 DEF Handle
  <2>6. ClockCountsAsks' /\ ClockInFlight' /\ ReplyIsAwaited'
    BY <2>3, <2>5 DEF ClockCountsAsks, ClockInFlight, ReplyIsAwaited
  <2> QED BY <2>2, <2>6
<1>9. CASE Restart
  <2>1. line' = <<>> /\ <<>> \in Seq({"drip", "step"})
    BY <1>9 DEF Restart
  <2>2. refilling' = "undecided" /\ why' = "refill" /\ climbing' = climbing
    BY <1>9 DEF Restart
  <2>3. harvesting' = FALSE /\ stepInFlight' = FALSE
    BY <1>9 DEF Restart
  <2>4. Typed'
    BY <2>1, <2>2, <2>3 DEF Typed
  <2>5. OneStepInside' /\ FlagTellsTheHarvest' /\ NoStrandedRefill'
    BY <2>1, <2>2, <2>3 DEF OneStepInside, FlagTellsTheHarvest, NoStrandedRefill
  <2>6. ClockCountsAsks' /\ ClockInFlight' /\ ReplyIsAwaited'
    BY <1>9 DEF Restart, ClockCountsAsks, ClockInFlight, ReplyIsAwaited
  <2> QED BY <2>4, <2>5, <2>6
<1>10. CASE UNCHANGED reserveVars
  BY <1>10 DEF reserveVars, flags, clocks, Typed, OneStepInside, FlagTellsTheHarvest,
               NoStrandedRefill, ClockCountsAsks, ClockInFlight, ReplyIsAwaited
<1> QED BY <1>1, <1>2, <1>3, <1>4, <1>5, <1>6, <1>7, <1>8, <1>9, <1>10 DEF ReserveNext, Tick

\* The inductive invariant holds in every run, fair or not.
THEOREM ReserveInvariant == ReserveSpec => []ReserveInv
BY InvariantInit, ReserveStep, PTL DEF ReserveSpec

\* A drip never waits behind more than one shield step.
THEOREM OneStep == ReserveSpec => []OneStepInside
<1>1. ReserveInv => OneStepInside
  BY DEF ReserveInv
<1> QED BY <1>1, ReserveInvariant, PTL

\* The fast path of the harvest is open only after a step that moved something
\* and left a backlog.
Backlog == lastSweepMoved /\ remaining = "many" => fruitful

\* Every step keeps the fast path honest: the throw closes it.
LEMMA BacklogStep == Backlog /\ [ReserveNext]_reserveVars => Backlog'
<1> SUFFICES ASSUME Backlog, [ReserveNext]_reserveVars PROVE Backlog'
  OBVIOUS
<1>1. CASE Tick
  <2>1. PICK reading \in Readings : Read(reading)
    BY <1>1, Zenon DEF Tick, TickYields, TickHoldsBack, TickAttempts, Begin
  <2> QED BY <2>1 DEF Read, Backlog
<1>2. CASE HandleLooked
  <2>1. reply \in Looked
    BY <1>2 DEF HandleLooked
  <2>2. reply = [kind |-> reply.kind, left |-> reply.left]
    BY <2>1 DEF Looked
  <2> QED BY <1>2, <2>2 DEF HandleLooked, Asked, Backlog
<1>3. CASE HandleRefused \/ HandleThrew
  BY <1>3 DEF HandleRefused, HandleThrew, Backlog
<1>4. CASE Restart
  BY <1>4 DEF Restart, Backlog
<1>5. CASE Timer \/ UNCHANGED reserveVars
  BY <1>5 DEF Timer, reserveVars, flags, Backlog
<1>6. CASE DripArrives \/ DripEnds \/ StepEnds \/ StepExpires
  BY <1>6 DEF DripArrives, DripEnds, StepEnds, StepExpires, flags, Backlog
<1> QED BY <1>1, <1>2, <1>3, <1>4, <1>5, <1>6 DEF ReserveNext, Handle

\* The panel says harvest exactly when a harvest is in flight.
THEOREM FlagTrue == ReserveSpec => []FlagTellsTheHarvest
<1>1. ReserveInv => FlagTellsTheHarvest
  BY DEF ReserveInv
<1> QED BY <1>1, ReserveInvariant, PTL

\* No restart inside the band strands a refill.
THEOREM NeverStranded == ReserveSpec => []NoStrandedRefill
<1>1. ReserveInv => NoStrandedRefill
  BY DEF ReserveInv
<1> QED BY <1>1, ReserveInvariant, PTL

\* The harvest clock counts the harvests that asked the wallet.
THEOREM HarvestClock == ReserveSpec => []ClockCountsAsks
<1>1. ReserveInv => ClockCountsAsks
  BY DEF ReserveInv
<1> QED BY <1>1, ReserveInvariant, PTL

\* The books of the loop tell the step.
THEOREM Books == ReserveSpec => []BooksTellTheStep
<1>1. ReserveInv => BooksTellTheStep
  BY DEF ReserveInv, BooksTellTheStep
<1> QED BY <1>1, ReserveInvariant, PTL

\* Only a tick that attempts puts a step in flight.
LEMMA OnlyAttemptsStart ==
    ASSUME [ReserveNext]_reserveVars, ~stepInFlight, stepInFlight'
    PROVE  \E reading \in Readings : TickAttempts(reading)
BY DEF ReserveNext, Tick, TickYields, TickHoldsBack, NothingStarted, Timer, DripArrives, DripEnds,
       StepEnds, StepExpires, Handle, HandleRefused, HandleLooked, HandleThrew, Settled,
       Restart, reserveVars, flags

\* Nothing fruitless is repeated inside the interval: the termination argument
\* of shouldHarvest().
THEOREM FruitlessWaits == ReserveSpec => FruitlessHarvestWaits
<1>1. ReserveInit => Backlog
  BY DEF ReserveInit, Backlog
<1>2. ReserveInv /\ Backlog /\ [ReserveNext]_reserveVars
        => (~stepInFlight /\ stepInFlight' /\ harvesting' /\ askedAge < Interval => fruitful)
  <2> SUFFICES ASSUME ReserveInv, Backlog, [ReserveNext]_reserveVars, ~stepInFlight, stepInFlight',
                      harvesting', askedAge < Interval
               PROVE  fruitful
    OBVIOUS
  <2>1. PICK reading \in Readings : TickAttempts(reading)
    BY OnlyAttemptsStart
  <2>2. ShouldHarvest(reading)
    BY <2>1 DEF TickAttempts, Begin, HarvestOnly
  <2>3. harvestAge < Interval
    BY DEF ReserveInv, ClockCountsAsks
  <2>4. harvestAge # Interval
    BY <2>3, ReserveAssumption
  <2> QED BY <2>2, <2>4 DEF ShouldHarvest, Backlog
<1> QED BY <1>1, <1>2, BacklogStep, ReserveInvariant, PTL DEF ReserveSpec, FruitlessHarvestWaits
-----------------------------------------------------------------------------
(* The types, the backoff with them.                                       *)

\* A set of numbers that is not empty has a least one.
LEMMA LeastNumber ==
  ASSUME NEW S \in SUBSET Nat, S # {}
  PROVE  \E m \in S : \A n \in S : m <= n
<1> DEFINE R == OpToRel(<, Nat)
<1>1. IsWellFoundedOn(R, Nat)
  BY NatLessThanWellFounded
<1>2. \A x, y \in Nat : x < y => <<x, y>> \in R
  BY DEF OpToRel
<1> HIDE DEF R
<1>3. PICK m \in S : \A n \in S : <<n, m>> \notin R
  BY <1>1, WFMin, Zenon
<1>4. \A n \in S : ~(n < m)
  BY <1>2, <1>3
<1>5. \A n \in S : m <= n
  BY <1>4
<1> QED
  BY <1>5

\* A function that doubles from 1 up to k.
DoublesTo(g, k) ==
    /\ g \in [0 .. k -> Nat \ {0}]
    /\ \A n \in 0 .. k : g[n] = IF n = 0 THEN 1 ELSE 2 * g[n - 1]

\* One that doubles up to k can be taken one further.
LEMMA DoublesOn ==
  ASSUME NEW k \in Nat, NEW g, DoublesTo(g, k)
  PROVE  \E h : DoublesTo(h, k + 1)
<1> DEFINE h == [n \in 0 .. k + 1 |-> IF n = k + 1 THEN 2 * g[k] ELSE g[n]]
<1>1. \A n \in 0 .. k : g[n] \in Nat \ {0} /\ h[n] = g[n]
  BY DEF DoublesTo
<1>2. h[k + 1] = 2 * g[k] /\ h[k + 1] \in Nat \ {0}
  <2>1. k \in 0 .. k /\ k + 1 \in 0 .. k + 1 /\ k \in 0 .. k + 1
    OBVIOUS
  <2>2. g[k] \in Nat \ {0}
    BY <2>1 DEF DoublesTo
  <2>3. \A m \in Nat \ {0} : 2 * m \in Nat \ {0}
    OBVIOUS
  <2>4. h[k + 1] = 2 * g[k]
    BY <2>1
  <2> HIDE DEF h
  <2> QED
    BY <2>2, <2>3, <2>4
<1>3. \A n \in 0 .. k + 1 : n = k + 1 \/ n \in 0 .. k
  OBVIOUS
<1>4. h \in [0 .. k + 1 -> Nat \ {0}]
  BY <1>1, <1>2, <1>3
<1>5. ASSUME NEW n \in 0 .. k + 1 PROVE h[n] = IF n = 0 THEN 1 ELSE 2 * h[n - 1]
  <2>1. CASE n = k + 1
    BY <1>1, <1>2, <2>1
  <2>2. CASE n \in 0 .. k
    <3>1. g[n] = IF n = 0 THEN 1 ELSE 2 * g[n - 1]
      BY <2>2 DEF DoublesTo
    <3>2. n # 0 => n - 1 \in 0 .. k
      BY <2>2
    <3> QED
      BY <1>1, <2>2, <3>1, <3>2
  <2> QED
    BY <1>3, <2>1, <2>2
<1> HIDE DEF h
<1> QED
  BY <1>4, <1>5 DEF DoublesTo

\* So there is one for every length: the least that has none would be one more
\* than one that has.
LEMMA DoublesExist == \A k \in Nat : \E g : DoublesTo(g, k)
<1> DEFINE Without == {k \in Nat : ~\E g : DoublesTo(g, k)}
<1> SUFFICES ASSUME Without # {} PROVE FALSE
  OBVIOUS
<1>1. PICK m \in Without : \A n \in Without : m <= n
  BY LeastNumber
<1>2. m # 0
  <2> DEFINE one == [n \in 0 .. 0 |-> 1]
  <2>1. one \in [0 .. 0 -> Nat \ {0}] /\ \A n \in 0 .. 0 : n = 0 /\ one[n] = 1
    OBVIOUS
  <2> HIDE DEF one
  <2>2. DoublesTo(one, 0)
    BY <2>1 DEF DoublesTo
  <2> QED
    BY <1>1, <2>2
<1>3. m - 1 \in Nat /\ m - 1 \notin Without /\ (m - 1) + 1 = m
  BY <1>1, <1>2
<1>4. PICK g : DoublesTo(g, m - 1)
  BY <1>3
<1>5. \E h : DoublesTo(h, (m - 1) + 1)
  BY <1>3, <1>4, DoublesOn
<1> QED
  BY <1>1, <1>3, <1>5

\* The powers of two that the backoff takes are numbers.
LEMMA DoublingsAreNumbers == \A n \in 0 .. MaxFails : Doublings[n] \in Nat
<1> DEFINE Again(f) == [n \in 0 .. MaxFails |-> IF n = 0 THEN 1 ELSE 2 * f[n - 1]]
<1>1. MaxFails \in Nat
  BY ReserveAssumption
<1>2. PICK g : DoublesTo(g, MaxFails)
  BY <1>1, DoublesExist
<1>3. g = Again(g)
  BY <1>2 DEF DoublesTo
<1>4. Doublings = Again(Doublings)
  BY <1>3, Zenon DEF Doublings
<1> DEFINE Other == {n \in 0 .. MaxFails : Doublings[n] \notin Nat}
<1> SUFFICES ASSUME Other # {} PROVE FALSE
  OBVIOUS
<1>5. PICK m \in Other : \A n \in Other : m <= n
  <2>1. Other \in SUBSET Nat
    BY <1>1
  <2> HIDE DEF Other
  <2> QED
    BY <2>1, LeastNumber
<1>6. Doublings[m] = IF m = 0 THEN 1 ELSE 2 * Doublings[m - 1]
  BY <1>4, <1>5
<1>7. m # 0
  BY <1>5, <1>6
<1>8. m - 1 \in 0 .. MaxFails /\ m - 1 \notin Other
  BY <1>1, <1>5, <1>7
<1> QED
  BY <1>5, <1>6, <1>7, <1>8

\* A tick that holds back leaves the counter within the ceiling.
LEMMA BackoffIsBounded ==
  ASSUME ReserveTypeOK, ~ShouldAttempt
  PROVE  ticksSinceAttempt + 1 \in 0 .. MaxBackoff
<1>1. MaxBackoff \in Nat /\ ticksSinceAttempt \in Nat /\ failedSteps \in 0 .. MaxFails
  BY ReserveAssumption DEF ReserveTypeOK
<1>2. failedSteps # 0 => Doublings[failedSteps - 1] \in Nat
  BY <1>1, ReserveAssumption, DoublingsAreNumbers
<1>3. BackoffTicks \in Nat /\ BackoffTicks <= MaxBackoff
  BY <1>1, <1>2 DEF BackoffTicks
<1> QED
  BY <1>1, <1>3 DEF ShouldAttempt

\* What is done to the queue leaves a queue.
LEMMA LineStaysALine ==
  ASSUME NEW l \in Seq({"drip", "step"}), NEW m,
         m = Append(l, "drip") \/ (l # <<>> /\ m = Tail(l)) \/ m = l
  PROVE  m \in Seq({"drip", "step"})
  OBVIOUS

\* An age that grows stops at the interval.
LEMMA OlderIsAnAge == \A age \in 0 .. Interval : Older(age) \in 0 .. Interval
  BY ReserveAssumption DEF Older

\* Every step keeps the types.
LEMMA ReserveTypesStep == ReserveTypeOK /\ [ReserveNext]_reserveVars => ReserveTypeOK'
<1> SUFFICES ASSUME ReserveTypeOK, [ReserveNext]_reserveVars PROVE ReserveTypeOK'
  OBVIOUS
<1> USE DEF ReserveTypeOK
<1>0. Interval \in Nat /\ MaxFails \in Nat /\ MaxBackoff \in Nat
  BY ReserveAssumption
<1>1. CASE Timer
  BY <1>1, OlderIsAnAge DEF Timer
<1>2. ASSUME NEW reading \in Readings, Read(reading)
      PROVE  /\ refilling' \in {"undecided", "yes", "no"} /\ ticking' \in BOOLEAN
             /\ climbing' \in BOOLEAN
             /\ UNCHANGED <<remaining, lastSweepMoved, failedSteps, askedAge, reply, fruitful>>
  <2>1. NextRefilling(reading) \in {"undecided", "yes", "no"}
    BY <1>2 DEF Readings, NextRefilling, InitialRefilling, DecideRefilling
  <2>2. (reading = "below" \/ (climbing /\ reading # "full")) \in BOOLEAN
    OBVIOUS
  <2> QED
    BY <1>2, <2>1, <2>2 DEF Read
<1>3. ASSUME NEW reading \in Readings, TickYields(reading) PROVE ReserveTypeOK'
  BY <1>2, <1>3 DEF TickYields, NothingStarted
<1>4. ASSUME NEW reading \in Readings, TickHoldsBack(reading) PROVE ReserveTypeOK'
  BY <1>2, <1>4, BackoffIsBounded DEF TickHoldsBack, NothingStarted
<1>5. ASSUME NEW reading \in Readings, TickAttempts(reading) PROVE ReserveTypeOK'
  <2>1. HarvestOnly(reading) \in BOOLEAN
    BY DEF HarvestOnly, ShouldHarvest
  <2>2. line' \in Seq({"drip", "step"})
    <3>1. line' = Append(line, "step") /\ line = <<>>
      BY <1>5 DEF TickAttempts, Begin, ShouldStartStep
    <3> QED
      BY <3>1, StepJoinsEmpty
  <2> QED
    BY <1>0, <1>2, <1>5, <2>1, <2>2 DEF TickAttempts, Begin
<1>6. CASE DripArrives \/ DripEnds \/ StepEnds \/ StepExpires
  <2>1. line' \in Seq({"drip", "step"})
    <3>1. \/ line' = Append(line, "drip")
          \/ line # <<>> /\ line' = Tail(line)
          \/ line' = line
      BY <1>6 DEF DripArrives, DripEnds, StepEnds, StepExpires
    <3>2. line \in Seq({"drip", "step"})
      OBVIOUS
    <3> QED
      BY <3>1, <3>2, LineStaysALine
  <2>2. reply' \in Outcomes \union {NoReply}
    BY <1>6 DEF DripArrives, DripEnds, StepEnds, StepExpires, Outcomes
  <2> QED
    BY <1>6, <2>1, <2>2 DEF DripArrives, DripEnds, StepEnds, StepExpires, flags, clocks
<1>7. CASE Handle
  <2>1. NoReply \in Outcomes \union {NoReply} /\ (reply \in Looked => reply.left \in Counts)
    BY DEF Looked
  <2>2. failedSteps' \in 0 .. MaxFails
    BY <1>0, <1>7 DEF Handle, HandleRefused, HandleLooked, HandleThrew
  <2>3. (reply.kind = "moved") \in BOOLEAN /\ (reply = [kind |-> "moved", left |-> "many"]) \in BOOLEAN
    OBVIOUS
  <2>4. (IF why = "harvest" THEN attemptAge ELSE askedAge) \in 0 .. Interval
    OBVIOUS
  <2>5. CASE HandleRefused
    BY <2>1, <2>2, <2>5 DEF HandleRefused, Settled
  <2>6. CASE HandleLooked
    BY <2>1, <2>2, <2>3, <2>4, <2>6 DEF HandleLooked, Settled, Asked
  <2>7. CASE HandleThrew
    BY <2>1, <2>2, <2>3, <2>4, <2>7 DEF HandleThrew, Settled, Asked
  <2> QED
    BY <1>7, <2>5, <2>6, <2>7 DEF Handle
<1>8. CASE Restart
  <2>1. line' = <<>> /\ <<>> \in Seq({"drip", "step"})
    BY <1>8 DEF Restart
  <2>2. line' \in Seq({"drip", "step"})
    BY <2>1
  <2>3. Interval \in 0 .. Interval /\ 0 \in 0 .. MaxFails /\ 0 \in 0 .. MaxBackoff
    BY <1>0
  <2> QED
    BY <1>8, <2>2, <2>3 DEF Restart, Counts
<1>9. CASE UNCHANGED reserveVars
  BY <1>9 DEF reserveVars, flags, clocks
<1> QED
  BY <1>1, <1>3, <1>4, <1>5, <1>6, <1>7, <1>8, <1>9 DEF ReserveNext, Tick

\* The loop keeps its types, the counter of held-back ticks below its ceiling
\* among them, however long the steps fail.
THEOREM ReserveTypes == ReserveSpec => []ReserveTypeOK
<1>1. ReserveInit => ReserveTypeOK
  <2> SUFFICES ASSUME ReserveInit PROVE ReserveTypeOK
    OBVIOUS
  <2>1. line = <<>> /\ <<>> \in Seq({"drip", "step"})
    BY DEF ReserveInit
  <2>2. line \in Seq({"drip", "step"})
    BY <2>1
  <2>3. Interval \in 0 .. Interval /\ 0 \in 0 .. MaxFails /\ 0 \in 0 .. MaxBackoff
    BY ReserveAssumption
  <2> QED
    BY <2>2, <2>3 DEF ReserveInit, ReserveTypeOK, Counts
<1>2. QED
  BY <1>1, ReserveTypesStep, PTL DEF ReserveSpec

-----------------------------------------------------------------------------
(* One solve: the threads, the watcher and the flag between them.          *)

\* What holds the two apart: the flag of stop() is set before the main thread
\* joins, and no watcher is awake once it has joined.
Stopped ==
    /\ main \in {"waking", "joining"} => stopped
    /\ main = "joining" => watcher # "parked"
    /\ main \in {"between", "judging", "proposing"} => watcher \in {"off", "done"}
    /\ main = "proposing" => ~abandon

WatchInv == WatchTypeOK /\ Stopped

\* A miner starts between two solves.
LEMMA InitWatch == WatchInit => WatchInv
  BY DEF WatchInit, WatchInv, WatchTypeOK, Stopped

\* Every step of a solve keeps the types.
LEMMA StepTypes == WatchInv /\ [WatchNext]_watchVars => WatchTypeOK'
<1> SUFFICES ASSUME WatchInv, [WatchNext]_watchVars PROVE WatchTypeOK'
  OBVIOUS
<1> USE DEF WatchInv, WatchTypeOK, flagVars
<1>1. CASE TipMoves
  BY <1>1 DEF TipMoves
<1>2. CASE WindowEnds
  BY <1>2 DEF WindowEnds
<1>3. CASE BeginsSolve
  BY <1>3 DEF BeginsSolve
<1>4. CASE MainGoesOn
  BY <1>4 DEF MainGoesOn, SolveEnds, Stop, Wake, Join, Judge, Proposed
<1>5. CASE WatcherGoesOn
  BY <1>5 DEF WatcherGoesOn, Looks, Asks, Parks, TimesOut
<1>6. ASSUME NEW s \in Solvers, SolverGoesOn(s) PROVE WatchTypeOK'
  BY <1>6 DEF SolverGoesOn, SolverLooks, SolverGrinds
<1>7. CASE UNCHANGED watchVars
  BY <1>7 DEF watchVars
<1> QED
  BY <1>1, <1>2, <1>3, <1>4, <1>5, <1>6, <1>7 DEF WatchNext

\* Every step keeps a stopped watcher stopped.
LEMMA StepStopped == WatchInv /\ [WatchNext]_watchVars => Stopped'
<1> SUFFICES ASSUME WatchInv, [WatchNext]_watchVars PROVE Stopped'
  OBVIOUS
<1> USE DEF WatchInv, Stopped, flagVars
<1>1. CASE TipMoves
  BY <1>1 DEF TipMoves
<1>2. CASE WindowEnds
  BY <1>2 DEF WindowEnds
<1>3. CASE BeginsSolve
  BY <1>3 DEF BeginsSolve
<1>4. CASE SolveEnds
  BY <1>4 DEF SolveEnds
<1>5. CASE Stop
  BY <1>5 DEF Stop
<1>6. CASE Wake
  BY <1>6 DEF Wake
<1>7. CASE Join
  BY <1>7 DEF Join
<1>8. CASE Judge
  BY <1>8 DEF Judge
<1>9. CASE Proposed
  BY <1>9 DEF Proposed
<1>10. CASE Looks
  BY <1>10 DEF Looks
<1>11. CASE Asks
  BY <1>11 DEF Asks
<1>12. CASE Parks
  BY <1>12 DEF Parks
<1>13. CASE TimesOut
  BY <1>13 DEF TimesOut
<1>14. ASSUME NEW s \in Solvers, SolverGoesOn(s) PROVE Stopped'
  BY <1>14 DEF SolverGoesOn, SolverLooks, SolverGrinds
<1>15. CASE UNCHANGED watchVars
  BY <1>15 DEF watchVars
<1> QED
  BY <1>1, <1>2, <1>3, <1>4, <1>5, <1>6, <1>7, <1>8, <1>9, <1>10, <1>11, <1>12,
     <1>13, <1>14, <1>15 DEF WatchNext, MainGoesOn, WatcherGoesOn

\* The threads of a solve keep their types, for any number of them.
THEOREM WatchTypes == WatchSpec => []WatchTypeOK
<1>1. WatchInv /\ [WatchNext]_watchVars => WatchInv'
  BY StepTypes, StepStopped DEF WatchInv
<1> QED
  BY <1>1, InitWatch, PTL DEF WatchSpec, WatchInv

\* Whatever the watcher was doing when the main thread stopped it: nothing it
\* has seen to be stale is proposed, and the join does not wait out a sleep.
THEOREM CleanJoin == WatchSpec => []JoinIsClean
<1>1. WatchInv /\ [WatchNext]_watchVars => WatchInv'
  BY StepTypes, StepStopped DEF WatchInv
<1>2. WatchInv => JoinIsClean
  BY DEF WatchInv, Stopped, JoinIsClean, SeenStaleIsDropped, NoSleepThroughJoin
<1> QED
  BY <1>1, <1>2, InitWatch, PTL DEF WatchSpec

-----------------------------------------------------------------------------
(* The parts side by side.  A step of one part leaves every other part as it *)
(* is, so each of them sees steps of its own and pauses.                     *)

\* The fairness of the loops apart, each part of a behaviour is a behaviour of
\* that part: what is proved of the queue, the reconciler, the log of the
\* sends, the threads of a solve, the box and its watchdog, for a behaviour
\* that may stop anywhere, holds of them side by side.
THEOREM PartsOfLoops ==
  LoopsSpec => /\ Spec /\ ReserveSpec /\ HealthSpec /\ WatchSpec
               /\ DeployInit /\ [][DeployNext]_deployVars
               /\ WatchdogInit /\ [][WatchdogNext]_watchdogVars
<1>1. LoopsInit => Init /\ ReserveInit /\ HealthInit /\ WatchInit /\ DeployInit /\ WatchdogInit
  BY DEF LoopsInit
<1>2. [LoopsNext]_loopVars => /\ [Next]_vars /\ [ReserveNext]_reserveVars /\ [HealthNext]_healthVars
                              /\ [WatchNext]_watchVars /\ [DeployNext]_deployVars
                              /\ [WatchdogNext]_watchdogVars
  BY DEF LoopsNext, loopVars
<1> QED
  BY <1>1, <1>2, PTL DEF LoopsSpec, Spec, ReserveSpec, HealthSpec, WatchSpec

\* What runs for ever keeps its types, for any number of calls, threads,
\* commits, failures and blocks, whichever part runs.
THEOREM LoopsTypes == LoopsSpec => []LoopsTypeOK
  BY PartsOfLoops, ReserveTypes, HealthTypes, WatchTypes, DeployTypesAlone, WatchdogTypesAlone, PTL
     DEF LoopsTypeOK
=============================================================================
