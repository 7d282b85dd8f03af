--------------------------- MODULE WatchdogProofs ---------------------------
(* Proofs about what judges from a record of the past whether to act: the     *)
(* box's watchdog, for any number of blocks and of failures, and the log of   *)
(* the sends, which shuts the door of a wallet that has stopped paying.       *)
EXTENDS Watchdog, SendHealth, FiniteSetTheorems, TLAPS

-----------------------------------------------------------------------------
(* The watchdog: types and the budget of rewinds.                          *)

Chains == [net : BlockHeights, height : BlockHeights, own : 0 .. MaxBlock, wedged : BOOLEAN]
Disks == [stopped : BOOLEAN, heals : 0 .. MinerHealMax + 1, healPaged : BOOLEAN]
Mems == [healing : BOOLEAN, last : 0 .. MaxBlock, stall : 0 .. StallSweeps \union {Nil},
         attempts : 0 .. NodeHealMax, unconfirmed : 0 .. NodeHealMax, repaid : BOOLEAN,
         gaveUp : BOOLEAN, startPaged : BOOLEAN, forkPaged : BOOLEAN, historyPaged : BOOLEAN]
Rounds == [at : {"asleep", "miner", "node", "ahead", "history"}, tip : HeightRead, heights : HeightRead]

\* What only our node has is not all it has.
OwnIsOnTop == chains.own < chains.height

TypeInv == WatchdogTypeOK /\ OwnIsOnTop

\* The attempts a rewind may have been made in: once the ones without a
\* confirmation are given back, all that are counted; before, the others.
Spent(m) == IF m.repaid THEN m.attempts ELSE m.attempts - m.unconfirmed
Rungs(spent) == IF spent < DropAfter THEN 0 ELSE spent - DropAfter + 1

Budget == mem.unconfirmed <= mem.attempts /\ rewinds <= Rungs(Spent(mem))

-----------------------------------------------------------------------------
(* Types.                                                                  *)

\* A chain with another height and less of its own than that.
LEMMA ChainWith ==
  ASSUME NEW c \in Chains, NEW height \in BlockHeights, NEW own \in 0 .. MaxBlock, own < height
  PROVE  /\ [c EXCEPT !.height = height, !.own = own] \in Chains
         /\ [c EXCEPT !.height = height, !.own = own].own < [c EXCEPT !.height = height, !.own = own].height
  BY DEF Chains

\* A chain with another height, here and on the network.
LEMMA ChainGrown ==
  ASSUME NEW c \in Chains, NEW net \in BlockHeights, NEW height \in BlockHeights
  PROVE  /\ [c EXCEPT !.height = height, !.net = net] \in Chains
         /\ [c EXCEPT !.height = height, !.net = net].height = height
         /\ [c EXCEPT !.height = height, !.net = net].own = c.own
  BY DEF Chains

\* What the network, the miner and the owner do to the chain.
LEMMA ChainMoves ==
  ASSUME TypeInv, Network \/ Mines \/ OwnerReimports
  PROVE  chains' \in Chains /\ chains'.own < chains'.height
<1>1. chains \in Chains /\ chains.own < chains.height /\ MaxBlock \in Nat
  BY WatchdogAssumption DEF TypeInv, WatchdogTypeOK, OwnIsOnTop, Chains
<1>2. CASE NetGrows \/ Syncs \/ Wedges \/ Unwedges
  <2>1. CASE NetGrows
    BY <1>1, <2>1 DEF NetGrows, Chains, BlockHeights
  <2>2. CASE Syncs
    BY <1>1, <2>2 DEF Syncs, Chains, BlockHeights
  <2>3. CASE Wedges \/ Unwedges
    BY <1>1, <2>3 DEF Wedges, Unwedges, Chains
  <2> QED
    BY <1>2, <2>1, <2>2, <2>3
<1>3. CASE Reorgs
  <2>1. chains' = [chains EXCEPT !.height = chains.net, !.own = 0]
    BY <1>3 DEF Reorgs
  <2>2. chains.net \in BlockHeights /\ 0 < chains.net /\ 0 \in 0 .. MaxBlock
    BY <1>1 DEF Chains, BlockHeights
  <2> QED
    BY <1>1, <2>1, <2>2, ChainWith
<1>4. CASE Mines
  <2>1. /\ chains.height + 1 \in BlockHeights /\ chains.own + 1 \in 0 .. MaxBlock
        /\ chains.own + 1 < chains.height + 1
    BY <1>1, <1>4 DEF Mines, Chains, BlockHeights
  <2>2. CASE chains' = [chains EXCEPT !.height = chains.height + 1, !.own = chains.own + 1]
    BY <1>1, <2>1, <2>2, ChainWith DEF Chains
  <2>3. CASE /\ chains.own = 0 /\ chains.height = chains.net
             /\ chains' = [chains EXCEPT !.height = chains.height + 1, !.net = chains.net + 1]
    <3> DEFINE height == chains.height + 1
               net == chains.net + 1
    <3>1. net \in BlockHeights /\ height \in BlockHeights /\ 0 < height /\ 0 \in 0 .. MaxBlock
      BY <1>1, <2>1, <2>3 DEF BlockHeights
    <3>2. chains' = [chains EXCEPT !.height = height, !.net = net] /\ chains.own = 0
      BY <2>3
    <3> HIDE DEF height, net
    <3>3. chains' \in Chains /\ chains'.own = 0 /\ chains'.height = height
      BY <1>1, <3>1, <3>2, ChainGrown
    <3> QED
      BY <3>1, <3>3
  <2> QED
    BY <1>4, <2>2, <2>3 DEF Mines
<1>5. CASE OwnerReimports
  <2> DEFINE onTheNetwork == [chains EXCEPT !.height = chains.net, !.own = 0]
  <2>1. chains.net \in BlockHeights /\ 0 < chains.net /\ 0 \in 0 .. MaxBlock
    BY <1>1 DEF Chains, BlockHeights
  <2>2. onTheNetwork \in Chains /\ onTheNetwork.own < onTheNetwork.height
    BY <1>1, <2>1, ChainWith
  <2>3. chains' = [onTheNetwork EXCEPT !.wedged = FALSE]
    BY <1>1, <1>5 DEF OwnerReimports, Chains
  <2> QED
    BY <2>2, <2>3 DEF Chains
<1> QED
  BY <1>2, <1>3, <1>4, <1>5 DEF Network

\* What a node lowered by a reset is left with.
LEMMA LowerIsAChain ==
  ASSUME TypeInv PROVE Lower \in Chains /\ Lower.own < Lower.height
<1> DEFINE height == Most(1, chains.height - Setback)
           own == Most(0, chains.own - Setback)
<1>1. chains \in Chains /\ chains.own < chains.height /\ chains.height \in BlockHeights /\ chains.own \in 0 .. MaxBlock
  BY DEF TypeInv, WatchdogTypeOK, OwnIsOnTop, Chains
<1>2. height \in BlockHeights /\ own \in 0 .. MaxBlock /\ own < height
  BY <1>1, WatchdogAssumption DEF Most, BlockHeights
<1>3. Lower = [chains EXCEPT !.height = height, !.own = own]
  BY DEF Lower
<1> HIDE DEF height, own
<1> QED
  BY <1>1, <1>2, <1>3, ChainWith

\* The chain of a node that comes back.
LEMMA NodeComesBack ==
  ASSUME TypeInv, ComesBack \/ ComesBackRewound
  PROVE  chains' \in Chains /\ chains'.own < chains'.height
<1>1. chains \in Chains /\ chains.own < chains.height
  BY DEF TypeInv, WatchdogTypeOK, OwnIsOnTop, Chains
<1>2. PICK c \in {chains, Lower}, stuck \in BOOLEAN : chains' = [c EXCEPT !.wedged = stuck]
  <2>1. chains.wedged \in BOOLEAN
    BY <1>1 DEF Chains
  <2> QED
    BY <2>1 DEF ComesBack, ComesBackRewound
<1>3. c \in Chains /\ c.own < c.height
  BY <1>1, LowerIsAChain
<1> QED
  BY <1>2, <1>3 DEF Chains

\* The state files with the flag and the count written.
LEMMA DiskWith ==
  ASSUME NEW d \in Disks, NEW flag \in BOOLEAN, NEW count \in 0 .. MinerHealMax + 1
  PROVE  [d EXCEPT !.stopped = flag, !.heals = count] \in Disks
  BY DEF Disks

\* The state files with the count and the page written.
LEMMA DiskCounted ==
  ASSUME NEW d \in Disks, NEW count \in 0 .. MinerHealMax + 1, NEW paged \in BOOLEAN
  PROVE  [d EXCEPT !.heals = count, !.healPaged = paged] \in Disks
  BY DEF Disks

\* The parts of a step on the unit, the disk and the failures.
Unit == unit \in {"active", "activating", "inactive"} /\ beat \in {"young", "templating", "waiting", "stalled", "old"}
Beside == Unit /\ disk \in Disks /\ mishaps \in 0 .. MaxMishaps

\* The failures stay within their bound.
LEMMA FailuresCount ==
  ASSUME mishaps \in 0 .. MaxMishaps, OneFails \/ NoneFails PROVE mishaps' \in 0 .. MaxMishaps
  BY WatchdogAssumption DEF OneFails, NoneFails

\* The miner is given back.
LEMMA ReleaseTypes ==
  ASSUME Beside, NEW startPaged, mem.startPaged \in BOOLEAN, Releases(startPaged) PROVE Beside'
<1>1. mishaps' \in 0 .. MaxMishaps
  BY FailuresCount DEF Beside, Releases, StartsUnit
<1>2. Unit'
  BY DEF Beside, Releases, StartsUnit, minerState, Unit
<1>3. disk' \in Disks
  BY DEF Beside, Releases, Disks
<1> QED
  BY <1>1, <1>2, <1>3 DEF Beside

\* The miner is stopped for a heal.
LEMMA StopTypes ==
  ASSUME Beside, NEW confirmed, StopsMiner(confirmed) PROVE Beside'
<1>1. mishaps' \in 0 .. MaxMishaps
  BY FailuresCount DEF Beside, StopsMiner, Holds
<1>2. Unit'
  BY DEF Beside, StopsMiner, Holds, minerState, Unit
<1>3. disk' \in Disks
  <2>1. disk \in Disks /\ 0 \in 0 .. MinerHealMax + 1
    BY WatchdogAssumption DEF Beside
  <2>2. disk' = disk \/ disk' = [disk EXCEPT !.stopped = TRUE, !.heals = 0]
    BY DEF StopsMiner, Holds
  <2> QED
    BY <2>1, <2>2, DiskWith
<1> QED
  BY <1>1, <1>2, <1>3 DEF Beside

\* A step that holds the miner and its files as they are.
LEMMA HoldTypes == Beside /\ Holds => Beside'
  BY DEF Beside, Holds, NoneFails, minerState, Unit

\* A page is delivered or not.
LEMMA PagedOrNot ==
  ASSUME NEW before \in BOOLEAN, NEW paged \in Paged(before) PROVE paged \in BOOLEAN
  BY Zenon DEF Paged

\* Step 6, the miner's own heal.
LEMMA MinerHealTypes ==
  ASSUME Beside, LeavesMiner \/ FindsMinerWell \/ RestartsMiner \/ GivesMinerUp PROVE Beside'
<1>1. mishaps' \in 0 .. MaxMishaps
  BY FailuresCount DEF Beside, LeavesMiner, FindsMinerWell, RestartsMiner, GivesMinerUp, StartsUnit
<1>2. Unit'
  BY DEF Beside, LeavesMiner, FindsMinerWell, RestartsMiner, GivesMinerUp, StartsUnit, minerState, Unit
<1>3. disk \in Disks /\ MinerHealMax \in Nat
  BY WatchdogAssumption DEF Beside
<1>4. CASE LeavesMiner \/ FindsMinerWell
  <2>1. disk' = disk \/ disk' = [disk EXCEPT !.heals = 0, !.healPaged = FALSE]
    BY <1>4 DEF LeavesMiner, FindsMinerWell
  <2>2. 0 \in 0 .. MinerHealMax + 1 /\ FALSE \in BOOLEAN
    BY <1>3
  <2> QED
    BY <1>1, <1>2, <1>3, <2>1, <2>2, DiskCounted DEF Beside
<1>5. CASE RestartsMiner
  <2>1. disk.heals < MinerHealMax /\ disk' = [disk EXCEPT !.heals = disk.heals + 1]
    BY <1>5 DEF RestartsMiner
  <2>2. disk' \in Disks
    BY <1>3, <2>1 DEF Disks
  <2> QED
    BY <1>1, <1>2, <2>2 DEF Beside
<1>6. CASE GivesMinerUp
  <2>1. PICK paged \in Paged(disk.healPaged) :
            disk' = [disk EXCEPT !.heals = MinerHealMax + 1, !.healPaged = paged]
    BY <1>6 DEF GivesMinerUp
  <2>2. disk.healPaged \in BOOLEAN
    BY <1>3 DEF Disks
  <2>3. paged \in BOOLEAN
    BY <2>2, PagedOrNot
  <2>4. MinerHealMax + 1 \in 0 .. MinerHealMax + 1
    BY <1>3
  <2> QED
    BY <1>1, <1>2, <1>3, <2>1, <2>3, <2>4, DiskCounted DEF Beside
<1> QED
  BY <1>4, <1>5, <1>6

-----------------------------------------------------------------------------
(* What the process remembers.                                             *)

\* What a process begins with is well typed.
LEMMA StartedIsMem == ASSUME NEW healing \in BOOLEAN PROVE Started(healing) \in Mems
  BY WatchdogAssumption DEF Started, Mems

\* A process begins with no attempt made.
LEMMA StartedCounts ==
  ASSUME NEW healing
  PROVE  Started(healing).attempts = 0 /\ Started(healing).unconfirmed = 0 /\ Started(healing).repaid = FALSE
  BY DEF Started

\* The memory an episode leaves when it is over.
LEMMA OverIsMem ==
  ASSUME chains \in Chains, mem \in Mems, NEW startPaged \in BOOLEAN PROVE Over(startPaged) \in Mems
<1>1. chains.height \in 0 .. MaxBlock /\ 0 \in 0 .. NodeHealMax /\ Nil \in 0 .. StallSweeps \union {Nil}
  BY WatchdogAssumption DEF Chains, BlockHeights
<1> QED
  BY <1>1 DEF Over, Mems

\* The stall counts up to its threshold.
LEMMA StuckIsCounted == mem \in Mems => Stuck \in 0 .. StallSweeps
  BY WatchdogAssumption DEF Mems, Stuck, Least

\* What is given back changes nothing in what a rewind may have been made in;
\* and with a confirmation that is all that is counted from here on.
LEMMA RepaidIsMem ==
  ASSUME mem \in Mems, mem.unconfirmed <= mem.attempts, NEW confirmed \in BOOLEAN
  PROVE  /\ Repaid(confirmed) \in Mems
         /\ Repaid(confirmed).unconfirmed <= Repaid(confirmed).attempts
         /\ Spent(Repaid(confirmed)) = Spent(mem)
         /\ confirmed => Spent(Repaid(confirmed)) = Repaid(confirmed).attempts
<1>1. mem.attempts \in 0 .. NodeHealMax /\ mem.unconfirmed \in 0 .. NodeHealMax /\ NodeHealMax \in Nat
      /\ mem.repaid \in BOOLEAN
  BY WatchdogAssumption DEF Mems
<1>2. CASE confirmed /\ mem.unconfirmed > 0 /\ ~mem.repaid
  <2> DEFINE left == Most(0, mem.attempts - mem.unconfirmed)
  <2>1. left \in 0 .. NodeHealMax /\ 0 \in 0 .. NodeHealMax /\ 0 <= left /\ left = mem.attempts - mem.unconfirmed
    BY <1>1 DEF Most
  <2>2. Repaid(confirmed) = [mem EXCEPT !.attempts = left, !.unconfirmed = 0, !.repaid = TRUE, !.gaveUp = FALSE]
    BY <1>2 DEF Repaid
  <2> HIDE DEF left
  <2>3. /\ Repaid(confirmed) \in Mems /\ Repaid(confirmed).unconfirmed = 0
        /\ Repaid(confirmed).attempts = left /\ Repaid(confirmed).repaid
    BY <2>1, <2>2 DEF Mems
  <2> QED
    BY <1>2, <2>1, <2>3 DEF Spent
<1>3. CASE ~(confirmed /\ mem.unconfirmed > 0 /\ ~mem.repaid)
  <2>1. Repaid(confirmed) = mem
    BY <1>3 DEF Repaid
  <2>2. confirmed => mem.repaid \/ mem.unconfirmed = 0
    BY <1>1, <1>3
  <2> QED
    BY <1>1, <2>1, <2>2 DEF Spent
<1> QED
  BY <1>2, <1>3

\* An attempt more is a rung more; one without a confirmation is none, until
\* it could have been given back.
LEMMA AttemptIsCounted ==
  ASSUME NEW m \in Mems, m.unconfirmed <= m.attempts, NEW confirmed \in BOOLEAN,
         m.attempts + 1 <= NodeHealMax,
         mem' = [m EXCEPT !.last = chains.height, !.stall = Nil, !.attempts = m.attempts + 1,
                          !.unconfirmed = IF confirmed THEN m.unconfirmed ELSE m.unconfirmed + 1],
         chains.height \in 0 .. MaxBlock
  PROVE  /\ mem' \in Mems /\ mem'.unconfirmed <= mem'.attempts
         /\ Spent(mem') \in {Spent(m), Spent(m) + 1}
         /\ confirmed => Spent(mem') = Spent(m) + 1
<1> DEFINE more == IF confirmed THEN m.unconfirmed ELSE m.unconfirmed + 1
<1>1. m.attempts \in 0 .. NodeHealMax /\ m.unconfirmed \in 0 .. NodeHealMax /\ NodeHealMax \in Nat
      /\ m.repaid \in BOOLEAN
  BY WatchdogAssumption DEF Mems
<1>2. more \in 0 .. NodeHealMax /\ more <= m.attempts + 1 /\ m.attempts + 1 \in 0 .. NodeHealMax
      /\ (confirmed => more = m.unconfirmed) /\ (~confirmed => more = m.unconfirmed + 1)
  BY <1>1
<1>3. mem' = [m EXCEPT !.last = chains.height, !.stall = Nil, !.attempts = m.attempts + 1, !.unconfirmed = more]
  OBVIOUS
<1> HIDE DEF more
<1>4. /\ mem' \in Mems /\ mem'.attempts = m.attempts + 1 /\ mem'.unconfirmed = more /\ mem'.repaid = m.repaid
  BY <1>2, <1>3 DEF Mems
<1> QED
  BY <1>1, <1>2, <1>4 DEF Spent

-----------------------------------------------------------------------------
(* Step 7.                                                                 *)

\* The rest of the state.
Steady == chains \in Chains /\ OwnIsOnTop /\ sweep \in Rounds /\ rewinds \in Nat /\ mem \in Mems

\* What a sweep has heard of the heights.
LEMMA HeardTypes ==
  ASSUME sweep \in Rounds, chains \in Chains, NEW height \in {Nil, chains.height}, Heard(height)
  PROVE  sweep' \in Rounds
  BY DEF Heard, Rounds, Chains, HeightRead

\* An attempt of the ladder stays within the budget.
LEMMA HealKeepsBudget ==
  ASSUME Steady, Beside, Budget, TypeInv, NEW confirmed \in BOOLEAN, HealsNode(confirmed)
  PROVE  Steady' /\ Beside' /\ Budget'
<1> DEFINE m == Repaid(confirmed)
<1>1. /\ m \in Mems /\ m.unconfirmed <= m.attempts /\ Spent(m) = Spent(mem)
      /\ confirmed => Spent(m) = m.attempts
  BY RepaidIsMem DEF Steady, Budget
<1>2. m.attempts + 1 <= NodeHealMax /\ chains.height \in 0 .. MaxBlock
  BY WatchdogAssumption DEF HealsNode, Steady, Chains, BlockHeights
<1>3. mem' = [m EXCEPT !.last = chains.height, !.stall = Nil, !.attempts = m.attempts + 1,
                       !.unconfirmed = IF confirmed THEN m.unconfirmed ELSE m.unconfirmed + 1]
  BY DEF HealsNode
<1> HIDE DEF m
<1>4. /\ mem' \in Mems /\ mem'.unconfirmed <= mem'.attempts
      /\ Spent(mem') \in {Spent(m), Spent(m) + 1}
      /\ confirmed => Spent(mem') = Spent(m) + 1
  BY <1>1, <1>2, <1>3, AttemptIsCounted
<1>5. \/ rewinds' = rewinds
      \/ rewinds' = rewinds + 1 /\ confirmed /\ m.attempts + 1 >= DropAfter
  <2>1. \/ rewinds' = rewinds
        \/ rewinds' = rewinds + 1 /\ confirmed /\ m.attempts + 1 >= Most(ClearAfter, DropAfter)
    BY DEF HealsNode, m
  <2> QED
    BY <1>1, <2>1, WatchdogAssumption DEF Most, Mems
<1>6. /\ rewinds \in Nat /\ rewinds <= Rungs(Spent(m)) /\ Spent(m) \in Int /\ DropAfter \in Int
  <2>1. Spent(m) \in Int
    BY <1>1 DEF Spent, Mems
  <2> QED
    BY <1>1, <2>1, WatchdogAssumption DEF Steady, Budget
<1>7. rewinds' \in Nat /\ rewinds' <= Rungs(Spent(mem'))
  BY <1>1, <1>4, <1>5, <1>6 DEF Rungs
<1>8. chains' \in Chains /\ OwnIsOnTop'
  BY NodeComesBack DEF HealsNode, OwnIsOnTop
<1>9. sweep' \in Rounds
  BY HeardTypes DEF HealsNode, Behind, Steady
<1>10. Beside'
  BY StopTypes DEF HealsNode
<1> QED
  BY <1>4, <1>7, <1>8, <1>9, <1>10 DEF Steady, Budget

\* Giving up spends nothing.
LEMMA GiveUpKeepsBudget ==
  ASSUME Steady, Beside, Budget, NEW confirmed \in BOOLEAN, GivesNodeUp(confirmed)
  PROVE  Steady' /\ Beside' /\ Budget'
<1> DEFINE m == Repaid(confirmed)
<1>1. m \in Mems /\ m.unconfirmed <= m.attempts /\ Spent(m) = Spent(mem)
  BY RepaidIsMem DEF Steady, Budget
<1>2. PICK paged \in Paged(m.gaveUp) : mem' = [m EXCEPT !.last = chains.height, !.stall = Stuck, !.gaveUp = paged]
  BY DEF GivesNodeUp
<1> HIDE DEF m
<1>3. m.gaveUp \in BOOLEAN
  BY <1>1 DEF Mems
<1>4. paged \in BOOLEAN
  BY <1>3, PagedOrNot
<1>5. chains.height \in 0 .. MaxBlock /\ Stuck \in 0 .. StallSweeps
  BY StuckIsCounted, WatchdogAssumption DEF Steady, Chains, BlockHeights
<1>6. /\ mem' \in Mems /\ mem'.attempts = m.attempts /\ mem'.unconfirmed = m.unconfirmed
      /\ mem'.repaid = m.repaid
  BY <1>1, <1>2, <1>4, <1>5 DEF Mems
<1>7. Budget'
  BY <1>1, <1>6 DEF GivesNodeUp, Budget, Spent
<1>8. sweep' \in Rounds
  BY HeardTypes DEF GivesNodeUp, Behind, Steady
<1>9. Beside'
  BY HoldTypes DEF GivesNodeUp
<1> QED
  BY <1>6, <1>7, <1>8, <1>9 DEF Steady, GivesNodeUp, OwnIsOnTop

\* The budget is about the counts alone.
LEMMA SameCounts ==
  ASSUME Budget, mem'.attempts = mem.attempts, mem'.unconfirmed = mem.unconfirmed, mem'.repaid = mem.repaid,
         rewinds' = rewinds
  PROVE  Budget'
  BY DEF Budget, Spent

\* With the episode its budget is over, and its rewinds with it.
LEMMA EpisodeOver ==
  ASSUME Steady, NEW startPaged \in BOOLEAN, mem' = Over(startPaged), rewinds' = 0
  PROVE  mem' \in Mems /\ Budget'
<1>1. mem' \in Mems
  BY OverIsMem DEF Steady
<1>2. mem'.attempts = 0 /\ mem'.unconfirmed = 0
  BY DEF Over, Steady, Mems
<1>3. mem'.repaid = FALSE
  BY DEF Over, Steady, Mems
<1> QED
  BY <1>1, <1>2, <1>3, WatchdogAssumption DEF Budget, Spent, Rungs

\* The other outcomes of step 7 stay within the budget.
LEMMA OtherwiseKeepsBudget ==
  ASSUME Steady, Beside, Budget,
         \/ HealIsOff \/ NodeIsSilent \/ NodeAdvances \/ NodeAtTheTip
         \/ \E confirmed \in BOOLEAN : NodeStalls(confirmed)
  PROVE  Steady' /\ Beside' /\ Budget'
<1>1. mem \in Mems /\ mem.startPaged \in BOOLEAN /\ chains.height \in 0 .. MaxBlock
  BY WatchdogAssumption DEF Steady, Mems, Chains, BlockHeights
<1>2. chains' \in Chains /\ OwnIsOnTop'
  BY DEF Steady, OwnIsOnTop, HealIsOff, NodeIsSilent, NodeAdvances, NodeAtTheTip, NodeStalls
<1>3. sweep' \in Rounds
  BY HeardTypes DEF Steady, HealIsOff, NodeIsSilent, NodeAdvances, NodeAtTheTip, NodeStalls, Behind
<1>4. CASE HealIsOff
  <2>1. PICK startPaged \in BOOLEAN : Releases(startPaged) /\ mem' = [mem EXCEPT !.startPaged = startPaged]
    BY <1>4 DEF HealIsOff
  <2>2. mem' \in Mems /\ Budget'
    BY <1>1, <1>4, <2>1, SameCounts DEF HealIsOff, Mems
  <2> QED
    BY <1>1, <1>2, <1>3, <1>4, <2>1, <2>2, ReleaseTypes DEF Steady, HealIsOff
<1>5. CASE NodeIsSilent
  BY <1>2, <1>3, <1>5, HoldTypes, SameCounts DEF Steady, NodeIsSilent
<1>6. CASE NodeAdvances
  <2>1. PICK startPaged \in BOOLEAN :
            /\ IF mem.last = 0 THEN Holds /\ startPaged = mem.startPaged ELSE Releases(startPaged)
            /\ mem' = Over(startPaged)
    BY <1>6 DEF NodeAdvances
  <2>2. mem' \in Mems /\ Budget' /\ rewinds' \in Nat
    BY <1>6, <2>1, EpisodeOver DEF NodeAdvances
  <2> QED
    BY <1>1, <1>2, <1>3, <2>1, <2>2, ReleaseTypes, HoldTypes DEF Steady
<1>7. CASE NodeAtTheTip
  <2>1. PICK startPaged \in BOOLEAN :
            IF disk.stopped
            THEN Releases(startPaged) /\ mem' = Over(startPaged) /\ rewinds' = 0
            ELSE Holds /\ mem' = [mem EXCEPT !.last = chains.height, !.stall = Nil] /\ UNCHANGED rewinds
    BY <1>7 DEF NodeAtTheTip
  <2>2. CASE disk.stopped
    BY <1>1, <1>2, <1>3, <2>1, <2>2, EpisodeOver, ReleaseTypes DEF Steady
  <2>3. CASE ~disk.stopped
    <3>1. mem' \in Mems /\ Budget'
      BY <1>1, <2>1, <2>3, SameCounts DEF Mems
    <3> QED
      BY <1>2, <1>3, <2>1, <2>3, <3>1, HoldTypes DEF Steady
  <2> QED
    BY <2>2, <2>3
<1>8. CASE \E confirmed \in BOOLEAN : NodeStalls(confirmed)
  <2>1. mem' = [mem EXCEPT !.last = chains.height, !.stall = Stuck] /\ Holds /\ rewinds' = rewinds
    BY <1>8 DEF NodeStalls
  <2>2. mem' \in Mems /\ Budget'
    BY <1>1, <2>1, StuckIsCounted, SameCounts DEF Mems
  <2> QED
    BY <1>2, <1>3, <2>1, <2>2, HoldTypes DEF Steady
<1> QED
  BY <1>4, <1>5, <1>6, <1>7, <1>8

-----------------------------------------------------------------------------
(* The invariant.                                                          *)

WatchdogInv == TypeInv /\ Budget

\* The types, in the parts that the steps need.
LEMMA InParts ==
  TypeInv <=> Steady /\ Beside /\ marker \in BOOLEAN
  BY DEF TypeInv, WatchdogTypeOK, Steady, Beside, Unit, Chains, Disks, Mems, Rounds

\* The next state's invariant from its parts.
LEMMA InPartsNext ==
  Steady' /\ Beside' /\ marker' \in BOOLEAN /\ Budget' => WatchdogInv'
  BY DEF WatchdogInv, TypeInv, WatchdogTypeOK, Steady, Beside, Unit, Chains, Disks, Mems, Rounds

\* The box comes up with nothing stopped and nothing spent.
LEMMA StartsRight == WatchdogInit => WatchdogInv
<1> SUFFICES ASSUME WatchdogInit PROVE WatchdogInv
  OBVIOUS
<1>1. chains \in Chains /\ OwnIsOnTop
  BY WatchdogAssumption DEF WatchdogInit, Chains, BlockHeights, OwnIsOnTop
<1>2. mem \in Mems /\ mem.attempts = 0 /\ mem.unconfirmed = 0 /\ mem.repaid = FALSE
  <2>1. mem = Started(TRUE) /\ TRUE \in BOOLEAN
    BY DEF WatchdogInit
  <2>2. mem \in Mems
    BY <2>1, StartedIsMem
  <2> QED
    BY <2>1, <2>2, StartedCounts
<1>3. sweep \in Rounds
  BY DEF WatchdogInit, Asleep, Rounds, HeightRead
<1>4. disk \in Disks
  BY WatchdogAssumption DEF WatchdogInit, Unstopped, Disks
<1>5. Unit /\ mishaps \in 0 .. MaxMishaps /\ marker \in BOOLEAN /\ rewinds = 0
  <2>1. Unit
    BY DEF WatchdogInit, Unit
  <2>2. marker \in BOOLEAN
    BY Zenon DEF WatchdogInit
  <2>3. mishaps = 0 /\ rewinds = 0
    BY DEF WatchdogInit
  <2> QED
    BY <2>1, <2>2, <2>3, WatchdogAssumption
<1>6. Budget
  BY <1>2, <1>5, WatchdogAssumption DEF Budget, Spent, Rungs
<1> QED
  BY <1>1, <1>2, <1>3, <1>4, <1>5, <1>6, InParts DEF WatchdogInv, Steady, Beside

\* Every step keeps types and budget.
LEMMA StepKeeps == WatchdogInv /\ [WatchdogNext]_watchdogVars => WatchdogInv'
<1> SUFFICES ASSUME WatchdogInv, [WatchdogNext]_watchdogVars PROVE WatchdogInv'
  OBVIOUS
<1>1. TypeInv /\ Steady /\ Beside /\ marker \in BOOLEAN /\ Budget
  BY InParts DEF WatchdogInv
<1> USE <1>1
<1>2. CASE Network \/ Mines \/ OwnerReimports
  <2>1. chains' \in Chains /\ OwnIsOnTop'
    BY <1>2, ChainMoves DEF OwnIsOnTop
  <2>2. UNCHANGED <<marker, disk, mem, sweep, rewinds, unit, beat>> /\ mishaps' \in 0 .. MaxMishaps
    BY <1>2, FailuresCount DEF Beside, Network, NetGrows, Syncs, Reorgs, Wedges, Unwedges, Mines, OwnerReimports,
       Outside, minerState
  <2>3. Budget'
    BY <2>2, SameCounts
  <2> QED
    BY <2>1, <2>2, <2>3, InPartsNext DEF Steady, Beside, Unit
<1>3. CASE HeartbeatMoves \/ Crashes \/ StartsAgain \/ DeploysMiner \/ OwnerStops \/ OwnerStarts \/ OwnerClears
  <2>1. UNCHANGED <<chains, disk, mem, sweep, rewinds>> /\ mishaps' \in 0 .. MaxMishaps /\ marker' \in BOOLEAN
    BY <1>3, FailuresCount DEF Beside, HeartbeatMoves, Crashes, StartsAgain, DeploysMiner, OwnerStops, OwnerStarts,
       OwnerClears, Outside
  <2>2. Unit'
    BY <1>3 DEF Beside, Unit, HeartbeatMoves, Crashes, StartsAgain, DeploysMiner, OwnerStops, OwnerStarts,
       OwnerClears, minerState
  <2>3. Budget'
    BY <2>1, SameCounts
  <2> QED
    BY <2>1, <2>2, <2>3, InPartsNext DEF Steady, Beside, OwnIsOnTop
<1>4. CASE WatchdogRestarts \/ Reboots
  <2>1. PICK healing \in BOOLEAN : mem' = Started(healing)
    BY <1>4 DEF WatchdogRestarts, Reboots, Restarted
  <2>2. mem' \in Mems
    BY <2>1, StartedIsMem
  <2>3. mem'.attempts = 0 /\ mem'.unconfirmed = 0 /\ mem'.repaid = FALSE
    BY <2>1, StartedCounts
  <2>4. sweep' = Asleep /\ rewinds' = 0 /\ UNCHANGED <<chains, marker>> /\ mishaps' \in 0 .. MaxMishaps
    BY <1>4, FailuresCount DEF Beside, WatchdogRestarts, Reboots, Restarted
  <2>5. sweep' \in Rounds
    BY <2>4 DEF Asleep, Rounds, HeightRead
  <2>6. Budget'
    BY <2>3, <2>4, WatchdogAssumption DEF Budget, Spent, Rungs
  <2>7. Unit'
    BY <1>4 DEF Beside, Unit, WatchdogRestarts, Reboots, minerState
  <2>8. disk' \in Disks
    <3>1. disk' = disk \/ disk' = Unstopped
      BY <1>4 DEF WatchdogRestarts, Reboots
    <3>2. Unstopped \in Disks
      BY WatchdogAssumption DEF Unstopped, Disks
    <3> QED
      BY <3>1, <3>2 DEF Beside
  <2> QED
    BY <2>2, <2>4, <2>5, <2>6, <2>7, <2>8, InPartsNext DEF Steady, Beside, OwnIsOnTop
<1>5. CASE FetchesReady
  <2>1. sweep' \in Rounds
    BY <1>5 DEF FetchesReady, Steady, Rounds, Chains, HeightRead
  <2>2. UNCHANGED <<chains, minerState, marker, disk, mem, rewinds, mishaps>>
    BY <1>5 DEF FetchesReady, NoneFails
  <2>3. Budget'
    BY <2>2, SameCounts
  <2> QED
    BY <2>1, <2>2, <2>3, InPartsNext DEF Steady, Beside, Unit, OwnIsOnTop, minerState
<1>6. CASE HealsMiner
  <2>1. sweep' \in Rounds
    BY <1>6 DEF HealsMiner, Past, Steady, Rounds
  <2>2. UNCHANGED <<chains, marker, mem, rewinds>>
    BY <1>6 DEF HealsMiner
  <2>3. Beside'
    BY <1>6, MinerHealTypes DEF HealsMiner
  <2>4. Budget'
    BY <2>2, SameCounts
  <2> QED
    BY <2>1, <2>2, <2>3, <2>4, InPartsNext DEF Steady, OwnIsOnTop
<1>7. CASE ChecksNode
  <2>1. marker' \in BOOLEAN
    BY <1>7 DEF ChecksNode
  <2>2. Steady' /\ Beside' /\ Budget'
    BY <1>7, OtherwiseKeepsBudget, GiveUpKeepsBudget, HealKeepsBudget DEF ChecksNode
  <2> QED
    BY <2>1, <2>2, InPartsNext
<1>8. CASE ChecksAhead \/ ChecksHistory
  <2>1. marker' \in BOOLEAN /\ mishaps' \in 0 .. MaxMishaps
    BY <1>8, FailuresCount DEF Beside, ChecksAhead, ChecksHistory, ParksMiner, NoPark
  <2>2. UNCHANGED <<chains, minerState, disk, rewinds>>
    BY <1>8 DEF ChecksAhead, ChecksHistory
  <2>3. sweep' \in Rounds
    BY <1>8 DEF ChecksAhead, ChecksHistory, Past, Steady, Rounds, Asleep, HeightRead
  <2>4. mem.forkPaged \in BOOLEAN /\ mem.historyPaged \in BOOLEAN
    BY DEF Steady, Mems
  <2>5. \/ mem' = mem
        \/ \E paged \in BOOLEAN : mem' = [mem EXCEPT !.forkPaged = paged]
        \/ \E paged \in BOOLEAN : mem' = [mem EXCEPT !.historyPaged = paged]
    BY <1>8, <2>4, PagedOrNot DEF ChecksAhead, ChecksHistory
  <2>6. mem' \in Mems /\ Budget'
    BY <2>2, <2>5, SameCounts DEF Steady, Mems
  <2> QED
    BY <2>1, <2>2, <2>3, <2>6, InPartsNext DEF Steady, Beside, Unit, OwnIsOnTop, minerState
<1>9. CASE UNCHANGED watchdogVars
  BY <1>9 DEF watchdogVars, minerState, WatchdogInv, TypeInv, WatchdogTypeOK, OwnIsOnTop, Budget, Spent
<1> QED
  BY <1>2, <1>3, <1>4, <1>5, <1>6, <1>7, <1>8, <1>9 DEF WatchdogNext, MinerRuns, Owner, SweepSteps

\* So whatever starts and steps as the watchdog keeps its types.
LEMMA WatchdogTypesAlone == WatchdogInit /\ [][WatchdogNext]_watchdogVars => []WatchdogTypeOK
<1>1. WatchdogInv => WatchdogTypeOK
  BY DEF WatchdogInv, TypeInv
<1> QED
  BY <1>1, StartsRight, StepKeeps, PTL

\* The state has the types it is written with, whatever fails, restarts or is
\* mined, for any heights and limits.
THEOREM WatchdogTypes == WatchdogSpec => []WatchdogTypeOK
  BY WatchdogTypesAlone, PTL DEF WatchdogSpec

\* heal_node_if_stalled() drops the non-finalized state no more often in an
\* episode than one budget has rungs for, however the confirmation of the tip
\* comes and goes: what a rewind may have been made in is never given back.
THEOREM RewindsBudgeted == WatchdogSpec => []RewindsAreBudgeted
<1>1. WatchdogInv => RewindsAreBudgeted
  <2> SUFFICES ASSUME WatchdogInv PROVE RewindsAreBudgeted
    OBVIOUS
  <2>1. mem \in Mems /\ rewinds \in Nat /\ rewinds <= Rungs(Spent(mem))
    BY InParts DEF WatchdogInv, Steady, Budget
  <2>2. Spent(mem) \in Int /\ Spent(mem) <= NodeHealMax
    BY <2>1, WatchdogAssumption DEF Spent, Mems
  <2> QED
    BY <2>1, <2>2, WatchdogAssumption DEF RewindsAreBudgeted, Rungs
<1> QED
  BY <1>1, StartsRight, StepKeeps, PTL DEF WatchdogSpec

-----------------------------------------------------------------------------
(* The miner that was stopped.                                             *)

\* Whether this step may start it.
MayBegin == ~disk'.stopped /\ ~marker /\ (~mem.healing \/ chains.height > mem.last \/ mem'.attempts = 0)
Stays == disk.stopped /\ unit # "active" /\ unit' = "active" => MayBegin

\* A release that starts a stopped miner clears the flag, and finds no marker.
LEMMA OnlyAReleaseStarts ==
  ASSUME Beside, disk.stopped, NEW startPaged, Releases(startPaged), unit # "active", unit' = "active"
  PROVE  ~disk'.stopped /\ ~marker
<1>1. disk.stopped /\ ~marker /\ disk' = [disk EXCEPT !.stopped = FALSE]
  BY DEF Releases, minerState
<1>2. disk \in Disks
  BY DEF Beside
<1> QED
  BY <1>1, <1>2 DEF Disks

\* No step of a sweep starts a stopped miner otherwise.
LEMMA SweepRests == WatchdogInv /\ SweepSteps => Stays
<1> SUFFICES ASSUME WatchdogInv, SweepSteps, disk.stopped, unit # "active", unit' = "active" PROVE MayBegin
  BY DEF Stays
<1>1. Steady /\ Beside
  BY InParts DEF WatchdogInv
<1>2. UNCHANGED unit => FALSE
  OBVIOUS
<1>3. CASE FetchesReady \/ ChecksAhead \/ ChecksHistory
  BY <1>2, <1>3 DEF FetchesReady, ChecksAhead, ChecksHistory, minerState
<1>4. CASE HealsMiner
  BY <1>2, <1>4 DEF HealsMiner, LeavesMiner, MinerToHeal, FindsMinerWell, RestartsMiner, GivesMinerUp, minerState
<1>5. CASE HealIsOff
  BY <1>1, <1>5, OnlyAReleaseStarts DEF HealIsOff, MayBegin
<1>6. CASE NodeAdvances
  <2>1. PICK startPaged \in BOOLEAN :
            IF mem.last = 0 THEN Holds /\ startPaged = mem.startPaged ELSE Releases(startPaged)
    BY <1>6 DEF NodeAdvances
  <2>2. Releases(startPaged)
    BY <1>2, <2>1 DEF Holds, minerState
  <2> QED
    BY <1>1, <1>6, <2>2, OnlyAReleaseStarts DEF NodeAdvances, MayBegin
<1>7. CASE NodeAtTheTip
  <2>1. PICK startPaged \in BOOLEAN : Releases(startPaged) /\ mem' = Over(startPaged)
    BY <1>7 DEF NodeAtTheTip
  <2>2. mem'.attempts = 0
    BY <1>1, <2>1 DEF Over, Steady, Mems
  <2> QED
    BY <1>1, <2>1, <2>2, OnlyAReleaseStarts DEF MayBegin
<1>8. CASE NodeIsSilent \/ \E confirmed \in BOOLEAN : NodeStalls(confirmed) \/ GivesNodeUp(confirmed)
  BY <1>2, <1>8 DEF NodeIsSilent, NodeStalls, GivesNodeUp, Holds, minerState
<1>9. CASE \E confirmed \in BOOLEAN : HealsNode(confirmed)
  BY <1>2, <1>9 DEF HealsNode, StopsMiner, Holds, minerState
<1> QED
  BY <1>3, <1>4, <1>5, <1>6, <1>7, <1>8, <1>9 DEF SweepSteps, ChecksNode

\* A miner that heal_node_if_stalled() stopped is started by no step of a sweep
\* but release_miner_after_heal(), once the node was seen well and never past
\* the marker.
THEOREM StoppedMinerRests == WatchdogSpec => MinerRestsThroughTheHeal
<1>1. WatchdogInv /\ [WatchdogNext]_watchdogVars
        => [SweepSteps /\ disk.stopped /\ unit # "active" /\ unit' = "active"
              => /\ ~disk'.stopped /\ ~marker
                 /\ ~mem.healing \/ chains.height > mem.last \/ mem'.attempts = 0]_watchdogVars
  BY SweepRests DEF Stays, MayBegin
<1> QED
  BY <1>1, StartsRight, StepKeeps, PTL DEF WatchdogSpec, MinerRestsThroughTheHeal

-----------------------------------------------------------------------------
(* The page of a miner that was given up.                                   *)

\* What is left of GiveUpIsOfThisStall: the flag of the page can outlive the
\* stall it was for in one way, the step that stops the miner for the heal.
SilencedByTheStop ==
    GiveUpIsOfThisStall => GiveUpIsOfThisStall' \/ (~disk.stopped /\ disk'.stopped)

\* Every other step of the watchdog, of the box and around them leaves the flag
\* beside a count over its limit, so a stall that step 7 does not cut short is
\* never the silent one of watchdog.sh:741.
THEOREM OneWayToSilence == WatchdogSpec => [][SilencedByTheStop]_watchdogVars
<1>1. ASSUME WatchdogTypeOK, [WatchdogNext]_watchdogVars PROVE SilencedByTheStop
  <2>1. CASE UNCHANGED disk
    BY <2>1 DEF SilencedByTheStop, GiveUpIsOfThisStall
  <2>2. CASE Reboots
    BY <2>2 DEF Reboots, Unstopped, SilencedByTheStop, GiveUpIsOfThisStall
  <2>3. CASE HealsMiner
    <3>1. disk \in [stopped : BOOLEAN, heals : 0 .. MinerHealMax + 1, healPaged : BOOLEAN] /\ MinerHealMax \in Nat
      BY <1>1, WatchdogAssumption DEF WatchdogTypeOK
    <3>2. CASE LeavesMiner
      BY <2>1, <3>2 DEF LeavesMiner
    <3>3. CASE FindsMinerWell
      BY <3>1, <3>3 DEF FindsMinerWell, SilencedByTheStop, GiveUpIsOfThisStall
    <3>4. CASE RestartsMiner
      BY <3>1, <3>4 DEF RestartsMiner, SilencedByTheStop, GiveUpIsOfThisStall
    <3>5. CASE GivesMinerUp
      BY <3>1, <3>5 DEF GivesMinerUp, SilencedByTheStop, GiveUpIsOfThisStall
    <3> QED
      BY <2>3, <3>2, <3>3, <3>4, <3>5 DEF HealsMiner
  <2>4. CASE ChecksNode
    <3>1. disk \in [stopped : BOOLEAN, heals : 0 .. MinerHealMax + 1, healPaged : BOOLEAN]
      BY <1>1 DEF WatchdogTypeOK
    <3>2. ASSUME NEW startPaged, Releases(startPaged) PROVE SilencedByTheStop
      BY <3>1, <3>2 DEF Releases, SilencedByTheStop, GiveUpIsOfThisStall
    <3>3. ASSUME Holds PROVE SilencedByTheStop
      BY <2>1, <3>3 DEF Holds
    <3>4. ASSUME NEW confirmed, StopsMiner(confirmed) PROVE SilencedByTheStop
      BY <2>1, <3>1, <3>3, <3>4 DEF StopsMiner, SilencedByTheStop, Holds
    <3> QED
      BY <2>4, <3>2, <3>3, <3>4
         DEF ChecksNode, HealIsOff, NodeIsSilent, NodeAdvances, NodeAtTheTip, NodeStalls, GivesNodeUp, HealsNode
  <2> QED
    BY <1>1, <2>1, <2>2, <2>3, <2>4
       DEF WatchdogNext, Network, MinerRuns, Owner, SweepSteps, WatchdogRestarts, FetchesReady, ChecksAhead,
           ChecksHistory, NetGrows, Syncs, Reorgs, Wedges, Unwedges, Mines, HeartbeatMoves, Crashes, StartsAgain,
           DeploysMiner, OwnerStops, OwnerStarts, OwnerReimports, OwnerClears, Outside, watchdogVars
<1> QED
  BY <1>1, WatchdogTypes, PTL DEF WatchdogSpec

-----------------------------------------------------------------------------
(* SendHealth: a record is appended behind the others and trimmed away in    *)
(* front of them, so that nobody's count changes but its own; and no trim    *)
(* reaches the records of a streak before it is judged.                      *)

\* A send of this network whose deadline has answered for it, so long ago.
LostAt(n, ago) ==
    \E i \in DOMAIN log : log[i].net = n /\ log[i].outcome = "unresolved" /\ log[i].age = ago

\* How long the send behind a streak has been running.
Since(n) == IF busy[n].state = "sending" THEN busy[n].for ELSE 0

\* The last two of a streak are on record, one deadline apart.
StreakOnRecord ==
    \A n \in Nets :
        /\ streak[n] >= 1 => LostAt(n, Since(n))
        /\ streak[n] >= 2 => LostAt(n, Since(n) + Deadline)

HealthInv == HealthTypeOK /\ StreakOnRecord

\* A set of numbers that is not empty has a least one.
LEMMA LeastIndex ==
  ASSUME NEW S \in SUBSET Nat, S # {}
  PROVE  \E i \in S : \A j \in S : i <= j
<1> DEFINE R == OpToRel(<, Nat)
<1>1. IsWellFoundedOn(R, Nat)
  BY NatLessThanWellFounded
<1>2. \A x, y \in Nat : x < y => <<x, y>> \in R
  BY DEF OpToRel
<1> HIDE DEF R
<1>3. PICK x \in S : \A y \in S : <<y, x>> \notin R
  BY <1>1, WFMin, Zenon
<1>4. \A y \in S : ~(y < x)
  BY <1>2, <1>3
<1>5. x \in Nat /\ \A y \in S : y \in Nat
  OBVIOUS
<1>6. \A y \in S : x <= y
  BY <1>4, <1>5
<1>7. QED
  BY <1>6

\* The types of a record, and the window.
LEMMA WindowIsLong == Window \in Nat /\ 2 * Deadline <= Window /\ Deadline \in Nat /\ Deadline >= 1
  BY SendHealthAssumption DEF Window, MinSample

\* The handlers of one network never look at what another network recorded:
\* a new record comes last, and what is trimmed was too old.
LEMMA Recording ==
  ASSUME HealthTypeOK, NEW m \in Nets, NEW outcome \in SendOutcomes, RecordSend(m, outcome)
  PROVE  \E k \in 0 .. Len(log) :
            /\ log' \in Seq(Records) /\ Len(log') = Len(log) + 1 - k
            /\ \A i \in 1 .. Len(log') : i + k <= Len(log) => log'[i] = log[i + k]
            /\ log'[Len(log')] = [outcome |-> outcome, age |-> 0, net |-> m]
            /\ \A i \in 1 .. k : log[i].age > Window
<1> DEFINE new == [outcome |-> outcome, age |-> 0, net |-> m]
           l == Append(log, new)
           young == {i \in DOMAIN l : l[i].age <= Window}
           first == CHOOSE i \in young : \A j \in young : i <= j
<1>1. new \in Records /\ new.age = 0
  BY WindowIsLong DEF Records
<1>2. log \in Seq(Records) /\ Len(log) \in Nat
  BY DEF HealthTypeOK
<1>3. l \in Seq(Records)
  BY <1>1, <1>2
<1>4. Len(l) = Len(log) + 1 /\ DOMAIN l = 1 .. Len(log) + 1
  BY <1>1, <1>2
<1>5. l[Len(log) + 1] = new /\ \A i \in 1 .. Len(log) : l[i] = log[i]
  BY <1>1, <1>2
<1> HIDE DEF l
<1>6. Len(log) + 1 \in young
  BY <1>1, <1>2, <1>4, <1>5, WindowIsLong
<1>7. \E i \in young : \A j \in young : i <= j
  <2>1. young \in SUBSET Nat /\ young # {}
    BY <1>2, <1>4, <1>6
  <2> HIDE DEF young
  <2>2. QED
    BY <2>1, LeastIndex
<1>8. first \in young /\ \A j \in young : first <= j
  BY <1>7
<1> HIDE DEF first
<1>9. first \in 1 .. Len(log) + 1 /\ \A i \in 1 .. first - 1 : l[i].age > Window
  <2>1. first \in 1 .. Len(log) + 1
    BY <1>4, <1>8
  <2>2. ASSUME NEW i \in 1 .. first - 1
        PROVE  l[i].age > Window
    <3>1. i \in DOMAIN l /\ i < first
      BY <1>2, <1>4, <2>1
    <3>2. i \notin young
      BY <1>8, <2>1, <3>1
    <3>3. l[i] \in Records
      BY <1>3, <1>4, <3>1
    <3>4. l[i].age \in Nat
      BY <3>3, WindowIsLong DEF Records
    <3>5. QED
      BY <3>1, <3>2, <3>4, WindowIsLong
  <2>3. QED
    BY <2>1, <2>2
<1>10. log' = SubSeq(l, first, Len(l))
  BY <1>6 DEF RecordSend, Trimmed, first, l
<1>11. /\ log' \in Seq(Records) /\ Len(log') = Len(log) + 1 - (first - 1)
       /\ \A i \in 1 .. Len(log') : log'[i] = l[i + (first - 1)]
  BY <1>2, <1>3, <1>4, <1>9, <1>10
<1>12. QED
  <2> DEFINE k == first - 1
  <2>1. k \in 0 .. Len(log)
    BY <1>2, <1>9
  <2>2. \A i \in 1 .. k : log[i].age > Window
    BY <1>2, <1>5, <1>9, <2>1
  <2>3. \A i \in 1 .. Len(log') : i + k <= Len(log) => log'[i] = log[i + k]
    BY <1>2, <1>5, <1>11, <2>1
  <2>4. log'[Len(log')] = new
    BY <1>2, <1>5, <1>11, <2>1
  <2>5. QED
    BY <1>11, <2>1, <2>2, <2>3, <2>4

\* What a count is taken of.
Counting(n, outcomes) == {i \in Live(n) : log[i].outcome \in outcomes}

\* What is counted of a log is a finite set.
LEMMA CountIsFinite ==
  ASSUME HealthTypeOK, NEW n, NEW outcomes
  PROVE  IsFiniteSet(Counting(n, outcomes)) /\ Count(n, outcomes) = Cardinality(Counting(n, outcomes))
         /\ Count(n, outcomes) \in Nat
<1>1. IsFiniteSet(1 .. Len(log))
  BY FS_Interval DEF HealthTypeOK
<1>2. Counting(n, outcomes) \in SUBSET (1 .. Len(log))
  BY DEF Counting, Live, HealthTypeOK
<1>3. IsFiniteSet(Counting(n, outcomes))
  BY <1>1, <1>2, FS_Subset
<1>4. QED
  BY <1>3, FS_CardinalityType DEF Count, Counting

\* A record changes no count that it is not of.
LEMMA SameCount ==
  ASSUME HealthTypeOK, NEW m \in Nets, NEW outcome \in SendOutcomes, RecordSend(m, outcome),
         NEW n \in Nets, NEW outcomes, n # m \/ outcome \notin outcomes
  PROVE  Count(n, outcomes)' = Count(n, outcomes)
<1>1. PICK k \in 0 .. Len(log) :
            /\ log' \in Seq(Records) /\ Len(log') = Len(log) + 1 - k
            /\ \A i \in 1 .. Len(log') : i + k <= Len(log) => log'[i] = log[i + k]
            /\ log'[Len(log')] = [outcome |-> outcome, age |-> 0, net |-> m]
            /\ \A i \in 1 .. k : log[i].age > Window
  BY Recording
<1>2. Len(log) \in Nat /\ DOMAIN log = 1 .. Len(log) /\ DOMAIN log' = 1 .. Len(log')
  BY <1>1 DEF HealthTypeOK
<1> DEFINE S == Counting(n, outcomes)
           T == Counting(n, outcomes)'
           shift == [i \in S |-> i - k]
<1>3. \A i \in S : i \in k + 1 .. Len(log) /\ log[i].net = n /\ log[i].age <= Window /\ log[i].outcome \in outcomes
  <2>1. \A i \in 1 .. Len(log) : log[i].age \in Nat
    <3>1. \A i \in 1 .. Len(log) : log[i] \in Records
      BY <1>2 DEF HealthTypeOK
    <3>2. QED
      BY <3>1, WindowIsLong DEF Records
  <2>2. QED
    BY <1>1, <1>2, <2>1, WindowIsLong DEF Counting, Live
<1>4. \A i \in T : i \in 1 .. Len(log) - k /\ log'[i] = log[i + k] /\ i + k \in S
  <2> SUFFICES ASSUME NEW i \in T
               PROVE  i \in 1 .. Len(log) - k /\ log'[i] = log[i + k] /\ i + k \in S
    OBVIOUS
  <2>1. i \in 1 .. Len(log') /\ log'[i].net = n /\ log'[i].age <= Window /\ log'[i].outcome \in outcomes
    BY <1>2 DEF Counting, Live
  <2>2. i # Len(log')
    BY <1>1, <2>1
  <2>3. i \in 1 .. Len(log) - k /\ i + k \in 1 .. Len(log)
    BY <1>1, <1>2, <2>1, <2>2
  <2>4. log'[i] = log[i + k]
    BY <1>1, <2>1, <2>3
  <2>5. QED
    BY <1>2, <2>1, <2>3, <2>4 DEF Counting, Live
<1>5. \A i \in S : i - k \in T
  <2> SUFFICES ASSUME NEW i \in S
               PROVE  i - k \in T
    OBVIOUS
  <2>1. i - k \in 1 .. Len(log') /\ (i - k) + k = i /\ i <= Len(log)
    BY <1>1, <1>2, <1>3
  <2>2. log'[i - k] = log[i]
    BY <1>1, <2>1
  <2>3. QED
    BY <1>2, <1>3, <2>1, <2>2 DEF Counting, Live
<1>6. \A i \in S : i \in Int
  BY <1>2, <1>3
<1>7. \A i \in T : i \in Int
  BY <1>2, <1>4
<1> HIDE DEF S, T
<1>8. shift \in [S -> T] /\ (\A a, b \in S : shift[a] = shift[b] => a = b) /\ \A t \in T : \E s \in S : shift[s] = t
  <2>1. shift \in [S -> T]
    BY <1>5
  <2>2. \A a, b \in S : shift[a] = shift[b] => a = b
    BY <1>1, <1>6
  <2>3. \A t \in T : shift[t + k] = t
    BY <1>1, <1>4, <1>7
  <2>4. QED
    BY <1>4, <2>1, <2>2, <2>3
<1>9. shift \in Bijection(S, T)
  BY <1>8 DEF Bijection, Injection, Surjection, IsInjective
<1>10. ExistsBijection(S, T)
  BY <1>9 DEF ExistsBijection
<1>11. Cardinality(T) = Cardinality(S)
  BY <1>10, CountIsFinite, FS_Bijection DEF S
<1>12. QED
  BY <1>11 DEF S, T, Count, Counting

\* What is young enough stays on record, and a new record is on it.
LEMMA RecordStays ==
  ASSUME HealthTypeOK, NEW m \in Nets, NEW outcome \in SendOutcomes, RecordSend(m, outcome)
  PROVE  /\ log' \in Seq(Records)
         /\ \A n \in Nets : \A ago \in 0 .. Window : LostAt(n, ago) => LostAt(n, ago)'
         /\ outcome = "unresolved" => LostAt(m, 0)'
<1>1. PICK k \in 0 .. Len(log) :
            /\ log' \in Seq(Records) /\ Len(log') = Len(log) + 1 - k
            /\ \A i \in 1 .. Len(log') : i + k <= Len(log) => log'[i] = log[i + k]
            /\ log'[Len(log')] = [outcome |-> outcome, age |-> 0, net |-> m]
            /\ \A i \in 1 .. k : log[i].age > Window
  BY Recording
<1>2. Len(log) \in Nat /\ DOMAIN log = 1 .. Len(log) /\ DOMAIN log' = 1 .. Len(log')
  BY <1>1 DEF HealthTypeOK
<1>3. ASSUME NEW n \in Nets, NEW ago \in 0 .. Window, LostAt(n, ago)
      PROVE  LostAt(n, ago)'
  <2>1. PICK i \in 1 .. Len(log) : log[i].net = n /\ log[i].outcome = "unresolved" /\ log[i].age = ago
    BY <1>2, <1>3 DEF LostAt
  <2>2. ~(i \in 1 .. k)
    BY <1>1, <2>1, WindowIsLong
  <2>3. i - k \in 1 .. Len(log') /\ (i - k) + k = i /\ i <= Len(log)
    BY <1>1, <1>2, <2>1, <2>2
  <2>4. log'[i - k] = log[i]
    BY <1>1, <2>3
  <2>5. QED
    BY <1>2, <2>1, <2>3, <2>4 DEF LostAt
<1>4. ASSUME outcome = "unresolved"
      PROVE  LostAt(m, 0)'
  <2>1. Len(log') \in 1 .. Len(log')
    BY <1>1, <1>2
  <2>2. log'[Len(log')].net = m /\ log'[Len(log')].outcome = "unresolved" /\ log'[Len(log')].age = 0
    BY <1>1, <1>4
  <2>3. QED
    BY <1>2, <2>1, <2>2 DEF LostAt
<1>5. QED
  BY <1>1, <1>3, <1>4

\* It holds at the start.
LEMMA HealthStarts == HealthInit => HealthInv
  BY WindowIsLong, SendHealthAssumption DEF HealthInit, HealthInv, HealthTypeOK, StreakOnRecord, Idle, MinSample

\* A send that is answered in time, or by its deadline.
LEMMA AnswerKeeps ==
  ASSUME HealthInv, NEW m \in Nets, SendSettles(m) \/ SendExpires(m)
  PROVE  HealthInv'
<1>1. PICK outcome \in SendOutcomes :
          RecordSend(m, outcome) /\ (SendExpires(m) => outcome = "unresolved")
  BY DEF SendSettles, SendExpires, SendOutcomes
<1>2. /\ log' \in Seq(Records)
      /\ \A n \in Nets : \A ago \in 0 .. Window : LostAt(n, ago) => LostAt(n, ago)'
      /\ outcome = "unresolved" => LostAt(m, 0)'
  BY <1>1, RecordStays DEF HealthInv
<1>3. /\ busy \in [Nets -> [state : {"idle", "sending", "late"}, for : 0 .. Deadline]]
      /\ streak \in [Nets -> 0 .. MinSample] /\ 0 \in 0 .. MinSample
      /\ MinSample \in Nat
  BY DEF HealthInv, HealthTypeOK, MinSample
<1>4. Idle \in [state : {"idle", "sending", "late"}, for : 0 .. Deadline]
  BY WindowIsLong DEF Idle
<1>5. \A n \in Nets \ {m} : busy'[n] = busy[n] /\ streak'[n] = streak[n]
  BY <1>3 DEF SendSettles, SendExpires
<1>6. \A n \in Nets : Since(n) \in 0 .. Window /\ Since(n) + Deadline \in 0 .. Window
  <2>1. \A n \in Nets : busy[n].for \in 0 .. Deadline
    BY <1>3
  <2>2. QED
    BY <2>1, WindowIsLong DEF Since
<1>7. \A n \in Nets \ {m} : Since(n)' = Since(n)
  BY <1>5 DEF Since
<1>8. \A n \in Nets \ {m} :
         /\ streak'[n] >= 1 => LostAt(n, Since(n))'
         /\ streak'[n] >= 2 => LostAt(n, Since(n) + Deadline)'
  BY <1>2, <1>5, <1>6, <1>7 DEF HealthInv, StreakOnRecord
<1>9. CASE SendSettles(m)
  <2>1. HealthTypeOK'
    BY <1>2, <1>3, <1>4, <1>9 DEF HealthInv, HealthTypeOK, SendSettles
  <2>2. streak'[m] = 0
    BY <1>3, <1>9 DEF SendSettles
  <2>3. QED
    BY <1>8, <2>1, <2>2 DEF HealthInv, StreakOnRecord
<1>10. CASE SendExpires(m)
  <2>1. /\ busy[m].state = "sending" /\ busy[m].for = Deadline /\ waiting' = waiting
        /\ busy' = [busy EXCEPT ![m].state = "late"]
        /\ streak' = [streak EXCEPT ![m] = IF @ = MinSample THEN @ ELSE @ + 1]
    BY <1>10 DEF SendExpires
  <2>2. busy' \in [Nets -> [state : {"idle", "sending", "late"}, for : 0 .. Deadline]]
        /\ streak' \in [Nets -> 0 .. MinSample]
    BY <1>3, <2>1
  <2>3. HealthTypeOK'
    BY <1>2, <2>1, <2>2 DEF HealthInv, HealthTypeOK
  <2>4. Since(m) = Deadline /\ Since(m)' = 0 /\ (streak'[m] >= 2 => streak[m] >= 1)
    BY <1>3, <2>1 DEF Since, MinSample
  <2>5. LostAt(m, 0)'
    BY <1>1, <1>2, <1>10
  <2>6. streak[m] >= 1 => LostAt(m, Deadline)
    BY <2>4 DEF HealthInv, StreakOnRecord
  <2>7. streak'[m] >= 2 => LostAt(m, Deadline)'
    BY <1>2, <2>4, <2>6, WindowIsLong
  <2>8. 0 + Deadline = Deadline
    BY WindowIsLong
  <2>9. QED
    BY <1>8, <2>3, <2>4, <2>5, <2>7, <2>8 DEF HealthInv, StreakOnRecord
<1>11. QED
  BY <1>9, <1>10

\* A tick: the records of a streak grow old with the send behind it.
LEMMA TickKeeps == HealthInv /\ HealthTicks => HealthInv'
<1> SUFFICES ASSUME HealthInv, HealthTicks
             PROVE  HealthInv'
  OBVIOUS
<1>1. /\ log \in Seq(Records) /\ Len(log) \in Nat
      /\ busy \in [Nets -> [state : {"idle", "sending", "late"}, for : 0 .. Deadline]]
      /\ streak \in [Nets -> 0 .. MinSample] /\ 0 \in 0 .. MinSample
  BY DEF HealthInv, HealthTypeOK, MinSample
<1>2. \A i \in 1 .. Len(log) : log[i] \in Records
  BY <1>1
<1>3. ASSUME NEW r \in Records
      PROVE  /\ OlderRecord(r) \in Records /\ OlderRecord(r).net = r.net /\ OlderRecord(r).outcome = r.outcome
             /\ r.age <= Window => OlderRecord(r).age = r.age + 1
  <2>1. r.age \in 0 .. Window + 1 /\ Window \in Nat
    BY WindowIsLong DEF Records
  <2>2. (IF r.age > Window THEN r.age ELSE r.age + 1) \in 0 .. Window + 1
    BY <2>1
  <2>3. QED
    BY <2>1, <2>2 DEF OlderRecord, Records
<1>4. log' = [i \in 1 .. Len(log) |-> OlderRecord(log[i])]
  BY <1>1 DEF HealthTicks
<1>5. log' \in Seq(Records) /\ DOMAIN log' = 1 .. Len(log) /\ \A i \in 1 .. Len(log) : log'[i] = OlderRecord(log[i])
  BY <1>1, <1>2, <1>3, <1>4
<1>6. \A n \in Nets : busy[n].state = "sending" => busy[n].for < Deadline
  BY <1>1, WindowIsLong DEF HealthTicks
<1>7. \A n \in Nets :
         /\ busy[n].state = "sending" => /\ busy'[n].state = "sending" /\ busy'[n].for = busy[n].for + 1
                                         /\ streak'[n] = streak[n]
         /\ busy[n].state # "sending" => streak'[n] = 0
  BY <1>1 DEF HealthTicks
<1>8. busy' \in [Nets -> [state : {"idle", "sending", "late"}, for : 0 .. Deadline]]
      /\ streak' \in [Nets -> 0 .. MinSample]
  BY <1>1, <1>6, WindowIsLong DEF HealthTicks
<1>9. HealthTypeOK'
  BY <1>5, <1>8 DEF HealthInv, HealthTypeOK, HealthTicks
<1>10. ASSUME NEW n \in Nets, NEW ago \in 0 .. Window, LostAt(n, ago)
       PROVE  LostAt(n, ago + 1)'
  <2>1. PICK i \in 1 .. Len(log) : log[i].net = n /\ log[i].outcome = "unresolved" /\ log[i].age = ago
    BY <1>1, <1>10 DEF LostAt
  <2>2. log'[i].net = n /\ log'[i].outcome = "unresolved" /\ log'[i].age = ago + 1
    BY <1>2, <1>3, <1>5, <2>1
  <2>3. QED
    BY <1>5, <2>2 DEF LostAt
<1>11. ASSUME NEW n \in Nets, streak'[n] >= 1
       PROVE  LostAt(n, Since(n))' /\ (streak'[n] >= 2 => LostAt(n, Since(n) + Deadline)')
  <2>1. busy[n].state = "sending"
    BY <1>7, <1>11
  <2>2. /\ Since(n) \in 0 .. Window /\ Since(n) + Deadline \in 0 .. Window
        /\ Since(n)' = Since(n) + 1 /\ Since(n)' + Deadline = (Since(n) + Deadline) + 1
    <3>1. busy[n].for \in 0 .. Deadline
      BY <1>1
    <3>2. QED
      BY <1>7, <2>1, <3>1, WindowIsLong DEF Since
  <2>3. streak'[n] = streak[n]
    BY <1>7, <2>1
  <2>4. QED
    BY <1>10, <1>11, <2>2, <2>3 DEF HealthInv, StreakOnRecord
<1>12. \A n \in Nets : streak'[n] \in Nat
  BY <1>8 DEF MinSample
<1>13. \A n \in Nets : streak'[n] >= 2 => streak'[n] >= 1
  BY <1>12
<1>14. QED
  BY <1>9, <1>11, <1>13 DEF HealthInv, StreakOnRecord

\* Every step keeps it.
LEMMA HealthStep == HealthInv /\ [HealthNext]_healthVars => HealthInv'
<1> SUFFICES ASSUME HealthInv, [HealthNext]_healthVars
             PROVE  HealthInv'
  OBVIOUS
<1>1. /\ waiting \in [Nets -> 0 .. MaxQueue] /\ MaxQueue \in Nat
      /\ busy \in [Nets -> [state : {"idle", "sending", "late"}, for : 0 .. Deadline]]
      /\ streak \in [Nets -> 0 .. MinSample]
  BY SendHealthAssumption DEF HealthInv, HealthTypeOK
<1>2. \A state \in {"idle", "sending", "late"} :
         [state |-> state, for |-> 0] \in [state : {"idle", "sending", "late"}, for : 0 .. Deadline]
  BY WindowIsLong
<1>3. ASSUME NEW n \in Nets, PassesTheDoor(n)
      PROVE  HealthInv'
  <2>1. waiting' \in [Nets -> 0 .. MaxQueue] /\ UNCHANGED <<log, busy, streak>>
    BY <1>1, <1>3 DEF PassesTheDoor
  <2>2. QED
    BY <2>1 DEF HealthInv, HealthTypeOK, StreakOnRecord, LostAt, Since
<1>4. ASSUME NEW n \in Nets, TakesWallet(n) \/ SendSettlesLate(n)
      PROVE  HealthInv'
  <2>1. waiting' \in [Nets -> 0 .. MaxQueue] /\ UNCHANGED <<log, streak>>
    BY <1>1, <1>4 DEF TakesWallet, SendSettlesLate
  <2>2. busy' \in [Nets -> [state : {"idle", "sending", "late"}, for : 0 .. Deadline]]
    BY <1>1, <1>2, <1>4 DEF TakesWallet, SendSettlesLate, Idle
  <2>3. \A k \in Nets : Since(k)' = Since(k)
    BY <1>1, <1>4 DEF TakesWallet, SendSettlesLate, Idle, Since
  <2>4. HealthTypeOK'
    BY <2>1, <2>2 DEF HealthInv, HealthTypeOK
  <2>5. \A k \in Nets : \A ago : LostAt(k, ago) => LostAt(k, ago)'
    BY <2>1 DEF LostAt
  <2>6. StreakOnRecord'
    BY <2>1, <2>3, <2>5 DEF HealthInv, StreakOnRecord
  <2>7. QED
    BY <2>4, <2>6 DEF HealthInv
<1>5. CASE HealthRestarts
  BY <1>5, WindowIsLong, SendHealthAssumption
  DEF HealthRestarts, HealthInv, HealthTypeOK, StreakOnRecord, Idle, MinSample
<1>6. CASE UNCHANGED healthVars
  BY <1>6 DEF healthVars, HealthInv, HealthTypeOK, StreakOnRecord, LostAt, Since
<1>7. QED
  BY <1>3, <1>4, <1>5, <1>6, AnswerKeeps, TickKeeps DEF HealthNext

\* The invariant of the records.
LEMMA HealthInvariant == HealthSpec => []HealthInv
  BY HealthStarts, HealthStep, PTL DEF HealthSpec

\* The types, for any networks, windows and limits.
THEOREM HealthTypes == HealthSpec => []HealthTypeOK
  BY HealthInvariant, PTL DEF HealthInv

\* The verdict on a wallet is made of that wallet's own sends (#517): neither a
\* record of another network nor a refused recipient changes it, with the one
\* log and its one trim (sendHealth.ts recordSend(), readSendHealth()).
THEOREM VerdictsApart == HealthSpec => VerdictIsItsOwn
<1>1. ASSUME HealthInv, NEW n \in Nets, NEW m \in Nets, NEW outcome \in SendOutcomes,
             RecordSend(m, outcome), n # m \/ outcome = "refused"
      PROVE  Verdict(n)' = Verdict(n)
  <2>1. ASSUME NEW outcomes \in {{"ok"}, {"failed", "unanswered"}, {"unresolved"}}
        PROVE  Count(n, outcomes)' = Count(n, outcomes)
    <3>1. n # m \/ outcome \notin outcomes
      BY <1>1
    <3>2. QED
      BY <1>1, <3>1, SameCount DEF HealthInv
  <2>2. /\ Count(n, {"ok"})' = Count(n, {"ok"})
        /\ Count(n, {"failed", "unanswered"})' = Count(n, {"failed", "unanswered"})
        /\ Count(n, {"unresolved"})' = Count(n, {"unresolved"})
    BY <2>1
  <2>3. QED
    BY <2>2 DEF Verdict
<1>2. HealthInv /\ [HealthNext]_healthVars
      => [\A n \in Nets :
             \/ \E m \in Nets \ {n} : SendSettles(m) \/ SendExpires(m)
             \/ \E m \in Nets : RecordSend(m, "refused")
             => Verdict(n)' = Verdict(n)]_healthVars
  <2> SUFFICES ASSUME HealthInv, NEW n \in Nets,
                      \/ \E m \in Nets \ {n} : SendSettles(m) \/ SendExpires(m)
                      \/ \E m \in Nets : RecordSend(m, "refused")
               PROVE  Verdict(n)' = Verdict(n)
    OBVIOUS
  <2>1. PICK m \in Nets, outcome \in SendOutcomes : RecordSend(m, outcome) /\ (n # m \/ outcome = "refused")
    BY DEF SendSettles, SendExpires, SendOutcomes
  <2>2. QED
    BY <1>1, <2>1
<1>3. QED
  BY <1>2, HealthInvariant, PTL DEF HealthSpec, VerdictIsItsOwn

\* Three of one kind among the records are counted as three.
LEMMA CountsThree ==
  ASSUME HealthTypeOK, NEW n \in Nets, NEW a, NEW b, NEW c, a # b, a # c, b # c,
         {a, b, c} \subseteq Counting(n, {"unresolved"})
  PROVE  Count(n, {"unresolved"}) >= 3
<1>1. IsFiniteSet({}) /\ Cardinality({}) = 0
  BY FS_EmptySet
<1>2. IsFiniteSet({c}) /\ Cardinality({c}) = 1
  BY FS_Singleton
<1>3. IsFiniteSet({b, c}) /\ Cardinality({b, c}) = 2
  <2>1. {b, c} = {c} \cup {b} /\ b \notin {c}
    OBVIOUS
  <2>2. QED
    BY <1>2, <2>1, FS_AddElement
<1>4. IsFiniteSet({a, b, c}) /\ Cardinality({a, b, c}) = 3
  <2>1. {a, b, c} = {b, c} \cup {a} /\ a \notin {b, c}
    OBVIOUS
  <2>2. QED
    BY <1>3, <2>1, FS_AddElement
<1>5. Cardinality({a, b, c}) <= Cardinality(Counting(n, {"unresolved"}))
  BY CountIsFinite, FS_Subset
<1>6. QED
  BY <1>4, <1>5, CountIsFinite

\* A streak on record shuts the door.
LEMMA ThreeLost ==
  \A n \in Nets : HealthTypeOK /\ LostAt(n, 0) /\ LostAt(n, Deadline) /\ LostAt(n, Deadline + Deadline)
                  /\ Count(n, {"ok"}) = 0 => Blocks(n)
<1> SUFFICES ASSUME NEW n \in Nets, HealthTypeOK, Count(n, {"ok"}) = 0,
                    LostAt(n, 0), LostAt(n, Deadline), LostAt(n, Deadline + Deadline)
             PROVE  Blocks(n)
  OBVIOUS
<1>1. PICK a \in DOMAIN log : log[a].net = n /\ log[a].outcome = "unresolved" /\ log[a].age = 0
  BY DEF LostAt
<1>2. PICK b \in DOMAIN log : log[b].net = n /\ log[b].outcome = "unresolved" /\ log[b].age = Deadline
  BY DEF LostAt
<1>3. PICK c \in DOMAIN log :
        log[c].net = n /\ log[c].outcome = "unresolved" /\ log[c].age = Deadline + Deadline
  BY DEF LostAt
<1>4. a # b /\ a # c /\ b # c
  BY <1>1, <1>2, <1>3, WindowIsLong
<1>5. {a, b, c} \subseteq Counting(n, {"unresolved"})
  BY <1>1, <1>2, <1>3, WindowIsLong DEF Counting, Live
<1>6. Count(n, {"unresolved"}) >= 3
  BY <1>4, <1>5, CountsThree
<1>7. Count(n, {"failed", "unanswered"}) \in Nat /\ Count(n, {"unresolved"}) \in Nat
  BY CountIsFinite
<1>8. Verdict(n) = "degraded"
  BY <1>6, <1>7 DEF Verdict, MinSample, FailAlone
<1>9. QED
  BY <1>8 DEF Blocks

\* The window is long enough for a streak: the third send in a row that runs
\* into its deadline shuts the door, whatever the other networks have recorded
\* and the trim has dropped in between (sendHealth.ts windowFor()).
THEOREM StreaksAreJudged == HealthSpec => StreakIsJudged
<1>1. \A n \in Nets : HealthTypeOK' /\ LostAt(n, 0)' /\ LostAt(n, Deadline)' /\ LostAt(n, Deadline + Deadline)'
                      /\ Count(n, {"ok"})' = 0 => Blocks(n)'
  <2>1. (\A n \in Nets : HealthTypeOK /\ LostAt(n, 0) /\ LostAt(n, Deadline) /\ LostAt(n, Deadline + Deadline)
                  /\ Count(n, {"ok"}) = 0 => Blocks(n))'
    BY ThreeLost, PTL
  <2>2. QED
    BY <2>1
<1>2. ASSUME HealthInv, NEW n \in Nets, SendExpires(n), streak'[n] = MinSample, Count(n, {"ok"}) = 0,
             HealthInv'
      PROVE  Blocks(n)'
  <2>1. streak[n] \in 0 .. 3 /\ streak'[n] = (IF streak[n] = 3 THEN streak[n] ELSE streak[n] + 1) /\ streak'[n] = 3
    BY <1>2 DEF SendExpires, HealthInv, HealthTypeOK, MinSample
  <2>2. streak[n] >= 2 /\ streak[n] >= 1
    BY <2>1
  <2>3. Since(n) = Deadline
    BY <1>2 DEF SendExpires, Since
  <2>4. LostAt(n, Deadline) /\ LostAt(n, Deadline + Deadline)
    BY <1>2, <2>2, <2>3 DEF HealthInv, StreakOnRecord
  <2>5. RecordSend(n, "unresolved") /\ "unresolved" \in SendOutcomes
    BY <1>2 DEF SendExpires, SendOutcomes
  <2>6. Deadline \in 0 .. Window /\ Deadline + Deadline \in 0 .. Window
    BY WindowIsLong
  <2>7. LostAt(n, 0)' /\ LostAt(n, Deadline)' /\ LostAt(n, Deadline + Deadline)'
    <3>1. /\ \A k \in Nets : \A ago \in 0 .. Window : LostAt(k, ago) => LostAt(k, ago)'
          /\ LostAt(n, 0)'
      BY <1>2, <2>5, RecordStays DEF HealthInv
    <3>2. QED
      BY <2>4, <2>6, <3>1
  <2>8. Count(n, {"ok"})' = 0
    BY <1>2, <2>5, SameCount DEF HealthInv
  <2>9. QED
    BY <1>1, <1>2, <2>7, <2>8 DEF HealthInv
<1>3. HealthInv /\ [HealthNext]_healthVars /\ HealthInv'
      => [\A n \in Nets : SendExpires(n) /\ streak'[n] = MinSample /\ Count(n, {"ok"}) = 0
            => Blocks(n)']_healthVars
  BY <1>2
<1>4. QED
  BY <1>3, HealthStep, HealthInvariant, PTL DEF HealthSpec, StreakIsJudged
=============================================================================
