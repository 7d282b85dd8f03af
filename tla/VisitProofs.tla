----------------------------- MODULE VisitProofs ----------------------------
(* Theorems about what stands around the ledger and the queue: the proof of  *)
(* work, the view of our own node, the references for the tip with the claim *)
(* that waits for them, the claim in the page, and the counts of the miner.  *)
(* Each part is a specification of its own, proved for every value of its    *)
(* constants; in the end all of them stand side by side, as MCVisit has them.*)
EXTENDS MCVisit, WatchdogProofs, DeployProofs, FiniteSetTheorems, TLAPS

-----------------------------------------------------------------------------
(* Challenge: one claim per challenge while it lives rests on the row of a   *)
(* winner being in the table for as long as the challenge lives: no purge    *)
(* has a cutoff in the future.                                               *)

\* A POST past its verification names an issued challenge.
VerifiedIsIssued == \A p \in Posts : stage[p] # "new" => issuedAt[pow[p]] \in Nat

\* A winner was burned no later than now, and an answer is the last word.
WinnersDone == \A p \in Posts : verdict[p] = "accepted" => burnedAt[p] <= clock
AnsweredIsDone == \A p \in Posts : verdict[p] # "none" => stage[p] = "done"

\* No cutoff is ahead of the clock.
CutPast == cut <= clock

\* The row of a winner outlives its challenge.
RowOfWinner ==
    \A p \in Posts : verdict[p] = "accepted" /\ Expiry(pow[p]) >= clock => pow[p] \in used

\* A row is of a POST that got its claim, or whose burn nobody saw the end of.
RowHasItsPost ==
    \A s \in used : \E o \in Posts : pow[o] = s /\ verdict[o] \in {"accepted", "error"}

ChallengeInv ==
    /\ ChallengeTypeOK
    /\ VerifiedIsIssued
    /\ WinnersDone
    /\ AnsweredIsDone
    /\ CutPast
    /\ RowOfWinner
    /\ RowHasItsPost
    /\ OneClaimWhileItLives
    /\ ReplayIsReal

\* It holds at the start.
LEMMA ChallengeStarts == ChallengeInit => ChallengeInv
  BY ChallengeAssumption
  DEF ChallengeInit, ChallengeInv, ChallengeTypeOK, VerifiedIsIssued, WinnersDone, AnsweredIsDone, CutPast,
      RowOfWinner, RowHasItsPost, OneClaimWhileItLives, ReplayIsReal, Winners, Stages, Endings

\* Every step of the challenges keeps it.
LEMMA ChallengeStep == ChallengeInv /\ [ChallengeNext]_challengeVars => ChallengeInv'
<1> SUFFICES ASSUME ChallengeInv, [ChallengeNext]_challengeVars
             PROVE  ChallengeInv'
  OBVIOUS
<1> USE ChallengeAssumption
        DEF ChallengeInv, ChallengeTypeOK, VerifiedIsIssued, WinnersDone, AnsweredIsDone, CutPast,
            RowOfWinner, OneClaimWhileItLives, Winners, Expiry
<1>1. ASSUME NEW s \in Challenges, Issue(s)
      PROVE  ChallengeInv'
  BY <1>1 DEF Issue, RowHasItsPost, ReplayIsReal
<1>2. ASSUME NEW p \in Posts, Verify(p)
      PROVE  ChallengeInv'
  BY <1>2 DEF Verify, Answer, Stages, Endings, RowHasItsPost, ReplayIsReal
<1>3. ASSUME NEW p \in Posts, LookUp(p)
      PROVE  ChallengeInv'
  BY <1>3 DEF LookUp, Answer, Stages, Endings, RowHasItsPost, ReplayIsReal
<1>4. ASSUME NEW p \in Posts, GateRefuses(p)
      PROVE  ChallengeInv'
  BY <1>4 DEF GateRefuses, Answer, Stages, Endings, RowHasItsPost, ReplayIsReal
<1>5. ASSUME NEW p \in Posts, Burn(p)
      PROVE  ChallengeInv'
  BY <1>5 DEF Burn, Stages, RowHasItsPost, ReplayIsReal
<1>6. ASSUME NEW p \in Posts, Insert(p)
      PROVE  ChallengeInv'
  <2> USE <1>6 DEF Insert, Answer, Stages, Endings
  <2>1. CASE pow[p] \notin used /\ used' = used \cup {pow[p]} /\ Answer(p, "accepted")
             /\ burnedAt' = [burnedAt EXCEPT ![p] = clock]
    <3>1. (ChallengeTypeOK /\ VerifiedIsIssued /\ WinnersDone /\ AnsweredIsDone /\ CutPast /\ RowOfWinner)'
      BY <2>1
    <3>2. RowHasItsPost' /\ ReplayIsReal'
      BY <2>1 DEF RowHasItsPost, ReplayIsReal
    <3>3. \A q \in Posts : q # p /\ verdict[q] = "accepted" /\ pow[q] = pow[p]
                             => clock > Expiry(pow[p])
      BY <2>1
    <3>4. OneClaimWhileItLives'
      BY <2>1, <3>3
    <3>5. QED
      BY <3>1, <3>2, <3>4
  <2>2. CASE pow[p] \in used /\ Answer(p, "used") /\ used' = used /\ burnedAt' = burnedAt
    <3>1. PICK o \in Posts : pow[o] = pow[p] /\ verdict[o] \in {"accepted", "error"}
      BY <2>2 DEF RowHasItsPost
    <3>2. o # p
      BY <3>1
    <3>3. RowHasItsPost' /\ ReplayIsReal'
      BY <2>2, <3>1, <3>2 DEF RowHasItsPost, ReplayIsReal
    <3>4. QED
      BY <2>2, <3>3
  <2>3. CASE used' \in {used, used \cup {pow[p]}} /\ burnedAt' = burnedAt /\ Answer(p, "error")
    <3>1. RowHasItsPost' /\ ReplayIsReal'
      BY <2>3 DEF RowHasItsPost, ReplayIsReal
    <3>2. QED
      BY <2>3, <3>1
  <2>4. QED
    BY <2>1, <2>2, <2>3
<1>7. CASE Purge
  BY <1>7 DEF Purge, Expired, RowHasItsPost, ReplayIsReal
<1>8. CASE Crash
  <2> USE <1>8 DEF Crash, Burning, Stages, Endings
  <2>1. RowHasItsPost'
    BY DEF RowHasItsPost
  <2>2. ReplayIsReal'
    BY DEF ReplayIsReal
  <2>3. QED
    BY <2>1, <2>2
<1>9. CASE Tick
  BY <1>9 DEF Tick, RowHasItsPost, ReplayIsReal
<1>10. CASE UNCHANGED challengeVars
  BY <1>10 DEF challengeVars, RowHasItsPost, ReplayIsReal
<1>11. QED
  BY <1>1, <1>2, <1>3, <1>4, <1>5, <1>6, <1>7, <1>8, <1>9, <1>10 DEF ChallengeNext

\* The invariant of the challenges.
LEMMA ChallengeInvariant == ChallengeSpec => []ChallengeInv
  BY ChallengeStarts, ChallengeStep, PTL DEF ChallengeSpec

\* The type invariant, for every set of POSTs and challenges and every life.
THEOREM ChallengeTypes == ChallengeSpec => []ChallengeTypeOK
  BY ChallengeInvariant, PTL DEF ChallengeInv

\* One POST at most gets its claim for a living challenge (pow.ts: the insert
\* is the mutex), whatever purges, restarts and lost answers come between.
THEOREM OneClaim == ChallengeSpec => []OneClaimWhileItLives
  BY ChallengeInvariant, PTL DEF ChallengeInv

\* Nobody is turned away as a replay by his own solution: the row in the way is
\* of another POST, which got its claim or lost its answer (pow.ts, the table
\* read before the gates and written behind them).
THEOREM ReplaysAreReal == ChallengeSpec => []ReplayIsReal
  BY ChallengeInvariant, PTL DEF ChallengeInv

-----------------------------------------------------------------------------
(* NodeView: what the shared memory of our tip is worth when overlapping     *)
(* reads have landed in any order.  Our tip only grows, so a height is       *)
(* reached once, and every age that is counted from that moment bounds every *)
(* other one.  A reference says no more than the network has, so what was    *)
(* remembered of it is no more than the network had.                         *)

\* The records as records, and which heights may be remembered at all.
NodeShapes ==
    /\ attempt \in [Readers -> Nat]
    /\ lastTip # Unknown =>
          /\ lastTip \in [height : NodeHeights, age : Ages, outside : NodeHeights \union {Unknown}, net : NodeHeights]
          /\ lastTip.height <= node
    /\ \A r \in Readers : heardHeight[r] <= node

\* The memory of a height is no older than the node's stay at it.
MemoryOfNode == lastTip # Unknown /\ lastTip.height = node => lastTip.age <= nodeStill

\* Nor than a reading of it that is still under way.
MemoryOfReading ==
    lastTip # Unknown => \A r \in Readers :
        phase[r] = "heard" /\ heardHeight[r] = lastTip.height
        => lastTip.age <= heardStill[r] + spent[r]

\* What is remembered of the reference was no more than the network had then.
MemoryOfNet == lastTip # Unknown /\ lastTip.outside # Unknown => lastTip.outside <= lastTip.net

NodeInv ==
    /\ NodeTypeOK
    /\ NodeShapes
    /\ MemoryOfNode
    /\ MemoryOfReading
    /\ MemoryOfNet
    /\ NullMeansAFailedRead

\* The longest read is as long as one attempt at least.
LEMMA ReadLasts == ReadMax \in Nat /\ AttemptLimit <= ReadMax /\ StillCap \in Nat /\ Stall <= StillCap
<1>1. \A a, n \in Nat : n >= 1 => a * n \in Nat /\ a <= a * n
  OBVIOUS
<1>2. ReadMax \in Nat /\ AttemptLimit <= ReadMax
  BY <1>1, NodeViewAssumption DEF ReadMax
<1>3. QED
  BY <1>2, NodeViewAssumption DEF StillCap

\* It holds at the start.
LEMMA NodeStarts == NodeInit => NodeInv
  BY ReadLasts, NodeViewAssumption
  DEF NodeInit, NodeInv, NodeTypeOK, NodeShapes, MemoryOfNode, MemoryOfReading, MemoryOfNet,
      NullMeansAFailedRead, NodeHeights, Ages, Attempts, CellCap

\* Every age is counted up to the same cap.
LEMMA AgedTogether ==
  ASSUME NEW cap \in Nat, NEW n \in 0 .. cap
  PROVE  /\ Aged(n, cap) \in 0 .. cap /\ Aged(n, cap) <= n + 1 /\ n <= Aged(n, cap)
         /\ \A m \in 0 .. cap : n <= m => Aged(n, cap) <= Aged(m, cap)
  BY DEF Aged

\* The types and shapes, and a page that goes without a reading.
LEMMA NodeStepTypes ==
  NodeInv /\ [NodeNext]_nodeVars => NodeTypeOK' /\ NodeShapes' /\ NullMeansAFailedRead'
<1> SUFFICES ASSUME NodeInv, [NodeNext]_nodeVars
             PROVE  NodeTypeOK' /\ NodeShapes' /\ NullMeansAFailedRead'
  OBVIOUS
<1> USE NodeViewAssumption, ReadLasts
        DEF NodeInv, NodeTypeOK, NodeShapes, NullMeansAFailedRead, worldVars, readVars, pageVars, NodeHeights, Ages
<1>1. CASE NetworkMoves
  BY <1>1 DEF NetworkMoves
<1>2. CASE NodeFollows
  BY <1>2 DEF NodeFollows
<1>3. CASE ReferenceRefreshed
  BY <1>3 DEF ReferenceRefreshed
<1>4. CASE ReferenceLost
  BY <1>4 DEF ReferenceLost
<1>5. CASE TickNode
  <2>1. nodeStill' \in Ages
    BY <1>5, AgedTogether DEF TickNode
  <2>2. lastTip # Unknown => lastTip'.height = lastTip.height
           /\ lastTip' \in [height : NodeHeights, age : Ages, outside : NodeHeights \union {Unknown}, net : NodeHeights]
    BY <1>5, AgedTogether DEF TickNode
  <2>3. cell' \in 0 .. CellCap \union {Unknown}
    BY <1>5 DEF TickNode, Aged, CellCap
  <2>4. spent' \in [Readers -> 0 .. AttemptLimit]
    BY <1>5 DEF TickNode
  <2>5. outside' = Unknown \/ outside' \in [height : 0 .. net, age : 0 .. ReferenceAge, net : 0 .. net]
    BY <1>5 DEF TickNode
  <2>6. lastTip = Unknown => lastTip' = Unknown
    BY <1>5 DEF TickNode
  <2>7. UNCHANGED <<net, node, phase, attempt, heardHeight, heardStill, visit, failedRead>>
    BY <1>5 DEF TickNode
  <2>8. QED
    BY <2>1, <2>2, <2>3, <2>4, <2>5, <2>6, <2>7
<1>6. ASSUME NEW p \in Askers, ClaimAsks(p)
      PROVE  NodeTypeOK' /\ NodeShapes' /\ NullMeansAFailedRead'
  BY <1>6 DEF ClaimAsks, Ask, Readers
<1>7. ASSUME NEW r \in Readers, NodeAnswers(r)
      PROVE  NodeTypeOK' /\ NodeShapes' /\ NullMeansAFailedRead'
  BY <1>7 DEF NodeAnswers
<1>8. ASSUME NEW r \in Readers, ReadLands(r)
      PROVE  NodeTypeOK' /\ NodeShapes' /\ NullMeansAFailedRead'
  BY <1>8 DEF ReadLands, Freed, Remembered, Stands, Sample, OutsideHeight, Release, Attempts, CellCap
<1>9. ASSUME NEW r \in Readers, Retries(r)
      PROVE  NodeTypeOK' /\ NodeShapes' /\ NullMeansAFailedRead'
  BY <1>9 DEF Retries, Attempts
<1>10. ASSUME NEW r \in Readers, ReadFails(r)
       PROVE  NodeTypeOK' /\ NodeShapes' /\ NullMeansAFailedRead'
  BY <1>10 DEF ReadFails, Freed, Release, Attempts
<1>11. ASSUME NEW v \in Visitors, Visit(v)
       PROVE  NodeTypeOK' /\ NodeShapes' /\ NullMeansAFailedRead'
  BY <1>11 DEF Visit, VisitServed, VisitWaits, StartPageRead, Ask, Readers
<1>12. CASE UNCHANGED nodeVars
  BY <1>12 DEF nodeVars
<1>13. QED
  BY <1>1, <1>2, <1>3, <1>4, <1>5, <1>6, <1>7, <1>8, <1>9, <1>10, <1>11, <1>12 DEF NodeNext, Chain, StatusRead

\* The three bounds on the memory's age.
LEMMA NodeStepMemory ==
  NodeInv /\ [NodeNext]_nodeVars => MemoryOfNode' /\ MemoryOfReading' /\ MemoryOfNet'
<1> SUFFICES ASSUME NodeInv, [NodeNext]_nodeVars
             PROVE  MemoryOfNode' /\ MemoryOfReading' /\ MemoryOfNet'
  OBVIOUS
<1> USE NodeViewAssumption, ReadLasts
        DEF NodeInv, NodeTypeOK, NodeShapes, MemoryOfNode, MemoryOfReading, MemoryOfNet,
            worldVars, readVars, pageVars, NodeHeights, Ages
<1>1. CASE NetworkMoves
  BY <1>1 DEF NetworkMoves
<1>2. CASE NodeFollows
  BY <1>2 DEF NodeFollows
<1>3. CASE ReferenceRefreshed
  BY <1>3 DEF ReferenceRefreshed
<1>4. CASE ReferenceLost
  BY <1>4 DEF ReferenceLost
<1>5. CASE TickNode
  <2>1. CASE lastTip = Unknown
    BY <1>5, <2>1 DEF TickNode
  <2>2. CASE lastTip # Unknown
    <3>1. /\ lastTip'.height = lastTip.height /\ lastTip'.outside = lastTip.outside
          /\ lastTip'.net = lastTip.net /\ lastTip'.age = Aged(lastTip.age, StillCap)
      BY <1>5, <2>2 DEF TickNode
    <3>2. /\ lastTip.age <= nodeStill => lastTip'.age <= nodeStill'
          /\ lastTip'.age <= lastTip.age + 1 /\ lastTip'.age \in Nat
      BY <1>5, <2>2, <3>1, AgedTogether DEF TickNode
    <3>3. \A r \in Readers : phase[r] = "heard" => spent'[r] = spent[r] + 1
      BY <1>5 DEF TickNode
    <3>4. UNCHANGED <<node, phase, heardHeight, heardStill>>
      BY <1>5 DEF TickNode
    <3>5. MemoryOfNode' /\ MemoryOfReading' /\ MemoryOfNet'
      BY <2>2, <3>1, <3>2, <3>3, <3>4
    <3>6. QED
      BY <3>5
  <2>3. QED
    BY <2>1, <2>2
<1>6. ASSUME NEW p \in Askers, ClaimAsks(p)
      PROVE  MemoryOfNode' /\ MemoryOfReading' /\ MemoryOfNet'
  BY <1>6 DEF ClaimAsks, Ask, Readers
<1>7. ASSUME NEW r \in Readers, NodeAnswers(r)
      PROVE  MemoryOfNode' /\ MemoryOfReading' /\ MemoryOfNet'
  BY <1>7 DEF NodeAnswers
<1>8. ASSUME NEW r \in Readers, ReadLands(r)
      PROVE  MemoryOfNode' /\ MemoryOfReading' /\ MemoryOfNet'
  <2>1. CASE Stands(heardHeight[r])
    BY <1>8, <2>1 DEF ReadLands, Freed, Remembered, Stands
  <2>2. CASE ~Stands(heardHeight[r])
    <3>1. lastTip' = Sample(heardHeight[r])
      BY <1>8, <2>2 DEF ReadLands, Remembered
    <3>2. lastTip'.age = 0
      BY <3>1 DEF Sample
    <3>3. UNCHANGED worldVars /\ \A q \in Readers : phase'[q] = "heard" => heardStill'[q] \in Nat /\ spent'[q] \in Nat
      BY <1>8 DEF ReadLands, Freed
    <3>4. MemoryOfNode' /\ MemoryOfReading'
      BY <3>2, <3>3
    <3>5. MemoryOfNet'
      BY <3>1 DEF Sample, OutsideHeight
    <3>6. QED
      BY <3>4, <3>5
  <2>3. QED
    BY <2>1, <2>2
<1>9. ASSUME NEW r \in Readers, Retries(r)
      PROVE  MemoryOfNode' /\ MemoryOfReading' /\ MemoryOfNet'
  BY <1>9 DEF Retries
<1>10. ASSUME NEW r \in Readers, ReadFails(r)
       PROVE  MemoryOfNode' /\ MemoryOfReading' /\ MemoryOfNet'
  BY <1>10 DEF ReadFails, Freed
<1>11. ASSUME NEW v \in Visitors, Visit(v)
       PROVE  MemoryOfNode' /\ MemoryOfReading' /\ MemoryOfNet'
  BY <1>11 DEF Visit, VisitServed, VisitWaits, StartPageRead, Ask, Readers
<1>12. CASE UNCHANGED nodeVars
  BY <1>12 DEF nodeVars
<1>13. QED
  BY <1>1, <1>2, <1>3, <1>4, <1>5, <1>6, <1>7, <1>8, <1>9, <1>10, <1>11, <1>12 DEF NodeNext, Chain, StatusRead

\* The invariant of the node's view.
LEMMA NodeInvariant == NodeSpec => []NodeInv
<1>1. NodeInv /\ [NodeNext]_nodeVars => NodeInv'
  BY NodeStepTypes, NodeStepMemory DEF NodeInv
<1>2. QED
  BY <1>1, NodeStarts, PTL DEF NodeSpec

\* The types, for any number of claims, pages and attempts.
THEOREM NodeTypes == NodeSpec => []NodeTypeOK
  BY NodeInvariant, PTL DEF NodeInv

\* A page that shows no reading had a read fail while it waited
\* (nodeStatusCache.ts, the one read that all pages share).
THEOREM NullIsAFailure == NodeSpec => []NullMeansAFailedRead
  BY NodeInvariant, PTL DEF NodeInv

\* However reads overlap and in whatever order they land: a node called stalled
\* has stood; and one that stood as long is excused only if the network moved by
\* no more, since its tip did, than the reference that speaks for it lags, so by
\* an honest one only if the network stood too (tipProgress.ts, one memory for all
\* readers; externalTip.ts, what the age of an answer cannot tell).
THEOREM StallsAreTrue == NodeSpec => StallsAreJudged
<1>1. NodeInv /\ [NodeNext]_nodeVars
      => [\A r \in Readers : Judged(r) => StallIsReal(r) /\ ExcuseIsWorthItsReference(r)]_nodeVars
  <2> SUFFICES ASSUME NodeInv, NEW r \in Readers, Judged(r)
               PROVE  StallIsReal(r) /\ ExcuseIsWorthItsReference(r)
    OBVIOUS
  <2> USE NodeViewAssumption, ReadLasts
          DEF NodeInv, NodeTypeOK, NodeShapes, Judged, Stands, Stalled, NodeHeights, Ages
  <2>1. StallIsReal(r)
    BY DEF StallIsReal, MemoryOfReading
  <2>2. ExcuseIsWorthItsReference(r)
    BY DEF ExcuseIsWorthItsReference, Lag, MemoryOfNet, NetworkQuiet, OutsideHeight
  <2>3. QED
    BY <2>1, <2>2
<1>2. QED
  BY <1>1, NodeInvariant, PTL DEF NodeSpec, StallsAreJudged

-----------------------------------------------------------------------------
(* TipReferences: why one whole attempt fits into the wait of a claim, and   *)
(* how far the network can have moved while an answer grew old.              *)

\* A wait is of claims with a reading that polled in time.
WaitsAreShort ==
    \A c \in Claims :
        /\ gate[c] = "idle" => waited[c] = 0
        /\ gate[c] = "waiting" => seen[c] # Nothing
        /\ c \in polled => gate[c] = "waiting" /\ waited[c] < OracleWait

\* A claim that has not heard of an attempt waits for the one under way, or
\* for the gap behind the last one.
AttemptInTime ==
    \A c \in Claims : gate[c] = "waiting" /\ c \notin heard =>
        /\ asking => waited[c] <= elapsed + MinAttemptGap
        /\ ~asking => waited[c] <= sinceAttempt
        /\ c \in polled /\ ~asking => sinceAttempt < MinAttemptGap

\* The network mines a block a tick at the most, from an honest answer on.
HonestAnswers ==
    \A s \in Honest :
        /\ said[s] \in Nat => asking /\ tip <= said[s] + elapsed
        /\ ref[s] # Nothing /\ ref[s].age <= MaxAge => tip <= ref[s].height + ref[s].age + AttemptMax

TipInv ==
    /\ TipTypeOK
    /\ WaitsAreShort
    /\ AttemptInTime
    /\ HonestAnswers
    /\ AskedInFull

\* The lengths that the wait is made of.
LEMMA WaitLengths ==
  /\ AttemptMax \in Nat /\ 0 \in 0 .. AttemptMax /\ OracleWait \in Nat
  /\ \A s \in Sources : Limit[s] \in Nat /\ Limit[s] <= AttemptMax
  /\ AttemptMax + MinAttemptGap < OracleWait
<1>1. /\ Limit[Hosh] \in Nat /\ Limit[Direct] \in Nat /\ MinAttemptGap \in Nat
      /\ Limit[Hosh] >= 1 /\ Limit[Direct] >= 1
  BY TipAssumption DEF Sources
<1>2. \A s \in Sources : s = Hosh \/ s = Direct
  BY DEF Sources
<1>3. QED
  BY <1>1, <1>2 DEF AttemptMax, OracleWait

\* Neither null nor the question still open is a height, nor an answer.
LEMMA NothingIsNone ==
  /\ Nothing # Pending /\ Nothing \notin Heights /\ Pending \notin Heights
  /\ Nothing \notin [height : Heights, age : 0 .. MaxAge + 1]
  /\ MaxTip \in Nat /\ MaxAge \in Nat /\ MinAttemptGap \in Nat /\ LagBudget \in Nat /\ WalletBudget \in Nat
<1>1. Heights \subseteq Nat /\ 0 .. MaxAge + 1 \subseteq Nat
  BY TipAssumption DEF Heights
<1>2. [height : Heights, age : 0 .. MaxAge + 1] \subseteq [height : Nat, age : Nat]
  BY <1>1
<1>3. QED
  BY <1>1, <1>2, TipAssumption

\* It holds at the start.
LEMMA TipStarts == TipInit => TipInv
<1> SUFFICES ASSUME TipInit PROVE TipInv
  OBVIOUS
<1>1. TipTypeOK
  <2>1. 1 \in Heights /\ Nothing \in Entries /\ Nothing \in NodeReadings
    BY TipAssumption DEF Heights, Entries, NodeReadings
  <2>2. 0 \in 0 .. AttemptMax /\ 0 \in 0 .. OracleWait /\ MinAttemptGap \in 0 .. MinAttemptGap
    BY NothingIsNone, WaitLengths
  <2>3. QED
    BY <2>1, <2>2 DEF TipInit, TipTypeOK
<1>2. WaitsAreShort /\ AttemptInTime /\ AskedInFull
  BY WaitLengths DEF TipInit, WaitsAreShort, AttemptInTime, AskedInFull
<1>3. HonestAnswers
  BY TipAssumption DEF TipInit, HonestAnswers
<1>4. QED
  BY <1>1, <1>2, <1>3 DEF TipInv

\* The reference is the highest of those that may still speak, or nothing.
LEMMA TheReference ==
  ASSUME TipTypeOK
  PROVE  /\ ReferenceTip = Nothing <=> Usable = {}
         /\ ReferenceTip # Nothing => ReferenceTip \in Heights
         /\ \A s \in Usable : ref[s].height <= ReferenceTip
<1> DEFINE spoken == {ref[s].height : s \in Usable}
<1>1. Usable \subseteq {Hosh, Direct} /\ \A s \in Usable : ref[s].height \in Heights
  BY DEF Usable, TipTypeOK, Entries, Sources
<1>2. ASSUME Usable # {}
      PROVE  \E h \in spoken : \A s \in Usable : ref[s].height <= h
  <2>1. PICK s \in Usable : TRUE
    BY <1>2
  <2>2. CASE Usable = {s}
    BY <1>1, <2>2 DEF Heights
  <2>3. CASE Usable # {s}
    <3>1. PICK o \in Usable : o # s
      BY <2>1, <2>3
    <3>2. \A u \in Usable : u = s \/ u = o
      BY <1>1, <2>1, <3>1
    <3>3. ref[s].height \in Int /\ ref[o].height \in Int
      BY <1>1 DEF Heights
    <3>4. CASE ref[s].height <= ref[o].height
      BY <3>2, <3>3, <3>4
    <3>5. CASE ref[o].height <= ref[s].height
      BY <3>2, <3>3, <3>5
    <3>6. QED
      BY <3>3, <3>4, <3>5
  <2>4. QED
    BY <2>2, <2>3
<1>3. Nothing \notin Heights
  BY TipAssumption DEF Heights
<1>4. ASSUME Usable # {}
      PROVE  ReferenceTip \in spoken /\ \A s \in Usable : ref[s].height <= ReferenceTip
  BY <1>2, <1>4 DEF ReferenceTip
<1>5. Usable = {} => ReferenceTip = Nothing
  BY DEF ReferenceTip
<1>6. QED
  BY <1>1, <1>3, <1>4, <1>5

\* What the two gates make of a reading and a reference.
LEMMA Judgement ==
  ASSUME NEW reading \in NodeReadings \ {Nothing}, NEW given \in Heights \union {Nothing}
  PROVE  /\ Judge(reading, given) \in Verdicts
         /\ Judge(reading, given) = "unverifiable" => given = Nothing
         /\ Judge(reading, given) = "served" =>
               /\ given # Nothing /\ given <= reading.node + LagBudget
               /\ reading.node <= reading.wallet + WalletBudget
<1>1. reading.node \in Nat /\ reading.wallet \in Nat /\ reading.node # Nothing /\ reading # Nothing
  BY TipAssumption DEF NodeReadings, Heights
<1>2. ChainFreshness(reading.node, given) \in {"unverifiable", "unsafe", "safe"}
  BY DEF ChainFreshness
<1>3. ChainFreshness(reading.node, given) = "unverifiable" => given = Nothing
  BY <1>1, TipAssumption DEF ChainFreshness
<1>4. ChainFreshness(reading.node, given) = "safe" => given # Nothing /\ given <= reading.node + LagBudget
  BY <1>1, TipAssumption DEF ChainFreshness, Heights
<1>5. QED
  BY <1>1, <1>2, <1>3, <1>4 DEF Judge, WalletLagSafe, Verdicts

\* What a read may set off: an attempt, or nothing.
LEMMA MayAsk ==
  ASSUME TipInv, NEW wanted \in BOOLEAN, RefreshIf(wanted)
  PROVE  /\ ref' = ref
         /\ \/ UNCHANGED refVars
            \/ /\ ~asking /\ asking' = TRUE /\ elapsed' = 0 /\ sinceAttempt' = 0 /\ sinceAttempt = MinAttemptGap
               /\ said' = [s \in Sources |-> Pending]
         /\ wanted => asking' \/ sinceAttempt' < MinAttemptGap
<1>1. sinceAttempt \in 0 .. MinAttemptGap /\ MinAttemptGap \in Nat
  BY NothingIsNone DEF TipInv, TipTypeOK
<1>2. CASE wanted /\ MayStart
  BY <1>1, <1>2 DEF RefreshIf, Refresh, MayStart
<1>3. CASE ~(wanted /\ MayStart)
  BY <1>1, <1>3 DEF RefreshIf, MayStart, refVars
<1>4. QED
  BY <1>2, <1>3

\* An answer grows old.
LEMMA Aging ==
  ASSUME NEW entry \in Entries
  PROVE  /\ AgedEntry(entry) \in Entries
         /\ AgedEntry(entry) # Nothing =>
               /\ entry # Nothing /\ AgedEntry(entry).height = entry.height
               /\ AgedEntry(entry).age <= MaxAge =>
                     entry.age <= MaxAge /\ AgedEntry(entry).age = entry.age + 1
<1>1. CASE entry = Nothing
  BY <1>1 DEF AgedEntry
<1>2. CASE entry # Nothing
  <2>1. entry \in [height : Heights, age : 0 .. MaxAge + 1] /\ MaxAge \in Nat
    BY <1>2, NothingIsNone DEF Entries
  <2>2. CASE entry.age > MaxAge
    BY <1>2, <2>1, <2>2 DEF AgedEntry
  <2>3. CASE ~(entry.age > MaxAge)
    <3>1. AgedEntry(entry) = [entry EXCEPT !.age = @ + 1]
      BY <1>2, <2>3 DEF AgedEntry
    <3>2. AgedEntry(entry) \in [height : Heights, age : 0 .. MaxAge + 1]
      BY <2>1, <2>3, <3>1
    <3>3. AgedEntry(entry).height = entry.height /\ AgedEntry(entry).age = entry.age + 1
      BY <2>1, <3>1
    <3>4. QED
      BY <1>2, <2>1, <2>3, <3>2, <3>3 DEF Entries
  <2>4. QED
    BY <2>2, <2>3
<1>3. QED
  BY <1>1, <1>2

\* A tick: no wait and no attempt outlasts what it is made of.
LEMMA TimeKeeps == TipInv /\ TimePasses => TipInv'
<1> SUFFICES ASSUME TipInv, TimePasses
             PROVE  TipInv'
  OBVIOUS
<1> USE DEF TipInv, TipTypeOK
<1>1. ref' \in [Sources -> Entries]
  BY Aging DEF TimePasses
<1>2. \A s \in Sources : ref'[s] # Nothing =>
         /\ ref[s] # Nothing /\ ref'[s].height = ref[s].height
         /\ ref'[s].age <= MaxAge => ref[s].age <= MaxAge /\ ref'[s].age = ref[s].age + 1
  BY Aging DEF TimePasses
<1>3. tip' \in Heights /\ tip' <= tip + 1
  BY NothingIsNone DEF TimePasses, Heights
<1>4. /\ elapsed' = IF asking THEN elapsed + 1 ELSE elapsed
      /\ asking => \E s \in Sources : elapsed < Limit[s]
  BY DEF TimePasses, NothingDue
<1>5. elapsed' \in 0 .. AttemptMax
  BY <1>4, WaitLengths
<1>6. \A c \in Claims : gate[c] = "waiting" => c \in polled /\ waited'[c] = waited[c] + 1
  BY DEF TimePasses, NothingDue
<1>7. \A c \in Claims : gate[c] # "waiting" => waited'[c] = waited[c]
  BY DEF TimePasses
<1>8. waited' \in [Claims -> 0 .. OracleWait]
  <2>1. \A c \in Claims : waited'[c] \in 0 .. OracleWait
    BY <1>6, <1>7, WaitLengths DEF WaitsAreShort
  <2>2. QED
    BY <2>1 DEF TimePasses
<1>9. UNCHANGED <<asking, said, gate, seen, heard>> /\ polled' = {}
  BY DEF TimePasses
<1>10. sinceAttempt' = (IF sinceAttempt < MinAttemptGap THEN sinceAttempt + 1 ELSE sinceAttempt)
  BY DEF TimePasses
<1>11. TipTypeOK'
  BY <1>1, <1>3, <1>5, <1>8, <1>9, <1>10, NothingIsNone
<1>12. WaitsAreShort' /\ AskedInFull'
  BY <1>7, <1>9 DEF WaitsAreShort, AskedInFull
<1>13. AttemptInTime'
  BY <1>4, <1>6, <1>9, <1>10, NothingIsNone, WaitLengths DEF AttemptInTime
<1>14. HonestAnswers'
  <2> SUFFICES ASSUME NEW s \in Honest
               PROVE  /\ said'[s] \in Nat => asking' /\ tip' <= said'[s] + elapsed'
                      /\ ref'[s] # Nothing /\ ref'[s].age <= MaxAge
                         => tip' <= ref'[s].height + ref'[s].age + AttemptMax
    BY DEF HonestAnswers
  <2>1. s \in Sources
    BY TipAssumption
  <2>2. tip \in Nat /\ tip' \in Nat /\ elapsed \in Nat /\ AttemptMax \in Nat
    BY <1>3, WaitLengths DEF Heights
  <2>3. said[s] \in Nat => asking /\ tip <= said[s] + elapsed
    BY DEF HonestAnswers
  <2>4. ref[s] # Nothing => ref[s].height \in Nat /\ ref[s].age \in Nat
    BY <2>1 DEF Entries, Heights
  <2>5. ref[s] # Nothing /\ ref[s].age <= MaxAge => tip <= ref[s].height + ref[s].age + AttemptMax
    BY DEF HonestAnswers
  <2>6. QED
    BY <1>2, <1>3, <1>4, <1>9, <2>1, <2>2, <2>3, <2>4, <2>5
<1>15. QED
  BY <1>11, <1>12, <1>13, <1>14

\* An attempt begins, is answered and lands.
LEMMA AttemptKeeps == TipInv /\ (SomebodyReads \/ Attempt) => TipInv'
<1> SUFFICES ASSUME TipInv, SomebodyReads \/ Attempt
             PROVE  TipInv'
  OBVIOUS
<1> USE NothingIsNone, WaitLengths
        DEF TipInv, TipTypeOK, WaitsAreShort, AttemptInTime, AskedInFull, gateVars
<1>1. CASE SomebodyReads
  <2>1. HonestAnswers'
    BY <1>1, TipAssumption DEF SomebodyReads, Refresh, HonestAnswers
  <2>2. QED
    BY <1>1, <2>1 DEF SomebodyReads, Refresh, MayStart
<1>2. CASE Lands
  <2>1. ref' \in [Sources -> Entries]
    <3>1. \A s \in Sources : Kept(s) \in Entries
      BY <1>2 DEF Lands, Kept, Entries
    <3>2. QED
      BY <1>2, <3>1 DEF Lands
  <2>2. HonestAnswers'
    <3> SUFFICES ASSUME NEW s \in Honest
                 PROVE  /\ said'[s] \notin Nat
                        /\ ref'[s] # Nothing /\ ref'[s].age <= MaxAge
                           => tip' <= ref'[s].height + ref'[s].age + AttemptMax
      BY DEF HonestAnswers
    <3>1. s \in Sources
      BY TipAssumption
    <3>2. said'[s] = Nothing /\ tip' = tip /\ ref'[s] = Kept(s)
      BY <1>2, <3>1 DEF Lands
    <3>3. CASE said[s] = Nothing
      BY <3>2, <3>3, TipAssumption DEF Kept, HonestAnswers
    <3>4. CASE said[s] # Nothing
      <4>1. said[s] \in Heights
        BY <1>2, <3>1, <3>4 DEF Lands
      <4>2. said[s] \in Nat /\ tip \in Nat /\ elapsed \in Nat /\ elapsed <= AttemptMax
        BY <4>1 DEF Heights
      <4>3. tip <= said[s] + elapsed
        BY <4>2 DEF HonestAnswers
      <4>4. ref'[s].height = said[s] /\ ref'[s].age = 0
        BY <3>2, <3>4 DEF Kept
      <4>5. QED
        BY <3>2, <4>2, <4>3, <4>4, TipAssumption
    <3>5. QED
      BY <3>3, <3>4
  <2>3. TipTypeOK'
    <3>1. said' \in [Sources -> Heights \union {Nothing, Pending}] /\ heard' \subseteq Claims
      BY <1>2 DEF Lands
    <3>2. elapsed' \in 0 .. AttemptMax /\ asking' \in BOOLEAN
      BY <1>2 DEF Lands
    <3>3. UNCHANGED <<tip, sinceAttempt, gate, seen, waited, polled>>
      BY <1>2 DEF Lands
    <3>4. QED
      BY <2>1, <3>1, <3>2, <3>3
  <2>4. WaitsAreShort' /\ AttemptInTime' /\ AskedInFull'
    BY <1>2 DEF Lands
  <2>5. QED
    BY <2>2, <2>3, <2>4
<1>3. ASSUME NEW s \in Sources, ReferenceAnswers(s)
      PROVE  TipInv'
  <2>1. PICK h \in Heights : (s \in Honest => h = tip) /\ said' = [said EXCEPT ![s] = h]
    BY <1>3 DEF ReferenceAnswers
  <2>2. asking /\ UNCHANGED <<tip, ref, asking, elapsed, sinceAttempt, gateVars>>
    BY <1>3 DEF ReferenceAnswers
  <2>3. HonestAnswers'
    <3>1. \A o \in Honest : o \in Sources
      BY TipAssumption
    <3>2. tip \in Nat /\ elapsed \in Nat
      BY DEF Heights
    <3>3. QED
      BY <2>1, <2>2, <3>1, <3>2 DEF HonestAnswers
  <2>4. QED
    BY <2>1, <2>2, <2>3
<1>4. ASSUME NEW s \in Sources, Fails(s)
      PROVE  TipInv'
  <2>1. HonestAnswers'
    BY <1>4, TipAssumption DEF Fails, HonestAnswers
  <2>2. QED
    BY <1>4, <2>1 DEF Fails
<1>5. QED
  BY <1>1, <1>2, <1>3, <1>4 DEF Attempt

\* What the references have said and are asked, when a claim asks.
LEMMA AskingKeeps ==
  ASSUME TipInv, NEW wanted \in BOOLEAN, RefreshIf(wanted), UNCHANGED tip
  PROVE  /\ asking' \in BOOLEAN /\ ref' \in [Sources -> Entries]
         /\ elapsed' \in 0 .. AttemptMax /\ sinceAttempt' \in 0 .. MinAttemptGap
         /\ said' \in [Sources -> Heights \union {Nothing, Pending}]
         /\ HonestAnswers'
<1> USE NothingIsNone, WaitLengths DEF TipInv, TipTypeOK
<1>1. CASE UNCHANGED refVars
  BY <1>1 DEF refVars, HonestAnswers
<1>2. CASE /\ asking' = TRUE /\ elapsed' = 0 /\ sinceAttempt' = 0 /\ ref' = ref
           /\ said' = [s \in Sources |-> Pending]
  <2>1. HonestAnswers'
    BY <1>2, TipAssumption DEF HonestAnswers
  <2>2. QED
    BY <1>2, <2>1
<1>3. QED
  BY <1>1, <1>2, MayAsk

\* A claim enters the gates, polls, and is judged.
LEMMA ClaimKeeps == ASSUME TipInv, NEW c \in Claims, Claim(c) PROVE TipInv'
<1>1. tip' = tip
  BY DEF Claim, EnterGates, Conclude, PollAgain
<1>2. ASSUME NEW wanted \in BOOLEAN, RefreshIf(wanted), gate' \in [Claims -> {"idle", "waiting"} \union Verdicts],
             seen' \in [Claims -> NodeReadings], waited' = waited, polled' \subseteq Claims, heard' = heard
      PROVE  TipTypeOK' /\ HonestAnswers'
  BY <1>1, <1>2, AskingKeeps DEF TipInv, TipTypeOK
<1> USE DEF TipInv, TipTypeOK, WaitsAreShort, AttemptInTime, AskedInFull
<1>3. CASE EnterGates(c)
  <2>1. RefreshIf(Old) /\ Old \in BOOLEAN /\ UNCHANGED <<tip, waited, polled, heard>> /\ gate[c] = "idle"
    BY <1>3 DEF EnterGates, Old
  <2>2. PICK reading \in NodeReadings :
          /\ seen' = [seen EXCEPT ![c] = reading]
          /\ gate' = [gate EXCEPT ![c] = IF reading = Nothing THEN "unverifiable" ELSE "waiting"]
    BY <1>3 DEF EnterGates
  <2>3. TipTypeOK' /\ HonestAnswers'
    BY <1>2, <2>1, <2>2 DEF Verdicts
  <2>4. WaitsAreShort' /\ AskedInFull'
    BY <2>1, <2>2, WaitLengths
  <2>5. AttemptInTime'
    <3>1. \/ UNCHANGED <<asking, elapsed, sinceAttempt>>
          \/ ~asking /\ asking' /\ elapsed' = 0 /\ sinceAttempt = MinAttemptGap
      BY <2>1, MayAsk DEF refVars
    <3>2. QED
      BY <2>1, <2>2, <3>1, NothingIsNone, WaitLengths
  <2>6. QED
    BY <2>3, <2>4, <2>5
<1>4. CASE Conclude(c)
  <2>1. /\ RefreshIf(Old) /\ Old \in BOOLEAN /\ UNCHANGED <<tip, seen, waited, polled, heard>>
        /\ gate[c] = "waiting" /\ c \notin polled
        /\ ReferenceTip # Nothing \/ waited[c] >= OracleWait
        /\ gate' = [gate EXCEPT ![c] = Judge(seen[c], ReferenceTip)]
    BY <1>4 DEF Conclude, Old
  <2>2. seen[c] \in NodeReadings \ {Nothing}
    BY <2>1
  <2>3. /\ Judge(seen[c], ReferenceTip) \in Verdicts
        /\ Judge(seen[c], ReferenceTip) = "unverifiable" => ReferenceTip = Nothing
    BY <2>2, Judgement, TheReference
  <2>4. TipTypeOK' /\ HonestAnswers'
    BY <1>2, <2>1, <2>3
  <2>5. ReferenceTip = Nothing => c \in heard
    BY <2>1, NothingIsNone, WaitLengths
  <2>6. WaitsAreShort' /\ AskedInFull'
    BY <2>1, <2>3, <2>5 DEF Verdicts
  <2>7. AttemptInTime'
    <3>1. \/ UNCHANGED <<asking, elapsed, sinceAttempt>>
          \/ ~asking /\ asking' /\ elapsed' = 0 /\ sinceAttempt = MinAttemptGap
      BY <2>1, MayAsk DEF refVars
    <3>2. gate'[c] # "waiting" /\ \A d \in Claims \ {c} : gate'[d] = gate[d]
      BY <2>1, <2>3 DEF Verdicts
    <3>3. QED
      BY <2>1, <3>1, <3>2, NothingIsNone, WaitLengths
  <2>8. QED
    BY <2>4, <2>6, <2>7
<1>5. CASE PollAgain(c)
  <2>1. RefreshIf(TRUE) /\ UNCHANGED <<tip, gate, seen, waited, heard>>
        /\ polled' = polled \union {c} /\ gate[c] = "waiting" /\ waited[c] < OracleWait
    BY <1>5 DEF PollAgain
  <2>2. TipTypeOK' /\ HonestAnswers'
    BY <1>2, <2>1
  <2>3. WaitsAreShort' /\ AskedInFull'
    BY <2>1
  <2>4. AttemptInTime'
    <3>1. \/ UNCHANGED <<asking, elapsed, sinceAttempt>>
          \/ ~asking /\ asking' /\ elapsed' = 0 /\ sinceAttempt = MinAttemptGap
      BY <2>1, MayAsk DEF refVars
    <3>2. asking' \/ sinceAttempt' < MinAttemptGap
      BY <2>1, MayAsk
    <3>3. QED
      BY <2>1, <3>1, <3>2, NothingIsNone, WaitLengths
  <2>5. QED
    BY <2>2, <2>3, <2>4
<1>6. QED
  BY <1>3, <1>4, <1>5 DEF Claim

\* The invariant of the references and their claims.
LEMMA TipInvariant == TipSpec => []TipInv
<1>1. TipInv /\ [TipNext]_tipVars => TipInv'
  <2>1. TipInv /\ UNCHANGED tipVars => TipInv'
    BY DEF TipInv, TipTypeOK, WaitsAreShort, AttemptInTime, HonestAnswers, AskedInFull, tipVars, refVars, gateVars
  <2>2. QED
    BY <2>1, TimeKeeps, AttemptKeeps, ClaimKeeps DEF TipNext
<1>2. QED
  BY <1>1, TipStarts, PTL DEF TipSpec

\* The types, for any number of claims and any limits.
THEOREM TipTypes == TipSpec => []TipTypeOK
  BY TipInvariant, PTL DEF TipInv

\* "We cannot verify" is never for want of asking: ORACLE_WAIT_MS covers the
\* gap behind the last attempt and the whole of one (externalTip.ts).
THEOREM RefusedAfterAsking == TipSpec => []AskedInFull
  BY TipInvariant, PTL DEF TipInv

\* With an honest reference among those that speak, a claim that both gates
\* serve is paid by a wallet within the two budgets of the network, up to the
\* age of the answer (shieldGate.ts, walletLagGate.ts on one reading).
THEOREM ServedIsNear == TipSpec => ServedNearTheTip
<1>1. TipInv /\ [TipNext]_tipVars
      => [\A c \in Claims :
             /\ gate[c] = "waiting" /\ gate'[c] = "served"
             /\ \E s \in Honest : s \in Usable
             => tip <= seen[c].wallet + WalletBudget + LagBudget + MaxAge + AttemptMax]_tipVars
  <2> SUFFICES ASSUME TipInv, TipNext, NEW c \in Claims, gate[c] = "waiting", gate'[c] = "served",
                      NEW s \in Honest, s \in Usable
               PROVE  tip <= seen[c].wallet + WalletBudget + LagBudget + MaxAge + AttemptMax
    BY DEF tipVars, gateVars
  <2>1. Conclude(c)
    BY DEF TipNext, TimePasses, SomebodyReads, Attempt, Lands, ReferenceAnswers, Fails, Claim, EnterGates,
           Conclude, PollAgain, gateVars, TipInv, TipTypeOK
  <2>2. seen[c] \in NodeReadings \ {Nothing} /\ Judge(seen[c], ReferenceTip) = "served"
    BY <2>1 DEF Conclude, TipInv, TipTypeOK, WaitsAreShort
  <2>3. /\ ReferenceTip # Nothing /\ ReferenceTip <= seen[c].node + LagBudget
        /\ seen[c].node <= seen[c].wallet + WalletBudget
    BY <2>2, Judgement, TheReference DEF TipInv
  <2>4. ref[s].height <= ReferenceTip /\ ReferenceTip \in Heights
    BY <2>3, TheReference DEF TipInv
  <2>5. tip <= ref[s].height + ref[s].age + AttemptMax
    BY DEF TipInv, HonestAnswers, Usable
  <2>6. ref[s].height \in Nat /\ ref[s].age \in Nat /\ ref[s].age <= MaxAge
    BY TipAssumption DEF Usable, TipInv, TipTypeOK, Entries, Heights
  <2>7. seen[c].node \in Nat /\ seen[c].wallet \in Nat /\ tip \in Nat
    BY <2>2 DEF NodeReadings, Heights, TipInv, TipTypeOK
  <2>8. QED
    BY <2>3, <2>4, <2>5, <2>6, <2>7, NothingIsNone, WaitLengths DEF Heights
<1>2. QED
  BY <1>1, TipInvariant, PTL DEF TipSpec, ServedNearTheTip

-----------------------------------------------------------------------------
(* ClaimPage: whichever way a submission begins, it is the only one.         *)

\* A submission under way is the one the flag stands for.
FlagOfJob == \A j \in Jobs : Running(j) => sending

\* The key of an address made here has been seen before the address gets
\* anywhere but into the field.
KeySeenFirst ==
    /\ genKey # None /\ keyKnown => genKey \in keySeen
    /\ field \in Made => field = genKey \/ field \in keySeen
    /\ hold \in Made => hold \in keySeen

\* No claim that is retried may have paid.
RetriesOwnNothing == \A j \in Jobs : ~job[j].mayPay

ClaimPageInv ==
    /\ PageTypeOK
    /\ FlagOfJob
    /\ KeySeenFirst
    /\ RetriesOwnNothing
    /\ SubmissionsAreSound

\* The names of the phases and of the first card, and the age of a new hold.
LEMMA PhaseNames ==
  /\ Bases \subseteq Phases /\ Cards \subseteq Phases /\ {"queued", "submitting"} \subseteq Phases
  /\ "error" \notin Bases /\ Holding \subseteq Bases
  /\ {"checking", "degraded", "empty", "fault", "ready"} \subseteq Bases
  /\ {"success", "cooldown", "error"} = Cards
  /\ "failed" \in FailKinds /\ 0 \in 0 .. HoldMax
  BY ClaimPageAssumption DEF Bases, Phases, Cards, Holding, FailKinds

\* No submission is one too, in the types.
LEMMA NoSubmission == NoJob \in Submission
  BY ClaimPageAssumption, PhaseNames DEF NoJob, Submission

\* It holds at the start.
LEMMA PageStarts == ClaimPageInit => ClaimPageInv
<1> SUFFICES ASSUME ClaimPageInit PROVE ClaimPageInv
  OBVIOUS
<1>1. PageTypeOK
  <2>1. job \in [Jobs -> Submission]
    BY NoSubmission DEF ClaimPageInit
  <2>2. "checking" \in Bases /\ "checking" \in Phases /\ "failed" \in FailKinds /\ 0 \in 0 .. HoldMax
    BY PhaseNames, ClaimPageAssumption DEF FailKinds
  <2>3. QED
    BY <2>1, <2>2 DEF ClaimPageInit, PageTypeOK
<1>2. \A j \in Jobs : job[j].at = "none" /\ job[j].address = None /\ ~job[j].mayPay
  BY DEF ClaimPageInit, NoJob
<1>3. None \notin Made
  BY ClaimPageAssumption DEF Addresses
<1>4. FlagOfJob /\ RetriesOwnNothing /\ OneClaimAtATime /\ NoKeylessClaim
  BY <1>2, <1>3 DEF FlagOfJob, RetriesOwnNothing, OneClaimAtATime, NoKeylessClaim, Running
<1>5. KeySeenFirst /\ NothingWasAsked
  BY <1>3 DEF ClaimPageInit, KeySeenFirst, NothingWasAsked
<1>6. QED
  BY <1>1, <1>4, <1>5 DEF ClaimPageInv, SubmissionsAreSound

\* A submission that begins is a submission, of its address and with no debt,
\* and no other one changes.
LEMMA LaunchOne ==
  ASSUME PageTypeOK, NEW address \in Addresses, NEW fire \in BOOLEAN, Launch(address, fire), base' \in Bases
  PROVE  \E new \in Jobs :
            /\ ~Running(new)
            /\ job' \in [Jobs -> Submission]
            /\ job'[new].address = address /\ job'[new].at # "none" /\ ~job'[new].mayPay
            /\ \A j \in Jobs \ {new} : job'[j] = job[j]
            /\ sending' = TRUE /\ inFlow' = TRUE /\ firing' \in BOOLEAN
            /\ shown' = "submitting" /\ holdDropped' = FALSE
<1> DEFINE new == CHOOSE j \in Jobs : ~Running(j)
<1>1. new \in Jobs /\ ~Running(new)
  BY DEF Launch
<1>2. PICK place \in {"solving", "posting"} :
        job' = [job EXCEPT ![new] = [NoJob EXCEPT !.at = place, !.address = address, !.fire = fire, !.from = base']]
  BY DEF Launch
<1> DEFINE begun == [NoJob EXCEPT !.at = place, !.address = address, !.fire = fire, !.from = base']
<1>3. begun.address = address /\ begun.at = place /\ begun.mayPay = FALSE
  BY DEF NoJob
<1>4. begun \in Submission
  <2>1. NoJob \in Submission
    BY NoSubmission
  <2>2. place \in {"none", "solving", "posting", "waiting"} /\ address \in Addresses \union {None}
    BY <1>2
  <2>3. QED
    BY <2>1, <2>2 DEF Submission
<1>5. job' \in [Jobs -> Submission] /\ job'[new] = begun /\ \A j \in Jobs \ {new} : job'[j] = job[j]
  BY <1>1, <1>2, <1>4 DEF PageTypeOK
<1>6. firing' \in BOOLEAN
  BY DEF Launch, PageTypeOK
<1>7. QED
  BY <1>1, <1>2, <1>3, <1>5, <1>6 DEF Launch

\* One that ends leaves the others, and none of them is left.
LEMMA EndOne ==
  ASSUME ClaimPageInv, NEW j \in Jobs, Running(j), Ended(j)
  PROVE  /\ job' \in [Jobs -> Submission] /\ firing' \in BOOLEAN /\ sending' = FALSE
         /\ \A i \in Jobs : job'[i].at = "none" /\ ~job'[i].mayPay /\ (i # j => job'[i] = job[i])
         /\ job'[j].address = None
<1>1. NoJob \in Submission
  BY NoSubmission
<1>2. job' = [job EXCEPT ![j] = NoJob] /\ sending' = FALSE /\ firing' = (firing /\ ~job[j].fire)
  BY DEF Ended
<1>3. \A i \in Jobs : i # j => job[i].at = "none"
  BY DEF ClaimPageInv, SubmissionsAreSound, OneClaimAtATime, Running
<1>4. \A i \in Jobs : ~job[i].mayPay
  BY DEF ClaimPageInv, RetriesOwnNothing
<1>5. NoJob.at = "none" /\ NoJob.mayPay = FALSE /\ NoJob.address = None
  BY DEF NoJob
<1>6. job \in [Jobs -> Submission] /\ firing \in BOOLEAN
  BY DEF ClaimPageInv, PageTypeOK
<1>7. QED
  BY <1>1, <1>2, <1>3, <1>4, <1>5, <1>6

\* What a launch does to the jobs.
LEMMA LaunchSound ==
  ASSUME ClaimPageInv, NEW address \in Addresses, NEW fire \in BOOLEAN, Launch(address, fire), base' \in Bases,
         ~sending, address \in Made => address \in keySeen, keySeen' = keySeen
  PROVE  /\ job' \in [Jobs -> Submission]
         /\ FlagOfJob' /\ RetriesOwnNothing' /\ SubmissionsAreSound'
         /\ sending' = TRUE /\ inFlow' = TRUE /\ firing' \in BOOLEAN
         /\ shown' = "submitting" /\ holdDropped' = FALSE
         /\ \E j \in Jobs : ~Running(j) /\ job'[j].address = address
<1>1. PICK new \in Jobs :
            /\ ~Running(new)
            /\ job' \in [Jobs -> Submission]
            /\ job'[new].address = address /\ job'[new].at # "none" /\ ~job'[new].mayPay
            /\ \A j \in Jobs \ {new} : job'[j] = job[j]
            /\ sending' = TRUE /\ inFlow' = TRUE /\ firing' \in BOOLEAN
            /\ shown' = "submitting" /\ holdDropped' = FALSE
  BY LaunchOne DEF ClaimPageInv
<1>2. \A j \in Jobs : ~Running(j)
  BY DEF ClaimPageInv, FlagOfJob
<1>3. OneClaimAtATime'
  BY <1>1, <1>2 DEF OneClaimAtATime, Running
<1>4. NoKeylessClaim'
  BY <1>1 DEF NoKeylessClaim, ClaimPageInv, SubmissionsAreSound
<1>5. NothingWasAsked'
  BY <1>1 DEF NothingWasAsked
<1>6. FlagOfJob' /\ RetriesOwnNothing'
  BY <1>1 DEF FlagOfJob, RetriesOwnNothing, ClaimPageInv
<1>7. QED
  BY <1>1, <1>3, <1>4, <1>5, <1>6 DEF SubmissionsAreSound

\* A step that leaves the jobs, the flag and the debt alone, and shows no new
\* error card, disturbs nothing but what it says.
LEMMA NoSubmissionMoves ==
  ASSUME ClaimPageInv, UNCHANGED <<job, sending, card, owed>>, keySeen \subseteq keySeen',
         shown' = "error" => shown = "error"
  PROVE  FlagOfJob' /\ RetriesOwnNothing' /\ SubmissionsAreSound'
  BY DEF ClaimPageInv, FlagOfJob, RetriesOwnNothing, SubmissionsAreSound, OneClaimAtATime, NoKeylessClaim,
         NothingWasAsked, Running

\* The statuses and the page's clock, with the effects they settle in.
LEMMA StatusKeeps == ClaimPageInv /\ (StatusLands \/ ClockTicks) => ClaimPageInv'
<1> SUFFICES ASSUME ClaimPageInv, StatusLands \/ ClockTicks
             PROVE  ClaimPageInv'
  OBVIOUS
<1>1. base' \in Bases
  BY DEF StatusLands, ClockTicks, ClaimPageInv, PageTypeOK
<1>2. CASE GiveUp
  <2>1. shown' = "error" => shown = "error"
    BY <1>1, <1>2, PhaseNames DEF GiveUp
  <2>2. UNCHANGED <<inFlow, sending, firing, field, genKey, keyKnown, keySeen, card, owed, job>>
        /\ hold' = None /\ heldFor' = 0 /\ holdDropped' \in BOOLEAN /\ shown' \in Phases
    BY <1>1, <1>2, PhaseNames DEF GiveUp, keyVars, cardVars, ClaimPageInv, PageTypeOK
  <2>3. FlagOfJob' /\ RetriesOwnNothing' /\ SubmissionsAreSound'
    BY <2>1, <2>2, NoSubmissionMoves
  <2>4. PageTypeOK' /\ KeySeenFirst'
    BY <1>1, <2>2, ClaimPageAssumption DEF ClaimPageInv, PageTypeOK, KeySeenFirst, Addresses
  <2>5. QED
    BY <2>3, <2>4 DEF ClaimPageInv
<1>3. CASE Fires(base') /\ Fire
  <2>1. /\ hold \in Addresses /\ (hold \in Made => hold \in keySeen)
        /\ hold' = None /\ heldFor' = 0 /\ field' = hold
        /\ UNCHANGED <<genKey, keyKnown, keySeen, card, owed>>
    BY <1>3 DEF Fires, Fire, keyVars, cardVars, ClaimPageInv, PageTypeOK, KeySeenFirst
  <2>2. KeySeenFirst'
    BY <2>1, ClaimPageAssumption DEF KeySeenFirst, Addresses, ClaimPageInv
  <2>3. CASE ~sending /\ Launch(hold, TRUE)
    <3>1. /\ job' \in [Jobs -> Submission]
          /\ FlagOfJob' /\ RetriesOwnNothing' /\ SubmissionsAreSound'
          /\ sending' = TRUE /\ inFlow' = TRUE /\ firing' \in BOOLEAN
          /\ shown' = "submitting" /\ holdDropped' = FALSE
      BY <1>1, <2>1, <2>3, LaunchSound
    <3>2. PageTypeOK'
      BY <1>1, <2>1, <3>1, PhaseNames DEF ClaimPageInv, PageTypeOK
    <3>3. QED
      BY <2>2, <3>1, <3>2 DEF ClaimPageInv
  <2>4. CASE /\ sending
             /\ shown' = IF inFlow THEN shown ELSE "ready"
             /\ holdDropped' = (holdDropped /\ inFlow)
             /\ UNCHANGED <<inFlow, sending, firing, job>>
    <3>1. FlagOfJob' /\ RetriesOwnNothing' /\ SubmissionsAreSound'
      BY <2>1, <2>4, NoSubmissionMoves
    <3>2. PageTypeOK'
      BY <1>1, <2>1, <2>4, PhaseNames DEF ClaimPageInv, PageTypeOK
    <3>3. QED
      BY <2>2, <3>1, <3>2 DEF ClaimPageInv
  <2>5. QED
    BY <1>3, <2>3, <2>4 DEF Fire
<1>4. CASE Rederive
  <2>1. Derived(base') \in Bases \union {"queued"}
    BY <1>1 DEF Derived
  <2>2. shown' \in Phases /\ (shown' = "error" => shown = "error")
    BY <1>4, <2>1, PhaseNames DEF Rederive, ClaimPageInv, PageTypeOK
  <2>3. UNCHANGED <<inFlow, sending, firing, hold, heldFor, field, genKey, keyKnown, keySeen, card, owed, job>>
        /\ holdDropped' \in BOOLEAN
    BY <1>4 DEF Rederive, keyVars, cardVars
  <2>4. FlagOfJob' /\ RetriesOwnNothing' /\ SubmissionsAreSound'
    BY <2>2, <2>3, NoSubmissionMoves
  <2>5. PageTypeOK' /\ KeySeenFirst'
    BY <1>1, <2>2, <2>3 DEF ClaimPageInv, PageTypeOK, KeySeenFirst
  <2>6. QED
    BY <2>4, <2>5 DEF ClaimPageInv
<1>5. CASE /\ heldFor < HoldMax /\ heldFor' = heldFor + 1 /\ UNCHANGED base
           /\ UNCHANGED <<shown, inFlow, sending, firing, hold, holdDropped, field, keyVars, cardVars, job>>
  <2>1. FlagOfJob' /\ RetriesOwnNothing' /\ SubmissionsAreSound'
    BY <1>5, NoSubmissionMoves DEF keyVars, cardVars
  <2>2. PageTypeOK' /\ KeySeenFirst'
    BY <1>5, ClaimPageAssumption DEF ClaimPageInv, PageTypeOK, KeySeenFirst, keyVars, cardVars
  <2>3. QED
    BY <2>1, <2>2 DEF ClaimPageInv
<1>6. QED
  BY <1>2, <1>3, <1>4, <1>5 DEF StatusLands, ClockTicks

\* The visitor's own steps.
LEMMA VisitorKeeps == ClaimPageInv /\ Visitor => ClaimPageInv'
<1> SUFFICES ASSUME ClaimPageInv, Visitor
             PROVE  ClaimPageInv'
  OBVIOUS
<1> USE DEF holdVars, keyVars, cardVars
<1>1. ASSUME Types \/ Generates \/ SeesKey \/ LeavesTheFlow \/ Queues \/ EditsAddress
      PROVE  FlagOfJob' /\ RetriesOwnNothing' /\ SubmissionsAreSound'
  <2>1. UNCHANGED <<job, sending, card, owed>> /\ keySeen \subseteq keySeen'
    BY <1>1 DEF Types, Generates, SeesKey, LeavesTheFlow, Queues, EditsAddress
  <2>2. shown' = "error" => shown = "error"
    BY <1>1 DEF Types, Generates, SeesKey, LeavesTheFlow, Queues, EditsAddress
  <2>3. QED
    BY <2>1, <2>2, NoSubmissionMoves
<1>2. base \in Bases /\ shown \in Phases /\ None \notin Made /\ Pasted \intersect Made = {}
  BY ClaimPageAssumption DEF ClaimPageInv, PageTypeOK, Addresses
<1>3. CASE Types
  BY <1>1, <1>2, <1>3 DEF Types, ClaimPageInv, PageTypeOK, KeySeenFirst, Addresses
<1>4. CASE Generates
  BY <1>1, <1>2, <1>4 DEF Generates, ClaimPageInv, PageTypeOK, KeySeenFirst, Addresses
<1>5. CASE SeesKey
  BY <1>1, <1>2, <1>5 DEF SeesKey, ClaimPageInv, PageTypeOK, KeySeenFirst
<1>6. CASE LeavesTheFlow
  BY <1>1, <1>2, <1>6, PhaseNames DEF LeavesTheFlow, ClaimPageInv, PageTypeOK, KeySeenFirst
<1>7. CASE Queues
  <2>1. field \in Addresses /\ (field \in Made => field \in keySeen)
    BY <1>7 DEF Queues, MaySubmit, KeyUnseen, ClaimPageInv, PageTypeOK, KeySeenFirst
  <2>2. QED
    BY <1>1, <1>7, <2>1, PhaseNames DEF Queues, ClaimPageInv, PageTypeOK, KeySeenFirst
<1>8. CASE Submits
  <2>1. field \in Addresses /\ (field \in Made => field \in keySeen) /\ ~sending
        /\ Launch(field, FALSE) /\ UNCHANGED <<base, hold, heldFor, field, genKey, keyKnown, keySeen, card, owed>>
    BY <1>8 DEF Submits, MaySubmit, KeyUnseen, ClaimPageInv, PageTypeOK, KeySeenFirst
  <2>2. /\ job' \in [Jobs -> Submission]
        /\ FlagOfJob' /\ RetriesOwnNothing' /\ SubmissionsAreSound'
        /\ sending' = TRUE /\ inFlow' = TRUE /\ firing' \in BOOLEAN
        /\ shown' = "submitting" /\ holdDropped' = FALSE
    BY <1>2, <2>1, LaunchSound
  <2>3. PageTypeOK' /\ KeySeenFirst'
    BY <2>1, <2>2, PhaseNames DEF ClaimPageInv, PageTypeOK, KeySeenFirst
  <2>4. QED
    BY <2>2, <2>3 DEF ClaimPageInv
<1>9. CASE StartsOver
  <2>1. /\ inFlow' = FALSE /\ field' = None /\ hold' = None /\ heldFor' = 0 /\ holdDropped' = FALSE
        /\ genKey' = None /\ keyKnown' = FALSE /\ card' = "failed" /\ owed' = FALSE
        /\ shown' = base
        /\ UNCHANGED <<base, sending, firing, keySeen, job>>
    BY <1>9 DEF StartsOver
  <2>2. PageTypeOK' /\ KeySeenFirst'
    BY <1>2, <2>1, PhaseNames DEF ClaimPageInv, PageTypeOK, KeySeenFirst
  <2>3. FlagOfJob' /\ RetriesOwnNothing' /\ SubmissionsAreSound'
    BY <1>2, <2>1, PhaseNames
    DEF ClaimPageInv, FlagOfJob, RetriesOwnNothing, SubmissionsAreSound, OneClaimAtATime, NoKeylessClaim,
        NothingWasAsked, Running
  <2>4. QED
    BY <2>2, <2>3 DEF ClaimPageInv
<1>10. CASE EditsAddress
  BY <1>1, <1>2, <1>10, PhaseNames DEF EditsAddress, ClaimPageInv, PageTypeOK, KeySeenFirst
<1>11. QED
  BY <1>3, <1>4, <1>5, <1>6, <1>7, <1>8, <1>9, <1>10 DEF Visitor

\* A reload keeps the hold and forgets the rest.
LEMMA ReloadKeeps == ClaimPageInv /\ Reload => ClaimPageInv'
<1> SUFFICES ASSUME ClaimPageInv, Reload
             PROVE  ClaimPageInv'
  OBVIOUS
<1>1. job' \in [Jobs -> Submission] /\ \A j \in Jobs : job'[j] = NoJob
  BY NoSubmission DEF Reload
<1>2. NoJob.at = "none" /\ NoJob.address = None /\ NoJob.mayPay = FALSE /\ None \notin Made
  BY ClaimPageAssumption DEF NoJob, Addresses
<1>3. shown' \in {"checking", "queued"}
  BY DEF Reload, Derived
<1>4. FlagOfJob' /\ RetriesOwnNothing' /\ SubmissionsAreSound'
  BY <1>1, <1>2, <1>3
  DEF FlagOfJob, RetriesOwnNothing, SubmissionsAreSound, OneClaimAtATime, NoKeylessClaim, NothingWasAsked, Running
<1>5. PageTypeOK'
  BY <1>1, <1>3, PhaseNames DEF Reload, ClaimPageInv, PageTypeOK
<1>6. KeySeenFirst'
  BY <1>2 DEF Reload, ClaimPageInv, KeySeenFirst
<1>7. QED
  BY <1>4, <1>5, <1>6 DEF ClaimPageInv

\* A submission that goes on stays the only one, and owes nothing before its end.
LEMMA Onward ==
  ASSUME ClaimPageInv, NEW j \in Jobs, Running(j), job' \in [Jobs -> Submission],
         \A i \in Jobs \ {j} : job'[i] = job[i],
         job'[j].address = job[j].address, job'[j].mayPay = job[j].mayPay,
         UNCHANGED <<shown, sending, card, owed, keySeen>>
  PROVE  FlagOfJob' /\ RetriesOwnNothing' /\ SubmissionsAreSound'
  BY DEF ClaimPageInv, FlagOfJob, RetriesOwnNothing, SubmissionsAreSound, OneClaimAtATime, NoKeylessClaim,
         NothingWasAsked, Running

\* One that ends leaves none, and its card is true if the claim may have paid
\* only under a card that says so.
LEMMA Ends ==
  ASSUME ClaimPageInv, NEW j \in Jobs, Running(j), Ended(j), keySeen' = keySeen,
         shown' = "error" /\ card' \in {"held", "busy", "cap", "bad", "pow"} => ~owed'
  PROVE  FlagOfJob' /\ RetriesOwnNothing' /\ SubmissionsAreSound' /\ job' \in [Jobs -> Submission]
         /\ firing' \in BOOLEAN /\ sending' = FALSE
<1>1. /\ job' \in [Jobs -> Submission] /\ firing' \in BOOLEAN /\ sending' = FALSE
      /\ \A i \in Jobs : job'[i].at = "none" /\ ~job'[i].mayPay /\ (i # j => job'[i] = job[i])
      /\ job'[j].address = None
  BY EndOne
<1>2. None \notin Made
  BY ClaimPageAssumption DEF Addresses
<1>3. QED
  BY <1>1, <1>2
  DEF ClaimPageInv, FlagOfJob, RetriesOwnNothing, SubmissionsAreSound, OneClaimAtATime, NoKeylessClaim,
      NothingWasAsked, Running

\* What a submission leaves alone.
LEMMA TheRest ==
  ASSUME ClaimPageInv, UNCHANGED <<base, holdVars, field, keyVars>>,
         shown' \in Phases, inFlow' \in BOOLEAN, sending' \in BOOLEAN, firing' \in BOOLEAN,
         card' \in FailKinds, owed' \in BOOLEAN, job' \in [Jobs -> Submission], holdDropped' = holdDropped
  PROVE  PageTypeOK' /\ KeySeenFirst'
  BY DEF holdVars, keyVars, ClaimPageInv, PageTypeOK, KeySeenFirst

\* The kinds of cards, and which of them may owe.
LEMMA CardKinds ==
  ASSUME NEW reply \in Replies \ {"paid", "limited", "empty", "sends"}
  PROVE  /\ FailKind(reply) \in FailKinds
         /\ FailKind(reply) \in {"held", "busy", "cap", "bad", "pow"} => reply \notin MayHavePaid
  BY DEF Replies, FailKind, FailKinds, MayHavePaid

\* A submission goes on, or ends.
LEMMA SubmitKeeps == ASSUME ClaimPageInv, NEW j \in Jobs, SubmitGoesOn(j) PROVE ClaimPageInv'
<1>1. /\ shown \in Phases /\ inFlow \in BOOLEAN /\ sending \in BOOLEAN /\ firing \in BOOLEAN
      /\ card \in FailKinds /\ owed \in BOOLEAN /\ job \in [Jobs -> Submission]
  BY DEF ClaimPageInv, PageTypeOK
<1>2. ~job[j].mayPay
  BY DEF ClaimPageInv, RetriesOwnNothing
<1>3. UNCHANGED <<base, holdVars, field, keyVars>> /\ holdDropped' = holdDropped /\ keySeen' = keySeen
  BY DEF SubmitGoesOn, Solved, SolveFails, Cancels, Answered, PostsAgain, holdVars, keyVars
<1>4. Running(j)
  BY DEF SubmitGoesOn, Solved, SolveFails, Cancels, Answered, PostsAgain, Running
<1>5. ASSUME NEW place \in {"posting", "waiting"}, NEW tries \in 0 .. RetryCap,
             job' = [job EXCEPT ![j].at = place, ![j].tries = tries],
             UNCHANGED <<shown, inFlow, sending, firing, cardVars>>
      PROVE  ClaimPageInv'
  <2>1. /\ job' \in [Jobs -> Submission] /\ \A i \in Jobs \ {j} : job'[i] = job[i]
        /\ job'[j].address = job[j].address /\ job'[j].mayPay = job[j].mayPay
    BY <1>1, <1>5 DEF Submission
  <2>2. FlagOfJob' /\ RetriesOwnNothing' /\ SubmissionsAreSound'
    BY <1>3, <1>4, <1>5, <2>1, Onward DEF cardVars
  <2>3. PageTypeOK' /\ KeySeenFirst'
    BY <1>1, <1>3, <1>5, <2>1, TheRest DEF cardVars
  <2>4. QED
    BY <2>2, <2>3 DEF ClaimPageInv
<1>6. ASSUME Ended(j), shown' \in Phases, inFlow' \in BOOLEAN, card' \in FailKinds, owed' \in BOOLEAN,
             shown' = "error" /\ card' \in {"held", "busy", "cap", "bad", "pow"} => ~owed'
      PROVE  ClaimPageInv'
  <2>1. FlagOfJob' /\ RetriesOwnNothing' /\ SubmissionsAreSound' /\ job' \in [Jobs -> Submission]
        /\ firing' \in BOOLEAN /\ sending' = FALSE
    BY <1>3, <1>4, <1>6, Ends
  <2>2. PageTypeOK' /\ KeySeenFirst'
    BY <1>3, <1>6, <2>1, TheRest
  <2>3. QED
    BY <2>1, <2>2 DEF ClaimPageInv
<1>7. CASE Solved(j) \/ PostsAgain(j)
  <2>1. job' = [job EXCEPT ![j].at = "posting", ![j].tries = job[j].tries]
    <3>1. job' = [job EXCEPT ![j].at = "posting"]
      BY <1>7 DEF Solved, PostsAgain
    <3>2. QED
      BY <1>1, <3>1 DEF Submission
  <2>2. UNCHANGED <<shown, inFlow, sending, firing, cardVars>> /\ job[j].tries \in 0 .. RetryCap
    BY <1>1, <1>7 DEF Solved, PostsAgain, cardVars, Submission
  <2>3. QED
    BY <1>5, <2>1, <2>2
<1>8. CASE SolveFails(j)
  <2>1. Ended(j) /\ shown' = "error" /\ card' = "pow" /\ owed' = FALSE /\ inFlow' = inFlow
    BY <1>1, <1>2, <1>8 DEF SolveFails, EndsWithCard, Submission
  <2>2. "pow" \in FailKinds /\ "error" \in Phases
    BY DEF FailKinds, Phases, Cards
  <2>3. QED
    BY <1>1, <1>6, <2>1, <2>2
<1>9. CASE Cancels(j)
  <2>1. Ended(j) /\ inFlow' = FALSE /\ shown' = job[j].from /\ UNCHANGED <<card, owed>>
    BY <1>9 DEF Cancels, cardVars
  <2>2. job[j].from \in Bases
    BY <1>1 DEF Submission
  <2>3. QED
    BY <1>1, <1>6, <2>1, <2>2, PhaseNames
<1>10. ASSUME NEW reply \in Replies, RetriesQuietly(j, reply)
       PROVE  ClaimPageInv'
  <2>1. /\ reply = "wobble" /\ job[j].tries < RetryCap /\ job[j].tries \in 0 .. RetryCap
        /\ job[j].mayPay \in BOOLEAN
    BY <1>1, <1>10 DEF RetriesQuietly, RetryWorthy, Submission
  <2>2. job' = [job EXCEPT ![j].at = "waiting", ![j].tries = @ + 1, ![j].mayPay = @ \/ FALSE]
    BY <1>10, <2>1 DEF RetriesQuietly, MayHavePaid
  <2>3. job' = [job EXCEPT ![j].at = "waiting", ![j].tries = job[j].tries + 1]
    BY <1>1, <2>1, <2>2 DEF Submission
  <2>4. job[j].tries + 1 \in 0 .. RetryCap
    BY <2>1, ClaimPageAssumption
  <2>5. UNCHANGED <<shown, inFlow, sending, firing, cardVars>>
    BY <1>10 DEF RetriesQuietly
  <2>6. QED
    BY <1>5, <2>3, <2>4, <2>5
<1>11. ASSUME NEW reply \in Replies, Concludes(j, reply)
       PROVE  ClaimPageInv'
  <2>1. CASE reply = "paid"
    <3>1. Ended(j) /\ shown' = "success" /\ owed' = TRUE /\ UNCHANGED <<inFlow, card>>
      BY <1>11, <2>1 DEF Concludes
    <3>2. QED
      BY <1>1, <1>6, <3>1, PhaseNames
  <2>2. CASE reply = "limited"
    <3>1. Ended(j) /\ shown' = "cooldown" /\ UNCHANGED <<inFlow, card, owed>>
      BY <1>11, <2>2 DEF Concludes, cardVars
    <3>2. QED
      BY <1>1, <1>6, <3>1, PhaseNames
  <2>3. CASE reply \in {"empty", "sends"}
    <3>1. Ended(j) /\ inFlow' = FALSE /\ shown' \in {"empty", "degraded"} /\ UNCHANGED <<card, owed>>
      BY <1>11, <2>3 DEF Concludes, cardVars
    <3>2. QED
      BY <1>1, <1>6, <3>1, PhaseNames
  <2>4. CASE reply \notin {"paid", "limited", "empty", "sends"}
    <3>1. /\ Ended(j) /\ shown' = "error" /\ inFlow' = inFlow
          /\ card' = FailKind(reply) /\ owed' = (job[j].mayPay \/ reply \in MayHavePaid)
      BY <1>11, <2>4 DEF Concludes, EndsWithCard
    <3>2. owed' = (reply \in MayHavePaid)
      BY <1>1, <1>2, <3>1 DEF Submission
    <3>3. "error" \in Phases
      BY DEF Phases, Cards
    <3>4. QED
      BY <1>1, <1>6, <2>4, <3>1, <3>2, <3>3, CardKinds
  <2>5. QED
    BY <2>1, <2>2, <2>3, <2>4
<1>12. QED
  BY <1>7, <1>8, <1>9, <1>10, <1>11 DEF SubmitGoesOn, Answered

\* The invariant of the page.
LEMMA PageInvariant == ClaimPageSpec => []ClaimPageInv
<1>1. ClaimPageInv /\ [ClaimPageNext]_claimPageVars => ClaimPageInv'
  <2>1. ClaimPageInv /\ UNCHANGED claimPageVars => ClaimPageInv'
    BY DEF ClaimPageInv, PageTypeOK, FlagOfJob, KeySeenFirst, RetriesOwnNothing, SubmissionsAreSound,
           OneClaimAtATime, NoKeylessClaim, NothingWasAsked, Running, claimPageVars
  <2>2. QED
    BY <2>1, StatusKeeps, VisitorKeeps, ReloadKeeps, SubmitKeeps DEF ClaimPageNext
<1>2. QED
  BY <1>1, PageStarts, PTL DEF ClaimPageSpec

\* The types of the page, for any number of addresses, submissions and retries.
THEOREM PageTypes == ClaimPageSpec => []PageTypeOK
  BY PageInvariant, PTL DEF ClaimPageInv

\* One submission at a time, none to an address whose key nobody has seen, and
\* no card that denies what may have been paid (page.tsx submit(), the fire of
\* the held claim, the quiet retries of claimRetry.ts).
THEOREM OneSoundSubmission == ClaimPageSpec => []SubmissionsAreSound
  BY PageInvariant, PTL DEF ClaimPageInv

\* A hold ends by its submission, by a button or by a give-up that says so.
THEOREM HoldsAreKept == ClaimPageSpec => HoldIsKept
<1>1. ClaimPageInv /\ [ClaimPageNext]_claimPageVars
      => [hold # None /\ hold' = None
          => Launched(hold) \/ holdDropped' \/ StartsOver \/ sending]_claimPageVars
  <2> SUFFICES ASSUME ClaimPageInv, ClaimPageNext, hold # None, hold' = None, ~StartsOver, ~sending
               PROVE  Launched(hold) \/ holdDropped'
    OBVIOUS
  <2>1. StatusLands \/ ClockTicks
    <3>1. ~Reload /\ ~Types /\ ~Generates /\ ~SeesKey /\ ~LeavesTheFlow /\ ~EditsAddress /\ ~Submits
      BY DEF Reload, Types, Generates, SeesKey, LeavesTheFlow, EditsAddress, Submits, holdVars
    <3>2. ~Queues
      BY DEF Queues, MaySubmit
    <3>3. \A j \in Jobs : ~SubmitGoesOn(j)
      BY DEF SubmitGoesOn, Solved, SolveFails, Cancels, Answered, PostsAgain, holdVars
    <3>4. QED
      BY <3>1, <3>2, <3>3 DEF ClaimPageNext, Visitor
  <2>2. CASE GivesUp(base', heldFor) /\ GiveUp
    BY <2>2 DEF GivesUp, GiveUp
  <2>3. CASE GivesUp(base, heldFor + 1) /\ UNCHANGED base /\ GiveUp
    BY <2>3 DEF GivesUp, GiveUp
  <2>4. CASE base' \in Bases /\ Fire
    <3>1. hold \in Addresses /\ (hold \in Made => hold \in keySeen) /\ Launch(hold, TRUE) /\ keySeen' = keySeen
      BY <2>4 DEF Fire, keyVars, ClaimPageInv, PageTypeOK, KeySeenFirst
    <3>2. \E j \in Jobs : ~Running(j) /\ job'[j].address = hold
      BY <2>4, <3>1, LaunchSound
    <3>3. QED
      BY <3>2 DEF Launched
  <2>5. CASE Rederive
    BY <2>5 DEF Rederive
  <2>6. QED
    BY <2>1, <2>2, <2>3, <2>4, <2>5 DEF StatusLands, ClockTicks
<1>2. QED
  BY <1>1, PageInvariant, PTL DEF ClaimPageSpec, HoldIsKept
-----------------------------------------------------------------------------
(* The heartbeat's counts.                                                 *)

\* A file of the version that runs says no more than that version knows; one of
\* another version stays only beside counts that were set aside.
FileIsBehind ==
    file # Absent =>
       IF file.schema = schema THEN NoLess(file.beat.counts, hb.counts) ELSE kept # Absent

MinerInv == MinerTypeOK /\ FileIsBehind

\* A count is a number, within its bound, and Absent is none.
LEMMA CountIsANumber ==
  ASSUME NEW counts \in Counts, NEW o \in Outcomes
  PROVE  /\ Known(counts[o]) \in 0 .. MaxCounted
         /\ counts[o] # Absent => Known(counts[o]) = counts[o]
         /\ \A n \in Nat : n # Absent
  BY MinerAssumption DEF Counts, Known

\* Counts are no less than themselves.
LEMMA SameIsNoLess == ASSUME NEW counts \in Counts PROVE NoLess(counts, counts)
  BY MinerAssumption DEF Counts, NoLess

\* No less than what is no less.
LEMMA NoLessThanNoLess ==
  ASSUME NEW a \in Counts, NEW b \in Counts, NEW c \in Counts, NoLess(a, b), NoLess(b, c)
  PROVE  NoLess(a, c)
<1> SUFFICES ASSUME NEW o \in Outcomes, a[o] # Absent PROVE c[o] # Absent /\ c[o] >= a[o]
  BY DEF NoLess
<1>1. b[o] # Absent /\ b[o] >= a[o]
  BY DEF NoLess
<1>2. c[o] # Absent /\ c[o] >= b[o]
  BY <1>1 DEF NoLess
<1>3. a[o] \in Nat /\ b[o] \in Nat /\ c[o] \in Nat
  BY <1>1, <1>2 DEF Counts
<1> QED
  BY <1>1, <1>2, <1>3

\* While there is room in the sum, there is room in each of the counts.
LEMMA RoomForEach ==
  ASSUME hb \in Beats, Room, NEW o \in Outcomes
  PROVE  Known(hb.counts[o]) + 1 \in 1 .. MaxCounted
<1>1. /\ Known(hb.counts["solved"]) \in Nat /\ Known(hb.counts["accepted"]) \in Nat
      /\ Known(hb.counts["rejected"]) \in Nat /\ Known(hb.counts["discarded"]) \in Nat
      /\ Known(hb.counts["abandoned"]) \in Nat
  BY CountIsANumber DEF Beats, Outcomes
<1>2. /\ Known(hb.counts["solved"]) < MaxCounted /\ Known(hb.counts["accepted"]) < MaxCounted
      /\ Known(hb.counts["rejected"]) < MaxCounted /\ Known(hb.counts["discarded"]) < MaxCounted
      /\ Known(hb.counts["abandoned"]) < MaxCounted
  BY <1>1, MinerAssumption DEF Room
<1> QED
  BY <1>1, <1>2, MinerAssumption DEF Outcomes

\* One more of an outcome: nothing is less.
LEMMA OneMore ==
  ASSUME NEW counts \in Counts, NEW o \in Outcomes, Known(counts[o]) + 1 \in 1 .. MaxCounted
  PROVE  /\ [counts EXCEPT ![o] = Known(@) + 1] \in Counts
         /\ NoLess(counts, [counts EXCEPT ![o] = Known(@) + 1])
<1> DEFINE more == [counts EXCEPT ![o] = Known(@) + 1]
<1>1. more \in Counts
  BY DEF Counts
<1>2. ASSUME NEW p \in Outcomes, counts[p] # Absent PROVE more[p] # Absent /\ more[p] >= counts[p]
  <2>1. CASE p = o
    <3>1. more[p] = Known(counts[o]) + 1
      BY <2>1 DEF Counts
    <3>2. /\ Known(counts[o]) = counts[o] /\ Known(counts[o]) \in Nat
          /\ \A n \in Nat : n # Absent
      BY <1>2, <2>1, CountIsANumber
    <3> QED
      BY <2>1, <3>1, <3>2
  <2>2. CASE p # o
    <3>1. more[p] = counts[p] /\ counts[p] \in Nat
      BY <1>2, <2>2 DEF Counts
    <3> QED
      BY <1>2, <3>1
  <2> QED
    BY <2>1, <2>2
<1> QED
  BY <1>1, <1>2 DEF NoLess

\* A beat with one more outcome in its counts.
LEMMA BeatWithOneMore ==
  ASSUME NEW b \in Beats, NEW o \in Outcomes, Known(b.counts[o]) + 1 \in 1 .. MaxCounted
  PROVE  /\ [b EXCEPT !.counts[o] = Known(@) + 1] \in Beats
         /\ NoLess(b.counts, [b EXCEPT !.counts[o] = Known(@) + 1].counts)
<1>1. b.counts \in Counts
  BY DEF Beats
<1>2. [b EXCEPT !.counts[o] = Known(@) + 1].counts = [b.counts EXCEPT ![o] = Known(@) + 1]
  BY DEF Beats
<1>3. [b EXCEPT !.counts[o] = Known(@) + 1] = [b EXCEPT !.counts = [b.counts EXCEPT ![o] = Known(@) + 1]]
  BY DEF Beats
<1>4. [b EXCEPT !.counts = [b.counts EXCEPT ![o] = Known(@) + 1]] \in Beats
  BY <1>1, OneMore DEF Beats
<1> QED
  BY <1>1, <1>2, <1>3, <1>4, OneMore

\* What a call says of the node leaves the counts alone.
LEMMA SameCountsBeats ==
  ASSUME hb \in Beats, NEW reason \in Reasons \union {Absent}
  PROVE  /\ Erred \in Beats /\ Erred.counts = hb.counts
         /\ TemplateOk \in Beats /\ TemplateOk.counts = hb.counts
         /\ NodeLag(reason) \in Beats /\ NodeLag(reason).counts = hb.counts
<1>1. 0 \in TemplateAges /\ TRUE \in BOOLEAN /\ FALSE \in BOOLEAN
  BY MinerAssumption DEF TemplateAges
<1>2. Erred \in Beats /\ Erred.counts = hb.counts
  BY <1>1 DEF Beats, Erred
<1>3. TemplateOk \in Beats /\ TemplateOk.counts = hb.counts
  BY <1>1 DEF Beats, TemplateOk
<1>4. NodeLag(reason) \in Beats /\ NodeLag(reason).counts = hb.counts
  BY DEF Beats, NodeLag
<1> QED
  BY <1>2, <1>3, <1>4

Alone == UNCHANGED <<schema, fileVars>>
Rises == hb' \in Beats /\ NoLess(hb.counts, hb'.counts)

\* A step of mine_once() goes on counting, and touches nothing else.
LEMMA MiningCounts == MinerTypeOK /\ MineOnce => Alone /\ at' \in Places /\ Rises
<1> SUFFICES ASSUME MinerTypeOK, MineOnce PROVE Alone /\ at' \in Places /\ Rises
  OBVIOUS
<1>1. hb \in Beats /\ hb.counts \in Counts
  BY DEF MinerTypeOK, Beats
<1>2. Absent \in Reasons \union {Absent} /\ Reasons \subseteq Reasons \union {Absent}
  OBVIOUS
<1>3. ASSUME NEW b \in Beats, b.counts = hb.counts, hb' = b PROVE Rises
  BY <1>1, <1>3, SameIsNoLess DEF Rises
<1>4. ASSUME CallFails PROVE Rises /\ at' \in Places
  BY <1>1, <1>2, <1>3, <1>4, SameCountsBeats DEF CallFails, Places
<1>5. ASSUME NEW reason \in Reasons \union {Absent}, hb' = NodeLag(reason) PROVE Rises
  BY <1>1, <1>3, <1>5, SameCountsBeats
<1>6. ASSUME UNCHANGED hb PROVE Rises
  BY <1>1, <1>3, <1>6
<1>7. ASSUME NEW o \in Outcomes, Room, hb' = Counted(o) PROVE Rises
  BY <1>1, <1>7, RoomForEach, BeatWithOneMore DEF Counted, Rises
<1>8. ASSUME NEW b \in Beats, b.counts = hb.counts, Room,
             hb' = [b EXCEPT !.counts["discarded"] = Known(@) + 1]
      PROVE  Rises
  <2>1. "discarded" \in Outcomes /\ Known(b.counts["discarded"]) + 1 \in 1 .. MaxCounted
    BY <1>1, <1>8, RoomForEach DEF Outcomes
  <2> QED
    BY <1>8, <2>1, BeatWithOneMore DEF Rises
<1>11. CASE Guards
  BY <1>2, <1>4, <1>5, <1>11 DEF Guards, Alone, Places
<1>12. CASE Fetches
  <2>1. ASSUME hb' = TemplateOk PROVE Rises
    BY <1>1, <1>2, <1>3, <2>1, SameCountsBeats
  <2> QED
    BY <1>4, <1>6, <1>12, <2>1 DEF Fetches, Alone, Places
<1>13. CASE Solves
  BY <1>6, <1>7, <1>13 DEF Solves, Alone, Places, Outcomes
<1>14. CASE Proposes
  BY <1>4, <1>6, <1>7, <1>14 DEF Proposes, Alone, Places, Outcomes
<1>15. CASE GuardsAgain
  <2>1. ASSUME Room, hb' = [Erred EXCEPT !.counts["discarded"] = Known(@) + 1] PROVE Rises
    BY <1>1, <1>2, <1>8, <2>1, SameCountsBeats
  <2>2. ASSUME NEW reason \in Reasons, Room,
               hb' = [NodeLag(reason) EXCEPT !.counts["discarded"] = Known(@) + 1]
        PROVE  Rises
    BY <1>1, <1>2, <1>8, <2>2, SameCountsBeats
  <2> QED
    BY <1>2, <1>5, <1>15, <2>1, <2>2 DEF GuardsAgain, Alone, Places
<1>16. CASE SubmitsBlock
  BY <1>4, <1>7, <1>16 DEF SubmitsBlock, Alone, Places, Outcomes
<1>17. CASE SleepEnds
  BY <1>6, <1>17 DEF SleepEnds, Alone, Places
<1> QED
  BY <1>11, <1>12, <1>13, <1>14, <1>15, <1>16, <1>17 DEF MineOnce

\* Time passes in a beat, and leaves its counts alone.
LEMMA OlderIsABeat == ASSUME NEW b \in Beats PROVE Older(b) \in Beats /\ Older(b).counts = b.counts
<1>1. (IF b.template = Absent \/ b.template = StallAge THEN b.template ELSE b.template + 1) \in TemplateAges
  BY MinerAssumption DEF Beats, TemplateAges
<1> QED
  BY <1>1 DEF Beats, Older

\* What is on the disk, in its parts.
LEMMA FileHolds ==
  ASSUME MinerTypeOK, file # Absent
  PROVE  file.schema \in Schemas /\ file.beat \in Beats /\ file.beat.counts \in Counts
  BY DEF MinerTypeOK, Files, Beats

\* A file is there.
LEMMA FileIsThere == \A f \in Files : f # Absent
  BY MinerAssumption

\* The counts a new process begins with, and the empty ones.
LEMMA FreshIsABeat == ASSUME NEW counts \in Counts PROVE Fresh(counts) \in Beats /\ Fresh(counts).counts = counts
  BY DEF Fresh, Beats, TemplateAges

\* Nothing counted yet.
LEMMA NoCountsAreCounts == NoCounts \in Counts
  BY DEF NoCounts, Counts

\* The next process resumes a file that it can read; one that it cannot is set
\* aside, or stays where an older one was.
LEMMA StartKeeps ==
  ASSUME MinerInv, NEW version \in Schemas, StartsAs(version)
  PROVE  /\ at' \in Places /\ schema' \in Schemas /\ hb' \in Beats
         /\ file' \in Files \union {Absent} /\ kept' \in Counts \union {Absent}
         /\ FileIsBehind'
         /\ file # Absent /\ file' # file => kept' = file.beat.counts
         /\ kept # Absent => kept' = kept
<1> USE DEF MinerInv
<1>1. MinerTypeOK /\ at' \in Places /\ schema' = version /\ hb' = Fresh(Resumed(version))
      /\ KeepsUnreadable(version)
  BY DEF StartsAs, Places
<1>2. CASE Readable(version)
  <2>1. file # Absent /\ file.schema = version /\ UNCHANGED <<file, kept>>
    BY <1>1, <1>2 DEF Readable, KeepsUnreadable
  <2>2. Resumed(version) = file.beat.counts /\ file.beat.counts \in Counts
    BY <1>1, <1>2, <2>1, FileHolds DEF Resumed
  <2>3. hb' \in Beats /\ hb'.counts = file.beat.counts
    BY <1>1, <2>2, FreshIsABeat
  <2>4. FileIsBehind'
    BY <1>1, <2>1, <2>2, <2>3, SameIsNoLess DEF FileIsBehind
  <2> QED
    BY <1>1, <2>1, <2>3, <2>4 DEF MinerTypeOK
<1>3. CASE ~Readable(version)
  <2>1. hb' \in Beats
    BY <1>1, <1>3, NoCountsAreCounts, FreshIsABeat DEF Resumed
  <2>2. CASE file = Absent \/ kept # Absent
    <3>1. UNCHANGED <<file, kept>>
      BY <1>1, <1>3, <2>2 DEF KeepsUnreadable
    <3>2. FileIsBehind'
      BY <1>1, <1>3, <2>2, <3>1 DEF FileIsBehind, Readable
    <3> QED
      BY <1>1, <2>1, <3>1, <3>2 DEF MinerTypeOK
  <2>3. CASE file # Absent /\ kept = Absent
    <3>1. kept' = file.beat.counts /\ file' = Absent
      BY <1>1, <1>3, <2>3 DEF KeepsUnreadable
    <3>2. file.beat.counts \in Counts
      BY <1>1, <2>3, FileHolds
    <3> QED
      BY <1>1, <2>1, <2>3, <3>1, <3>2 DEF FileIsBehind
  <2> QED
    BY <2>2, <2>3
<1> QED
  BY <1>2, <1>3

\* What a step does to the file and to what was set aside.
CountsStay ==
    /\ file # Absent /\ file' # file
          => \/ file' # Absent /\ NoLess(file.beat.counts, file'.beat.counts)
             \/ kept' = file.beat.counts
             \/ kept # Absent /\ file.schema # schema
    /\ kept # Absent => kept' = kept

\* The invariant begins, and every step keeps it and the counts.
LEMMA MinerStarts == MinerInit => MinerInv
  BY NoCountsAreCounts, FreshIsABeat, MinerAssumption
  DEF MinerInit, MinerInv, MinerTypeOK, Places, FileIsBehind

\* No step of the miner, its beat, its clock, its manager or its watchdog.
LEMMA MinerStep == MinerInv /\ [MinerNext]_minerVars => MinerInv' /\ CountsStay
<1> SUFFICES ASSUME MinerInv, [MinerNext]_minerVars PROVE MinerInv' /\ CountsStay
  OBVIOUS
<1>1. MinerTypeOK /\ FileIsBehind /\ hb \in Beats /\ hb.counts \in Counts
  BY DEF MinerInv, MinerTypeOK, Beats
<1>2. CASE MineOnce
  <2>1. Alone /\ at' \in Places /\ Rises
    BY <1>1, <1>2, MiningCounts
  <2>2. MinerTypeOK' /\ CountsStay
    BY <1>1, <2>1 DEF MinerTypeOK, Alone, fileVars, Rises, CountsStay
  <2>3. FileIsBehind'
    <3> SUFFICES ASSUME file # Absent, file.schema = schema PROVE NoLess(file.beat.counts, hb'.counts)
      BY <1>1, <2>1 DEF FileIsBehind, Alone, fileVars
    <3>1. NoLess(file.beat.counts, hb.counts) /\ NoLess(hb.counts, hb'.counts)
      BY <1>1, <2>1 DEF FileIsBehind, Rises
    <3>2. file.beat.counts \in Counts /\ hb'.counts \in Counts
      BY <1>1, <2>1, FileHolds DEF Rises, Beats
    <3> QED
      BY <1>1, <3>1, <3>2, NoLessThanNoLess
  <2> QED
    BY <2>2, <2>3 DEF MinerInv
<1>3. CASE Writes
  <2>1. file' = [schema |-> schema, beat |-> hb] /\ UNCHANGED <<at, schema, hb, kept, heals>>
    BY <1>3 DEF Writes
  <2>2. file' \in Files /\ file'.schema = schema /\ file'.beat.counts = hb.counts
    BY <1>1, <2>1 DEF Files, MinerTypeOK
  <2>3. MinerTypeOK'
    BY <1>1, <2>1, <2>2 DEF MinerTypeOK
  <2>4. FileIsBehind'
    BY <1>1, <2>1, <2>2, SameIsNoLess DEF FileIsBehind
  <2>5. CountsStay
    BY <1>1, <2>1, <2>2, FileIsThere DEF FileIsBehind, CountsStay
  <2> QED
    BY <2>3, <2>4, <2>5 DEF MinerInv
<1>4. CASE Ticks
  <2>1. /\ hb' = Older(hb) /\ UNCHANGED <<at, schema, kept, heals>>
        /\ file' = IF file = Absent THEN Absent ELSE [file EXCEPT !.beat = Older(@)]
    BY <1>4 DEF Ticks
  <2>2. hb' \in Beats /\ hb'.counts = hb.counts
    BY <1>1, <2>1, OlderIsABeat
  <2>3. ASSUME file # Absent
        PROVE  /\ file' \in Files /\ file'.schema = file.schema
               /\ file'.beat.counts = file.beat.counts /\ file.beat.counts \in Counts
    <3>1. file \in Files /\ Older(file.beat) \in Beats /\ Older(file.beat).counts = file.beat.counts
      BY <1>1, <2>3, FileHolds, OlderIsABeat DEF MinerTypeOK
    <3>2. file' = [file EXCEPT !.beat = Older(file.beat)]
      BY <2>1, <2>3
    <3>3. file' \in Files /\ file'.schema = file.schema /\ file'.beat = Older(file.beat)
      BY <3>1, <3>2 DEF Files
    <3> QED
      BY <1>1, <2>3, <3>1, <3>3, FileHolds
  <2>4. MinerTypeOK'
    BY <1>1, <2>1, <2>2, <2>3 DEF MinerTypeOK
  <2>5. FileIsBehind'
    BY <1>1, <2>1, <2>2, <2>3 DEF FileIsBehind
  <2>6. CountsStay
    BY <2>1, <2>3, FileIsThere, SameIsNoLess DEF CountsStay
  <2> QED
    BY <2>4, <2>5, <2>6 DEF MinerInv
<1>5. ASSUME NEW version \in Schemas, StartsAs(version), heals' \in 0 .. HealMax PROVE MinerInv' /\ CountsStay
  BY <1>1, <1>5, StartKeeps DEF MinerInv, MinerTypeOK, CountsStay
<1>6. CASE Restarts
  BY <1>1, <1>5, <1>6 DEF Restarts, MinerTypeOK
<1>7. CASE WatchdogHeals
  <2>1. heals' \in 0 .. HealMax /\ schema \in Schemas /\ StartsAs(schema)
    BY <1>1, <1>7, MinerAssumption DEF WatchdogHeals, MinerTypeOK
  <2> QED
    BY <1>5, <2>1
<1>8. CASE WatchdogResets
  BY <1>1, <1>8, MinerAssumption DEF WatchdogResets, MinerInv, MinerTypeOK, FileIsBehind, CountsStay
<1>9. CASE UNCHANGED minerVars
  BY <1>1, <1>9 DEF minerVars, MinerInv, MinerTypeOK, FileIsBehind, CountsStay
<1> QED
  BY <1>2, <1>3, <1>4, <1>6, <1>7, <1>8, <1>9 DEF MinerNext

\* The miner's state, its file and the counts set aside keep their types, for
\* any outcomes counted and any number of versions.
THEOREM MinerTypes == MinerSpec => []MinerTypeOK
<1>1. MinerInv => MinerTypeOK
  BY DEF MinerInv
<1> QED
  BY <1>1, MinerStarts, MinerStep, PTL DEF MinerSpec

\* Through beats, crashes, restarts and changes of version, the file only counts
\* up, unless the process that cannot read it sets its counts aside.
THEOREM CountsAreKept == MinerSpec => NoCountIsLost
<1>1. MinerInv /\ [MinerNext]_minerVars => [CountsStay]_minerVars
  BY MinerStep
<1>2. MinerInv /\ [MinerNext]_minerVars => MinerInv'
  BY MinerStep
<1>3. MinerSpec => [][CountsStay]_minerVars
  BY <1>1, <1>2, MinerStarts, PTL DEF MinerSpec
<1>4. CountsStay <=>
      /\ file # Absent /\ file' # file
            => \/ file' # Absent /\ NoLess(file.beat.counts, file'.beat.counts)
               \/ kept' = file.beat.counts
               \/ kept # Absent /\ file.schema # schema
      /\ kept # Absent => kept' = kept
  BY DEF CountsStay
<1> QED
  BY <1>3, <1>4, PTL DEF NoCountIsLost

-----------------------------------------------------------------------------
(* The parts side by side.  A part may run as a choice of its own steps.     *)

\* Each part of a behaviour is a behaviour of that part: what is proved of the
\* proof of work, the references, the readings of our node, the page, the log
\* of the sends, the miner, the box and its watchdog, for a behaviour that may
\* stop anywhere, holds of them side by side.
THEOREM PartsOfVisit ==
  VisitSpec => /\ ChallengeSpec /\ TipSpec /\ NodeSpec /\ ClaimPageSpec /\ HealthSpec /\ MinerSpec
               /\ DeployInit /\ [][DeployNext]_deployVars
               /\ WatchdogInit /\ [][WatchdogNext]_watchdogVars
<1>1. VisitInit => /\ ChallengeInit /\ TipInit /\ NodeInit /\ ClaimPageInit /\ HealthInit /\ MinerInit
                   /\ DeployInit /\ WatchdogInit
  BY DEF VisitInit
<1>2. /\ Motion \/ Pages => NodeNext
      /\ Books \/ Sweeps => MinerNext
      /\ Heals \/ Rests \/ Forks => WatchdogNext
  BY DEF Motion, Pages, NodeNext, Books, Sweeps, MinerNext, Heals, Rests, Forks
<1>3. [VisitNext]_visitVars => /\ [ChallengeNext]_challengeVars /\ [TipNext]_tipVars /\ [NodeNext]_nodeVars
                               /\ [ClaimPageNext]_claimPageVars /\ [HealthNext]_healthVars
                               /\ [MinerNext]_minerVars /\ [DeployNext]_deployVars
                               /\ [WatchdogNext]_watchdogVars
  BY <1>2 DEF VisitNext, visitVars, Only, OthersOfWatchdog
<1> QED
  BY <1>1, <1>3, PTL DEF VisitSpec, ChallengeSpec, TipSpec, NodeSpec, ClaimPageSpec, HealthSpec, MinerSpec

\* What a visit passes keeps its types, whichever part runs.
THEOREM VisitTypes == VisitSpec => []VisitTypeOK
<1>1. /\ ChallengeTypeOK /\ TipTypeOK /\ NodeTypeOK /\ PageTypeOK /\ HealthTypeOK /\ MinerTypeOK
      /\ DeployTypeOK /\ WatchdogTypeOK
      => VisitTypeOK
  BY DEF VisitTypeOK
<1> QED
  BY <1>1, PartsOfVisit, ChallengeTypes, TipTypes, NodeTypes, PageTypes, HealthTypes, MinerTypes,
     DeployTypesAlone, WatchdogTypesAlone, PTL
=============================================================================
