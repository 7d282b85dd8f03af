------------------------------ MODULE NodeView ------------------------------
(* What the faucet knows of its own node: the status read with its deadlines *)
(* and its one retry (nodeStatus.ts), the memory of when our tip last moved, *)
(* which tells a wedged node from a quiet network (tipProgress.ts), and the  *)
(* cell the pages are served from (nodeStatusCache.ts).  Claims and pages    *)
(* read beside each other and share that memory.                             *)
(*                                                                           *)
(* Time is counted in ticks; what is remembered is an age, capped where no   *)
(* rule tells it from an older one.                                          *)
EXTENDS Naturals

CONSTANTS
    Askers,          \* claims, which read the node for themselves
    Visitors,       \* page loads
    Page,           \* the one reader behind the pages' cell
    AttemptLimit,   \* how long one attempt of a read may take
    ClaimAttempts,  \* attempts of a claim's read; the page has one
    Stall,          \* TIP_STALL_MS
    RefreshAfter,   \* a page served from an older reading starts a new one
    StatusMaxAge,   \* NODE_STATUS_MAX_AGE_MS
    ReferenceAge,   \* how old the reference may be that a reading is held to
    MaxHeight,      \* bound: no block above this height
    Unknown         \* null

Readers == Askers \union {Page}
Attempts(r) == IF r = Page THEN 1 ELSE ClaimAttempts

\* The longest a read lasts, and the oldest ages worth counting.
ReadMax == AttemptLimit * (IF ClaimAttempts >= 1 THEN ClaimAttempts ELSE 1)
StillCap == Stall
CellCap == StatusMaxAge + 1

ASSUME NodeViewAssumption ==
    /\ Page \notin Askers
    /\ AttemptLimit \in Nat \ {0}
    /\ ClaimAttempts \in Nat \ {0}
    /\ Stall \in Nat /\ Stall > ReadMax
    /\ RefreshAfter \in Nat
    /\ StatusMaxAge \in Nat /\ RefreshAfter <= StatusMaxAge
    /\ ReferenceAge \in Nat
    /\ MaxHeight \in Nat
    /\ Unknown \notin Nat

VARIABLES
    net,                \* the network's height
    node, nodeStill,    \* our own node's, and how long it has not moved
    outside,            \* the reference as remembered: height, age, and what
                        \* net really was when it was asked; or Unknown
    lastTip,            \* tipProgress's memory: height, age, reference, and
                        \* what net really was; or Unknown
    phase,              \* [Readers -> "idle", "asked", "heard"]
    attempt, spent,     \* [Readers -> which attempt, and how long it has taken]
    heardHeight,        \* [Readers -> the height in the answer]
    heardStill,         \* [Readers -> what nodeStill was when it was sampled]
    cell,               \* the age of the pages' reading, or Unknown
    visit,              \* [Visitors -> "away", "waiting", "shown", "null"]
    failedRead          \* the visitors during whose wait a read has failed

worldVars == <<net, node, nodeStill, outside>>
readVars == <<phase, attempt, spent, heardHeight, heardStill>>
pageVars == <<cell, visit, failedRead>>
nodeVars == <<worldVars, lastTip, readVars, pageVars>>

NodeHeights == 0 .. MaxHeight
Ages == 0 .. StillCap

NodeTypeOK ==
    /\ net \in NodeHeights /\ node \in 0 .. net
    /\ nodeStill \in Ages
    /\ outside = Unknown \/ outside \in [height : 0 .. net, age : 0 .. ReferenceAge, net : 0 .. net]
    /\ lastTip # Unknown => lastTip.height \in NodeHeights /\ lastTip.age \in Ages
    /\ phase \in [Readers -> {"idle", "asked", "heard"}]
    /\ \A r \in Readers : attempt[r] \in 1 .. Attempts(r)
    /\ spent \in [Readers -> 0 .. AttemptLimit]
    /\ heardHeight \in [Readers -> NodeHeights]
    /\ heardStill \in [Readers -> Ages]
    /\ cell \in 0 .. CellCap \union {Unknown}
    /\ visit \in [Visitors -> {"away", "waiting", "shown", "null"}]
    /\ failedRead \subseteq Visitors

NodeInit ==
    /\ net = 0 /\ node = 0
    /\ nodeStill = 0
    /\ outside = Unknown
    /\ lastTip = Unknown
    /\ phase = [r \in Readers |-> "idle"]
    /\ attempt = [r \in Readers |-> 1]
    /\ spent = [r \in Readers |-> 0]
    /\ heardHeight = [r \in Readers |-> 0]
    /\ heardStill = [r \in Readers |-> 0]
    /\ cell = Unknown
    /\ visit = [v \in Visitors |-> "away"]
    /\ failedRead = {}

-----------------------------------------------------------------------------
(* The chain.                                                              *)

NetworkMoves ==
    /\ net < MaxHeight
    /\ net' = net + 1
    /\ UNCHANGED <<node, nodeStill, outside, lastTip, readVars, pageVars>>

NodeFollows ==
    /\ node < net
    /\ node' \in node + 1 .. net /\ nodeStill' = 0
    /\ UNCHANGED <<net, outside, lastTip, readVars, pageVars>>

\* The references are refreshed in the background: the highest of them may stand
\* or lag behind the network, fall back to another one, or flap.  Or they fall
\* silent for so long that nothing usable is left (module TipReferences).
ReferenceRefreshed ==
    /\ \E height \in 0 .. net : outside' = [height |-> height, age |-> 0, net |-> net]
    /\ UNCHANGED <<net, node, nodeStill, lastTip, readVars, pageVars>>

ReferenceLost ==
    /\ outside # Unknown
    /\ outside' = Unknown
    /\ UNCHANGED <<net, node, nodeStill, lastTip, readVars, pageVars>>

-----------------------------------------------------------------------------
(* tipProgress(): has our own tip moved since the last look?               *)

OutsideHeight == IF outside = Unknown THEN Unknown ELSE outside.height

Sample(height) == [height |-> height, age |-> 0, outside |-> OutsideHeight, net |-> net]

\* The same height as before: the ORIGINAL sample is kept, so that the age is
\* how long the tip has stood.
Stands(height) == lastTip # Unknown /\ lastTip.height = height

\* Fault (see README, "Mutants"): a reference that is silent twice is equal.
QuietWhenUnknown == OutsideHeight = lastTip.outside

NetworkQuiet ==
    /\ lastTip.outside # Unknown
    /\ OutsideHeight = lastTip.outside

\* Fault: a stall is called one read too early.
StalledEarly(height) ==
    /\ Stands(height)
    /\ lastTip.age + ReadMax >= Stall
    /\ ~NetworkQuiet

Stalled(height) ==
    /\ Stands(height)
    /\ lastTip.age >= Stall
    /\ ~NetworkQuiet

\* Fault: quiet between the last two polls, not over the whole stall.
RememberedSincePoll(height) ==
    IF Stands(height) THEN [lastTip EXCEPT !.outside = OutsideHeight] ELSE Sample(height)

Remembered(height) == IF Stands(height) THEN lastTip ELSE Sample(height)

-----------------------------------------------------------------------------
(* One status read.                                                        *)

Ask(r) ==
    /\ phase' = [phase EXCEPT ![r] = "asked"]
    /\ UNCHANGED <<attempt, spent, heardHeight, heardStill>>

\* The route reads for a claim.
ClaimAsks(p) ==
    /\ phase[p] = "idle"
    /\ Ask(p)
    /\ UNCHANGED <<worldVars, lastTip, pageVars>>

\* The wallet takes the heights it will answer with.
NodeAnswers(r) ==
    /\ phase[r] = "asked"
    /\ phase' = [phase EXCEPT ![r] = "heard"]
    /\ heardHeight' = [heardHeight EXCEPT ![r] = node]
    /\ heardStill' = [heardStill EXCEPT ![r] = nodeStill]
    /\ UNCHANGED <<attempt, spent, worldVars, lastTip, pageVars>>

Freed(r) ==
    /\ phase' = [phase EXCEPT ![r] = "idle"]
    /\ attempt' = [attempt EXCEPT ![r] = 1]
    /\ spent' = [spent EXCEPT ![r] = 0]
    /\ heardHeight' = [heardHeight EXCEPT ![r] = 0]
    /\ heardStill' = [heardStill EXCEPT ![r] = 0]

\* cachedNodeStatus(): what may be served of the cell at all.
Servable == cell # Unknown /\ cell <= StatusMaxAge

\* The pages that waited for the read are answered by the clock of their
\* arrival: with the reading that landed since, or, as nothing was servable
\* when they came and nothing has landed, with null.
Release(landed) ==
    /\ visit' = [v \in Visitors |->
          IF visit[v] # "waiting" THEN visit[v] ELSE IF landed THEN "shown" ELSE "null"]
    /\ failedRead' = IF landed THEN failedRead
                     ELSE failedRead \union {v \in Visitors : visit[v] = "waiting"}

\* The answer arrives: the memory is compared and moved, and the page's own
\* read becomes the cell.
ReadLands(r) ==
    /\ phase[r] = "heard"
    /\ Freed(r)
    /\ lastTip' = Remembered(heardHeight[r])
    /\ IF r = Page
       THEN cell' = 0 /\ Release(TRUE)
       ELSE UNCHANGED pageVars
    /\ UNCHANGED worldVars

\* No answer in time, or no connection: the next attempt, while there is one.
Retries(r) ==
    /\ phase[r] # "idle" /\ attempt[r] < Attempts(r)
    /\ phase' = [phase EXCEPT ![r] = "asked"]
    /\ attempt' = [attempt EXCEPT ![r] = @ + 1]
    /\ spent' = [spent EXCEPT ![r] = 0]
    /\ UNCHANGED <<heardHeight, heardStill, worldVars, lastTip, pageVars>>

\* The read is null.  A failed read does not clear a good one: the cell ages.
ReadFails(r) ==
    /\ phase[r] # "idle"
    /\ Freed(r)
    /\ IF r = Page THEN Release(FALSE) /\ UNCHANGED cell ELSE UNCHANGED pageVars
    /\ UNCHANGED <<worldVars, lastTip>>

-----------------------------------------------------------------------------
(* A page load, and time.                                                  *)

\* refresh() of the cell: one read in flight, which later callers share.
StartPageRead == IF phase[Page] = "idle" THEN Ask(Page) ELSE UNCHANGED readVars

\* nodeStatusForPage() with something to serve: served at once, and refreshed
\* behind the response when it is ageing.
VisitServed(v) ==
    /\ visit[v] # "waiting"
    /\ Servable
    /\ visit' = [visit EXCEPT ![v] = "shown"]
    /\ failedRead' = failedRead \ {v}
    /\ IF cell > RefreshAfter THEN StartPageRead ELSE UNCHANGED readVars
    /\ UNCHANGED <<worldVars, lastTip, cell>>

\* Fault: only a cell that was never read is waited for.
VisitWaitsWhenNeverRead(v) ==
    /\ visit[v] # "waiting"
    /\ ~Servable
    /\ StartPageRead
    /\ visit' = [visit EXCEPT ![v] = IF cell = Unknown THEN "waiting" ELSE "null"]
    /\ failedRead' = failedRead \ {v}
    /\ UNCHANGED <<worldVars, lastTip, cell>>

\* With nothing to serve, never read or too old, the page waits for the read.
VisitWaits(v) ==
    /\ visit[v] # "waiting"
    /\ ~Servable
    /\ StartPageRead
    /\ visit' = [visit EXCEPT ![v] = "waiting"]
    /\ failedRead' = failedRead \ {v}
    /\ UNCHANGED <<worldVars, lastTip, cell>>

Aged(n, cap) == IF n < cap THEN n + 1 ELSE n

\* An attempt is aborted at its limit, and a reference is not older than that.
TickNode ==
    /\ \A r \in Readers : phase[r] # "idle" => spent[r] < AttemptLimit
    /\ outside # Unknown => outside.age < ReferenceAge
    /\ nodeStill' = Aged(nodeStill, StillCap)
    /\ outside' = IF outside = Unknown THEN outside ELSE [outside EXCEPT !.age = @ + 1]
    /\ lastTip' = IF lastTip = Unknown THEN lastTip ELSE [lastTip EXCEPT !.age = Aged(@, StillCap)]
    /\ spent' = [r \in Readers |-> IF phase[r] = "idle" THEN spent[r] ELSE spent[r] + 1]
    /\ cell' = IF cell = Unknown THEN cell ELSE Aged(cell, CellCap)
    /\ UNCHANGED <<net, node, phase, attempt, heardHeight, heardStill, visit, failedRead>>

Chain == NetworkMoves \/ NodeFollows \/ ReferenceRefreshed \/ ReferenceLost
StatusRead(r) == NodeAnswers(r) \/ ReadLands(r) \/ Retries(r) \/ ReadFails(r)
Visit(v) == VisitServed(v) \/ VisitWaits(v)

NodeNext ==
    \/ Chain \/ TickNode
    \/ \E p \in Askers : ClaimAsks(p)
    \/ \E r \in Readers : StatusRead(r)
    \/ \E v \in Visitors : Visit(v)

NodeSpec == NodeInit /\ [][NodeNext]_nodeVars

-----------------------------------------------------------------------------
(* Properties.                                                             *)

Judged(r) == phase[r] = "heard" /\ phase'[r] = "idle"

\* How far the reference was behind the network when it was asked.
Lag == outside.net - outside.height

\* A standing tip is judged right either way.  A stall is only claimed on
\* positive evidence: when the answer was sampled the node had not moved for as
\* long, up to the time a read may take, in whatever order overlapping reads have
\* landed.  And a node that stands is called stalled in time, unless a reference
\* speaks for it: while our tip stood, the network moved by no more blocks, up to
\* when that reference was asked, than the reference was behind it then.  One that
\* is honest excuses in a quiet network only; one that lags can excuse a wedged
\* node, for the blocks it lags; one that is silent or has moved excuses nothing.
StallIsReal(r) ==
    Stalled(heardHeight[r]) => heardStill[r] + ReadMax >= Stall
ExcuseIsWorthItsReference(r) ==
    Stands(heardHeight[r]) /\ lastTip.age >= Stall /\ ~Stalled(heardHeight[r])
    => outside # Unknown /\ outside.net <= lastTip.net + Lag

StallsAreJudged ==
    [][\A r \in Readers : Judged(r) => StallIsReal(r) /\ ExcuseIsWorthItsReference(r)]_nodeVars

\* A page goes without a reading only when the node failed to give one while
\* the page waited, never because the page did not wait.
NullMeansAFailedRead ==
    \A v \in Visitors : visit[v] = "null" => v \in failedRead

=============================================================================
