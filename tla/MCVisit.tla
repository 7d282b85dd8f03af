------------------------------ MODULE MCVisit ------------------------------
(* One instance for TLC of what stands around the ledger and the queue: the  *)
(* page a claim is made in, the proof of work, the outside view of the tip   *)
(* with the claim that waits for it, the view of our own node, the door that *)
(* the last sends of two wallets may have closed, the miner that fills one   *)
(* of them, the scripts that put all of it on the box, and the one that      *)
(* watches it.  A behaviour is one of them with the others at rest.          *)
(* MaxClock bounds the challenges' clock.                                    *)
EXTENDS Challenge, TipReferences, NodeView, ClaimPage, SendHealth, Miner, Deploy, Watchdog, TLC

CONSTANTS hosh, direct, taz, ctaz, MaxClock

\* Either reference may take as long as the other.
EvenLimit == hosh :> 1 @@ direct :> 1

\* Enough failures of one network to judge it alone, beside one of the other.
FewRecords == taz :> 2 @@ ctaz :> 1

\* Three POSTs of one solution, or two beside one of another: any other choice
\* is one of these under another name.
Lone == CHOOSE p \in Posts : TRUE

\* The app is of before #651, or publishes a tolerance above the floor.
SilentOrWide == {Nil, 2}

VARIABLE part

visitVars == <<challengeVars, tipVars, nodeVars, claimPageVars, healthVars, minerVars, deployVars, watchdogVars, part>>

VisitInit ==
    /\ ChallengeInit /\ TipInit /\ NodeInit /\ ClaimPageInit /\ HealthInit /\ MinerInit /\ DeployInit
    /\ WatchdogInit
    /\ part \in {"challenge", "oracle", "motion", "pages", "claim page", "door", "books", "sweeps", "box",
               "heals", "rests", "forks"}
    /\ \A p \in Posts : (p = Lone /\ part = "challenge") \/ pow[p] = CHOOSE s \in Challenges : TRUE
    /\ part # "books" => schema = CHOOSE v \in Schemas : TRUE
    /\ sound \in IF part = "box" THEN {Commits, Commits \ {2}} ELSE {Commits}

\* The node is watched twice: while chains move, and while pages load; and so
\* is the miner: what it counts over restarts and versions, and what is read
\* of it while time passes.
Motion == Chain \/ TickNode \/ (\E p \in Askers : ClaimAsks(p)) \/ \E r \in Readers : StatusRead(r)
Pages == TickNode \/ (\E v \in Visitors : Visit(v)) \/ \E r \in Readers : StatusRead(r)
Books == MineOnce \/ Writes \/ Restarts
Sweeps == MinerNext /\ UNCHANGED hb.counts

\* And so is the box's watchdog: the ladder of the node's heal, the miner that
\* rests through it, and the chains of our own.
Heals == WatchdogNext /\ UNCHANGED <<beat, chains.own, marker, mem.forkPaged, mem.historyPaged>>
Rests ==
    /\ WatchdogNext /\ beat' # "waiting"
    /\ UNCHANGED <<mem.unconfirmed, mem.gaveUp, mem.forkPaged, mem.historyPaged, chains.own, chains.wedged>>
Forks ==
    /\ WatchdogNext /\ beat' \in {"young", "templating"}
    /\ UNCHANGED <<disk.heals, disk.stopped, mem.attempts, mem.healing, chains.wedged>>
OthersOfWatchdog == <<challengeVars, tipVars, nodeVars, claimPageVars, healthVars, minerVars, deployVars>>

Only(A, name, rest) == part = name /\ A /\ UNCHANGED rest

VisitNext ==
    /\ UNCHANGED part
    /\ \/ Only(ChallengeNext, "challenge", <<tipVars, nodeVars, claimPageVars, healthVars, minerVars, deployVars, watchdogVars>>)
       \/ Only(TipNext, "oracle", <<challengeVars, nodeVars, claimPageVars, healthVars, minerVars, deployVars, watchdogVars>>)
       \/ Only(Motion, "motion", <<challengeVars, tipVars, claimPageVars, healthVars, minerVars, deployVars, watchdogVars>>)
       \/ Only(Pages, "pages", <<challengeVars, tipVars, claimPageVars, healthVars, minerVars, deployVars, watchdogVars>>)
       \/ Only(ClaimPageNext, "claim page", <<challengeVars, tipVars, nodeVars, healthVars, minerVars, deployVars, watchdogVars>>)
       \/ Only(HealthNext, "door", <<challengeVars, tipVars, nodeVars, claimPageVars, minerVars, deployVars, watchdogVars>>)
       \/ Only(Books, "books", <<challengeVars, tipVars, nodeVars, claimPageVars, healthVars, deployVars, watchdogVars>>)
       \/ Only(Sweeps, "sweeps", <<challengeVars, tipVars, nodeVars, claimPageVars, healthVars, deployVars, watchdogVars>>)
       \/ Only(DeployNext, "box", <<challengeVars, tipVars, nodeVars, claimPageVars, healthVars, minerVars, watchdogVars>>)
       \/ Only(Heals, "heals", OthersOfWatchdog)
       \/ Only(Rests, "rests", OthersOfWatchdog)
       \/ Only(Forks, "forks", OthersOfWatchdog)

VisitSpec == VisitInit /\ [][VisitNext]_visitVars

ClockBound == clock <= MaxClock

VisitTypeOK ==
    CASE part = "challenge" -> ChallengeTypeOK
      [] part = "oracle" -> TipTypeOK
      [] part \in {"motion", "pages"} -> NodeTypeOK
      [] part = "claim page" -> PageTypeOK
      [] part = "door" -> HealthTypeOK
      [] part = "box" -> DeployTypeOK
      [] part \in {"heals", "rests", "forks"} -> WatchdogTypeOK
      [] OTHER -> MinerTypeOK
=============================================================================
