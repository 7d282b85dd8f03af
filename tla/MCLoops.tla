------------------------------ MODULE MCLoops ------------------------------
(* One instance for TLC of what runs for ever and must never stand still: the *)
(* send queue, with four calls on two slots, so that the backlog fills,      *)
(* refuses and refills; the reserve reconciler that fills it, with its timer, *)
(* its shield steps and the drips beside them; the log of the sends and the  *)
(* door it closes; the threads of the miner's solve; the timer that deploys  *)
(* main; and the watchdog.  A behaviour is one of them with the others at    *)
(* rest.  No symmetry: liveness is checked.                                  *)
EXTENDS SendQueue, Reserve, SendHealth, TipWatch, Deploy, Watchdog, TLC

CONSTANT taz

\* A whole sample of one network.  Both side by side are in MCVisit.
OneSample == taz :> 3

\* The floor governs.
NonePublished == {Nil}

VARIABLE part

loopVars == <<vars, reserveVars, healthVars, watchVars, deployVars, watchdogVars, part>>

LoopsInit ==
    /\ Init /\ ReserveInit /\ HealthInit /\ WatchInit /\ DeployInit /\ WatchdogInit
    /\ part \in {"queue", "reserve", "health", "solve", "box", "heal"}
    /\ part # "solve" => tip = CHOOSE h \in Hashes : TRUE
    /\ part # "box" => sound = Commits

\* The watchdog with a miner that never templates, and with no page delivered:
\* both are in MCVisit.
Silent == UNCHANGED <<beat, mem.startPaged, mem.gaveUp, mem.forkPaged, mem.historyPaged>>

LoopsNext ==
    /\ UNCHANGED part
    /\ \/ part = "queue" /\ Next /\ UNCHANGED <<reserveVars, healthVars, watchVars, deployVars, watchdogVars>>
       \/ part = "reserve" /\ ReserveNext /\ UNCHANGED <<vars, healthVars, watchVars, deployVars, watchdogVars>>
       \/ part = "health" /\ HealthNext /\ UNCHANGED <<vars, reserveVars, watchVars, deployVars, watchdogVars>>
       \/ part = "solve" /\ WatchNext /\ UNCHANGED <<vars, reserveVars, healthVars, deployVars, watchdogVars>>
       \/ part = "box" /\ DeployNext /\ UNCHANGED <<vars, reserveVars, healthVars, watchVars, watchdogVars>>
       \/ part = "heal" /\ WatchdogNext /\ Silent /\ UNCHANGED <<vars, reserveVars, healthVars, watchVars, deployVars>>

\* The fairness of each.  At rest the queue has nothing enabled, but the timers
\* and the threads of the others may have.
InReserve(A) == part = "reserve" /\ A /\ UNCHANGED <<vars, healthVars, watchVars, deployVars, watchdogVars, part>>
InHealth(A) == part = "health" /\ A /\ UNCHANGED <<vars, reserveVars, watchVars, deployVars, watchdogVars, part>>
InSolve(A) == part = "solve" /\ A /\ UNCHANGED <<vars, reserveVars, healthVars, deployVars, watchdogVars, part>>
InBox(A) == part = "box" /\ A /\ UNCHANGED <<vars, reserveVars, healthVars, watchVars, watchdogVars, part>>
InHeal(A) == part = "heal" /\ A /\ Silent /\ UNCHANGED <<vars, reserveVars, healthVars, watchVars, deployVars, part>>

LoopsFairness ==
    /\ LoopFairness
    /\ WF_loopVars(InReserve(Timer)) /\ WF_loopVars(InReserve(Tick))
    /\ WF_loopVars(InReserve(Handle))
    /\ WF_loopVars(InReserve(DripEnds)) /\ WF_loopVars(InReserve(StepEnds))
    /\ WF_loopVars(InHealth(HealthTicks))
    /\ \A n \in Nets : WF_loopVars(InHealth(SendExpires(n)))
    /\ WF_loopVars(InSolve(MainGoesOn)) /\ WF_loopVars(InSolve(WatcherGoesOn))
    /\ WF_loopVars(InSolve(WindowEnds))
    /\ \A s \in Solvers : WF_loopVars(InSolve(SolverGoesOn(s)))
    /\ WF_loopVars(InHeal(SweepSteps)) /\ SF_loopVars(InHeal(SeenWell /\ UNCHANGED marker))
    /\ WF_loopVars(InHeal(Syncs)) /\ WF_loopVars(InHeal(Unwedges))
    /\ WF_loopVars(InBox(Scripts)) /\ WF_loopVars(InBox(CIJudges)) /\ WF_loopVars(InBox(NodeRecovers))

LoopsSpec == LoopsInit /\ [][LoopsNext]_loopVars /\ LoopsFairness

LoopsTypeOK == ReserveTypeOK /\ HealthTypeOK /\ WatchTypeOK /\ DeployTypeOK /\ WatchdogTypeOK
=============================================================================
