------------------------------ MODULE TipWatch ------------------------------
(* One solve of the miner (deploy/z3/miner/src/main.rs): the solver threads,  *)
(* the watcher thread that asks the node whether the parent is still the tip, *)
(* and the main thread that stops the watcher, joins it and looks at what it  *)
(* has left behind.  The watcher sleeps on a condition variable (Shutdown),   *)
(* and a solver reads the flags between two runs of Equihash only.            *)
CONSTANTS
    Solvers,  \* the solver threads
    Hashes    \* the blocks that may be the tip

ASSUME TipWatchAssumption == Solvers # {} /\ Hashes # {}

VARIABLES
    main,               \* where mine_once() is
    tip, parent,        \* the node's best block, and the one under the template
    abandon, found,     \* the two atomic flags
    late,               \* the window of the template is over
    stopped,            \* Shutdown.stopped
    watcher,            \* where watch_tip() is
    solver              \* [Solvers -> where a solver thread is]

watchVars == <<main, tip, parent, abandon, found, late, stopped, watcher, solver>>
flagVars == <<abandon, found, stopped>>

WatchTypeOK ==
    /\ main \in {"between", "solving", "stopping", "waking", "joining", "judging", "proposing"}
    /\ {tip, parent} \subseteq Hashes
    /\ {abandon, found, late, stopped} \subseteq BOOLEAN
    /\ watcher \in {"off", "looks", "asks", "waits", "parked", "done"}
    /\ solver \in [Solvers -> {"off", "looks", "grinds", "solved", "done"}]

WatchInit ==
    /\ main = "between"
    /\ tip \in Hashes /\ parent = tip
    /\ abandon = FALSE /\ found = FALSE /\ late = FALSE /\ stopped = FALSE
    /\ watcher = "off"
    /\ solver = [s \in Solvers |-> "off"]

\* A block arrives, or the best chain is another one, or the old one again.
TipMoves ==
    /\ tip' \in Hashes \ {tip}
    /\ UNCHANGED <<main, parent, flagVars, late, watcher, solver>>

-----------------------------------------------------------------------------
(* The main thread.                                                        *)

\* A template, built on the tip of that moment, with threads of its own.
BeginsSolve ==
    /\ main = "between"
    /\ main' = "solving"
    /\ parent' = tip
    /\ abandon' = FALSE /\ found' = FALSE /\ late' = FALSE /\ stopped' = FALSE
    /\ watcher' = "looks"
    /\ solver' = [s \in Solvers |-> "looks"]
    /\ UNCHANGED tip

\* solve() has joined its threads.
SolveEnds ==
    /\ main = "solving"
    /\ \A s \in Solvers : solver[s] \in {"solved", "done"}
    /\ main' = "stopping"
    /\ UNCHANGED <<tip, parent, flagVars, late, watcher, solver>>

\* Fault: the watcher is joined without being stopped.
StopNobody ==
    /\ main = "stopping"
    /\ main' = "waking"
    /\ UNCHANGED <<tip, parent, flagVars, late, watcher, solver>>

\* Shutdown::stop(): the flag under its lock, then the wake-up.
Stop ==
    /\ main = "stopping"
    /\ stopped' = TRUE
    /\ main' = "waking"
    /\ UNCHANGED <<tip, parent, abandon, found, late, watcher, solver>>

Wake ==
    /\ main = "waking"
    /\ watcher' = IF watcher # "parked" THEN watcher
                 ELSE IF stopped THEN "done" ELSE "looks"
    /\ main' = "joining"
    /\ UNCHANGED <<tip, parent, flagVars, late, solver>>

Join ==
    /\ main = "joining" /\ watcher = "done"
    /\ main' = "judging"
    /\ UNCHANGED <<tip, parent, flagVars, late, watcher, solver>>

\* Fault: a solution is looked for before the flag.
JudgeSolutionFirst ==
    /\ main = "judging"
    /\ main' = IF \E s \in Solvers : solver[s] = "solved" THEN "proposing" ELSE "between"
    /\ UNCHANGED <<tip, parent, flagVars, late, watcher, solver>>

\* The flag first, the solution after it.
Judge ==
    /\ main = "judging"
    /\ main' = IF ~abandon /\ \E s \in Solvers : solver[s] = "solved" THEN "proposing" ELSE "between"
    /\ UNCHANGED <<tip, parent, flagVars, late, watcher, solver>>

\* What becomes of the block is in module Miner.
Proposed ==
    /\ main = "proposing"
    /\ main' = "between"
    /\ UNCHANGED <<tip, parent, flagVars, late, watcher, solver>>

-----------------------------------------------------------------------------
(* The watcher.                                                            *)

Looks ==
    /\ watcher = "looks"
    /\ watcher' = IF stopped \/ abandon THEN "done" ELSE "asks"
    /\ UNCHANGED <<main, tip, parent, flagVars, late, solver>>

\* getbestblockhash: the tip, or no answer, which is not another tip.
Asks ==
    /\ watcher = "asks"
    /\ \/ tip = parent /\ watcher' = "waits" /\ UNCHANGED abandon
       \/ tip # parent /\ watcher' = "done" /\ abandon' = TRUE
       \/ watcher' = "waits" /\ UNCHANGED abandon
    /\ UNCHANGED <<main, tip, parent, found, stopped, late, solver>>

\* Fault: the wait does not look at the flag before it sleeps.
ParksUnseeing ==
    /\ watcher = "waits"
    /\ watcher' = "parked"
    /\ UNCHANGED <<main, tip, parent, flagVars, late, solver>>

\* Shutdown::wait(): the flag is read and the thread parked under one lock.
Parks ==
    /\ watcher = "waits"
    /\ watcher' = IF stopped THEN "done" ELSE "parked"
    /\ UNCHANGED <<main, tip, parent, flagVars, late, solver>>

\* The poll interval is over.
TimesOut ==
    /\ watcher = "parked"
    /\ watcher' = IF stopped THEN "done" ELSE "looks"
    /\ UNCHANGED <<main, tip, parent, flagVars, late, solver>>

-----------------------------------------------------------------------------
(* The solvers.                                                            *)

WindowEnds ==
    /\ main = "solving" /\ ~late
    /\ late' = TRUE
    /\ UNCHANGED <<main, tip, parent, flagVars, watcher, solver>>

SolverLooks(s) ==
    /\ solver[s] = "looks"
    /\ solver' = [solver EXCEPT ![s] = IF found \/ abandon \/ late THEN "done" ELSE "grinds"]
    /\ UNCHANGED <<main, tip, parent, flagVars, late, watcher>>

SolverGrinds(s) ==
    /\ solver[s] = "grinds"
    /\ \/ solver' = [solver EXCEPT ![s] = "solved"] /\ found' = TRUE
       \/ solver' = [solver EXCEPT ![s] = "looks"] /\ UNCHANGED found
    /\ UNCHANGED <<main, tip, parent, abandon, stopped, late, watcher>>

MainGoesOn == SolveEnds \/ Stop \/ Wake \/ Join \/ Judge \/ Proposed
WatcherGoesOn == Looks \/ Asks \/ Parks \/ TimesOut
SolverGoesOn(s) == SolverLooks(s) \/ SolverGrinds(s)

WatchNext ==
    \/ TipMoves \/ WindowEnds \/ BeginsSolve \/ MainGoesOn \/ WatcherGoesOn
    \/ \E s \in Solvers : SolverGoesOn(s)

WatchSpec == WatchInit /\ [][WatchNext]_watchVars

\* Threads are scheduled, the window is a clock's, and every RPC has a timeout.
FairWatchSpec ==
    /\ WatchSpec
    /\ WF_watchVars(MainGoesOn) /\ WF_watchVars(WatcherGoesOn) /\ WF_watchVars(WindowEnds)
    /\ \A s \in Solvers : WF_watchVars(SolverGoesOn(s))

-----------------------------------------------------------------------------
(* Properties.                                                             *)

\* No block goes on to the node after its watcher has seen another tip, also
\* when it saw it between the solution and the join (#657), and no watcher
\* outlives the solve it belongs to.
SeenStaleIsDropped ==
    /\ main = "proposing" => ~abandon
    /\ main \in {"between", "judging", "proposing"} => watcher \in {"off", "done"}

\* "Ends any wait in progress immediately" (Shutdown::stop): once the main
\* thread joins, the watcher is not asleep on its poll interval.
NoSleepThroughJoin == main = "joining" => watcher # "parked"

\* Both, as the one thing that stop() and the join after it are for.
JoinIsClean == SeenStaleIsDropped /\ NoSleepThroughJoin

\* Every solve ends, whatever the node answers: by a solution, by the window or
\* by a tip that moved, and the join returns.
EverySolveEnds == main = "solving" ~> main \notin {"solving", "stopping", "waking", "joining"}
=============================================================================
