------------------------------- MODULE Deploy -------------------------------
(* How a commit reaches the box (deploy/z3): auto-deploy.sh, which a timer    *)
(* starts, takes what main has moved by since the commit it last processed,  *)
(* asks CI, and rebuilds the miner, installs the ops files (install-ops.sh)  *)
(* and replaces the app (redeploy.sh), each if the difference touches it.    *)
(* redeploy.sh pulls, builds, verifies and starts an image, and goes back to *)
(* the previous one if it does not come up.  What a run leaves for the next  *)
(* is in three files and two image tags.                                     *)
(* Time passes by starts of the timer: ages count those.  A commit is what   *)
(* it holds of each part, named by the commit that brought it.               *)
EXTENDS Naturals, Sequences

CONSTANTS
    MaxMain,        \* bound on the commits of main
    BackoffAfter,   \* AUTODEPLOY_BACKOFF_AFTER
    Backoff,        \* AUTODEPLOY_BACKOFF_SECONDS
    PendingMax,     \* AUTODEPLOY_CI_PENDING_MAX
    Reverts,        \* whether a commit may take back what is on main
    Declines,       \* whether compose may keep a container it should replace
    MaxFaults       \* bound on what goes wrong around the scripts

ASSUME DeployAssumption ==
    /\ MaxMain \in Nat \ {0} /\ MaxFaults \in Nat
    /\ BackoffAfter \in Nat \ {0} /\ Backoff \in Nat /\ PendingMax \in Nat
    /\ Reverts \in BOOLEAN /\ Declines \in BOOLEAN

VARIABLES
    mainline,       \* origin's main: the tree of each commit
    ci,             \* what CI says of each commit
    sound,          \* the commits whose app comes up
    processed,      \* the state file: the commit last processed
    failures,       \* the failures file
    ciPending,      \* the ci-pending file
    head,           \* the checkout
    ops,            \* the ops files installed
    watchdog,       \* the ops files the watchdog runs
    bin,            \* the miner's binary
    latest,         \* the image the compose file names
    previous,       \* the image to go back to
    container,      \* the app's container
    nodeState,      \* whether our node would let the app be ready
    tick,           \* the locals of the scripts while they run
    faults          \* how many things went wrong

originVars == <<mainline, ci, sound>>
stateFiles == <<processed, failures, ciPending>>
boxVars == <<ops, watchdog, bin>>
dockerVars == <<latest, previous, container>>
deployVars == <<originVars, stateFiles, head, boxVars, dockerVars, nodeState, tick, faults>>

Parts == {"app", "ops", "miner"}
Commits == 1 .. MaxMain
Unset == 0
Trees == [Parts -> Commits]
\* An image is built from a commit.  It is stale when a cached layer kept what
\* the commit changed, and refused once the comparison has said so.
Images == [from : Commits, is : {"faithful", "stale", "refused"}]
RunStages == {"idle", "asking CI", "miner", "ops", "app", "done", "pulling", "building",
              "verifying", "starting", "probing", "unhealthy", "rolling back"}

Resting(code) == [at |-> "idle", remote |-> Unset, todo |-> {}, failed |-> FALSE,
                  wantReady |-> FALSE, unverified |-> FALSE, code |-> code]

\* Types of the state: the files hold commits of mainline, and the tags images.
DeployTypeOK ==
    /\ mainline \in Seq(Trees) /\ Len(mainline) \in Commits
    /\ ci \in [1 .. Len(mainline) -> {"pending", "green", "red"}]
    /\ sound \in SUBSET Commits
    /\ processed \in 1 .. Len(mainline) /\ head \in 1 .. Len(mainline)
    /\ failures \in [commit : Commits \union {Unset}, count : 0 .. BackoffAfter, age : 0 .. Backoff]
    /\ ciPending \in [commit : Commits \union {Unset}, age : 0 .. PendingMax]
    /\ ops \in Commits /\ watchdog \in Commits /\ bin \in Commits
    /\ latest \in Images /\ previous \in Images
    /\ container \in [image : Images, up : BOOLEAN]
    /\ nodeState \in {"well", "behind"}
    /\ tick \in [at : RunStages, remote : 0 .. Len(mainline), todo : SUBSET Parts, failed : BOOLEAN,
                 wantReady : BOOLEAN, unverified : BOOLEAN, code : 0 .. 3]
    /\ faults \in 0 .. MaxFaults

\* A box that has been deployed once.
DeployInit ==
    LET first == [from |-> 1, is |-> "faithful"] IN
    /\ mainline = <<[p \in Parts |-> 1]>> /\ ci = <<"green">>
    /\ sound \in {s \in SUBSET Commits : 1 \in s}
    /\ processed = 1 /\ head = 1
    /\ failures = [commit |-> Unset, count |-> 0, age |-> 0]
    /\ ciPending = [commit |-> Unset, age |-> 0]
    /\ ops = 1 /\ watchdog = 1 /\ bin = 1
    /\ latest = first /\ previous = first /\ container = [image |-> first, up |-> TRUE]
    /\ nodeState = "well" /\ tick = Resting(0) /\ faults = 0

-----------------------------------------------------------------------------
(* What is around the scripts.                                             *)

Tip == Len(mainline)

Push ==
    /\ Tip < MaxMain
    /\ \E tree \in {[p \in Parts |-> IF p \in new THEN Tip + 1 ELSE mainline[Tip][p]] : new \in SUBSET Parts}
                   \union {mainline[c] : c \in {c \in 1 .. Tip - 1 : Reverts}} :
           mainline' = Append(mainline, tree)
    /\ ci' = Append(ci, "pending")
    /\ UNCHANGED <<sound, stateFiles, head, boxVars, dockerVars, nodeState, tick, faults>>

CIJudges ==
    /\ \E c \in 1 .. Tip : ci[c] = "pending" /\ \E v \in {"green", "red"} : ci' = [ci EXCEPT ![c] = v]
    /\ UNCHANGED <<mainline, sound, stateFiles, head, boxVars, dockerVars, nodeState, tick, faults>>

Mishap == faults < MaxFaults /\ faults' = faults + 1
Smooth == UNCHANGED faults

Rerun ==
    /\ Mishap
    /\ \E c \in 1 .. Tip : ci[c] = "red" /\ ci' = [ci EXCEPT ![c] = "pending"]
    /\ UNCHANGED <<mainline, sound, stateFiles, head, boxVars, dockerVars, nodeState, tick>>

NodeFalters ==
    /\ Mishap /\ nodeState = "well" /\ nodeState' = "behind"
    /\ UNCHANGED <<originVars, stateFiles, head, boxVars, dockerVars, tick>>

NodeRecovers ==
    /\ nodeState = "behind" /\ nodeState' = "well"
    /\ UNCHANGED <<originVars, stateFiles, head, boxVars, dockerVars, tick, faults>>

\* The box goes down under a run; the container comes back as it was.
Reboot ==
    /\ Mishap /\ tick.at # "idle" /\ tick' = Resting(1)
    /\ UNCHANGED <<originVars, stateFiles, head, boxVars, dockerVars, nodeState>>

Sound(image) == mainline[image.from].app \in sound
LiveIn(c) == c.up /\ Sound(c.image)
AppLive == LiveIn(container)
AppReady == AppLive /\ nodeState = "well"

-----------------------------------------------------------------------------
(* auto-deploy.sh.                                                         *)

GoesTo(place) == tick' = [tick EXCEPT !.at = place]
Quits(code) == tick' = Resting(code)

AgedFile(file, max) == [file EXCEPT !.age = IF @ < max THEN @ + 1 ELSE max]

CountFor(commit) == IF failures.commit = commit THEN failures.count ELSE 0
\* Fault (see README, "Mutants"): a commit that failed often is never tried again.
BackingOffForGood(commit) == CountFor(commit) >= BackoffAfter
BackingOff(commit) == CountFor(commit) >= BackoffAfter /\ failures'.age < Backoff

TickStarts ==
    /\ tick.at = "idle"
    /\ failures' = AgedFile(failures, Backoff) /\ ciPending' = AgedFile(ciPending, PendingMax)
    /\ \/ Mishap /\ Quits(1)
       \/ Smooth /\ processed = Tip /\ Quits(0)
       \/ Smooth /\ processed # Tip /\ BackingOff(Tip) /\ Quits(1)
       \/ Smooth /\ processed # Tip /\ ~BackingOff(Tip)
          /\ tick' = [Resting(0) EXCEPT !.at = "asking CI", !.remote = Tip]
    /\ UNCHANGED <<originVars, processed, head, boxVars, dockerVars, nodeState>>

NoteFailure ==
    LET count == CountFor(tick.remote)
    IN  failures' = [commit |-> tick.remote, age |-> 0,
                     count |-> IF count < BackoffAfter THEN count + 1 ELSE count]

\* The halves in their order; a part the difference does not touch is passed.
AfterOps(todo) == IF "app" \in todo THEN "app" ELSE "done"
AfterMiner(todo) == IF "ops" \in todo THEN "ops" ELSE AfterOps(todo)
AfterCI(todo) == IF "miner" \in todo THEN "miner" ELSE AfterMiner(todo)

RunFails == NoteFailure /\ Quits(1) /\ UNCHANGED processed

\* What main has moved by since.  Fault: measured from the checkout, which
\* redeploy.sh moves as well.
BaselineIsHead == head
Baseline == processed

\* ci_gate, then the reset to what it let through.
AskCI ==
    /\ tick.at = "asking CI"
    /\ \/ Mishap /\ RunFails /\ UNCHANGED <<ciPending, head>>
       \/ Smooth /\ ci[tick.remote] = "red" /\ RunFails /\ UNCHANGED <<ciPending, head>>
       \/ /\ Smooth /\ ci[tick.remote] = "pending"
          /\ ciPending' = IF ciPending.commit = tick.remote
                          THEN ciPending
                          ELSE [commit |-> tick.remote, age |-> 0]
          /\ IF ciPending'.age >= PendingMax
             THEN RunFails
             ELSE Quits(0) /\ UNCHANGED <<failures, processed>>
          /\ UNCHANGED head
       \/ /\ Smooth /\ ci[tick.remote] = "green"
          /\ ciPending' = [commit |-> Unset, age |-> 0]
          /\ head' = tick.remote
          /\ LET todo == {p \in Parts : mainline[Baseline][p] # mainline[tick.remote][p]}
             IN  tick' = [tick EXCEPT !.todo = todo, !.at = AfterCI(todo)]
          /\ UNCHANGED <<failures, processed>>
    /\ UNCHANGED <<originVars, boxVars, dockerVars, nodeState>>

HalfDone(failed, next) == tick' = [tick EXCEPT !.at = next, !.failed = @ \/ failed]

\* A build that fails leaves the binary; a restart that fails comes after it.
RebuildMiner ==
    /\ tick.at = "miner"
    /\ \/ Smooth /\ bin' = mainline[head].miner /\ HalfDone(FALSE, AfterMiner(tick.todo))
       \/ Mishap /\ bin' \in {bin, mainline[head].miner} /\ HalfDone(TRUE, AfterMiner(tick.todo))
    /\ UNCHANGED <<originVars, stateFiles, head, ops, watchdog, dockerVars, nodeState>>

\* The watchdog is restarted when a file of its was new to the box.
InstallOps ==
    LET new == mainline[head].ops IN
    /\ tick.at = "ops"
    /\ \/ /\ Smooth /\ HalfDone(FALSE, AfterOps(tick.todo))
          /\ ops' = new /\ watchdog' = IF ops # new THEN new ELSE watchdog
          /\ UNCHANGED <<failures, processed>>
       \/ /\ Mishap /\ HalfDone(TRUE, AfterOps(tick.todo))
          /\ ops' \in {ops, new} /\ UNCHANGED <<watchdog, failures, processed>>
       \/ Mishap /\ RunFails /\ UNCHANGED <<ops, watchdog>>
    /\ UNCHANGED <<originVars, ciPending, head, bin, dockerVars, nodeState>>

\* The end of a run: with redeploy's code, or 0 when there was no app half.
EndsWith(code) ==
    /\ IF code \in {0, 3} /\ ~tick.failed
       THEN processed' = tick.remote /\ failures' = [commit |-> Unset, count |-> 0, age |-> 0]
       ELSE NoteFailure /\ UNCHANGED processed
    /\ Quits(IF tick.failed THEN 1 ELSE code)
    /\ UNCHANGED ciPending

Done ==
    /\ tick.at = "done" /\ Smooth /\ EndsWith(0)
    /\ UNCHANGED <<originVars, head, boxVars, dockerVars, nodeState>>

-----------------------------------------------------------------------------
(* redeploy.sh.                                                            *)

Continues(place) == GoesTo(place) /\ UNCHANGED stateFiles

\* Was it ready before?  And what is there now is kept under another tag.
Snapshot ==
    /\ tick.at = "app"
    /\ \/ /\ Smooth /\ previous' = latest
          /\ tick' = [tick EXCEPT !.at = "pulling", !.wantReady = AppReady] /\ UNCHANGED stateFiles
       \/ Mishap /\ previous' = latest /\ Continues("pulling")
       \/ Mishap /\ EndsWith(2) /\ UNCHANGED previous
    /\ UNCHANGED <<originVars, head, boxVars, latest, container, nodeState>>

Pull ==
    /\ tick.at = "pulling"
    /\ \/ Smooth /\ head' = Tip /\ Continues("building")
       \/ Mishap /\ EndsWith(2) /\ UNCHANGED head
    /\ UNCHANGED <<originVars, boxVars, dockerVars, nodeState>>

Build ==
    /\ tick.at = "building"
    /\ \/ Smooth /\ latest' = [from |-> head, is |-> "faithful"] /\ Continues("verifying")
       \/ Mishap /\ latest' = [from |-> head, is |-> "stale"] /\ Continues("verifying")
       \/ Mishap /\ EndsWith(2) /\ UNCHANGED latest
    /\ UNCHANGED <<originVars, head, boxVars, previous, container, nodeState>>

VerifyImage ==
    /\ tick.at = "verifying"
    /\ \/ Smooth /\ latest.is = "faithful" /\ Continues("starting") /\ UNCHANGED latest
       \/ Smooth /\ latest.is # "faithful" /\ latest' = [latest EXCEPT !.is = "refused"] /\ EndsWith(2)
       \/ /\ Mishap /\ UNCHANGED <<latest, stateFiles>>
          /\ tick' = [tick EXCEPT !.at = "starting", !.unverified = TRUE]
    /\ UNCHANGED <<originVars, head, boxVars, previous, container, nodeState>>

\* compose up, behind a bounded wait for the sends in flight.
ComposeUp ==
    /\ tick.at = "starting"
    /\ \/ Smooth /\ container' = [image |-> latest, up |-> TRUE] /\ Continues("probing")
       \/ Mishap /\ container' = [container EXCEPT !.up = FALSE] /\ Continues("rolling back")
       \/ Mishap /\ Declines /\ UNCHANGED container /\ Continues("probing")
    /\ UNCHANGED <<originVars, head, boxVars, latest, previous, nodeState>>

IsNew == container.image = latest
Healthy == AppLive /\ (tick.wantReady => AppReady)

\* wait_healthy, and whether what is healthy is what was built.
Probe ==
    /\ tick.at = "probing"
    /\ \/ Smooth /\ Healthy /\ IsNew /\ EndsWith(IF tick.unverified THEN 3 ELSE 0)
       \/ Smooth /\ Healthy /\ ~IsNew /\ EndsWith(1)
       \/ Mishap /\ Healthy /\ EndsWith(3)
       \/ Smooth /\ ~Healthy /\ Continues("unhealthy")
       \/ Mishap /\ Healthy /\ Continues("unhealthy")
    /\ UNCHANGED <<originVars, head, boxVars, dockerVars, nodeState>>

\* Why it is not healthy.  It may be ready by now.  Nothing is rolled back when it
\* does not answer, or names the node or the ledger.  It is when the app is not
\* live, or names something else, as the wallet or the sends: such a reason comes
\* behind the node's, unless the backend as a whole is out of reach.
AskWhy ==
    /\ tick.at = "unhealthy"
    /\ \/ Smooth /\ AppReady /\ EndsWith(0)
       \/ Smooth /\ EndsWith(1)
       \/ Smooth /\ (AppLive => nodeState = "well") /\ Continues("rolling back")
       \/ Mishap /\ AppLive /\ Continues("rolling back")
       \/ Mishap /\ container.up /\ EndsWith(IF IsNew THEN 3 ELSE 2)
    /\ UNCHANGED <<originVars, head, boxVars, dockerVars, nodeState>>

\* do_rollback: liveness only, of the previous image itself.  Fault: a rollback
\* that has been started is taken for one that serves.
TakenForServing(old) == 2
RolledBack(old) == IF LiveIn(old) THEN 2 ELSE 1

RollBack ==
    LET old == [image |-> previous, up |-> TRUE] IN
    /\ tick.at = "rolling back"
    /\ \/ /\ Smooth /\ latest' = previous /\ container' = old
          /\ EndsWith(RolledBack(old))
       \/ /\ Mishap /\ latest' = previous /\ container' = [container EXCEPT !.up = FALSE]
          /\ EndsWith(1)
       \/ Mishap /\ EndsWith(1) /\ UNCHANGED <<latest, container>>
    /\ UNCHANGED <<originVars, head, boxVars, previous, nodeState>>

-----------------------------------------------------------------------------
Redeploy == Snapshot \/ Pull \/ Build \/ VerifyImage \/ ComposeUp \/ Probe \/ AskWhy \/ RollBack
Scripts == TickStarts \/ AskCI \/ RebuildMiner \/ InstallOps \/ Done \/ Redeploy
Around == Push \/ CIJudges \/ Rerun \/ NodeFalters \/ NodeRecovers \/ Reboot

DeployNext == Scripts \/ Around

\* The timer starts a run every two minutes, a run goes on, CI answers and a
\* node catches up.  Faults are bounded, so a run from some point on has none.
DeployFairness ==
    /\ WF_deployVars(Scripts) /\ WF_deployVars(CIJudges) /\ WF_deployVars(NodeRecovers)

DeploySpec == DeployInit /\ [][DeployNext]_deployVars /\ DeployFairness

-----------------------------------------------------------------------------
(* Properties.                                                             *)

Advances == processed' # processed

\* What auto-deploy.sh records as processed is on the box: the ops files and
\* the miner of that commit, and an app at least as new, over all runs that
\* failed in one half and were taken up by another, by a later commit, or by
\* one that redeploy.sh pulled underneath.
RecordedIsInstalled ==
    [][Advances => /\ ops' = mainline[processed'].ops
                  /\ bin' = mainline[processed'].miner
                  /\ \E c \in processed' .. Tip :
                         mainline[container'.image.from].app = mainline[c].app]_deployVars

\* A run that found the app ready and ends with 2, "did not ship and the faucet
\* is serving", leaves it alive, on every path to a 2.
TwoMeansServing ==
    [][tick.wantReady /\ tick'.at = "idle" /\ tick'.code = 2 => LiveIn(container')]_deployVars

\* A commit that CI has passed, whose app is sound and that nobody supersedes is
\* processed in the end: over CI that takes its time, the backoff, crashes,
\* failed halves and rollbacks.
MainIsDeployed ==
    <>[](ci[Tip] = "green" /\ mainline[Tip].app \in sound) => <>[](processed = Tip)

\* The comment at auto-deploy.sh:102: every job must have completed with success
\* on the exact commit, or the box does not move.
OnlyJudgedCodeRuns == ci[container.image.from] = "green"
=============================================================================
