---------------------------- MODULE DeployProofs ----------------------------
(* Proofs about Deploy for any number of commits, faults and timer starts.   *)
EXTENDS Deploy, TLAPS

Working == tick.at # "idle"
ToTip == 1 .. Tip

-----------------------------------------------------------------------------
(* A push leaves what main has, and the scripts leave what is around them. *)

\* A push adds one commit, which takes a part back only where main reverts.
LEMMA PushShape ==
  ASSUME mainline \in Seq(Trees), Tip \in Commits, Push
  PROVE  /\ mainline' \in Seq(Trees) /\ Tip' = Tip + 1 /\ Tip' \in Commits
         /\ \A i \in ToTip : mainline'[i] = mainline[i]
         /\ ~Reverts => \A p \in Parts : mainline'[Tip'][p] \in {Tip + 1, mainline[Tip][p]}
<1> DEFINE Fresh == {[p \in Parts |-> IF p \in new THEN Tip + 1 ELSE mainline[Tip][p]] : new \in SUBSET Parts}
           Old == {mainline[c] : c \in {c \in 1 .. Tip - 1 : Reverts}}
<1> USE DEF Tip, Commits, ToTip
<1>1. PICK tree \in Fresh \union Old : mainline' = Append(mainline, tree)
  BY DEF Push
<1>2. Tip \in Nat /\ 1 <= Tip /\ Tip < MaxMain /\ MaxMain \in Nat /\ mainline \in Seq(Trees)
  BY DeployAssumption DEF Push
<1>3. mainline[Tip] \in Trees
  BY <1>2
<1>4. tree \in Trees
  <2>1. CASE tree \in Fresh
    <3>1. PICK new \in SUBSET Parts : tree = [p \in Parts |-> IF p \in new THEN Tip + 1 ELSE mainline[Tip][p]]
      BY <2>1
    <3> QED
      BY <3>1, <1>2, <1>3 DEF Trees
  <2>2. CASE tree \in Old
    <3>1. PICK c \in 1 .. Tip - 1 : tree = mainline[c]
      BY <2>2
    <3> QED
      BY <3>1, <1>2
  <2> QED
    BY <1>1, <2>1, <2>2
<1>5. /\ mainline' \in Seq(Trees) /\ Tip' = Tip + 1
      /\ \A i \in ToTip : mainline'[i] = mainline[i]
      /\ mainline'[Tip'] = tree
  BY <1>1, <1>2, <1>4
<1>6. ASSUME ~Reverts, NEW p \in Parts PROVE tree[p] \in {Tip + 1, mainline[Tip][p]}
  <2>1. Old = {}
    BY <1>6
  <2>2. PICK new \in SUBSET Parts : tree = [q \in Parts |-> IF q \in new THEN Tip + 1 ELSE mainline[Tip][q]]
    BY <1>1, <2>1
  <2> QED
    BY <2>2
<1> QED
  BY <1>2, <1>5, <1>6

\* The scripts never change what is on origin.
LEMMA KeepsOrigin == Scripts \/ Reboot => UNCHANGED originVars
  BY DEF Scripts, Redeploy, Reboot, TickStarts, AskCI, RebuildMiner, InstallOps, Done, Snapshot, Pull, Build,
     VerifyImage, ComposeUp, Probe, AskWhy, RollBack

-----------------------------------------------------------------------------
(* What a step does to the locals of a run.                                *)

Turns == [at : RunStages, remote : Nat, todo : SUBSET Parts, failed : BOOLEAN,
          wantReady : BOOLEAN, unverified : BOOLEAN, code : 0 .. 3]

\* It goes on elsewhere, or comes to its end.
Same == /\ tick' \in Turns /\ tick'.remote = tick.remote /\ tick'.todo = tick.todo
        /\ processed' = processed
Went(place) == Same /\ tick'.at = place /\ tick'.failed = tick.failed /\ tick'.wantReady = tick.wantReady
Halts(code) ==
    /\ tick' \in Turns /\ tick'.at = "idle" /\ ~tick'.wantReady /\ (tick'.code = 2 => code = 2)
    /\ \/ processed' = processed
       \/ processed' = tick.remote /\ ~tick.failed /\ code \in {0, 3}

\* A step that continues goes to its place with all else kept.
LEMMA WentThere ==
  ASSUME tick \in Turns, NEW place \in RunStages, Continues(place) PROVE Went(place)
  BY DEF Continues, GoesTo, stateFiles, Went, Same, Turns

\* A run that quits rests with its code.
LEMMA HasQuit ==
  ASSUME NEW code \in 0 .. 3, Quits(code)
  PROVE  tick' \in Turns /\ tick'.at = "idle" /\ ~tick'.wantReady /\ tick'.code = code
  BY DEF Quits, Resting, Turns, RunStages, Unset

\* A run that ends may have recorded its commit, if nothing failed.
LEMMA HasEnded ==
  ASSUME tick \in Turns, NEW code \in 0 .. 3, EndsWith(code) PROVE Halts(code)
<1>1. Quits(IF tick.failed THEN 1 ELSE code)
  BY DEF EndsWith
<1>2. (IF tick.failed THEN 1 ELSE code) \in 0 .. 3
  OBVIOUS
<1>3. \/ processed' = processed
      \/ processed' = tick.remote /\ ~tick.failed /\ code \in {0, 3}
  BY DEF EndsWith
<1> QED
  BY <1>1, <1>2, <1>3, HasQuit DEF Halts

\* A run that fails records nothing.
LEMMA HasFailed ==
  ASSUME tick \in Turns, RunFails PROVE Halts(1)
  BY HasQuit DEF RunFails, Halts

\* A run begins with the tip of main as it is.
LEMMA HasStarted ==
  ASSUME Tip \in Nat, tick' = [Resting(0) EXCEPT !.at = "asking CI", !.remote = Tip]
  PROVE  /\ tick' \in Turns /\ tick'.at = "asking CI" /\ tick'.remote = Tip
         /\ ~tick'.wantReady /\ ~tick'.failed
<1> DEFINE rest == Resting(0)
<1>1. rest \in Turns /\ ~rest.wantReady /\ ~rest.failed
  BY DEF Resting, Turns, RunStages, Unset
<1> HIDE DEF rest
<1>2. tick' = [rest EXCEPT !.at = "asking CI", !.remote = Tip]
  BY DEF rest
<1> QED
  BY <1>1, <1>2 DEF Turns, RunStages

\* A run goes on with what the comparison found to do.
LEMMA HasPassed ==
  ASSUME tick \in Turns, NEW todo \in SUBSET Parts, NEW place \in RunStages,
         tick' = [tick EXCEPT !.todo = todo, !.at = place]
  PROVE  /\ tick' \in Turns /\ tick'.at = place /\ tick'.todo = todo /\ tick'.remote = tick.remote
         /\ tick'.failed = tick.failed /\ tick'.wantReady = tick.wantReady
  BY DEF Turns

\* A half that is done keeps the run, and its failure if it failed.
LEMMA HasDoneHalf ==
  ASSUME tick \in Turns, NEW failed \in BOOLEAN, NEW place \in RunStages, HalfDone(failed, place)
  PROVE  /\ tick' \in Turns /\ tick'.at = place /\ tick'.todo = tick.todo /\ tick'.remote = tick.remote
         /\ tick'.failed = (tick.failed \/ failed) /\ tick'.wantReady = tick.wantReady
  BY DEF HalfDone, Turns

\* A run has looked whether the app is ready.
LEMMA HasLooked ==
  ASSUME tick \in Turns, NEW ready \in BOOLEAN,
         tick' = [tick EXCEPT !.at = "pulling", !.wantReady = ready]
  PROVE  /\ tick' \in Turns /\ tick'.at = "pulling" /\ tick'.todo = tick.todo /\ tick'.remote = tick.remote
         /\ tick'.failed = tick.failed /\ tick'.wantReady = ready
  BY DEF Turns, RunStages

\* An image that was not compared goes on as one that was.
LEMMA HasNotCompared ==
  ASSUME tick \in Turns, tick' = [tick EXCEPT !.at = "starting", !.unverified = TRUE], UNCHANGED stateFiles
  PROVE  Went("starting")
  BY DEF Turns, RunStages, Went, Same, stateFiles

\* A half that is not to be done is passed over, and no other one is.
LEMMA NextHalf ==
  ASSUME NEW todo \in SUBSET Parts
  PROVE  /\ AfterOps(todo) \in {"app", "done"} /\ (AfterOps(todo) = "done" => "app" \notin todo)
         /\ AfterMiner(todo) \in {"ops", "app", "done"}
         /\ (AfterMiner(todo) = "done" => "app" \notin todo)
         /\ (AfterMiner(todo) # "ops" => "ops" \notin todo)
         /\ AfterCI(todo) \in {"miner", "ops", "app", "done"}
         /\ (AfterCI(todo) = "done" => "app" \notin todo)
         /\ (AfterCI(todo) # "miner" => "miner" \notin todo)
         /\ (AfterCI(todo) \notin {"miner", "ops"} => "ops" \notin todo)
         /\ {AfterOps(todo), AfterMiner(todo), AfterCI(todo)} \subseteq RunStages
  BY DEF AfterOps, AfterMiner, AfterCI, RunStages

-----------------------------------------------------------------------------
(* What each step of the scripts does.                                     *)

\* The places of redeploy.sh, each reached as any other.
LEMMA GoesOn ==
  ASSUME tick \in Turns
  PROVE
    /\ Continues("pulling") => Went("pulling")
    /\ Continues("building") => Went("building")
    /\ Continues("verifying") => Went("verifying")
    /\ Continues("starting") => Went("starting")
    /\ Continues("probing") => Went("probing")
    /\ Continues("unhealthy") => Went("unhealthy")
    /\ Continues("rolling back") => Went("rolling back")
<1>1. ASSUME Continues("pulling") PROVE Went("pulling")
  <2>1. "pulling" \in RunStages
    BY DEF RunStages
  <2> QED
    BY <1>1, <2>1, WentThere
<1>2. ASSUME Continues("building") PROVE Went("building")
  <2>1. "building" \in RunStages
    BY DEF RunStages
  <2> QED
    BY <1>2, <2>1, WentThere
<1>3. ASSUME Continues("verifying") PROVE Went("verifying")
  <2>1. "verifying" \in RunStages
    BY DEF RunStages
  <2> QED
    BY <1>3, <2>1, WentThere
<1>4. ASSUME Continues("starting") PROVE Went("starting")
  <2>1. "starting" \in RunStages
    BY DEF RunStages
  <2> QED
    BY <1>4, <2>1, WentThere
<1>5. ASSUME Continues("probing") PROVE Went("probing")
  <2>1. "probing" \in RunStages
    BY DEF RunStages
  <2> QED
    BY <1>5, <2>1, WentThere
<1>6. ASSUME Continues("unhealthy") PROVE Went("unhealthy")
  <2>1. "unhealthy" \in RunStages
    BY DEF RunStages
  <2> QED
    BY <1>6, <2>1, WentThere
<1>7. ASSUME Continues("rolling back") PROVE Went("rolling back")
  <2>1. "rolling back" \in RunStages
    BY DEF RunStages
  <2> QED
    BY <1>7, <2>1, WentThere
<1> QED
  BY <1>1, <1>2, <1>3, <1>4, <1>5, <1>6, <1>7

\* The exit codes, each an end as any other.
LEMMA ComesToAnEnd ==
  ASSUME tick \in Turns
  PROVE
    /\ EndsWith(0) => Halts(0)
    /\ EndsWith(1) => Halts(1)
    /\ EndsWith(2) => Halts(2)
    /\ EndsWith(3) => Halts(3)
  BY HasEnded

\* The timer: a run begins, or does not.
LEMMA TickDoes ==
  ASSUME tick \in Turns, Tip \in Nat, TickStarts
  PROVE  /\ tick.at = "idle" /\ UNCHANGED <<processed, head, boxVars, dockerVars>> /\ tick' \in Turns /\ ~tick'.wantReady
         /\ tick'.at = "idle" \/ (tick'.at = "asking CI" /\ tick'.remote = Tip /\ ~tick'.failed)
<1>1. CASE Quits(0) \/ Quits(1)
  <2>1. tick' \in Turns /\ tick'.at = "idle" /\ ~tick'.wantReady
    BY <1>1, HasQuit
  <2> QED
    BY <2>1 DEF TickStarts
<1>2. CASE tick' = [Resting(0) EXCEPT !.at = "asking CI", !.remote = Tip]
  BY <1>2, HasStarted DEF TickStarts
<1> QED
  BY <1>1, <1>2 DEF TickStarts

\* The gate of auto-deploy.sh.
LEMMA GateDoes ==
  ASSUME tick \in Turns, AskCI
  PROVE  /\ tick.at = "asking CI" /\ UNCHANGED <<boxVars, dockerVars>>
         /\ \/ Halts(1) /\ head' = head
            \/ Halts(0) /\ UNCHANGED <<processed, head>>
            \/ /\ head' = tick.remote /\ processed' = processed /\ tick' \in Turns
               /\ tick'.todo = {p \in Parts : mainline[processed][p] # mainline[tick.remote][p]}
               /\ tick'.at = AfterCI(tick'.todo) /\ tick'.remote = tick.remote
               /\ tick'.failed = tick.failed /\ tick'.wantReady = tick.wantReady
<1> DEFINE todo == {p \in Parts : mainline[processed][p] # mainline[tick.remote][p]}
<1>1. CASE RunFails /\ head' = head
  BY <1>1, HasFailed DEF AskCI
<1>2. CASE Quits(0) /\ UNCHANGED <<processed, head>>
  <2>1. tick' \in Turns /\ tick'.at = "idle" /\ ~tick'.wantReady /\ tick'.code = 0
    BY <1>2, HasQuit
  <2>2. Halts(0)
    BY <1>2, <2>1 DEF Halts
  <2> QED
    BY <1>2, <2>2 DEF AskCI
<1>3. CASE head' = tick.remote /\ processed' = processed /\ tick' = [tick EXCEPT !.todo = todo, !.at = AfterCI(todo)]
  <2>1. todo \in SUBSET Parts
    OBVIOUS
  <2>2. AfterCI(todo) \in RunStages
    BY <2>1, NextHalf
  <2> HIDE DEF todo
  <2>3. /\ tick' \in Turns /\ tick'.at = AfterCI(todo) /\ tick'.todo = todo /\ tick'.remote = tick.remote
        /\ tick'.failed = tick.failed /\ tick'.wantReady = tick.wantReady
    BY <1>3, <2>1, <2>2, HasPassed
  <2> QED
    BY <1>3, <2>3 DEF AskCI, todo
<1> QED
  BY <1>1, <1>2, <1>3 DEF AskCI, Baseline

\* The half of the miner.
LEMMA MinerDoes ==
  ASSUME tick \in Turns, RebuildMiner
  PROVE  /\ tick.at = "miner" /\ UNCHANGED <<head, ops, watchdog, dockerVars>>
         /\ Same /\ tick'.wantReady = tick.wantReady /\ tick'.at = AfterMiner(tick.todo)
         /\ \/ bin' = mainline[head].miner /\ tick'.failed = tick.failed
            \/ bin' \in {bin, mainline[head].miner} /\ tick'.failed
<1>1. tick.todo \in SUBSET Parts /\ AfterMiner(tick.todo) \in RunStages
  BY NextHalf DEF Turns
<1> QED
  BY <1>1, HasDoneHalf DEF RebuildMiner, Same, stateFiles, Turns

\* The half of the ops files.
LEMMA OpsDoes ==
  ASSUME tick \in Turns, InstallOps
  PROVE  /\ tick.at = "ops" /\ UNCHANGED <<head, bin, dockerVars>>
         /\ \/ /\ Same /\ tick'.wantReady = tick.wantReady /\ tick'.at = AfterOps(tick.todo)
               /\ \/ ops' = mainline[head].ops /\ tick'.failed = tick.failed
                  \/ ops' \in {ops, mainline[head].ops} /\ tick'.failed
            \/ Halts(1) /\ ops' = ops
<1>1. tick.todo \in SUBSET Parts /\ AfterOps(tick.todo) \in RunStages
  BY NextHalf DEF Turns
<1> QED
  BY <1>1, HasDoneHalf, HasFailed DEF InstallOps, Same, Turns

\* Nothing is left to do.
LEMMA DoneDoes ==
  ASSUME tick \in Turns, Done
  PROVE  tick.at = "done" /\ UNCHANGED <<head, boxVars, dockerVars>> /\ Halts(0)
  BY HasEnded DEF Done

\* redeploy.sh keeps what is installed, and looks whether it serves.
LEMMA SnapshotDoes ==
  ASSUME tick \in Turns, Snapshot
  PROVE  /\ tick.at = "app" /\ UNCHANGED <<head, boxVars, latest, container>>
         /\ \/ previous' = latest /\ Went("pulling")
            \/ /\ previous' = latest /\ Same /\ tick'.at = "pulling" /\ tick'.failed = tick.failed
               /\ tick'.wantReady = AppReady
            \/ previous' = previous /\ Halts(2)
<1>1. CASE Mishap /\ previous' = latest /\ Continues("pulling")
  BY <1>1, GoesOn DEF Snapshot
<1>2. CASE Mishap /\ EndsWith(2) /\ UNCHANGED previous
  BY <1>2, HasEnded DEF Snapshot
<1>3. CASE previous' = latest /\ tick' = [tick EXCEPT !.at = "pulling", !.wantReady = AppReady] /\ UNCHANGED stateFiles
  <2>1. AppReady \in BOOLEAN
    BY DEF AppReady
  <2> QED
    BY <1>3, <2>1, HasLooked DEF Snapshot, Same, stateFiles
<1> QED
  BY <1>1, <1>2, <1>3 DEF Snapshot

\* redeploy.sh pulls main.
LEMMA PullDoes ==
  ASSUME tick \in Turns, Pull
  PROVE  /\ tick.at = "pulling" /\ UNCHANGED <<boxVars, dockerVars>>
         /\ \/ Went("building") /\ head' = Tip
            \/ Halts(2) /\ head' = head
  BY GoesOn, ComesToAnEnd DEF Pull

\* The build of the image.
LEMMA BuildDoes ==
  ASSUME tick \in Turns, Build
  PROVE  /\ tick.at = "building" /\ UNCHANGED <<head, boxVars, previous, container>>
         /\ \/ Went("verifying") /\ \E is \in {"faithful", "stale"} : latest' = [from |-> head, is |-> is]
            \/ Halts(2) /\ latest' = latest
  BY GoesOn, ComesToAnEnd DEF Build

\* The checks of the image.
LEMMA VerifyDoes ==
  ASSUME tick \in Turns, VerifyImage
  PROVE  /\ tick.at = "verifying" /\ UNCHANGED <<head, boxVars, previous, container>>
         /\ \/ Went("starting") /\ latest' = latest
            \/ Halts(2) /\ latest' = [latest EXCEPT !.is = "refused"]
  BY GoesOn, ComesToAnEnd, HasNotCompared DEF VerifyImage

\* Compose replaces the container, breaks it or declines.
LEMMA ComposeDoes ==
  ASSUME tick \in Turns, ComposeUp
  PROVE  /\ tick.at = "starting" /\ UNCHANGED <<head, boxVars, latest, previous>>
         /\ \/ Went("probing") /\ container' = [image |-> latest, up |-> TRUE]
            \/ Went("rolling back") /\ container' = [container EXCEPT !.up = FALSE]
            \/ Went("probing") /\ Declines /\ container' = container
  BY GoesOn DEF ComposeUp

\* The probe of the new container.
LEMMA ProbeDoes ==
  ASSUME tick \in Turns, Probe
  PROVE  /\ tick.at = "probing" /\ UNCHANGED <<head, boxVars, dockerVars>>
         /\ Went("unhealthy") \/ Halts(0) \/ Halts(1) \/ Halts(3)
  BY GoesOn, ComesToAnEnd DEF Probe

\* Why the probe failed.
LEMMA WhyDoes ==
  ASSUME tick \in Turns, AskWhy
  PROVE  /\ tick.at = "unhealthy" /\ UNCHANGED <<head, boxVars, dockerVars>>
         /\ Went("rolling back") \/ Halts(0) \/ Halts(1) \/ Halts(3) \/ (Halts(2) /\ ~IsNew)
  BY GoesOn, ComesToAnEnd DEF AskWhy

\* The rollback.
LEMMA RollBackDoes ==
  ASSUME tick \in Turns, RollBack
  PROVE  /\ tick.at = "rolling back" /\ UNCHANGED <<head, boxVars, previous>>
         /\ \/ /\ latest' = previous /\ container' = [image |-> previous, up |-> TRUE]
               /\ Halts(1) \/ (Halts(2) /\ LiveIn(container'))
            \/ latest' = previous /\ container' = [container EXCEPT !.up = FALSE] /\ Halts(1)
            \/ latest' = latest /\ container' = container /\ Halts(1)
<1> DEFINE old == [image |-> previous, up |-> TRUE]
<1>1. CASE latest' = previous /\ container' = old /\ EndsWith(RolledBack(old))
  <2>1. CASE LiveIn(old)
    <3>1. LiveIn(container')
      BY <1>1, <2>1
    <3> QED
      BY <1>1, <2>1, <3>1, ComesToAnEnd DEF RolledBack, RollBack
  <2>2. CASE ~LiveIn(old)
    BY <1>1, <2>2, ComesToAnEnd DEF RolledBack, RollBack
  <2> QED
    BY <2>1, <2>2
<1>2. CASE latest' = previous /\ container' = [container EXCEPT !.up = FALSE] /\ EndsWith(1)
  BY <1>2, ComesToAnEnd DEF RollBack
<1>3. CASE EndsWith(1) /\ UNCHANGED <<latest, container>>
  BY <1>3, ComesToAnEnd DEF RollBack
<1> QED
  BY <1>1, <1>2, <1>3 DEF RollBack

-----------------------------------------------------------------------------
(* Runs, tags and files name commits that main has.                        *)

Boxes == [image : Images, up : BOOLEAN]

OriginNamed == mainline \in Seq(Trees) /\ Tip \in Commits
FilesNamed == processed \in ToTip /\ head \in ToTip
ImagesNamed ==
    /\ latest \in Images /\ previous \in Images /\ container \in Boxes
    /\ latest.from \in ToTip /\ previous.from \in ToTip /\ container.image.from \in ToTip
RunNamed == tick \in Turns /\ (Working => tick.remote \in ToTip)
NamesKnown == OriginNamed /\ FilesNamed /\ ImagesNamed /\ RunNamed

\* All that is named at the start is known.
LEMMA InitNames == DeployInit => NamesKnown
<1> SUFFICES ASSUME DeployInit PROVE NamesKnown
  OBVIOUS
<1> DEFINE tree == [p \in Parts |-> 1]
           first == [from |-> 1, is |-> "faithful"]
<1>1. 1 \in Commits
  BY DeployAssumption DEF Commits
<1>2. tree \in Trees /\ first \in Images
  BY <1>1 DEF Trees, Images
<1>3. mainline = <<tree>>
  BY DEF DeployInit
<1>4. OriginNamed /\ ToTip = {1}
  <2> HIDE DEF tree
  <2> QED
    BY <1>1, <1>2, <1>3 DEF OriginNamed, Tip, ToTip
<1>5. latest = first /\ previous = first /\ container = [image |-> first, up |-> TRUE]
  BY DEF DeployInit
<1>6. ImagesNamed
  BY <1>2, <1>4, <1>5 DEF ImagesNamed, Boxes
<1>7. RunNamed
  BY DEF DeployInit, RunNamed, Resting, Turns, RunStages, Unset, Working
<1> QED
  BY <1>4, <1>6, <1>7 DEF DeployInit, NamesKnown, FilesNamed

\* Of the steps around the scripts, those but the push and the reboot leave
\* what the proofs are about.
Elsewhere == CIJudges \/ Rerun \/ NodeFalters \/ NodeRecovers \/ UNCHANGED deployVars

\* What goes on elsewhere leaves the box alone.
LEMMA ElsewhereLeaves ==
  Elsewhere => UNCHANGED <<mainline, sound, processed, head, boxVars, dockerVars, tick>>
  BY DEF Elsewhere, CIJudges, Rerun, NodeFalters, NodeRecovers, deployVars, originVars, stateFiles, boxVars, dockerVars

\* A push leaves the box alone.
LEMMA PushLeaves == Push => UNCHANGED <<sound, processed, head, boxVars, dockerVars, tick>>
  BY DEF Push, stateFiles, boxVars, dockerVars

\* The box restarts, and the run is gone.
LEMMA RebootDoes ==
  ASSUME Reboot
  PROVE  /\ UNCHANGED <<processed, head, boxVars, dockerVars>>
         /\ tick' \in Turns /\ tick'.at = "idle" /\ ~tick'.wantReady /\ tick'.code = 1
  BY DEF Reboot, stateFiles, Resting, Turns, RunStages, Unset

\* A step of the scripts or the reboot leaves what main has.
LEMMA SameMain ==
  ASSUME Scripts \/ Reboot
  PROVE  mainline' = mainline /\ Tip' = Tip /\ ToTip' = ToTip /\ sound' = sound
  BY KeepsOrigin DEF originVars, Tip, ToTip

\* Where a run stands after it went on or ended.
LEMMA RunStaysNamed ==
  ASSUME NamesKnown, ToTip' = ToTip, Working, Same \/ \E code \in 0 .. 3 : Halts(code)
  PROVE  processed' \in ToTip /\ RunNamed'
  BY DEF NamesKnown, FilesNamed, RunNamed, Working, Same, Halts

\* What a tag may be given: an image of the checkout, or one that is there.
LEMMA ImageOfHead ==
  ASSUME NamesKnown, NEW is \in {"faithful", "stale"}
  PROVE  [from |-> head, is |-> is] \in Images /\ [from |-> head, is |-> is].from = head
  BY DeployAssumption DEF NamesKnown, OriginNamed, FilesNamed, ToTip, Commits, Images

\* An image that was refused keeps its commit.
LEMMA ImageRefused ==
  ASSUME NEW image \in Images
  PROVE  [image EXCEPT !.is = "refused"] \in Images /\ [image EXCEPT !.is = "refused"].from = image.from
  BY DEF Images

\* A container of an image.
LEMMA BoxOf ==
  ASSUME NEW image \in Images, NEW up \in BOOLEAN
  PROVE  [image |-> image, up |-> up] \in Boxes /\ [image |-> image, up |-> up].image = image
  BY DEF Boxes

\* A container that is down keeps its image.
LEMMA BoxDown ==
  ASSUME NEW c \in Boxes
  PROVE  [c EXCEPT !.up = FALSE] \in Boxes /\ [c EXCEPT !.up = FALSE].image = c.image
  BY DEF Boxes

\* Every step names known commits only.
LEMMA StepNames == NamesKnown /\ [DeployNext]_deployVars => NamesKnown'
<1> SUFFICES ASSUME NamesKnown, [DeployNext]_deployVars PROVE NamesKnown'
  OBVIOUS
<1>1. CASE Push
  <2>1. OriginNamed' /\ Tip' = Tip + 1 /\ ToTip \subseteq ToTip'
    BY <1>1, PushShape DEF NamesKnown, OriginNamed, ToTip, Commits
  <2>2. UNCHANGED <<processed, head, latest, previous, container, tick>>
    BY <1>1, PushLeaves DEF dockerVars
  <2> QED
    BY <2>1, <2>2 DEF NamesKnown, FilesNamed, ImagesNamed, RunNamed, Working
<1>2. CASE Elsewhere
  <2>1. UNCHANGED <<mainline, processed, head, latest, previous, container, tick>>
    BY <1>2, ElsewhereLeaves DEF dockerVars
  <2> QED
    BY <2>1 DEF NamesKnown, OriginNamed, Tip, ToTip, FilesNamed, ImagesNamed, RunNamed, Working
<1>3. CASE Scripts \/ Reboot
  <2> DEFINE Files == processed' \in ToTip /\ head' \in ToTip
  <2>1. OriginNamed' /\ ToTip' = ToTip /\ Tip \in ToTip /\ Tip \in Nat /\ tick \in Turns
    BY <1>3, SameMain DEF NamesKnown, OriginNamed, RunNamed, ToTip, Commits
  <2>2. ASSUME Files, UNCHANGED dockerVars, RunNamed' PROVE NamesKnown'
    BY <2>1, <2>2 DEF NamesKnown, FilesNamed, ImagesNamed, dockerVars
  <2>3. CASE Reboot
    BY <2>1, <2>2, <2>3, RebootDoes DEF NamesKnown, FilesNamed, RunNamed, Working
  <2>4. CASE TickStarts
    BY <2>1, <2>2, <2>4, TickDoes DEF NamesKnown, FilesNamed, RunNamed, Working
  <2>5. CASE AskCI
    <3>1. Working
      BY <2>1, <2>5, GateDoes DEF Working
    <3>2. CASE Halts(0) \/ Halts(1)
      <4>1. processed' \in ToTip /\ RunNamed'
        BY <2>1, <3>1, <3>2, RunStaysNamed
      <4>2. head' \in {head, tick.remote}
        BY <2>1, <2>5, GateDoes
      <4>3. Files
        BY <3>1, <4>1, <4>2 DEF NamesKnown, FilesNamed, RunNamed
      <4> QED
        BY <2>1, <2>2, <2>5, <4>1, <4>3, GateDoes
    <3>3. CASE head' = tick.remote /\ processed' = processed /\ tick' \in Turns /\ tick'.remote = tick.remote
      BY <2>1, <2>2, <2>5, <3>1, <3>3, GateDoes DEF NamesKnown, FilesNamed, RunNamed
    <3> QED
      BY <2>1, <2>5, <3>2, <3>3, GateDoes
  <2>6. CASE RebuildMiner
    BY <2>1, <2>2, <2>6, MinerDoes, RunStaysNamed DEF Working, NamesKnown, FilesNamed
  <2>7. CASE InstallOps
    BY <2>1, <2>2, <2>7, OpsDoes, RunStaysNamed DEF Working, NamesKnown, FilesNamed
  <2>8. CASE Done
    BY <2>1, <2>2, <2>8, DoneDoes, RunStaysNamed DEF Working, NamesKnown, FilesNamed
  <2>9. CASE Redeploy
    <3>1. Working /\ processed' \in ToTip /\ RunNamed'
      <4>1. Working
        BY <2>1, <2>9, SnapshotDoes, PullDoes, BuildDoes, VerifyDoes, ComposeDoes, ProbeDoes, WhyDoes, RollBackDoes
           DEF Redeploy, Working
      <4>2. Same \/ Halts(0) \/ Halts(1) \/ Halts(2) \/ Halts(3)
        <5>1. CASE Snapshot
          BY <2>1, <5>1, SnapshotDoes DEF Went
        <5>2. CASE Pull
          BY <2>1, <5>2, PullDoes DEF Went
        <5>3. CASE Build
          BY <2>1, <5>3, BuildDoes DEF Went
        <5>4. CASE VerifyImage
          BY <2>1, <5>4, VerifyDoes DEF Went
        <5>5. CASE ComposeUp
          BY <2>1, <5>5, ComposeDoes DEF Went
        <5>6. CASE Probe
          BY <2>1, <5>6, ProbeDoes DEF Went
        <5>7. CASE AskWhy
          BY <2>1, <5>7, WhyDoes DEF Went
        <5>8. CASE RollBack
          BY <2>1, <5>8, RollBackDoes
        <5> QED
          BY <2>9, <5>1, <5>2, <5>3, <5>4, <5>5, <5>6, <5>7, <5>8 DEF Redeploy
      <4> QED
        BY <2>1, <4>1, <4>2, RunStaysNamed
    <3>2. ASSUME head' = head \/ head' = Tip PROVE Files
      BY <2>1, <3>1, <3>2 DEF NamesKnown, FilesNamed
    <3>3. CASE Snapshot
      BY <2>1, <3>1, <3>2, <3>3, SnapshotDoes DEF NamesKnown, FilesNamed, ImagesNamed
    <3>4. CASE Pull
      BY <2>1, <2>2, <3>1, <3>2, <3>4, PullDoes
    <3>5. CASE Build
      BY <2>1, <3>1, <3>2, <3>5, BuildDoes, ImageOfHead DEF NamesKnown, FilesNamed, ImagesNamed
    <3>6. CASE VerifyImage
      BY <2>1, <3>1, <3>2, <3>6, VerifyDoes, ImageRefused DEF NamesKnown, FilesNamed, ImagesNamed
    <3>7. CASE ComposeUp
      <4>1. /\ container' \in Boxes /\ container'.image.from \in ToTip
            /\ UNCHANGED <<head, latest, previous>>
        <5>1. latest \in Images /\ container \in Boxes /\ latest.from \in ToTip /\ container.image.from \in ToTip
          BY DEF NamesKnown, ImagesNamed
        <5> QED
          BY <2>1, <3>7, <5>1, ComposeDoes, BoxOf, BoxDown
      <4> QED
        BY <2>1, <3>1, <3>2, <4>1 DEF NamesKnown, FilesNamed, ImagesNamed
    <3>8. CASE Probe
      BY <2>1, <2>2, <3>1, <3>2, <3>8, ProbeDoes
    <3>9. CASE AskWhy
      BY <2>1, <2>2, <3>1, <3>2, <3>9, WhyDoes
    <3>10. CASE RollBack
      <4>1. /\ latest' \in {latest, previous} /\ container' \in Boxes /\ container'.image.from \in ToTip
            /\ UNCHANGED <<head, previous>>
        <5>1. /\ previous \in Images /\ container \in Boxes
              /\ previous.from \in ToTip /\ container.image.from \in ToTip
          BY DEF NamesKnown, ImagesNamed
        <5> QED
          BY <2>1, <3>10, <5>1, RollBackDoes, BoxOf, BoxDown
      <4> QED
        BY <2>1, <3>1, <3>2, <4>1 DEF NamesKnown, FilesNamed, ImagesNamed
    <3> QED
      BY <2>9, <3>3, <3>4, <3>5, <3>6, <3>7, <3>8, <3>9, <3>10 DEF Redeploy
  <2> QED
    BY <1>3, <2>3, <2>4, <2>5, <2>6, <2>7, <2>8, <2>9 DEF Scripts
<1> QED
  BY <1>1, <1>2, <1>3 DEF DeployNext, Around, Elsewhere

-----------------------------------------------------------------------------
(* A run that ends with 2 leaves the faucet alive if it found it ready.    *)

\* What such a run has in front of it: the old app, alive, until compose up
\* replaces it, and then the new image, unless it was declined.
AppHalf == {"pulling", "building", "verifying", "starting", "probing", "unhealthy", "rolling back"}
StaysLive ==
    tick.wantReady =>
        /\ tick.at \in AppHalf
        /\ tick.at \in {"pulling", "building", "verifying", "starting"} => AppLive
        /\ tick.at \in {"probing", "unhealthy"} => AppLive \/ IsNew

LiveInv == NamesKnown /\ StaysLive

\* An app is as alive as before while its container is the same.
LEMMA LivenessIsKept ==
  ASSUME NamesKnown, [DeployNext]_deployVars, container' = container
  PROVE  AppLive' = AppLive
<1>1. container.image.from \in ToTip
  BY DEF NamesKnown, ImagesNamed
<1>2. sound' = sound /\ mainline'[container.image.from] = mainline[container.image.from]
  <2>1. CASE Push
    BY <1>1, <2>1, PushShape, PushLeaves DEF NamesKnown, OriginNamed
  <2>2. CASE Elsewhere
    BY <2>2, ElsewhereLeaves
  <2>3. CASE Scripts \/ Reboot
    BY <2>3, SameMain
  <2> QED
    BY <2>1, <2>2, <2>3 DEF DeployNext, Around, Elsewhere
<1> QED
  BY <1>2 DEF AppLive, LiveIn, Sound

\* A run that ended wants nothing any more.
LEMMA EndedWantsNothing ==
  ASSUME Halts(0) \/ Halts(1) \/ Halts(2) \/ Halts(3) PROVE StaysLive'
  BY DEF Halts, StaysLive

\* Every step keeps a served app served.
LEMMA StepLive == LiveInv /\ [DeployNext]_deployVars => StaysLive'
<1> SUFFICES ASSUME LiveInv, [DeployNext]_deployVars PROVE StaysLive'
  OBVIOUS
<1>1. NamesKnown /\ StaysLive /\ tick \in Turns /\ Tip \in Nat
  BY DEF LiveInv, NamesKnown, RunNamed, OriginNamed, Commits
<1>2. ASSUME UNCHANGED <<dockerVars, tick>> PROVE StaysLive'
  <2>1. AppLive' = AppLive /\ IsNew' = IsNew
    BY <1>1, <1>2, LivenessIsKept DEF dockerVars, IsNew
  <2> QED
    BY <1>1, <1>2, <2>1 DEF StaysLive
<1>3. CASE Push
  BY <1>2, <1>3, PushLeaves
<1>4. CASE Elsewhere
  BY <1>2, <1>4, ElsewhereLeaves
<1>5. CASE Reboot
  BY <1>5, RebootDoes DEF StaysLive
<1>6. CASE TickStarts
  BY <1>1, <1>6, TickDoes DEF StaysLive
<1>7. ASSUME tick'.wantReady = tick.wantReady, tick.at \in {"asking CI", "miner", "ops"} PROVE StaysLive'
  BY <1>1, <1>7 DEF StaysLive, AppHalf
<1>8. CASE AskCI
  BY <1>1, <1>7, <1>8, GateDoes, EndedWantsNothing
<1>9. CASE RebuildMiner
  BY <1>1, <1>7, <1>9, MinerDoes
<1>10. CASE InstallOps
  BY <1>1, <1>7, <1>10, OpsDoes, EndedWantsNothing
<1>11. CASE Done
  BY <1>1, <1>11, DoneDoes, EndedWantsNothing
<1>12. CASE Snapshot
  <2>1. CASE Halts(2)
    BY <2>1, EndedWantsNothing
  <2>2. CASE Went("pulling")
    BY <1>1, <1>12, <2>2, SnapshotDoes DEF Went, StaysLive, AppHalf
  <2>3. CASE tick'.at = "pulling" /\ tick'.wantReady = AppReady
    <3>1. tick'.wantReady => AppLive'
      <4>1. container' = container
        BY <1>1, <1>12, SnapshotDoes
      <4>2. AppLive' = AppLive
        BY <1>1, <4>1, LivenessIsKept
      <4>3. AppReady => AppLive
        BY DEF AppReady
      <4> QED
        BY <2>3, <4>2, <4>3
    <3> QED
      BY <2>3, <3>1 DEF StaysLive, AppHalf
  <2> QED
    BY <1>1, <1>12, <2>1, <2>2, <2>3, SnapshotDoes
<1>13. CASE Pull \/ Build \/ VerifyImage
  <2>1. /\ tick.at \in {"pulling", "building", "verifying"} /\ container' = container
        /\ Halts(2) \/ Went("building") \/ Went("verifying") \/ Went("starting")
    BY <1>1, <1>13, PullDoes, BuildDoes, VerifyDoes DEF dockerVars
  <2>2. AppLive' = AppLive
    BY <1>1, <2>1, LivenessIsKept
  <2> QED
    BY <1>1, <2>1, <2>2, EndedWantsNothing DEF Went, StaysLive, AppHalf
<1>14. CASE ComposeUp
  <2>1. CASE Went("rolling back")
    BY <2>1 DEF Went, StaysLive, AppHalf
  <2>2. CASE Went("probing") /\ container' = [image |-> latest, up |-> TRUE]
    <3>1. IsNew'
      BY <1>1, <1>14, <2>2, ComposeDoes DEF IsNew
    <3> QED
      BY <2>2, <3>1 DEF Went, StaysLive, AppHalf
  <2>3. CASE Went("probing") /\ container' = container
    <3>1. AppLive' = AppLive
      BY <1>1, <2>3, LivenessIsKept
    <3> QED
      BY <1>1, <1>14, <2>3, <3>1, ComposeDoes DEF Went, StaysLive, AppHalf
  <2> QED
    BY <1>1, <1>14, <2>1, <2>2, <2>3, ComposeDoes
<1>15. CASE Probe \/ AskWhy
  <2>1. /\ tick.at \in {"probing", "unhealthy"} /\ container' = container /\ IsNew' = IsNew
        /\ Went("unhealthy") \/ Went("rolling back") \/ Halts(0) \/ Halts(1) \/ Halts(2) \/ Halts(3)
    BY <1>1, <1>15, ProbeDoes, WhyDoes DEF dockerVars, IsNew
  <2>2. AppLive' = AppLive
    BY <1>1, <2>1, LivenessIsKept
  <2> QED
    BY <1>1, <2>1, <2>2, EndedWantsNothing DEF Went, StaysLive, AppHalf
<1>16. CASE RollBack
  BY <1>1, <1>16, RollBackDoes, EndedWantsNothing
<1> QED
  BY <1>3, <1>4, <1>5, <1>6, <1>8, <1>9, <1>10, <1>11, <1>12, <1>13, <1>14, <1>15, <1>16
     DEF DeployNext, Around, Elsewhere, Scripts, Redeploy

\* The invariant behind TwoIsServing.
LEMMA LiveInvariant == DeploySpec => []LiveInv
<1>1. DeployInit => LiveInv
  <2> SUFFICES ASSUME DeployInit PROVE LiveInv
    OBVIOUS
  <2>1. ~tick.wantReady
    BY DEF DeployInit, Resting
  <2> QED
    BY <2>1, InitNames DEF LiveInv, StaysLive
<1>2. LiveInv /\ [DeployNext]_deployVars => LiveInv'
  BY StepNames, StepLive DEF LiveInv
<1> QED
  BY <1>1, <1>2, PTL DEF DeploySpec

\* A run of auto-deploy.sh that found the app ready and ends with 2 leaves an
\* app that is alive, whatever failed on the way, whatever main and the node
\* did meanwhile, and whether or not compose replaced the container.
THEOREM TwoIsServing == DeploySpec => TwoMeansServing
<1> DEFINE EndsTwo == tick.wantReady /\ tick'.at = "idle" /\ tick'.code = 2
           Serving == EndsTwo => LiveIn(container')
<1>1. LiveInv /\ [DeployNext]_deployVars => [Serving]_deployVars
  <2> SUFFICES ASSUME LiveInv, DeployNext, EndsTwo PROVE LiveIn(container')
    OBVIOUS
  <2>1. NamesKnown /\ StaysLive /\ tick \in Turns /\ Tip \in Nat
    BY DEF LiveInv, NamesKnown, RunNamed, OriginNamed, Commits
  <2>2. tick.at \in AppHalf
    BY <2>1 DEF StaysLive
  <2>3. CASE Around
    <3>1. ~UNCHANGED tick
      BY <2>2 DEF AppHalf
    <3>2. tick'.code # 1
      OBVIOUS
    <3> QED
      BY <2>3, <3>1, <3>2, PushLeaves, ElsewhereLeaves, RebootDoes DEF Around, Elsewhere
  <2>4. CASE TickStarts \/ AskCI \/ RebuildMiner \/ InstallOps \/ Done \/ Snapshot
    BY <2>1, <2>2, <2>4, TickDoes, GateDoes, MinerDoes, OpsDoes, DoneDoes, SnapshotDoes DEF AppHalf
  <2>5. CASE Pull \/ Build \/ VerifyImage
    <3>1. tick.at \in {"pulling", "building", "verifying"} /\ container' = container
      BY <2>1, <2>5, PullDoes, BuildDoes, VerifyDoes DEF dockerVars
    <3> QED
      BY <2>1, <3>1 DEF StaysLive, AppLive
  <2>6. CASE ComposeUp
    BY <2>1, <2>6, ComposeDoes DEF Went
  <2>7. CASE Probe
    BY <2>1, <2>7, ProbeDoes DEF Went, Halts
  <2>8. CASE AskWhy
    <3>1. tick.at = "unhealthy" /\ container' = container /\ ~IsNew
      BY <2>1, <2>8, WhyDoes DEF Went, Halts, dockerVars
    <3> QED
      BY <2>1, <3>1 DEF StaysLive, AppLive
  <2>9. CASE RollBack
    <3>1. ~Halts(1)
      BY DEF Halts
    <3> QED
      BY <2>1, <2>9, <3>1, RollBackDoes
  <2> QED
    BY <2>3, <2>4, <2>5, <2>6, <2>7, <2>8, <2>9 DEF DeployNext, Scripts, Redeploy
<1> QED
  BY <1>1, LiveInvariant, PTL DEF DeploySpec, TwoMeansServing

-----------------------------------------------------------------------------
(* What is recorded as processed is on the box.                            *)

\* Main only grows: each part of a commit is as new as in those before it.
Grows ==
    \A i, j \in ToTip : i <= j =>
        \A p \in Parts : mainline[i][p] <= mainline[j][p] /\ mainline[j][p] <= j

\* The checkout of a run is what it was let through to, until redeploy pulls.
HeadIsRemote ==
    /\ Working => processed <= tick.remote
    /\ tick.at \in {"miner", "ops"} => head = tick.remote
    /\ tick.at \in AppHalf \ {"pulling"} => tick.remote <= head
    /\ tick.at \in {"verifying", "starting", "probing", "unhealthy"} => latest.from = head

\* What the difference left out is the same at both ends.
GateSeen == tick.at \notin {"idle", "asking CI"}
TodoTrue ==
    /\ GateSeen => \A p \in Parts \ tick.todo : mainline[processed][p] = mainline[tick.remote][p]
    /\ tick.at = "done" => "app" \notin tick.todo

\* What lies on the box is never older than what is recorded, and the ops files
\* and the miner never newer than what the run was let through to.
NotOlder ==
    /\ mainline[processed].ops <= ops /\ mainline[processed].miner <= bin
    /\ mainline[processed].app <= mainline[latest.from].app
    /\ ~Declines => mainline[processed].app <= mainline[container.image.from].app
    /\ tick.at \in AppHalf => mainline[processed].app <= mainline[previous.from].app
NotNewer ==
    /\ ops \in Nat /\ bin \in Nat
    /\ ops <= mainline[Tip].ops /\ bin <= mainline[Tip].miner
    /\ Working => ops <= mainline[tick.remote].ops /\ bin <= mainline[tick.remote].miner

\* A half that has been passed without a failure is as it should be.
PassedMiner == GateSeen /\ tick.at # "miner"
PassedOps == PassedMiner /\ tick.at # "ops"
HalvesDone ==
    /\ PassedMiner /\ ~tick.failed => bin = mainline[tick.remote].miner
    /\ PassedOps /\ ~tick.failed => ops = mainline[tick.remote].ops

\* When compose declines nothing, what is probed is what was built.
NewIsProbed == ~Declines /\ tick.at \in {"probing", "unhealthy"} => IsNew

RunParts == HeadIsRemote /\ TodoTrue /\ NotOlder /\ NotNewer /\ HalvesDone /\ NewIsProbed
RecordInv == NamesKnown /\ Grows /\ RunParts

\* The numbers that the parts of a commit carry.
LEMMA TreeNumbers ==
  ASSUME NamesKnown
  PROVE  /\ Tip \in Nat /\ Tip \in ToTip /\ \A c \in ToTip : c \in Nat /\ c <= Tip
         /\ \A c \in ToTip : /\ mainline[c].ops \in Nat /\ mainline[c].miner \in Nat /\ mainline[c].app \in Nat
         /\ \A c \in ToTip, p \in Parts : mainline[c][p] \in Nat
<1>1. \A c \in ToTip : mainline[c] \in Trees
  BY DEF NamesKnown, OriginNamed, ToTip, Tip
<1>2. \A c \in ToTip, p \in Parts : mainline[c][p] \in Nat
  BY <1>1, DeployAssumption DEF Trees, Commits
<1>3. Tip \in Nat /\ Tip \in ToTip /\ \A c \in ToTip : c \in Nat /\ c <= Tip
  BY DeployAssumption DEF NamesKnown, OriginNamed, ToTip, Commits
<1> QED
  BY <1>2, <1>3 DEF Parts

\* What is recorded, checked out and installed is of a known commit.
LEMMA Named ==
  ASSUME NamesKnown
  PROVE  /\ processed \in ToTip /\ head \in ToTip /\ latest.from \in ToTip /\ previous.from \in ToTip
         /\ container.image.from \in ToTip /\ tick \in Turns /\ (Working => tick.remote \in ToTip)
  BY DEF NamesKnown, FilesNamed, ImagesNamed, RunNamed

\* Growth, at the parts.
LEMMA GrowsBy ==
  ASSUME Grows, NEW i \in ToTip, NEW j \in ToTip, i <= j
  PROVE  /\ mainline[i].ops <= mainline[j].ops /\ mainline[i].miner <= mainline[j].miner
         /\ mainline[i].app <= mainline[j].app
  BY DEF Grows, Parts

\* At first the box is as recorded.
LEMMA InitRecord == DeployInit => RecordInv
<1> SUFFICES ASSUME DeployInit PROVE RecordInv
  OBVIOUS
<1>1. NamesKnown
  BY InitNames
<1>2. mainline = <<[p \in Parts |-> 1]>> /\ Tip = 1 /\ ToTip = {1}
  BY DEF DeployInit, Tip, ToTip
<1>3. Grows
  BY <1>2 DEF Grows
<1>4. /\ processed = 1 /\ ops = 1 /\ bin = 1 /\ latest.from = 1 /\ container.image.from = 1
      /\ tick.at = "idle"
  BY DEF DeployInit, Resting
<1>5. mainline[1].ops = 1 /\ mainline[1].miner = 1 /\ mainline[1].app = 1
  BY <1>2 DEF Parts
<1>6. RunParts
  BY <1>2, <1>4, <1>5 DEF RunParts, HeadIsRemote, TodoTrue, NotOlder, NotNewer, HalvesDone, NewIsProbed, Working,
     GateSeen, PassedMiner, PassedOps, AppHalf
<1> QED
  BY <1>1, <1>3, <1>6 DEF RecordInv

\* Without reverts, main only goes forward.
LEMMA StepGrows ==
  ASSUME ~Reverts, NamesKnown, Grows, [DeployNext]_deployVars
  PROVE  Grows'
<1>1. CASE Push
  <2>1. /\ Tip \in Nat /\ Tip' = Tip + 1 /\ \A i \in ToTip : mainline'[i] = mainline[i]
        /\ \A p \in Parts : mainline'[Tip'][p] \in {Tip + 1, mainline[Tip][p]}
    BY <1>1, PushShape, TreeNumbers DEF NamesKnown, OriginNamed
  <2> SUFFICES ASSUME NEW i \in ToTip', NEW j \in ToTip', i <= j, NEW p \in Parts
               PROVE  mainline'[i][p] <= mainline'[j][p] /\ mainline'[j][p] <= j
    BY DEF Grows
  <2>2. (i \in ToTip \/ i = Tip + 1) /\ (j \in ToTip \/ j = Tip + 1) /\ i \in Nat /\ j \in Nat /\ Tip \in ToTip
    BY <2>1, TreeNumbers DEF ToTip
  <2>3. CASE j \in ToTip
    <3>1. i \in ToTip
      BY <2>2, <2>3 DEF ToTip
    <3> QED
      BY <2>1, <2>3, <3>1 DEF Grows
  <2>4. CASE j = Tip + 1 /\ i \in ToTip
    <3>1. mainline[i][p] <= mainline[Tip][p] /\ mainline[Tip][p] <= Tip /\ mainline[i][p] <= i
      BY <2>2, <2>4, TreeNumbers DEF Grows
    <3>2. mainline[i][p] \in Nat /\ mainline[Tip][p] \in Nat
      BY <2>2, <2>4, TreeNumbers
    <3> QED
      BY <2>1, <2>2, <2>4, <3>1, <3>2, TreeNumbers
  <2>5. CASE j = Tip + 1 /\ i = Tip + 1
    <3>1. mainline[Tip][p] <= Tip /\ mainline[Tip][p] \in Nat
      BY <2>2, TreeNumbers DEF Grows
    <3> QED
      BY <2>1, <2>5, <3>1
  <2> QED
    BY <2>2, <2>3, <2>4, <2>5
<1>2. CASE Elsewhere
  BY <1>2, ElsewhereLeaves DEF Grows, ToTip, Tip
<1>3. CASE Scripts \/ Reboot
  BY <1>3, SameMain DEF Grows
<1> QED
  BY <1>1, <1>2, <1>3 DEF DeployNext, Around, Elsewhere

\* A run that ends without recording anything.
LEMMA EndsAsItWas ==
  ASSUME RecordInv, mainline' = mainline, Tip' = Tip, tick'.at = "idle", processed' = processed,
         UNCHANGED <<ops, bin>>,
         mainline[processed].app <= mainline[latest'.from].app,
         ~Declines => mainline[processed].app <= mainline[container'.image.from].app
  PROVE  RunParts'
<1>1. HeadIsRemote' /\ TodoTrue' /\ HalvesDone' /\ NewIsProbed'
  BY DEF HeadIsRemote, TodoTrue, HalvesDone, NewIsProbed, Working, GateSeen, PassedMiner, PassedOps, AppHalf
<1>2. NotOlder' /\ NotNewer'
  BY DEF RecordInv, RunParts, NotOlder, NotNewer, Working, AppHalf
<1> QED
  BY <1>1, <1>2 DEF RunParts

\* The app of what a run records, while it may be recorded.
LEMMA AppIsThere ==
  ASSUME RecordInv, tick.at \in {"done", "probing", "unhealthy"}
  PROVE  /\ mainline[tick.remote].app <= mainline[latest.from].app
         /\ ~Declines => mainline[tick.remote].app <= mainline[container.image.from].app
<1>1. NamesKnown /\ Grows /\ RunParts /\ Working /\ GateSeen
  BY DEF RecordInv, Working, GateSeen
<1>2. CASE tick.at = "done"
  <2>1. mainline[processed]["app"] = mainline[tick.remote]["app"]
    BY <1>1, <1>2 DEF RunParts, TodoTrue, Parts
  <2> QED
    BY <1>1, <2>1 DEF RunParts, NotOlder
<1>3. CASE tick.at \in {"probing", "unhealthy"}
  <2>1. tick.remote <= latest.from /\ (~Declines => container.image = latest)
    BY <1>1, <1>3 DEF RunParts, HeadIsRemote, NewIsProbed, IsNew, AppHalf
  <2>2. tick.remote \in ToTip /\ latest.from \in ToTip
    BY <1>1, Named
  <2> QED
    BY <1>1, <2>1, <2>2, GrowsBy
<1> QED
  BY <1>2, <1>3

\* A run that ends with what it was let through to on record.
LEMMA EndsRecorded ==
  ASSUME RecordInv, tick.at \in {"done", "probing", "unhealthy"}, ~tick.failed,
         mainline' = mainline, Tip' = Tip, tick'.at = "idle", processed' = tick.remote,
         UNCHANGED <<ops, bin, latest, container>>
  PROVE  RunParts' /\ ops = mainline[tick.remote].ops /\ bin = mainline[tick.remote].miner
<1>1. HeadIsRemote' /\ TodoTrue' /\ HalvesDone' /\ NewIsProbed'
  BY DEF HeadIsRemote, TodoTrue, HalvesDone, NewIsProbed, Working, GateSeen, PassedMiner, PassedOps, AppHalf
<1>2. ops = mainline[tick.remote].ops /\ bin = mainline[tick.remote].miner
  BY DEF RecordInv, RunParts, HalvesDone, PassedOps, PassedMiner, GateSeen
<1>3. NotNewer'
  BY DEF RecordInv, RunParts, NotNewer, Working
<1>4. ops \in Nat /\ bin \in Nat
  BY DEF RecordInv, RunParts, NotNewer
<1>5. NotOlder'
  BY <1>2, <1>4, AppIsThere DEF NotOlder, AppHalf
<1> QED
  BY <1>1, <1>2, <1>3, <1>5 DEF RunParts

\* Either, when nothing else changes with the end.
LEMMA EndsEitherWay ==
  ASSUME RecordInv, NEW code \in 0 .. 3, Halts(code), mainline' = mainline, Tip' = Tip,
         UNCHANGED <<ops, bin, latest, container>>,
         code \in {0, 3} => tick.at \in {"done", "probing", "unhealthy"}
  PROVE  RunParts'
<1>1. CASE processed' = processed
  <2>1. /\ mainline[processed].app <= mainline[latest.from].app
        /\ ~Declines => mainline[processed].app <= mainline[container.image.from].app
    BY DEF RecordInv, RunParts, NotOlder
  <2> QED
    BY <1>1, <2>1, EndsAsItWas DEF Halts
<1>2. CASE processed' = tick.remote /\ ~tick.failed /\ code \in {0, 3}
  BY <1>2, EndsRecorded DEF Halts
<1> QED
  BY <1>1, <1>2 DEF Halts

\* What the difference leaves out is on the box as the run wants it.
LEMMA LeftOutIsThere ==
  ASSUME NamesKnown, NotOlder, NotNewer, Working, NEW p \in Parts,
         mainline[processed][p] = mainline[tick.remote][p]
  PROVE  /\ p = "ops" => ops = mainline[tick.remote].ops
         /\ p = "miner" => bin = mainline[tick.remote].miner
<1>1. /\ mainline[tick.remote].ops \in Nat /\ mainline[tick.remote].miner \in Nat
      /\ mainline[processed].ops \in Nat /\ mainline[processed].miner \in Nat
  BY Named, TreeNumbers
<1> QED
  BY <1>1 DEF NotOlder, NotNewer

\* ci_gate lets the run through: the parts it goes by are as they should be.
LEMMA GateOpens ==
  ASSUME RecordInv, tick.at = "asking CI", mainline' = mainline, Tip' = Tip, head' = tick.remote,
         processed' = processed, UNCHANGED <<ops, bin, latest, previous, container>>, tick' \in Turns,
         tick'.todo = {p \in Parts : mainline[processed][p] # mainline[tick.remote][p]},
         tick'.at = AfterCI(tick'.todo), tick'.remote = tick.remote
  PROVE  RunParts'
<1>1. NamesKnown /\ RunParts /\ Working /\ tick.remote \in ToTip
  BY Named DEF RecordInv, Working
<1>2. tick'.todo \in SUBSET Parts /\ tick'.at \in {"miner", "ops", "app", "done"}
  BY NextHalf DEF Turns
<1>3. HeadIsRemote'
  BY <1>1, <1>2 DEF RunParts, HeadIsRemote, Working, AppHalf
<1>4. TodoTrue'
  BY <1>2, NextHalf DEF TodoTrue
<1>5. NotOlder' /\ NotNewer' /\ NewIsProbed'
  BY <1>1, <1>2 DEF RunParts, NotOlder, NotNewer, NewIsProbed, Working, AppHalf
<1>6. HalvesDone'
  <2>1. ASSUME tick'.at # "miner" PROVE bin = mainline[tick.remote].miner
    <3>1. "miner" \notin tick'.todo /\ "miner" \in Parts
      BY <1>2, <2>1, NextHalf DEF Parts
    <3> QED
      BY <1>1, <3>1, LeftOutIsThere DEF RunParts
  <2>2. ASSUME tick'.at \notin {"miner", "ops"} PROVE ops = mainline[tick.remote].ops
    <3>1. "ops" \notin tick'.todo /\ "ops" \in Parts
      BY <1>2, <2>2, NextHalf DEF Parts
    <3> QED
      BY <1>1, <3>1, LeftOutIsThere DEF RunParts
  <2> QED
    BY <2>1, <2>2 DEF HalvesDone, PassedMiner, PassedOps
<1> QED
  BY <1>3, <1>4, <1>5, <1>6 DEF RunParts

\* The miner is built from what the run was let through to, or the half failed.
LEMMA MinerIsBuilt ==
  ASSUME RecordInv, RebuildMiner, mainline' = mainline, Tip' = Tip
  PROVE  RunParts'
<1>1. /\ NamesKnown /\ Grows /\ RunParts /\ tick \in Turns /\ tick.todo \in SUBSET Parts
      /\ processed \in ToTip /\ tick.remote \in ToTip /\ Working /\ GateSeen
      /\ head = tick.remote /\ processed <= tick.remote
  BY MinerDoes, Named DEF RecordInv, RunParts, HeadIsRemote, Working, GateSeen, Turns
<1>2. /\ tick.at = "miner" /\ UNCHANGED <<head, ops, latest, previous, container, processed>>
      /\ tick'.at = AfterMiner(tick.todo) /\ tick'.todo = tick.todo /\ tick'.remote = tick.remote
      /\ \/ bin' = mainline[head].miner /\ tick'.failed = tick.failed
         \/ bin' \in {bin, mainline[head].miner} /\ tick'.failed
  BY <1>1, MinerDoes DEF Same, dockerVars
<1>3. tick'.at \in {"ops", "app", "done"} /\ (tick'.at = "done" => "app" \notin tick.todo)
      /\ (tick'.at # "ops" => "ops" \notin tick.todo)
  BY <1>1, <1>2, NextHalf
<1>4. /\ mainline[processed].miner <= mainline[tick.remote].miner /\ mainline[tick.remote].miner <= mainline[Tip].miner
      /\ mainline[tick.remote].miner \in Nat
  BY <1>1, GrowsBy, TreeNumbers
<1>5. HeadIsRemote' /\ TodoTrue' /\ NewIsProbed'
  BY <1>1, <1>2, <1>3 DEF RunParts, HeadIsRemote, TodoTrue, NewIsProbed, Working, GateSeen, AppHalf
<1>6. NotOlder' /\ NotNewer'
  <2>1. /\ mainline[processed].miner <= bin /\ bin \in Nat /\ bin <= mainline[Tip].miner
        /\ bin <= mainline[tick.remote].miner
    BY <1>1 DEF RunParts, NotOlder, NotNewer
  <2>2. bin' \in {bin, mainline[tick.remote].miner}
    BY <1>1, <1>2
  <2>3. /\ mainline[processed].miner <= bin' /\ bin' \in Nat /\ bin' <= mainline[Tip].miner
        /\ bin' <= mainline[tick.remote].miner
    BY <1>4, <2>1, <2>2
  <2>4. NotOlder'
    BY <1>1, <1>2, <1>3, <2>3 DEF RunParts, NotOlder, AppHalf
  <2>5. NotNewer'
    BY <1>1, <1>2, <2>3 DEF RunParts, NotNewer
  <2> QED
    BY <2>4, <2>5
<1>7. HalvesDone'
  <2>1. ASSUME tick'.at # "ops" PROVE ops = mainline[tick.remote].ops
    <3>1. "ops" \in Parts
      BY DEF Parts
    <3>2. mainline[processed]["ops"] = mainline[tick.remote]["ops"]
      BY <1>1, <1>3, <2>1, <3>1 DEF RunParts, TodoTrue
    <3> QED
      BY <1>1, <3>1, <3>2, LeftOutIsThere DEF RunParts
  <2>2. ~tick'.failed => bin' = mainline[tick.remote].miner
    BY <1>1, <1>2
  <2> QED
    BY <1>2, <2>1, <2>2 DEF HalvesDone, PassedOps
<1> QED
  BY <1>5, <1>6, <1>7 DEF RunParts

\* And so are the ops files.
LEMMA OpsAreInstalled ==
  ASSUME RecordInv, InstallOps, mainline' = mainline, Tip' = Tip
  PROVE  RunParts'
<1>1. /\ NamesKnown /\ Grows /\ RunParts /\ tick \in Turns /\ tick.todo \in SUBSET Parts
      /\ processed \in ToTip /\ tick.remote \in ToTip /\ Working /\ GateSeen
      /\ head = tick.remote /\ processed <= tick.remote
  BY OpsDoes, Named DEF RecordInv, RunParts, HeadIsRemote, Working, GateSeen, Turns
<1>2. tick.at = "ops" /\ UNCHANGED <<head, bin, latest, previous, container>>
  BY <1>1, OpsDoes DEF dockerVars
<1>3. CASE Halts(1) /\ ops' = ops
  BY <1>2, <1>3, EndsEitherWay
<1>4. CASE /\ Same /\ tick'.at = AfterOps(tick.todo)
           /\ \/ ops' = mainline[head].ops /\ tick'.failed = tick.failed
              \/ ops' \in {ops, mainline[head].ops} /\ tick'.failed
  <2>1. tick'.at \in {"app", "done"} /\ (tick'.at = "done" => "app" \notin tick.todo)
    BY <1>1, <1>4, NextHalf
  <2>2. /\ mainline[processed].ops <= mainline[tick.remote].ops /\ mainline[tick.remote].ops <= mainline[Tip].ops
        /\ mainline[tick.remote].ops \in Nat
    BY <1>1, GrowsBy, TreeNumbers
  <2>3. HeadIsRemote' /\ TodoTrue' /\ NewIsProbed'
    BY <1>1, <1>2, <1>4, <2>1 DEF Same, RunParts, HeadIsRemote, TodoTrue, NewIsProbed, Working, GateSeen, AppHalf
  <2>4. NotOlder' /\ NotNewer'
    <3>1. /\ mainline[processed].ops <= ops /\ ops \in Nat /\ ops <= mainline[Tip].ops
          /\ ops <= mainline[tick.remote].ops
      BY <1>1 DEF RunParts, NotOlder, NotNewer
    <3>2. ops' \in {ops, mainline[tick.remote].ops}
      BY <1>1, <1>4
    <3>3. /\ mainline[processed].ops <= ops' /\ ops' \in Nat /\ ops' <= mainline[Tip].ops
          /\ ops' <= mainline[tick.remote].ops
      BY <2>2, <3>1, <3>2
    <3>4. NotOlder'
      BY <1>1, <1>2, <1>4, <2>1, <3>3 DEF Same, RunParts, NotOlder, AppHalf
    <3>5. NotNewer'
      BY <1>1, <1>2, <1>4, <3>3 DEF Same, RunParts, NotNewer
    <3> QED
      BY <3>4, <3>5
  <2>5. tick.failed => tick'.failed
    BY <1>4
  <2>6. HalvesDone'
    BY <1>1, <1>2, <1>4, <2>5 DEF Same, RunParts, HalvesDone, PassedMiner, PassedOps, GateSeen
  <2> QED
    BY <2>3, <2>4, <2>6 DEF RunParts
<1> QED
  BY <1>1, <1>3, <1>4, OpsDoes

\* A run goes on in its app half: the tags it gives are of the checkout, or of
\* what was there, and the checkout only goes forward.
LEMMA AppHalfGoesOn ==
  ASSUME RecordInv, mainline' = mainline, Tip' = Tip, UNCHANGED <<ops, bin>>,
         tick.at \in AppHalf \union {"app"}, tick'.at \in AppHalf, Same, tick'.failed = tick.failed,
         previous' \in {previous, latest}, tick.at = "app" => previous' = latest,
         latest' = latest \/ latest'.from = head,
         latest' = latest \/ tick.at = "building",
         container' = container \/ container'.image \in {container.image, latest},
         tick'.at \notin {"pulling"} => tick.remote <= head',
         tick'.at \in {"verifying", "starting", "probing", "unhealthy"} => latest'.from = head',
         ~Declines /\ tick'.at \in {"probing", "unhealthy"} => container'.image = latest'
  PROVE  RunParts'
<1>1. NamesKnown /\ Grows /\ RunParts /\ Working /\ GateSeen /\ head \in ToTip /\ processed \in ToTip /\ tick.remote \in ToTip
  BY Named DEF RecordInv, Working, GateSeen, AppHalf
<1>2. HeadIsRemote' /\ TodoTrue' /\ NewIsProbed'
  BY <1>1 DEF Same, RunParts, HeadIsRemote, TodoTrue, NewIsProbed, Working, GateSeen, AppHalf, IsNew
<1>3. HalvesDone'
  BY <1>1 DEF Same, RunParts, HalvesDone, PassedMiner, PassedOps, GateSeen, AppHalf
<1>4. NotNewer'
  BY <1>1 DEF Same, RunParts, NotNewer, Working
<1>5. tick.at = "building" => mainline[processed].app <= mainline[head].app
  <2>1. tick.at = "building" => processed <= tick.remote /\ tick.remote <= head
    BY <1>1 DEF RunParts, HeadIsRemote, AppHalf
  <2>2. processed \in Nat /\ tick.remote \in Nat /\ head \in Nat
    BY <1>1, TreeNumbers
  <2> QED
    BY <1>1, <2>1, <2>2, GrowsBy
<1>6. NotOlder'
  BY <1>1, <1>5 DEF Same, RunParts, NotOlder, AppHalf
<1> QED
  BY <1>2, <1>3, <1>4, <1>6 DEF RunParts

\* A push changes no commit that a run, a tag or a file names.
LEMMA PushKeepsParts ==
  ASSUME ~Reverts, RecordInv, Push PROVE RunParts'
<1>1. NamesKnown /\ Grows /\ RunParts /\ (Working => tick.remote \in ToTip)
      /\ processed \in ToTip /\ latest.from \in ToTip /\ previous.from \in ToTip /\ container.image.from \in ToTip
  BY Named DEF RecordInv
<1>2. /\ Tip \in Nat /\ Tip \in ToTip /\ Tip' = Tip + 1
      /\ \A i \in ToTip : mainline'[i] = mainline[i]
      /\ mainline' \in Seq(Trees) /\ Tip' \in Commits
  BY <1>1, PushShape, TreeNumbers DEF RecordInv, NamesKnown, OriginNamed
<1>3. UNCHANGED <<processed, head, ops, bin, latest, previous, container, tick>>
  BY PushLeaves DEF boxVars, dockerVars
<1>4. HeadIsRemote' /\ TodoTrue' /\ HalvesDone' /\ NewIsProbed'
  BY <1>1, <1>2, <1>3 DEF RunParts, HeadIsRemote, TodoTrue, HalvesDone, NewIsProbed, Working, GateSeen,
     PassedMiner, PassedOps, IsNew
<1>5. NotOlder'
  BY <1>1, <1>2, <1>3 DEF RunParts, NotOlder
<1>6. NotNewer'
  <2>1. /\ mainline[Tip].ops <= Tip /\ mainline[Tip].miner <= Tip
        /\ mainline[Tip].ops \in Nat /\ mainline[Tip].miner \in Nat
    <3>1. \A p \in Parts : mainline[Tip][p] <= Tip /\ mainline[Tip][p] \in Nat
      BY <1>1, <1>2, TreeNumbers DEF Grows
    <3> QED
      BY <3>1 DEF Parts
  <2>2. /\ mainline'[Tip'].ops \in {Tip + 1, mainline[Tip].ops}
        /\ mainline'[Tip'].miner \in {Tip + 1, mainline[Tip].miner}
    <3>1. \A p \in Parts : mainline'[Tip'][p] \in {Tip + 1, mainline[Tip][p]}
      BY <1>1, PushShape DEF NamesKnown, OriginNamed
    <3> QED
      BY <3>1 DEF Parts
  <2>3. ops \in Nat /\ bin \in Nat /\ ops <= mainline[Tip].ops /\ bin <= mainline[Tip].miner
    BY <1>1 DEF RunParts, NotNewer
  <2>4. ops <= mainline'[Tip'].ops /\ bin <= mainline'[Tip'].miner
    BY <1>2, <2>1, <2>2, <2>3
  <2> QED
    BY <1>1, <1>2, <1>3, <2>3, <2>4 DEF RunParts, NotNewer, Working
<1> QED
  BY <1>4, <1>5, <1>6 DEF RunParts

\* A run begins with its halves as it finds them.
LEMMA TickStartsWell ==
  ASSUME RecordInv, TickStarts, mainline' = mainline, Tip' = Tip PROVE RunParts'
<1>1. /\ NamesKnown /\ RunParts /\ tick \in Turns /\ Tip \in Nat /\ processed \in ToTip /\ processed <= Tip
      /\ mainline[processed].app <= mainline[latest.from].app
      /\ (~Declines => mainline[processed].app <= mainline[container.image.from].app)
  BY Named, TreeNumbers DEF RecordInv, RunParts, NotOlder
<1>2. UNCHANGED <<processed, head, ops, bin, latest, previous, container>>
  BY <1>1, TickDoes DEF boxVars, dockerVars
<1>3. CASE tick'.at = "idle"
  BY <1>1, <1>2, <1>3, EndsAsItWas
<1>4. CASE tick'.at = "asking CI" /\ tick'.remote = Tip
  <2>1. HeadIsRemote' /\ TodoTrue' /\ HalvesDone' /\ NewIsProbed'
    BY <1>1, <1>2, <1>4 DEF HeadIsRemote, TodoTrue, HalvesDone, NewIsProbed, Working, GateSeen, PassedMiner,
       PassedOps, AppHalf
  <2>2. NotOlder' /\ NotNewer'
    BY <1>1, <1>2, <1>4 DEF RunParts, NotOlder, NotNewer, Working, AppHalf
  <2> QED
    BY <2>1, <2>2 DEF RunParts
<1> QED
  BY <1>1, <1>3, <1>4, TickDoes

\* A run that the gate ends leaves the halves as they are.
LEMMA GateEndsWell ==
  ASSUME RecordInv, AskCI, Halts(1) \/ (Halts(0) /\ processed' = processed), mainline' = mainline, Tip' = Tip
  PROVE  RunParts'
<1>1. /\ tick \in Turns
      /\ mainline[processed].app <= mainline[latest.from].app
      /\ (~Declines => mainline[processed].app <= mainline[container.image.from].app)
  BY Named DEF RecordInv, RunParts, NotOlder
<1>2. UNCHANGED <<ops, bin, latest, container>>
  BY <1>1, GateDoes DEF boxVars, dockerVars
<1>3. tick'.at = "idle" /\ processed' = processed
  BY DEF Halts
<1> QED
  BY <1>1, <1>2, <1>3, EndsAsItWas

\* redeploy.sh keeps the halves as the run wants them.
LEMMA RedeployKeepsParts ==
  ASSUME RecordInv, Redeploy, mainline' = mainline, Tip' = Tip
  PROVE  RunParts'
<1>1. /\ NamesKnown /\ Grows /\ RunParts /\ tick \in Turns /\ Tip \in Nat /\ Tip \in ToTip
      /\ head \in ToTip /\ (Working => tick.remote \in ToTip /\ tick.remote <= Tip)
      /\ mainline[processed].app <= mainline[latest.from].app
      /\ (~Declines => mainline[processed].app <= mainline[container.image.from].app)
      /\ (tick.at \in AppHalf => mainline[processed].app <= mainline[previous.from].app)
  BY Named, TreeNumbers DEF RecordInv, RunParts, NotOlder
<1>2. HeadIsRemote /\ NewIsProbed
  BY <1>1 DEF RunParts
<1>3. CASE Snapshot
  <2>1. /\ tick.at = "app" /\ UNCHANGED <<head, ops, bin, latest, container>>
        /\ Halts(2) \/ (Same /\ tick'.at = "pulling" /\ tick'.failed = tick.failed /\ previous' = latest)
    BY <1>1, <1>3, SnapshotDoes DEF boxVars, Went
  <2>2. CASE Halts(2)
    BY <2>1, <2>2, EndsEitherWay
  <2>3. CASE Same /\ tick'.at = "pulling" /\ tick'.failed = tick.failed /\ previous' = latest
    BY <2>1, <2>3, AppHalfGoesOn DEF AppHalf
  <2> QED
    BY <2>1, <2>2, <2>3
<1>4. CASE Pull
  <2>1. /\ tick.at = "pulling" /\ UNCHANGED <<ops, bin, latest, previous, container>>
        /\ Halts(2) \/ (Same /\ tick'.at = "building" /\ tick'.failed = tick.failed /\ head' = Tip)
    BY <1>1, <1>4, PullDoes DEF boxVars, dockerVars, Went
  <2>2. tick.remote <= Tip
    BY <1>1, <2>1 DEF Working
  <2>3. CASE Halts(2)
    <3>1. processed' = processed /\ tick'.at = "idle"
      BY <2>3 DEF Halts
    <3> QED
      BY <1>1, <2>1, <3>1, EndsAsItWas
  <2>4. CASE Same /\ tick'.at = "building" /\ tick'.failed = tick.failed /\ head' = Tip
    BY <2>1, <2>2, <2>4, AppHalfGoesOn DEF AppHalf
  <2> QED
    BY <2>1, <2>3, <2>4
<1>5. CASE Build
  <2>1. /\ tick.at = "building" /\ UNCHANGED <<head, ops, bin, previous, container>>
        /\ \/ Halts(2) /\ latest' = latest
           \/ Same /\ tick'.at = "verifying" /\ tick'.failed = tick.failed /\ latest'.from = head
    BY <1>1, <1>5, BuildDoes DEF boxVars, Went
  <2>2. tick.remote <= head
    BY <1>2, <2>1 DEF HeadIsRemote, AppHalf
  <2>3. CASE Halts(2) /\ latest' = latest
    BY <2>1, <2>3, EndsEitherWay
  <2>4. CASE Same /\ tick'.at = "verifying" /\ tick'.failed = tick.failed /\ latest'.from = head
    BY <2>1, <2>2, <2>4, AppHalfGoesOn DEF AppHalf
  <2> QED
    BY <2>1, <2>3, <2>4
<1>6. CASE VerifyImage
  <2>1. /\ tick.at = "verifying" /\ UNCHANGED <<head, ops, bin, previous, container>>
        /\ \/ Halts(2) /\ latest' = [latest EXCEPT !.is = "refused"]
           \/ Same /\ tick'.at = "starting" /\ tick'.failed = tick.failed /\ latest' = latest
    BY <1>1, <1>6, VerifyDoes DEF boxVars, Went
  <2>2. tick.remote <= head /\ latest.from = head
    BY <1>2, <2>1 DEF HeadIsRemote, AppHalf
  <2>3. latest'.from = latest.from
    BY <1>1, <2>1, ImageRefused DEF NamesKnown, ImagesNamed
  <2>4. CASE Halts(2)
    <3>1. processed' = processed /\ tick'.at = "idle"
      BY <2>4 DEF Halts
    <3> QED
      BY <1>1, <2>1, <2>3, <3>1, EndsAsItWas
  <2> QED
    BY <2>1, <2>2, <2>4, AppHalfGoesOn DEF AppHalf
<1>7. CASE ComposeUp
  <2>1. /\ tick.at = "starting" /\ UNCHANGED <<head, ops, bin, latest, previous>> /\ Same /\ tick'.failed = tick.failed
        /\ \/ tick'.at = "probing" /\ container' = [image |-> latest, up |-> TRUE]
           \/ tick'.at = "rolling back" /\ container' = [container EXCEPT !.up = FALSE]
           \/ tick'.at = "probing" /\ Declines /\ container' = container
    BY <1>1, <1>7, ComposeDoes DEF boxVars, Went
  <2>2. tick.remote <= head /\ latest.from = head
    BY <1>2, <2>1 DEF HeadIsRemote, AppHalf
  <2>3. /\ container'.image \in {container.image, latest}
        /\ ~Declines /\ tick'.at = "probing" => container'.image = latest
    BY <1>1, <2>1, BoxDown, BoxOf DEF NamesKnown, ImagesNamed
  <2> QED
    BY <2>1, <2>2, <2>3, AppHalfGoesOn DEF AppHalf
<1>8. CASE Probe \/ AskWhy
  <2>1. /\ tick.at \in {"probing", "unhealthy"} /\ UNCHANGED <<head, ops, bin, latest, previous, container>>
        /\ \/ Halts(0) \/ Halts(1) \/ Halts(2) \/ Halts(3)
           \/ Same /\ tick'.at \in {"unhealthy", "rolling back"} /\ tick'.failed = tick.failed
    BY <1>1, <1>8, ProbeDoes, WhyDoes DEF boxVars, dockerVars, Went
  <2>2. tick.remote <= head /\ latest.from = head /\ (~Declines => container.image = latest)
    BY <1>2, <2>1 DEF HeadIsRemote, NewIsProbed, IsNew, AppHalf
  <2>3. CASE Halts(0) \/ Halts(1) \/ Halts(2) \/ Halts(3)
    <3>1. PICK code \in 0 .. 3 : Halts(code)
      BY <2>3
    <3> QED
      BY <2>1, <3>1, EndsEitherWay
  <2>4. CASE Same /\ tick'.at \in {"unhealthy", "rolling back"} /\ tick'.failed = tick.failed
    BY <2>1, <2>2, <2>4, AppHalfGoesOn DEF AppHalf
  <2> QED
    BY <2>1, <2>3, <2>4
<1>9. CASE RollBack
  <2>1. /\ tick.at = "rolling back" /\ UNCHANGED <<ops, bin>> /\ processed' = processed /\ tick'.at = "idle"
        /\ \/ latest' = previous /\ container' = [image |-> previous, up |-> TRUE]
           \/ latest' = previous /\ container' = [container EXCEPT !.up = FALSE]
           \/ latest' = latest /\ container' = container
    <3>1. Halts(1) \/ Halts(2)
      BY <1>1, <1>9, RollBackDoes
    <3>2. processed' = processed /\ tick'.at = "idle"
      BY <3>1 DEF Halts
    <3> QED
      BY <1>1, <1>9, <3>2, RollBackDoes DEF boxVars
  <2>2. latest' \in {latest, previous} /\ container'.image \in {container.image, previous}
    BY <1>1, <2>1, BoxDown, BoxOf DEF NamesKnown, ImagesNamed
  <2>3. /\ mainline[processed].app <= mainline[latest'.from].app
        /\ ~Declines => mainline[processed].app <= mainline[container'.image.from].app
    BY <1>1, <2>1, <2>2 DEF AppHalf
  <2> QED
    BY <2>1, <2>3, EndsAsItWas
<1> QED
  BY <1>3, <1>4, <1>5, <1>6, <1>7, <1>8, <1>9 DEF Redeploy

\* Every step keeps the halves as the run wants them.
LEMMA StepParts ==
  ASSUME ~Reverts, RecordInv, [DeployNext]_deployVars
  PROVE  RunParts'
<1>1. /\ NamesKnown /\ Grows /\ RunParts /\ tick \in Turns /\ Tip \in Nat /\ Tip \in ToTip
      /\ processed \in ToTip /\ head \in ToTip /\ (Working => tick.remote \in ToTip)
      /\ mainline[processed].app <= mainline[latest.from].app
      /\ (~Declines => mainline[processed].app <= mainline[container.image.from].app)
  BY Named, TreeNumbers DEF RecordInv, RunParts, NotOlder
<1>2. ASSUME UNCHANGED <<mainline, processed, head, boxVars, dockerVars, tick>> PROVE RunParts'
  BY <1>1, <1>2 DEF RunParts, HeadIsRemote, TodoTrue, NotOlder, NotNewer, HalvesDone, NewIsProbed, Working, GateSeen,
     PassedMiner, PassedOps, IsNew, Tip, boxVars, dockerVars
<1>3. CASE Push
  BY <1>3, PushKeepsParts
<1>4. CASE Elsewhere
  BY <1>2, <1>4, ElsewhereLeaves
<1>5. CASE Scripts \/ Reboot
  <2>1. mainline' = mainline /\ Tip' = Tip
    BY <1>5, SameMain
  <2>2. CASE Reboot
    BY <1>1, <2>1, <2>2, RebootDoes, EndsAsItWas DEF boxVars, dockerVars
  <2>3. CASE TickStarts
    BY <2>1, <2>3, TickStartsWell
  <2>4. CASE AskCI
    <3>1. CASE Halts(1) \/ (Halts(0) /\ processed' = processed)
      BY <2>1, <2>4, <3>1, GateEndsWell
    <3>2. CASE ~(Halts(1) \/ (Halts(0) /\ processed' = processed))
      <4>1. UNCHANGED <<ops, bin, latest, previous, container>>
        BY <1>1, <2>4, GateDoes DEF boxVars, dockerVars
      <4> QED
        BY <1>1, <2>1, <2>4, <3>2, <4>1, GateDoes, GateOpens
    <3> QED
      BY <3>1, <3>2
  <2>5. CASE RebuildMiner
    BY <2>1, <2>5, MinerIsBuilt
  <2>6. CASE InstallOps
    BY <2>1, <2>6, OpsAreInstalled
  <2>7. CASE Done
    BY <1>1, <2>1, <2>7, DoneDoes, EndsEitherWay DEF boxVars, dockerVars
  <2>8. CASE Redeploy
    BY <2>1, <2>8, RedeployKeepsParts
  <2> QED
    BY <1>5, <2>2, <2>3, <2>4, <2>5, <2>6, <2>7, <2>8 DEF Scripts
<1> QED
  BY <1>3, <1>4, <1>5 DEF DeployNext, Around, Elsewhere

\* The invariant behind RecordIsTrue and RecordIsBuilt.
LEMMA RecordInvariant ==
  ASSUME ~Reverts PROVE DeploySpec => []RecordInv
<1>1. RecordInv /\ [DeployNext]_deployVars => RecordInv'
  BY StepNames, StepGrows, StepParts DEF RecordInv
<1> QED
  BY <1>1, InitRecord, PTL DEF DeploySpec

\* A run that ends with 1 or 2 records nothing.
LEMMA FailureKeeps ==
  ASSUME Halts(1) \/ Halts(2) PROVE processed' = processed
  BY DEF Halts

\* Where the record moves, it moves to what the run was let through to.
LEMMA WhereItAdvances ==
  ASSUME NamesKnown, DeployNext, Advances
  PROVE  /\ tick.at \in {"done", "probing", "unhealthy"} /\ ~tick.failed /\ processed' = tick.remote
         /\ tick'.at = "idle" /\ UNCHANGED <<mainline, boxVars, dockerVars>> /\ Tip' = Tip
<1>1. tick \in Turns /\ Tip \in Nat
  BY Named, TreeNumbers
<1>2. processed' # processed
  BY DEF Advances
<1>3. CASE Around
  BY <1>2, <1>3, PushLeaves, ElsewhereLeaves, RebootDoes DEF Around, Elsewhere
<1>4. CASE Scripts
  <2>1. mainline' = mainline /\ Tip' = Tip
    BY <1>4, SameMain
  <2>2. CASE TickStarts \/ AskCI \/ RebuildMiner \/ InstallOps \/ Snapshot \/ Pull \/ Build \/ VerifyImage
             \/ ComposeUp \/ RollBack
    <3>1. CASE TickStarts
      BY <1>1, <1>2, <3>1, TickDoes
    <3>2. CASE AskCI
      BY <1>1, <1>2, <3>2, GateDoes, FailureKeeps
    <3>3. CASE RebuildMiner
      BY <1>1, <1>2, <3>3, MinerDoes DEF Same
    <3>4. CASE InstallOps
      BY <1>1, <1>2, <3>4, OpsDoes, FailureKeeps DEF Same
    <3>5. CASE Snapshot
      BY <1>1, <1>2, <3>5, SnapshotDoes, FailureKeeps DEF Went, Same
    <3>6. CASE Pull
      BY <1>1, <1>2, <3>6, PullDoes, FailureKeeps DEF Went, Same
    <3>7. CASE Build
      BY <1>1, <1>2, <3>7, BuildDoes, FailureKeeps DEF Went, Same
    <3>8. CASE VerifyImage
      BY <1>1, <1>2, <3>8, VerifyDoes, FailureKeeps DEF Went, Same
    <3>9. CASE ComposeUp
      BY <1>1, <1>2, <3>9, ComposeDoes DEF Went, Same
    <3>10. CASE RollBack
      BY <1>1, <1>2, <3>10, RollBackDoes, FailureKeeps
    <3> QED
      BY <2>2, <3>1, <3>2, <3>3, <3>4, <3>5, <3>6, <3>7, <3>8, <3>9, <3>10
  <2>3. CASE Done
    BY <1>1, <1>2, <2>1, <2>3, DoneDoes DEF Halts
  <2>4. CASE Probe \/ AskWhy
    BY <1>1, <1>2, <2>1, <2>4, ProbeDoes, WhyDoes DEF Went, Same, Halts
  <2> QED
    BY <1>4, <2>2, <2>3, <2>4 DEF Scripts, Redeploy
<1> QED
  BY <1>3, <1>4 DEF DeployNext

\* The app of what a run records, as an app of a commit that is no older.
LEMMA AppOfLaterCommit ==
  ASSUME RecordInv, NEW from \in ToTip, NEW remote \in ToTip, mainline[remote].app <= mainline[from].app
  PROVE  \E c \in remote .. Tip : mainline[from].app = mainline[c].app
<1>1. /\ from \in Nat /\ remote \in Nat /\ Tip \in Nat
      /\ from <= Tip /\ remote <= Tip /\ mainline[from].app \in Nat /\ mainline[remote].app \in Nat
  BY TreeNumbers DEF RecordInv
<1>2. CASE remote <= from
  <2>1. from \in remote .. Tip
    BY <1>1, <1>2
  <2> QED
    BY <2>1
<1>3. CASE from <= remote
  <2>1. mainline[from].app <= mainline[remote].app
    BY <1>1, <1>3, GrowsBy DEF RecordInv
  <2>2. remote \in remote .. Tip
    BY <1>1
  <2> QED
    BY <1>1, <2>1, <2>2
<1> QED
  BY <1>1, <1>2, <1>3

\* What is true of the record even where compose keeps a container it should
\* replace: the ops files and the miner are those of the recorded commit, and
\* the image that the compose file names holds its app or a newer one.
RecordedIsBuilt ==
    [][Advances => /\ ops' = mainline[processed'].ops
                  /\ bin' = mainline[processed'].miner
                  /\ \E c \in processed' .. Tip :
                         mainline[latest'.from].app = mainline[c].app]_deployVars

\* While main only goes forward, what a run of auto-deploy.sh records it has
\* built and installed, compose or not: only the container can lag behind it.
THEOREM RecordIsBuilt ==
  ASSUME ~Reverts PROVE DeploySpec => RecordedIsBuilt
<1> DEFINE Built ==
             /\ ops' = mainline[processed'].ops /\ bin' = mainline[processed'].miner
             /\ \E c \in processed' .. Tip : mainline[latest'.from].app = mainline[c].app
           OnRecord == Advances => Built
<1>1. RecordInv /\ [DeployNext]_deployVars => [OnRecord]_deployVars
  <2> SUFFICES ASSUME RecordInv, DeployNext, Advances PROVE Built
    OBVIOUS
  <2>1. /\ tick.at \in {"done", "probing", "unhealthy"} /\ ~tick.failed /\ processed' = tick.remote
        /\ tick'.at = "idle" /\ UNCHANGED <<mainline, ops, bin, latest, container>> /\ Tip' = Tip
    BY WhereItAdvances DEF RecordInv, boxVars, dockerVars
  <2>2. ops = mainline[tick.remote].ops /\ bin = mainline[tick.remote].miner
    BY <2>1, EndsRecorded
  <2>3. latest.from \in ToTip /\ tick.remote \in ToTip
    BY <2>1, Named DEF RecordInv, Working
  <2>4. \E c \in tick.remote .. Tip : mainline[latest.from].app = mainline[c].app
    BY <2>1, <2>3, AppIsThere, AppOfLaterCommit
  <2> QED
    BY <2>1, <2>2, <2>4
<1> QED
  BY <1>1, RecordInvariant, PTL DEF DeploySpec, RecordedIsBuilt

\* While main only goes forward and compose replaces what it should, a commit
\* that is recorded as processed is on the box: its ops files, its miner, and
\* its app or a newer one, whichever runs failed, crashed or were taken up by
\* later ones.
THEOREM RecordIsTrue ==
  ASSUME ~Reverts, ~Declines PROVE DeploySpec => RecordedIsInstalled
<1> DEFINE Installed ==
             /\ ops' = mainline[processed'].ops /\ bin' = mainline[processed'].miner
             /\ \E c \in processed' .. Tip : mainline[container'.image.from].app = mainline[c].app
           OnRecord == Advances => Installed
<1>1. RecordInv /\ [DeployNext]_deployVars => [OnRecord]_deployVars
  <2> SUFFICES ASSUME RecordInv, DeployNext, Advances PROVE Installed
    OBVIOUS
  <2>1. /\ tick.at \in {"done", "probing", "unhealthy"} /\ ~tick.failed /\ processed' = tick.remote
        /\ tick'.at = "idle" /\ UNCHANGED <<mainline, ops, bin, latest, container>> /\ Tip' = Tip
    BY WhereItAdvances DEF RecordInv, boxVars, dockerVars
  <2>2. ops = mainline[tick.remote].ops /\ bin = mainline[tick.remote].miner
    BY <2>1, EndsRecorded
  <2>3. container.image.from \in ToTip /\ tick.remote \in ToTip
    BY <2>1, Named DEF RecordInv, Working
  <2>4. \E c \in tick.remote .. Tip : mainline[container.image.from].app = mainline[c].app
    BY <2>1, <2>3, AppIsThere, AppOfLaterCommit
  <2> QED
    BY <2>1, <2>2, <2>4
<1> QED
  BY <1>1, RecordInvariant, PTL DEF DeploySpec, RecordedIsInstalled

-----------------------------------------------------------------------------
(* What CI has judged.                                                      *)

\* A part that is on the box is one of a commit that CI has passed.
Passed(part, what) == \E c \in ToTip : ci[c] = "green" /\ mainline[c][part] = what

\* What is left of OnlyJudgedCodeRuns: redeploy.sh may build an app that CI has
\* not seen (it pulls by itself), but the miner's binary and the ops files that
\* are installed, and those the watchdog runs, are of commits that CI passed.
HostRunsJudgedCode == Passed("ops", ops) /\ Passed("ops", watchdog) /\ Passed("miner", bin)

\* The halves that install on the host work on what ci_gate let through.
HalvesAreJudged == tick.at \in {"miner", "ops"} => head \in ToTip /\ ci[head] = "green"
CITyped == ci \in [ToTip -> {"pending", "green", "red"}]
JudgedInv == CITyped /\ HalvesAreJudged /\ HostRunsJudgedCode

\* The first commit has been judged.
LEMMA InitJudged == DeployInit => JudgedInv
<1> SUFFICES ASSUME DeployInit PROVE JudgedInv
  OBVIOUS
<1>1. mainline = <<[p \in Parts |-> 1]>> /\ ci = <<"green">> /\ ToTip = {1}
  BY DEF DeployInit, ToTip, Tip
<1>2. mainline[1]["ops"] = 1 /\ mainline[1]["miner"] = 1 /\ ci[1] = "green"
  BY <1>1 DEF Parts
<1>3. HostRunsJudgedCode
  BY <1>1, <1>2 DEF DeployInit, HostRunsJudgedCode, Passed
<1>4. tick.at = "idle"
  BY DEF DeployInit, Resting
<1> QED
  BY <1>1, <1>3, <1>4 DEF JudgedInv, CITyped, HalvesAreJudged

\* A verdict that a commit passed is never taken back, and no commit changes.
LEMMA GreenStays ==
  ASSUME NamesKnown, CITyped, [DeployNext]_deployVars
  PROVE  /\ CITyped'
         /\ \A c \in ToTip : /\ c \in ToTip' /\ mainline'[c] = mainline[c]
                             /\ ci[c] = "green" => ci'[c] = "green"
<1>1. CASE Push
  <2>1. /\ mainline' \in Seq(Trees) /\ Tip' = Tip + 1 /\ Tip \in Nat
        /\ \A i \in ToTip : mainline'[i] = mainline[i]
    BY <1>1, PushShape, TreeNumbers DEF NamesKnown, OriginNamed
  <2> DEFINE Verdicts == {"pending", "green", "red"}
  <2>2. ci' = Append(ci, "pending") /\ ci \in Seq(Verdicts) /\ Len(ci) = Tip
    BY <1>1, <2>1 DEF Push, CITyped, ToTip
  <2> HIDE DEF Verdicts
  <2>3. "pending" \in Verdicts
    BY DEF Verdicts
  <2>4. /\ ci' \in Seq(Verdicts) /\ Len(ci') = Tip + 1
        /\ \A c \in 1 .. Tip : ci'[c] = ci[c]
    BY <2>1, <2>2, <2>3
  <2>5. /\ ci' \in [1 .. Tip + 1 -> {"pending", "green", "red"}]
        /\ \A c \in ToTip : ci'[c] = ci[c]
    BY <2>1, <2>4 DEF ToTip, Verdicts
  <2> QED
    BY <2>1, <2>5 DEF CITyped, ToTip
<1>2. CASE CIJudges
  BY <1>2 DEF CIJudges, CITyped, ToTip, Tip
<1>3. CASE Rerun
  BY <1>3 DEF Rerun, CITyped, ToTip, Tip
<1>4. CASE NodeFalters \/ NodeRecovers \/ Reboot \/ Scripts \/ UNCHANGED deployVars
  <2>1. UNCHANGED originVars
    BY <1>4, KeepsOrigin DEF NodeFalters, NodeRecovers, deployVars
  <2> QED
    BY <2>1 DEF originVars, CITyped, ToTip, Tip
<1> QED
  BY <1>1, <1>2, <1>3, <1>4 DEF DeployNext, Around

\* Every step keeps the host on judged code: the gate resets the checkout to
\* the commit that CI passed, and nothing moves it before the app's half.
LEMMA StepJudged == NamesKnown /\ JudgedInv /\ [DeployNext]_deployVars => JudgedInv'
<1> SUFFICES ASSUME NamesKnown, JudgedInv, [DeployNext]_deployVars PROVE JudgedInv'
  OBVIOUS
<1>0. /\ CITyped' /\ tick \in Turns /\ Tip \in Nat
      /\ \A c \in ToTip : /\ c \in ToTip' /\ mainline'[c] = mainline[c]
                          /\ ci[c] = "green" => ci'[c] = "green"
  BY GreenStays, Named, TreeNumbers DEF JudgedInv
<1>1. ASSUME NEW part, NEW what, Passed(part, what) PROVE Passed(part, what)'
  BY <1>0, <1>1 DEF Passed
<1>2. ASSUME UNCHANGED boxVars PROVE HostRunsJudgedCode'
  BY <1>1, <1>2 DEF JudgedInv, HostRunsJudgedCode, boxVars
<1>3. ASSUME UNCHANGED <<boxVars, head>>, tick'.at \in {"miner", "ops"} => tick.at \in {"miner", "ops"}
      PROVE  JudgedInv'
  BY <1>0, <1>2, <1>3 DEF JudgedInv, HalvesAreJudged
<1>4. ASSUME UNCHANGED boxVars, tick'.at \notin {"miner", "ops"} PROVE JudgedInv'
  BY <1>0, <1>2, <1>4 DEF JudgedInv, HalvesAreJudged
<1>5. CASE Push \/ Elsewhere
  BY <1>3, <1>5, PushLeaves, ElsewhereLeaves
<1>6. CASE Reboot
  BY <1>4, <1>6, RebootDoes
<1>7. CASE TickStarts
  BY <1>0, <1>4, <1>7, TickDoes
<1>8. CASE AskCI
  <2>1. CASE Halts(0) \/ Halts(1)
    BY <1>0, <1>4, <1>8, <2>1, GateDoes DEF Halts
  <2>2. CASE ~(Halts(0) \/ Halts(1))
    <3>1. UNCHANGED boxVars /\ head' = tick.remote /\ ci[tick.remote] = "green" /\ ci' = ci
      <4>1. ~RunFails
        BY <1>0, <2>2, HasFailed
      <4>2. ASSUME Quits(0), UNCHANGED processed PROVE FALSE
        <5>1. tick' \in Turns /\ tick'.at = "idle" /\ ~tick'.wantReady /\ tick'.code = 0
          BY <4>2, HasQuit
        <5> QED
          BY <2>2, <4>2, <5>1 DEF Halts
      <4> QED
        BY <1>8, <4>1, <4>2 DEF AskCI, originVars
    <3>2. tick.remote \in ToTip
      BY <1>0, <1>8, Named, GateDoes DEF Working
    <3> QED
      BY <1>0, <1>2, <3>1, <3>2 DEF JudgedInv, HalvesAreJudged
  <2> QED
    BY <2>1, <2>2
<1>9. CASE RebuildMiner \/ InstallOps
  <2>1. /\ tick.at \in {"miner", "ops"} /\ head' = head
        /\ bin' \in {bin, mainline[head].miner}
        /\ ops' \in {ops, mainline[head].ops} /\ watchdog' \in {watchdog, mainline[head].ops}
    BY <1>9 DEF RebuildMiner, InstallOps
  <2>2. head \in ToTip /\ ci[head] = "green"
    BY <2>1 DEF JudgedInv, HalvesAreJudged
  <2>3. Passed("ops", mainline[head].ops) /\ Passed("miner", mainline[head].miner)
    BY <2>2 DEF Passed
  <2>4. Passed("ops", ops') /\ Passed("ops", watchdog') /\ Passed("miner", bin')
    BY <2>1, <2>3 DEF JudgedInv, HostRunsJudgedCode
  <2>5. HostRunsJudgedCode'
    BY <1>0, <2>4 DEF HostRunsJudgedCode, Passed
  <2> QED
    BY <1>0, <2>1, <2>2, <2>5 DEF JudgedInv, HalvesAreJudged
<1>10. CASE Done \/ Redeploy
  <2>1. UNCHANGED boxVars
    BY <1>10 DEF Done, Redeploy, Snapshot, Pull, Build, VerifyImage, ComposeUp, Probe, AskWhy, RollBack
  <2>2. tick'.at \notin {"miner", "ops"}
    <3>1. CASE Done \/ Snapshot \/ Pull \/ Build
      BY <1>0, <3>1, DoneDoes, SnapshotDoes, PullDoes, BuildDoes DEF Went, Halts
    <3>2. CASE VerifyImage \/ ComposeUp \/ Probe
      BY <1>0, <3>2, VerifyDoes, ComposeDoes, ProbeDoes DEF Went, Halts
    <3>3. CASE AskWhy \/ RollBack
      BY <1>0, <3>3, WhyDoes, RollBackDoes DEF Went, Halts
    <3> QED
      BY <1>10, <3>1, <3>2, <3>3 DEF Redeploy
  <2> QED
    BY <1>4, <2>1, <2>2
<1> QED
  BY <1>5, <1>6, <1>7, <1>8, <1>9, <1>10 DEF DeployNext, Around, Scripts, Elsewhere

\* Nothing of the host runs unjudged, whatever crashes, is rerun, rolled back,
\* reverted or pushed while a run is on its way: the comment at
\* auto-deploy.sh:102 is true of all that this script installs by itself.
THEOREM HostIsJudged == DeploySpec => []HostRunsJudgedCode
<1>1. DeployInit => NamesKnown /\ JudgedInv
  BY InitNames, InitJudged
<1>2. (NamesKnown /\ JudgedInv) /\ [DeployNext]_deployVars => (NamesKnown /\ JudgedInv)'
  BY StepNames, StepJudged
<1>3. JudgedInv => HostRunsJudgedCode
  BY DEF JudgedInv
<1> QED
  BY <1>1, <1>2, <1>3, PTL DEF DeploySpec

-----------------------------------------------------------------------------
(* The types of the box.                                                    *)

\* The two files that count failures and waits, by commit.
FailuresFile == [commit : Commits \union {Unset}, count : 0 .. BackoffAfter, age : 0 .. Backoff]
PendingFile == [commit : Commits \union {Unset}, age : 0 .. PendingMax]
FilesTyped == failures \in FailuresFile /\ ciPending \in PendingFile
HostTyped == ops \in Commits /\ watchdog \in Commits /\ bin \in Commits
AroundTyped == sound \in SUBSET Commits /\ nodeState \in {"well", "behind"} /\ faults \in 0 .. MaxFaults
RemoteTyped == tick.remote \in 0 .. Tip
BoxInv == NamesKnown /\ CITyped /\ FilesTyped /\ HostTyped /\ AroundTyped /\ RemoteTyped

\* A file grows older up to what is asked of it.
LEMMA FilesAge ==
  ASSUME FilesTyped
  PROVE  AgedFile(failures, Backoff) \in FailuresFile /\ AgedFile(ciPending, PendingMax) \in PendingFile
<1>1. Backoff \in Nat /\ PendingMax \in Nat
  BY DeployAssumption
<1> QED
  BY <1>1 DEF FilesTyped, FailuresFile, PendingFile, AgedFile

\* A failure is counted up to the backoff.
LEMMA FailureIsNoted ==
  ASSUME FilesTyped, tick.remote \in Commits \union {Unset}, NoteFailure
  PROVE  failures' \in FailuresFile
<1>1. BackoffAfter \in Nat \ {0} /\ Backoff \in Nat
  BY DeployAssumption
<1>2. CountFor(tick.remote) \in 0 .. BackoffAfter
  BY <1>1 DEF FilesTyped, FailuresFile, CountFor
<1> DEFINE count == CountFor(tick.remote)
<1> HIDE DEF count
<1>3. count \in 0 .. BackoffAfter /\ failures' = [commit |-> tick.remote, age |-> 0,
                                                   count |-> IF count < BackoffAfter THEN count + 1 ELSE count]
  BY <1>2 DEF NoteFailure, count
<1>4. (IF count < BackoffAfter THEN count + 1 ELSE count) \in 0 .. BackoffAfter /\ 0 \in 0 .. Backoff
  BY <1>1, <1>3
<1> QED
  BY <1>3, <1>4 DEF FailuresFile

\* Files that are cleared.
LEMMA FilesCleared ==
  /\ [commit |-> Unset, count |-> 0, age |-> 0] \in FailuresFile
  /\ [commit |-> Unset, age |-> 0] \in PendingFile
  /\ \A commit \in Commits \union {Unset} : [commit |-> commit, age |-> 0] \in PendingFile
<1>1. 0 \in 0 .. BackoffAfter /\ 0 \in 0 .. Backoff /\ 0 \in 0 .. PendingMax
  BY DeployAssumption
<1> QED
  BY <1>1 DEF FailuresFile, PendingFile

\* The ends of a run keep the files: a failure is noted, a success clears it.
LEMMA EndsKeepFiles ==
  ASSUME FilesTyped, tick.remote \in Commits \union {Unset}
  PROVE  /\ \A code : EndsWith(code) => FilesTyped'
         /\ RunFails /\ ciPending' \in PendingFile => FilesTyped'
<1>1. ASSUME NEW code, EndsWith(code) PROVE FilesTyped'
  <2>1. NoteFailure \/ failures' = [commit |-> Unset, count |-> 0, age |-> 0]
    BY <1>1 DEF EndsWith
  <2>2. ciPending' = ciPending
    BY <1>1 DEF EndsWith
  <2> QED
    BY <2>1, <2>2, FailureIsNoted, FilesCleared DEF FilesTyped
<1>2. ASSUME RunFails, ciPending' \in PendingFile PROVE FilesTyped'
  BY <1>2, FailureIsNoted DEF RunFails, FilesTyped
<1> QED
  BY <1>1, <1>2

\* Every step of the scripts keeps the files typed.
LEMMA ScriptsKeepFiles ==
  ASSUME FilesTyped, tick.remote \in Commits \union {Unset}, Scripts
  PROVE  FilesTyped'
<1>1. CASE TickStarts
  BY <1>1, FilesAge DEF TickStarts, FilesTyped
<1>2. CASE AskCI
  <2>1. ciPending' \in {ciPending, [commit |-> Unset, age |-> 0], [commit |-> tick.remote, age |-> 0]}
    BY <1>2 DEF AskCI
  <2>2. ciPending' \in PendingFile
    BY <2>1, FilesCleared DEF FilesTyped
  <2>3. RunFails \/ failures' = failures
    BY <1>2 DEF AskCI
  <2> QED
    BY <2>2, <2>3, EndsKeepFiles DEF FilesTyped
<1>3. CASE InstallOps
  <2>1. ciPending' = ciPending /\ (RunFails \/ failures' = failures)
    BY <1>3 DEF InstallOps
  <2> QED
    BY <2>1, EndsKeepFiles DEF FilesTyped
<1>4. CASE RebuildMiner
  BY <1>4 DEF RebuildMiner, stateFiles, FilesTyped
<1>5. CASE Done \/ Redeploy
  <2>1. (\E code : EndsWith(code)) \/ UNCHANGED stateFiles
    BY <1>5 DEF Done, Redeploy, Snapshot, Pull, Build, VerifyImage, ComposeUp, Probe, AskWhy, RollBack, Continues
  <2> QED
    BY <2>1, EndsKeepFiles DEF FilesTyped, stateFiles
<1> QED
  BY <1>1, <1>2, <1>3, <1>4, <1>5 DEF Scripts

\* A run is for the commit it began with, or there is none.
LEMMA RemoteOf ==
  ASSUME tick \in Turns, Tip \in Nat, Scripts \/ Reboot
  PROVE  tick'.remote \in {0, tick.remote, Tip}
<1>1. ASSUME NEW code, Quits(code) PROVE tick'.remote = 0
  BY <1>1 DEF Quits, Resting, Unset
<1>2. ASSUME NEW code, EndsWith(code) PROVE tick'.remote = 0
  BY <1>1, <1>2 DEF EndsWith
<1>3. RunFails => tick'.remote = 0
  BY <1>1 DEF RunFails
<1>4. ASSUME NEW place, GoesTo(place) PROVE tick'.remote = tick.remote
  BY <1>4 DEF GoesTo, Turns
<1>5. ASSUME NEW failed, NEW place, HalfDone(failed, place) PROVE tick'.remote = tick.remote
  BY <1>5 DEF HalfDone, Turns
<1>6. CASE TickStarts
  BY <1>1, <1>6, HasStarted DEF TickStarts
<1>7. CASE AskCI
  <2>1. ASSUME NEW todo, NEW place, tick' = [tick EXCEPT !.todo = todo, !.at = place]
        PROVE  tick'.remote = tick.remote
    BY <2>1 DEF Turns
  <2> QED
    BY <1>1, <1>3, <1>7, <2>1 DEF AskCI
<1>8. CASE RebuildMiner \/ InstallOps \/ Done
  BY <1>2, <1>3, <1>5, <1>8 DEF RebuildMiner, InstallOps, Done
<1>9. CASE Snapshot
  <2>1. ASSUME NEW ready, tick' = [tick EXCEPT !.at = "pulling", !.wantReady = ready]
        PROVE  tick'.remote = tick.remote
    BY <2>1 DEF Turns
  <2> QED
    BY <1>2, <1>4, <1>9, <2>1 DEF Snapshot, Continues
<1>10. CASE VerifyImage
  <2>1. ASSUME tick' = [tick EXCEPT !.at = "starting", !.unverified = TRUE]
        PROVE  tick'.remote = tick.remote
    BY <2>1 DEF Turns
  <2> QED
    BY <1>2, <1>4, <1>10, <2>1 DEF VerifyImage, Continues
<1>11. CASE Pull \/ Build \/ ComposeUp \/ Probe \/ AskWhy \/ RollBack
  BY <1>2, <1>4, <1>11 DEF Pull, Build, ComposeUp, Probe, AskWhy, RollBack, Continues
<1>12. CASE Reboot
  BY <1>1, <1>12 DEF Reboot, Resting, Unset
<1> QED
  BY <1>6, <1>7, <1>8, <1>9, <1>10, <1>11, <1>12 DEF Scripts, Redeploy

\* What is around keeps its types.
LEMMA AroundStays == AroundTyped /\ [DeployNext]_deployVars => AroundTyped'
<1> SUFFICES ASSUME AroundTyped, [DeployNext]_deployVars PROVE AroundTyped'
  OBVIOUS
<1>1. Mishap \/ Smooth => faults' \in 0 .. MaxFaults
  BY DeployAssumption DEF AroundTyped, Mishap, Smooth
<1>2. CASE Around
  BY <1>1, <1>2 DEF Around, Push, CIJudges, Rerun, NodeFalters, NodeRecovers, Reboot, originVars, AroundTyped
<1>3. CASE Scripts
  <2>1. sound' = sound
    BY <1>3, KeepsOrigin DEF originVars
  <2>2. nodeState' = nodeState /\ (Mishap \/ Smooth)
    BY <1>3 DEF Scripts, Redeploy, TickStarts, AskCI, RebuildMiner, InstallOps, Done, Snapshot, Pull, Build,
       VerifyImage, ComposeUp, Probe, AskWhy, RollBack
  <2> QED
    BY <1>1, <2>1, <2>2 DEF AroundTyped
<1>4. CASE UNCHANGED deployVars
  BY <1>4 DEF deployVars, originVars, AroundTyped
<1> QED
  BY <1>2, <1>3, <1>4 DEF DeployNext

\* Every step keeps the box typed.
LEMMA StepBox == BoxInv /\ [DeployNext]_deployVars => BoxInv'
<1> SUFFICES ASSUME BoxInv, [DeployNext]_deployVars PROVE BoxInv'
  OBVIOUS
<1>1. NamesKnown' /\ CITyped' /\ AroundTyped'
  BY StepNames, GreenStays, AroundStays DEF BoxInv
<1>2. /\ NamesKnown /\ FilesTyped /\ HostTyped /\ RemoteTyped /\ tick \in Turns
      /\ Tip \in Nat /\ Tip \in Commits /\ head \in ToTip
  BY Named, TreeNumbers DEF BoxInv, NamesKnown, OriginNamed
<1>3. tick.remote \in Commits \union {Unset}
  BY <1>2, DeployAssumption DEF RemoteTyped, Commits, Unset
<1>4. CASE Push \/ Elsewhere
  <2>1. UNCHANGED <<tick, boxVars>> /\ Tip' \in Nat /\ Tip <= Tip'
    <3>1. CASE Push
      BY <1>2, <3>1, PushLeaves, PushShape DEF NamesKnown, OriginNamed
    <3>2. CASE Elsewhere
      BY <1>2, <3>2, ElsewhereLeaves DEF Tip
    <3> QED
      BY <1>4, <3>1, <3>2
  <2>2. UNCHANGED <<failures, ciPending>>
    BY <1>4 DEF Push, Elsewhere, CIJudges, Rerun, NodeFalters, NodeRecovers, deployVars, stateFiles
  <2>3. RemoteTyped'
    BY <1>2, <2>1 DEF RemoteTyped
  <2> QED
    BY <1>1, <1>2, <2>1, <2>2, <2>3 DEF BoxInv, FilesTyped, HostTyped, boxVars
<1>5. CASE Scripts \/ Reboot
  <2>1. Tip' = Tip
    BY <1>5, SameMain
  <2>2. RemoteTyped'
    BY <1>2, <1>5, <2>1, RemoteOf DEF RemoteTyped
  <2>3. FilesTyped'
    <3>1. CASE Reboot
      BY <1>2, <3>1 DEF Reboot, stateFiles, FilesTyped
    <3> QED
      BY <1>2, <1>3, <1>5, <3>1, ScriptsKeepFiles
  <2>4. HostTyped'
    <3>1. mainline[head].ops \in Commits /\ mainline[head].miner \in Commits
      <4>1. mainline[head] \in Trees
        BY <1>2 DEF NamesKnown, OriginNamed, ToTip, Tip
      <4> QED
        BY <4>1 DEF Trees, Parts
    <3>2. CASE RebuildMiner \/ InstallOps
      <4>1. /\ bin' \in {bin, mainline[head].miner}
            /\ ops' \in {ops, mainline[head].ops} /\ watchdog' \in {watchdog, mainline[head].ops}
        BY <3>2 DEF RebuildMiner, InstallOps
      <4> QED
        BY <1>2, <3>1, <4>1 DEF HostTyped
    <3>3. CASE Reboot \/ TickStarts \/ AskCI \/ Done \/ Redeploy
      <4>1. UNCHANGED boxVars
        BY <3>3 DEF Reboot, TickStarts, AskCI, Done, Redeploy, Snapshot, Pull, Build, VerifyImage, ComposeUp,
           Probe, AskWhy, RollBack
      <4> QED
        BY <1>2, <4>1 DEF HostTyped, boxVars
    <3> QED
      BY <1>5, <3>2, <3>3 DEF Scripts
  <2> QED
    BY <1>1, <2>2, <2>3, <2>4 DEF BoxInv
<1> QED
  BY <1>4, <1>5 DEF DeployNext, Around, Elsewhere

\* The box is typed from the start.
LEMMA InitBox == DeployInit => BoxInv
<1> SUFFICES ASSUME DeployInit PROVE BoxInv
  OBVIOUS
<1>1. NamesKnown /\ CITyped
  BY InitNames, InitJudged DEF JudgedInv
<1>2. 1 \in Commits /\ 0 \in 0 .. MaxFaults
  BY DeployAssumption DEF Commits
<1>3. HostTyped /\ AroundTyped /\ FilesTyped
  BY <1>2, FilesCleared DEF DeployInit, HostTyped, AroundTyped, FilesTyped
<1>4. RemoteTyped
  <2>1. tick.remote = 0 /\ Tip \in Nat
    BY <1>1, TreeNumbers DEF DeployInit, Resting, Unset
  <2> QED
    BY <2>1 DEF RemoteTyped
<1> QED
  BY <1>1, <1>3, <1>4 DEF BoxInv

\* The parts make up the types of the box.
LEMMA BoxIsTyped == BoxInv => DeployTypeOK
<1> SUFFICES ASSUME BoxInv PROVE DeployTypeOK
  OBVIOUS
<1>1. /\ NamesKnown /\ CITyped /\ FilesTyped /\ HostTyped /\ AroundTyped /\ RemoteTyped /\ tick \in Turns
  BY Named DEF BoxInv
<1>2. /\ mainline \in Seq(Trees) /\ Len(mainline) \in Commits
      /\ ci \in [1 .. Len(mainline) -> {"pending", "green", "red"}]
      /\ processed \in 1 .. Len(mainline) /\ head \in 1 .. Len(mainline)
      /\ latest \in Images /\ previous \in Images /\ container \in [image : Images, up : BOOLEAN]
  BY <1>1 DEF NamesKnown, OriginNamed, FilesNamed, ImagesNamed, Boxes, CITyped, ToTip, Tip
<1>3. tick \in [at : RunStages, remote : 0 .. Len(mainline), todo : SUBSET Parts, failed : BOOLEAN,
                wantReady : BOOLEAN, unverified : BOOLEAN, code : 0 .. 3]
  BY <1>1 DEF Turns, RemoteTyped, Tip
<1> QED
  BY <1>1, <1>2, <1>3 DEF DeployTypeOK, FilesTyped, FailuresFile, PendingFile, HostTyped, AroundTyped

\* So whatever starts and steps as the box keeps its types.
LEMMA DeployTypesAlone == DeployInit /\ [][DeployNext]_deployVars => []DeployTypeOK
  BY InitBox, StepBox, BoxIsTyped, PTL

\* The files, the tags, the run and the box keep their types for any number of
\* commits, faults and starts of the timer: no failure is counted, and no age
\* kept, beyond what the scripts ask of it.
THEOREM DeployTypes == DeploySpec => []DeployTypeOK
  BY DeployTypesAlone, PTL DEF DeploySpec
=============================================================================
