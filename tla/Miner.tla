------------------------------- MODULE Miner -------------------------------
(* The miner's loop and its heartbeat (deploy/z3/miner/src): mine_once() with *)
(* the guard in front of the template and again in front of the submit, the  *)
(* state it keeps of itself, the beat thread that writes that state to a     *)
(* file, the restart that resumes the lifetime counts from the file, and the *)
(* two that read it: the faucet's status (src/lib/miner/heartbeat.ts) and    *)
(* the watchdog, which restarts a miner it takes for stalled.                *)
(* The solve itself, with its threads, is module TipWatch.                   *)
EXTENDS Naturals

CONSTANTS
    Reasons,        \* why the guard holds back: behind, or without peers
    Schemas,        \* versions of the miner, each with the one schema it knows
    Submitting,     \* MINER_MODE = submit
    MaxCounted,     \* bound on what is ever counted
    StallAge,       \* MINER_STALL_SECS, in ticks
    HealMax,        \* MINER_HEAL_MAX
    Absent          \* None, or a file that is not there

Outcomes == {"solved", "accepted", "rejected", "discarded", "abandoned"}
Counts == [Outcomes -> 0 .. MaxCounted \union {Absent}]
NoCounts == [o \in Outcomes |-> Absent]
TemplateAges == 0 .. StallAge \union {Absent}

\* State, and what render() writes of it: the clocks of the start and of the
\* last template, an error count of which only being zero is ever read, the
\* reason of a wait, and the counts.
Beats == [young : BOOLEAN, template : TemplateAges, erring : BOOLEAN, waiting : Reasons \union {Absent}, counts : Counts]
Files == [schema : Schemas, beat : Beats]

ASSUME MinerAssumption ==
    /\ MaxCounted \in Nat /\ StallAge \in Nat \ {0} /\ HealMax \in Nat
    /\ Submitting \in BOOLEAN
    /\ Absent \notin Reasons \union Nat \union Files

VARIABLES
    at,             \* where mine_once() is
    schema,         \* the version that runs
    hb,             \* heartbeat::State
    file,           \* the heartbeat file
    kept,           \* the counts of the unreadable one that was set aside
    heals           \* the watchdog's count of restarts in one stall

minerVars == <<at, schema, hb, file, kept, heals>>
fileVars == <<file, kept, heals>>

Places == {"guarding", "fetching", "solving", "proposing", "guarding again", "submitting", "sleeping"}

MinerTypeOK ==
    /\ at \in Places
    /\ schema \in Schemas
    /\ hb \in Beats
    /\ file \in Files \union {Absent}
    /\ kept \in Counts \union {Absent}
    /\ heals \in 0 .. HealMax

Fresh(counts) == [young |-> TRUE, template |-> Absent, erring |-> FALSE, waiting |-> Absent, counts |-> counts]

MinerInit ==
    /\ at = "guarding"
    /\ schema \in Schemas
    /\ hb = Fresh(NoCounts)
    /\ file = Absent /\ kept = Absent
    /\ heals = 0

-----------------------------------------------------------------------------
(* heartbeat::State.                                                       *)

\* Absent counts from nothing.
Known(count) == IF count = Absent THEN 0 ELSE count
Room ==
    Known(hb.counts["solved"]) + Known(hb.counts["accepted"]) + Known(hb.counts["rejected"])
       + Known(hb.counts["discarded"]) + Known(hb.counts["abandoned"]) < MaxCounted
Counted(o) == [hb EXCEPT !.counts[o] = Known(@) + 1]

Erred == [hb EXCEPT !.erring = TRUE, !.waiting = Absent]
TemplateOk == [hb EXCEPT !.template = 0, !.erring = FALSE]
NodeLag(reason) == [hb EXCEPT !.waiting = reason]

-----------------------------------------------------------------------------
(* mine_once().                                                            *)

\* An RPC that failed, or whose answer is none.
CallFails == hb' = Erred /\ at' = "sleeping"

\* sync_guard() in front of the template.
Guards ==
    /\ at = "guarding"
    /\ \/ CallFails
       \/ \E reason \in Reasons : hb' = NodeLag(reason) /\ at' = "sleeping"
       \/ hb' = NodeLag(Absent) /\ at' = "fetching"
    /\ UNCHANGED <<schema, fileVars>>

\* A template that does not parse is an error of no stage.
Fetches ==
    /\ at = "fetching"
    /\ \/ CallFails
       \/ UNCHANGED hb /\ at' = "sleeping"
       \/ hb' = TemplateOk /\ at' \in {"solving", "sleeping"}
    /\ UNCHANGED <<schema, fileVars>>

\* The solve (module TipWatch) finds a block, or nothing, or is abandoned.  A
\* block that cannot be put together is an error of no stage.
Solves ==
    /\ at = "solving"
    /\ \/ UNCHANGED hb /\ at' = "guarding"
       \/ Room /\ hb' = Counted("abandoned") /\ at' = "guarding"
       \/ Room /\ hb' = Counted("solved") /\ at' \in {"proposing", "sleeping"}
    /\ UNCHANGED <<schema, fileVars>>

\* The proposal check of the solved block.
Proposes ==
    /\ at = "proposing"
    /\ \/ CallFails
       \/ Room /\ hb' = Counted("rejected") /\ at' = "guarding"
       \/ UNCHANGED hb /\ at' = IF Submitting THEN "guarding again" ELSE "guarding"
    /\ UNCHANGED <<schema, fileVars>>

\* sync_guard() in front of the submit: both refusals discard the block.
GuardsAgain ==
    /\ at = "guarding again"
    /\ \/ /\ Room
          /\ \/ hb' = [Erred EXCEPT !.counts["discarded"] = Known(@) + 1]
             \/ \E reason \in Reasons :
                   hb' = [NodeLag(reason) EXCEPT !.counts["discarded"] = Known(@) + 1]
          /\ at' = "sleeping"
       \/ hb' = NodeLag(Absent) /\ at' = "submitting"
    /\ UNCHANGED <<schema, fileVars>>

SubmitsBlock ==
    /\ at = "submitting"
    /\ \/ CallFails
       \/ /\ Room
          /\ \E o \in {"accepted", "rejected"} : hb' = Counted(o)
          /\ at' = "guarding"
    /\ UNCHANGED <<schema, fileVars>>

SleepEnds ==
    /\ at = "sleeping"
    /\ at' = "guarding"
    /\ UNCHANGED <<schema, hb, fileVars>>

-----------------------------------------------------------------------------
(* The beat.                                                               *)

\* A snapshot under the lock and a write outside of it, by the one thread that
\* writes.  The file is replaced by a rename, so that a crash leaves the old one.
Writes ==
    /\ file' = [schema |-> schema, beat |-> hb]
    /\ UNCHANGED <<at, schema, hb, kept, heals>>

\* A tick of both clocks.
Older(beat) == [beat EXCEPT !.young = FALSE,
                            !.template = IF @ = Absent \/ @ = StallAge THEN @ ELSE @ + 1]
Ticks ==
    /\ hb' = Older(hb)
    /\ file' = IF file = Absent THEN Absent ELSE [file EXCEPT !.beat = Older(@)]
    /\ <<hb, file>>' # <<hb, file>>
    /\ UNCHANGED <<at, schema, kept, heals>>

-----------------------------------------------------------------------------
(* The next process, of this version or of another.                        *)

Readable(version) == file # Absent /\ file.schema = version

\* keep_unreadable(): once, and never over the one that is kept.
KeepsUnreadable(version) ==
    IF file = Absent \/ Readable(version) \/ kept # Absent THEN UNCHANGED <<file, kept>>
    ELSE kept' = file.beat.counts /\ file' = Absent

\* Fault: the counts begin anew.
ResumedAnew(version) == NoCounts

\* resume(): before the beat exists.
Resumed(version) == IF Readable(version) THEN file.beat.counts ELSE NoCounts

StartsAs(version) ==
    /\ schema' = version
    /\ KeepsUnreadable(version)
    /\ hb' = Fresh(Resumed(version))
    /\ at' = "guarding"

\* The end of the process, and the service manager that starts it again.
Restarts == \E version \in Schemas : StartsAs(version) /\ UNCHANGED heals

-----------------------------------------------------------------------------
(* The readers.  A file that is not written any more is neither's business *)
(* here: what it says is not believed.                                     *)

Waits(beat) == beat.waiting # Absent /\ ~beat.erring

\* readingFor() on a fresh file of the schema that the faucet knows.
Reading(beat) ==
    IF Waits(beat) THEN "waiting"
    ELSE IF beat.template = Absent \/ beat.template = StallAge THEN "stalled"
    ELSE "running"

\* The watchdog's sweep: a stalled miner is restarted, so many times.
WatchdogHeals ==
    /\ file # Absent /\ ~file.beat.young
    /\ Reading(file.beat) = "stalled" /\ heals < HealMax
    /\ heals' = heals + 1
    /\ StartsAs(schema)

\* The sweep that finds it templating again.
WatchdogResets ==
    /\ file # Absent /\ ~file.beat.young
    /\ Reading(file.beat) = "running" /\ heals > 0
    /\ heals' = 0
    /\ UNCHANGED <<at, schema, hb, file, kept>>

MineOnce == Guards \/ Fetches \/ Solves \/ Proposes \/ GuardsAgain \/ SubmitsBlock \/ SleepEnds
MinerNext == MineOnce \/ Writes \/ Ticks \/ Restarts \/ WatchdogHeals \/ WatchdogResets

MinerSpec == MinerInit /\ [][MinerNext]_minerVars

-----------------------------------------------------------------------------
(* Properties.                                                             *)

NoLess(old, new) ==
    \A o \in Outcomes : old[o] # Absent => new[o] # Absent /\ new[o] >= old[o]

\* A lifetime count on the disk is never lost to a beat, a crash, a restart or
\* a change of version: the file only ever counts up, and one that the miner
\* cannot read is set aside once (#645).
NoCountIsLost ==
    [][/\ file # Absent /\ file' # file
          => \/ file' # Absent /\ NoLess(file.beat.counts, file'.beat.counts)
             \/ kept' = file.beat.counts
             \/ kept # Absent /\ file.schema # schema
       /\ kept # Absent => kept' = kept]_minerVars

\* watchdog.sh: a miner that waits "is idle on purpose", and "restarting it
\* would bounce a process that is doing the one thing that keeps it off a fork".
WaitingIsLeftAlone == [][WatchdogHeals => file.beat.waiting = Absent]_minerVars
=============================================================================
