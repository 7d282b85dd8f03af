----------------------------- MODULE SendHealth -----------------------------
(***************************************************************************)
(* Did the last drips go out: src/src/lib/zcash/sendHealth.ts, and the     *)
(* route and queue around it.                                              *)
(*                                                                         *)
(* Every handler that sent records an outcome.  A verdict over the recent  *)
(* records closes the door of the route for one network's claims.  With    *)
(* the door closed nothing is sent and nothing new is recorded, so only    *)
(* the age of the records can open it again.  The log is trimmed when it   *)
(* is written and filtered when it is read.                                *)
(*                                                                         *)
(* Records carry their age instead of their time, and ages past the window *)
(* are all the same, which keeps the model finite without a last second.   *)
(***************************************************************************)
EXTENDS Naturals, Sequences, FiniteSets

CONSTANTS Nets,
          Deadline,     \* config.sendTaskDeadlineMs
          Floor,        \* the fifteen minutes of windowFor()
          Slack,        \* the minute of windowFor()
          MaxQueue,     \* bound: claims of one network past the door
          MaxLive       \* bound: records of each network inside the window

MinSample == 3
FailAlone == 2

\* Fault (see README, "Mutants"): the window does not follow the deadline.
WindowConstant == Floor

\* windowFor().
Window ==
    LET derived == (MinSample - 1) * Deadline + Slack IN
    IF Floor >= derived THEN Floor ELSE derived

ASSUME SendHealthAssumption ==
    /\ {Deadline, Floor, MaxQueue} \subseteq Nat \ {0}
    /\ Slack \in Nat
    /\ MaxLive \in [Nets -> Nat]

VARIABLES log,      \* the records, oldest first
          waiting,  \* claims past the door and not yet at the wallet
          busy,     \* what the wallet of each network is doing
          streak    \* history: sends that ran into the deadline back to back

healthVars == <<log, waiting, busy, streak>>

\* "unresolved": submitted, and lost track of.  "unanswered": the reply to the
\* submission itself was lost ("no-opid").
SendOutcomes == {"ok", "failed", "unresolved", "unanswered", "refused"}
Records == [outcome : SendOutcomes, age : 0..(Window + 1), net : Nets]

Idle == [state |-> "idle", for |-> 0]

HealthTypeOK ==
    /\ log \in Seq(Records)
    /\ waiting \in [Nets -> 0..MaxQueue]
    /\ busy \in [Nets -> [state : {"idle", "sending", "late"}, for : 0..Deadline]]
    /\ streak \in [Nets -> 0..MinSample]

HealthInit ==
    /\ log = <<>>
    /\ waiting = [n \in Nets |-> 0]
    /\ busy = [n \in Nets |-> Idle]
    /\ streak = [n \in Nets |-> 0]

-----------------------------------------------------------------------------
(* readSendHealth().                                                       *)

\* Faults: every record ever kept counts; every network's records count.
LiveForever(n) == {i \in DOMAIN log : log[i].net = n}
LiveOfAll(n) == {i \in DOMAIN log : log[i].age <= Window}

Live(n) == {i \in DOMAIN log : log[i].net = n /\ log[i].age <= Window}
Count(n, outcomes) == Cardinality({i \in Live(n) : log[i].outcome \in outcomes})

\* An unresolved send is held back from the count of failures; a lost reply is
\* not.  Refusals of the recipient are in neither.
Verdict(n) ==
    LET ok == Count(n, {"ok"})
        failing == Count(n, {"failed", "unanswered"})
        heldBack == Count(n, {"unresolved"})
        decided == ok + failing
    IN  IF decided < MinSample
        THEN IF ok = 0 /\ (heldBack + failing >= MinSample \/ failing >= FailAlone)
             THEN "degraded" ELSE "unknown"
        ELSE IF 2 * failing >= decided THEN "degraded" ELSE "ok"

\* sendHealthBlocksServing().
Blocks(n) == Verdict(n) = "degraded"

-----------------------------------------------------------------------------

\* recordSend(): append, and drop what is too old from the front.
Trimmed(l) ==
    LET young == {i \in DOMAIN l : l[i].age <= Window} IN
    IF young = {} THEN <<>>
    ELSE SubSeq(l, CHOOSE i \in young : \A j \in young : i <= j, Len(l))

RecordSend(n, outcome) ==
    log' = Trimmed(Append(log, [outcome |-> outcome, age |-> 0, net |-> n]))

\* A claim passes the gate of the route.
PassesTheDoor(n) ==
    /\ ~Blocks(n)
    /\ waiting[n] < MaxQueue
    /\ Cardinality(Live(n)) + waiting[n] + (IF busy[n] = Idle THEN 0 ELSE 1) < MaxLive[n]
    /\ waiting' = [waiting EXCEPT ![n] = @ + 1]
    /\ UNCHANGED <<log, busy, streak>>

\* The queue hands the wallet to the next claim.
TakesWallet(n) ==
    /\ busy[n].state = "idle"
    /\ waiting[n] > 0
    /\ waiting' = [waiting EXCEPT ![n] = @ - 1]
    /\ busy' = [busy EXCEPT ![n] = [state |-> "sending", for |-> 0]]
    /\ UNCHANGED <<log, streak>>

\* send() settles in time, and the handler records how.
SendSettles(n) ==
    /\ busy[n].state = "sending"
    /\ \E outcome \in SendOutcomes : RecordSend(n, outcome)
    /\ busy' = [busy EXCEPT ![n] = Idle]
    /\ streak' = [streak EXCEPT ![n] = 0]
    /\ UNCHANGED waiting

\* The deadline settles the handler's promise; the wallet is still held.
SendExpires(n) ==
    /\ busy[n].state = "sending"
    /\ busy[n].for = Deadline
    /\ RecordSend(n, "unresolved")
    /\ busy' = [busy EXCEPT ![n].state = "late"]
    /\ streak' = [streak EXCEPT ![n] = IF @ = MinSample THEN @ ELSE @ + 1]
    /\ UNCHANGED waiting

\* The late task ends, or never does.
SendSettlesLate(n) ==
    /\ busy[n].state = "late"
    /\ busy' = [busy EXCEPT ![n] = Idle]
    /\ UNCHANGED <<log, waiting, streak>>

\* The log, the queue and the handlers are memory.
HealthRestarts ==
    /\ log # <<>>
    /\ log' = <<>>
    /\ waiting' = [n \in Nets |-> 0]
    /\ busy' = [n \in Nets |-> Idle]
    /\ streak' = [n \in Nets |-> 0]

\* A unit of time.  The deadline is a timer, so it is not passed in silence.
OlderRecord(r) == [r EXCEPT !.age = IF @ > Window THEN @ ELSE @ + 1]

HealthTicks ==
    /\ \A n \in Nets : ~(busy[n].state = "sending" /\ busy[n].for = Deadline)
    /\ log' = [i \in DOMAIN log |-> OlderRecord(log[i])]
    /\ busy' = [n \in Nets |->
                  IF busy[n].state = "sending" THEN [busy[n] EXCEPT !.for = @ + 1] ELSE busy[n]]
    /\ streak' = [n \in Nets |-> IF busy[n].state = "sending" THEN streak[n] ELSE 0]
    /\ UNCHANGED waiting

HealthNext ==
    \/ \E n \in Nets : PassesTheDoor(n) \/ TakesWallet(n) \/ SendSettles(n) \/ SendExpires(n) \/ SendSettlesLate(n)
    \/ HealthRestarts
    \/ HealthTicks

HealthSpec == HealthInit /\ [][HealthNext]_healthVars

\* Time passes and timers fire.  Nothing obliges a send to settle or a visitor
\* to come.
FairHealthSpec == HealthSpec /\ WF_healthVars(HealthTicks) /\ \A n \in Nets : WF_healthVars(SendExpires(n))

-----------------------------------------------------------------------------
(* Properties.                                                             *)

\* What is recorded about one wallet never changes the verdict on another
\* (#517), not even through the trim of the log they share; nor does a refused
\* recipient change any verdict.
VerdictIsItsOwn ==
    [][\A n \in Nets :
          \/ \E m \in Nets \ {n} : SendSettles(m) \/ SendExpires(m)
          \/ \E m \in Nets : RecordSend(m, "refused")
          => Verdict(n)' = Verdict(n)]_healthVars

\* A wallet whose sends run into the deadline one straight after the other,
\* with no success in the window, is judged at the third (windowFor: long
\* enough to hold three of them).
StreakIsJudged ==
    [][\A n \in Nets : SendExpires(n) /\ streak'[n] = MinSample /\ Count(n, {"ok"}) = 0
          => Blocks(n)']_healthVars

\* A closed door opens again by itself: nobody may be needed to send something
\* first, because nobody can.
LockoutEnds == \A n \in Nets : Blocks(n) ~> ~Blocks(n)

\* The two together: the door shuts on a streak, and never for good.
DoorFollowsTheSends == StreakIsJudged /\ LockoutEnds
=============================================================================
