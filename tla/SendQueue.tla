------------------------------ MODULE SendQueue ------------------------------
(***************************************************************************)
(* SerialQueue of src/src/lib/zcash/queue.ts: the one door to the hot      *)
(* wallet.  run(task, deadlineMs) chains the task onto the tail promise,   *)
(* arms a deadline when the task starts, and gives the caller the race of  *)
(* the task and the deadline.                                              *)
(*                                                                         *)
(* The event loop is modelled at the grain at which the code can be        *)
(* interrupted: a task's promise settles (Resolve), its settle callback    *)
(* runs (Settle), the race's callback runs (Deliver).  All three are       *)
(* microtasks, so a timer - a macrotask - never fires between them.        *)
(***************************************************************************)
EXTENDS Naturals, Sequences, FiniteSets

CONSTANTS Tasks,        \* every call of run(), each an identity of its own
          MaxPending,   \* config.sendQueueMaxPending, at least 1
          HasDeadline,  \* deadlineMs > 0
          Nobody        \* no task

ASSUME SendQueueAssumption ==
    /\ MaxPending \in Nat \ {0}
    /\ HasDeadline \in BOOLEAN
    /\ Nobody \notin Tasks

VARIABLES chain,     \* the tasks chained onto the tail, in the order of run()
          phase,     \* where each task is
          pending,   \* the private counter behind `depth`
          timer,     \* each task's deadline timer
          answer     \* what each caller's promise settled with

vars == <<chain, phase, pending, timer, answer>>

Phases == {"idle", "refused", "waiting", "running", "resolved", "settled"}
Timers == {"off", "armed", "fired"}
Answers == {"none", "busy", "result", "deadline"}

TypeOK ==
    /\ chain \in Seq(Tasks)
    /\ phase \in [Tasks -> Phases]
    /\ pending \in Nat
    /\ timer \in [Tasks -> Timers]
    /\ answer \in [Tasks -> Answers]

Init ==
    /\ chain = <<>>
    /\ phase = [t \in Tasks |-> "idle"]
    /\ pending = 0
    /\ timer = [t \in Tasks |-> "off"]
    /\ answer = [t \in Tasks |-> "none"]

-----------------------------------------------------------------------------
(* run(): the synchronous part.                                            *)

\* The backlog is at its limit: QueueFullError, and the task is never chained.
Refuse(t) ==
    /\ phase[t] = "idle"
    /\ pending >= MaxPending
    /\ phase' = [phase EXCEPT ![t] = "refused"]
    /\ answer' = [answer EXCEPT ![t] = "busy"]
    /\ UNCHANGED <<chain, pending, timer>>

\* Faults (see README, "Mutants"): the slot is not counted; the deadline is
\* armed when the task is queued.
AdmitUncounted(t) ==
    /\ phase[t] = "idle"
    /\ pending < MaxPending
    /\ chain' = Append(chain, t)
    /\ phase' = [phase EXCEPT ![t] = "waiting"]
    /\ UNCHANGED <<pending, timer, answer>>
AdmitArmed(t) ==
    /\ phase[t] = "idle"
    /\ pending < MaxPending
    /\ pending' = pending + 1
    /\ chain' = Append(chain, t)
    /\ phase' = [phase EXCEPT ![t] = "waiting"]
    /\ timer' = [timer EXCEPT ![t] = "armed"]
    /\ UNCHANGED answer

\* Count the task and make it the new tail.
Admit(t) ==
    /\ phase[t] = "idle"
    /\ pending < MaxPending
    /\ pending' = pending + 1
    /\ chain' = Append(chain, t)
    /\ phase' = [phase EXCEPT ![t] = "waiting"]
    /\ UNCHANGED <<timer, answer>>

-----------------------------------------------------------------------------
(* The promise chain.                                                      *)

\* Fault: the tail follows the raced promise, which the deadline settles.
TailAnswered(i) ==
    i > 1 => phase[chain[i - 1]] = "settled" \/ answer[chain[i - 1]] = "deadline"

\* The tail that the task at place i was chained onto has settled.
TailSettled(i) == i > 1 => phase[chain[i - 1]] = "settled"

\* Fault: the deadline is never armed.
StartUnarmed(t) ==
    /\ phase[t] = "waiting"
    /\ \E i \in DOMAIN chain : chain[i] = t /\ TailSettled(i)
    /\ phase' = [phase EXCEPT ![t] = "running"]
    /\ UNCHANGED <<chain, pending, timer, answer>>

\* work = tail.then(...): arm the deadline and start the task.
Start(t) ==
    /\ phase[t] = "waiting"
    /\ \E i \in DOMAIN chain : chain[i] = t /\ TailSettled(i)
    /\ phase' = [phase EXCEPT ![t] = "running"]
    /\ timer' = [timer EXCEPT ![t] = IF HasDeadline THEN "armed" ELSE "off"]
    /\ UNCHANGED <<chain, pending, answer>>

\* The task itself finishes, with a result or with its own error.
Resolve(t) ==
    /\ phase[t] = "running"
    /\ phase' = [phase EXCEPT ![t] = "resolved"]
    /\ UNCHANGED <<chain, pending, timer, answer>>

\* Fault: a send that fails rejects the tail.
SettleOrBreak(t) ==
    /\ phase[t] = "resolved"
    /\ \E next \in {"settled", "refused"} : phase' = [phase EXCEPT ![t] = next]
    /\ pending' = pending - 1
    /\ UNCHANGED <<chain, timer, answer>>

\* settle(): clear the timer, give the slot back; the tail is settled.
Settle(t) ==
    /\ phase[t] = "resolved"
    /\ phase' = [phase EXCEPT ![t] = "settled"]
    /\ timer' = [timer EXCEPT ![t] = IF @ = "armed" THEN "off" ELSE @]
    /\ pending' = pending - 1
    /\ UNCHANGED <<chain, answer>>

\* Fault: the late result replaces the deadline's answer.
DeliverAgain(t) ==
    /\ phase[t] = "settled"
    /\ answer' = [answer EXCEPT ![t] = "result"]
    /\ UNCHANGED <<chain, phase, pending, timer>>

\* The race settles with the task, unless the deadline was there first.  The
\* race subscribed to `work` after settle() did, so it runs after it.
Deliver(t) ==
    /\ phase[t] = "settled"
    /\ answer[t] = "none"
    /\ answer' = [answer EXCEPT ![t] = "result"]
    /\ UNCHANGED <<chain, phase, pending, timer>>

\* Fault: the slot is freed when the deadline passes.
ExpireFreesSlot(t) ==
    /\ timer[t] = "armed"
    /\ \A u \in Tasks : phase[u] # "resolved"
    /\ timer' = [timer EXCEPT ![t] = "fired"]
    /\ answer' = [answer EXCEPT ![t] = "deadline"]
    /\ pending' = pending - 1
    /\ UNCHANGED <<chain, phase>>

\* The deadline: the caller gets TaskDeadlineError.  Nothing else moves, the
\* task still holds the wallet.  A timer waits for the microtasks to drain.
Expire(t) ==
    /\ timer[t] = "armed"
    /\ \A u \in Tasks : phase[u] # "resolved"
    /\ timer' = [timer EXCEPT ![t] = "fired"]
    /\ answer' = [answer EXCEPT ![t] = "deadline"]
    /\ UNCHANGED <<chain, phase, pending>>

Step(t) == \/ Refuse(t) \/ Admit(t) \/ Start(t) \/ Resolve(t)
           \/ Settle(t) \/ Deliver(t) \/ Expire(t)

Next == \E t \in Tasks : Step(t)

\* The event loop runs what is due; nothing obliges a task to finish.
LoopFairness == \A t \in Tasks :
    WF_vars(Start(t)) /\ WF_vars(Settle(t)) /\ WF_vars(Deliver(t)) /\ WF_vars(Expire(t))

\* Every task finishes: the senders bound each of their own waits.
TaskFairness == \A t \in Tasks : WF_vars(Resolve(t))

Spec == Init /\ [][Next]_vars
LoopSpec == Spec /\ LoopFairness

-----------------------------------------------------------------------------
(* Properties.                                                             *)

Inside(t) == phase[t] \in {"waiting", "running", "resolved"}
Holding(t) == phase[t] \in {"running", "resolved"}

\* Two sends never hold the wallet at once, not even when the deadline of the
\* first one has already answered its caller (queue.ts: "freeing the slot at
\* deadline time would let the next send start building against the same
\* notes").
WalletExclusive ==
    \A t, u \in Tasks : Holding(t) /\ Holding(u) => t = u

\* `depth` is exactly the number of tasks inside, whatever became of their
\* callers, and never passes the limit.  drain() and the reserve loop act on it.
DepthExact ==
    /\ pending = Cardinality({t \in Tasks : Inside(t)})
    /\ pending <= MaxPending

\* Tasks reach the wallet in the order of their run() calls: nothing later in
\* the chain has started while something earlier has not settled.
FirstComeFirstServed ==
    \A i, j \in DOMAIN chain :
        i < j /\ phase[chain[j]] # "waiting" => phase[chain[i]] = "settled"

\* "Unknown" is only ever said of a task that reached the wallet: waiting
\* behind others is never charged to a task's deadline, so a claim cannot be
\* recorded as possibly paid when its send had not begun.
DeadlineOnlyAfterStart ==
    \A t \in Tasks : answer[t] = "deadline" => phase[t] \in {"running", "resolved", "settled"}

\* The four together: how the wallet is handed round.
WalletDiscipline ==
    WalletExclusive /\ FirstComeFirstServed /\ DepthExact /\ DeadlineOnlyAfterStart

\* A caller is answered once, and the answer "busy" means the task never runs.
KeepsAnswers ==
    \A t \in Tasks :
        /\ answer[t] # "none" => answer'[t] = answer[t]
        /\ answer[t] = "busy" => phase'[t] = phase[t]
AnswersFinal == [][KeepsAnswers]_vars

\* The caller whose task holds the wallet gets an answer even if the task never
\* finishes: what the deadline is for.
HolderIsAnswered ==
    \A t \in Tasks : phase[t] = "running" ~> answer[t] # "none"

\* When every task finishes, every caller that joined the chain is answered,
\* whatever the order of the calls and however many of them failed.
EveryCallerAnswered ==
    TaskFairness => \A t \in Tasks : phase[t] = "waiting" ~> answer[t] # "none"

\* The three together: every caller gets an answer, and keeps it.
EveryoneIsAnswered == AnswersFinal /\ HolderIsAnswered /\ EveryCallerAnswered

-----------------------------------------------------------------------------
(* The queue implements the serial wallet: the served tasks are those that *)
(* no longer count, and the holder is the task that started and has not    *)
(* settled.                                                                *)

Served == Len(chain) - pending
Holder == IF \E t \in Tasks : Holding(t) THEN CHOOSE t \in Tasks : Holding(t) ELSE Nobody

Wallet == INSTANCE SerialWallet WITH arrivals <- chain, served <- Served, holder <- Holder

ImplementsSerialWallet == Wallet!Spec
=============================================================================
