--------------------------- MODULE SendQueueProofs ---------------------------
(***************************************************************************)
(* Proofs about the send queue, for any set of calls and any limit.        *)
(*                                                                         *)
(* The argument is one picture: the chain is a prefix of settled tasks, of *)
(* length Len(chain) - pending, then at most one task holding the wallet,  *)
(* then the waiting ones.  Everything the queue promises follows from it.  *)
(***************************************************************************)
EXTENDS SendQueue, FiniteSetTheorems, TLAPS

\* A call is in the chain at most once, exactly when it was admitted.
ChainInv ==
    /\ \A i, j \in DOMAIN chain : chain[i] = chain[j] => i = j
    /\ \A t \in Tasks :
          phase[t] \notin {"idle", "refused"} <=> \E i \in DOMAIN chain : chain[i] = t

\* The settled tasks are the first Served of the chain; a holder comes next.
PrefixInv ==
    /\ pending <= Len(chain)
    /\ pending <= MaxPending
    /\ \A i \in DOMAIN chain :
          /\ phase[chain[i]] = "settled" <=> i <= Served
          /\ Holding(chain[i]) => i = Served + 1

\* What a timer and an answer say about the task.
TimerInv ==
    \A t \in Tasks :
       /\ timer[t] # "off" => phase[t] \in {"running", "resolved", "settled"}
       /\ timer[t] = "armed" => phase[t] \in {"running", "resolved"} /\ answer[t] = "none"
       /\ answer[t] = "deadline" => timer[t] = "fired"
       /\ answer[t] = "busy" <=> phase[t] = "refused"
       /\ answer[t] = "result" => phase[t] = "settled"

\* The inductive invariant.
IndInv == TypeOK /\ ChainInv /\ PrefixInv /\ TimerInv

-----------------------------------------------------------------------------
\* The queue starts in the picture.
LEMMA InitInv == Init => IndInv
  BY SendQueueAssumption
     DEF Init, IndInv, TypeOK, ChainInv, PrefixInv, TimerInv, Phases, Timers, Answers,
         Served, Holding

\* Every step of the queue keeps each variable in its type.
LEMMA TypeStep == IndInv /\ [Next]_vars => TypeOK'
  <1> SUFFICES ASSUME IndInv, [Next]_vars PROVE TypeOK'
    OBVIOUS
  <1> USE SendQueueAssumption DEF IndInv, TypeOK, Phases, Timers, Answers
  <1>1. CASE UNCHANGED vars
    BY <1>1 DEF vars
  <1>2. ASSUME NEW t \in Tasks, Refuse(t) PROVE TypeOK'
    BY <1>2 DEF Refuse
  <1>3. ASSUME NEW t \in Tasks, Admit(t) PROVE TypeOK'
    BY <1>3 DEF Admit
  <1>4. ASSUME NEW t \in Tasks, Start(t) PROVE TypeOK'
    BY <1>4 DEF Start
  <1>5. ASSUME NEW t \in Tasks, Resolve(t) PROVE TypeOK'
    BY <1>5 DEF Resolve
  <1>6. ASSUME NEW t \in Tasks, Settle(t) PROVE TypeOK'
    <2>1. PICK i \in DOMAIN chain : chain[i] = t
      BY <1>6 DEF Settle, ChainInv
    <2>2. Holding(chain[i]) /\ i = Served + 1 /\ i <= Len(chain)
      BY <1>6, <2>1 DEF Settle, PrefixInv, Holding
    <2>3. pending - 1 \in Nat
      BY <2>2 DEF Served, PrefixInv
    <2>4. QED
      BY <1>6, <2>3 DEF Settle
  <1>7. ASSUME NEW t \in Tasks, Deliver(t) PROVE TypeOK'
    BY <1>7 DEF Deliver
  <1>8. ASSUME NEW t \in Tasks, Expire(t) PROVE TypeOK'
    BY <1>8 DEF Expire
  <1>9. QED
    BY <1>1, <1>2, <1>3, <1>4, <1>5, <1>6, <1>7, <1>8 DEF Next, Step

\* Only Admit lengthens the chain, with a call that was not in it.
LEMMA ChainStep == IndInv /\ [Next]_vars => ChainInv'
  <1> SUFFICES ASSUME IndInv, [Next]_vars PROVE ChainInv'
    OBVIOUS
  <1> USE DEF IndInv, TypeOK, Phases, ChainInv
  <1>1. CASE UNCHANGED vars
    BY <1>1 DEF vars
  <1>2. ASSUME NEW t \in Tasks, Refuse(t) PROVE ChainInv'
    BY <1>2 DEF Refuse
  <1>3. ASSUME NEW t \in Tasks, Admit(t) PROVE ChainInv'
    <2>1. /\ chain' = Append(chain, t)
          /\ DOMAIN chain' = 1..(Len(chain) + 1)
          /\ \A i \in DOMAIN chain : chain'[i] = chain[i]
          /\ chain'[Len(chain) + 1] = t
      BY <1>3 DEF Admit
    <2>2. \A i \in DOMAIN chain : chain[i] # t
      BY <1>3 DEF Admit
    <2>3. \A i, j \in DOMAIN chain' : chain'[i] = chain'[j] => i = j
      BY <2>1, <2>2
    <2>4. ASSUME NEW u \in Tasks
          PROVE phase'[u] \notin {"idle", "refused"} <=> \E i \in DOMAIN chain' : chain'[i] = u
      <3>1. CASE u = t
        BY <1>3, <2>1, <3>1 DEF Admit
      <3>2. CASE u # t
        BY <1>3, <2>1, <3>2 DEF Admit
      <3>3. QED
        BY <3>1, <3>2
    <2>5. QED
      BY <2>3, <2>4
  <1>4. ASSUME NEW t \in Tasks, Start(t) PROVE ChainInv'
    BY <1>4 DEF Start
  <1>5. ASSUME NEW t \in Tasks, Resolve(t) PROVE ChainInv'
    BY <1>5 DEF Resolve
  <1>6. ASSUME NEW t \in Tasks, Settle(t) PROVE ChainInv'
    BY <1>6 DEF Settle
  <1>7. ASSUME NEW t \in Tasks, Deliver(t) PROVE ChainInv'
    BY <1>7 DEF Deliver
  <1>8. ASSUME NEW t \in Tasks, Expire(t) PROVE ChainInv'
    BY <1>8 DEF Expire
  <1>9. QED
    BY <1>1, <1>2, <1>3, <1>4, <1>5, <1>6, <1>7, <1>8 DEF Next, Step

\* The picture: Admit adds a waiting task at the end, Start lets in the task
\* right after the settled prefix, Settle moves the boundary by one.
LEMMA PrefixStep == IndInv /\ [Next]_vars => PrefixInv'
  <1> SUFFICES ASSUME IndInv, [Next]_vars PROVE PrefixInv'
    OBVIOUS
  <1> USE SendQueueAssumption DEF IndInv, TypeOK, PrefixInv, Served, Holding
  <1>1. CASE UNCHANGED vars
    BY <1>1 DEF vars
  <1>2. ASSUME NEW t \in Tasks, Refuse(t) PROVE PrefixInv'
    BY <1>2 DEF Refuse, ChainInv
  <1>3. ASSUME NEW t \in Tasks, Admit(t) PROVE PrefixInv'
    <2>1. /\ Len(chain') = Len(chain) + 1
          /\ DOMAIN chain' = 1..(Len(chain) + 1)
          /\ \A i \in DOMAIN chain : chain'[i] = chain[i]
          /\ chain'[Len(chain) + 1] = t
      BY <1>3 DEF Admit
    <2>2. \A i \in DOMAIN chain : chain[i] # t
      BY <1>3 DEF Admit, ChainInv
    <2>3. pending' = pending + 1 /\ Served' = Served
      BY <1>3, <2>1 DEF Admit
    <2>4. phase'[t] = "waiting" /\ \A i \in DOMAIN chain : phase'[chain[i]] = phase[chain[i]]
      BY <1>3, <2>2 DEF Admit
    <2>5. pending' <= Len(chain') /\ pending' <= MaxPending
      BY <1>3, <2>1, <2>3 DEF Admit
    <2>6. ASSUME NEW i \in DOMAIN chain'
          PROVE /\ phase'[chain'[i]] = "settled" <=> i <= Served'
                /\ phase'[chain'[i]] \in {"running", "resolved"} => i = Served' + 1
      <3>1. CASE i \in DOMAIN chain
        BY <2>1, <2>3, <2>4, <3>1
      <3>2. CASE i = Len(chain) + 1
        BY <2>1, <2>3, <2>4, <3>2
      <3>3. QED
        BY <2>1, <3>1, <3>2
    <2>7. QED
      BY <2>5, <2>6
  <1>4. ASSUME NEW t \in Tasks, Start(t) PROVE PrefixInv'
    <2>1. PICK k \in DOMAIN chain : chain[k] = t /\ TailSettled(k)
      BY <1>4 DEF Start
    <2>2. k = Served + 1
      <3>1. k > Served
        BY <1>4, <2>1 DEF Start
      <3>2. k > 1 => k - 1 <= Served
        BY <2>1 DEF TailSettled
      <3>3. QED
        BY <3>1, <3>2
    <2>3. \A i \in DOMAIN chain : i # k => phase'[chain[i]] = phase[chain[i]]
      BY <1>4, <2>1 DEF Start, ChainInv
    <2>4. phase'[chain[k]] = "running"
      BY <1>4, <2>1 DEF Start
    <2>5. UNCHANGED <<chain, pending>>
      BY <1>4 DEF Start
    <2>6. QED
      BY <2>2, <2>3, <2>4, <2>5
  <1>5. ASSUME NEW t \in Tasks, Resolve(t) PROVE PrefixInv'
    BY <1>5 DEF Resolve
  <1>6. ASSUME NEW t \in Tasks, Settle(t) PROVE PrefixInv'
    <2>1. PICK k \in DOMAIN chain : chain[k] = t
      BY <1>6 DEF Settle, ChainInv
    <2>2. k = Served + 1
      BY <1>6, <2>1 DEF Settle
    <2>3. \A i \in DOMAIN chain : i # k => phase'[chain[i]] = phase[chain[i]]
      BY <1>6, <2>1 DEF Settle, ChainInv
    <2>4. phase'[chain[k]] = "settled"
      BY <1>6, <2>1 DEF Settle
    <2>5. chain' = chain /\ pending' = pending - 1 /\ Served' = Served + 1
      BY <1>6 DEF Settle
    <2>6. QED
      BY <2>2, <2>3, <2>4, <2>5
  <1>7. ASSUME NEW t \in Tasks, Deliver(t) PROVE PrefixInv'
    BY <1>7 DEF Deliver
  <1>8. ASSUME NEW t \in Tasks, Expire(t) PROVE PrefixInv'
    BY <1>8 DEF Expire
  <1>9. QED
    BY <1>1, <1>2, <1>3, <1>4, <1>5, <1>6, <1>7, <1>8 DEF Next, Step

\* Timers live only while their task holds the wallet; answers are final.
LEMMA TimerStep == IndInv /\ [Next]_vars => TimerInv'
  <1> SUFFICES ASSUME IndInv, [Next]_vars PROVE TimerInv'
    OBVIOUS
  <1> USE DEF IndInv, TypeOK, Phases, Timers, Answers, TimerInv
  <1>1. CASE UNCHANGED vars
    BY <1>1 DEF vars
  <1>2. ASSUME NEW t \in Tasks, Refuse(t) PROVE TimerInv'
    BY <1>2 DEF Refuse
  <1>3. ASSUME NEW t \in Tasks, Admit(t) PROVE TimerInv'
    BY <1>3 DEF Admit
  <1>4. ASSUME NEW t \in Tasks, Start(t) PROVE TimerInv'
    BY <1>4 DEF Start
  <1>5. ASSUME NEW t \in Tasks, Resolve(t) PROVE TimerInv'
    BY <1>5 DEF Resolve
  <1>6. ASSUME NEW t \in Tasks, Settle(t) PROVE TimerInv'
    BY <1>6 DEF Settle
  <1>7. ASSUME NEW t \in Tasks, Deliver(t) PROVE TimerInv'
    BY <1>7 DEF Deliver
  <1>8. ASSUME NEW t \in Tasks, Expire(t) PROVE TimerInv'
    BY <1>8 DEF Expire
  <1>9. QED
    BY <1>1, <1>2, <1>3, <1>4, <1>5, <1>6, <1>7, <1>8 DEF Next, Step

\* IndInv holds in every reachable state.
THEOREM Inductive == Spec => []IndInv
  <1>1. IndInv /\ [Next]_vars => IndInv'
    BY TypeStep, ChainStep, PrefixStep, TimerStep DEF IndInv
  <1>2. QED
    BY InitInv, <1>1, PTL DEF Spec

-----------------------------------------------------------------------------
\* The type invariant of the queue.
THEOREM TypeCorrect == Spec => []TypeOK
  <1>1. IndInv => TypeOK
    BY DEF IndInv
  <1>2. QED
    BY Inductive, <1>1, PTL

\* Two holders would both be the task right after the settled prefix.
LEMMA InvExclusive == IndInv => WalletExclusive
  <1> SUFFICES ASSUME IndInv, NEW t \in Tasks, NEW u \in Tasks, Holding(t), Holding(u)
               PROVE t = u
    BY DEF WalletExclusive
  <1>1. PICK i \in DOMAIN chain : chain[i] = t
    BY DEF IndInv, ChainInv, Holding
  <1>2. PICK j \in DOMAIN chain : chain[j] = u
    BY DEF IndInv, ChainInv, Holding
  <1>3. i = Served + 1 /\ j = Served + 1
    BY <1>1, <1>2 DEF IndInv, PrefixInv
  <1>4. QED
    BY <1>1, <1>2, <1>3

\* At most one task holds the wallet, deadlines included: queue.ts run().
THEOREM Exclusive == Spec => []WalletExclusive
  BY Inductive, InvExclusive, PTL

\* Nothing starts before everything in front of it has settled: queue.ts run().
THEOREM InOrder == Spec => []FirstComeFirstServed
  <1>1. IndInv => FirstComeFirstServed
    <2> SUFFICES ASSUME IndInv, NEW i \in DOMAIN chain, NEW j \in DOMAIN chain,
                        i < j, phase[chain[j]] # "waiting"
                 PROVE phase[chain[i]] = "settled"
      BY DEF FirstComeFirstServed
    <2> USE DEF IndInv, TypeOK, Phases, PrefixInv, Served
    <2>1. phase[chain[j]] \in {"running", "resolved", "settled"}
      BY DEF ChainInv
    <2>2. j <= Served + 1
      BY <2>1 DEF Holding
    <2>3. i <= Served
      BY <2>2
    <2>4. QED
      BY <2>3
  <1>2. QED
    BY Inductive, <1>1, PTL

\* The deadline's answer is only given about a task that reached the wallet.
THEOREM DeadlineAfterStart == Spec => []DeadlineOnlyAfterStart
  <1>1. IndInv => DeadlineOnlyAfterStart
    BY DEF IndInv, TimerInv, DeadlineOnlyAfterStart
  <1>2. QED
    BY Inductive, <1>1, PTL

-----------------------------------------------------------------------------
\* The counter is the number of tasks inside, and the limit holds.
THEOREM Depth == Spec => []DepthExact
  <1> DEFINE S == {t \in Tasks : Inside(t)}
             CountInv == IsFiniteSet(S) /\ pending = Cardinality(S)
  <1>1. Init => CountInv
    <2> SUFFICES ASSUME Init PROVE CountInv
      OBVIOUS
    <2>1. S = {}
      BY DEF Init, Inside
    <2>2. QED
      BY <2>1, FS_EmptySet DEF Init
  <1>2. IndInv /\ CountInv /\ [Next]_vars => CountInv'
    <2> SUFFICES ASSUME IndInv, CountInv, [Next]_vars PROVE CountInv'
      OBVIOUS
    <2> USE DEF IndInv, TypeOK, Phases
    <2>1. ASSUME NEW t \in Tasks, Admit(t) PROVE CountInv'
      <3>1. S' = S \cup {t} /\ t \notin S
        BY <2>1 DEF Admit, Inside
      <3>2. IsFiniteSet(S \cup {t}) /\ Cardinality(S \cup {t}) = Cardinality(S) + 1
        <4> HIDE DEF S
        <4>1. QED
          BY <3>1, FS_AddElement
      <3>3. QED
        BY <2>1, <3>1, <3>2 DEF Admit
    <2>2. ASSUME NEW t \in Tasks, Settle(t) PROVE CountInv'
      <3>1. S' = S \ {t} /\ t \in S
        BY <2>2 DEF Settle, Inside
      <3>2. IsFiniteSet(S \ {t}) /\ Cardinality(S \ {t}) = Cardinality(S) - 1
        <4> HIDE DEF S
        <4>1. QED
          BY <3>1, FS_RemoveElement
      <3>3. QED
        BY <2>2, <3>1, <3>2 DEF Settle
    <2>3. ASSUME NEW t \in Tasks, Refuse(t) \/ Start(t) \/ Resolve(t) \/ Deliver(t) \/ Expire(t)
          PROVE CountInv'
      <3>1. S' = S
        BY <2>3 DEF Refuse, Start, Resolve, Deliver, Expire, Inside
      <3>2. pending' = pending
        BY <2>3 DEF Refuse, Start, Resolve, Deliver, Expire
      <3>3. QED
        BY <3>1, <3>2
    <2>4. CASE UNCHANGED vars
      <3>1. S' = S /\ pending' = pending
        BY <2>4 DEF vars, Inside
      <3>2. QED
        BY <3>1
    <2>5. QED
      BY <2>1, <2>2, <2>3, <2>4 DEF Next, Step
  <1>3. IndInv /\ CountInv => DepthExact
    BY DEF IndInv, PrefixInv, DepthExact
  <1>4. QED
    BY <1>1, <1>2, <1>3, Inductive, PTL DEF Spec

\* No step takes an answer back, and a refused call never runs.
THEOREM AnswersAreFinal == Spec => AnswersFinal
  <1>1. IndInv /\ [Next]_vars => [KeepsAnswers]_vars
    <2> SUFFICES ASSUME IndInv, Next, NEW t \in Tasks
                 PROVE /\ answer[t] # "none" => answer'[t] = answer[t]
                       /\ answer[t] = "busy" => phase'[t] = phase[t]
      BY DEF KeepsAnswers
    <2>1. PICK u \in Tasks : Step(u)
      BY DEF Next
    <2> USE DEF IndInv, TypeOK, Phases, Timers, Answers, TimerInv
    <2>2. CASE Refuse(u) \/ Admit(u) \/ Start(u)
      BY <2>2 DEF Refuse, Admit, Start
    <2>3. CASE Resolve(u) \/ Settle(u) \/ Deliver(u) \/ Expire(u)
      BY <2>3 DEF Resolve, Settle, Deliver, Expire
    <2>4. QED
      BY <2>1, <2>2, <2>3 DEF Step
  <1>2. QED
    BY Inductive, <1>1, PTL DEF Spec, AnswersFinal

-----------------------------------------------------------------------------
\* Holder names the task that holds the wallet, and Nobody when none does.
HolderNamed ==
    /\ \A t \in Tasks : Holding(t) => Holder = t
    /\ (\A t \in Tasks : ~Holding(t)) => Holder = Nobody

\* The holder the refinement names is the task at the front of the chain.
LEMMA InvHolder == IndInv => HolderNamed
  BY InvExclusive DEF WalletExclusive, HolderNamed, Holder

\* How run() hands the wallet round, the four facts in one.
THEOREM Discipline == Spec => []WalletDiscipline
  <1>1. WalletExclusive /\ FirstComeFirstServed /\ DepthExact /\ DeadlineOnlyAfterStart
        => WalletDiscipline
    BY DEF WalletDiscipline
  <1>2. QED
    BY <1>1, Exclusive, InOrder, Depth, DeadlineAfterStart, PTL

\* A step that keeps every task's hold on the wallet keeps the holder.
LEMMA SameHolder ==
    ASSUME \A t \in Tasks : Holding(t)' <=> Holding(t)
    PROVE  Holder' = Holder
  <1>1. (\E t \in Tasks : Holding(t))' <=> \E t \in Tasks : Holding(t)
    OBVIOUS
  <1>2. (CHOOSE t \in Tasks : Holding(t))' = CHOOSE t \in Tasks : Holding(t)
    OBVIOUS
  <1>3. QED
    BY <1>1, <1>2 DEF Holder

\* The promise chain implements the serial wallet: Admit is Arrive, Start is
\* Take, Settle is Release, and every other step is a stutter (queue.ts run()).
THEOREM Implements == Spec => ImplementsSerialWallet
  <1>1. Init => Wallet!Init
    BY DEF Init, Wallet!Init, Served, Holding, Holder
  <1>2. IndInv /\ IndInv' /\ [Next]_vars => [Wallet!Next]_(Wallet!walletVars)
    <2> SUFFICES ASSUME IndInv, IndInv', [Next]_vars
                 PROVE [Wallet!Next]_(Wallet!walletVars)
      OBVIOUS
    <2>1. /\ WalletExclusive /\ WalletExclusive'
          /\ HolderNamed /\ HolderNamed'
      BY InvExclusive, InvHolder, PTL
    <2> USE DEF IndInv, TypeOK, Phases
    <2>2. ASSUME NEW t \in Tasks, Admit(t) PROVE Wallet!Arrive(t)
      <3>1. \A u \in Tasks : Holding(u)' <=> Holding(u)
        BY <2>2 DEF Admit, Holding
      <3>2. Holder' = Holder
        BY <3>1, SameHolder
      <3>3. ~Wallet!Arrived(t)
        BY <2>2 DEF Admit, ChainInv, Wallet!Arrived
      <3>4. Wallet!Depth < MaxPending /\ Served' = Served
        BY <2>2 DEF Admit, Wallet!Depth, Served
      <3>5. QED
        BY <2>2, <3>2, <3>3, <3>4 DEF Admit, Wallet!Arrive
    <2>3. ASSUME NEW t \in Tasks, Start(t) PROVE Wallet!Take(t)
      <3>1. PICK k \in DOMAIN chain : chain[k] = t /\ TailSettled(k)
        BY <2>3 DEF Start
      <3>2. k = Served + 1
        <4>1. k > Served
          BY <2>3, <3>1 DEF Start, PrefixInv, Served
        <4>2. k > 1 => k - 1 <= Served
          BY <3>1 DEF TailSettled, PrefixInv
        <4>3. QED
          BY <3>1, <4>1, <4>2 DEF PrefixInv, Served
      <3>3. Holder' = t
        BY <2>1, <2>3 DEF Start, Holding, HolderNamed
      <3>4. Holder = Nobody
        <4>1. ASSUME NEW u \in Tasks, Holding(u) PROVE FALSE
          <5>1. PICK i \in DOMAIN chain : chain[i] = u
            BY <4>1 DEF ChainInv, Holding
          <5>2. i = k
            BY <3>2, <4>1, <5>1 DEF PrefixInv
          <5>3. QED
            BY <2>3, <3>1, <4>1, <5>1, <5>2 DEF Start, Holding
        <4>2. QED
          BY <2>1, <4>1 DEF HolderNamed
      <3>5. UNCHANGED <<chain, Served>>
        BY <2>3 DEF Start, Served
      <3>6. Served < Len(chain) /\ t = chain[Served + 1]
        BY <3>1, <3>2 DEF Served
      <3>7. QED
        BY <3>3, <3>4, <3>5, <3>6 DEF Wallet!Take
    <2>4. ASSUME NEW t \in Tasks, Settle(t) PROVE Wallet!Release(t)
      <3>1. Holder = t
        BY <2>1, <2>4 DEF Settle, Holding, HolderNamed
      <3>2. \A u \in Tasks : ~Holding(u)'
        BY <2>1, <2>4 DEF Settle, Holding, WalletExclusive
      <3>3. Holder' = Nobody
        BY <2>1, <3>2 DEF HolderNamed
      <3>4. chain' = chain /\ Served' = Served + 1
        BY <2>4 DEF Settle, Served
      <3>5. QED
        BY <3>1, <3>3, <3>4 DEF Wallet!Release
    <2>5. ASSUME NEW t \in Tasks, Refuse(t) \/ Resolve(t) \/ Deliver(t) \/ Expire(t)
          PROVE UNCHANGED Wallet!walletVars
      <3>1. \A u \in Tasks : Holding(u)' <=> Holding(u)
        BY <2>5 DEF Refuse, Resolve, Deliver, Expire, Holding
      <3>2. Holder' = Holder
        BY <3>1, SameHolder
      <3>3. chain' = chain /\ Served' = Served
        BY <2>5 DEF Refuse, Resolve, Deliver, Expire, Served
      <3>4. QED
        BY <3>2, <3>3 DEF Wallet!walletVars
    <2>6. CASE UNCHANGED vars
      <3>1. Holder' = Holder
        BY <2>6, SameHolder DEF vars, Holding
      <3>2. QED
        BY <2>6, <3>1 DEF vars, Served, Wallet!walletVars
    <2>7. QED
      BY <2>2, <2>3, <2>4, <2>5, <2>6 DEF Next, Step, Wallet!Next
  <1>3. QED
    BY <1>1, <1>2, Inductive, PTL DEF Spec, ImplementsSerialWallet, Wallet!Spec
=============================================================================
