----------------------------- MODULE SendProofs -----------------------------
(***************************************************************************)
(* Proofs about a claim from POST to payment (DripClaim), for any number   *)
(* of claims, places in the queue and process ends, and about one send     *)
(* (ZalletSend), for all timeouts.                                         *)
(*                                                                         *)
(* What carries the pipeline: the handlers, the line and the rows are three *)
(* views of one claim (HandlerInv, QueueInv, RowInv), and a handler in the *)
(* line is never later than the places in front of it allow (PunctualInv). *)
(* So the clock never runs past the lease of a row somebody still holds,   *)
(* every step is a step of the ledger, and what LedgerProofs shows of the  *)
(* ledger under that assumption holds of the pipeline without it.          *)
(***************************************************************************)
EXTENDS DripClaim, ZalletSend, FiniteSetTheorems, TLAPS

\* Task t waits for the wallet or holds it.
InLine(t) == \E i \in DOMAIN arrivals : i > served /\ arrivals[i] = t

\* The line: nobody is in it twice, the holder is its first, it is never
\* longer than the backlog allows.
QueueInv ==
    /\ \A i, j \in DOMAIN arrivals : arrivals[i] = arrivals[j] => i = j
    /\ holder # Nobody => served < Len(arrivals) /\ arrivals[served + 1] = holder
    /\ W!Depth <= MaxPending

\* Where the handler of a claim is, against what the queue knows of the claim,
\* what its caller was told and what the visitor was answered.
HandlerAt(c) ==
    /\ stage[c] \in {"new", "gates", "reserved"} =>
          op[c] = "none" /\ told[c] = "none" /\ reply[c] = "none" /\ ~W!Arrived(c)
    /\ stage[c] # "new" => req[c] \in L!Requests /\ stamp[c] <= clock
    /\ stage[c] = "queued" => reply[c] = "none" /\ (told[c] # "none" \/ InLine(c))
    /\ InLine(c) => told[c] = "none" \/ (told[c] = "deadline" /\ holder = c)
    /\ InLine(c) /\ holder # c => op[c] = "none"
    /\ told[c] = "busy" => op[c] = "none" /\ ~W!Arrived(c)
    /\ reply[c] \in {"blocked", "refused", "drained"} => op[c] = "none" /\ ~W!Arrived(c)
HandlerInv == \A c \in Claims : HandlerAt(c)

\* A claim the ledger, the queue or the wallet knows.
Booked(c) == c \in open \/ InLine(c) \/ op[c] # "none"

\* The rows, against the handlers: open is who will still finalise; a row says
\* what its claim asked for and when; only a purge takes one away.
RowAt(c) ==
    /\ c \in open <=> stage[c] \in {"reserved", "queued"}
    /\ row[c] # NoRow =>
          row[c].at = stamp[c] /\ row[c].req = req[c] /\ stage[c] \notin {"new", "gates"}
    /\ Booked(c) /\ row[c] = NoRow => stamp[c] < cut
RowInv == \A c \in Claims : RowAt(c)

\* How late a handler can be: the ones ahead of it in the line, and its own
\* send, take a residence each, counted from when the holder took the wallet.
Since == IF holder = Nobody THEN clock ELSE began[holder]
LatestEnd(i) == Since + (i - served) * Residence
LastEnd(c) == stamp[c] + MaxStale + MaxPending * Residence
PunctualInv ==
    /\ \A c \in Claims : stage[c] \in {"gates", "reserved"} => clock <= stamp[c] + MaxStale
    /\ holder # Nobody => began[holder] <= clock /\ clock <= began[holder] + Residence
    /\ \A i \in DOMAIN arrivals, c \in Claims :
          i > served /\ arrivals[i] = c /\ stage[c] = "queued" => LatestEnd(i) <= LastEnd(c)

\* An open row is pending and inside its lease (OpenInv of LedgerProofs), and no
\* purge was handed a cutoff newer than the present allows (CutInv).
LeaseInv ==
    \A c \in open :
       /\ row[c] # NoRow
       /\ row[c].status = "pending"
       /\ clock < row[c].at + PendingLeaseSeconds
CutoffInv == cut <= L!RetentionCutoff(clock) \/ cut = -1

PipelineInv ==
    TypeOK /\ LeaseInv /\ CutoffInv /\ QueueInv /\ HandlerInv /\ RowInv /\ PunctualInv

\* The money, against what is said of it.  Only a sender that does not know when
\* it does not know can say "failed" of a payment.
MoneyAt(c) ==
    /\ told[c] = "ok" => op[c] = "paid"
    /\ told[c] = "failed" => op[c] \in {"none", "dead"} \/ req[c].net \in BlindNets
    /\ row[c] # NoRow /\ row[c].status = "failed" => told[c] \in {"failed", "busy"}
    /\ reply[c] = "paid" => told[c] = "ok"
    /\ reply[c] = "failed" => told[c] = "failed"
    /\ reply[c] = "busy" => told[c] = "busy"
MoneyInv == \A c \in Claims : MoneyAt(c)

\* A claim that may still pay, or has; and one whose payment nobody denied.
Live(c) == c \in open \/ InLine(c) \/ MayPay(c)
Undenied(c) == c \in open \/ InLine(c) \/ (MayPay(c) /\ told[c] # "failed")

\* What AddressFree saw of the earlier claim when the later one was reserved.
Spaced(c, d) ==
    \/ stamp[d] - stamp[c] >= Cooldown
    \/ stamp[d] - stamp[c] >= PendingLeaseSeconds /\ ~OnRecord(c)
SpacedInv ==
    \A c, d \in Claims :
        /\ c # d
        /\ Undenied(c)
        /\ Live(d)
        /\ Undenied(d) \/ stamp[d] - stamp[c] > MaxStale
        /\ req[c].addr = req[d].addr
        /\ req[c].net = req[d].net
        /\ stamp[c] <= stamp[d]
        => Spaced(c, d)

Tasks == Claims \cup Steps

\* The queue's part of the types.
LineTyped ==
    /\ arrivals \in Seq(Tasks)
    /\ served \in 0 .. Len(arrivals)
    /\ holder \in Tasks \cup {Nobody}

\* The constants the proofs compute with.
LEMMA Numbers ==
  /\ MaxPending \in Nat /\ MaxPending > 0
  /\ Residence \in Nat /\ Residence > 0
  /\ LeaseMargin \in Nat /\ MaxStale \in Nat /\ Grace \in Nat
  /\ Cooldown \in Nat /\ Cooldown > 0 /\ Day \in Nat /\ Day > 0
  /\ MaxStale < Residence + LeaseMargin /\ MaxStale <= Grace
  BY DripClaimAssumption

\* A task is somebody, and no claim is a refill step.
LEMMA TasksApart ==
  /\ Nobody \notin Tasks
  /\ \A c \in Claims, s \in Steps : c # s
  BY DripClaimAssumption DEF Tasks

\* The line of a typed state is typed.
LEMMA PipelineTypes == TypeOK => LineTyped
  BY DEF TypeOK, LineTyped, Tasks

\* Joining the line puts the task at its end.
LEMMA LineJoins ==
  ASSUME LineTyped, QueueInv, NEW t \in Tasks, W!Arrive(t)
  PROVE  /\ LineTyped' /\ QueueInv'
         /\ \A x : InLine(x)' <=> InLine(x) \/ x = t
         /\ \A x : W!Arrived(x)' <=> W!Arrived(x) \/ x = t
<1>0. arrivals' = Append(arrivals, t) /\ arrivals \in Seq(Tasks)
  BY DEF LineTyped, W!Arrive
<1>1. /\ arrivals' \in Seq(Tasks)
      /\ Len(arrivals') = Len(arrivals) + 1
      /\ DOMAIN arrivals = 1 .. Len(arrivals)
      /\ DOMAIN arrivals' = 1 .. Len(arrivals) + 1
      /\ \A i \in 1 .. Len(arrivals) : arrivals'[i] = arrivals[i]
      /\ arrivals'[Len(arrivals) + 1] = t
      /\ Len(arrivals) \in Nat
      /\ served' = served /\ holder' = holder
  BY <1>0 DEF LineTyped, W!Arrive
<1>2. LineTyped'
  BY <1>1 DEF LineTyped
<1>3. ASSUME NEW x PROVE (InLine(x)' <=> InLine(x) \/ x = t) /\ (W!Arrived(x)' <=> W!Arrived(x) \/ x = t)
  <2>1. Len(arrivals) + 1 \in DOMAIN arrivals' /\ Len(arrivals) + 1 > served
    BY <1>1 DEF LineTyped
  <2>2. InLine(x) => InLine(x)'
    <3>1. ASSUME NEW i \in DOMAIN arrivals, i > served, arrivals[i] = x
          PROVE i \in DOMAIN arrivals' /\ i > served' /\ arrivals'[i] = x
      BY <1>1, <3>1
    <3>2. QED
      BY <3>1 DEF InLine
  <2>3. InLine(x)' => InLine(x) \/ x = t
    <3>1. ASSUME NEW i \in DOMAIN arrivals', i > served', arrivals'[i] = x, x # t
          PROVE i \in DOMAIN arrivals /\ i > served /\ arrivals[i] = x
      BY <1>1, <3>1 DEF LineTyped
    <3>2. QED
      BY <3>1 DEF InLine
  <2>5. InLine(t)'
    BY <1>1, <2>1 DEF InLine
  <2>6. W!Arrived(x)' <=> W!Arrived(x) \/ x = t
    <3>1. ASSUME NEW i \in DOMAIN arrivals' PROVE i = Len(arrivals) + 1 \/ i \in DOMAIN arrivals
      BY <1>1
    <3>2. QED
      BY <1>1, <2>1, <3>1 DEF W!Arrived
  <2>4. QED
    BY <2>2, <2>3, <2>5, <2>6
<1>4. QueueInv'
  <2>1. \A i \in 1 .. Len(arrivals) : arrivals[i] # t
    BY <1>1 DEF W!Arrive, W!Arrived
  <2>2. W!Depth' <= MaxPending
    BY <1>1, Numbers DEF W!Arrive, W!Depth, LineTyped
  <2>3. ASSUME NEW i \in DOMAIN arrivals', NEW j \in DOMAIN arrivals', arrivals'[i] = arrivals'[j]
        PROVE i = j
    <3>1. (i = Len(arrivals) + 1 \/ i \in DOMAIN arrivals) /\ (j = Len(arrivals) + 1 \/ j \in DOMAIN arrivals)
      BY <1>1
    <3>2. QED
      BY <1>1, <2>1, <2>3, <3>1 DEF QueueInv
  <2>4. holder' # Nobody => served' < Len(arrivals') /\ arrivals'[served' + 1] = holder'
    BY <1>1 DEF QueueInv, LineTyped
  <2>5. QED
    BY <2>2, <2>3, <2>4 DEF QueueInv
<1>5. QED
  BY <1>2, <1>3, <1>4

\* Taking the wallet leaves the line as it is.
LEMMA LineMoves ==
  ASSUME LineTyped, QueueInv, NEW t \in Tasks, W!Take(t)
  PROVE  /\ LineTyped' /\ QueueInv'
         /\ InLine(t)
         /\ \A x : InLine(x)' <=> InLine(x)
         /\ \A x : W!Arrived(x)' <=> W!Arrived(x)
<1>1. arrivals' = arrivals /\ served' = served /\ holder' = t /\ arrivals[served + 1] = t
      /\ served < Len(arrivals)
  BY DEF W!Take
<1>2. served + 1 \in DOMAIN arrivals /\ served + 1 > served
  BY <1>1 DEF LineTyped
<1>3. QED
  BY <1>1, <1>2 DEF LineTyped, QueueInv, InLine, W!Arrived, W!Depth

\* Releasing the wallet takes its holder, and nobody else, out of the line.
LEMMA LineLeaves ==
  ASSUME LineTyped, QueueInv, NEW t \in Tasks, W!Release(t)
  PROVE  /\ LineTyped' /\ QueueInv'
         /\ InLine(t)
         /\ \A x : InLine(x)' <=> InLine(x) /\ x # t
         /\ \A x : W!Arrived(x)' <=> W!Arrived(x)
<1>1. /\ arrivals' = arrivals /\ served' = served + 1 /\ holder' = Nobody /\ holder = t
      /\ t # Nobody
  BY TasksApart DEF W!Release
<1>2. /\ served < Len(arrivals) /\ arrivals[served + 1] = t
      /\ served + 1 \in DOMAIN arrivals /\ served + 1 > served
      /\ served \in Nat /\ Len(arrivals) \in Nat /\ DOMAIN arrivals = 1 .. Len(arrivals)
  BY <1>1 DEF LineTyped, QueueInv
<1>3. LineTyped'
  BY <1>1, <1>2 DEF LineTyped
<1>4. QueueInv'
  <2>1. W!Depth' <= MaxPending
    BY <1>1, <1>2, Numbers DEF QueueInv, W!Depth
  <2>2. QED
    BY <1>1, <2>1 DEF QueueInv
<1>5. ASSUME NEW x PROVE InLine(x)' <=> InLine(x) /\ x # t
  <2>1. \A i \in DOMAIN arrivals : i > served + 1 <=> i > served /\ arrivals[i] # t
    <3>1. \A i \in DOMAIN arrivals : arrivals[i] = t => i = served + 1
      BY <1>2 DEF QueueInv
    <3>2. QED
      BY <1>2, <3>1
  <2>2. QED
    BY <1>1, <2>1 DEF InLine
<1>6. InLine(t) /\ \A x : W!Arrived(x)' <=> W!Arrived(x)
  BY <1>1, <1>2 DEF InLine, W!Arrived
<1>7. QED
  BY <1>3, <1>4, <1>5, <1>6

\* A process that ends leaves no line.
LEMMA LineEmptied ==
  ASSUME arrivals' = <<>>, served' = 0, holder' = Nobody
  PROVE  LineTyped' /\ QueueInv' /\ \A x : ~InLine(x)' /\ ~W!Arrived(x)'
  BY Numbers DEF LineTyped, QueueInv, InLine, W!Arrived, W!Depth

-----------------------------------------------------------------------------
(* The ledger of DripClaim (L) is the one LedgerProofs reasons about (LP),   *)
(* with the derived lease: the same definitions, one by one.                *)

LP == INSTANCE LedgerProofs WITH Lease <- PendingLeaseSeconds

\* The lease, written out: a place each, the send itself, the margin.
LEMMA LeaseIsNat ==
  /\ MaxPending * Residence \in Nat
  /\ PendingLeaseSeconds = MaxPending * Residence + Residence + LeaseMargin
  /\ PendingLeaseSeconds \in Nat \ {0}
  /\ MaxStale < PendingLeaseSeconds
<1>1. MaxPending * Residence \in Nat /\ (MaxPending + 1) * Residence = MaxPending * Residence + Residence
  BY Numbers
<1>2. QED
  BY <1>1, Numbers DEF PendingLeaseSeconds

\* What LedgerProofs assumes of its constants holds of the instance.
LEMMA InstanceAssumptions ==
  /\ LP!IsFiniteSet(Claims)
  /\ {Cooldown, PendingLeaseSeconds, Day} \subseteq Nat \ {0}
  /\ {Grace, MaxStale} \subseteq Nat
  /\ MaxStale < PendingLeaseSeconds
  /\ MaxStale <= Grace
  /\ {IpDailyMax, SubnetDailyMax} \subseteq Nat \ {0}
  /\ Amount \in [Nets -> Nat]
  /\ DailyCap \in [Nets -> Nat]
  /\ NoBucket \notin Ips \cup Subnets
  /\ NoRow \notin LP!Rows
<1>1. LP!IsFiniteSet(Claims)
  BY DripClaimAssumption DEF IsFiniteSet, LP!IsFiniteSet
<1>2. NoRow \notin LP!Rows
  BY AbsentAssumption DEF L!Rows, LP!Rows, L!Requests, LP!Requests, L!Statuses, LP!Statuses
<1>3. /\ {Cooldown, PendingLeaseSeconds, Day} \subseteq Nat \ {0}
      /\ {Grace, MaxStale} \subseteq Nat
      /\ MaxStale < PendingLeaseSeconds /\ MaxStale <= Grace
  BY Numbers, LeaseIsNat
<1>4. /\ {IpDailyMax, SubnetDailyMax} \subseteq Nat \ {0}
      /\ Amount \in [Nets -> Nat] /\ DailyCap \in [Nets -> Nat]
      /\ NoBucket \notin Ips \cup Subnets
  BY DripClaimAssumption
<1>5. QED
  BY <1>1, <1>2, <1>3, <1>4

\* Requests, rows and the stored ones are the same sets.
LEMMA SameRows == L!Requests = LP!Requests /\ L!Rows = LP!Rows /\ L!Stored = LP!Stored
  BY DEF L!Requests, LP!Requests, L!Rows, LP!Rows, L!Statuses, LP!Statuses, L!Stored, LP!Stored

\* The four limits admit the same requests.
LEMMA SameLimits ==
  ASSUME NEW q, NEW now
  PROVE  L!Admissible(q, now) <=> LP!Admissible(q, now)
<1>1. \A r, n : (L!LiveAfter(r, n) <=> LP!LiveAfter(r, n)) /\ (L!LiveSince(r, n) <=> LP!LiveSince(r, n))
  BY DEF L!LiveAfter, LP!LiveAfter, L!LiveSince, LP!LiveSince
<1>2. /\ L!AddressRows(q, now) = LP!AddressRows(q, now)
      /\ L!IpRows(q.ip, q.net, now) = LP!IpRows(q.ip, q.net, now)
      /\ L!SubnetRows(q.subnet, now) = LP!SubnetRows(q.subnet, now)
      /\ L!CapRows(q.net, now) = LP!CapRows(q.net, now)
  BY <1>1, SameRows DEF L!AddressRows, LP!AddressRows, L!IpRows, LP!IpRows,
     L!SubnetRows, LP!SubnetRows, L!CapRows, LP!CapRows
<1>3. \A rowSet : L!Cardinality(rowSet) = LP!Cardinality(rowSet)
  BY DEF L!Cardinality, LP!Cardinality, L!IsFiniteSet, LP!IsFiniteSet
<1>4. QED
  BY <1>2, <1>3 DEF L!Admissible, LP!Admissible, L!AddressFree, LP!AddressFree, L!IpFree,
     LP!IpFree, L!SubnetFree, LP!SubnetFree, L!CapFree, LP!CapFree

\* retentionCutoff() is the same.
LEMMA SameCutoff == ASSUME NEW now PROVE L!RetentionCutoff(now) = LP!RetentionCutoff(now)
  BY DEF L!RetentionCutoff, LP!RetentionCutoff, L!LaterOf, LP!LaterOf

\* A step of one ledger is a step of the other.
LEMMA SameNext == [L!Next]_ledgerVars => [LP!Next]_LP!ledgerVars
<1> SUFFICES ASSUME [L!Next]_ledgerVars PROVE [LP!Next]_LP!ledgerVars
  OBVIOUS
<1>1. \A c, q, now : L!Reserve(c, q, now) => LP!Reserve(c, q, now)
  BY SameLimits, SameCutoff DEF L!Reserve, LP!Reserve, L!LaterOf, LP!LaterOf
<1>2. \A now : L!Refuse(now) => LP!Refuse(now)
  BY SameLimits, SameCutoff, SameRows DEF L!Refuse, LP!Refuse, L!LaterOf, LP!LaterOf
<1>3. \A c, status : L!Finalize(c, status) => LP!Finalize(c, status)
  BY SameRows DEF L!Finalize, LP!Finalize, L!SetStatus, LP!SetStatus
<1>4. \A lost : L!Abandon(lost) => LP!Abandon(lost)
  BY DEF L!Abandon, LP!Abandon
<1>5. (L!Purge => LP!Purge) /\ (L!Tick => LP!Tick)
  BY SameRows DEF L!Purge, LP!Purge, L!Tick, LP!Tick
<1>6. CASE UNCHANGED ledgerVars
  BY <1>6 DEF ledgerVars, LP!ledgerVars
<1>7. CASE L!Next
  BY <1>1, <1>2, <1>3, <1>4, <1>5, <1>7, SameRows DEF L!Next, LP!Next
<1>8. QED
  BY <1>6, <1>7

LedgerPart == L!TypeOK /\ LeaseInv /\ CutoffInv

\* The invariant of LedgerProofs, in the words of this module.
LEMMA SameInv == (LedgerPart <=> LP!LedgerInv) /\ (LedgerPart' <=> LP!LedgerInv')
<1>1. L!TypeOK <=> LP!TypeOK
  BY SameRows DEF L!TypeOK, LP!TypeOK
<1>2. L!TypeOK' <=> LP!TypeOK'
  BY SameRows DEF L!TypeOK, LP!TypeOK
<1>3. (LeaseInv <=> LP!OpenInv) /\ (LeaseInv' <=> LP!OpenInv')
  BY DEF LeaseInv, LP!OpenInv
<1>4. (CutoffInv <=> LP!CutInv) /\ (CutoffInv' <=> LP!CutInv')
  BY DEF CutoffInv, LP!CutInv, L!RetentionCutoff, LP!RetentionCutoff, L!LaterOf, LP!LaterOf
<1>5. QED
  BY <1>1, <1>2, <1>3, <1>4 DEF LedgerPart, LP!LedgerInv

\* The invariant of the ledger is kept by every step of the ledger.
LEMMA LedgerPartKept == LedgerPart /\ [L!Next]_ledgerVars => LedgerPart'
  BY SameInv, SameNext, LP!LedgerStep, InstanceAssumptions

\* It holds of the empty ledger.
LEMMA LedgerPartInit == L!Init => LedgerPart
<1>1. L!Init => LP!Init
  BY DEF L!Init, LP!Init
<1>2. QED
  BY <1>1, SameInv, LP!LedgerInit, InstanceAssumptions

\* A cutoff lies a grace below every window (CutoffInt of LedgerProofs).
LEMMA CutoffBounds ==
  ASSUME NEW now \in Int
  PROVE  /\ L!RetentionCutoff(now) \in Int
         /\ L!RetentionCutoff(now) <= now - Cooldown - Grace
         /\ L!RetentionCutoff(now) <= now - PendingLeaseSeconds - Grace
  BY Numbers, LeaseIsNat DEF L!RetentionCutoff, L!LaterOf

-----------------------------------------------------------------------------
(* The pipeline, one part of its invariant after the other.                 *)

\* A step that leaves the queue alone leaves everybody in their place.
LEMMA LineStays ==
  ASSUME UNCHANGED walletVars
  PROVE  /\ LineTyped => LineTyped'
         /\ QueueInv => QueueInv'
         /\ \A x : InLine(x)' <=> InLine(x)
         /\ \A x : W!Arrived(x)' <=> W!Arrived(x)
  BY DEF walletVars, LineTyped, QueueInv, InLine, W!Arrived, W!Depth

\* What a step may do to the line.
LEMMA LineSteps ==
  ASSUME [Next]_vars
  PROVE  \/ UNCHANGED walletVars
         \/ \E t \in Tasks : W!Arrive(t) \/ W!Take(t) \/ W!Release(t)
         \/ arrivals' = <<>> /\ served' = 0 /\ holder' = Nobody
<1>1. ASSUME NEW c \in Claims, ClaimStep(c)
      PROVE UNCHANGED walletVars \/ W!Arrive(c) \/ W!Take(c) \/ W!Release(c)
  BY <1>1 DEF ClaimStep, Arrive, GateRefuses, Reserve, Blocked, ReserveLost, Enqueue, Take, Submit,
     OpEnds, Finish, Deadline, Conclude
<1>2. ASSUME NEW s \in Steps, EnqueueStep(s) \/ Take(s) \/ FinishStep(s)
      PROVE W!Arrive(s) \/ W!Take(s) \/ W!Release(s)
  BY <1>2 DEF EnqueueStep, Take, FinishStep
<1>3. Crash \/ ExitEmptied \/ ExitAtBound => arrivals' = <<>> /\ served' = 0 /\ holder' = Nobody
  BY DEF Crash, ExitEmptied, ExitAtBound, Die
<1>4. Sigterm \/ Restart \/ Purge \/ Tick \/ UNCHANGED vars => UNCHANGED walletVars
  BY DEF Sigterm, Restart, Purge, Tick, vars
<1>5. QED
  BY <1>1, <1>2, <1>3, <1>4 DEF Next, Tasks

\* Every step keeps the line in order.
LEMMA QueueStep == LineTyped /\ QueueInv /\ [Next]_vars => LineTyped' /\ QueueInv'
  BY LineSteps, LineStays, LineJoins, LineMoves, LineLeaves, LineEmptied

\* Whoever was admitted and is not served yet makes the queue deep.
LEMMA InLineIsDeep ==
  ASSUME LineTyped, NEW x, InLine(x)
  PROVE  W!Depth > 0
  BY DEF LineTyped, InLine, W!Depth

\* The holder of the wallet is in the line.
LEMMA HolderIsInLine ==
  ASSUME LineTyped, QueueInv, holder # Nobody
  PROVE  InLine(holder)
<1>1. served + 1 \in DOMAIN arrivals /\ served + 1 > served /\ arrivals[served + 1] = holder
  BY DEF LineTyped, QueueInv
<1>2. QED
  BY <1>1 DEF InLine

\* Whoever is in the line was admitted.
LEMMA InLineHasArrived == ASSUME NEW x, InLine(x) PROVE W!Arrived(x)
  BY DEF InLine, W!Arrived

\* The end of a process, whatever the reason.
Ended(how) ==
    /\ stage' = [c \in Claims |-> IF c \in Handled THEN "done" ELSE stage[c]]
    /\ reply' = [c \in Claims |-> IF c \in Handled THEN how ELSE reply[c]]
    /\ UNCHANGED <<req, stamp, began, op, told, clock>>
    /\ arrivals' = <<>> /\ served' = 0 /\ holder' = Nobody
    /\ \/ open # {} /\ L!Abandon(open)
       \/ open = {} /\ UNCHANGED ledgerVars
    /\ exits' = exits + 1 /\ exits < MaxExits
    /\ up' = FALSE /\ draining' = draining

\* Every exit ends the process in the same way.
LEMMA DieEnds == ASSUME NEW how, Die(how) PROVE Ended(how)
  BY DEF Die, Ended, L!Abandon, ledgerVars

\* Nobody is told or waiting when the local ledger lets a drained process go:
\* the only handlers it takes along stand in front of the reservation.
LEMMA DrainedAreInFront ==
  ASSUME LineTyped, HandlerInv, ExitEmptied, ContinuationsRan, NEW c \in Handled
  PROVE  stage[c] = "gates"
<1>1. W!Depth = 0 /\ c \in Claims /\ HandlerAt(c)
  BY DEF ExitEmptied, Handled, HandlerInv
<1>2. ~InLine(c)
  BY <1>1, InLineIsDeep DEF LineTyped, W!Depth
<1>3. QED
  BY <1>1, <1>2 DEF ContinuationsRan, Handled, HandlerAt

\* Every step keeps the handlers true to the queue, the wallet and the replies.
LEMMA HandlerStep ==
  ASSUME TypeOK, QueueInv, HandlerInv, [Next]_vars
  PROVE  HandlerInv'
<1> SUFFICES ASSUME NEW d \in Claims PROVE HandlerAt(d)'
  BY DEF HandlerInv
<1>0. HandlerAt(d) /\ LineTyped /\ clock \in Nat /\ stamp[d] \in Nat
  BY PipelineTypes DEF HandlerInv, TypeOK, L!TypeOK
<1>a. \A x : InLine(x) => W!Arrived(x)
  BY InLineHasArrived
<1>1. ASSUME NEW c \in Claims, NEW q \in L!Requests, Arrive(c, q) PROVE HandlerAt(d)'
  <2>1. UNCHANGED walletVars /\ clock' = clock /\ op' = op /\ told' = told
        /\ req' = [req EXCEPT ![c] = q] /\ stamp' = [stamp EXCEPT ![c] = clock]
        /\ stage[c] = "new"
        /\ \/ stage' = [stage EXCEPT ![c] = "done"] /\ reply' = [reply EXCEPT ![c] = "refused"]
           \/ stage' = [stage EXCEPT ![c] = "gates"] /\ reply' = reply
    BY <1>1 DEF Arrive, Answer, ledgerVars
  <2>2. QED
    BY <1>0, <1>a, <2>1, LineStays DEF HandlerAt, TypeOK, walletVars
<1>2. ASSUME NEW c \in Claims,
             GateRefuses(c) \/ Blocked(c) \/ ReserveLost(c)
      PROVE HandlerAt(d)'
  <2>1. UNCHANGED walletVars /\ UNCHANGED <<clock, op, told, req, stamp>>
        /\ stage[c] \in {"gates", "reserved"}
        /\ stage' = [stage EXCEPT ![c] = "done"]
        /\ \E what \in {"refused", "blocked", "error"} : reply' = [reply EXCEPT ![c] = what]
    BY <1>2 DEF GateRefuses, Blocked, ReserveLost, Answer, ledgerVars, L!Refuse, L!Abandon
  <2>2. QED
    BY <1>0, <1>a, <2>1, LineStays DEF HandlerAt, TypeOK, walletVars
<1>3. ASSUME NEW c \in Claims, Reserve(c) PROVE HandlerAt(d)'
  <2>1. UNCHANGED walletVars /\ UNCHANGED <<clock, op, told, req, stamp, reply>>
        /\ stage[c] = "gates"
        /\ stage' = [stage EXCEPT ![c] = "reserved"]
    BY <1>3 DEF Reserve, L!Reserve
  <2>2. QED
    BY <1>0, <1>a, <2>1, LineStays DEF HandlerAt, TypeOK, walletVars
<1>4. ASSUME NEW c \in Claims, Enqueue(c) PROVE HandlerAt(d)'
  <2>1. UNCHANGED <<clock, op, req, stamp, reply>>
        /\ stage[c] = "reserved"
        /\ stage' = [stage EXCEPT ![c] = "queued"]
    BY <1>4 DEF Enqueue, ledgerVars
  <2>2. CASE W!Arrive(c) /\ told' = told
    <3>1. (InLine(d)' <=> InLine(d) \/ d = c) /\ (W!Arrived(d)' <=> W!Arrived(d) \/ d = c)
      BY <1>0, <2>2, LineJoins DEF Tasks
    <3>2. holder' = holder
      BY <2>2 DEF W!Arrive
    <3>3. QED
      BY <1>0, <1>a, <2>1, <2>2, <3>1, <3>2 DEF HandlerAt, TypeOK
  <2>3. CASE UNCHANGED walletVars /\ told' = [told EXCEPT ![c] = "busy"]
    BY <1>0, <1>a, <2>1, <2>3, LineStays DEF HandlerAt, TypeOK, walletVars
  <2>4. QED
    BY <1>4, <2>2, <2>3 DEF Enqueue
<1>5. ASSUME NEW t \in Tasks, Take(t) PROVE HandlerAt(d)'
  <2>1. UNCHANGED <<clock, op, req, stamp, reply, stage, told>> /\ holder = Nobody /\ holder' = t
    BY <1>5 DEF Take, W!Take, ledgerVars, claimVars
  <2>2. (InLine(d)' <=> InLine(d)) /\ (W!Arrived(d)' <=> W!Arrived(d)) /\ d # Nobody
    BY <1>0, <1>5, LineMoves, TasksApart DEF Take, Tasks
  <2>3. QED
    BY <1>0, <1>a, <2>1, <2>2 DEF HandlerAt
<1>6. ASSUME NEW s \in Steps, EnqueueStep(s) \/ FinishStep(s) PROVE HandlerAt(d)'
  <2>1. UNCHANGED <<clock, op, req, stamp, reply, stage, told>> /\ (holder' = holder \/ (holder = s /\ holder' = Nobody))
    BY <1>6 DEF EnqueueStep, FinishStep, W!Arrive, W!Release, ledgerVars, claimVars
  <2>2. (InLine(d)' <=> InLine(d)) /\ (W!Arrived(d)' <=> W!Arrived(d)) /\ d # s
    BY <1>0, <1>6, LineJoins, LineLeaves, TasksApart DEF EnqueueStep, FinishStep, Tasks
  <2>3. QED
    BY <1>0, <1>a, <2>1, <2>2 DEF HandlerAt
<1>7. ASSUME NEW c \in Claims, Submit(c) \/ OpEnds(c) PROVE HandlerAt(d)'
  <2>1. UNCHANGED walletVars /\ UNCHANGED <<clock, req, stamp, reply, stage, told>>
        /\ (holder = c \/ op[c] # "none")
        /\ \E end \in {"inflight", "paid", "dead"} : op' = [op EXCEPT ![c] = end]
    BY <1>7 DEF Submit, OpEnds, ledgerVars, claimVars
  <2>2. holder = c => InLine(c)
    BY <1>0, HolderIsInLine, TasksApart DEF Tasks
  <2>3. QED
    BY <1>0, <1>a, <2>1, <2>2, LineStays DEF HandlerAt, TypeOK, walletVars
<1>8. ASSUME NEW c \in Claims, Finish(c) PROVE HandlerAt(d)'
  <2>1. UNCHANGED <<clock, op, req, stamp, reply, stage>> /\ holder = c /\ holder' = Nobody
        /\ \E outcome \in Outcomes : told' = [told EXCEPT ![c] = IF @ = "none" THEN outcome ELSE @]
    BY <1>8 DEF Finish, W!Release, ledgerVars, SenderReports, Outcomes
  <2>2. (InLine(d)' <=> InLine(d) /\ d # c) /\ (W!Arrived(d)' <=> W!Arrived(d)) /\ InLine(c)
    BY <1>0, <1>8, LineLeaves DEF Finish, Tasks
  <2>3. QED
    BY <1>0, <1>a, <2>1, <2>2 DEF HandlerAt, TypeOK, Outcomes
<1>9. ASSUME NEW c \in Claims, Deadline(c) PROVE HandlerAt(d)'
  <2>1. UNCHANGED walletVars /\ UNCHANGED <<clock, op, req, stamp, reply, stage>> /\ holder = c
        /\ told' = [told EXCEPT ![c] = "deadline"] /\ told[c] = "none"
    BY <1>9 DEF Deadline, ledgerVars
  <2>2. InLine(c)
    BY <1>0, <2>1, HolderIsInLine, TasksApart DEF Tasks
  <2>3. QED
    BY <1>0, <1>a, <2>1, <2>2, LineStays DEF HandlerAt, TypeOK, walletVars
<1>10. ASSUME NEW c \in Claims, Conclude(c) PROVE HandlerAt(d)'
  <2>1. UNCHANGED walletVars /\ UNCHANGED <<clock, op, req, stamp, told>>
        /\ stage[c] = "queued" /\ told[c] # "none"
        /\ stage' = [stage EXCEPT ![c] = "done"]
        /\ reply' = [reply EXCEPT ![c] = ReplyFor(told[c])]
    BY <1>10 DEF Conclude, Answer, L!Finalize, L!Abandon
  <2>2. ReplyFor(told[c]) \in {"paid", "unknown", "failed", "busy"}
    BY <2>1 DEF ReplyFor, TypeOK, Told, Outcomes
  <2>3. QED
    BY <1>0, <1>a, <2>1, <2>2, LineStays DEF HandlerAt, TypeOK, walletVars
<1>11. ASSUME Crash \/ ExitEmptied \/ ExitAtBound PROVE HandlerAt(d)'
  <2>1. PICK how \in Replies : Ended(how) /\ (how = "drained" => ExitEmptied /\ ContinuationsRan)
                               /\ how \notin {"blocked", "refused"}
    BY <1>11, DieEnds DEF Crash, ExitEmptied, ExitAtBound, Replies
  <2>2. ~InLine(d)' /\ ~W!Arrived(d)'
    BY <2>1, LineEmptied DEF Ended
  <2>3. how = "drained" /\ d \in Handled => stage[d] = "gates"
    BY <1>0, <2>1, DrainedAreInFront
  <2>4. QED
    BY <1>0, <2>1, <2>2, <2>3 DEF HandlerAt, Ended, Handled, TypeOK
<1>12. ASSUME Sigterm \/ Restart \/ Purge \/ Tick \/ UNCHANGED vars PROVE HandlerAt(d)'
  <2>1. UNCHANGED walletVars /\ UNCHANGED <<op, req, stamp, reply, stage, told>> /\ clock' \in Nat /\ clock' >= clock
    BY <1>0, <1>12 DEF Sigterm, Restart, Purge, Tick, vars, ledgerVars, claimVars, L!Purge
  <2>2. QED
    BY <1>0, <1>a, <2>1, LineStays DEF HandlerAt, walletVars
<1>13. QED
  BY <1>1, <1>2, <1>3, <1>4, <1>5, <1>6, <1>7, <1>8, <1>9, <1>10, <1>11, <1>12
  DEF Next, ClaimStep, Tasks

\* Finalising a row changes its status and nothing else.
LEMMA StatusKeeps ==
  ASSUME L!TypeOK, NEW c \in Claims, NEW status \in L!Statuses, L!SetStatus(c, status)
  PROVE  /\ \A d \in Claims : d # c => row'[d] = row[d]
         /\ row[c] = NoRow => row'[c] = NoRow
         /\ row[c] # NoRow => /\ row'[c] # NoRow
                              /\ row'[c].req = row[c].req
                              /\ row'[c].at = row[c].at
                              /\ row'[c].status = status
  BY AbsentAssumption DEF L!TypeOK, L!SetStatus, L!Stored, L!Rows

\* A later purge is handed a cutoff at least as new.
LEMMA CutGrows ==
  ASSUME cut \in Int, NEW m \in Int, cut' = L!LaterOf(cut, m)
  PROVE  cut <= cut'
  BY DEF L!LaterOf

\* A finalised row is sent or failed.
LEMMA StatusForIsFinal == \A what : StatusFor(what) \in {"sent", "failed"}
  BY DEF StatusFor

\* What conclude() does to the rows.
LEMMA ConcludeRows ==
  ASSUME L!TypeOK, NEW c \in Claims, Conclude(c)
  PROVE  /\ \A d \in Claims : /\ d # c => row'[d] = row[d]
                              /\ row[d] = NoRow <=> row'[d] = NoRow
                              /\ row[d] # NoRow => row'[d].req = row[d].req /\ row'[d].at = row[d].at
         /\ row' = row \/ (row[c] # NoRow => row'[c].status = StatusFor(told[c]))
         /\ open' = open \ {c}
         /\ cut' = cut /\ clock' = clock
<1>1. CASE L!Finalize(c, StatusFor(told[c]))
  <2>1. L!SetStatus(c, StatusFor(told[c])) /\ open' = open \ {c} /\ UNCHANGED <<clock, cut>>
    BY <1>1 DEF L!Finalize
  <2>2. StatusFor(told[c]) \in L!Statuses
    BY StatusForIsFinal DEF L!Statuses
  <2>3. QED
    BY <2>1, <2>2, StatusKeeps
<1>2. CASE L!Abandon({c})
  BY <1>2 DEF L!Abandon
<1>3. QED
  BY <1>1, <1>2 DEF Conclude

\* Every step keeps the rows true to their handlers.
LEMMA RowStep ==
  ASSUME TypeOK, QueueInv, HandlerInv, RowInv, [Next]_vars
  PROVE  RowInv'
<1> SUFFICES ASSUME NEW d \in Claims PROVE RowAt(d)'
  BY DEF RowInv
<1>0. /\ HandlerAt(d) /\ RowAt(d) /\ LineTyped /\ L!TypeOK
      /\ cut \in Int /\ clock \in Nat /\ open \subseteq Claims /\ row[d] \in L!Rows \cup {NoRow}
  BY PipelineTypes DEF HandlerInv, RowInv, TypeOK, L!TypeOK
\* Most steps leave the ledger alone and book nothing new.
<1> DEFINE Quiet == /\ UNCHANGED ledgerVars /\ (Booked(d)' => Booked(d))
                    /\ stamp'[d] = stamp[d] /\ req'[d] = req[d]
                    /\ (stage'[d] = stage[d] \/ (stage[d] = "reserved" /\ stage'[d] = "queued"))
<1>q. Quiet => RowAt(d)'
  BY <1>0 DEF RowAt, ledgerVars
<1> HIDE DEF Quiet
<1>1. ASSUME NEW c \in Claims, NEW q \in L!Requests, Arrive(c, q) PROVE RowAt(d)'
  <2>1. UNCHANGED walletVars /\ UNCHANGED ledgerVars /\ op' = op
        /\ req' = [req EXCEPT ![c] = q] /\ stamp' = [stamp EXCEPT ![c] = clock]
        /\ stage[c] = "new"
        /\ \E s \in {"done", "gates"} : stage' = [stage EXCEPT ![c] = s]
    BY <1>1 DEF Arrive, Answer
  <2>2. Booked(d)' <=> Booked(d)
    BY <2>1, LineStays DEF Booked, ledgerVars
  <2>3. d = c => ~Booked(d) /\ row[d] = NoRow
    BY <1>0, <2>1, InLineHasArrived DEF Booked, HandlerAt, RowAt
  <2>4. QED
    BY <1>0, <2>1, <2>2, <2>3 DEF RowAt, TypeOK, ledgerVars
<1>2. ASSUME NEW c \in Claims, GateRefuses(c) PROVE RowAt(d)'
  <2>1. UNCHANGED walletVars /\ UNCHANGED ledgerVars /\ op' = op /\ req' = req /\ stamp' = stamp
        /\ stage[c] = "gates" /\ stage' = [stage EXCEPT ![c] = "done"]
    BY <1>2 DEF GateRefuses, Answer
  <2>2. Booked(d)' <=> Booked(d)
    BY <2>1, LineStays DEF Booked, ledgerVars
  <2>3. QED
    BY <1>0, <2>1, <2>2 DEF RowAt, TypeOK, ledgerVars
<1>3. ASSUME NEW c \in Claims, Reserve(c) PROVE RowAt(d)'
  <2>1. UNCHANGED walletVars /\ UNCHANGED <<op, req, stamp, clock>>
        /\ stage[c] = "gates" /\ stage' = [stage EXCEPT ![c] = "reserved"]
        /\ row' = [row EXCEPT ![c] = [req |-> req[c], status |-> "pending", at |-> stamp[c]]]
        /\ open' = open \cup {c}
        /\ cut' = L!LaterOf(cut, L!RetentionCutoff(stamp[c]))
    BY <1>3 DEF Reserve, L!Reserve
  <2>2. [req |-> req[c], status |-> "pending", at |-> stamp[c]] # NoRow
    <3>1. req[c] \in L!Requests /\ stamp[c] \in Nat
      BY <2>1 DEF HandlerInv, HandlerAt, TypeOK
    <3>2. QED
      BY <3>1, AbsentAssumption DEF L!Rows, L!Statuses
  <2>3. cut <= cut' /\ cut' \in Int
    <3>1. stamp[c] \in Int
      BY DEF TypeOK
    <3>2. QED
      BY <1>0, <2>1, <3>1, CutoffBounds, CutGrows DEF L!LaterOf
  <2>4. d # c => (Booked(d)' <=> Booked(d))
    BY <2>1, LineStays DEF Booked
  <2>5. stamp[d] \in Nat
    BY DEF TypeOK
  <2>6. QED
    BY <1>0, <2>1, <2>2, <2>3, <2>4, <2>5 DEF RowAt, TypeOK, L!TypeOK
<1>4. ASSUME NEW c \in Claims, Blocked(c) PROVE RowAt(d)'
  <2>1. UNCHANGED walletVars /\ UNCHANGED <<op, req, stamp, clock, row, open>>
        /\ stage[c] = "gates" /\ stage' = [stage EXCEPT ![c] = "done"]
        /\ cut' = L!LaterOf(cut, L!RetentionCutoff(stamp[c]))
    BY <1>4 DEF Blocked, L!Refuse, Answer
  <2>2. cut <= cut' /\ cut' \in Int
    <3>1. stamp[c] \in Int
      BY DEF TypeOK
    <3>2. QED
      BY <1>0, <2>1, <3>1, CutoffBounds, CutGrows DEF L!LaterOf
  <2>3. Booked(d)' <=> Booked(d)
    BY <2>1, LineStays DEF Booked
  <2>4. stamp[d] \in Nat
    BY DEF TypeOK
  <2>5. QED
    BY <1>0, <2>1, <2>2, <2>3, <2>4 DEF RowAt, TypeOK
<1>5. ASSUME NEW c \in Claims, ReserveLost(c) PROVE RowAt(d)'
  <2>1. UNCHANGED walletVars /\ UNCHANGED <<op, req, stamp, clock, row, cut>>
        /\ stage[c] = "reserved" /\ stage' = [stage EXCEPT ![c] = "done"] /\ open' = open \ {c}
    BY <1>5 DEF ReserveLost, L!Abandon, Answer
  <2>2. Booked(d)' => Booked(d)
    BY <2>1, LineStays DEF Booked
  <2>3. QED
    BY <1>0, <2>1, <2>2 DEF RowAt, TypeOK
<1>6. ASSUME NEW c \in Claims, Enqueue(c) PROVE RowAt(d)'
  <2>1. UNCHANGED ledgerVars /\ UNCHANGED <<op, req, stamp>> /\ stage[c] = "reserved"
        /\ stage' = [stage EXCEPT ![c] = "queued"]
    BY <1>6 DEF Enqueue
  <2>2. InLine(d)' => InLine(d) \/ d = c
    BY <1>0, <1>6, LineJoins, LineStays DEF Enqueue, Tasks
  <2>3. c \in open
    BY <2>1 DEF RowInv, RowAt
  <2>4. Quiet
    BY <2>1, <2>2, <2>3 DEF Quiet, Booked, ledgerVars, TypeOK
  <2>5. QED
    BY <1>q, <2>4
<1>7. ASSUME NEW t \in Tasks, Take(t) PROVE RowAt(d)'
  <2>1. UNCHANGED ledgerVars /\ UNCHANGED <<op, req, stamp, stage>> /\ W!Take(t)
    BY <1>7 DEF Take, claimVars
  <2>2. Quiet
    BY <1>0, <2>1, LineMoves DEF Quiet, Booked, ledgerVars
  <2>3. QED
    BY <1>q, <2>2
<1>8. ASSUME NEW s \in Steps, EnqueueStep(s) \/ FinishStep(s) PROVE RowAt(d)'
  <2>1. UNCHANGED ledgerVars /\ UNCHANGED <<op, req, stamp, stage>>
    BY <1>8 DEF EnqueueStep, FinishStep, claimVars
  <2>2. InLine(d)' => InLine(d)
    BY <1>0, <1>8, LineJoins, LineLeaves, TasksApart DEF EnqueueStep, FinishStep, Tasks
  <2>3. Quiet
    BY <2>1, <2>2 DEF Quiet, Booked, ledgerVars
  <2>4. QED
    BY <1>q, <2>3
<1>9. ASSUME NEW c \in Claims, Submit(c) \/ OpEnds(c) PROVE RowAt(d)'
  <2>1. UNCHANGED ledgerVars /\ UNCHANGED walletVars /\ UNCHANGED <<req, stamp, stage>>
        /\ (holder = c \/ op[c] # "none")
        /\ \E end \in {"inflight", "paid", "dead"} : op' = [op EXCEPT ![c] = end]
    BY <1>9 DEF Submit, OpEnds, claimVars
  <2>2. holder = c => InLine(c)
    BY <1>0, HolderIsInLine, TasksApart DEF Tasks
  <2>3. Quiet
    BY <2>1, <2>2, LineStays DEF Quiet, Booked, ledgerVars, TypeOK
  <2>4. QED
    BY <1>q, <2>3
<1>10. ASSUME NEW c \in Claims, Finish(c) \/ Deadline(c) PROVE RowAt(d)'
  <2>1. UNCHANGED ledgerVars /\ UNCHANGED <<op, req, stamp, stage>>
    BY <1>10 DEF Finish, Deadline
  <2>2. InLine(d)' => InLine(d)
    BY <1>0, <1>10, LineLeaves, LineStays DEF Finish, Deadline, Tasks
  <2>3. Quiet
    BY <2>1, <2>2 DEF Quiet, Booked, ledgerVars
  <2>4. QED
    BY <1>q, <2>3
<1>11. ASSUME NEW c \in Claims, Conclude(c) PROVE RowAt(d)'
  <2>1. UNCHANGED walletVars /\ UNCHANGED <<op, req, stamp>>
        /\ stage[c] = "queued" /\ stage' = [stage EXCEPT ![c] = "done"]
    BY <1>11 DEF Conclude, Answer
  <2>2. /\ row[d] = NoRow <=> row'[d] = NoRow
        /\ row[d] # NoRow => row'[d].req = row[d].req /\ row'[d].at = row[d].at
        /\ open' = open \ {c} /\ cut' = cut
    BY <1>0, <1>11, ConcludeRows
  <2>3. Booked(d)' => Booked(d)
    BY <2>1, <2>2, LineStays DEF Booked
  <2>4. QED
    BY <1>0, <2>1, <2>2, <2>3 DEF RowAt, TypeOK
<1>12. ASSUME Crash \/ ExitEmptied \/ ExitAtBound PROVE RowAt(d)'
  <2>1. PICK how : Ended(how)
    BY <1>12, DieEnds DEF Crash, ExitEmptied, ExitAtBound
  <2>2. row' = row /\ cut' = cut /\ open' = {}
    BY <2>1 DEF Ended, L!Abandon, ledgerVars
  <2>3. ~InLine(d)'
    BY <2>1, LineEmptied DEF Ended
  <2>4. Booked(d)' => Booked(d)
    BY <2>1, <2>2, <2>3 DEF Booked, Ended
  <2>5. QED
    BY <1>0, <2>1, <2>2, <2>4 DEF RowAt, Ended, Handled
<1>13. CASE Purge
  <2>1. UNCHANGED walletVars /\ UNCHANGED <<op, req, stamp, stage, open, cut>>
        /\ row'[d] = IF d \in L!Stored /\ row[d].at < cut THEN NoRow ELSE row[d]
    BY <1>13 DEF Purge, L!Purge, claimVars
  <2>2. Booked(d)' <=> Booked(d)
    BY <2>1, LineStays DEF Booked
  <2>3. QED
    BY <1>0, <2>1, <2>2 DEF RowAt
<1>14. ASSUME Sigterm \/ Restart \/ Tick \/ UNCHANGED vars PROVE RowAt(d)'
  <2>1. UNCHANGED walletVars /\ UNCHANGED <<op, req, stamp, stage, open, cut, row>>
    BY <1>14 DEF Sigterm, Restart, Tick, vars, ledgerVars, claimVars
  <2>2. Booked(d)' <=> Booked(d)
    BY <2>1, LineStays DEF Booked
  <2>3. QED
    BY <1>0, <2>1, <2>2 DEF RowAt
<1>15. QED
  BY <1>1, <1>2, <1>3, <1>4, <1>5, <1>6, <1>7, <1>8, <1>9, <1>10, <1>11, <1>12, <1>13, <1>14
  DEF Next, ClaimStep, Tasks

\* A residence for each place in the line.
LEMMA Residences ==
  ASSUME NEW k \in Nat
  PROVE  /\ k * Residence \in Nat
         /\ (k + 1) * Residence = k * Residence + Residence
         /\ k <= MaxPending => k * Residence <= MaxPending * Residence
<1>1. k * Residence \in Nat /\ (k + 1) * Residence = k * Residence + Residence
  BY Numbers
<1>2. ASSUME k <= MaxPending PROVE k * Residence <= MaxPending * Residence
  <2>1. PICK m \in Nat : MaxPending = k + m
    <3>1. MaxPending - k \in Nat /\ MaxPending = k + (MaxPending - k)
      BY <1>2, Numbers
    <3>2. QED
      BY <3>1
  <2>2. MaxPending * Residence = k * Residence + m * Residence /\ m * Residence \in Nat
    BY <2>1, Numbers
  <2>3. QED
    BY <1>1, <2>2
<1>3. QED
  BY <1>1, <1>2

\* The parts of PunctualInv.
FrontAt(c) == stage[c] \in {"gates", "reserved"} => clock <= stamp[c] + MaxStale
HolderAt == holder # Nobody => began[holder] <= clock /\ clock <= began[holder] + Residence
InTimeAt(i, c) == i > served /\ arrivals[i] = c /\ stage[c] = "queued" => LatestEnd(i) <= LastEnd(c)

\* PunctualInv by its parts, here and in the next state.
LEMMA PunctualParts ==
  PunctualInv <=> /\ \A c \in Claims : FrontAt(c)
                  /\ HolderAt
                  /\ \A i \in DOMAIN arrivals, c \in Claims : InTimeAt(i, c)
  BY DEF PunctualInv, FrontAt, HolderAt, InTimeAt

\* The same in the next state.
LEMMA PunctualPartsNext ==
  PunctualInv' <=> /\ \A c \in Claims : FrontAt(c)'
                   /\ HolderAt'
                   /\ \A i \in DOMAIN arrivals', c \in Claims : InTimeAt(i, c)'
  BY DEF PunctualInv, FrontAt, HolderAt, InTimeAt

\* A step that leaves the clock and the line alone, and takes no handler
\* into the line or in front of it.
LEMMA StillPunctual ==
  ASSUME PunctualInv, UNCHANGED <<clock, arrivals, served, holder, began, stamp>>,
         \A c \in Claims : stage'[c] \in {"gates", "reserved", "queued"} =>
            \/ stage'[c] = stage[c]
            \/ stage[c] = "gates" /\ stage'[c] = "reserved"
  PROVE  PunctualInv'
  BY DEF PunctualInv, LatestEnd, LastEnd, Since

\* Every step keeps the handlers within the time of their place.
LEMMA PunctualStep ==
  ASSUME TypeOK, QueueInv, HandlerInv, PunctualInv, [Next]_vars
  PROVE  PunctualInv'
<1>0. /\ LineTyped /\ clock \in Nat /\ served \in Nat /\ Len(arrivals) \in Nat
      /\ DOMAIN arrivals = 1 .. Len(arrivals)
      /\ \A c \in Claims : stamp[c] \in Nat
      /\ \A t \in Tasks : began[t] \in Nat
      /\ holder # Nobody => holder \in Tasks
  BY PipelineTypes DEF TypeOK, L!TypeOK, LineTyped, Tasks
<1>1. ASSUME NEW c \in Claims, NEW q \in L!Requests, Arrive(c, q) PROVE PunctualInv'
  <2>1. UNCHANGED <<clock, arrivals, served, holder, began>> /\ stage[c] = "new"
        /\ stamp' = [stamp EXCEPT ![c] = clock]
        /\ \E s \in {"done", "gates"} : stage' = [stage EXCEPT ![c] = s]
    BY <1>1 DEF Arrive, Answer, ledgerVars, walletVars
  <2>2. ASSUME NEW d \in Claims PROVE FrontAt(d)'
    BY <1>0, <2>1, Numbers DEF FrontAt, PunctualInv, TypeOK
  <2>3. HolderAt'
    BY <2>1 DEF HolderAt, PunctualInv
  <2>4. ASSUME NEW i \in DOMAIN arrivals', NEW d \in Claims PROVE InTimeAt(i, d)'
    BY <2>1, PunctualParts DEF InTimeAt, LatestEnd, LastEnd, Since, TypeOK
  <2>5. QED
    BY <2>2, <2>3, <2>4, PunctualPartsNext
<1>2. ASSUME NEW c \in Claims,
             \/ GateRefuses(c) \/ Blocked(c) \/ ReserveLost(c) \/ Reserve(c) \/ Submit(c)
             \/ OpEnds(c) \/ Deadline(c) \/ Conclude(c)
      PROVE PunctualInv'
  <2>1. UNCHANGED <<clock, arrivals, served, holder, began, stamp>>
        /\ \/ stage' = stage
           \/ stage' = [stage EXCEPT ![c] = "done"]
           \/ stage[c] = "gates" /\ stage' = [stage EXCEPT ![c] = "reserved"]
    BY <1>2 DEF GateRefuses, Blocked, ReserveLost, Reserve, Submit, OpEnds, Deadline, Conclude, Answer,
       ledgerVars, walletVars, claimVars, L!Reserve, L!Refuse, L!Abandon, L!Finalize
  <2>2. QED
    BY <2>1, StillPunctual DEF TypeOK
<1>3. ASSUME NEW c \in Claims, Enqueue(c) PROVE PunctualInv'
  <2>1. UNCHANGED <<clock, served, holder, began, stamp>>
        /\ stage[c] = "reserved" /\ stage' = [stage EXCEPT ![c] = "queued"]
    BY <1>3 DEF Enqueue, ledgerVars, walletVars, W!Arrive
  <2>2. ASSUME NEW d \in Claims PROVE FrontAt(d)'
    BY <2>1 DEF FrontAt, PunctualInv, TypeOK
  <2>3. HolderAt'
    BY <2>1 DEF HolderAt, PunctualInv
  <2>4. ~W!Arrived(c)
    BY <2>1 DEF HandlerInv, HandlerAt
  <2>5. CASE UNCHANGED walletVars
    <3>1. ASSUME NEW i \in DOMAIN arrivals', NEW d \in Claims PROVE InTimeAt(i, d)'
      <4>1. arrivals' = arrivals /\ arrivals[i] # c
        BY <2>4, <2>5 DEF walletVars, W!Arrived
      <4>2. QED
        BY <2>1, <4>1, PunctualParts DEF InTimeAt, LatestEnd, LastEnd, Since, TypeOK
    <3>2. QED
      BY <2>2, <2>3, <3>1, PunctualPartsNext
  <2>6. CASE W!Arrive(c)
    <3>0. arrivals' = Append(arrivals, c) /\ Len(arrivals) - served < MaxPending
      BY <2>6 DEF W!Arrive, W!Depth
    <3>1. /\ DOMAIN arrivals' = 1 .. Len(arrivals) + 1
          /\ \A i \in 1 .. Len(arrivals) : arrivals'[i] = arrivals[i]
          /\ arrivals'[Len(arrivals) + 1] = c
      BY <1>0, <3>0 DEF LineTyped
    <3>2. ASSUME NEW i \in DOMAIN arrivals', NEW d \in Claims PROVE InTimeAt(i, d)'
      <4>1. CASE i \in DOMAIN arrivals
        <5>1. arrivals'[i] = arrivals[i] /\ arrivals[i] # c
          BY <1>0, <2>4, <3>1, <4>1 DEF W!Arrived
        <5>2. QED
          BY <2>1, <4>1, <5>1, PunctualParts DEF InTimeAt, LatestEnd, LastEnd, Since, TypeOK
      <4>2. CASE i = Len(arrivals) + 1
        <5>1. PICK k \in Nat : k = i - served /\ k <= MaxPending
          <6>1. i - served \in Nat /\ i - served <= MaxPending
            BY <1>0, <3>0, <4>2, Numbers DEF LineTyped
          <6>2. QED
            BY <6>1
        <5>2. Since <= clock /\ Since \in Nat /\ Since' = Since
          BY <1>0, <2>1 DEF Since, PunctualInv
        <5>3. clock <= stamp[c] + MaxStale
          BY <2>1 DEF PunctualInv
        <5>4. (i - served) * Residence <= MaxPending * Residence /\ (i - served) * Residence \in Nat
          BY <5>1, Residences
        <5>5. LatestEnd(i)' <= LastEnd(c)'
          <6>1. Since' + (i - served) * Residence <= stamp[c] + MaxStale + MaxPending * Residence
            BY <1>0, <5>2, <5>3, <5>4, Numbers, LeaseIsNat
          <6>2. QED
            BY <2>1, <6>1 DEF LatestEnd, LastEnd
        <5>6. QED
          BY <3>1, <4>2, <5>5 DEF InTimeAt
      <4>3. QED
        BY <1>0, <3>1, <4>1, <4>2
    <3>3. QED
      BY <2>2, <2>3, <3>2, PunctualPartsNext
  <2>7. QED
    BY <1>3, <2>5, <2>6 DEF Enqueue
<1>4. ASSUME NEW s \in Steps, EnqueueStep(s) PROVE PunctualInv'
  <2>1. UNCHANGED <<clock, served, holder, began, stamp, stage>> /\ arrivals' = Append(arrivals, s)
    BY <1>4 DEF EnqueueStep, ledgerVars, claimVars, W!Arrive
  <2>2. /\ DOMAIN arrivals' = 1 .. Len(arrivals) + 1
        /\ \A i \in 1 .. Len(arrivals) : arrivals'[i] = arrivals[i]
        /\ arrivals'[Len(arrivals) + 1] = s
    BY <1>0, <2>1 DEF LineTyped
  <2>3. ASSUME NEW i \in DOMAIN arrivals', NEW d \in Claims PROVE InTimeAt(i, d)'
    <3>1. arrivals'[i] = d => i \in DOMAIN arrivals /\ arrivals[i] = d
      BY <1>0, <2>2, TasksApart
    <3>2. QED
      BY <2>1, <3>1, PunctualParts DEF InTimeAt, LatestEnd, LastEnd, Since
  <2>4. (\A d \in Claims : FrontAt(d)') /\ HolderAt'
    BY <2>1 DEF FrontAt, HolderAt, PunctualInv
  <2>5. QED
    BY <2>3, <2>4, PunctualPartsNext
<1>5. ASSUME NEW t \in Tasks, Take(t) PROVE PunctualInv'
  <2>1. UNCHANGED <<clock, arrivals, served, stamp, stage>> /\ holder = Nobody /\ holder' = t
        /\ began' = [began EXCEPT ![t] = clock] /\ t # Nobody
    BY <1>5, TasksApart DEF Take, W!Take, ledgerVars, claimVars
  <2>2. began'[t] = clock
    BY <2>1 DEF TypeOK, Tasks
  <2>3. ASSUME NEW i \in DOMAIN arrivals', NEW d \in Claims PROVE InTimeAt(i, d)'
    BY <2>1, <2>2, PunctualParts DEF InTimeAt, LatestEnd, LastEnd, Since
  <2>4. \A d \in Claims : FrontAt(d)'
    BY <2>1 DEF FrontAt, PunctualInv
  <2>5. HolderAt'
    BY <1>0, <2>1, <2>2, Numbers DEF HolderAt
  <2>6. QED
    BY <2>3, <2>4, <2>5, PunctualPartsNext
<1>6. ASSUME NEW t \in Tasks, W!Release(t), UNCHANGED <<clock, began, stamp, stage>> PROVE PunctualInv'
  <2>1. arrivals' = arrivals /\ served' = served + 1 /\ holder = t /\ holder' = Nobody /\ t # Nobody
    BY <1>6, TasksApart DEF W!Release
  <2>2. clock <= began[t] + Residence /\ Since = began[t] /\ Since' = clock
    BY <1>6, <2>1 DEF PunctualInv, Since
  <2>3. ASSUME NEW i \in DOMAIN arrivals', NEW d \in Claims, i > served'
        PROVE LatestEnd(i)' <= LatestEnd(i)
    <3>1. PICK k \in Nat : k = i - (served + 1) /\ k + 1 = i - served
      <4>1. i - (served + 1) \in Nat /\ i - (served + 1) + 1 = i - served
        BY <1>0, <2>1, <2>3
      <4>2. QED
        BY <4>1
    <3>2. LatestEnd(i)' = clock + k * Residence
      BY <2>1, <2>2, <3>1 DEF LatestEnd
    <3>3. LatestEnd(i) = began[t] + (k + 1) * Residence
      BY <2>2, <3>1 DEF LatestEnd
    <3>4. QED
      BY <1>0, <2>2, <3>2, <3>3, Residences, Numbers
  <2>4. ASSUME NEW i \in DOMAIN arrivals', NEW d \in Claims PROVE InTimeAt(i, d)'
    <3>1. SUFFICES ASSUME i > served', arrivals'[i] = d, stage'[d] = "queued"
                   PROVE LatestEnd(i)' <= LastEnd(d)'
      BY DEF InTimeAt
    <3>2. LatestEnd(i) <= LastEnd(d)
      BY <1>0, <1>6, <2>1, <3>1, PunctualParts DEF InTimeAt
    <3>3. LastEnd(d)' = LastEnd(d)
      BY <1>6 DEF LastEnd
    <3>4. LatestEnd(i)' <= LatestEnd(i)
      BY <2>3, <3>1
    <3>5. LatestEnd(i)' \in Int /\ LatestEnd(i) \in Int /\ LastEnd(d) \in Int
      <4>1. i \in Nat /\ Since \in Nat /\ Since' \in Nat /\ served' \in Nat
        BY <1>0, <2>1, <2>2
      <4>2. QED
        BY <1>0, <4>1, Numbers, LeaseIsNat DEF LatestEnd, LastEnd
    <3>6. QED
      BY <3>2, <3>3, <3>4, <3>5
  <2>5. (\A d \in Claims : FrontAt(d)') /\ HolderAt'
    BY <1>6, <2>1 DEF FrontAt, HolderAt, PunctualInv
  <2>6. QED
    BY <2>4, <2>5, PunctualPartsNext
<1>7. ASSUME NEW c \in Claims, Finish(c) PROVE PunctualInv'
  BY <1>6, <1>7 DEF Finish, ledgerVars, Tasks
<1>8. ASSUME NEW s \in Steps, FinishStep(s) PROVE PunctualInv'
  BY <1>6, <1>8 DEF FinishStep, ledgerVars, claimVars, Tasks
<1>9. ASSUME Crash \/ ExitEmptied \/ ExitAtBound PROVE PunctualInv'
  <2>1. PICK how : Ended(how)
    BY <1>9, DieEnds DEF Crash, ExitEmptied, ExitAtBound
  <2>2. \A d \in Claims : stage'[d] \notin {"gates", "reserved", "queued"}
    BY <2>1 DEF Ended, Handled, TypeOK, Stages
  <2>3. holder' = Nobody
    BY <2>1 DEF Ended
  <2>4. QED
    BY <2>2, <2>3, PunctualPartsNext DEF FrontAt, HolderAt, InTimeAt
<1>10. CASE Tick
  <2>1. UNCHANGED <<arrivals, served, holder, began, stamp, stage>> /\ clock' = clock + 1
    BY <1>10 DEF Tick, walletVars, claimVars
  <2>2. ASSUME NEW d \in Claims PROVE FrontAt(d)'
    BY <1>0, <1>10, <2>1, Numbers DEF Tick, FrontAt
  <2>3. HolderAt'
    BY <1>0, <1>10, <2>1, Numbers DEF Tick, HolderAt, PunctualInv
  <2>4. ASSUME NEW i \in DOMAIN arrivals', NEW d \in Claims PROVE InTimeAt(i, d)'
    <3>1. CASE holder = Nobody
      <4>1. ~(i > served)
        BY <1>0, <1>10, <2>1, <3>1 DEF Tick, W!Depth
      <4>2. QED
        BY <2>1, <4>1 DEF InTimeAt
    <3>2. CASE holder # Nobody
      BY <2>1, <3>2, PunctualParts DEF InTimeAt, LatestEnd, LastEnd, Since
    <3>3. QED
      BY <3>1, <3>2
  <2>5. QED
    BY <2>2, <2>3, <2>4, PunctualPartsNext
<1>11. ASSUME Sigterm \/ Restart \/ Purge \/ UNCHANGED vars PROVE PunctualInv'
  <2>1. UNCHANGED <<clock, arrivals, served, holder, began, stamp, stage>>
    BY <1>11 DEF Sigterm, Restart, Purge, L!Purge, vars, ledgerVars, walletVars, claimVars
  <2>2. QED
    BY <2>1, StillPunctual
<1>12. QED
  BY <1>1, <1>2, <1>3, <1>4, <1>5, <1>7, <1>8, <1>9, <1>10, <1>11 DEF Next, ClaimStep, Tasks

-----------------------------------------------------------------------------
(* The lease covers the queue: every step is a step of the ledger.          *)

\* A second passes only when no held row is about to outlive its lease.  The
\* handler of a row stands in the line, at most MaxPending places deep; every
\* place in front of it takes a residence, the lease counts one more.
LEMMA LeaseOutlastsTheLine ==
  ASSUME TypeOK, QueueInv, HandlerInv, RowInv, PunctualInv, LeaseInv, Tick, NEW c \in open
  PROVE  clock + 1 < row[c].at + PendingLeaseSeconds
<1>0. /\ c \in Claims /\ LineTyped /\ clock \in Nat /\ stamp[c] \in Nat /\ served \in Nat
      /\ DOMAIN arrivals = 1 .. Len(arrivals) /\ Len(arrivals) \in Nat
      /\ \A t \in Tasks : began[t] \in Nat
  BY PipelineTypes DEF TypeOK, L!TypeOK, LineTyped, Tasks
<1>1. row[c] # NoRow /\ row[c].at = stamp[c]
  BY <1>0 DEF LeaseInv, RowInv, RowAt
<1>2. stage[c] = "queued" /\ told[c] = "none"
  BY <1>0 DEF RowInv, RowAt, Tick
<1>3. PICK i \in DOMAIN arrivals : i > served /\ arrivals[i] = c
  BY <1>0, <1>2 DEF HandlerInv, HandlerAt, InLine
<1>4. holder # Nobody /\ began[holder] \in Nat /\ clock < began[holder] + Residence
  <2>1. (holder = Nobody => W!Depth = 0) /\ (holder # Nobody => clock < began[holder] + Residence)
    BY DEF Tick
  <2>2. W!Depth > 0
    BY <1>0, <1>3 DEF W!Depth, LineTyped
  <2>3. holder # Nobody
    BY <2>1, <2>2
  <2>4. began[holder] \in Nat
    BY <1>0, <2>3 DEF LineTyped
  <2>5. QED
    BY <2>1, <2>3, <2>4
<1>5. PICK k \in Nat : k + 1 = i - served
  <2>1. i - served - 1 \in Nat /\ (i - served - 1) + 1 = i - served
    BY <1>0, <1>3
  <2>2. QED
    BY <2>1
<1>6. began[holder] + (k * Residence + Residence) <= stamp[c] + MaxStale + MaxPending * Residence
  BY <1>0, <1>2, <1>3, <1>4, <1>5, Residences DEF PunctualInv, LatestEnd, LastEnd, Since
<1>7. k * Residence \in Nat /\ MaxPending * Residence \in Nat
  BY <1>5, Residences, LeaseIsNat
<1>8. began[holder] + Residence <= stamp[c] + MaxStale + MaxPending * Residence
  <2>1. \A b, k1, m, r, s, e \in Nat : b + (k1 + r) <= s + e + m => b + r <= s + e + m
    OBVIOUS
  <2>2. QED
    BY <1>0, <1>4, <1>6, <1>7, <2>1, Numbers
<1>9. clock + 1 <= began[holder] + Residence
  BY <1>0, <1>4, Numbers
<1>10. \A t, f, s, e, m, r, g \in Nat : t + 1 <= f /\ f <= s + e + m /\ e < r + g => t + 1 < s + (m + r + g)
  OBVIOUS
<1>11. began[holder] + Residence \in Nat /\ row[c].at \in Nat
  BY <1>0, <1>1, <1>4, Numbers
<1>12. QED
  BY <1>0, <1>1, <1>7, <1>8, <1>9, <1>10, <1>11, Numbers, LeaseIsNat

\* Every step of the pipeline is a step of the ledger, or leaves it alone.
LEMMA LedgerSteps ==
  ASSUME TypeOK, QueueInv, HandlerInv, RowInv, PunctualInv, LeaseInv, [Next]_vars
  PROVE  [L!Next]_ledgerVars
<1>0. clock \in Nat
  BY DEF TypeOK, L!TypeOK
<1>1. ASSUME NEW c \in Claims, Reserve(c) PROVE L!Next
  <2>1. req[c] \in L!Requests /\ stamp[c] \in 0 .. clock /\ L!Reserve(c, req[c], stamp[c])
    BY <1>0, <1>1 DEF Reserve, HandlerInv, HandlerAt, TypeOK
  <2>2. QED
    BY <2>1 DEF L!Next
<1>2. ASSUME NEW c \in Claims, Blocked(c) PROVE L!Next
  <2>1. stamp[c] \in 0 .. clock /\ L!Refuse(stamp[c])
    BY <1>0, <1>2 DEF Blocked, HandlerInv, HandlerAt, TypeOK
  <2>2. QED
    BY <2>1 DEF L!Next
<1>3. ASSUME NEW c \in Claims, ReserveLost(c) PROVE L!Next
  <2>1. {c} \in SUBSET open /\ L!Abandon({c})
    BY <1>3 DEF ReserveLost, RowInv, RowAt
  <2>2. QED
    BY <2>1 DEF L!Next
<1>4. ASSUME NEW c \in Claims, Conclude(c) PROVE L!Next
  <2>1. {c} \in SUBSET open
    BY <1>4 DEF Conclude, RowInv, RowAt
  <2>2. StatusFor(told[c]) \in {"sent", "failed"}
    BY StatusForIsFinal
  <2>3. QED
    BY <1>4, <2>1, <2>2 DEF Conclude, L!Next
<1>5. ASSUME Crash \/ ExitEmptied \/ ExitAtBound PROVE [L!Next]_ledgerVars
  <2>1. PICK how : Ended(how)
    BY <1>5, DieEnds DEF Crash, ExitEmptied, ExitAtBound
  <2>2. open \in SUBSET open
    OBVIOUS
  <2>3. QED
    BY <2>1, <2>2 DEF Ended, L!Next
<1>6. CASE Purge
  BY <1>6 DEF Purge, L!Next
<1>7. CASE Tick
  <2>1. L!Tick
    BY <1>7, LeaseOutlastsTheLine DEF Tick, L!Tick
  <2>2. QED
    BY <2>1 DEF L!Next
<1>8. ASSUME NEW c \in Claims, NEW q \in L!Requests, Arrive(c, q) PROVE UNCHANGED ledgerVars
  BY <1>8 DEF Arrive
<1>9. ASSUME NEW c \in Claims,
             GateRefuses(c) \/ Enqueue(c) \/ Submit(c) \/ OpEnds(c) \/ Finish(c) \/ Deadline(c)
      PROVE UNCHANGED ledgerVars
  BY <1>9 DEF GateRefuses, Enqueue, Submit, OpEnds, Finish, Deadline
<1>10. ASSUME NEW t, Take(t) \/ EnqueueStep(t) \/ FinishStep(t) PROVE UNCHANGED ledgerVars
  BY <1>10 DEF Take, EnqueueStep, FinishStep
<1>11. Sigterm \/ Restart \/ UNCHANGED vars => UNCHANGED ledgerVars
  BY DEF Sigterm, Restart, vars
<1>12. QED
  BY <1>1, <1>2, <1>3, <1>4, <1>5, <1>6, <1>7, <1>8, <1>9, <1>10, <1>11 DEF Next, ClaimStep

-----------------------------------------------------------------------------
(* Types.                                                                   *)

\* What TypeOK says beside the ledger and the line.
RestTyped ==
    /\ stage \in [Claims -> Stages]
    /\ req \in [Claims -> L!Requests \cup {NoRequest}]
    /\ stamp \in [Claims -> Nat]
    /\ began \in [Claims \cup Steps -> Nat]
    /\ op \in [Claims -> Ops]
    /\ told \in [Claims -> Told]
    /\ reply \in [Claims -> Replies]
    /\ {up, draining} \subseteq BOOLEAN
    /\ exits \in 0..MaxExits

\* TypeOK by its parts, here and in the next state.
LEMMA TypeParts ==
  /\ TypeOK <=> L!TypeOK /\ LineTyped /\ RestTyped
  /\ TypeOK' <=> L!TypeOK' /\ LineTyped' /\ RestTyped'
  BY DEF TypeOK, LineTyped, RestTyped, Tasks

\* Every step keeps the rest typed.
LEMMA RestStep ==
  ASSUME RestTyped, clock \in Nat, [Next]_vars
  PROVE  RestTyped'
<1>1. ASSUME NEW c \in Claims, NEW q \in L!Requests, Arrive(c, q) PROVE RestTyped'
  BY <1>1 DEF Arrive, Answer, RestTyped, Stages, Replies
<1>2. ASSUME NEW c \in Claims,
             GateRefuses(c) \/ Blocked(c) \/ ReserveLost(c) \/ Reserve(c) \/ Enqueue(c)
      PROVE RestTyped'
  BY <1>2 DEF GateRefuses, Blocked, ReserveLost, Reserve, Enqueue, Answer, RestTyped, Stages, Replies,
     Told
<1>3. ASSUME NEW t \in Tasks, Take(t) PROVE RestTyped'
  BY <1>3 DEF Take, RestTyped, claimVars, Tasks
<1>4. ASSUME NEW c \in Claims, Submit(c) \/ OpEnds(c) PROVE RestTyped'
  BY <1>4 DEF Submit, OpEnds, RestTyped, claimVars, Ops
<1>5. ASSUME NEW c \in Claims, Finish(c) \/ Deadline(c) PROVE RestTyped'
  BY <1>5 DEF Finish, Deadline, SenderReports, RestTyped, Told, Outcomes
<1>6. ASSUME NEW c \in Claims, Conclude(c) PROVE RestTyped'
  <2>1. ReplyFor(told[c]) \in Replies
    BY <1>6 DEF Conclude, ReplyFor, RestTyped, Told, Outcomes, Replies
  <2>2. QED
    BY <1>6, <2>1 DEF Conclude, Answer, RestTyped, Stages
<1>7. ASSUME Crash \/ ExitEmptied \/ ExitAtBound PROVE RestTyped'
  <2>1. PICK how \in Replies : Ended(how)
    BY <1>7, DieEnds DEF Crash, ExitEmptied, ExitAtBound, Replies
  <2>2. exits' \in 0 .. MaxExits
    BY <2>1, DripClaimAssumption DEF Ended, RestTyped
  <2>3. stage' \in [Claims -> Stages] /\ reply' \in [Claims -> Replies]
    BY <2>1 DEF Ended, RestTyped, Stages
  <2>4. QED
    BY <2>1, <2>2, <2>3 DEF Ended, RestTyped
<1>8. ASSUME NEW s \in Steps, EnqueueStep(s) \/ FinishStep(s) PROVE RestTyped'
  BY <1>8 DEF EnqueueStep, FinishStep, RestTyped, claimVars
<1>9. CASE Sigterm \/ Restart \/ Purge \/ Tick \/ UNCHANGED vars
  BY <1>9 DEF Sigterm, Restart, Purge, Tick, vars, claimVars, RestTyped
<1>10. QED
  BY <1>1, <1>2, <1>3, <1>4, <1>5, <1>6, <1>7, <1>8, <1>9 DEF Next, ClaimStep, Tasks

\* The invariant holds of the empty pipeline.
LEMMA PipelineInit == Init => PipelineInv
<1> SUFFICES ASSUME Init PROVE PipelineInv
  OBVIOUS
<1>1. L!TypeOK /\ LeaseInv /\ CutoffInv
  BY LedgerPartInit DEF Init, LedgerPart
<1>2. /\ arrivals = <<>> /\ served = 0 /\ holder = Nobody /\ open = {}
      /\ \A c \in Claims : row[c] = NoRow
  BY DEF Init, L!Init, W!Init
<1>3. /\ LineTyped /\ QueueInv
      /\ \A x : ~InLine(x) /\ ~W!Arrived(x)
  BY <1>2, Numbers DEF LineTyped, QueueInv, InLine, W!Arrived, W!Depth
<1>4. RestTyped
  <2>1. 0 \in 0 .. MaxExits
    BY DripClaimAssumption
  <2>2. QED
    BY <2>1 DEF Init, RestTyped, Stages, Ops, Told, Outcomes, Replies
<1>5. HandlerInv /\ RowInv
  BY <1>2, <1>3 DEF Init, HandlerInv, HandlerAt, RowInv, RowAt, Booked
<1>6. PunctualInv
  BY <1>2 DEF Init, PunctualInv
<1>7. QED
  BY <1>1, <1>3, <1>4, <1>5, <1>6, TypeParts DEF PipelineInv

\* Every step keeps the invariant.
LEMMA PipelineStep == PipelineInv /\ [Next]_vars => PipelineInv'
<1> SUFFICES ASSUME PipelineInv, [Next]_vars PROVE PipelineInv'
  OBVIOUS
<1>1. LineTyped /\ RestTyped /\ L!TypeOK /\ clock \in Nat
  BY TypeParts DEF PipelineInv, L!TypeOK
<1>2. LineTyped' /\ QueueInv'
  BY <1>1, QueueStep DEF PipelineInv
<1>3. HandlerInv' /\ RowInv' /\ PunctualInv'
  BY HandlerStep, RowStep, PunctualStep DEF PipelineInv
<1>4. [L!Next]_ledgerVars
  BY LedgerSteps DEF PipelineInv
<1>5. L!TypeOK' /\ LeaseInv' /\ CutoffInv'
  BY <1>1, <1>4, LedgerPartKept DEF LedgerPart, PipelineInv
<1>6. RestTyped'
  BY <1>1, RestStep
<1>7. QED
  BY <1>2, <1>3, <1>5, <1>6, TypeParts DEF PipelineInv

\* The invariant of the pipeline.
LEMMA PipelineInvariant == Spec => []PipelineInv
  BY PipelineInit, PipelineStep, PTL DEF Spec

\* The types of the pipeline: handlers, line, rows, wallet and replies.
THEOREM PipelineTyped == Spec => []TypeOK
<1>1. PipelineInv => TypeOK
  BY DEF PipelineInv
<1>2. QED
  BY <1>1, PipelineInvariant, PTL

\* The lease of pendingLeaseSeconds() covers the queue: with any number of
\* claims and places, every step of the handlers, the queue, the wallet, the
\* drain and the clock is a step of the ledger, whose clock waits for no row
\* that outlives its lease while a handler holds it.
THEOREM LeaseCoversQueue == Spec => ImplementsLedger
<1>1. Init => L!Init
  BY DEF Init
<1>2. PipelineInv /\ [Next]_vars => [L!Next]_L!ledgerVars
  BY LedgerSteps DEF PipelineInv, ledgerVars, L!ledgerVars
<1>3. QED
  BY <1>1, <1>2, PipelineInvariant, PTL DEF Spec, ImplementsLedger, L!Spec

\* The limits of the ledger, for the pipeline as it is: one drip per address
\* and network in a cooldown, and the allowances of connection, subnet and day,
\* with no assumption left on how long a handler holds its row.
THEOREM PipelineKeepsLimits == Spec => [](L!AddressSpacing /\ L!QuantityLimits)
<1>1. Init => LP!Init
  BY DEF Init, L!Init, LP!Init
<1>2. PipelineInv /\ [Next]_vars => [LP!Next]_LP!ledgerVars
  BY LedgerSteps, SameNext DEF PipelineInv
<1>3. Spec => LP!Spec
  BY <1>1, <1>2, PipelineInvariant, PTL DEF Spec, LP!Spec
<1>4. LP!Spec => []LP!AddressSpacing
  BY LP!AddressCooldown, InstanceAssumptions
<1>5. LP!Spec => []LP!QuantityLimits
  BY LP!Quantities, InstanceAssumptions
<1>6. LP!AddressSpacing => L!AddressSpacing
  BY SameRows DEF LP!AddressSpacing, L!AddressSpacing, LP!Counted, L!Counted
<1>7. LP!QuantityLimits => L!QuantityLimits
  <2>1. \A r, n : (L!LiveAfter(r, n) <=> LP!LiveAfter(r, n)) /\ (L!LiveSince(r, n) <=> LP!LiveSince(r, n))
    BY DEF L!LiveAfter, LP!LiveAfter, L!LiveSince, LP!LiveSince
  <2>2. \A rowSet : L!Cardinality(rowSet) = LP!Cardinality(rowSet)
    BY DEF L!Cardinality, LP!Cardinality, L!IsFiniteSet, LP!IsFiniteSet
  <2>3. \A ip, net : L!IpRows(ip, net, clock) = LP!IpRows(ip, net, clock)
    BY <2>1, SameRows DEF L!IpRows, LP!IpRows
  <2>4. \A subnet : L!SubnetRows(subnet, clock) = LP!SubnetRows(subnet, clock)
    BY <2>1, SameRows DEF L!SubnetRows, LP!SubnetRows
  <2>5. \A net : L!CapRows(net, clock) = LP!CapRows(net, clock)
    BY <2>1, SameRows DEF L!CapRows, LP!CapRows
  <2>6. QED
    BY <2>2, <2>3, <2>4, <2>5 DEF L!QuantityLimits, LP!QuantityLimits, L!IpAllowance, LP!IpAllowance,
       L!SubnetAllowance, LP!SubnetAllowance, L!WithinDailyCap, LP!WithinDailyCap
<1>8. QED
  BY <1>3, <1>4, <1>5, <1>6, <1>7, PTL

-----------------------------------------------------------------------------
(* The money.                                                               *)

\* A process that leaves because its queues are empty takes no payment with
\* it, provided that the handlers that were told have recorded it: drain()
\* polls the depth, and a claim that is reserved and not answered is deep.
THEOREM DrainIsSafe == Spec => []DrainLosesNothingSettled
<1>1. PipelineInv => DrainLosesNothingSettled
  BY DEF PipelineInv, HandlerInv, HandlerAt, DrainLosesNothingSettled, MayPay
<1>2. QED
  BY <1>1, PipelineInvariant, PTL

\* On the local ledger every exit of a drained process has waited for the
\* handlers: none is answered with "drained early".
NoEarlyExit == \A c \in Claims : reply[c] # "drained early"

\* Only an exit in front of the remote ledger's replies is early.
LEMMA NoEarlyExitStep ==
  ASSUME ~AsyncLedger, PipelineInv, NoEarlyExit, [Next]_vars
  PROVE  NoEarlyExit'
<1>0. reply \in [Claims -> Replies] /\ \A c \in Claims : told[c] \in Told
  BY DEF PipelineInv, TypeOK
<1>1. ASSUME NEW c \in Claims, NEW q \in L!Requests, Arrive(c, q) PROVE NoEarlyExit'
  BY <1>0, <1>1 DEF Arrive, Answer, NoEarlyExit
<1>2. ASSUME NEW c \in Claims, GateRefuses(c) \/ Blocked(c) \/ ReserveLost(c) PROVE NoEarlyExit'
  BY <1>0, <1>2 DEF GateRefuses, Blocked, ReserveLost, Answer, NoEarlyExit
<1>3. ASSUME NEW c \in Claims, Conclude(c) PROVE NoEarlyExit'
  <2>1. ReplyFor(told[c]) \in {"paid", "unknown", "failed", "busy"}
    BY <1>0, <1>3 DEF Conclude, ReplyFor, Told, Outcomes
  <2>2. QED
    BY <1>0, <1>3, <2>1 DEF Conclude, Answer, NoEarlyExit
<1>4. ASSUME Crash \/ ExitEmptied \/ ExitAtBound PROVE NoEarlyExit'
  <2>1. PICK how \in {"crashed", "drained", "cut off"} : Ended(how)
    BY <1>4, DieEnds DEF Crash, ExitEmptied, ExitAtBound
  <2>2. QED
    BY <2>1 DEF Ended, NoEarlyExit
<1>5. ASSUME NEW c \in Claims,
             Reserve(c) \/ Enqueue(c) \/ Submit(c) \/ OpEnds(c) \/ Finish(c) \/ Deadline(c)
      PROVE NoEarlyExit'
  BY <1>5 DEF Reserve, Enqueue, Submit, OpEnds, Finish, Deadline, claimVars, NoEarlyExit
<1>6. ASSUME NEW t, Take(t) \/ EnqueueStep(t) \/ FinishStep(t) PROVE NoEarlyExit'
  BY <1>6 DEF Take, EnqueueStep, FinishStep, claimVars, NoEarlyExit
<1>7. Sigterm \/ Restart \/ Purge \/ Tick \/ UNCHANGED vars => NoEarlyExit'
  BY DEF Sigterm, Restart, Purge, Tick, vars, claimVars, NoEarlyExit
<1>8. QED
  BY <1>1, <1>2, <1>3, <1>4, <1>5, <1>6, <1>7 DEF Next, ClaimStep

\* What drain() is for holds whole on the local ledger: a process that leaves
\* because its queues are empty takes no payment with it, at any moment.
THEOREM LocalDrainIsSafe ==
  ASSUME ~AsyncLedger
  PROVE  Spec => []DrainLosesNothing
<1>1. Init => NoEarlyExit
  BY DEF Init, NoEarlyExit
<1>2. (PipelineInv /\ NoEarlyExit) /\ [Next]_vars => NoEarlyExit'
  BY NoEarlyExitStep
<1>3. DrainLosesNothingSettled /\ NoEarlyExit => DrainLosesNothing
  BY DEF DrainLosesNothingSettled, NoEarlyExit, DrainLosesNothing
<1>4. QED
  BY <1>1, <1>2, <1>3, PipelineInvariant, DrainIsSafe, PTL DEF Spec

\* Every step keeps what is said of the money true.
LEMMA MoneyStep ==
  ASSUME PipelineInv, MoneyInv, [Next]_vars
  PROVE  MoneyInv'
<1> SUFFICES ASSUME NEW d \in Claims PROVE MoneyAt(d)'
  BY DEF MoneyInv
<1>0. TypeOK /\ L!TypeOK /\ LineTyped /\ QueueInv /\ HandlerAt(d) /\ RowAt(d) /\ MoneyAt(d)
  BY TypeParts DEF PipelineInv, HandlerInv, RowInv, MoneyInv
<1>a. InLine(d) => W!Arrived(d)
  BY InLineHasArrived
<1>1. ASSUME NEW c \in Claims, NEW q \in L!Requests, Arrive(c, q) PROVE MoneyAt(d)'
  <2>1. UNCHANGED <<row, told, op>> /\ stage[c] = "new" /\ req' = [req EXCEPT ![c] = q]
        /\ \/ reply' = reply
           \/ reply' = [reply EXCEPT ![c] = "refused"]
    BY <1>1 DEF Arrive, Answer, ledgerVars
  <2>2. d = c => told[d] = "none"
    BY <1>0, <2>1 DEF HandlerAt
  <2>3. d # c => req'[d] = req[d]
    BY <1>0, <2>1 DEF TypeOK
  <2>4. QED
    BY <1>0, <2>1, <2>2, <2>3 DEF MoneyAt, TypeOK
<1>2. ASSUME NEW c \in Claims, GateRefuses(c) \/ Blocked(c) \/ ReserveLost(c) PROVE MoneyAt(d)'
  <2>1. UNCHANGED <<row, told, op, req>>
        /\ \E what \in {"refused", "blocked", "error"} : reply' = [reply EXCEPT ![c] = what]
    BY <1>2 DEF GateRefuses, Blocked, ReserveLost, Answer, ledgerVars, L!Refuse, L!Abandon
  <2>2. QED
    BY <1>0, <2>1 DEF MoneyAt, TypeOK
<1>3. ASSUME NEW c \in Claims, Reserve(c) PROVE MoneyAt(d)'
  <2>1. UNCHANGED <<told, op, reply, req>>
        /\ row' = [row EXCEPT ![c] = [req |-> req[c], status |-> "pending", at |-> stamp[c]]]
    BY <1>3 DEF Reserve, L!Reserve
  <2>2. QED
    BY <1>0, <2>1 DEF MoneyAt, L!TypeOK
<1>4. ASSUME NEW c \in Claims, Enqueue(c) PROVE MoneyAt(d)'
  <2>1. UNCHANGED <<row, op, reply, req>> /\ stage[c] = "reserved"
        /\ (told' = told \/ told' = [told EXCEPT ![c] = "busy"])
    BY <1>4 DEF Enqueue, ledgerVars
  <2>2. d = c => told[d] = "none" /\ reply[d] = "none"
    BY <1>0, <2>1 DEF HandlerAt
  <2>3. QED
    BY <1>0, <2>1, <2>2 DEF MoneyAt, TypeOK
<1>5. ASSUME NEW t, Take(t) \/ EnqueueStep(t) \/ FinishStep(t) PROVE MoneyAt(d)'
  <2>1. UNCHANGED <<row, op, reply, told, req>>
    BY <1>5 DEF Take, EnqueueStep, FinishStep, ledgerVars, claimVars
  <2>2. QED
    BY <1>0, <2>1 DEF MoneyAt
<1>6. ASSUME NEW c \in Claims, Submit(c) PROVE MoneyAt(d)'
  <2>1. UNCHANGED <<row, reply, told, req>> /\ holder = c /\ op[c] = "none" /\ op' = [op EXCEPT ![c] = "inflight"]
    BY <1>6 DEF Submit, ledgerVars, claimVars
  <2>2. InLine(c)
    BY <1>0, <2>1, HolderIsInLine, TasksApart DEF Tasks
  <2>3. QED
    BY <1>0, <2>1, <2>2 DEF MoneyAt, HandlerAt, TypeOK
<1>7. ASSUME NEW c \in Claims, OpEnds(c) PROVE MoneyAt(d)'
  <2>1. UNCHANGED <<row, reply, told, req>> /\ op[c] = "inflight"
        /\ \E end \in {"paid", "dead"} : op' = [op EXCEPT ![c] = end]
    BY <1>7 DEF OpEnds, ledgerVars, claimVars
  <2>2. QED
    BY <1>0, <2>1 DEF MoneyAt, TypeOK
<1>8. ASSUME NEW c \in Claims, Finish(c) PROVE MoneyAt(d)'
  <2>1. UNCHANGED <<row, reply, op, req>>
    BY <1>8 DEF Finish, ledgerVars
  <2>2. PICK outcome \in SenderReports(req[c].net, op[c]) :
           told' = [told EXCEPT ![c] = IF @ = "none" THEN outcome ELSE @]
    BY <1>8 DEF Finish
  <2>3. /\ outcome = "ok" => op[c] = "paid"
        /\ outcome = "failed" => op[c] \in {"none", "dead"} \/ req[c].net \in BlindNets
    BY <2>2 DEF SenderReports
  <2>4. QED
    BY <1>0, <2>1, <2>2, <2>3 DEF MoneyAt, TypeOK
<1>9. ASSUME NEW c \in Claims, Deadline(c) PROVE MoneyAt(d)'
  <2>1. UNCHANGED <<row, reply, op, req>> /\ told[c] = "none" /\ told' = [told EXCEPT ![c] = "deadline"]
    BY <1>9 DEF Deadline, ledgerVars
  <2>2. QED
    BY <1>0, <2>1 DEF MoneyAt, TypeOK
<1>10. ASSUME NEW c \in Claims, Conclude(c) PROVE MoneyAt(d)'
  <2>1. UNCHANGED <<told, op, req>> /\ reply' = [reply EXCEPT ![c] = ReplyFor(told[c])]
        /\ told[c] # "none"
    BY <1>10 DEF Conclude, Answer
  <2>2. /\ told[c] \in {"ok", "failed", "unknown", "deadline", "busy"}
        /\ ReplyFor(told[c]) = "paid" <=> told[c] = "ok"
        /\ ReplyFor(told[c]) = "failed" <=> told[c] = "failed"
        /\ ReplyFor(told[c]) = "busy" <=> told[c] = "busy"
    <3>1. told[c] \in {"ok", "failed", "unknown", "deadline", "busy"}
      BY <1>0, <2>1 DEF TypeOK, Told, Outcomes
    <3>2. /\ ReplyFor("ok") = "paid" /\ ReplyFor("failed") = "failed" /\ ReplyFor("busy") = "busy"
          /\ ReplyFor("unknown") = "unknown" /\ ReplyFor("deadline") = "unknown"
      BY DEF ReplyFor
    <3>3. QED
      BY <3>1, <3>2
  <2>3. /\ d # c => row'[d] = row[d]
        /\ row[d] = NoRow <=> row'[d] = NoRow
        /\ row' = row \/ (row[c] # NoRow => row'[c].status = StatusFor(told[c]))
    BY <1>0, <1>10, ConcludeRows
  <2>4. StatusFor(told[c]) = "failed" => told[c] \in {"failed", "busy"}
    BY <2>2 DEF StatusFor
  <2>5. QED
    BY <1>0, <2>1, <2>2, <2>3, <2>4 DEF MoneyAt, TypeOK
<1>11. ASSUME Crash \/ ExitEmptied \/ ExitAtBound PROVE MoneyAt(d)'
  <2>1. PICK how \in {"crashed", "drained", "drained early", "cut off"} : Ended(how)
    BY <1>11, DieEnds DEF Crash, ExitEmptied, ExitAtBound
  <2>2. row' = row
    BY <2>1 DEF Ended, L!Abandon, ledgerVars
  <2>3. QED
    BY <1>0, <2>1, <2>2 DEF MoneyAt, Ended
<1>12. CASE Purge
  <2>1. UNCHANGED <<told, op, reply, req>>
        /\ row'[d] = IF d \in L!Stored /\ row[d].at < cut THEN NoRow ELSE row[d]
    BY <1>12 DEF Purge, L!Purge, claimVars
  <2>2. QED
    BY <1>0, <2>1 DEF MoneyAt
<1>13. ASSUME Sigterm \/ Restart \/ Tick \/ UNCHANGED vars PROVE MoneyAt(d)'
  <2>1. UNCHANGED <<row, told, op, reply, req>>
    BY <1>13 DEF Sigterm, Restart, Tick, vars, ledgerVars, claimVars
  <2>2. QED
    BY <1>0, <2>1 DEF MoneyAt
<1>14. QED
  BY <1>1, <1>2, <1>3, <1>4, <1>5, <1>6, <1>7, <1>8, <1>9, <1>10, <1>11, <1>12, <1>13
  DEF Next, ClaimStep

\* Nothing is said at first.
LEMMA MoneyInit == Init => MoneyInv
  BY DEF Init, L!Init, MoneyInv, MoneyAt

\* The two invariants together.
LEMMA MoneyInvariant == Spec => [](PipelineInv /\ MoneyInv)
<1>1. Init => PipelineInv /\ MoneyInv
  BY PipelineInit, MoneyInit
<1>2. (PipelineInv /\ MoneyInv) /\ [Next]_vars => (PipelineInv /\ MoneyInv)'
  BY PipelineStep, MoneyStep
<1>3. QED
  BY <1>1, <1>2, PTL DEF Spec

\* What is left of RepliesAreTrue when a sender takes a lost reply for a refusal
\* (crosslinksend.ts): "paid" is always true, nothing leaves the wallet for a
\* visitor who was turned away, and the one thing said wrongly is a "failed".
OnlyDenialsErr ==
    \A c \in Claims :
        /\ reply[c] = "paid" => op[c] = "paid"
        /\ reply[c] \in {"busy", "blocked", "refused", "drained"} => ~MayPay(c)
        /\ (row[c] # NoRow /\ row[c].status = "failed") \/ reply[c] = "failed"
           => ~MayPay(c) \/ (told[c] = "failed" /\ req[c].net \in BlindNets)

\* Whatever sender is behind the queue, what the page says of the money is wrong
\* in one case only: a blind sender's "failed" of a payment the wallet made.
THEOREM DenialsAlone == Spec => []OnlyDenialsErr
<1>1. PipelineInv /\ MoneyInv => OnlyDenialsErr
  <2> SUFFICES ASSUME PipelineInv, MoneyInv, NEW c \in Claims
               PROVE  /\ reply[c] = "paid" => op[c] = "paid"
                      /\ reply[c] \in {"busy", "blocked", "refused", "drained"} => ~MayPay(c)
                      /\ (row[c] # NoRow /\ row[c].status = "failed") \/ reply[c] = "failed"
                         => ~MayPay(c) \/ (told[c] = "failed" /\ req[c].net \in BlindNets)
    BY DEF OnlyDenialsErr
  <2>1. HandlerAt(c) /\ MoneyAt(c)
    BY DEF PipelineInv, HandlerInv, MoneyInv
  <2>2. QED
    BY <2>1 DEF HandlerAt, MoneyAt, MayPay
<1>2. QED
  BY <1>1, MoneyInvariant, PTL

\* What the visitor is told of the money is true and stays true, and a row is
\* released only when nothing can leave the wallet any more, for a sender that
\* says "unknown" when it does not know (zalletsend.ts).
THEOREM TruthfulReplies ==
  ASSUME BlindNets = {}
  PROVE  Spec => []RepliesAreTrue
<1>1. OnlyDenialsErr => RepliesAreTrue
  BY DEF OnlyDenialsErr, RepliesAreTrue, ReleasedMeansUnpaid
<1>2. QED
  BY <1>1, DenialsAlone, PTL

-----------------------------------------------------------------------------
(* Two payments to one address.                                             *)

\* Apart from a reservation, no step brings a claim into play, changes what a
\* claim in play asked for, or puts one on record that was off it.
LEMMA Fades ==
  ASSUME PipelineInv, [Next]_vars, NEW d \in Claims, Live(d)', ~Reserve(d)
  PROVE  Live(d) /\ req'[d] = req[d] /\ stamp'[d] = stamp[d] /\ (OnRecord(d)' => OnRecord(d))
<1> DEFINE Fade == (Live(d)' => Live(d)) /\ req'[d] = req[d] /\ stamp'[d] = stamp[d]
                   /\ (OnRecord(d)' => OnRecord(d))
<1> SUFFICES Fade
  OBVIOUS
<1>0. TypeOK /\ L!TypeOK /\ LineTyped /\ QueueInv /\ HandlerAt(d) /\ RowAt(d)
  BY TypeParts DEF PipelineInv, HandlerInv, RowInv
<1>a. ASSUME UNCHANGED <<row, open>> PROVE OnRecord(d)' <=> OnRecord(d)
  BY <1>a DEF OnRecord
<1>1. ASSUME NEW c \in Claims, NEW q \in L!Requests, Arrive(c, q) PROVE Fade
  <2>1. UNCHANGED walletVars /\ UNCHANGED <<row, open, op>> /\ stage[c] = "new"
        /\ req' = [req EXCEPT ![c] = q] /\ stamp' = [stamp EXCEPT ![c] = clock]
    BY <1>1 DEF Arrive, ledgerVars
  <2>2. Live(d)' <=> Live(d)
    BY <2>1, LineStays DEF Live, MayPay
  <2>3. ~Live(c)
    BY <2>1, InLineHasArrived DEF Live, MayPay, PipelineInv, HandlerInv, HandlerAt, RowInv, RowAt
  <2>4. d # c
    BY <2>2, <2>3
  <2>5. QED
    BY <1>0, <1>a, <2>1, <2>2, <2>4 DEF TypeOK
<1>2. ASSUME NEW c \in Claims, GateRefuses(c) \/ Blocked(c) PROVE Fade
  <2>1. UNCHANGED walletVars /\ UNCHANGED <<row, open, op, req, stamp>>
    BY <1>2 DEF GateRefuses, Blocked, ledgerVars, L!Refuse
  <2>2. QED
    BY <1>a, <2>1, LineStays DEF Live, MayPay
<1>3. ASSUME NEW c \in Claims, ReserveLost(c) PROVE Fade
  <2>1. UNCHANGED walletVars /\ UNCHANGED <<row, op, req, stamp>> /\ open' = open \ {c}
    BY <1>3 DEF ReserveLost, L!Abandon
  <2>2. QED
    BY <2>1, LineStays DEF Live, MayPay, OnRecord
<1>4. ASSUME NEW c \in Claims, Reserve(c) PROVE Fade
  <2>1. UNCHANGED walletVars /\ UNCHANGED <<op, req, stamp>> /\ d # c /\ open' = open \cup {c}
        /\ row'[d] = row[d]
    BY <1>0, <1>4 DEF Reserve, L!Reserve, L!TypeOK
  <2>2. QED
    BY <2>1, LineStays DEF Live, MayPay, OnRecord
<1>5. ASSUME NEW c \in Claims, Enqueue(c) PROVE Fade
  <2>1. UNCHANGED <<row, open, op, req, stamp>> /\ stage[c] = "reserved"
    BY <1>5 DEF Enqueue, ledgerVars
  <2>2. InLine(d)' => InLine(d) \/ d = c
    BY <1>0, <1>5, LineJoins, LineStays DEF Enqueue, Tasks
  <2>3. c \in open
    BY <2>1 DEF PipelineInv, RowInv, RowAt
  <2>4. QED
    BY <1>a, <2>1, <2>2, <2>3 DEF Live, MayPay
<1>6. ASSUME NEW t \in Tasks, Take(t) PROVE Fade
  <2>1. UNCHANGED <<row, open, op, req, stamp>> /\ W!Take(t)
    BY <1>6 DEF Take, ledgerVars, claimVars
  <2>2. QED
    BY <1>0, <1>a, <2>1, LineMoves DEF Live, MayPay
<1>7. ASSUME NEW s \in Steps, EnqueueStep(s) \/ FinishStep(s) PROVE Fade
  <2>1. UNCHANGED <<row, open, op, req, stamp>>
    BY <1>7 DEF EnqueueStep, FinishStep, ledgerVars, claimVars
  <2>2. InLine(d)' => InLine(d)
    BY <1>0, <1>7, LineJoins, LineLeaves, TasksApart DEF EnqueueStep, FinishStep, Tasks
  <2>3. QED
    BY <1>a, <2>1, <2>2 DEF Live, MayPay
<1>8. ASSUME NEW c \in Claims, Submit(c) \/ OpEnds(c) PROVE Fade
  <2>1. UNCHANGED walletVars /\ UNCHANGED <<row, open, req, stamp>>
        /\ (holder = c \/ op[c] = "inflight")
        /\ \E end \in {"inflight", "paid", "dead"} : op' = [op EXCEPT ![c] = end]
    BY <1>8 DEF Submit, OpEnds, ledgerVars, claimVars
  <2>2. holder = c => InLine(c)
    BY <1>0, HolderIsInLine, TasksApart DEF Tasks
  <2>3. QED
    BY <1>0, <1>a, <2>1, <2>2, LineStays DEF Live, MayPay, TypeOK
<1>9. ASSUME NEW c \in Claims, Finish(c) \/ Deadline(c) PROVE Fade
  <2>1. UNCHANGED <<row, open, op, req, stamp>>
    BY <1>9 DEF Finish, Deadline, ledgerVars
  <2>2. InLine(d)' => InLine(d)
    BY <1>0, <1>9, LineLeaves, LineStays DEF Finish, Deadline, Tasks
  <2>3. QED
    BY <1>a, <2>1, <2>2 DEF Live, MayPay
<1>10. ASSUME NEW c \in Claims, Conclude(c) PROVE Fade
  <2>1. UNCHANGED walletVars /\ UNCHANGED <<op, req, stamp>> /\ stage[c] = "queued"
    BY <1>10 DEF Conclude
  <2>2. (d # c => row'[d] = row[d]) /\ open' = open \ {c}
    BY <1>0, <1>10, ConcludeRows
  <2>3. c \in open
    BY <2>1 DEF PipelineInv, RowInv, RowAt
  <2>4. QED
    BY <2>1, <2>2, <2>3, LineStays DEF Live, MayPay, OnRecord
<1>11. ASSUME Crash \/ ExitEmptied \/ ExitAtBound PROVE Fade
  <2>1. PICK how : Ended(how)
    BY <1>11, DieEnds DEF Crash, ExitEmptied, ExitAtBound
  <2>2. row' = row /\ open' = {} /\ UNCHANGED <<op, req, stamp>>
    BY <2>1 DEF Ended, L!Abandon, ledgerVars
  <2>3. ~InLine(d)'
    BY <2>1, LineEmptied DEF Ended
  <2>4. QED
    BY <2>2, <2>3 DEF Live, MayPay, OnRecord
<1>12. CASE Purge
  <2>1. UNCHANGED walletVars /\ UNCHANGED <<op, req, stamp, open>>
        /\ row'[d] = IF d \in L!Stored /\ row[d].at < cut THEN NoRow ELSE row[d]
    BY <1>12 DEF Purge, L!Purge, claimVars
  <2>2. QED
    BY <2>1, LineStays DEF Live, MayPay, OnRecord
<1>13. ASSUME Sigterm \/ Restart \/ Tick \/ UNCHANGED vars PROVE Fade
  <2>1. UNCHANGED walletVars /\ UNCHANGED <<row, open, op, req, stamp>>
    BY <1>13 DEF Sigterm, Restart, Tick, vars, ledgerVars, claimVars
  <2>2. QED
    BY <1>a, <2>1, LineStays DEF Live, MayPay
<1>14. QED
  BY <1>1, <1>2, <1>3, <1>4, <1>5, <1>6, <1>7, <1>8, <1>9, <1>10, <1>11, <1>12, <1>13
  DEF Next, ClaimStep, Tasks

\* What a caller was told is never taken back, and only a reservation opens a
\* row, so a denial stays one.
LEMMA DenialsStay ==
  ASSUME PipelineInv, [Next]_vars, NEW d \in Claims, Undenied(d)', ~Reserve(d)
  PROVE  Undenied(d) /\ Live(d)
<1> DEFINE Stays == (told[d] = "failed" => told'[d] = "failed") /\ (d \in open' => d \in open)
<1>0. TypeOK /\ L!TypeOK /\ HandlerAt(d)
  BY TypeParts DEF PipelineInv, HandlerInv
<1>1. Live(d)
  <2>1. Live(d)'
    BY DEF Live, Undenied
  <2>2. QED
    BY <2>1, Fades
<1>2. Stays
  <2>1. ASSUME NEW c \in Claims, Enqueue(c) PROVE Stays
    BY <1>0, <2>1 DEF Enqueue, HandlerAt, TypeOK, ledgerVars
  <2>2. ASSUME NEW c \in Claims, Finish(c) \/ Deadline(c) PROVE Stays
    BY <1>0, <2>2 DEF Finish, Deadline, TypeOK, ledgerVars
  <2>3. ASSUME NEW c \in Claims, NEW q \in L!Requests, Arrive(c, q) PROVE Stays
    BY <2>3 DEF Arrive, ledgerVars
  <2>4. ASSUME NEW c \in Claims, GateRefuses(c) \/ Submit(c) \/ OpEnds(c) PROVE Stays
    BY <2>4 DEF GateRefuses, Submit, OpEnds, claimVars, ledgerVars
  <2>5. ASSUME NEW c \in Claims, Reserve(c) PROVE Stays
    <3>1. open' = open \cup {c} /\ told' = told
      BY <2>5 DEF Reserve, L!Reserve
    <3>2. QED
      BY <2>5, <3>1
  <2>6. ASSUME NEW c \in Claims, Blocked(c) \/ ReserveLost(c) \/ Conclude(c) PROVE Stays
    BY <2>6 DEF Blocked, ReserveLost, Conclude, L!Refuse, L!Abandon, L!Finalize
  <2>7. ASSUME NEW t, Take(t) \/ EnqueueStep(t) \/ FinishStep(t) PROVE Stays
    BY <2>7 DEF Take, EnqueueStep, FinishStep, claimVars, ledgerVars
  <2>8. Crash \/ ExitEmptied \/ ExitAtBound => Stays
    BY DEF Crash, ExitEmptied, ExitAtBound, Die, L!Abandon, ledgerVars
  <2>9. Sigterm \/ Restart \/ Purge \/ Tick \/ UNCHANGED vars => Stays
    BY DEF Sigterm, Restart, Purge, Tick, L!Purge, vars, claimVars, ledgerVars
  <2>10. QED
    BY <2>1, <2>2, <2>3, <2>4, <2>5, <2>6, <2>7, <2>8, <2>9 DEF Next, ClaimStep
<1>3. InLine(d)' => told'[d] # "failed"
  BY PipelineStep DEF PipelineInv, HandlerInv, HandlerAt
<1>4. QED
  BY <1>1, <1>2, <1>3 DEF Live, Undenied

\* The reservation saw every claim in play for its address: as a row that is
\* pending and no longer held, or sent, or as one purged long ago; one that was
\* denied it need not have seen.
LEMMA ReservedApart ==
  ASSUME PipelineInv, MoneyInv, NEW c \in Claims, NEW d \in Claims, c # d,
         Reserve(d), Undenied(c), req[c].addr = req[d].addr, req[c].net = req[d].net
  PROVE  stamp[c] < stamp[d] /\ Spaced(c, d)
<1>1. /\ TypeOK /\ L!TypeOK /\ HandlerAt(c) /\ RowAt(c) /\ MoneyAt(c)
      /\ clock \in Nat /\ stamp[c] \in Nat /\ stamp[d] \in Nat /\ cut \in Int
      /\ row[c] \in L!Rows \cup {NoRow}
  BY DEF PipelineInv, HandlerInv, RowInv, MoneyInv, TypeOK, L!TypeOK
<1>2. stamp[d] <= clock /\ clock - stamp[d] <= MaxStale /\ L!AddressFree(req[d], stamp[d])
  BY DEF Reserve, L!Reserve, L!Admissible
<1>3. Booked(c)
  BY DEF Undenied, Booked, MayPay
<1>4. CASE row[c] = NoRow
  <2>1. stamp[c] < cut /\ c \notin open
    BY <1>1, <1>3, <1>4 DEF RowAt, PipelineInv, LeaseInv
  <2>2. cut <= L!RetentionCutoff(clock)
    BY <1>1, <2>1 DEF PipelineInv, CutoffInv
  <2>3. L!RetentionCutoff(clock) \in Int /\ L!RetentionCutoff(clock) <= clock - Cooldown - Grace
    BY <1>1, CutoffBounds
  <2>4. QED
    BY <1>1, <1>2, <2>1, <2>2, <2>3, Numbers DEF Spaced
<1>5. CASE row[c] # NoRow
  <2>1. row[c].at = stamp[c] /\ row[c].req = req[c] /\ row[c].status \in L!Statuses
    BY <1>1, <1>5 DEF RowAt, L!Rows
  <2>2. ~L!LiveAfter(row[c], stamp[d])
    BY <1>2, <1>5, <2>1 DEF L!AddressFree, L!AddressRows, L!Stored
  <2>3. row[c].status # "failed"
    <3>1. ASSUME row[c].status = "failed" PROVE FALSE
      <4>1. c \notin open
        BY <3>1 DEF PipelineInv, LeaseInv
      <4>2. told[c] \in {"failed", "busy"}
        BY <1>1, <1>5, <3>1 DEF MoneyAt
      <4>3. ~InLine(c) /\ (told[c] = "busy" => ~MayPay(c))
        BY <1>1, <4>2, InLineHasArrived DEF HandlerAt, MoneyAt, MayPay
      <4>4. QED
        BY <4>1, <4>2, <4>3 DEF Undenied
    <3>2. QED
      BY <3>1
  <2>4. CASE row[c].status = "sent"
    BY <1>1, <2>1, <2>2, <2>4, Numbers DEF L!LiveAfter, Spaced
  <2>5. CASE row[c].status = "pending"
    <3>1. stamp[c] <= stamp[d] - PendingLeaseSeconds
      BY <1>1, <2>1, <2>2, <2>5, LeaseIsNat DEF L!LiveAfter
    <3>2. c \notin open
      BY <1>1, <1>2, <2>1, <3>1, LeaseIsNat DEF PipelineInv, LeaseInv
    <3>3. QED
      BY <1>1, <2>5, <3>1, <3>2, LeaseIsNat DEF Spaced, OnRecord
  <2>6. QED
    BY <2>1, <2>3, <2>4, <2>5 DEF L!Statuses
<1>6. QED
  BY <1>4, <1>5

\* Every step keeps the claims in play apart.
LEMMA SpacedStep ==
  ASSUME PipelineInv, MoneyInv, SpacedInv, [Next]_vars
  PROVE  SpacedInv'
<1> SUFFICES ASSUME NEW c \in Claims, NEW d \in Claims, c # d, Undenied(c)', Live(d)',
                    Undenied(d)' \/ stamp'[d] - stamp'[c] > MaxStale,
                    req'[c].addr = req'[d].addr, req'[c].net = req'[d].net, stamp'[c] <= stamp'[d]
             PROVE  Spaced(c, d)'
  BY DEF SpacedInv
<1>0. /\ stamp[c] \in Nat /\ stamp[d] \in Nat /\ clock \in Nat /\ MaxStale \in Nat
      /\ HandlerAt(d) /\ RowAt(d) /\ TypeOK
  BY Numbers DEF PipelineInv, TypeOK, L!TypeOK, HandlerInv, RowInv
<1>u. Live(c)'
  BY DEF Live, Undenied
<1>1. CASE Reserve(d)
  <2>1. UNCHANGED <<req, stamp>>
    BY <1>1 DEF Reserve
  <2>2. ~Reserve(c)
    BY <1>1 DEF Reserve, L!Reserve, PipelineInv, TypeOK
  <2>3. Undenied(c) /\ (OnRecord(c)' => OnRecord(c))
    BY <1>u, <2>2, Fades, DenialsStay
  <2>4. Spaced(c, d)
    BY <1>1, <2>1, <2>3, ReservedApart
  <2>5. QED
    BY <2>1, <2>3, <2>4 DEF Spaced
\* The one that started first may reserve last, but no later than MaxStale.
<1>2. CASE Reserve(c)
  <2>1. UNCHANGED <<req, stamp>> /\ clock - stamp[c] <= MaxStale
    BY <1>2 DEF Reserve, L!Reserve
  <2>2. ~Reserve(d)
    BY <1>2 DEF Reserve, L!Reserve, PipelineInv, TypeOK
  <2>3. Live(d)
    BY <2>2, Fades
  <2>4. stamp[d] <= clock
    <3>1. stage[d] # "new"
      BY <1>0, <2>3, InLineHasArrived DEF HandlerAt, RowAt, Live, MayPay
    <3>2. QED
      BY <1>0, <3>1 DEF HandlerAt
  <2>5. Undenied(d)
    <3>1. ~(stamp[d] - stamp[c] > MaxStale)
      BY <1>0, <2>1, <2>4
    <3>2. QED
      BY <2>1, <2>2, <3>1, DenialsStay
  <2>6. stamp[d] < stamp[c]
    BY <1>2, <2>1, <2>5, ReservedApart
  <2>7. QED
    BY <1>0, <2>1, <2>6
<1>3. CASE ~Reserve(c) /\ ~Reserve(d)
  <2>1. /\ Undenied(c) /\ req'[c] = req[c] /\ stamp'[c] = stamp[c] /\ (OnRecord(c)' => OnRecord(c))
        /\ Live(d) /\ req'[d] = req[d] /\ stamp'[d] = stamp[d] /\ (Undenied(d)' => Undenied(d))
    BY <1>u, <1>3, Fades, DenialsStay
  <2>2. Spaced(c, d)
    BY <2>1 DEF SpacedInv
  <2>3. QED
    BY <2>1, <2>2 DEF Spaced
<1>4. QED
  BY <1>1, <1>2, <1>3

\* PaymentsApart for any sender: of two payments to one address on one network,
\* the earlier was not denied by the sender, nor the later, unless its handler
\* started more than MaxStale after the earlier one's.
UndeniedApart ==
    \A c, d \in Claims :
        /\ c # d
        /\ op[c] = "paid" /\ told[c] # "failed"
        /\ op[d] = "paid" /\ (told[d] = "failed" => stamp[d] - stamp[c] > MaxStale)
        /\ req[c].addr = req[d].addr
        /\ req[c].net = req[d].net
        /\ stamp[c] <= stamp[d]
        => stamp[d] - stamp[c] >=
              IF OnRecord(c) \/ PendingLeaseSeconds >= Cooldown THEN Cooldown
                                                              ELSE PendingLeaseSeconds

\* Even behind a blind sender the second payment inside a cooldown takes a
\* payment that the sender denied: nothing else in the pipeline, the drain or
\* the crashes brings two payments nearer than the lease.
THEOREM DeniedOrSpaced == Spec => []UndeniedApart
<1> DEFINE Inv == PipelineInv /\ MoneyInv /\ SpacedInv
<1>1. Init => Inv
  <2>1. Init => SpacedInv
    BY LineEmptied DEF Init, L!Init, W!Init, SpacedInv, Live, Undenied, InLine, MayPay
  <2>2. QED
    BY <2>1, PipelineInit, MoneyInit
<1>2. Inv /\ [Next]_vars => Inv'
  BY PipelineStep, MoneyStep, SpacedStep
<1>3. Inv => UndeniedApart
  <2> SUFFICES ASSUME Inv, NEW c \in Claims, NEW d \in Claims, c # d,
                      op[c] = "paid", told[c] # "failed",
                      op[d] = "paid", told[d] = "failed" => stamp[d] - stamp[c] > MaxStale,
                      req[c].addr = req[d].addr, req[c].net = req[d].net, stamp[c] <= stamp[d]
               PROVE  stamp[d] - stamp[c] >=
                         IF OnRecord(c) \/ PendingLeaseSeconds >= Cooldown THEN Cooldown
                                                                           ELSE PendingLeaseSeconds
    BY DEF UndeniedApart
  <2>1. Spaced(c, d) /\ stamp[c] \in Nat /\ stamp[d] \in Nat
    BY DEF SpacedInv, Live, Undenied, MayPay, PipelineInv, TypeOK
  <2>2. QED
    BY <2>1, Numbers, LeaseIsNat DEF Spaced
<1> HIDE DEF Inv
<1>4. QED
  BY <1>1, <1>2, <1>3, PTL DEF Spec

\* Two payments to one address on one network are a cooldown apart, and still
\* a lease apart when the record of the first was lost: by a crash, an exit at
\* the drain's bound, a finalise that failed or a ledger that did not answer.
THEOREM PaymentsSpaced ==
  ASSUME BlindNets = {}
  PROVE  Spec => []PaymentsApart
<1>1. MoneyInv => \A c \in Claims : op[c] = "paid" => told[c] # "failed"
  BY DEF MoneyInv, MoneyAt
<1>2. MoneyInv /\ UndeniedApart => PaymentsApart
  BY <1>1 DEF UndeniedApart, PaymentsApart
<1>3. QED
  BY <1>2, MoneyInvariant, DeniedOrSpaced, PTL

-----------------------------------------------------------------------------
(* The pipeline keeps its side of the sender's contract.                    *)

\* What the pipeline sees of the send of one claim: the wallet's operation, and
\* the outcome it was told; "busy" and "deadline" are the queue's, no sender's.
Contract(c) == INSTANCE Sender
               WITH op <- op[c], told <- IF told[c] \in Outcomes THEN told[c] ELSE "none"
ContractStep(c) ==
    [Contract(c)!Asks \/ Contract(c)!Ends \/ Contract(c)!Settles]_(Contract(c)!senderVars)

\* Every step of the pipeline is, for each claim, a step of the abstract sender:
\* the wallet is asked once, by the task that holds it, before any outcome.
LEMMA StepsOfASender ==
  ASSUME BlindNets = {}, PipelineInv, [Next]_vars, NEW d \in Claims
  PROVE  ContractStep(d)
<1> USE DEF ContractStep, Contract!senderVars
<1>0. TypeOK /\ LineTyped /\ QueueInv /\ HandlerAt(d)
  BY TypeParts DEF PipelineInv, HandlerInv
<1>q. ASSUME UNCHANGED <<op, told>> PROVE ContractStep(d)
  BY <1>q
<1>1. ASSUME NEW c \in Claims, NEW q \in L!Requests, Arrive(c, q) PROVE UNCHANGED <<op, told>>
  BY <1>1 DEF Arrive
<1>2. ASSUME NEW c \in Claims,
             GateRefuses(c) \/ Blocked(c) \/ ReserveLost(c) \/ Reserve(c) \/ Conclude(c)
      PROVE UNCHANGED <<op, told>>
  BY <1>2 DEF GateRefuses, Blocked, ReserveLost, Reserve, Conclude
<1>3. ASSUME NEW c \in Claims, Enqueue(c) PROVE ContractStep(d)
  <2>1. op' = op /\ (told' = told \/ (told' = [told EXCEPT ![c] = "busy"] /\ stage[c] = "reserved"))
    BY <1>3 DEF Enqueue
  <2>2. stage[d] = "reserved" => told[d] = "none"
    BY <1>0 DEF HandlerAt
  <2>3. QED
    BY <1>0, <2>1, <2>2 DEF TypeOK, Outcomes
<1>4. ASSUME NEW t, Take(t) \/ EnqueueStep(t) \/ FinishStep(t) PROVE UNCHANGED <<op, told>>
  BY <1>4 DEF Take, EnqueueStep, FinishStep, claimVars
<1>5. ASSUME NEW c \in Claims, Submit(c) PROVE ContractStep(d)
  <2>1. told' = told /\ holder = c /\ op[c] = "none" /\ op' = [op EXCEPT ![c] = "inflight"]
    BY <1>5 DEF Submit, claimVars
  <2>2. InLine(c)
    BY <1>0, <2>1, HolderIsInLine, TasksApart DEF Tasks
  <2>3. told[c] \notin Outcomes
    BY <2>2 DEF PipelineInv, HandlerInv, HandlerAt, Outcomes
  <2>4. QED
    BY <1>0, <2>1, <2>3 DEF TypeOK, Contract!Asks
<1>6. ASSUME NEW c \in Claims, OpEnds(c) PROVE ContractStep(d)
  <2>1. told' = told /\ op[c] = "inflight" /\ \E end \in {"paid", "dead"} : op' = [op EXCEPT ![c] = end]
    BY <1>6 DEF OpEnds, claimVars
  <2>2. QED
    BY <1>0, <2>1 DEF TypeOK, Contract!Ends
<1>7. ASSUME NEW c \in Claims, Finish(c) PROVE ContractStep(d)
  <2>1. PICK outcome \in SenderReports(req[c].net, op[c]) :
           told' = [told EXCEPT ![c] = IF @ = "none" THEN outcome ELSE @]
    BY <1>7 DEF Finish
  <2>2. op' = op /\ outcome \in Contract(c)!Reports(op[c]) /\ outcome \in Outcomes
    BY <1>7, <2>1 DEF Finish, SenderReports, Contract!Reports, Outcomes
  <2>3. CASE d = c /\ told[c] = "none"
    BY <1>0, <2>1, <2>2, <2>3 DEF TypeOK, Outcomes, Contract!Settles, Contract!Reports
  <2>4. CASE d # c \/ told[c] # "none"
    BY <1>0, <2>1, <2>2, <2>4 DEF TypeOK
  <2>5. QED
    BY <2>3, <2>4
<1>8. ASSUME NEW c \in Claims, Deadline(c) PROVE ContractStep(d)
  <2>1. op' = op /\ told[c] = "none" /\ told' = [told EXCEPT ![c] = "deadline"]
    BY <1>8 DEF Deadline
  <2>2. QED
    BY <1>0, <2>1 DEF TypeOK, Outcomes
<1>9. Crash \/ ExitEmptied \/ ExitAtBound => UNCHANGED <<op, told>>
  BY DEF Crash, ExitEmptied, ExitAtBound, Die
<1>10. Sigterm \/ Restart \/ Purge \/ Tick \/ UNCHANGED vars => UNCHANGED <<op, told>>
  BY DEF Sigterm, Restart, Purge, Tick, vars, claimVars
<1>11. QED
  BY <1>q, <1>1, <1>2, <1>3, <1>4, <1>5, <1>6, <1>7, <1>8, <1>9, <1>10 DEF Next, ClaimStep

\* The claim route uses its sender as the abstract one is made to be used, and
\* expects no more of it: whatever the queue, the deadline, the drain and the
\* crashes do, each claim asks the wallet once at the most and only before an
\* outcome, and is told no outcome that ImplementsItsPromise does not grant.
THEOREM PipelineKeepsTheContract ==
  ASSUME BlindNets = {}, NEW c \in Claims
  PROVE  Spec => Contract(c)!SenderSpec
<1>1. Init => Contract(c)!SenderInit
  BY DEF Init, Contract!SenderInit, Outcomes
<1>2. PipelineInv /\ [Next]_vars
      => [Contract(c)!Asks \/ Contract(c)!Ends \/ Contract(c)!Settles]_(Contract(c)!senderVars)
  BY StepsOfASender DEF ContractStep
<1>3. QED
  BY <1>1, <1>2, PipelineInvariant, PTL DEF Spec, Contract!SenderSpec

-----------------------------------------------------------------------------
(* One send: what it answers is what the abstract sender may answer, and it  *)
(* answers within the worst case.                                           *)

\* How late it may be at each place: what is spent in front of the loop, the
\* operation's time, one more sleep, and the attempts and sleeps of a
\* pollStatus() so far.
Begun == deadline <= 2 * RpcTimeout + OpTimeout
OnTime ==
    /\ at = "unlocking" => elapsed = 0
    /\ at = "submitting" => elapsed <= RpcTimeout
    /\ at = "replying" => elapsed <= RpcTimeout
    /\ at = "polling" =>
          /\ Begun
          /\ tries = 0 => elapsed <= deadline + PollEvery
          /\ tries = 1 => elapsed <= deadline + 2 * PollEvery + RpcTimeout
          /\ tries = 2 => elapsed <= deadline + 4 * PollEvery + 2 * RpcTimeout
    /\ at = "collecting" =>
          Begun /\ elapsed <= deadline + 4 * PollEvery + 3 * RpcTimeout
    /\ at = "settled" => elapsed <= OpTimeout + 6 * RpcTimeout + 6 * PollEvery

\* What the wallet can have done by the time send() is there, and that only
\* send() settles.
Asked ==
    /\ at \in {"unlocking", "submitting"} => wallet = "none"
    /\ at \in {"replying", "polling", "collecting"} => wallet # "none"
    /\ id = "known" => wallet \in {"running", "paid", "failed"}
    /\ answer = "none" <=> at # "settled"
    /\ at \notin {"polling"} => tries = 0

ZalletInv == ZalletTypeOK /\ OnTime /\ Asked

\* The sleeps and the worst case, as numbers.
LEMMA Sleeps == BackoffSleeps = 6 /\ WorstCase = OpTimeout + 6 * RpcTimeout + 6 * PollEvery
  BY ZalletSendAssumption DEF BackoffSleeps, WorstCase, PollRetries

\* The budget holds at the start.
LEMMA InitZallet == ZalletInit => ZalletInv
  BY ZalletSendAssumption DEF ZalletInit, ZalletInv, ZalletTypeOK, OnTime, Asked, PollRetries

\* Every step keeps the budget.
LEMMA StepZallet == ZalletInv /\ [ZalletNext]_zalletVars => ZalletInv'
<1> USE ZalletSendAssumption DEF ZalletInv, ZalletTypeOK, OnTime, Asked, Begun, PollRetries
<1> SUFFICES ASSUME ZalletInv, [ZalletNext]_zalletVars PROVE ZalletInv'
  OBVIOUS
<1>1. CASE Unlock
  BY <1>1 DEF Unlock, Call, Settle
<1>2. CASE TurnedAway
  BY <1>2 DEF TurnedAway, Call, Settle
<1>3. CASE Ask
  BY <1>3 DEF Ask
<1>4. CASE ReplyLost
  BY <1>4 DEF ReplyLost, Call, Settle
<1>5. CASE Refused
  BY <1>5 DEF Refused, Call, Settle
<1>6. CASE Accepted
  BY <1>6 DEF Accepted, Call, Spawned
<1>7. CASE PollFinal
  BY <1>7 DEF PollFinal, Call
<1>8. CASE PollPending
  BY <1>8 DEF PollPending, Settle
<1>9. CASE PollFails
  BY <1>9 DEF PollFails, Call, Settle
<1>10. CASE Collect
  BY <1>10 DEF Collect, Call, Settle
<1>11. CASE Wallet
  BY <1>11 DEF Wallet, Decides, OperationEnds, WalletRestarts, sendVars
<1>12. CASE UNCHANGED zalletVars
  BY <1>12 DEF zalletVars
<1> QED
  BY <1>1, <1>2, <1>3, <1>4, <1>5, <1>6, <1>7, <1>8, <1>9, <1>10, <1>11, <1>12 DEF ZalletNext, SendGoesOn

\* send() keeps its types, for all timeouts.
THEOREM ZalletTypes == ZalletSpec => []ZalletTypeOK
  BY InitZallet, StepZallet, PTL DEF ZalletSpec, ZalletInv

\* send() has settled when the worst case that the queue's deadline and the
\* claims' lease are made of is over, if a poll is no slower than a call.
THEOREM InTime == ZalletSpec => []WithinWorstCase
<1>1. ZalletInv => WithinWorstCase
  BY Sleeps, ZalletSendAssumption
  DEF ZalletInv, ZalletTypeOK, OnTime, Begun, WithinWorstCase, PollRetries
<1> QED
  BY <1>1, InitZallet, StepZallet, PTL DEF ZalletSpec

-----------------------------------------------------------------------------
(* The refinement.  A step of send() that settles answers within the reports *)
(* that what the wallet has done allows for, and every other step of send()  *)
(* but the request itself is a stutter.                                      *)

\* The sender starts as the abstract one.
LEMMA InitSender == ZalletInit => S!SenderInit
  BY DEF ZalletInit, S!SenderInit, Payment, AnswerClass

\* Every step of the sender is one of the abstract sender.
LEMMA StepSender == ZalletInv /\ [ZalletNext]_zalletVars => [S!Asks \/ S!Ends \/ S!Settles]_S!senderVars
<1> USE DEF ZalletInv, ZalletTypeOK, Asked, Payment, AnswerClass
<1> SUFFICES ASSUME ZalletInv, [ZalletNext]_zalletVars
             PROVE  [S!Asks \/ S!Ends \/ S!Settles]_S!senderVars
  OBVIOUS
<1>1. CASE Unlock
  BY <1>1 DEF Unlock, Settle, S!Settles, S!Reports, S!senderVars
<1>2. CASE TurnedAway
  BY <1>2 DEF TurnedAway, Settle, S!Settles, S!Reports
<1>3. CASE Ask
  BY <1>3 DEF Ask, S!Asks
<1>4. CASE ReplyLost
  BY <1>4 DEF ReplyLost, Settle, S!Settles, S!Reports
<1>5. CASE Refused
  BY <1>5 DEF Refused, Settle, S!Settles, S!Reports
<1>6. CASE Accepted
  BY <1>6 DEF Accepted, S!senderVars
<1>7. CASE PollFinal
  BY <1>7 DEF PollFinal, S!senderVars
<1>8. CASE PollPending
  BY <1>8 DEF PollPending, Settle, S!Settles, S!Reports, S!senderVars
<1>9. CASE PollFails
  BY <1>9 DEF PollFails, Settle, S!Settles, S!Reports, S!senderVars
<1>10. CASE Collect
  BY <1>10 DEF Collect, Settle, S!Settles, S!Reports
<1>11. CASE Wallet
  BY <1>11 DEF Wallet, Decides, OperationEnds, WalletRestarts, sendVars, S!Ends, S!senderVars
<1>12. CASE UNCHANGED zalletVars
  BY <1>12 DEF zalletVars, S!senderVars
<1> QED
  BY <1>1, <1>2, <1>3, <1>4, <1>5, <1>6, <1>7, <1>8, <1>9, <1>10, <1>11, <1>12 DEF ZalletNext, SendGoesOn

\* Whatever is lost between the faucet and its wallet, send() answers as the
\* claim route takes it: "ok" is a payment, and "failed" is none for good.
THEOREM ImplementsItsPromise == ZalletSpec => ImplementsSender
  BY InitZallet, StepZallet, InitSender, StepSender, PTL DEF ZalletSpec, ImplementsSender, S!SenderSpec
=============================================================================
