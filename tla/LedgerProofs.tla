---------------------------- MODULE LedgerProofs ----------------------------
(***************************************************************************)
(* Proofs about the ledger, for any windows, lease, limits and clients.    *)
(*                                                                         *)
(* What carries them: a row whose handler is still open is pending and     *)
(* inside its lease (OpenInv), so every reserve at that time counts it.    *)
(* Finalising it therefore never brings an uncounted row back, and a limit *)
(* that held when a row was reserved holds for as long as it counts.       *)
(***************************************************************************)
EXTENDS Ledger, FiniteSetTheorems, TLAPS

\* Open rows are pending and inside their lease.
OpenInv ==
    \A c \in open :
       /\ row[c] # NoRow
       /\ row[c].status = "pending"
       /\ clock < row[c].at + Lease

\* No purge was handed a cutoff newer than the present allows; the initial
\* cutoff lies before every row.
CutInv == cut <= RetentionCutoff(clock) \/ cut = -1

LedgerInv == TypeOK /\ OpenInv /\ CutInv

\* The status changes of one row leave the request and the time alone.
LEMMA SetStatusKeeps ==
    ASSUME TypeOK, NEW c \in Claims, NEW status \in Statuses, SetStatus(c, status)
    PROVE  /\ row' \in [Claims -> Rows \cup {NoRow}]
           /\ \A d \in Claims : d # c => row'[d] = row[d]
           /\ row[c] = NoRow => row'[c] = NoRow
           /\ row[c] # NoRow => /\ row'[c] # NoRow
                                /\ row'[c].req = row[c].req
                                /\ row'[c].at = row[c].at
                                /\ row'[c].status = status
  BY NoRowAssumption DEF TypeOK, SetStatus, Stored, Rows

\* The empty ledger.
LEMMA LedgerInit == Init => LedgerInv
  BY LedgerAssumption DEF Init, LedgerInv, TypeOK, OpenInv, CutInv

\* A cutoff lies a grace below every window that could still count a row.
LEMMA CutoffInt ==
    ASSUME NEW now \in Int
    PROVE  /\ RetentionCutoff(now) \in Int
           /\ RetentionCutoff(now) <= now - Cooldown - Grace
           /\ RetentionCutoff(now) <= now - Day - Grace
           /\ RetentionCutoff(now) <= now - Lease - Grace
  BY LedgerAssumption DEF RetentionCutoff, LaterOf

\* A later purge cuts no earlier.
LEMMA CutoffMonotone ==
    ASSUME NEW m \in Int, NEW n \in Int, m <= n
    PROVE  RetentionCutoff(m) <= RetentionCutoff(n)
  BY LedgerAssumption DEF RetentionCutoff, LaterOf

\* Every step keeps the rows typed, the open ones fresh, and the cutoff old.
LEMMA LedgerStep == LedgerInv /\ [Next]_ledgerVars => LedgerInv'
  <1> SUFFICES ASSUME LedgerInv, [Next]_ledgerVars PROVE LedgerInv'
    OBVIOUS
  <1> USE LedgerAssumption, NoRowAssumption DEF LedgerInv
  <1>1. ASSUME NEW c \in Claims, NEW q \in Requests, NEW now \in 0..clock, Reserve(c, q, now)
        PROVE LedgerInv'
    <2>1. [req |-> q, status |-> "pending", at |-> now] \in Rows
      BY <1>1 DEF Rows, Statuses, TypeOK
    <2>2. TypeOK'
      BY <1>1, <2>1, CutoffInt DEF Reserve, TypeOK, LaterOf
    <2>3. OpenInv'
      BY <1>1, <2>1 DEF Reserve, TypeOK, OpenInv
    <2>4. CutInv'
      <3>1. RetentionCutoff(now) <= RetentionCutoff(clock) /\ RetentionCutoff(now) \in Int
        BY <1>1, CutoffMonotone, CutoffInt DEF TypeOK
      <3>2. QED
        BY <1>1, <3>1 DEF Reserve, CutInv, LaterOf, TypeOK
    <2>5. QED
      BY <2>2, <2>3, <2>4
  <1>2. ASSUME NEW c \in Claims, NEW status \in {"sent", "failed"}, Finalize(c, status)
        PROVE LedgerInv'
    <2>1. /\ row' \in [Claims -> Rows \cup {NoRow}]
          /\ \A d \in Claims : d # c => row'[d] = row[d]
      BY <1>2, SetStatusKeeps DEF Finalize, Statuses
    <2>2. TypeOK'
      BY <1>2, <2>1 DEF Finalize, TypeOK
    <2>3. OpenInv'
      BY <1>2, <2>1 DEF Finalize, TypeOK, OpenInv
    <2>4. CutInv'
      BY <1>2 DEF Finalize, CutInv
    <2>5. QED
      BY <2>2, <2>3, <2>4
  <1>3. ASSUME NEW lost \in SUBSET open, Abandon(lost) PROVE LedgerInv'
    BY <1>3 DEF Abandon, TypeOK, OpenInv, CutInv
  <1>0. ASSUME NEW now \in 0..clock, Refuse(now) PROVE LedgerInv'
    <2>1. /\ RetentionCutoff(now) <= RetentionCutoff(clock)
          /\ RetentionCutoff(now) \in Int
          /\ RetentionCutoff(clock) \in Int
      BY <1>0, CutoffMonotone, CutoffInt DEF TypeOK
    <2>2. QED
      BY <1>0, <2>1 DEF Refuse, TypeOK, OpenInv, CutInv, LaterOf
  <1>4. CASE Purge
    <2>1. TypeOK'
      BY <1>4 DEF Purge, TypeOK
    <2>2. OpenInv'
      <3>1. ASSUME NEW c \in open PROVE ~(c \in Stored /\ row[c].at < cut)
        <4>1. row[c] \in Rows /\ row[c].at \in Nat /\ clock < row[c].at + Lease
          BY DEF OpenInv, TypeOK, Rows
        <4>2. RetentionCutoff(clock) <= clock - Lease - Grace
          BY CutoffInt DEF TypeOK
        <4>3. QED
          BY <4>1, <4>2, CutoffInt DEF CutInv, TypeOK
      <3>2. QED
        BY <1>4, <3>1 DEF Purge, OpenInv, TypeOK
    <2>3. CutInv'
      BY <1>4 DEF Purge, CutInv
    <2>4. QED
      BY <2>1, <2>2, <2>3
  <1>5. CASE Tick
    <2>1. TypeOK' /\ OpenInv'
      BY <1>5 DEF Tick, TypeOK, OpenInv
    <2>2. CutInv'
      <3>0. clock \in Int /\ clock + 1 \in Int /\ clock <= clock + 1
        BY DEF TypeOK
      <3>1. /\ RetentionCutoff(clock) <= RetentionCutoff(clock + 1)
            /\ RetentionCutoff(clock) \in Int
            /\ RetentionCutoff(clock + 1) \in Int
        BY <3>0, CutoffMonotone, CutoffInt
      <3>2. QED
        BY <1>5, <3>1 DEF Tick, CutInv, TypeOK
    <2>3. QED
      BY <2>1, <2>2
  <1>6. CASE UNCHANGED ledgerVars
    BY <1>6 DEF ledgerVars, TypeOK, OpenInv, CutInv, Stored
  <1>7. QED
    BY <1>0, <1>1, <1>2, <1>3, <1>4, <1>5, <1>6 DEF Next

\* The table, the clock and the purge cutoff are well typed, open rows fresh.
THEOREM LedgerInductive == Spec => []LedgerInv
  BY LedgerInit, LedgerStep, PTL DEF Spec

\* The type invariant of the ledger.
THEOREM LedgerTypes == Spec => []TypeOK
  <1>1. LedgerInv => TypeOK
    BY DEF LedgerInv
  <1>2. QED
    BY LedgerInductive, <1>1, PTL

-----------------------------------------------------------------------------
\* One drip per address and network per cooldown (RESERVE_SQL's first clause),
\* for every interleaving of reserves with stale clocks, late or lost
\* finalises, crashes and purges.
THEOREM AddressCooldown == Spec => []AddressSpacing
  <1>1. Init => AddressSpacing
    BY DEF Init, AddressSpacing, Counted, Stored
  <1>2. LedgerInv /\ AddressSpacing /\ [Next]_ledgerVars => AddressSpacing'
    <2> SUFFICES ASSUME LedgerInv, AddressSpacing, [Next]_ledgerVars
                 PROVE AddressSpacing'
      OBVIOUS
    <2> USE LedgerAssumption, NoRowAssumption DEF LedgerInv
    \* Whatever counts after a step other than Reserve counted before it.
    <2> DEFINE Kept == \A d \in Claims : Counted(d)' =>
                          /\ Counted(d)
                          /\ row'[d].req = row[d].req
                          /\ row'[d].at = row[d].at
    <2>0. Kept => AddressSpacing'
      BY DEF AddressSpacing
    <2>1. ASSUME NEW c \in Claims, NEW q \in Requests, NEW now \in 0..clock, Reserve(c, q, now)
          PROVE AddressSpacing'
      <3> DEFINE new == [req |-> q, status |-> "pending", at |-> now]
      <3>1. row'[c] = new /\ \A d \in Claims : d # c => row'[d] = row[d]
        BY <2>1 DEF Reserve, TypeOK
      <3>2. \A d \in Claims : d # c /\ Counted(d)' => Counted(d)
        BY <2>1, <3>1 DEF Reserve, Counted, Stored
      <3>3. ASSUME NEW d \in Claims, d # c, Counted(d),
                   row[d].req.addr = q.addr, row[d].req.net = q.net
            PROVE now >= row[d].at + Cooldown
        <4>1. d \in Stored /\ ~LiveAfter(row[d], now)
          BY <2>1, <3>3 DEF Reserve, Admissible, AddressFree, AddressRows, Counted
        <4>2. row[d].at \in Nat /\ now \in Nat /\ clock \in Nat /\ now <= clock
          BY <4>1 DEF TypeOK, Stored, Rows
        <4>3. row[d].status # "pending" \/ d \notin open
          BY <4>1, <4>2 DEF OpenInv, LiveAfter
        <4>4. row[d].status = "sent"
          BY <3>3, <4>3 DEF Counted, OpenInv
        <4>5. QED
          BY <4>1, <4>2, <4>4 DEF LiveAfter
      <3>4. ASSUME NEW d \in Claims, NEW e \in Claims, d # e, Counted(d)', Counted(e)',
                   row'[d].req.addr = row'[e].req.addr, row'[d].req.net = row'[e].req.net
            PROVE row'[d].at >= row'[e].at + Cooldown \/ row'[e].at >= row'[d].at + Cooldown
        <4>1. CASE d = c
          BY <3>1, <3>2, <3>3, <3>4, <4>1
        <4>2. CASE e = c
          BY <3>1, <3>2, <3>3, <3>4, <4>2
        <4>3. CASE d # c /\ e # c
          BY <3>1, <3>2, <3>4, <4>3 DEF AddressSpacing
        <4>4. QED
          BY <4>1, <4>2, <4>3
      <3>5. QED
        BY <3>4 DEF AddressSpacing
    <2>2. ASSUME NEW c \in Claims, NEW status \in {"sent", "failed"}, Finalize(c, status)
          PROVE AddressSpacing'
      <3>1. /\ \A d \in Claims : d # c => row'[d] = row[d]
            /\ row'[c].req = row[c].req
            /\ row'[c].at = row[c].at
            /\ c \in Stored
        BY <2>2, SetStatusKeeps DEF Finalize, Statuses, OpenInv, Stored
      <3>2. Kept
        BY <2>2, <3>1 DEF Finalize, Counted, Stored
      <3>3. QED
        BY <2>0, <3>2
    <2>3. ASSUME NEW lost \in SUBSET open, Abandon(lost) PROVE AddressSpacing'
      <3>1. Kept
        BY <2>3 DEF Abandon, Counted, Stored
      <3>2. QED
        BY <2>0, <3>1
    <2>4. CASE Purge
      <3>1. Kept
        BY <2>4 DEF Purge, Counted, Stored
      <3>2. QED
        BY <2>0, <3>1
    <2>5. CASE Tick \/ UNCHANGED ledgerVars \/ \E now \in 0..clock : Refuse(now)
      <3>1. row' = row /\ open' = open
        BY <2>5 DEF Tick, ledgerVars, Refuse
      <3>3. Kept
        BY <3>1 DEF Counted, Stored
      <3>2. QED
        BY <2>0, <3>3
    <2>6. QED
      BY <2>1, <2>2, <2>3, <2>4, <2>5 DEF Next
  <1>3. QED
    BY <1>1, <1>2, LedgerInductive, PTL DEF Spec

\* Retention deletes nothing a limit could still count (retentionCutoff()).
THEOREM PurgeSafe == Spec => PurgeReleasesNothing
  <1>1. LedgerInv /\ [Next]_ledgerVars => [PurgeKeepsCounted]_ledgerVars
    <2> SUFFICES ASSUME LedgerInv, Next, NEW c \in Claims, row[c] # NoRow, row'[c] = NoRow
                 PROVE ~LiveAfter(row[c], clock - MaxStale) /\ ~LiveSince(row[c], clock - MaxStale)
      BY DEF PurgeKeepsCounted
    <2> USE LedgerAssumption, NoRowAssumption DEF LedgerInv
    <2>1. Purge
      <3>1. ASSUME NEW d \in Claims, NEW q \in Requests, NEW now \in 0..clock, Reserve(d, q, now)
            PROVE row'[c] # NoRow
        <4>1. [req |-> q, status |-> "pending", at |-> now] \in Rows
          BY <3>1 DEF Rows, Statuses, TypeOK
        <4>2. QED
          BY <3>1, <4>1 DEF Reserve, TypeOK
      <3>2. ASSUME NEW d \in Claims, NEW status \in {"sent", "failed"}, Finalize(d, status)
            PROVE row'[c] # NoRow
        BY <3>2, SetStatusKeeps DEF Finalize, Statuses
      <3>3. ASSUME Tick \/ (\E lost \in SUBSET open : Abandon(lost))
                   \/ \E now \in 0..clock : Refuse(now)
            PROVE row'[c] # NoRow
        BY <3>3 DEF Abandon, Tick, Refuse
      <3>4. QED
        BY <3>1, <3>2, <3>3 DEF Next
    <2>2. row[c].at < cut
      BY <2>1 DEF Purge, Stored
    <2>3. row[c].at \in Nat /\ clock \in Int
      BY DEF TypeOK, Rows
    <2>4. row[c].at < RetentionCutoff(clock)
      BY <2>2, <2>3, CutoffInt DEF CutInv, TypeOK
    <2>5. QED
      BY <2>3, <2>4, CutoffInt DEF LiveAfter, LiveSince
  <1>2. QED
    BY <1>1, LedgerInductive, PTL DEF Spec, PurgeReleasesNothing

-----------------------------------------------------------------------------
(* The three counted limits.  A step other than Reserve only shrinks what   *)
(* counts now; a Reserve adds one row to what it found below the limit.     *)

Shrinks ==
    \A d \in Claims : d \in Stored' =>
        /\ d \in Stored
        /\ row'[d].req = row[d].req
        /\ LiveAfter(row[d], clock)' => LiveAfter(row[d], clock)
        /\ LiveSince(row[d], clock)' => LiveSince(row[d], clock)

\* No step but a reserve makes a row count that did not.
LEMMA OnlyReserveAdds ==
    ASSUME LedgerInv, [Next]_ledgerVars
    PROVE  Shrinks \/ \E c \in Claims, q \in Requests : \E now \in 0..clock : Reserve(c, q, now)
  <1> USE LedgerAssumption, NoRowAssumption DEF LedgerInv
  <1>1. ASSUME NEW c \in Claims, NEW status \in {"sent", "failed"}, Finalize(c, status)
        PROVE Shrinks
    <2>1. /\ \A d \in Claims : d # c => row'[d] = row[d]
          /\ row'[c].req = row[c].req
          /\ row'[c].at = row[c].at
          /\ row'[c].status = status
          /\ c \in Stored
      BY <1>1, SetStatusKeeps DEF Finalize, Statuses, OpenInv, Stored
    <2>2. /\ clock' = clock
          /\ row[c].status = "pending"
          /\ clock \in Nat
          /\ row[c].at \in Nat
          /\ clock < row[c].at + Lease
      BY <1>1, <2>1 DEF Finalize, OpenInv, TypeOK, Rows, Stored
    <2>3. LiveAfter(row[c], clock) /\ LiveSince(row[c], clock)
      BY <2>2 DEF LiveAfter, LiveSince
    <2>4. QED
      BY <2>1, <2>2, <2>3 DEF Shrinks, Stored, LiveAfter, LiveSince
  <1>2. ASSUME (\E lost \in SUBSET open : Abandon(lost))
               \/ \E now \in 0..clock : Refuse(now)
        PROVE Shrinks
    <2>1. row' = row /\ clock' = clock
      BY <1>2 DEF Abandon, Refuse
    <2>2. QED
      BY <2>1 DEF Shrinks, Stored, LiveAfter, LiveSince
  <1>3. ASSUME Purge PROVE Shrinks
    BY <1>3 DEF Purge, Shrinks, Stored, LiveAfter, LiveSince
  <1>4. ASSUME Tick PROVE Shrinks
    <2>1. \A d \in Stored : row[d].at \in Nat
      BY DEF TypeOK, Stored, Rows
    <2>2. QED
      BY <1>4, <2>1 DEF Tick, Shrinks, Stored, LiveAfter, LiveSince, TypeOK
  <1>5. ASSUME UNCHANGED ledgerVars PROVE Shrinks
    BY <1>5 DEF ledgerVars, Shrinks, Stored, LiveAfter, LiveSince
  <1>6. QED
    BY <1>1, <1>2, <1>3, <1>4, <1>5 DEF Next

\* What counts at the present second counts for a reserve with an older clock.
LEMMA StaleClockCountsMore ==
    ASSUME TypeOK, NEW c \in Claims, NEW q \in Requests, NEW now \in 0..clock, Reserve(c, q, now)
    PROVE  /\ clock' = clock
           /\ row'[c].req = q
           /\ \A d \in Claims : d # c => row'[d] = row[d]
           /\ \A d \in Stored : /\ LiveAfter(row[d], clock) => LiveAfter(row[d], now)
                                /\ LiveSince(row[d], clock) => LiveSince(row[d], now)
  <1>1. \A d \in Stored : row[d].at \in Nat
    BY DEF TypeOK, Stored, Rows
  <1>2. QED
    BY <1>1, LedgerAssumption DEF Reserve, TypeOK, LiveAfter, LiveSince

\* Fewer rows, smaller count.
LEMMA FewerRows ==
    ASSUME NEW S, NEW T, S \subseteq T, T \subseteq Claims
    PROVE  Cardinality(S) \in Nat /\ Cardinality(T) \in Nat /\ Cardinality(S) <= Cardinality(T)
  <1>1. IsFiniteSet(T)
    BY LedgerAssumption, FS_Subset
  <1>2. IsFiniteSet(S) /\ Cardinality(S) <= Cardinality(T)
    BY <1>1, FS_Subset
  <1>3. QED
    BY <1>1, <1>2, FS_CardinalityType

\* One more row, a count larger by at most one.
LEMMA OneMoreRow ==
    ASSUME NEW S, NEW T, NEW c \in Claims, S \subseteq T \cup {c}, T \subseteq Claims
    PROVE  Cardinality(S) \in Nat /\ Cardinality(T) \in Nat /\ Cardinality(S) <= Cardinality(T) + 1
  <1>1. IsFiniteSet(T) /\ Cardinality(T) \in Nat
    BY LedgerAssumption, FS_Subset, FS_CardinalityType
  <1>2. Cardinality(T \cup {c}) = IF c \in T THEN Cardinality(T) ELSE Cardinality(T) + 1
    BY <1>1, FS_AddElement
  <1>3. Cardinality(S) \in Nat /\ Cardinality(S) <= Cardinality(T \cup {c})
    BY FewerRows
  <1>4. QED
    BY <1>1, <1>2, <1>3

\* The cost of a number of drips: it grows with the number, and one more drip
\* costs one amount more.
LEMMA CostGrows ==
    ASSUME NEW a \in Nat, NEW cap \in Nat, NEW m \in Nat, NEW k \in Nat, m <= k, a * k <= cap
    PROVE  a * m <= cap
  <1>1. PICK d \in Nat : k = m + d
    <2>1. k - m \in Nat /\ k = m + (k - m)
      OBVIOUS
    <2>2. QED
      BY <2>1
  <1>2. a * k = a * m + a * d /\ a * d \in Nat
    BY <1>1
  <1>3. QED
    BY <1>2

\* The promise of a network grows by one drip with the row a reserve adds.
LEMMA CostOfOneMore ==
    ASSUME NEW a \in Nat, NEW cap \in Nat, NEW m \in Nat, NEW k \in Nat,
           m <= k + 1, a * k + a <= cap
    PROVE  a * m <= cap
  <1>1. a * (k + 1) = a * k + a /\ k + 1 \in Nat
    OBVIOUS
  <1>2. QED
    BY <1>1, CostGrows

\* No connection holds more live drips on a network than its allowance.
THEOREM IpCap == Spec => []IpAllowance
  <1>1. Init => IpAllowance
    <2> SUFFICES ASSUME Init, NEW ip \in Ips, NEW net \in Nets
                 PROVE Cardinality(IpRows(ip, net, clock)) <= IpDailyMax
      BY DEF IpAllowance
    <2>1. IpRows(ip, net, clock) = {}
      BY DEF Init, IpRows, Stored
    <2>2. QED
      BY <2>1, FS_EmptySet, LedgerAssumption
  <1>2. LedgerInv /\ IpAllowance /\ [Next]_ledgerVars => IpAllowance'
    <2> SUFFICES ASSUME LedgerInv, IpAllowance, [Next]_ledgerVars, NEW ip \in Ips, NEW net \in Nets
                 PROVE Cardinality(IpRows(ip, net, clock)') <= IpDailyMax
      BY DEF IpAllowance
    <2> USE LedgerAssumption DEF LedgerInv
    <2>0. /\ Cardinality(IpRows(ip, net, clock)) <= IpDailyMax
          /\ \A now : IpRows(ip, net, now) \subseteq Claims
      BY DEF IpAllowance, IpRows, Stored
    <2>1. CASE Shrinks
      <3>1. IpRows(ip, net, clock)' \subseteq IpRows(ip, net, clock)
        BY <2>1 DEF Shrinks, IpRows, Stored
      <3>2. /\ Cardinality(IpRows(ip, net, clock)') \in Nat
            /\ Cardinality(IpRows(ip, net, clock)) \in Nat
            /\ Cardinality(IpRows(ip, net, clock)') <= Cardinality(IpRows(ip, net, clock))
        BY <2>0, <3>1, FewerRows
      <3>3. QED
        BY <2>0, <3>2
    <2>2. ASSUME NEW c \in Claims, NEW q \in Requests, NEW now \in 0..clock, Reserve(c, q, now)
          PROVE Cardinality(IpRows(ip, net, clock)') <= IpDailyMax
      <3>1. CASE q.ip = ip /\ q.net = net
        <4>1. IpRows(ip, net, clock)' \subseteq IpRows(ip, net, now) \cup {c}
          BY <2>2, StaleClockCountsMore DEF IpRows, Stored
        <4>2. Cardinality(IpRows(ip, net, now)) < IpDailyMax
          BY <2>2, <3>1 DEF Reserve, Admissible, IpFree
        <4>3. /\ Cardinality(IpRows(ip, net, clock)') \in Nat
              /\ Cardinality(IpRows(ip, net, now)) \in Nat
              /\ Cardinality(IpRows(ip, net, clock)') <= Cardinality(IpRows(ip, net, now)) + 1
          BY <2>0, <4>1, OneMoreRow
        <4>4. QED
          BY <4>2, <4>3
      <3>2. CASE ~(q.ip = ip /\ q.net = net)
        <4>1. IpRows(ip, net, clock)' \subseteq IpRows(ip, net, clock)
          BY <2>2, <3>2, StaleClockCountsMore DEF IpRows, Stored
        <4>2. /\ Cardinality(IpRows(ip, net, clock)') \in Nat
              /\ Cardinality(IpRows(ip, net, clock)) \in Nat
              /\ Cardinality(IpRows(ip, net, clock)') <= Cardinality(IpRows(ip, net, clock))
          BY <2>0, <4>1, FewerRows
        <4>3. QED
          BY <2>0, <4>2
      <3>3. QED
        BY <3>1, <3>2
    <2>3. QED
      BY <2>1, <2>2, OnlyReserveAdds
  <1>3. QED
    BY <1>1, <1>2, LedgerInductive, PTL DEF Spec

\* No subnet holds more live drips than its allowance, over all networks.
THEOREM SubnetCap == Spec => []SubnetAllowance
  <1>1. Init => SubnetAllowance
    <2> SUFFICES ASSUME Init, NEW subnet \in Subnets
                 PROVE Cardinality(SubnetRows(subnet, clock)) <= SubnetDailyMax
      BY DEF SubnetAllowance
    <2>1. SubnetRows(subnet, clock) = {}
      BY DEF Init, SubnetRows, Stored
    <2>2. QED
      BY <2>1, FS_EmptySet, LedgerAssumption
  <1>2. LedgerInv /\ SubnetAllowance /\ [Next]_ledgerVars => SubnetAllowance'
    <2> SUFFICES ASSUME LedgerInv, SubnetAllowance, [Next]_ledgerVars, NEW subnet \in Subnets
                 PROVE Cardinality(SubnetRows(subnet, clock)') <= SubnetDailyMax
      BY DEF SubnetAllowance
    <2> USE LedgerAssumption DEF LedgerInv
    <2>0. /\ Cardinality(SubnetRows(subnet, clock)) <= SubnetDailyMax
          /\ \A now : SubnetRows(subnet, now) \subseteq Claims
      BY DEF SubnetAllowance, SubnetRows, Stored
    <2>1. CASE Shrinks
      <3>1. SubnetRows(subnet, clock)' \subseteq SubnetRows(subnet, clock)
        BY <2>1 DEF Shrinks, SubnetRows, Stored
      <3>2. /\ Cardinality(SubnetRows(subnet, clock)') \in Nat
            /\ Cardinality(SubnetRows(subnet, clock)) \in Nat
            /\ Cardinality(SubnetRows(subnet, clock)') <= Cardinality(SubnetRows(subnet, clock))
        BY <2>0, <3>1, FewerRows
      <3>3. QED
        BY <2>0, <3>2
    <2>2. ASSUME NEW c \in Claims, NEW q \in Requests, NEW now \in 0..clock, Reserve(c, q, now)
          PROVE Cardinality(SubnetRows(subnet, clock)') <= SubnetDailyMax
      <3>1. CASE q.subnet = subnet
        <4>1. SubnetRows(subnet, clock)' \subseteq SubnetRows(subnet, now) \cup {c}
          BY <2>2, StaleClockCountsMore DEF SubnetRows, Stored
        <4>2. Cardinality(SubnetRows(subnet, now)) < SubnetDailyMax
          BY <2>2, <3>1 DEF Reserve, Admissible, SubnetFree
        <4>3. /\ Cardinality(SubnetRows(subnet, clock)') \in Nat
              /\ Cardinality(SubnetRows(subnet, now)) \in Nat
              /\ Cardinality(SubnetRows(subnet, clock)') <= Cardinality(SubnetRows(subnet, now)) + 1
          BY <2>0, <4>1, OneMoreRow
        <4>4. QED
          BY <4>2, <4>3
      <3>2. CASE q.subnet # subnet
        <4>1. SubnetRows(subnet, clock)' \subseteq SubnetRows(subnet, clock)
          BY <2>2, <3>2, StaleClockCountsMore DEF SubnetRows, Stored
        <4>2. /\ Cardinality(SubnetRows(subnet, clock)') \in Nat
              /\ Cardinality(SubnetRows(subnet, clock)) \in Nat
              /\ Cardinality(SubnetRows(subnet, clock)') <= Cardinality(SubnetRows(subnet, clock))
          BY <2>0, <4>1, FewerRows
        <4>3. QED
          BY <2>0, <4>2
      <3>3. QED
        BY <3>1, <3>2
    <2>3. QED
      BY <2>1, <2>2, OnlyReserveAdds
  <1>3. QED
    BY <1>1, <1>2, LedgerInductive, PTL DEF Spec

\* What a network owes for the last day stays under its cap.
THEOREM DailyCapHeld == Spec => []WithinDailyCap
  <1>1. Init => WithinDailyCap
    <2> SUFFICES ASSUME Init, NEW net \in Nets
                 PROVE Amount[net] * Cardinality(CapRows(net, clock)) <= DailyCap[net]
      BY DEF WithinDailyCap
    <2>1. CapRows(net, clock) = {}
      BY DEF Init, CapRows, Stored
    <2>2. Amount[net] \in Nat /\ DailyCap[net] \in Nat
      BY LedgerAssumption
    <2>3. QED
      BY <2>1, <2>2, FS_EmptySet
  <1>2. LedgerInv /\ WithinDailyCap /\ [Next]_ledgerVars => WithinDailyCap'
    <2> SUFFICES ASSUME LedgerInv, WithinDailyCap, [Next]_ledgerVars, NEW net \in Nets
                 PROVE Amount[net] * Cardinality(CapRows(net, clock)') <= DailyCap[net]
      BY DEF WithinDailyCap
    <2> USE DEF LedgerInv
    <2>0. /\ Amount[net] * Cardinality(CapRows(net, clock)) <= DailyCap[net]
          /\ \A now : CapRows(net, now) \subseteq Claims
          /\ Amount[net] \in Nat
          /\ DailyCap[net] \in Nat
      BY LedgerAssumption DEF WithinDailyCap, CapRows, Stored
    <2>1. ASSUME CapRows(net, clock)' \subseteq CapRows(net, clock)
          PROVE Amount[net] * Cardinality(CapRows(net, clock)') <= DailyCap[net]
      <3>1. /\ Cardinality(CapRows(net, clock)') \in Nat
            /\ Cardinality(CapRows(net, clock)) \in Nat
            /\ Cardinality(CapRows(net, clock)') <= Cardinality(CapRows(net, clock))
        BY <2>0, <2>1, FewerRows
      <3>2. QED
        BY <2>0, <3>1, CostGrows
    <2>2. CASE Shrinks
      BY <2>1, <2>2 DEF Shrinks, CapRows, Stored
    <2>3. ASSUME NEW c \in Claims, NEW q \in Requests, NEW now \in 0..clock, Reserve(c, q, now)
          PROVE Amount[net] * Cardinality(CapRows(net, clock)') <= DailyCap[net]
      <3>1. CASE q.net = net
        <4>1. CapRows(net, clock)' \subseteq CapRows(net, now) \cup {c}
          BY <2>3, StaleClockCountsMore DEF CapRows, Stored
        <4>2. Amount[net] * Cardinality(CapRows(net, now)) + Amount[net] <= DailyCap[net]
          BY <2>3, <3>1 DEF Reserve, Admissible, CapFree
        <4>3. /\ Cardinality(CapRows(net, clock)') \in Nat
              /\ Cardinality(CapRows(net, now)) \in Nat
              /\ Cardinality(CapRows(net, clock)') <= Cardinality(CapRows(net, now)) + 1
          BY <2>0, <4>1, OneMoreRow
        <4>4. QED
          BY <2>0, <4>2, <4>3, CostOfOneMore
      <3>2. CASE q.net # net
        BY <2>1, <2>3, <3>2, StaleClockCountsMore DEF CapRows, Stored
      <3>3. QED
        BY <3>1, <3>2
    <2>4. QED
      BY <2>2, <2>3, OnlyReserveAdds
  <1>3. QED
    BY <1>1, <1>2, LedgerInductive, PTL DEF Spec

\* The connection, the subnet and the day keep their limits.
THEOREM Quantities == Spec => []QuantityLimits
  <1>1. IpAllowance /\ SubnetAllowance /\ WithinDailyCap => QuantityLimits
    BY DEF QuantityLimits
  <1>2. QED
    BY <1>1, IpCap, SubnetCap, DailyCapHeld, PTL
=============================================================================
