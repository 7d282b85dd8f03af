--------------------------- MODULE DiagnosisProofs ---------------------------
(* Proofs about the answer of whyBlocked(), for any windows, lease, limits    *)
(* and clients, and with the other handlers' steps between the statements.    *)
(*                                                                            *)
(* The waits are true because of a fact about the table that the spacing of   *)
(* drips alone does not give: of two rows of one address that can block, one  *)
(* has expired before the other was reserved (Apart), also when the handler   *)
(* of the newer one is gone and its row is nobody's.                          *)
EXTENDS Diagnosis, LedgerProofs, NaturalsInduction, WellFoundedInduction

CanBlock(c) == c \in Stored /\ row[c].status \in {"sent", "pending"}
Until(c) == Expiry(row[c], Cooldown)

\* Every row was reserved in the past.
RowsArePast == \A c \in Stored : row[c].at <= clock

\* The blocking times of one address do not overlap.
Apart ==
    \A c, d \in Claims :
        /\ c # d
        /\ CanBlock(c)
        /\ CanBlock(d)
        /\ row[c].req.addr = row[d].req.addr
        /\ row[c].req.net = row[d].req.net
        => Until(c) <= row[d].at \/ Until(d) <= row[c].at

TableInv == LedgerInv /\ RowsArePast /\ Apart

\* The statements asked so far have found nothing, and so has the INSERT.
Passed ==
    CASE step = "address" -> {}
      [] step = "connection" -> {"address"}
      [] step = "subnet" -> {"address", "connection"}
      [] step = "cap" -> {"address", "connection", "subnet"}

AskTyped ==
    /\ step \in {"idle", "told"} \cup Limits
    /\ ask \in [q : Requests, now : Nat] \cup {Nothing}
    /\ step # "idle" => ask \in [q : Requests, now : Nat]
    /\ cause \subseteq Limits
    /\ disturbed \in BOOLEAN
    /\ told \in AnswerRecords \cup {Nothing}

CauseStands ==
    ~disturbed /\ step \in Limits =>
        /\ cause = Refusing(ask.q, ask.now)
        /\ cause # {}
        /\ cause \cap Passed = {}

DiagInv == TableInv /\ AskTyped /\ CauseStands

-----------------------------------------------------------------------------
(* The table.                                                              *)

\* A row that can block does so until it expires, and not longer.
LEMMA LiveUntil ==
  ASSUME TypeOK, NEW c \in Stored, NEW now \in Int
  PROVE  /\ Until(c) \in Nat /\ row[c].at \in Nat /\ row[c].at < Until(c)
         /\ LiveAfter(row[c], now) <=> CanBlock(c) /\ now < Until(c)
  BY LedgerAssumption DEF TypeOK, Stored, Rows, Until, Expiry, LiveAfter, CanBlock

\* An open row can block, and has not expired.
LEMMA OpenBlocks ==
  ASSUME LedgerInv, NEW c \in open
  PROVE  CanBlock(c) /\ row[c].status = "pending" /\ clock < Until(c)
  BY DEF LedgerInv, TypeOK, OpenInv, CanBlock, Until, Expiry, Stored

\* The table begins empty.
LEMMA TableStarts == Init => TableInv
  BY LedgerInit DEF Init, TableInv, RowsArePast, Apart, CanBlock, Stored

\* Rows that only go leave the others as they were.
LEMMA FewerApart ==
  ASSUME Apart, \A c \in Claims : CanBlock(c)' => CanBlock(c) /\ row'[c] = row[c]
  PROVE  Apart'
  BY DEF Apart, Until, Expiry

\* Every step keeps the rows of one address apart.
LEMMA TableStep == TableInv /\ [Next]_ledgerVars => TableInv'
<1> SUFFICES ASSUME TableInv, [Next]_ledgerVars PROVE TableInv'
  OBVIOUS
<1>1. LedgerInv /\ RowsArePast /\ Apart /\ LedgerInv' /\ TypeOK /\ TypeOK'
  BY LedgerStep DEF TableInv, LedgerInv
<1>2. clock \in Nat /\ \A c \in Stored : row[c].at \in Nat
  BY <1>1 DEF TypeOK, Stored, Rows
<1>3. ASSUME NEW c \in Claims, NEW q \in Requests, NEW now \in 0..clock, Reserve(c, q, now)
      PROVE  RowsArePast' /\ Apart'
  <2>1. /\ row' = [row EXCEPT ![c] = [req |-> q, status |-> "pending", at |-> now]]
        /\ clock' = clock /\ now \in Nat /\ AddressFree(q, now)
    BY <1>2, <1>3 DEF Reserve, Admissible
  <2>2. /\ row'[c] = [req |-> q, status |-> "pending", at |-> now]
        /\ \A d \in Claims : d # c => row'[d] = row[d]
    BY <1>1, <2>1 DEF TypeOK
  <2>3. RowsArePast'
    BY <1>2, <1>1, <2>1, <2>2 DEF RowsArePast, Stored
  <2>4. \A d \in Claims : d # c => (CanBlock(d)' <=> CanBlock(d)) /\ Until(d)' = Until(d)
    BY <2>2 DEF CanBlock, Stored, Until
  <2>5. ASSUME NEW d \in Claims, d # c, CanBlock(d)', row'[d].req.addr = q.addr, row'[d].req.net = q.net
        PROVE  Until(d)' <= row'[c].at
    <3>1. d \in Stored /\ CanBlock(d) /\ ~LiveAfter(row[d], now)
      BY <2>1, <2>2, <2>4, <2>5 DEF AddressFree, AddressRows, CanBlock
    <3>2. ~(now < Until(d)) /\ Until(d) \in Nat
      BY <1>1, <2>1, <3>1, LiveUntil
    <3> QED
      BY <2>1, <2>2, <2>4, <2>5, <3>2
  <2>6. ASSUME NEW d \in Claims, NEW e \in Claims, d # e, CanBlock(d)', CanBlock(e)',
               row'[d].req.addr = row'[e].req.addr, row'[d].req.net = row'[e].req.net
        PROVE  Until(d)' <= row'[e].at \/ Until(e)' <= row'[d].at
    <3>1. CASE e = c
      BY <2>2, <2>5, <2>6, <3>1
    <3>2. CASE d = c
      BY <2>2, <2>5, <2>6, <3>2
    <3>3. CASE d # c /\ e # c
      BY <1>1, <2>2, <2>4, <2>6, <3>3 DEF Apart
    <3> QED
      BY <3>1, <3>2, <3>3
  <2> QED
    BY <2>3, <2>6 DEF Apart
<1>4. ASSUME NEW c \in Claims, NEW status \in {"sent", "failed"}, Finalize(c, status)
      PROVE  RowsArePast' /\ Apart'
  <2>1. /\ c \in open /\ clock' = clock
        /\ \A d \in Claims : d # c => row'[d] = row[d]
        /\ row'[c] # NoRow /\ row'[c].req = row[c].req /\ row'[c].at = row[c].at
        /\ row'[c].status = status
        /\ CanBlock(c) /\ clock < Until(c) /\ c \in Stored
    BY <1>1, <1>4, SetStatusKeeps, OpenBlocks DEF Finalize, Statuses, CanBlock, Stored
  <2>2. RowsArePast'
    BY <1>1, <2>1 DEF RowsArePast, Stored
  <2>3. \A d \in Claims : d # c => (CanBlock(d)' <=> CanBlock(d)) /\ Until(d)' = Until(d)
    BY <2>1 DEF CanBlock, Stored, Until
  <2>4. ASSUME NEW d \in Claims, d # c, CanBlock(d)',
               row'[d].req.addr = row'[c].req.addr, row'[d].req.net = row'[c].req.net
        PROVE  Until(d)' <= row'[c].at
    <3>1. CanBlock(d) /\ row[d].req.addr = row[c].req.addr /\ row[d].req.net = row[c].req.net
      BY <2>1, <2>3, <2>4
    <3>2. Until(d) <= row[c].at \/ Until(c) <= row[d].at
      BY <1>1, <2>1, <2>4, <3>1 DEF Apart
    <3>3. row[d].at <= clock /\ row[d].at \in Nat /\ Until(c) \in Nat
      BY <1>1, <1>2, <2>1, <3>1, LiveUntil DEF RowsArePast, CanBlock
    <3> QED
      BY <1>2, <2>1, <2>3, <2>4, <3>2, <3>3
  <2>5. ASSUME NEW d \in Claims, NEW e \in Claims, d # e, CanBlock(d)', CanBlock(e)',
               row'[d].req.addr = row'[e].req.addr, row'[d].req.net = row'[e].req.net
        PROVE  Until(d)' <= row'[e].at \/ Until(e)' <= row'[d].at
    <3>1. CASE e = c
      BY <2>4, <2>5, <3>1
    <3>2. CASE d = c
      BY <2>4, <2>5, <3>2
    <3>3. CASE d # c /\ e # c
      BY <1>1, <2>1, <2>3, <2>5, <3>3 DEF Apart
    <3> QED
      BY <3>1, <3>2, <3>3
  <2> QED
    BY <2>2, <2>5 DEF Apart
<1>5. ASSUME \A c \in Claims : row'[c] = NoRow \/ row'[c] = row[c], clock' \in Nat, clock' >= clock
      PROVE  RowsArePast' /\ Apart'
  <2>1. \A c \in Claims : CanBlock(c)' => CanBlock(c) /\ row'[c] = row[c]
    BY <1>5 DEF CanBlock, Stored
  <2>3. Apart'
    BY <1>1, <2>1, FewerApart
  <2>2. RowsArePast'
    BY <1>1, <1>2, <1>5 DEF RowsArePast, Stored
  <2> QED
    BY <2>2, <2>3
<1>6. CASE Purge \/ Tick \/ UNCHANGED <<row, clock>>
  <2>1. \A c \in Claims : row'[c] = NoRow \/ row'[c] = row[c]
    BY <1>6 DEF Purge, Tick
  <2>2. clock' \in Nat /\ clock' >= clock
    BY <1>2, <1>6 DEF Purge, Tick
  <2> QED
    BY <1>1, <1>5, <2>1, <2>2 DEF TableInv
<1> QED
  BY <1>1, <1>3, <1>4, <1>6 DEF Next, Abandon, Refuse, ledgerVars, TableInv

-----------------------------------------------------------------------------
(* The statements and the limits they are about.                           *)

\* The four statements count what the INSERT counts.
LEMMA SameRows ==
  ASSUME NEW q, NEW now
  PROVE  /\ BlockingRows(q, now) = AddressRows(q, now)
         /\ WindowRows(q, now) = IpRows(q.ip, q.net, now)
         /\ SubnetCount(q, now) = Cardinality(SubnetRows(q.subnet, now))
         /\ CapWindow(q, now) = CapRows(q.net, now)
  BY DEF BlockingRows, AddressRows, WindowRows, IpRows, SubnetCount, SubnetRows, CapWindow,
         CapRows, LiveAfter, LiveSince

\* A set of numbers has a smallest one, which Smallest() is.
LEMMA SmallestIsLeast ==
  ASSUME NEW S \in SUBSET Nat, S # {}
  PROVE  Smallest(S) \in S /\ \A m \in S : Smallest(S) <= m
<1> DEFINE R == OpToRel(<, Nat)
<1>1. IsWellFoundedOn(R, Nat)
  BY NatLessThanWellFounded
<1>2. \A x, y \in Nat : x < y => <<x, y>> \in R
  BY DEF OpToRel
<1> HIDE DEF R
<1>3. PICK x \in S : \A y \in S : <<y, x>> \notin R
  BY <1>1, WFMin, Zenon
<1>4. \A y \in S : ~(y < x)
  BY <1>2, <1>3
<1>5. \A y \in S : x <= y
  BY <1>4
<1> QED
  BY <1>3, <1>5 DEF Smallest

\* A set of rows has a newest one, which Newest() is.
LEMMA NewestIsLast ==
  ASSUME TypeOK, RowsArePast, NEW S, S \subseteq Stored, S # {}
  PROVE  Newest(S) \in S /\ \A d \in S : row[d].at <= row[Newest(S)].at
<1> DEFINE age(c) == clock - row[c].at
           ages == {age(c) : c \in S}
<1>1. \A c \in S : row[c].at \in Nat /\ row[c].at <= clock /\ clock \in Nat
  BY DEF TypeOK, RowsArePast, Stored, Rows
<1>2. ages \in SUBSET Nat /\ ages # {}
  BY <1>1
<1>3. Smallest(ages) \in ages /\ \A m \in ages : Smallest(ages) <= m
  BY <1>2, SmallestIsLeast
<1>4. PICK c \in S : Smallest(ages) = age(c)
  BY <1>3
<1>5. \A d \in S : age(c) <= age(d)
  BY <1>3, <1>4
<1>6. \A d \in S : row[d].at <= row[c].at
  BY <1>1, <1>5
<1> QED
  BY <1>6 DEF Newest

\* The wait of the address: one second before its end the newest row still
\* blocks, and at its end no row of the address does.
LEMMA AddressWait ==
  ASSUME TableInv, NEW q \in Requests, NEW now \in Nat, BlockingRows(q, now) # {},
         NEW wait, wait = AtLeastOne(Expiry(row[Newest(BlockingRows(q, now))], Cooldown) - now)
  PROVE  /\ wait \in Nat
         /\ AddressFree(q, now + wait)
         /\ ~AddressFree(q, now + wait - 1)
<1> DEFINE rows == BlockingRows(q, now)
           c == Newest(rows)
<1>0. TypeOK /\ RowsArePast /\ Apart
  BY DEF TableInv, LedgerInv
<1>1. rows \subseteq Stored /\ rows = AddressRows(q, now)
  BY SameRows DEF AddressRows
<1>2. c \in rows /\ \A d \in rows : row[d].at <= row[c].at
  BY <1>0, <1>1, NewestIsLast
<1> HIDE DEF c, rows
<1>3. /\ c \in Stored /\ row[c].req.addr = q.addr /\ row[c].req.net = q.net
      /\ LiveAfter(row[c], now)
  BY <1>1, <1>2 DEF AddressRows
<1>4. Until(c) \in Nat /\ CanBlock(c) /\ now < Until(c) /\ row[c].at < Until(c) /\ row[c].at \in Nat
  BY <1>0, <1>3, LiveUntil
<1>5. wait = AtLeastOne(Until(c) - now)
  BY DEF Until, c, rows
<1>6. wait \in Nat /\ now + wait = Until(c) /\ now + wait - 1 = Until(c) - 1
  BY <1>4, <1>5 DEF AtLeastOne, LaterOf
<1>7. ASSUME NEW d \in AddressRows(q, Until(c)) PROVE FALSE
  <2>1. /\ d \in Stored /\ row[d].req.addr = q.addr /\ row[d].req.net = q.net
        /\ LiveAfter(row[d], Until(c))
    BY <1>7 DEF AddressRows
  <2>2. CanBlock(d) /\ Until(c) < Until(d) /\ Until(d) \in Nat /\ row[d].at \in Nat
    BY <1>0, <1>4, <2>1, LiveUntil
  <2>3. now < Until(d)
    BY <1>4, <2>2
  <2>4. LiveAfter(row[d], now)
    BY <1>0, <2>1, <2>2, <2>3, LiveUntil
  <2>5. d \in rows
    BY <1>1, <2>1, <2>4 DEF AddressRows
  <2>6. row[d].at <= row[c].at /\ d # c
    BY <1>2, <1>4, <2>2, <2>5
  <2>7. Until(c) <= row[d].at \/ Until(d) <= row[c].at
    BY <1>0, <1>3, <1>4, <2>1, <2>2, <2>6 DEF Apart, Stored
  <2> QED
    BY <1>4, <2>2, <2>6, <2>7
<1>8. c \in AddressRows(q, Until(c) - 1)
  <2>1. LiveAfter(row[c], Until(c) - 1)
    BY <1>0, <1>3, <1>4, LiveUntil
  <2> QED
    BY <1>3, <2>1 DEF AddressRows
<1> QED
  BY <1>6, <1>7, <1>8 DEF AddressFree

\* The wait of the connection: one second before its end nothing has expired,
\* and at its end one row at least has.
LEMMA ConnectionWait ==
  ASSUME TypeOK, NEW q \in Requests, NEW now \in Nat, q.ip # NoBucket,
         Cardinality(WindowRows(q, now)) >= IpDailyMax,
         NEW wait,
         wait = AtLeastOne(Smallest({Expiry(row[c], Cooldown) : c \in WindowRows(q, now)}) - now)
  PROVE  /\ wait \in Nat
         /\ Cardinality(IpRows(q.ip, q.net, now)) <= IpDailyMax => IpFree(q, now + wait)
         /\ ~IpFree(q, now + wait - 1)
<1> DEFINE rows == IpRows(q.ip, q.net, now)
           expiries == {Until(c) : c \in rows}
           first == Smallest(expiries)
<1>1. rows \subseteq Claims /\ rows \subseteq Stored /\ WindowRows(q, now) = rows
  BY SameRows DEF IpRows, Stored
<1>2. IsFiniteSet(rows) /\ Cardinality(rows) \in Nat /\ Cardinality(rows) >= IpDailyMax
      /\ IpDailyMax \in Nat \ {0}
  BY <1>1, LedgerAssumption, FS_Subset, FS_CardinalityType
<1>3. rows # {}
  BY <1>2, FS_EmptySet
<1>4. \A c \in rows : Until(c) \in Nat /\ CanBlock(c) /\ now < Until(c)
  BY <1>1, LiveUntil DEF IpRows
<1>5. expiries \in SUBSET Nat /\ expiries # {}
  BY <1>3, <1>4
<1>6. first \in expiries /\ \A m \in expiries : first <= m
  BY <1>5, SmallestIsLeast
<1>7. PICK c \in rows : first = Until(c)
  BY <1>6
<1>8. first \in Nat /\ now < first
  BY <1>4, <1>7
<1>9. {Expiry(row[d], Cooldown) : d \in WindowRows(q, now)} = expiries
  BY <1>1 DEF Until
<1>10. wait \in Nat /\ now + wait = first /\ now + wait - 1 = first - 1
  <2>1. wait = AtLeastOne(first - now)
    BY <1>9
  <2> HIDE DEF first
  <2> QED
    BY <1>8, <2>1 DEF AtLeastOne, LaterOf
<1>11. ASSUME Cardinality(rows) <= IpDailyMax PROVE IpFree(q, first)
  <2>1. ASSUME NEW d \in IpRows(q.ip, q.net, first) PROVE d \in rows
    <3>1. d \in Stored /\ Until(d) \in Nat /\ CanBlock(d) /\ first < Until(d)
      BY <1>8, <2>1, LiveUntil DEF IpRows
    <3>2. now < Until(d)
      BY <1>8, <3>1
    <3>3. LiveAfter(row[d], now)
      BY <3>1, <3>2, LiveUntil
    <3> QED
      BY <2>1, <3>1, <3>3 DEF IpRows
  <2>2. c \notin IpRows(q.ip, q.net, first)
    BY <1>1, <1>7, <1>8, LiveUntil DEF IpRows
  <2>3. IpRows(q.ip, q.net, first) \subseteq rows \ {c}
    BY <2>1, <2>2
  <2>4. /\ Cardinality(rows \ {c}) = Cardinality(rows) - 1
        /\ IsFiniteSet(rows \ {c})
    BY <1>2, <1>7, FS_RemoveElement
  <2>5. Cardinality(IpRows(q.ip, q.net, first)) <= Cardinality(rows) - 1
        /\ Cardinality(IpRows(q.ip, q.net, first)) \in Nat
    BY <2>3, <2>4, FS_Subset, FS_CardinalityType
  <2> QED
    BY <1>2, <1>11, <2>5 DEF IpFree
<1>12. ~IpFree(q, first - 1)
  <2>1. rows \subseteq IpRows(q.ip, q.net, first - 1)
    <3> SUFFICES ASSUME NEW d \in rows PROVE d \in IpRows(q.ip, q.net, first - 1)
      OBVIOUS
    <3>1. d \in Stored /\ Until(d) \in Nat /\ CanBlock(d) /\ first <= Until(d)
      BY <1>1, <1>4, <1>6
    <3>2. first - 1 \in Int /\ first - 1 < Until(d)
      BY <1>8, <3>1
    <3>3. LiveAfter(row[d], first - 1)
      BY <3>1, <3>2, LiveUntil
    <3> QED
      BY <3>1, <3>3 DEF IpRows
  <2>2. IpRows(q.ip, q.net, first - 1) \subseteq Claims
    BY DEF IpRows, Stored
  <2>3. /\ Cardinality(rows) <= Cardinality(IpRows(q.ip, q.net, first - 1))
        /\ Cardinality(IpRows(q.ip, q.net, first - 1)) \in Nat
    BY <2>1, <2>2, FewerRows
  <2> QED
    BY <1>2, <2>3 DEF IpFree
<1> QED
  BY <1>10, <1>11, <1>12

-----------------------------------------------------------------------------
(* The refused handler.                                                    *)

\* What the INSERT refused it for at least one limit.
LEMMA RefusedForACause ==
  ASSUME NEW q, NEW now, ~Admissible(q, now)
  PROVE  Refusing(q, now) # {} /\ Refusing(q, now) \subseteq Limits
  BY DEF Admissible, Refusing, Limits

\* An answer given, or the next question.
LEMMA TellTypes ==
  ASSUME AskTyped, step \in Limits, NEW limit \in Limits, NEW wait \in Nat \cup {NoTime},
         Tell(limit, wait)
  PROVE  AskTyped' /\ CauseStands'
<1>1. [limit |-> limit, retryAfter |-> wait] \in AnswerRecords
  BY DEF AnswerRecords
<1>2. "told" \notin Limits /\ "idle" \notin Limits
  BY DEF Limits
<1>3. told' \in AnswerRecords /\ step' = "told" /\ UNCHANGED <<ask, cause, disturbed>>
  BY <1>1 DEF Tell
<1> QED
  BY <1>2, <1>3 DEF AskTyped, CauseStands

\* A statement that finds nothing clears its limit of the refusal.
LEMMA GoOnTypes ==
  ASSUME DiagInv, step \in Limits, NEW next \in Limits, GoOn(next),
         ~disturbed => cause \cap Passed' = {}
  PROVE  AskTyped' /\ CauseStands'
<1>1. /\ ask' = ask /\ cause' = cause /\ disturbed' = disturbed /\ told' = told /\ row' = row
      /\ step' = next /\ step # "idle"
  BY DEF GoOn, Limits, ledgerVars
<1>2. AskTyped'
  BY <1>1 DEF DiagInv, AskTyped
<1>3. Refusing(ask.q, ask.now)' = Refusing(ask.q, ask.now)
  BY <1>1 DEF Refusing, AddressFree, AddressRows, IpFree, IpRows, SubnetFree, SubnetRows, CapFree,
              CapRows, Stored
<1>4. CauseStands'
  BY <1>1, <1>3 DEF DiagInv, CauseStands
<1> QED
  BY <1>2, <1>4

\* What one of the four statements tells, or what it leaves for the next.
AnswerIsTrue ==
    told = Nothing /\ told' # Nothing /\ ~disturbed =>
       /\ told'.limit \in cause
       /\ told'.limit = "address" =>
             AddressFree(ask.q, Promised) /\ ~AddressFree(ask.q, Promised - 1)
       /\ told'.limit = "connection" /\ NoOlderClock =>
             IpFree(ask.q, Promised) /\ ~IpFree(ask.q, Promised - 1)

Asks == AskAddress \/ AskConnection \/ AskSubnet \/ AskCap

\* The statements leave the table alone.
LEMMA AsksLeaveTheTable ==
  ASSUME Asks
  PROVE  UNCHANGED ledgerVars /\ UNCHANGED <<ask, cause, disturbed>> /\ step \in Limits
  BY DEF Asks, AskAddress, AskConnection, AskSubnet, AskCap, Tell, GoOn, Limits

\* LIVE_BLOCK_SQL.
LEMMA AddressStep == DiagInv /\ AskAddress => AskTyped' /\ CauseStands' /\ AnswerIsTrue
<1> SUFFICES ASSUME DiagInv, AskAddress PROVE AskTyped' /\ CauseStands' /\ AnswerIsTrue
  OBVIOUS
<1>1. /\ TableInv /\ AskTyped /\ step = "address" /\ step \in Limits
      /\ ask.q \in Requests /\ ask.now \in Nat
      /\ {"address", "connection"} \subseteq Limits
  BY DEF DiagInv, AskTyped, AskAddress, Limits
<1>2. CASE BlockingRows(ask.q, ask.now) # {}
  <2> DEFINE wait == AtLeastOne(Expiry(row[Newest(BlockingRows(ask.q, ask.now))], Cooldown) - ask.now)
  <2>1. Tell("address", wait)
    BY <1>2 DEF AskAddress
  <2>2. /\ wait \in Nat
        /\ AddressFree(ask.q, ask.now + wait) /\ ~AddressFree(ask.q, ask.now + wait - 1)
    BY <1>1, <1>2, AddressWait
  <2> HIDE DEF wait
  <2>3. AskTyped' /\ CauseStands'
    BY <1>1, <2>1, <2>2, TellTypes
  <2>4. told' = [limit |-> "address", retryAfter |-> wait]
    BY <2>1 DEF Tell
  <2>5. told'.limit = "address" /\ Promised = ask.now + wait
    BY <2>4 DEF Promised
  <2>6. ~disturbed => "address" \in cause
    BY <1>1, <1>2, SameRows DEF DiagInv, CauseStands, Refusing, AddressFree
  <2>7. AddressFree(ask.q, Promised) /\ ~AddressFree(ask.q, Promised - 1)
    BY <1>1, <2>2, <2>5
  <2> QED
    BY <2>3, <2>5, <2>6, <2>7 DEF AnswerIsTrue
<1>3. CASE BlockingRows(ask.q, ask.now) = {}
  <2>1. GoOn("connection")
    BY <1>3 DEF AskAddress
  <2>2. ~disturbed => "address" \notin cause
    BY <1>1, <1>3, SameRows DEF DiagInv, CauseStands, Refusing, AddressFree
  <2>3. Passed' = {"address"} /\ told' = told
    BY <2>1 DEF Passed, GoOn
  <2>4. AskTyped' /\ CauseStands'
    BY <1>1, <2>1, <2>2, <2>3, GoOnTypes
  <2> QED
    BY <2>3, <2>4 DEF AnswerIsTrue
<1> QED
  BY <1>2, <1>3

\* IP_WINDOW_SQL.
LEMMA ConnectionStep == DiagInv /\ AskConnection => AskTyped' /\ CauseStands' /\ AnswerIsTrue
<1> SUFFICES ASSUME DiagInv, AskConnection PROVE AskTyped' /\ CauseStands' /\ AnswerIsTrue
  OBVIOUS
<1>1. /\ TableInv /\ TypeOK /\ AskTyped /\ step = "connection" /\ step \in Limits
      /\ ask.q \in Requests /\ ask.now \in Nat
      /\ {"connection", "subnet"} \subseteq Limits
  BY DEF DiagInv, AskTyped, AskConnection, Limits, TableInv, LedgerInv
<1>2. /\ IpFree(ask.q, ask.now) <=>
            ~(ask.q.ip # NoBucket /\ Cardinality(WindowRows(ask.q, ask.now)) >= IpDailyMax)
  <2>1. /\ WindowRows(ask.q, ask.now) = IpRows(ask.q.ip, ask.q.net, ask.now)
        /\ IpRows(ask.q.ip, ask.q.net, ask.now) \subseteq Claims
    BY SameRows DEF IpRows, Stored
  <2>2. Cardinality(IpRows(ask.q.ip, ask.q.net, ask.now)) \in Nat
    BY <2>1, FewerRows
  <2> QED
    BY <2>1, <2>2, LedgerAssumption DEF IpFree
<1>3. CASE ask.q.ip # NoBucket /\ Cardinality(WindowRows(ask.q, ask.now)) >= IpDailyMax
  <2> DEFINE wait == AtLeastOne(Smallest({Expiry(row[c], Cooldown) : c \in WindowRows(ask.q, ask.now)}) - ask.now)
  <2>1. Tell("connection", wait)
    BY <1>3 DEF AskConnection
  <2>2. /\ wait \in Nat
        /\ NoOlderClock => IpFree(ask.q, ask.now + wait)
        /\ ~IpFree(ask.q, ask.now + wait - 1)
    BY <1>1, <1>3, ConnectionWait DEF NoOlderClock
  <2> HIDE DEF wait
  <2>3. AskTyped' /\ CauseStands'
    BY <1>1, <2>1, <2>2, TellTypes
  <2>4. told' = [limit |-> "connection", retryAfter |-> wait]
    BY <2>1 DEF Tell
  <2>5. told'.limit = "connection" /\ Promised = ask.now + wait
    BY <2>4 DEF Promised
  <2>6. ~disturbed => "connection" \in cause
    BY <1>1, <1>2, <1>3 DEF DiagInv, CauseStands, Refusing
  <2>7. (NoOlderClock => IpFree(ask.q, Promised)) /\ ~IpFree(ask.q, Promised - 1)
    BY <1>1, <2>2, <2>5
  <2> QED
    BY <2>3, <2>5, <2>6, <2>7 DEF AnswerIsTrue
<1>4. CASE ~(ask.q.ip # NoBucket /\ Cardinality(WindowRows(ask.q, ask.now)) >= IpDailyMax)
  <2>1. GoOn("subnet")
    BY <1>4 DEF AskConnection
  <2>2. ~disturbed => "connection" \notin cause /\ "address" \notin cause
    BY <1>1, <1>2, <1>4 DEF DiagInv, CauseStands, Refusing, Passed
  <2>3. Passed' = {"address", "connection"} /\ told' = told
    BY <2>1 DEF Passed, GoOn
  <2>4. AskTyped' /\ CauseStands'
    BY <1>1, <2>1, <2>2, <2>3, GoOnTypes
  <2> QED
    BY <2>3, <2>4 DEF AnswerIsTrue
<1> QED
  BY <1>3, <1>4

\* SUBNET_COUNT_SQL.
LEMMA SubnetStep == DiagInv /\ AskSubnet => AskTyped' /\ CauseStands' /\ AnswerIsTrue
<1> SUFFICES ASSUME DiagInv, AskSubnet PROVE AskTyped' /\ CauseStands' /\ AnswerIsTrue
  OBVIOUS
<1>1. /\ AskTyped /\ step = "subnet" /\ step \in Limits /\ {"subnet", "cap"} \subseteq Limits
  BY DEF DiagInv, AskSubnet, Limits
<1>2. SubnetFree(ask.q, ask.now) <=>
         ~(ask.q.subnet # NoBucket /\ SubnetCount(ask.q, ask.now) >= SubnetDailyMax)
  <2>1. /\ SubnetCount(ask.q, ask.now) = Cardinality(SubnetRows(ask.q.subnet, ask.now))
        /\ SubnetRows(ask.q.subnet, ask.now) \subseteq Claims
    BY SameRows DEF SubnetRows, Stored
  <2>2. Cardinality(SubnetRows(ask.q.subnet, ask.now)) \in Nat
    BY <2>1, FewerRows
  <2> QED
    BY <2>1, <2>2, LedgerAssumption DEF SubnetFree
<1>3. CASE ask.q.subnet # NoBucket /\ SubnetCount(ask.q, ask.now) >= SubnetDailyMax
  <2>1. Tell("subnet", Hour)
    BY <1>3 DEF AskSubnet
  <2>2. AskTyped' /\ CauseStands'
    BY <1>1, <2>1, DiagnosisAssumption, TellTypes
  <2>3. told' = [limit |-> "subnet", retryAfter |-> Hour]
    BY <2>1 DEF Tell
  <2>4. told'.limit = "subnet"
    BY <2>3
  <2>5. ~disturbed => "subnet" \in cause
    BY <1>1, <1>2, <1>3 DEF DiagInv, CauseStands, Refusing
  <2> QED
    BY <2>2, <2>4, <2>5 DEF AnswerIsTrue
<1>4. CASE ~(ask.q.subnet # NoBucket /\ SubnetCount(ask.q, ask.now) >= SubnetDailyMax)
  <2>1. GoOn("cap")
    BY <1>4 DEF AskSubnet
  <2>2. ~disturbed => cause \cap {"address", "connection", "subnet"} = {}
    BY <1>1, <1>2, <1>4 DEF DiagInv, CauseStands, Refusing, Passed
  <2>3. Passed' = {"address", "connection", "subnet"} /\ told' = told
    BY <2>1 DEF Passed, GoOn
  <2>4. AskTyped' /\ CauseStands'
    BY <1>1, <2>1, <2>2, <2>3, GoOnTypes
  <2> QED
    BY <2>3, <2>4 DEF AnswerIsTrue
<1> QED
  BY <1>3, <1>4

\* CAP_WINDOW_SQL: what is left is the cap.
LEMMA CapStep == DiagInv /\ AskCap => AskTyped' /\ CauseStands' /\ AnswerIsTrue
<1> SUFFICES ASSUME DiagInv, AskCap PROVE AskTyped' /\ CauseStands' /\ AnswerIsTrue
  OBVIOUS
<1> DEFINE counted == CapWindow(ask.q, ask.now)
           expiries == {Expiry(row[c], Day) : c \in counted}
           wait == IF counted = {} THEN NoTime ELSE AtLeastOne(Smallest(expiries) - ask.now)
<1>1. /\ TypeOK /\ AskTyped /\ step = "cap" /\ step \in Limits /\ "cap" \in Limits /\ ask.now \in Nat
  BY DEF DiagInv, AskTyped, AskCap, Limits, TableInv, LedgerInv
<1>2. wait \in Nat \cup {NoTime}
  <2>1. counted \subseteq Stored
    BY DEF CapWindow
  <2>2. \A c \in counted : Expiry(row[c], Day) \in Nat
    BY <1>1, <2>1, LedgerAssumption DEF TypeOK, Stored, Rows, Expiry
  <2>3. expiries \in SUBSET Nat /\ (counted # {} => expiries # {})
    BY <2>2
  <2>4. counted # {} => Smallest(expiries) \in Nat
    BY <2>3, SmallestIsLeast
  <2> HIDE DEF counted, expiries
  <2> QED
    BY <1>1, <2>4 DEF AtLeastOne, LaterOf
<1>3. Tell("cap", wait)
  BY DEF AskCap
<1> HIDE DEF wait
<1>4. AskTyped' /\ CauseStands'
  BY <1>1, <1>2, <1>3, TellTypes
<1>5. told' = [limit |-> "cap", retryAfter |-> wait]
  BY <1>3 DEF Tell
<1>6. told'.limit = "cap"
  BY <1>5
<1>7. ~disturbed => "cap" \in cause
  BY <1>1 DEF DiagInv, AskTyped, CauseStands, Passed, Limits
<1> QED
  BY <1>4, <1>6, <1>7 DEF AnswerIsTrue

\* A handler is refused before anyone asks why.
LEMMA DiagStarts == DiagInit => DiagInv
<1> SUFFICES ASSUME DiagInit PROVE DiagInv
  OBVIOUS
<1>1. TableInv
  BY TableStarts DEF DiagInit
<1>2. AskTyped /\ CauseStands
  BY DEF DiagInit, AskTyped, CauseStands, Limits
<1> QED
  BY <1>1, <1>2 DEF DiagInv

\* Every step of the refused handler and of the others.
LEMMA DiagStep == DiagInv /\ [DiagNext]_diagVars => DiagInv' /\ AnswerIsTrue
<1> SUFFICES ASSUME DiagInv, [DiagNext]_diagVars PROVE DiagInv' /\ AnswerIsTrue
  OBVIOUS
<1>1. TableInv /\ AskTyped /\ CauseStands
  BY DEF DiagInv
<1>2. ASSUME NEW q \in Requests, NEW now \in 0..clock, Refused(q, now) PROVE DiagInv' /\ AnswerIsTrue
  <2>1. /\ ~Admissible(q, now) /\ Refuse(now) /\ step' = "address"
        /\ ask' = [q |-> q, now |-> now] /\ cause' = Refusing(q, now)
        /\ UNCHANGED <<disturbed, told>> /\ row' = row
    BY <1>2 DEF Refused, Refuse
  <2>2. TableInv'
    BY <1>1, <2>1, TableStep DEF Next
  <2>3. now \in Nat /\ "address" \in Limits
    BY <1>1, <1>2 DEF TableInv, LedgerInv, TypeOK, Limits
  <2>4. Refusing(q, now)' = Refusing(q, now)
    BY <2>1 DEF Refusing, AddressFree, AddressRows, IpFree, IpRows, SubnetFree, SubnetRows, CapFree,
                CapRows, Stored
  <2>5. Refusing(q, now) # {} /\ Refusing(q, now) \subseteq Limits
    BY <2>1, RefusedForACause
  <2>6. AskTyped'
    BY <1>1, <2>1, <2>3, <2>5 DEF AskTyped
  <2>7. CauseStands'
    <3>1. ask'.q = q /\ ask'.now = now /\ Passed' = {}
      BY <2>1 DEF Passed
    <3>2. Refusing(ask.q, ask.now)' = Refusing(q, now)'
      BY <3>1 DEF Refusing, AddressFree, AddressRows, IpFree, IpRows, SubnetFree, SubnetRows, CapFree,
                  CapRows, Stored
    <3> QED
      BY <2>1, <2>4, <2>5, <3>1, <3>2 DEF CauseStands
  <2> QED
    BY <2>1, <2>2, <2>6, <2>7 DEF DiagInv, AnswerIsTrue
<1>3. CASE Asks
  <2>1. UNCHANGED ledgerVars
    BY <1>3, AsksLeaveTheTable
  <2>2. TableInv'
    BY <1>1, <2>1, TableStep
  <2> QED
    BY <1>3, <2>2, AddressStep, ConnectionStep, SubnetStep, CapStep DEF Asks, DiagInv
<1>4. CASE Other
  <2>1. /\ Next /\ UNCHANGED <<step, ask, cause, told>>
        /\ disturbed' = (disturbed \/ (step # "idle" /\ row' # row))
    BY <1>4 DEF Other
  <2>2. TableInv'
    BY <1>1, <2>1, TableStep
  <2>3. AskTyped'
    BY <1>1, <2>1 DEF AskTyped
  <2>4. CauseStands'
    <3> SUFFICES ASSUME ~disturbed', step' \in Limits
                 PROVE  cause' = Refusing(ask.q, ask.now)' /\ cause' # {} /\ cause' \cap Passed' = {}
      BY DEF CauseStands
    <3>1. ~disturbed /\ row' = row /\ step \in Limits
      BY <2>1 DEF Limits
    <3>2. Refusing(ask.q, ask.now)' = Refusing(ask.q, ask.now) /\ Passed' = Passed
      BY <2>1, <3>1 DEF Refusing, AddressFree, AddressRows, IpFree, IpRows, SubnetFree, SubnetRows,
                        CapFree, CapRows, Stored, Passed
    <3> QED
      BY <1>1, <2>1, <3>1, <3>2 DEF CauseStands
  <2> QED
    BY <2>1, <2>2, <2>3, <2>4 DEF DiagInv, AnswerIsTrue
<1>5. CASE UNCHANGED diagVars
  <2>1. UNCHANGED ledgerVars /\ UNCHANGED <<step, ask, cause, disturbed, told>> /\ row' = row
    BY <1>5 DEF diagVars, askVars, ledgerVars
  <2>2. TableInv'
    BY <1>1, <2>1, TableStep
  <2>3. Refusing(ask.q, ask.now)' = Refusing(ask.q, ask.now) /\ Passed' = Passed
    BY <2>1 DEF Refusing, AddressFree, AddressRows, IpFree, IpRows, SubnetFree, SubnetRows, CapFree,
                CapRows, Stored, Passed
  <2>4. AskTyped' /\ CauseStands'
    BY <1>1, <2>1, <2>3 DEF AskTyped, CauseStands
  <2> QED
    BY <2>1, <2>2, <2>4 DEF DiagInv, AnswerIsTrue
<1> QED
  BY <1>2, <1>3, <1>4, <1>5 DEF DiagNext, Asks

\* The table and the refused handler keep their types.
THEOREM DiagnosisTypes == DiagSpec => []DiagTypeOK
<1>1. DiagInv => DiagTypeOK
  BY DEF DiagInv, TableInv, LedgerInv, AskTyped, DiagTypeOK
<1> QED
  BY <1>1, DiagStarts, DiagStep, PTL DEF DiagSpec

\* A diagnosis that nothing disturbed names a limit that refused, and its wait
\* ends when that limit admits and not a second earlier (whyBlocked()), for any
\* windows and whatever was abandoned, released or purged before.
THEOREM DiagnosisIsTrue == DiagSpec => UndisturbedIsTrue
<1> DEFINE Holds ==
       ~disturbed =>
          /\ told = Nothing /\ told' # Nothing => told'.limit \in cause
          /\ Answers("address") =>
                AddressFree(ask.q, Promised) /\ ~AddressFree(ask.q, Promised - 1)
          /\ Answers("connection") /\ NoOlderClock =>
                IpFree(ask.q, Promised) /\ ~IpFree(ask.q, Promised - 1)
<1>1. AnswerIsTrue => Holds
  BY DEF AnswerIsTrue, Answers
<1>2. DiagInv /\ [DiagNext]_diagVars => DiagInv' /\ [Holds]_diagVars
  BY <1>1, DiagStep
<1> HIDE DEF Holds
<1>3. DiagSpec => [][Holds]_diagVars
  BY <1>2, DiagStarts, PTL DEF DiagSpec
<1> QED
  BY <1>3, PTL DEF UndisturbedIsTrue, Holds
=============================================================================
