----------------------------- MODULE Diagnosis -----------------------------
(***************************************************************************)
(* Why a reservation was refused: whyBlocked() of src/src/lib/db/index.ts. *)
(*                                                                         *)
(* The refusing INSERT says nothing but "0 rows".  The handler then asks   *)
(* the ledger again, one limit after the other, with statements of their   *)
(* own, while other handlers reserve, finalise and purge.  The answer goes *)
(* to the visitor with a time to come back.                                *)
(*                                                                         *)
(* One refused handler is followed here; it holds no row, and every other  *)
(* handler is a step of module Ledger.                                     *)
(***************************************************************************)
EXTENDS Ledger

CONSTANTS Nothing,      \* no answer yet
          Hour          \* 3600, the subnet refusal's fixed wait

ASSUME DiagnosisAssumption == Hour \in Nat

VARIABLES step,         \* what the handler asks next
          ask,          \* its request and its `now`
          cause,        \* the limits that refused the INSERT
          disturbed,    \* the table has changed since then
          told          \* the answer

askVars == <<step, ask, cause, disturbed, told>>
diagVars == <<ledgerVars, askVars>>

Limits == {"address", "connection", "subnet", "cap"}
NoTime == -1
AnswerRecords == [limit : Limits, retryAfter : Nat \cup {NoTime}]

DiagTypeOK ==
    /\ TypeOK
    /\ step \in {"idle", "told"} \cup Limits
    /\ ask \in [q : Requests, now : Nat] \cup {Nothing}
    /\ cause \subseteq Limits
    /\ disturbed \in BOOLEAN
    /\ told \in AnswerRecords \cup {Nothing}

DiagInit ==
    /\ Init
    /\ step = "idle"
    /\ ask = Nothing
    /\ cause = {}
    /\ disturbed = FALSE
    /\ told = Nothing

Refusing(q, now) ==
    {l \in Limits : \/ l = "address" /\ ~AddressFree(q, now)
                    \/ l = "connection" /\ ~IpFree(q, now)
                    \/ l = "subnet" /\ ~SubnetFree(q, now)
                    \/ l = "cap" /\ ~CapFree(q, now)}

\* The INSERT reports no change.
Refused(q, now) ==
    /\ step = "idle"
    /\ ~Admissible(q, now)
    /\ Refuse(now)
    /\ step' = "address"
    /\ ask' = [q |-> q, now |-> now]
    /\ cause' = Refusing(q, now)
    /\ UNCHANGED <<disturbed, told>>

Smallest(S) == CHOOSE n \in S : \A m \in S : n <= m
Newest(S) == CHOOSE c \in S : \A d \in S : row[d].at <= row[c].at
\* Faults (see README, "Mutants"): one window for every status; an address
\* blocked on every network.
ExpiryOneWindow(r, window) == r.at + window
BlockingRowsAnyNet(q, now) ==
    {c \in Stored : row[c].req.addr = q.addr /\ LiveAfter(row[c], now)}

AtLeastOne(n) == LaterOf(1, n)

\* When a row stops blocking, each on its own window.
Expiry(r, window) == r.at + (IF r.status = "sent" THEN window ELSE Lease)

Tell(limit, retryAfter) ==
    /\ told' = [limit |-> limit, retryAfter |-> retryAfter]
    /\ step' = "told"
    /\ UNCHANGED <<ledgerVars, ask, cause, disturbed>>

GoOn(next) ==
    /\ step' = next
    /\ UNCHANGED <<ledgerVars, ask, cause, disturbed, told>>

\* LIVE_BLOCK_SQL: the most recent row of the address that still blocks.
BlockingRows(q, now) ==
    {c \in Stored :
        /\ row[c].req.addr = q.addr
        /\ row[c].req.net = q.net
        /\ \/ row[c].status = "sent" /\ row[c].at > now - Cooldown
           \/ row[c].status = "pending" /\ row[c].at > now - Lease}

AskAddress ==
    LET found == BlockingRows(ask.q, ask.now) IN
    /\ step = "address"
    /\ IF found # {}
       THEN Tell("address", AtLeastOne(Expiry(row[Newest(found)], Cooldown) - ask.now))
       ELSE GoOn("connection")

\* IP_WINDOW_SQL: how many rows of the connection block, and the first expiry.
WindowRows(q, now) ==
    {c \in Stored :
        /\ row[c].req.ip = q.ip
        /\ row[c].req.net = q.net
        /\ \/ row[c].status = "sent" /\ row[c].at > now - Cooldown
           \/ row[c].status = "pending" /\ row[c].at > now - Lease}

AskConnection ==
    LET counted == WindowRows(ask.q, ask.now) IN
    /\ step = "connection"
    /\ IF ask.q.ip # NoBucket /\ Cardinality(counted) >= IpDailyMax
       THEN Tell("connection",
                 AtLeastOne(Smallest({Expiry(row[c], Cooldown) : c \in counted}) - ask.now))
       ELSE GoOn("subnet")

\* SUBNET_COUNT_SQL.
SubnetCount(q, now) ==
    Cardinality({c \in Stored :
        /\ row[c].req.subnet = q.subnet
        /\ \/ row[c].status = "sent" /\ row[c].at >= now - Day
           \/ row[c].status = "pending" /\ row[c].at >= now - Lease})

AskSubnet ==
    /\ step = "subnet"
    /\ IF ask.q.subnet # NoBucket /\ SubnetCount(ask.q, ask.now) >= SubnetDailyMax
       THEN Tell("subnet", Hour)
       ELSE GoOn("cap")

\* CAP_WINDOW_SQL: nothing is left but the cap; only its first expiry is read.
CapWindow(q, now) ==
    {c \in Stored :
        /\ row[c].req.net = q.net
        /\ \/ row[c].status = "sent" /\ row[c].at >= now - Day
           \/ row[c].status = "pending" /\ row[c].at >= now - Lease}

AskCap ==
    LET counted == CapWindow(ask.q, ask.now) IN
    /\ step = "cap"
    /\ Tell("cap",
            IF counted = {} THEN NoTime
            ELSE AtLeastOne(Smallest({Expiry(row[c], Day) : c \in counted}) - ask.now))

\* Any other handler.
Other ==
    /\ Next
    /\ disturbed' = (disturbed \/ (step # "idle" /\ row' # row))
    /\ UNCHANGED <<step, ask, cause, told>>

DiagNext ==
    \/ \E q \in Requests : \E now \in 0..clock : Refused(q, now)
    \/ AskAddress \/ AskConnection \/ AskSubnet \/ AskCap
    \/ Other

DiagSpec == DiagInit /\ [][DiagNext]_diagVars

-----------------------------------------------------------------------------
(* Properties.                                                             *)

\* The five statements agree: a diagnosis that nothing disturbed names a limit
\* that did refuse the reservation ("no live cooldown row and no subnet overage
\* -> it was the global daily cap", index.ts).  And as far as its rows tell, that
\* limit still refuses one second before the time the visitor is given, and
\* admits at that time ("frees_at is when the next slot opens", sql.ts).  For a
\* connection that takes a window no fuller than the allowance: the rows of
\* handlers with a newer clock can overfill it in the eyes of an older one.
Promised == ask.now + told'.retryAfter
NoOlderClock == Cardinality(IpRows(ask.q.ip, ask.q.net, ask.now)) <= IpDailyMax
Answers(limit) == told = Nothing /\ told' # Nothing /\ told'.limit = limit

UndisturbedIsTrue ==
    [][~disturbed =>
          /\ told = Nothing /\ told' # Nothing => told'.limit \in cause
          /\ Answers("address") =>
                AddressFree(ask.q, Promised) /\ ~AddressFree(ask.q, Promised - 1)
          /\ Answers("connection") /\ NoOlderClock =>
                IpFree(ask.q, Promised) /\ ~IpFree(ask.q, Promised - 1)]_diagVars
=============================================================================
