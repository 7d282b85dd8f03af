------------------------------- MODULE Ledger -------------------------------
(***************************************************************************)
(* The claims table: src/src/lib/db/sql.ts and src/src/lib/db/index.ts.    *)
(*                                                                         *)
(* A claim is reserved by one atomic INSERT ... WHERE, finalised by an     *)
(* UPDATE by id, and deleted by a retention purge.  A pending row blocks   *)
(* for a lease, a sent row for the cooldown (or the day); a failed row     *)
(* blocks nothing.                                                         *)
(*                                                                         *)
(* `open` holds the claims whose handler still runs and will finalise.     *)
(* The ledger itself keeps no such thing.  It stands for the assumption    *)
(* the lease was derived for (pendingLeaseSeconds): a handler finalises    *)
(* before the lease of its row runs out.  The guard of Tick is that        *)
(* assumption; module DripClaim, which knows the queue and the sender,     *)
(* discharges it by implementing this specification.                       *)
(***************************************************************************)
EXTENDS Integers, FiniteSets

CONSTANTS Claims,           \* row ids: every reservation ever asked for
          Addrs, Ips, Subnets, Nets,
          NoBucket,         \* the hash "" of a client that could not be derived
          Cooldown,         \* config.cooldownSeconds
          Lease,            \* PENDING_LEASE_SECONDS
          Day,              \* 86 400
          Grace,            \* the hour retentionCutoff adds
          MaxStale,         \* bound: how far behind the clock a handler's `now` may be
          IpDailyMax, SubnetDailyMax,
          Amount,           \* zatoshi per drip, by network
          DailyCap,         \* zatoshi per day, by network
          NoRow

ASSUME LedgerAssumption ==
    /\ IsFiniteSet(Claims)
    /\ {Cooldown, Lease, Day} \subseteq Nat \ {0}
    /\ {Grace, MaxStale} \subseteq Nat
    /\ MaxStale < Lease
    /\ MaxStale <= Grace
    /\ {IpDailyMax, SubnetDailyMax} \subseteq Nat \ {0}
    /\ Amount \in [Nets -> Nat]
    /\ DailyCap \in [Nets -> Nat]
    /\ NoBucket \notin Ips \cup Subnets

Requests == [addr : Addrs, ip : Ips \cup {NoBucket}, subnet : Subnets \cup {NoBucket}, net : Nets]
Statuses == {"pending", "sent", "failed"}
Rows == [req : Requests, status : Statuses, at : Nat]

ASSUME NoRowAssumption == NoRow \notin Rows

VARIABLES clock,    \* seconds
          row,      \* the table: what each id holds
          open,     \* the claims whose handler will still finalise
          cut       \* the newest retention cutoff handed to a purge

ledgerVars == <<clock, row, open, cut>>

TypeOK ==
    /\ clock \in Nat
    /\ row \in [Claims -> Rows \cup {NoRow}]
    /\ open \in SUBSET Claims
    /\ cut \in Int

Stored == {c \in Claims : row[c] # NoRow}

-----------------------------------------------------------------------------
(* The four limits, as RESERVE_SQL states them for a caller's `now`.       *)

\* Fault (see README, "Mutants"): the two windows are swapped.
LiveAfterSwapped(r, now) ==
    \/ r.status = "sent" /\ r.at > now - Lease
    \/ r.status = "pending" /\ r.at > now - Cooldown

\* created_at > now - window: the address and connection rules.
LiveAfter(r, now) ==
    \/ r.status = "sent" /\ r.at > now - Cooldown
    \/ r.status = "pending" /\ r.at > now - Lease

\* created_at >= now - window: the subnet rule and the daily cap.
LiveSince(r, now) ==
    \/ r.status = "sent" /\ r.at >= now - Day
    \/ r.status = "pending" /\ r.at >= now - Lease

AddressRows(q, now) ==
    {c \in Stored : row[c].req.addr = q.addr /\ row[c].req.net = q.net /\ LiveAfter(row[c], now)}
IpRows(ip, net, now) ==
    {c \in Stored : row[c].req.ip = ip /\ row[c].req.net = net /\ LiveAfter(row[c], now)}
SubnetRows(subnet, now) ==
    {c \in Stored : row[c].req.subnet = subnet /\ LiveSince(row[c], now)}
CapRows(net, now) ==
    {c \in Stored : row[c].req.net = net /\ LiveSince(row[c], now)}

AddressFree(q, now) == AddressRows(q, now) = {}

\* Faults: one drip too many; the subnet counted per network; the cap compared
\* before the drip is added.
IpFreeOffByOne(q, now) ==
    q.ip = NoBucket \/ Cardinality(IpRows(q.ip, q.net, now)) <= IpDailyMax
SubnetFreePerNet(q, now) ==
    \/ q.subnet = NoBucket
    \/ Cardinality({c \in SubnetRows(q.subnet, now) : row[c].req.net = q.net}) < SubnetDailyMax
CapFreeBefore(q, now) ==
    Amount[q.net] * Cardinality(CapRows(q.net, now)) <= DailyCap[q.net]

IpFree(q, now) ==
    q.ip = NoBucket \/ Cardinality(IpRows(q.ip, q.net, now)) < IpDailyMax
SubnetFree(q, now) ==
    q.subnet = NoBucket \/ Cardinality(SubnetRows(q.subnet, now)) < SubnetDailyMax
CapFree(q, now) ==
    Amount[q.net] * Cardinality(CapRows(q.net, now)) + Amount[q.net] <= DailyCap[q.net]

Admissible(q, now) ==
    /\ AddressFree(q, now)
    /\ IpFree(q, now)
    /\ SubnetFree(q, now)
    /\ CapFree(q, now)

-----------------------------------------------------------------------------
(* Operations.                                                             *)

Init ==
    /\ clock = 0
    /\ row = [c \in Claims |-> NoRow]
    /\ open = {}
    /\ cut = -1

LaterOf(m, n) == IF m >= n THEN m ELSE n

\* Fault: rows are kept for the daily cap only.
RetentionCutoffOfCap(now) == now - Day

\* retentionCutoff(): nothing a limit could still count is older than this.
RetentionCutoff(now) == now - LaterOf(Cooldown, LaterOf(Day, Lease)) - Grace

\* reserveClaim() for a request that every limit admits.  `now` was read when
\* the handler began, so it may lag the clock.  The purge goes out in front,
\* not awaited: it is handed its cutoff here and runs whenever it runs.
Reserve(c, q, now) ==
    /\ row[c] = NoRow
    /\ c \notin open
    /\ now <= clock
    /\ clock - now <= MaxStale
    /\ Admissible(q, now)
    /\ row' = [row EXCEPT ![c] = [req |-> q, status |-> "pending", at |-> now]]
    /\ open' = open \cup {c}
    /\ cut' = LaterOf(cut, RetentionCutoff(now))
    /\ UNCHANGED clock

\* reserveClaim() for a request some limit refuses: only the purge goes out.
Refuse(now) ==
    /\ now <= clock
    /\ clock - now <= MaxStale
    /\ ~(\A q \in Requests : Admissible(q, now))
    /\ cut' = LaterOf(cut, RetentionCutoff(now))
    /\ UNCHANGED <<clock, row, open>>

\* PURGE_SQL.
Purge ==
    /\ \E c \in Stored : row[c].at < cut
    /\ row' = [c \in Claims |-> IF c \in Stored /\ row[c].at < cut THEN NoRow ELSE row[c]]
    /\ UNCHANGED <<clock, open, cut>>

\* Fault: a release writes a status no limit knows.
SetUnknownStatus(c, status) ==
    row' = IF c \in Stored
           THEN [row EXCEPT ![c].status = IF status = "failed" THEN "released" ELSE status]
           ELSE row

\* FINALIZE_SQL: an UPDATE by id, which a row that is gone does not notice.
SetStatus(c, status) ==
    row' = IF c \in Stored THEN [row EXCEPT ![c].status = status] ELSE row

Finalize(c, status) ==
    /\ c \in open
    /\ SetStatus(c, status)
    /\ open' = open \ {c}
    /\ UNCHANGED <<clock, cut>>

\* Handlers die with their process, or a finalise write fails and is only
\* logged: the rows stay pending and nothing but the lease releases them.
Abandon(lost) ==
    /\ lost # {}
    /\ open' = open \ lost
    /\ UNCHANGED <<clock, row, cut>>

\* A second passes.  Assumption on the callers: no handler is still holding a
\* row when the lease of the row runs out.
Tick ==
    /\ \A c \in open : clock + 1 < row[c].at + Lease
    /\ clock' = clock + 1
    /\ UNCHANGED <<row, open, cut>>

Next ==
    \/ \E c \in Claims, q \in Requests : \E now \in 0..clock : Reserve(c, q, now)
    \/ \E now \in 0..clock : Refuse(now)
    \/ \E c \in Claims : \E status \in {"sent", "failed"} : Finalize(c, status)
    \/ \E lost \in SUBSET open : Abandon(lost)
    \/ Purge
    \/ Tick

Spec == Init /\ [][Next]_ledgerVars

-----------------------------------------------------------------------------
(* Properties.                                                             *)

\* A row that stands for an entitlement: paid, or about to be.
Counted(c) == c \in Stored /\ (row[c].status = "sent" \/ c \in open)

\* One drip per address and network per cooldown, in whatever order handlers
\* with old and new clocks reserve, release, lose and finalise their rows.
AddressSpacing ==
    \A c, d \in Claims :
        /\ c # d
        /\ Counted(c)
        /\ Counted(d)
        /\ row[c].req.addr = row[d].req.addr
        /\ row[c].req.net = row[d].req.net
        => row[c].at >= row[d].at + Cooldown \/ row[d].at >= row[c].at + Cooldown

\* No connection ever holds more live drips than its allowance, and no subnet,
\* judged at the present second rather than at any caller's stale `now`.
IpAllowance ==
    \A ip \in Ips, net \in Nets : Cardinality(IpRows(ip, net, clock)) <= IpDailyMax
SubnetAllowance ==
    \A subnet \in Subnets : Cardinality(SubnetRows(subnet, clock)) <= SubnetDailyMax

\* What a network has promised in the last day stays under its cap, including
\* rows that were pending when counted and were sent afterwards.
WithinDailyCap ==
    \A net \in Nets : Amount[net] * Cardinality(CapRows(net, clock)) <= DailyCap[net]

\* The three limits on quantity together.
QuantityLimits == IpAllowance /\ SubnetAllowance /\ WithinDailyCap

\* The purge never releases anything: a row it deletes is one no reserve could
\* still count, not even a reserve whose handler read its clock MaxStale ago.
PurgeKeepsCounted ==
    \A c \in Claims :
        row[c] # NoRow /\ row'[c] = NoRow =>
            ~LiveAfter(row[c], clock - MaxStale) /\ ~LiveSince(row[c], clock - MaxStale)
PurgeReleasesNothing == [][PurgeKeepsCounted]_ledgerVars
=============================================================================
