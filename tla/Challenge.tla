----------------------------- MODULE Challenge -----------------------------
(***************************************************************************)
(* A proof of work from issue to burn: src/src/lib/pow.ts, the             *)
(* used_challenges table of src/src/lib/db, and the two places where the   *)
(* claim route touches them.                                               *)
(*                                                                         *)
(* The route verifies first and burns last, so that a refusal of its own   *)
(* making costs nobody a solution.  In between a handler reads whether the *)
(* solution is spent (advisory) and walks through the gates.  The burn is  *)
(* an INSERT OR IGNORE, and every burn first sends out a purge of expired  *)
(* rows that nothing waits for.                                            *)
(***************************************************************************)
EXTENDS Integers

CONSTANTS Posts,        \* POSTs that carry a solution
          Challenges,   \* signed challenges, by signature
          Ttl,          \* seconds a challenge lives
          MaxCrashes    \* bound: how often the process may end

ASSUME ChallengeAssumption ==
    /\ Ttl \in Nat \ {0}
    /\ MaxCrashes \in Nat

VARIABLES clock,
          issuedAt,     \* when each challenge was signed, or -1
          used,         \* used_challenges
          cut,          \* the newest cutoff handed to a purge
          stage,        \* where the handler of each POST is
          pow,          \* the challenge each POST solved
          verdict,      \* what became of the solution
          burnedAt,     \* when its burn was counted a success
          crashes

challengeVars == <<clock, issuedAt, used, cut, stage, pow, verdict, burnedAt, crashes>>

Stages == {"new", "verified", "gates", "burning", "done"}
Endings == {"none", "expired", "used", "ours", "accepted", "error", "crashed"}

ChallengeTypeOK ==
    /\ clock \in Nat
    /\ issuedAt \in [Challenges -> Nat \cup {-1}]
    /\ used \subseteq Challenges
    /\ cut \in Nat
    /\ stage \in [Posts -> Stages]
    /\ pow \in [Posts -> Challenges]
    /\ verdict \in [Posts -> Endings]
    /\ burnedAt \in [Posts -> Nat]
    /\ crashes \in 0..MaxCrashes

Expiry(s) == issuedAt[s] + Ttl

\* A visitor may send one solution in as many POSTs as it likes.
ChallengeInit ==
    /\ clock = 0
    /\ issuedAt = [s \in Challenges |-> -1]
    /\ used = {}
    /\ cut = 0
    /\ stage = [p \in Posts |-> "new"]
    /\ pow \in [Posts -> Challenges]
    /\ verdict = [p \in Posts |-> "none"]
    /\ burnedAt = [p \in Posts |-> 0]
    /\ crashes = 0

Answer(p, what) ==
    /\ stage' = [stage EXCEPT ![p] = "done"]
    /\ verdict' = [verdict EXCEPT ![p] = what]

\* issueChallenge().
Issue(s) ==
    /\ issuedAt[s] = -1
    /\ issuedAt' = [issuedAt EXCEPT ![s] = clock]
    /\ UNCHANGED <<clock, used, cut, stage, pow, verdict, burnedAt, crashes>>

\* verifySolution() without spending.  A solution is tied to the signature of
\* its challenge, so nothing but the expiry can refuse it here.
Verify(p) ==
    /\ stage[p] = "new"
    /\ issuedAt[pow[p]] # -1
    /\ IF Expiry(pow[p]) < clock
       THEN Answer(p, "expired")
       ELSE stage' = [stage EXCEPT ![p] = "verified"] /\ UNCHANGED verdict
    /\ UNCHANGED <<clock, issuedAt, used, cut, pow, burnedAt, crashes>>

\* Fault (see README, "Mutants"): the solution is burned in front of the gates.
LookUpBurning(p) ==
    /\ stage[p] = "verified"
    /\ pow[p] \notin used
    /\ used' = used \cup {pow[p]}
    /\ stage' = [stage EXCEPT ![p] = "gates"]
    /\ UNCHANGED <<clock, issuedAt, cut, pow, verdict, burnedAt, crashes>>

\* challengeAlreadySpent(): advisory, and it says "no" when it cannot tell.
LookUp(p) ==
    /\ stage[p] = "verified"
    /\ \/ /\ pow[p] \in used
          /\ Answer(p, "used")
       \/ /\ stage' = [stage EXCEPT ![p] = "gates"]
          /\ UNCHANGED verdict
    /\ UNCHANGED <<clock, issuedAt, used, cut, pow, burnedAt, crashes>>

\* A gate of ours refuses: balance, chain view, wallet lag, cTAZ readiness.
GateRefuses(p) ==
    /\ stage[p] = "gates"
    /\ Answer(p, "ours")
    /\ UNCHANGED <<clock, issuedAt, used, cut, pow, burnedAt, crashes>>

\* Fault: the purge goes out with a cutoff a whole life of a challenge back.
BurnPurgingLate(p) ==
    /\ stage[p] = "gates"
    /\ stage' = [stage EXCEPT ![p] = "burning"]
    /\ cut' = clock - Ttl - 1
    /\ UNCHANGED <<clock, issuedAt, used, pow, verdict, burnedAt, crashes>>

\* spendVerifiedSolution(): the purge goes out with the present second, and
\* behind it the insert.
Burn(p) ==
    /\ stage[p] = "gates"
    /\ stage' = [stage EXCEPT ![p] = "burning"]
    /\ cut' = clock
    /\ UNCHANGED <<clock, issuedAt, used, pow, verdict, burnedAt, crashes>>

\* INSERT OR IGNORE: one change, or none.  The answer of a remote ledger may
\* be lost, whether or not the row went in.
Insert(p) ==
    /\ stage[p] = "burning"
    /\ \/ /\ pow[p] \notin used
          /\ used' = used \cup {pow[p]}
          /\ Answer(p, "accepted")
          /\ burnedAt' = [burnedAt EXCEPT ![p] = clock]
       \/ /\ pow[p] \in used
          /\ Answer(p, "used")
          /\ UNCHANGED <<used, burnedAt>>
       \/ /\ used' \in {used, used \cup {pow[p]}}
          /\ Answer(p, "error")
          /\ UNCHANGED burnedAt
    /\ UNCHANGED <<clock, issuedAt, cut, pow, crashes>>

\* Fault: rows are purged by the time of issue.
ExpiredSinceIssue(s) == issuedAt[s] < cut

\* PURGE_CHALLENGES_SQL, whenever it arrives.
Expired(s) == Expiry(s) < cut

Purge ==
    /\ \E s \in used : Expired(s)
    /\ used' = {s \in used : ~Expired(s)}
    /\ UNCHANGED <<clock, issuedAt, cut, stage, pow, verdict, burnedAt, crashes>>

\* The process ends.  The table and the signing key outlive it, and so may an
\* insert that was on its way.
Burning == {p \in Posts : stage[p] = "burning"}

Crash ==
    /\ crashes < MaxCrashes
    /\ crashes' = crashes + 1
    /\ \E landed \in SUBSET Burning : used' = used \cup {pow[p] : p \in landed}
    /\ stage' = [p \in Posts |-> IF stage[p] = "new" THEN "new" ELSE "done"]
    /\ verdict' = [p \in Posts |->
                      IF stage[p] \in {"new", "done"} THEN verdict[p]
                      ELSE IF p \in Burning THEN "error" ELSE "crashed"]
    /\ UNCHANGED <<clock, issuedAt, cut, pow, burnedAt>>

Tick ==
    /\ clock' = clock + 1
    /\ UNCHANGED <<issuedAt, used, cut, stage, pow, verdict, burnedAt, crashes>>

ChallengeNext ==
    \/ \E s \in Challenges : Issue(s)
    \/ \E p \in Posts :
          Verify(p) \/ LookUp(p) \/ GateRefuses(p) \/ Burn(p) \/ Insert(p)
    \/ Purge \/ Crash \/ Tick

ChallengeSpec == ChallengeInit /\ [][ChallengeNext]_challengeVars

-----------------------------------------------------------------------------
(* Properties.                                                             *)

Winners(s) == {p \in Posts : pow[p] = s /\ verdict[p] = "accepted"}

\* While a challenge lives, one POST at most gets its claim for it, whatever
\* the handlers, the purges and the ends of the process do in between.
OneClaimWhileItLives ==
    \A s \in Challenges : \A p, q \in Winners(s) :
        p # q => burnedAt[p] > Expiry(s) \/ burnedAt[q] > Expiry(s)

\* A POST turned away as a replay was one: another had its claim for the same
\* solution, or lost its handler or its answer in the burn.  A refusal of our
\* own making leaves the solution usable.
ReplayIsReal ==
    \A p \in Posts : verdict[p] = "used" =>
        \E o \in Posts \ {p} : pow[o] = pow[p] /\ verdict[o] \in {"accepted", "error"}
=============================================================================
