----------------------------- MODULE ClaimPage -----------------------------
(* The claim in the visitor's page (page.tsx, faucetPhase.ts, claimRetry.ts): *)
(* the status that is polled, the phase it is turned into, a claim that is   *)
(* held while the faucet cannot send and fires by itself, the submission     *)
(* with its proof of work and its silent retries, and the card at its end.   *)
(* React runs the effects of a change before the next event, so every        *)
(* action here ends in the state its effects have settled on.  Picking the   *)
(* other network changes what the status is turned into and nothing else: it *)
(* is one more way for the base phase to change.                             *)
EXTENDS Naturals

CONSTANTS
    Pasted,     \* addresses a visitor may type
    Made,       \* addresses the page generates, each with a key it shows
    Jobs,       \* submissions that may run at once
    RetryCap,   \* SILENT_RETRY_CAP
    HoldMax,    \* HOLD_MAX_MS, in ticks
    None        \* null, or an empty field

Addresses == Pasted \union Made

\* basePhase(): what a status is turned into; the first three hold a claim.
Holding == {"checking", "syncing", "fault"}
Bases == Holding \union {"empty", "degraded", "ready"}
Cards == {"success", "cooldown", "error"}
Phases == Bases \union Cards \union {"queued", "submitting"}
FailKinds == {"failed", "pow", "offline", "held", "busy", "cap", "unknown", "bad"}

ASSUME ClaimPageAssumption ==
    /\ None \notin Addresses
    /\ Pasted \intersect Made = {}
    /\ RetryCap \in Nat
    /\ HoldMax \in Nat \ {0}

VARIABLES
    base,           \* the base phase of the last status, network and all
    shown,          \* phase
    inFlow,         \* polling leaves the phase alone
    sending,        \* a submission is past its guards
    firing,         \* it is the held claim's
    hold, heldFor,  \* the address held, kept over a reload, and for how long
    holdDropped,    \* the hold was given up, and the fault card says so
    field,          \* the address field
    genKey,         \* the generated address whose key the page still has
    keyKnown,       \* its key has been copied or is on the screen
    keySeen,        \* the generated addresses whose key was ever seen
    card,           \* the kind of the error card
    owed,           \* the claim behind the card may have been paid
    job             \* [Jobs -> a submission]

claimPageVars == <<base, shown, inFlow, sending, firing, hold, heldFor, holdDropped,
                   field, genKey, keyKnown, keySeen, card, owed, job>>
holdVars == <<hold, heldFor, holdDropped>>
keyVars == <<genKey, keyKnown, keySeen>>
cardVars == <<card, owed>>

NoJob == [at |-> "none", address |-> None, fire |-> FALSE, from |-> "ready", tries |-> 0, mayPay |-> FALSE]
Submission ==
    [at : {"none", "solving", "posting", "waiting"}, address : Addresses \union {None},
     fire : BOOLEAN, from : Bases, tries : 0 .. RetryCap, mayPay : BOOLEAN]

PageTypeOK ==
    /\ base \in Bases /\ shown \in Phases
    /\ inFlow \in BOOLEAN /\ sending \in BOOLEAN /\ firing \in BOOLEAN
    /\ hold \in Addresses \union {None} /\ heldFor \in 0 .. HoldMax
    /\ holdDropped \in BOOLEAN
    /\ field \in Addresses \union {None}
    /\ genKey \in Made \union {None} /\ keyKnown \in BOOLEAN /\ keySeen \subseteq Made
    /\ card \in FailKinds /\ owed \in BOOLEAN
    /\ job \in [Jobs -> Submission]

ClaimPageInit ==
    /\ base = "checking" /\ shown = "checking"
    /\ inFlow = FALSE /\ sending = FALSE /\ firing = FALSE
    /\ hold = None /\ heldFor = 0 /\ holdDropped = FALSE
    /\ field = None
    /\ genKey = None /\ keyKnown = FALSE /\ keySeen = {}
    /\ card = "failed" /\ owed = FALSE
    /\ job = [j \in Jobs |-> NoJob]

Running(j) == job[j].at # "none"

-----------------------------------------------------------------------------
(* The submission begins.                                                  *)

\* The part of submit() behind its guards: the flow is entered, and the proof
\* of work begins unless the deploy asks for none.  Submissions differ by name
\* alone, so one fixed unused name stands for any.
Launch(address, fire) ==
    /\ \E j \in Jobs : ~Running(j)
    /\ LET new == CHOOSE j \in Jobs : ~Running(j)
       IN  \E at \in {"solving", "posting"} :
              job' = [job EXCEPT ![new] = [NoJob EXCEPT !.at = at, !.address = address,
                                                        !.fire = fire, !.from = base']]
    /\ sending' = TRUE /\ inFlow' = TRUE
    /\ firing' = (firing \/ fire)
    /\ shown' = "submitting" /\ holdDropped' = FALSE

-----------------------------------------------------------------------------
(* The effects of a status.                                                *)

\* The phase effect: a held claim shows as queued while the faucet cannot send.
Derived(status) == IF hold # None /\ status \in Holding THEN "queued" ELSE status

\* Fault: a hold through a plain sync is given up as well.
GivesUpAny(status, age) == hold # None /\ status \in Holding /\ age >= HoldMax

GivesUp(status, age) == hold # None /\ status = "fault" /\ age >= HoldMax

\* The give-up effect, and the phase effect that follows the lost hold.
GiveUp ==
    /\ hold' = None /\ heldFor' = 0
    /\ holdDropped' = (inFlow \/ base' = "fault")
    /\ shown' = IF inFlow THEN shown ELSE base'
    /\ UNCHANGED <<inFlow, sending, firing, field, keyVars, cardVars, job>>

Fires(status) == hold # None /\ status = "ready" /\ ~firing

\* The fire effect: the hold is cleared and handed to submit(), which returns
\* at once if another submission is under way.
Fire ==
    /\ hold' = None /\ heldFor' = 0
    /\ field' = hold
    /\ \/ /\ ~sending /\ Launch(hold, TRUE)
       \/ /\ sending
          /\ shown' = IF inFlow THEN shown ELSE "ready"
          /\ holdDropped' = (holdDropped /\ inFlow)
          /\ UNCHANGED <<inFlow, sending, firing, job>>
    /\ UNCHANGED <<keyVars, cardVars>>

\* Neither: the phase effect alone, which a claim in its flow is left out of.
Rederive ==
    /\ shown' = IF inFlow THEN shown ELSE Derived(base')
    /\ holdDropped' = (holdDropped /\ (inFlow \/ base' = "fault"))
    /\ UNCHANGED <<inFlow, sending, firing, hold, heldFor, field, keyVars, cardVars, job>>

\* A status lands, or the visitor picks the other network.
StatusLands ==
    /\ base' \in Bases
    /\ \/ GivesUp(base', heldFor) /\ GiveUp
       \/ Fires(base') /\ Fire
       \/ ~GivesUp(base', heldFor) /\ ~Fires(base') /\ Rederive

\* The page's clock, which the give-up effect watches, alone.
ClockTicks ==
    /\ hold # None /\ heldFor < HoldMax
    /\ UNCHANGED base
    /\ IF GivesUp(base, heldFor + 1) THEN GiveUp
       ELSE /\ heldFor' = heldFor + 1
            /\ UNCHANGED <<shown, inFlow, sending, firing, hold, holdDropped, field, keyVars, cardVars, job>>

\* A reload, or the next visit: the hold is restored from the browser's store,
\* and everything else begins anew.  A POST under way is nobody's any more.
Reload ==
    /\ base' = "checking"
    /\ shown' = Derived("checking")
    /\ inFlow' = FALSE /\ sending' = FALSE /\ firing' = FALSE
    /\ holdDropped' = FALSE
    /\ field' = None
    /\ genKey' = None /\ keyKnown' = FALSE
    /\ card' = "failed" /\ owed' = FALSE
    /\ job' = [j \in Jobs |-> NoJob]
    /\ UNCHANGED <<hold, heldFor, keySeen>>

-----------------------------------------------------------------------------
(* The visitor.                                                            *)

\* The address field is there in every phase.
Types ==
    /\ field' \in (Pasted \union {None}) \ {field}
    /\ UNCHANGED <<base, shown, inFlow, sending, firing, holdVars, keyVars, cardVars, job>>

\* generate(): the address comes with a key that the visitor has not seen.
Generates ==
    /\ field = None /\ shown \in Bases
    /\ \E a \in Made \ keySeen :
          /\ hold # a
          /\ field' = a /\ genKey' = a
    /\ keyKnown' = FALSE
    /\ UNCHANGED <<base, shown, inFlow, sending, firing, holdVars, keySeen, cardVars, job>>

\* The key box: copied, revealed, or hidden again.
SeesKey ==
    /\ genKey # None /\ field = genKey /\ shown \in Bases
    /\ keyKnown' = ~keyKnown
    /\ keySeen' = keySeen \union {genKey}
    /\ UNCHANGED <<base, shown, inFlow, sending, firing, holdVars, field, genKey, cardVars, job>>

\* keyUnseen(): in submit() itself.
KeyUnseen == field # None /\ field = genKey /\ ~keyKnown

\* submit() up to its guards, from the button, from Enter in the field, or
\* from a card's "Try again".
LeavesTheFlow ==
    /\ field # None /\ ~KeyUnseen
    /\ base = "degraded"
    /\ inFlow' = FALSE /\ shown' = "degraded"
    /\ UNCHANGED <<base, sending, firing, holdVars, field, keyVars, cardVars, job>>

\* Fault: a submission in progress is no obstacle.
MaySubmitBeside == field # None /\ ~KeyUnseen /\ base # "degraded" /\ shown # "empty"

MaySubmit ==
    /\ field # None /\ ~KeyUnseen
    /\ base # "degraded" /\ shown # "empty"
    /\ ~sending

Queues ==
    /\ MaySubmit /\ base \in Holding
    /\ hold' = field /\ heldFor' = 0 /\ holdDropped' = FALSE
    /\ shown' = "queued"
    /\ UNCHANGED <<base, inFlow, sending, firing, field, keyVars, cardVars, job>>

Submits ==
    /\ MaySubmit /\ base \notin Holding
    /\ UNCHANGED base
    /\ Launch(field, FALSE)
    /\ UNCHANGED <<hold, heldFor, field, keyVars, cardVars>>

\* again(): the buttons of the cards that start over.
StartsOver ==
    /\ shown \in Cards
    /\ inFlow' = FALSE
    /\ field' = None
    /\ hold' = None /\ heldFor' = 0 /\ holdDropped' = FALSE
    /\ genKey' = None /\ keyKnown' = FALSE
    /\ card' = "failed" /\ owed' = FALSE
    /\ shown' = base
    /\ UNCHANGED <<base, sending, firing, keySeen, job>>

\* "Edit the address" on the card of a bad request.
EditsAddress ==
    /\ shown = "error" /\ card = "bad"
    /\ shown' = base
    /\ UNCHANGED <<base, inFlow, sending, firing, holdVars, field, keyVars, cardVars, job>>

-----------------------------------------------------------------------------
(* The submission goes on.                                                 *)

Ended(j) ==
    /\ job' = [job EXCEPT ![j] = NoJob]
    /\ sending' = FALSE
    /\ firing' = (firing /\ ~job[j].fire)

EndsWithCard(j, kind, mayPay) ==
    /\ Ended(j)
    /\ shown' = "error" /\ card' = kind /\ owed' = mayPay
    /\ UNCHANGED inFlow

Solved(j) ==
    /\ job[j].at = "solving"
    /\ job' = [job EXCEPT ![j].at = "posting"]
    /\ UNCHANGED <<base, shown, inFlow, sending, firing, holdVars, field, keyVars, cardVars>>

\* No challenge, or the worker failed.
SolveFails(j) ==
    /\ job[j].at = "solving"
    /\ EndsWithCard(j, "pow", job[j].mayPay)
    /\ UNCHANGED <<base, holdVars, field, keyVars>>

\* Cancelled on the card of the human check: back to the base phase that this
\* submission began with.
Cancels(j) ==
    /\ job[j].at = "solving" /\ shown = "submitting"
    /\ Ended(j)
    /\ inFlow' = FALSE
    /\ shown' = job[j].from
    /\ UNCHANGED <<base, holdVars, field, keyVars, cardVars>>

\* What comes back of a POST: the route's replies (module DripClaim), and what
\* is between it and the page.  "gateway" is the proxy's own 502, "lost" is
\* no reply at all; the wallet may have sent behind both.
Replies == {"paid", "unknown", "gateway", "lost", "limited", "wobble", "empty", "sends",
            "cap", "busy", "held", "pow", "bad", "failed"}
MayHavePaid == {"paid", "unknown", "gateway", "lost"}

\* Fault: every answer of a 5xx that names no kind is asked again.
RetryWorthyAny(reply) == reply \in {"wobble", "unknown", "gateway", "failed"}

\* silentRetryWaitSeconds(): a 503 without a kind and with a short wait.
RetryWorthy(reply) == reply \in {"wobble"}

\* The kinds of the error card, by status and fields of the reply.
FailKind(reply) ==
    CASE reply = "gateway" -> "failed"
      [] reply = "lost" -> "offline"
      [] reply = "wobble" -> "held"
      [] OTHER -> reply

RetriesQuietly(j, reply) ==
    /\ RetryWorthy(reply) /\ job[j].tries < RetryCap
    /\ job' = [job EXCEPT ![j].at = "waiting", ![j].tries = @ + 1,
                          ![j].mayPay = @ \/ reply \in MayHavePaid]
    /\ UNCHANGED <<shown, inFlow, sending, firing, cardVars>>

Concludes(j, reply) ==
    /\ ~(RetryWorthy(reply) /\ job[j].tries < RetryCap)
    /\ CASE reply = "paid" ->
              Ended(j) /\ shown' = "success" /\ owed' = TRUE /\ UNCHANGED <<inFlow, card>>
         [] reply = "limited" ->
              Ended(j) /\ shown' = "cooldown" /\ UNCHANGED <<inFlow, cardVars>>
         [] reply \in {"empty", "sends"} ->
              /\ Ended(j)
              /\ inFlow' = FALSE
              /\ shown' = IF reply = "empty" THEN "empty" ELSE "degraded"
              /\ UNCHANGED cardVars
         [] OTHER ->
              EndsWithCard(j, FailKind(reply), job[j].mayPay \/ reply \in MayHavePaid)

Answered(j) ==
    /\ job[j].at = "posting"
    /\ \E reply \in Replies : RetriesQuietly(j, reply) \/ Concludes(j, reply)
    /\ UNCHANGED <<base, holdVars, field, keyVars>>

\* The same proof is sent again.
PostsAgain(j) ==
    /\ job[j].at = "waiting"
    /\ job' = [job EXCEPT ![j].at = "posting"]
    /\ UNCHANGED <<base, shown, inFlow, sending, firing, holdVars, field, keyVars, cardVars>>

SubmitGoesOn(j) == Solved(j) \/ SolveFails(j) \/ Cancels(j) \/ Answered(j) \/ PostsAgain(j)
Visitor == Types \/ Generates \/ SeesKey \/ LeavesTheFlow \/ Queues \/ Submits \/ StartsOver \/ EditsAddress

ClaimPageNext == StatusLands \/ ClockTicks \/ Reload \/ Visitor \/ \E j \in Jobs : SubmitGoesOn(j)

ClaimPageSpec == ClaimPageInit /\ [][ClaimPageNext]_claimPageVars

-----------------------------------------------------------------------------
(* Properties.                                                             *)

\* The fire of a held claim, Enter in the field and a card's "Try again" never
\* have two submissions under way, and none of them sends a claim to an address
\* made here whose key nobody has seen.  And the cards that say that nothing was
\* asked of the wallet are true of every POST of the claim, the quiet retries
\* included.
OneClaimAtATime == \A i, j \in Jobs : Running(i) /\ Running(j) => i = j
NoKeylessClaim == \A j \in Jobs : job[j].address \in Made => job[j].address \in keySeen
NothingWasAsked == shown = "error" /\ card \in {"held", "busy", "cap", "bad", "pow"} => ~owed
SubmissionsAreSound == OneClaimAtATime /\ NoKeylessClaim /\ NothingWasAsked

\* A held claim ends by being submitted, by a button that starts over, or by a
\* give-up that leaves its notice, whatever statuses, reloads and networks come
\* in between; only one that fires into another submission is lost.
Launched(address) == \E j \in Jobs : ~Running(j) /\ job'[j].address = address
HoldIsKept ==
    [][hold # None /\ hold' = None
       => Launched(hold) \/ holdDropped' \/ StartsOver \/ sending]_claimPageVars
=============================================================================
