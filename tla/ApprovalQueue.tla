---------------------------- MODULE ApprovalQueue ----------------------------
(***************************************************************************)
(* The dApp approval queue of src/background.ts and the approval window of *)
(* src/popup/approve.ts that empties it.                                   *)
(*                                                                         *)
(* Three actors run concurrently: pages, which send requests; the worker,  *)
(* single threaded, whose handlers interleave at every await; and approval *)
(* windows, which poll the worker, paint the head of the queue and send    *)
(* back the user's answer.  chrome.windows.create reports the new window   *)
(* in a callback, and onRemoved reports a closed one: both arrive later    *)
(* (for one window, in that order).  The worker may die between any two    *)
(* steps, taking the queue with it; the window stays.                      *)
(*                                                                         *)
(* A request's wallet method is reduced to the account it uses and when it *)
(* reads it.  What the window shows besides the request, the signer and    *)
(* the reservation warning is left out, and so are requests the worker     *)
(* answers without queueing them (SiteConsent models the silent reads).    *)
(***************************************************************************)
EXTENDS Naturals, Sequences, FiniteSets, SequencesExt

CONSTANTS
    Requests,       \* what pages send, each at most once
    Origins, OriginOf,
    KindOf,         \* what the request asks for, see Kinds
    Accounts,
    Claims,         \* fclaim transactions, the reservations of a fill
    Windows,        \* bound: the windows that can exist at a time
    MaxGlobal, MaxPerOrigin,  \* MAX_PENDING_GLOBAL, MAX_PENDING_PER_ORIGIN
    Ops,            \* bound: what this instance lets happen
    None

\* connect and requestPermissions disclose the address status() returned; send
\* signs at once and compares the reviewed signer again ("guarded"); propose, a
\* plain attest, signin, sealClaim and revealClaim sign with the active account
\* ("plain"); fillOffer, and an attest routed to it, sign after a preflight.
Kinds == {"connect", "guarded", "plain", "fill"}

ASSUME QueueAssumption ==
    /\ OriginOf \in [Requests -> Origins]
    /\ KindOf \in [Requests -> Kinds]
    /\ MaxGlobal \in Nat /\ MaxPerOrigin \in Nat

Refusals == {"rejected", "closed", "locked", "changed", "limited", "refused"}
Answers == Refusals \cup {None, "ok", "failed", "unavailable"}
Click == [win: Windows, req: Requests, approve: BOOLEAN,
          signer: Accounts, ack: Claims \cup {None}]
Reply == [win: Windows, req: Requests,
          is: {"ok", "failed", "stale", "unconfirmed"}, claim: Claims \cup {None}]
Paint == [req: Requests, signer: Accounts, warned: Claims \cup {None}]

ASSUME NoneAssumption ==
    /\ None \notin Requests \cup Accounts \cup Claims \cup Windows
    /\ None \notin Refusals \cup {"ok", "failed", "unavailable"} /\ None \notin Click

VARIABLES
    \* the wallet
    unlocked, acct,
    \* the worker
    pending,      \* the queue, in order
    approveWinId,
    phase,        \* where the handling of each request stands
    review,       \* the click being handled
    stAddr,       \* the address status() read, then the signer fillOffer captured
    \* what the worker sent out
    answer,       \* what the page was told
    replies,      \* answers on their way to a window
    \* the windows
    shown,        \* [Windows -> {"none", "open", "closed"}]
    reporting,    \* windows whose create callback has not run
    removing,     \* windows whose onRemoved has not run
    stage, seen,  \* the poll in progress, and the status it read
    paint,        \* the paint with live buttons
    unconf,       \* rs(id).unconfirmed
    inFlight, holdOutcome,
    clicks,       \* resolve messages on their way to the worker
    \* history variables
    usedAs, uses, \* the account a request signed or disclosed with, how often
    claimed,      \* the unconfirmed reservation a fill was signed under
    confirmed,    \* <<request, claim>> of each click on a warning
    requeued,     \* requests put back at the head of the queue
    told,         \* requests a window reported "Approved." or "Sent" for
    dismissed     \* whether the user ever closed a window

wallet  == <<unlocked, acct>>
worker  == <<pending, approveWinId, phase, review, stAddr>>
browser == <<shown, reporting, removing>>
page    == <<stage, seen, paint, unconf, inFlight, holdOutcome>>
ghosts  == <<usedAs, uses, claimed, confirmed, requeued, told, dismissed>>
vars    == <<wallet, worker, answer, replies, browser, page, clicks, ghosts>>

TypeOK ==
    /\ unlocked \in BOOLEAN /\ acct \in Accounts
    /\ pending \in Seq(Requests) /\ approveWinId \in Windows \cup {None}
    /\ phase \in [Requests -> {"new", "queued", "status", "vault", "preflight", "method", "done"}]
    /\ review \in [Requests -> Click \cup {None}]
    /\ stAddr \in [Requests -> Accounts \cup {None}]
    /\ answer \in [Requests -> Answers]
    /\ replies \subseteq Reply /\ clicks \subseteq Click
    /\ shown \in [Windows -> {"none", "open", "closed"}]
    /\ reporting \subseteq Windows /\ removing \subseteq Windows
    /\ stage \in [Windows -> {"idle", "status", "empty", "painting"}]
    /\ seen \in [Windows -> [unlocked: BOOLEAN, acct: Accounts, head: Requests \cup {None}]]
    /\ paint \in [Windows -> Paint \cup {None}]
    /\ unconf \in [Windows -> [Requests -> Claims \cup {None}]]
    /\ inFlight \in [Windows -> SUBSET Requests] /\ holdOutcome \in [Windows -> BOOLEAN]
    /\ usedAs \in [Requests -> Accounts \cup {None}] /\ uses \in [Requests -> Nat]
    /\ claimed \in [Requests -> Claims \cup {None}]
    /\ confirmed \subseteq Requests \X Claims
    /\ requeued \subseteq Requests /\ told \subseteq Requests /\ dismissed \in BOOLEAN

Blank == [unlocked |-> FALSE, acct |-> CHOOSE a \in Accounts : TRUE, head |-> None]

Init ==
    /\ unlocked \in BOOLEAN /\ acct \in Accounts
    /\ pending = <<>> /\ approveWinId = None
    /\ phase = [r \in Requests |-> "new"] /\ review = [r \in Requests |-> None]
    /\ stAddr = [r \in Requests |-> None] /\ answer = [r \in Requests |-> None]
    /\ replies = {} /\ clicks = {}
    /\ shown = [w \in Windows |-> "none"] /\ reporting = {} /\ removing = {}
    /\ stage = [w \in Windows |-> "idle"] /\ seen = [w \in Windows |-> Blank]
    /\ paint = [w \in Windows |-> None]
    /\ unconf = [w \in Windows |-> [r \in Requests |-> None]]
    /\ inFlight = [w \in Windows |-> {}] /\ holdOutcome = [w \in Windows |-> FALSE]
    /\ usedAs = [r \in Requests |-> None] /\ uses = [r \in Requests |-> 0]
    /\ claimed = [r \in Requests |-> None] /\ confirmed = {}
    /\ requeued = {} /\ told = {} /\ dismissed = FALSE

-----------------------------------------------------------------------------
Queued == ToSet(pending)
Held(o) == {r \in Queued : OriginOf[r] = o}

\* Chrome has a window to give: the bound on windows.
SpareWindow == \E w \in Windows : shown[w] = "none"

\* A closed window is gone with its page; onRemoved is yet to run.
Closes(w) ==
    /\ shown' = [shown EXCEPT ![w] = "closed"]
    /\ removing' = removing \cup {w}
    /\ stage' = [stage EXCEPT ![w] = "idle"] /\ seen' = [seen EXCEPT ![w] = Blank]
    /\ paint' = [paint EXCEPT ![w] = None]
    /\ unconf' = [unconf EXCEPT ![w] = [r \in Requests |-> None]]
    /\ inFlight' = [inFlight EXCEPT ![w] = {}]
    /\ holdOutcome' = [holdOutcome EXCEPT ![w] = FALSE]

\* openApprovalWindow: focus the window on record, or create one.
Raise ==
    IF approveWinId # None
    THEN UNCHANGED <<browser, page>>
    ELSE \E w \in Windows :
            /\ shown[w] = "none"
            /\ shown' = [shown EXCEPT ![w] = "open"]
            /\ reporting' = reporting \cup {w}
            /\ UNCHANGED <<removing, page>>

\* queueDappRequest.
OverCap(o) == Len(pending) >= MaxGlobal \/ Cardinality(Held(o)) >= MaxPerOrigin

Queue(r) ==
    /\ phase[r] = "new"
    /\ ~OverCap(OriginOf[r])
    /\ approveWinId = None => SpareWindow
    /\ pending' = Append(pending, r)
    /\ phase' = [phase EXCEPT ![r] = "queued"]
    /\ Raise
    /\ UNCHANGED <<wallet, approveWinId, review, stAddr, answer, replies, clicks, ghosts>>

Refuse(r) ==
    /\ phase[r] = "new"
    /\ OverCap(OriginOf[r])
    /\ phase' = [phase EXCEPT ![r] = "done"]
    /\ answer' = [answer EXCEPT ![r] = "limited"]
    /\ UNCHANGED <<wallet, pending, approveWinId, review, stAddr, replies, browser, page,
                   clicks, ghosts>>

\* "Review" in the toolbar popup: it too focuses the window on record, or creates one.
Review ==
    /\ "review" \in Ops /\ pending # <<>>
    /\ approveWinId = None => SpareWindow
    /\ Raise
    /\ UNCHANGED <<wallet, worker, answer, replies, clicks, ghosts>>

\* The create callback: the first window to report owns the queue, another closes.
\* Mutant of ReportIn: the last window to report in takes over.
ReportInLast(w) == approveWinId' = w /\ UNCHANGED <<shown, removing, page>>
ReportIn(w) ==
    IF approveWinId \notin {None, w}
    THEN Closes(w) /\ UNCHANGED approveWinId
    ELSE approveWinId' = w /\ UNCHANGED <<shown, removing, page>>

Report(w) ==
    /\ w \in reporting
    /\ reporting' = reporting \ {w}
    /\ ReportIn(w)
    /\ UNCHANGED <<wallet, pending, phase, review, stAddr, answer, replies, clicks, ghosts>>

\* onRemoved: closing the window on record rejects what is still queued.
\* Mutant of RejectQueued: closing the window leaves the queue as it is.
RejectQueuedNot == UNCHANGED <<pending, phase, answer>>
RejectQueued ==
    /\ pending' = <<>>
    /\ phase' = [r \in Requests |-> IF r \in Queued THEN "done" ELSE phase[r]]
    /\ answer' = [r \in Requests |-> IF r \in Queued THEN "closed" ELSE answer[r]]

Removed(w) ==
    /\ w \in removing /\ w \notin reporting
    /\ removing' = removing \ {w}
    /\ shown' = [shown EXCEPT ![w] = "none"]
    /\ IF w = approveWinId
       THEN approveWinId' = None /\ RejectQueued
       ELSE UNCHANGED <<approveWinId, pending, phase, answer>>
    /\ UNCHANGED <<wallet, review, stAddr, replies, reporting, page, clicks, ghosts>>

-----------------------------------------------------------------------------
\* The window: render() polls status, then the queue, then paints.
Showing(w) == shown[w] = "open"

PollStatus(w) ==
    /\ Showing(w) /\ stage[w] = "idle"
    /\ stage' = [stage EXCEPT ![w] = "status"]
    /\ seen' = [seen EXCEPT ![w] = [unlocked |-> unlocked, acct |-> acct, head |-> None]]
    /\ UNCHANGED <<wallet, worker, answer, replies, browser, paint, unconf, inFlight,
                   holdOutcome, clicks, ghosts>>

\* Messages of one window reach the worker in order: a poll never overtakes a click.
PollQueue(w) ==
    /\ Showing(w) /\ stage[w] = "status"
    /\ \A c \in clicks : c.win # w
    /\ IF pending = <<>>
       THEN /\ stage' = [stage EXCEPT ![w] = "empty"]
            /\ seen' = [seen EXCEPT ![w] = Blank]
            /\ UNCHANGED paint
       ELSE LET kept == /\ seen[w].unlocked /\ paint[w] # None
                        /\ paint[w].req = Head(pending)
                repaints == seen[w].unlocked /\ ~kept
            IN  /\ stage' = [stage EXCEPT ![w] = IF repaints THEN "painting" ELSE "idle"]
                /\ seen' = [seen EXCEPT ![w] =
                                IF repaints THEN [@ EXCEPT !.head = Head(pending)] ELSE Blank]
                /\ paint' = [paint EXCEPT ![w] = IF kept THEN @ ELSE None]
    /\ UNCHANGED <<wallet, worker, answer, replies, browser, unconf, inFlight,
                   holdOutcome, clicks, ghosts>>

CloseEmpty(w) ==
    /\ Showing(w) /\ stage[w] = "empty"
    /\ IF inFlight[w] # {} \/ holdOutcome[w]
       THEN /\ stage' = [stage EXCEPT ![w] = "idle"]
            /\ UNCHANGED <<shown, removing, seen, paint, unconf, inFlight, holdOutcome>>
       ELSE Closes(w)
    /\ UNCHANGED <<wallet, worker, answer, replies, reporting, clicks, ghosts>>

\* The paint binds the signer of the status read, and the warning if there is one.
ShowRequest(w) ==
    /\ Showing(w) /\ stage[w] = "painting"
    /\ stage' = [stage EXCEPT ![w] = "idle"]
    /\ paint' = [paint EXCEPT ![w] = [req |-> seen[w].head, signer |-> seen[w].acct,
                                      warned |-> unconf[w][seen[w].head]]]
    /\ seen' = [seen EXCEPT ![w] = Blank]
    /\ holdOutcome' = [holdOutcome EXCEPT ![w] = FALSE]
    /\ UNCHANGED <<wallet, worker, answer, replies, browser, unconf, inFlight, clicks, ghosts>>

\* resolve() in approve.ts sends an answer to the worker; the next request must
\* be painted afresh before it can be answered.
Sends(w, c) ==
    /\ clicks' = clicks \cup {c}
    /\ paint' = [paint EXCEPT ![w] = None]
    /\ stage' = [stage EXCEPT ![w] = "idle"] /\ seen' = [seen EXCEPT ![w] = Blank]
    /\ inFlight' = [inFlight EXCEPT ![w] = IF c.approve THEN @ \cup {c.req} ELSE @]
    /\ confirmed' = IF c.approve /\ c.ack # None
                    THEN confirmed \cup {<<c.req, c.ack>>} ELSE confirmed
    /\ UNCHANGED <<wallet, worker, answer, replies, browser, unconf, holdOutcome,
                   usedAs, uses, claimed, requeued, told, dismissed>>

\* The user answers what is painted.
Answered(w, approve) ==
    /\ Showing(w) /\ paint[w] # None
    /\ Sends(w, [win |-> w, req |-> paint[w].req, approve |-> approve,
                 signer |-> paint[w].signer, ack |-> paint[w].warned])

CloseByUser(w) ==
    /\ Showing(w) /\ "close" \in Ops
    /\ Closes(w)
    /\ dismissed' = TRUE
    /\ UNCHANGED <<wallet, worker, answer, replies, reporting, clicks,
                   usedAs, uses, claimed, confirmed, requeued, told>>

\* The outcome reaches the window that approved, if it is still there.
\* One with no "ok" field, as for a request no longer queued, reads as success.
ReadsAsSuccess(c) == c.is \in {"ok", "stale"}

Outcome(c) ==
    /\ c \in replies
    /\ replies' = replies \ {c}
    /\ IF Showing(c.win)
       THEN /\ inFlight' = [inFlight EXCEPT ![c.win] = @ \ {c.req}]
            /\ stage' = [stage EXCEPT ![c.win] = "idle"]
            /\ seen' = [seen EXCEPT ![c.win] = Blank]
            /\ paint' = [paint EXCEPT ![c.win] = None]
            /\ unconf' = IF c.is = "unconfirmed"
                         THEN [unconf EXCEPT ![c.win][c.req] = c.claim] ELSE unconf
            /\ holdOutcome' = [holdOutcome EXCEPT ![c.win] = @ \/ c.is = "failed"]
            /\ told' = IF ReadsAsSuccess(c) THEN told \cup {c.req} ELSE told
       ELSE UNCHANGED <<page, told>>
    /\ UNCHANGED <<wallet, worker, answer, browser, clicks,
                   usedAs, uses, claimed, confirmed, requeued, dismissed>>

-----------------------------------------------------------------------------
\* resolvePending, one step per await.
ReplyTo(c, is, f) == [win |-> c.win, req |-> c.req, is |-> is, claim |-> f]

\* finish(): settle the page's promise and tell the window.
Finish(r, a) ==
    /\ phase' = [phase EXCEPT ![r] = "done"]
    /\ answer' = [answer EXCEPT ![r] = a]
    /\ review' = [review EXCEPT ![r] = None]
    /\ stAddr' = [stAddr EXCEPT ![r] = None]
    /\ replies' = IF review[r].approve
                  THEN replies \cup {ReplyTo(review[r], IF a = "ok" THEN "ok" ELSE "failed", None)}
                  ELSE replies

Uses(r, a) == /\ usedAs' = [usedAs EXCEPT ![r] = a]
              /\ uses' = [uses EXCEPT ![r] = @ + 1]
UsesNothing == UNCHANGED <<usedAs, uses>>

\* Mutant of Take: the request leaves the queue only when its outcome is known.
TakeLate(r) == UNCHANGED pending
Take(r) == \E i \in DOMAIN pending : pending[i] = r /\ pending' = RemoveAt(pending, i)

Resolve(c) ==
    /\ c \in clicks
    /\ clicks' = clicks \ {c}
    /\ IF c.req \notin Queued
       THEN /\ replies' = IF c.approve THEN replies \cup {ReplyTo(c, "stale", None)} ELSE replies
            /\ UNCHANGED <<pending, phase, review, answer>>
       ELSE /\ Take(c.req)
            /\ IF c.approve
               THEN /\ phase' = [phase EXCEPT ![c.req] = "status"]
                    /\ review' = [review EXCEPT ![c.req] = c]
                    /\ UNCHANGED <<answer, replies>>
               ELSE /\ phase' = [phase EXCEPT ![c.req] = "done"]
                    /\ answer' = [answer EXCEPT ![c.req] = "rejected"]
                    /\ UNCHANGED <<review, replies>>
    /\ UNCHANGED <<wallet, approveWinId, stAddr, browser, page, ghosts>>

\* status() reads the address here, and whether the wallet is unlocked two awaits on.
StatusReadsAddr(r) ==
    /\ phase[r] = "status"
    /\ stAddr' = [stAddr EXCEPT ![r] = acct]
    /\ phase' = [phase EXCEPT ![r] = "vault"]
    /\ UNCHANGED <<wallet, pending, approveWinId, review, answer, replies, browser, page,
                   clicks, ghosts>>

\* M5, then the dispatch; a guarded method compares the signer with expectSigner.
SignerChanged(r) == review[r].signer # stAddr[r]
\* Mutant of GuardHolds: expectSigner is not passed on.
GuardHoldsAlways(r) == TRUE
GuardHolds(r) == review[r].signer = acct

Dispatch(r) ==
    /\ phase[r] = "vault"
    /\ IF ~unlocked \/ SignerChanged(r)
       THEN Finish(r, IF unlocked THEN "changed" ELSE "locked") /\ UsesNothing
       ELSE IF KindOf[r] \in {"guarded", "fill"} /\ ~GuardHolds(r)
       THEN Finish(r, "changed") /\ UsesNothing
       ELSE /\ phase' = [phase EXCEPT ![r] = IF KindOf[r] = "fill" THEN "preflight" ELSE "method"]
            /\ CASE KindOf[r] = "fill" -> UsesNothing
                 [] KindOf[r] = "connect" -> Uses(r, stAddr[r])
                 [] OTHER -> Uses(r, acct)
            /\ stAddr' = [stAddr EXCEPT ![r] = IF KindOf[r] = "fill" THEN acct ELSE None]
            /\ UNCHANGED <<answer, review, replies>>
    /\ UNCHANGED <<wallet, pending, approveWinId, browser, page, clicks,
                   claimed, confirmed, requeued, told, dismissed>>

\* requeueFront.
RequeueFront(r) ==
    /\ pending' = <<r>> \o pending
    /\ phase' = [phase EXCEPT ![r] = "queued"]
    /\ review' = [review EXCEPT ![r] = None]

\* The preflight finds a reservation the second source does not know.
\* Mutants: the window is not asked whether it is still there; any
\* acknowledgement will do.
WindowGoneNever == FALSE
WindowGone == approveWinId = None
AckedAny(r, f) == review[r].ack # None
Acked(r, f) == review[r].ack = f

PreflightUnconfirmed(r, f) ==
    /\ phase[r] = "preflight" /\ ~Acked(r, f)
    /\ IF WindowGone
       THEN Finish(r, "closed") /\ UNCHANGED <<pending, requeued>>
       ELSE /\ RequeueFront(r)
            /\ replies' = replies \cup {ReplyTo(review[r], "unconfirmed", f)}
            /\ requeued' = requeued \cup {r}
            /\ stAddr' = [stAddr EXCEPT ![r] = None]
            /\ UNCHANGED answer
    /\ UNCHANGED <<wallet, approveWinId, browser, page, clicks,
                   usedAs, uses, claimed, confirmed, told, dismissed>>

PreflightRefuses(r) ==
    /\ phase[r] = "preflight"
    /\ Finish(r, "refused")
    /\ UNCHANGED <<wallet, pending, approveWinId, browser, page, clicks, ghosts>>

\* The preflight passes: the captured signer must still be the active account.
SignerUnchanged(r) == unlocked /\ acct = stAddr[r]

PreflightPasses(r, f) ==
    /\ phase[r] = "preflight"
    /\ f # None => Acked(r, f)
    /\ IF SignerUnchanged(r)
       THEN /\ phase' = [phase EXCEPT ![r] = "method"]
            /\ Uses(r, acct)
            /\ claimed' = [claimed EXCEPT ![r] = f]
            /\ stAddr' = [stAddr EXCEPT ![r] = None]
            /\ UNCHANGED <<answer, review, replies>>
       ELSE Finish(r, "changed") /\ UsesNothing /\ UNCHANGED claimed
    /\ UNCHANGED <<wallet, pending, approveWinId, browser, page, clicks,
                   confirmed, requeued, told, dismissed>>

MethodReturns(r) ==
    /\ phase[r] = "method"
    /\ \E a \in {"ok", "failed"} : Finish(r, a)
    /\ UNCHANGED <<wallet, pending, approveWinId, browser, page, clicks, ghosts>>

-----------------------------------------------------------------------------
\* The user locks or unlocks the wallet, or switches accounts.
WalletMoves ==
    /\ \/ "lock" \in Ops /\ unlocked' = ~unlocked /\ UNCHANGED acct
       \/ "switch" \in Ops /\ unlocked /\ acct' \in Accounts \ {acct} /\ UNCHANGED unlocked
    /\ UNCHANGED <<worker, answer, replies, browser, page, clicks, ghosts>>

\* The worker dies.  Pages and windows waiting on it get an error.
Restart ==
    /\ "restart" \in Ops
    /\ pending' = <<>> /\ approveWinId' = None
    /\ LET lost == {r \in Requests : phase[r] \notin {"new", "done"}}
       IN  /\ phase' = [r \in Requests |-> IF r \in lost THEN "done" ELSE phase[r]]
           /\ answer' = [r \in Requests |-> IF r \in lost THEN "unavailable" ELSE answer[r]]
    /\ review' = [r \in Requests |-> None] /\ stAddr' = [r \in Requests |-> None]
    /\ replies' = replies \cup
         {ReplyTo(review[r], "failed", None) : r \in {q \in Requests : review[q] # None}}
    /\ reporting' = {}
    /\ UNCHANGED <<wallet, shown, removing, page, clicks, ghosts>>

-----------------------------------------------------------------------------
Worker(r) == \/ StatusReadsAddr(r) \/ Dispatch(r) \/ PreflightRefuses(r) \/ MethodReturns(r)
             \/ \E f \in Claims : PreflightUnconfirmed(r, f)
             \/ \E f \in Claims \cup {None} : PreflightPasses(r, f)
Polls(w) == PollStatus(w) \/ PollQueue(w) \/ CloseEmpty(w) \/ ShowRequest(w)
Events(w) == Report(w) \/ Removed(w)
Decides(w) == CloseByUser(w) \/ Answered(w, TRUE) \/ Answered(w, FALSE)

Next ==
    \/ \E r \in Requests : Queue(r) \/ Refuse(r) \/ Worker(r)
    \/ \E w \in Windows : Polls(w) \/ Events(w) \/ Decides(w)
    \/ \E c \in replies : Outcome(c)
    \/ \E c \in clicks : Resolve(c)
    \/ WalletMoves \/ Review \/ Restart

Spec == Init /\ [][Next]_vars

-----------------------------------------------------------------------------
\* What is signed or disclosed is the account the window displayed, however the
\* user switched accounts while status() or the preflight was awaited (M5, A1).
UsesReviewedSigner ==
    [][\A r \in Requests : uses'[r] > uses[r] =>
          review[r] # None /\ usedAs'[r] = review[r].signer]_vars

\* One approval signs once: two windows showing one request, a request put back
\* in the queue and clicked again, or a double click never sign twice.
SignedOnce == \A r \in Requests : uses[r] <= 1

\* A fill signed although its reservation is unconfirmed: the user clicked on the
\* warning, for this request and this very reservation.
WarnedBeforeUnconfirmed ==
    \A r \in Requests : claimed[r] # None => <<r, claimed[r]>> \in confirmed

\* What is queued is shown: while a request waits there is a window on record, or
\* one whose callback will put it on record, so its closing will settle the queue.
\* A request put back by the confirm step, or raced by a window that closes itself
\* or a restarted worker, is never left waiting unseen (openApprovalWindow,
\* requeueFront, the recheck of approveWinId after the preflight).
QueuedIsShown == pending # <<>> => approveWinId # None \/ reporting # {}

\* A page told that its request was refused, rejected or dismissed: it was not
\* carried out, and never will be.
RefusedIsUnsigned == \A r \in Requests : answer[r] \in Refusals => uses[r] = 0

\* The state invariant of the queue, checked as one: types, no request without a
\* window, and no refusal of what was carried out.
QueueInv == TypeOK /\ QueuedIsShown /\ RefusedIsUnsigned

\* "Keep exactly one": of the windows whose callback has run since the worker
\* started, the open one is the one on record.  Closing any other rejects nothing,
\* so a second one would leave its requests unsettled.
Adopted(w) == Showing(w) /\ w \notin reporting
OneWindow ==
    \A v, w \in Windows : Adopted(v) /\ Adopted(w) => v = w

\* Every queued request is eventually answered.  A page sends each request once, so
\* this says that, again and again, none is waiting.
RequestsAnswered == []<>(\A r \in Requests : phase[r] \in {"new", "done"})

\* The outcome line tells "the TRUE result of the signed action" (approve.ts): no
\* window reports success for a request that was refused or lost.
ToldTheTruth == \A r \in told : answer[r] = "ok"

\* onRemoved "rejects exactly the genuinely un-actioned requests" of a window the
\* user closed: a window that closes itself, its queue empty, rejects nothing.
ClosedByUserOnly == (\E r \in Requests : answer[r] = "closed") => dismissed
=============================================================================
