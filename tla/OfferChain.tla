------------------------------ MODULE OfferChain ------------------------------
(***************************************************************************)
(* One market offer and the rule every CairnX reader applies to the chain: *)
(* resolve() of the vendored src/vendor/cairnx-spv.js past V29, and the    *)
(* verifyFillSpv verdict built on it.  A log is the set of the on-chain    *)
(* events about the offer and about the buyers' reservations, one a block: *)
(* an "fclaim" reserves the open offer through its expiry epoch, "other"   *)
(* is a reservation of some other offer, a "cancel" is the seller's, of    *)
(* this offer or of all of them, a "fill" attests the reservation (an open CSD offer) or the   *)
(* offer itself (f = 0: one bound to its taker, or priced in tokens).      *)
(***************************************************************************)
EXTENDS Integers, FiniteSets, Folds

CONSTANTS
    EPOCH_LEN,                \* blocks in an epoch
    FCLAIM_MAX_EPOCH_AHEAD,   \* how many epochs ahead a reservation may reach
    CLAIM_COOLDOWN_BLOCKS,    \* before the same buyer reserves the offer again
    MAX_ACTIVE_CLAIMS,        \* reservations one buyer may hold
    FILL_TIP_MARGIN,          \* blocks a fill is given to be mined
    ClaimDepth,               \* requiredClaimDepth of the offer's value
    OfferExpiry,              \* the offer's expiry epoch
    Me, Rival, NoOne

ASSUME OfferAssumption ==
    /\ {EPOCH_LEN, MAX_ACTIVE_CLAIMS, FILL_TIP_MARGIN, ClaimDepth} \subseteq Nat \ {0}
    /\ {FCLAIM_MAX_EPOCH_AHEAD, CLAIM_COOLDOWN_BLOCKS, OfferExpiry} \subseteq Nat
    /\ Me # Rival /\ NoOne \notin {Me, Rival}

Markets == {"open", "bound", "token"}  \* untaken CSD offer; bound to Me; priced in tokens
Buyers == {Me, Rival}

epochOf(h) == h \div EPOCH_LEN
fclaimHoldEnd(e) == (e + 1) * EPOCH_LEN - 1
offerLastBlock == fclaimHoldEnd(OfferExpiry)
MAX_HOLD_SPAN == EPOCH_LEN * (FCLAIM_MAX_EPOCH_AHEAD + 1) - 1
MAX_SCAN == MAX_HOLD_SPAN + CLAIM_COOLDOWN_BLOCKS + EPOCH_LEN

-----------------------------------------------------------------------------
(* resolve() *)

\* until: the first block past the hold.  others: the buyers' holds elsewhere.
Unclaimed(market) == [market |-> market, status |-> "open", by |-> NoOne, until |-> 0, claim |-> 0,
                      granted |-> {}, others |-> {}, applied |-> {}]

claimHeld(st, h) == st.by # NoOne /\ h < st.until
hasLiveClaim(st, who, h) == st.by = who /\ claimHeld(st, h)
expired(h) == epochOf(h) > OfferExpiry

liveHoldCount(st, who, h) ==
    Cardinality({o \in st.others : o.who = who /\ h < o.until})
    + (IF st.by = who /\ claimHeld(st, h) /\ st.status = "open" THEN 1 ELSE 0)

Grantable(st, ev) ==
    /\ st.status = "open" /\ ~expired(ev.h) /\ st.market = "open"
    /\ ev.e <= OfferExpiry
    /\ ev.e <= epochOf(ev.h) + FCLAIM_MAX_EPOCH_AHEAD /\ epochOf(ev.h) <= ev.e
    /\ ~claimHeld(st, ev.h)
    /\ ~(st.by = ev.who /\ ev.h < st.until + CLAIM_COOLDOWN_BLOCKS)
    /\ liveHoldCount(st, ev.who, ev.h) < MAX_ACTIVE_CLAIMS
applyFclaim(st, ev) ==
    IF Grantable(st, ev)
    THEN [st EXCEPT !.by = ev.who, !.until = fclaimHoldEnd(ev.e) + 1, !.claim = ev.id, !.granted = @ \cup {ev.id}]
    ELSE st

\* Another offer, reserved by nobody else.
applyOther(st, ev) ==
    IF liveHoldCount(st, ev.who, ev.h) < MAX_ACTIVE_CLAIMS
    THEN [st EXCEPT !.others = @ \cup {[id |-> ev.id, who |-> ev.who, until |-> fclaimHoldEnd(ev.e) + 1]}]
    ELSE st

\* Frozen while a reservation is live; an offer bound to its taker is firm.
Cancellable(st, ev) == st.status = "open" /\ st.market # "bound" /\ ~(st.claim # 0 /\ claimHeld(st, ev.h))
applyCancel(st, ev) == IF Cancellable(st, ev) THEN [st EXCEPT !.status = "cancelled"] ELSE st

Delivers(st, ev) ==
    /\ st.status = "open" /\ ~expired(ev.h)
    /\ CASE st.market = "open" -> /\ ev.f # 0 /\ ev.f \in st.granted /\ st.claim = ev.f
                                  /\ hasLiveClaim(st, ev.who, ev.h) /\ ev.pays = "need"
         [] st.market = "bound" -> ev.f = 0 /\ ev.who = Me /\ ev.pays = "need"
         [] st.market = "token" -> ev.f = 0
applyFill(st, ev) ==
    IF Delivers(st, ev) THEN [st EXCEPT !.status = "filled", !.applied = @ \cup {ev.id}] ELSE st

Apply(st, ev) == CASE ev.k = "fclaim" -> applyFclaim(st, ev)
                   [] ev.k = "other" -> applyOther(st, ev)
                   [] ev.k = "cancel" -> applyCancel(st, ev)
                   [] ev.k = "fill" -> applyFill(st, ev)

\* In the order of the blocks.
Latest(events) == CHOOSE ev \in events : \A other \in events : other.h <= ev.h
resolve(market, events) ==
    MapThenFoldSet(LAMBDA ev, st : Apply(st, ev), Unclaimed(market), LAMBDA ev : ev, Latest, events)

-----------------------------------------------------------------------------
(* verifyFillSpv *)

Heights(events, id) == {ev.h : ev \in {x \in events : x.id = id}}
HeightOf(events, id) == CHOOSE h \in Heights(events, id) : TRUE

\* The first reason not to sign a fill of reservation f, or "ok".  events are the
\* offer's own, proven in the window; depths count from the verified tip vt, the
\* hold and its deadline from tip, which is not below vt; holds is the caller's
\* count of me's other reservations at the grant.
verifyFillSpv(market, events, me, f, e, vt, tip, holds, pays) ==
    LET st == resolve(market, events)
        Shallow(h) == vt - h + 1 < ClaimDepth
    IN  IF market = "token" THEN "tokenWant"
        ELSE IF Shallow(HeightOf(events, f)) \/ \E ev \in events : ev.k = "fill" /\ Shallow(ev.h) THEN "shallow"
        ELSE IF holds >= MAX_ACTIVE_CLAIMS THEN "cap"
        ELSE IF ~(st.claim = f /\ f \in st.granted) THEN "notGranted"
        ELSE IF ~(st.status = "open" /\ ~expired(tip) /\ hasLiveClaim(st, me, tip)) THEN "notLive"
        ELSE IF pays # "need" THEN "sums"
        ELSE IF fclaimHoldEnd(e) < tip + FILL_TIP_MARGIN THEN "deadline"
        ELSE "ok"

\* tipDependentFillReason
tipDependent == {"shallow", "notGranted", "notLive", "deadline"}

\* Mutant of countOtherHoldsAtGrant: a hold in its last block is not counted.
CountEndingHoldsOut(events, me, grant, unbound) ==
    Cardinality({ev \in events : /\ ev.k = "other" /\ ev.h < grant
                                 /\ fclaimHoldEnd(ev.e) > grant
                                 /\ (ev.who = me \/ unbound)})
\* countOtherHoldsAtGrant: me's reservations elsewhere that could still be held at
\* the grant, whether or not the chain granted them; one whose author could not be
\* bound to the coin it spends counts as me's.
countOtherHoldsAtGrant(events, me, grant, unbound) ==
    Cardinality({ev \in events : /\ ev.k = "other" /\ ev.h < grant
                                 /\ fclaimHoldEnd(ev.e) >= grant
                                 /\ (ev.who = me \/ unbound)})
=============================================================================
