----------------------------- MODULE FillPreflight -----------------------------
(***************************************************************************)
(* fillOffer: what the wallet checks, read by read, before it signs the    *)
(* payment of an offer (src/core/fillpreflight.ts, fillspv.ts,             *)
(* offerxcheck.ts, and fillOffer of wallet.ts).  The chain moves between   *)
(* the reads: blocks arrive, a short reorganisation undoes some, the       *)
(* user's active account changes, another call verifies a higher tip.  The *)
(* market's record is served, not proven, and may be any record; headers   *)
(* and bodies are proven, but the RPC may serve a lower tip than it had    *)
(* shown before; the second source follows the real chain, and may lag,    *)
(* not answer, or miss a record.                                           *)
(***************************************************************************)
EXTENDS OfferChain, FiniteSetsExt

CONSTANTS
    Alt,          \* the user's second account
    Sunset,       \* the height from which no legacy reservation is left
    RECORD_LAG_MARGIN,
    MarketKinds,  \* which offers exist
    Aheads,       \* how many epochs ahead reservations reach
    MaxLag,       \* bound: how far a served tip is below the chain's
    MaxTip,       \* bound: the last block
    MaxEvents,    \* bound: events, fills of ours aside
    MaxOthers,    \* bound: reservations elsewhere
    FirstFill,    \* bound: the height the user comes at
    MaxFills,     \* bound: how often the user asks
    MaxReorgs     \* bound: reorganisations; none undoes a block ClaimDepth deep

ASSUME FillAssumption ==
    /\ Alt \notin {Me, Rival, NoOne} /\ MarketKinds \subseteq Markets /\ Aheads \subseteq 0..FCLAIM_MAX_EPOCH_AHEAD
    /\ Sunset # 0  \* a tip the wallet could not read counts as 0, below it
    /\ {Sunset, RECORD_LAG_MARGIN, MaxLag, MaxTip, MaxEvents, MaxOthers, FirstFill, MaxFills, MaxReorgs} \subseteq Nat

VARIABLES
    market,   \* what the offer really is
    log, tip, \* the chain
    peak,     \* the highest it ever was
    mined,    \* how many events were ever mined
    reorgs,
    floor,    \* spvNodeTipFloor: the highest tip the wallet verified
    active,   \* the active account
    call,     \* the fill being asked
    asked,
    pend      \* signed fills that are in no block

chain == <<market, log, tip, peak, mined, reorgs>>
vars == <<chain, floor, active, call, asked, pend>>

Event(k, who, e, f) == [id |-> mined + 1, h |-> tip + 1, k |-> k, who |-> who, e |-> e, f |-> f,
                        pays |-> "none", quote |-> "none", sure |-> FALSE, late |-> 0]
\* sure, late, clean and openAt are history: what the chain and the reads had already
\* decided when the fill was checked (FillDelivers, LapseIsRemembered).
Idle == [pc |-> "idle", who |-> NoOne, f |-> 0, pays |-> "none", quote |-> "none",
         clean |-> FALSE, openAt |-> FALSE, sure |-> FALSE, late |-> 0, code |-> "none"]
Pays == {"need", "off", "none"}      \* the outputs: every leg of the fill, not every leg, no CSD
Quotes == {"true", "off", "none"}    \* what the user reviewed of a token fill
\* What the served record says of the offer; one of the wrong kind has the wrong terms.
Served == {s \in [kind : Markets, terms : BOOLEAN] : s.terms => s.kind = market}

chainNow == resolve(market, log)
Grows == tip' = tip + 1 /\ peak' = Max({peak, tip + 1})
Mined(ev) == log' = log \cup {ev} /\ mined' = mined + 1 /\ Grows
Before(h) == {ev \in log : ev.h < h}
ReservationsOf(who) == {ev \in log : ev.k = "fclaim" /\ ev.who = who}
Reservation(f) == CHOOSE ev \in ReservationsOf(Me) : ev.id = f

Codes == {"none", "SIGNED", "ACCOUNT_CHANGED", "BAD_SCORE", "BAD_OUTPUTS", "OFFER_UNKNOWN", "VERIFY_UNAVAILABLE", "FILL_UNSAFE",
          "FILL_WRONG_TARGET", "FILL_LEGACY_SUNSET", "REVIEW_REQUIRED", "RPC_BLOCK_MISMATCH",
          "OFFER_SOURCE_CONFLICT", "RESERVATION_DENIED", "RESERVATION_UNCONFIRMED"}

TypeOK ==
    /\ market \in Markets /\ peak \in 0..MaxTip /\ tip \in 0..peak /\ floor \in 0..peak
    /\ active \in {Me, Alt} /\ asked \in 0..MaxFills /\ reorgs \in 0..MaxReorgs
    /\ \A ev \in log : /\ ev.h \in 1..tip /\ \A other \in log : other.h = ev.h => other = ev
                       /\ ev.k \in {"fclaim", "other", "cancel", "fill"}
    /\ call.pc \in {"idle", "scan", "second", "offer", "sign"} /\ call.code \in Codes
    /\ call.who \in {NoOne, Me, Alt} /\ call.pays \in Pays /\ call.quote \in Quotes
    /\ \A p \in pend : p.k = "fill" /\ p.who \in {Me, Alt}

Init ==
    /\ market \in MarketKinds
    /\ log = {} /\ tip = 0 /\ peak = 0 /\ mined = 0 /\ reorgs = 0
    /\ floor = 0 /\ active = Me /\ call = Idle /\ asked = 0 /\ pend = {}

-----------------------------------------------------------------------------
(* The chain *)

\* The chain is followed until the user comes, and from the first proof of a fill on:
\* a call that has read nothing of the chain may as well have come later.
Watched == tip < MaxTip /\ (tip < FirstFill \/ call.pc \in {"second", "sign"} \/ pend # {})
CanMine == Watched /\ mined < MaxEvents

Quiet == /\ Watched /\ Grows
         /\ UNCHANGED <<market, log, mined, reorgs, floor, active, call, asked, pend>>

OtherEvent ==
    /\ CanMine
    /\ \/ /\ market = "open"
          /\ \E who \in Buyers, ahead \in Aheads :
                Mined(Event("fclaim", who, epochOf(tip + 1) + ahead, 0))
       \/ /\ market = "open"
          /\ Cardinality({ev \in log : ev.k = "other"}) < MaxOthers
          /\ \E who \in Buyers : Mined(Event("other", who, epochOf(tip + 1) + FCLAIM_MAX_EPOCH_AHEAD, 0))
       \/ Mined(Event("cancel", NoOne, 0, 0))
       \/ /\ market = "open" /\ chainNow.by = Rival
          /\ Mined([Event("fill", Rival, 0, chainNow.claim) EXCEPT !.pays = "need"])
       \/ market = "token" /\ Mined(Event("fill", Rival, 0, 0))
    /\ UNCHANGED <<market, reorgs, floor, active, call, asked, pend>>

\* The node admits and mines an attest through its proposal's expiry epoch.
Admitted(p) == epochOf(tip + 1) <= p.e
MineFill ==
    /\ tip < MaxTip
    /\ \E p \in pend : /\ Admitted(p)
                       /\ Mined([p EXCEPT !.id = mined + 1, !.h = tip + 1])
                       /\ pend' = pend \ {p}
    /\ UNCHANGED <<market, reorgs, floor, active, call, asked>>

\* The blocks above h are undone; our fills among them are pending again.
Reorg ==
    /\ (call.pc # "idle" \/ call.code = "SIGNED") /\ reorgs < MaxReorgs /\ reorgs' = reorgs + 1
    /\ \E h \in Max({0, peak - ClaimDepth + 1})..(tip - 1) :
          /\ tip' = h
          /\ log' = Before(h + 1)
          /\ pend' = pend \cup {ev \in log : ev.h > h /\ ev.k = "fill" /\ ev.who # Rival}
    /\ UNCHANGED <<market, peak, mined, floor, active, call, asked>>

\* A name verification syncs the headers to the node's tip.  Only the next read of
\* the floor sees when, so it happens before one.
SyncElsewhere == /\ call.pc \in {"scan", "offer"} /\ floor < tip /\ floor' = tip
                 /\ UNCHANGED <<chain, active, call, asked, pend>>

\* Likewise for the active account, which the call reads again before it signs.
SwitchAccount == /\ call.pc = "sign" /\ active' \in {Me, Alt} \ {active}
                 /\ UNCHANGED <<chain, floor, call, asked, pend>>
-----------------------------------------------------------------------------
(* fillOffer *)

walletRest == UNCHANGED <<active, asked>>
\* The reservation is kept with a refusal that is about it.
Refuse(code) == call' = [Idle EXCEPT !.code = code,
                           !.f = IF code \in {"OFFER_SOURCE_CONFLICT", "RESERVATION_DENIED"} THEN call.f ELSE 0]

\* The served record routes the fill: a target that is not the record's own id has
\* to pass the replay of a reservation.  own: the record's id is the offer's.
Lane(f, own) == IF (f # 0) = own THEN "scan" ELSE "offer"

\* A page or the popup asks from one of the accounts: for a reservation of Me's that
\* the lowest tip a node may serve does not show over, or for the offer itself.  The
\* signer is captured and the market's record read; what the call carries besides is
\* chosen where it is compared.
Asks == /\ call.pc = "idle" /\ asked < MaxFills /\ asked' = asked + 1 /\ tip >= FirstFill
        /\ UNCHANGED <<chain, floor, pend>>
Targets == {0} \cup {ev.id : ev \in {r \in ReservationsOf(Me) : fclaimHoldEnd(r.e) >= tip - MaxLag}}
\* No log changes how the offer-id lane answers for an open offer: one is enough.
Varies(f, own) == market = "open" /\ Lane(f, own) = "offer" => Cardinality(log) <= 1
Ask ==
    /\ Asks
    /\ \E f \in Targets, who \in {Me, Alt}, own \in BOOLEAN :
          /\ Varies(f, own) /\ (market = "open" /\ f = 0 => Cardinality(log) <= 1)
          /\ active' = who
          /\ call' = [Idle EXCEPT !.pc = Lane(f, own), !.who = who, !.f = f]

\* A score that is not a fill's is refused, not corrected; so is an outputs value that
\* is no amount, and an offer that is unknown, closed, or could not be read.
AskRefused ==
    /\ Asks
    /\ \E code \in {"BAD_SCORE", "BAD_OUTPUTS", "OFFER_UNKNOWN", "VERIFY_UNAVAILABLE", "FILL_UNSAFE"} : Refuse(code)
    /\ UNCHANGED active

ServedTips == {t \in (tip - MaxLag)..tip : t >= 0}

\* Mutant of ScanResult: the tip is the served one, whatever the wallet saw before.
ScanAtServedTip(vt, pays, unbound) ==
    LET from == Max({0, vt - (MAX_SCAN + MAX_HOLD_SPAN)})
        window == {ev \in log : ev.h \in from..vt}
        lane == {ev \in window : ev.k # "other"}
    IN  IF call.f = 0 \/ Heights(lane, call.f) = {} THEN "unproven"
        ELSE verifyFillSpv(market, lane, call.who, call.f, Reservation(call.f).e, vt, vt,
                           countOtherHoldsAtGrant(window, call.who, HeightOf(lane, call.f), unbound), pays)

\* makeFillSpvIo and verifyFillSpv at the verified tip vt; unbound: the owner of the
\* coin a reservation elsewhere spends could not be read.
ScanResult(vt, pays, unbound) ==
    LET from == Max({0, vt - (MAX_SCAN + MAX_HOLD_SPAN)})
        window == {ev \in log : ev.h \in from..vt}
        lane == {ev \in window : ev.k # "other"}
    IN  IF call.f = 0 \/ Heights(lane, call.f) = {} THEN "unproven"
        ELSE verifyFillSpv(market, lane, call.who, call.f, Reservation(call.f).e, vt, Max({vt, floor}),
                           countOtherHoldsAtGrant(window, call.who, HeightOf(lane, call.f), unbound), pays)

\* What happened before the window, and a reservation the cap denied inside it, is
\* what a replay of the window alone cannot know.
HoldsKnown(from) ==
    LET st == resolve(market, Before(from))
    IN  /\ st.claim = 0 \/ st.until + CLAIM_COOLDOWN_BLOCKS <= from
        /\ \A ev \in log : ev.k = "fclaim" /\ ev.h >= from /\ ev.id # call.f =>
              liveHoldCount(resolve(market, Before(ev.h)), ev.who, ev.h) < MAX_ACTIVE_CLAIMS

Scan ==
    /\ call.pc = "scan"
    /\ \E vt \in ServedTips, pays \in {"need", "off"}, terms \in BOOLEAN, unbound \in BOOLEAN :
       LET from == Max({0, vt - (MAX_SCAN + MAX_HOLD_SPAN)})
           reason == ScanResult(vt, pays, unbound)
       IN  /\ floor' = Max({floor, vt})
           /\ IF reason = "unproven" \/ (floor > vt /\ reason \in tipDependent) THEN Refuse("VERIFY_UNAVAILABLE")
              ELSE IF reason # "ok" \/ ~terms THEN Refuse("FILL_UNSAFE")
              ELSE call' = [call EXCEPT !.pc = "second", !.pays = pays, !.clean = HoldsKnown(from), !.late = floor,
                                                 !.openAt = resolve(market, Before(from)).status = "open"]
    /\ UNCHANGED <<chain, pend>> /\ walletRest

\* No tip, no header, a body that contradicts its header, an event of the offer whose
\* author could not be bound, an offer that is none.
ScanFails ==
    /\ call.pc = "scan"
    /\ \E code \in {"VERIFY_UNAVAILABLE", "RPC_BLOCK_MISMATCH", "FILL_UNSAFE"} : Refuse(code)
    /\ UNCHANGED <<chain, floor, pend>> /\ walletRest

\* Mutant of OfferConflict: any other holder the second source shows is a conflict.
ConflictOnAnyHolder(s) ==
    LET st == resolve(market, Before(s + 1))
    IN  st.status # "open" \/ expired(s) \/ st.claim \notin {0, call.f}
\* secondSourceOfferConflict, on the offer as the second source has it at height s.
OfferConflict(s) ==
    LET st == resolve(market, Before(s + 1))
    IN  \/ st.status # "open" \/ expired(s)
        \/ st.claim \notin {0, call.f} /\ st.until > fclaimHoldEnd(Reservation(call.f).e)

\* reservationRecordVerdict: "denied", "unknown", or no evidence.
RecordVerdict(reply, s) ==
    LET g == Reservation(call.f).h
    IN  IF reply = "ok" /\ s >= g THEN IF call.f \in resolve(market, Before(s + 1)).granted THEN "none" ELSE "denied"
        ELSE IF reply # "none" /\ s >= g + RECORD_LAG_MARGIN THEN "unknown" ELSE "none"

\* The answers that have arrived when the scan ends; the fill does not wait for them.
\* ack: the user confirmed this reservation in the approval window before.
SecondSource ==
    /\ call.pc = "second"
    /\ \E s \in ServedTips, offer \in {"none", "ok"}, record \in {"none", "ok", "missing"}, ack \in BOOLEAN :
       LET g == Reservation(call.f).h
           informed == record = "ok" /\ s >= g
       IN  IF offer = "ok" /\ OfferConflict(s) THEN Refuse("OFFER_SOURCE_CONFLICT")
           ELSE IF RecordVerdict(record, s) = "denied" THEN Refuse("RESERVATION_DENIED")
           ELSE IF RecordVerdict(record, s) = "unknown" /\ ~ack THEN Refuse("RESERVATION_UNCONFIRMED")
           ELSE call' = [call EXCEPT !.pc = "sign",
                                    !.sure = informed \/ (call.clean /\ (call.openAt \/ (offer = "ok" /\ s >= g)))]
    /\ UNCHANGED <<chain, floor, pend>> /\ walletRest

\* csdLanePreflight and tokenLanePreflight with the rules before them, at the tip t
\* the node answered, 0 when it did not.
OfferLane(t, served, pays, quote) ==
    LET at == Max({t, floor})
        tooLate == at > 0 /\ offerLastBlock < at + FILL_TIP_MARGIN
        unfit == \/ served.kind = "bound" /\ (call.who # Me \/ pays = "none")
                 \/ served.kind = "token" /\ pays # "none"
    IN  IF served.kind = "open" THEN IF at >= Sunset THEN "FILL_LEGACY_SUNSET" ELSE "VERIFY_UNAVAILABLE"
        ELSE IF unfit THEN "FILL_UNSAFE"
        ELSE IF call.f # 0 THEN "VERIFY_UNAVAILABLE"  \* the record at that id is no offer
        ELSE IF tooLate \/ ~served.terms THEN "FILL_UNSAFE"
        ELSE IF served.kind = "bound" THEN IF pays = "need" THEN "none" ELSE "FILL_UNSAFE"
        ELSE IF quote = "none" THEN "REVIEW_REQUIRED"
        ELSE IF quote = "true" THEN "none" ELSE "FILL_UNSAFE"

CheckOffer ==
    /\ call.pc = "offer"
    /\ \/ \E t \in {0} \cup ServedTips, served \in Served, pays \in Pays :
          \E quote \in IF served.kind = "token" THEN Quotes ELSE {"none"} :
             LET code == OfferLane(t, served, pays, quote)
             IN  IF code # "none" THEN Refuse(code)
                 ELSE call' = [call EXCEPT !.pc = "sign", !.pays = pays, !.quote = quote, !.sure = TRUE, !.late = floor]
       \/ Refuse("FILL_WRONG_TARGET")   \* the served record shows the signer's live hold
       \/ Refuse("VERIFY_UNAVAILABLE")  \* the offer's author or block could not be proven
    /\ UNCHANGED <<chain, floor, pend>> /\ walletRest

\* The signer is still the one the checks were made for: build, sign, submit.
Sign ==
    /\ call.pc = "sign"
    /\ IF active = call.who
       THEN /\ pend' = pend \cup {[Event("fill", call.who, IF call.f = 0 THEN OfferExpiry ELSE Reservation(call.f).e, call.f)
                                   EXCEPT !.id = 0, !.h = 0, !.pays = call.pays, !.quote = call.quote,
                                          !.sure = call.sure, !.late = call.late]}
            /\ Refuse("SIGNED")
       ELSE Refuse("ACCOUNT_CHANGED") /\ UNCHANGED pend
    /\ UNCHANGED <<chain, floor>> /\ walletRest

Next == Quiet \/ OtherEvent \/ MineFill \/ Reorg \/ SyncElsewhere \/ SwitchAccount
        \/ Ask \/ AskRefused \/ Scan \/ ScanFails \/ SecondSource \/ CheckOffer \/ Sign
Spec == Init /\ [][Next]_vars

-----------------------------------------------------------------------------
(* Properties *)

OurFills == {ev \in log : ev.k = "fill" /\ ev.who # Rival}

\* A CSD fill the wallet signed and a block holds is delivered, or another fill of
\* the user's had already taken the offer, as long as the window held what its
\* replay needs or the second source's answer was in; a token fill moves no CSD and
\* debits what the user reviewed.  Nothing that is mined after the checks, and no
\* reorganisation they allow for, changes that.
FillDelivers ==
    \A p \in OurFills :
        IF market = "token" THEN p.pays = "none" /\ p.quote = "true"
        ELSE p.sure => \/ p.id \in chainNow.applied
                       \/ \E q \in OurFills : q.h < p.h /\ q.id \in chainNow.applied

\* The second source refuses a fill on positive evidence only, however far it lags:
\* the chain would not deliver it.
RefusalsAreTrue ==
    call.code \in {"OFFER_SOURCE_CONFLICT", "RESERVATION_DENIED"} =>
        ~Delivers(chainNow, [Event("fill", Me, 0, call.f) EXCEPT !.h = tip, !.pays = "need"])

\* A tip the wallet once verified is not forgotten: a fill is signed only if a block
\* FILL_TIP_MARGIN above every tip verified before its checks can still hold it.
LapseIsRemembered == \A p \in pend \cup OurFills : p.late = 0 \/ fclaimHoldEnd(p.e) >= p.late + FILL_TIP_MARGIN
\* The state invariant of the checks: types, and the tips they have seen.
PreflightInv == TypeOK /\ LapseIsRemembered

=============================================================================
