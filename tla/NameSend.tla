------------------------------- MODULE NameSend -------------------------------
(***************************************************************************)
(* A send to a .csd name: Review resolves the name and freezes what the    *)
(* card shows, Confirm resolves it again, cheaply if it can, and signs     *)
(* the frozen review if the name still points there (src/core/names.ts,    *)
(* namecache.ts, namespv.ts; src/popup/popup-sendflow.ts, popup-send.ts,   *)
(* popup-state.ts).  Between any two reads the chain takes a record or     *)
(* drops one, an epoch begins, the settings name other endpoints, the      *)
(* cached review ages, and the user leaves the sheet, reviews again or     *)
(* confirms again.  The name services serve what they like of the chain.   *)
(***************************************************************************)
EXTENDS NameRecords

CONSTANTS
    Calls,       \* reviews and confirms under way at once
    ServedAddrs, \* bound: the addresses a service gives for the name without proof
    MaxReviews,  \* bound: reviews
    MaxEvents    \* bound: changes of the chain, the epoch and the endpoints

ASSUME SendAssumption == ServedAddrs \subseteq Addrs /\ {MaxReviews, MaxEvents} \subseteq Nat

VARIABLES
    chain,       \* the records of each block, and how often the block was replaced
    epoch,       \* the epoch of the tip
    spvGen,      \* how often the endpoints changed
    seen,        \* per endpoints, the replacement count of each verified header
    hints,       \* the hint-set cache
    call,
    card,        \* the frozen review (reviewState), or none
    armed,       \* its Confirm button is live
    submitting,
    reviews,     \* how many reviews there were, which numbers them
    events

vars == <<chain, epoch, spvGen, seen, hints, call, card, armed, submitting, reviews, events>>
world == <<chain, epoch, spvGen, events>>
popup == <<card, armed, submitting, reviews>>

Gens == 0..1
NoCache == [hints |-> {}, hashes |-> <<>>, addr |-> NoOne, epoch |-> 0, gen |-> 0]
NoCard == [id |-> 0, to |-> NoOne, verified |-> FALSE]
NoVerdict == [kind |-> "unproven", addr |-> NoOne, hints |-> {}, sources |-> 0]
\* truth, skip and overdue are history: what a service that held nothing back said at
\* the last read, whether the answer skipped the proof, and whether the lease was then over.
NoAnswer == [ok |-> FALSE, addr |-> NoOne, verified |-> FALSE, sole |-> FALSE,
             truth |-> NoOne, skip |-> FALSE, overdue |-> FALSE]
\* current: no newer review began and none was dropped since this one began; for a
\* confirm, no newer confirm began.
\* gen: the endpoints whose source it verifies with, or whose cache it read.
Off == [pc |-> "off", kind |-> "review", id |-> 0, current |-> FALSE, snap |-> NoCard, gen |-> 0,
        cache |-> NoCache, found |-> NoVerdict, answer |-> NoAnswer]

records == [i \in DOMAIN chain |-> chain[i].recs]
Headers == [i \in DOMAIN chain |-> chain[i].ver]
Mined == HintsOf(records)
Points == AddrOf(resolve(Mined))  \* where the name points
Waiting(c) == call[c].pc \notin {"off", "sending"}
\* beginReview, dropReviews and ++confirmGen: what was current no longer is.
Superseded(kinds) ==
    [c \in Calls |-> IF call[c].kind \in kinds THEN [call[c] EXCEPT !.current = FALSE] ELSE call[c]]

TypeOK ==
    /\ records \in Chains /\ epoch \in Epochs /\ spvGen \in Gens /\ events \in 0..MaxEvents
    /\ \A g \in Gens : Len(seen[g]) <= Len(Founding) + MaxGrowth
    /\ hints.addr \in Addrs \cup {NoOne} /\ hints.epoch \in Epochs /\ hints.gen \in Gens
    /\ \A c \in Calls : /\ call[c].pc \in {"off", "source", "verify", "remember", "hints", "skip",
                                           "answered", "sending"}
                        /\ call[c].found.kind \in VerdictKinds
                        /\ call[c].answer.addr \in Addrs \cup {NoOne}
    /\ card.id \in 0..reviews /\ reviews \in 0..MaxReviews
    /\ {armed, submitting} \subseteq BOOLEAN

Init ==
    /\ chain = [i \in 1..Len(Founding) |-> [recs |-> {Founding[i]}, ver |-> 0]]
    /\ epoch = 0 /\ spvGen = 0 /\ events = 0
    /\ seen = [g \in Gens |-> <<>>] /\ hints = NoCache
    /\ call = [c \in Calls |-> Off]
    /\ card = NoCard /\ armed = FALSE /\ submitting = FALSE /\ reviews = 0

-----------------------------------------------------------------------------
(* The world *)

Happens == events < MaxEvents /\ events' = events + 1

\* A block with a record of the name; none is valid once the lease is over.
Mine(r) == /\ Happens /\ epoch = 0 /\ Len(chain) < Len(Founding) + MaxGrowth
           /\ \A i \in DOMAIN chain : r \notin chain[i].recs
           /\ chain' = Append(chain, [recs |-> {r}, ver |-> 0])
           /\ UNCHANGED <<epoch, spvGen, seen, hints, call, popup>>

\* The newest of these blocks is replaced, with its record or without.
Reorg == /\ Happens /\ Len(chain) > Len(Founding)
         /\ \E recs \in {chain[Len(chain)].recs, {}} :
               chain' = [chain EXCEPT ![Len(chain)] = [recs |-> recs, ver |-> @.ver + 1]]
         /\ UNCHANGED <<epoch, spvGen, seen, hints, call, popup>>

EpochBegins == /\ Happens /\ epoch = 0 /\ epoch' = 1
               /\ UNCHANGED <<chain, spvGen, seen, hints, call, popup>>

\* setRpc and setApi, to another URL.
EndpointChanged == /\ Happens /\ spvGen + 1 \in Gens /\ spvGen' = spvGen + 1
                   /\ hints' = NoCache
                   /\ UNCHANGED <<chain, epoch, seen, call, popup>>

-----------------------------------------------------------------------------
(* resolveName and verifyName *)

\* The service's own answer is read first.  Nothing rests on it but an answer that
\* could not be proven, so it is chosen there (Resolutions).
Resolve(c) == [call[c] EXCEPT !.pc = "source", !.gen = 0, !.cache = NoCache, !.answer = NoAnswer]

\* A superseded call ends with its answer, the popup does nothing with it, and a review
\* with a refusal, which it shows.
Answered(c, ans) ==
    IF ~call[c].current THEN Off
    ELSE IF call[c].kind = "review" /\ ~ans.ok THEN Off
    ELSE [Off EXCEPT !.pc = "answered", !.kind = call[c].kind, !.id = call[c].id, !.current = TRUE,
                     !.snap = call[c].snap, !.answer = ans]
Proven(addr) == [NoAnswer EXCEPT !.ok = TRUE, !.addr = addr, !.verified = TRUE]
Refused == NoAnswer

\* The proven address whatever was served; else the served one, unproven, unless the
\* lease is over, by what was served or for sure.
Resolutions(v, confident) ==
    IF v.kind \in {"union", "recovered", "sole"} THEN {[Proven(v.addr) EXCEPT !.sole = (v.kind = "sole")]}
    ELSE {Refused} \cup (IF confident THEN {} ELSE {[Refused EXCEPT !.ok = TRUE, !.addr = a] : a \in ServedAddrs})

\* The source of the endpoints there are; or the service had no address to give.
TakeSource(c) == /\ call[c].pc = "source"
                 /\ \/ call' = [call EXCEPT ![c].gen = spvGen, ![c].pc = "verify"]
                    \/ call' = [call EXCEPT ![c] = Answered(c, Refused)]
                 /\ UNCHANGED <<world, seen, hints, popup>>

\* A lease that is over is sure when both served, or when an earlier session's tip was
\* past it.
Concludes(c, v, floored) ==
    IF v.kind = "union"
    THEN call' = [call EXCEPT ![c].found = v, ![c].answer.truth = Points, ![c].pc = "remember"]
    ELSE \E ans \in Resolutions(v, v.kind = "lapsed" /\ (v.sources = 2 \/ floored)) :
            LET truth == IF ans.verified THEN Points ELSE NoOne
            IN  call' = [call EXCEPT ![c] = Answered(c, [ans EXCEPT !.truth = truth])]

\* Both services are read, the headers are synced past what is held, and the records are
\* bound and replayed.
Verify(c) ==
    /\ call[c].pc = "verify"
    /\ LET src == call[c].gen IN
       \E held \in {Headers} \cup (IF Len(seen[src]) >= Len(chain) THEN {seen[src]} ELSE {}),
          floored \in {FALSE, epoch = 1}, unbound \in Unbound :
          /\ {h \in DOMAIN chain : held[h] # Headers[h]} \subseteq unbound
          /\ seen' = [seen EXCEPT ![src] = held]
          /\ \E v \in VerdictsOn[records][unbound][epoch] : Concludes(c, v, floored)
    /\ UNCHANGED <<world, hints, popup>>

\* No source, or its sync failed.
VerifyFails(c) ==
    /\ call[c].pc = "verify"
    /\ \E ans \in Resolutions(NoVerdict, FALSE) : call' = [call EXCEPT ![c] = Answered(c, ans)]
    /\ UNCHANGED <<world, seen, hints, popup>>

\* The endpoints are still those the verification began under.
MayCache(c) == call[c].gen = spvGen
HashesOf(c) == [h \in {x.height : x \in call[c].found.hints} |-> seen[call[c].gen][h]]
Entry(c) == [hints |-> call[c].found.hints, hashes |-> HashesOf(c), addr |-> call[c].found.addr,
             epoch |-> epoch, gen |-> call[c].gen]
\* rememberHintSet: a clean union, unless the tip is unknown or the endpoints changed.
Remember(c) ==
    /\ call[c].pc = "remember"
    /\ hints' \in {hints} \cup (IF MayCache(c) THEN {Entry(c)} ELSE {})
    /\ call' = [call EXCEPT ![c] = Answered(c, [Proven(@.found.addr) EXCEPT !.truth = call[c].answer.truth])]
    /\ UNCHANGED <<world, seen, popup>>

-----------------------------------------------------------------------------
(* confirmName *)

\* Mutant of SameHints: further records do not count.
NoFewerHints(served, cache) == cache.hints \subseteq served
SameHints(served, cache) == served = cache.hints
\* The services' hints against the reviewed ones; a served lapse stops the skip.
ReadHints(c) ==
    /\ call[c].pc = "hints"
    /\ \E served \in HintsOn[records], lapsed \in BOOLEAN :
          call' = [call EXCEPT ![c] =
              IF served # {} /\ SameHints(served, @.cache) /\ ~lapsed
              THEN [@ EXCEPT !.pc = "skip", !.answer.truth = IF served \subseteq Mined THEN Points ELSE NoOne]
              ELSE Resolve(c)]
    /\ UNCHANGED <<world, seen, hints, popup>>

\* evaluateHintSetSkip: the epoch and the headers as they were, and the same endpoints.
Unmoved(c) ==
    LET cache == call[c].cache IN
    /\ cache.epoch = epoch /\ call[c].gen = spvGen
    /\ \A h \in DOMAIN cache.hashes : h \in DOMAIN seen[spvGen] /\ seen[spvGen][h] = cache.hashes[h]
\* Unmoved or not, HINTSET_TTL_MS may be over, or the tip unknown.
SkipProof(c) ==
    /\ call[c].pc = "skip"
    /\ LET cache == call[c].cache
           late == epoch > resolve(cache.hints).paid
           known == call[c].answer.truth
       IN  \/ Unmoved(c) /\ call' = [call EXCEPT ![c] =
                  Answered(c, [Proven(cache.addr) EXCEPT !.skip = TRUE, !.overdue = late, !.truth = known])]
           \/ call' = [call EXCEPT ![c] = Resolve(c)]
    /\ UNCHANGED <<world, seen, hints, popup>>

-----------------------------------------------------------------------------
(* The popup *)

\* dropReviews: the card goes, and no review under way puts one up.
Drop == card' = NoCard /\ armed' = FALSE

Review(c) ==
    /\ call[c].pc = "off" /\ reviews < MaxReviews /\ reviews' = reviews + 1
    /\ call' = [Superseded({"review"}) EXCEPT
                   ![c] = [Off EXCEPT !.pc = "source", !.id = reviews + 1, !.current = TRUE]]
    /\ UNCHANGED <<world, seen, hints, card, armed, submitting>>

\* The reads before the card end: it is frozen and armed, unless the review was left.
ShowReview(c) ==
    /\ call[c].pc = "answered" /\ call[c].kind = "review"
    /\ IF call[c].current
       THEN /\ card' = [id |-> call[c].id, to |-> call[c].answer.addr, verified |-> call[c].answer.verified]
            /\ armed' = ~submitting
       ELSE UNCHANGED <<card, armed>>
    /\ call' = [call EXCEPT ![c] = Off]
    /\ UNCHANGED <<world, seen, hints, submitting, reviews>>

\* Back, another sheet, the lock, an account switch.
Leave == /\ card # NoCard \/ \E c \in Calls : Waiting(c) /\ call[c].kind = "review" /\ call[c].current
         /\ Drop /\ call' = Superseded({"review"})
         /\ UNCHANGED <<world, seen, hints, submitting, reviews>>

Confirm(c) ==
    /\ call[c].pc = "off" /\ card # NoCard /\ armed /\ armed' = FALSE
    /\ call' = [Superseded({"confirm"}) EXCEPT ![c] =
                   [Off EXCEPT !.kind = "confirm", !.current = TRUE, !.snap = card, !.cache = hints,
                               !.gen = IF hints = NoCache THEN 0 ELSE spvGen,
                               !.pc = IF hints = NoCache THEN "source" ELSE "hints"]]
    /\ UNCHANGED <<world, seen, hints, card, submitting, reviews>>

reresolveUnchanged(snap, ans) == ans.ok /\ ans.addr = snap.to /\ (snap.verified => ans.verified)

Reread(c) == call[c].pc = "answered" /\ call[c].kind = "confirm"
\* Mutant of Shown: the confirm goes on with the review it read at the click.
ShownAtClick(c) == call[c].current
\* No later Confirm, and the review clicked is the one still there.
Shown(c) == call[c].current /\ card = call[c].snap

\* The frozen review is consumed and signed.
Submit(c) ==
    /\ Reread(c) /\ Shown(c) /\ reresolveUnchanged(call[c].snap, call[c].answer)
    /\ Drop /\ submitting' = TRUE
    /\ call' = [call EXCEPT ![c].pc = "sending"]
    /\ UNCHANGED <<world, seen, hints, reviews>>
Refuse(c) ==
    /\ Reread(c) /\ Shown(c) /\ ~reresolveUnchanged(call[c].snap, call[c].answer)
    /\ Drop /\ call' = [Superseded({"review"}) EXCEPT ![c] = Off]
    /\ UNCHANGED <<world, seen, hints, submitting, reviews>>
ReviewGone(c) ==
    /\ Reread(c) /\ ~Shown(c)
    /\ call' = [call EXCEPT ![c] = Off]
    /\ UNCHANGED <<world, seen, hints, popup>>

\* The submission was answered, whatever the answer: every review is torn down.
Outcome(c) ==
    /\ call[c].pc = "sending"
    /\ submitting' = FALSE /\ Drop
    /\ call' = [Superseded({"review"}) EXCEPT ![c] = Off]
    /\ UNCHANGED <<world, seen, hints, reviews>>

-----------------------------------------------------------------------------
Next ==
    \/ \E r \in Records : Mine(r)
    \/ Reorg \/ EpochBegins \/ EndpointChanged \/ Leave
    \/ \E c \in Calls : \/ TakeSource(c) \/ Verify(c) \/ VerifyFails(c) \/ Remember(c)
                        \/ ReadHints(c) \/ SkipProof(c)
                        \/ Review(c) \/ ShowReview(c) \/ Confirm(c)
                        \/ Submit(c) \/ Refuse(c) \/ ReviewGone(c) \/ Outcome(c)

Spec == Init /\ [][Next]_vars

-----------------------------------------------------------------------------
(* Properties *)

\* A name the wallet calls verified by more than one service's word points where the
\* records point that the chain held when they were read, if either service served them
\* all: one honest service defeats whatever the other withholds, misplaces or adds
\* (verifyNameUnion; with soleSource the badge says that it does not).
UnionDefeatsWithholding ==
    \A c \in Calls : LET ans == call[c].answer IN
        call[c].pc = "answered" /\ ans.verified /\ ~ans.sole /\ ans.truth # NoOne => ans.addr = ans.truth

\* What a verified review showed is signed only where the name still points: a record
\* mined since, re-pointing the name, stops the confirm whether it proves the records
\* again or skips the proof, as long as one service serves it (confirmName,
\* reresolveUnchanged).
RepointRefused ==
    \A c \in Calls : LET ans == call[c].answer IN
        call[c].pc = "sending" /\ call[c].snap.verified /\ ~ans.sole /\ ans.truth # NoOne
            => call[c].snap.to = ans.truth

\* What may replace a proof is itself a proof: the cached hints were bound under the
\* endpoints the wallet has now, they prove the cached address by themselves, and no
\* sale is among them (rememberHintSet, endpointChanged).
CacheIsAProof ==
    hints # NoCache => /\ hints.gen = spvGen
                       /\ AddrOf(resolve(hints.hints)) = hints.addr
                       /\ ~resolve(hints.hints).viaFill

\* The state invariant of the lookups: types, what may replace a proof is one, and
\* no verified review is signed for a name that points elsewhere.
LookupInv == TypeOK /\ CacheIsAProof /\ RepointRefused

\* A submission starts from the review on the screen, and while no other is under way,
\* however Back, another Review and another Confirm fall between the click, the name's
\* answer and the submission's (runConfirm, armReview, reviewCurrent).
SignsTheShownReview ==
    [][\A c \in Calls : call[c].pc # "sending" /\ call'[c].pc = "sending" =>
           /\ card # NoCard /\ call'[c].snap = card
           /\ \A d \in Calls : call[d].pc # "sending"]_vars

\* What the tests of the skip say: a confirm never skips the proof across the end of the
\* lease ("tip-epoch change refuses skip (lapse crossing)", hintset-confirm.test.mjs).
NoSkipPastLapse == \A c \in Calls : call[c].answer.skip => ~call[c].answer.overdue
=============================================================================
