------------------------------ MODULE CoinSpend ------------------------------
(***************************************************************************)
(* The spend engine of src/core/node.ts: which coins a payment, a merge or *)
(* the Max button uses, what the node has to prove about them before the   *)
(* wallet signs, and what the wallet says when the submit is answered,     *)
(* refused, lost or late.                                                  *)
(*                                                                         *)
(* A call awaits the utxo list, then the source transactions of one        *)
(* selection at a time, then the submit; between two awaits it runs alone. *)
(* Calls of the popup and of pages run side by side in one worker and      *)
(* share the three caches of coins the node could not prove.  The node may *)
(* report a value that is not the coin's, answer for a coin whose source   *)
(* is in no block, lag behind its mempool, or be unable to answer.         *)
(***************************************************************************)
EXTENDS Integers, FiniteSets, FiniteSetsExt

CONSTANTS
    Calls,        \* the user's decisions; each is asked again only after a refusal
    Kind,         \* Calls -> "send" (send, sendMany, fillOffer), "app" (propose,
                  \*   attest), "merge" (consolidate), "max" (maxSendable)
    To,           \* Calls -> who is paid; two calls may pay the same
    Amount, Fee,  \* Calls -> what is paid, and the miner fee
    Coins,        \* the account's outpoints, numbered in the served order
    Reported,     \* Coins -> the value /utxos reports
    Real,         \* Coins -> the value the source transaction commits to, 0 for none
    Coinbase,     \* the coinbase outputs among them
    Answers,      \* Coins -> the verdicts /tx may lead to
    MaxInputs,    \* MAX_TX_INPUTS
    MaxRounds,    \* MAX_SELECT_ROUNDS
    SkipMax,      \* SKIP_CACHE_MAX
    MaxFee,       \* MAX_FEE
    CapFloor,     \* the 1 CSD of proportionalFeeCap
    Zero,         \* the zero address
    MaxAsks,      \* bound: how often calls are asked, together
    MaxRestarts   \* bound: how often the service worker dies

\* What a source transaction proves of a coin: its value, that the node has no such
\* transaction, that it cannot look back so far, a number JSON cannot carry; or the
\* node is unhealthy, or the body is not the coin's.
Verdicts == {"value", "notfound", "horizon", "unrep", "transient", "tamper"}

ASSUME CoinAssumption ==
    /\ Coins \subseteq Nat /\ IsFiniteSet(Coins)
    /\ Kind \in [Calls -> {"send", "app", "merge", "max"}]
    /\ Amount \in [Calls -> Nat] /\ Fee \in [Calls -> Nat]
    /\ \A i \in Calls : Kind[i] = "send" => Amount[i] > 0
    /\ Reported \in [Coins -> Nat] /\ Real \in [Coins -> Nat] /\ Coinbase \subseteq Coins
    /\ Answers \in [Coins -> SUBSET Verdicts]
    /\ \A c \in Coins : "value" \in Answers[c] => Real[c] > 0
    /\ MaxInputs \in Nat /\ MaxRounds \in Nat \ {0} /\ SkipMax \in Nat
    /\ MaxFee \in Nat /\ CapFloor \in Nat /\ MaxAsks \in Nat /\ MaxRestarts \in Nat

VARIABLES
    call,      \* what each call knows; one that is over keeps it
    ghostSeen, horizonSeen, unrepSeen,  \* the session caches
    wire,      \* the submits that have not reached the node
    reply,     \* the node's answer to a submit, on its way back
    pool, mined,  \* transactions in the mempool; in blocks
    landed,    \* how often a submit of each call was admitted
    asks, restarts

vars == <<call, ghostSeen, horizonSeen, unrepSeen, wire, reply, pool, mined, landed, asks, restarts>>
caches == <<ghostSeen, horizonSeen, unrepSeen>>
net == <<wire, reply, pool, mined, landed>>
world == <<asks, restarts>>

NoTx == [to |-> Zero, pay |-> 0, change |-> 0, fee |-> 0, ins |-> {}]
Fresh == [pc |-> "idle", code |-> "", utxos |-> {}, exclude |-> {}, round |-> 0, need |-> 0,
          sel |-> {}, known |-> {}, ghost |-> {}, horizon |-> {}, unrep |-> {},
          pass |-> 1, amount |-> 0, tx |-> NoTx]

-----------------------------------------------------------------------------
(* Selection *)

Total(value, S) == MapThenSumSet(LAMBDA c : value[c], S)
Cached == ghostSeen \cup horizonSeen \cup unrepSeen
spendableCoins(utxos, exclude) == {c \in utxos \ exclude : Reported[c] > 0}

Larger(c, d) == Reported[c] > Reported[d] \/ (Reported[c] = Reported[d] /\ c < d)
Smaller(c, d) == Reported[c] < Reported[d] \/ (Reported[c] = Reported[d] /\ c < d)
Largest(n, S) == {c \in S : Cardinality({d \in S : Larger(d, c)}) < n}
Smallest(n, S) == {c \in S : Cardinality({d \in S : Smaller(d, c)}) < n}

\* The shortest largest-first prefix that covers `need`, {} when none within the
\* input cap does.
Covering(coins, need) ==
    {P \in {Largest(n, coins) : n \in 1..MaxInputs} : Total(Reported, P) >= need}
Shortest(prefixes) == CHOOSE P \in prefixes : \A Q \in prefixes : P \subseteq Q
\* Coins that are no coinbase first, then all.
selectInputs(utxos, need, exclude) ==
    LET all == spendableCoins(utxos, exclude)
        plain == all \ Coinbase
    IN  CASE Covering(plain, need) # {} -> Shortest(Covering(plain, need))
          [] Covering(plain, need) = {} /\ Covering(all, need) # {} -> Shortest(Covering(all, need))
          [] OTHER -> {}

\* maxSendable's needOf: what the largest coins of one transaction report.
MostOf(utxos, exclude) ==
    LET t == Total(Reported, Largest(MaxInputs, spendableCoins(utxos, exclude)))
    IN  IF t > 0 THEN t ELSE 1

proportionalFeeCap(total) == IF CapFloor > total \div 10 THEN CapFloor ELSE total \div 10

-----------------------------------------------------------------------------
(* One call between two awaits.  Each operator gives the call's next record. *)

\* A refusal that blames the coins stays with what the call saw of them; any other
\* answer with the transaction alone.
CoinCodes == {"INSUFFICIENT", "TOO_MANY_INPUTS", "VERIFY_HORIZON", "VERIFY_UNREPRESENTABLE",
              "GHOST_INPUTS_SKIPPED"}
Told(r, code) ==
    IF code \in CoinCodes
    THEN [r EXCEPT !.pc = "told", !.code = code, !.round = 0, !.known = {}, !.pass = 1]
    ELSE [Fresh EXCEPT !.pc = "told", !.code = code, !.tx = r.tx]

\* The code when a selection failed, or (`out`) when the rounds are spent.
Diagnosis(r, out) ==
    LET skipped == r.ghost \cup r.horizon \cup r.unrep
    IN  IF ~out /\ Total(Reported, spendableCoins(r.utxos, r.exclude)) >= r.need THEN "TOO_MANY_INPUTS"
        ELSE IF skipped = {} THEN "INSUFFICIENT"
        ELSE IF out THEN "VERIFY_UNAVAILABLE"
        ELSE IF r.horizon # {} THEN "VERIFY_HORIZON"
        ELSE IF r.unrep # {} THEN "VERIFY_UNREPRESENTABLE"
        ELSE "GHOST_INPUTS_SKIPPED"

\* maxSendable says "nothing to send" of an empty account, not a refusal.
Refused(i, r, out) ==
    LET code == Diagnosis(r, out)
    IN  IF Kind[i] = "max" /\ r.pass = 1 /\ code = "INSUFFICIENT" /\ spendableCoins(r.utxos, {}) = {}
        THEN Told(r, "MAX") ELSE Told(r, code)

\* A round of a merge takes the smallest coins; of Max, its target follows what
\* was excluded so far.
NextRound(i, r) ==
    IF Kind[i] = "merge"
    THEN LET few == Smallest(MaxInputs, spendableCoins(r.utxos, r.exclude))
         IN  IF r.round >= MaxRounds THEN Told(r, "VERIFY_UNAVAILABLE")
             ELSE IF Cardinality(few) < 2 THEN Told(r, "NOTHING_TO_CONSOLIDATE")
             ELSE [r EXCEPT !.pc = "verify", !.sel = few, !.round = @ + 1]
    ELSE LET need == IF Kind[i] = "max" /\ r.pass = 1 THEN MostOf(r.utxos, r.exclude) ELSE r.need
             sel == selectInputs(r.utxos, need, r.exclude)
             s == [r EXCEPT !.need = need, !.sel = sel, !.round = @ + 1]
         IN  IF r.round >= MaxRounds THEN Refused(i, r, TRUE)
             ELSE IF sel = {} THEN Refused(i, s, FALSE)
             ELSE [s EXCEPT !.pc = "verify"]

\* Mutant of Change: it follows the reported values.
ChangeReported(i, r) == Total(Reported, r.sel) - r.need
Change(i, r) == Total(Real, r.sel) - r.need

Sign(i, r, pay, change) ==
    [Fresh EXCEPT !.pc = "sent",
              !.tx = [to |-> IF Kind[i] = "send" THEN To[i] ELSE <<"self", Kind[i]>>,
                      pay |-> pay, change |-> change, fee |-> Fee[i], ins |-> r.sel]]

\* Mutant of ProvedTotal: the reported values are believed.
ProvedReported(r) == Total(Reported, r.sel)
ProvedTotal(r) == Total(Real, r.sel)

\* Every selected coin is proved.  assembleValueTx: the fee is held against the
\* proved total and the change is its remainder; an app leg that pays nobody and
\* leaves no change has no output.
PaymentProved(i, r, total) ==
    CASE Fee[i] > proportionalFeeCap(total) -> Told(r, "FEE_CAP")
      [] Fee[i] <= proportionalFeeCap(total) /\ Amount[i] = 0 /\ Change(i, r) = 0 -> Told(r, "NO_OUTPUTS")
      [] OTHER -> Sign(i, r, Amount[i], Change(i, r))

\* consolidate: one output to self, or nothing worth merging.
MergeProved(i, r, total) ==
    CASE total <= Fee[i] -> Told(r, "INSUFFICIENT")
      [] total > Fee[i] /\ Fee[i] > proportionalFeeCap(total) -> Told(r, "FEE_CAP")
      [] OTHER -> Sign(i, r, 0, total - Fee[i])

\* maxSendable: the first pass found the figure, the second has to accept it.
MaxProved(i, r, total) ==
    CASE r.pass = 1 /\ r.need <= Fee[i] -> Told(r, "MAX")
      [] r.pass = 1 /\ r.need > Fee[i] -> [r EXCEPT !.pc = "read", !.pass = 2]
      [] r.pass = 2 /\ Fee[i] > proportionalFeeCap(total) -> Told(r, "FEE_CAP")
      [] OTHER -> [Told(r, "MAX") EXCEPT !.amount = r.need - Fee[i]]

Proved(i, r) ==
    LET total == ProvedTotal(r)
    IN  CASE Kind[i] = "merge" -> MergeProved(i, r, total)
          [] Kind[i] # "merge" /\ total < r.need -> Told(r, "INSUFFICIENT")
          [] Kind[i] = "max" /\ total >= r.need -> MaxProved(i, r, total)
          [] OTHER -> PaymentProved(i, r, total)

\* The coins a round could not prove are out of the next, each booked under its class.
LeftOut(r, g, h, u) ==
    [r EXCEPT !.exclude = @ \cup g \cup h \cup u,
              !.ghost = @ \cup g, !.horizon = @ \cup h, !.unrep = @ \cup u]

-----------------------------------------------------------------------------
(* The calls *)

\* What a call is refused for before it reads anything: consolidate and maxSendable
\* check the fee as assembleValueTx does.
Preflight(i) ==
    IF Fee[i] = 0 THEN "FEE_TOO_LOW"
    ELSE IF Fee[i] > MaxFee THEN "FEE_CAP"
    ELSE IF Kind[i] = "send" /\ To[i] = Zero THEN "ZERO_ADDR_REFUSED"
    ELSE ""

Nothing == CoinCodes \cup
    {"FEE_TOO_LOW", "FEE_CAP", "ZERO_ADDR_REFUSED", "NO_OUTPUTS", "NOTHING_TO_CONSOLIDATE",
     "VERIFY_TAMPER", "VERIFY_UNAVAILABLE", "SUBMIT_REJECTED"}
Maybe == {"SUBMIT_MAYBE_INFLIGHT", "SUBMIT_DUPLICATE", "CHANNEL"}
Codes == Nothing \cup Maybe \cup {"SENT", "MAX"}

\* The popup tears the review down after every outcome, so asking again is a new
\* decision; it is taken only when nothing was sent.
Ask(i) ==
    /\ call[i].pc = "idle" \/ (call[i].pc = "told" /\ call[i].code \in Nothing \cup {"MAX"})
    /\ asks < MaxAsks
    /\ asks' = asks + 1
    /\ LET r == [Fresh EXCEPT !.need = Amount[i] + Fee[i]] IN
       call' = [call EXCEPT ![i] = IF Preflight(i) = "" THEN [r EXCEPT !.pc = "read"]
                                   ELSE Told(r, Preflight(i))]
    /\ UNCHANGED <<caches, net, restarts>>

\* The coins the backend lists: without those its mempool spends, or, when it lags
\* behind the node that took the submit, with them.
Spends(txs) == UNION {t.ins : t \in txs}
Listed == {Coins \ Spends(pool \cup mined), Coins \ Spends(mined)}

\* balance answers.  `expired` are the cache enasks whose time is over.
ReadCoins(i) ==
    /\ call[i].pc = "read"
    /\ \E utxos \in Listed, expired \in {{}, Cached} :
          /\ ghostSeen' = ghostSeen \ expired
          /\ horizonSeen' = horizonSeen \ expired
          /\ unrepSeen' = unrepSeen \ expired
          /\ call' = [call EXCEPT ![i] = NextRound(i, [@ EXCEPT
                 !.utxos = utxos, !.exclude = (Cached \ expired), !.round = 0,
                 !.ghost = ghostSeen' \cap utxos, !.horizon = horizonSeen' \cap utxos,
                 !.unrep = unrepSeen' \cap utxos])]
    /\ UNCHANGED <<net, world>>

ReadFails(i) ==
    /\ call[i].pc = "read"
    /\ call' = [call EXCEPT ![i] = Told(@, "VERIFY_UNAVAILABLE")]
    /\ UNCHANGED <<caches, net, world>>

Forget(cache, S) == cache \ S

\* rememberSkip for each coin of S in turn: a map that grows past its bound is cleared.
LastOf(S) == CHOOSE c \in S : \A d \in S \ {c} : Larger(d, c)
Filed(cache, S) ==
    MapThenFoldSet(LAMBDA c, m : IF Cardinality(m \cup {c}) > SkipMax THEN {} ELSE m \cup {c},
                   cache, LAMBDA c : c, LastOf, S)

\* verifyInputValues over the selection, and what selectVerified or consolidate
\* does with it: a forged body or a failing node ends the call; a coin the node
\* cannot prove is left out, booked under its class, and the next round begins.
Verify(i) ==
    LET r == call[i] IN
    /\ r.pc = "verify"
    /\ \E v \in [r.sel \ r.known -> Verdicts] :
          LET of(k) == {c \in DOMAIN v : v[c] = k}
              g == of("notfound")
              h == of("horizon")
              u == IF h = {} THEN of("unrep") ELSE {}
              s == [LeftOut(r, g, h, u) EXCEPT !.known = @ \cup of("value")]
          IN  /\ \A c \in DOMAIN v : v[c] \in Answers[c]
              /\ IF of("tamper") \cup of("transient") # {}
                 THEN /\ call' = [call EXCEPT ![i] = Told(r,
                             IF of("tamper") # {} THEN "VERIFY_TAMPER" ELSE "VERIFY_UNAVAILABLE")]
                      /\ UNCHANGED caches
                 ELSE /\ ghostSeen' = Filed(Forget(ghostSeen, h \cup u), g)
                      /\ horizonSeen' = Filed(Forget(horizonSeen, g \cup u), h)
                      /\ unrepSeen' = Filed(Forget(unrepSeen, g \cup h), u)
                      /\ call' = [call EXCEPT ![i] = IF g \cup h \cup u = {} THEN Proved(i, s)
                                                     ELSE NextRound(i, s)]
              /\ wire' = IF call'[i].pc = "sent" THEN wire \cup {i} ELSE wire
    /\ UNCHANGED <<reply, pool, mined, landed, world>>

-----------------------------------------------------------------------------
(* The submit: the post, the node, and the answer on its way back *)

\* The answer on its way back to a caller that still waits.
Replies(i, answer) == reply' = IF call[i].pc = "sent" THEN [reply EXCEPT ![i] = answer] ELSE reply

\* The node takes the transaction, has it already, or has another that spends its coins.
Arrive(i) ==
    /\ i \in wire
    /\ wire' = wire \ {i}
    /\ LET t == call[i].tx IN
       IF t \in pool THEN /\ Replies(i, "duplicate")
                          /\ UNCHANGED <<pool, landed>>
       ELSE IF t.ins \cap Spends(pool \cup mined) # {}
       THEN Replies(i, "conflict") /\ UNCHANGED <<pool, landed>>
       ELSE /\ Replies(i, "ok")
            /\ pool' = pool \cup {t} /\ landed' = [landed EXCEPT ![i] = @ + 1]
    /\ UNCHANGED <<call, caches, mined, world>>

\* A proxy refuses before it forwards (400, 413, 429), or a node refuses outright.
Bounced(i) ==
    /\ i \in wire
    /\ wire' = wire \ {i} /\ Replies(i, "conflict")
    /\ UNCHANGED <<call, caches, pool, mined, landed, world>>

\* signAndSubmit's classification of an answer it can read.
Class(answer) == CASE answer = "ok" -> "SENT"
                   [] answer = "duplicate" -> "SUBMIT_DUPLICATE"
                   [] OTHER -> "SUBMIT_REJECTED"

Answered(i) ==
    /\ call[i].pc = "sent" /\ reply[i] # ""
    /\ call' = [call EXCEPT ![i] = Told(@, Class(reply[i]))]
    /\ reply' = [reply EXCEPT ![i] = ""]
    /\ UNCHANGED <<caches, wire, pool, mined, landed, world>>

\* Mutant of Ambiguous: a failed fetch is a refusal.
AmbiguousIsRefused == "SUBMIT_REJECTED"
Ambiguous == "SUBMIT_MAYBE_INFLIGHT"

\* A timeout, a network error, a 5xx, an unreadable body: whatever the node did.
AnswerLost(i) ==
    /\ call[i].pc = "sent"
    /\ call' = [call EXCEPT ![i] = Told(@, Ambiguous)]
    /\ reply' = [reply EXCEPT ![i] = ""]
    /\ UNCHANGED <<caches, wire, pool, mined, landed, world>>

Mine(t) == /\ t \in pool
           /\ pool' = pool \ {t} /\ mined' = mined \cup {t}
           /\ UNCHANGED <<call, caches, wire, reply, landed, world>>

\* The worker dies: the caches go, and the popup's channel breaks under every open
\* call, which its thrownCopy reads as a submit that may be in flight.
Restart ==
    /\ restarts < MaxRestarts
    /\ restarts' = restarts + 1
    /\ ghostSeen' = {} /\ horizonSeen' = {} /\ unrepSeen' = {}
    /\ call' = [i \in Calls |-> IF call[i].pc \in {"read", "verify", "sent"}
                                THEN Told(call[i], "CHANNEL") ELSE call[i]]
    /\ reply' = [i \in Calls |-> ""]
    /\ UNCHANGED <<wire, pool, mined, landed, asks>>

Next ==
    \/ \E i \in Calls : \/ Ask(i) \/ ReadCoins(i) \/ ReadFails(i) \/ Verify(i)
                        \/ Arrive(i) \/ Bounced(i)
                        \/ Answered(i) \/ AnswerLost(i)
    \/ \E t \in pool : Mine(t)
    \/ Restart

Init ==
    /\ call = [i \in Calls |-> Fresh]
    /\ ghostSeen = {} /\ horizonSeen = {} /\ unrepSeen = {}
    /\ wire = {} /\ reply = [i \in Calls |-> ""] /\ pool = {} /\ mined = {}
    /\ landed = [i \in Calls |-> 0] /\ asks = 0 /\ restarts = 0

Spec == Init /\ [][Next]_vars

-----------------------------------------------------------------------------
TypeOK ==
    /\ \A i \in Calls :
          LET r == call[i] IN
          /\ r.pc \in {"idle", "read", "verify", "sent", "told"}
          /\ r.code \in Codes \cup {""} /\ (r.pc = "told" <=> r.code # "")
          /\ r.sel \subseteq r.utxos /\ r.utxos \subseteq Coins /\ r.exclude \subseteq Coins
          /\ r.round \in 0..MaxRounds /\ r.need \in Nat /\ r.amount \in Nat
    /\ ghostSeen \subseteq Coins /\ horizonSeen \subseteq Coins /\ unrepSeen \subseteq Coins
    /\ ghostSeen \cap horizonSeen = {} /\ (ghostSeen \cup horizonSeen) \cap unrepSeen = {}
    /\ wire \subseteq Calls /\ reply \in [Calls -> {"", "ok", "duplicate", "conflict"}]
    /\ landed \in [Calls -> Nat] /\ asks \in 0..MaxAsks
    /\ restarts \in 0..MaxRestarts

Signed == {call[i].tx : i \in Calls} \ {NoTx}

\* What is signed spends only coins that exist, at the value their source commits
\* to, and returns every unit that is neither paid nor the fee ("a hostile /utxos
\* value ... silently burn the difference as fee", node.ts): whatever the node
\* reports, and however many rounds the selection took.
PaysExactly ==
    \A t \in Signed : /\ \A c \in t.ins : Real[c] > 0
                      /\ Cardinality(t.ins) \in 1..MaxInputs
                      /\ Total(Real, t.ins) = t.pay + t.change + t.fee
                      /\ t.fee <= proportionalFeeCap(Total(Real, t.ins)) /\ t.fee <= MaxFee

\* The reference the selection is held against: some choice of eligible coins within
\* the cap reports enough.
Coverable(coins, n, need) ==
    \E S \in SUBSET coins : Cardinality(S) <= n /\ Total(Reported, S) >= need

\* A refusal that blames the coins is true of the coins the call was shown: too many
\* inputs only when a larger transaction would do, a shortage only when no choice of
\* coins does or the node overstated the chosen ones, and the skipped coins it counts
\* are those it left out, each under one class.
RefusalsAreTrue ==
    \A i \in Calls :
        LET r == call[i]
            left == spendableCoins(r.utxos, r.exclude)
        IN  (r.pc = "told" /\ Kind[i] # "merge") =>
              /\ r.code = "TOO_MANY_INPUTS" => /\ ~Coverable(left, MaxInputs, r.need)
                                               /\ Coverable(left, Cardinality(left), r.need)
              /\ r.code = "INSUFFICIENT" =>
                    \/ r.exclude \cap r.utxos = {} /\ ~Coverable(left, Cardinality(left), r.need)
                    \/ Total(Real, r.sel) < Total(Reported, r.sel)
              /\ r.code \in {"GHOST_INPUTS_SKIPPED", "VERIFY_HORIZON", "VERIFY_UNREPRESENTABLE"} =>
                    /\ ~Coverable(left, Cardinality(left), r.need)
                    /\ r.ghost \cup r.horizon \cup r.unrep = r.exclude \cap r.utxos
                    /\ r.ghost \cap r.horizon = {} /\ (r.ghost \cup r.horizon) \cap r.unrep = {}

\* Max's figure can be paid with coins that exist: the answer is one transaction's
\* worth, whatever the node reported between the two passes.
MaxIsReal ==
    \A i \in Calls :
        call[i].amount > 0 =>
            \E S \in SUBSET {c \in Coins : Real[c] > 0} :
                Cardinality(S) <= MaxInputs /\ Total(Real, S) >= call[i].amount + Fee[i]

-----------------------------------------------------------------------------
(* Refinement: the word each call ends with keeps the promise. *)

Said(i) ==
    CASE call[i].pc = "idle" -> "idle"
      [] call[i].pc \in {"read", "verify", "sent"} -> "asked"
      [] call[i].pc = "told" /\ call[i].code \in Nothing \cup {"MAX"} -> "nothing"
      [] call[i].pc = "told" /\ call[i].code \in Maybe -> "maybe"
      [] call[i].pc = "told" /\ call[i].code = "SENT" -> "sent"

Promise == INSTANCE PaymentPromise
             WITH Payments <- Calls, said <- [i \in Calls |-> Said(i)], landed <- landed

\* The engine, the network and the popup's reading of the answer together keep the
\* promise: "nothing was sent" is never said of a payment a node took or still may
\* take, and none is taken twice.
PromiseKept == Promise!Spec

\* The state invariant of the engine: types, balanced transactions, true refusals.
EngineInv == TypeOK /\ PaysExactly /\ RefusalsAreTrue
=============================================================================
