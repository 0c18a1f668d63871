--------------------------- MODULE CoinSpendProofs ---------------------------
(***************************************************************************)
(* The spend engine implements PaymentPromise, for any coins, any calls    *)
(* and any answers of the node: "nothing was sent" is never said of a      *)
(* payment that was or may yet be taken, and none is taken twice.  What it *)
(* signs is exact, what it says of the coins is true, and Max can be paid. *)
(*                                                                         *)
(* The refinement needs nothing of which coins a round selects.  It rests  *)
(* on where a call's submit is: not posted, on its way, answered, or left  *)
(* open (Fate).  The rest is about the coins: sums over finite sets, that  *)
(* the largest coins are the best choice of so many, and what a call knows *)
(* at each of its awaits (Kept).                                           *)
(***************************************************************************)
EXTENDS CoinSpend, TLAPS, FiniteSetTheorems, WellFoundedInduction

-----------------------------------------------------------------------------
(* What a call's record may become between two awaits *)

Fields == {"pc", "code", "utxos", "exclude", "round", "need", "sel", "known", "ghost",
           "horizon", "unrep", "pass", "amount", "tx"}
Shaped(q) == DOMAIN q = Fields
NoWord == Nothing \cup {"MAX"}

IsTold(q, code) == Shaped(q) /\ q.pc = "told" /\ q.code = code
Refusal(q) == Shaped(q) /\ q.pc = "told" /\ q.code \in NoWord
Going(q) == Shaped(q) /\ q.pc \in {"read", "verify"}
Sending(q) == Shaped(q) /\ q.pc = "sent"

LEMMA FreshShaped == Shaped(Fresh) /\ Fresh.pc = "idle" /\ Fresh.code = ""
  BY SMT DEF Shaped, Fields, Fresh, NoTx

LEMMA ToldIs == ASSUME NEW r, Shaped(r), NEW code PROVE IsTold(Told(r, code), code)
<1>1. CASE code \in CoinCodes
  <2> DEFINE t == [r EXCEPT !.pc = "told", !.code = code, !.round = 0, !.known = {}, !.pass = 1]
  <2>1. Shaped(t) /\ t.pc = "told" /\ t.code = code
    BY Zenon DEF Shaped, Fields
  <2>2. Told(r, code) = t
    BY <1>1 DEF Told
  <2> QED BY <2>1, <2>2 DEF IsTold
<1>2. CASE code \notin CoinCodes
  <2> DEFINE t == [Fresh EXCEPT !.pc = "told", !.code = code, !.tx = r.tx]
  <2>1. Shaped(t) /\ t.pc = "told" /\ t.code = code
    BY Zenon, FreshShaped DEF Shaped, Fields
  <2>2. Told(r, code) = t
    BY <1>2 DEF Told
  <2> QED BY <2>1, <2>2 DEF IsTold
<1> QED BY <1>1, <1>2

LEMMA ToldRefusal == ASSUME NEW r, Shaped(r), NEW code \in NoWord PROVE Refusal(Told(r, code))
  BY ToldIs DEF Refusal, IsTold

LEMMA RefusedIs == ASSUME NEW i, NEW r, Shaped(r), NEW out PROVE Refusal(Refused(i, r, out))
<1>1. Diagnosis(r, out) \in NoWord
  BY SMT DEF Diagnosis, NoWord, Nothing, CoinCodes
<1>2. "MAX" \in NoWord
  BY DEF NoWord
<1>3. Refused(i, r, out) \in {Told(r, "MAX"), Told(r, Diagnosis(r, out))}
  BY Zenon DEF Refused
<1> QED BY <1>1, <1>2, <1>3, ToldRefusal

\* A round ends the call with a refusal or goes on to the source transactions.
LEMMA NextRoundIs ==
    ASSUME NEW i, NEW r, Shaped(r)
    PROVE  Refusal(NextRound(i, r)) \/ Going(NextRound(i, r))
<1>1. {"VERIFY_UNAVAILABLE", "NOTHING_TO_CONSOLIDATE"} \subseteq NoWord
  BY DEF NoWord, Nothing
<1>2. CASE Kind[i] = "merge"
  <2> DEFINE few == Smallest(MaxInputs, spendableCoins(r.utxos, r.exclude))
             t == [r EXCEPT !.pc = "verify", !.sel = few, !.round = @ + 1]
  <2>1. Going(t)
    BY Zenon DEF Going, Shaped, Fields
  <2>2. NextRound(i, r) \in {Told(r, "VERIFY_UNAVAILABLE"), Told(r, "NOTHING_TO_CONSOLIDATE"), t}
    BY Zenon, <1>2 DEF NextRound
  <2> HIDE DEF t
  <2> QED BY <1>1, <2>1, <2>2, ToldRefusal
<1>3. CASE Kind[i] # "merge"
  <2> DEFINE need == IF Kind[i] = "max" /\ r.pass = 1 THEN MostOf(r.utxos, r.exclude) ELSE r.need
             sel == selectInputs(r.utxos, need, r.exclude)
             s == [r EXCEPT !.need = need, !.sel = sel, !.round = @ + 1]
             t == [s EXCEPT !.pc = "verify"]
  <2>1. Shaped(s)
    <3> HIDE DEF need, sel
    <3> QED BY Zenon DEF Shaped, Fields
  <2>2. NextRound(i, r) \in {Refused(i, r, TRUE), Refused(i, s, FALSE), t}
    <3> HIDE DEF need, sel, s, t
    <3>1. NextRound(i, r) = IF r.round >= MaxRounds THEN Refused(i, r, TRUE)
                            ELSE IF sel = {} THEN Refused(i, s, FALSE) ELSE t
      BY Zenon, <1>3 DEF NextRound, need, sel, s, t
    <3> QED BY Zenon, <3>1
  <2> HIDE DEF s
  <2>3. Going(t)
    BY Zenon, <2>1 DEF Going, Shaped, Fields
  <2> HIDE DEF t
  <2> QED BY <2>1, <2>2, <2>3, RefusedIs
<1> QED BY <1>2, <1>3

LEMMA SignIs == ASSUME NEW i, NEW r, NEW pay, NEW change PROVE Sending(Sign(i, r, pay, change))
  BY Zenon, FreshShaped DEF Sign, Sending, Shaped, Fields

\* Proved coins end the call with a refusal, or the figure; go on to Max's second
\* pass; or are signed.
LEMMA ProvedIs ==
    ASSUME NEW i, NEW r, Shaped(r)
    PROVE  Refusal(Proved(i, r)) \/ Going(Proved(i, r)) \/ Sending(Proved(i, r))
<1> DEFINE total == ProvedTotal(r)
<1> HIDE DEF total
<1>1. {"FEE_CAP", "NO_OUTPUTS", "INSUFFICIENT", "MAX"} \subseteq NoWord
  BY DEF NoWord, Nothing, CoinCodes
<1>2. Refusal(PaymentProved(i, r, total)) \/ Sending(PaymentProved(i, r, total))
  <2>1. PaymentProved(i, r, total) \in
          {Told(r, "FEE_CAP"), Told(r, "NO_OUTPUTS"), Sign(i, r, Amount[i], Change(i, r))}
    BY Zenon DEF PaymentProved
  <2> QED BY <1>1, <2>1, ToldRefusal, SignIs
<1>3. Refusal(MergeProved(i, r, total)) \/ Sending(MergeProved(i, r, total))
  <2>1. MergeProved(i, r, total) \in
          {Told(r, "INSUFFICIENT"), Told(r, "FEE_CAP"), Sign(i, r, 0, total - Fee[i])}
    BY Zenon DEF MergeProved
  <2> QED BY <1>1, <2>1, ToldRefusal, SignIs
<1>4. Refusal(MaxProved(i, r, total)) \/ Going(MaxProved(i, r, total))
  <2> DEFINE again == [r EXCEPT !.pc = "read", !.pass = 2]
             figure == [Told(r, "MAX") EXCEPT !.amount = r.need - Fee[i]]
  <2>1. Going(again)
    BY Zenon DEF Going, Shaped, Fields
  <2>2. Refusal(figure)
    <3>1. IsTold(Told(r, "MAX"), "MAX")
      BY ToldIs
    <3> QED BY Zenon, <1>1, <3>1 DEF Refusal, IsTold, Shaped, Fields
  <2>3. MaxProved(i, r, total) \in {Told(r, "MAX"), again, Told(r, "FEE_CAP"), figure}
    BY Zenon DEF MaxProved
  <2> HIDE DEF again, figure
  <2> QED BY <1>1, <2>1, <2>2, <2>3, ToldRefusal
<1>5. Proved(i, r) \in {MergeProved(i, r, total), Told(r, "INSUFFICIENT"),
                        MaxProved(i, r, total), PaymentProved(i, r, total)}
  BY Zenon DEF Proved, total
<1> QED BY <1>1, <1>2, <1>3, <1>4, <1>5, ToldRefusal

-----------------------------------------------------------------------------
(* Where a submit is *)

\* The record of call i, whether its submit is on the wire, the answer on its way
\* back, and how often it was admitted.
Place(q, onWire, answer, n) ==
    \/ q.pc \in {"idle", "read", "verify"} /\ ~onWire /\ answer = "" /\ n = 0
    \/ /\ q.pc = "sent"
       /\ \/ onWire /\ answer = "" /\ n = 0
          \/ ~onWire /\ answer = "ok" /\ n = 1
          \/ ~onWire /\ answer \in {"duplicate", "conflict"} /\ n = 0
    \/ /\ q.pc = "told" /\ answer = ""
       /\ \/ q.code \in NoWord /\ ~onWire /\ n = 0
          \/ q.code = "SENT" /\ ~onWire /\ n = 1
          \/ q.code \in Maybe /\ onWire /\ n = 0
          \/ q.code \in Maybe /\ ~onWire /\ n \in {0, 1}

Typed == /\ call = [i \in Calls |-> call[i]]
         /\ reply \in [Calls -> {"", "ok", "duplicate", "conflict"}]
         /\ landed \in [Calls -> {0, 1}]
         /\ wire \subseteq Calls
Fate == /\ Typed
        /\ \A i \in Calls : Shaped(call[i]) /\ Place(call[i], i \in wire, reply[i], landed[i])

words == [i \in Calls |-> Said(i)]
PromiseStep == [Promise!Next]_(Promise!vars)

\* The three classes of a last word are apart.
LEMMA WordsApart ==
    /\ NoWord \cap Maybe = {} /\ "SENT" \notin NoWord \cup Maybe
    /\ "CHANNEL" \in Maybe /\ Ambiguous \in Maybe /\ "SUBMIT_DUPLICATE" \in Maybe
    /\ "SUBMIT_REJECTED" \in NoWord
  BY DEF NoWord, Maybe, Nothing, CoinCodes, Ambiguous

\* What a record says.
WordOf(q) == CASE q.pc = "idle" -> "idle"
               [] q.pc \in {"read", "verify", "sent"} -> "asked"
               [] q.pc = "told" /\ q.code \in NoWord -> "nothing"
               [] q.pc = "told" /\ q.code \in Maybe -> "maybe"
               [] q.pc = "told" /\ q.code = "SENT" -> "sent"

LEMMA SaidIs == ASSUME NEW i PROVE Said(i) = WordOf(call[i]) /\ Said(i)' = WordOf(call'[i])
  BY DEF Said, WordOf, NoWord

LEMMA WordIs ==
    ASSUME NEW q
    PROVE  /\ q.pc = "idle" => WordOf(q) = "idle"
           /\ q.pc \in {"read", "verify", "sent"} => WordOf(q) = "asked"
           /\ q.pc = "told" /\ q.code \in NoWord => WordOf(q) = "nothing"
           /\ q.pc = "told" /\ q.code \in Maybe => WordOf(q) = "maybe"
           /\ q.pc = "told" /\ q.code = "SENT" => WordOf(q) = "sent"
<1>1. ASSUME q.pc = "told", q.code \in NoWord PROVE WordOf(q) = "nothing"
  BY <1>1, WordsApart DEF WordOf
<1>2. ASSUME q.pc = "told", q.code \in Maybe PROVE WordOf(q) = "maybe"
  BY <1>2, WordsApart DEF WordOf
<1>3. ASSUME q.pc = "told", q.code = "SENT" PROVE WordOf(q) = "sent"
  BY <1>3, WordsApart DEF WordOf
<1>4. ASSUME q.pc = "idle" PROVE WordOf(q) = "idle"
  BY <1>4 DEF WordOf
<1>5. ASSUME q.pc \in {"read", "verify", "sent"} PROVE WordOf(q) = "asked"
  BY <1>5 DEF WordOf
<1> QED BY <1>1, <1>2, <1>3, <1>4, <1>5

\* A step that replaces one call's record moves that call's word alone.
LEMMA OneCall ==
    ASSUME Typed, NEW i \in Calls, NEW q, call' = [call EXCEPT ![i] = q]
    PROVE  /\ call' = [j \in Calls |-> call'[j]]
           /\ call'[i] = q
           /\ \A j \in Calls \ {i} : call'[j] = call[j] /\ Said(j)' = Said(j)
           /\ words' = [words EXCEPT ![i] = Said(i)']
<1>1. /\ call' = [j \in Calls |-> call'[j]] /\ call'[i] = q
      /\ \A j \in Calls \ {i} : call'[j] = call[j]
  BY Zenon DEF Typed
<1>2. \A j \in Calls \ {i} : Said(j)' = Said(j)
  BY <1>1 DEF Said
<1>3. words' = [words EXCEPT ![i] = Said(i)']
  BY Zenon, <1>2 DEF words
<1> QED BY <1>1, <1>2, <1>3

LEMMA InitKeeps == Init => Fate /\ Promise!Init
<1> SUFFICES ASSUME Init PROVE Fate /\ Promise!Init
  OBVIOUS
<1>1. \A i \in Calls : call[i] = Fresh
  BY DEF Init
<1>2. Fate
  BY <1>1, FreshShaped DEF Init, Fate, Typed, Place
<1>3. \A i \in Calls : Said(i) = "idle"
  BY <1>1, FreshShaped, SaidIs, WordIs
<1> QED BY <1>2, <1>3 DEF Init, Promise!Init

-----------------------------------------------------------------------------
(* Steps of one call *)

\* The steps PaymentPromise allows, told by the word of the one call that moves.
LEMMA AbstractStep ==
    ASSUME NEW i \in Calls, words' = [words EXCEPT ![i] = Said(i)'],
           \/ landed' = landed /\ Said(i)' = Said(i)
           \/ landed' = landed /\ Said(i) \in {"idle", "nothing"} /\ Said(i)' \in {"asked", "nothing"}
           \/ landed' = landed /\ Said(i) = "asked" /\ Said(i)' = "nothing" /\ landed[i] = 0
           \/ landed' = landed /\ Said(i) = "asked" /\ Said(i)' = "sent" /\ landed[i] = 1
           \/ landed' = landed /\ Said(i) = "asked" /\ Said(i)' = "maybe"
           \/ /\ Said(i)' = Said(i) /\ Said(i) \in {"asked", "maybe"}
              /\ landed[i] = 0 /\ landed' = [landed EXCEPT ![i] = 1]
    PROVE  PromiseStep
<1>1. words[i] = Said(i)
  BY DEF words
<1>2. CASE Said(i)' = Said(i)
  <2>1. words' = words
    BY Zenon, <1>1, <1>2 DEF words
  <2>2. CASE landed' = landed
    BY <2>1, <2>2 DEF PromiseStep, Promise!vars, words
  <2>3. CASE /\ Said(i) \in {"asked", "maybe"}
             /\ landed[i] = 0 /\ landed' = [landed EXCEPT ![i] = 1]
    <3>1. Promise!Land(i)
      BY Zenon, <1>1, <2>1, <2>3 DEF Promise!Land, words
    <3> QED BY <3>1 DEF PromiseStep, Promise!Next
  <2> QED BY <1>2, <2>2, <2>3
<1>3. CASE landed' = landed /\ Said(i) \in {"idle", "nothing"} /\ Said(i)' \in {"asked", "nothing"}
  <2>1. Promise!Ask(i)
    BY Zenon, <1>1, <1>3 DEF Promise!Ask, words
  <2> QED BY <2>1 DEF PromiseStep, Promise!Next
<1>4. CASE /\ landed' = landed /\ Said(i) = "asked"
           /\ \/ landed[i] = 0 /\ Said(i)' = "nothing"
              \/ landed[i] = 1 /\ Said(i)' = "sent"
              \/ Said(i)' = "maybe"
  <2>1. Promise!Say(i)
    BY Zenon, <1>1, <1>4 DEF Promise!Say, words
  <2> QED BY <2>1 DEF PromiseStep, Promise!Next
<1> QED BY <1>2, <1>3, <1>4

\* A step leaves every other call's submit and answer where they are.
Frame(i) == /\ wire' \subseteq Calls
            /\ reply' \in [Calls -> {"", "ok", "duplicate", "conflict"}]
            /\ landed' \in [Calls -> {0, 1}]
            /\ \A j \in Calls \ {i} : /\ j \in wire' <=> j \in wire
                                      /\ reply'[j] = reply[j] /\ landed'[j] = landed[j]

\* A step that moves one call, its submit and its answer, and puts them in a place.
LEMMA OneFate ==
    ASSUME Fate, NEW i \in Calls, NEW q, call' = [call EXCEPT ![i] = q], Frame(i),
           Shaped(q), Place(q, i \in wire', reply'[i], landed'[i])
    PROVE  Fate'
<1>1. call' = [j \in Calls |-> call'[j]] /\ call'[i] = q
      /\ \A j \in Calls \ {i} : call'[j] = call[j]
  BY Zenon, OneCall DEF Fate
<1>2. ASSUME NEW j \in Calls
      PROVE  Shaped(call'[j]) /\ Place(call'[j], j \in wire', reply'[j], landed'[j])
  <2>1. CASE j = i
    BY Zenon, <1>1, <2>1
  <2>2. CASE j # i
    <3>1. Shaped(call[j]) /\ Place(call[j], j \in wire, reply[j], landed[j])
      BY Zenon DEF Fate
    <3>2. /\ call'[j] = call[j] /\ reply'[j] = reply[j] /\ landed'[j] = landed[j]
          /\ j \in wire' <=> j \in wire
      BY Zenon, <1>1, <2>2 DEF Frame
    <3>3. Shaped(call'[j])
      BY Zenon, <3>1, <3>2
    <3>4. Place(call[j], j \in wire', reply[j], landed[j])
      BY Zenon, <3>1, <3>2 DEF Place
    <3> QED BY Zenon, <3>2, <3>3, <3>4
  <2> QED BY <2>1, <2>2
<1>3. Typed'
  BY Zenon, <1>1 DEF Typed, Frame
<1> QED BY Zenon, <1>2, <1>3 DEF Fate

-----------------------------------------------------------------------------
(* The actions: each keeps Fate and is a step of PaymentPromise or none *)

\* A call that goes on, refuses or signs from where it has posted nothing.
LEMMA Between ==
    ASSUME Fate, NEW i \in Calls, call[i].pc \in {"read", "verify"},
           NEW q, call' = [call EXCEPT ![i] = q],
           \/ (Refusal(q) \/ Going(q)) /\ wire' = wire
           \/ Sending(q) /\ wire' = wire \cup {i},
           reply' = reply, landed' = landed
    PROVE  Fate' /\ PromiseStep
<1>1. i \notin wire /\ reply[i] = "" /\ landed[i] = 0 /\ Said(i) = "asked"
  BY SaidIs, WordIs DEF Fate, Place
<1>2. Shaped(q) /\ Place(q, i \in wire', reply'[i], landed'[i])
  BY <1>1 DEF Refusal, Going, Sending, Place
<1>3. Frame(i)
  BY <1>1 DEF Fate, Typed, Frame
<1>4. Fate'
  BY <1>2, <1>3, OneFate
<1>5. /\ words' = [words EXCEPT ![i] = Said(i)']
      /\ call'[i] = q
  BY OneCall DEF Fate
<1>6. Said(i)' \in {"nothing", "asked"}
  BY <1>5, SaidIs, WordIs DEF Refusal, Going, Sending
<1> QED BY <1>1, <1>4, <1>5, <1>6, AbstractStep

LEMMA AskKeeps == ASSUME Fate, NEW i \in Calls, Ask(i) PROVE Fate' /\ PromiseStep
<1> DEFINE r == [Fresh EXCEPT !.need = Amount[i] + Fee[i]]
           q == IF Preflight(i) = "" THEN [r EXCEPT !.pc = "read"] ELSE Told(r, Preflight(i))
<1>1. i \notin wire /\ reply[i] = "" /\ landed[i] = 0 /\ Said(i) \in {"idle", "nothing"}
  <2>1. call[i].pc = "idle" \/ (call[i].pc = "told" /\ call[i].code \in NoWord)
    BY DEF Ask, NoWord
  <2> QED BY <2>1, SaidIs, WordIs, WordsApart DEF Fate, Place
<1>2. Refusal(q) \/ Going(q)
  <2>1. Shaped(r)
    BY Zenon, FreshShaped DEF Shaped, Fields
  <2> HIDE DEF r
  <2>2. CASE Preflight(i) = ""
    BY Zenon, <2>1, <2>2 DEF Going, Shaped, Fields
  <2>3. CASE Preflight(i) # ""
    <3>1. Preflight(i) \in NoWord
      BY <2>3 DEF Preflight, NoWord, Nothing
    <3> QED BY Zenon, <2>1, <2>3, <3>1, ToldRefusal
  <2> QED BY <2>2, <2>3
<1>3. call' = [call EXCEPT ![i] = q] /\ wire' = wire /\ reply' = reply /\ landed' = landed
  BY Zenon DEF Ask, net
<1> HIDE DEF q
<1>4. Shaped(q) /\ Place(q, i \in wire', reply'[i], landed'[i])
  BY <1>1, <1>2, <1>3 DEF Refusal, Going, Place
<1>5. Frame(i)
  BY <1>3 DEF Fate, Typed, Frame
<1>6. Fate'
  BY <1>3, <1>4, <1>5, OneFate
<1>7. /\ words' = [words EXCEPT ![i] = Said(i)']
      /\ call'[i] = q
  BY <1>3, OneCall DEF Fate
<1>8. Said(i)' \in {"nothing", "asked"}
  BY <1>2, <1>7, SaidIs, WordIs DEF Refusal, Going
<1> QED BY <1>1, <1>3, <1>6, <1>7, <1>8, AbstractStep

LEMMA ReadKeeps ==
    ASSUME Fate, NEW i \in Calls, ReadCoins(i) \/ ReadFails(i) PROVE Fate' /\ PromiseStep
<1>1. call[i].pc \in {"read", "verify"} /\ wire' = wire /\ reply' = reply /\ landed' = landed
  BY DEF ReadCoins, ReadFails, net
<1>2. Shaped(call[i])
  BY DEF Fate
<1>3. CASE ReadCoins(i)
  <2>1. PICK utxos \in Listed, expired \in {{}, Cached} :
          call' = [call EXCEPT ![i] = NextRound(i, [@ EXCEPT
                 !.utxos = utxos, !.exclude = (Cached \ expired), !.round = 0,
                 !.ghost = ghostSeen' \cap utxos, !.horizon = horizonSeen' \cap utxos,
                 !.unrep = unrepSeen' \cap utxos])]
    BY Zenon, <1>3 DEF ReadCoins
  <2> DEFINE r == [call[i] EXCEPT
                 !.utxos = utxos, !.exclude = (Cached \ expired), !.round = 0,
                 !.ghost = ghostSeen' \cap utxos, !.horizon = horizonSeen' \cap utxos,
                 !.unrep = unrepSeen' \cap utxos]
  <2>2. Shaped(r)
    BY Zenon, <1>2 DEF Shaped, Fields
  <2>3. call' = [call EXCEPT ![i] = NextRound(i, r)]
    BY Zenon, <2>1
  <2> HIDE DEF r
  <2> QED BY <1>1, <2>2, <2>3, NextRoundIs, Between
<1>4. CASE ReadFails(i)
  <2>1. call' = [call EXCEPT ![i] = Told(call[i], "VERIFY_UNAVAILABLE")]
    BY Zenon, <1>4 DEF ReadFails
  <2>2. Refusal(Told(call[i], "VERIFY_UNAVAILABLE"))
    BY <1>2, ToldRefusal DEF NoWord, Nothing
  <2> QED BY <1>1, <2>1, <2>2, Between
<1> QED BY <1>3, <1>4

LEMMA VerifyKeeps == ASSUME Fate, NEW i \in Calls, Verify(i) PROVE Fate' /\ PromiseStep
<1> DEFINE r == call[i]
<1>1. r.pc = "verify" /\ Shaped(r) /\ reply' = reply /\ landed' = landed
  BY DEF Verify, Fate
<1>2. \E q : /\ call' = [call EXCEPT ![i] = q]
             /\ Refusal(q) \/ Going(q) \/ Sending(q)
  <2>1. PICK v \in [r.sel \ r.known -> Verdicts] :
          LET of(k) == {c \in DOMAIN v : v[c] = k}
              g == of("notfound")
              h == of("horizon")
              u == IF h = {} THEN of("unrep") ELSE {}
              s == [LeftOut(r, g, h, u) EXCEPT !.known = @ \cup of("value")]
          IN  \/ call' = [call EXCEPT ![i] = Told(r,
                    IF of("tamper") # {} THEN "VERIFY_TAMPER" ELSE "VERIFY_UNAVAILABLE")]
              \/ call' = [call EXCEPT ![i] = IF g \cup h \cup u = {} THEN Proved(i, s)
                                             ELSE NextRound(i, s)]
    BY Zenon DEF Verify
  <2> DEFINE of(k) == {c \in DOMAIN v : v[c] = k}
             g == of("notfound")
             h == of("horizon")
             u == IF h = {} THEN of("unrep") ELSE {}
             s == [LeftOut(r, g, h, u) EXCEPT !.known = @ \cup of("value")]
             no == IF of("tamper") # {} THEN "VERIFY_TAMPER" ELSE "VERIFY_UNAVAILABLE"
             on == IF g \cup h \cup u = {} THEN Proved(i, s) ELSE NextRound(i, s)
  <2>2. call' = [call EXCEPT ![i] = Told(r, no)] \/ call' = [call EXCEPT ![i] = on]
    BY Zenon, <2>1
  <2>3. Shaped(s)
    <3> HIDE DEF g, h, u, of
    <3>1. Shaped(LeftOut(r, g, h, u))
      BY Zenon, <1>1 DEF LeftOut, Shaped, Fields
    <3> QED BY Zenon, <3>1 DEF Shaped, Fields
  <2> HIDE DEF of, g, h, u, s
  <2>4. Refusal(on) \/ Going(on) \/ Sending(on)
    BY Zenon, <2>3, ProvedIs, NextRoundIs
  <2>5. Refusal(Told(r, no))
    BY <1>1, ToldRefusal DEF NoWord, Nothing
  <2> HIDE DEF no, on
  <2> QED BY <2>2, <2>4, <2>5
<1>3. PICK q : /\ call' = [call EXCEPT ![i] = q]
               /\ Refusal(q) \/ Going(q) \/ Sending(q)
  BY <1>2
<1>4. call'[i] = q
  BY <1>3, OneCall DEF Fate
<1>5. wire' = IF q.pc = "sent" THEN wire \cup {i} ELSE wire
  BY Zenon, <1>4 DEF Verify
<1>6. \/ (Refusal(q) \/ Going(q)) /\ wire' = wire
      \/ Sending(q) /\ wire' = wire \cup {i}
  BY <1>3, <1>5 DEF Refusal, Going, Sending
<1> QED BY <1>1, <1>3, <1>6, Between

\* The answer that goes back: kept only for a caller that still waits.
LEMMA RepliesIs ==
    ASSUME Fate, NEW i \in Calls, NEW a \in {"ok", "duplicate", "conflict"}, Replies(i, a)
    PROVE  reply' = [reply EXCEPT ![i] = IF call[i].pc = "sent" THEN a ELSE reply[i]]
  BY Zenon DEF Replies, Fate, Typed

\* A submit is on the wire of a call that waits for its answer, or was left open.
LEMMA OnWire ==
    ASSUME Fate, NEW i \in wire
    PROVE  /\ i \in Calls /\ landed[i] = 0 /\ reply[i] = "" /\ Shaped(call[i])
           /\ \/ call[i].pc = "sent" /\ Said(i) = "asked"
              \/ call[i].pc = "told" /\ call[i].code \in Maybe /\ Said(i) = "maybe"
<1>1. i \in Calls
  BY DEF Fate, Typed
<1> QED BY <1>1, SaidIs, WordIs DEF Fate, Place

\* The node's part: the submit leaves the wire, is admitted (n = 1) or not, and
\* its answer goes back.
LEMMA AtNode ==
    ASSUME Fate, NEW i \in wire, call' = call, wire' = wire \ {i},
           NEW a \in {"ok", "duplicate", "conflict"}, Replies(i, a),
           \/ a = "ok" /\ landed' = [landed EXCEPT ![i] = 1]
           \/ a # "ok" /\ landed' = landed
    PROVE  Fate' /\ PromiseStep
<1> DEFINE answer == IF call[i].pc = "sent" THEN a ELSE ""
           n == IF a = "ok" THEN 1 ELSE 0
           q == call[i]
<1>1. /\ i \in Calls /\ landed[i] = 0 /\ reply[i] = "" /\ Shaped(call[i])
      /\ \/ call[i].pc = "sent" /\ Said(i) = "asked"
         \/ call[i].pc = "told" /\ call[i].code \in Maybe /\ Said(i) = "maybe"
  BY OnWire
<1>2. call' = [call EXCEPT ![i] = q] /\ Shaped(q)
  BY <1>1 DEF Fate, Typed
<1>3. reply' = [reply EXCEPT ![i] = answer]
  BY Zenon, <1>1, RepliesIs
<1>4. landed' = [landed EXCEPT ![i] = n]
  BY <1>1 DEF Fate, Typed
<1>5. Frame(i) /\ i \notin wire' /\ reply'[i] = answer /\ landed'[i] = n
  BY <1>1, <1>3, <1>4 DEF Fate, Typed, Frame
<1>6. Place(q, i \in wire', answer, n)
  BY <1>1, <1>5 DEF Place
<1>7. Place(q, i \in wire', reply'[i], landed'[i])
  BY Zenon, <1>5, <1>6
<1> HIDE DEF answer, n, q
<1>8. Fate'
  BY Zenon, <1>1, <1>2, <1>5, <1>7, OneFate
<1>9. words' = [words EXCEPT ![i] = Said(i)']
  BY Zenon, <1>1, <1>2, OneCall DEF Fate
<1>10. Said(i)' = Said(i)
  BY Zenon, SaidIs
<1> QED BY <1>1, <1>8, <1>9, <1>10, AbstractStep

LEMMA ArriveKeeps == ASSUME Fate, NEW i \in Calls, Arrive(i) PROVE Fate' /\ PromiseStep
<1>1. i \in wire /\ call' = call /\ wire' = wire \ {i}
  BY DEF Arrive
<1>2. landed[i] = 0
  BY <1>1, OnWire
<1>3. \/ Replies(i, "duplicate") /\ landed' = landed
      \/ Replies(i, "conflict") /\ landed' = landed
      \/ Replies(i, "ok") /\ landed' = [landed EXCEPT ![i] = landed[i] + 1]
  BY Zenon DEF Arrive
<1>4. landed[i] + 1 = 1
  BY <1>2
<1>5. \/ Replies(i, "duplicate") /\ landed' = landed
      \/ Replies(i, "conflict") /\ landed' = landed
      \/ Replies(i, "ok") /\ landed' = [landed EXCEPT ![i] = 1]
  BY Zenon, <1>3, <1>4
<1> QED BY <1>1, <1>5, AtNode

LEMMA BouncedKeeps == ASSUME Fate, NEW i \in Calls, Bounced(i) PROVE Fate' /\ PromiseStep
  BY AtNode DEF Bounced

\* The caller's part: the answer, or its loss, becomes the call's last word.
LEMMA LastWord ==
    ASSUME Fate, NEW i \in Calls, call[i].pc = "sent", NEW code,
           \/ code = "SENT" /\ reply[i] = "ok"
           \/ code \in NoWord /\ reply[i] = "conflict"
           \/ code \in Maybe,
           call' = [call EXCEPT ![i] = Told(call[i], code)],
           reply' = [reply EXCEPT ![i] = ""], wire' = wire, landed' = landed
    PROVE  Fate' /\ PromiseStep
<1> DEFINE q == Told(call[i], code)
<1>1. IsTold(q, code)
  BY ToldIs DEF Fate
<1> HIDE DEF q
<1>2. Frame(i) /\ landed[i] \in {0, 1} /\ reply'[i] = ""
  BY DEF Fate, Typed, Frame
<1>3. \/ code = "SENT" /\ i \notin wire /\ landed[i] = 1
      \/ code \in NoWord /\ i \notin wire /\ landed[i] = 0
      \/ code \in Maybe /\ i \in wire /\ landed[i] = 0
      \/ code \in Maybe /\ i \notin wire
  BY DEF Fate, Place
<1>4. Place(q, i \in wire', reply'[i], landed'[i])
  BY <1>1, <1>2, <1>3 DEF Place, IsTold
<1>5. call' = [call EXCEPT ![i] = q]
  BY DEF q
<1>6. Fate'
  BY <1>1, <1>2, <1>5, <1>4, OneFate DEF IsTold
<1>7. words' = [words EXCEPT ![i] = Said(i)'] /\ call'[i] = q
  BY <1>5, OneCall DEF Fate
<1>8. Said(i) = "asked" /\ Said(i)' = WordOf(q)
  BY <1>7, SaidIs, WordIs
<1>9. \/ Said(i)' = "sent" /\ landed[i] = 1
      \/ Said(i)' = "nothing" /\ landed[i] = 0
      \/ Said(i)' = "maybe"
  BY <1>1, <1>3, <1>8, WordIs DEF IsTold
<1> QED BY <1>6, <1>7, <1>9, <1>8, AbstractStep

LEMMA AnsweredKeeps == ASSUME Fate, NEW i \in Calls, Answered(i) PROVE Fate' /\ PromiseStep
<1>1. /\ call[i].pc = "sent" /\ reply[i] # "" /\ reply' = [reply EXCEPT ![i] = ""]
      /\ call' = [call EXCEPT ![i] = Told(call[i], Class(reply[i]))]
      /\ wire' = wire /\ landed' = landed
  BY Zenon DEF Answered
<1>2. reply[i] \in {"ok", "duplicate", "conflict"}
  BY <1>1 DEF Fate, Typed
<1>3. \/ Class(reply[i]) = "SENT" /\ reply[i] = "ok"
      \/ Class(reply[i]) \in NoWord /\ reply[i] = "conflict"
      \/ Class(reply[i]) \in Maybe
  BY <1>2, WordsApart DEF Class
<1> QED BY <1>1, <1>3, LastWord

LEMMA LostKeeps == ASSUME Fate, NEW i \in Calls, AnswerLost(i) PROVE Fate' /\ PromiseStep
<1>1. /\ call[i].pc = "sent" /\ reply' = [reply EXCEPT ![i] = ""]
      /\ call' = [call EXCEPT ![i] = Told(call[i], Ambiguous)]
      /\ wire' = wire /\ landed' = landed
  BY Zenon DEF AnswerLost
<1> QED BY <1>1, WordsApart, LastWord

LEMMA StillKeeps ==
    ASSUME Fate, UNCHANGED <<call, wire, reply, landed>> PROVE Fate' /\ PromiseStep
<1>1. Fate'
  BY Zenon DEF Fate, Typed
<1>2. words' = words
  BY Zenon, SaidIs DEF words
<1> QED BY <1>1, <1>2 DEF PromiseStep, Promise!vars, words

\* A dead worker leaves every open call's submit open.
LEMMA RestartKeeps == ASSUME Fate, Restart PROVE Fate' /\ PromiseStep
<1>1. /\ call' = [i \in Calls |-> IF call[i].pc \in {"read", "verify", "sent"}
                                  THEN Told(call[i], "CHANNEL") ELSE call[i]]
      /\ reply' = [i \in Calls |-> ""] /\ wire' = wire /\ landed' = landed
  BY Zenon DEF Restart
<1>2. ASSUME NEW i \in Calls, call[i].pc \in {"read", "verify", "sent"}
      PROVE  /\ Shaped(call'[i]) /\ Place(call'[i], i \in wire, "", landed[i])
             /\ Said(i) = "asked" /\ Said(i)' = "maybe"
  <2> DEFINE q == call'[i]
  <2>1. IsTold(q, "CHANNEL")
    BY <1>1, <1>2, ToldIs DEF Fate
  <2>2. Said(i) = "asked"
    BY <1>2, SaidIs, WordIs
  <2>3. Said(i)' = WordOf(q)
    BY SaidIs
  <2> HIDE DEF q
  <2>4. landed[i] \in {0, 1} /\ (i \in wire => landed[i] = 0)
    BY <1>2 DEF Fate, Typed, Place
  <2>5. Place(q, i \in wire, "", landed[i])
    BY <2>1, <2>4, WordsApart DEF Place, IsTold
  <2>6. WordOf(q) = "maybe"
    BY <2>1, WordIs, WordsApart DEF IsTold
  <2> QED BY Zenon, <2>1, <2>2, <2>3, <2>5, <2>6 DEF q, IsTold
<1>3. ASSUME NEW i \in Calls, call[i].pc \notin {"read", "verify", "sent"}
      PROVE  /\ Shaped(call'[i]) /\ Place(call'[i], i \in wire, "", landed[i])
             /\ Said(i) # "asked" /\ Said(i)' = Said(i)
  <2>1. call'[i] = call[i] /\ Shaped(call[i]) /\ Place(call[i], i \in wire, reply[i], landed[i])
    BY <1>1, <1>3 DEF Fate
  <2>2. Said(i) # "asked"
    BY <1>3, <2>1, SaidIs, WordIs DEF Place
  <2>3. Place(call[i], i \in wire, "", landed[i])
    BY <1>3, <2>1 DEF Place
  <2> QED BY Zenon, <2>1, <2>2, <2>3, SaidIs
<1>4. Typed'
  BY Zenon, <1>1 DEF Fate, Typed
<1>5. Fate'
  BY Zenon, <1>1, <1>2, <1>3, <1>4 DEF Fate
<1>6. Promise!LoseAnswers
  BY Zenon, <1>1, <1>2, <1>3 DEF Promise!LoseAnswers
<1> QED BY <1>5, <1>6 DEF PromiseStep, Promise!Next

-----------------------------------------------------------------------------
(* The theorems *)

LEMMA StepKeeps == Fate /\ [Next]_vars => Fate' /\ PromiseStep
<1> SUFFICES ASSUME Fate, [Next]_vars PROVE Fate' /\ PromiseStep
  OBVIOUS
<1>1. CASE UNCHANGED vars
  BY <1>1, StillKeeps DEF vars
<1>2. CASE \E t \in pool : Mine(t)
  BY <1>2, StillKeeps DEF Mine
<1>3. CASE Restart
  BY <1>3, RestartKeeps
<1>4. ASSUME NEW i \in Calls,
             \/ Ask(i) \/ ReadCoins(i) \/ ReadFails(i) \/ Verify(i)
             \/ Arrive(i) \/ Bounced(i) \/ Answered(i) \/ AnswerLost(i)
      PROVE  Fate' /\ PromiseStep
  BY <1>4, AskKeeps, ReadKeeps, VerifyKeeps, ArriveKeeps, BouncedKeeps, AnsweredKeeps, LostKeeps
<1> QED BY <1>1, <1>2, <1>3, <1>4 DEF Next

\* The word a call ends with keeps the promise of PaymentPromise, whatever the node
\* reports, answers or loses (node.ts signAndSubmit, popup thrownCopy).
THEOREM EngineKeepsPromise == Spec => PromiseKept
<1>1. Init => Fate /\ Promise!Init
  BY InitKeeps
<1>2. Fate /\ [Next]_vars => Fate' /\ [Promise!Next]_(Promise!vars)
  BY StepKeeps DEF PromiseStep
<1> QED BY <1>1, <1>2, PTL DEF Spec, PromiseKept, Promise!Spec

\* In the state itself: no payment is admitted twice, none the user was told was not
\* sent was admitted, and one that is called sent was.
THEOREM EnginePaysOnce == Spec => []Promise!PaidAtMostOnce
<1>1. Fate => Promise!PaidAtMostOnce
  <2> SUFFICES ASSUME Fate, NEW i \in Calls
               PROVE  /\ landed[i] <= 1
                      /\ Said(i) = "nothing" => landed[i] = 0
                      /\ Said(i) = "sent" => landed[i] = 1
    BY Zenon DEF Promise!PaidAtMostOnce
  <2>1. landed[i] \in {0, 1} /\ Place(call[i], i \in wire, reply[i], landed[i])
    BY DEF Fate, Typed
  <2>2. landed[i] <= 1
    BY <2>1
  <2>3. Said(i) = WordOf(call[i])
    BY SaidIs
  <2>4. WordOf(call[i]) = "nothing" => landed[i] = 0
    BY <2>1, WordIs DEF Place
  <2>5. WordOf(call[i]) = "sent" => landed[i] = 1
    BY <2>1, WordIs DEF Place
  <2> QED BY Zenon, <2>2, <2>3, <2>4, <2>5
<1>2. Fate /\ [Next]_vars => Fate'
  BY StepKeeps
<1> QED BY <1>1, <1>2, InitKeeps, PTL DEF Spec

-----------------------------------------------------------------------------
(* Folds over finite sets.  What one computes follows from its equation, once   *)
(* some function satisfies it; the smallest counterexample shows both.           *)

\* A non-empty family of subsets of a finite set has a smallest member.
LEMMA SmallestSet ==
    ASSUME NEW S, IsFiniteSet(S), NEW B \in SUBSET SUBSET S, B # {}
    PROVE  \E T \in B : \A U \in B : U \subseteq T => U = T
<1>1. IsWellFoundedOn(StrictSubsetOrdering(S), SUBSET S)
  BY FS_StrictSubsetOrderingWellFounded, FS_FiniteSubsetsOfFinite
<1>2. \E T \in B : \A U \in B : <<U, T>> \notin StrictSubsetOrdering(S)
  BY <1>1, WFMin
<1> QED BY <1>2 DEF StrictSubsetOrdering

\* g is a fold over the subsets of T: step on the chosen member and the fold of the rest.
FoldsOn(g, T, base, step, choice) ==
    \A s \in SUBSET T :
       g[s] = IF s = {} THEN base ELSE step[<<choice[s], g[s \ {choice[s]}]>>]
Chooses(choice, S) == \A s \in SUBSET S : s # {} => choice[s] \in s

\* Two folds of the same step agree: a smallest set they differ on has no member.
LEMMA FoldUnique ==
    ASSUME NEW S, IsFiniteSet(S), NEW base, NEW step, NEW choice, Chooses(choice, S),
           NEW g, NEW h, FoldsOn(g, S, base, step, choice), FoldsOn(h, S, base, step, choice)
    PROVE  \A s \in SUBSET S : g[s] = h[s]
<1> DEFINE B == {s \in SUBSET S : g[s] # h[s]}
<1> SUFFICES ASSUME B # {} PROVE FALSE
  OBVIOUS
<1>1. PICK s \in B : \A u \in B : u \subseteq s => u = s
  <2>1. B \in SUBSET SUBSET S /\ IsFiniteSet(S)
    OBVIOUS
  <2> HIDE DEF B
  <2> QED BY <2>1, SmallestSet
<1>2. s # {}
  BY DEF FoldsOn
<1>3. s \ {choice[s]} \in SUBSET S /\ s \ {choice[s]} # s
  BY <1>2 DEF Chooses
<1>4. g[s \ {choice[s]}] = h[s \ {choice[s]}]
  BY <1>1, <1>3
<1> QED BY <1>2, <1>4 DEF FoldsOn

\* There is one, with values where the step keeps them.
LEMMA FoldExists ==
    ASSUME NEW S, IsFiniteSet(S), NEW V, NEW base \in V, NEW step \in [S \X V -> V],
           NEW choice, Chooses(choice, S)
    PROVE  \E g \in [SUBSET S -> V] : FoldsOn(g, S, base, step, choice)
<1> DEFINE Fold(T) == {g \in [SUBSET T -> V] : FoldsOn(g, T, base, step, choice)}
           B == {T \in SUBSET S : Fold(T) = {}}
<1> SUFFICES ASSUME B # {} PROVE FALSE
  OBVIOUS
<1>1. PICK T \in B : \A U \in B : U \subseteq T => U = T
  <2>1. B \in SUBSET SUBSET S /\ IsFiniteSet(S)
    OBVIOUS
  <2> HIDE DEF B
  <2> QED BY <2>1, SmallestSet
<1> DEFINE of(U) == CHOOSE g : g \in Fold(U)
           rest(s) == s \ {choice[s]}
           h == [s \in SUBSET T |-> IF s = {} THEN base ELSE step[<<choice[s], of(rest(s))[rest(s)]>>]]
<1>2. \A U \in SUBSET T : U # T => of(U) \in Fold(U)
  BY <1>1
<1>3. \A s \in SUBSET T : s # {} => choice[s] \in s /\ rest(s) \in SUBSET s /\ rest(s) # T
  BY DEF Chooses
<1> HIDE DEF of
<1>4. \A s \in SUBSET T : s # {} => of(rest(s))[rest(s)] \in V
  <2> SUFFICES ASSUME NEW s \in SUBSET T, s # {} PROVE of(rest(s))[rest(s)] \in V
    OBVIOUS
  <2>1. of(rest(s)) \in [SUBSET rest(s) -> V]
    BY <1>2, <1>3
  <2> QED BY <2>1
<1>5. h \in [SUBSET T -> V]
  <2> SUFFICES ASSUME NEW s \in SUBSET T, s # {}
               PROVE step[<<choice[s], of(rest(s))[rest(s)]>>] \in V
    OBVIOUS
  <2>1. choice[s] \in S
    BY <1>3
  <2> QED BY <1>4, <2>1
<1>6. \A s \in SUBSET T : s # T => h[s] = of(s)[s]
  <2> SUFFICES ASSUME NEW s \in SUBSET T, s # T PROVE h[s] = of(s)[s]
    OBVIOUS
  <2>1. FoldsOn(of(s), s, base, step, choice)
    BY <1>2
  <2>2. CASE s = {}
    BY <2>1, <2>2 DEF FoldsOn
  <2>3. CASE s # {}
    <3> DEFINE u == rest(s)
    <3>1. u \in SUBSET s /\ u # T /\ u \in SUBSET T /\ u \in SUBSET S
      BY <1>3, <2>3
    <3>2. FoldsOn(of(u), u, base, step, choice) /\ FoldsOn(of(s), u, base, step, choice)
      BY <1>2, <2>1, <3>1 DEF FoldsOn
    <3>3. IsFiniteSet(u) /\ Chooses(choice, u)
      BY <3>1, FS_Subset DEF Chooses
    <3>4. of(u)[u] = of(s)[u]
      <4> HIDE DEF u
      <4> QED BY <3>2, <3>3, FoldUnique
    <3>5. h[s] = step[<<choice[s], of(u)[u]>>]
      BY <2>3
    <3>6. of(s)[s] = step[<<choice[s], of(s)[u]>>]
      BY <2>1, <2>3 DEF FoldsOn
    <3> QED BY <3>4, <3>5, <3>6
  <2> QED BY <2>2, <2>3
<1>7. FoldsOn(h, T, base, step, choice)
  <2> SUFFICES ASSUME NEW s \in SUBSET T
               PROVE  h[s] = IF s = {} THEN base ELSE step[<<choice[s], h[rest(s)]>>]
    BY DEF FoldsOn
  <2>1. CASE s = {}
    BY <2>1
  <2>2. CASE s # {}
    <3>1. h[s] = step[<<choice[s], of(rest(s))[rest(s)]>>]
      BY <2>2
    <3>2. rest(s) \in SUBSET T /\ rest(s) # T
      BY <1>3, <2>2
    <3> HIDE DEF h, rest
    <3> QED BY <1>6, <2>2, <3>1, <3>2
  <2> QED BY <2>1, <2>2
<1> QED BY <1>1, <1>5, <1>7

-----------------------------------------------------------------------------
(* Sums of values *)

Values(v, S) == IsFiniteSet(S) /\ S \subseteq DOMAIN v /\ \A c \in S : v[c] \in Nat

Some(T) == CHOOSE x \in T : TRUE

\* Total satisfies its equation and is a natural number.
LEMMA TotalIs ==
    ASSUME NEW v, NEW S, Values(v, S)
    PROVE  /\ \A T \in SUBSET S : Total(v, T) \in Nat
           /\ \A T \in SUBSET S :
                Total(v, T) = IF T = {} THEN 0 ELSE v[Some(T)] + Total(v, T \ {Some(T)})
<1> DEFINE step == [p \in S \X Nat |-> v[p[1]] + p[2]]
           choice == [T \in SUBSET S |-> Some(T)]
           Eq(g, T) == g = [s \in SUBSET T |-> IF s = {} THEN 0
                                               ELSE v[Some(s)] + g[s \ {Some(s)}]]
<1>1. step \in [S \X Nat -> Nat] /\ Chooses(choice, S)
  BY DEF Values, Chooses, Some
<1>2. PICK g \in [SUBSET S -> Nat] : FoldsOn(g, S, 0, step, choice)
  <2> HIDE DEF step, choice
  <2> QED BY <1>1, FoldExists DEF Values
<1>3. \A s \in SUBSET S : s # {} => choice[s] \in s /\ choice[s] = Some(s)
  BY <1>1 DEF Chooses
<1>4. \A T \in SUBSET S :
         g[T] = IF T = {} THEN 0 ELSE v[Some(T)] + g[T \ {Some(T)}]
  <2> SUFFICES ASSUME NEW T \in SUBSET S, T # {}
               PROVE  g[T] = v[Some(T)] + g[T \ {Some(T)}]
    BY <1>2 DEF FoldsOn
  <2> DEFINE x == Some(T)
  <2>1. x \in T /\ choice[T] = x
    BY <1>3
  <2>2. g[T] = step[<<x, g[T \ {x}]>>]
    <3> HIDE DEF x, step, choice
    <3> QED BY <1>2, <2>1 DEF FoldsOn
  <2>3. g[T \ {x}] \in Nat /\ x \in S
    BY <2>1
  <2>4. step[<<x, g[T \ {x}]>>] = v[x] + g[T \ {x}]
    <3> HIDE DEF x
    <3> QED BY <2>3
  <2> QED BY <2>2, <2>4
<1>5. \A T \in SUBSET S : Total(v, T) = g[T]
  <2> SUFFICES ASSUME NEW T \in SUBSET S PROVE Total(v, T) = g[T]
    OBVIOUS
  <2> DEFINE f == CHOOSE f : Eq(f, T)
             k == [s \in SUBSET T |-> g[s]]
  <2>1. Eq(k, T)
    <3>1. \A s \in SUBSET T : s # {} => s \ {Some(s)} \in SUBSET T
      OBVIOUS
    <3>2. \A s \in SUBSET T :
            k[s] = IF s = {} THEN 0 ELSE v[Some(s)] + k[s \ {Some(s)}]
      BY <1>4, <3>1
    <3> QED BY <3>2
  <2>2. Eq(f, T)
    <3> HIDE DEF Eq, k
    <3> QED BY <2>1
  <2>3. Total(v, T) = f[T]
    BY DEF Total, MapThenSumSet, MapThenFoldSet, Some
  <2>4. IsFiniteSet(T)
    BY FS_Subset DEF Values
  <2>5. \A s \in SUBSET T : f[s] = g[s]
    <3> DEFINE B == {s \in SUBSET T : f[s] # g[s]}
    <3> SUFFICES ASSUME B # {} PROVE FALSE
      OBVIOUS
    <3>1. PICK s \in B : \A u \in B : u \subseteq s => u = s
      <4>1. B \in SUBSET SUBSET T
        OBVIOUS
      <4> HIDE DEF B
      <4> QED BY <2>4, <4>1, SmallestSet
    <3>2. s \in SUBSET T /\ f[s] = IF s = {} THEN 0 ELSE v[Some(s)] + f[s \ {Some(s)}]
      <4> HIDE DEF f
      <4> QED BY <2>2
    <3>3. g[s] = IF s = {} THEN 0 ELSE v[Some(s)] + g[s \ {Some(s)}]
      BY <1>4
    <3>4. s # {} /\ Some(s) \in s
      BY <3>2, <3>3 DEF Some
    <3>5. f[s \ {Some(s)}] = g[s \ {Some(s)}]
      <4> HIDE DEF f
      <4> QED BY <3>1, <3>4
    <3> QED BY <3>2, <3>3, <3>4, <3>5
  <2> QED BY <2>3, <2>5
<1>6. \A T \in SUBSET S : T \ {Some(T)} \in SUBSET S
  OBVIOUS
<1> QED BY <1>2, <1>4, <1>5, <1>6

LEMMA TotalType == ASSUME NEW v, NEW S, Values(v, S) PROVE Total(v, S) \in Nat /\ Total(v, {}) = 0
  BY TotalIs

LEMMA ValuesOf == ASSUME NEW v, NEW S, Values(v, S), NEW T \in SUBSET S PROVE Values(v, T)
  BY FS_Subset DEF Values

\* Any coin may be taken out first, not only the one the fold takes.
LEMMA TotalRemove ==
    ASSUME NEW v, NEW S, Values(v, S), NEW x \in S
    PROVE  Total(v, S) = v[x] + Total(v, S \ {x})
<1> DEFINE B == {T \in SUBSET S : \E y \in T : Total(v, T) # v[y] + Total(v, T \ {y})}
<1> SUFFICES ASSUME B # {} PROVE FALSE
  OBVIOUS
<1>1. PICK T \in B : \A U \in B : U \subseteq T => U = T
  <2>1. B \in SUBSET SUBSET S /\ IsFiniteSet(S)
    BY DEF Values
  <2> HIDE DEF B
  <2> QED BY <2>1, SmallestSet
<1>2. PICK y \in T : Total(v, T) # v[y] + Total(v, T \ {y})
  OBVIOUS
<1> DEFINE c == Some(T)
<1>3. c \in T /\ Total(v, T) = v[c] + Total(v, T \ {c})
  <2>1. T # {} /\ T \in SUBSET S
    OBVIOUS
  <2>2. c \in T
    BY <2>1 DEF Some
  <2> QED BY <2>1, <2>2, TotalIs
<1> HIDE DEF c
<1>4. c # y
  BY <1>2, <1>3
<1>5. Total(v, T \ {c}) = v[y] + Total(v, (T \ {c}) \ {y})
  BY <1>1, <1>3, <1>4
<1>6. Total(v, T \ {y}) = v[c] + Total(v, (T \ {y}) \ {c})
  BY <1>1, <1>3, <1>4
<1>7. (T \ {c}) \ {y} = (T \ {y}) \ {c}
  OBVIOUS
<1>8. Total(v, (T \ {c}) \ {y}) \in Nat /\ v[c] \in Nat /\ v[y] \in Nat
  BY <1>3, TotalType, ValuesOf DEF Values
<1> HIDE DEF B
<1> QED BY <1>2, <1>3, <1>5, <1>6, <1>7, <1>8

\* More coins, a larger total.
LEMMA TotalGrows ==
    ASSUME NEW v, NEW S, Values(v, S), NEW A \in SUBSET S
    PROVE  Total(v, A) <= Total(v, S)
<1> DEFINE B == {T \in SUBSET S : A \subseteq T /\ ~(Total(v, A) <= Total(v, T))}
<1> SUFFICES ASSUME B # {} PROVE FALSE
  OBVIOUS
<1>1. PICK T \in B : \A U \in B : U \subseteq T => U = T
  <2>1. B \in SUBSET SUBSET S /\ IsFiniteSet(S)
    BY DEF Values
  <2> HIDE DEF B
  <2> QED BY <2>1, SmallestSet
<1>2. Total(v, A) \in Nat /\ Total(v, T) \in Nat
  BY TotalType, ValuesOf
<1>3. PICK x \in T : x \notin A
  BY <1>2
<1>4. Total(v, A) <= Total(v, T \ {x})
  BY <1>1, <1>3
<1>5. Total(v, T) = v[x] + Total(v, T \ {x}) /\ v[x] \in Nat /\ Total(v, T \ {x}) \in Nat
  BY <1>3, TotalRemove, TotalType, ValuesOf DEF Values
<1> HIDE DEF B
<1> QED BY <1>1, <1>2, <1>4, <1>5 DEF B

\* A total is that of a part and that of the rest.
LEMMA TotalSplit ==
    ASSUME NEW v, NEW S, Values(v, S), NEW A \in SUBSET S
    PROVE  Total(v, S) = Total(v, A) + Total(v, S \ A)
<1> DEFINE B == {T \in SUBSET S : Total(v, S) # Total(v, T) + Total(v, S \ T)}
<1> SUFFICES ASSUME B # {} PROVE FALSE
  OBVIOUS
<1>1. PICK T \in B : \A U \in B : U \subseteq T => U = T
  <2>1. B \in SUBSET SUBSET S /\ IsFiniteSet(S)
    BY DEF Values
  <2> HIDE DEF B
  <2> QED BY <2>1, SmallestSet
<1>2. Total(v, S) \in Nat /\ Total(v, {}) = 0
  BY TotalType
<1>3. PICK x \in T : TRUE
  <2>1. S \ {} = S
    OBVIOUS
  <2>2. T # {}
    BY <1>2, <2>1
  <2> QED BY <2>2
<1>4. Total(v, S) = Total(v, T \ {x}) + Total(v, S \ (T \ {x}))
  BY <1>1, <1>3
<1>5. Total(v, T) = v[x] + Total(v, T \ {x})
  BY <1>3, TotalRemove, ValuesOf
<1>6. Total(v, S \ (T \ {x})) = v[x] + Total(v, S \ T)
  <2>1. x \in S \ (T \ {x}) /\ (S \ (T \ {x})) \ {x} = S \ T /\ S \ (T \ {x}) \in SUBSET S
    BY <1>3
  <2> QED BY <2>1, TotalRemove, ValuesOf
<1>7. /\ v[x] \in Nat /\ Total(v, T \ {x}) \in Nat /\ Total(v, S \ T) \in Nat
  BY <1>3, TotalType, ValuesOf DEF Values
<1>8. Total(v, S) = Total(v, T) + Total(v, S \ T)
  <2> HIDE DEF B
  <2> QED BY <1>2, <1>4, <1>5, <1>6, <1>7
<1> QED BY <1>8

\* Fewer members, each of no more value than any of the others, sum to no more.
LEMMA TotalOfFewer ==
    ASSUME NEW v, NEW S, NEW T, Values(v, S), Values(v, T), Cardinality(S) <= Cardinality(T),
           \A a \in S, b \in T : v[a] <= v[b]
    PROVE  Total(v, S) <= Total(v, T)
<1> DEFINE B == {A \in SUBSET S : \E U \in SUBSET T :
                   Cardinality(A) <= Cardinality(U) /\ ~(Total(v, A) <= Total(v, U))}
<1> SUFFICES ASSUME B # {} PROVE FALSE
  OBVIOUS
<1>1. PICK A \in B : \A A1 \in B : A1 \subseteq A => A1 = A
  <2>1. B \in SUBSET SUBSET S /\ IsFiniteSet(S)
    BY DEF Values
  <2> HIDE DEF B
  <2> QED BY <2>1, SmallestSet
<1>2. PICK U \in SUBSET T : Cardinality(A) <= Cardinality(U) /\ ~(Total(v, A) <= Total(v, U))
  OBVIOUS
<1>3. Values(v, A) /\ Values(v, U)
  BY ValuesOf
<1>4. Total(v, A) \in Nat /\ Total(v, U) \in Nat /\ Total(v, {}) = 0
  BY <1>3, TotalType
<1>5. PICK a \in A : TRUE
  <2>1. A # {}
    BY <1>2, <1>4
  <2> QED BY <2>1
<1>6. IsFiniteSet(A) /\ IsFiniteSet(U) /\ Cardinality(A) \in Nat /\ Cardinality(U) \in Nat /\ Cardinality(A) # 0
  BY <1>3, <1>5, FS_CardinalityType, FS_EmptySet DEF Values
<1>7. PICK u \in U : TRUE
  <2>1. U # {}
    BY <1>2, <1>6, FS_EmptySet
  <2> QED BY <2>1
<1>8. Cardinality(A \ {a}) <= Cardinality(U \ {u})
  <2>1. Cardinality(A \ {a}) = Cardinality(A) - 1
    BY <1>5, <1>6, FS_RemoveElement
  <2>2. Cardinality(U \ {u}) = Cardinality(U) - 1
    BY <1>6, <1>7, FS_RemoveElement
  <2> HIDE DEF B
  <2> QED BY <1>2, <1>6, <2>1, <2>2
<1>9. Total(v, A \ {a}) <= Total(v, U \ {u})
  <2>1. A \ {a} # A /\ A \ {a} \in SUBSET S /\ U \ {u} \in SUBSET T
    BY <1>5
  <2>2. A \ {a} \notin B
    BY <1>1, <2>1
  <2> QED BY <1>8, <2>1, <2>2
<1>10. Total(v, A) = v[a] + Total(v, A \ {a}) /\ Total(v, U) = v[u] + Total(v, U \ {u})
  BY <1>3, <1>5, <1>7, TotalRemove
<1>11. /\ v[a] \in Nat /\ v[u] \in Nat /\ v[a] <= v[u]
       /\ Total(v, A \ {a}) \in Nat /\ Total(v, U \ {u}) \in Nat
  BY <1>3, <1>5, <1>7, TotalType, ValuesOf DEF Values
<1> HIDE DEF B
<1> QED BY <1>2, <1>4, <1>9, <1>10, <1>11

-----------------------------------------------------------------------------
(* The coins of a round *)

\* The first n of a finite set under a strict total order: n of them, or all, and
\* none of the rest before one of them.
First(R, n, T) == {c \in T : Cardinality({d \in T : <<d, c>> \in R}) < n}
TotalOrder(R, T) ==
    /\ \A c \in T : <<c, c>> \notin R
    /\ \A b, c, d \in T : <<b, c>> \in R /\ <<c, d>> \in R => <<b, d>> \in R
    /\ \A c, d \in T : c = d \/ <<c, d>> \in R \/ <<d, c>> \in R

LEMMA FirstIs ==
    ASSUME NEW T, IsFiniteSet(T), NEW R, TotalOrder(R, T), NEW n \in Nat
    PROVE  /\ IsFiniteSet(First(R, n, T)) /\ Cardinality(First(R, n, T)) <= n
           /\ Cardinality(First(R, n, T)) = n \/ First(R, n, T) = T
           /\ \A c \in First(R, n, T), d \in T \ First(R, n, T) : <<c, d>> \in R
<1> DEFINE Before(c) == {d \in T : <<d, c>> \in R}
           N == Cardinality(T)
           rank == [c \in T |-> Cardinality(Before(c))]
           F == First(R, n, T)
           m == IF n <= N THEN n ELSE N
<1>1. N \in Nat
  BY FS_CardinalityType
<1>2. \A c \in T : Before(c) \in SUBSET T /\ c \notin Before(c)
  BY DEF TotalOrder
<1>3. \A c \in T : IsFiniteSet(Before(c)) /\ Cardinality(Before(c)) \in 0..(N - 1)
  <2> SUFFICES ASSUME NEW c \in T PROVE IsFiniteSet(Before(c)) /\ Cardinality(Before(c)) \in 0..(N - 1)
    OBVIOUS
  <2> HIDE DEF Before
  <2>1. IsFiniteSet(Before(c)) /\ Cardinality(Before(c)) <= N /\ Before(c) # T
    BY <1>2, FS_Subset
  <2>2. Cardinality(Before(c)) \in Nat /\ Cardinality(Before(c)) # N
    BY <1>2, <2>1, FS_Subset, FS_CardinalityType
  <2> QED BY <1>1, <2>1, <2>2
<1>4. \A c, d \in T : <<c, d>> \in R => Cardinality(Before(c)) < Cardinality(Before(d))
  <2> SUFFICES ASSUME NEW c \in T, NEW d \in T, <<c, d>> \in R
               PROVE  Cardinality(Before(c)) < Cardinality(Before(d))
    OBVIOUS
  <2>1. Before(c) \in SUBSET Before(d) /\ c \in Before(d) /\ c \notin Before(c)
    BY DEF TotalOrder
  <2> HIDE DEF Before
  <2>2. Cardinality(Before(c)) <= Cardinality(Before(d)) /\ Cardinality(Before(c)) # Cardinality(Before(d))
    BY <1>3, <2>1, FS_Subset
  <2> QED BY <1>1, <1>3, <2>2
<1>5. IsFiniteSet(0..(N - 1)) /\ Cardinality(0..(N - 1)) = N
  BY <1>1, FS_Interval
<1>6. rank \in Injection(T, 0..(N - 1))
  <2>1. \A c, d \in T : Cardinality(Before(c)) = Cardinality(Before(d)) => c = d
    <3> SUFFICES ASSUME NEW c \in T, NEW d \in T, c # d,
                        Cardinality(Before(c)) = Cardinality(Before(d))
                 PROVE  FALSE
      OBVIOUS
    <3>1. <<c, d>> \in R \/ <<d, c>> \in R
      BY DEF TotalOrder
    <3> HIDE DEF Before
    <3> QED BY <1>1, <1>3, <1>4, <3>1
  <2> HIDE DEF Before
  <2> QED BY <1>3, <2>1 DEF Injection, IsInjective
<1>7. rank \in Surjection(T, 0..(N - 1))
  <2> HIDE DEF rank
  <2> QED BY <1>5, <1>6, FS_Injection
<1>8. F = {c \in T : rank[c] < n}
  BY DEF First
<1>9. IsFiniteSet(F) /\ F \in SUBSET T
  BY <1>8, FS_Subset
<1>10. m \in Nat /\ IsFiniteSet(0..(m - 1)) /\ Cardinality(0..(m - 1)) = m
  <2>1. m \in Nat
    BY <1>1
  <2> HIDE DEF m
  <2> QED BY <2>1, FS_Interval
<1> DEFINE low == [c \in F |-> rank[c]]
<1>11. low \in Bijection(F, 0..(m - 1))
  <2> HIDE DEF rank, F
  <2>1. rank \in [T -> 0..(N - 1)] /\ \A c, d \in T : rank[c] = rank[d] => c = d
    BY <1>6 DEF Injection, IsInjective
  <2>2. \A k \in 0..(N - 1) : \E c \in T : rank[c] = k
    BY <1>7 DEF Surjection
  <2>3. low \in [F -> 0..(m - 1)]
    BY <1>1, <1>8, <2>1
  <2>4. \A c, d \in F : low[c] = low[d] => c = d
    BY <1>9, <2>1
  <2>5. \A k \in 0..(m - 1) : \E c \in F : low[c] = k
    <3> SUFFICES ASSUME NEW k \in 0..(m - 1) PROVE \E c \in F : low[c] = k
      OBVIOUS
    <3>1. k \in 0..(N - 1) /\ k < n
      BY <1>1
    <3>2. PICK c \in T : rank[c] = k
      BY <2>2, <3>1
    <3> QED BY <1>8, <3>1, <3>2
  <2> HIDE DEF low
  <2> QED BY <2>3, <2>4, <2>5 DEF Bijection, Injection, Surjection, IsInjective
<1>12. Cardinality(F) = m
  <2> HIDE DEF low, F, m
  <2>1. ExistsBijection(F, 0..(m - 1))
    BY <1>11 DEF ExistsBijection
  <2> QED BY <1>9, <1>10, <2>1, FS_Bijection
<1>13. Cardinality(F) = n \/ F = T
  <2> HIDE DEF F
  <2> QED BY <1>1, <1>9, <1>12, FS_Subset
<1>14. \A c \in F, d \in T \ F : <<c, d>> \in R
  <2> SUFFICES ASSUME NEW c \in F, NEW d \in T \ F PROVE <<c, d>> \in R
    OBVIOUS
  <2>1. c \in T /\ rank[c] < n /\ ~(rank[d] < n) /\ rank[c] \in Nat /\ rank[d] \in Nat
    <3> HIDE DEF rank, F
    <3> QED BY <1>1, <1>6, <1>8 DEF Injection
  <2>2. c # d /\ ~(<<d, c>> \in R)
    <3> HIDE DEF Before, F
    <3> QED BY <1>4, <2>1
  <2> QED BY <2>1, <2>2 DEF TotalOrder
<1> HIDE DEF F, m
<1> QED BY <1>1, <1>9, <1>12, <1>13, <1>14 DEF F, m

\* The coins of the account are finitely many and have natural values.
LEMMA CoinsHaveValues ==
    ASSUME NEW S \in SUBSET Coins
    PROVE  Values(Reported, S) /\ Values(Real, S) /\ IsFiniteSet(S) /\ Cardinality(S) \in Nat
  BY CoinAssumption, FS_Subset, FS_CardinalityType DEF Values

\* The largest n coins are n of them, or all, and none of the rest is larger.
LEMMA LargestIs ==
    ASSUME NEW T \in SUBSET Coins, NEW n \in Nat
    PROVE  /\ Largest(n, T) \in SUBSET T /\ Cardinality(Largest(n, T)) <= n
           /\ Cardinality(Largest(n, T)) = n \/ Largest(n, T) = T
           /\ \A c \in Largest(n, T), d \in T \ Largest(n, T) : Reported[d] <= Reported[c]
<1> DEFINE R == {p \in T \X T : Larger(p[1], p[2])}
<1>1. \A c \in T : c \in Nat /\ Reported[c] \in Nat
  BY CoinAssumption
<1>2. \A c, d \in T : <<c, d>> \in R <=> Larger(c, d)
  OBVIOUS
<1> HIDE DEF R
<1>3. TotalOrder(R, T)
  BY <1>1, <1>2 DEF TotalOrder, Larger
<1>4. Largest(n, T) = First(R, n, T)
  <2>1. \A c \in T : {d \in T : <<d, c>> \in R} = {d \in T : Larger(d, c)}
    BY <1>2
  <2> QED BY <2>1 DEF Largest, First
<1>5. /\ Cardinality(First(R, n, T)) <= n
      /\ Cardinality(First(R, n, T)) = n \/ First(R, n, T) = T
      /\ \A c \in First(R, n, T), d \in T \ First(R, n, T) : <<c, d>> \in R
  BY <1>3, FirstIs, CoinsHaveValues
<1>6. First(R, n, T) \in SUBSET T
  BY DEF First
<1>7. \A c, d \in T : <<c, d>> \in R => Reported[d] <= Reported[c]
  BY <1>1, <1>2 DEF Larger
<1> QED BY <1>4, <1>5, <1>6, <1>7

\* The smallest n are within the cap.
LEMMA SmallestIs ==
    ASSUME NEW T \in SUBSET Coins, NEW n \in Nat
    PROVE  Smallest(n, T) \in SUBSET T /\ Cardinality(Smallest(n, T)) <= n
<1> DEFINE R == {p \in T \X T : Smaller(p[1], p[2])}
<1>1. \A c \in T : c \in Nat /\ Reported[c] \in Nat
  BY CoinAssumption
<1>2. \A c, d \in T : <<c, d>> \in R <=> Smaller(c, d)
  OBVIOUS
<1> HIDE DEF R
<1>3. TotalOrder(R, T)
  BY <1>1, <1>2 DEF TotalOrder, Smaller
<1>4. Smallest(n, T) = First(R, n, T)
  <2>1. \A c \in T : {d \in T : <<d, c>> \in R} = {d \in T : Smaller(d, c)}
    BY <1>2
  <2> QED BY <2>1 DEF Smallest, First
<1>5. Cardinality(First(R, n, T)) <= n
  BY <1>3, FirstIs, CoinsHaveValues
<1>6. First(R, n, T) \in SUBSET T
  BY DEF First
<1> QED BY <1>4, <1>5, <1>6

\* No n coins report more than the n largest.
LEMMA LargestIsBest ==
    ASSUME NEW T \in SUBSET Coins, NEW n \in Nat, NEW S \in SUBSET T, Cardinality(S) <= n
    PROVE  Total(Reported, S) <= Total(Reported, Largest(n, T))
<1> DEFINE L == Largest(n, T)
<1>1. /\ L \in SUBSET T /\ (Cardinality(L) = n \/ L = T)
      /\ \A c \in L, d \in T \ L : Reported[d] <= Reported[c]
  BY LargestIs
<1> HIDE DEF L
<1>2. CASE L = T
  BY <1>2, TotalGrows, CoinsHaveValues DEF L
<1>3. CASE Cardinality(L) = n /\ L \in SUBSET T
  <2> DEFINE I == S \cap L
  <2>1. I \in SUBSET S /\ I \in SUBSET L /\ S \ I = S \ L /\ L \ I = L \ S
    OBVIOUS
  <2>2. Values(Reported, S) /\ Values(Reported, L) /\ Values(Reported, S \ L) /\ Values(Reported, L \ S)
    BY <1>3, CoinsHaveValues
  <2>3. Cardinality(S \ L) <= Cardinality(L \ S)
    <3>1. IsFiniteSet(S) /\ IsFiniteSet(L) /\ IsFiniteSet(I)
      BY <1>3, CoinsHaveValues
    <3>2. Cardinality(S \ L) = Cardinality(S) - Cardinality(S \cap L)
      BY <3>1, FS_Difference
    <3>3. Cardinality(L \ S) = Cardinality(L) - Cardinality(L \cap S)
      BY <3>1, FS_Difference
    <3>4. S \cap L = L \cap S
      OBVIOUS
    <3>5. Cardinality(S) \in Nat /\ Cardinality(L) \in Nat /\ Cardinality(S \cap L) \in Nat
      BY <3>1, FS_CardinalityType
    <3> QED BY <1>3, <3>2, <3>3, <3>4, <3>5
  <2>4. Total(Reported, S \ L) <= Total(Reported, L \ S)
    <3>1. \A a \in S \ L, b \in L \ S : Reported[a] <= Reported[b]
      BY <1>1, <1>3
    <3> QED BY <2>2, <2>3, <3>1, TotalOfFewer
  <2>5. Total(Reported, S) = Total(Reported, I) + Total(Reported, S \ L)
    BY <2>1, <2>2, TotalSplit
  <2>6. Total(Reported, L) = Total(Reported, I) + Total(Reported, L \ S)
    BY <2>1, <2>2, TotalSplit
  <2>7. /\ Total(Reported, I) \in Nat /\ Total(Reported, S \ L) \in Nat
        /\ Total(Reported, L \ S) \in Nat
    BY <2>1, <2>2, TotalType, ValuesOf
  <2> QED BY <2>4, <2>5, <2>6, <2>7 DEF L
<1> QED BY <1>1, <1>2, <1>3

\* A longer prefix holds a shorter one.
LEMMA LongerPrefix ==
    ASSUME NEW T \in SUBSET Coins, NEW n \in Nat, NEW m \in Nat, n <= m
    PROVE  Largest(n, T) \subseteq Largest(m, T)
<1> SUFFICES ASSUME NEW c \in Largest(n, T) PROVE c \in Largest(m, T)
  OBVIOUS
<1> DEFINE k == Cardinality({d \in T : Larger(d, c)})
<1>1. k \in Nat
  BY CoinsHaveValues
<1>2. c \in T /\ k < n
  BY DEF Largest
<1>3. k < m
  <2> HIDE DEF k
  <2> QED BY <1>1, <1>2
<1> QED BY <1>2, <1>3 DEF Largest

\* The shortest covering prefix is one, if there is any.
LEMMA ShortestIs ==
    ASSUME NEW T \in SUBSET Coins, NEW need, Covering(T, need) # {}
    PROVE  Shortest(Covering(T, need)) \in Covering(T, need)
<1> DEFINE B == Covering(T, need)
<1>1. B \in SUBSET SUBSET T
  BY DEF Covering, Largest
<1>2. PICK P \in B : \A Q \in B : Q \subseteq P => Q = P
  <2> HIDE DEF B
  <2> QED BY <1>1, SmallestSet, CoinsHaveValues DEF B
<1>3. \A Q \in B : P \subseteq Q
  <2> SUFFICES ASSUME NEW Q \in B PROVE P \subseteq Q
    OBVIOUS
  <2>1. PICK n \in 1..MaxInputs : P = Largest(n, T)
    BY DEF Covering
  <2>2. PICK m \in 1..MaxInputs : Q = Largest(m, T)
    BY DEF Covering
  <2>3. n \in Nat /\ m \in Nat
    BY CoinAssumption
  <2>4. CASE n <= m
    BY <2>1, <2>2, <2>3, <2>4, LongerPrefix
  <2>5. CASE m <= n
    <3>1. Q \subseteq P
      BY <2>1, <2>2, <2>3, <2>5, LongerPrefix
    <3> QED BY <1>2, <3>1
  <2> QED BY <2>3, <2>4, <2>5
<1> HIDE DEF B
<1>4. \E P1 \in B : \A Q \in B : P1 \subseteq Q
  BY <1>3
<1>5. Shortest(B) \in B
  BY <1>4 DEF Shortest
<1> QED BY <1>5 DEF B

\* A round finds coins of one transaction that report enough, or there are none.
Selects(sel, left, need) ==
    /\ sel \in SUBSET left /\ sel # {} /\ Cardinality(sel) <= MaxInputs
    /\ Total(Reported, sel) >= need

\* A prefix that covers is a selection.
LEMMA CoveringSelects ==
    ASSUME NEW T \in SUBSET Coins, NEW need \in Nat, need > 0, NEW P \in Covering(T, need)
    PROVE  Selects(P, T, need)
<1>1. PICK n \in 1..MaxInputs : P = Largest(n, T) /\ Total(Reported, P) >= need
  BY DEF Covering
<1>2. n \in Nat /\ n <= MaxInputs /\ MaxInputs \in Nat
  BY CoinAssumption
<1>3. P \in SUBSET T /\ Cardinality(P) <= n
  BY <1>1, <1>2, LargestIs
<1>4. P # {}
  BY <1>1, TotalType, CoinsHaveValues
<1>5. Cardinality(P) \in Nat
  BY <1>3, CoinsHaveValues
<1> QED BY <1>1, <1>2, <1>3, <1>4, <1>5 DEF Selects

\* selectInputs finds a selection, or no choice of coins within the cap would do.
LEMMA SelectInputsIs ==
    ASSUME NEW utxos \in SUBSET Coins, NEW exclude, NEW need \in Nat, need > 0
    PROVE  LET left == spendableCoins(utxos, exclude)
               sel == selectInputs(utxos, need, exclude)
           IN  \/ Selects(sel, left, need)
               \/ sel = {} /\ ~Coverable(left, MaxInputs, need)
<1> DEFINE left == spendableCoins(utxos, exclude)
           plain == left \ Coinbase
           sel == selectInputs(utxos, need, exclude)
<1>1. left \in SUBSET Coins /\ plain \in SUBSET Coins /\ plain \in SUBSET left
  BY DEF spendableCoins
<1>2. sel = CASE Covering(plain, need) # {} -> Shortest(Covering(plain, need))
              [] Covering(plain, need) = {} /\ Covering(left, need) # {} -> Shortest(Covering(left, need))
              [] OTHER -> {}
  BY DEF selectInputs
<1> HIDE DEF left, plain, sel
<1>3. CASE Covering(plain, need) # {}
  <2>1. sel = Shortest(Covering(plain, need))
    BY <1>2, <1>3
  <2>2. Selects(sel, plain, need)
    BY <1>1, <1>3, <2>1, ShortestIs, CoveringSelects
  <2> QED BY <1>1, <2>2 DEF Selects, left, sel
<1>4. CASE Covering(plain, need) = {} /\ Covering(left, need) # {}
  <2>1. sel = Shortest(Covering(left, need))
    BY <1>2, <1>4
  <2>2. Selects(sel, left, need)
    BY <1>1, <1>4, <2>1, ShortestIs, CoveringSelects
  <2> QED BY <2>2 DEF left, sel
<1>5. CASE Covering(plain, need) = {} /\ Covering(left, need) = {}
  <2>1. sel = {}
    BY <1>2, <1>5
  <2>2. ASSUME NEW S \in SUBSET left, Cardinality(S) <= MaxInputs, Total(Reported, S) >= need
        PROVE  FALSE
    <3>1. MaxInputs \in Nat
      BY CoinAssumption
    <3>2. Total(Reported, S) <= Total(Reported, Largest(MaxInputs, left))
      BY <1>1, <2>2, <3>1, LargestIsBest
    <3>3. /\ Total(Reported, S) \in Nat /\ Total(Reported, {}) = 0
          /\ Total(Reported, Largest(MaxInputs, left)) \in Nat
      BY <1>1, <3>1, LargestIs, TotalType, CoinsHaveValues
    <3>4. Cardinality(S) \in Nat /\ IsFiniteSet(S) /\ S # {}
      BY <1>1, <2>2, <3>3, CoinsHaveValues
    <3>5. MaxInputs \in 1..MaxInputs
      BY <2>2, <3>1, <3>4, FS_EmptySet
    <3>6. Largest(MaxInputs, left) \in Covering(left, need)
      BY <2>2, <3>2, <3>3, <3>5 DEF Covering
    <3> QED BY <1>5, <3>6
  <2>3. ~Coverable(left, MaxInputs, need)
    BY <2>2 DEF Coverable
  <2> QED BY <2>1, <2>3 DEF left, sel
<1> QED BY <1>3, <1>4, <1>5

LEMMA LastOfIs == ASSUME NEW T \in SUBSET Coins, T # {} PROVE LastOf(T) \in T
<1> DEFINE After(c) == {d \in T : Larger(c, d)}
           B == {After(c) : c \in T}
<1>1. \A c \in T : c \in Nat /\ Reported[c] \in Nat
  BY CoinAssumption
<1>2. PICK A \in B : \A U \in B : U \subseteq A => U = A
  <2>1. B \in SUBSET SUBSET T /\ B # {}
    OBVIOUS
  <2>2. IsFiniteSet(T)
    BY CoinsHaveValues
  <2> HIDE DEF B
  <2> QED BY <2>1, <2>2, SmallestSet
<1>3. PICK c \in T : A = After(c)
  OBVIOUS
<1>4. \A d \in T \ {c} : Larger(d, c)
  <2> SUFFICES ASSUME NEW d \in T \ {c}, ~Larger(d, c) PROVE FALSE
    OBVIOUS
  <2>1. d \in After(c)
    BY <1>1 DEF Larger
  <2>2. After(d) \subseteq After(c) /\ d \notin After(d)
    BY <1>1, <2>1 DEF Larger
  <2>3. After(d) \in B
    OBVIOUS
  <2> QED BY <1>2, <1>3, <2>1, <2>2, <2>3
<1> QED BY <1>4 DEF LastOf

\* A cache gains only what is filed, whichever of it is forgotten on the way.
LEMMA FiledIs ==
    ASSUME NEW cache \in SUBSET Coins, NEW S \in SUBSET Coins
    PROVE  Filed(cache, S) \in SUBSET (cache \cup S)
<1> DEFINE V == SUBSET (cache \cup S)
           more(c, m) == IF Cardinality(m \cup {c}) > SkipMax THEN {} ELSE m \cup {c}
           step == [p \in S \X V |-> more(p[1], p[2])]
           choice == [T \in SUBSET S |-> LastOf(T)]
           Eq(g) == g = [s \in SUBSET S |-> IF s = {} THEN cache
                                            ELSE more(LastOf(s), g[s \ {LastOf(s)}])]
           f == CHOOSE g : Eq(g)
<1>1. step \in [S \X V -> V]
  OBVIOUS
<1>2. Chooses(choice, S)
  BY LastOfIs DEF Chooses
<1>3. PICK g \in [SUBSET S -> V] : FoldsOn(g, S, cache, step, choice)
  <2> HIDE DEF step, choice
  <2> QED BY <1>1, <1>2, FoldExists, CoinsHaveValues
<1> HIDE DEF more
<1>4. \A s \in SUBSET S :
         g[s] = IF s = {} THEN cache ELSE more(LastOf(s), g[s \ {LastOf(s)}])
  <2> SUFFICES ASSUME NEW s \in SUBSET S, s # {}
               PROVE  g[s] = more(LastOf(s), g[s \ {LastOf(s)}])
    BY <1>3 DEF FoldsOn
  <2>1. LastOf(s) \in S /\ s \ {LastOf(s)} \in SUBSET S
    BY LastOfIs
  <2>2. g[s \ {LastOf(s)}] \in V
    BY <2>1
  <2>3. g[s] = step[<<LastOf(s), g[s \ {LastOf(s)}]>>]
    <3> HIDE DEF step
    <3> QED BY <1>3 DEF FoldsOn
  <2> QED BY <2>1, <2>2, <2>3
<1>5. Eq(g)
  BY <1>4
<1>6. Eq(f)
  <2> HIDE DEF Eq
  <2> QED BY <1>5
<1>7. Filed(cache, S) = f[S]
  BY DEF Filed, MapThenFoldSet, more
<1>8. f[S] = g[S]
  <2> DEFINE B == {s \in SUBSET S : f[s] # g[s]}
  <2> SUFFICES ASSUME B # {} PROVE FALSE
    OBVIOUS
  <2>1. PICK s \in B : \A u \in B : u \subseteq s => u = s
    <3>1. B \in SUBSET SUBSET S /\ IsFiniteSet(S)
      BY CoinsHaveValues
    <3> HIDE DEF B
    <3> QED BY <3>1, SmallestSet
  <2> HIDE DEF f
  <2>2. f[s] = IF s = {} THEN cache ELSE more(LastOf(s), f[s \ {LastOf(s)}])
    BY <1>6
  <2>3. g[s] = IF s = {} THEN cache ELSE more(LastOf(s), g[s \ {LastOf(s)}])
    BY <1>4
  <2>4. s # {} /\ LastOf(s) \in s
    BY <2>2, <2>3, LastOfIs
  <2>5. f[s \ {LastOf(s)}] = g[s \ {LastOf(s)}]
    BY <2>1, <2>4
  <2> QED BY <2>2, <2>3, <2>4, <2>5
<1>9. g[S] \in V
  BY <1>3
<1> HIDE DEF f
<1> QED BY <1>7, <1>8, <1>9

-----------------------------------------------------------------------------
(* What a call knows at each of its awaits *)

Left(q) == spendableCoins(q.utxos, q.exclude)
Skipped(q) == q.ghost \cup q.horizon \cup q.unrep

\* The coins left out are booked, each under one class.
Booked(q) ==
    /\ Skipped(q) = q.exclude \cap q.utxos
    /\ q.ghost \cap q.horizon = {} /\ (q.ghost \cup q.horizon) \cap q.unrep = {}

\* PaysExactly, RefusalsAreTrue and MaxIsReal of one transaction or call.
Exact(t) ==
    /\ \A c \in t.ins : Real[c] > 0
    /\ Cardinality(t.ins) \in 1..MaxInputs
    /\ Total(Real, t.ins) = t.pay + t.change + t.fee
    /\ t.fee <= proportionalFeeCap(Total(Real, t.ins)) /\ t.fee <= MaxFee
True(code, q) ==
    /\ code = "TOO_MANY_INPUTS" => /\ ~Coverable(Left(q), MaxInputs, q.need)
                                   /\ Coverable(Left(q), Cardinality(Left(q)), q.need)
    /\ code = "INSUFFICIENT" =>
          \/ q.exclude \cap q.utxos = {} /\ ~Coverable(Left(q), Cardinality(Left(q)), q.need)
          \/ Total(Real, q.sel) < Total(Reported, q.sel)
    /\ code \in {"GHOST_INPUTS_SKIPPED", "VERIFY_HORIZON", "VERIFY_UNREPRESENTABLE"} =>
          ~Coverable(Left(q), Cardinality(Left(q)), q.need) /\ Booked(q)
Affordable(i, q) ==
    q.amount > 0 => \E S \in SUBSET {c \in Coins : Real[c] > 0} :
                       Cardinality(S) <= MaxInputs /\ Total(Real, S) >= q.amount + Fee[i]

Core(q) ==
    /\ Shaped(q) /\ q.utxos \in SUBSET Coins /\ q.exclude \in SUBSET Coins
    /\ q.known \in SUBSET {c \in Coins : Real[c] > 0}
    /\ q.round \in 0..MaxRounds /\ q.need \in Nat /\ q.amount \in Nat /\ q.pass \in {1, 2}
Basic(q) == Core(q) /\ q.sel \in SUBSET q.utxos

\* A call that has not answered has signed nothing, and knows what it needs.
AtWork(i, q) ==
    /\ Core(q) /\ q.code = "" /\ q.tx = NoTx /\ q.amount = 0
    /\ Preflight(i) = "" /\ q.need > 0
    /\ Kind[i] \in {"send", "app"} => q.need = Amount[i] + Fee[i]
    /\ q.pass = 2 => Kind[i] = "max" /\ q.need > Fee[i]
\* The coins it asks about are those of one transaction and report enough.
Chosen(i, q) ==
    /\ Booked(q) /\ q.sel \in SUBSET Left(q) /\ q.sel # {} /\ Cardinality(q.sel) <= MaxInputs
    /\ Kind[i] # "merge" => Total(Reported, q.sel) >= q.need

CallOk(i, q) ==
    \/ q = Fresh
    \/ q.pc = "read" /\ AtWork(i, q) /\ q.sel \in SUBSET q.utxos
    \/ q.pc = "verify" /\ AtWork(i, q) /\ Chosen(i, q)
    \/ q.pc = "sent" /\ Basic(q) /\ q.code = "" /\ q.amount = 0 /\ Exact(q.tx)
    \/ /\ q.pc = "told" /\ Basic(q) /\ q.code \in Codes /\ (q.tx = NoTx \/ Exact(q.tx))
       /\ Affordable(i, q) /\ (Kind[i] # "merge" => True(q.code, q))

LEMMA FreshBasic == Basic(Fresh) /\ Fresh.amount = 0 /\ Fresh.tx = NoTx
<1>1. /\ Fresh.utxos = {} /\ Fresh.exclude = {} /\ Fresh.known = {} /\ Fresh.sel = {} /\ Fresh.round = 0
      /\ Fresh.need = 0 /\ Fresh.amount = 0 /\ Fresh.pass = 1 /\ Fresh.tx = NoTx
  BY DEF Fresh
<1>2. 0 \in 0..MaxRounds /\ 0 \in Nat /\ 1 \in {1, 2} /\ \A X : {} \in SUBSET X
  BY CoinAssumption
<1> QED BY <1>1, <1>2, FreshShaped, Zenon DEF Basic, Core

\* A call that signed nothing untrue may be told anything that is true of its coins.
LEMMA ToldOk ==
    ASSUME NEW i \in Calls, NEW r, r.amount = 0, r.tx = NoTx \/ Exact(r.tx), NEW code \in Codes,
           code \in CoinCodes => Basic(r), code \in CoinCodes /\ Kind[i] # "merge" => True(code, r)
    PROVE  CallOk(i, Told(r, code)) /\ Told(r, code).pc = "told" /\ Basic(Told(r, code))
<1> DEFINE q == Told(r, code)
<1>1. CASE code \in CoinCodes
  <2>1. q = [r EXCEPT !.pc = "told", !.code = code, !.round = 0, !.known = {}, !.pass = 1]
    BY <1>1 DEF Told
  <2>2. /\ Shaped(q) /\ q.pc = "told" /\ q.code = code /\ q.round = 0 /\ q.known = {} /\ q.pass = 1
        /\ q.utxos = r.utxos /\ q.exclude = r.exclude /\ q.need = r.need /\ q.sel = r.sel
        /\ q.ghost = r.ghost /\ q.horizon = r.horizon /\ q.unrep = r.unrep
        /\ q.amount = r.amount /\ q.tx = r.tx
    <3> HIDE DEF q
    <3> QED BY <1>1, <2>1, Zenon DEF Basic, Core, Shaped, Fields
  <2> HIDE DEF q
  <2>3. Basic(q)
    BY <1>1, <2>2, CoinAssumption DEF Basic, Core
  <2>4. Kind[i] # "merge" => True(code, q)
    <3>1. Left(q) = Left(r) /\ (Booked(r) <=> Booked(q))
      BY <2>2 DEF Left, Booked, Skipped
    <3> QED BY <1>1, <2>2, <3>1, Zenon DEF True
  <2>5. Affordable(i, q)
    BY <2>2 DEF Affordable
  <2> QED BY <2>2, <2>3, <2>4, <2>5 DEF CallOk, q
<1>2. CASE code \notin CoinCodes
  <2>1. q = [Fresh EXCEPT !.pc = "told", !.code = code, !.tx = r.tx]
    BY <1>2 DEF Told
  <2>2. /\ Shaped(q) /\ q.pc = "told" /\ q.code = code /\ q.round = Fresh.round /\ q.known = Fresh.known
        /\ q.utxos = Fresh.utxos /\ q.exclude = Fresh.exclude /\ q.need = Fresh.need /\ q.sel = Fresh.sel
        /\ q.pass = Fresh.pass /\ q.amount = 0 /\ q.tx = r.tx
    <3> HIDE DEF q
    <3> QED BY <2>1, FreshShaped, FreshBasic, Zenon DEF Shaped, Fields
  <2> HIDE DEF q
  <2>3. Basic(q)
    BY <2>2, FreshBasic DEF Basic, Core
  <2>4. True(code, q)
    BY <1>2 DEF True, CoinCodes
  <2>5. Affordable(i, q)
    BY <2>2 DEF Affordable
  <2> QED BY <2>2, <2>3, <2>4, <2>5 DEF CallOk, q
<1> QED BY <1>1, <1>2

\* What the coins of a call can and cannot pay.
LEMMA AllCover ==
    ASSUME NEW T \in SUBSET Coins, NEW need \in Nat
    PROVE  Coverable(T, Cardinality(T), need) <=> Total(Reported, T) >= need
<1>1. Cardinality(T) \in Nat /\ Total(Reported, T) \in Nat
  BY CoinsHaveValues, TotalType
<1>2. \A S \in SUBSET T : Total(Reported, S) \in Nat /\ Total(Reported, S) <= Total(Reported, T)
  BY CoinsHaveValues, TotalGrows, TotalType
<1> QED BY <1>1, <1>2 DEF Coverable

\* A selection that failed is told what is true of its coins.
LEMMA RefusedOk ==
    ASSUME NEW i \in Calls, Kind[i] # "merge", NEW r, AtWork(i, r), Booked(r), r.sel \in SUBSET r.utxos,
           NEW out \in BOOLEAN, out => Skipped(r) # {},
           ~out => ~Coverable(Left(r), MaxInputs, r.need)
    PROVE  CallOk(i, Refused(i, r, out)) /\ Refused(i, r, out).pc = "told"
<1> DEFINE code == Diagnosis(r, out)
           over == Total(Reported, Left(r)) >= r.need
<1>1. \/ code = "TOO_MANY_INPUTS" /\ ~out /\ over
      \/ code = "INSUFFICIENT" /\ Skipped(r) = {} /\ (out \/ ~over)
      \/ code = "VERIFY_UNAVAILABLE"
      \/ code \in {"GHOST_INPUTS_SKIPPED", "VERIFY_HORIZON", "VERIFY_UNREPRESENTABLE"} /\ ~out /\ ~over
  BY Zenon DEF Diagnosis, Left, Skipped
<1>2. Basic(r) /\ Left(r) \in SUBSET Coins /\ r.need \in Nat /\ r.amount = 0 /\ r.tx = NoTx
  BY DEF AtWork, Core, Basic, Left, spendableCoins
<1>3. Coverable(Left(r), Cardinality(Left(r)), r.need) <=> over
  BY <1>2, AllCover
<1> HIDE DEF code, over
<1>4. True(code, r) /\ code \in Codes /\ "MAX" \in Codes /\ "MAX" \notin CoinCodes
  <2>1. code \in Codes /\ "MAX" \in Codes /\ "MAX" \notin CoinCodes
    BY <1>1 DEF Codes, Nothing, CoinCodes
  <2>2. code = "TOO_MANY_INPUTS" => ~out /\ over
    BY <1>1
  <2>3. code = "INSUFFICIENT" => Skipped(r) = {} /\ ~over
    BY <1>1
  <2>4. code \in {"GHOST_INPUTS_SKIPPED", "VERIFY_HORIZON", "VERIFY_UNREPRESENTABLE"} => ~over
    BY <1>1
  <2>5. Skipped(r) = {} => r.exclude \cap r.utxos = {}
    BY DEF Booked
  <2> QED BY <1>3, <2>1, <2>2, <2>3, <2>4, <2>5 DEF True
<1>5. Refused(i, r, out) \in {Told(r, "MAX"), Told(r, code)}
  BY Zenon DEF Refused, code
<1> QED BY <1>2, <1>4, <1>5, ToldOk

\* A call whose coins are booked goes on to its selection or is told the truth.
LEMMA MergeRoundOk ==
    ASSUME NEW i \in Calls, Kind[i] = "merge", NEW r, AtWork(i, r), Booked(r)
    PROVE  CallOk(i, NextRound(i, r))
<1> DEFINE few == Smallest(MaxInputs, Left(r))
           q == [r EXCEPT !.pc = "verify", !.sel = few, !.round = @ + 1]
<1>1. {"VERIFY_UNAVAILABLE", "NOTHING_TO_CONSOLIDATE"} \in SUBSET (Codes \ CoinCodes)
  BY DEF Codes, Nothing, CoinCodes
<1>2. r.tx = NoTx /\ r.amount = 0 /\ Core(r)
  BY DEF AtWork
<1>3. few \in SUBSET Left(r) /\ Cardinality(few) <= MaxInputs
  BY <1>2, SmallestIs, CoinAssumption DEF Left, spendableCoins, Core
<1>4. NextRound(i, r) = IF r.round >= MaxRounds THEN Told(r, "VERIFY_UNAVAILABLE")
                        ELSE IF Cardinality(few) < 2 THEN Told(r, "NOTHING_TO_CONSOLIDATE") ELSE q
  BY Zenon DEF NextRound, Left
<1>5. \A code \in {"VERIFY_UNAVAILABLE", "NOTHING_TO_CONSOLIDATE"} : CallOk(i, Told(r, code))
  BY <1>1, <1>2, ToldOk
<1>6. ASSUME r.round < MaxRounds, ~(Cardinality(few) < 2) PROVE CallOk(i, q)
  <2>1. /\ Shaped(q) /\ q.pc = "verify" /\ q.code = r.code /\ q.utxos = r.utxos /\ q.exclude = r.exclude
        /\ q.round = r.round + 1 /\ q.need = r.need /\ q.sel = few /\ q.known = r.known
        /\ q.ghost = r.ghost /\ q.horizon = r.horizon /\ q.unrep = r.unrep
        /\ q.pass = r.pass /\ q.amount = r.amount /\ q.tx = r.tx
    <3> HIDE DEF few
    <3> QED BY <1>2, Zenon DEF Core, Shaped, Fields
  <2> HIDE DEF q, few
  <2>2. r.round + 1 \in 0..MaxRounds
    BY <1>2, <1>6, CoinAssumption DEF Core
  <2>3. AtWork(i, q)
    BY <2>1, <2>2 DEF AtWork, Core
  <2>4. few # {}
    BY <1>6, FS_EmptySet
  <2>5. Left(q) = Left(r) /\ (Booked(r) <=> Booked(q))
    BY <2>1 DEF Left, Booked, Skipped
  <2>6. Chosen(i, q)
    BY <1>3, <2>1, <2>4, <2>5 DEF Chosen
  <2> QED BY <2>1, <2>3, <2>6 DEF CallOk
<1> HIDE DEF q, few
<1>7. r.round >= MaxRounds \/ r.round < MaxRounds
  BY <1>2, CoinAssumption DEF Core
<1> QED BY Zenon, <1>4, <1>5, <1>6, <1>7

LEMMA MostOfIs ==
    ASSUME NEW utxos \in SUBSET Coins, NEW exclude
    PROVE  MostOf(utxos, exclude) \in Nat /\ MostOf(utxos, exclude) > 0
<1> DEFINE top == Largest(MaxInputs, spendableCoins(utxos, exclude))
<1>1. top \in SUBSET Coins
  BY LargestIs, CoinAssumption DEF spendableCoins
<1>2. Total(Reported, top) \in Nat
  BY <1>1, TotalType, CoinsHaveValues
<1> HIDE DEF top
<1>3. MostOf(utxos, exclude) = IF Total(Reported, top) > 0 THEN Total(Reported, top) ELSE 1
  BY Zenon DEF MostOf, top
<1> QED BY <1>2, <1>3

LEMMA PayRoundOk ==
    ASSUME NEW i \in Calls, Kind[i] # "merge", NEW r, AtWork(i, r), Booked(r),
           r.round = 0 \/ (Skipped(r) # {} /\ r.sel \in SUBSET r.utxos)
    PROVE  CallOk(i, NextRound(i, r))
<1> DEFINE need == IF Kind[i] = "max" /\ r.pass = 1 THEN MostOf(r.utxos, r.exclude) ELSE r.need
           sel == selectInputs(r.utxos, need, r.exclude)
           s == [r EXCEPT !.need = need, !.sel = sel, !.round = @ + 1]
           q == [s EXCEPT !.pc = "verify"]
<1>1. /\ Core(r) /\ r.utxos \in SUBSET Coins /\ r.need \in Nat /\ r.need > 0 /\ r.round \in 0..MaxRounds
      /\ MaxRounds \in Nat \ {0}
  BY CoinAssumption DEF AtWork, Core
<1>2. need \in Nat /\ need > 0
  BY <1>1, MostOfIs
<1>3. \/ Selects(sel, Left(r), need)
      \/ sel = {} /\ ~Coverable(Left(r), MaxInputs, need)
  <2> HIDE DEF need
  <2>1. \/ Selects(selectInputs(r.utxos, need, r.exclude), spendableCoins(r.utxos, r.exclude), need)
        \/ /\ selectInputs(r.utxos, need, r.exclude) = {}
           /\ ~Coverable(spendableCoins(r.utxos, r.exclude), MaxInputs, need)
    BY <1>1, <1>2, SelectInputsIs
  <2> QED BY <2>1, Zenon DEF Left
<1>4. need = r.need \/ (Kind[i] = "max" /\ r.pass = 1)
  BY Zenon
<1> HIDE DEF need, sel
<1>5. NextRound(i, r) = IF r.round >= MaxRounds THEN Refused(i, r, TRUE)
                        ELSE IF sel = {} THEN Refused(i, s, FALSE) ELSE q
  BY Zenon DEF NextRound, need, sel
<1>6. /\ Shaped(s) /\ s.code = r.code /\ s.utxos = r.utxos /\ s.exclude = r.exclude
      /\ s.round = r.round + 1 /\ s.need = need /\ s.sel = sel /\ s.known = r.known
      /\ s.ghost = r.ghost /\ s.horizon = r.horizon /\ s.unrep = r.unrep
      /\ s.pass = r.pass /\ s.amount = r.amount /\ s.tx = r.tx
  BY <1>1, Zenon DEF Core, Shaped, Fields
<1>7. Left(s) = Left(r) /\ (Booked(r) <=> Booked(s)) /\ Left(r) \in SUBSET r.utxos
  <2> HIDE DEF s
  <2> QED BY <1>6 DEF Left, Booked, Skipped, spendableCoins
<1>8. ASSUME r.round >= MaxRounds PROVE CallOk(i, Refused(i, r, TRUE))
  <2>1. Skipped(r) # {} /\ r.sel \in SUBSET r.utxos
    BY <1>1, <1>8
  <2> QED BY <2>1, RefusedOk
<1>9. ASSUME r.round < MaxRounds PROVE AtWork(i, s)
  <2>1. r.round + 1 \in 0..MaxRounds
    BY <1>1, <1>9
  <2>2. Kind[i] \in {"send", "app"} => s.need = Amount[i] + Fee[i]
    <3>1. Kind[i] \in {"send", "app"} => need = r.need
      BY <1>4
    <3>2. Kind[i] \in {"send", "app"} => r.need = Amount[i] + Fee[i]
      BY Zenon DEF AtWork
    <3> HIDE DEF s
    <3> QED BY <1>6, <3>1, <3>2
  <2>3. s.pass = 2 => Kind[i] = "max" /\ s.need > Fee[i]
    <3>1. r.pass = 2 => Kind[i] = "max" /\ r.need > Fee[i]
      BY Zenon DEF AtWork
    <3>2. r.pass = 2 => need = r.need
      BY <1>4
    <3> HIDE DEF s
    <3> QED BY <1>6, <3>1, <3>2
  <2> HIDE DEF s
  <2> QED BY <1>2, <1>6, <2>1, <2>2, <2>3 DEF AtWork, Core
<1>10. ASSUME r.round < MaxRounds, sel = {} PROVE CallOk(i, Refused(i, s, FALSE))
  <2>1. ~Coverable(Left(s), MaxInputs, s.need)
    <3> HIDE DEF s
    <3> QED BY <1>3, <1>6, <1>7, <1>10 DEF Selects
  <2>2. AtWork(i, s) /\ Booked(s) /\ s.sel \in SUBSET s.utxos
    <3> HIDE DEF s
    <3> QED BY <1>6, <1>7, <1>9, <1>10
  <2> HIDE DEF s
  <2> QED BY <2>1, <2>2, RefusedOk
<1>11. ASSUME r.round < MaxRounds, sel # {} PROVE CallOk(i, q)
  <2>1. /\ Shaped(q) /\ q.pc = "verify" /\ q.code = s.code /\ q.utxos = s.utxos /\ q.exclude = s.exclude
        /\ q.round = s.round /\ q.need = s.need /\ q.sel = s.sel /\ q.known = s.known
        /\ q.ghost = s.ghost /\ q.horizon = s.horizon /\ q.unrep = s.unrep
        /\ q.pass = s.pass /\ q.amount = s.amount /\ q.tx = s.tx
    <3> HIDE DEF s
    <3> QED BY <1>6, Zenon DEF Shaped, Fields
  <2> HIDE DEF q, s
  <2>2. AtWork(i, q)
    BY <1>9, <1>11, <2>1 DEF AtWork, Core
  <2>3. Left(q) = Left(s) /\ (Booked(s) <=> Booked(q))
    BY <2>1 DEF Left, Booked, Skipped
  <2>4. Chosen(i, q)
    BY <1>3, <1>6, <1>7, <1>11, <2>1, <2>3 DEF Chosen, Selects
  <2> QED BY <2>1, <2>2, <2>4 DEF CallOk
<1> HIDE DEF q, s
<1>12. r.round >= MaxRounds \/ r.round < MaxRounds
  BY <1>1
<1> QED BY Zenon, <1>5, <1>8, <1>10, <1>11, <1>12

LEMMA NextRoundOk ==
    ASSUME NEW i \in Calls, NEW r, AtWork(i, r), Booked(r),
           r.round = 0 \/ (Skipped(r) # {} /\ r.sel \in SUBSET r.utxos)
    PROVE  CallOk(i, NextRound(i, r))
  BY MergeRoundOk, PayRoundOk

\* Coins the sources prove are signed for, refused, or make the figure of Max.
LEMMA CapType == ASSUME NEW total \in Nat PROVE proportionalFeeCap(total) \in Nat
  BY CoinAssumption DEF proportionalFeeCap

LEMMA FeeIs ==
    ASSUME NEW i \in Calls, Fee[i] # 0, ~(Fee[i] > MaxFee)
    PROVE  Fee[i] \in Nat /\ Fee[i] > 0 /\ Fee[i] <= MaxFee
  BY CoinAssumption

\* What the fee check of every call leaves.
LEMMA PreflightIs ==
    ASSUME NEW i \in Calls, Preflight(i) = ""
    PROVE  Fee[i] \in Nat /\ Fee[i] > 0 /\ Fee[i] <= MaxFee
<1>1. "FEE_TOO_LOW" # "" /\ "FEE_CAP" # ""
  OBVIOUS
<1>2. Fee[i] = 0 => Preflight(i) = "FEE_TOO_LOW"
  BY Zenon DEF Preflight
<1>3. Fee[i] # 0 /\ Fee[i] > MaxFee => Preflight(i) = "FEE_CAP"
  BY Zenon DEF Preflight
<1>4. Fee[i] # 0
  BY <1>1, <1>2, Zenon
<1>5. ~(Fee[i] > MaxFee)
  BY <1>1, <1>3, <1>4, Zenon
<1> QED BY <1>4, <1>5, FeeIs

\* The coins of a proved selection: one transaction's worth, at their sources' value.
Proven(q) ==
    /\ q.sel \in SUBSET Coins /\ (\A c \in q.sel : Real[c] > 0)
    /\ Cardinality(q.sel) \in 1..MaxInputs /\ Total(Real, q.sel) \in Nat

\* A transaction of proved coins that balances within the caps.
LEMMA SignOk ==
    ASSUME NEW i \in Calls, NEW r, Proven(r), NEW pay, NEW change,
           Total(Real, r.sel) = pay + change + Fee[i],
           Fee[i] <= proportionalFeeCap(Total(Real, r.sel)), Fee[i] <= MaxFee
    PROVE  CallOk(i, Sign(i, r, pay, change))
<1> DEFINE q == Sign(i, r, pay, change)
<1>1. /\ Shaped(q) /\ q.pc = "sent" /\ q.code = "" /\ q.round = Fresh.round /\ q.known = Fresh.known
      /\ q.utxos = Fresh.utxos /\ q.exclude = Fresh.exclude /\ q.need = Fresh.need /\ q.sel = Fresh.sel
      /\ q.pass = Fresh.pass /\ q.amount = Fresh.amount
      /\ q.tx.ins = r.sel /\ q.tx.pay = pay /\ q.tx.change = change /\ q.tx.fee = Fee[i]
  BY FreshShaped, Zenon DEF Sign, Shaped, Fields
<1> HIDE DEF q
<1>2. Basic(q) /\ q.amount = 0
  BY <1>1, FreshBasic DEF Basic, Core
<1>3. Exact(q.tx)
  BY <1>1, Zenon DEF Exact, Proven
<1> QED BY <1>1, <1>2, <1>3 DEF CallOk, q

LEMMA ProvenIs ==
    ASSUME NEW i \in Calls, NEW r, AtWork(i, r), Chosen(i, r), \A c \in r.sel : Real[c] > 0
    PROVE  Proven(r) /\ Basic(r)
<1>1. r.sel \in SUBSET r.utxos /\ r.utxos \in SUBSET Coins /\ Core(r)
  BY DEF AtWork, Core, Chosen, Left, spendableCoins
<1>2. Cardinality(r.sel) \in Nat /\ Total(Real, r.sel) \in Nat
  BY <1>1, CoinsHaveValues, TotalType
<1>3. Cardinality(r.sel) # 0
  BY <1>1, CoinsHaveValues, FS_EmptySet DEF Chosen
<1>4. Cardinality(r.sel) <= MaxInputs /\ MaxInputs \in Nat
  BY CoinAssumption DEF Chosen
<1>5. Cardinality(r.sel) \in 1..MaxInputs
  BY <1>2, <1>3, <1>4
<1> QED BY <1>1, <1>2, <1>5 DEF Proven, Basic

LEMMA PlainAnswers ==
    {"FEE_CAP", "NO_OUTPUTS", "MAX"} \in SUBSET (Codes \ CoinCodes) /\ "INSUFFICIENT" \in Codes
  BY DEF Codes, Nothing, CoinCodes

\* The three ends of a proved selection.
LEMMA MergeOk ==
    ASSUME NEW i \in Calls, Kind[i] = "merge", NEW r, AtWork(i, r), Proven(r), Basic(r)
    PROVE  CallOk(i, MergeProved(i, r, ProvedTotal(r)))
<1> DEFINE total == Total(Real, r.sel)
<1>1. /\ r.tx = NoTx /\ r.amount = 0 /\ Fee[i] \in Nat /\ Fee[i] <= MaxFee
      /\ total \in Nat /\ proportionalFeeCap(total) \in Nat
  BY PreflightIs, CapType DEF AtWork, Proven
<1>2. CallOk(i, Told(r, "INSUFFICIENT")) /\ CallOk(i, Told(r, "FEE_CAP"))
  BY <1>1, PlainAnswers, ToldOk
<1>3. \/ MergeProved(i, r, ProvedTotal(r)) \in {Told(r, "INSUFFICIENT"), Told(r, "FEE_CAP")}
      \/ /\ MergeProved(i, r, ProvedTotal(r)) = Sign(i, r, 0, total - Fee[i])
         /\ ~(total <= Fee[i]) /\ ~(total > Fee[i] /\ Fee[i] > proportionalFeeCap(total))
  BY Zenon DEF MergeProved, ProvedTotal
<1> HIDE DEF total
<1>4. ASSUME ~(total <= Fee[i]), ~(total > Fee[i] /\ Fee[i] > proportionalFeeCap(total))
      PROVE  CallOk(i, Sign(i, r, 0, total - Fee[i]))
  <2>1. Fee[i] <= proportionalFeeCap(total) /\ total = 0 + (total - Fee[i]) + Fee[i]
    BY <1>1, <1>4
  <2> QED BY <1>1, <2>1, SignOk DEF total
<1> QED BY <1>2, <1>3, <1>4

LEMMA PaymentOk ==
    ASSUME NEW i \in Calls, Kind[i] \in {"send", "app"}, NEW r, AtWork(i, r), Proven(r)
    PROVE  CallOk(i, PaymentProved(i, r, ProvedTotal(r)))
<1> DEFINE total == Total(Real, r.sel)
           cap == proportionalFeeCap(total)
<1>1. /\ r.tx = NoTx /\ r.amount = 0 /\ Fee[i] \in Nat /\ Fee[i] <= MaxFee /\ Amount[i] \in Nat
      /\ total \in Nat /\ cap \in Nat /\ r.need = Amount[i] + Fee[i]
  BY PreflightIs, CapType, CoinAssumption DEF AtWork, Proven
<1>2. CallOk(i, Told(r, "NO_OUTPUTS")) /\ CallOk(i, Told(r, "FEE_CAP"))
  BY <1>1, PlainAnswers, ToldOk
<1>3. \/ PaymentProved(i, r, ProvedTotal(r)) \in {Told(r, "NO_OUTPUTS"), Told(r, "FEE_CAP")}
      \/ /\ PaymentProved(i, r, ProvedTotal(r)) = Sign(i, r, Amount[i], total - r.need)
         /\ ~(Fee[i] > cap)
  BY Zenon DEF PaymentProved, ProvedTotal, Change
<1> HIDE DEF total, cap
<1>4. ASSUME ~(Fee[i] > cap) PROVE CallOk(i, Sign(i, r, Amount[i], total - r.need))
  <2>1. Fee[i] <= cap /\ total = Amount[i] + (total - r.need) + Fee[i]
    BY <1>1, <1>4
  <2> QED BY <1>1, <2>1, SignOk DEF total, cap
<1> QED BY <1>2, <1>3, <1>4

LEMMA MaxOk ==
    ASSUME NEW i \in Calls, Kind[i] = "max", NEW r, AtWork(i, r), Proven(r), Basic(r),
           ProvedTotal(r) >= r.need
    PROVE  CallOk(i, MaxProved(i, r, ProvedTotal(r)))
<1> DEFINE again == [r EXCEPT !.pc = "read", !.pass = 2]
           figure == [Told(r, "MAX") EXCEPT !.amount = r.need - Fee[i]]
<1>1. /\ r.tx = NoTx /\ r.amount = 0 /\ Fee[i] \in Nat /\ r.need \in Nat /\ Core(r)
      /\ r.code = "" /\ r.need > 0 /\ Preflight(i) = "" /\ r.pass \in {1, 2}
  BY PreflightIs DEF AtWork, Core
<1>2. CallOk(i, Told(r, "MAX")) /\ CallOk(i, Told(r, "FEE_CAP"))
  BY <1>1, PlainAnswers, ToldOk
<1>3. \/ MaxProved(i, r, ProvedTotal(r)) \in {Told(r, "MAX"), Told(r, "FEE_CAP")}
      \/ MaxProved(i, r, ProvedTotal(r)) = again /\ r.need > Fee[i]
      \/ /\ MaxProved(i, r, ProvedTotal(r)) = figure
         /\ ~(r.pass = 1 /\ r.need <= Fee[i]) /\ ~(r.pass = 1 /\ r.need > Fee[i])
  <2> DEFINE over == Fee[i] > proportionalFeeCap(ProvedTotal(r))
  <2>1. MaxProved(i, r, ProvedTotal(r)) =
          CASE r.pass = 1 /\ r.need <= Fee[i] -> Told(r, "MAX")
            [] r.pass = 1 /\ r.need > Fee[i] -> again
            [] r.pass = 2 /\ over -> Told(r, "FEE_CAP")
            [] OTHER -> figure
    BY DEF MaxProved
  <2> HIDE DEF again, figure, over
  <2> QED BY <2>1, Zenon
<1>4. ASSUME r.need > Fee[i] PROVE CallOk(i, again)
  <2>1. /\ Shaped(again) /\ again.pc = "read" /\ again.code = r.code /\ again.utxos = r.utxos
        /\ again.exclude = r.exclude /\ again.round = r.round /\ again.need = r.need
        /\ again.sel = r.sel /\ again.known = r.known
        /\ again.pass = 2 /\ again.amount = r.amount /\ again.tx = r.tx
    BY <1>1, Zenon DEF Core, Shaped, Fields
  <2> HIDE DEF again
  <2>2. Core(again)
    BY <1>1, <2>1 DEF Core
  <2>3. AtWork(i, again)
    BY <1>1, <1>4, <2>1, <2>2 DEF AtWork
  <2>4. again.sel \in SUBSET again.utxos
    BY <2>1 DEF Basic
  <2> QED BY <2>1, <2>3, <2>4 DEF CallOk
<1>5. ASSUME r.pass = 2 PROVE CallOk(i, figure)
  <2> DEFINE t == Told(r, "MAX")
  <2>1. t.pc = "told" /\ Basic(t) /\ t.tx = r.tx /\ t.code = "MAX"
    <3>1. t.pc = "told" /\ Basic(t)
      BY <1>1, PlainAnswers, ToldOk
    <3>2. t = [Fresh EXCEPT !.pc = "told", !.code = "MAX", !.tx = r.tx]
      BY PlainAnswers DEF Told
    <3>3. t.tx = r.tx /\ t.code = "MAX"
      <4> HIDE DEF t
      <4> QED BY <3>2, FreshShaped, Zenon DEF Shaped, Fields
    <3> QED BY <3>1, <3>3
  <2> HIDE DEF t
  <2>2. figure = [t EXCEPT !.amount = r.need - Fee[i]]
    BY DEF t
  <2> HIDE DEF figure
  <2>3. /\ Shaped(figure) /\ figure.pc = "told" /\ figure.code = "MAX" /\ figure.utxos = t.utxos
        /\ figure.exclude = t.exclude /\ figure.round = t.round /\ figure.need = t.need
        /\ figure.sel = t.sel /\ figure.known = t.known /\ figure.pass = t.pass
        /\ figure.amount = r.need - Fee[i] /\ figure.tx = r.tx
    BY <2>1, <2>2, Zenon DEF Basic, Core, Shaped, Fields
  <2>4. r.need > Fee[i]
    BY <1>5, Zenon DEF AtWork
  <2>5. figure.amount \in Nat /\ figure.amount + Fee[i] = r.need
    <3>1. r.need \in Nat /\ Fee[i] \in Nat /\ figure.amount = r.need - Fee[i]
      BY <1>1, <2>3, Zenon
    <3> QED BY <2>4, <3>1
  <2>6. Basic(figure)
    BY <2>1, <2>3, <2>5 DEF Basic, Core
  <2>7. Affordable(i, figure)
    <3>1. r.sel \in SUBSET {c \in Coins : Real[c] > 0}
      BY DEF Proven
    <3>2. Cardinality(r.sel) <= MaxInputs
      BY CoinAssumption DEF Proven
    <3>3. Total(Real, r.sel) >= figure.amount + Fee[i]
      BY <2>5 DEF ProvedTotal
    <3> QED BY <3>1, <3>2, <3>3, Zenon DEF Affordable
  <2>8. True(figure.code, figure) /\ figure.code \in Codes /\ figure.tx = NoTx
    <3>1. True("MAX", figure) /\ "MAX" \in Codes
      BY PlainAnswers DEF True
    <3> QED BY <1>1, <2>3, <3>1, Zenon
  <2>9. figure.pc = "told"
    BY <2>3, Zenon
  <2> QED BY <2>6, <2>7, <2>8, <2>9, Zenon DEF CallOk
<1>6. ~(r.pass = 1 /\ r.need <= Fee[i]) /\ ~(r.pass = 1 /\ r.need > Fee[i]) => r.pass = 2
  <2>1. r.pass \in {1, 2} /\ r.need \in Nat /\ Fee[i] \in Nat
    BY <1>1, Zenon
  <2> QED BY <2>1
<1> HIDE DEF again, figure
<1> QED BY <1>2, <1>3, <1>4, <1>5, <1>6

LEMMA ProvedOk ==
    ASSUME NEW i \in Calls, NEW r, AtWork(i, r), Chosen(i, r), \A c \in r.sel : Real[c] > 0
    PROVE  CallOk(i, Proved(i, r))
<1> DEFINE total == ProvedTotal(r)
<1>1. Proven(r) /\ Basic(r)
  BY ProvenIs
<1>2. r.tx = NoTx /\ r.amount = 0 /\ r.need \in Nat /\ total \in Nat
  BY <1>1 DEF AtWork, Core, Proven, ProvedTotal
<1>3. \/ Kind[i] = "merge" /\ Proved(i, r) = MergeProved(i, r, total)
      \/ Kind[i] # "merge" /\ total < r.need /\ Proved(i, r) = Told(r, "INSUFFICIENT")
      \/ Kind[i] = "max" /\ total >= r.need /\ Proved(i, r) = MaxProved(i, r, total)
      \/ /\ Kind[i] # "merge" /\ ~(Kind[i] # "merge" /\ total < r.need)
         /\ ~(Kind[i] = "max" /\ total >= r.need)
         /\ Proved(i, r) = PaymentProved(i, r, total)
  <2>1. Proved(i, r) = CASE Kind[i] = "merge" -> MergeProved(i, r, total)
                         [] Kind[i] # "merge" /\ total < r.need -> Told(r, "INSUFFICIENT")
                         [] Kind[i] = "max" /\ total >= r.need -> MaxProved(i, r, total)
                         [] OTHER -> PaymentProved(i, r, total)
    BY Zenon DEF Proved
  <2> HIDE DEF total
  <2> QED BY <2>1, Zenon
<1>4. CASE Kind[i] = "merge" /\ Proved(i, r) = MergeProved(i, r, total)
  BY <1>1, <1>4, MergeOk
<1>5. CASE Kind[i] # "merge" /\ total < r.need /\ Proved(i, r) = Told(r, "INSUFFICIENT")
  <2>1. Total(Real, r.sel) < Total(Reported, r.sel)
    <3>1. Total(Reported, r.sel) >= r.need /\ Total(Reported, r.sel) \in Nat
      BY <1>1, <1>5, CoinsHaveValues, TotalType DEF Chosen, Proven
    <3> QED BY <1>2, <1>5, <3>1 DEF ProvedTotal
  <2>2. True("INSUFFICIENT", r)
    BY <2>1 DEF True
  <2>3. CallOk(i, Told(r, "INSUFFICIENT"))
    BY <1>1, <1>2, <2>2, PlainAnswers, ToldOk
  <2> QED BY <1>5, <2>3
<1>6. CASE Kind[i] = "max" /\ total >= r.need /\ Proved(i, r) = MaxProved(i, r, total)
  BY <1>1, <1>6, MaxOk
<1>7. CASE /\ Kind[i] # "merge" /\ ~(Kind[i] # "merge" /\ total < r.need)
           /\ ~(Kind[i] = "max" /\ total >= r.need)
           /\ Proved(i, r) = PaymentProved(i, r, total)
  <2>1. total >= r.need
    BY <1>2, <1>7
  <2>2. Kind[i] \in {"send", "app"}
    BY <1>7, <2>1, CoinAssumption
  <2> QED BY <1>1, <1>7, <2>2, PaymentOk
<1> QED BY <1>3, <1>4, <1>5, <1>6, <1>7

-----------------------------------------------------------------------------
(* What every state keeps *)

Caches(g, h, u) ==
    /\ g \in SUBSET Coins /\ h \in SUBSET Coins /\ u \in SUBSET Coins
    /\ g \cap h = {} /\ (g \cup h) \cap u = {}
Kept ==
    /\ \A i \in Calls : CallOk(i, call[i])
    /\ Caches(ghostSeen, horizonSeen, unrepSeen)
    /\ asks \in 0..MaxAsks /\ restarts \in 0..MaxRestarts

\* What a call's place says of it.
LEMMA PcIs ==
    ASSUME NEW i, NEW q, CallOk(i, q)
    PROVE  /\ q.pc = "read" => AtWork(i, q) /\ q.sel \in SUBSET q.utxos
           /\ q.pc = "verify" => AtWork(i, q) /\ Chosen(i, q)
           /\ q.pc = "sent" => Basic(q) /\ q.amount = 0 /\ Exact(q.tx)
           /\ q.pc = "told" => /\ Basic(q) /\ q.code \in Codes /\ (q.tx = NoTx \/ Exact(q.tx))
                               /\ Affordable(i, q) /\ (Kind[i] # "merge" => True(q.code, q))
           /\ q.pc \in {"idle", "read", "verify", "sent", "told"} /\ (q.pc = "idle" => q = Fresh)
<1>1. Fresh.pc = "idle"
  BY FreshShaped
<1>2. CASE q = Fresh
  <2>1. q.pc = "idle"
    BY <1>1, <1>2
  <2> QED BY <1>2, <2>1
<1>3. CASE q.pc = "read" /\ AtWork(i, q) /\ q.sel \in SUBSET q.utxos
  BY <1>3
<1>4. CASE q.pc = "verify" /\ AtWork(i, q) /\ Chosen(i, q)
  BY <1>4
<1>5. CASE q.pc = "sent" /\ Basic(q) /\ q.amount = 0 /\ Exact(q.tx)
  BY <1>5
<1>6. CASE /\ q.pc = "told" /\ Basic(q) /\ q.code \in Codes /\ (q.tx = NoTx \/ Exact(q.tx))
           /\ Affordable(i, q) /\ (Kind[i] # "merge" => True(q.code, q))
  BY <1>6
<1> QED BY <1>2, <1>3, <1>4, <1>5, <1>6, Zenon DEF CallOk

\* A step that leaves one call in order leaves all of them so.
LEMMA OneCallOk ==
    ASSUME Kept, Typed, NEW i \in Calls, NEW q, CallOk(i, q), call' = [call EXCEPT ![i] = q]
    PROVE  \A j \in Calls : CallOk(j, call'[j])
<1>1. call'[i] = q /\ \A j \in Calls \ {i} : call'[j] = call[j]
  BY OneCall
<1> QED BY <1>1, Zenon DEF Kept

\* The last words that do not blame the coins.
Plain == Codes \ CoinCodes
LEMMA PlainIs ==
    /\ {"FEE_TOO_LOW", "FEE_CAP", "ZERO_ADDR_REFUSED", "VERIFY_TAMPER", "VERIFY_UNAVAILABLE"} \in SUBSET Plain
    /\ {"SUBMIT_REJECTED", "SUBMIT_DUPLICATE", "SENT", "CHANNEL", Ambiguous} \in SUBSET Plain
  BY DEF Plain, Codes, Nothing, Maybe, CoinCodes, Ambiguous

LEMMA PlainTold ==
    ASSUME NEW i \in Calls, NEW r, CallOk(i, r), r.pc \in {"read", "verify", "sent"}, NEW code \in Plain
    PROVE  CallOk(i, Told(r, code))
<1>1. r.amount = 0 /\ (r.tx = NoTx \/ Exact(r.tx))
  BY PcIs, Zenon DEF AtWork
<1> QED BY <1>1, ToldOk DEF Plain

\* The actions, each from what the call knew.
LEMMA AskOk == ASSUME Kept, Typed, NEW i \in Calls, Ask(i) PROVE Kept'
<1> DEFINE r == [Fresh EXCEPT !.need = Amount[i] + Fee[i]]
           q == [r EXCEPT !.pc = "read"]
           t == Told(r, Preflight(i))
<1>1. /\ call' = [call EXCEPT ![i] = IF Preflight(i) = "" THEN q ELSE t]
      /\ asks < MaxAsks /\ asks' = asks + 1 /\ restarts' = restarts
      /\ ghostSeen' = ghostSeen /\ horizonSeen' = horizonSeen /\ unrepSeen' = unrepSeen
  BY Zenon DEF Ask, caches
<1>2. Amount[i] \in Nat /\ Fee[i] \in Nat
  BY CoinAssumption
<1>3. /\ Shaped(r) /\ r.code = "" /\ r.utxos = Fresh.utxos /\ r.exclude = Fresh.exclude
      /\ r.round = Fresh.round /\ r.need = Amount[i] + Fee[i] /\ r.sel = Fresh.sel
      /\ r.known = Fresh.known /\ r.pass = Fresh.pass /\ r.amount = Fresh.amount /\ r.tx = Fresh.tx
  BY FreshShaped, Zenon DEF Shaped, Fields
<1>4. r.pass = 1 /\ Fresh.pass = 1
  <2>1. Fresh.pass = 1
    BY DEF Fresh
  <2> QED BY <1>3, <2>1, Zenon
<1> HIDE DEF r
<1>5. Basic(r) /\ r.amount = 0 /\ r.tx = NoTx
  <2>1. Amount[i] + Fee[i] \in Nat
    BY <1>2
  <2>2. Basic(Fresh) /\ Fresh.amount = 0 /\ Fresh.tx = NoTx
    BY FreshBasic
  <2>3. Core(r)
    BY <1>3, <2>1, <2>2, Zenon DEF Basic, Core
  <2> QED BY <1>3, <2>2, <2>3, Zenon DEF Basic
<1>6. ASSUME Preflight(i) = "" PROVE CallOk(i, q)
  <2>1. /\ Shaped(q) /\ q.pc = "read" /\ q.code = r.code /\ q.utxos = r.utxos
        /\ q.exclude = r.exclude /\ q.round = r.round /\ q.need = r.need
        /\ q.sel = r.sel /\ q.known = r.known
        /\ q.pass = r.pass /\ q.amount = r.amount /\ q.tx = r.tx
    BY <1>3, Zenon DEF Shaped, Fields
  <2> HIDE DEF q
  <2>2. Core(q) /\ q.sel \in SUBSET q.utxos
    BY <1>5, <2>1, Zenon DEF Basic, Core
  <2>3. q.need > 0
    <3>1. Fee[i] > 0
      BY <1>6, PreflightIs
    <3>2. q.need = Amount[i] + Fee[i]
      BY <1>3, <2>1, Zenon
    <3> HIDE <1>6
    <3> QED BY <1>2, <3>1, <3>2
  <2>4. q.pass # 2
    BY <1>4, <2>1
  <2>5. AtWork(i, q)
    BY <1>3, <1>5, <1>6, <2>1, <2>2, <2>3, <2>4, Zenon DEF AtWork
  <2> QED BY <2>1, <2>2, <2>5, Zenon DEF CallOk
<1>7. ASSUME Preflight(i) # "" PROVE CallOk(i, t)
  <2>1. Preflight(i) \in {"FEE_TOO_LOW", "FEE_CAP", "ZERO_ADDR_REFUSED"}
    BY <1>7, Zenon DEF Preflight
  <2> QED BY <1>5, <2>1, PlainIs, ToldOk DEF Plain
<1> HIDE DEF q, t
<1>8. \A j \in Calls : CallOk(j, call'[j])
  <2>1. CASE Preflight(i) = ""
    <3>1. call' = [call EXCEPT ![i] = q]
      BY <1>1, <2>1, Zenon
    <3> QED BY <1>6, <2>1, <3>1, OneCallOk, Zenon
  <2>2. CASE Preflight(i) # ""
    <3>1. call' = [call EXCEPT ![i] = t]
      BY <1>1, <2>2, Zenon
    <3> QED BY <1>7, <2>2, <3>1, OneCallOk, Zenon
  <2> QED BY <2>1, <2>2, Zenon
<1>9. asks' \in 0..MaxAsks
  <2>1. asks < MaxAsks /\ asks' = asks + 1 /\ asks \in 0..MaxAsks
    BY <1>1, Zenon DEF Kept
  <2> QED BY <2>1, CoinAssumption
<1> QED BY <1>1, <1>8, <1>9, Zenon DEF Kept

LEMMA ReadOk == ASSUME Kept, Typed, NEW i \in Calls, ReadCoins(i) PROVE Kept'
<1> DEFINE Read(utxos, expired) ==
             [call[i] EXCEPT !.utxos = utxos, !.exclude = (Cached \ expired), !.round = 0,
                             !.ghost = ghostSeen' \cap utxos, !.horizon = horizonSeen' \cap utxos,
                             !.unrep = unrepSeen' \cap utxos]
<1>1. PICK utxos \in Listed, expired \in {{}, Cached} :
         /\ ghostSeen' = ghostSeen \ expired
         /\ horizonSeen' = horizonSeen \ expired
         /\ unrepSeen' = unrepSeen \ expired
         /\ call' = [call EXCEPT ![i] = NextRound(i, Read(utxos, expired))]
  BY Zenon DEF ReadCoins
<1>2. call[i].pc = "read" /\ asks' = asks /\ restarts' = restarts
  BY DEF ReadCoins, world
<1> DEFINE r == call[i]
           q == Read(utxos, expired)
<1>3. AtWork(i, r)
  BY <1>2, PcIs DEF Kept
<1>4. utxos \in SUBSET Coins
  BY DEF Listed
<1>5. Caches(ghostSeen', horizonSeen', unrepSeen') /\ Cached \ expired \in SUBSET Coins
  BY <1>1 DEF Kept, Caches, Cached
<1> HIDE DEF r
<1>6. /\ Shaped(q) /\ q.code = r.code /\ q.utxos = utxos
      /\ q.exclude = Cached \ expired /\ q.round = 0 /\ q.need = r.need
      /\ q.known = r.known /\ q.pass = r.pass /\ q.amount = r.amount /\ q.tx = r.tx
      /\ q.ghost = ghostSeen' \cap utxos /\ q.horizon = horizonSeen' \cap utxos
      /\ q.unrep = unrepSeen' \cap utxos
  <2>1. q = [r EXCEPT !.utxos = utxos, !.exclude = (Cached \ expired), !.round = 0,
                      !.ghost = ghostSeen' \cap utxos, !.horizon = horizonSeen' \cap utxos,
                      !.unrep = unrepSeen' \cap utxos]
    BY DEF r
  <2>2. Shaped(r)
    BY <1>3 DEF AtWork, Core
  <2> HIDE DEF q
  <2> QED BY <2>1, <2>2, Zenon DEF Shaped, Fields
<1>7. call' = [call EXCEPT ![i] = NextRound(i, q)]
  BY <1>1
<1> HIDE DEF q
<1>8. Booked(q)
  <2>1. q.ghost \cap q.horizon = {} /\ (q.ghost \cup q.horizon) \cap q.unrep = {}
    BY <1>5, <1>6 DEF Caches
  <2>2. Skipped(q) = q.exclude \cap q.utxos
    BY <1>1, <1>6 DEF Skipped, Cached
  <2> QED BY <2>1, <2>2 DEF Booked
<1>9. AtWork(i, q)
  <2>1. Core(q)
    <3>1. 0 \in 0..MaxRounds
      BY CoinAssumption
    <3>2. Core(r)
      BY <1>3, Zenon DEF AtWork
    <3> QED BY <1>4, <1>5, <1>6, <3>1, <3>2, Zenon DEF Core
  <2> QED BY <1>3, <1>6, <2>1, Zenon DEF AtWork
<1>10. CallOk(i, NextRound(i, q))
  BY <1>6, <1>8, <1>9, NextRoundOk
<1>11. \A j \in Calls : CallOk(j, call'[j])
  BY <1>7, <1>10, OneCallOk
<1> QED BY <1>2, <1>5, <1>11, Zenon DEF Kept

LEMMA FailOk == ASSUME Kept, Typed, NEW i \in Calls, ReadFails(i) PROVE Kept'
<1>1. /\ call[i].pc = "read" /\ call' = [call EXCEPT ![i] = Told(call[i], "VERIFY_UNAVAILABLE")]
      /\ ghostSeen' = ghostSeen /\ horizonSeen' = horizonSeen /\ unrepSeen' = unrepSeen
      /\ asks' = asks /\ restarts' = restarts
  BY Zenon DEF ReadFails, caches, world
<1>2. CallOk(i, Told(call[i], "VERIFY_UNAVAILABLE"))
  BY <1>1, PlainIs, PlainTold DEF Kept
<1> QED BY <1>1, <1>2, OneCallOk, Zenon DEF Kept

\* What a round books: of the selected coins, g, h and u got no proof, each in a class
\* of its own, and those of p did; s is the record it leaves.
Sorted(i, r, g, h, u, p, s) ==
    /\ i \in Calls /\ AtWork(i, r) /\ Chosen(i, r)
    /\ g \in SUBSET r.sel /\ h \in SUBSET r.sel /\ u \in SUBSET r.sel
    /\ g \cap h = {} /\ (g \cup h) \cap u = {}
    /\ p \in SUBSET {c \in Coins : Real[c] > 0}
    /\ s = [LeftOut(r, g, h, u) EXCEPT !.known = @ \cup p]
Sound(i, r, g, h, u, s) ==
    /\ AtWork(i, s) /\ Booked(s) /\ s.sel = r.sel /\ s.sel \in SUBSET s.utxos
    /\ Skipped(s) = Skipped(r) \cup g \cup h \cup u
    /\ g \cup h \cup u = {} => Chosen(i, s)

LEMMA LeftOutIs ==
    ASSUME NEW i, NEW r, NEW g, NEW h, NEW u, NEW p, NEW s, Sorted(i, r, g, h, u, p, s)
    PROVE  Sound(i, r, g, h, u, s)
<1>0. /\ AtWork(i, r) /\ Chosen(i, r)
      /\ g \in SUBSET r.sel /\ h \in SUBSET r.sel /\ u \in SUBSET r.sel
      /\ g \cap h = {} /\ (g \cup h) \cap u = {}
      /\ p \in SUBSET {c \in Coins : Real[c] > 0}
      /\ s = [LeftOut(r, g, h, u) EXCEPT !.known = @ \cup p]
  BY Zenon DEF Sorted
<1> DEFINE o == LeftOut(r, g, h, u)
<1>1. Core(r) /\ r.sel \in SUBSET Left(r) /\ Booked(r)
  BY <1>0, Zenon DEF AtWork, Chosen
<1>2. /\ r.utxos \in SUBSET Coins /\ r.exclude \in SUBSET Coins /\ r.sel \in SUBSET r.utxos
      /\ r.sel \cap r.exclude = {} /\ Shaped(r)
  BY <1>1 DEF Core, Left, spendableCoins
<1>3. /\ Shaped(o) /\ o.exclude = r.exclude \cup g \cup h \cup u
      /\ o.ghost = r.ghost \cup g /\ o.horizon = r.horizon \cup h /\ o.unrep = r.unrep \cup u
      /\ o.code = r.code /\ o.utxos = r.utxos /\ o.round = r.round /\ o.need = r.need
      /\ o.sel = r.sel /\ o.known = r.known /\ o.pass = r.pass /\ o.amount = r.amount /\ o.tx = r.tx
  BY <1>2, Zenon DEF LeftOut, Shaped, Fields
<1> HIDE DEF o
<1>4. /\ Shaped(s) /\ s.exclude = r.exclude \cup g \cup h \cup u
      /\ s.ghost = r.ghost \cup g /\ s.horizon = r.horizon \cup h /\ s.unrep = r.unrep \cup u
      /\ s.code = r.code /\ s.utxos = r.utxos /\ s.round = r.round /\ s.need = r.need
      /\ s.sel = r.sel /\ s.known = r.known \cup p
      /\ s.pass = r.pass /\ s.amount = r.amount /\ s.tx = r.tx
  <2>1. s = [o EXCEPT !.known = @ \cup p]
    BY <1>0 DEF o
  <2> QED BY <1>3, <2>1, Zenon DEF Shaped, Fields
<1>5. AtWork(i, s)
  <2>1. s.exclude \in SUBSET Coins /\ s.known \in SUBSET {c \in Coins : Real[c] > 0}
    <3>1. r.known \in SUBSET {c \in Coins : Real[c] > 0}
      BY <1>1 DEF Core
    <3>2. s.known = r.known \cup p /\ s.exclude = r.exclude \cup g \cup h \cup u
      BY <1>4, Zenon
    <3>3. /\ g \in SUBSET r.sel /\ h \in SUBSET r.sel /\ u \in SUBSET r.sel
          /\ p \in SUBSET {c \in Coins : Real[c] > 0}
      BY <1>0, Zenon
    <3> QED BY <1>2, <3>1, <3>2, <3>3
  <2>2. Core(s)
    BY <1>1, <1>4, <2>1, Zenon DEF Core
  <2> QED BY <1>0, <1>4, <2>2, Zenon DEF AtWork
<1>6. Skipped(s) = Skipped(r) \cup g \cup h \cup u
  <2>1. s.ghost = r.ghost \cup g /\ s.horizon = r.horizon \cup h /\ s.unrep = r.unrep \cup u
    BY <1>4, Zenon
  <2> QED BY <2>1 DEF Skipped
<1>7. Booked(s)
  <2>1. /\ Skipped(r) = r.exclude \cap r.utxos
        /\ r.ghost \cap r.horizon = {} /\ (r.ghost \cup r.horizon) \cap r.unrep = {}
        /\ r.ghost \in SUBSET r.exclude /\ r.horizon \in SUBSET r.exclude /\ r.unrep \in SUBSET r.exclude
    BY <1>1 DEF Booked, Skipped
  <2>2. /\ s.ghost = r.ghost \cup g /\ s.horizon = r.horizon \cup h /\ s.unrep = r.unrep \cup u
        /\ s.utxos = r.utxos /\ s.exclude = r.exclude \cup g \cup h \cup u
    BY <1>4, Zenon
  <2>0. /\ g \in SUBSET r.sel /\ h \in SUBSET r.sel /\ u \in SUBSET r.sel
        /\ g \cap h = {} /\ (g \cup h) \cap u = {}
    BY <1>0, Zenon
  <2>3. Skipped(s) = s.exclude \cap s.utxos
    BY <1>2, <1>6, <2>1, <2>2, <2>0
  <2>4. s.ghost \cap s.horizon = {} /\ (s.ghost \cup s.horizon) \cap s.unrep = {}
    BY <1>2, <2>1, <2>2, <2>0
  <2> QED BY <2>3, <2>4, Zenon DEF Booked
<1>8. ASSUME g \cup h \cup u = {} PROVE Chosen(i, s)
  <2>1. s.exclude = r.exclude /\ s.utxos = r.utxos /\ s.sel = r.sel /\ s.need = r.need
    <3>1. s.exclude = r.exclude
      <4>1. s.exclude = r.exclude \cup g \cup h \cup u
        BY <1>4, Zenon
      <4> QED BY <1>8, <4>1
    <3> QED BY <1>4, <3>1, Zenon
  <2>2. Left(s) = Left(r)
    BY <2>1, Zenon DEF Left
  <2> QED BY <1>0, <1>7, <2>1, <2>2, Zenon DEF Chosen
<1>9. s.sel = r.sel /\ s.utxos = r.utxos
  BY <1>4, Zenon
<1>10. s.sel \in SUBSET s.utxos
  BY <1>2, <1>9, Zenon
<1> QED BY <1>5, <1>6, <1>7, <1>8, <1>9, <1>10, Zenon DEF Sound

\* Each coin stays in one cache at most, whichever of them is cleared.
LEMMA CachesKeep ==
    ASSUME Kept, NEW g \in SUBSET Coins, NEW h \in SUBSET Coins, NEW u \in SUBSET Coins,
           g \cap h = {}, (g \cup h) \cap u = {}
    PROVE  Caches(Filed(Forget(ghostSeen, h \cup u), g), Filed(Forget(horizonSeen, g \cup u), h),
                  Filed(Forget(unrepSeen, g \cup h), u))
<1> DEFINE G == Forget(ghostSeen, h \cup u)
           H == Forget(horizonSeen, g \cup u)
           U == Forget(unrepSeen, g \cup h)
<1>1. /\ G \in SUBSET Coins /\ H \in SUBSET Coins /\ U \in SUBSET Coins
      /\ (G \cup g) \cap (H \cup h) = {} /\ ((G \cup g) \cup (H \cup h)) \cap (U \cup u) = {}
  BY DEF Kept, Caches, Forget
<1> HIDE DEF G, H, U
<1>2. /\ Filed(G, g) \in SUBSET (G \cup g) /\ Filed(H, h) \in SUBSET (H \cup h)
      /\ Filed(U, u) \in SUBSET (U \cup u)
  BY <1>1, FiledIs
<1> QED BY <1>1, <1>2 DEF Caches, G, H, U

\* Every combination of verdicts ends the call, signs, or leaves it a booked next round.
LEMMA VerifyOk == ASSUME Kept, Typed, NEW i \in Calls, Verify(i) PROVE Kept'
<1> DEFINE r == call[i]
           Of(v, k) == {c \in DOMAIN v : v[c] = k}
           g(v) == Of(v, "notfound")
           h(v) == Of(v, "horizon")
           u(v) == IF h(v) = {} THEN Of(v, "unrep") ELSE {}
           s(v) == [LeftOut(r, g(v), h(v), u(v)) EXCEPT !.known = @ \cup Of(v, "value")]
           code(v) == IF Of(v, "tamper") # {} THEN "VERIFY_TAMPER" ELSE "VERIFY_UNAVAILABLE"
<1>1. PICK v \in [r.sel \ r.known -> Verdicts] :
         /\ \A c \in DOMAIN v : v[c] \in Answers[c]
         /\ IF Of(v, "tamper") \cup Of(v, "transient") # {}
            THEN /\ call' = [call EXCEPT ![i] = Told(r, code(v))]
                 /\ UNCHANGED caches
            ELSE /\ ghostSeen' = Filed(Forget(ghostSeen, h(v) \cup u(v)), g(v))
                 /\ horizonSeen' = Filed(Forget(horizonSeen, g(v) \cup u(v)), h(v))
                 /\ unrepSeen' = Filed(Forget(unrepSeen, g(v) \cup h(v)), u(v))
                 /\ call' = [call EXCEPT ![i] = IF g(v) \cup h(v) \cup u(v) = {} THEN Proved(i, s(v))
                                                ELSE NextRound(i, s(v))]
  BY Zenon DEF Verify
<1>2. call[i].pc = "verify" /\ asks' = asks /\ restarts' = restarts
  BY DEF Verify, world
<1>3. AtWork(i, r) /\ Chosen(i, r) /\ CallOk(i, r)
  BY <1>2, PcIs DEF Kept
<1>4. DOMAIN v = r.sel \ r.known /\ r.sel \in SUBSET Coins /\ r.known \in SUBSET {c \in Coins : Real[c] > 0}
  BY <1>3 DEF AtWork, Core, Chosen, Left, spendableCoins
<1>5. CASE Of(v, "tamper") \cup Of(v, "transient") # {}
  <2>1. /\ call' = [call EXCEPT ![i] = Told(r, code(v))]
        /\ ghostSeen' = ghostSeen /\ horizonSeen' = horizonSeen /\ unrepSeen' = unrepSeen
    BY <1>1, <1>5, Zenon DEF caches
  <2>2. code(v) \in Plain
    BY PlainIs
  <2>3. CallOk(i, Told(r, code(v)))
    <3> HIDE DEF code
    <3> QED BY <1>2, <1>3, <2>2, PlainTold
  <2> HIDE DEF code
  <2>4. \A j \in Calls : CallOk(j, call'[j])
    BY <2>1, <2>3, OneCallOk, Zenon
  <2> QED BY <1>2, <2>1, <2>4, Zenon DEF Kept
<1>6. CASE Of(v, "tamper") \cup Of(v, "transient") = {}
  <2>1. /\ ghostSeen' = Filed(Forget(ghostSeen, h(v) \cup u(v)), g(v))
        /\ horizonSeen' = Filed(Forget(horizonSeen, g(v) \cup u(v)), h(v))
        /\ unrepSeen' = Filed(Forget(unrepSeen, g(v) \cup h(v)), u(v))
        /\ call' = [call EXCEPT ![i] = IF g(v) \cup h(v) \cup u(v) = {} THEN Proved(i, s(v))
                                       ELSE NextRound(i, s(v))]
    <3> HIDE DEF g, h, u, s, code, Of
    <3> QED BY <1>1, <1>6, Zenon
  <2>2. /\ g(v) \in SUBSET r.sel /\ h(v) \in SUBSET r.sel /\ u(v) \in SUBSET r.sel
        /\ g(v) \cap h(v) = {} /\ (g(v) \cup h(v)) \cap u(v) = {}
    BY <1>4
  <2>3. Of(v, "value") \in SUBSET {c \in Coins : Real[c] > 0}
    BY <1>1, <1>4, CoinAssumption
  <2>4. ASSUME g(v) \cup h(v) \cup u(v) = {}
        PROVE  \A c \in r.sel : c \in r.known \/ c \in Of(v, "value")
    BY <1>1, <1>4, <1>6, <2>4 DEF Verdicts
  <2> DEFINE G == g(v)
             H == h(v)
             U == u(v)
             P == Of(v, "value")
             S == [LeftOut(r, G, H, U) EXCEPT !.known = @ \cup P]
  <2>5. s(v) = S
    OBVIOUS
  <2>6. /\ G \in SUBSET r.sel /\ H \in SUBSET r.sel /\ U \in SUBSET r.sel
        /\ G \cap H = {} /\ (G \cup H) \cap U = {} /\ P \in SUBSET {c \in Coins : Real[c] > 0}
        /\ G \cup H \cup U = {} => \A c \in r.sel : c \in r.known \/ c \in P
    BY <2>2, <2>3, <2>4
  <2>7. call' = [call EXCEPT ![i] = IF G \cup H \cup U = {} THEN Proved(i, S) ELSE NextRound(i, S)]
    BY <2>1, <2>5, Zenon
  <2>8. /\ ghostSeen' = Filed(Forget(ghostSeen, H \cup U), G)
        /\ horizonSeen' = Filed(Forget(horizonSeen, G \cup U), H)
        /\ unrepSeen' = Filed(Forget(unrepSeen, G \cup H), U)
    BY <2>1, Zenon
  <2> HIDE DEF G, H, U, P, r
  <2>0. S = [LeftOut(r, G, H, U) EXCEPT !.known = @ \cup P]
    OBVIOUS
  <2> HIDE DEF S
  <2>9. /\ AtWork(i, S) /\ Booked(S) /\ S.sel = r.sel /\ S.sel \in SUBSET S.utxos
        /\ Skipped(S) = Skipped(r) \cup G \cup H \cup U
        /\ G \cup H \cup U = {} => Chosen(i, S)
    <3>1. Sorted(i, r, G, H, U, P, S)
      BY <1>3, <2>6, <2>0, Zenon DEF Sorted
    <3>2. Sound(i, r, G, H, U, S)
      BY <3>1, LeftOutIs
    <3> QED BY <3>2, Zenon DEF Sound
  <2>10. ASSUME G \cup H \cup U = {} PROVE CallOk(i, Proved(i, S))
    <3>1. \A c \in S.sel : Real[c] > 0
      BY <1>4, <2>6, <2>9, <2>10
    <3> QED BY <2>9, <2>10, <3>1, ProvedOk
  <2>11. ASSUME G \cup H \cup U # {} PROVE CallOk(i, NextRound(i, S))
    <3>1. Skipped(S) # {}
      BY <2>9, <2>11
    <3> QED BY <2>9, <3>1, NextRoundOk
  <2>12. \A j \in Calls : CallOk(j, call'[j])
    <3>1. CASE G \cup H \cup U = {}
      <4>1. call' = [call EXCEPT ![i] = Proved(i, S)]
        BY <2>7, <3>1, Zenon
      <4> QED BY <2>10, <3>1, <4>1, OneCallOk
    <3>2. CASE G \cup H \cup U # {}
      <4>1. call' = [call EXCEPT ![i] = NextRound(i, S)]
        BY <2>7, <3>2, Zenon
      <4> QED BY <2>11, <3>2, <4>1, OneCallOk
    <3> QED BY <3>1, <3>2
  <2>13. Caches(ghostSeen', horizonSeen', unrepSeen')
    <3>1. G \in SUBSET Coins /\ H \in SUBSET Coins /\ U \in SUBSET Coins
      BY <1>4, <2>6
    <3>2. G \cap H = {} /\ (G \cup H) \cap U = {}
      BY <2>6
    <3> QED BY <2>8, <3>1, <3>2, CachesKeep, Zenon
  <2> QED BY <1>2, <2>12, <2>13, Zenon DEF Kept
<1> QED BY <1>5, <1>6

\* An answer, its loss and a dead worker end a call without blaming its coins.
LEMMA EndOk ==
    ASSUME Kept, Typed, NEW i \in Calls, call[i].pc \in {"read", "verify", "sent"}, NEW code \in Plain,
           call' = [call EXCEPT ![i] = Told(call[i], code)], UNCHANGED <<caches, asks, restarts>>
    PROVE  Kept'
<1>1. CallOk(i, Told(call[i], code))
  BY PlainTold, Zenon DEF Kept
<1>2. \A j \in Calls : CallOk(j, call'[j])
  BY <1>1, OneCallOk
<1> QED BY <1>2, Zenon DEF Kept, caches

LEMMA AnsweredOk == ASSUME Kept, Typed, NEW i \in Calls, Answered(i) PROVE Kept'
<1>1. /\ call[i].pc \in {"read", "verify", "sent"} /\ UNCHANGED <<caches, asks, restarts>>
      /\ call' = [call EXCEPT ![i] = Told(call[i], Class(reply[i]))]
  BY Zenon DEF Answered, world
<1>2. Class(reply[i]) \in {"SENT", "SUBMIT_DUPLICATE", "SUBMIT_REJECTED"}
  BY Zenon DEF Class
<1> QED BY <1>1, <1>2, PlainIs, EndOk

LEMMA LostOk == ASSUME Kept, Typed, NEW i \in Calls, AnswerLost(i) PROVE Kept'
<1>1. /\ call[i].pc \in {"read", "verify", "sent"} /\ UNCHANGED <<caches, asks, restarts>>
      /\ call' = [call EXCEPT ![i] = Told(call[i], Ambiguous)]
  BY Zenon DEF AnswerLost, world
<1> QED BY <1>1, PlainIs, EndOk

LEMMA RestartOk == ASSUME Kept, Restart PROVE Kept'
<1>1. ASSUME NEW i \in Calls PROVE CallOk(i, call'[i])
  <2>1. CallOk(i, call[i]) /\ call'[i] = IF call[i].pc \in {"read", "verify", "sent"}
                                         THEN Told(call[i], "CHANNEL") ELSE call[i]
    BY Zenon DEF Restart, Kept
  <2>2. CASE call[i].pc \in {"read", "verify", "sent"}
    <3>1. call'[i] = Told(call[i], "CHANNEL")
      BY <2>1, <2>2, Zenon
    <3>2. "CHANNEL" \in Plain
      BY PlainIs
    <3> QED BY <2>1, <2>2, <3>1, <3>2, PlainTold
  <2>3. CASE call[i].pc \notin {"read", "verify", "sent"}
    BY <2>1, <2>3, Zenon
  <2> QED BY <2>2, <2>3
<1>2. Caches(ghostSeen', horizonSeen', unrepSeen')
  <2>1. ghostSeen' = {} /\ horizonSeen' = {} /\ unrepSeen' = {}
    BY DEF Restart
  <2> QED BY <2>1 DEF Caches
<1>3. asks' = asks /\ restarts' \in 0..MaxRestarts
  <2>1. restarts < MaxRestarts /\ restarts' = restarts + 1 /\ asks' = asks /\ restarts \in 0..MaxRestarts
    BY Zenon DEF Restart, Kept
  <2> QED BY <2>1, CoinAssumption
<1> QED BY <1>1, <1>2, <1>3, Zenon DEF Kept

LEMMA QuietOk == ASSUME Kept, UNCHANGED <<call, caches, asks, restarts>> PROVE Kept'
  BY Zenon DEF Kept, caches

LEMMA FreshOk == Init => Kept
<1> SUFFICES ASSUME Init PROVE Kept
  OBVIOUS
<1>1. \A i \in Calls : CallOk(i, call[i])
  BY Zenon DEF Init, CallOk
<1>2. Caches(ghostSeen, horizonSeen, unrepSeen) /\ asks \in 0..MaxAsks /\ restarts \in 0..MaxRestarts
  <2>1. ghostSeen = {} /\ horizonSeen = {} /\ unrepSeen = {} /\ asks = 0 /\ restarts = 0
    BY Zenon DEF Init
  <2> QED BY <2>1, CoinAssumption DEF Caches
<1> QED BY <1>1, <1>2 DEF Kept

LEMMA StepOk == Kept /\ Fate /\ [Next]_vars => Kept'
<1> SUFFICES ASSUME Kept, Fate, [Next]_vars PROVE Kept'
  OBVIOUS
<1>1. Typed
  BY DEF Fate
<1>2. CASE UNCHANGED vars
  BY <1>2, QuietOk, Zenon DEF vars, caches
<1>3. ASSUME NEW t \in pool, Mine(t) PROVE Kept'
  BY <1>3, QuietOk, Zenon DEF Mine, world
<1>4. CASE Restart
  BY <1>4, RestartOk
<1>5. ASSUME NEW i \in Calls, Arrive(i) PROVE Kept'
  BY <1>5, QuietOk, Zenon DEF Arrive, world
<1>6. ASSUME NEW i \in Calls, Bounced(i) PROVE Kept'
  BY <1>6, QuietOk, Zenon DEF Bounced, world
<1>7. ASSUME NEW i \in Calls,
             Ask(i) \/ ReadCoins(i) \/ ReadFails(i) \/ Verify(i) \/ Answered(i) \/ AnswerLost(i)
      PROVE  Kept'
  BY <1>1, <1>7, AskOk, ReadOk, FailOk, VerifyOk, AnsweredOk, LostOk
<1> QED BY <1>2, <1>3, <1>4, <1>5, <1>6, <1>7 DEF Next

\* The properties, from what every state keeps.
LEMMA KeptIsTyped == Kept /\ Typed => TypeOK
<1> SUFFICES ASSUME Kept, Typed PROVE TypeOK
  OBVIOUS
<1>1. ASSUME NEW i \in Calls
      PROVE  LET r == call[i] IN
             /\ r.pc \in {"idle", "read", "verify", "sent", "told"}
             /\ r.code \in Codes \cup {""} /\ (r.pc = "told" <=> r.code # "")
             /\ r.sel \subseteq r.utxos /\ r.utxos \subseteq Coins /\ r.exclude \subseteq Coins
             /\ r.round \in 0..MaxRounds /\ r.need \in Nat /\ r.amount \in Nat
  <2> DEFINE r == call[i]
  <2>1. CallOk(i, r)
    BY DEF Kept
  <2> HIDE DEF r
  <2>2. r.pc \in {"idle", "read", "verify", "sent", "told"} /\ (r.pc = "idle" => r = Fresh)
    BY <2>1, PcIs, Zenon
  <2>3. Basic(r)
    <3>1. CASE r.pc = "idle"
      BY <2>2, <3>1, FreshBasic, Zenon
    <3>2. CASE r.pc = "read"
      BY <2>1, <3>2, PcIs, Zenon DEF AtWork, Basic
    <3>3. CASE r.pc = "verify"
      <4>1. Core(r) /\ r.sel \in SUBSET Left(r)
        BY <2>1, <3>3, PcIs, Zenon DEF AtWork, Chosen
      <4> QED BY <4>1 DEF Basic, Left, spendableCoins
    <3>4. CASE r.pc \in {"sent", "told"}
      BY <2>1, <3>4, PcIs, Zenon
    <3> QED BY <2>2, <3>1, <3>2, <3>3, <3>4
  <2>4. /\ r.pc = "told" => r.code \in Codes
        /\ r.pc # "told" => r.code = ""
    <3>1. Fresh.code = ""
      BY FreshShaped
    <3>2. r.pc = "told" => r.code \in Codes
      BY <2>1, PcIs, Zenon
    <3>3. r.pc # "told" => r.code = ""
      BY <2>1, <3>1, Zenon DEF CallOk, AtWork
    <3> QED BY <3>2, <3>3, Zenon
  <2>5. "" \notin Codes
    BY Zenon DEF Codes, Nothing, Maybe, CoinCodes
  <2>6. r.code \in Codes \cup {""} /\ (r.pc = "told" <=> r.code # "")
    BY <2>2, <2>4, <2>5, Zenon
  <2>7. /\ r.sel \subseteq r.utxos /\ r.utxos \subseteq Coins /\ r.exclude \subseteq Coins
        /\ r.round \in 0..MaxRounds /\ r.need \in Nat /\ r.amount \in Nat
    BY <2>3 DEF Basic, Core
  <2> QED BY <2>2, <2>6, <2>7, Zenon DEF r
<1>2. /\ ghostSeen \subseteq Coins /\ horizonSeen \subseteq Coins /\ unrepSeen \subseteq Coins
      /\ ghostSeen \cap horizonSeen = {} /\ (ghostSeen \cup horizonSeen) \cap unrepSeen = {}
      /\ asks \in 0..MaxAsks /\ restarts \in 0..MaxRestarts
  BY DEF Kept, Caches
<1>3. wire \subseteq Calls /\ reply \in [Calls -> {"", "ok", "duplicate", "conflict"}]
  BY Zenon DEF Typed
<1>4. landed \in [Calls -> Nat]
  <2>1. landed \in [Calls -> {0, 1}]
    BY Zenon DEF Typed
  <2> QED BY <2>1
<1> QED BY <1>1, <1>2, <1>3, <1>4, Zenon DEF TypeOK

LEMMA KeptPays == Kept => PaysExactly
<1> SUFFICES ASSUME Kept, NEW i \in Calls, call[i].tx # NoTx PROVE Exact(call[i].tx)
  BY Zenon DEF PaysExactly, Signed, Exact
<1>1. CallOk(i, call[i]) /\ Fresh.tx = NoTx
  BY FreshBasic DEF Kept
<1> QED BY <1>1, Zenon DEF CallOk, AtWork

LEMMA KeptIsTrue == Kept => RefusalsAreTrue
<1> SUFFICES ASSUME Kept, NEW i \in Calls, call[i].pc = "told", Kind[i] # "merge"
             PROVE  True(call[i].code, call[i])
  BY Zenon DEF RefusalsAreTrue, True, Booked, Skipped, Left
<1>1. CallOk(i, call[i])
  BY DEF Kept
<1> QED BY <1>1, PcIs

LEMMA KeptIsReal == Kept => MaxIsReal
<1> SUFFICES ASSUME Kept, NEW i \in Calls PROVE Affordable(i, call[i])
  BY Zenon DEF MaxIsReal, Affordable
<1> DEFINE r == call[i]
<1>1. CallOk(i, r)
  BY DEF Kept
<1> HIDE DEF r
<1>2. Affordable(i, r)
  <2>1. CASE r.pc = "told"
    BY <1>1, <2>1, PcIs
  <2>2. CASE r.pc # "told"
    <3>1. r.amount = 0
      BY <1>1, <2>2, FreshBasic, Zenon DEF CallOk, AtWork
    <3> QED BY <3>1 DEF Affordable
  <2> QED BY <2>1, <2>2
<1> QED BY <1>2 DEF r

\* What is signed spends coins that exist, at the value their sources commit to, within
\* the caps and to the unit, and a refusal that blames the coins is true of the coins
\* the call was shown: whatever the node lists, answers, loses or repeats, however the
\* calls interleave and the worker dies (node.ts selectVerified, assembleValueTx,
\* consolidate, verifyInputValues).
THEOREM EngineIsExact == Spec => []EngineInv
<1>1. Init => Kept /\ Fate
  BY FreshOk, InitKeeps
<1>2. Kept /\ Fate /\ [Next]_vars => (Kept /\ Fate)'
  BY StepOk, StepKeeps
<1>3. Kept /\ Fate => EngineInv
  BY KeptIsTyped, KeptPays, KeptIsTrue DEF Fate, EngineInv
<1> QED BY <1>1, <1>2, <1>3, PTL DEF Spec

\* The figure Max shows can be paid, with its fee, by coins that exist and fit one
\* transaction, whatever the node reported between the two passes (node.ts maxSendable).
THEOREM MaxCanBePaid == Spec => []MaxIsReal
<1>1. Init => Kept /\ Fate
  BY FreshOk, InitKeeps
<1>2. Kept /\ Fate /\ [Next]_vars => (Kept /\ Fate)'
  BY StepOk, StepKeeps
<1> QED BY <1>1, <1>2, KeptIsReal, PTL DEF Spec
=============================================================================
