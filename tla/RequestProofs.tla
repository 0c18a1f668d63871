---------------------------- MODULE RequestProofs -----------------------------
(***************************************************************************)
(* What a page's request meets before it is answered: the preflight of a   *)
(* fill, for any market, offer, reservations, chain and answers of the     *)
(* node, and the consent of the site, for any sites, accounts and calls.   *)
(*                                                                         *)
(* The preflight: a fill that pays a hold delivers, a definite refusal is  *)
(* true, and verified tips are not forgotten.  Three things carry it.      *)
(* resolve is a fold over a set of events, the highest block last, so the  *)
(* state after a block follows from the state before it (NextBlock), and   *)
(* what a block may change is bounded (Later).  The window the wallet      *)
(* replays gives the reservation it asks about the same hold as the whole  *)
(* chain does, once the holds before the window are counted (WindowLike,   *)
(* WindowGrant).  What the wallet has checked stays so as blocks are mined *)
(* and as shallow reorganisations undo them: nothing it relies on is in a  *)
(* block that can still be undone (FirmStays, CheckedStays, SignedStays,   *)
(* LostStays).  There is one lemma per action.                             *)
(*                                                                         *)
(* The consents: what sites know and what the store holds was approved,    *)
(* and no write brings back a site that was removed.  A grant, waiting or  *)
(* running, is of an approval (GivenInv), and only the head of             *)
(* consentChain has read the map, so what it read is still what is stored  *)
(* when it writes (ChainInv).                                              *)
(***************************************************************************)
EXTENDS FillPreflight, SiteConsent, TLAPS, SequenceTheorems, FiniteSetTheorems, FunctionTheorems, WellFoundedInduction

-----------------------------------------------------------------------------
(* Folds over the subsets of a finite set *)

\* A non-empty family of subsets of a finite set has a smallest member.
LEMMA SmallestSet ==
    ASSUME NEW S, IsFiniteSet(S), NEW B \in SUBSET SUBSET S, B # {}
    PROVE  \E T \in B : \A U \in B : U \subseteq T => U = T
<1>1. IsWellFoundedOn(StrictSubsetOrdering(S), SUBSET S)
  BY FS_StrictSubsetOrderingWellFounded, FS_FiniteSubsetsOfFinite
<1>2. \E T \in B : \A U \in B : <<U, T>> \notin StrictSubsetOrdering(S)
  BY <1>1, WFMin
<1> QED BY <1>2 DEF StrictSubsetOrdering

\* g is a fold over the subsets of T: step on the chosen member and the fold of the rest.
FoldsOn(g, T, base, step, choice) ==
    \A s \in SUBSET T :
       g[s] = IF s = {} THEN base ELSE step[<<choice[s], g[s \ {choice[s]}]>>]
Chooses(choice, S) == \A s \in SUBSET S : s # {} => choice[s] \in s

\* Two folds of the same step agree: a smallest set they differ on has no member.
LEMMA FoldUnique ==
    ASSUME NEW S, IsFiniteSet(S), NEW base, NEW step, NEW choice, Chooses(choice, S),
           NEW g, NEW h, FoldsOn(g, S, base, step, choice), FoldsOn(h, S, base, step, choice)
    PROVE  \A s \in SUBSET S : g[s] = h[s]
<1> DEFINE B == {s \in SUBSET S : g[s] # h[s]}
<1> SUFFICES ASSUME B # {} PROVE FALSE
  OBVIOUS
<1>1. PICK s \in B : \A u \in B : u \subseteq s => u = s
  <2>1. B \in SUBSET SUBSET S /\ IsFiniteSet(S)
    OBVIOUS
  <2> HIDE DEF B
  <2> QED BY <2>1, SmallestSet
<1>2. s # {}
  BY DEF FoldsOn
<1>3. s \ {choice[s]} \in SUBSET S /\ s \ {choice[s]} # s
  BY <1>2 DEF Chooses
<1>4. g[s \ {choice[s]}] = h[s \ {choice[s]}]
  BY <1>1, <1>3
<1> QED BY <1>2, <1>4 DEF FoldsOn

\* There is one, with values where the step keeps them.
LEMMA FoldExists ==
    ASSUME NEW S, IsFiniteSet(S), NEW V, NEW base \in V, NEW step \in [S \X V -> V],
           NEW choice, Chooses(choice, S)
    PROVE  \E g \in [SUBSET S -> V] : FoldsOn(g, S, base, step, choice)
<1> DEFINE Fold(T) == {g \in [SUBSET T -> V] : FoldsOn(g, T, base, step, choice)}
           B == {T \in SUBSET S : Fold(T) = {}}
<1> SUFFICES ASSUME B # {} PROVE FALSE
  OBVIOUS
<1>1. PICK T \in B : \A U \in B : U \subseteq T => U = T
  <2>1. B \in SUBSET SUBSET S /\ IsFiniteSet(S)
    OBVIOUS
  <2> HIDE DEF B
  <2> QED BY <2>1, SmallestSet
<1> DEFINE of(U) == CHOOSE g : g \in Fold(U)
           rest(s) == s \ {choice[s]}
           h == [s \in SUBSET T |-> IF s = {} THEN base ELSE step[<<choice[s], of(rest(s))[rest(s)]>>]]
<1>2. \A U \in SUBSET T : U # T => of(U) \in Fold(U)
  BY <1>1
<1>3. \A s \in SUBSET T : s # {} => choice[s] \in s /\ rest(s) \in SUBSET s /\ rest(s) # T
  BY DEF Chooses
<1> HIDE DEF of
<1>4. \A s \in SUBSET T : s # {} => of(rest(s))[rest(s)] \in V
  <2> SUFFICES ASSUME NEW s \in SUBSET T, s # {} PROVE of(rest(s))[rest(s)] \in V
    OBVIOUS
  <2>1. of(rest(s)) \in [SUBSET rest(s) -> V]
    BY <1>2, <1>3
  <2> QED BY <2>1
<1>5. h \in [SUBSET T -> V]
  <2> SUFFICES ASSUME NEW s \in SUBSET T, s # {}
               PROVE step[<<choice[s], of(rest(s))[rest(s)]>>] \in V
    OBVIOUS
  <2>1. choice[s] \in S
    BY <1>3
  <2> QED BY <1>4, <2>1
<1>6. \A s \in SUBSET T : s # T => h[s] = of(s)[s]
  <2> SUFFICES ASSUME NEW s \in SUBSET T, s # T PROVE h[s] = of(s)[s]
    OBVIOUS
  <2>1. FoldsOn(of(s), s, base, step, choice)
    BY <1>2
  <2>2. CASE s = {}
    BY <2>1, <2>2 DEF FoldsOn
  <2>3. CASE s # {}
    <3> DEFINE u == rest(s)
    <3>1. u \in SUBSET s /\ u # T /\ u \in SUBSET T /\ u \in SUBSET S
      BY <1>3, <2>3
    <3>2. FoldsOn(of(u), u, base, step, choice) /\ FoldsOn(of(s), u, base, step, choice)
      BY <1>2, <2>1, <3>1 DEF FoldsOn
    <3>3. IsFiniteSet(u) /\ Chooses(choice, u)
      BY <3>1, FS_Subset DEF Chooses
    <3>4. of(u)[u] = of(s)[u]
      <4> HIDE DEF u
      <4> QED BY <3>2, <3>3, FoldUnique
    <3>5. h[s] = step[<<choice[s], of(u)[u]>>]
      BY <2>3
    <3>6. of(s)[s] = step[<<choice[s], of(s)[u]>>]
      BY <2>1, <2>3 DEF FoldsOn
    <3> QED BY <3>4, <3>5, <3>6
  <2> QED BY <2>2, <2>3
<1>7. FoldsOn(h, T, base, step, choice)
  <2> SUFFICES ASSUME NEW s \in SUBSET T
               PROVE  h[s] = IF s = {} THEN base ELSE step[<<choice[s], h[rest(s)]>>]
    BY DEF FoldsOn
  <2>1. CASE s = {}
    BY <2>1
  <2>2. CASE s # {}
    <3>1. h[s] = step[<<choice[s], of(rest(s))[rest(s)]>>]
      BY <2>2
    <3>2. rest(s) \in SUBSET T /\ rest(s) # T
      BY <1>3, <2>2
    <3> HIDE DEF h, rest
    <3> QED BY <1>6, <2>2, <3>1, <3>2
  <2> QED BY <2>1, <2>2
<1> QED BY <1>1, <1>5, <1>7

-----------------------------------------------------------------------------
(* Induction over the subsets of a finite set *)

\* What holds of the empty set, and of a set when it holds of the set without the member
\* chosen in it, holds of every subset: a smallest exception has a member to take away.
LEMMA SubsetsAll ==
    ASSUME NEW S, IsFiniteSet(S), NEW Good \in SUBSET SUBSET S, {} \in Good,
           NEW choice, Chooses(choice, S),
           \A T \in SUBSET S : T # {} /\ T \ {choice[T]} \in Good => T \in Good
    PROVE  Good = SUBSET S
<1> DEFINE B == (SUBSET S) \ Good
<1> SUFFICES ASSUME B # {} PROVE FALSE
  OBVIOUS
<1>1. PICK T \in B : \A U \in B : U \subseteq T => U = T
  <2>1. B \in SUBSET SUBSET S /\ IsFiniteSet(S)
    OBVIOUS
  <2> HIDE DEF B
  <2> QED BY <2>1, SmallestSet
<1>2. T # {} /\ choice[T] \in T
  BY DEF Chooses
<1>3. T \ {choice[T]} \in B
  BY <1>2
<1> QED BY <1>1, <1>2, <1>3

-----------------------------------------------------------------------------
(* resolve, event by event *)

Whos == {Me, Rival, Alt, NoOne}
Kinds == {"fclaim", "other", "cancel", "fill"}
EventSet == [id : Nat, h : Nat, k : Kinds, who : Whos, e : Nat, f : Nat,
             pays : Pays, quote : Quotes, sure : BOOLEAN, late : Nat]
StateSet == [market : Markets, status : {"open", "cancelled", "filled"}, by : Whos, until : Nat, claim : Nat,
             granted : SUBSET Nat, others : SUBSET [id : Nat, who : Whos, until : Nat], applied : SUBSET Nat]
\* A set of events, one a block.
Log(S) == /\ S \in SUBSET EventSet /\ IsFiniteSet(S)
          /\ \A a, b \in S : a.h = b.h => a = b
Rest(S) == S \ {Latest(S)}

LEMMA Numbers ==
    /\ EPOCH_LEN \in Nat /\ EPOCH_LEN > 0 /\ MAX_ACTIVE_CLAIMS \in Nat /\ MAX_ACTIVE_CLAIMS > 0
    /\ FILL_TIP_MARGIN \in Nat /\ FILL_TIP_MARGIN > 0 /\ ClaimDepth \in Nat /\ ClaimDepth > 0
    /\ FCLAIM_MAX_EPOCH_AHEAD \in Nat /\ CLAIM_COOLDOWN_BLOCKS \in Nat /\ OfferExpiry \in Nat
    /\ {Sunset, RECORD_LAG_MARGIN, MaxLag, MaxTip, MaxEvents, MaxOthers, FirstFill, MaxFills, MaxReorgs} \subseteq Nat
  BY OfferAssumption, FillAssumption

LEMMA LatestIs ==
    ASSUME NEW S, Log(S), S # {}
    PROVE  /\ Latest(S) \in S /\ Latest(S) \in EventSet /\ \A ev \in S : ev.h <= Latest(S).h
           /\ \A ev \in Rest(S) : ev.h < Latest(S).h
           /\ Log(Rest(S))
<1> DEFINE Above(x) == {ev \in S : ev.h > x.h}
           B == {Above(x) : x \in S}
<1>1. \A ev \in S : ev \in EventSet /\ ev.h \in Nat
  BY DEF Log, EventSet
<1>2. PICK A \in B : \A U \in B : U \subseteq A => U = A
  <2>1. B \in SUBSET SUBSET S /\ B # {}
    OBVIOUS
  <2>2. IsFiniteSet(S)
    BY DEF Log
  <2> HIDE DEF B
  <2> QED BY <2>1, <2>2, SmallestSet
<1>3. PICK x \in S : A = Above(x)
  OBVIOUS
<1>4. \A y \in S : y.h <= x.h
  <2> SUFFICES ASSUME NEW y \in S, y.h > x.h PROVE FALSE
    BY <1>1
  <2>1. Above(y) \subseteq Above(x) /\ y \in Above(x) /\ y \notin Above(y)
    BY <1>1
  <2>2. Above(y) \in B
    OBVIOUS
  <2> QED BY <1>2, <1>3, <2>1, <2>2
<1>5. Latest(S) \in S /\ \A ev \in S : ev.h <= Latest(S).h
  BY <1>4 DEF Latest
<1>6. \A ev \in Rest(S) : ev.h < Latest(S).h
  BY <1>1, <1>5 DEF Log, Rest
<1>7. Log(Rest(S))
  BY FS_Subset DEF Log, Rest
<1> QED BY <1>1, <1>5, <1>6, <1>7

LEMMA SubLog == ASSUME NEW S, Log(S), NEW T \in SUBSET S PROVE Log(T)
  BY FS_Subset DEF Log

LEMMA UnclaimedIs == ASSUME NEW m \in Markets PROVE Unclaimed(m) \in StateSet
  BY DEF Unclaimed, StateSet, Whos

LEMMA ApplyTyped ==
    ASSUME NEW st \in StateSet, NEW ev \in EventSet
    PROVE  Apply(st, ev) \in StateSet
<1>1. fclaimHoldEnd(ev.e) + 1 \in Nat /\ ev.id \in Nat /\ ev.who \in Whos /\ ev.k \in Kinds
  BY Numbers DEF EventSet, fclaimHoldEnd
<1>2. applyFclaim(st, ev) \in StateSet
  BY <1>1 DEF applyFclaim, StateSet
<1>3. applyOther(st, ev) \in StateSet
  BY <1>1 DEF applyOther, StateSet
<1>4. applyCancel(st, ev) \in StateSet /\ applyFill(st, ev) \in StateSet
  BY <1>1 DEF applyCancel, applyFill, StateSet
<1> QED BY <1>1, <1>2, <1>3, <1>4 DEF Apply, Kinds

\* The fold of resolve over the subsets of a log.
Steps(g, m, S) == \A T \in SUBSET S : g[T] = IF T = {} THEN Unclaimed(m) ELSE Apply(g[Rest(T)], Latest(T))
Replayed(g, m, S) == g \in [SUBSET S -> StateSet] /\ Steps(g, m, S)

LEMMA Replay ==
    ASSUME NEW S, Log(S), NEW m \in Markets
    PROVE  \E g : Replayed(g, m, S)
<1> DEFINE step == [p \in S \X StateSet |-> Apply(p[2], p[1])]
           choice == [T \in SUBSET S |-> Latest(T)]
<1>1. S \in SUBSET EventSet /\ IsFiniteSet(S)
  BY DEF Log
<1>2. step \in [S \X StateSet -> StateSet]
  BY <1>1, ApplyTyped
<1>3. \A T \in SUBSET S : T # {} => Latest(T) \in T
  BY LatestIs, SubLog
<1>4. Chooses(choice, S)
  BY <1>3 DEF Chooses
<1>5. Unclaimed(m) \in StateSet
  BY UnclaimedIs
<1>6. PICK g \in [SUBSET S -> StateSet] : FoldsOn(g, S, Unclaimed(m), step, choice)
  <2> HIDE DEF step, choice
  <2> QED BY <1>1, <1>2, <1>4, <1>5, FoldExists
<1>7. ASSUME NEW T \in SUBSET S
      PROVE  g[T] = IF T = {} THEN Unclaimed(m) ELSE Apply(g[Rest(T)], Latest(T))
  <2>1. T = {} => g[T] = Unclaimed(m)
    BY <1>6 DEF FoldsOn
  <2>2. T # {} => g[T] = Apply(g[Rest(T)], Latest(T))
    <3> SUFFICES ASSUME T # {} PROVE g[T] = Apply(g[Rest(T)], Latest(T))
      OBVIOUS
    <3>1. Latest(T) \in S /\ Rest(T) \in SUBSET S
      BY <1>3 DEF Rest
    <3>2. g[Rest(T)] \in StateSet
      BY <3>1
    <3>3. g[T] = step[<<choice[T], g[T \ {choice[T]}]>>]
      <4> HIDE DEF step, choice
      <4> QED BY <1>6 DEF FoldsOn
    <3>4. g[T] = step[<<Latest(T), g[Rest(T)]>>]
      <4> HIDE DEF step
      <4> QED BY <3>3 DEF Rest
    <3> QED BY <3>1, <3>2, <3>4
  <2> QED BY <2>1, <2>2
<1> QED BY <1>6, <1>7 DEF Replayed, Steps

\* Two replays agree, also when one is over a larger log.
LEMMA ReplayUnique ==
    ASSUME NEW S, Log(S), NEW m, NEW g, NEW h, Steps(g, m, S), Steps(h, m, S)
    PROVE  \A T \in SUBSET S : g[T] = h[T]
<1> DEFINE Good == {T \in SUBSET S : g[T] = h[T]}
           choice == [T \in SUBSET S |-> Latest(T)]
<1>1. Chooses(choice, S)
  BY LatestIs, SubLog DEF Chooses
<1>2. \A T \in SUBSET S : T # {} /\ T \ {choice[T]} \in Good => T \in Good
  BY DEF Rest, Steps
<1>3. {} \in Good /\ Good \in SUBSET SUBSET S /\ IsFiniteSet(S)
  BY DEF Log, Steps
<1> HIDE DEF Good, choice
<1>4. Good = SUBSET S
  BY <1>1, <1>2, <1>3, SubsetsAll
<1> QED BY <1>4 DEF Good

LEMMA ResolveIs ==
    ASSUME NEW S, Log(S), NEW m \in Markets, NEW g, Replayed(g, m, S)
    PROVE  \A T \in SUBSET S : resolve(m, T) = g[T]
<1> SUFFICES ASSUME NEW T \in SUBSET S PROVE resolve(m, T) = g[T]
  OBVIOUS
<1> DEFINE Eq(h) == h = [s \in SUBSET T |-> IF s = {} THEN Unclaimed(m)
                                            ELSE Apply(h[s \ {Latest(s)}], Latest(s))]
           f == CHOOSE h : Eq(h)
           h0 == [s \in SUBSET T |-> g[s]]
<1>1. Log(T)
  BY SubLog
<1>2. \A s \in SUBSET T : s # {} => Rest(s) \in SUBSET T
  BY DEF Rest
<1>3. Steps(h0, m, T)
  BY <1>2 DEF Replayed, Steps
<1>4. Eq(h0)
  <2>1. h0 = [s \in SUBSET T |-> IF s = {} THEN Unclaimed(m) ELSE Apply(h0[Rest(s)], Latest(s))]
    BY <1>3 DEF Steps
  <2> HIDE DEF h0
  <2> QED BY <2>1 DEF Rest
<1>5. Eq(f)
  <2> HIDE DEF Eq
  <2> QED BY <1>4
<1>6. resolve(m, T) = f[T]
  BY DEF resolve, MapThenFoldSet
<1> HIDE DEF f
<1>7. Steps(f, m, T)
  BY <1>5 DEF Rest, Steps
<1> HIDE DEF Eq
<1>8. \A s \in SUBSET T : f[s] = h0[s]
  <2> HIDE DEF h0
  <2> QED BY <1>1, <1>3, <1>7, ReplayUnique
<1> QED BY <1>6, <1>8

LEMMA ResolveStep ==
    ASSUME NEW S, Log(S), NEW m \in Markets
    PROVE  /\ resolve(m, S) \in StateSet
           /\ S = {} => resolve(m, S) = Unclaimed(m)
           /\ S # {} => resolve(m, S) = Apply(resolve(m, Rest(S)), Latest(S))
<1>1. PICK g : Replayed(g, m, S)
  BY Replay
<1>2. \A T \in SUBSET S : resolve(m, T) = g[T]
  BY <1>1, ResolveIs
<1>3. S \in SUBSET S /\ Rest(S) \in SUBSET S
  BY DEF Rest
<1> QED BY <1>1, <1>2, <1>3 DEF Replayed, Steps

-----------------------------------------------------------------------------
(* Heights and epochs *)

LEMMA Max2 == ASSUME NEW a \in Int, NEW b \in Int
              PROVE  /\ Max({a, b}) = IF a >= b THEN a ELSE b
                     /\ Max({a, b}) \in Int /\ Max({a, b}) >= a /\ Max({a, b}) >= b
<1> DEFINE m == IF a >= b THEN a ELSE b
<1>1. m \in {a, b} /\ \A y \in {a, b} : m >= y
  OBVIOUS
<1>2. \A x \in {a, b} : (\A y \in {a, b} : x >= y) => x = m
  OBVIOUS
<1>3. Max({a, b}) = m
  BY <1>1, <1>2 DEF Max
<1> QED BY <1>1, <1>3

\* A property of heights that the next one inherits holds from any height on.
LEMMA Upwards ==
    ASSUME NEW a \in Nat, NEW Good \in SUBSET Nat, a \in Good,
           \A h \in Good : h >= a => h + 1 \in Good
    PROVE  \A h \in Nat : h >= a => h \in Good
<1> SUFFICES ASSUME NEW n \in Nat, n >= a, n \notin Good PROVE FALSE
  OBVIOUS
<1> DEFINE B == {a..k : k \in {i \in a..n : i \notin Good}}
<1>1. PICK A \in B : \A U \in B : U \subseteq A => U = A
  <2> DEFINE I == a..n
  <2>1. B \in SUBSET SUBSET I /\ B # {}
    <3>1. n \in {i \in a..n : i \notin Good}
      OBVIOUS
    <3> QED BY <3>1
  <2>2. IsFiniteSet(I)
    BY FS_Interval
  <2> HIDE DEF B, I
  <2> QED BY <2>1, <2>2, SmallestSet
<1>2. PICK k \in a..n : k \notin Good /\ A = a..k
  OBVIOUS
<1>3. k > a /\ k - 1 \in a..n
  BY <1>2
<1>4. k - 1 \notin Good
  BY <1>2, <1>3
<1>5. a..(k - 1) \in B
  BY <1>3, <1>4
<1>6. a..(k - 1) \subseteq a..k /\ k \in a..k /\ k \notin a..(k - 1)
  BY <1>2
<1> QED BY <1>1, <1>2, <1>5, <1>6

LEMMA Epochs ==
    ASSUME NEW h \in Nat, NEW e \in Nat
    PROVE  /\ epochOf(h) \in Nat /\ fclaimHoldEnd(e) \in Nat
           /\ epochOf(h) <= e <=> h <= fclaimHoldEnd(e)
           /\ e <= epochOf(h) + FCLAIM_MAX_EPOCH_AHEAD => fclaimHoldEnd(e) <= h + MAX_HOLD_SPAN
<1> DEFINE L == EPOCH_LEN  q == epochOf(h)
<1>1. L \in Nat /\ L > 0 /\ FCLAIM_MAX_EPOCH_AHEAD \in Nat
  BY Numbers
<1>2. q \in Nat /\ h >= L * q /\ h < L * q + L
  <2>1. q = h \div L
    BY DEF epochOf
  <2> HIDE DEF q, L
  <2>2. h \div L \in Int /\ h \div L >= 0
    BY <1>1
  <2>3. h >= L * (h \div L) /\ h < L * (h \div L) + L
    BY <1>1, SMT
  <2> QED BY <2>1, <2>2, <2>3
<1>3. fclaimHoldEnd(e) = L * e + L - 1
  BY <1>1 DEF fclaimHoldEnd
<1>4. L * e \in Nat /\ L * q \in Nat
  BY <1>1, <1>2
<1> HIDE DEF q, L
<1>5. q <= e => L * q <= L * e
  BY <1>1, <1>2
<1>6. q > e => L * q >= L * e + L
  <2> SUFFICES ASSUME q > e PROVE L * q >= L * e + L
    OBVIOUS
  <2>1. L * q >= L * (e + 1)
    BY <1>1, <1>2
  <2>2. L * (e + 1) = L * e + L
    BY <1>1
  <2> QED BY <2>1, <2>2
<1>7. e <= q + FCLAIM_MAX_EPOCH_AHEAD => L * e <= L * q + L * FCLAIM_MAX_EPOCH_AHEAD
  <2> SUFFICES ASSUME e <= q + FCLAIM_MAX_EPOCH_AHEAD PROVE L * e <= L * q + L * FCLAIM_MAX_EPOCH_AHEAD
    OBVIOUS
  <2>1. L * e <= L * (q + FCLAIM_MAX_EPOCH_AHEAD)
    BY <1>1, <1>2
  <2>2. L * (q + FCLAIM_MAX_EPOCH_AHEAD) = L * q + L * FCLAIM_MAX_EPOCH_AHEAD
    BY <1>1, <1>2
  <2> QED BY <2>1, <2>2
<1>8. MAX_HOLD_SPAN = L * FCLAIM_MAX_EPOCH_AHEAD + L - 1
  BY <1>1 DEF MAX_HOLD_SPAN, L
<1>9. L * FCLAIM_MAX_EPOCH_AHEAD \in Nat
  BY <1>1
<1>10. epochOf(h) = q
  BY DEF q
<1>11. epochOf(h) \in Nat /\ fclaimHoldEnd(e) \in Nat
  BY <1>1, <1>2, <1>3, <1>4, <1>10
<1>12. epochOf(h) <= e <=> h <= fclaimHoldEnd(e)
  BY <1>1, <1>2, <1>3, <1>4, <1>5, <1>6, <1>10
<1>13. e <= epochOf(h) + FCLAIM_MAX_EPOCH_AHEAD => fclaimHoldEnd(e) <= h + MAX_HOLD_SPAN
  BY <1>1, <1>2, <1>3, <1>4, <1>7, <1>8, <1>9, <1>10
<1> QED BY <1>11, <1>12, <1>13

-----------------------------------------------------------------------------
(* The offer, block by block *)

\* A log of the chain: ids are not reused, and the node admits a reservation up to so many epochs.
Reserves(ev, m) == /\ m = "open" /\ ev.who \in Buyers
                   /\ epochOf(ev.h) <= ev.e /\ ev.e <= epochOf(ev.h) + FCLAIM_MAX_EPOCH_AHEAD
Chain(S, m) ==
    /\ Log(S) /\ m \in Markets
    /\ \A ev \in S : ev.id > 0 /\ (ev.k \in {"fclaim", "other"} => Reserves(ev, m))
    /\ \A a, b \in S : a.id = b.id => a = b
Below(S, h) == {ev \in S : ev.h < h}
StateAt(S, m, h) == resolve(m, Below(S, h))

LEMMA SubChain == ASSUME NEW S, NEW m, Chain(S, m), NEW T \in SUBSET S PROVE Chain(T, m)
  BY SubLog DEF Chain

LEMMA StateStep ==
    ASSUME NEW S, NEW m \in Markets, Log(S), NEW h \in Nat
    PROVE  /\ StateAt(S, m, h) \in StateSet
           /\ (\A ev \in S : ev.h # h) => StateAt(S, m, h + 1) = StateAt(S, m, h)
           /\ \A ev \in S : ev.h = h => StateAt(S, m, h + 1) = Apply(StateAt(S, m, h), ev)
           /\ (\A ev \in S : ev.h >= h) => StateAt(S, m, h) = Unclaimed(m)
<1>1. Log(Below(S, h)) /\ Log(Below(S, h + 1))
  BY SubLog DEF Below
<1>2. \A ev \in S : ev.h \in Nat
  BY DEF Log, EventSet
<1>3. ASSUME \A ev \in S : ev.h # h PROVE Below(S, h + 1) = Below(S, h)
  BY <1>2, <1>3 DEF Below
<1>4. ASSUME NEW ev \in S, ev.h = h PROVE StateAt(S, m, h + 1) = Apply(StateAt(S, m, h), ev)
  <2> DEFINE T == Below(S, h + 1)
  <2>1. ev \in T /\ \A x \in T : x.h <= ev.h
    BY <1>2, <1>4 DEF Below
  <2>2. Latest(T) \in T /\ Latest(T).h >= ev.h
    BY <1>1, <2>1, LatestIs
  <2>3. Latest(T) = ev
    BY <1>2, <2>1, <2>2 DEF Log, Below
  <2>4. Rest(T) = Below(S, h)
    <3>1. \A x \in S : x.h \in Nat /\ (x.h = h => x = ev)
      BY <1>2, <1>4 DEF Log
    <3>2. \A x \in S : x.h < h + 1 /\ x # ev <=> x.h < h
      BY <1>4, <3>1
    <3> QED BY <2>3, <3>2 DEF Rest, Below
  <2> HIDE DEF T
  <2>5. resolve(m, T) = Apply(resolve(m, Rest(T)), Latest(T))
    BY <1>1, <2>1, ResolveStep DEF T
  <2> QED BY <2>3, <2>4, <2>5 DEF StateAt, T
<1>5. ASSUME \A ev \in S : ev.h >= h PROVE Below(S, h) = {}
  BY <1>2, <1>5 DEF Below
<1> QED BY <1>1, <1>3, <1>4, <1>5, ResolveStep DEF StateAt

\* What one event does.
Grants(st, ev, t) ==
    /\ ev.k = "fclaim" /\ Grantable(st, ev)
    /\ t.by = ev.who /\ t.until = fclaimHoldEnd(ev.e) + 1 /\ t.claim = ev.id /\ t.granted = st.granted \cup {ev.id}
    /\ t.status = st.status /\ t.others = st.others /\ t.applied = st.applied
HoldKept(st, t) == t.by = st.by /\ t.until = st.until /\ t.claim = st.claim /\ t.granted = st.granted
Holds(st, ev, t) ==
    /\ ev.k = "other" /\ HoldKept(st, t) /\ t.status = st.status /\ t.applied = st.applied
    /\ t.others = st.others \cup {[id |-> ev.id, who |-> ev.who, until |-> fclaimHoldEnd(ev.e) + 1]}
Cancels(st, ev, t) ==
    /\ ev.k = "cancel" /\ Cancellable(st, ev) /\ HoldKept(st, t)
    /\ t.status = "cancelled" /\ t.others = st.others /\ t.applied = st.applied
Fills(st, ev, t) ==
    /\ ev.k = "fill" /\ Delivers(st, ev) /\ HoldKept(st, t)
    /\ t.status = "filled" /\ t.others = st.others /\ t.applied = st.applied \cup {ev.id}
Changes(st, ev, t) ==
    /\ t.market = st.market
    /\ \/ t = st \/ Grants(st, ev, t) \/ Holds(st, ev, t) \/ Cancels(st, ev, t) \/ Fills(st, ev, t)

LEMMA ApplyIs ==
    ASSUME NEW st \in StateSet, NEW ev \in EventSet
    PROVE  /\ Changes(st, ev, Apply(st, ev))
           /\ ev.k = "fclaim" /\ Grantable(st, ev) => Grants(st, ev, Apply(st, ev))
           /\ ev.k = "fclaim" /\ ~Grantable(st, ev) => Apply(st, ev) = st
           /\ ev.k = "cancel" /\ Cancellable(st, ev) => Cancels(st, ev, Apply(st, ev))
           /\ ev.k = "cancel" /\ ~Cancellable(st, ev) => Apply(st, ev) = st
           /\ ev.k = "fill" /\ Delivers(st, ev) => Fills(st, ev, Apply(st, ev))
           /\ ev.k = "fill" /\ ~Delivers(st, ev) => Apply(st, ev) = st
<1>1. ev.k \in Kinds
  BY DEF EventSet
<1>2. CASE ev.k = "fclaim"
  <2>1. Apply(st, ev) = applyFclaim(st, ev)
    BY <1>2 DEF Apply
  <2>2. Grantable(st, ev) => Grants(st, ev, Apply(st, ev)) /\ Apply(st, ev).market = st.market
    BY <1>2, <2>1 DEF applyFclaim, Grants, StateSet
  <2>3. ~Grantable(st, ev) => Apply(st, ev) = st
    BY <2>1 DEF applyFclaim
  <2> QED BY <1>2, <2>2, <2>3 DEF Changes
<1>3. CASE ev.k = "other"
  <2>1. Apply(st, ev) = applyOther(st, ev)
    BY <1>3 DEF Apply
  <2>2. Apply(st, ev) # st => Holds(st, ev, Apply(st, ev)) /\ Apply(st, ev).market = st.market
    BY <1>3, <2>1 DEF applyOther, Holds, HoldKept, StateSet
  <2> QED BY <1>3, <2>2 DEF Changes
<1>4. CASE ev.k = "cancel"
  <2>1. Apply(st, ev) = applyCancel(st, ev)
    BY <1>4 DEF Apply
  <2>2. Cancellable(st, ev) => Cancels(st, ev, Apply(st, ev)) /\ Apply(st, ev).market = st.market
    BY <1>4, <2>1 DEF applyCancel, Cancels, HoldKept, StateSet
  <2>3. ~Cancellable(st, ev) => Apply(st, ev) = st
    BY <2>1 DEF applyCancel
  <2> QED BY <1>4, <2>2, <2>3 DEF Changes
<1>5. CASE ev.k = "fill"
  <2>1. Apply(st, ev) = applyFill(st, ev)
    BY <1>5 DEF Apply
  <2>2. Delivers(st, ev) => Fills(st, ev, Apply(st, ev)) /\ Apply(st, ev).market = st.market
    BY <1>5, <2>1 DEF applyFill, Fills, HoldKept, StateSet
  <2>3. ~Delivers(st, ev) => Apply(st, ev) = st
    BY <2>1 DEF applyFill
  <2> QED BY <1>5, <2>2, <2>3 DEF Changes
<1> QED BY <1>1, <1>2, <1>3, <1>4, <1>5 DEF Kinds

-----------------------------------------------------------------------------
(* What the offer's state says of the events below *)

Claimed(st, ev) == /\ ev.k = "fclaim" /\ ev.id = st.claim /\ ev.who = st.by
                   /\ st.until = fclaimHoldEnd(ev.e) + 1 /\ ev.e <= OfferExpiry
HeldBy(o, ev) == ev.k = "other" /\ ev.id = o.id /\ ev.who = o.who /\ o.until = fclaimHoldEnd(ev.e) + 1
Sound(st, m, T) ==
    /\ st \in StateSet /\ st.market = m
    /\ st.claim = 0 => st.by = NoOne /\ st.until = 0
    /\ st.claim # 0 => st.claim \in st.granted /\ \E ev \in T : Claimed(st, ev)
    /\ \A x \in st.granted : \E ev \in T : ev.k = "fclaim" /\ ev.id = x
    /\ \A x \in st.applied : \E ev \in T : ev.k = "fill" /\ ev.id = x
    /\ \A o \in st.others : \E ev \in T : HeldBy(o, ev)
    /\ m = "bound" /\ st.status # "open" => \E ev \in T : ev.k = "fill" /\ ev.who = Me /\ ev.id \in st.applied

LEMMA SoundGrows ==
    ASSUME NEW st, NEW m, NEW T, Sound(st, m, T), NEW U, T \subseteq U
    PROVE  Sound(st, m, U)
  BY DEF Sound

LEMMA SoundStep ==
    ASSUME NEW st, NEW m, NEW T, Sound(st, m, T), NEW ev \in T, ev \in EventSet, ev.id > 0,
           NEW t \in StateSet, Changes(st, ev, t), m \in Markets
    PROVE  Sound(t, m, T)
<1>1. t.market = m /\ st \in StateSet /\ st.market = m
  BY DEF Sound, Changes
<1>2. CASE t = st
  BY <1>2
<1>3. CASE Grants(st, ev, t)
  <2>1. t.claim = ev.id /\ t.claim # 0 /\ Claimed(t, ev)
    BY <1>3 DEF Grants, Claimed, EventSet, Grantable
  <2>2. t.status = "open" /\ m = "open"
    BY <1>1, <1>3 DEF Grants, Grantable
  <2>3. t.claim \in t.granted /\ \A x \in t.granted : x \in st.granted \/ x = ev.id
    BY <1>3 DEF Grants
  <2>4. ev.k = "fclaim" /\ t.applied = st.applied /\ t.others = st.others
    BY <1>3 DEF Grants
  <2> QED BY <1>1, <2>1, <2>2, <2>3, <2>4 DEF Sound
<1>4. CASE Holds(st, ev, t)
  <2> DEFINE o == [id |-> ev.id, who |-> ev.who, until |-> fclaimHoldEnd(ev.e) + 1]
  <2>1. HeldBy(o, ev) /\ t.others = st.others \cup {o}
    BY <1>4 DEF HeldBy, Holds
  <2>2. HoldKept(st, t) /\ t.status = st.status /\ t.applied = st.applied
    BY <1>4 DEF Holds
  <2>3. \A x : Claimed(st, x) => Claimed(t, x)
    BY <2>2 DEF Claimed, HoldKept
  <2> HIDE DEF o
  <2> QED BY <1>1, <2>1, <2>2, <2>3 DEF Sound, HoldKept
<1>5. CASE Cancels(st, ev, t)
  <2>1. HoldKept(st, t) /\ t.others = st.others /\ t.applied = st.applied /\ m # "bound"
    BY <1>1, <1>5 DEF Cancels, Cancellable
  <2>2. \A x : Claimed(st, x) => Claimed(t, x)
    BY <2>1 DEF Claimed, HoldKept
  <2> QED BY <1>1, <2>1, <2>2 DEF Sound, HoldKept
<1>6. CASE Fills(st, ev, t)
  <2>1. HoldKept(st, t) /\ t.others = st.others /\ t.applied = st.applied \cup {ev.id} /\ ev.k = "fill"
    BY <1>6 DEF Fills
  <2>2. \A x : Claimed(st, x) => Claimed(t, x)
    BY <2>1 DEF Claimed, HoldKept
  <2>3. m = "bound" => ev.who = Me
    BY <1>1, <1>6 DEF Fills, Delivers
  <2> QED BY <1>1, <2>1, <2>2, <2>3 DEF Sound, HoldKept
<1> QED BY <1>2, <1>3, <1>4, <1>5, <1>6 DEF Changes

\* The step from one block to the next: nothing, or one event of the log.
LEMMA NextBlock ==
    ASSUME NEW S, NEW m, Chain(S, m), NEW h \in Nat
    PROVE  LET st == StateAt(S, m, h)  t == StateAt(S, m, h + 1) IN
           /\ st \in StateSet /\ t \in StateSet /\ Below(S, h) \subseteq Below(S, h + 1)
           /\ \/ t = st /\ \A ev \in S : ev.h # h
              \/ \E ev \in S : /\ ev.h = h /\ ev \in EventSet /\ ev.id > 0 /\ ev \in Below(S, h + 1)
                               /\ t = Apply(st, ev) /\ Changes(st, ev, t)
<1> DEFINE st == StateAt(S, m, h)
           t == StateAt(S, m, h + 1)
<1>1. Log(S) /\ m \in Markets /\ \A ev \in S : ev \in EventSet /\ ev.h \in Nat /\ ev.id > 0
  BY DEF Chain, Log, EventSet
<1>2. st \in StateSet /\ t \in StateSet
  <2>1. h + 1 \in Nat
    OBVIOUS
  <2> QED BY <1>1, <2>1, StateStep
<1>3. Below(S, h) \subseteq Below(S, h + 1)
  BY <1>1 DEF Below
<1>4. ASSUME \A ev \in S : ev.h # h PROVE t = st
  BY <1>1, <1>4, StateStep
<1>5. ASSUME NEW ev \in S, ev.h = h PROVE t = Apply(st, ev) /\ Changes(st, ev, t) /\ ev \in Below(S, h + 1)
  <2>1. t = Apply(st, ev)
    BY <1>1, <1>5, StateStep
  <2>2. ev \in Below(S, h + 1)
    BY <1>1, <1>5 DEF Below
  <2> HIDE DEF st, t
  <2> QED BY <1>1, <1>2, <2>1, <2>2, ApplyIs
<1> QED BY <1>1, <1>2, <1>3, <1>4, <1>5

LEMMA StateSound ==
    ASSUME NEW S, NEW m, Chain(S, m), NEW h \in Nat
    PROVE  Sound(StateAt(S, m, h), m, Below(S, h))
<1> DEFINE Good == {n \in Nat : Sound(StateAt(S, m, n), m, Below(S, n))}
<1>1. Log(S) /\ m \in Markets /\ \A ev \in S : ev.h \in Nat
  BY DEF Chain, Log, EventSet
<1>2. 0 \in Good
  <2>1. StateAt(S, m, 0) = Unclaimed(m)
    BY <1>1, StateStep
  <2>2. Unclaimed(m) \in StateSet
    BY <1>1, UnclaimedIs
  <2>3. Sound(Unclaimed(m), m, Below(S, 0))
    BY <2>2 DEF Sound, Unclaimed
  <2> QED BY <2>1, <2>3
<1>3. ASSUME NEW n \in Good PROVE n + 1 \in Good
  <2>1. Sound(StateAt(S, m, n), m, Below(S, n)) /\ n \in Nat
    OBVIOUS
  <2>2. Sound(StateAt(S, m, n), m, Below(S, n + 1))
    BY <2>1, NextBlock, SoundGrows
  <2>3. Sound(StateAt(S, m, n + 1), m, Below(S, n + 1))
    BY <1>1, <2>1, <2>2, NextBlock, SoundStep
  <2> QED BY <2>1, <2>3
<1>4. Good \in SUBSET Nat /\ h >= 0
  OBVIOUS
<1> HIDE DEF Good
<1>5. h \in Good
  BY <1>2, <1>3, <1>4, Upwards
<1> QED BY <1>5 DEF Good

-----------------------------------------------------------------------------
(* From one height to a later one *)

Between(S, a, b) == {ev \in S : a <= ev.h /\ ev.h < b}
SameHold(s, t) == t.claim = s.claim /\ t.by = s.by /\ t.until = s.until
\* t is a state some blocks after s, New the events in them.
Follows(s, t, New) ==
    /\ s.status # "open" => t.status = s.status
    /\ s.granted \subseteq t.granted /\ s.applied \subseteq t.applied
    /\ \A x \in t.granted : x \in s.granted \/ \E ev \in New : ev.id = x
    /\ SameHold(s, t) \/ \E ev \in New : t.claim = ev.id
    /\ s.until <= t.until

LEMMA FollowsItself == ASSUME NEW s \in StateSet, NEW New PROVE Follows(s, s, New)
  BY DEF Follows, SameHold, StateSet
LEMMA FollowsGrows ==
    ASSUME NEW s, NEW t, NEW A, Follows(s, t, A), NEW B, A \subseteq B
    PROVE  Follows(s, t, B)
  BY DEF Follows

LEMMA UntilGrows ==
    ASSUME NEW S, NEW m, NEW st, Sound(st, m, S), Chain(S, m), NEW ev \in S, Grantable(st, ev)
    PROVE  st.until <= ev.h /\ ev.h < fclaimHoldEnd(ev.e) + 1 /\ fclaimHoldEnd(ev.e) \in Nat
<1>1. ev.h \in Nat /\ ev.e \in Nat /\ st.until \in Nat
  BY DEF Chain, Log, EventSet, Sound, StateSet
<1>2. ev.h <= fclaimHoldEnd(ev.e) /\ fclaimHoldEnd(ev.e) \in Nat
  BY <1>1, Epochs DEF Grantable
<1>3. st.by = NoOne => st.until = 0
  <2> SUFFICES ASSUME st.by = NoOne, st.claim # 0 PROVE FALSE
    BY DEF Sound
  <2>1. PICK x \in S : Claimed(st, x)
    BY DEF Sound
  <2>2. x.who \in Buyers
    BY <2>1 DEF Claimed, Chain, Reserves
  <2> QED BY <2>1, <2>2, OfferAssumption DEF Claimed, Buyers
<1>4. st.until <= ev.h
  BY <1>1, <1>3 DEF Grantable, claimHeld
<1> QED BY <1>1, <1>2, <1>4

LEMMA FollowsStep ==
    ASSUME NEW S, NEW m, Chain(S, m), NEW s, NEW st, NEW New, Follows(s, st, New), Sound(st, m, S),
           s \in StateSet, NEW t \in StateSet, NEW ev \in S, ev \in New, Changes(st, ev, t)
    PROVE  Follows(s, t, New)
<1>1. CASE t = st
  BY <1>1
<1>2. CASE Grants(st, ev, t)
  <2>1. st.until <= t.until
    <3>1. st.until <= ev.h /\ ev.h < fclaimHoldEnd(ev.e) + 1 /\ fclaimHoldEnd(ev.e) \in Nat
      BY <1>2, UntilGrows DEF Grants
    <3>2. ev.h \in Nat /\ st.until \in Nat
      BY DEF Chain, Log, EventSet, Sound, StateSet
    <3> QED BY <1>2, <3>1, <3>2 DEF Grants
  <2>2. s.until \in Nat /\ st.until \in Nat /\ t.until \in Nat
    BY DEF Sound, StateSet
  <2>3. t.claim = ev.id /\ t.granted = st.granted \cup {ev.id} /\ t.status = st.status /\ t.applied = st.applied
    BY <1>2 DEF Grants
  <2> QED BY <2>1, <2>2, <2>3 DEF Follows
<1>3. CASE HoldKept(st, t) /\ st.applied \subseteq t.applied /\ (st.status # "open" => t.status = st.status)
  BY <1>3 DEF Follows, HoldKept, SameHold
<1>4. Holds(st, ev, t) \/ Cancels(st, ev, t) \/ Fills(st, ev, t) =>
         HoldKept(st, t) /\ st.applied \subseteq t.applied /\ (st.status # "open" => t.status = st.status)
  BY DEF Holds, Cancels, Fills, Cancellable, Delivers
<1> QED BY <1>1, <1>2, <1>3, <1>4 DEF Changes

LEMMA Later ==
    ASSUME NEW S, NEW m, Chain(S, m), NEW a \in Nat, NEW b \in Nat, a <= b
    PROVE  Follows(StateAt(S, m, a), StateAt(S, m, b), Between(S, a, b))
<1> DEFINE s == StateAt(S, m, a)
           Good == {n \in Nat : Follows(s, StateAt(S, m, n), Between(S, a, n))}
<1>1. s \in StateSet
  BY NextBlock
<1>2. a \in Good
  BY <1>1, FollowsItself
<1>3. ASSUME NEW n \in Good, n >= a PROVE n + 1 \in Good
  <2> DEFINE New == Between(S, a, n + 1)
             st == StateAt(S, m, n)
             t == StateAt(S, m, n + 1)
  <2>1. \A ev \in S : ev.h \in Nat
    BY DEF Chain, Log, EventSet
  <2>2. Between(S, a, n) \subseteq New
    BY <2>1 DEF Between
  <2>3. Follows(s, st, New)
    <3>1. Follows(s, st, Between(S, a, n))
      OBVIOUS
    <3> HIDE DEF s, st, New
    <3> QED BY <2>2, <3>1, FollowsGrows
  <2>4. Sound(st, m, S)
    <3>1. Sound(st, m, Below(S, n)) /\ Below(S, n) \subseteq S
      BY StateSound DEF Below
    <3> HIDE DEF st
    <3> QED BY <3>1, SoundGrows
  <2>5. t \in StateSet
    BY NextBlock
  <2>6. CASE t = st
    BY <2>3, <2>6
  <2>7. ASSUME NEW ev \in S, ev.h = n, Changes(st, ev, t) PROVE Follows(s, t, New)
    <3>1. ev \in New
      BY <1>3, <2>7 DEF Between
    <3> HIDE DEF s, st, t, New
    <3> QED BY <1>1, <2>3, <2>4, <2>5, <2>7, <3>1, FollowsStep
  <2>8. Follows(s, t, New)
    BY <2>6, <2>7, NextBlock
  <2> QED BY <2>8
<1>4. Good \in SUBSET Nat
  OBVIOUS
<1> HIDE DEF Good
<1>5. b \in Good
  BY <1>2, <1>3, <1>4, Upwards
<1> QED BY <1>5 DEF Good

\* A reservation in the granted set was granted in its own block.
LEMMA GrantedInItsBlock ==
    ASSUME NEW S, NEW m, Chain(S, m), NEW r \in S, r.k = "fclaim",
           r.id \in StateAt(S, m, r.h + 1).granted
    PROVE  /\ Grantable(StateAt(S, m, r.h), r)
           /\ Grants(StateAt(S, m, r.h), r, StateAt(S, m, r.h + 1))
<1> DEFINE st == StateAt(S, m, r.h)
           t == StateAt(S, m, r.h + 1)
<1>1. r \in EventSet /\ r.h \in Nat /\ m \in Markets /\ Log(S)
  BY DEF Chain, Log, EventSet
<1>2. t = Apply(st, r) /\ st \in StateSet
  BY <1>1, StateStep
<1>3. r.id \notin st.granted
  <2>1. \A x \in st.granted : \E ev \in Below(S, r.h) : ev.id = x
    BY <1>1, StateSound DEF Sound
  <2>2. r \notin Below(S, r.h) /\ \A ev \in Below(S, r.h) : ev \in S
    BY <1>1 DEF Below
  <2> QED BY <2>1, <2>2 DEF Chain
<1>4. t # st
  BY <1>3
<1> HIDE DEF st, t
<1>5. Grantable(st, r) /\ Grants(st, r, t)
  BY <1>1, <1>2, <1>4, ApplyIs
<1> QED BY <1>5 DEF st, t

\* If it is in the granted set at all, it was by the end of its own block.
LEMMA GrantedThen ==
    ASSUME NEW S, NEW m, Chain(S, m), NEW r \in S, NEW b \in Nat, r.h + 1 <= b,
           r.id \in StateAt(S, m, b).granted
    PROVE  r.id \in StateAt(S, m, r.h + 1).granted
<1>1. r.h \in Nat /\ r.h + 1 \in Nat
  BY DEF Chain, Log, EventSet
<1>2. Follows(StateAt(S, m, r.h + 1), StateAt(S, m, b), Between(S, r.h + 1, b))
  BY <1>1, Later
<1>3. \A ev \in Between(S, r.h + 1, b) : ev.id # r.id
  BY <1>1 DEF Between, Chain
<1> QED BY <1>2, <1>3 DEF Follows

-----------------------------------------------------------------------------
(* A granted reservation holds until its end: only its holder's fill ends it *)

Serves(s, t, New) ==
    /\ SameHold(s, t) /\ s.granted \subseteq t.granted
    /\ t.status = "open" \/ \E q \in New : q.k = "fill" /\ q.who = s.by /\ q.id \in t.applied

LEMMA ServesStep ==
    ASSUME NEW s, NEW st, NEW New, Serves(s, st, New), st \in StateSet, st.claim # 0, st.by # NoOne,
           NEW ev \in New, ev \in EventSet, ev.h < st.until, NEW t, Changes(st, ev, t), st.market = "open"
    PROVE  Serves(s, t, New)
<1>1. claimHeld(st, ev.h)
  BY DEF claimHeld
<1>2. ~Grants(st, ev, t) /\ ~Cancels(st, ev, t)
  BY <1>1 DEF Grants, Grantable, Cancels, Cancellable
<1>3. CASE t = st
  BY <1>3
<1>4. CASE Holds(st, ev, t)
  BY <1>4 DEF Holds, HoldKept, Serves, SameHold
<1>5. CASE Fills(st, ev, t)
  <2>1. ev.who = st.by
    BY <1>5 DEF Fills, Delivers, hasLiveClaim
  <2> QED BY <1>5, <2>1 DEF Fills, HoldKept, Serves, SameHold
<1> QED BY <1>2, <1>3, <1>4, <1>5 DEF Changes

LEMMA HoldLasts ==
    ASSUME NEW S, NEW m, Chain(S, m), NEW a \in Nat, NEW b \in Nat, a <= b, m = "open",
           StateAt(S, m, a).status = "open", StateAt(S, m, a).claim # 0, StateAt(S, m, a).by # NoOne,
           b <= StateAt(S, m, a).until
    PROVE  Serves(StateAt(S, m, a), StateAt(S, m, b), Between(S, a, b))
<1> DEFINE s == StateAt(S, m, a)
           Good == {n \in Nat : n <= s.until => Serves(s, StateAt(S, m, n), Between(S, a, n))}
<1>1. s \in StateSet /\ s.until \in Nat
  BY NextBlock DEF StateSet
<1>2. a \in Good
  BY DEF Serves, SameHold
<1>3. ASSUME NEW n \in Good, n >= a PROVE n + 1 \in Good
  <2> DEFINE New == Between(S, a, n + 1)
             st == StateAt(S, m, n)
             t == StateAt(S, m, n + 1)
  <2> SUFFICES ASSUME n + 1 <= s.until PROVE Serves(s, t, New)
    OBVIOUS
  <2>1. \A ev \in S : ev.h \in Nat
    BY DEF Chain, Log, EventSet
  <2>2. Between(S, a, n) \subseteq New
    BY <2>1 DEF Between
  <2>3. n <= s.until /\ n \in Nat
    BY <1>1
  <2>4. Serves(s, st, New)
    <3>1. Serves(s, st, Between(S, a, n))
      BY <2>3
    <3> HIDE DEF s, st, New
    <3> QED BY <2>2, <3>1 DEF Serves
  <2>5. st \in StateSet /\ st.market = "open"
    BY <2>3, StateSound DEF Sound
  <2>6. st.claim # 0 /\ st.by # NoOne /\ st.until = s.until
    <3> HIDE DEF st, New
    <3> QED BY <2>4 DEF Serves, SameHold
  <2>7. CASE t = st
    BY <2>4, <2>7
  <2>8. ASSUME NEW ev \in S, ev.h = n, ev \in EventSet, Changes(st, ev, t) PROVE Serves(s, t, New)
    <3>1. ev \in New /\ ev.h < st.until
      BY <1>1, <1>3, <2>3, <2>6, <2>8 DEF Between
    <3> HIDE DEF s, st, t, New
    <3> QED BY <2>4, <2>5, <2>6, <2>8, <3>1, ServesStep
  <2> QED BY <2>3, <2>7, <2>8, NextBlock
<1>4. Good \in SUBSET Nat
  OBVIOUS
<1> HIDE DEF Good
<1>5. b \in Good
  BY <1>2, <1>3, <1>4, Upwards
<1> QED BY <1>5 DEF Good

\* Applied stays applied.
LEMMA AppliedStays ==
    ASSUME NEW S, NEW m, Chain(S, m), NEW a \in Nat, NEW b \in Nat, a <= b,
           NEW x \in StateAt(S, m, a).applied
    PROVE  x \in StateAt(S, m, b).applied
  BY Later DEF Follows

\* A fill of a granted reservation, mined while that runs, is delivered unless the buyer's
\* own earlier fill was.
LEMMA GrantedIsDelivered ==
    ASSUME NEW S, NEW m, Chain(S, m), NEW r \in S, r.k = "fclaim",
           r.id \in StateAt(S, m, r.h + 1).granted,
           NEW p \in S, p.k = "fill", p.f = r.id, p.who = r.who, p.pays = "need",
           r.h < p.h, p.h <= fclaimHoldEnd(r.e), NEW b \in Nat, p.h < b
    PROVE  \/ p.id \in StateAt(S, m, b).applied
           \/ \E q \in S : q.k = "fill" /\ q.who = r.who /\ q.h < p.h /\ q.id \in StateAt(S, m, b).applied
<1> DEFINE s == StateAt(S, m, r.h + 1)
           st == StateAt(S, m, p.h)
           t == StateAt(S, m, p.h + 1)
<1>1. /\ r \in EventSet /\ p \in EventSet /\ r.h \in Nat /\ p.h \in Nat /\ r.e \in Nat /\ r.id > 0 /\ r.id \in Nat
      /\ r.h + 1 \in Nat /\ p.h + 1 \in Nat /\ m \in Markets /\ Log(S)
  BY DEF Chain, Log, EventSet
<1>2. m = "open" /\ r.who \in Buyers /\ r.who # NoOne
  BY OfferAssumption DEF Chain, Reserves, Buyers
<1>3. /\ Grantable(StateAt(S, m, r.h), r) /\ s.status = "open" /\ s.claim = r.id /\ s.by = r.who
      /\ s.until = fclaimHoldEnd(r.e) + 1 /\ r.e <= OfferExpiry /\ r.id \in s.granted
  BY GrantedInItsBlock DEF Grants, Grantable
<1>4. fclaimHoldEnd(r.e) \in Nat /\ epochOf(p.h) <= r.e /\ epochOf(p.h) \in Nat
  BY <1>1, Epochs
<1>5. p.h < s.until
  BY <1>1, <1>3, <1>4
<1>6. Serves(s, st, Between(S, r.h + 1, p.h))
  <2> DEFINE a == r.h + 1  b1 == p.h
  <2>1. a \in Nat /\ b1 \in Nat /\ a <= b1
    BY <1>1
  <2>2. /\ StateAt(S, m, a).status = "open" /\ StateAt(S, m, a).claim # 0 /\ StateAt(S, m, a).by # NoOne
        /\ b1 <= StateAt(S, m, a).until
    BY <1>1, <1>2, <1>3, <1>4, <1>5
  <2> HIDE DEF a, b1
  <2>3. Serves(StateAt(S, m, a), StateAt(S, m, b1), Between(S, a, b1))
    BY <1>2, <2>1, <2>2, HoldLasts
  <2> QED BY <2>3 DEF a, b1
<1>7. CASE st.status = "open"
  <2>1. st.market = "open" /\ st \in StateSet
    BY <1>1, <1>2, StateSound DEF Sound
  <2>2. st.claim = r.id /\ st.by = r.who /\ st.until = s.until /\ r.id \in st.granted
    <3> HIDE DEF st, s
    <3> QED BY <1>3, <1>6 DEF Serves, SameHold
  <2>3. ~expired(p.h)
    BY <1>1, <1>3, <1>4, Numbers DEF expired
  <2>4. hasLiveClaim(st, p.who, p.h)
    <3> HIDE DEF st, s
    <3> QED BY <1>2, <1>5, <2>2 DEF hasLiveClaim, claimHeld
  <2>5. Delivers(st, p)
    <3> HIDE DEF st, s
    <3> QED BY <1>1, <1>7, <2>1, <2>2, <2>3, <2>4 DEF Delivers
  <2>6. t = Apply(st, p)
    BY <1>1, StateStep
  <2>7. p.id \in t.applied
    <3> HIDE DEF st, s, t
    <3> QED BY <1>1, <2>1, <2>5, <2>6, ApplyIs DEF Fills
  <2>8. p.h + 1 <= b
    BY <1>1
  <2> QED BY <1>1, <2>7, <2>8, AppliedStays
<1>8. CASE st.status # "open"
  <2>1. PICK q \in Between(S, r.h + 1, p.h) : q.k = "fill" /\ q.who = s.by /\ q.id \in st.applied
    <3> HIDE DEF st, s
    <3> QED BY <1>6, <1>8 DEF Serves
  <2>2. q \in S /\ q.h < p.h
    BY <2>1 DEF Between
  <2>3. p.h <= b
    BY <1>1
  <2> QED BY <1>1, <1>3, <2>1, <2>2, <2>3, AppliedStays
<1> QED BY <1>7, <1>8

\* An offer bound to its taker is firm: only the taker's own fill takes it.
LEMMA BoundIsDelivered ==
    ASSUME NEW S, NEW m, Chain(S, m), m = "bound",
           NEW p \in S, p.k = "fill", p.f = 0, p.who = Me, p.pays = "need", p.h <= offerLastBlock,
           NEW b \in Nat, p.h < b
    PROVE  \/ p.id \in StateAt(S, m, b).applied
           \/ \E q \in S : q.k = "fill" /\ q.who = Me /\ q.h < p.h /\ q.id \in StateAt(S, m, b).applied
<1> DEFINE st == StateAt(S, m, p.h)
           t == StateAt(S, m, p.h + 1)
<1>1. p \in EventSet /\ p.h \in Nat /\ p.h + 1 \in Nat /\ Log(S) /\ m \in Markets /\ p.h + 1 <= b /\ p.h <= b
  BY DEF Chain, Log, EventSet
<1>2. Sound(st, m, Below(S, p.h))
  BY <1>1, StateSound
<1>3. CASE st.status = "open"
  <2>1. ~expired(p.h)
    <3>1. epochOf(p.h) <= OfferExpiry /\ epochOf(p.h) \in Nat
      BY <1>1, Epochs, Numbers DEF offerLastBlock
    <3> QED BY <3>1, Numbers DEF expired
  <2>2. t = Apply(st, p)
    BY <1>1, StateStep
  <2> HIDE DEF st, t
  <2>3. st \in StateSet /\ st.market = "bound"
    BY <1>2 DEF Sound
  <2>4. Delivers(st, p)
    BY <1>3, <2>1, <2>3 DEF Delivers
  <2>5. p.id \in t.applied
    BY <1>1, <2>2, <2>3, <2>4, ApplyIs DEF Fills
  <2> QED BY <1>1, <2>5, AppliedStays DEF t
<1>4. CASE st.status # "open"
  <2>1. PICK q \in Below(S, p.h) : q.k = "fill" /\ q.who = Me /\ q.id \in st.applied
    <3> HIDE DEF st
    <3> QED BY <1>2, <1>4 DEF Sound
  <2>2. q \in S /\ q.h < p.h
    BY <2>1 DEF Below
  <2> QED BY <1>1, <2>1, <2>2, AppliedStays
<1> QED BY <1>3, <1>4

-----------------------------------------------------------------------------
(* A replay of the window alone knows what the replay of the chain does *)

\* w is the offer as the window shows it, r as the chain has it, from the window's first block on.
Like(w, r, from) ==
    /\ w.status = r.status /\ w.market = r.market /\ w.others = {}
    /\ SameHold(w, r) \/ (w.claim = 0 /\ (r.claim = 0 \/ r.until + CLAIM_COOLDOWN_BLOCKS <= from))
Free(st) == st \in StateSet /\ (st.claim = 0 => st.by = NoOne /\ st.until = 0)
                            /\ (st.claim # 0 => st.claim \in st.granted)
\* A reservation of another buyer, or of another time, that the cap did not deny.
Fits(st, ev) == ev.k = "fclaim" => ev.who \in Buyers /\ liveHoldCount(st, ev.who, ev.h) < MAX_ACTIVE_CLAIMS

LEMMA LikeHeld ==
    ASSUME NEW from \in Nat, NEW w, NEW r, Like(w, r, from), Free(w), Free(r), NEW h \in Nat, h >= from
    PROVE  /\ claimHeld(w, h) <=> claimHeld(r, h)
           /\ \A who \in Buyers : (w.by = who /\ h < w.until + CLAIM_COOLDOWN_BLOCKS)
                                  <=> (r.by = who /\ h < r.until + CLAIM_COOLDOWN_BLOCKS)
           /\ claimHeld(w, h) => SameHold(w, r)
           /\ (w.claim # 0 /\ claimHeld(w, h)) <=> (r.claim # 0 /\ claimHeld(r, h))
<1>1. w.until \in Nat /\ r.until \in Nat /\ CLAIM_COOLDOWN_BLOCKS \in Nat /\ NoOne \notin Buyers
  BY OfferAssumption DEF Free, StateSet, Buyers
<1>2. CASE SameHold(w, r)
  BY <1>2 DEF SameHold, claimHeld
<1>3. CASE w.claim = 0 /\ r.claim = 0
  BY <1>1, <1>3 DEF Free, claimHeld
<1>4. CASE w.claim = 0 /\ r.until + CLAIM_COOLDOWN_BLOCKS <= from
  BY <1>1, <1>4 DEF Free, claimHeld
<1> QED BY <1>2, <1>3, <1>4 DEF Like

LEMMA LikeStep ==
    ASSUME NEW from \in Nat, NEW w, NEW r, Like(w, r, from), Free(w), Free(r),
           NEW ev \in EventSet, ev.h >= from, ev.k # "other", Fits(r, ev)
    PROVE  Like(Apply(w, ev), Apply(r, ev), from)
<1> DEFINE w1 == Apply(w, ev)
           r1 == Apply(r, ev)
<1> SUFFICES Like(w1, r1, from)
  OBVIOUS
<1>1. ev.h \in Nat /\ w \in StateSet /\ r \in StateSet /\ MAX_ACTIVE_CLAIMS > 0 /\ ev.k \in Kinds
  BY Numbers DEF EventSet, Free
<1>2. /\ claimHeld(w, ev.h) <=> claimHeld(r, ev.h)
      /\ \A who \in Buyers : (w.by = who /\ ev.h < w.until + CLAIM_COOLDOWN_BLOCKS)
                             <=> (r.by = who /\ ev.h < r.until + CLAIM_COOLDOWN_BLOCKS)
      /\ claimHeld(w, ev.h) => SameHold(w, r)
      /\ (w.claim # 0 /\ claimHeld(w, ev.h)) <=> (r.claim # 0 /\ claimHeld(r, ev.h))
  BY <1>1, LikeHeld
<1>3. w1.market = w.market /\ r1.market = r.market
  BY <1>1, ApplyIs DEF Changes
<1>4. w.status = r.status /\ w.market = r.market /\ w.others = {}
  BY DEF Like
<1>5. CASE ev.k = "fclaim"
  <2>1. ~claimHeld(w, ev.h) => liveHoldCount(w, ev.who, ev.h) < MAX_ACTIVE_CLAIMS
    <3>1. {o \in w.others : o.who = ev.who /\ ev.h < o.until} = {}
      BY <1>4
    <3>2. Cardinality({o \in w.others : o.who = ev.who /\ ev.h < o.until}) = 0
      BY <3>1, FS_EmptySet
    <3> QED BY <1>1, <3>2, Numbers DEF liveHoldCount
  <2>2. ev.who \in Buyers /\ liveHoldCount(r, ev.who, ev.h) < MAX_ACTIVE_CLAIMS
    BY <1>5 DEF Fits
  <2>3. Grantable(w, ev) <=> Grantable(r, ev)
    BY <1>2, <1>4, <2>1, <2>2 DEF Grantable
  <2>4. CASE Grantable(w, ev)
    <3>1. Grants(w, ev, w1) /\ Grants(r, ev, r1)
      BY <1>1, <1>5, <2>3, <2>4, ApplyIs
    <3> HIDE DEF w1, r1
    <3> QED BY <1>3, <1>4, <3>1 DEF Grants, Like, SameHold
  <2>5. CASE ~Grantable(w, ev)
    BY <1>1, <1>5, <2>3, <2>5, ApplyIs
  <2> QED BY <2>4, <2>5
<1>6. CASE ev.k = "cancel"
  <2>1. Cancellable(w, ev) <=> Cancellable(r, ev)
    BY <1>2, <1>4 DEF Cancellable
  <2>2. CASE Cancellable(w, ev)
    <3>1. Cancels(w, ev, w1) /\ Cancels(r, ev, r1)
      BY <1>1, <1>6, <2>1, <2>2, ApplyIs
    <3> HIDE DEF w1, r1
    <3> QED BY <1>3, <1>4, <3>1 DEF Cancels, HoldKept, Like, SameHold
  <2>3. CASE ~Cancellable(w, ev)
    BY <1>1, <1>6, <2>1, <2>3, ApplyIs
  <2> QED BY <2>2, <2>3
<1>7. CASE ev.k = "fill"
  <2>1. ASSUME w.market = "open" PROVE Delivers(w, ev) <=> Delivers(r, ev)
    <3>1. ASSUME NEW st, Free(st), st.market = "open"
          PROVE  Delivers(st, ev) <=> /\ st.status = "open" /\ ~expired(ev.h)
                                      /\ ev.f # 0 /\ st.claim = ev.f /\ hasLiveClaim(st, ev.who, ev.h) /\ ev.pays = "need"
      BY <3>1 DEF Delivers, Free
    <3>2. r.market = "open"
      BY <1>4, <2>1
    <3>3. CASE SameHold(w, r)
      BY <1>2, <1>4, <2>1, <3>1, <3>2, <3>3 DEF SameHold, hasLiveClaim
    <3>4. CASE ~SameHold(w, r)
      BY <1>2, <2>1, <3>1, <3>2, <3>4 DEF hasLiveClaim
    <3> QED BY <3>3, <3>4
  <2>2. ASSUME w.market # "open" PROVE Delivers(w, ev) <=> Delivers(r, ev)
    <3>1. w.market \in Markets
      BY <1>1 DEF StateSet
    <3>2. CASE w.market = "bound"
      BY <1>4, <3>2 DEF Delivers
    <3>3. CASE w.market = "token"
      BY <1>4, <3>3 DEF Delivers
    <3> QED BY <2>2, <3>1, <3>2, <3>3 DEF Markets
  <2>3. Delivers(w, ev) <=> Delivers(r, ev)
    BY <2>1, <2>2
  <2>4. CASE Delivers(w, ev)
    <3>1. Fills(w, ev, w1) /\ Fills(r, ev, r1)
      BY <1>1, <1>7, <2>3, <2>4, ApplyIs
    <3> HIDE DEF w1, r1
    <3> QED BY <1>3, <1>4, <3>1 DEF Fills, HoldKept, Like, SameHold
  <2>5. CASE ~Delivers(w, ev)
    BY <1>1, <1>7, <2>3, <2>5, ApplyIs
  <2> QED BY <2>4, <2>5
<1> QED BY <1>1, <1>5, <1>6, <1>7 DEF Kinds

\* The events of the window about the offer itself, and the ones about the buyers' other holds.
InLane(S, from, vt) == {ev \in S : from <= ev.h /\ ev.h <= vt /\ ev.k # "other"}
Known(S, m, f, from) ==
    /\ StateAt(S, m, from).claim = 0 \/ StateAt(S, m, from).until + CLAIM_COOLDOWN_BLOCKS <= from
    /\ \A ev \in S : ev.k = "fclaim" /\ ev.h >= from /\ ev.id # f =>
          liveHoldCount(StateAt(S, m, ev.h), ev.who, ev.h) < MAX_ACTIVE_CLAIMS

LEMMA WindowLike ==
    ASSUME NEW S, NEW m, Chain(S, m), NEW r \in S, NEW from \in Nat, NEW vt \in Nat, from <= r.h, r.h <= vt,
           Known(S, m, r.id, from), StateAt(S, m, from).status = "open"
    PROVE  Like(StateAt(InLane(S, from, vt), m, r.h), StateAt(S, m, r.h), from)
<1> DEFINE L == InLane(S, from, vt)
           Good == {n \in Nat : n <= r.h => Like(StateAt(L, m, n), StateAt(S, m, n), from)}
<1>1. Chain(L, m)
  BY SubChain DEF InLane
<1>2. m \in Markets /\ Log(S) /\ Log(L) /\ \A ev \in S : ev \in EventSet /\ ev.h \in Nat
  BY <1>1 DEF Chain, Log, EventSet
<1>3. ASSUME NEW T, Chain(T, m), NEW n \in Nat PROVE Free(StateAt(T, m, n)) /\ StateAt(T, m, n).market = m
  BY <1>3, StateSound DEF Sound, Free
<1>4. from \in Good
  <2>1. StateAt(L, m, from) = Unclaimed(m)
    <3>1. \A ev \in L : ev.h >= from
      BY <1>2 DEF InLane
    <3> HIDE DEF L
    <3> QED BY <1>2, <3>1, StateStep
  <2>2. Like(Unclaimed(m), StateAt(S, m, from), from)
    BY <1>3 DEF Like, Unclaimed, Known
  <2> QED BY <2>1, <2>2
<1>5. ASSUME NEW n \in Good, n >= from PROVE n + 1 \in Good
  <2> DEFINE w == StateAt(L, m, n)
             w1 == StateAt(L, m, n + 1)
             s == StateAt(S, m, n)
             s1 == StateAt(S, m, n + 1)
  <2> SUFFICES ASSUME n + 1 <= r.h PROVE Like(w1, s1, from)
    OBVIOUS
  <2>1. n \in Nat /\ n <= r.h /\ n # r.h /\ r.h \in Nat
    BY <1>2
  <2>2. Like(w, s, from)
    BY <2>1
  <2>3. Free(w) /\ Free(s)
    BY <1>1, <1>3, <2>1
  <2>4. CASE \A ev \in S : ev.h # n
    <3>1. s1 = s
      BY <1>2, <2>1, <2>4, StateStep
    <3>2. w1 = w
      <4>1. \A ev \in L : ev.h # n
        BY <2>4 DEF InLane
      <4> HIDE DEF L
      <4> QED BY <1>2, <2>1, <4>1, StateStep
    <3> QED BY <2>2, <3>1, <3>2
  <2>5. ASSUME NEW ev \in S, ev.h = n, ev.k = "other" PROVE Like(w1, s1, from)
    <3>1. s1 = Apply(s, ev)
      BY <1>2, <2>1, <2>5, StateStep
    <3>2. w1 = w
      <4>1. \A x \in L : x.h # n
        <5> SUFFICES ASSUME NEW x \in L, x.h = n PROVE FALSE
          OBVIOUS
        <5>1. x \in S /\ x.k # "other"
          BY DEF InLane
        <5>2. x = ev
          BY <1>2, <2>5, <5>1 DEF Log
        <5> QED BY <2>5, <5>1, <5>2
      <4> HIDE DEF L
      <4> QED BY <1>2, <2>1, <4>1, StateStep
    <3> HIDE DEF w, w1, s, s1
    <3>3. Changes(s, ev, s1)
      BY <1>2, <2>3, <3>1, ApplyIs DEF Free
    <3>4. s1.market = s.market /\ s1.status = s.status /\ SameHold(s, s1)
      BY <2>5, <3>3 DEF Changes, Grants, Holds, HoldKept, Cancels, Fills, SameHold
    <3> QED BY <2>2, <3>2, <3>4 DEF Like, SameHold
  <2>6. ASSUME NEW ev \in S, ev.h = n, ev.k # "other" PROVE Like(w1, s1, from)
    <3>1. s1 = Apply(s, ev)
      BY <1>2, <2>1, <2>6, StateStep
    <3>2. ev \in L
      BY <1>2, <1>5, <2>1, <2>6 DEF InLane
    <3>3. w1 = Apply(w, ev)
      <4> HIDE DEF L
      <4> QED BY <1>2, <2>1, <2>6, <3>2, StateStep
    <3>4. Fits(s, ev)
      <4>1. ev.id # r.id
        BY <2>1, <2>6 DEF Chain
      <4> QED BY <1>5, <2>6, <4>1 DEF Fits, Known, Chain, Reserves
    <3> HIDE DEF w, w1, s, s1
    <3> QED BY <1>2, <1>5, <2>2, <2>3, <2>6, <3>1, <3>3, <3>4, LikeStep
  <2> QED BY <2>4, <2>5, <2>6
<1>6. Good \in SUBSET Nat /\ r.h \in Nat
  BY <1>2
<1> HIDE DEF Good
<1>7. r.h \in Good
  BY <1>4, <1>5, <1>6, Upwards
<1> QED BY <1>6, <1>7 DEF Good


Window(S, from, vt) == {ev \in S : ev.h \in from..vt}

\* The caller counts every hold elsewhere that is still running at the grant: none is older than the window.
LEMMA HoldsCounted ==
    ASSUME NEW S, NEW m, Chain(S, m), NEW from \in Nat, NEW vt \in Nat, NEW g \in Nat, g <= vt, NEW who,
           from = 0 \/ from + MAX_HOLD_SPAN <= g, NEW unbound \in BOOLEAN
    PROVE  LET own == Cardinality({o \in StateAt(S, m, g).others : o.who = who /\ g < o.until})
               counted == countOtherHoldsAtGrant(Window(S, from, vt), who, g, unbound)
           IN  own \in Nat /\ counted \in Nat /\ own <= counted
<1> DEFINE W == Window(S, from, vt)
           st == StateAt(S, m, g)
           O == {o \in st.others : o.who = who /\ g < o.until}
           E == {ev \in W : ev.k = "other" /\ ev.h < g /\ fclaimHoldEnd(ev.e) >= g /\ (ev.who = who \/ unbound)}
           hold == [ev \in E |-> [id |-> ev.id, who |-> ev.who, until |-> fclaimHoldEnd(ev.e) + 1]]
           Img == {hold[ev] : ev \in E}
<1>1. /\ \A ev \in S : ev \in EventSet /\ ev.h \in Nat /\ ev.e \in Nat
      /\ \A ev \in S : ev.k = "other" => Reserves(ev, m)
  BY DEF Chain, Log, EventSet
<1>2. IsFiniteSet(E)
  <2>1. IsFiniteSet(S) /\ E \subseteq S
    BY DEF Chain, Log, Window
  <2> HIDE DEF E
  <2> QED BY <2>1, FS_Subset
<1>3. O \subseteq Img
  <2> SUFFICES ASSUME NEW o \in O PROVE o \in Img
    OBVIOUS
  <2>1. Sound(st, m, Below(S, g))
    BY StateSound
  <2>2. o \in st.others /\ o.who = who /\ g < o.until /\ o \in [id : Nat, who : Whos, until : Nat]
    <3> HIDE DEF st
    <3> QED BY <2>1 DEF Sound, StateSet
  <2>3. PICK ev \in Below(S, g) : HeldBy(o, ev)
    BY <2>1, <2>2 DEF Sound
  <2>4. ev \in S /\ ev.h < g /\ ev.k = "other" /\ ev.id = o.id /\ ev.who = who /\ o.until = fclaimHoldEnd(ev.e) + 1
    BY <2>2, <2>3 DEF Below, HeldBy
  <2>5. fclaimHoldEnd(ev.e) \in Nat /\ fclaimHoldEnd(ev.e) <= ev.h + MAX_HOLD_SPAN
    BY <1>1, <2>4, Epochs DEF Reserves
  <2>6. MAX_HOLD_SPAN \in Int
    BY Numbers DEF MAX_HOLD_SPAN
  <2>7. ev.h \in Nat /\ fclaimHoldEnd(ev.e) >= g /\ from <= ev.h
    BY <1>1, <2>2, <2>4, <2>5, <2>6
  <2>8. ev \in E
    BY <2>4, <2>7 DEF Window
  <2>9. o = hold[ev]
    BY <2>2, <2>4, <2>8
  <2> HIDE DEF E, hold
  <2> QED BY <2>8, <2>9
<1>4. IsFiniteSet(Img) /\ Cardinality(Img) <= Cardinality(E)
  <2>1. hold \in Surjection(E, Img)
    <3> HIDE DEF E
    <3> QED BY DEF Surjection
  <2> HIDE DEF E, Img, hold
  <2> QED BY <1>2, <2>1, FS_Surjection DEF ExistsSurjection
<1>5. Cardinality(O) <= Cardinality(Img) /\ Cardinality(O) \in Nat /\ Cardinality(Img) \in Nat /\ Cardinality(E) \in Nat
  <2> HIDE DEF O, Img, E
  <2> QED BY <1>2, <1>3, <1>4, FS_Subset, FS_CardinalityType
<1>6. countOtherHoldsAtGrant(W, who, g, unbound) = Cardinality(E)
  BY DEF countOtherHoldsAtGrant
<1> HIDE DEF E, Img
<1> QED BY <1>4, <1>5, <1>6

\* A grant the window shows is one of the chain's.
LEMMA WindowGrant ==
    ASSUME NEW S, NEW m, Chain(S, m), NEW r \in S, r.k = "fclaim",
           NEW from \in Nat, NEW vt \in Nat, from <= r.h, r.h <= vt, from = 0 \/ from + MAX_HOLD_SPAN <= r.h,
           Known(S, m, r.id, from), StateAt(S, m, from).status = "open",
           NEW unbound \in BOOLEAN,
           countOtherHoldsAtGrant(Window(S, from, vt), r.who, r.h, unbound) < MAX_ACTIVE_CLAIMS,
           r.id \in resolve(m, InLane(S, from, vt)).granted
    PROVE  r.id \in StateAt(S, m, r.h + 1).granted
<1> DEFINE L == InLane(S, from, vt)
           w == StateAt(L, m, r.h)
           s == StateAt(S, m, r.h)
<1>1. Chain(L, m)
  BY SubChain DEF InLane
<1>2. /\ m \in Markets /\ Log(S) /\ r \in EventSet /\ r.h \in Nat /\ r.h + 1 \in Nat /\ r.who \in Buyers
      /\ vt + 1 \in Nat /\ r.h + 1 <= vt + 1 /\ \A ev \in S : ev.h \in Nat
  BY DEF Chain, Log, EventSet, Reserves
<1>3. r \in L
  BY <1>2 DEF InLane
<1>4. resolve(m, L) = StateAt(L, m, vt + 1)
  <2>1. Below(L, vt + 1) = L
    BY <1>2 DEF Below, InLane
  <2> QED BY <2>1 DEF StateAt
<1>5. Like(w, s, from)
  BY WindowLike
<1>6. Grantable(w, r)
  <2>0. r.id \in StateAt(L, m, vt + 1).granted
    BY <1>4
  <2> HIDE DEF L
  <2>1. r.id \in StateAt(L, m, r.h + 1).granted
    BY <1>1, <1>2, <1>3, <2>0, GrantedThen
  <2> QED BY <1>1, <1>3, <2>1, GrantedInItsBlock
<1>7. Free(w) /\ Free(s) /\ s \in StateSet
  <2> HIDE DEF L
  <2> QED BY <1>1, <1>2, StateSound DEF Sound, Free
<1>8. Cardinality({o \in s.others : o.who = r.who /\ r.h < o.until}) < MAX_ACTIVE_CLAIMS
      /\ Cardinality({o \in s.others : o.who = r.who /\ r.h < o.until}) \in Nat
  BY <1>2, HoldsCounted, Numbers
<1>9. Grantable(s, r)
  <2> HIDE DEF w, s
  <2>1. /\ ~claimHeld(s, r.h)
        /\ ~(s.by = r.who /\ r.h < s.until + CLAIM_COOLDOWN_BLOCKS)
    BY <1>2, <1>5, <1>6, <1>7, LikeHeld DEF Grantable
  <2>2. liveHoldCount(s, r.who, r.h) < MAX_ACTIVE_CLAIMS
    BY <1>8, <2>1 DEF liveHoldCount
  <2> QED BY <1>5, <1>6, <2>1, <2>2 DEF Like, Grantable
<1>10. StateAt(S, m, r.h + 1) = Apply(s, r)
  BY <1>2, StateStep
<1> HIDE DEF s
<1> QED BY <1>2, <1>7, <1>9, <1>10, ApplyIs DEF Grants

-----------------------------------------------------------------------------
(* What was checked of a fill, and why a reorganisation does not undo it *)

ReservationIn(S, f) == CHOOSE ev \in {x \in S : x.k = "fclaim" /\ x.who = Me} : ev.id = f
\* f is a reservation of Me's, mined so deep that no reorganisation reaches it.
Firm(S, m, top, f) ==
    /\ f # 0 /\ m = "open"
    /\ \E r \in S : r.k = "fclaim" /\ r.who = Me /\ r.id = f /\ r.h + ClaimDepth <= top + 1
\* The chain granted it.
Backed(S, m, f) == f \in StateAt(S, m, ReservationIn(S, f).h + 1).granted
ExpiryOf(S, f) == IF f = 0 THEN OfferExpiry ELSE ReservationIn(S, f).e
InTime(S, x) == x.late \in Nat /\ (x.late = 0 \/ fclaimHoldEnd(ExpiryOf(S, x.f)) >= x.late + FILL_TIP_MARGIN)
\* What was checked of a fill before it is signed, of a call or of a fill x.
Checked(S, m, top, x) ==
    /\ InTime(S, x)
    /\ \/ x.f # 0 /\ Firm(S, m, top, x.f) /\ x.who = Me /\ x.pays = "need" /\ (x.sure => Backed(S, m, x.f))
       \/ x.f = 0 /\ m = "bound" /\ x.who = Me /\ x.pays = "need"
       \/ x.f = 0 /\ m = "token" /\ x.who \in {Me, Alt} /\ x.pays = "none" /\ x.quote = "true"
Signed(S, m, top, p) ==
    p \in EventSet /\ p.k = "fill" /\ Checked(S, m, top, p) /\ p.e = ExpiryOf(S, p.f)
\* A fill in its block: not past its reservation, and after it.
Placed(S, p) == p.h <= fclaimHoldEnd(p.e) /\ (p.f # 0 => ReservationIn(S, p.f).h < p.h)
\* No block that may come delivers a fill of f.
Lost(S, m, last, f) ==
    \/ StateAt(S, m, last + 1).status # "open" \/ expired(last)
    \/ f \notin StateAt(S, m, last + 1).granted \/ StateAt(S, m, last + 1).claim # f

LEMMA ReservationUnique ==
    ASSUME NEW S, NEW m, Chain(S, m), NEW r \in S, r.k = "fclaim", r.who = Me
    PROVE  ReservationIn(S, r.id) = r
  BY DEF ReservationIn, Chain

FirmReservation(S, m, top, f, r) ==
    /\ r \in S /\ r \in EventSet /\ r.k = "fclaim" /\ r.who = Me /\ r.id = f /\ r.h + ClaimDepth <= top + 1
    /\ r.h \in Nat /\ r.e \in Nat /\ r.h + 1 \in Nat /\ f \in Nat /\ f # 0 /\ m = "open" /\ ExpiryOf(S, f) = r.e

LEMMA FirmIs ==
    ASSUME NEW S, NEW m, NEW top, Chain(S, m), NEW f, Firm(S, m, top, f)
    PROVE  FirmReservation(S, m, top, f, ReservationIn(S, f))
<1>1. PICK r \in S : r.k = "fclaim" /\ r.who = Me /\ r.id = f /\ r.h + ClaimDepth <= top + 1
  BY DEF Firm
<1>2. ReservationIn(S, f) = r
  BY <1>1, ReservationUnique
<1>3. r \in EventSet /\ r.h \in Nat /\ r.e \in Nat /\ r.id \in Nat
  BY DEF Chain, Log, EventSet
<1> QED BY <1>1, <1>2, <1>3 DEF Firm, ExpiryOf, FirmReservation

\* Blocks ClaimDepth deep under the highest tip are the same in both.
Deep(S, T, top) == \A h \in Nat : h + ClaimDepth <= top + 2 => Below(T, h) = Below(S, h)

LEMMA FirmStays ==
    ASSUME NEW S, NEW T, NEW m, Chain(S, m), Chain(T, m), NEW top \in Nat, NEW top2 \in Nat, top <= top2,
           Deep(S, T, top), NEW f, Firm(S, m, top, f)
    PROVE  /\ Firm(T, m, top2, f) /\ ReservationIn(T, f) = ReservationIn(S, f)
           /\ Backed(T, m, f) <=> Backed(S, m, f)
<1> DEFINE r == ReservationIn(S, f)
<1>0. FirmReservation(S, m, top, f, r)
  BY FirmIs
<1> HIDE DEF r
<1>1. /\ r \in S /\ r.k = "fclaim" /\ r.who = Me /\ r.id = f /\ r.h + ClaimDepth <= top + 1
      /\ r.h \in Nat /\ r.h + 1 \in Nat /\ f # 0 /\ m = "open"
  BY <1>0 DEF FirmReservation
<1>2. Below(T, r.h + 1) = Below(S, r.h + 1)
  BY <1>1, Numbers DEF Deep
<1>3. r \in T
  <2>1. r \in Below(S, r.h + 1)
    BY <1>1 DEF Below
  <2>2. r \in Below(T, r.h + 1)
    BY <1>2, <2>1
  <2> QED BY <2>2 DEF Below
<1>4. ReservationIn(T, f) = r
  BY <1>1, <1>3, ReservationUnique
<1>5. Firm(T, m, top2, f)
  BY <1>1, <1>3, Numbers DEF Firm
<1>6. Backed(T, m, f) <=> Backed(S, m, f)
  BY <1>2, <1>4 DEF Backed, StateAt, r
<1> QED BY <1>4, <1>5, <1>6 DEF r

LEMMA CheckedStays ==
    ASSUME NEW S, NEW T, NEW m, Chain(S, m), Chain(T, m), NEW top \in Nat, NEW top2 \in Nat, top <= top2,
           Deep(S, T, top), NEW x, Checked(S, m, top, x)
    PROVE  Checked(T, m, top2, x) /\ ExpiryOf(T, x.f) = ExpiryOf(S, x.f)
           /\ (x.f # 0 => ReservationIn(T, x.f) = ReservationIn(S, x.f))
<1>1. CASE x.f = 0
  <2>1. ExpiryOf(T, x.f) = ExpiryOf(S, x.f)
    BY <1>1 DEF ExpiryOf
  <2> QED BY <1>1, <2>1 DEF Checked, InTime
<1>2. CASE x.f # 0
  <2>1. Firm(S, m, top, x.f)
    BY <1>2 DEF Checked
  <2>2. /\ Firm(T, m, top2, x.f) /\ ReservationIn(T, x.f) = ReservationIn(S, x.f)
        /\ Backed(T, m, x.f) <=> Backed(S, m, x.f)
    BY <2>1, FirmStays
  <2>3. ExpiryOf(T, x.f) = ExpiryOf(S, x.f)
    BY <2>2 DEF ExpiryOf
  <2> QED BY <1>2, <2>2, <2>3 DEF Checked, InTime
<1> QED BY <1>1, <1>2

LEMMA SignedStays ==
    ASSUME NEW S, NEW T, NEW m, Chain(S, m), Chain(T, m), NEW top \in Nat, NEW top2 \in Nat, top <= top2,
           Deep(S, T, top), NEW p, Signed(S, m, top, p)
    PROVE  Signed(T, m, top2, p) /\ (Placed(S, p) => Placed(T, p))
  BY CheckedStays DEF Signed, Placed

\* A block more does not give back what is lost.
LEMMA LostStays ==
    ASSUME NEW S, NEW T, NEW m, Chain(S, m), Chain(T, m), NEW last \in Nat, NEW f,
           Below(T, last + 1) = Below(S, last + 1), \A ev \in T : ev.h = last + 1 => ev.id # f,
           Lost(S, m, last, f)
    PROVE  Lost(T, m, last + 1, f)
<1> DEFINE s == StateAt(T, m, last + 1)
           t == StateAt(T, m, last + 2)
<1>1. s = StateAt(S, m, last + 1)
  BY DEF StateAt
<1>2. last + 1 \in Nat /\ last + 2 \in Nat /\ last + 1 <= last + 2 /\ (last + 1) + 1 = last + 2
  OBVIOUS
<1>3. Follows(s, t, Between(T, last + 1, last + 2))
  BY <1>2, Later
<1>4. \A ev \in Between(T, last + 1, last + 2) : ev.id # f
  <2>1. \A ev \in T : ev.h \in Nat
    BY DEF Chain, Log, EventSet
  <2> QED BY <1>2, <2>1 DEF Between
<1>5. expired(last) => expired(last + 1)
  <2>1. /\ epochOf(last) \in Nat /\ epochOf(last + 1) \in Nat /\ fclaimHoldEnd(OfferExpiry) \in Nat
        /\ epochOf(last) <= OfferExpiry <=> last <= fclaimHoldEnd(OfferExpiry)
        /\ epochOf(last + 1) <= OfferExpiry <=> last + 1 <= fclaimHoldEnd(OfferExpiry)
    BY <1>2, Numbers, Epochs
  <2> QED BY <2>1, Numbers DEF expired
<1>6. \/ s.status # "open" \/ expired(last) \/ f \notin s.granted \/ s.claim # f
  BY <1>1 DEF Lost
<1>7. f \in t.granted => f \in s.granted
  <2> HIDE DEF s, t
  <2> QED BY <1>3, <1>4 DEF Follows
<1>8. t.claim = f => s.claim = f
  <2> HIDE DEF s, t
  <2> QED BY <1>3, <1>4 DEF Follows, SameHold
<1>9. s.status # "open" => t.status # "open"
  <2> HIDE DEF s, t
  <2> QED BY <1>3 DEF Follows
<1>10. t = StateAt(T, m, (last + 1) + 1)
  BY <1>2
<1> HIDE DEF s, t
<1> QED BY <1>5, <1>6, <1>7, <1>8, <1>9, <1>10 DEF Lost

-----------------------------------------------------------------------------
(* The invariant *)

CallSet == [pc : {"idle", "scan", "second", "offer", "sign"}, who : {NoOne, Me, Alt}, f : Nat,
            pays : Pays, quote : Quotes, clean : BOOLEAN, openAt : BOOLEAN, sure : BOOLEAN,
            late : Nat, code : Codes]
Conflicts == {"OFFER_SOURCE_CONFLICT", "RESERVATION_DENIED"}
\* What a call of the wallet may rely on after each read, whatever the chain did since: S is the log,
\* m the market, top the highest tip, last the tip now, n how many events there were.
ScanPassed(S, m, top, c) ==
    /\ Firm(S, m, top, c.f) /\ c.who = Me /\ c.pays = "need" /\ InTime(S, c)
    /\ c.clean /\ (c.openAt \/ StateAt(S, m, ReservationIn(S, c.f).h + 1).status = "open") => Backed(S, m, c.f)
CallOk(c, S, m, top, last, n) ==
    /\ c \in CallSet /\ c.f \in 0..n
    /\ c.pc # "idle" => c.code = "none" /\ c.who # NoOne
    /\ c.pc = "second" => ScanPassed(S, m, top, c)
    /\ c.pc = "sign" => Checked(S, m, top, c)
    /\ c.code \in Conflicts => c.f # 0 /\ Lost(S, m, last, c.f)

LogInv == /\ Chain(log, market) /\ mined \in Nat
          /\ \A ev \in log : ev.h \in 1..tip /\ ev.id \in 1..mined
FillsInv == /\ \A p \in pend : Signed(log, market, peak, p)
            /\ \A p \in OurFills : Signed(log, market, peak, p) /\ Placed(log, p)
CallInv == CallOk(call, log, market, peak, tip, mined)
WalletInv == /\ active \in {Me, Alt} /\ asked \in 0..MaxFills /\ reorgs \in 0..MaxReorgs
             /\ peak \in 0..MaxTip /\ tip \in 0..peak /\ peak < tip + ClaimDepth /\ floor \in 0..peak
IInv == LogInv /\ FillsInv /\ CallInv /\ WalletInv

LEMMA Bounds ==
    ASSUME WalletInv
    PROVE  peak \in Nat /\ tip \in Nat /\ floor \in Nat /\ tip <= peak /\ floor <= peak /\ peak <= MaxTip /\ MaxTip \in Nat
  BY Numbers DEF WalletInv

LEMMA BeforeIs == \A h : Before(h) = Below(log, h) /\ resolve(market, Before(h)) = StateAt(log, market, h)
  BY DEF Before, Below, StateAt

LEMMA NowIs == ASSUME LogInv, tip \in Nat PROVE Below(log, tip + 1) = log /\ chainNow = StateAt(log, market, tip + 1)
<1>1. Below(log, tip + 1) = log
  BY DEF LogInv, Below
<1> QED BY <1>1 DEF chainNow, StateAt

LEMMA ReservationLog == \A f : Reservation(f) = ReservationIn(log, f)
  BY DEF Reservation, ReservationIn, ReservationsOf

\* Before anyone asks, nothing is mined, checked or signed.
THEOREM InvInit == Init => IInv
<1> SUFFICES ASSUME Init PROVE IInv
  OBVIOUS
<1> USE DEF Init
<1>1. LogInv
  <2>1. Chain({}, market)
    BY FS_EmptySet, FillAssumption DEF Chain, Log
  <2> QED BY <2>1 DEF LogInv
<1>2. FillsInv
  BY DEF FillsInv, OurFills
<1>3. CallInv
  BY DEF CallInv, CallOk, CallSet, Idle, Codes, Conflicts, Pays, Quotes
<1>4. WalletInv
  BY Numbers DEF WalletInv
<1> QED BY <1>1, <1>2, <1>3, <1>4 DEF IInv

-----------------------------------------------------------------------------
(* The chain moves *)

LEMMA ScanStays ==
    ASSUME NEW S, NEW T, NEW m, Chain(S, m), Chain(T, m), NEW top \in Nat, NEW top2 \in Nat, top <= top2,
           Deep(S, T, top), NEW c, ScanPassed(S, m, top, c)
    PROVE  ScanPassed(T, m, top2, c)
<1> DEFINE r == ReservationIn(S, c.f)
<1>1. /\ Firm(T, m, top2, c.f) /\ ReservationIn(T, c.f) = ReservationIn(S, c.f)
      /\ Backed(T, m, c.f) <=> Backed(S, m, c.f)
  BY FirmStays DEF ScanPassed
<1>2. ExpiryOf(T, c.f) = ExpiryOf(S, c.f)
  BY <1>1 DEF ExpiryOf
<1>3. FirmReservation(S, m, top, c.f, r)
  BY FirmIs DEF ScanPassed
<1>4. StateAt(T, m, r.h + 1) = StateAt(S, m, r.h + 1)
  <2> HIDE DEF r
  <2>1. r.h + 1 \in Nat /\ (r.h + 1) + ClaimDepth <= top + 2
    BY <1>3, Numbers DEF FirmReservation
  <2> QED BY <2>1 DEF Deep, StateAt
<1> QED BY <1>1, <1>2, <1>4 DEF ScanPassed, InTime

LEMMA CallStays ==
    ASSUME NEW S, NEW T, NEW m, Chain(S, m), Chain(T, m), NEW top \in Nat, NEW top2 \in Nat, top <= top2,
           Deep(S, T, top), NEW last, NEW last2, NEW n \in Nat, NEW n2 \in Nat, n <= n2,
           NEW c, CallOk(c, S, m, top, last, n),
           c.code \in Conflicts /\ Lost(S, m, last, c.f) => Lost(T, m, last2, c.f)
    PROVE  CallOk(c, T, m, top2, last2, n2)
<1>1. c.pc = "second" => ScanPassed(T, m, top2, c)
  BY ScanStays DEF CallOk
<1>2. c.pc = "sign" => Checked(T, m, top2, c)
  BY CheckedStays DEF CallOk
<1>3. c.f \in 0..n2
  BY DEF CallOk
<1> QED BY <1>1, <1>2, <1>3 DEF CallOk

\* A block, with one event or none.
NewBlock == /\ Below(log', tip + 1) = log
            /\ \A ev \in log' : ev.h \in Nat /\ (ev \in log \/ (ev.h = tip + 1 /\ ev.id = mined + 1 /\ mined' = mined + 1))
LEMMA BlockArrives ==
    ASSUME IInv, NewBlock, market' = market, Chain(log', market), mined' \in {mined, mined + 1}, Grows, tip < MaxTip,
           UNCHANGED <<floor, active, call, asked, reorgs>>
    PROVE  /\ LogInv' /\ CallInv' /\ WalletInv'
           /\ \A p : Signed(log, market, peak, p) =>
                 Signed(log', market', peak', p) /\ (Placed(log, p) => Placed(log', p))
<1> USE DEF IInv
<1>1. Chain(log, market) /\ mined \in Nat /\ mined' \in Nat /\ mined <= mined' /\ \A ev \in log : ev.h \in 1..tip /\ ev.id \in 1..mined
  BY DEF LogInv
<1>2. /\ peak \in Nat /\ tip \in Nat /\ floor \in Nat /\ tip <= peak /\ floor <= peak /\ peak <= MaxTip /\ MaxTip \in Nat
      /\ peak < tip + ClaimDepth /\ ClaimDepth \in Nat
  BY Bounds, Numbers DEF WalletInv
<1>3. peak' \in Nat /\ peak <= peak' /\ peak' <= MaxTip /\ tip' <= peak' /\ (peak' = peak \/ peak' = tip + 1) /\ tip' = tip + 1
  BY <1>2, Max2 DEF Grows
<1>4. Deep(log, log', peak)
  <2> SUFFICES ASSUME NEW h \in Nat, h + ClaimDepth <= peak + 2 PROVE Below(log', h) = Below(log, h)
    BY DEF Deep
  <2>1. h <= tip + 1
    BY <1>2
  <2>2. Below(log', h) = Below(Below(log', tip + 1), h)
    BY <1>2, <2>1 DEF Below, NewBlock
  <2> QED BY <2>2 DEF NewBlock
<1>5. LogInv'
  <2>1. \A ev \in log' : ev.h \in 1..tip' /\ ev.id \in 1..mined'
    BY <1>1, <1>2, <1>3 DEF NewBlock
  <2> QED BY <1>1, <2>1 DEF LogInv
<1>6. Lost(log, market, tip, call.f) /\ call.f \in 0..mined => Lost(log', market, tip', call.f)
  <2>1. Below(log', tip + 1) = Below(log, tip + 1)
    BY <1>2, NowIs DEF NewBlock
  <2>2. ASSUME call.f \in 0..mined PROVE \A ev \in log' : ev.h = tip + 1 => ev.id # call.f
    BY <1>1, <1>2, <2>2 DEF NewBlock
  <2> QED BY <1>1, <1>2, <1>3, <2>1, <2>2, LostStays
<1>7. CallOk(call, log', market, peak', tip', mined')
  <2>1. CallOk(call, log, market, peak, tip, mined)
    BY DEF CallInv
  <2>2. call.f \in 0..mined
    BY <2>1 DEF CallOk
  <2> HIDE DEF IInv
  <2> QED BY <1>1, <1>2, <1>3, <1>4, <1>6, <2>1, <2>2, CallStays
<1>8. CallInv'
  BY <1>7 DEF CallInv
<1>9. WalletInv'
  <2>1. peak' < tip' + ClaimDepth
    BY <1>2, <1>3, Numbers
  <2> QED BY <1>2, <1>3, <2>1 DEF WalletInv
<1>10. ASSUME NEW p, Signed(log, market, peak, p)
       PROVE  Signed(log', market', peak', p) /\ (Placed(log, p) => Placed(log', p))
  BY <1>1, <1>2, <1>3, <1>4, <1>10, SignedStays
<1> QED BY <1>5, <1>8, <1>9, <1>10


Comes(ev) == /\ ev \in EventSet /\ ev.h = tip + 1 /\ ev.id = mined + 1
             /\ ev.k \in {"fclaim", "other"} => Reserves(ev, market)
LEMMA MinedIs ==
    ASSUME IInv, NEW ev, Comes(ev), Mined(ev)
    PROVE  NewBlock /\ Chain(log', market) /\ mined' = mined + 1 /\ Grows /\ log' = log \cup {ev}
<1>1. log' = log \cup {ev} /\ mined' = mined + 1 /\ Grows
  BY DEF Mined
<1>2. Chain(log, market) /\ mined \in Nat /\ tip \in Nat /\ \A x \in log : x.h \in 1..tip /\ x.id \in 1..mined
  BY Bounds DEF IInv, LogInv
<1>3. Below(log', tip + 1) = log
  BY <1>1, <1>2 DEF Below, Comes
<1>4. Chain(log', market)
  <2>1. Log(log')
    BY <1>1, <1>2, FS_AddElement DEF Chain, Log, Comes
  <2>2. \A x \in log' : x.id > 0 /\ (x.k \in {"fclaim", "other"} => Reserves(x, market))
    BY <1>1, <1>2 DEF Chain, Comes
  <2>3. \A a, b \in log' : a.id = b.id => a = b
    BY <1>1, <1>2 DEF Chain, Comes
  <2> QED BY <1>2, <2>1, <2>2, <2>3 DEF Chain
<1>5. NewBlock
  BY <1>1, <1>2, <1>3 DEF NewBlock, Comes
<1> QED BY <1>1, <1>4, <1>5

\* An event that is no fill of the wallet's leaves its fills where they are.
LEMMA FillsStay ==
    ASSUME IInv, NewBlock, market' = market, Chain(log', market), mined' \in {mined, mined + 1}, Grows, tip < MaxTip,
           UNCHANGED <<floor, active, call, asked, reorgs>>, pend' = pend, OurFills' = OurFills
    PROVE  IInv'
<1>1. /\ LogInv' /\ CallInv' /\ WalletInv'
      /\ \A p : Signed(log, market, peak, p) =>
            Signed(log', market', peak', p) /\ (Placed(log, p) => Placed(log', p))
  BY BlockArrives
<1>2. FillsInv'
  BY <1>1 DEF IInv, FillsInv
<1> QED BY <1>1, <1>2 DEF IInv

LEMMA QuietStep == ASSUME IInv, Quiet PROVE IInv'
<1>1. Chain(log, market) /\ mined \in Nat /\ tip \in Nat /\ \A x \in log : x.h \in 1..tip
  BY Bounds DEF IInv, LogInv
<1>2. NewBlock
  <2>1. Below(log, tip + 1) = log
    BY <1>1 DEF Below
  <2> QED BY <1>1, <2>1 DEF NewBlock, Quiet
<1>3. OurFills' = OurFills
  BY DEF OurFills, Quiet
<1> QED BY <1>1, <1>2, <1>3, FillsStay DEF Quiet, Watched

LEMMA EventIs ==
    ASSUME IInv, NEW k \in Kinds, NEW who \in Whos, NEW e \in Nat, NEW f \in Nat,
           k \in {"fclaim", "other"} => market = "open" /\ who \in Buyers /\ epochOf(tip + 1) <= e
                                        /\ e <= epochOf(tip + 1) + FCLAIM_MAX_EPOCH_AHEAD
    PROVE  Comes(Event(k, who, e, f)) /\ Comes([Event(k, who, e, f) EXCEPT !.pays = "need"])
<1>1. mined + 1 \in Nat /\ tip + 1 \in Nat
  BY Bounds DEF IInv, LogInv
<1> QED BY <1>1 DEF Comes, Event, EventSet, Reserves, Pays, Quotes

LEMMA OtherStep == ASSUME IInv, OtherEvent PROVE IInv'
<1>1. Chain(log, market) /\ mined \in Nat /\ tip \in Nat /\ tip + 1 \in Nat
  BY Bounds DEF IInv, LogInv
<1>2. epochOf(tip + 1) \in Nat /\ FCLAIM_MAX_EPOCH_AHEAD \in Nat
  BY <1>1, Numbers, Epochs
<1>3. chainNow \in StateSet
  BY <1>1, NextBlock, NowIs DEF IInv
<1>4. Buyers \subseteq Whos /\ NoOne \in Whos /\ Rival \in Whos /\ Rival \in Buyers
  BY DEF Buyers, Whos
<1>5. PICK ev : Comes(ev) /\ Mined(ev) /\ (ev.k # "fill" \/ ev.who = Rival)
  <2>1. ASSUME market = "open", NEW who \in Buyers, NEW ahead \in Aheads,
               Mined(Event("fclaim", who, epochOf(tip + 1) + ahead, 0))
        PROVE  \E ev : Comes(ev) /\ Mined(ev) /\ (ev.k # "fill" \/ ev.who = Rival)
    <3> DEFINE e == epochOf(tip + 1) + ahead
               ev == Event("fclaim", who, e, 0)
    <3>1. e \in Nat /\ epochOf(tip + 1) <= e /\ e <= epochOf(tip + 1) + FCLAIM_MAX_EPOCH_AHEAD
      BY <1>2, FillAssumption
    <3>2. Comes(ev)
      <4> HIDE DEF e
      <4> QED BY <1>4, <2>1, <3>1, EventIs DEF Kinds
    <3>3. ev.k = "fclaim"
      BY DEF Event
    <3> QED BY <2>1, <3>2, <3>3
  <2>2. ASSUME market = "open", NEW who \in Buyers,
               Mined(Event("other", who, epochOf(tip + 1) + FCLAIM_MAX_EPOCH_AHEAD, 0))
        PROVE  \E ev : Comes(ev) /\ Mined(ev) /\ (ev.k # "fill" \/ ev.who = Rival)
    <3> DEFINE e == epochOf(tip + 1) + FCLAIM_MAX_EPOCH_AHEAD
               ev == Event("other", who, e, 0)
    <3>1. e \in Nat /\ epochOf(tip + 1) <= e /\ e <= epochOf(tip + 1) + FCLAIM_MAX_EPOCH_AHEAD
      BY <1>2
    <3>2. Comes(ev)
      <4> HIDE DEF e
      <4> QED BY <1>4, <2>2, <3>1, EventIs DEF Kinds
    <3>3. ev.k = "other"
      BY DEF Event
    <3> QED BY <2>2, <3>2, <3>3
  <2>3. ASSUME Mined(Event("cancel", NoOne, 0, 0))
        PROVE  \E ev : Comes(ev) /\ Mined(ev) /\ (ev.k # "fill" \/ ev.who = Rival)
    <3>1. Comes(Event("cancel", NoOne, 0, 0))
      BY <1>4, EventIs DEF Kinds
    <3>2. Event("cancel", NoOne, 0, 0).k = "cancel"
      BY DEF Event
    <3> QED BY <2>3, <3>1, <3>2
  <2>4. ASSUME Mined([Event("fill", Rival, 0, chainNow.claim) EXCEPT !.pays = "need"])
        PROVE  \E ev : Comes(ev) /\ Mined(ev) /\ (ev.k # "fill" \/ ev.who = Rival)
    <3> DEFINE ev == [Event("fill", Rival, 0, chainNow.claim) EXCEPT !.pays = "need"]
    <3>1. chainNow.claim \in Nat
      BY <1>3 DEF StateSet
    <3>2. Comes(ev)
      BY <1>4, <3>1, EventIs DEF Kinds
    <3>3. ev.who = Rival
      BY DEF Event
    <3> QED BY <2>4, <3>2, <3>3
  <2>5. ASSUME Mined(Event("fill", Rival, 0, 0))
        PROVE  \E ev : Comes(ev) /\ Mined(ev) /\ (ev.k # "fill" \/ ev.who = Rival)
    <3>1. Comes(Event("fill", Rival, 0, 0))
      BY <1>4, EventIs DEF Kinds
    <3>2. Event("fill", Rival, 0, 0).who = Rival
      BY DEF Event
    <3> QED BY <2>5, <3>1, <3>2
  <2> QED BY <2>1, <2>2, <2>3, <2>4, <2>5 DEF OtherEvent
<1>6. NewBlock /\ Chain(log', market) /\ mined' = mined + 1 /\ Grows /\ log' = log \cup {ev}
  BY <1>5, MinedIs
<1>7. OurFills' = OurFills
  BY <1>5, <1>6 DEF OurFills
<1> QED BY <1>6, <1>7, FillsStay DEF OtherEvent, CanMine, Watched

LEMMA MineStep == ASSUME IInv, MineFill PROVE IInv'
<1>1. Chain(log, market) /\ mined \in Nat /\ tip \in Nat /\ tip + 1 \in Nat /\ \A x \in log : x.h \in 1..tip
  BY Bounds DEF IInv, LogInv
<1>2. PICK p \in pend : /\ Admitted(p) /\ Mined([p EXCEPT !.id = mined + 1, !.h = tip + 1]) /\ pend' = pend \ {p}
  BY DEF MineFill
<1> DEFINE ev == [p EXCEPT !.id = mined + 1, !.h = tip + 1]
<1>3. Signed(log, market, peak, p) /\ p \in EventSet
  BY DEF IInv, FillsInv, Signed
<1>4. /\ ev \in EventSet /\ ev.h = tip + 1 /\ ev.id = mined + 1
      /\ ev.k = p.k /\ ev.who = p.who /\ ev.e = p.e /\ ev.f = p.f /\ ev.pays = p.pays /\ ev.quote = p.quote
      /\ ev.sure = p.sure /\ ev.late = p.late
  <2>1. mined + 1 \in Nat
    BY <1>1
  <2> QED BY <1>1, <1>3, <2>1 DEF EventSet
<1> HIDE DEF ev
<1>5. Comes(ev) /\ ev.k = "fill"
  BY <1>3, <1>4 DEF Comes, Signed
<1>6. NewBlock /\ Chain(log', market) /\ mined' = mined + 1 /\ Grows /\ log' = log \cup {ev}
  <2>1. Mined(ev)
    BY <1>2 DEF ev
  <2> QED BY <1>5, <2>1, MinedIs
<1>7. Signed(log, market, peak, ev)
  BY <1>3, <1>4 DEF Signed, Checked, InTime
<1>8. Placed(log, ev)
  <2>1. ev.h <= fclaimHoldEnd(ev.e)
    <3>1. p.e \in Nat
      BY <1>3 DEF EventSet
    <3> QED BY <1>1, <1>2, <1>4, <3>1, Epochs DEF Admitted
  <2>2. ASSUME ev.f # 0 PROVE ReservationIn(log, ev.f).h < ev.h
    <3>1. Firm(log, market, peak, ev.f)
      BY <1>7, <2>2 DEF Signed, Checked
    <3>2. ReservationIn(log, ev.f) \in log
      BY <1>1, <3>1, FirmIs DEF FirmReservation
    <3> QED BY <1>1, <1>4, <3>2
  <2> QED BY <2>1, <2>2 DEF Placed
<1>9. /\ LogInv' /\ CallInv' /\ WalletInv'
      /\ \A x : Signed(log, market, peak, x) =>
            Signed(log', market', peak', x) /\ (Placed(log, x) => Placed(log', x))
  BY <1>6, BlockArrives DEF MineFill
<1>10. FillsInv'
  <2>1. \A x \in pend' : Signed(log', market', peak', x)
    BY <1>2, <1>9 DEF IInv, FillsInv
  <2>2. ASSUME NEW x \in OurFills' PROVE Signed(log', market', peak', x) /\ Placed(log', x)
    <3>1. x \in OurFills \/ x = ev
      BY <1>6, <2>2 DEF OurFills
    <3> QED BY <1>7, <1>8, <1>9, <3>1 DEF IInv, FillsInv
  <2> QED BY <2>1, <2>2 DEF FillsInv
<1> QED BY <1>9, <1>10 DEF IInv

\* No block ClaimDepth deep is undone: what was checked stands.
LEMMA ReorgStep == ASSUME IInv, Reorg PROVE IInv'
<1>1. Chain(log, market) /\ mined \in Nat /\ \A x \in log : x.h \in 1..tip /\ x.id \in 1..mined
  BY DEF IInv, LogInv
<1>2. /\ peak \in Nat /\ tip \in Nat /\ floor \in Nat /\ tip <= peak /\ floor <= peak /\ peak <= MaxTip /\ MaxTip \in Nat
      /\ ClaimDepth \in Nat /\ ClaimDepth > 0 /\ MaxReorgs \in Nat /\ reorgs \in 0..MaxReorgs
  BY Bounds, Numbers DEF IInv, WalletInv
<1>3. PICK h \in Max({0, peak - ClaimDepth + 1})..(tip - 1) :
          /\ tip' = h /\ log' = Before(h + 1)
          /\ pend' = pend \cup {ev \in log : ev.h > h /\ ev.k = "fill" /\ ev.who # Rival}
  BY DEF Reorg
<1>4. h \in Nat /\ h < tip /\ peak < h + ClaimDepth
  <2> DEFINE low == peak - ClaimDepth + 1
  <2>1. low \in Int
    BY <1>2
  <2>2. Max({0, low}) \in Int /\ Max({0, low}) >= 0 /\ Max({0, low}) >= low
    <3>1. 0 \in Int
      OBVIOUS
    <3> HIDE DEF low
    <3> QED BY <2>1, <3>1, Max2
  <2>3. h \in Max({0, low})..(tip - 1)
    BY <1>3
  <2>4. h \in Int /\ h >= 0 /\ h >= low /\ h <= tip - 1
    <3> HIDE DEF low
    <3> QED BY <1>2, <2>1, <2>2, <2>3
  <2> QED BY <1>2, <2>4
<1>5. log' = Below(log, h + 1) /\ log' \subseteq log /\ \A x \in log' : x.h \in 1..h /\ x \in log
  BY <1>1, <1>2, <1>3, <1>4, BeforeIs DEF Below
<1>6. market' = market /\ peak' = peak /\ mined' = mined /\ UNCHANGED <<floor, active, call, asked>>
  BY DEF Reorg
<1>7. Chain(log', market)
  BY <1>1, <1>5, SubChain
<1>8. Deep(log, log', peak)
  <2> SUFFICES ASSUME NEW k \in Nat, k + ClaimDepth <= peak + 2 PROVE Below(log', k) = Below(log, k)
    BY DEF Deep
  <2>1. k <= h + 1
    BY <1>2, <1>4
  <2> QED BY <1>1, <1>2, <1>4, <1>5, <2>1 DEF Below
<1>9. LogInv'
  BY <1>1, <1>3, <1>5, <1>6, <1>7 DEF LogInv
<1>10. CallInv'
  <2>1. CallOk(call, log, market, peak, tip, mined)
    BY DEF IInv, CallInv
  <2>2. call.code \notin Conflicts
    BY <2>1 DEF Reorg, CallOk, Conflicts
  <2>3. CallOk(call, log', market, peak, tip', mined)
    BY <1>1, <1>2, <1>7, <1>8, <2>1, <2>2, CallStays
  <2> QED BY <1>6, <2>3 DEF CallInv
<1>11. \A p : Signed(log, market, peak, p) =>
          Signed(log', market, peak, p) /\ (Placed(log, p) => Placed(log', p))
  BY <1>1, <1>2, <1>7, <1>8, SignedStays
<1>12. FillsInv'
  <2>1. ASSUME NEW x \in pend' PROVE Signed(log, market, peak, x)
    BY <1>3, <2>1 DEF IInv, FillsInv, OurFills
  <2>2. ASSUME NEW x \in OurFills' PROVE Signed(log, market, peak, x) /\ Placed(log, x)
    BY <1>5, <2>2 DEF IInv, FillsInv, OurFills
  <2> QED BY <1>6, <1>11, <2>1, <2>2 DEF FillsInv
<1>13. WalletInv'
  <2>1. reorgs' \in 0..MaxReorgs
    BY <1>2 DEF Reorg
  <2> QED BY <1>2, <1>3, <1>4, <1>6, <2>1 DEF IInv, WalletInv
<1> QED BY <1>9, <1>10, <1>12, <1>13 DEF IInv

-----------------------------------------------------------------------------
(* The scan *)

LEMMA VerifyOk ==
    ASSUME NEW m, NEW L, NEW me, NEW f, NEW e, NEW vt, NEW top, NEW holds, NEW pays,
           verifyFillSpv(m, L, me, f, e, vt, top, holds, pays) = "ok"
    PROVE  /\ m # "token" /\ ~(vt - HeightOf(L, f) + 1 < ClaimDepth) /\ ~(holds >= MAX_ACTIVE_CLAIMS)
           /\ resolve(m, L).claim = f /\ f \in resolve(m, L).granted /\ resolve(m, L).status = "open"
           /\ hasLiveClaim(resolve(m, L), me, top)
           /\ pays = "need" /\ ~(fclaimHoldEnd(e) < top + FILL_TIP_MARGIN)
<1> DEFINE st == resolve(m, L)
           shallow == vt - HeightOf(L, f) + 1 < ClaimDepth
           fillShallow == \E ev \in L : ev.k = "fill" /\ vt - ev.h + 1 < ClaimDepth
           granted == st.claim = f /\ f \in st.granted
           live == st.status = "open" /\ ~expired(top) /\ hasLiveClaim(st, me, top)
           late == fclaimHoldEnd(e) < top + FILL_TIP_MARGIN
<1>1. (IF m = "token" THEN "tokenWant"
       ELSE IF shallow \/ fillShallow THEN "shallow"
       ELSE IF holds >= MAX_ACTIVE_CLAIMS THEN "cap"
       ELSE IF ~granted THEN "notGranted"
       ELSE IF ~live THEN "notLive"
       ELSE IF pays # "need" THEN "sums"
       ELSE IF late THEN "deadline"
       ELSE "ok") = "ok"
  BY DEF verifyFillSpv
<1>2. m # "token" /\ ~shallow /\ ~(holds >= MAX_ACTIVE_CLAIMS) /\ granted /\ live /\ pays = "need" /\ ~late
  <2> HIDE DEF shallow, fillShallow, granted, live, late
  <2> QED BY <1>1
<1> QED BY <1>2

LEMMA HeightIs ==
    ASSUME NEW S, NEW m, Chain(S, m), NEW r \in S
    PROVE  HeightOf(S, r.id) = r.h
<1>1. \A x \in S : x.id = r.id => x = r
  BY DEF Chain
<1>2. {x \in S : x.id = r.id} = {r}
  BY <1>1
<1>3. Heights(S, r.id) = {r.h}
  BY <1>2 DEF Heights
<1> QED BY <1>3 DEF HeightOf

\* What the window's state rests on.
LEMMA LaneSound ==
    ASSUME NEW S, NEW m, Chain(S, m), NEW from \in Nat, NEW vt \in Nat
    PROVE  Chain(InLane(S, from, vt), m) /\ Sound(resolve(m, InLane(S, from, vt)), m, InLane(S, from, vt))
<1> DEFINE L == InLane(S, from, vt)
<1>1. Chain(L, m)
  BY SubChain DEF InLane
<1>2. Below(L, vt + 1) = L
  <2>1. \A ev \in L : ev.h \in Nat /\ ev.h <= vt
    BY DEF Chain, Log, EventSet, InLane
  <2> HIDE DEF L
  <2> QED BY <2>1 DEF Below
<1>3. vt + 1 \in Nat
  OBVIOUS
<1> HIDE DEF L
<1>4. Sound(StateAt(L, m, vt + 1), m, Below(L, vt + 1))
  BY <1>1, <1>3, StateSound
<1>5. Sound(resolve(m, L), m, L)
  BY <1>2, <1>4 DEF StateAt
<1> QED BY <1>1, <1>5 DEF L

ScannedFrom(vt) == Max({0, vt - (MAX_SCAN + MAX_HOLD_SPAN)})
LEMMA ScannedIs ==
    ASSUME NEW vt \in Nat
    PROVE  /\ ScannedFrom(vt) \in Nat /\ MAX_HOLD_SPAN \in Nat
           /\ ScannedFrom(vt) = 0 \/ ScannedFrom(vt) + MAX_HOLD_SPAN + MAX_HOLD_SPAN <= vt
<1> DEFINE low == vt - (MAX_SCAN + MAX_HOLD_SPAN)
<1>1. MAX_HOLD_SPAN \in Nat
  <2>1. EPOCH_LEN * (FCLAIM_MAX_EPOCH_AHEAD + 1) \in Nat /\ EPOCH_LEN * (FCLAIM_MAX_EPOCH_AHEAD + 1) > 0
    <3>1. FCLAIM_MAX_EPOCH_AHEAD + 1 \in Nat /\ FCLAIM_MAX_EPOCH_AHEAD + 1 > 0
      BY Numbers
    <3> QED BY <3>1, Numbers
  <2> QED BY <2>1 DEF MAX_HOLD_SPAN
<1>2. MAX_SCAN \in Nat /\ MAX_SCAN >= MAX_HOLD_SPAN
  BY <1>1, Numbers DEF MAX_SCAN
<1>3. low \in Int /\ low + MAX_HOLD_SPAN + MAX_HOLD_SPAN <= vt /\ 0 \in Int
  BY <1>1, <1>2
<1>4. Max({0, low}) = IF 0 >= low THEN 0 ELSE low
  <2> HIDE DEF low
  <2> QED BY <1>3, Max2
<1>5. ScannedFrom(vt) = IF 0 >= low THEN 0 ELSE low
  BY <1>4 DEF ScannedFrom
<1> HIDE DEF low
<1> QED BY <1>1, <1>3, <1>5

LEMMA ScanOk ==
    ASSUME IInv, NEW vt \in ServedTips, NEW pays, NEW unbound \in BOOLEAN, ScanResult(vt, pays, unbound) = "ok",
           NEW c, c.f = call.f, c.who = call.who, c.pays = pays, c.late = floor,
           c.clean = HoldsKnown(ScannedFrom(vt)),
           c.openAt = (resolve(market, Before(ScannedFrom(vt))).status = "open")
    PROVE  ScanPassed(log, market, peak, c)
<1> DEFINE f == call.f
           from == ScannedFrom(vt)
           window == Window(log, from, vt)
           lane == InLane(log, from, vt)
           top == Max({vt, floor})
           st == resolve(market, lane)
           holds == countOtherHoldsAtGrant(window, call.who, HeightOf(lane, f), unbound)
<1>1. Chain(log, market) /\ \A ev \in log : ev \in EventSet /\ ev.h \in Nat /\ ev.e \in Nat
  BY DEF IInv, LogInv, Chain, Log, EventSet
<1>2. vt \in Nat /\ vt <= tip /\ tip <= peak /\ tip \in Nat /\ peak \in Nat /\ floor \in Nat
      /\ top \in Nat /\ vt <= top /\ floor <= top
  <2>1. vt \in Nat /\ vt <= tip /\ tip <= peak /\ tip \in Nat /\ peak \in Nat /\ floor \in Nat
    <3>1. tip \in Nat /\ peak \in Nat /\ floor \in Nat /\ tip <= peak /\ MaxLag \in Nat
      BY Bounds, Numbers DEF IInv
    <3> QED BY <3>1 DEF ServedTips
  <2>2. vt \in Int /\ floor \in Int
    BY <2>1
  <2>3. Max({vt, floor}) = IF vt >= floor THEN vt ELSE floor
    BY <2>2, Max2
  <2> QED BY <2>1, <2>3
<1>3. from \in Nat /\ MAX_HOLD_SPAN \in Nat /\ (from = 0 \/ from + MAX_HOLD_SPAN + MAX_HOLD_SPAN <= vt)
  BY <1>2, ScannedIs
<1>4. {ev \in log : ev.h \in from..vt} = window /\ {ev \in window : ev.k # "other"} = lane
  <2> HIDE DEF from
  <2> QED BY <1>1, <1>2, <1>3 DEF Window, InLane
<1>5. f # 0 /\ verifyFillSpv(market, lane, call.who, f, Reservation(f).e, vt, top, holds, pays) = "ok"
  <2>1. ScanResult(vt, pays, unbound) =
          IF f = 0 \/ Heights(lane, f) = {} THEN "unproven"
          ELSE verifyFillSpv(market, lane, call.who, f, Reservation(f).e, vt, top, holds, pays)
    <3> HIDE DEF window, lane
    <3> QED BY <1>4 DEF ScanResult, ScannedFrom
  <2> HIDE DEF lane, holds, top, f
  <2> QED BY <2>1
<1>6. /\ market # "token" /\ ~(vt - HeightOf(lane, f) + 1 < ClaimDepth) /\ ~(holds >= MAX_ACTIVE_CLAIMS)
      /\ st.claim = f /\ f \in st.granted /\ st.status = "open" /\ hasLiveClaim(st, call.who, top)
      /\ pays = "need" /\ ~(fclaimHoldEnd(Reservation(f).e) < top + FILL_TIP_MARGIN)
  <2> HIDE DEF lane, holds, top, f, st
  <2> QED BY <1>5, VerifyOk DEF st
<1>7. Chain(lane, market) /\ Sound(st, market, lane)
  BY <1>1, <1>2, <1>3, LaneSound
<1>8. PICK r \in lane : Claimed(st, r)
  <2> HIDE DEF st, f
  <2> QED BY <1>5, <1>6, <1>7 DEF Sound
<1>9. r \in log /\ from <= r.h /\ r.h <= vt /\ r \in EventSet /\ r.h \in Nat /\ r.e \in Nat /\ r.h + 1 \in Nat
  BY <1>1, <1>8 DEF InLane
<1>10. r.k = "fclaim" /\ r.id = f /\ r.who = call.who /\ st.until = fclaimHoldEnd(r.e) + 1 /\ top < st.until
  <2> HIDE DEF st
  <2> QED BY <1>6, <1>8 DEF Claimed, hasLiveClaim, claimHeld
<1>11. market = "open" /\ r.who = Me /\ call.who = Me /\ fclaimHoldEnd(r.e) \in Nat
       /\ fclaimHoldEnd(r.e) <= r.h + MAX_HOLD_SPAN
  <2>1. Reserves(r, market)
    BY <1>1, <1>9, <1>10 DEF Chain
  <2>2. call.who \in {NoOne, Me, Alt}
    BY DEF IInv, CallInv, CallOk, CallSet
  <2> QED BY <1>9, <1>10, <2>1, <2>2, Epochs, OfferAssumption, FillAssumption DEF Reserves, Buyers
<1>12. ReservationIn(log, f) = r /\ Reservation(f) = r /\ HeightOf(lane, f) = r.h
  <2>1. ReservationIn(log, f) = r
    BY <1>1, <1>9, <1>10, <1>11, ReservationUnique
  <2>2. HeightOf(lane, r.id) = r.h
    BY <1>7, <1>8, HeightIs
  <2> QED BY <1>10, <2>1, <2>2, ReservationLog
<1>13. Firm(log, market, peak, f)
  <2>1. r.h + ClaimDepth <= peak + 1
    BY <1>2, <1>6, <1>9, <1>12, Numbers
  <2> HIDE DEF f
  <2> QED BY <1>5, <1>9, <1>10, <1>11, <2>1 DEF Firm
<1>14. InTime(log, c)
  <2>1. ExpiryOf(log, f) = r.e
    BY <1>5, <1>12 DEF ExpiryOf
  <2>2. fclaimHoldEnd(r.e) >= floor + FILL_TIP_MARGIN
    BY <1>2, <1>6, <1>11, <1>12, Numbers
  <2> QED BY <1>2, <2>1, <2>2 DEF InTime
<1>15. from = 0 \/ from + MAX_HOLD_SPAN <= r.h
  <2> HIDE DEF from, top, st
  <2> QED BY <1>2, <1>3, <1>9, <1>10, <1>11
<1>16. ASSUME c.clean, c.openAt \/ StateAt(log, market, r.h + 1).status = "open"
       PROVE  f \in StateAt(log, market, r.h + 1).granted
  <2>1. Known(log, market, f, from)
    <3>1. HoldsKnown(from)
      BY <1>16
    <3> HIDE DEF from, f
    <3> QED BY <3>1, BeforeIs DEF HoldsKnown, Known, f
  <2>2. StateAt(log, market, from).status = "open"
    <3>1. CASE c.openAt
      BY <3>1, BeforeIs
    <3>2. CASE StateAt(log, market, r.h + 1).status = "open"
      <4>1. from <= r.h + 1
        BY <1>3, <1>9
      <4>2. Follows(StateAt(log, market, from), StateAt(log, market, r.h + 1), Between(log, from, r.h + 1))
        <5> HIDE DEF from
        <5> QED BY <1>1, <1>3, <1>9, <4>1, Later
      <4> QED BY <3>2, <4>2 DEF Follows
    <3> QED BY <1>16, <3>1, <3>2
  <2>3. countOtherHoldsAtGrant(window, r.who, r.h, unbound) < MAX_ACTIVE_CLAIMS
    <3>1. countOtherHoldsAtGrant(window, r.who, r.h, unbound) \in Nat
      <4> HIDE DEF from
      <4> QED BY <1>1, <1>2, <1>3, <1>9, <1>15, HoldsCounted
    <3>2. holds = countOtherHoldsAtGrant(window, r.who, r.h, unbound)
      BY <1>10, <1>12
    <3> HIDE DEF holds, window
    <3> QED BY <1>6, <3>1, <3>2, Numbers
  <2>4. r.id \in resolve(market, lane).granted
    BY <1>6, <1>10
  <2>5. r.id \in StateAt(log, market, r.h + 1).granted
    <3> HIDE DEF from
    <3> QED BY <1>1, <1>2, <1>3, <1>9, <1>10, <1>15, <2>1, <2>2, <2>3, <2>4, WindowGrant
  <2> QED BY <1>10, <2>5
<1>17. c.clean /\ (c.openAt \/ StateAt(log, market, ReservationIn(log, f).h + 1).status = "open") => Backed(log, market, f)
  BY <1>12, <1>16 DEF Backed
<1> HIDE DEF f
<1> QED BY <1>6, <1>11, <1>13, <1>14, <1>17 DEF ScanPassed, f

-----------------------------------------------------------------------------
(* The other reads, and the signature *)

LEMMA CallMoves ==
    ASSUME IInv, UNCHANGED chain, CallOk(call', log, market, peak, tip, mined), floor' \in 0..peak,
           active' \in {Me, Alt}, asked' \in 0..MaxFills, \A p \in pend' : Signed(log, market, peak, p)
    PROVE  IInv'
<1>1. UNCHANGED <<market, log, tip, peak, mined, reorgs>>
  BY DEF chain
<1>2. LogInv'
  BY <1>1 DEF IInv, LogInv
<1>3. FillsInv'
  BY <1>1 DEF IInv, FillsInv, OurFills
<1>4. CallInv'
  BY <1>1 DEF CallInv
<1>5. WalletInv'
  BY <1>1 DEF IInv, WalletInv
<1> QED BY <1>2, <1>3, <1>4, <1>5 DEF IInv

LEMMA RefuseOk ==
    ASSUME IInv, NEW code \in Codes, Refuse(code),
           code \in Conflicts => call.f # 0 /\ Lost(log, market, tip, call.f)
    PROVE  CallOk(call', log, market, peak, tip, mined)
<1>1. call.f \in 0..mined /\ call.f \in Nat /\ mined \in Nat /\ 0 \in 0..mined
  BY DEF IInv, CallInv, CallOk, CallSet, LogInv
<1>2. Idle \in CallSet /\ Idle.f = 0 /\ Idle.pc = "idle"
  BY DEF Idle, CallSet, Codes, Pays, Quotes
<1>3. code \in Conflicts <=> code \in {"OFFER_SOURCE_CONFLICT", "RESERVATION_DENIED"}
  BY DEF Conflicts
<1>4. /\ call' \in CallSet /\ call'.pc = "idle" /\ call'.code = code
      /\ call'.f = IF code \in Conflicts THEN call.f ELSE 0
  BY <1>1, <1>2, <1>3 DEF Refuse, CallSet
<1> QED BY <1>1, <1>4 DEF CallOk

LEMMA Kept == ASSUME IInv
              PROVE  /\ CallOk(call, log, market, peak, tip, mined) /\ floor \in 0..peak /\ active \in {Me, Alt}
                     /\ asked \in 0..MaxFills /\ \A p \in pend : Signed(log, market, peak, p)
  BY DEF IInv, CallInv, WalletInv, FillsInv

LEMMA SyncStep == ASSUME IInv, SyncElsewhere PROVE IInv'
<1>1. tip \in 0..peak
  BY DEF IInv, WalletInv
<1> QED BY <1>1, Kept, CallMoves DEF SyncElsewhere

LEMMA SwitchStep == ASSUME IInv, SwitchAccount PROVE IInv'
  BY Kept, CallMoves DEF SwitchAccount

LEMMA AsksIs == ASSUME IInv, Asks PROVE asked' \in 0..MaxFills /\ call.pc = "idle" /\ UNCHANGED <<chain, floor, pend>>
  BY Numbers, Kept DEF Asks

LEMMA AskStep == ASSUME IInv, Ask PROVE IInv'
<1>1. PICK f \in Targets, who \in {Me, Alt}, own \in BOOLEAN :
         active' = who /\ call' = [Idle EXCEPT !.pc = Lane(f, own), !.who = who, !.f = f]
  BY DEF Ask
<1>2. f \in Nat /\ f \in 0..mined
  <2>1. mined \in Nat /\ \A ev \in log : ev.id \in 1..mined
    BY DEF IInv, LogInv
  <2> QED BY <2>1 DEF Targets, ReservationsOf
<1>3. Lane(f, own) \in {"scan", "offer"}
  BY DEF Lane
<1>4. Idle \in CallSet /\ Idle.code = "none"
  BY DEF Idle, CallSet, Codes, Pays, Quotes
<1>5. call' \in CallSet /\ call'.pc \in {"scan", "offer"} /\ call'.f = f /\ call'.code = "none" /\ call'.who # NoOne
  <2>1. call'.pc = Lane(f, own) /\ call'.f = f /\ call'.code = "none" /\ call'.who = who
    BY <1>1, <1>4 DEF CallSet
  <2>2. call' \in CallSet
    BY <1>1, <1>2, <1>3, <1>4 DEF CallSet
  <2> QED BY <1>3, <2>1, <2>2, OfferAssumption, FillAssumption
<1>6. CallOk(call', log, market, peak, tip, mined)
  BY <1>2, <1>5 DEF CallOk, Conflicts
<1> QED BY <1>1, <1>6, AsksIs, Kept, CallMoves DEF Ask

LEMMA AskRefusedStep == ASSUME IInv, AskRefused PROVE IInv'
<1>1. PICK code \in {"BAD_SCORE", "BAD_OUTPUTS", "OFFER_UNKNOWN", "VERIFY_UNAVAILABLE", "FILL_UNSAFE"} : Refuse(code)
  BY DEF AskRefused
<1>2. code \in Codes /\ code \notin Conflicts
  BY <1>1 DEF Codes, Conflicts
<1>3. CallOk(call', log, market, peak, tip, mined)
  BY <1>1, <1>2, RefuseOk
<1> QED BY <1>3, AsksIs, Kept, CallMoves DEF AskRefused

LEMMA ScanStep == ASSUME IInv, Scan PROVE IInv'
<1>1. PICK vt \in ServedTips, pays \in {"need", "off"}, terms \in BOOLEAN, unbound \in BOOLEAN :
        /\ floor' = Max({floor, vt})
        /\ \/ Refuse("VERIFY_UNAVAILABLE") \/ Refuse("FILL_UNSAFE")
           \/ /\ ScanResult(vt, pays, unbound) = "ok"
              /\ call' = [call EXCEPT !.pc = "second", !.pays = pays, !.clean = HoldsKnown(ScannedFrom(vt)), !.late = floor,
                                      !.openAt = resolve(market, Before(ScannedFrom(vt))).status = "open"]
  BY DEF Scan, ScannedFrom
<1>2. floor' \in 0..peak
  <2>1. tip \in Nat /\ peak \in Nat /\ floor \in Nat /\ tip <= peak /\ floor <= peak
    BY Bounds DEF IInv
  <2>2. vt \in Nat /\ vt <= peak
    BY <2>1, Numbers DEF ServedTips
  <2>3. floor \in Int /\ vt \in Int
    BY <2>1, <2>2
  <2>4. Max({floor, vt}) = IF floor >= vt THEN floor ELSE vt
    BY <2>3, Max2
  <2> QED BY <1>1, <2>1, <2>2, <2>4
<1>3. CASE Refuse("VERIFY_UNAVAILABLE") \/ Refuse("FILL_UNSAFE")
  <2>1. {"VERIFY_UNAVAILABLE", "FILL_UNSAFE"} \subseteq Codes \ Conflicts
    BY DEF Codes, Conflicts
  <2>2. CallOk(call', log, market, peak, tip, mined)
    BY <1>3, <2>1, RefuseOk
  <2> QED BY <1>2, <2>2, Kept, CallMoves DEF Scan, walletRest
<1>4. CASE /\ ScanResult(vt, pays, unbound) = "ok"
           /\ call' = [call EXCEPT !.pc = "second", !.pays = pays, !.clean = HoldsKnown(ScannedFrom(vt)), !.late = floor,
                                   !.openAt = resolve(market, Before(ScannedFrom(vt))).status = "open"]
  <2> DEFINE clean == HoldsKnown(ScannedFrom(vt))
             openAt == resolve(market, Before(ScannedFrom(vt))).status = "open"
             c == [call EXCEPT !.pc = "second", !.pays = pays, !.clean = clean, !.late = floor, !.openAt = openAt]
  <2>1. call \in CallSet /\ call.f \in 0..mined /\ call.code = "none" /\ call.who # NoOne /\ floor \in Nat
    <3>1. CallOk(call, log, market, peak, tip, mined) /\ call.pc = "scan"
      BY Kept DEF Scan
    <3> QED BY <3>1, Bounds DEF CallOk, IInv
  <2>2. clean \in BOOLEAN /\ openAt \in BOOLEAN
    BY DEF HoldsKnown
  <2>3. /\ c.f = call.f /\ c.who = call.who /\ c.pays = pays /\ c.late = floor /\ c.clean = clean /\ c.openAt = openAt
        /\ c.pc = "second" /\ c.code = call.code
    <3> HIDE DEF clean, openAt
    <3> QED BY <2>1 DEF CallSet
  <2>4. c \in CallSet
    <3> HIDE DEF clean, openAt
    <3> QED BY <2>1, <2>2 DEF CallSet, Pays
  <2>5. call' = c
    BY <1>4
  <2> HIDE DEF c
  <2>6. ScanPassed(log, market, peak, c)
    BY <1>4, <2>3, ScanOk
  <2>7. CallOk(c, log, market, peak, tip, mined)
    BY <2>1, <2>3, <2>4, <2>6 DEF CallOk, Conflicts
  <2> QED BY <1>2, <2>5, <2>7, Kept, CallMoves DEF Scan, walletRest
<1> QED BY <1>1, <1>3, <1>4

LEMMA ScanFailsStep == ASSUME IInv, ScanFails PROVE IInv'
<1>1. PICK code \in {"VERIFY_UNAVAILABLE", "RPC_BLOCK_MISMATCH", "FILL_UNSAFE"} : Refuse(code)
  BY DEF ScanFails
<1>2. code \in Codes /\ code \notin Conflicts
  BY <1>1 DEF Codes, Conflicts
<1>3. CallOk(call', log, market, peak, tip, mined)
  BY <1>1, <1>2, RefuseOk
<1> QED BY <1>3, Kept, CallMoves DEF ScanFails, walletRest


\* The second source's refusals: what it saw by a height s it answers for is true at the tip.
LEMMA ConflictIsLost ==
    ASSUME IInv, NEW s \in Nat, s <= tip, Firm(log, market, peak, call.f),
           OfferConflict(s) \/ (ReservationIn(log, call.f).h <= s /\ call.f \notin resolve(market, Before(s + 1)).granted)
    PROVE  Lost(log, market, tip, call.f)
<1> DEFINE f == call.f
           r == ReservationIn(log, f)
           st == StateAt(log, market, s + 1)
           now == StateAt(log, market, tip + 1)
<1>1. Chain(log, market) /\ tip \in Nat /\ s + 1 \in Nat /\ tip + 1 \in Nat /\ s + 1 <= tip + 1
      /\ \A ev \in log : ev.h \in 1..tip
  BY Bounds DEF IInv, LogInv
<1>2. FirmReservation(log, market, peak, f, r)
  BY <1>1, FirmIs
<1>3. Follows(st, now, Between(log, s + 1, tip + 1))
  BY <1>1, Later
<1>4. st \in StateSet /\ now \in StateSet
  <2>1. \A h \in Nat : StateAt(log, market, h) \in StateSet
    BY <1>1, NextBlock
  <2> QED BY <1>1, <2>1
<1>5. resolve(market, Before(s + 1)) = st /\ Reservation(f) = r
  BY BeforeIs, ReservationLog
<1> SUFFICES ASSUME now.status = "open", ~expired(tip), f \in now.granted, now.claim = f PROVE FALSE
  BY DEF Lost
<1> HIDE DEF r, st, now, f
<1>6. r \in log /\ r.k = "fclaim" /\ r.id = f /\ r.h \in Nat /\ r.e \in Nat /\ r.h + 1 \in Nat /\ r.h <= tip
  BY <1>1, <1>2 DEF FirmReservation
<1>7. r.id \in StateAt(log, market, r.h + 1).granted
  <2>1. r.id \in StateAt(log, market, tip + 1).granted /\ r.h + 1 <= tip + 1
    BY <1>1, <1>6 DEF now
  <2> QED BY <1>1, <1>6, <2>1, GrantedThen
<1>8. CASE r.h <= s /\ f \notin st.granted
  <2>1. r.h + 1 <= s + 1
    BY <1>6, <1>8
  <2>2. Follows(StateAt(log, market, r.h + 1), st, Between(log, r.h + 1, s + 1))
    BY <1>1, <1>6, <2>1, Later DEF st
  <2> QED BY <1>6, <1>7, <1>8, <2>2 DEF Follows
<1>9. CASE st.status # "open"
  BY <1>3, <1>9 DEF Follows
<1>10. CASE expired(s)
  <2>1. /\ epochOf(s) \in Nat /\ epochOf(tip) \in Nat /\ fclaimHoldEnd(OfferExpiry) \in Nat
        /\ epochOf(s) <= OfferExpiry <=> s <= fclaimHoldEnd(OfferExpiry)
        /\ epochOf(tip) <= OfferExpiry <=> tip <= fclaimHoldEnd(OfferExpiry)
    BY <1>1, Numbers, Epochs
  <2> QED BY <1>1, <1>10, <2>1, Numbers DEF expired
<1>11. CASE st.claim \notin {0, f} /\ st.until > fclaimHoldEnd(r.e)
  <2>1. PICK ev \in Between(log, s + 1, tip + 1) : ev.id = f
    BY <1>3, <1>11 DEF Follows, SameHold
  <2>2. ev = r
    BY <1>1, <1>6, <2>1 DEF Between, Chain
  <2>3. s + 1 <= r.h
    BY <2>1, <2>2 DEF Between
  <2>4. Grantable(StateAt(log, market, r.h), r)
    BY <1>1, <1>6, <1>7, GrantedInItsBlock
  <2>5. Sound(StateAt(log, market, r.h), market, log)
    <3>1. Sound(StateAt(log, market, r.h), market, Below(log, r.h)) /\ Below(log, r.h) \subseteq log
      BY <1>1, <1>6, StateSound DEF Below
    <3> QED BY <3>1, SoundGrows
  <2>6. StateAt(log, market, r.h).until <= r.h /\ r.h < fclaimHoldEnd(r.e) + 1 /\ fclaimHoldEnd(r.e) \in Nat
    BY <1>1, <1>6, <2>4, <2>5, UntilGrows
  <2>7. st.until <= StateAt(log, market, r.h).until
    <3>1. Follows(st, StateAt(log, market, r.h), Between(log, s + 1, r.h))
      BY <1>1, <1>6, <2>3, Later DEF st
    <3> QED BY <3>1 DEF Follows
  <2>8. st.until \in Nat /\ StateAt(log, market, r.h).until \in Nat
    BY <1>4, <2>5 DEF StateSet, Sound
  <2> QED BY <1>6, <1>11, <2>6, <2>7, <2>8
<1> QED BY <1>5, <1>8, <1>9, <1>10, <1>11 DEF OfferConflict, f, r

LEMMA SecondStep == ASSUME IInv, SecondSource PROVE IInv'
<1>1. PICK s \in ServedTips, offer \in {"none", "ok"}, record \in {"none", "ok", "missing"}, ack \in BOOLEAN :
        LET g == Reservation(call.f).h
            informed == record = "ok" /\ s >= g
        IN  IF offer = "ok" /\ OfferConflict(s) THEN Refuse("OFFER_SOURCE_CONFLICT")
            ELSE IF RecordVerdict(record, s) = "denied" THEN Refuse("RESERVATION_DENIED")
            ELSE IF RecordVerdict(record, s) = "unknown" /\ ~ack THEN Refuse("RESERVATION_UNCONFIRMED")
            ELSE call' = [call EXCEPT !.pc = "sign",
                                     !.sure = informed \/ (call.clean /\ (call.openAt \/ (offer = "ok" /\ s >= g)))]
  BY DEF SecondSource
<1> DEFINE f == call.f
           g == ReservationIn(log, f).h
           informed == record = "ok" /\ s >= g
           sure == informed \/ (call.clean /\ (call.openAt \/ (offer = "ok" /\ s >= g)))
           c == [call EXCEPT !.pc = "sign", !.sure = sure]
<1>2. CallOk(call, log, market, peak, tip, mined) /\ call.pc = "second" /\ call \in CallSet /\ call.code = "none"
  BY Kept DEF SecondSource, CallOk
<1>3. ScanPassed(log, market, peak, call) /\ Firm(log, market, peak, f)
  BY <1>2 DEF CallOk, ScanPassed
<1>4. Chain(log, market) /\ tip \in Nat /\ s \in Nat /\ s <= tip /\ s + 1 \in Nat
  <2>1. tip \in Nat /\ MaxLag \in Nat
    BY Bounds, Numbers DEF IInv
  <2> QED BY <2>1 DEF ServedTips, IInv, LogInv
<1>5. FirmReservation(log, market, peak, f, ReservationIn(log, f))
  BY <1>3, <1>4, FirmIs
<1>6. f # 0 /\ Reservation(f) = ReservationIn(log, f) /\ g \in Nat
  BY <1>5, ReservationLog DEF FirmReservation
<1>7. resolve(market, Before(s + 1)) = StateAt(log, market, s + 1)
  BY BeforeIs
<1>8. CASE offer = "ok" /\ OfferConflict(s)
  <2>1. Lost(log, market, tip, call.f)
    BY <1>3, <1>4, <1>8, ConflictIsLost
  <2>2. Refuse("OFFER_SOURCE_CONFLICT")
    BY <1>1, <1>8
  <2>3. "OFFER_SOURCE_CONFLICT" \in Codes
    BY DEF Codes
  <2>4. CallOk(call', log, market, peak, tip, mined)
    BY <1>6, <2>1, <2>2, <2>3, RefuseOk
  <2> QED BY <2>4, Kept, CallMoves DEF SecondSource, walletRest
<1>9. CASE ~(offer = "ok" /\ OfferConflict(s)) /\ RecordVerdict(record, s) = "denied"
  <2>1. s >= g /\ f \notin StateAt(log, market, s + 1).granted
    BY <1>6, <1>7, <1>9 DEF RecordVerdict
  <2>2. Lost(log, market, tip, call.f)
    BY <1>3, <1>4, <1>6, <1>7, <2>1, ConflictIsLost
  <2>3. Refuse("RESERVATION_DENIED")
    BY <1>1, <1>9
  <2>4. "RESERVATION_DENIED" \in Codes
    BY DEF Codes
  <2>5. CallOk(call', log, market, peak, tip, mined)
    BY <1>6, <2>2, <2>3, <2>4, RefuseOk
  <2> QED BY <2>5, Kept, CallMoves DEF SecondSource, walletRest
<1>10. CASE /\ ~(offer = "ok" /\ OfferConflict(s)) /\ RecordVerdict(record, s) # "denied"
            /\ Refuse("RESERVATION_UNCONFIRMED")
  <2>1. "RESERVATION_UNCONFIRMED" \in Codes \ Conflicts
    BY DEF Codes, Conflicts
  <2>2. CallOk(call', log, market, peak, tip, mined)
    BY <1>10, <2>1, RefuseOk
  <2> QED BY <2>2, Kept, CallMoves DEF SecondSource, walletRest
<1>11. CASE ~(offer = "ok" /\ OfferConflict(s)) /\ RecordVerdict(record, s) # "denied" /\ call' = c
  <2>1. sure \in BOOLEAN
    BY <1>2 DEF CallSet
  <2>2. /\ c \in CallSet /\ c.pc = "sign" /\ c.f = f /\ c.who = call.who /\ c.pays = call.pays
        /\ c.late = call.late /\ c.code = "none" /\ c.sure = sure
    <3> HIDE DEF sure
    <3> QED BY <1>2, <2>1 DEF CallSet
  <2>3. g + 1 \in Nat /\ ReservationIn(log, f) \in log /\ ReservationIn(log, f).id = f
    BY <1>5, <1>6 DEF FirmReservation
  <2>4. ASSUME informed PROVE Backed(log, market, f)
    <3>1. f \in StateAt(log, market, s + 1).granted
      BY <1>6, <1>7, <1>11, <2>4 DEF RecordVerdict
    <3>2. g + 1 <= s + 1
      BY <1>4, <1>6, <2>4
    <3>3. f \in StateAt(log, market, g + 1).granted
      <4> DEFINE r == ReservationIn(log, f)
      <4>1. r.id \in StateAt(log, market, s + 1).granted /\ r.h + 1 <= s + 1 /\ r \in log
        BY <2>3, <3>1, <3>2
      <4> HIDE DEF r
      <4>2. r.id \in StateAt(log, market, r.h + 1).granted
        BY <1>4, <4>1, GrantedThen
      <4> QED BY <2>3, <4>2 DEF r
    <3> QED BY <3>3 DEF Backed
  <2>5. ASSUME call.clean, call.openAt PROVE Backed(log, market, f)
    BY <1>3, <2>5 DEF ScanPassed
  <2>6. ASSUME call.clean, offer = "ok", s >= g PROVE Backed(log, market, f)
    <3>1. StateAt(log, market, s + 1).status = "open"
      BY <1>7, <1>11, <2>6 DEF OfferConflict
    <3>2. g + 1 <= s + 1
      BY <1>4, <1>6, <2>6
    <3>3. Follows(StateAt(log, market, g + 1), StateAt(log, market, s + 1), Between(log, g + 1, s + 1))
      <4> HIDE DEF g
      <4> QED BY <1>4, <2>3, <3>2, Later
    <3>4. StateAt(log, market, g + 1).status = "open"
      BY <3>1, <3>3 DEF Follows
    <3> QED BY <1>3, <2>6, <3>4 DEF ScanPassed
  <2>7. c.sure => Backed(log, market, f)
    BY <2>2, <2>4, <2>5, <2>6
  <2> HIDE DEF c, f
  <2>8. InTime(log, c)
    BY <1>3, <2>2 DEF ScanPassed, InTime, f
  <2>9. Checked(log, market, peak, c)
    BY <1>3, <1>6, <2>2, <2>7, <2>8 DEF Checked, ScanPassed
  <2>10. CallOk(c, log, market, peak, tip, mined)
    BY <1>2, <2>2, <2>9 DEF CallOk, Conflicts, f
  <2> QED BY <1>11, <2>10, Kept, CallMoves DEF SecondSource, walletRest
<1> QED BY <1>1, <1>6, <1>8, <1>9, <1>10, <1>11

LEMMA OfferLaneIs ==
    ASSUME NEW t, NEW served, NEW pays, NEW quote, OfferLane(t, served, pays, quote) = "none"
    PROVE  /\ call.f = 0 /\ served.kind # "open" /\ served.terms
           /\ served.kind = "bound" => call.who = Me /\ pays = "need"
           /\ served.kind = "token" => pays = "none"
           /\ served.kind \notin {"bound"} => quote = "true"
           /\ ~(Max({t, floor}) > 0 /\ offerLastBlock < Max({t, floor}) + FILL_TIP_MARGIN)
<1> DEFINE at == Max({t, floor})
           tooLate == at > 0 /\ offerLastBlock < at + FILL_TIP_MARGIN
           unfit == (served.kind = "bound" /\ (call.who # Me \/ pays = "none"))
                    \/ (served.kind = "token" /\ pays # "none")
           lapsed == at >= Sunset
<1>1. (IF served.kind = "open" THEN IF lapsed THEN "FILL_LEGACY_SUNSET" ELSE "VERIFY_UNAVAILABLE"
       ELSE IF unfit THEN "FILL_UNSAFE"
       ELSE IF call.f # 0 THEN "VERIFY_UNAVAILABLE"
       ELSE IF tooLate \/ ~served.terms THEN "FILL_UNSAFE"
       ELSE IF served.kind = "bound" THEN IF pays = "need" THEN "none" ELSE "FILL_UNSAFE"
       ELSE IF quote = "none" THEN "REVIEW_REQUIRED"
       ELSE IF quote = "true" THEN "none" ELSE "FILL_UNSAFE") = "none"
  BY DEF OfferLane
<1>2. /\ served.kind # "open" /\ ~unfit /\ call.f = 0 /\ ~tooLate /\ served.terms
      /\ served.kind = "bound" => pays = "need"
      /\ served.kind # "bound" => quote = "true"
  <2> HIDE DEF tooLate, unfit, lapsed
  <2> QED BY <1>1
<1> QED BY <1>2

LEMMA OfferPassed ==
    ASSUME IInv, CheckOffer, NEW t \in {0} \cup ServedTips, NEW served \in Served, NEW pays \in Pays, NEW quote \in Quotes,
           OfferLane(t, served, pays, quote) = "none",
           call' = [call EXCEPT !.pc = "sign", !.pays = pays, !.quote = quote, !.sure = TRUE, !.late = floor]
    PROVE  IInv'
<1>0. CallOk(call, log, market, peak, tip, mined) /\ call \in CallSet /\ call.code = "none" /\ call.f \in 0..mined
  BY Kept DEF CheckOffer, CallOk
<1> DEFINE c == [call EXCEPT !.pc = "sign", !.pays = pays, !.quote = quote, !.sure = TRUE, !.late = floor]
<1>1. /\ call.f = 0 /\ served.kind # "open" /\ served.terms
      /\ served.kind = "bound" => call.who = Me /\ pays = "need"
      /\ served.kind = "token" => pays = "none"
      /\ served.kind \notin {"bound"} => quote = "true"
      /\ ~(Max({t, floor}) > 0 /\ offerLastBlock < Max({t, floor}) + FILL_TIP_MARGIN)
  BY OfferLaneIs
<1>2. served.kind = market /\ market \in {"bound", "token"}
  BY <1>1 DEF Served, Markets
<1>3. floor \in Nat /\ call \in CallSet
  BY <1>0, Bounds DEF IInv
<1>4. /\ c \in CallSet /\ c.pc = "sign" /\ c.f = 0 /\ c.who = call.who /\ c.pays = pays /\ c.quote = quote
      /\ c.late = floor /\ c.code = "none" /\ c.sure = TRUE
  BY <1>0, <1>1, <1>3 DEF CallSet
<1>5. floor = 0 \/ offerLastBlock >= floor + FILL_TIP_MARGIN
  <2>1. t \in Nat
    <3>1. tip \in Nat /\ MaxLag \in Nat
      BY Bounds, Numbers DEF IInv
    <3> QED BY <3>1 DEF ServedTips
  <2>2. t \in Int /\ floor \in Int
    BY <1>3, <2>1
  <2>3. Max({t, floor}) = IF t >= floor THEN t ELSE floor
    BY <2>2, Max2
  <2>4. offerLastBlock \in Nat /\ FILL_TIP_MARGIN \in Nat
    <3>1. 0 \in Nat
      OBVIOUS
    <3> QED BY <3>1, Epochs, Numbers DEF offerLastBlock
  <2> QED BY <1>1, <1>3, <2>1, <2>3, <2>4
<1> HIDE DEF c
<1>6. InTime(log, c)
  BY <1>3, <1>4, <1>5 DEF InTime, ExpiryOf, offerLastBlock
<1>7. call.who \in {NoOne, Me, Alt}
  BY <1>0 DEF CallSet
<1>8. call.who # NoOne
  BY <1>0 DEF CallOk, CheckOffer
<1>9. Checked(log, market, peak, c)
  BY <1>1, <1>2, <1>4, <1>6, <1>7, <1>8 DEF Checked
<1>10. CallOk(c, log, market, peak, tip, mined)
  BY <1>0, <1>1, <1>4, <1>8, <1>9 DEF CallOk, Conflicts
<1>11. call' = c
  BY DEF c
<1> QED BY <1>10, <1>11, Kept, CallMoves DEF CheckOffer, walletRest

LEMMA OfferStep == ASSUME IInv, CheckOffer PROVE IInv'
<1> DEFINE Answers(t, served, pays, quote) ==
             LET code == OfferLane(t, served, pays, quote)
             IN  IF code # "none" THEN Refuse(code)
                 ELSE call' = [call EXCEPT !.pc = "sign", !.pays = pays, !.quote = quote, !.sure = TRUE, !.late = floor]
           Of(served) == IF served.kind = "token" THEN Quotes ELSE {"none"}
<1>1. ASSUME NEW code \in {"FILL_LEGACY_SUNSET", "VERIFY_UNAVAILABLE", "FILL_UNSAFE", "REVIEW_REQUIRED", "FILL_WRONG_TARGET"},
             Refuse(code)
      PROVE  IInv'
  <2>1. code \in Codes /\ code \notin Conflicts
    BY DEF Codes, Conflicts
  <2>2. CallOk(call', log, market, peak, tip, mined)
    BY <1>1, <2>1, RefuseOk
  <2> QED BY <2>2, Kept, CallMoves DEF CheckOffer, walletRest
<1>2. CASE Refuse("FILL_WRONG_TARGET") \/ Refuse("VERIFY_UNAVAILABLE")
  BY <1>1, <1>2
<1>3. ASSUME NEW t \in {0} \cup ServedTips, NEW served \in Served, NEW pays \in Pays,
             NEW quote \in Of(served), Answers(t, served, pays, quote)
      PROVE  IInv'
  <2>1. quote \in Quotes
    BY DEF Quotes
  <2>2. OfferLane(t, served, pays, quote) \in
          {"none", "FILL_LEGACY_SUNSET", "VERIFY_UNAVAILABLE", "FILL_UNSAFE", "REVIEW_REQUIRED"}
    BY DEF OfferLane
  <2>3. CASE OfferLane(t, served, pays, quote) = "none"
    BY <1>3, <2>1, <2>3, OfferPassed
  <2>4. CASE OfferLane(t, served, pays, quote) # "none"
    BY <1>1, <1>3, <2>2, <2>4
  <2> QED BY <2>3, <2>4
<1>4. \/ Refuse("FILL_WRONG_TARGET") \/ Refuse("VERIFY_UNAVAILABLE")
      \/ \E t \in {0} \cup ServedTips, served \in Served, pays \in Pays :
            \E quote \in Of(served) : Answers(t, served, pays, quote)
  BY DEF CheckOffer
<1> HIDE DEF Answers, Of
<1> QED BY <1>2, <1>3, <1>4


SignedAs(r, p, pays, quote, sure, late) ==
    /\ p \in EventSet /\ p.k = r.k /\ p.who = r.who /\ p.e = r.e /\ p.f = r.f
    /\ p.pays = pays /\ p.quote = quote /\ p.sure = sure /\ p.late = late
LEMMA SignedEvent ==
    ASSUME NEW r \in EventSet, NEW pays \in Pays, NEW quote \in Quotes, NEW sure \in BOOLEAN, NEW late \in Nat, NEW p,
           p = [r EXCEPT !.id = 0, !.h = 0, !.pays = pays, !.quote = quote, !.sure = sure, !.late = late]
    PROVE  SignedAs(r, p, pays, quote, sure, late)
  BY DEF EventSet, SignedAs

LEMMA SignStep == ASSUME IInv, Sign PROVE IInv'
<1>1. CallOk(call, log, market, peak, tip, mined) /\ call \in CallSet /\ Checked(log, market, peak, call)
  BY Kept DEF Sign, CallOk
<1>2. {"SIGNED", "ACCOUNT_CHANGED"} \subseteq Codes \ Conflicts
  BY DEF Codes, Conflicts
<1>3. CASE active = call.who
  <2> DEFINE p == [Event("fill", call.who, IF call.f = 0 THEN OfferExpiry ELSE Reservation(call.f).e, call.f)
                     EXCEPT !.id = 0, !.h = 0, !.pays = call.pays, !.quote = call.quote,
                            !.sure = call.sure, !.late = call.late]
  <2>1. pend' = pend \cup {p} /\ Refuse("SIGNED")
    BY <1>3 DEF Sign
  <2>2. (IF call.f = 0 THEN OfferExpiry ELSE Reservation(call.f).e) = ExpiryOf(log, call.f)
    BY ReservationLog DEF ExpiryOf
  <2>3. ExpiryOf(log, call.f) \in Nat
    <3>1. CASE call.f = 0
      BY <3>1, Numbers DEF ExpiryOf
    <3>2. CASE call.f # 0
      <4>1. Firm(log, market, peak, call.f) /\ Chain(log, market)
        BY <1>1, <3>2 DEF Checked, IInv, LogInv
      <4>2. FirmReservation(log, market, peak, call.f, ReservationIn(log, call.f))
        BY <4>1, FirmIs
      <4> QED BY <4>2 DEF FirmReservation
    <3> QED BY <3>1, <3>2
  <2>4. call.f \in Nat /\ call.who \in Whos /\ call.pays \in Pays /\ call.quote \in Quotes /\ call.sure \in BOOLEAN /\ call.late \in Nat
    BY <1>1 DEF CallSet, Whos
  <2>5. /\ p \in EventSet /\ p.k = "fill" /\ p.who = call.who /\ p.f = call.f /\ p.e = ExpiryOf(log, call.f)
        /\ p.pays = call.pays /\ p.quote = call.quote /\ p.sure = call.sure /\ p.late = call.late
    <3> DEFINE r == Event("fill", call.who, ExpiryOf(log, call.f), call.f)
    <3>1. r \in EventSet
      BY <2>3, <2>4, EventIs DEF Kinds, Comes
    <3>2. r.k = "fill" /\ r.who = call.who /\ r.f = call.f /\ r.e = ExpiryOf(log, call.f)
      BY DEF Event
    <3>3. p = [r EXCEPT !.id = 0, !.h = 0, !.pays = call.pays, !.quote = call.quote, !.sure = call.sure, !.late = call.late]
      BY <2>2
    <3> HIDE DEF r, p
    <3>4. SignedAs(r, p, call.pays, call.quote, call.sure, call.late)
      BY <2>4, <3>1, <3>3, SignedEvent
    <3> QED BY <3>2, <3>4 DEF SignedAs
  <2>7. Checked(log, market, peak, p)
    <3> HIDE DEF p
    <3> QED BY <1>1, <2>5 DEF Checked, InTime
  <2>8. Signed(log, market, peak, p)
    <3> HIDE DEF p
    <3> QED BY <2>5, <2>7 DEF Signed
  <2>9. CallOk(call', log, market, peak, tip, mined)
    BY <1>2, <2>1, RefuseOk
  <2> HIDE DEF p
  <2> QED BY <2>1, <2>8, <2>9, Kept, CallMoves DEF Sign, walletRest
<1>4. CASE active # call.who
  <2>1. Refuse("ACCOUNT_CHANGED") /\ pend' = pend
    BY <1>4 DEF Sign
  <2>2. CallOk(call', log, market, peak, tip, mined)
    BY <1>2, <2>1, RefuseOk
  <2> QED BY <2>1, <2>2, Kept, CallMoves DEF Sign, walletRest
<1> QED BY <1>3, <1>4

\* No block, reorganisation, read or answer breaks it: one case per action of fillOffer
\* and of the chain around it.
THEOREM InvStep == IInv /\ [Next]_vars => IInv'
<1> SUFFICES ASSUME IInv, [Next]_vars PROVE IInv'
  OBVIOUS
<1>1. CASE UNCHANGED vars
  BY <1>1, Kept, CallMoves DEF vars
<1> QED BY <1>1, QuietStep, OtherStep, MineStep, ReorgStep, SyncStep, SwitchStep, AskStep, AskRefusedStep, ScanStep,
           ScanFailsStep, SecondStep, OfferStep, SignStep DEF Next

\* The inductive invariant holds throughout.
THEOREM Invariant == Spec => []IInv
  BY InvInit, InvStep, PTL DEF Spec

-----------------------------------------------------------------------------
(* What the wallet promises *)

\* A fill the wallet signed and a block holds is delivered, or an earlier one of the user's was.
LEMMA InvDelivers == ASSUME IInv PROVE FillDelivers
<1>1. /\ Chain(log, market) /\ tip \in Nat /\ tip + 1 \in Nat /\ chainNow = StateAt(log, market, tip + 1)
      /\ market \in Markets /\ \A ev \in log : ev.h \in 1..tip
  BY Bounds, NowIs DEF IInv, LogInv, Chain
<1>2. SUFFICES ASSUME NEW p \in OurFills
               PROVE  IF market = "token" THEN p.pays = "none" /\ p.quote = "true"
                      ELSE p.sure => \/ p.id \in chainNow.applied
                                     \/ \E q \in OurFills : q.h < p.h /\ q.id \in chainNow.applied
  BY DEF FillDelivers
<1>3. p \in log /\ p.k = "fill" /\ Signed(log, market, peak, p) /\ Placed(log, p) /\ p.h < tip + 1 /\ Me # Rival
  BY <1>1, OfferAssumption DEF IInv, FillsInv, OurFills
<1>4. Checked(log, market, peak, p) /\ p.e = ExpiryOf(log, p.f) /\ p.h <= fclaimHoldEnd(p.e)
  BY <1>3 DEF Signed, Placed
<1>5. CASE p.f = 0 /\ market = "token" /\ p.pays = "none" /\ p.quote = "true"
  BY <1>5
<1>6. CASE p.f = 0 /\ market = "bound" /\ p.who = Me /\ p.pays = "need"
  <2>1. p.h <= offerLastBlock
    BY <1>4, <1>6 DEF ExpiryOf, offerLastBlock
  <2>2. \/ p.id \in StateAt(log, market, tip + 1).applied
        \/ \E q \in log : q.k = "fill" /\ q.who = Me /\ q.h < p.h /\ q.id \in StateAt(log, market, tip + 1).applied
    BY <1>1, <1>3, <1>6, <2>1, BoundIsDelivered
  <2> QED BY <1>1, <1>3, <1>6, <2>2 DEF OurFills
<1>7. CASE p.f # 0 /\ Firm(log, market, peak, p.f) /\ p.who = Me /\ p.pays = "need" /\ (p.sure => Backed(log, market, p.f))
  <2> DEFINE r == ReservationIn(log, p.f)
  <2>1. FirmReservation(log, market, peak, p.f, r)
    BY <1>1, <1>7, FirmIs
  <2>2. market # "token" /\ r \in log /\ r.k = "fclaim" /\ r.who = Me /\ p.f = r.id /\ p.e = r.e
    <3> HIDE DEF r
    <3> QED BY <1>4, <2>1 DEF FirmReservation
  <2>3. r.h < p.h
    BY <1>3, <1>7 DEF Placed
  <2> SUFFICES ASSUME p.sure PROVE \/ p.id \in chainNow.applied
                                   \/ \E q \in OurFills : q.h < p.h /\ q.id \in chainNow.applied
    BY <2>2
  <2>4. r.id \in StateAt(log, market, r.h + 1).granted
    BY <1>7, <2>2 DEF Backed
  <2> HIDE DEF r
  <2>5. \/ p.id \in StateAt(log, market, tip + 1).applied
        \/ \E q \in log : q.k = "fill" /\ q.who = r.who /\ q.h < p.h /\ q.id \in StateAt(log, market, tip + 1).applied
    BY <1>1, <1>3, <1>4, <1>7, <2>2, <2>3, <2>4, GrantedIsDelivered
  <2> QED BY <1>1, <1>3, <2>2, <2>5 DEF OurFills
<1> QED BY <1>4, <1>5, <1>6, <1>7 DEF Checked

\* A CSD fill the wallet signs (fclaimLanePreflight, from a window whose holds were all
\* known) and a block holds is delivered, or another fill of the user's took the offer
\* before it, whatever is mined or undone in between.
THEOREM FillIsDelivered == Spec => []FillDelivers
  BY Invariant, InvDelivers, PTL

\* The second source's refusals are true of the chain as it is.
LEMMA InvRefusals == ASSUME IInv PROVE RefusalsAreTrue
<1> SUFFICES ASSUME call.code \in Conflicts,
                    Delivers(chainNow, [Event("fill", Me, 0, call.f) EXCEPT !.h = tip, !.pays = "need"])
             PROVE  FALSE
  BY DEF RefusalsAreTrue, Conflicts
<1>1. chainNow = StateAt(log, market, tip + 1) /\ chainNow \in StateSet /\ chainNow.market = market
  <2>1. Chain(log, market) /\ tip + 1 \in Nat /\ chainNow = StateAt(log, market, tip + 1)
    BY Bounds, NowIs DEF IInv, LogInv
  <2>2. Sound(StateAt(log, market, tip + 1), market, Below(log, tip + 1))
    BY <2>1, StateSound
  <2> QED BY <2>1, <2>2 DEF Sound
<1>2. call.f # 0 /\ Lost(log, market, tip, call.f)
  BY DEF IInv, CallInv, CallOk
<1> DEFINE ev == [Event("fill", Me, 0, call.f) EXCEPT !.h = tip, !.pays = "need"]
<1>3. ev.f = call.f /\ ev.h = tip
  BY DEF Event
<1>4. Delivers(chainNow, ev)
  OBVIOUS
<1> HIDE DEF ev
<1>5. market \in {"open", "bound", "token"}
  BY <1>1 DEF StateSet, Markets
<1>6. chainNow.status = "open" /\ ~expired(tip)
  BY <1>3, <1>4 DEF Delivers
<1>7. CASE market = "open"
  <2>1. call.f \in chainNow.granted /\ chainNow.claim = call.f
    BY <1>1, <1>3, <1>4, <1>7 DEF Delivers
  <2> QED BY <1>1, <1>2, <1>6, <2>1 DEF Lost
<1>8. CASE market \in {"bound", "token"}
  BY <1>1, <1>2, <1>3, <1>4, <1>8 DEF Delivers
<1> QED BY <1>5, <1>7, <1>8

\* The second source stops a fill only when the chain bears it out: an offer it reports as
\* taken is taken, a reservation it reports as denied is denied (secondSourceOfferConflict,
\* reservationRecordVerdict).
THEOREM RefusalsHold == Spec => []RefusalsAreTrue
  BY Invariant, InvRefusals, PTL

\* Types, and the tips that were verified before the checks are not forgotten.
LEMMA InvPreflight == ASSUME IInv PROVE PreflightInv
<1>1. TypeOK
  <2>1. \A ev \in log : /\ ev.h \in 1..tip /\ \A other \in log : other.h = ev.h => other = ev
                        /\ ev.k \in {"fclaim", "other", "cancel", "fill"}
    BY DEF IInv, LogInv, Chain, Log, EventSet, Kinds
  <2>2. \A p \in pend : p.k = "fill" /\ p.who \in {Me, Alt}
    BY DEF IInv, FillsInv, Signed, Checked
  <2>3. /\ call.pc \in {"idle", "scan", "second", "offer", "sign"} /\ call.code \in Codes
        /\ call.who \in {NoOne, Me, Alt} /\ call.pays \in Pays /\ call.quote \in Quotes
    BY DEF IInv, CallInv, CallOk, CallSet
  <2>4. market \in Markets
    BY DEF IInv, LogInv, Chain
  <2> QED BY <2>1, <2>2, <2>3, <2>4 DEF TypeOK, IInv, WalletInv
<1>2. LapseIsRemembered
  <2> SUFFICES ASSUME NEW p \in pend \cup OurFills PROVE p.late = 0 \/ fclaimHoldEnd(p.e) >= p.late + FILL_TIP_MARGIN
    BY DEF LapseIsRemembered
  <2>1. Signed(log, market, peak, p)
    BY DEF IInv, FillsInv
  <2> QED BY <2>1 DEF Signed, Checked, InTime
<1> QED BY <1>1, <1>2 DEF PreflightInv

\* The model is well typed, and the hold a fill pays outlives, by FILL_TIP_MARGIN, every
\* tip the wallet had verified before its checks, though the RPC may serve a lower one
\* (fclaimLanePreflight, tipDependentFillReason).
THEOREM PreflightHolds == Spec => []PreflightInv
  BY Invariant, InvPreflight, PTL

-----------------------------------------------------------------------------
(* The consents of sites *)

GivenInv ==
    /\ \A c \in Calls : calls[c].op = "connect" => <<calls[c].site, calls[c].addr>> \in given
    /\ \A i \in DOMAIN jobs : jobs[i].kind = "grant" => <<jobs[i].site, jobs[i].addr>> \in given

ChainInv ==
    \A i \in DOMAIN jobs : \/ jobs[i].at = "read"
                           \/ i = 1 /\ jobs[i].at = "write" /\ jobs[i].snap = consents

ConsentIInv == ConsentInv /\ GivenInv /\ ChainInv

-----------------------------------------------------------------------------
(* Sequences *)

LEMMA SeqDomain == ASSUME NEW S, NEW s \in Seq(S) PROVE DOMAIN s = 1..Len(s) /\ Len(s) \in Nat
  BY LenProperties

LEMMA TakenOff ==
    ASSUME NEW S, NEW s \in Seq(S), s # <<>>
    PROVE  /\ RemoveAt(s, 1) \in Seq(S)
           /\ \A i \in DOMAIN RemoveAt(s, 1) : i + 1 \in DOMAIN s /\ RemoveAt(s, 1)[i] = s[i + 1]
<1>1. Len(s) \in Nat \ {0} /\ DOMAIN s = 1..Len(s)
  BY SeqDomain, EmptySeq
<1>2. SubSeq(s, 1, 0) \in Seq(S) /\ Len(SubSeq(s, 1, 0)) = 0
  <2>1. \A i \in 1..0 : s[i] \in S
    OBVIOUS
  <2> QED BY <2>1, SubSeqProperties
<1>3. /\ SubSeq(s, 2, Len(s)) \in Seq(S) /\ Len(SubSeq(s, 2, Len(s))) = Len(s) - 1
      /\ \A i \in 1..Len(s) - 1 : SubSeq(s, 2, Len(s))[i] = s[i + 1]
  <2>1. \A i \in 2..Len(s) : s[i] \in S
    BY <1>1, ElementOfSeq
  <2>2. /\ SubSeq(s, 2, Len(s)) \in Seq(S)
        /\ Len(SubSeq(s, 2, Len(s))) = IF 2 <= Len(s) THEN Len(s) - 2 + 1 ELSE 0
        /\ \A i \in 1..Len(s) - 2 + 1 : SubSeq(s, 2, Len(s))[i] = s[2 + i - 1]
    BY <1>1, <2>1, SubSeqProperties
  <2> QED BY <1>1, <2>2
<1>4. RemoveAt(s, 1) = SubSeq(s, 1, 0) \o SubSeq(s, 2, Len(s))
  BY DEF RemoveAt
<1> DEFINE p == SubSeq(s, 1, 0)
           q == SubSeq(s, 2, Len(s))
<1> HIDE DEF p, q
<1>5. /\ p \o q \in Seq(S) /\ Len(p \o q) = Len(s) - 1
      /\ \A i \in 1..Len(s) - 1 : (p \o q)[i] = s[i + 1]
  <2>1. /\ p \o q \in Seq(S) /\ Len(p \o q) = Len(p) + Len(q)
        /\ \A i \in 1..Len(p) + Len(q) : (p \o q)[i] = IF i <= Len(p) THEN p[i] ELSE q[i - Len(p)]
    BY <1>2, <1>3, ConcatProperties DEF p, q
  <2> QED BY <1>1, <1>2, <1>3, <2>1 DEF p, q
<1>6. DOMAIN (p \o q) = 1..Len(s) - 1
  BY <1>5, SeqDomain
<1> QED BY <1>1, <1>4, <1>5, <1>6 DEF p, q

-----------------------------------------------------------------------------
(* What the parts of an action keep *)

KnowsOk == knows \in Consents /\ KnowsOnlyApproved

LEMMA LearnsOk ==
    ASSUME KnowsOk, given \subseteq given', NEW o, NEW a, Learns(o, a),
           o \in Origins => a \in Accounts \cup {None} /\ (a # None => <<o, a>> \in given')
    PROVE  KnowsOk'
  BY DEF KnowsOk, KnowsOnlyApproved, Learns, Consents

LEMMA LosesOk == ASSUME KnowsOk, given' = given, NEW os, Loses(os) PROVE KnowsOk'
  BY DEF KnowsOk, KnowsOnlyApproved, Loses, Consents

LEMMA SameKnows == ASSUME KnowsOk, given \subseteq given', knows' = knows PROVE KnowsOk'
  BY DEF KnowsOk, KnowsOnlyApproved

\* The calls: typed, and a connect carries an approval.
CallsOk == calls \in [Calls -> Call] /\ \A c \in Calls :
              calls[c].op = "connect" => <<calls[c].site, calls[c].addr>> \in given

LEMMA CallType ==
    ASSUME CallsOk, NEW c \in Calls
    PROVE  calls[c] \in Call /\ calls[c].site \in Origins \cup {None} /\ calls[c].addr \in Accounts \cup {None}
  BY DEF CallsOk, Call

LEMMA OneCallOk ==
    ASSUME CallsOk, given \subseteq given', NEW c \in Calls, NEW r \in Call,
           r.op = "connect" => <<r.site, r.addr>> \in given',
           calls' = [calls EXCEPT ![c] = r]
    PROVE  CallsOk'
  BY DEF CallsOk

LEMMA SameCalls == ASSUME CallsOk, given \subseteq given', calls' = calls PROVE CallsOk'
  BY DEF CallsOk

LEMMA EndsOk == ASSUME CallsOk, given' = given, NEW c \in Calls, Ends(c) PROVE CallsOk'
<1>1. NoCall \in Call /\ NoCall.op # "connect"
  BY DEF NoCall, Call, Ids
<1> QED BY <1>1, OneCallOk DEF Ends

LEMMA GoesOk ==
    ASSUME CallsOk, given' = given, NEW c \in Calls, NEW pc \in {"unlocked", "consents", "queued"}, Goes(c, pc)
    PROVE  CallsOk'
<1> DEFINE r == [calls[c] EXCEPT !.pc = pc]
<1>1. calls[c] \in Call
  BY CallType
<1>2. r \in Call /\ r.op = calls[c].op /\ r.site = calls[c].site /\ r.addr = calls[c].addr
  BY <1>1 DEF Call
<1>3. calls' = [calls EXCEPT ![c] = r]
  BY DEF Goes
<1> HIDE DEF r
<1>4. r.op = "connect" => <<r.site, r.addr>> \in given'
  BY <1>2 DEF CallsOk
<1> QED BY <1>2, <1>3, <1>4, OneCallOk

LEMMA BeginOk ==
    ASSUME CallsOk, given \subseteq given', NEW c \in Calls, NEW op \in Ids,
           NEW pc \in {"addr", "unlocked", "queued", "tell"},
           NEW o \in Origins \cup {None}, NEW a \in Accounts \cup {None}, Begin(c, op, pc, o, a),
           op = "connect" => <<o, a>> \in given'
    PROVE  CallsOk'
<1> DEFINE r == [op |-> op, pc |-> pc, site |-> o, addr |-> a]
<1>1. r \in Call /\ (r.op = "connect" => <<r.site, r.addr>> \in given')
  BY DEF Call
<1>2. calls' = [calls EXCEPT ![c] = r]
  BY DEF Begin
<1> QED BY <1>1, <1>2, OneCallOk

\* The chain: typed, its grants are approvals, and its head alone has read the map.
JobsOk == /\ jobs \in Seq(Job) /\ ChainInv
          /\ \A i \in DOMAIN jobs : jobs[i].kind = "grant" => <<jobs[i].site, jobs[i].addr>> \in given
StoreOk == consents \in Consents /\ ConsentWasGiven

LEMMA SameJobs ==
    ASSUME JobsOk, given \subseteq given', jobs' = jobs, consents' = consents PROVE JobsOk'
  BY DEF JobsOk, ChainInv

LEMMA SameStore == ASSUME StoreOk, given \subseteq given', consents' = consents PROVE StoreOk'
  BY DEF StoreOk, ConsentWasGiven

LEMMA NoneStored == NoConsents \in Consents
  BY DEF NoConsents, Consents

LEMMA EnqueueOk ==
    ASSUME JobsOk, given' = given, consents' = consents,
           NEW c \in Calls, NEW kind \in {"grant", "revoke", "wipe"},
           NEW o \in Origins \cup {None}, NEW a \in Accounts \cup {None}, Enqueue(c, kind, o, a),
           kind = "grant" => <<o, a>> \in given
    PROVE  JobsOk'
<1> DEFINE j == [of |-> c, kind |-> kind, site |-> o, addr |-> a, at |-> "read", snap |-> NoConsents]
<1>1. j \in Job
  BY NoneStored DEF Job
<1>2. jobs' = Append(jobs, j) /\ jobs \in Seq(Job)
  BY DEF Enqueue, JobsOk
<1> HIDE DEF j
<1>3. /\ jobs' \in Seq(Job) /\ DOMAIN jobs' = 1..Len(jobs) + 1 /\ Len(jobs) \in Nat
      /\ \A i \in 1..Len(jobs) : jobs'[i] = jobs[i] /\ i \in DOMAIN jobs
      /\ jobs'[Len(jobs) + 1] = j
  BY <1>1, <1>2, AppendProperties, SeqDomain
<1>4. \A i \in DOMAIN jobs' : (i \in DOMAIN jobs /\ jobs'[i] = jobs[i]) \/ jobs'[i] = j
  BY <1>3
<1>5. j.at = "read" /\ j.kind = kind /\ j.site = o /\ j.addr = a
  BY DEF j
<1> QED BY <1>3, <1>4, <1>5 DEF JobsOk, ChainInv

\* A chain whose head left it.
LEMMA TakenOk ==
    ASSUME JobsOk, given' = given, jobs # <<>>, jobs' \in Seq(Job),
           \A i \in DOMAIN jobs' : i + 1 \in DOMAIN jobs /\ jobs'[i] = jobs[i + 1]
    PROVE  JobsOk'
<1>1. \A i \in DOMAIN jobs' : i \in Nat \ {0}
  BY SeqDomain
<1>2. \A i \in DOMAIN jobs' : jobs'[i].at = "read"
  BY <1>1 DEF JobsOk, ChainInv
<1> QED BY <1>2 DEF JobsOk, ChainInv

-----------------------------------------------------------------------------
(* The actions *)

Parts == unlocked \in BOOLEAN /\ acct \in Accounts /\ given \subseteq Origins \X Accounts
         /\ KnowsOk /\ CallsOk /\ JobsOk /\ StoreOk

LEMMA InvIsParts == ConsentIInv <=> Parts
  BY DEF ConsentIInv, Parts, ConsentInv, ConsentTypeOK, GivenInv, KnowsOk, CallsOk, JobsOk, StoreOk

Still == unlocked' = unlocked /\ acct' = acct /\ given' = given
NoWrite == consents' = consents

LEMMA InitParts == ConsentInit => Parts
<1> SUFFICES ASSUME ConsentInit PROVE Parts
  OBVIOUS
<1>1. KnowsOk /\ StoreOk
  BY NoneStored DEF ConsentInit, KnowsOk, StoreOk, KnowsOnlyApproved, ConsentWasGiven, NoConsents
<1>2. CallsOk
  BY DEF ConsentInit, CallsOk, NoCall, Call, Ids
<1>3. JobsOk
  BY EmptySeq DEF ConsentInit, JobsOk, ChainInv
<1> QED BY <1>1, <1>2, <1>3 DEF ConsentInit, Parts

\* A page's call, and the popup's, up to its place in the chain.
LEMMA PageCalls ==
    ASSUME Parts, NEW c \in Calls,
           \/ ReadAddr(c) \/ ReadUnlocked(c) \/ AnswerAddress(c) \/ AnswerPermissions(c)
           \/ Grant(c) \/ EmitConnected(c) \/ ResetWallet(c)
    PROVE  Parts'
<1> USE DEF Parts
<1>1. CASE ReadAddr(c)
  <2>1. UNCHANGED <<unlocked, acct, consents, jobs, knows, given>>
    BY <1>1 DEF ReadAddr
  <2>2. CallsOk'
    <3>1. CASE ~Reviewed(c)
      BY <1>1, <2>1, <3>1, EndsOk DEF ReadAddr
    <3>2. CASE Reviewed(c)
      <4> DEFINE r == [calls[c] EXCEPT !.pc = "unlocked", !.addr = acct]
      <4>1. calls' = [calls EXCEPT ![c] = r]
        BY <1>1, <3>2 DEF ReadAddr
      <4>2. r \in Call /\ r.op = calls[c].op /\ r.site = calls[c].site /\ r.addr = acct
        BY CallType DEF Call
      <4> HIDE DEF r
      <4>3. r.op = "connect" => <<r.site, r.addr>> \in given'
        BY <2>1, <3>2, <4>2 DEF Reviewed, CallsOk
      <4> QED BY <2>1, <4>1, <4>2, <4>3, OneCallOk
    <3> QED BY <3>1, <3>2
  <2> QED BY <2>1, <2>2, SameKnows, SameJobs, SameStore
<1>2. CASE ReadUnlocked(c)
  <2>1. UNCHANGED <<unlocked, acct, consents, jobs, knows, given>> /\ (Goes(c, "consents") \/ Ends(c))
    BY <1>2 DEF ReadUnlocked
  <2>2. CallsOk'
    BY <2>1, GoesOk, EndsOk
  <2> QED BY <2>1, <2>2, SameKnows, SameJobs, SameStore
<1>3. CASE AnswerAddress(c)
  <2>1. UNCHANGED <<unlocked, acct, consents, jobs, given>> /\ Ends(c)
    BY <1>3 DEF AnswerAddress
  <2>2. KnowsOk'
    <3>1. CASE MaySee(calls[c].site, calls[c].addr)
      <4>1. Learns(calls[c].site, calls[c].addr)
        BY <1>3, <3>1 DEF AnswerAddress
      <4>2. calls[c].site \in Origins => /\ calls[c].addr \in Accounts \cup {None}
                                         /\ calls[c].addr # None => <<calls[c].site, calls[c].addr>> \in given'
        BY <2>1, <3>1, CallType DEF MaySee, StoreOk, ConsentWasGiven
      <4> QED BY <2>1, <4>1, <4>2, LearnsOk
    <3>2. CASE ~MaySee(calls[c].site, calls[c].addr)
      BY <1>3, <2>1, <3>2, SameKnows DEF AnswerAddress
    <3> QED BY <3>1, <3>2
  <2> QED BY <2>1, <2>2, EndsOk, SameJobs, SameStore
<1>4. CASE AnswerPermissions(c)
  <2>1. UNCHANGED <<unlocked, acct, consents, jobs, given>> /\ Ends(c)
    BY <1>4 DEF AnswerPermissions
  <2>2. KnowsOk'
    <3> DEFINE a == consents[calls[c].site]
    <3>1. CASE a # None
      <4>1. Learns(calls[c].site, a)
        BY <1>4, <3>1 DEF AnswerPermissions
      <4>2. calls[c].site \in Origins => /\ a \in Accounts \cup {None}
                                         /\ a # None => <<calls[c].site, a>> \in given'
        BY <2>1 DEF StoreOk, ConsentWasGiven, Consents
      <4> HIDE DEF a
      <4> QED BY <2>1, <4>1, <4>2, LearnsOk
    <3>2. CASE a = None
      BY <1>4, <2>1, <3>2, SameKnows DEF AnswerPermissions
    <3> QED BY <3>1, <3>2
  <2> QED BY <2>1, <2>2, EndsOk, SameJobs, SameStore
<1>5. CASE Grant(c)
  <2>1. UNCHANGED <<unlocked, acct, consents, knows, given>> /\ calls[c].op = "connect"
    BY <1>5 DEF Grant, At
  <2>2. CASE unlocked
    <3>1. Goes(c, "queued") /\ Enqueue(c, "grant", calls[c].site, calls[c].addr)
      BY <1>5, <2>2 DEF Grant
    <3>2. <<calls[c].site, calls[c].addr>> \in given
      BY <2>1 DEF CallsOk
    <3>3. JobsOk'
      BY <2>1, <3>1, <3>2, CallType, EnqueueOk
    <3> QED BY <2>1, <3>1, <3>3, GoesOk, SameKnows, SameStore
  <2>3. CASE ~unlocked
    <3>1. Ends(c) /\ UNCHANGED jobs
      BY <1>5, <2>3 DEF Grant
    <3> QED BY <2>1, <3>1, EndsOk, SameKnows, SameJobs, SameStore
  <2> QED BY <2>2, <2>3
<1>6. CASE EmitConnected(c)
  <2>1. UNCHANGED <<unlocked, acct, consents, jobs, given>> /\ Ends(c) /\ Loses(Connected)
    BY <1>6 DEF EmitConnected
  <2> QED BY <2>1, LosesOk, EndsOk, SameJobs, SameStore
<1>7. CASE ResetWallet(c)
  <2>1. UNCHANGED <<acct, consents, jobs, knows, given>> /\ Ends(c) /\ unlocked' = FALSE
    BY <1>7 DEF ResetWallet
  <2> QED BY <2>1, SameKnows, EndsOk, SameJobs, SameStore
<1> QED BY <1>1, <1>2, <1>3, <1>4, <1>5, <1>6, <1>7

\* A call begins.
LEMMA NewCalls ==
    ASSUME Parts, NEW c \in Calls,
           \/ \E o \in Origins : \/ AskAddress(c, o) \/ AskPermissions(c, o)
                                 \/ \E op \in {"revoke", "disconnect"} : Revoke(c, o, op)
                                 \/ \E a \in Accounts : ApproveConnect(c, o, a)
           \/ Lock(c) \/ Reset(c) \/ \E a \in Accounts : Switch(c, a)
    PROVE  Parts'
<1> USE DEF Parts
<1>1. ASSUME NEW o \in Origins, AskAddress(c, o) \/ AskPermissions(c, o) PROVE Parts'
  <2>1. UNCHANGED <<unlocked, acct, consents, jobs, knows, given>>
    BY <1>1 DEF AskAddress, AskPermissions
  <2>2. \/ Begin(c, "getAddress", "addr", o, None) \/ Begin(c, "getPermissions", "unlocked", o, None)
    BY <1>1 DEF AskAddress, AskPermissions
  <2>3. CallsOk'
    BY <2>1, <2>2, BeginOk DEF Ids
  <2> QED BY <2>1, <2>3, SameKnows, SameJobs, SameStore
<1>2. ASSUME NEW o \in Origins, NEW op \in {"revoke", "disconnect"}, Revoke(c, o, op) PROVE Parts'
  <2>1. /\ UNCHANGED <<unlocked, acct, consents, knows, given>>
        /\ Begin(c, op, "queued", o, None) /\ Enqueue(c, "revoke", o, None)
    BY <1>2 DEF Revoke
  <2>2. CallsOk'
    BY <2>1, BeginOk DEF Ids
  <2>3. JobsOk'
    BY <2>1, EnqueueOk
  <2> QED BY <2>1, <2>2, <2>3, SameKnows, SameStore
<1>3. ASSUME NEW o \in Origins, NEW a \in Accounts, ApproveConnect(c, o, a) PROVE Parts'
  <2>1. /\ UNCHANGED <<unlocked, acct, consents, jobs, knows>> /\ given' = given \cup {<<o, a>>}
        /\ Begin(c, "connect", "addr", o, a)
    BY <1>3 DEF ApproveConnect
  <2>2. given \subseteq given' /\ <<o, a>> \in given' /\ given' \subseteq Origins \X Accounts
    BY <2>1
  <2>3. CallsOk'
    BY <2>1, <2>2, BeginOk DEF Ids
  <2> QED BY <2>1, <2>2, <2>3, SameKnows, SameJobs, SameStore
<1>4. ASSUME Lock(c) \/ \E a \in Accounts : Switch(c, a) PROVE Parts'
  <2>1. /\ UNCHANGED <<consents, jobs, knows, given>> /\ unlocked' \in BOOLEAN /\ acct' \in Accounts
        /\ Begin(c, "lock", "tell", None, None) \/ Begin(c, "switch", "tell", None, None)
    BY <1>4 DEF Lock, Switch
  <2>2. CallsOk'
    BY <2>1, BeginOk DEF Ids
  <2> QED BY <2>1, <2>2, SameKnows, SameJobs, SameStore
<1>5. ASSUME Reset(c) PROVE Parts'
  <2>1. /\ UNCHANGED <<unlocked, acct, consents, knows, given>>
        /\ Begin(c, "reset", "queued", None, None) /\ Enqueue(c, "wipe", None, None)
    BY <1>5 DEF Reset
  <2>2. CallsOk'
    BY <2>1, BeginOk DEF Ids
  <2>3. JobsOk'
    BY <2>1, EnqueueOk
  <2> QED BY <2>1, <2>2, <2>3, SameKnows, SameStore
<1> QED BY <1>1, <1>2, <1>3, <1>4, <1>5

LEMMA WalletSteps == ASSUME Parts, Unlock \/ \E a \in Accounts : AddAccount(a) PROVE Parts'
<1>1. UNCHANGED <<consents, calls, jobs, knows, given>> /\ unlocked' \in BOOLEAN /\ acct' \in Accounts
  BY DEF Unlock, AddAccount, Parts
<1> QED BY <1>1, SameKnows, SameCalls, SameJobs, SameStore DEF Parts

-----------------------------------------------------------------------------
(* The chain *)

\* The running write, and what it reads.
LEMMA HeadIs ==
    ASSUME JobsOk, NEW i, Runs(i)
    PROVE  i = 1 /\ jobs # <<>> /\ 1 \in DOMAIN jobs /\ jobs[1] \in Job
<1>1. Len(jobs) \in Nat \ {0} /\ DOMAIN jobs = 1..Len(jobs)
  BY EmptySeq, SeqDomain DEF JobsOk, Runs
<1> QED BY <1>1, ElementOfSeq DEF JobsOk, Runs

LEMMA ReadsOk == ASSUME Parts, NEW i, JobReads(i) PROVE Parts'
<1>1. /\ i = 1 /\ jobs # <<>> /\ 1 \in DOMAIN jobs /\ jobs[1] \in Job
      /\ UNCHANGED <<unlocked, acct, consents, calls, knows, given>>
  BY HeadIs DEF JobReads, Parts
<1> DEFINE j == [jobs[1] EXCEPT !.at = "write", !.snap = consents]
<1>2. jobs' = [jobs EXCEPT ![1] = j]
  BY <1>1 DEF JobReads
<1>3. /\ j \in Job /\ j.at = "write" /\ j.snap = consents /\ j.kind = jobs[1].kind
      /\ j.site = jobs[1].site /\ j.addr = jobs[1].addr
  BY <1>1 DEF Job, Parts, StoreOk
<1> HIDE DEF j
<1>4. jobs \in Seq(Job) /\ DOMAIN jobs = 1..Len(jobs)
  BY SeqDomain DEF Parts, JobsOk
<1>5. /\ jobs' \in Seq(Job) /\ DOMAIN jobs' = DOMAIN jobs /\ jobs'[1] = j
      /\ \A k \in DOMAIN jobs : k # 1 => jobs'[k] = jobs[k]
  <2>1. jobs' \in Seq(Job)
    BY <1>1, <1>2, <1>3, <1>4, ExceptSeq
  <2> QED BY Zenon, <1>1, <1>2, <2>1
<1>6. JobsOk'
  BY <1>1, <1>3, <1>5 DEF Parts, JobsOk, ChainInv
<1> QED BY <1>1, <1>6, SameKnows, SameCalls, SameStore DEF Parts

LEMMA WritesOk == ASSUME Parts, NEW i, JobWrites(i) PROVE Parts'
<1> DEFINE j == jobs[1]
<1>1. /\ i = 1 /\ jobs # <<>> /\ 1 \in DOMAIN jobs /\ j \in Job /\ j.at = "write"
      /\ UNCHANGED <<unlocked, acct, given>>
  BY HeadIs DEF JobWrites, Parts
<1>2. /\ j.snap = consents /\ (j.kind = "grant" => <<j.site, j.addr>> \in given)
  BY <1>1 DEF Parts, JobsOk, ChainInv
<1>3. /\ consents' = CASE j.kind = "grant"  -> [j.snap EXCEPT ![j.site] = j.addr]
                       [] j.kind = "revoke" -> Without(j.snap, j.site)
                       [] j.kind = "wipe"   -> NoConsents
      /\ Settles(j) /\ jobs' = RemoveAt(jobs, 1)
  BY <1>1 DEF JobWrites
<1>4. /\ j.kind \in {"grant", "revoke", "wipe"} /\ j.of \in Calls
      /\ j.site \in Origins \cup {None} /\ j.addr \in Accounts \cup {None}
  BY <1>1 DEF Job
<1> HIDE DEF j
<1>5. JobsOk'
  <2>1. /\ jobs' \in Seq(Job)
        /\ \A k \in DOMAIN jobs' : k + 1 \in DOMAIN jobs /\ jobs'[k] = jobs[k + 1]
    BY <1>1, <1>3, TakenOff DEF Parts, JobsOk
  <2> QED BY <1>1, <2>1, TakenOk DEF Parts
<1>6. StoreOk'
  BY <1>1, <1>2, <1>3, <1>4, NoneStored
     DEF Parts, StoreOk, ConsentWasGiven, Without, Consents, NoConsents
<1>7. KnowsOk' /\ CallsOk'
  <2>1. CASE j.kind = "grant"
    <3>1. Learns(j.site, j.addr) /\ Ends(j.of)
      BY <1>3, <2>1 DEF Settles
    <3> QED BY <1>1, <1>2, <1>4, <2>1, <3>1, LearnsOk, EndsOk DEF Parts
  <2>2. CASE j.kind = "revoke"
    <3>1. Loses({j.site}) /\ Ends(j.of)
      BY <1>3, <2>2 DEF Settles
    <3> QED BY <1>1, <1>4, <3>1, LosesOk, EndsOk DEF Parts
  <2>3. CASE j.kind = "wipe"
    <3>1. UNCHANGED knows /\ Goes(j.of, "unlocked")
      BY <1>3, <2>3 DEF Settles
    <3> QED BY <1>1, <1>4, <3>1, SameKnows, GoesOk DEF Parts
  <2> QED BY <1>4, <2>1, <2>2, <2>3
<1> QED BY <1>1, <1>5, <1>6, <1>7 DEF Parts

LEMMA FailsOk == ASSUME Parts, JobFails PROVE Parts'
<1>1. /\ jobs # <<>> /\ jobs \in Seq(Job) /\ Ends(jobs[1].of) /\ jobs' = Tail(jobs)
      /\ UNCHANGED <<unlocked, acct, consents, knows, given>>
  BY DEF JobFails, AfterFailure, Parts, JobsOk
<1>2. jobs[1].of \in Calls
  BY <1>1, HeadIs DEF Parts, Runs, Job
<1>3. /\ jobs' \in Seq(Job)
      /\ \A k \in DOMAIN jobs' : k + 1 \in DOMAIN jobs /\ jobs'[k] = jobs[k + 1]
  <2>1. /\ Tail(jobs) \in Seq(Job) /\ Len(Tail(jobs)) = Len(jobs) - 1
        /\ \A k \in 1..Len(Tail(jobs)) : Tail(jobs)[k] = jobs[k + 1]
    BY <1>1, HeadTailProperties
  <2>2. DOMAIN jobs = 1..Len(jobs) /\ Len(jobs) \in Nat /\ DOMAIN Tail(jobs) = 1..Len(Tail(jobs))
    BY <1>1, <2>1, SeqDomain
  <2> QED BY <1>1, <2>1, <2>2
<1> QED BY <1>1, <1>2, <1>3, TakenOk, EndsOk, SameKnows, SameStore DEF Parts

-----------------------------------------------------------------------------
(* The theorems *)

LEMMA PartsStep == Parts /\ [ConsentNext]_consentVars => Parts'
<1> SUFFICES ASSUME Parts, [ConsentNext]_consentVars PROVE Parts'
  OBVIOUS
<1>1. CASE UNCHANGED consentVars
  BY <1>1, SameKnows, SameCalls, SameJobs, SameStore DEF consentVars, Parts
<1>2. ASSUME NEW c \in Calls,
             \/ Step(c) \/ Lock(c) \/ Reset(c)
             \/ \E a \in Accounts : Switch(c, a)
             \/ \E o \in Origins : \/ AskAddress(c, o) \/ AskPermissions(c, o)
                                   \/ \E op \in {"revoke", "disconnect"} : Revoke(c, o, op)
                                   \/ \E a \in Accounts : ApproveConnect(c, o, a)
      PROVE  Parts'
  BY <1>2, PageCalls, NewCalls DEF Step
<1>3. CASE Works
  BY <1>3, ReadsOk, WritesOk, FailsOk DEF Works
<1>4. CASE Unlock \/ \E a \in Accounts : AddAccount(a)
  BY <1>4, WalletSteps
<1> QED BY <1>1, <1>2, <1>3, <1>4 DEF ConsentNext

LEMMA PartsInvariant == ConsentSpec => []Parts
  BY InitParts, PartsStep, PTL DEF ConsentSpec

\* A site knows an address, and the store holds a consent, only if the user approved
\* this account for this site in a window that showed it, whatever locks, switches,
\* resets and rejected writes fall between (background.ts resolvePending, inConsentChain).
THEOREM OnlyApprovedIsKnown == ConsentSpec => []ConsentInv
<1>1. Parts => ConsentInv
  BY InvIsParts DEF ConsentIInv
<1> QED BY <1>1, PartsInvariant, PTL

\* A consent appears in the store only by the running grant of that very site: no
\* other site's read and write brings back what was removed meanwhile.
THEOREM RemovedStaysRemoved == ConsentSpec => NoWriteBack
<1> DEFINE Fresh == \A o \in Origins :
          consents'[o] \notin {None, consents[o]} =>
              \E i \in DOMAIN jobs : /\ jobs[i].kind = "grant" /\ jobs[i].site = o
                                     /\ jobs[i].addr = consents'[o]
<1>1. Parts /\ [ConsentNext]_consentVars => [Fresh]_consentVars
  <2> SUFFICES ASSUME Parts, ConsentNext PROVE Fresh
    BY DEF consentVars
  <2>1. ASSUME consents' = consents PROVE Fresh
    BY <2>1
  <2>2. ASSUME NEW i, JobWrites(i) PROVE Fresh
    <3> DEFINE j == jobs[1]
    <3>1. /\ 1 \in DOMAIN jobs /\ j.at = "write" /\ j \in Job
          /\ consents' = CASE j.kind = "grant"  -> [j.snap EXCEPT ![j.site] = j.addr]
                           [] j.kind = "revoke" -> Without(j.snap, j.site)
                           [] j.kind = "wipe"   -> NoConsents
      BY <2>2, HeadIs DEF JobWrites, Parts
    <3>2. j.snap = consents /\ consents \in Consents /\ j.kind \in {"grant", "revoke", "wipe"}
      BY <3>1 DEF Parts, JobsOk, ChainInv, StoreOk, Job
    <3> HIDE DEF j
    <3>3. ASSUME NEW o \in Origins, consents'[o] \notin {None, consents[o]}
          PROVE  j.kind = "grant" /\ j.site = o /\ j.addr = consents'[o]
      BY <3>1, <3>2, <3>3 DEF Without, NoConsents, Consents
    <3> QED BY <3>1, <3>3 DEF j
  <2>3. consents' = consents \/ \E i : JobWrites(i)
    BY DEF ConsentNext, Step, Works, Lock, Reset, Switch, AskAddress, AskPermissions, Revoke, ApproveConnect,
           AddAccount, Unlock, ReadAddr, ReadUnlocked, AnswerAddress, AnswerPermissions, Grant,
           EmitConnected, ResetWallet, JobReads, JobFails
  <2> QED BY <2>1, <2>2, <2>3
<1> QED BY <1>1, PartsInvariant, PTL DEF ConsentSpec, NoWriteBack
=============================================================================
