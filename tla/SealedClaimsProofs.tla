-------------------------- MODULE SealedClaimsProofs --------------------------
(***************************************************************************)
(* No preimage of a paid commit is lost, and no claim is published early,  *)
(* for any accounts, seals, cap and length of the chain, across locks,     *)
(* switches, failed writes and the eviction of old records.                *)
(*                                                                         *)
(* The argument has two halves.  OwnerInv says whose commit every record   *)
(* is of, wherever it is kept, and that a record marked revealed is of a   *)
(* public claim: so the cap, which evicts revealed records only, never     *)
(* evicts what is owed.  KeptInv follows the record through the chain: the *)
(* head that is about to write holds all that the stored list and the      *)
(* parked records of its account hold (CopyInv), and a head that has       *)
(* started has parked its own record before it stops counting as queued.   *)
(*                                                                         *)
(* The last part is about PendingContent: how bodies leave its queue.      *)
(***************************************************************************)
EXTENDS SealedClaims, PendingContent, TLAPS, SequenceTheorems, FiniteSetTheorems, FunctionTheorems

-----------------------------------------------------------------------------
(* Sequences as the sets of their elements: appending, popping, joining, selecting *)

LEMMA SeqIs ==
    ASSUME NEW S, NEW n \in Nat, NEW f \in [1..n -> S]
    PROVE  f \in Seq(S) /\ Len(f) = n /\ DOMAIN f = 1..n
  BY SMT

LEMMA ElemsTyped == ASSUME NEW S, NEW q \in Seq(S) PROVE ToSet(q) \subseteq S
  BY ElementOfSeq, LenProperties DEF ToSet

LEMMA NoElems == ToSet(<<>>) = {}
  BY EmptySeq, LenProperties DEF ToSet

LEMMA ElemsAppend ==
    ASSUME NEW S, NEW q \in Seq(S), NEW x \in S
    PROVE  Append(q, x) \in Seq(S) /\ ToSet(Append(q, x)) = ToSet(q) \cup {x}
  BY SMT, AppendProperties, LenProperties DEF ToSet

LEMMA ElemsTail ==
    ASSUME NEW S, NEW q \in Seq(S), q # <<>>
    PROVE  /\ Tail(q) \in Seq(S) /\ q[1] \in S
           /\ ToSet(q) = {q[1]} \cup ToSet(Tail(q))
<1>1. /\ Len(q) \in Nat \ {0} /\ DOMAIN q = 1..Len(q)
      /\ Tail(q) \in Seq(S) /\ Len(Tail(q)) = Len(q) - 1 /\ DOMAIN Tail(q) = 1..(Len(q) - 1)
      /\ \A i \in 1..(Len(q) - 1) : Tail(q)[i] = q[i + 1]
  BY EmptySeq, LenProperties, HeadTailProperties
<1>2. q[1] \in S
  BY <1>1, ElementOfSeq
<1>3. ToSet(Tail(q)) \subseteq ToSet(q) /\ q[1] \in ToSet(q)
  BY <1>1 DEF ToSet
<1>4. ASSUME NEW x \in ToSet(q) PROVE x = q[1] \/ x \in ToSet(Tail(q))
  <2>1. PICK i \in 1..Len(q) : x = q[i]
    BY <1>1 DEF ToSet
  <2>2. i # 1 => i - 1 \in 1..(Len(q) - 1) /\ x = Tail(q)[i - 1]
    BY <1>1, <2>1
  <2> QED BY <1>1, <2>1, <2>2 DEF ToSet
<1> QED BY <1>1, <1>2, <1>3, <1>4

LEMMA ElemsConcat ==
    ASSUME NEW S, NEW q \in Seq(S), NEW r \in Seq(S)
    PROVE  q \o r \in Seq(S) /\ ToSet(q \o r) = ToSet(q) \cup ToSet(r)
<1>1. /\ q \o r \in Seq(S) /\ Len(q) \in Nat /\ Len(r) \in Nat
      /\ DOMAIN q = 1..Len(q) /\ DOMAIN r = 1..Len(r) /\ DOMAIN (q \o r) = 1..Len(q) + Len(r)
      /\ \A i \in 1..Len(q) + Len(r) : (q \o r)[i] = IF i <= Len(q) THEN q[i] ELSE r[i - Len(q)]
  BY ConcatProperties, LenProperties
<1>2. ToSet(q \o r) \subseteq ToSet(q) \cup ToSet(r)
  BY <1>1 DEF ToSet
<1>3. ToSet(q) \subseteq ToSet(q \o r)
  <2> SUFFICES ASSUME NEW i \in 1..Len(q) PROVE q[i] \in ToSet(q \o r)
    BY <1>1 DEF ToSet
  <2> QED BY <1>1 DEF ToSet
<1>4. ToSet(r) \subseteq ToSet(q \o r)
  <2> SUFFICES ASSUME NEW i \in 1..Len(r) PROVE r[i] \in ToSet(q \o r)
    BY <1>1 DEF ToSet
  <2>1. Len(q) + i \in 1..Len(q) + Len(r) /\ (q \o r)[Len(q) + i] = r[i]
    BY <1>1
  <2> QED BY <1>1, <2>1 DEF ToSet
<1> QED BY <1>1, <1>2, <1>3, <1>4

\* What At selects is exactly what stands at the indices asked for: the ranks of
\* the members of I are 1..Cardinality(I), each once.
LEMMA ElemsAt ==
    ASSUME NEW S, NEW q \in Seq(S), NEW I \in SUBSET DOMAIN q
    PROVE  At(q, I) \in Seq(S) /\ ToSet(At(q, I)) = {q[i] : i \in I}
<1> DEFINE Upto(i) == {j \in I : j <= i}
           rank == [i \in I |-> Cardinality(Upto(i))]
           n == Cardinality(I)
           who(k) == CHOOSE i \in I : Cardinality(Upto(i)) = k
<1>1. DOMAIN q = 1..Len(q) /\ Len(q) \in Nat
  BY LenProperties
<1>2. IsFiniteSet(I) /\ n \in Nat
  <2>1. IsFiniteSet(1..Len(q))
    BY <1>1, FS_Interval
  <2>2. IsFiniteSet(I)
    BY <1>1, <2>1, FS_Subset
  <2> QED BY <2>2, FS_CardinalityType
<1>3. \A i \in I : IsFiniteSet(Upto(i)) /\ Cardinality(Upto(i)) \in 1..n
  <2> TAKE i \in I
  <2>1. Upto(i) \in SUBSET I /\ Upto(i) # {}
    BY <1>1
  <2>2. IsFiniteSet(Upto(i)) /\ Cardinality(Upto(i)) <= n
    BY <1>2, <2>1, FS_Subset
  <2>3. Cardinality(Upto(i)) \in Nat /\ Cardinality(Upto(i)) # 0
    BY <2>1, <2>2, FS_CardinalityType, FS_EmptySet
  <2> QED BY <1>2, <2>2, <2>3
<1>4. \A i, j \in I : i < j => Cardinality(Upto(i)) # Cardinality(Upto(j))
  <2> SUFFICES ASSUME NEW i \in I, NEW j \in I, i < j,
                      Cardinality(Upto(i)) = Cardinality(Upto(j))
               PROVE  FALSE
    OBVIOUS
  <2>1. Upto(i) \in SUBSET Upto(j) /\ j \in Upto(j) /\ j \notin Upto(i)
    BY <1>1
  <2>2. Upto(i) = Upto(j)
    <3> HIDE DEF Upto
    <3> QED BY <1>3, <2>1, FS_Subset
  <2> QED BY <2>1, <2>2
<1> HIDE DEF Upto
<1>5. rank \in Injection(I, 1..n)
  BY <1>1, <1>3, <1>4 DEF Injection, IsInjective
<1>6. rank \in Surjection(I, 1..n)
  <2>1. IsFiniteSet(1..n) /\ Cardinality(1..n) = n
    BY <1>2, FS_Interval
  <2> HIDE DEF rank
  <2> QED BY <1>2, <1>5, <2>1, FS_Injection
<1>7. \A k \in 1..n : \E i \in I : Cardinality(Upto(i)) = k
  BY <1>6 DEF Surjection
<1>8. \A k \in 1..n : who(k) \in I
  BY <1>7
<1>9. \A i \in I : who(Cardinality(Upto(i))) = i
  BY <1>1, <1>4
<1>10. At(q, I) = [k \in 1..n |-> q[who(k)]]
  BY DEF At, Upto
<1> HIDE DEF who, n
<1>11. At(q, I) \in [1..n -> S]
  BY <1>1, <1>8, <1>10, ElementOfSeq
<1>12. At(q, I) \in Seq(S) /\ DOMAIN At(q, I) = 1..n
  BY <1>2, <1>11, SeqIs
<1>13. ToSet(At(q, I)) = {q[i] : i \in I}
  BY <1>3, <1>8, <1>9, <1>10, <1>12 DEF ToSet
<1> QED BY <1>12, <1>13

-----------------------------------------------------------------------------
(* Lists of records, and what marking and capping leave of them *)

\* Reversing a mapped sequence leaves the mapped elements.
LEMMA ElemsFiled ==
    ASSUME NEW q \in Seq(Parked)
    PROVE  LET f == Reverse([i \in DOMAIN q |-> AsRec(q[i])])
           IN  f \in Seq(Rec) /\ ToSet(f) = {AsRec(p) : p \in ToSet(q)}
<1> DEFINE g == [i \in DOMAIN q |-> AsRec(q[i])]
           f == Reverse(g)
<1>1. Len(q) \in Nat /\ DOMAIN q = 1..Len(q) /\ \A i \in 1..Len(q) : q[i] \in Parked
  BY LenProperties, ElementOfSeq
<1>2. g \in [1..Len(q) -> Rec]
  BY <1>1 DEF AsRec, Rec, Parked
<1>3. g \in Seq(Rec) /\ Len(g) = Len(q)
  <2> HIDE DEF g
  <2> QED BY <1>1, <1>2, SeqIs
<1>4. f = [i \in 1..Len(q) |-> g[(Len(q) - i) + 1]]
  <2> HIDE DEF g
  <2> QED BY <1>3 DEF Reverse
<1>5. \A i \in 1..Len(q) : (Len(q) - i) + 1 \in 1..Len(q) /\ (Len(q) - ((Len(q) - i) + 1)) + 1 = i
  BY <1>1
<1>6. f \in [1..Len(q) -> Rec]
  <2> HIDE DEF g
  <2> QED BY <1>2, <1>4, <1>5
<1>7. f \in Seq(Rec) /\ DOMAIN f = 1..Len(q)
  <2> HIDE DEF f
  <2> QED BY <1>1, <1>6, SeqIs
<1>8. ToSet(f) = ToSet(g)
  <2> HIDE DEF g
  <2>1. \A i \in 1..Len(q) : f[i] = g[(Len(q) - i) + 1] /\ g[i] = f[(Len(q) - i) + 1]
    BY <1>4, <1>5
  <2>2. DOMAIN g = 1..Len(q)
    BY <1>2
  <2> HIDE DEF f
  <2> QED BY <1>5, <1>7, <2>1, <2>2 DEF ToSet
<1>9. ToSet(g) = {AsRec(p) : p \in ToSet(q)}
  BY <1>1 DEF ToSet
<1> QED BY <1>7, <1>8, <1>9

LEMMA ElemsMark ==
    ASSUME NEW q \in Seq(Rec) \cup Seq(Parked), NEW s \in Seals
    PROVE  /\ q \in Seq(Rec) => Mark(q, s) \in Seq(Rec)
           /\ q \in Seq(Parked) => Mark(q, s) \in Seq(Parked)
           /\ DOMAIN Mark(q, s) = DOMAIN q
           /\ \A i \in DOMAIN q : /\ Mark(q, s)[i].seal = q[i].seal
                                  /\ Mark(q, s)[i].revealed => q[i].revealed \/ q[i].seal = s
                                  /\ q \in Seq(Parked) => Mark(q, s)[i].acct = q[i].acct
<1>1. Len(q) \in Nat /\ DOMAIN q = 1..Len(q)
  BY LenProperties
<1>2. q \in Seq(Rec) => \A i \in 1..Len(q) : q[i] \in Rec
  BY ElementOfSeq
<1>3. q \in Seq(Parked) => \A i \in 1..Len(q) : q[i] \in Parked
  BY ElementOfSeq
<1>4. q \in Seq(Rec) => Mark(q, s) \in [1..Len(q) -> Rec]
  BY <1>1, <1>2 DEF Mark, Rec
<1>5. q \in Seq(Parked) => Mark(q, s) \in [1..Len(q) -> Parked]
  BY <1>1, <1>3 DEF Mark, Parked
<1>6. \A i \in DOMAIN q : /\ Mark(q, s)[i].seal = q[i].seal
                          /\ Mark(q, s)[i].revealed => q[i].revealed \/ q[i].seal = s
                          /\ q \in Seq(Parked) => Mark(q, s)[i].acct = q[i].acct
  BY <1>1, <1>2, <1>3 DEF Mark, Rec, Parked
<1>7. (q \in Seq(Rec) => Mark(q, s) \in Seq(Rec)) /\ (q \in Seq(Parked) => Mark(q, s) \in Seq(Parked))
  BY <1>1, <1>4, <1>5, SeqIs
<1> QED BY <1>1, <1>6, <1>7 DEF Mark

\* The cap evicts revealed records only.
LEMMA CapKeeps ==
    ASSUME NEW q \in Seq(Rec)
    PROVE  /\ CapSeals(q) \in Seq(Rec) /\ ToSet(CapSeals(q)) \subseteq ToSet(q)
           /\ \A r \in ToSet(q) : r.revealed \/ r \in ToSet(CapSeals(q))
<1> DEFINE Evicted(i) == /\ q[i].revealed /\ Len(q) > Cap
                         /\ Cardinality({j \in DOMAIN q : j > i /\ q[j].revealed}) < Len(q) - Cap
           kept == {i \in DOMAIN q : ~Evicted(i)}
<1>1. CapSeals(q) = At(q, kept)
  BY DEF CapSeals
<1>2. kept \in SUBSET DOMAIN q /\ \A i \in DOMAIN q : q[i].revealed \/ i \in kept
  OBVIOUS
<1> HIDE DEF kept
<1>3. CapSeals(q) \in Seq(Rec) /\ ToSet(CapSeals(q)) = {q[i] : i \in kept}
  BY <1>1, <1>2, ElemsAt
<1> QED BY <1>2, <1>3 DEF ToSet

-----------------------------------------------------------------------------
(* Types *)

\* What the chain is asked: to persist a record, or what is parked; to flag a
\* record; to wipe.
Orders == [kind: {"persist", "reveal"}, seal: Seals, acct: Accounts]
              \cup [kind: {"persist", "wipe"}, seal: {None}, acct: {None}]
Progress == [pc: {"start", "read", "write"}, todo: SUBSET Accounts,
             acct: Accounts \cup {None}, list: Seq(Rec)]
Sent == [pc: {"new", "sent", "over", "refused"}, acct: Accounts \cup {None}]
Asked == [pc: {"idle", "ask", "post", "write"}, acct: Accounts \cup {None}]

\* The parts of Typed that a step may disturb, each with the records it holds.
SealsTyped == seal \in [Seals -> Sent] /\ \A s \in Seals : seal[s].pc \in {"sent", "over"} => seal[s].acct \in Accounts
RevealsTyped == reveal \in [Seals -> Asked] /\ \A s \in Seals : reveal[s].pc # "idle" => reveal[s].acct \in Accounts
RunTyped == run \in Progress /\ (run.pc = "write" => run.acct \in Accounts)
RestTyped ==
    /\ unlocked \in BOOLEAN /\ wiped \in BOOLEAN /\ active \in Accounts
    /\ mined \in SUBSET Seals /\ public \in SUBSET Seals /\ owed \in SUBSET Seals

Typed ==
    /\ SealsTyped /\ RevealsTyped /\ RunTyped /\ RestTyped
    /\ list \in [Accounts -> Seq(Rec)] /\ parked \in Seq(Parked) /\ jobs \in Seq(Orders)

LEMMA TypedIsTypeOK == Typed => TypeOK
<1>1. Orders \subseteq Job
  BY DEF Orders, Job
<1>2. jobs \in Seq(Orders) => jobs \in Seq(Job)
  BY <1>1, SeqMonotonic
<1> QED BY <1>2 DEF Typed, TypeOK, SealsTyped, RevealsTyped, RunTyped, RestTyped, Sent, Asked, Progress

LEMMA Typing == Init => Typed
<1> SUFFICES ASSUME Init PROVE Typed
  OBVIOUS
<1>1. <<>> \in Seq(Rec) /\ <<>> \in Seq(Parked) /\ <<>> \in Seq(Orders)
  BY EmptySeq
<1>2. Still \in Progress /\ Still.pc = "start"
  BY <1>1 DEF Still, Progress
<1> QED BY <1>1, <1>2 DEF Init, Typed, SealsTyped, RevealsTyped, RunTyped, RestTyped, Sent, Asked

LEMMA HeadDone ==
    ASSUME Typed, jobs # <<>>, Done
    PROVE  jobs' \in Seq(Orders) /\ RunTyped'
<1>1. <<>> \in Seq(Rec)
  BY EmptySeq
<1>2. Still \in Progress /\ Still.pc = "start"
  BY <1>1 DEF Still, Progress
<1> QED BY <1>2, ElemsTail DEF Typed, Done, RunTyped

LEMMA Appended ==
    ASSUME Typed, NEW j \in Orders, jobs' = Append(jobs, j)
    PROVE  jobs' \in Seq(Orders)
  BY ElemsAppend DEF Typed

LEMMA RevealOver ==
    ASSUME Typed, NEW s \in Seals, RevealEnds(s)
    PROVE  RevealsTyped'
  BY DEF Typed, RevealEnds, RevealsTyped, Asked

LEMMA CallsTyped ==
    ASSUME Typed, NEW s \in Seals,
           \/ SealClaim(s) \/ SealRefused(s) \/ SealAnswered(s) \/ Mine(s)
           \/ RevealClaim(s) \/ RevealAsks(s) \/ RevealPosts(s)
    PROVE  Typed'
<1> USE DEF Typed
<1>1. CASE SealClaim(s)
  <2>1. SealsTyped'
    BY <1>1 DEF SealClaim, SealsTyped, RestTyped, Sent
  <2>2. RevealsTyped' /\ RunTyped' /\ RestTyped' /\ UNCHANGED store
    BY <1>1 DEF SealClaim, RevealsTyped, RunTyped, RestTyped, wallet, store, chain
  <2> QED BY <2>1, <2>2 DEF Typed, store
<1>2. CASE SealRefused(s)
  <2>1. SealsTyped'
    BY <1>2 DEF SealRefused, SealsTyped, Sent
  <2>2. RevealsTyped' /\ RunTyped' /\ RestTyped' /\ UNCHANGED store
    BY <1>2 DEF SealRefused, RevealsTyped, RunTyped, RestTyped, wallet, store, chain
  <2> QED BY <2>1, <2>2 DEF Typed, store
<1>3. CASE SealAnswered(s)
  <2>1. [kind |-> "persist", seal |-> s, acct |-> FilesUnder(s)] \in Orders
    BY <1>3 DEF SealAnswered, SealsTyped, Orders, FilesUnder
  <2>2. jobs' \in Seq(Orders)
    BY <1>3, <2>1, Appended DEF SealAnswered
  <2>3. SealsTyped'
    BY <1>3 DEF SealAnswered, SealsTyped, Sent
  <2>4. RevealsTyped' /\ RunTyped' /\ RestTyped' /\ UNCHANGED <<list, parked>>
    BY <1>3 DEF SealAnswered, RevealsTyped, RunTyped, RestTyped, wallet, chain
  <2> QED BY <2>2, <2>3, <2>4 DEF Typed
<1>4. CASE Mine(s)
  <2>1. SealsTyped' /\ RevealsTyped' /\ RunTyped' /\ RestTyped' /\ UNCHANGED store
    BY <1>4 DEF Mine, SealsTyped, RevealsTyped, RunTyped, RestTyped, wallet, store
  <2> QED BY <2>1 DEF Typed, store
<1>5. CASE RevealClaim(s)
  <2>1. RevealsTyped'
    BY <1>5 DEF RevealClaim, RevealsTyped, RestTyped, Asked
  <2>2. SealsTyped' /\ RunTyped' /\ RestTyped' /\ UNCHANGED store
    BY <1>5 DEF RevealClaim, SealsTyped, RunTyped, RestTyped, wallet, store, chain
  <2> QED BY <2>1, <2>2 DEF Typed, store
<1>6. CASE RevealAsks(s)
  <2>1. RevealsTyped'
    BY <1>6, RevealOver DEF RevealAsks, RevealsTyped, Asked
  <2>2. SealsTyped' /\ RunTyped' /\ RestTyped' /\ UNCHANGED store
    BY <1>6 DEF RevealAsks, SealsTyped, RunTyped, RestTyped, wallet, store, chain
  <2> QED BY <2>1, <2>2 DEF Typed, store
<1>7. CASE RevealPosts(s)
  <2> DEFINE j == [kind |-> "reveal", seal |-> s, acct |-> reveal[s].acct]
  <2>1. j \in Orders
    BY <1>7 DEF RevealPosts, RevealsTyped, Orders
  <2> HIDE DEF j
  <2>2. jobs' \in Seq(Orders)
    <3>1. jobs' = Append(jobs, j) \/ jobs' = jobs
      BY <1>7 DEF RevealPosts, j
    <3> QED BY <2>1, <3>1, Appended
  <2>3. RevealsTyped'
    <3>1. reveal' = [reveal EXCEPT ![s].pc = "write"] => RevealsTyped'
      BY <1>7 DEF RevealPosts, RevealsTyped, Asked
    <3> QED BY <1>7, <3>1, RevealOver DEF RevealPosts
  <2>4. SealsTyped' /\ RunTyped' /\ RestTyped' /\ UNCHANGED <<list, parked>>
    BY <1>7 DEF RevealPosts, SealsTyped, RunTyped, RestTyped, wallet
  <2> QED BY <2>2, <2>3, <2>4 DEF Typed
<1> QED BY <1>1, <1>2, <1>3, <1>4, <1>5, <1>6, <1>7

LEMMA WalletTyped ==
    ASSUME Typed, (\E a \in Accounts : Switch(a)) \/ Lock \/ Unlock \/ Reset \/ Create
    PROVE  Typed'
<1>1. \A k \in {"persist", "wipe"} : [kind |-> k, seal |-> None, acct |-> None] \in Orders
  BY DEF Orders
<1>2. jobs' \in Seq(Orders)
  BY <1>1, Appended DEF Typed, Switch, Lock, Unlock, Reset, Create, store
<1>3. SealsTyped' /\ RevealsTyped' /\ RunTyped'
  BY DEF Typed, Switch, Lock, Unlock, Reset, Create, store, SealsTyped, RevealsTyped, RunTyped
<1>4. RestTyped'
  BY DEF Typed, Switch, Lock, Unlock, Reset, Create, RestTyped, chain
<1>5. UNCHANGED <<list, parked>>
  BY DEF Switch, Lock, Unlock, Reset, Create, AfterLock, store
<1> QED BY <1>2, <1>3, <1>4, <1>5 DEF Typed

LEMMA KeyTyped ==
    ASSUME Typed, jobs # <<>>, NextKey
    PROVE  jobs' \in Seq(Orders) /\ RunTyped'
<1>1. CASE Done
  BY <1>1, HeadDone
<1>2. CASE run' = Reading(run.todo \ {run.acct}) /\ UNCHANGED jobs
  <2>1. <<>> \in Seq(Rec)
    BY EmptySeq
  <2>2. run.todo \ {run.acct} \subseteq Accounts
    BY DEF Typed, RunTyped, Progress
  <2> QED BY <1>2, <2>1, <2>2 DEF Typed, RunTyped, Progress, Reading
<1> QED BY <1>1, <1>2 DEF NextKey

LEMMA WorkTyped == ASSUME Typed, Work PROVE Typed'
<1> DEFINE j == jobs[1]
<1>0. jobs # <<>> /\ j \in Orders
  BY ElemsTail DEF Work, PersistStarts, PersistReads, FlagStarts, FlagWrites, PersistWrites,
                   PersistFails, Wipe, Running, Typed
<1> HIDE DEF j
<1>1. CASE PersistStarts
  <2> DEFINE now == IF Adds(j) THEN Park(j) ELSE parked
             todo == {now[i].acct : i \in DOMAIN now}
             go == Reading(todo)
  <2>1. now \in Seq(Parked)
    <3>1. Adds(j) => [acct |-> j.acct, seal |-> j.seal, revealed |-> FALSE] \in Parked
      BY <1>0, SealAssumption DEF Adds, Orders, Parked
    <3> QED BY <3>1, ElemsAppend DEF Typed, Park
  <2>2. todo \subseteq Accounts
    <3> HIDE DEF now
    <3>1. \A i \in DOMAIN now : now[i] \in Parked
      BY <2>1, LenProperties, ElementOfSeq
    <3> QED BY <3>1 DEF Parked
  <2>3. parked' \in Seq(Parked) /\ (Done \/ (run' = go /\ UNCHANGED jobs))
    <3>1. \/ Done /\ UNCHANGED parked
          \/ parked' = now /\ (Done \/ (run' = go /\ UNCHANGED jobs))
      BY <1>1 DEF PersistStarts, j
    <3> HIDE DEF now, go
    <3> QED BY <2>1, <3>1 DEF Typed
  <2>4. run' \in Progress /\ jobs' \in Seq(Orders) /\ RunTyped'
    <3>1. <<>> \in Seq(Rec)
      BY EmptySeq
    <3> HIDE DEF todo
    <3>2. CASE Done
      BY <1>0, <3>2, HeadDone DEF RunTyped
    <3>3. CASE run' = go /\ UNCHANGED jobs
      BY <2>2, <3>1, <3>3 DEF Typed, RunTyped, Progress, Reading
    <3> QED BY <2>3, <3>2, <3>3
  <2> QED BY <1>1, <2>3, <2>4 DEF Typed, PersistStarts, SealsTyped, RevealsTyped, RestTyped, wallet, chain
<1>2. ASSUME NEW a \in Accounts, PersistReads(a) PROVE Typed'
  <2> DEFINE new == At(parked, NewSeals(a))
             f == Reverse([i \in DOMAIN new |-> AsRec(new[i])])
             q == f \o list[a]
  <2>1. new \in Seq(Parked)
    BY ElemsAt DEF NewSeals, Typed
  <2>2. f \in Seq(Rec)
    <3> HIDE DEF new
    <3> QED BY <2>1, ElemsFiled
  <2>3. q \in Seq(Rec)
    <3> HIDE DEF f
    <3> QED BY <2>2, ConcatProperties DEF Typed
  <2>4. run' = [run EXCEPT !.pc = "write", !.acct = a, !.list = q]
    BY <1>2 DEF PersistReads
  <2> HIDE DEF q
  <2>5. RunTyped'
    BY <2>3, <2>4 DEF Typed, RunTyped, Progress
  <2> QED BY <1>2, <2>5 DEF Typed, PersistReads, SealsTyped, RevealsTyped, RestTyped, wallet, chain
<1>3. CASE PersistWrites
  <2>1. jobs' \in Seq(Orders) /\ RunTyped'
    BY <1>0, <1>3, KeyTyped DEF PersistWrites
  <2>2. parked' \in Seq(Parked)
    BY <1>3, ElemsAt DEF PersistWrites, Unparked, Typed
  <2>3. list' \in [Accounts -> Seq(Rec)]
    BY <1>3, CapKeeps DEF Typed, PersistWrites, RunTyped, Progress
  <2> QED BY <1>3, <2>1, <2>2, <2>3 DEF Typed, PersistWrites, SealsTyped, RevealsTyped, RestTyped, wallet, chain
<1>4. CASE PersistFails
  <2>1. jobs' \in Seq(Orders) /\ RunTyped'
    BY <1>0, <1>4, KeyTyped DEF PersistFails
  <2> QED BY <1>4, <2>1 DEF Typed, PersistFails, SealsTyped, RevealsTyped, RestTyped, wallet, chain
<1>5. CASE FlagStarts
  <2> DEFINE m == Mark(list[j.acct], j.seal)
             go == Writing(j.acct, m)
  <2>1. j.acct \in Accounts /\ j.seal \in Seals
    BY <1>0, <1>5 DEF FlagStarts, Running, Orders, j
  <2>2. parked' \in Seq(Parked)
    BY <1>5, <2>1, ElemsMark DEF FlagStarts, Typed, j
  <2>3. \/ Done /\ RevealEnds(j.seal)
        \/ run' = go /\ UNCHANGED <<jobs, reveal>>
    BY <1>5 DEF FlagStarts, j
  <2>4. RevealsTyped'
    BY <2>1, <2>3, RevealOver DEF Typed, RevealsTyped
  <2>5. RunTyped' /\ jobs' \in Seq(Orders)
    <3>1. m \in Seq(Rec)
      BY <2>1, ElemsMark DEF Typed
    <3> HIDE DEF m
    <3> QED BY <1>0, <2>1, <2>3, <3>1, HeadDone DEF Typed, RunTyped, Progress, Reading, Writing
  <2> QED BY <1>5, <2>2, <2>4, <2>5 DEF Typed, FlagStarts, SealsTyped, RestTyped, wallet, chain
<1>6. CASE FlagWrites
  <2>1. jobs' \in Seq(Orders) /\ RunTyped'
    BY <1>0, <1>6, HeadDone DEF FlagWrites
  <2>2. list' \in [Accounts -> Seq(Rec)]
    BY <1>6 DEF Typed, FlagWrites, RunTyped, Progress
  <2>3. RevealsTyped'
    BY <1>0, <1>6, RevealOver DEF FlagWrites, Running, Orders, j
  <2> QED BY <1>6, <2>1, <2>2, <2>3 DEF Typed, FlagWrites, SealsTyped, RestTyped, wallet, chain
<1>7. CASE Wipe
  <2>1. jobs' \in Seq(Orders) /\ RunTyped'
    BY <1>0, <1>7, HeadDone DEF Wipe
  <2>2. parked' \in Seq(Parked) /\ list' \in [Accounts -> Seq(Rec)]
    BY <1>7, EmptySeq DEF Wipe
  <2> QED BY <1>7, <2>1, <2>2 DEF Typed, Wipe, SealsTyped, RevealsTyped, RestTyped, wallet, chain
<1> QED BY <1>1, <1>2, <1>3, <1>4, <1>5, <1>6, <1>7 DEF Work

LEMMA TypingKept == ASSUME Typed, [Next]_vars PROVE Typed'
<1>1. CASE UNCHANGED vars
  BY <1>1 DEF Typed, vars, SealsTyped, RevealsTyped, RunTyped, RestTyped, wallet, store, chain
<1> QED BY <1>1, CallsTyped, WalletTyped, WorkTyped DEF Next


-----------------------------------------------------------------------------
(* Whose commit a record is of, and what is public *)

Settled(s, a) == seal[s].pc = "over" /\ seal[s].acct = a
Good(r, a) == Settled(r.seal, a) /\ (r.revealed => r.seal \in public)

ListsInv == \A a \in Accounts : \A r \in ToSet(list[a]) : Good(r, a)
ParkedInv == \A p \in ToSet(parked) : Good(p, p.acct)
RunInv == \A r \in ToSet(run.list) : Good(r, run.acct)

Sound(j) ==
    /\ j.kind = "persist" /\ j.seal # None => Settled(j.seal, j.acct)
    /\ j.kind = "reveal" => j.seal \in public
    /\ j.kind = "wipe" => wiped
JobsInv == \A j \in ToSet(jobs) : Sound(j)

PublishInv ==
    /\ public \subseteq mined /\ public \cap owed = {} /\ (wiped => owed = {})
    /\ \A s \in public \cup owed : seal[s].pc = "over"
    /\ \A s \in Seals : /\ reveal[s].pc # "idle" => seal[s].pc = "over"
                        /\ reveal[s].pc \in {"post", "write"} => s \in mined

OwnerInv == ListsInv /\ ParkedInv /\ RunInv /\ JobsInv /\ PublishInv

LEMMA NamedIs == ASSUME NEW q PROVE Named(q) = {r.seal : r \in ToSet(q)}
  BY DEF Named, ToSet

LEMMA HeadIn == ASSUME Typed, jobs # <<>> PROVE /\ jobs[1] \in Orders /\ jobs[1] \in ToSet(jobs)
                                                /\ ToSet(jobs) = {jobs[1]} \cup ToSet(Tail(jobs))
  BY ElemsTail DEF Typed

\* An answered commit keeps its account, and a public claim stays public.
LEMMA Grows ==
    ASSUME Typed, [Next]_vars
    PROVE  public \subseteq public' /\ \A s \in Seals : seal[s].pc = "over" => seal'[s] = seal[s]
<1>1. CASE UNCHANGED vars
  BY <1>1 DEF vars, chain
<1>2. ASSUME NEW s \in Seals,
             \/ SealClaim(s) \/ SealRefused(s) \/ SealAnswered(s) \/ Mine(s)
             \/ RevealClaim(s) \/ RevealAsks(s) \/ RevealPosts(s)
      PROVE  public \subseteq public' /\ \A t \in Seals : seal[t].pc = "over" => seal'[t] = seal[t]
  BY <1>2 DEF SealClaim, SealRefused, SealAnswered, Mine, RevealClaim, RevealAsks, RevealPosts,
              chain, Typed, SealsTyped, Sent
<1>3. CASE (\E a \in Accounts : Switch(a)) \/ Lock \/ Unlock \/ Reset \/ Create
  BY <1>3 DEF Switch, Lock, Unlock, Reset, Create, chain
<1>4. CASE Work
  BY <1>4 DEF Work, PersistStarts, PersistReads, FlagStarts, FlagWrites, PersistWrites,
              PersistFails, Wipe, chain
<1> QED BY <1>1, <1>2, <1>3, <1>4 DEF Next

LEMMA GoodStays ==
    ASSUME Typed, [Next]_vars, NEW r, r.seal \in Seals, NEW a, Good(r, a)
    PROVE  Good(r, a)'
  BY Grows DEF Good, Settled

\* The steps that leave a part alone.
LEMMA ListsStay == ASSUME Typed, OwnerInv, [Next]_vars, UNCHANGED list PROVE ListsInv'
<1>1. \A a \in Accounts : ToSet(list[a]) \subseteq Rec
  BY ElemsTyped DEF Typed
<1> QED BY <1>1, GoodStays DEF OwnerInv, ListsInv, Rec

LEMMA ParkedStay == ASSUME Typed, OwnerInv, [Next]_vars, ToSet(parked)' \subseteq ToSet(parked) PROVE ParkedInv'
<1>1. ToSet(parked) \subseteq Parked
  BY ElemsTyped DEF Typed
<1> QED BY <1>1, GoodStays DEF OwnerInv, ParkedInv, Parked

LEMMA RunStay == ASSUME Typed, OwnerInv, [Next]_vars, UNCHANGED run \/ run'.list = <<>> PROVE RunInv'
<1>1. ToSet(run.list) \subseteq Rec
  BY ElemsTyped DEF Typed, RunTyped, Progress
<1> QED BY <1>1, GoodStays, NoElems DEF OwnerInv, RunInv, Rec

LEMMA SoundStays ==
    ASSUME Typed, OwnerInv, [Next]_vars, ~Create, NEW j \in ToSet(jobs)
    PROVE  Sound(j)'
<1>1. j \in Orders
  BY ElemsTyped DEF Typed
<1>2. wiped => wiped'
  BY DEF Next, Work, PersistStarts, PersistReads, FlagStarts, FlagWrites, PersistWrites, PersistFails,
         Wipe, Switch, Lock, Unlock, Reset, SealClaim, SealRefused, SealAnswered, Mine, RevealClaim,
         RevealAsks, RevealPosts, vars, wallet
<1> QED BY <1>1, <1>2, Grows DEF OwnerInv, JobsInv, Sound, Settled, Orders


LEMMA JobsStay ==
    ASSUME Typed, OwnerInv, [Next]_vars, ~Create, ToSet(jobs)' \subseteq ToSet(jobs)
    PROVE  JobsInv'
  BY SoundStays DEF JobsInv

LEMMA JobsGrow ==
    ASSUME Typed, OwnerInv, [Next]_vars, ~Create, NEW j \in Orders,
           jobs' = Append(jobs, j), Sound(j)'
    PROVE  JobsInv'
<1>1. ToSet(jobs)' = ToSet(jobs) \cup {j}
  BY ElemsAppend DEF Typed
<1> QED BY <1>1, SoundStays DEF JobsInv

LEMMA CallsOwned ==
    ASSUME Typed, OwnerInv, NEW s \in Seals,
           \/ SealClaim(s) \/ SealRefused(s) \/ SealAnswered(s) \/ Mine(s)
           \/ RevealClaim(s) \/ RevealAsks(s) \/ RevealPosts(s)
    PROVE  OwnerInv'
<1>0. Next /\ ~Create
  <2>1. Create => seal' = seal /\ reveal' = reveal /\ mined' = mined /\ wiped' # wiped
    BY DEF Create, chain
  <2>2. UNCHANGED wiped
    BY DEF SealClaim, SealRefused, SealAnswered, Mine, RevealClaim, RevealAsks, RevealPosts, wallet
  <2> QED BY <2>1, <2>2 DEF Next
<1>1. UNCHANGED <<wiped, list, parked, run>>
  BY DEF SealClaim, SealRefused, SealAnswered, Mine, RevealClaim, RevealAsks, RevealPosts, wallet, store
<1>2. ListsInv' /\ ParkedInv' /\ RunInv'
  BY <1>0, <1>1, ListsStay, ParkedStay, RunStay
<1>3. JobsInv'
  <2>1. CASE SealAnswered(s)
    <3>1. PICK j \in Orders : j = [kind |-> "persist", seal |-> s, acct |-> seal[s].acct]
      BY <2>1 DEF SealAnswered, Typed, SealsTyped, Orders
    <3>2. Sound(j)'
      BY <2>1, <3>1 DEF SealAnswered, Sound, Settled, Typed, SealsTyped, Sent
    <3>3. jobs' = Append(jobs, j)
      BY <2>1, <3>1 DEF SealAnswered, FilesUnder
    <3> QED BY <1>0, <3>1, <3>2, <3>3, JobsGrow
  <2>2. CASE RevealPosts(s) /\ jobs' # jobs
    <3>1. PICK j \in Orders : j = [kind |-> "reveal", seal |-> s, acct |-> reveal[s].acct]
      BY <2>2 DEF RevealPosts, Typed, RevealsTyped, Orders
    <3>2. jobs' = Append(jobs, j) /\ Sound(j)'
      BY <2>2, <3>1 DEF RevealPosts, Sound
    <3> QED BY <1>0, <3>1, <3>2, JobsGrow
  <2>3. CASE UNCHANGED jobs
    BY <1>0, <2>3, JobsStay
  <2>4. UNCHANGED jobs \/ SealAnswered(s) \/ RevealPosts(s)
    BY DEF SealClaim, SealRefused, Mine, RevealClaim, RevealAsks, store
  <2> QED BY <2>1, <2>2, <2>3, <2>4
<1>4. PublishInv'
  <2>1. CASE SealClaim(s) \/ SealRefused(s)
    <3>1. UNCHANGED <<wiped, public, mined, owed, reveal>> /\ seal[s].pc # "over"
      BY <2>1 DEF SealClaim, SealRefused, wallet, store, chain
    <3>2. \A t \in Seals : t # s => seal'[t] = seal[t]
      BY <2>1 DEF SealClaim, SealRefused, Typed, SealsTyped, Sent
    <3> QED BY <3>1, <3>2 DEF OwnerInv, PublishInv, Typed, RestTyped
  <2>2. CASE SealAnswered(s)
    <3>1. public' = public /\ mined' = mined /\ reveal' = reveal /\ wiped' = wiped
      BY <2>2 DEF SealAnswered, wallet, chain
    <3>2. s \notin public /\ owed' \subseteq owed \cup {s} /\ (wiped => owed' = {})
      BY <2>2 DEF SealAnswered, OwnerInv, PublishInv
    <3>3. seal'[s].pc = "over" /\ \A t \in Seals : seal[t].pc = "over" => seal'[t].pc = "over"
      BY <2>2 DEF SealAnswered, Typed, SealsTyped, Sent
    <3> QED BY <3>1, <3>2, <3>3 DEF OwnerInv, PublishInv, Typed, RestTyped
  <2>3. CASE Mine(s)
    BY <2>3 DEF Mine, OwnerInv, PublishInv, wallet
  <2>4. CASE RevealClaim(s)
    <3>1. seal[s].pc = "over"
      <4>1. ASSUME NEW i \in DOMAIN parked PROVE parked[i] \in ToSet(parked)
        BY DEF ToSet
      <4> QED BY <2>4, <4>1, NamedIs DEF RevealClaim, Typed, RestTyped, OwnerInv, ListsInv, ParkedInv, Good, Settled
    <3>2. reveal' = [reveal EXCEPT ![s] = [pc |-> "ask", acct |-> active]]
      BY <2>4 DEF RevealClaim
    <3>3. UNCHANGED <<wiped, public, mined, owed, seal>>
      BY <2>4 DEF RevealClaim, wallet, chain
    <3> QED BY <3>1, <3>2, <3>3 DEF OwnerInv, PublishInv, Typed, RevealsTyped
  <2>5. CASE RevealAsks(s)
    <3>1. UNCHANGED <<wiped, public, mined, owed, seal>>
      BY <2>5 DEF RevealAsks, wallet, chain
    <3>2. \A t \in Seals : t # s => reveal'[t] = reveal[t]
      BY <2>5 DEF RevealAsks, RevealEnds, Typed, RevealsTyped, Asked
    <3>3. reveal[s].pc # "idle" /\ (reveal'[s].pc = "idle" \/ (reveal'[s].pc = "post" /\ s \in mined))
      BY <2>5 DEF RevealAsks, RevealEnds, MayPublish, Typed, RevealsTyped, Asked
    <3> QED BY <3>1, <3>2, <3>3 DEF OwnerInv, PublishInv
  <2>6. CASE RevealPosts(s)
    <3>1. UNCHANGED <<wiped, mined, seal>>
      BY <2>6 DEF RevealPosts, wallet
    <3>2. \A t \in Seals : t # s => reveal'[t] = reveal[t]
      BY <2>6 DEF RevealPosts, RevealEnds, Typed, RevealsTyped, Asked
    <3>3. reveal[s].pc = "post" /\ reveal'[s].pc \in {"idle", "write"}
      BY <2>6 DEF RevealPosts, RevealEnds, Typed, RevealsTyped, Asked
    <3>4. \/ public' = public \cup {s} /\ owed' = owed \ {s}
          \/ public' = public /\ owed' = owed
      BY <2>6 DEF RevealPosts
    <3> QED BY <3>1, <3>2, <3>3, <3>4 DEF OwnerInv, PublishInv
  <2> QED BY <2>1, <2>2, <2>3, <2>4, <2>5, <2>6
<1> QED BY <1>2, <1>3, <1>4 DEF OwnerInv

LEMMA WalletOwned ==
    ASSUME Typed, OwnerInv, (\E a \in Accounts : Switch(a)) \/ Lock \/ Unlock \/ Reset \/ Create
    PROVE  OwnerInv'
<1>1. Next
  BY DEF Next
<1>2. UNCHANGED <<list, parked, run>>
  BY DEF Switch, Lock, Unlock, Reset, Create, AfterLock, store
<1>3. ListsInv' /\ ParkedInv' /\ RunInv'
  BY <1>1, <1>2, ListsStay, ParkedStay, RunStay
<1>4. \A k \in {"persist", "wipe"} : [kind |-> k, seal |-> None, acct |-> None] \in Orders
  BY DEF Orders
<1>5. JobsInv'
  <2>1. CASE Create
    <3>1. \A j \in ToSet(jobs) : j.kind # "wipe" /\ Sound(j)
      BY <2>1 DEF Create, ToSet, OwnerInv, JobsInv
    <3>2. UNCHANGED <<jobs, seal, public>>
      BY <2>1 DEF Create, store, chain
    <3> QED BY <3>1, <3>2 DEF JobsInv, Sound, Settled
  <2>2. CASE ~Create /\ UNCHANGED jobs
    BY <1>1, <2>2, JobsStay
  <2>3. CASE ~Create /\ jobs' # jobs
    <3>1. PICK k \in {"persist", "wipe"} :
             /\ jobs' = Append(jobs, [kind |-> k, seal |-> None, acct |-> None])
             /\ k = "wipe" => wiped'
      BY <2>3 DEF Switch, Lock, Unlock, Reset, store
    <3> DEFINE j == [kind |-> k, seal |-> None, acct |-> None]
    <3>2. j \in Orders /\ Sound(j)'
      BY <1>4, <3>1 DEF Sound
    <3> HIDE DEF j
    <3> QED BY <1>1, <2>3, <3>1, <3>2, JobsGrow DEF j
  <2> QED BY <2>1, <2>2, <2>3
<1>6. PublishInv'
  BY DEF Switch, Lock, Unlock, Reset, Create, chain, OwnerInv, PublishInv
<1> QED BY <1>3, <1>5, <1>6 DEF OwnerInv


\* The running head does not touch the calls' records or the chain, and takes
\* jobs off the list only.
LEMMA WorkIs ==
    ASSUME Typed, Work
    PROVE  /\ Next /\ ~Create /\ jobs # <<>>
           /\ UNCHANGED <<wallet, seal, chain, owed>>
           /\ ToSet(jobs)' \subseteq ToSet(jobs)
<1>1. jobs # <<>> /\ UNCHANGED <<wallet, seal, chain, owed>>
  BY DEF Work, PersistStarts, PersistReads, FlagStarts, FlagWrites, PersistWrites,
         PersistFails, Wipe, Running
<1>2. ~Create
  BY <1>1 DEF Create, wallet
<1>3. Done \/ UNCHANGED jobs
  BY DEF Work, PersistStarts, PersistReads, FlagStarts, FlagWrites, PersistWrites,
         PersistFails, Wipe, NextKey
<1>4. ToSet(jobs)' \subseteq ToSet(jobs)
  BY <1>1, <1>3, HeadIn DEF Done
<1> QED BY <1>1, <1>2, <1>4 DEF Next

LEMMA WorkOwned == ASSUME Typed, OwnerInv, Work PROVE OwnerInv'
<1> DEFINE j == jobs[1]
<1>0. j \in Orders /\ Sound(j) /\ j = jobs[1]
  BY WorkIs, HeadIn DEF OwnerInv, JobsInv
<1> HIDE DEF j
<1>1. JobsInv'
  BY WorkIs, JobsStay
<1>2. PublishInv'
  <2>1. reveal' = reveal \/ RevealEnds(j.seal)
    BY <1>0 DEF Work, PersistStarts, PersistReads, FlagStarts, FlagWrites, PersistWrites,
                PersistFails, Wipe, j
  <2>2. \A s \in Seals : reveal'[s] = reveal[s] \/ reveal'[s].pc = "idle"
    BY <2>1 DEF RevealEnds, Typed, RevealsTyped, Asked
  <2> QED BY <2>2, WorkIs DEF OwnerInv, PublishInv, wallet, chain
<1>3. UNCHANGED <<seal, public>>
  BY WorkIs DEF chain
<1>4. ListsInv' /\ ParkedInv' /\ RunInv'
  <2>1. CASE PersistStarts
    <3>1. UNCHANGED list /\ run'.list = <<>>
      BY <2>1 DEF PersistStarts, Done, Still, Reading
    <3>2. ListsInv' /\ RunInv'
      BY <3>1, WorkIs, ListsStay, RunStay
    <3>3. CASE UNCHANGED parked
      BY <3>2, <3>3, WorkIs, ParkedStay
    <3>4. CASE Adds(j) /\ parked' = Park(j)
      <4>0. j.seal \in Seals /\ j.acct \in Accounts /\ Settled(j.seal, j.acct)
        BY <1>0, <2>1, <3>4 DEF PersistStarts, Running, Adds, Orders, Sound
      <4>1. PICK p \in Parked : p = [acct |-> j.acct, seal |-> j.seal, revealed |-> FALSE]
        BY <4>0 DEF Parked
      <4>2. ToSet(parked') = ToSet(parked) \cup {p}
        <5>1. parked' = Append(parked, p) /\ parked \in Seq(Parked)
          BY <3>4, <4>1 DEF Park, Typed
        <5> QED BY <5>1, ElemsAppend
      <4>3. \A q \in ToSet(parked) : Good(q, q.acct)'
        <5>1. ToSet(parked) \subseteq Parked
          BY ElemsTyped DEF Typed
        <5> QED BY <5>1, WorkIs, GoodStays DEF OwnerInv, ParkedInv, Parked
      <4>4. Good(p, p.acct)'
        BY <1>3, <4>0, <4>1 DEF Good, Settled
      <4> QED BY <3>2, <4>2, <4>3, <4>4 DEF ParkedInv
    <3>5. UNCHANGED parked \/ (Adds(j) /\ parked' = Park(j))
      BY <2>1 DEF PersistStarts, j
    <3> QED BY <3>2, <3>3, <3>4, <3>5
  <2>2. ASSUME NEW a \in Accounts, PersistReads(a) PROVE ListsInv' /\ ParkedInv' /\ RunInv'
    <3> DEFINE new == At(parked, NewSeals(a))
               front == Reverse([i \in DOMAIN new |-> AsRec(new[i])])
    <3>1. NewSeals(a) \in SUBSET DOMAIN parked /\ parked \in Seq(Parked) /\ list[a] \in Seq(Rec)
      BY DEF NewSeals, Typed
    <3>2. new \in Seq(Parked) /\ ToSet(new) = {parked[i] : i \in NewSeals(a)}
      BY <3>1, ElemsAt
    <3>3. \A p \in ToSet(new) : p \in ToSet(parked) /\ p.acct = a
      BY <3>2 DEF NewSeals, ToSet
    <3>4. front \in Seq(Rec) /\ ToSet(front) = {AsRec(p) : p \in ToSet(new)}
      <4> HIDE DEF new
      <4> QED BY <3>2, ElemsFiled
    <3>5. run'.list = front \o list[a] /\ run'.acct = a
      BY <2>2 DEF PersistReads, Typed, RunTyped, Progress
    <3> HIDE DEF front, new
    <3>6. ToSet(run'.list) = ToSet(front) \cup ToSet(list[a])
      BY <3>1, <3>4, <3>5, ElemsConcat
    <3>7. \A r \in ToSet(front) : Good(r, a)
      BY <3>3, <3>4 DEF AsRec, OwnerInv, ParkedInv, Good, Settled
    <3>8. RunInv'
      BY <1>3, <3>5, <3>6, <3>7 DEF OwnerInv, ListsInv, RunInv, Good, Settled
    <3>9. ListsInv' /\ ParkedInv'
      BY <2>2, WorkIs, ListsStay, ParkedStay DEF PersistReads
    <3> QED BY <3>8, <3>9
  <2>3. CASE PersistWrites
    <3>1. run.list \in Seq(Rec) /\ run.acct \in Accounts
      BY <2>3 DEF PersistWrites, Running, Typed, RunTyped, Progress
    <3>2. ListsInv'
      <4>1. \A a \in Accounts : a # run.acct => list'[a] = list[a]
        BY <2>3 DEF PersistWrites, Typed
      <4>2. list'[run.acct] = CapSeals(run.list)
        BY <2>3, <3>1 DEF PersistWrites, Typed
      <4>3. \A r \in ToSet(list'[run.acct]) : Good(r, run.acct)
        BY <3>1, <4>2, CapKeeps DEF OwnerInv, RunInv
      <4> QED BY <1>3, <4>1, <4>3 DEF OwnerInv, ListsInv, Good, Settled
    <3>3. ToSet(parked)' \subseteq ToSet(parked)
      <4> DEFINE I == {i \in DOMAIN parked : parked[i].acct # run.acct}
      <4>1. parked' = At(parked, I)
        BY <2>3 DEF PersistWrites, Unparked
      <4>2. ToSet(parked') = {parked[i] : i \in I}
        BY <4>1, ElemsAt DEF Typed
      <4> QED BY <4>2 DEF ToSet
    <3>4. run'.list = <<>>
      BY <2>3 DEF PersistWrites, NextKey, Done, Still, Reading
    <3> QED BY <3>2, <3>3, <3>4, WorkIs, ParkedStay, RunStay
  <2>4. CASE PersistFails
    <3>1. UNCHANGED <<list, parked>> /\ run'.list = <<>>
      BY <2>4 DEF PersistFails, NextKey, Done, Still, Reading
    <3> QED BY <3>1, WorkIs, ListsStay, ParkedStay, RunStay
  <2>5. CASE FlagStarts
    <3>1. j.seal \in Seals /\ j.acct \in Accounts /\ j.seal \in public
      BY <1>0, <2>5 DEF FlagStarts, Running, Orders, Sound, j
    <3>2. ListsInv'
      BY <2>5, WorkIs, ListsStay DEF FlagStarts
    <3>3. ParkedInv'
      <4>1. CASE UNCHANGED parked
        BY <4>1, WorkIs, ParkedStay
      <4>2. CASE parked' = Mark(parked, j.seal)
        <5>1. /\ DOMAIN parked' = DOMAIN parked
              /\ \A i \in DOMAIN parked : /\ parked'[i].seal = parked[i].seal
                                          /\ parked'[i].revealed => parked[i].revealed \/ parked[i].seal = j.seal
                                          /\ parked'[i].acct = parked[i].acct
          BY <3>1, <4>2, ElemsMark DEF Typed
        <5>2. \A i \in DOMAIN parked : Good(parked[i], parked[i].acct)
          BY DEF OwnerInv, ParkedInv, ToSet
        <5>3. \A i \in DOMAIN parked' : Good(parked'[i], parked'[i].acct)
          BY <3>1, <5>1, <5>2 DEF Good, Settled
        <5> QED BY <1>3, <5>3 DEF ParkedInv, ToSet, Good, Settled
      <4> QED BY <2>5, <4>1, <4>2 DEF FlagStarts, j
    <3>4. RunInv'
      <4>1. CASE run'.list = <<>>
        BY <4>1, WorkIs, RunStay
      <4>2. CASE run' = Writing(j.acct, Mark(list[j.acct], j.seal))
        <5> DEFINE q == list[j.acct]
        <5>1. q \in Seq(Rec) /\ \A i \in DOMAIN q : Good(q[i], j.acct)
          BY <3>1 DEF Typed, OwnerInv, ListsInv, ToSet
        <5>2. run'.acct = j.acct /\ run'.list = Mark(q, j.seal)
          BY <4>2 DEF Writing
        <5> HIDE DEF q
        <5>3. \A i \in DOMAIN Mark(q, j.seal) : Good(Mark(q, j.seal)[i], j.acct)
          BY <3>1, <5>1, ElemsMark DEF Good
        <5> QED BY <1>3, <5>2, <5>3 DEF RunInv, ToSet, Good, Settled
      <4> QED BY <2>5, <4>1, <4>2 DEF FlagStarts, Done, Still, j
    <3> QED BY <3>2, <3>3, <3>4
  <2>6. CASE FlagWrites
    <3>1. UNCHANGED parked /\ run'.list = <<>>
      BY <2>6 DEF FlagWrites, Done, Still
    <3>2. ListsInv'
      <4>1. CASE UNCHANGED list
        BY <4>1, WorkIs, ListsStay
      <4>2. CASE list' = [list EXCEPT ![run.acct] = run.list]
        <5>1. \A a \in Accounts : list'[a] = list[a] \/ (a = run.acct /\ list'[a] = run.list)
          BY <4>2 DEF Typed
        <5> QED BY <1>3, <5>1 DEF OwnerInv, ListsInv, RunInv, Good, Settled
      <4> QED BY <2>6, <4>1, <4>2 DEF FlagWrites
    <3> QED BY <3>1, <3>2, WorkIs, ParkedStay, RunStay
  <2>7. CASE Wipe
    <3>1. /\ parked' = <<>> /\ run'.list = <<>>
          /\ \A a \in Accounts : list'[a] = <<>>
      BY <2>7 DEF Wipe, Done, Still
    <3> QED BY <3>1, NoElems, WorkIs, RunStay DEF ListsInv, ParkedInv
  <2> QED BY <2>1, <2>2, <2>3, <2>4, <2>5, <2>6, <2>7 DEF Work
<1> QED BY <1>1, <1>2, <1>4 DEF OwnerInv


LEMMA OwnedKept == ASSUME Typed, OwnerInv, [Next]_vars PROVE OwnerInv'
<1>1. CASE UNCHANGED vars
  BY <1>1 DEF vars, OwnerInv, ListsInv, ParkedInv, RunInv, JobsInv, PublishInv, Good, Settled, Sound,
              wallet, store, chain
<1> QED BY <1>1, CallsOwned, WalletOwned, WorkOwned DEF Next

-----------------------------------------------------------------------------
(* Where the preimage of a paid commit is *)

\* The head that has started no longer counts as queued.
Due == {jobs[i].seal : i \in {n \in DOMAIN jobs : jobs[n].kind = "persist" /\ (n > 1 \/ run.pc = "start")}}

HeadInv ==
    /\ run.pc = "read" => jobs # <<>> /\ jobs[1].kind = "persist"
    /\ run.pc = "write" => jobs # <<>> /\ jobs[1].kind \in {"persist", "reveal"}

\* Since the head read the list nobody else wrote it, or parked a record of it.
CopyInv ==
    run.pc = "write" =>
        /\ Named(list[run.acct]) \subseteq Named(run.list)
        /\ jobs[1].kind = "persist" =>
               \A p \in ToSet(parked) : p.acct = run.acct => p.seal \in Named(run.list)

KeptInv == HeadInv /\ CopyInv /\ owed \subseteq Held \cup Due

IInv == Typed /\ OwnerInv /\ KeptInv

LEMMA OthersKeep ==
    ASSUME Typed, KeptInv, UNCHANGED <<list, parked, run>>,
           UNCHANGED jobs \/ \E j \in Orders : jobs' = Append(jobs, j),
           \A s \in owed' \ owed : \E j \in Orders : jobs' = Append(jobs, j) /\ j.kind = "persist" /\ j.seal = s
    PROVE  KeptInv'
<1>1. CASE UNCHANGED jobs
  <2>1. owed' \subseteq owed
    <3> SUFFICES ASSUME NEW s \in owed' \ owed PROVE FALSE
      OBVIOUS
    <3>1. PICK j \in Orders : jobs' = Append(jobs, j)
      OBVIOUS
    <3>2. Len(jobs') = Len(jobs) + 1 /\ Len(jobs) \in Nat
      BY <3>1, AppendProperties, LenProperties DEF Typed
    <3> QED BY <1>1, <3>2
  <2>2. HeadInv' /\ CopyInv'
    BY <1>1 DEF KeptInv, HeadInv, CopyInv
  <2>3. Held' = Held /\ Due' = Due
    BY <1>1 DEF Held, Due
  <2> QED BY <2>1, <2>2, <2>3 DEF KeptInv
<1>2. ASSUME NEW j \in Orders, jobs' = Append(jobs, j) PROVE KeptInv'
  <2>1. /\ Len(jobs) \in Nat /\ DOMAIN jobs = 1..Len(jobs) /\ DOMAIN jobs' = 1..Len(jobs) + 1
        /\ \A i \in 1..Len(jobs) : jobs'[i] = jobs[i]
        /\ jobs'[Len(jobs) + 1] = j
        /\ jobs' # <<>>
        /\ jobs # <<>> => Len(jobs) > 0
    BY <1>2, AppendProperties, LenProperties, EmptySeq DEF Typed
  <2>2. HeadInv' /\ CopyInv'
    BY <2>1 DEF KeptInv, HeadInv, CopyInv
  <2>3. Held' = Held /\ Due \subseteq Due'
    BY <2>1 DEF Held, Due
  <2>4. jobs = <<>> => run.pc = "start"
    BY DEF KeptInv, HeadInv, Typed, RunTyped, Progress
  <2>5. j.kind = "persist" => j.seal \in Due'
    BY <2>1, <2>4, EmptySeq DEF Due, Typed
  <2>6. \A s \in owed' \ owed : s = j.seal /\ j.kind = "persist"
    <3> TAKE s \in owed' \ owed
    <3>1. PICK k \in Orders : jobs' = Append(jobs, k) /\ k.kind = "persist" /\ k.seal = s
      OBVIOUS
    <3>2. jobs'[Len(jobs) + 1] = k
      BY <3>1, AppendProperties DEF Typed
    <3> QED BY <2>1, <3>1, <3>2
  <2> QED BY <2>2, <2>3, <2>5, <2>6 DEF KeptInv
<1> QED BY <1>1, <1>2


LEMMA CallsKept ==
    ASSUME IInv, NEW s \in Seals,
           \/ SealClaim(s) \/ SealRefused(s) \/ SealAnswered(s) \/ Mine(s)
           \/ RevealClaim(s) \/ RevealAsks(s) \/ RevealPosts(s)
    PROVE  KeptInv'
<1>1. UNCHANGED <<list, parked, run>>
  BY DEF SealClaim, SealRefused, SealAnswered, Mine, RevealClaim, RevealAsks, RevealPosts, store
<1>2. CASE SealAnswered(s)
  <2>1. PICK j \in Orders : j = [kind |-> "persist", seal |-> s, acct |-> seal[s].acct]
    BY <1>2 DEF SealAnswered, IInv, Typed, SealsTyped, Orders
  <2>2. jobs' = Append(jobs, j) /\ j.kind = "persist" /\ j.seal = s
    BY <1>2, <2>1 DEF SealAnswered, FilesUnder
  <2>3. owed' \ owed \subseteq {s}
    BY <1>2 DEF SealAnswered
  <2> QED BY <1>1, <2>2, <2>3, OthersKeep DEF IInv
<1>3. CASE RevealPosts(s)
  <2>1. UNCHANGED jobs \/ \E j \in Orders : jobs' = Append(jobs, j)
    BY <1>3 DEF RevealPosts, IInv, Typed, RevealsTyped, Orders
  <2>2. owed' \subseteq owed
    BY <1>3 DEF RevealPosts
  <2> QED BY <1>1, <2>1, <2>2, OthersKeep DEF IInv
<1>4. CASE UNCHANGED <<jobs, owed>>
  BY <1>1, <1>4, OthersKeep DEF IInv
<1> QED BY <1>2, <1>3, <1>4 DEF SealClaim, SealRefused, Mine, RevealClaim, RevealAsks, store

LEMMA WalletKept ==
    ASSUME IInv, (\E a \in Accounts : Switch(a)) \/ Lock \/ Unlock \/ Reset \/ Create
    PROVE  KeptInv'
<1>1. UNCHANGED <<list, parked, run>> /\ owed' \subseteq owed
  BY DEF Switch, Lock, Unlock, Reset, Create, AfterLock, store
<1>2. \A k \in {"persist", "wipe"} : [kind |-> k, seal |-> None, acct |-> None] \in Orders
  BY DEF Orders
<1>3. UNCHANGED jobs \/ \E j \in Orders : jobs' = Append(jobs, j)
  BY <1>2 DEF Switch, Lock, Unlock, Reset, Create, store
<1> QED BY <1>1, <1>3, OthersKeep DEF IInv

\* What is queued behind the head.
Later == {jobs[i].seal : i \in {n \in DOMAIN jobs : jobs[n].kind = "persist" /\ n > 1}}

\* When the head ends, what was queued behind it still is.
LEMMA DueAfterHead ==
    ASSUME Typed, jobs # <<>>, Done \/ (UNCHANGED jobs /\ run'.pc # "start")
    PROVE  Due' = Later
<1>1. /\ Len(jobs) \in Nat \ {0} /\ DOMAIN jobs = 1..Len(jobs)
      /\ DOMAIN Tail(jobs) = 1..(Len(jobs) - 1)
      /\ \A i \in 1..(Len(jobs) - 1) : Tail(jobs)[i] = jobs[i + 1]
  BY EmptySeq, LenProperties, HeadTailProperties DEF Typed
<1>2. CASE Done
  <2> DEFINE later == {n \in DOMAIN jobs : jobs[n].kind = "persist" /\ n > 1}
             next == {n \in DOMAIN Tail(jobs) : Tail(jobs)[n].kind = "persist"}
  <2>1. Due' = {Tail(jobs)[i].seal : i \in next}
    BY <1>2 DEF Due, Done, Still
  <2>2. \A i \in next : i + 1 \in later /\ Tail(jobs)[i].seal = jobs[i + 1].seal
    BY <1>1
  <2>3. \A i \in later : i - 1 \in next /\ Tail(jobs)[i - 1].seal = jobs[i].seal
    <3> TAKE i \in later
    <3>1. i - 1 \in 1..(Len(jobs) - 1) /\ (i - 1) + 1 = i
      BY <1>1
    <3> QED BY <1>1, <3>1
  <2> HIDE DEF later, next
  <2>4. {Tail(jobs)[i].seal : i \in next} = {jobs[i].seal : i \in later}
    <3>1. \A i \in next : Tail(jobs)[i].seal \in {jobs[k].seal : k \in later}
      BY <2>2
    <3>2. \A i \in later : jobs[i].seal \in {Tail(jobs)[k].seal : k \in next}
      BY <2>3
    <3> QED BY <3>1, <3>2
  <2> QED BY <2>1, <2>4 DEF later, Later
<1>3. CASE UNCHANGED jobs /\ run'.pc # "start"
  <2>1. {n \in DOMAIN jobs' : jobs'[n].kind = "persist" /\ (n > 1 \/ run'.pc = "start")}
            = {n \in DOMAIN jobs : jobs[n].kind = "persist" /\ n > 1}
    BY <1>3
  <2> QED BY <1>3, <2>1 DEF Due, Later
<1> QED BY <1>2, <1>3

LEMMA WorkKept == ASSUME IInv, Work PROVE KeptInv'
<1> DEFINE j == jobs[1]
<1>0. /\ Typed /\ OwnerInv /\ KeptInv
      /\ jobs # <<>> /\ j \in Orders /\ Sound(j) /\ j = jobs[1]
      /\ UNCHANGED <<seal, public, owed, wiped>>
  BY WorkIs, HeadIn DEF IInv, OwnerInv, JobsInv, wallet, chain
<1>1. Due \subseteq Later \cup (IF j.kind = "persist" /\ run.pc = "start" THEN {j.seal} ELSE {})
  BY LenProperties DEF Due, Later, IInv, Typed
<1> HIDE DEF j
<1>2. CASE PersistStarts
  <2>1. j.kind = "persist" /\ run.pc = "start" /\ UNCHANGED list
    BY <1>0, <1>2 DEF PersistStarts, Running
  <2>2. Done \/ (UNCHANGED jobs /\ run'.pc = "read")
    BY <1>2 DEF PersistStarts, Reading
  <2>3. Due' = Later
    BY <1>0, <2>2, DueAfterHead
  <2>4. HeadInv' /\ CopyInv'
    BY <1>0, <2>1, <2>2 DEF Done, Still, HeadInv, CopyInv
  <2>5. Named(parked) \subseteq Named(parked') /\ (j.seal \in Named(parked') \/ j.seal = None \/ wiped)
    <3>1. CASE Adds(j) /\ wiped
      BY <1>0, <1>2, <3>1 DEF PersistStarts
    <3>2. CASE Adds(j) /\ ~wiped
      <4>1. parked' = Park(j)
        BY <1>0, <1>2, <3>2 DEF PersistStarts
      <4>2. [acct |-> j.acct, seal |-> j.seal, revealed |-> FALSE] \in Parked
        BY <1>0, <2>1, <3>2 DEF Adds, Orders, Parked
      <4>3. PICK p \in Parked : p = [acct |-> j.acct, seal |-> j.seal, revealed |-> FALSE]
        BY <4>2
      <4>4. parked' = Append(parked, p) /\ parked \in Seq(Parked) /\ p.seal = j.seal
        BY <1>0, <4>1, <4>3 DEF Park, Typed
      <4>5. ToSet(parked') = ToSet(parked) \cup {p}
        BY <4>4, ElemsAppend
      <4> QED BY <4>4, <4>5, NamedIs
    <3>3. CASE ~Adds(j)
      BY <1>0, <1>2, <3>3 DEF PersistStarts, Adds
    <3> QED BY <3>1, <3>2, <3>3
  <2>6. owed' \subseteq Held' \cup Due'
    <3>1. Held \subseteq Held'
      BY <2>1, <2>5 DEF Held
    <3>2. j.seal \in Held' \/ j.seal \notin owed
      <4>1. None \notin owed /\ (wiped => owed = {})
        BY <1>0, SealAssumption DEF Typed, RestTyped, OwnerInv, PublishInv
      <4> QED BY <2>5, <4>1 DEF Held
    <3> QED BY <1>0, <1>1, <2>3, <3>1, <3>2 DEF KeptInv
  <2> QED BY <2>4, <2>6 DEF KeptInv
<1>3. ASSUME NEW a \in Accounts, PersistReads(a) PROVE KeptInv'
  <2> DEFINE new == At(parked, NewSeals(a))
             front == Reverse([i \in DOMAIN new |-> AsRec(new[i])])
  <2>1. /\ j.kind = "persist" /\ run.pc = "read" /\ UNCHANGED <<list, parked, jobs>>
        /\ run'.pc = "write" /\ run'.acct = a /\ run'.list = front \o list[a]
    BY <1>0, <1>3 DEF PersistReads, Running, Typed, RunTyped, Progress
  <2>2. NewSeals(a) \in SUBSET DOMAIN parked /\ parked \in Seq(Parked) /\ list[a] \in Seq(Rec)
    BY <1>0 DEF NewSeals, Typed
  <2>3. new \in Seq(Parked) /\ ToSet(new) = {parked[i] : i \in NewSeals(a)}
    BY <2>2, ElemsAt
  <2>4. front \in Seq(Rec) /\ ToSet(front) = {AsRec(p) : p \in ToSet(new)}
    <3> HIDE DEF new
    <3> QED BY <2>3, ElemsFiled
  <2>5. Named(front) = {p.seal : p \in ToSet(new)}
    <3> HIDE DEF front, new
    <3>1. \A p \in ToSet(new) : AsRec(p).seal = p.seal
      BY DEF AsRec
    <3>2. Named(front) = {r.seal : r \in {AsRec(p) : p \in ToSet(new)}}
      BY <2>4, NamedIs
    <3> QED BY <3>1, <3>2
  <2> HIDE DEF front
  <2>6. Named(run'.list) = Named(front) \cup Named(list[a])
    <3>1. ToSet(run'.list) = ToSet(front) \cup ToSet(list[a])
      BY <2>1, <2>2, <2>4, ElemsConcat
    <3> QED BY <3>1, NamedIs
  <2>7. \A p \in ToSet(parked) : p.acct = a => p.seal \in Named(list[a]) \/ p \in ToSet(new)
    BY <2>3 DEF ToSet, NewSeals
  <2> HIDE DEF new
  <2>8. CopyInv' /\ HeadInv'
    BY <1>0, <2>1, <2>5, <2>6, <2>7 DEF CopyInv, HeadInv
  <2>9. Held' = Held /\ Due' = Due
    BY <2>1 DEF Held, Due
  <2> QED BY <1>0, <2>8, <2>9 DEF KeptInv
<1>4. CASE PersistWrites
  <2> DEFINE I == {i \in DOMAIN parked : parked[i].acct # run.acct}
  <2>1. /\ j.kind = "persist" /\ run.pc = "write" /\ run.list \in Seq(Rec) /\ run.acct \in Accounts
        /\ list' = [list EXCEPT ![run.acct] = CapSeals(run.list)] /\ parked' = At(parked, I)
        /\ Done \/ (UNCHANGED jobs /\ run'.pc = "read")
    BY <1>0, <1>4 DEF PersistWrites, Running, NextKey, Reading, Unparked, Typed, RunTyped, Progress
  <2>2. HeadInv' /\ CopyInv'
    BY <1>0, <2>1 DEF HeadInv, CopyInv, Done, Still
  <2>3. Due \subseteq Due'
    BY <1>0, <1>1, <2>1, DueAfterHead
  <2>4. \A s \in owed \cap Named(run.list) : s \in Named(list'[run.acct])
    <3>1. list'[run.acct] = CapSeals(run.list)
      BY <1>0, <2>1 DEF Typed
    <3> SUFFICES ASSUME NEW r \in ToSet(run.list), r.seal \in owed PROVE r.seal \in Named(list'[run.acct])
      BY NamedIs
    <3>2. ~r.revealed
      BY <1>0 DEF OwnerInv, RunInv, Good, PublishInv
    <3> QED BY <2>1, <3>1, <3>2, CapKeeps, NamedIs
  <2>5. ToSet(parked') = {parked[i] : i \in I}
    BY <1>0, <2>1, ElemsAt DEF Typed
  <2>6. ASSUME NEW s \in owed \cap Held PROVE s \in Held'
    <3>1. CASE s \in Named(run.list)
      BY <2>1, <2>4, <3>1 DEF Held
    <3>2. ASSUME NEW a \in Accounts, s \in Named(list[a]), s \notin Named(run.list) PROVE s \in Held'
      <4>1. a # run.acct
        BY <1>0, <2>1, <3>2 DEF KeptInv, CopyInv
      <4>2. list'[a] = list[a]
        BY <1>0, <2>1, <4>1 DEF Typed
      <4> QED BY <3>2, <4>2 DEF Held
    <3>3. ASSUME NEW i \in DOMAIN parked, s = parked[i].seal, s \notin Named(run.list) PROVE s \in Held'
      <4>1. i \in I
        BY <1>0, <2>1, <3>3 DEF KeptInv, CopyInv, ToSet
      <4> HIDE DEF I
      <4>2. parked[i] \in ToSet(parked')
        BY <2>5, <4>1
      <4> QED BY <3>3, <4>2, NamedIs DEF Held
    <3> QED BY <3>1, <3>2, <3>3 DEF Held, Named
  <2> QED BY <1>0, <2>2, <2>3, <2>6 DEF KeptInv
<1>5. CASE PersistFails
  <2>1. /\ j.kind = "persist" /\ run.pc = "write" /\ UNCHANGED <<list, parked>>
        /\ Done \/ (UNCHANGED jobs /\ run'.pc = "read")
    BY <1>0, <1>5 DEF PersistFails, Running, NextKey, Reading
  <2>2. HeadInv' /\ CopyInv'
    BY <1>0, <2>1 DEF HeadInv, CopyInv, Done, Still
  <2>3. Held' = Held /\ Due \subseteq Due'
    BY <1>0, <1>1, <2>1, DueAfterHead DEF Held
  <2> QED BY <1>0, <2>2, <2>3 DEF KeptInv
<1>6. CASE FlagStarts
  <2>1. /\ j.kind = "reveal" /\ j.seal \in Seals /\ j.acct \in Accounts /\ UNCHANGED list
        /\ parked' = parked \/ parked' = Mark(parked, j.seal)
        /\ Done \/ (UNCHANGED jobs /\ run' = Writing(j.acct, Mark(list[j.acct], j.seal)))
    BY <1>0, <1>6 DEF FlagStarts, Running, Orders
  <2>2. Named(parked') = Named(parked)
    <3>1. DOMAIN parked' = DOMAIN parked /\ \A i \in DOMAIN parked : parked'[i].seal = parked[i].seal
      BY <1>0, <2>1, ElemsMark DEF Typed
    <3> QED BY <3>1 DEF Named
  <2>3. Named(Mark(list[j.acct], j.seal)) = Named(list[j.acct])
    <3> DEFINE q == list[j.acct]
               m == Mark(q, j.seal)
    <3>1. q \in Seq(Rec)
      BY <1>0, <2>1 DEF Typed
    <3> HIDE DEF q
    <3>2. DOMAIN m = DOMAIN q /\ \A i \in DOMAIN q : m[i].seal = q[i].seal
      BY <2>1, <3>1, ElemsMark
    <3> HIDE DEF m
    <3>3. Named(m) = Named(q)
      BY <3>2 DEF Named
    <3> QED BY <3>3 DEF m, q
  <2>4. HeadInv' /\ CopyInv'
    BY <1>0, <2>1, <2>3 DEF HeadInv, CopyInv, Done, Still, Writing
  <2>5. Held' = Held
    BY <2>1, <2>2 DEF Held
  <2>6. Due \subseteq Due'
    BY <1>0, <1>1, <2>1, DueAfterHead DEF Writing
  <2> QED BY <1>0, <2>4, <2>5, <2>6 DEF KeptInv
<1>7. CASE FlagWrites
  <2>1. /\ j.kind = "reveal" /\ run.pc = "write" /\ run.acct \in Accounts /\ UNCHANGED parked /\ Done
        /\ UNCHANGED list \/ list' = [list EXCEPT ![run.acct] = run.list]
    BY <1>0, <1>7 DEF FlagWrites, Running, Typed, RunTyped
  <2>2. HeadInv' /\ CopyInv'
    BY <2>1 DEF HeadInv, CopyInv, Done, Still
  <2>3. Due \subseteq Due'
    BY <1>0, <1>1, <2>1, DueAfterHead
  <2>4. \A a \in Accounts : Named(list[a]) \subseteq Named(list'[a])
    BY <1>0, <2>1 DEF KeptInv, CopyInv, Typed
  <2>5. Held \subseteq Held'
    BY <2>1, <2>4 DEF Held
  <2> QED BY <1>0, <2>2, <2>3, <2>5 DEF KeptInv
<1>8. CASE Wipe
  <2>1. wiped /\ Done
    BY <1>0, <1>8 DEF Wipe, Running, Sound
  <2>2. HeadInv' /\ CopyInv'
    BY <2>1 DEF HeadInv, CopyInv, Done, Still
  <2>3. owed = {}
    BY <1>0, <2>1 DEF OwnerInv, PublishInv
  <2> QED BY <1>0, <2>2, <2>3 DEF KeptInv
<1> QED BY <1>2, <1>3, <1>4, <1>5, <1>6, <1>7, <1>8 DEF Work


-----------------------------------------------------------------------------
(* The theorems *)

LEMMA IndInit == Init => IInv
<1> SUFFICES ASSUME Init PROVE IInv
  OBVIOUS
<1>1. Typed
  BY Typing
<1>2. OwnerInv
  BY NoElems DEF Init, OwnerInv, ListsInv, ParkedInv, RunInv, JobsInv, PublishInv, Still
<1>3. KeptInv
  BY DEF Init, KeptInv, HeadInv, CopyInv, Still
<1> QED BY <1>1, <1>2, <1>3 DEF IInv

LEMMA IndStep == ASSUME IInv, [Next]_vars PROVE IInv'
<1>1. Typed' /\ OwnerInv'
  BY TypingKept, OwnedKept DEF IInv
<1>2. KeptInv'
  <2>1. CASE UNCHANGED vars
    <3>1. UNCHANGED <<list, parked, run, jobs, owed>>
      BY <2>1 DEF vars, store
    <3> QED BY <3>1, OthersKeep DEF IInv
  <2> QED BY <2>1, CallsKept, WalletKept, WorkKept DEF Next
<1> QED BY <1>1, <1>2 DEF IInv

LEMMA Invariant == Spec => []IInv
<1>1. IInv /\ [Next]_vars => IInv'
  BY IndStep
<1> QED BY IndInit, <1>1, PTL DEF Spec

\* The preimage of a paid commit that is not revealed is in memory, in the store,
\* or queued to be parked, for any accounts, seals, cap and length of the chain:
\* persistSeal, revealClaim, lock, unlock and reset never drop the only copy.
THEOREM NoPreimageLost == Spec => []PaidSealsHeld
<1>1. Due \subseteq Queued
  BY DEF Due, Queued
<1>2. IInv => PaidSealsHeld
  BY <1>1 DEF IInv, KeptInv, PaidSealsHeld
<1> QED BY Invariant, <1>2, PTL

\* A record is filed under the account that signed its commit, and a claim is
\* public only once its commit is mined, whatever the user switched to while
\* sealClaim or revealClaim waited for the node.
THEOREM RecordsAreSound == Spec => []SealInv
<1>1. IInv => TypeOK
  BY TypedIsTypeOK DEF IInv
<1>2. IInv => FiledUnderSigner
  BY NamedIs DEF IInv, OwnerInv, ListsInv, Good, Settled, FiledUnderSigner
<1>3. IInv => RevealedOnlyMined
  BY DEF IInv, OwnerInv, PublishInv, RevealedOnlyMined
<1>4. IInv => SealInv
  BY <1>1, <1>2, <1>3 DEF SealInv
<1> QED BY Invariant, <1>4, PTL
-----------------------------------------------------------------------------
(* The bodies whose anchor is paid: pendingContent                          *)
(*                                                                          *)
(* The latch admits one flush (OneFlush), and with writes that do not       *)
(* overlap whoever is about to write has read what is stored, or a list     *)
(* that a reset has emptied since (Working, Adding).                        *)

\* A flush: what it settled, what is left to look at, and what it read last.
Working(r, queued, settled, n) ==
    /\ r.pc \in {"off", "list"} => r.todo = {} /\ r.seen = {} /\ r.keep = {}
    /\ r.pc = "register" => r.asks \in r.todo
    /\ r.seen \ r.keep \subseteq settled
    /\ n = 0 => r.todo \cup r.keep \subseteq queued
    /\ r.pc = "write" => queued \subseteq r.now /\ (n = 0 => r.now \subseteq queued)
Adding(read, queued, n) == queued \subseteq read /\ (n = 0 => read \subseteq queued)

FlushesOk == \A f \in Flushes : Working(flush[f], stored, registered \cup old, restarts)
AddsOk == \A p \in Posts : post[p] = "write" => Adding(snap[p], stored, restarts)
OneFlush == \A f \in Flushes : flush[f].pc # "off" => latch /\ \A g \in Flushes \ {f} : flush[g].pc = "off"
OneWrite == \A p \in Posts : post[p] = "write" => /\ \A q \in Posts \ {p} : post[q] # "write"
                                                  /\ \A f \in Flushes : flush[f].pc # "write"
ContentIInv == ContentTypeOK /\ FlushesOk /\ AddsOk /\ OneFlush /\ OneWrite

LEMMA OffWorks == ASSUME NEW queued, NEW settled, NEW n PROVE Working(Off, queued, settled, n) /\ Off \in Flush
  BY DEF Working, Off, Flush

\* One flush goes on, or ends; the list and the posts stay.
LEMMA FlushMoves ==
    ASSUME ContentIInv, NEW f \in Flushes, NEW r \in Flush, flush' = [flush EXCEPT ![f] = r],
           UNCHANGED <<stored, post, snap, restarts>>, latch' \in BOOLEAN,
           anchored' \in SUBSET Posts, old' \in SUBSET Posts, registered' \in SUBSET Posts,
           registered \subseteq registered', old \subseteq old',
           Working(r, stored, registered' \cup old', restarts),
           r.pc # "off" => latch', \A g \in Flushes \ {f} : flush[g].pc = "off",
           r.pc = "write" => \A p \in Posts : post[p] # "write"
    PROVE  ContentIInv'
<1>1. flush \in [Flushes -> Flush] /\ flush' \in [Flushes -> Flush] /\ flush'[f] = r
      /\ \A g \in Flushes \ {f} : flush'[g] = flush[g]
  BY DEF ContentIInv, ContentTypeOK
<1>2. ContentTypeOK'
  BY <1>1 DEF ContentIInv, ContentTypeOK
<1>3. FlushesOk'
  <2>1. \A g \in Flushes \ {f} : Working(flush[g], stored, registered' \cup old', restarts)
    BY DEF ContentIInv, FlushesOk, Working
  <2> QED BY <1>1, <2>1 DEF FlushesOk
<1>4. AddsOk'
  BY DEF ContentIInv, AddsOk
<1>5. OneFlush'
  BY <1>1 DEF OneFlush
<1>6. OneWrite'
  BY <1>1 DEF ContentIInv, OneWrite
<1> QED BY <1>2, <1>3, <1>4, <1>5, <1>6 DEF ContentIInv

LEMMA FlushAt ==
    ASSUME ContentIInv, NEW f \in Flushes
    PROVE  /\ flush[f] \in Flush /\ Working(flush[f], stored, registered \cup old, restarts)
           /\ flush[f].pc # "off" => latch /\ \A g \in Flushes \ {f} : flush[g].pc = "off"
           /\ ~latch => \A g \in Flushes : flush[g].pc = "off"
           /\ anchored \in SUBSET Posts /\ old \in SUBSET Posts /\ registered \in SUBSET Posts
           /\ stored \in SUBSET Posts /\ latch \in BOOLEAN
  BY DEF ContentIInv, ContentTypeOK, FlushesOk, OneFlush

\* The flush that a post, the alarm or the start of the worker begins.
LEMMA BeginsOk ==
    ASSUME ContentIInv, NEW f \in Flushes, Begins(f)
    PROVE  /\ \E r \in Flush : /\ flush' = [flush EXCEPT ![f] = r] /\ r.pc = "list"
                               /\ \A queued, settled, n : Working(r, queued, settled, n)
           /\ latch' = TRUE /\ \A g \in Flushes : flush[g].pc = "off"
<1> DEFINE r == [flush[f] EXCEPT !.pc = "list"]
<1>1. flush' = [flush EXCEPT ![f] = r] /\ latch' = TRUE /\ flush[f].pc = "off" /\ ~latch
  BY DEF Begins, Free, ContentIInv, ContentTypeOK
<1>2. r \in Flush /\ r.pc = "list" /\ r.todo = flush[f].todo /\ r.seen = flush[f].seen /\ r.keep = flush[f].keep
  BY FlushAt DEF Flush
<1>3. r.todo = {} /\ r.seen = {} /\ r.keep = {}
  BY <1>1, <1>2, FlushAt DEF Working
<1> HIDE DEF r
<1>4. \A queued, settled, n : Working(r, queued, settled, n)
  BY <1>2, <1>3 DEF Working
<1> QED BY <1>1, <1>2, <1>4, FlushAt

\* A post's write of the list, or its failure, and the flush that it starts.
LEMMA AddEnds ==
    ASSUME ContentIInv, NEW p \in Posts, post[p] = "write", stored' \in SUBSET Posts, stored \subseteq stored',
           post' = [post EXCEPT ![p] = "done"], snap' = [snap EXCEPT ![p] = {}],
           (\E f \in Flushes : Begins(f)) \/ (latch /\ UNCHANGED <<flush, latch>>), UNCHANGED world
    PROVE  ContentIInv'
<1>1. UNCHANGED <<anchored, old, registered, restarts>> /\ restarts \in Nat
  BY ContentAssumption DEF world, ContentIInv, ContentTypeOK
<1>2. /\ post' \in [Posts -> {"new", "paid", "write", "done"}] /\ snap' \in [Posts -> SUBSET Posts]
      /\ \A q \in Posts : post'[q] # "write"
  BY DEF ContentIInv, ContentTypeOK, OneWrite
<1>3. \A g \in Flushes : /\ flush[g] \in Flush /\ flush[g].pc # "write"
                         /\ Working(flush[g], stored', registered' \cup old', restarts')
  <2> TAKE g \in Flushes
  <2>1. flush[g].pc # "write"
    BY DEF ContentIInv, OneWrite
  <2>2. Working(flush[g], stored, registered \cup old, restarts) /\ flush[g] \in Flush
    BY FlushAt
  <2> QED BY <1>1, <2>1, <2>2 DEF Working
<1> DEFINE Goal == /\ flush' \in [Flushes -> Flush] /\ latch' \in BOOLEAN
                   /\ \A g \in Flushes : /\ Working(flush'[g], stored', registered' \cup old', restarts')
                                         /\ flush'[g].pc # "write"
                                         /\ flush'[g].pc # "off" => /\ latch'
                                                                    /\ \A h \in Flushes \ {g} : flush'[h].pc = "off"
<1>4. Goal
  <2>1. ASSUME NEW f \in Flushes, Begins(f) PROVE Goal
    <3>1. PICK r \in Flush : /\ flush' = [flush EXCEPT ![f] = r] /\ r.pc = "list"
                             /\ \A queued, settled, n : Working(r, queued, settled, n)
      BY <2>1, BeginsOk
    <3>2. latch' = TRUE /\ \A g \in Flushes : flush[g].pc = "off"
      BY <2>1, BeginsOk
    <3>3. flush' \in [Flushes -> Flush] /\ flush'[f] = r /\ \A g \in Flushes \ {f} : flush'[g] = flush[g]
      BY <3>1 DEF ContentIInv, ContentTypeOK
    <3>4. \A g \in Flushes : Working(flush'[g], stored', registered' \cup old', restarts')
      BY <1>3, <3>1, <3>3
    <3>5. \A g \in Flushes : /\ flush'[g].pc # "write"
                             /\ flush'[g].pc # "off" => latch' /\ \A h \in Flushes \ {g} : flush'[h].pc = "off"
      BY <3>1, <3>2, <3>3
    <3> QED BY <3>2, <3>3, <3>4, <3>5
  <2>2. ASSUME latch, UNCHANGED <<flush, latch>> PROVE Goal
    BY <1>3, <2>2 DEF ContentIInv, ContentTypeOK, OneFlush
  <2> QED BY <2>1, <2>2
<1>5. ContentTypeOK'
  BY <1>1, <1>2, <1>4 DEF ContentIInv, ContentTypeOK
<1> QED BY <1>2, <1>4, <1>5 DEF ContentIInv, FlushesOk, AddsOk, OneFlush, OneWrite

\* The steps of posts that leave the flushes alone.
LEMMA PostMoves ==
    ASSUME ContentIInv, UNCHANGED <<stored, flush, latch, world>>,
           post' \in [Posts -> {"new", "paid", "write", "done"}], snap' \in [Posts -> SUBSET Posts],
           AddsOk', OneWrite'
    PROVE  ContentIInv'
<1>1. UNCHANGED <<stored, flush, latch, anchored, old, registered, restarts>>
  BY DEF world
<1>2. ContentTypeOK'
  BY <1>1 DEF ContentIInv, ContentTypeOK
<1>3. FlushesOk'
  <2>1. FlushesOk
    BY DEF ContentIInv
  <2> QED BY <1>1, <2>1 DEF FlushesOk
<1>4. OneFlush'
  BY <1>1 DEF ContentIInv, OneFlush
<1> QED BY <1>2, <1>3, <1>4 DEF ContentIInv

LEMMA PostSteps ==
    ASSUME ContentIInv, ~Overlap, NEW p \in Posts, Broadcast(p) \/ AddPending(p)
    PROVE  ContentIInv'
<1>0. /\ post \in [Posts -> {"new", "paid", "write", "done"}] /\ snap \in [Posts -> SUBSET Posts]
      /\ stored \in SUBSET Posts /\ restarts \in Nat
  BY ContentAssumption DEF ContentIInv, ContentTypeOK
<1>1. CASE Broadcast(p)
  <2>1. PICK after \in {"paid", "done"} : post' = [post EXCEPT ![p] = after]
    BY <1>1 DEF Broadcast
  <2>2. UNCHANGED <<stored, snap, flush, latch, world>>
    BY <1>1 DEF Broadcast
  <2>3. /\ post' \in [Posts -> {"new", "paid", "write", "done"}]
        /\ \A q \in Posts : post'[q] = "write" => post[q] = "write"
    BY <1>0, <2>1
  <2>4. UNCHANGED restarts
    BY <2>2 DEF world
  <2>5. AddsOk' /\ OneWrite'
    BY <2>2, <2>3, <2>4 DEF ContentIInv, AddsOk, OneWrite
  <2> QED BY <1>0, <2>2, <2>3, <2>5, PostMoves
<1>2. CASE AddReads(p)
  <2>1. /\ snap' = [snap EXCEPT ![p] = stored] /\ post' = [post EXCEPT ![p] = "write"]
        /\ UNCHANGED <<stored, flush, latch, world>> /\ ~MidWrite
    BY <1>2 DEF AddReads, MayRead
  <2>2. /\ post' \in [Posts -> {"new", "paid", "write", "done"}] /\ snap' \in [Posts -> SUBSET Posts]
        /\ snap'[p] = stored /\ \A q \in Posts \ {p} : post'[q] # "write"
        /\ \A f \in Flushes : flush'[f].pc # "write"
    BY <1>0, <2>1 DEF MidWrite
  <2>3. AddsOk' /\ OneWrite'
    BY <2>1, <2>2 DEF AddsOk, OneWrite, Adding
  <2> QED BY <2>1, <2>2, <2>3, PostMoves
<1>3. CASE AddWrites(p) \/ AddFails(p)
  <2>1. post[p] = "write" /\ stored \subseteq snap[p]
    BY <1>3 DEF AddWrites, AddFails, ContentIInv, AddsOk, Adding
  <2>2. stored' \in SUBSET Posts /\ stored \subseteq stored'
    BY <1>0, <1>3, <2>1 DEF AddWrites, AddFails
  <2> QED BY <1>3, <2>1, <2>2, AddEnds DEF AddWrites, AddFails
<1> QED BY <1>1, <1>2, <1>3 DEF AddPending

\* What becomes of a flush that has settled an entry, or keeps it.
LEMMA DropIs ==
    ASSUME NEW f, flush[f] \in Flush, NEW p \in Posts
    PROVE  /\ Drop(f, p) \in Flush /\ Drop(f, p).pc = flush[f].pc /\ Drop(f, p).todo = flush[f].todo \ {p}
           /\ Drop(f, p).seen = flush[f].seen \cup {p} /\ Drop(f, p).keep = flush[f].keep
  BY DEF Drop, Flush

LEMMA SettledIs ==
    ASSUME NEW q \in Flush
    PROVE  LET x == [q EXCEPT !.pc = "next", !.asks = NoPost]
           IN  x \in Flush /\ x.pc = "next" /\ x.todo = q.todo /\ x.seen = q.seen /\ x.keep = q.keep
  BY DEF Flush

LEMMA KeepIs ==
    ASSUME NEW f, flush[f] \in Flush, NEW p \in Posts
    PROVE  /\ Keep(f, p) \in Flush /\ Keep(f, p).pc = "next" /\ Keep(f, p).todo = flush[f].todo \ {p}
           /\ Keep(f, p).seen = flush[f].seen \cup {p} /\ Keep(f, p).keep = flush[f].keep \cup {p}
<1> DEFINE q == Drop(f, p)
<1>1. q \in Flush /\ q.todo = flush[f].todo \ {p} /\ q.seen = flush[f].seen \cup {p} /\ q.keep = flush[f].keep
  BY DropIs
<1>2. Keep(f, p) = [q EXCEPT !.keep = @ \cup {p}, !.pc = "next", !.asks = NoPost]
  BY DEF Keep
<1> HIDE DEF q
<1> QED BY <1>1, <1>2 DEF Flush

LEMMA FlushSteps ==
    ASSUME ContentIInv, ~Overlap, NEW f \in Flushes, Alarm(f) \/ Works(f)
    PROVE  ContentIInv'
<1> DEFINE r == flush[f]
<1>0. /\ r \in Flush /\ Working(r, stored, registered \cup old, restarts) /\ restarts \in Nat
      /\ r.pc # "off" => latch /\ \A g \in Flushes \ {f} : flush[g].pc = "off"
      /\ anchored \in SUBSET Posts /\ old \in SUBSET Posts /\ registered \in SUBSET Posts
      /\ stored \in SUBSET Posts /\ latch \in BOOLEAN
  <2>1. restarts \in Nat
    BY ContentAssumption DEF ContentIInv, ContentTypeOK
  <2> QED BY <2>1, FlushAt
<1>1. CASE Alarm(f)
  <2>1. Begins(f) /\ UNCHANGED <<stored, post, snap, world>>
    BY <1>1 DEF Alarm
  <2>2. PICK q \in Flush : /\ flush' = [flush EXCEPT ![f] = q] /\ q.pc = "list"
                           /\ \A queued, settled, n : Working(q, queued, settled, n)
    BY <2>1, BeginsOk
  <2>3. latch' = TRUE /\ \A g \in Flushes : flush[g].pc = "off"
    BY <2>1, BeginsOk
  <2>4. UNCHANGED <<stored, post, snap, restarts, anchored, old, registered>>
    BY <2>1 DEF world
  <2> QED BY <1>0, <2>2, <2>3, <2>4, FlushMoves
<1>2. CASE (ListRead(f) /\ stored = {}) \/ WriteFails(f)
  <2>1. flush' = [flush EXCEPT ![f] = Off] /\ latch' = FALSE /\ UNCHANGED <<stored, post, snap, world>> /\ r.pc # "off"
    BY <1>2 DEF ListRead, WriteFails
  <2>2. UNCHANGED <<stored, post, snap, restarts, anchored, old, registered>> /\ Off.pc = "off"
    BY <2>1 DEF world, Off
  <2> QED BY <1>0, <2>1, <2>2, OffWorks, FlushMoves
<1>3. CASE ListRead(f) /\ stored # {}
  <2> DEFINE q == [flush[f] EXCEPT !.pc = "next", !.todo = stored]
  <2>1. flush' = [flush EXCEPT ![f] = q] /\ UNCHANGED <<latch, stored, post, snap, world>> /\ r.pc = "list"
    BY <1>3 DEF ListRead, ContentIInv, ContentTypeOK
  <2>2. q \in Flush /\ q.pc = "next" /\ q.todo = stored /\ q.seen = r.seen /\ q.keep = r.keep
    BY <1>0 DEF Flush
  <2> HIDE DEF q, r
  <2>3. UNCHANGED <<stored, post, snap, restarts, anchored, old, registered>>
    BY <2>1 DEF world
  <2>4. Working(q, stored, registered' \cup old', restarts)
    BY <1>0, <2>1, <2>2 DEF Working
  <2> QED BY <1>0, <2>1, <2>2, <2>3, <2>4, FlushMoves DEF r
<1>4. ASSUME NEW p \in Posts, Examine(f, p) PROVE ContentIInv'
  <2>1. UNCHANGED <<stored, post, snap, latch, restarts, anchored, old, registered>> /\ r.pc = "next" /\ p \in r.todo
    BY <1>4 DEF Examine, world
  <2>2. CASE Expired(p) /\ flush' = [flush EXCEPT ![f] = Drop(f, p)]
    <3> DEFINE q == Drop(f, p)
    <3>1. q \in Flush /\ q.pc = "next" /\ q.todo = r.todo \ {p} /\ q.seen = r.seen \cup {p} /\ q.keep = r.keep
      BY <1>0, <2>1, DropIs
    <3>2. flush' = [flush EXCEPT ![f] = q] /\ p \in old
      BY <2>2 DEF Expired
    <3> HIDE DEF q, r
    <3>3. Working(q, stored, registered' \cup old', restarts)
      BY <1>0, <2>1, <3>1, <3>2 DEF Working
    <3> QED BY <1>0, <2>1, <3>1, <3>2, <3>3, FlushMoves DEF r
  <2>3. CASE flush' = [flush EXCEPT ![f] = Keep(f, p)]
    <3> DEFINE q == Keep(f, p)
    <3>1. q \in Flush /\ q.pc = "next" /\ q.todo = r.todo \ {p} /\ q.seen = r.seen \cup {p} /\ q.keep = r.keep \cup {p}
      BY <1>0, <2>1, KeepIs
    <3>2. flush' = [flush EXCEPT ![f] = q]
      BY <2>3
    <3> HIDE DEF q, r
    <3>3. Working(q, stored, registered' \cup old', restarts)
      BY <1>0, <2>1, <3>1 DEF Working
    <3> QED BY <1>0, <2>1, <3>1, <3>2, <3>3, FlushMoves DEF r
  <2>4. CASE flush' = [flush EXCEPT ![f].pc = "register", ![f].asks = p]
    <3> DEFINE q == [flush[f] EXCEPT !.pc = "register", !.asks = p]
    <3>1. q \in Flush /\ q.pc = "register" /\ q.asks = p /\ q.todo = r.todo /\ q.seen = r.seen /\ q.keep = r.keep
      BY <1>0, <2>1 DEF Flush
    <3>2. flush' = [flush EXCEPT ![f] = q]
      BY <2>4 DEF ContentIInv, ContentTypeOK
    <3> HIDE DEF q, r
    <3>3. Working(q, stored, registered' \cup old', restarts)
      BY <1>0, <2>1, <3>1 DEF Working
    <3> QED BY <1>0, <2>1, <3>1, <3>2, <3>3, FlushMoves DEF r
  <2> QED BY <1>4, <2>2, <2>3, <2>4 DEF Examine
<1>5. CASE Register(f)
  <2> DEFINE p == flush[f].asks
             q == [Drop(f, p) EXCEPT !.pc = "next", !.asks = NoPost]
             k == Keep(f, p)
  <2>1. UNCHANGED <<stored, post, snap, latch, restarts, anchored, old>> /\ r.pc = "register" /\ p \in r.todo /\ p \in Posts
    BY <1>0, <1>5 DEF Register, Working, Flush
  <2>2. /\ q \in Flush /\ q.pc = "next" /\ q.todo = r.todo \ {p} /\ q.seen = r.seen \cup {p} /\ q.keep = r.keep
        /\ k \in Flush /\ k.pc = "next" /\ k.todo = r.todo \ {p} /\ k.seen = r.seen \cup {p} /\ k.keep = r.keep \cup {p}
    <3> DEFINE d == Drop(f, p)
    <3>1. /\ d \in Flush /\ d.todo = r.todo \ {p} /\ d.seen = r.seen \cup {p} /\ d.keep = r.keep
          /\ k \in Flush /\ k.pc = "next" /\ k.todo = r.todo \ {p} /\ k.seen = r.seen \cup {p} /\ k.keep = r.keep \cup {p}
      <4> HIDE DEF p
      <4> QED BY <1>0, <2>1, DropIs, KeepIs
    <3> HIDE DEF d, p, k
    <3>2. q = [d EXCEPT !.pc = "next", !.asks = NoPost]
      BY DEF d
    <3>3. q \in Flush /\ q.pc = "next" /\ q.todo = d.todo /\ q.seen = d.seen /\ q.keep = d.keep
      BY <3>1, <3>2, SettledIs
    <3> QED BY <3>1, <3>3
  <2>3. CASE registered' = registered \cup {p} /\ flush' = [flush EXCEPT ![f] = q]
    <3> HIDE DEF q, k, p, r
    <3>1. Working(q, stored, registered' \cup old', restarts)
      BY <1>0, <2>1, <2>2, <2>3 DEF Working
    <3> QED BY <1>0, <2>1, <2>2, <2>3, <3>1, FlushMoves DEF r
  <2>4. CASE registered' = registered /\ flush' = [flush EXCEPT ![f] = k]
    <3> HIDE DEF q, k, p, r
    <3>1. Working(k, stored, registered' \cup old', restarts)
      BY <1>0, <2>1, <2>2, <2>4 DEF Working
    <3> QED BY <1>0, <2>1, <2>2, <2>4, <3>1, FlushMoves DEF r
  <2> QED BY <1>5, <2>3, <2>4 DEF Register, NotRegistered
<1>6. CASE ReRead(f)
  <2> DEFINE q == [flush[f] EXCEPT !.pc = "write", !.now = stored]
  <2>1. flush' = [flush EXCEPT ![f] = q] /\ UNCHANGED <<latch, stored, post, snap, world>> /\ r.pc = "next" /\ ~MidWrite
    BY <1>6 DEF ReRead, MayRead, ContentIInv, ContentTypeOK
  <2>2. q \in Flush /\ q.pc = "write" /\ q.now = stored /\ q.todo = r.todo /\ q.seen = r.seen /\ q.keep = r.keep
    BY <1>0 DEF Flush
  <2> HIDE DEF q, r
  <2>3. UNCHANGED <<stored, post, snap, restarts, anchored, old, registered>> /\ \A p \in Posts : post[p] # "write"
    BY <2>1 DEF world, MidWrite
  <2>4. Working(q, stored, registered' \cup old', restarts)
    BY <1>0, <2>2, <2>3 DEF Working
  <2> QED BY <1>0, <2>1, <2>2, <2>3, <2>4, FlushMoves DEF r
<1>7. CASE WriteBack(f)
  <2>1. /\ flush' = [flush EXCEPT ![f] = Off] /\ latch' = FALSE /\ r.pc = "write" /\ stored' = r.keep \cup (r.now \ r.seen)
        /\ UNCHANGED <<post, snap, restarts, anchored, old, registered>>
    BY <1>7 DEF WriteBack, Merged, world
  <2>2. /\ \A g \in Flushes \ {f} : flush[g].pc = "off" /\ flush'[g] = flush[g]
        /\ flush'[f] = Off /\ flush' \in [Flushes -> Flush] /\ Off.pc = "off"
    <3>1. Off.pc = "off" /\ flush \in [Flushes -> Flush]
      BY DEF Off, ContentIInv, ContentTypeOK
    <3> QED BY <1>0, <2>1, <3>1, OffWorks
  <2>3. \A p \in Posts : post[p] # "write"
    BY <2>1 DEF ContentIInv, OneWrite
  <2>4. stored' \in SUBSET Posts
    BY <1>0, <2>1 DEF Flush
  <2>5. ContentTypeOK'
    BY <2>1, <2>2, <2>4 DEF ContentIInv, ContentTypeOK
  <2>6. FlushesOk'
    <3>1. ASSUME NEW g \in Flushes \ {f} PROVE Working(flush'[g], stored', registered' \cup old', restarts')
      <4>1. Working(flush[g], stored, registered \cup old, restarts)
        BY FlushAt
      <4> QED BY <2>1, <2>2, <4>1 DEF Working
    <3> QED BY <2>2, <3>1, OffWorks DEF FlushesOk
  <2>7. OneFlush' /\ AddsOk' /\ OneWrite'
    BY <2>1, <2>2, <2>3 DEF OneFlush, AddsOk, OneWrite
  <2> QED BY <2>5, <2>6, <2>7 DEF ContentIInv
<1> QED BY <1>1, <1>2, <1>3, <1>4, <1>5, <1>6, <1>7 DEF Works

\* The chain, the retention, the end of the worker and the reset.
LEMMA AroundContent ==
    ASSUME ContentIInv, (\E p \in Posts : AnchorMined(p) \/ Age(p)) \/ Restart \/ WalletReset
    PROVE  ContentIInv'
<1>0. restarts \in 0..MaxRestarts /\ MaxRestarts \in Nat
  BY ContentAssumption DEF ContentIInv, ContentTypeOK
<1>1. ASSUME NEW p \in Posts, AnchorMined(p) \/ Age(p) PROVE ContentIInv'
  <2>1. /\ UNCHANGED <<stored, post, snap, flush, latch, registered, restarts>>
        /\ anchored' \in SUBSET Posts /\ old' \in SUBSET Posts /\ old \subseteq old'
    BY <1>1 DEF AnchorMined, Age, ContentIInv, ContentTypeOK
  <2>2. FlushesOk'
    BY <2>1 DEF ContentIInv, FlushesOk, Working
  <2> QED BY <2>1, <2>2 DEF ContentIInv, ContentTypeOK, AddsOk, OneFlush, OneWrite
<1>2. CASE Restart
  <2>1. /\ UNCHANGED <<stored, anchored, old, registered>> /\ latch' = FALSE /\ restarts' \in 0..MaxRestarts
        /\ post' \in [Posts -> {"new", "paid", "write", "done"}] /\ snap' \in [Posts -> SUBSET Posts]
        /\ \A p \in Posts : post'[p] # "write"
    BY <1>0, <1>2 DEF Restart
  <2>2. flush' \in [Flushes -> Flush] /\ \A f \in Flushes : flush'[f] = Off /\ Off.pc = "off"
    <3>1. Off.pc = "off"
      BY DEF Off
    <3> QED BY <1>2, <3>1, OffWorks DEF Restart
  <2>3. ContentTypeOK'
    BY <2>1, <2>2 DEF ContentIInv, ContentTypeOK
  <2>4. FlushesOk' /\ AddsOk' /\ OneFlush' /\ OneWrite'
    BY <2>1, <2>2, OffWorks DEF FlushesOk, AddsOk, OneFlush, OneWrite
  <2> QED BY <2>3, <2>4 DEF ContentIInv
<1>3. CASE WalletReset
  <2>1. /\ UNCHANGED <<post, snap, flush, latch, anchored, old, registered>> /\ stored' = {}
        /\ restarts' \in 0..MaxRestarts /\ restarts' # 0
    BY <1>0, <1>3 DEF WalletReset
  <2>2. FlushesOk' /\ AddsOk'
    BY <2>1 DEF ContentIInv, FlushesOk, AddsOk, Working, Adding
  <2> QED BY <2>1, <2>2 DEF ContentIInv, ContentTypeOK, OneFlush, OneWrite
<1> QED BY <1>1, <1>2, <1>3

LEMMA ContentStep == ASSUME ~Overlap PROVE ContentIInv /\ [ContentNext]_contentVars => ContentIInv'
<1> SUFFICES ASSUME ContentIInv, [ContentNext]_contentVars PROVE ContentIInv'
  OBVIOUS
<1>1. CASE ContentNext
  BY <1>1, PostSteps, FlushSteps, AroundContent DEF ContentNext
<1>2. CASE UNCHANGED contentVars
  BY <1>2 DEF contentVars, ContentIInv, ContentTypeOK, FlushesOk, AddsOk, OneFlush, OneWrite
<1> QED BY <1>1, <1>2

LEMMA ContentInitOk == ContentInit => ContentIInv
<1> SUFFICES ASSUME ContentInit PROVE ContentIInv
  OBVIOUS
<1>1. flush \in [Flushes -> Flush] /\ \A f \in Flushes : flush[f] = Off /\ Off.pc = "off"
  <2>1. Off.pc = "off"
    BY DEF Off
  <2> QED BY <2>1, OffWorks DEF ContentInit
<1>2. ContentTypeOK
  <2>1. post \in [Posts -> {"new", "paid", "write", "done"}] /\ snap \in [Posts -> SUBSET Posts]
    BY DEF ContentInit
  <2>2. restarts \in 0..MaxRestarts /\ latch \in BOOLEAN
    <3>1. restarts = 0 /\ latch = FALSE
      BY DEF ContentInit
    <3>2. 0 \in 0..MaxRestarts
      BY ContentAssumption
    <3> QED BY <3>1, <3>2
  <2>3. {stored, anchored, old, registered} \subseteq SUBSET Posts
    BY DEF ContentInit
  <2> QED BY <1>1, <2>1, <2>2, <2>3 DEF ContentTypeOK
<1>3. FlushesOk /\ AddsOk /\ OneFlush /\ OneWrite
  BY <1>1, OffWorks DEF ContentInit, FlushesOk, AddsOk, OneFlush, OneWrite
<1> QED BY <1>2, <1>3 DEF ContentIInv

\* While writes of the list do not overlap, a body leaves the queue only once the API
\* holds it, its retention is over or the wallet is reset, and enters it only by its own
\* post: the latch keeps two flushes from settling one list (flushPending, addPending).
THEOREM QueueStaysFaithful == ASSUME ~Overlap PROVE ContentSpec => QueueIsFaithful
<1> DEFINE Leaves == \A p \in stored \ stored' : p \in registered \/ p \in old \/ WalletReset
           Enters == restarts = 0 => \A p \in stored' \ stored : post[p] = "write"
<1>1. ContentIInv /\ [ContentNext]_contentVars => [Leaves]_contentVars /\ [Enters]_contentVars
  <2> SUFFICES ASSUME ContentIInv, ContentNext PROVE Leaves /\ Enters
    OBVIOUS
  <2>1. ASSUME stored' = stored PROVE Leaves /\ Enters
    BY <2>1
  <2>2. ASSUME NEW p \in Posts, AddWrites(p) PROVE Leaves /\ Enters
    BY <2>2 DEF AddWrites, ContentIInv, AddsOk, Adding
  <2>3. ASSUME NEW f \in Flushes, WriteBack(f) PROVE Leaves /\ Enters
    <3>1. Working(flush[f], stored, registered \cup old, restarts)
      BY FlushAt
    <3> QED BY <2>3, <3>1 DEF WriteBack, Merged, Working
  <2>4. ASSUME WalletReset PROVE Leaves /\ Enters
    BY <2>4 DEF WalletReset
  <2> QED BY <2>1, <2>2, <2>3, <2>4
          DEF ContentNext, Broadcast, AddPending, AddReads, AddFails, AnchorMined, Age, Alarm, Works,
              ListRead, Examine, Register, ReRead, WriteFails, Restart
<1>2. ContentIInv => ContentTypeOK
  BY DEF ContentIInv
<1>3. ContentIInv /\ [ContentNext]_contentVars => ContentIInv'
  BY ContentStep
<1> QED BY <1>1, <1>2, <1>3, ContentInitOk, PTL DEF ContentSpec, QueueIsFaithful, BodiesKept, SettledStaysOut
=============================================================================
