------------------------ MODULE ApprovalQueueProofs ------------------------
(***************************************************************************)
(* What the approval queue promises a page and its user, for any number of *)
(* pages, requests, windows and accounts, whatever moves while a handler   *)
(* awaits and whenever the worker dies.                                    *)
(*                                                                         *)
(* The argument follows one request.  It is in the queue at most once and  *)
(* only in phase "queued" (PlacesOk), so one click takes it; from there    *)
(* until it is done or put back its review is the click that took it       *)
(* (HandledOk), whose acknowledgement the user gave (AcksOk).              *)
(*                                                                         *)
(* The second half follows the window of ReviewWindow, whose steps are     *)
(* those of the queue and of the cards (RInv).                             *)
(***************************************************************************)
EXTENDS ReviewWindow, TLAPS, SequenceTheorems

Handling == {"status", "vault", "preflight", "method"}

PlacesOk ==
    /\ \A i \in DOMAIN pending : phase[pending[i]] = "queued"
    /\ \A i, j \in DOMAIN pending : pending[i] = pending[j] => i = j

Handled(r) ==
    /\ review[r] # None <=> phase[r] \in Handling
    /\ phase[r] = "preflight" => stAddr[r] = review[r].signer
    /\ phase[r] \notin {"method", "done"} => uses[r] = 0
    /\ uses[r] \in {0, 1}
    /\ answer[r] # None => phase[r] = "done"
    /\ answer[r] \in Refusals => uses[r] = 0
HandledOk == \A r \in Requests : Handled(r)

AcksOk ==
    /\ \A c \in clicks : c.approve /\ c.ack # None => <<c.req, c.ack>> \in confirmed
    /\ \A r \in Requests :
          review[r] # None /\ review[r].ack # None => <<r, review[r].ack>> \in confirmed
    /\ WarnedBeforeUnconfirmed

StagesOk == \A w \in Windows : stage[w] = "painting" => seen[w].head # None

IInv == TypeOK /\ QueuedIsShown /\ PlacesOk /\ HandledOk /\ AcksOk /\ StagesOk

\* The types, by who keeps what.
WalletTypes == unlocked \in BOOLEAN /\ acct \in Accounts
WorkerTypes ==
    /\ pending \in Seq(Requests) /\ approveWinId \in Windows \cup {None}
    /\ phase \in [Requests -> {"new", "queued", "status", "vault", "preflight", "method", "done"}]
    /\ review \in [Requests -> Click \cup {None}]
    /\ stAddr \in [Requests -> Accounts \cup {None}]
    /\ answer \in [Requests -> Answers]
    /\ replies \subseteq Reply
BrowserTypes ==
    /\ shown \in [Windows -> {"none", "open", "closed"}]
    /\ reporting \subseteq Windows /\ removing \subseteq Windows
Status == [unlocked: BOOLEAN, acct: Accounts, head: Requests \cup {None}]
PageTypes ==
    /\ stage \in [Windows -> {"idle", "status", "empty", "painting"}]
    /\ seen \in [Windows -> Status]
    /\ paint \in [Windows -> Paint \cup {None}]
    /\ unconf \in [Windows -> [Requests -> Claims \cup {None}]]
    /\ inFlight \in [Windows -> SUBSET Requests] /\ holdOutcome \in [Windows -> BOOLEAN]
    /\ clicks \subseteq Click
GhostTypes ==
    /\ usedAs \in [Requests -> Accounts \cup {None}] /\ uses \in [Requests -> Nat]
    /\ claimed \in [Requests -> Claims \cup {None}]
    /\ confirmed \subseteq Requests \X Claims
    /\ requeued \subseteq Requests /\ told \subseteq Requests /\ dismissed \in BOOLEAN

LEMMA TypesAre ==
    /\ TypeOK <=> WalletTypes /\ WorkerTypes /\ BrowserTypes /\ PageTypes /\ GhostTypes
    /\ TypeOK' <=> WalletTypes' /\ WorkerTypes' /\ BrowserTypes' /\ PageTypes' /\ GhostTypes'
  BY Zenon DEF TypeOK, WalletTypes, WorkerTypes, BrowserTypes, PageTypes, GhostTypes, Status

LEMMA TypesKept ==
    /\ WalletTypes /\ UNCHANGED wallet => WalletTypes'
    /\ WorkerTypes /\ UNCHANGED <<worker, answer, replies>> => WorkerTypes'
    /\ BrowserTypes /\ UNCHANGED browser => BrowserTypes'
    /\ PageTypes /\ UNCHANGED <<page, clicks>> => PageTypes'
    /\ GhostTypes /\ UNCHANGED ghosts => GhostTypes'
<1>1. WalletTypes /\ UNCHANGED wallet => WalletTypes'
  BY DEF WalletTypes, wallet
<1>2. WorkerTypes /\ UNCHANGED <<worker, answer, replies>> => WorkerTypes'
  BY DEF WorkerTypes, worker
<1>3. BrowserTypes /\ UNCHANGED browser => BrowserTypes'
  BY DEF BrowserTypes, browser
<1>4. PageTypes /\ UNCHANGED <<page, clicks>> => PageTypes'
  BY DEF PageTypes, page
<1>5. GhostTypes /\ UNCHANGED ghosts => GhostTypes'
  BY DEF GhostTypes, ghosts
<1> QED BY <1>1, <1>2, <1>3, <1>4, <1>5

\* What the invariants read, and what changes nothing they read.
LEMMA PartsKept ==
    /\ QueuedIsShown /\ UNCHANGED <<worker, browser>> => QueuedIsShown'
    /\ PlacesOk /\ UNCHANGED worker => PlacesOk'
    /\ HandledOk /\ UNCHANGED <<worker, answer, uses>> => HandledOk'
    /\ AcksOk /\ UNCHANGED <<worker, clicks, confirmed, claimed>> => AcksOk'
    /\ StagesOk /\ UNCHANGED <<stage, seen>> => StagesOk'
<1>1. QueuedIsShown /\ UNCHANGED <<worker, browser>> => QueuedIsShown'
  BY DEF QueuedIsShown, worker, browser
<1>2. PlacesOk /\ UNCHANGED worker => PlacesOk'
  BY DEF PlacesOk, worker
<1>3. HandledOk /\ UNCHANGED <<worker, answer, uses>> => HandledOk'
  BY DEF HandledOk, Handled, worker
<1>4. AcksOk /\ UNCHANGED <<worker, clicks, confirmed, claimed>> => AcksOk'
  BY DEF AcksOk, WarnedBeforeUnconfirmed, worker
<1>5. StagesOk /\ UNCHANGED <<stage, seen>> => StagesOk'
  BY DEF StagesOk
<1> QED BY <1>1, <1>2, <1>3, <1>4, <1>5

-----------------------------------------------------------------------------
(* The queue: sequences without repetition *)

LEMMA SeqDomain == ASSUME NEW S, NEW s \in Seq(S) PROVE DOMAIN s = 1..Len(s) /\ Len(s) \in Nat
  BY LenProperties

LEMMA Added ==
    ASSUME NEW r \in Requests, pending \in Seq(Requests), PlacesOk, phase[r] # "queued",
           \/ pending' = Append(pending, r)
           \/ pending' = <<r>> \o pending,
           phase' = [phase EXCEPT ![r] = "queued"],
           phase \in [Requests -> {"new", "queued", "status", "vault", "preflight", "method", "done"}]
    PROVE  pending' \in Seq(Requests) /\ PlacesOk'
<1>1. DOMAIN pending = 1..Len(pending) /\ Len(pending) \in Nat
  BY SeqDomain
<1>2. \A i \in DOMAIN pending : pending[i] \in Requests /\ pending[i] # r
  BY <1>1, ElementOfSeq DEF PlacesOk
<1>3. CASE pending' = Append(pending, r)
  <2>1. /\ pending' \in Seq(Requests) /\ Len(pending') = Len(pending) + 1
        /\ \A i \in 1..Len(pending) : pending'[i] = pending[i]
        /\ pending'[Len(pending) + 1] = r
    BY <1>3, AppendProperties
  <2>2. DOMAIN pending' = 1..Len(pending) + 1
    BY <2>1, SeqDomain
  <2>3. \A i \in 1..Len(pending) : phase'[pending'[i]] = "queued" /\ pending'[i] # r
    BY <1>1, <1>2, <2>1, SMTT(30) DEF PlacesOk
  <2>4. \A i, j \in 1..Len(pending) : pending'[i] = pending'[j] => i = j
    BY <1>1, <2>1 DEF PlacesOk
  <2> QED BY <1>1, <2>1, <2>2, <2>3, <2>4, SMTT(30) DEF PlacesOk
<1>4. CASE pending' = <<r>> \o pending
  <2>1. <<r>> \in Seq(Requests) /\ Len(<<r>>) = 1 /\ <<r>>[1] = r
    OBVIOUS
  <2>2. /\ <<r>> \o pending \in Seq(Requests) /\ Len(<<r>> \o pending) = Len(<<r>>) + Len(pending)
        /\ \A i \in 1..Len(<<r>>) + Len(pending) :
              (<<r>> \o pending)[i] = IF i <= Len(<<r>>) THEN <<r>>[i] ELSE pending[i - Len(<<r>>)]
    BY <2>1, ConcatProperties
  <2>3. /\ pending' \in Seq(Requests) /\ DOMAIN pending' = 1..Len(pending) + 1
        /\ pending'[1] = r
        /\ \A i \in 2..Len(pending) + 1 : pending'[i] = pending[i - 1]
    BY <1>1, <1>4, <2>1, <2>2, SeqDomain
  <2>4. \A i \in 2..Len(pending) + 1 : i - 1 \in DOMAIN pending
    BY <1>1
  <2>5. \A i \in 2..Len(pending) + 1 : phase'[pending'[i]] = "queued" /\ pending'[i] # r
    BY <1>2, <2>3, <2>4 DEF PlacesOk
  <2>6. ASSUME NEW i \in 2..Len(pending) + 1, NEW j \in 2..Len(pending) + 1, pending'[i] = pending'[j]
        PROVE  i = j
    <3>1. i - 1 \in DOMAIN pending /\ j - 1 \in DOMAIN pending /\ pending[i - 1] = pending[j - 1]
      BY <2>3, <2>4, <2>6
    <3>2. i - 1 = j - 1
      BY <3>1 DEF PlacesOk
    <3> QED BY <1>1, <3>2
  <2>7. phase'[r] = "queued"
    OBVIOUS
  <2>8. \A i \in DOMAIN pending' : i = 1 \/ i \in 2..Len(pending) + 1
    BY <1>1, <2>3
  <2>9. \A i \in DOMAIN pending' : phase'[pending'[i]] = "queued"
    BY <2>3, <2>5, <2>7, <2>8
  <2>10. \A i, j \in DOMAIN pending' : pending'[i] = pending'[j] => i = j
    BY <2>3, <2>5, <2>6, <2>8
  <2> QED BY <2>3, <2>9, <2>10 DEF PlacesOk
<1> QED BY <1>3, <1>4

\* What leaves the queue leaves it whole: the rest keeps its order, and is the rest.
LEMMA TakenAt ==
    ASSUME NEW S, NEW s \in Seq(S), NEW k \in DOMAIN s
    PROVE  /\ RemoveAt(s, k) \in Seq(S) /\ DOMAIN RemoveAt(s, k) = 1..Len(s) - 1
           /\ \A i \in 1..Len(s) - 1 : RemoveAt(s, k)[i] = s[IF i < k THEN i ELSE i + 1]
<1>1. Len(s) \in Nat /\ DOMAIN s = 1..Len(s) /\ k \in 1..Len(s)
  BY SeqDomain
<1>2. \A i \in 1..Len(s) : s[i] \in S
  BY <1>1, ElementOfSeq
<1>3. /\ SubSeq(s, 1, k - 1) \in Seq(S) /\ Len(SubSeq(s, 1, k - 1)) = k - 1
      /\ \A i \in 1..k - 1 : SubSeq(s, 1, k - 1)[i] = s[i]
  <2>1. /\ SubSeq(s, 1, k - 1) \in Seq(S)
        /\ Len(SubSeq(s, 1, k - 1)) = IF 1 <= k - 1 THEN k - 1 - 1 + 1 ELSE 0
        /\ \A i \in 1..k - 1 - 1 + 1 : SubSeq(s, 1, k - 1)[i] = s[1 + i - 1]
    BY <1>1, <1>2, SubSeqProperties
  <2> QED BY <1>1, <2>1
<1>4. /\ SubSeq(s, k + 1, Len(s)) \in Seq(S) /\ Len(SubSeq(s, k + 1, Len(s))) = Len(s) - k
      /\ \A i \in 1..Len(s) - k : SubSeq(s, k + 1, Len(s))[i] = s[k + i]
  <2>1. /\ SubSeq(s, k + 1, Len(s)) \in Seq(S)
        /\ Len(SubSeq(s, k + 1, Len(s))) = IF k + 1 <= Len(s) THEN Len(s) - (k + 1) + 1 ELSE 0
        /\ \A i \in 1..Len(s) - (k + 1) + 1 : SubSeq(s, k + 1, Len(s))[i] = s[k + 1 + i - 1]
    BY <1>1, <1>2, SubSeqProperties
  <2> QED BY <1>1, <2>1
<1> DEFINE p == SubSeq(s, 1, k - 1)
           q == SubSeq(s, k + 1, Len(s))
<1>5. RemoveAt(s, k) = p \o q
  BY DEF RemoveAt
<1> HIDE DEF p, q
<1>6. /\ p \o q \in Seq(S) /\ Len(p \o q) = Len(s) - 1
      /\ \A i \in 1..Len(s) - 1 : (p \o q)[i] = IF i < k THEN p[i] ELSE q[i - (k - 1)]
  <2>1. /\ p \o q \in Seq(S) /\ Len(p \o q) = Len(p) + Len(q)
        /\ \A i \in 1..Len(p) + Len(q) : (p \o q)[i] = IF i <= Len(p) THEN p[i] ELSE q[i - Len(p)]
    BY <1>3, <1>4, ConcatProperties DEF p, q
  <2>2. Len(p) = k - 1 /\ Len(q) = Len(s) - k
    BY <1>3, <1>4 DEF p, q
  <2> QED BY <1>1, <2>1, <2>2
<1>7. \A i \in 1..Len(s) - 1 : i < k => p[i] = s[i]
  BY <1>1, <1>3 DEF p
<1>8. \A i \in 1..Len(s) - 1 : ~(i < k) => q[i - (k - 1)] = s[i + 1]
  <2> SUFFICES ASSUME NEW i \in 1..Len(s) - 1, ~(i < k) PROVE q[i - (k - 1)] = s[i + 1]
    OBVIOUS
  <2>1. i - (k - 1) \in 1..Len(s) - k /\ k + (i - (k - 1)) = i + 1
    BY <1>1
  <2> QED BY <1>4, <2>1 DEF q
<1>9. DOMAIN (p \o q) = 1..Len(s) - 1
  BY <1>6, SeqDomain
<1> QED BY <1>5, <1>6, <1>7, <1>8, <1>9

LEMMA Taken ==
    ASSUME NEW r \in Requests, pending \in Seq(Requests), PlacesOk, Take(r),
           \A q \in Requests : q # r => phase'[q] = phase[q]
    PROVE  pending' \in Seq(Requests) /\ PlacesOk'
<1>1. PICK k \in DOMAIN pending : pending[k] = r /\ pending' = RemoveAt(pending, k)
  BY DEF Take
<1>2. Len(pending) \in Nat /\ DOMAIN pending = 1..Len(pending)
  BY SeqDomain
<1>3. /\ pending' \in Seq(Requests) /\ DOMAIN pending' = 1..Len(pending) - 1
      /\ \A i \in 1..Len(pending) - 1 : pending'[i] = pending[IF i < k THEN i ELSE i + 1]
  BY <1>1, TakenAt
<1> DEFINE At(i) == IF i < k THEN i ELSE i + 1
<1>4. \A i \in DOMAIN pending' : /\ At(i) \in DOMAIN pending /\ At(i) # k
                                 /\ pending'[i] = pending[At(i)]
  BY <1>1, <1>2, <1>3
<1>5. \A i, j \in DOMAIN pending' : At(i) = At(j) => i = j
  BY <1>1, <1>2, <1>3
<1> HIDE DEF At
<1>6. \A i \in DOMAIN pending : i # k => pending[i] \in Requests /\ pending[i] # r
  BY <1>1, <1>2, ElementOfSeq DEF PlacesOk
<1>7. \A i \in DOMAIN pending' : phase'[pending'[i]] = "queued"
  BY <1>4, <1>6 DEF PlacesOk
<1>8. \A i, j \in DOMAIN pending' : pending'[i] = pending'[j] => i = j
  BY <1>4, <1>5 DEF PlacesOk
<1> QED BY <1>3, <1>7, <1>8 DEF PlacesOk

LEMMA QueuedAre ==
    ASSUME pending \in Seq(Requests), PlacesOk
    PROVE  Queued \subseteq Requests /\ \A r \in Queued : phase[r] = "queued"
<1>1. DOMAIN pending = 1..Len(pending)
  BY SeqDomain
<1>2. Queued = {pending[i] : i \in DOMAIN pending}
  BY DEF Queued, ToSet
<1> QED BY <1>1, <1>2, ElementOfSeq DEF PlacesOk

LEMMA Emptied ==
    ASSUME pending' = <<>>
    PROVE  pending' \in Seq(Requests) /\ PlacesOk' /\ QueuedIsShown'
  BY DEF PlacesOk, QueuedIsShown

-----------------------------------------------------------------------------
(* The handling of a request *)

\* What Finish leaves: the request done and told, its click gone.
LEMMA FinishKeeps ==
    ASSUME IInv, NEW r \in Requests, phase[r] \in Handling,
           NEW a \in Answers \ {None}, Finish(r, a), UNCHANGED uses,
           a \in Refusals => uses[r] = 0
    PROVE  /\ UNCHANGED <<pending, approveWinId>> => WorkerTypes'
           /\ HandledOk'
           /\ UNCHANGED pending => PlacesOk'
           /\ UNCHANGED <<clicks, confirmed, claimed>> => AcksOk'
<1>1. TypeOK /\ WorkerTypes /\ PlacesOk /\ HandledOk /\ AcksOk
  BY TypesAre DEF IInv
<1>2. review[r] \in Click
  BY <1>1 DEF WorkerTypes, HandledOk, Handled
<1>3. replies' \subseteq Reply
  <2> DEFINE word == IF a = "ok" THEN "ok" ELSE "failed"
  <2>1. word \in {"ok", "failed", "stale", "unconfirmed"}
    OBVIOUS
  <2>2. review[r].win \in Windows /\ review[r].req \in Requests
    BY <1>2 DEF Click
  <2>3. ReplyTo(review[r], word, None) \in Reply
    BY Zenon, <2>1, <2>2 DEF ReplyTo, Reply
  <2>4. replies' = replies \/ replies' = replies \cup {ReplyTo(review[r], word, None)}
    BY DEF Finish
  <2> QED BY <1>1, <2>3, <2>4 DEF WorkerTypes
<1>4. UNCHANGED <<pending, approveWinId>> => WorkerTypes'
  BY <1>1, <1>3 DEF Finish, WorkerTypes
<1>5. HandledOk'
  <2> SUFFICES ASSUME NEW q \in Requests PROVE Handled(q)'
    BY DEF HandledOk
  <2>1. Handled(q)
    BY <1>1 DEF HandledOk
  <2>2. CASE q = r
    BY <1>1, <2>1, <2>2 DEF Finish, Handled, WorkerTypes, Handling
  <2>3. CASE q # r
    BY <1>1, <2>1, <2>3 DEF Finish, Handled, WorkerTypes
  <2> QED BY <2>2, <2>3
<1>6. UNCHANGED pending => PlacesOk'
  BY <1>1, QueuedAre DEF Finish, WorkerTypes, PlacesOk, Handling
<1>7. UNCHANGED <<clicks, confirmed, claimed>> => AcksOk'
  BY <1>1 DEF Finish, WorkerTypes, AcksOk, WarnedBeforeUnconfirmed
<1> QED BY <1>4, <1>5, <1>6, <1>7


-----------------------------------------------------------------------------
(* The worker's steps *)

\* Of the account the user reviewed.
Reviewed ==
    \A r \in Requests : KindOf[r] # "plain" /\ uses'[r] > uses[r] =>
       review[r] # None /\ usedAs'[r] = review[r].signer

LEMMA NothingUsed == UNCHANGED uses => \/ Reviewed
                                       \/ ~ IInv
<1> SUFFICES ASSUME UNCHANGED uses, IInv, NEW r \in Requests PROVE ~(uses'[r] > uses[r])
  BY DEF Reviewed
<1>1. uses[r] \in Nat
  BY DEF IInv, TypeOK
<1> QED BY <1>1

LEMMA QueueKeeps ==
    ASSUME IInv, NEW r \in Requests, Queue(r) PROVE IInv' /\ Reviewed
<1>1. /\ WalletTypes /\ WorkerTypes /\ BrowserTypes /\ PageTypes /\ GhostTypes
      /\ PlacesOk /\ HandledOk /\ AcksOk /\ StagesOk /\ TypeOK
  BY TypesAre DEF IInv
<1>2. pending' \in Seq(Requests) /\ PlacesOk'
  BY <1>1, Added DEF Queue, WorkerTypes
<1>3. WorkerTypes'
  BY <1>1, <1>2 DEF Queue, WorkerTypes
<1>4. BrowserTypes' /\ UNCHANGED page /\ (approveWinId # None \/ reporting' # {})
  BY <1>1 DEF Queue, Raise, BrowserTypes, browser
<1>5. TypeOK'
  BY <1>1, <1>3, <1>4, TypesAre, TypesKept DEF Queue
<1>6. QueuedIsShown'
  BY <1>4 DEF Queue, QueuedIsShown
<1>7. HandledOk'
  BY <1>1 DEF Queue, HandledOk, Handled, Handling, WorkerTypes, ghosts
<1>8. AcksOk'
  BY <1>1 DEF Queue, AcksOk, WarnedBeforeUnconfirmed, ghosts
<1>9. StagesOk' /\ Reviewed
  BY <1>1, <1>4, PartsKept, NothingUsed DEF Queue, page, ghosts, IInv
<1> QED BY <1>2, <1>5, <1>6, <1>7, <1>8, <1>9 DEF IInv

LEMMA RefuseKeeps ==
    ASSUME IInv, NEW r \in Requests, Refuse(r) PROVE IInv' /\ Reviewed
<1>1. /\ WalletTypes /\ WorkerTypes /\ BrowserTypes /\ PageTypes /\ GhostTypes
      /\ PlacesOk /\ HandledOk /\ AcksOk /\ StagesOk /\ TypeOK /\ QueuedIsShown
  BY TypesAre DEF IInv
<1>2. WorkerTypes'
  BY <1>1 DEF Refuse, WorkerTypes, Answers, Refusals
<1>3. TypeOK'
  BY <1>1, <1>2, TypesAre, TypesKept DEF Refuse
<1>4. QueuedIsShown'
  BY <1>1 DEF Refuse, QueuedIsShown, browser
<1>5. PlacesOk'
  BY <1>1, QueuedAre DEF Refuse, PlacesOk, WorkerTypes
<1>6. HandledOk'
  BY <1>1 DEF Refuse, HandledOk, Handled, Handling, WorkerTypes, ghosts
<1>7. AcksOk'
  BY <1>1 DEF Refuse, AcksOk, WarnedBeforeUnconfirmed, ghosts
<1>8. StagesOk' /\ Reviewed
  BY <1>1, PartsKept, NothingUsed DEF Refuse, page, ghosts, IInv
<1> QED BY <1>3, <1>4, <1>5, <1>6, <1>7, <1>8 DEF IInv

LEMMA StatusKeeps ==
    ASSUME IInv, NEW r \in Requests, StatusReadsAddr(r) PROVE IInv' /\ Reviewed
<1>1. /\ WalletTypes /\ WorkerTypes /\ BrowserTypes /\ PageTypes /\ GhostTypes
      /\ PlacesOk /\ HandledOk /\ AcksOk /\ StagesOk /\ TypeOK /\ QueuedIsShown
  BY TypesAre DEF IInv
<1>2. WorkerTypes'
  BY <1>1 DEF StatusReadsAddr, WorkerTypes, WalletTypes
<1>3. TypeOK'
  BY <1>1, <1>2, TypesAre, TypesKept DEF StatusReadsAddr
<1>4. QueuedIsShown'
  BY <1>1 DEF StatusReadsAddr, QueuedIsShown, browser
<1>5. PlacesOk'
  BY <1>1, QueuedAre DEF StatusReadsAddr, PlacesOk, WorkerTypes
<1>6. HandledOk'
  BY <1>1 DEF StatusReadsAddr, HandledOk, Handled, Handling, WorkerTypes, ghosts
<1>7. AcksOk'
  BY <1>1 DEF StatusReadsAddr, AcksOk, WarnedBeforeUnconfirmed, ghosts
<1>8. StagesOk' /\ Reviewed
  BY <1>1, PartsKept, NothingUsed DEF StatusReadsAddr, page, ghosts, IInv
<1> QED BY <1>3, <1>4, <1>5, <1>6, <1>7, <1>8 DEF IInv


LEMMA TellsApart ==
    /\ Refusals \subseteq Answers \ {None} /\ {"ok", "failed", "unavailable"} \subseteq Answers \ {None}
    /\ {"rejected", "closed", "locked", "changed", "limited", "refused"} = Refusals
  BY NoneAssumption DEF Answers, Refusals

\* The request stays where it is in the queue's eyes and nothing is on its way.
LEMMA EndsKeeps ==
    ASSUME IInv, NEW r \in Requests, phase[r] \in Handling \ {"method"},
           NEW a \in Answers \ {None}, Finish(r, a),
           UNCHANGED <<wallet, pending, approveWinId, browser, page, clicks, ghosts>>
    PROVE  IInv' /\ Reviewed
<1>1. /\ WalletTypes /\ WorkerTypes /\ BrowserTypes /\ PageTypes /\ GhostTypes
      /\ PlacesOk /\ HandledOk /\ AcksOk /\ StagesOk /\ TypeOK /\ QueuedIsShown
  BY TypesAre DEF IInv
<1>2. uses[r] = 0 /\ UNCHANGED <<uses, confirmed, claimed>>
  BY <1>1 DEF HandledOk, Handled, Handling, ghosts
<1>3. WorkerTypes' /\ HandledOk' /\ PlacesOk' /\ AcksOk'
  BY <1>2, FinishKeeps
<1>4. TypeOK'
  BY <1>1, <1>3, TypesAre, TypesKept
<1>5. QueuedIsShown'
  BY <1>1 DEF QueuedIsShown, browser
<1>6. StagesOk' /\ Reviewed
  BY <1>1, <1>2, PartsKept, NothingUsed DEF page
<1> QED BY <1>3, <1>4, <1>5, <1>6 DEF IInv

LEMMA RefusesKeeps ==
    ASSUME IInv, NEW r \in Requests, PreflightRefuses(r) PROVE IInv' /\ Reviewed
<1> QED BY TellsApart, EndsKeeps DEF PreflightRefuses, Handling


LEMMA MethodKeeps ==
    ASSUME IInv, NEW r \in Requests, MethodReturns(r) PROVE IInv' /\ Reviewed
<1>1. /\ WalletTypes /\ WorkerTypes /\ BrowserTypes /\ PageTypes /\ GhostTypes
      /\ PlacesOk /\ HandledOk /\ AcksOk /\ StagesOk /\ TypeOK /\ QueuedIsShown
  BY TypesAre DEF IInv
<1>2. PICK a \in {"ok", "failed"} : Finish(r, a)
  BY DEF MethodReturns
<1>3. a \in Answers \ {None} /\ a \notin Refusals /\ UNCHANGED <<uses, confirmed, claimed>>
  BY TellsApart, <1>2 DEF MethodReturns, ghosts, Refusals
<1>4. WorkerTypes' /\ HandledOk' /\ PlacesOk' /\ AcksOk'
  BY <1>2, <1>3, FinishKeeps DEF MethodReturns, Handling
<1>5. TypeOK'
  BY <1>1, <1>4, TypesAre, TypesKept DEF MethodReturns
<1>6. QueuedIsShown'
  BY <1>1 DEF QueuedIsShown, browser, MethodReturns
<1>7. StagesOk' /\ Reviewed
  BY <1>1, <1>3, PartsKept, NothingUsed DEF page, MethodReturns
<1> QED BY <1>4, <1>5, <1>6, <1>7 DEF IInv

\* A request goes on to be signed: in phase "method", used once, with the account
\* that was reviewed unless its method is a plain one.
LEMMA SignsKeeps ==
    ASSUME IInv, NEW r \in Requests, phase[r] \in {"vault", "preflight"},
           NEW a \in Accounts, Uses(r, a), KindOf[r] # "plain" => a = review[r].signer,
           phase' = [phase EXCEPT ![r] = "method"],
           stAddr' = [stAddr EXCEPT ![r] = None],
           NEW f \in Claims \cup {None}, claimed' \in {claimed, [claimed EXCEPT ![r] = f]},
           f # None => review[r].ack = f,
           UNCHANGED <<wallet, pending, approveWinId, browser, page, clicks, answer, review,
                       replies, confirmed, requeued, told, dismissed>>
    PROVE  IInv' /\ Reviewed
<1>1. /\ WalletTypes /\ WorkerTypes /\ BrowserTypes /\ PageTypes /\ GhostTypes
      /\ PlacesOk /\ HandledOk /\ AcksOk /\ StagesOk /\ TypeOK /\ QueuedIsShown
  BY TypesAre DEF IInv
<1>2. WorkerTypes'
  BY <1>1 DEF WorkerTypes
<1>3. GhostTypes'
  BY <1>1 DEF GhostTypes, Uses
<1>4. TypeOK'
  BY <1>1, <1>2, <1>3, TypesAre, TypesKept
<1>5. QueuedIsShown'
  BY <1>1 DEF QueuedIsShown, browser
<1>6. PlacesOk'
  BY <1>1, QueuedAre DEF PlacesOk, WorkerTypes
<1>7. HandledOk'
  <2> SUFFICES ASSUME NEW q \in Requests PROVE Handled(q)'
    BY DEF HandledOk
  <2>1. Handled(q) /\ uses[r] = 0 /\ answer[r] = None
    BY <1>1 DEF HandledOk, Handled
  <2>2. CASE q = r
    <3>1. phase'[q] = "method" /\ uses'[q] = 1 /\ review'[q] # None /\ answer'[q] = None
      BY <1>1, <2>1, <2>2 DEF Uses, WorkerTypes, GhostTypes, Handled, Handling
    <3>2. answer'[q] \notin Refusals
      BY <3>1, NoneAssumption
    <3> QED BY <3>1, <3>2 DEF Handled, Handling
  <2>3. CASE q # r
    BY <1>1, <2>1, <2>3 DEF Uses, WorkerTypes, GhostTypes, Handled, Handling
  <2> QED BY <2>2, <2>3
<1>8. AcksOk'
  <2>1. f # None => <<r, f>> \in confirmed
    BY <1>1 DEF AcksOk, HandledOk, Handled, Handling
  <2> QED BY <1>1, <2>1 DEF AcksOk, WarnedBeforeUnconfirmed, GhostTypes
<1>9. StagesOk'
  BY <1>1, PartsKept DEF page
<1>10. Reviewed
  BY <1>1 DEF Reviewed, Uses, GhostTypes, HandledOk, Handled, Handling
<1> QED BY <1>4, <1>5, <1>6, <1>7, <1>8, <1>9, <1>10 DEF IInv

LEMMA PassesKeeps ==
    ASSUME IInv, NEW r \in Requests, NEW f \in Claims \cup {None}, PreflightPasses(r, f)
    PROVE  IInv' /\ Reviewed
<1>1. TypeOK /\ HandledOk
  BY DEF IInv
<1>2. CASE SignerUnchanged(r)
  <2>1. acct \in Accounts /\ acct = review[r].signer
    BY <1>1, <1>2 DEF TypeOK, HandledOk, Handled, SignerUnchanged, PreflightPasses
  <2> QED BY <1>2, <2>1, SignsKeeps DEF PreflightPasses, Acked
<1>3. CASE ~SignerUnchanged(r)
  BY <1>3, TellsApart, EndsKeeps
     DEF PreflightPasses, UsesNothing, Handling, ghosts
<1> QED BY <1>2, <1>3

\* M5 holds: the preflight of a fill starts, with the reviewed signer captured.
LEMMA CapturesKeeps ==
    ASSUME IInv, NEW r \in Requests, phase[r] = "vault", review[r].signer = acct,
           phase' = [phase EXCEPT ![r] = "preflight"],
           stAddr' = [stAddr EXCEPT ![r] = acct],
           UNCHANGED <<wallet, pending, approveWinId, browser, page, clicks, answer, review,
                       replies, ghosts>>
    PROVE  IInv' /\ Reviewed
<1>1. /\ WalletTypes /\ WorkerTypes /\ BrowserTypes /\ PageTypes /\ GhostTypes
      /\ PlacesOk /\ HandledOk /\ AcksOk /\ StagesOk /\ TypeOK /\ QueuedIsShown
  BY TypesAre DEF IInv
<1>2. WorkerTypes'
  BY <1>1 DEF WorkerTypes, WalletTypes
<1>3. TypeOK'
  BY <1>1, <1>2, TypesAre, TypesKept
<1>4. QueuedIsShown'
  BY <1>1 DEF QueuedIsShown, browser
<1>5. PlacesOk'
  BY <1>1, QueuedAre DEF PlacesOk, WorkerTypes
<1>6. HandledOk'
  BY <1>1 DEF HandledOk, Handled, Handling, WorkerTypes, ghosts
<1>7. AcksOk'
  BY <1>1 DEF AcksOk, WarnedBeforeUnconfirmed, ghosts
<1>8. StagesOk' /\ Reviewed
  BY <1>1, PartsKept, NothingUsed DEF page, ghosts
<1> QED BY <1>3, <1>4, <1>5, <1>6, <1>7, <1>8 DEF IInv

LEMMA DispatchKeeps ==
    ASSUME IInv, NEW r \in Requests, Dispatch(r) PROVE IInv' /\ Reviewed
<1>1. /\ WalletTypes /\ WorkerTypes /\ GhostTypes /\ HandledOk
  BY TypesAre DEF IInv
<1>2. phase[r] = "vault" /\ KindOf[r] \in Kinds
  BY QueueAssumption DEF Dispatch
<1> DEFINE Elsewhere == UNCHANGED <<wallet, pending, approveWinId, browser, page, clicks,
                                    claimed, confirmed, requeued, told, dismissed>>
<1>3. ASSUME NEW a \in {"changed", "locked"}, Finish(r, a) /\ UsesNothing, Elsewhere
      PROVE  IInv' /\ Reviewed
  BY <1>2, <1>3, TellsApart, EndsKeeps DEF UsesNothing, Handling, ghosts
<1>4. CASE ~unlocked \/ SignerChanged(r)
  BY <1>3, <1>4, Zenon DEF Dispatch
<1>5. CASE unlocked /\ ~SignerChanged(r) /\ KindOf[r] \in {"guarded", "fill"} /\ ~GuardHolds(r)
  BY <1>3, <1>5, Zenon DEF Dispatch
<1>6. ASSUME unlocked, ~SignerChanged(r), ~(KindOf[r] \in {"guarded", "fill"} /\ ~GuardHolds(r))
      PROVE  IInv' /\ Reviewed
  <2>1. /\ phase' = [phase EXCEPT ![r] = IF KindOf[r] = "fill" THEN "preflight" ELSE "method"]
        /\ CASE KindOf[r] = "fill" -> UsesNothing
             [] KindOf[r] = "connect" -> Uses(r, stAddr[r])
             [] OTHER -> Uses(r, acct)
        /\ stAddr' = [stAddr EXCEPT ![r] = IF KindOf[r] = "fill" THEN acct ELSE None]
        /\ UNCHANGED <<answer, review, replies>> /\ Elsewhere
    BY <1>6, Zenon DEF Dispatch
  <2>2. review[r] # None /\ review[r] \in Click
    BY <1>1, <1>2 DEF HandledOk, Handled, Handling, WorkerTypes
  <2>3. review[r].signer \in Accounts /\ stAddr[r] = review[r].signer
    BY <1>6, <2>2 DEF Click, SignerChanged
  <2>4. CASE KindOf[r] = "fill"
    BY <1>2, <1>6, <2>1, <2>4, CapturesKeeps DEF GuardHolds, UsesNothing, ghosts
  <2>5. ASSUME NEW a \in Accounts, Uses(r, a), KindOf[r] # "fill",
               KindOf[r] # "plain" => a = review[r].signer
        PROVE  IInv' /\ Reviewed
    <3>1. None \in Claims \cup {None} /\ claimed' \in {claimed, [claimed EXCEPT ![r] = None]}
      BY <2>1
    <3>2. phase' = [phase EXCEPT ![r] = "method"] /\ stAddr' = [stAddr EXCEPT ![r] = None]
      BY <2>1, <2>5
    <3> QED BY <1>2, <2>1, <2>5, <3>1, <3>2, SignsKeeps
  <2>6. CASE KindOf[r] = "connect"
    BY <2>1, <2>3, <2>5, <2>6
  <2>7. CASE KindOf[r] \in {"guarded", "plain"}
    BY <1>1, <1>6, <2>1, <2>3, <2>5, <2>7 DEF GuardHolds, WalletTypes
  <2> QED BY <1>2, <2>4, <2>6, <2>7 DEF Kinds
<1> QED BY <1>4, <1>5, <1>6


LEMMA UnconfirmedKeeps ==
    ASSUME IInv, NEW r \in Requests, NEW f \in Claims, PreflightUnconfirmed(r, f)
    PROVE  IInv' /\ Reviewed
<1>1. /\ WalletTypes /\ WorkerTypes /\ BrowserTypes /\ PageTypes /\ GhostTypes
      /\ PlacesOk /\ HandledOk /\ AcksOk /\ StagesOk /\ TypeOK /\ QueuedIsShown
  BY TypesAre DEF IInv
<1>2. CASE WindowGone
  BY <1>2, TellsApart, EndsKeeps DEF PreflightUnconfirmed, Handling, ghosts
<1>3. CASE ~WindowGone
  <2>1. /\ phase[r] = "preflight" /\ RequeueFront(r)
        /\ replies' = replies \cup {ReplyTo(review[r], "unconfirmed", f)}
        /\ requeued' = requeued \cup {r} /\ stAddr' = [stAddr EXCEPT ![r] = None]
        /\ UNCHANGED <<wallet, approveWinId, browser, page, clicks, answer,
                       usedAs, uses, claimed, confirmed, told, dismissed>>
    BY <1>3, Zenon DEF PreflightUnconfirmed
  <2>2. pending' \in Seq(Requests) /\ PlacesOk'
    BY <1>1, <2>1, Added DEF RequeueFront, WorkerTypes
  <2>3. replies' \subseteq Reply
    <3>1. review[r] \in Click
      BY <1>1, <2>1 DEF WorkerTypes, HandledOk, Handled, Handling
    <3>2. review[r].win \in Windows /\ review[r].req \in Requests
      BY <3>1 DEF Click
    <3>3. ReplyTo(review[r], "unconfirmed", f) \in Reply
      BY <3>2 DEF ReplyTo, Reply
    <3> QED BY <1>1, <2>1, <3>3 DEF WorkerTypes
  <2>4. WorkerTypes'
    BY <1>1, <2>1, <2>2, <2>3 DEF WorkerTypes, RequeueFront
  <2>5. GhostTypes'
    BY <1>1, <2>1 DEF GhostTypes
  <2>6. TypeOK'
    BY <1>1, <2>1, <2>4, <2>5, TypesAre, TypesKept
  <2>7. QueuedIsShown'
    BY <1>3, <2>1 DEF QueuedIsShown, WindowGone
  <2>8. HandledOk'
    BY <1>1, <2>1 DEF HandledOk, Handled, Handling, WorkerTypes, RequeueFront
  <2>9. AcksOk'
    BY <1>1, <2>1 DEF AcksOk, WarnedBeforeUnconfirmed, WorkerTypes, RequeueFront
  <2>10. StagesOk' /\ Reviewed
    BY <1>1, <2>1, PartsKept, NothingUsed DEF page
  <2> QED BY <2>2, <2>6, <2>7, <2>8, <2>9, <2>10 DEF IInv
<1> QED BY <1>2, <1>3

LEMMA ResolveKeeps ==
    ASSUME IInv, NEW c \in clicks, Resolve(c) PROVE IInv' /\ Reviewed
<1>1. /\ WalletTypes /\ WorkerTypes /\ BrowserTypes /\ PageTypes /\ GhostTypes
      /\ PlacesOk /\ HandledOk /\ AcksOk /\ StagesOk /\ TypeOK /\ QueuedIsShown
  BY TypesAre DEF IInv
<1>2. c \in Click /\ c.win \in Windows /\ c.req \in Requests /\ c.approve \in BOOLEAN
  BY <1>1 DEF PageTypes, Click
<1>3. /\ clicks' = clicks \ {c} /\ UNCHANGED <<wallet, approveWinId, stAddr, browser, page, ghosts>>
      /\ UNCHANGED <<uses, confirmed, claimed, stage, seen>>
  BY DEF Resolve, ghosts, page
<1>4. PageTypes'
  BY <1>1, <1>3 DEF PageTypes, page
<1>5. StagesOk' /\ Reviewed
  BY <1>1, <1>3, PartsKept, NothingUsed
<1>6. QueuedIsShown'
  <2>1. pending' # <<>> => pending # <<>>
    <3>1. CASE c.req \notin Queued
      BY <3>1, Zenon DEF Resolve
    <3>2. CASE c.req \in Queued
      <4>1. PICK k \in DOMAIN pending : pending[k] = c.req
        BY <3>2, Zenon DEF Resolve, Take
      <4> QED BY <4>1
    <3> QED BY <3>1, <3>2
  <2> QED BY <1>1, <1>3, <2>1 DEF QueuedIsShown, browser
<1>7. CASE c.req \notin Queued
  <2>1. /\ replies' = IF c.approve THEN replies \cup {ReplyTo(c, "stale", None)} ELSE replies
        /\ UNCHANGED <<pending, phase, review, answer>>
    BY <1>7, Zenon DEF Resolve
  <2>2. ReplyTo(c, "stale", None) \in Reply
    BY <1>2 DEF ReplyTo, Reply
  <2>3. WorkerTypes'
    BY <1>1, <1>3, <2>1, <2>2 DEF WorkerTypes
  <2>4. PlacesOk' /\ HandledOk' /\ AcksOk'
    BY <1>1, <1>3, <2>1 DEF PlacesOk, HandledOk, Handled, AcksOk, WarnedBeforeUnconfirmed
  <2>5. TypeOK'
    BY <1>1, <1>3, <1>4, <2>3, TypesAre, TypesKept
  <2> QED BY <1>5, <1>6, <2>4, <2>5 DEF IInv
<1>8. CASE c.req \in Queued
  <2>1. phase[c.req] = "queued"
    BY <1>1, <1>8, QueuedAre DEF WorkerTypes
  <2>2. /\ Take(c.req)
        /\ \/ /\ c.approve /\ phase' = [phase EXCEPT ![c.req] = "status"]
              /\ review' = [review EXCEPT ![c.req] = c] /\ UNCHANGED <<answer, replies>>
           \/ /\ ~c.approve /\ phase' = [phase EXCEPT ![c.req] = "done"]
              /\ answer' = [answer EXCEPT ![c.req] = "rejected"] /\ UNCHANGED <<review, replies>>
    BY <1>8, Zenon DEF Resolve
  <2>3. \A q \in Requests : q # c.req => phase'[q] = phase[q]
    BY <1>1, <1>2, <2>2 DEF WorkerTypes
  <2>4. pending' \in Seq(Requests) /\ PlacesOk'
    BY <1>1, <1>2, <2>2, <2>3, Taken DEF WorkerTypes
  <2>5. WorkerTypes'
    BY <1>1, <1>2, <1>3, <2>2, <2>4, TellsApart DEF WorkerTypes
  <2>6. HandledOk'
    <3> SUFFICES ASSUME NEW q \in Requests PROVE Handled(q)'
      BY DEF HandledOk
    <3>1. Handled(q)
      BY <1>1 DEF HandledOk
    <3>2. CASE q # c.req
      BY <1>1, <1>2, <1>3, <2>2, <3>1, <3>2 DEF Handled, WorkerTypes
    <3>3. CASE q = c.req
      <4>1. c # None
        BY <1>2, NoneAssumption
      <4> QED BY <1>1, <1>2, <1>3, <2>1, <2>2, <3>1, <3>3, <4>1, NoneAssumption
              DEF Handled, Handling, WorkerTypes
    <3> QED BY <3>2, <3>3
  <2>7. AcksOk'
    BY <1>1, <1>2, <1>3, <2>2 DEF AcksOk, WarnedBeforeUnconfirmed, WorkerTypes
  <2>8. TypeOK'
    BY <1>1, <1>3, <1>4, <2>5, TypesAre, TypesKept
  <2> QED BY <1>5, <1>6, <2>4, <2>6, <2>7, <2>8 DEF IInv
<1> QED BY <1>7, <1>8

LEMMA RestartKeeps ==
    ASSUME IInv, Restart PROVE IInv' /\ Reviewed
<1>1. /\ WalletTypes /\ WorkerTypes /\ BrowserTypes /\ PageTypes /\ GhostTypes
      /\ PlacesOk /\ HandledOk /\ AcksOk /\ StagesOk /\ TypeOK /\ QueuedIsShown
  BY TypesAre DEF IInv
<1>2. pending' = <<>> /\ approveWinId' = None /\ reporting' = {}
      /\ UNCHANGED <<wallet, shown, removing, page, clicks, ghosts>>
      /\ UNCHANGED <<uses, confirmed, claimed, stage, seen>>
  BY DEF Restart, ghosts, page
<1>3. /\ phase' = [r \in Requests |-> IF phase[r] \notin {"new", "done"} THEN "done" ELSE phase[r]]
      /\ answer' = [r \in Requests |-> IF phase[r] \notin {"new", "done"} THEN "unavailable"
                                                                        ELSE answer[r]]
      /\ review' = [r \in Requests |-> None] /\ stAddr' = [r \in Requests |-> None]
  BY DEF Restart
<1>4. replies' \subseteq Reply
  <2>1. ASSUME NEW r \in Requests, review[r] # None
        PROVE  ReplyTo(review[r], "failed", None) \in Reply
    <3>1. review[r].win \in Windows /\ review[r].req \in Requests
      BY <1>1, <2>1 DEF WorkerTypes, Click
    <3> QED BY <3>1 DEF ReplyTo, Reply
  <2> QED BY <1>1, <2>1 DEF Restart, WorkerTypes
<1>5. pending' \in Seq(Requests) /\ PlacesOk' /\ QueuedIsShown'
  BY <1>2, Emptied
<1>6. WorkerTypes'
  BY <1>1, <1>2, <1>3, <1>4, <1>5, TellsApart DEF WorkerTypes
<1>7. BrowserTypes'
  BY <1>1, <1>2 DEF BrowserTypes
<1>8. TypeOK'
  BY <1>1, <1>2, <1>6, <1>7, TypesAre, TypesKept
<1>9. HandledOk'
  <2> SUFFICES ASSUME NEW r \in Requests PROVE Handled(r)'
    BY DEF HandledOk
  <2>1. Handled(r)
    BY <1>1 DEF HandledOk
  <2>2. /\ review'[r] = None /\ uses'[r] = uses[r] /\ phase'[r] \in {"new", "done"}
        /\ \/ answer'[r] = "unavailable" /\ phase'[r] = "done"
           \/ answer'[r] = answer[r] /\ phase'[r] = phase[r]
    BY <1>1, <1>2, <1>3 DEF WorkerTypes
  <2> QED BY <2>1, <2>2 DEF Handled, Handling, Refusals
<1>10. AcksOk'
  BY <1>1, <1>2, <1>3 DEF AcksOk, WarnedBeforeUnconfirmed
<1>11. StagesOk' /\ Reviewed
  BY <1>1, <1>2, PartsKept, NothingUsed
<1> QED BY <1>5, <1>8, <1>9, <1>10, <1>11 DEF IInv


-----------------------------------------------------------------------------
(* The steps of the windows, the browser and the user *)

LEMMA WindowsKeep ==
    ASSUME IInv, UNCHANGED <<wallet, usedAs, uses, claimed>>,
           UNCHANGED <<pending, phase, review, stAddr, answer>>, replies' \subseteq Reply,
           approveWinId' \in Windows \cup {None},
           BrowserTypes', PageTypes', StagesOk', QueuedIsShown',
           confirmed \subseteq confirmed', confirmed' \subseteq Requests \X Claims,
           \A c \in clicks' \ clicks : c.approve /\ c.ack # None => <<c.req, c.ack>> \in confirmed',
           requeued' = requeued, told' \subseteq Requests, dismissed' \in BOOLEAN
    PROVE  IInv' /\ Reviewed
<1>1. /\ WalletTypes /\ WorkerTypes /\ BrowserTypes /\ PageTypes /\ GhostTypes
      /\ PlacesOk /\ HandledOk /\ AcksOk /\ StagesOk /\ TypeOK /\ QueuedIsShown
  BY TypesAre DEF IInv
<1>2. WorkerTypes'
  BY <1>1 DEF WorkerTypes
<1>3. GhostTypes'
  BY <1>1 DEF GhostTypes
<1>4. TypeOK'
  BY <1>1, <1>2, <1>3, TypesAre, TypesKept
<1>5. PlacesOk' /\ HandledOk'
  BY <1>1 DEF PlacesOk, HandledOk, Handled
<1>6. AcksOk'
  BY <1>1 DEF AcksOk, WarnedBeforeUnconfirmed
<1>7. Reviewed
  BY NothingUsed
<1> QED BY <1>4, <1>5, <1>6, <1>7 DEF IInv

\* The same when the queue's windows do not change either.
LEMMA PagesKeep ==
    ASSUME IInv, UNCHANGED <<wallet, worker, answer, browser>>,
           UNCHANGED <<usedAs, uses, claimed, requeued, dismissed>>, replies' \subseteq Reply,
           PageTypes', StagesOk',
           confirmed \subseteq confirmed', confirmed' \subseteq Requests \X Claims,
           \A c \in clicks' \ clicks : c.approve /\ c.ack # None => <<c.req, c.ack>> \in confirmed',
           told' \subseteq Requests
    PROVE  IInv' /\ Reviewed
<1>1. TypeOK /\ BrowserTypes /\ QueuedIsShown
  BY TypesAre DEF IInv
<1>2. BrowserTypes' /\ QueuedIsShown' /\ approveWinId' \in Windows \cup {None}
  BY <1>1, TypesKept, PartsKept DEF TypeOK, worker
<1>3. dismissed' \in BOOLEAN
  BY <1>1 DEF TypeOK
<1> QED BY <1>2, <1>3, WindowsKeep DEF worker

LEMMA BlankIs == IInv => Blank \in Status /\ Blank.head = None
<1> SUFFICES ASSUME IInv PROVE Blank \in Status /\ Blank.head = None
  OBVIOUS
<1>1. (CHOOSE a \in Accounts : TRUE) \in Accounts
  BY DEF IInv, TypeOK
<1> QED BY <1>1 DEF Blank, Status

LEMMA ClosesKeeps ==
    ASSUME IInv, NEW w \in Windows, Closes(w), UNCHANGED <<reporting, clicks>>
    PROVE  BrowserTypes' /\ PageTypes' /\ StagesOk'
<1>1. BrowserTypes /\ PageTypes /\ StagesOk
  BY TypesAre DEF IInv
<1>2. Blank \in Status /\ Blank.head = None /\ [r \in Requests |-> None] \in [Requests -> Claims \cup {None}]
  BY BlankIs
<1>3. BrowserTypes'
  BY <1>1 DEF Closes, BrowserTypes
<1>4. PageTypes'
  BY <1>1, <1>2, Zenon DEF Closes, PageTypes
<1>5. StagesOk'
  BY <1>1 DEF Closes, StagesOk, PageTypes
<1> QED BY <1>3, <1>4, <1>5

LEMMA PollStatusKeeps ==
    ASSUME IInv, NEW w \in Windows, PollStatus(w) PROVE IInv' /\ Reviewed
<1>1. WalletTypes /\ PageTypes /\ StagesOk /\ TypeOK
  BY TypesAre DEF IInv
<1>2. [unlocked |-> unlocked, acct |-> acct, head |-> None] \in Status
  BY <1>1 DEF Status, WalletTypes
<1>3. PageTypes'
  BY <1>1, <1>2 DEF PollStatus, PageTypes
<1>4. StagesOk'
  BY <1>1 DEF PollStatus, StagesOk, PageTypes
<1> QED BY <1>1, <1>3, <1>4, PagesKeep DEF PollStatus, ghosts, TypeOK

LEMMA PollQueueKeeps ==
    ASSUME IInv, NEW w \in Windows, PollQueue(w) PROVE IInv' /\ Reviewed
<1>1. PageTypes /\ StagesOk /\ TypeOK /\ pending \in Seq(Requests)
  BY TypesAre DEF IInv, TypeOK
<1>2. Blank \in Status
  BY BlankIs
<1> DEFINE sees == [seen[w] EXCEPT !.head = Head(pending)]
<1>3. pending # <<>> => Head(pending) \in Requests
  BY <1>1, HeadTailProperties
<1>4. seen[w] \in Status
  BY <1>1 DEF PageTypes
<1>5. pending # <<>> => sees \in Status /\ sees.head # None
  BY <1>3, <1>4, NoneAssumption DEF Status
<1> HIDE DEF sees
<1>6. /\ \E s \in {"empty", "painting", "idle"}, v \in {Blank, sees} :
            /\ stage' = [stage EXCEPT ![w] = s] /\ seen' = [seen EXCEPT ![w] = v]
            /\ v \in Status /\ (s = "painting" => v.head # None)
      /\ \/ UNCHANGED paint
         \/ \E p \in {paint[w], None} : paint' = [paint EXCEPT ![w] = p]
  <2>1. CASE pending = <<>>
    BY <1>2, <2>1, Zenon DEF PollQueue
  <2>2. CASE pending # <<>>
    <3> DEFINE kept == /\ seen[w].unlocked /\ paint[w] # None
                       /\ paint[w].req = Head(pending)
               repaints == seen[w].unlocked /\ ~kept
    <3>1. /\ stage' = [stage EXCEPT ![w] = IF repaints THEN "painting" ELSE "idle"]
          /\ seen' = [seen EXCEPT ![w] =
                          IF repaints THEN [seen[w] EXCEPT !.head = Head(pending)] ELSE Blank]
          /\ paint' = [paint EXCEPT ![w] = IF kept THEN paint[w] ELSE None]
      BY <2>2, Zenon DEF PollQueue
    <3> HIDE DEF kept, repaints
    <3>2. CASE repaints
      BY <1>5, <2>2, <3>1, <3>2, Zenon DEF sees
    <3>3. CASE ~repaints
      BY <1>2, <3>1, <3>3, Zenon
    <3> QED BY <3>2, <3>3
  <2> QED BY <2>1, <2>2
<1>7. PageTypes'
  <2>1. UNCHANGED <<unconf, inFlight, holdOutcome, clicks>>
    BY DEF PollQueue
  <2>2. stage' \in [Windows -> {"idle", "status", "empty", "painting"}] /\ seen' \in [Windows -> Status]
    BY <1>1, <1>6 DEF PageTypes
  <2>3. paint' \in [Windows -> Paint \cup {None}]
    BY <1>1, <1>6 DEF PageTypes
  <2> QED BY <1>1, <2>1, <2>2, <2>3 DEF PageTypes
<1>8. StagesOk'
  BY <1>1, <1>6 DEF StagesOk, PageTypes
<1> QED BY <1>1, <1>7, <1>8, PagesKeep DEF PollQueue, ghosts, TypeOK

LEMMA CloseEmptyKeeps ==
    ASSUME IInv, NEW w \in Windows, CloseEmpty(w) PROVE IInv' /\ Reviewed
<1>1. /\ BrowserTypes /\ PageTypes /\ StagesOk /\ TypeOK /\ QueuedIsShown
      /\ UNCHANGED <<wallet, worker, answer, replies, reporting, clicks, ghosts>>
  BY TypesAre DEF IInv, CloseEmpty
<1>2. CASE Closes(w)
  <2>1. BrowserTypes' /\ PageTypes' /\ StagesOk'
    BY <1>1, <1>2, ClosesKeeps
  <2>2. QueuedIsShown'
    BY <1>1 DEF QueuedIsShown, worker
  <2> QED BY <1>1, <2>1, <2>2, WindowsKeep DEF ghosts, worker, TypeOK
<1>3. CASE /\ stage' = [stage EXCEPT ![w] = "idle"]
           /\ UNCHANGED <<shown, removing, seen, paint, unconf, inFlight, holdOutcome>>
  <2>1. PageTypes' /\ StagesOk' /\ UNCHANGED browser
    BY <1>1, <1>3 DEF PageTypes, StagesOk, browser
  <2> QED BY <1>1, <2>1, PagesKeep DEF ghosts, TypeOK
<1> QED BY <1>2, <1>3, Zenon DEF CloseEmpty

LEMMA ShowKeeps ==
    ASSUME IInv, NEW w \in Windows, ShowRequest(w) PROVE IInv' /\ Reviewed
<1>1. PageTypes /\ StagesOk /\ TypeOK
  BY TypesAre DEF IInv
<1>2. Blank \in Status /\ Blank.head = None
  BY BlankIs
<1> DEFINE shows == [req |-> seen[w].head, signer |-> seen[w].acct,
                     warned |-> unconf[w][seen[w].head]]
<1>3. shows \in Paint
  <2>1. seen[w] \in Status /\ seen[w].head # None
    BY <1>1 DEF PageTypes, ShowRequest, StagesOk
  <2>2. seen[w].head \in Requests /\ seen[w].acct \in Accounts
    BY <2>1 DEF Status
  <2>3. unconf[w][seen[w].head] \in Claims \cup {None}
    BY <1>1, <2>2 DEF PageTypes
  <2> QED BY <2>2, <2>3 DEF Paint
<1>4. paint' = [paint EXCEPT ![w] = shows]
  BY Zenon DEF ShowRequest
<1> HIDE DEF shows
<1>5. PageTypes'
  BY <1>1, <1>2, <1>3, <1>4 DEF ShowRequest, PageTypes
<1>6. StagesOk'
  BY <1>1 DEF ShowRequest, StagesOk, PageTypes
<1> QED BY <1>1, <1>5, <1>6, PagesKeep DEF ShowRequest, ghosts, TypeOK


LEMMA SendsKeeps ==
    ASSUME IInv, NEW w \in Windows, NEW c \in Click, Sends(w, c) PROVE IInv' /\ Reviewed
<1>1. PageTypes /\ GhostTypes /\ StagesOk /\ TypeOK
  BY TypesAre DEF IInv
<1>2. Blank \in Status /\ Blank.head = None
  BY BlankIs
<1>3. c.req \in Requests /\ c.ack \in Claims \cup {None}
  BY DEF Click
<1>4. /\ clicks' = clicks \cup {c} /\ paint' = [paint EXCEPT ![w] = None]
      /\ stage' = [stage EXCEPT ![w] = "idle"] /\ seen' = [seen EXCEPT ![w] = Blank]
      /\ inFlight' = [inFlight EXCEPT ![w] = IF c.approve THEN inFlight[w] \cup {c.req} ELSE inFlight[w]]
      /\ confirmed' = IF c.approve /\ c.ack # None
                      THEN confirmed \cup {<<c.req, c.ack>>} ELSE confirmed
      /\ UNCHANGED <<wallet, worker, answer, replies, browser, unconf, holdOutcome,
                     usedAs, uses, claimed, requeued, told, dismissed>>
  BY Zenon DEF Sends
<1>5. PageTypes'
  BY <1>1, <1>2, <1>3, <1>4 DEF PageTypes
<1>6. StagesOk'
  BY <1>1, <1>4 DEF StagesOk, PageTypes
<1>7. confirmed \subseteq confirmed' /\ confirmed' \subseteq Requests \X Claims
  BY <1>1, <1>3, <1>4 DEF GhostTypes
<1> QED BY <1>1, <1>4, <1>5, <1>6, <1>7, PagesKeep DEF TypeOK

\* What the user answers is what the window has painted.
LEMMA AnswerIs ==
    ASSUME IInv, NEW w \in Windows, NEW approve \in BOOLEAN, paint[w] # None
    PROVE  [win |-> w, req |-> paint[w].req, approve |-> approve,
            signer |-> paint[w].signer, ack |-> paint[w].warned] \in Click
<1>1. paint[w] \in Paint
  BY TypesAre DEF IInv, PageTypes
<1>2. paint[w].req \in Requests /\ paint[w].signer \in Accounts /\ paint[w].warned \in Claims \cup {None}
  BY <1>1 DEF Paint
<1> QED BY <1>2 DEF Click

LEMMA AnsweredKeeps ==
    ASSUME IInv, NEW w \in Windows, NEW approve \in BOOLEAN, Answered(w, approve)
    PROVE  IInv' /\ Reviewed
  BY AnswerIs, SendsKeeps, Zenon DEF Answered

LEMMA CloseByUserKeeps ==
    ASSUME IInv, NEW w \in Windows, CloseByUser(w) PROVE IInv' /\ Reviewed
<1>1. /\ TypeOK /\ QueuedIsShown /\ Closes(w) /\ dismissed' = TRUE
      /\ UNCHANGED <<wallet, worker, answer, replies, reporting, clicks,
                     usedAs, uses, claimed, confirmed, requeued, told>>
  BY DEF IInv, CloseByUser
<1>2. BrowserTypes' /\ PageTypes' /\ StagesOk'
  BY <1>1, ClosesKeeps
<1>3. QueuedIsShown'
  BY <1>1 DEF QueuedIsShown, worker
<1> QED BY <1>1, <1>2, <1>3, WindowsKeep DEF worker, TypeOK

LEMMA OutcomeKeeps ==
    ASSUME IInv, NEW c \in replies, Outcome(c) PROVE IInv' /\ Reviewed
<1>1. PageTypes /\ StagesOk /\ TypeOK /\ c \in Reply
  BY TypesAre DEF IInv, TypeOK
<1>2. c.win \in Windows /\ c.req \in Requests /\ c.claim \in Claims \cup {None}
  BY <1>1 DEF Reply
<1>3. Blank \in Status /\ Blank.head = None
  BY BlankIs
<1>4. /\ replies' = replies \ {c}
      /\ UNCHANGED <<wallet, worker, answer, browser, clicks,
                     usedAs, uses, claimed, confirmed, requeued, dismissed>>
  BY DEF Outcome
<1>5. PageTypes' /\ StagesOk' /\ told' \subseteq Requests
  <2>1. CASE Showing(c.win)
    <3>1. /\ inFlight' = [inFlight EXCEPT ![c.win] = inFlight[c.win] \ {c.req}]
          /\ stage' = [stage EXCEPT ![c.win] = "idle"]
          /\ seen' = [seen EXCEPT ![c.win] = Blank]
          /\ paint' = [paint EXCEPT ![c.win] = None]
          /\ unconf' = IF c.is = "unconfirmed"
                       THEN [unconf EXCEPT ![c.win][c.req] = c.claim] ELSE unconf
          /\ holdOutcome' = [holdOutcome EXCEPT ![c.win] = holdOutcome[c.win] \/ c.is = "failed"]
          /\ told' = IF ReadsAsSuccess(c) THEN told \cup {c.req} ELSE told
      BY <2>1, Zenon DEF Outcome
    <3>2. unconf' \in [Windows -> [Requests -> Claims \cup {None}]]
      <4>1. unconf[c.win] \in [Requests -> Claims \cup {None}]
        BY <1>1, <1>2 DEF PageTypes
      <4>2. [unconf[c.win] EXCEPT ![c.req] = c.claim] \in [Requests -> Claims \cup {None}]
        BY <1>2, <4>1
      <4>3. [unconf EXCEPT ![c.win][c.req] = c.claim]
               = [unconf EXCEPT ![c.win] = [unconf[c.win] EXCEPT ![c.req] = c.claim]]
        BY Zenon
      <4> QED BY <1>1, <1>2, <3>1, <4>2, <4>3, Zenon DEF PageTypes
    <3>3. stage' \in [Windows -> {"idle", "status", "empty", "painting"}] /\ seen' \in [Windows -> Status]
      BY <1>1, <1>3, <3>1 DEF PageTypes
    <3>4. paint' \in [Windows -> Paint \cup {None}] /\ inFlight' \in [Windows -> SUBSET Requests]
      BY <1>1, <3>1 DEF PageTypes
    <3>5. holdOutcome' \in [Windows -> BOOLEAN]
      BY <1>1, <3>1, Zenon DEF PageTypes
    <3>6. PageTypes'
      BY <1>1, <1>4, <3>2, <3>3, <3>4, <3>5 DEF PageTypes
    <3>7. StagesOk'
      BY <1>1, <3>1 DEF StagesOk, PageTypes
    <3>8. told' \subseteq Requests
      BY <1>1, <1>2, <3>1 DEF TypeOK
    <3> QED BY <3>6, <3>7, <3>8
  <2>2. CASE ~Showing(c.win)
    <3>1. UNCHANGED <<page, told>>
      BY <2>2, Zenon DEF Outcome
    <3>2. UNCHANGED <<stage, seen>>
      BY <3>1 DEF page
    <3> QED BY <1>1, <1>4, <3>1, <3>2, TypesKept, PartsKept DEF TypeOK
  <2> QED BY <2>1, <2>2
<1> QED BY <1>1, <1>4, <1>5, PagesKeep DEF TypeOK

LEMMA ReviewKeeps ==
    ASSUME IInv, Review PROVE IInv' /\ Reviewed
<1>1. BrowserTypes /\ PageTypes /\ StagesOk /\ TypeOK /\ QueuedIsShown
  BY TypesAre DEF IInv
<1>2. BrowserTypes' /\ UNCHANGED page /\ (approveWinId # None \/ reporting' # {})
  BY <1>1 DEF Review, Raise, BrowserTypes, browser
<1>3. PageTypes' /\ StagesOk'
  BY <1>1, <1>2, TypesKept, PartsKept DEF page, Review
<1>4. QueuedIsShown'
  BY <1>2 DEF QueuedIsShown, Review, worker
<1> QED BY <1>1, <1>2, <1>3, <1>4, WindowsKeep DEF worker, ghosts, TypeOK, Review

LEMMA ReportKeeps ==
    ASSUME IInv, NEW w \in Windows, Report(w) PROVE IInv' /\ Reviewed
<1>1. /\ BrowserTypes /\ PageTypes /\ StagesOk /\ TypeOK /\ QueuedIsShown
      /\ reporting' = reporting \ {w} /\ ReportIn(w)
      /\ UNCHANGED <<wallet, pending, phase, review, stAddr, answer, replies, clicks, ghosts>>
  BY TypesAre DEF IInv, Report
<1>2. CASE Closes(w) /\ UNCHANGED approveWinId /\ approveWinId # None
  <2>1. BrowserTypes'
    BY <1>1, <1>2 DEF BrowserTypes, Closes
  <2>2. PageTypes' /\ StagesOk'
    <3>1. Blank \in Status /\ Blank.head = None /\ [r \in Requests |-> None] \in [Requests -> Claims \cup {None}]
      BY BlankIs
    <3>2. PageTypes'
      BY <1>1, <1>2, <3>1, Zenon DEF Closes, PageTypes
    <3>3. StagesOk'
      BY <1>1, <1>2 DEF Closes, StagesOk, PageTypes
    <3> QED BY <3>2, <3>3
  <2>3. QueuedIsShown'
    BY <1>2 DEF QueuedIsShown
  <2> QED BY <1>1, <1>2, <2>1, <2>2, <2>3, WindowsKeep DEF ghosts, TypeOK
<1>3. CASE approveWinId' = w /\ UNCHANGED <<shown, removing, page>>
  <2>1. BrowserTypes' /\ QueuedIsShown'
    BY <1>1, <1>3, NoneAssumption DEF BrowserTypes, QueuedIsShown
  <2>2. PageTypes' /\ StagesOk'
    BY <1>1, <1>3, TypesKept, PartsKept DEF page
  <2> QED BY <1>1, <1>3, <2>1, <2>2, WindowsKeep DEF ghosts, TypeOK
<1> QED BY <1>1, <1>2, <1>3, Zenon DEF ReportIn

LEMMA RemovedKeeps ==
    ASSUME IInv, NEW w \in Windows, Removed(w) PROVE IInv' /\ Reviewed
<1>1. /\ WalletTypes /\ WorkerTypes /\ BrowserTypes /\ PageTypes /\ GhostTypes
      /\ PlacesOk /\ HandledOk /\ AcksOk /\ StagesOk /\ TypeOK /\ QueuedIsShown
  BY TypesAre DEF IInv
<1>2. /\ removing' = removing \ {w} /\ shown' = [shown EXCEPT ![w] = "none"]
      /\ UNCHANGED <<wallet, review, stAddr, replies, reporting, page, clicks, ghosts>>
      /\ UNCHANGED <<uses, confirmed, claimed, stage, seen>>
  BY DEF Removed, ghosts, page
<1>3. BrowserTypes' /\ PageTypes' /\ StagesOk'
  BY <1>1, <1>2, TypesKept, PartsKept DEF BrowserTypes
<1>4. CASE UNCHANGED <<approveWinId, pending, phase, answer>>
  <2>1. QueuedIsShown'
    BY <1>1, <1>2, <1>4 DEF QueuedIsShown
  <2> QED BY <1>1, <1>2, <1>3, <1>4, <2>1, WindowsKeep DEF ghosts, TypeOK
<1>5. CASE approveWinId' = None /\ RejectQueued
  <2>1. /\ pending' = <<>>
        /\ phase' = [r \in Requests |-> IF r \in Queued THEN "done" ELSE phase[r]]
        /\ answer' = [r \in Requests |-> IF r \in Queued THEN "closed" ELSE answer[r]]
    BY <1>5 DEF RejectQueued
  <2>2. pending' \in Seq(Requests) /\ PlacesOk' /\ QueuedIsShown'
    BY <2>1, Emptied
  <2>3. WorkerTypes'
    BY <1>1, <1>2, <1>5, <2>1, <2>2, TellsApart DEF WorkerTypes
  <2>4. TypeOK'
    BY <1>1, <1>2, <1>3, <2>3, TypesAre, TypesKept
  <2>5. HandledOk'
    <3> SUFFICES ASSUME NEW r \in Requests PROVE Handled(r)'
      BY DEF HandledOk
    <3>1. Handled(r) /\ (r \in Queued => phase[r] = "queued")
      BY <1>1, QueuedAre DEF HandledOk, WorkerTypes
    <3>2. /\ phase'[r] = IF r \in Queued THEN "done" ELSE phase[r]
          /\ answer'[r] = IF r \in Queued THEN "closed" ELSE answer[r]
      BY <2>1
    <3> QED BY <1>2, <3>1, <3>2 DEF Handled, Handling
  <2>6. AcksOk'
    BY <1>1, <1>2 DEF AcksOk, WarnedBeforeUnconfirmed
  <2> QED BY <1>2, <1>3, <2>2, <2>4, <2>5, <2>6, NothingUsed DEF IInv
<1> QED BY <1>4, <1>5, Zenon DEF Removed

LEMMA WalletKeeps ==
    ASSUME IInv, WalletMoves PROVE IInv' /\ Reviewed
<1>1. TypeOK /\ WorkerTypes /\ BrowserTypes /\ PageTypes /\ GhostTypes
  BY TypesAre DEF IInv
<1>2. WalletTypes'
  BY <1>1 DEF WalletMoves, WalletTypes, TypeOK
<1>3. /\ UNCHANGED <<worker, answer, replies, browser, page, clicks, ghosts>>
      /\ UNCHANGED <<uses, confirmed, claimed, stage, seen>>
  BY DEF WalletMoves, ghosts, page
<1>4. TypeOK'
  BY <1>1, <1>2, <1>3, TypesAre, TypesKept
<1> QED BY <1>3, <1>4, PartsKept, NothingUsed DEF IInv

LEMMA StillKeeps ==
    ASSUME IInv, UNCHANGED vars PROVE IInv' /\ Reviewed
<1>1. /\ UNCHANGED <<wallet, worker, answer, replies, browser, page, clicks, ghosts>>
      /\ UNCHANGED <<uses, confirmed, claimed, stage, seen>>
  BY DEF vars, ghosts, page
<1>2. TypeOK'
  BY <1>1, TypesAre, TypesKept DEF IInv
<1> QED BY <1>1, <1>2, PartsKept, NothingUsed DEF IInv

-----------------------------------------------------------------------------
(* The theorems *)

LEMMA InitHolds == Init => IInv
<1> SUFFICES ASSUME Init PROVE IInv
  OBVIOUS
<1>1. (CHOOSE a \in Accounts : TRUE) \in Accounts
  BY DEF Init
<1>2. Blank \in Status /\ <<>> \in Seq(Requests)
  BY <1>1 DEF Blank, Status
<1>3. WalletTypes /\ WorkerTypes /\ BrowserTypes /\ PageTypes /\ GhostTypes
  BY <1>2, Zenon DEF Init, WalletTypes, WorkerTypes, BrowserTypes, PageTypes, GhostTypes, Answers
<1>4. QueuedIsShown /\ PlacesOk /\ StagesOk
  BY DEF Init, QueuedIsShown, PlacesOk, StagesOk
<1>5. HandledOk /\ AcksOk
  BY DEF Init, HandledOk, Handled, Handling, AcksOk, WarnedBeforeUnconfirmed
<1> QED BY <1>3, <1>4, <1>5, TypesAre DEF IInv

LEMMA StepKeeps == IInv /\ [Next]_vars => IInv' /\ Reviewed
<1> SUFFICES ASSUME IInv, [Next]_vars PROVE IInv' /\ Reviewed
  OBVIOUS
<1>1. CASE UNCHANGED vars
  BY <1>1, StillKeeps
<1>2. ASSUME NEW r \in Requests, Queue(r) \/ Refuse(r) PROVE IInv' /\ Reviewed
  BY <1>2, QueueKeeps, RefuseKeeps
<1>3. ASSUME NEW r \in Requests, Worker(r) PROVE IInv' /\ Reviewed
  BY <1>3, StatusKeeps, DispatchKeeps, RefusesKeeps, MethodKeeps, UnconfirmedKeeps, PassesKeeps
     DEF Worker
<1>4. ASSUME NEW w \in Windows, Polls(w) PROVE IInv' /\ Reviewed
  BY <1>4, PollStatusKeeps, PollQueueKeeps, CloseEmptyKeeps, ShowKeeps DEF Polls
<1>5. ASSUME NEW w \in Windows, Events(w) PROVE IInv' /\ Reviewed
  BY <1>5, ReportKeeps, RemovedKeeps DEF Events
<1>6. ASSUME NEW w \in Windows, Decides(w) PROVE IInv' /\ Reviewed
  BY <1>6, CloseByUserKeeps, AnsweredKeeps DEF Decides
<1>7. ASSUME NEW c \in replies, Outcome(c) PROVE IInv' /\ Reviewed
  BY <1>7, OutcomeKeeps
<1>8. ASSUME NEW c \in clicks, Resolve(c) PROVE IInv' /\ Reviewed
  BY <1>8, ResolveKeeps
<1>9. CASE WalletMoves \/ Review \/ Restart
  BY <1>9, WalletKeeps, ReviewKeeps, RestartKeeps
<1> QED BY <1>1, <1>2, <1>3, <1>4, <1>5, <1>6, <1>7, <1>8, <1>9 DEF Next

LEMMA Inductive == Spec => []IInv
  BY InitHolds, StepKeeps, PTL DEF Spec

\* What is queued is shown, and what was refused is never carried out: in every state,
\* whoever closes which window, in whatever order Chrome reports it, wherever the worker
\* dies (background.ts queueDappRequest, resolvePending, onRemoved).
THEOREM QueueIsSound == Spec => []QueueInv
<1>1. IInv => QueueInv
  BY DEF IInv, QueueInv, RefusedIsUnsigned, HandledOk, Handled
<1> QED BY <1>1, Inductive, PTL

\* A click is carried out at most once, from whichever windows it is repeated and however
\* often its request is put back in the queue.
THEOREM OneApprovalSignsOnce == Spec => []SignedOnce
<1>1. IInv => SignedOnce
  BY DEF IInv, SignedOnce, HandledOk, Handled
<1> QED BY <1>1, Inductive, PTL

\* No fill is signed on a reservation the second source does not know unless the user
\* clicked on the warning for it (resolvePending, ackUnconfirmed).
THEOREM UserWasWarned == Spec => []WarnedBeforeUnconfirmed
<1>1. IInv => WarnedBeforeUnconfirmed
  BY DEF IInv, AcksOk
<1> QED BY <1>1, Inductive, PTL

\* The account that signs is the account the window displayed, for every kind of request
\* but the plain ones, which sign with whatever account is active when they are dispatched.
THEOREM ReviewedSignerSigns == Spec => [][Reviewed]_vars
  BY Inductive, StepKeeps, PTL DEF Spec

\* So where no request is a plain one, as in the run, it is so without exception.
THEOREM UsesTheReviewedSigner ==
    ASSUME \A r \in Requests : KindOf[r] # "plain" PROVE Spec => UsesReviewedSigner
<1>1. IInv /\ [Next]_vars =>
        [\A r \in Requests : uses'[r] > uses[r] =>
            review[r] # None /\ usedAs'[r] = review[r].signer]_vars
  BY StepKeeps DEF Reviewed
<1> QED BY <1>1, Inductive, PTL DEF Spec, UsesReviewedSigner
-----------------------------------------------------------------------------
(* The window: what it shows, and what an approval carries away            *)
(*                                                                         *)
(* Pages send one request in all and the worker lives on, so the request   *)
(* of every paint, of every click and of every quote is the same one       *)
(* (OneRequest, PagesKnow, Quoted).  The order in which the reads of the   *)
(* tip started is the order of the tips they can find (TipsOrdered): that  *)
(* is what lets the script keep the later answer by comparing starts.      *)

NotNew(r) == phase[r] # "new"

OneRequest == \A q, r \in Requests : NotNew(q) /\ NotNew(r) => q = r

PagesKnow ==
    \A w \in Windows :
       /\ paint[w] # None => NotNew(paint[w].req)
       /\ seen[w].head # None => NotNew(seen[w].head)

RecordedIsOpen == \A w \in Windows : Adopted(w) => approveWinId = w

Opinions == {None, "block", "warn", "pass"}
Read == [at: {"no", "tip", "record"}, from: Tips, void: BOOLEAN, tip: Tips \cup {None}]
Aim == [at: {"no", "gate", "tip"}, from: Tips, void: BOOLEAN,
        req: Requests \cup {None}, signer: Accounts \cup {None}]
Card == [paints: {"none", "first", "again"},
         due: SUBSET ((Previews \ Gates) \X {"now", "old"}), armed: BOOLEAN,
         preview: {"none", "loading", "ready", "error"},
         quote: Quotes \cup {None}, amount: Quotes \cup {None},
         short: BOOLEAN, box: BOOLEAN,
         gate: {"off", "check", "checkOnce", "live", "once"},
         record: {None, "mine", "gone"}, recTip: Tips \cup {None},
         verdict: Opinions, since: Tips, note: Opinions,
         refresh: Read, click: Aim, last: {None, "refresh", "click"}]

\* The two reads of the tip, against the verdict they may replace and each other.
TipsOrdered(c) ==
    /\ c.gate # "live" => c.refresh.at = "no" /\ c.click.at # "tip"
    /\ c.gate \in {"off", "check", "checkOnce"} => c.verdict = None
    /\ c.since <= height /\ c.refresh.from <= height /\ c.click.from <= height
    /\ c.refresh.at # "no" /\ ~c.refresh.void => c.since <= c.refresh.from
    /\ c.click.at = "tip" /\ ~c.click.void => c.since <= c.click.from
    /\ c.refresh.at # "no" /\ c.click.at = "tip" =>
          /\ c.last # "refresh" => c.refresh.from <= c.click.from
          /\ c.last # "click" => c.click.from <= c.refresh.from

\* A click that waits holds the request and the signer it was aimed at.
AimHeld(c) ==
    c.click.at # "no" =>
       /\ c.click.req \in Requests /\ c.click.signer \in Accounts
       /\ PreviewsOf[c.click.req] \cap Gates # {}

Remembered(c) == c.preview = "ready" => c.quote # None

CardOk(c) == c \in Card /\ TipsOrdered(c) /\ AimHeld(c) /\ Remembered(c)

\* ScreenIsTheReview, for one card.
OnScreen(c) ==
    /\ c.preview = "ready" => c.amount = c.quote
    /\ c.short = c.box
    /\ c.verdict \in {"block", "warn"} => c.note = c.verdict

Quoted(c) ==
    c.preview # "none" \/ (\E d \in c.due : d[1] = "quote") =>
       \E r \in Requests : NotNew(r) /\ "quote" \in PreviewsOf[r]

CardsOk ==
    /\ height \in Tips /\ card \in [Windows -> Card]
    /\ \A w \in Windows :
          /\ CardOk(card[w]) /\ Quoted(card[w])
          /\ ~Showing(w) => card[w] = NoCard
          /\ Painted(w) => OnScreen(card[w])

RInv == IInv /\ OneRequest /\ PagesKnow /\ RecordedIsOpen /\ CardsOk


-----------------------------------------------------------------------------
(* The steps of the queue, seen by the window *)

QueueSide == OneRequest /\ PagesKnow /\ RecordedIsOpen

\* No request is made or forgotten; no paint or reading appears.
NewStays == \A r \in Requests : NotNew(r)' <=> NotNew(r)
PaintsStay == \A w \in Windows : paint'[w] # None => paint'[w] = paint[w]
SeenStays == \A w \in Windows : seen'[w].head # None => seen'[w].head = seen[w].head

\* What a step of the queue is to the cards.
Stays == QueueSide' /\ PaintsStay /\ \A r \in Requests : NotNew(r) => NotNew(r)'

LEMMA PagesRead ==
    ASSUME IInv, NEW w \in Windows
    PROVE  /\ paint[w] # None => paint[w].req \in Requests /\ paint[w].signer \in Accounts
           /\ seen[w].head # None => seen[w].head \in Requests
<1>1. seen[w] \in Status /\ (paint[w] # None => paint[w] \in Paint)
  BY TypesAre DEF IInv, PageTypes
<1> QED BY <1>1 DEF Status, Paint

LEMMA SideKept ==
    ASSUME IInv, QueueSide, PaintsStay, SeenStays, NewStays, RecordedIsOpen' PROVE Stays
<1>1. OneRequest'
  BY DEF QueueSide, OneRequest, NewStays
<1>2. PagesKnow'
  <2> SUFFICES ASSUME NEW w \in Windows
               PROVE  /\ paint'[w] # None => phase'[paint'[w].req] # "new"
                      /\ seen'[w].head # None => phase'[seen'[w].head] # "new"
    BY DEF PagesKnow, NotNew
  <2>1. /\ paint[w] # None => NotNew(paint[w].req) /\ paint[w].req \in Requests
        /\ seen[w].head # None => NotNew(seen[w].head) /\ seen[w].head \in Requests
    BY PagesRead DEF QueueSide, PagesKnow
  <2> QED BY <2>1 DEF PaintsStay, SeenStays, NewStays, NotNew
<1> QED BY <1>1, <1>2 DEF Stays, QueueSide, NewStays

\* Most steps leave the pages and the phases, or the windows, as they are.
LEMMA SideStill ==
    ASSUME IInv, QueueSide, UNCHANGED <<paint, seen, phase>>, RecordedIsOpen' PROVE Stays
  BY SideKept DEF PaintsStay, SeenStays, NewStays, NotNew

LEMMA BrowserStill ==
    ASSUME RecordedIsOpen, UNCHANGED <<browser, approveWinId>> PROVE RecordedIsOpen'
  BY DEF RecordedIsOpen, Adopted, Showing, browser

LEMMA RaiseStays == ASSUME IInv, RecordedIsOpen, Raise, UNCHANGED approveWinId PROVE RecordedIsOpen'
<1>1. BrowserTypes
  BY TypesAre DEF IInv
<1>2. CASE UNCHANGED browser
  BY <1>2, BrowserStill
<1>3. CASE \E w \in Windows : shown' = [shown EXCEPT ![w] = "open"] /\ reporting' = reporting \cup {w}
  BY <1>1, <1>3 DEF RecordedIsOpen, Adopted, Showing, BrowserTypes
<1> QED BY <1>2, <1>3 DEF Raise

LEMMA QueueStays == ASSUME IInv, QueueSide, NEW r \in Requests, Alone, Queue(r) PROVE Stays
<1>1. /\ phase' = [phase EXCEPT ![r] = "queued"] /\ UNCHANGED page /\ UNCHANGED approveWinId /\ Raise
      /\ phase \in [Requests -> {"new", "queued", "status", "vault", "preflight", "method", "done"}]
  BY DEF IInv, TypeOK, Queue, Raise
<1>2. UNCHANGED <<paint, seen>>
  BY <1>1 DEF page
<1>3. \A q \in Requests : NotNew(q)' <=> q = r
  BY <1>1 DEF Alone, NotNew
<1>4. RecordedIsOpen'
  BY <1>1, RaiseStays DEF QueueSide
<1>5. \A q \in Requests : ~NotNew(q)
  BY DEF Alone, NotNew
<1>6. PagesKnow'
  BY <1>2, <1>5, PagesRead DEF QueueSide, PagesKnow
<1> QED BY <1>2, <1>3, <1>4, <1>5, <1>6 DEF Stays, QueueSide, OneRequest, PaintsStay

\* A handler moves its own request, which is on its way.
LEMMA WorkerMoves ==
    ASSUME IInv, NEW r \in Requests, Worker(r)
    PROVE  /\ UNCHANGED <<browser, page, approveWinId>> /\ phase[r] # "new"
           /\ \E x \in {"queued", "vault", "preflight", "method", "done"} : phase' = [phase EXCEPT ![r] = x]
<1>1. CASE StatusReadsAddr(r)
  BY <1>1 DEF StatusReadsAddr
<1>2. CASE Dispatch(r)
  <2>1. UNCHANGED <<browser, page, approveWinId>> /\ phase[r] = "vault"
    BY <1>2 DEF Dispatch
  <2>2. \E x \in {"done", "preflight", "method"} : phase' = [phase EXCEPT ![r] = x]
    <3>1. \/ \E a \in {"locked", "changed"} : Finish(r, a)
          \/ \E x \in {"preflight", "method"} : phase' = [phase EXCEPT ![r] = x]
      BY <1>2, Zenon DEF Dispatch
    <3> QED BY <3>1, Zenon DEF Finish
  <2> QED BY <2>1, <2>2
<1>3. CASE PreflightRefuses(r)
  BY <1>3 DEF PreflightRefuses, Finish
<1>4. CASE MethodReturns(r)
  BY <1>4 DEF MethodReturns, Finish
<1>5. ASSUME NEW f \in Claims, PreflightUnconfirmed(r, f)
      PROVE  /\ UNCHANGED <<browser, page, approveWinId>> /\ phase[r] # "new"
             /\ \E x \in {"queued", "done"} : phase' = [phase EXCEPT ![r] = x]
  BY <1>5 DEF PreflightUnconfirmed, Finish, RequeueFront
<1>6. ASSUME NEW f \in Claims \cup {None}, PreflightPasses(r, f)
      PROVE  /\ UNCHANGED <<browser, page, approveWinId>> /\ phase[r] # "new"
             /\ \E x \in {"method", "done"} : phase' = [phase EXCEPT ![r] = x]
  BY <1>6 DEF PreflightPasses, Finish
<1> QED BY <1>1, <1>2, <1>3, <1>4, <1>5, <1>6, Zenon DEF Worker

LEMMA WorkerStays == ASSUME IInv, QueueSide, NEW r \in Requests, Worker(r) PROVE Stays
<1>1. phase \in [Requests -> {"new", "queued", "status", "vault", "preflight", "method", "done"}]
  BY DEF IInv, TypeOK
<1>2. NewStays
  BY <1>1, WorkerMoves DEF NewStays, NotNew
<1>3. PaintsStay /\ SeenStays /\ RecordedIsOpen'
  BY WorkerMoves, BrowserStill DEF page, PaintsStay, SeenStays, QueueSide
<1> QED BY <1>2, <1>3, SideKept

\* A window that closes leaves the others as they were.
LEMMA ClosesStays ==
    ASSUME IInv, QueueSide, NEW w \in Windows, Closes(w), UNCHANGED <<approveWinId, phase>>,
           reporting' = reporting \/ reporting' = reporting \ {w}
    PROVE  Stays
<1>1. BrowserTypes /\ PageTypes /\ Blank.head = None
  BY TypesAre, BlankIs DEF IInv
<1>2. PaintsStay /\ SeenStays
  BY <1>1 DEF Closes, PageTypes, PaintsStay, SeenStays
<1>3. RecordedIsOpen'
  BY <1>1 DEF Closes, BrowserTypes, RecordedIsOpen, Adopted, Showing, QueueSide
<1>4. NewStays
  BY DEF NewStays, NotNew
<1> QED BY <1>2, <1>3, <1>4, SideKept

LEMMA PollStays == ASSUME IInv, QueueSide, NEW w \in Windows, PollStatus(w) PROVE Stays
<1>1. PageTypes
  BY TypesAre DEF IInv
<1>2. SeenStays
  BY <1>1 DEF PollStatus, SeenStays, PageTypes
<1>3. PaintsStay /\ NewStays /\ RecordedIsOpen'
  BY BrowserStill DEF PollStatus, worker, PaintsStay, NewStays, NotNew, QueueSide
<1> QED BY <1>2, <1>3, SideKept

LEMMA CloseEmptyStays == ASSUME IInv, QueueSide, NEW w \in Windows, CloseEmpty(w) PROVE Stays
<1>1. UNCHANGED <<approveWinId, phase, reporting>>
  BY DEF CloseEmpty, worker
<1>2. CASE Closes(w)
  BY <1>1, <1>2, ClosesStays
<1>3. CASE UNCHANGED <<shown, removing, seen, paint>>
  BY <1>1, <1>3, SideStill, BrowserStill DEF browser, QueueSide
<1> QED BY <1>2, <1>3 DEF CloseEmpty

LEMMA ReportStays == ASSUME IInv, QueueSide, NEW w \in Windows, Report(w) PROVE Stays
<1>1. BrowserTypes /\ reporting' = reporting \ {w} /\ ReportIn(w) /\ UNCHANGED phase
  BY TypesAre DEF IInv, Report
<1>2. CASE Closes(w) /\ UNCHANGED approveWinId
  BY <1>1, <1>2, ClosesStays
<1>3. CASE /\ approveWinId \in {None, w} /\ approveWinId' = w
           /\ UNCHANGED <<shown, removing, page>>
  <2>1. RecordedIsOpen'
    BY <1>1, <1>3, NoneAssumption DEF RecordedIsOpen, Adopted, Showing, QueueSide
  <2> QED BY <1>1, <1>3, <2>1, SideStill DEF page
<1> QED BY <1>1, <1>2, <1>3 DEF ReportIn

LEMMA RemovedStays == ASSUME IInv, QueueSide, NEW w \in Windows, Removed(w) PROVE Stays
<1>1. /\ BrowserTypes /\ shown' = [shown EXCEPT ![w] = "none"] /\ UNCHANGED <<reporting, paint, seen>>
      /\ \/ w = approveWinId /\ approveWinId' = None /\ RejectQueued
         \/ UNCHANGED <<approveWinId, phase>>
  BY TypesAre DEF IInv, Removed, page
<1>2. RecordedIsOpen'
  BY <1>1 DEF RecordedIsOpen, Adopted, Showing, QueueSide, BrowserTypes
<1>3. NewStays
  <2>1. CASE RejectQueued
    <3>1. phase' = [r \in Requests |-> IF r \in Queued THEN "done" ELSE phase[r]]
      BY <2>1 DEF RejectQueued
    <3>2. \A r \in Queued : phase[r] = "queued"
      BY QueuedAre, TypesAre DEF IInv, WorkerTypes
    <3> QED BY <3>1, <3>2 DEF NewStays, NotNew
  <2> QED BY <1>1, <2>1 DEF NewStays, NotNew
<1> QED BY <1>1, <1>2, <1>3, SideKept DEF PaintsStay, SeenStays

LEMMA CloseByUserStays == ASSUME IInv, QueueSide, NEW w \in Windows, CloseByUser(w) PROVE Stays
  BY ClosesStays DEF CloseByUser, worker

LEMMA OutcomeStays == ASSUME IInv, QueueSide, NEW c \in replies, Outcome(c) PROVE Stays
<1>1. PageTypes /\ Blank.head = None /\ c.win \in Windows
  BY TypesAre, BlankIs DEF IInv, TypeOK, Reply
<1>2. /\ UNCHANGED <<worker, browser>>
      /\ \/ seen' = [seen EXCEPT ![c.win] = Blank] /\ paint' = [paint EXCEPT ![c.win] = None]
         \/ UNCHANGED <<seen, paint>>
  BY DEF Outcome, page
<1>3. PaintsStay /\ SeenStays
  BY <1>1, <1>2 DEF PaintsStay, SeenStays, PageTypes
<1>4. NewStays /\ RecordedIsOpen'
  BY <1>2, BrowserStill DEF NewStays, NotNew, QueueSide, worker
<1> QED BY <1>3, <1>4, SideKept

LEMMA ResolveStays == ASSUME IInv, QueueSide, NEW c \in clicks, Resolve(c) PROVE Stays
<1>1. c.req \in Requests /\ phase \in [Requests -> {"new", "queued", "status", "vault", "preflight", "method", "done"}]
  BY TypesAre DEF IInv, TypeOK, Click
<1>2. UNCHANGED <<approveWinId, browser, paint, seen>>
  BY DEF Resolve, page
<1>3. \/ UNCHANGED phase
      \/ c.req \in Queued /\ \E x \in {"status", "done"} : phase' = [phase EXCEPT ![c.req] = x]
  BY Zenon DEF Resolve
<1>4. c.req \in Queued => phase[c.req] = "queued"
  BY QueuedAre, TypesAre DEF IInv, WorkerTypes
<1>5. NewStays
  BY <1>1, <1>3, <1>4 DEF NewStays, NotNew
<1>6. RecordedIsOpen'
  BY <1>2, BrowserStill DEF QueueSide
<1> QED BY <1>2, <1>5, <1>6, SideKept DEF PaintsStay, SeenStays

LEMMA ReviewStays == ASSUME IInv, QueueSide, Review PROVE Stays
<1>1. UNCHANGED <<approveWinId, phase, paint, seen>> /\ Raise
  BY DEF Review, Raise, worker, page
<1> QED BY <1>1, RaiseStays, SideStill DEF QueueSide

LEMMA WalletStays == ASSUME IInv, QueueSide, WalletMoves PROVE Stays
<1>1. UNCHANGED <<approveWinId, phase, paint, seen, browser>>
  BY DEF WalletMoves, worker, page
<1> QED BY <1>1, BrowserStill, SideStill DEF QueueSide

LEMMA SendsStays == ASSUME IInv, QueueSide, NEW w \in Windows, NEW c, Sends(w, c) PROVE Stays
<1>1. PageTypes /\ Blank.head = None
  BY TypesAre, BlankIs DEF IInv
<1>2. /\ UNCHANGED <<approveWinId, phase, browser>>
      /\ paint' = [paint EXCEPT ![w] = None] /\ seen' = [seen EXCEPT ![w] = Blank]
  BY DEF Sends, worker
<1>3. PaintsStay /\ SeenStays
  BY <1>1, <1>2 DEF PaintsStay, SeenStays, PageTypes
<1>4. NewStays /\ RecordedIsOpen'
  BY <1>2, BrowserStill DEF NewStays, NotNew, QueueSide
<1> QED BY <1>3, <1>4, SideKept

\* The poll reads a head that is queued.
LEMMA PollQueueStays == ASSUME IInv, QueueSide, NEW w \in Windows, PollQueue(w) PROVE Stays
<1>1. PageTypes /\ Blank.head = None /\ pending \in Seq(Requests)
  BY TypesAre, BlankIs DEF IInv, TypeOK
<1>2. UNCHANGED <<approveWinId, phase, browser>>
  BY DEF PollQueue, worker
<1>3. pending # <<>> => Head(pending) \in Requests /\ phase[Head(pending)] = "queued"
  <2> SUFFICES ASSUME pending # <<>> PROVE 1 \in DOMAIN pending /\ Head(pending) = pending[1] /\ pending[1] \in Requests
    BY DEF IInv, PlacesOk
  <2> QED BY <1>1
<1>4. PaintsStay
  <2>1. UNCHANGED paint \/ \E p \in {paint[w], None} : paint' = [paint EXCEPT ![w] = p]
    BY Zenon DEF PollQueue
  <2> QED BY <1>1, <2>1 DEF PaintsStay, PageTypes
<1>5. \A v \in Windows : seen'[v].head # None =>
          seen'[v].head = seen[v].head \/ (pending # <<>> /\ seen'[v].head = Head(pending))
  <2>1. \/ seen' = [seen EXCEPT ![w] = Blank]
        \/ pending # <<>> /\ seen' = [seen EXCEPT ![w] = [seen[w] EXCEPT !.head = Head(pending)]]
    <3>1. CASE pending = <<>>
      BY <3>1, Zenon DEF PollQueue
    <3>2. CASE pending # <<>>
      <4> DEFINE repaints == /\ seen[w].unlocked
                             /\ ~(/\ seen[w].unlocked /\ paint[w] # None
                                  /\ paint[w].req = Head(pending))
      <4>1. seen' = [seen EXCEPT ![w] =
                         IF repaints THEN [seen[w] EXCEPT !.head = Head(pending)] ELSE Blank]
        BY <3>2, Zenon DEF PollQueue
      <4> HIDE DEF repaints
      <4> QED BY <3>2, <4>1, Zenon
    <3> QED BY <3>1, <3>2
  <2>2. seen[w] \in Status
    BY <1>1 DEF PageTypes
  <2> DEFINE sees == [seen[w] EXCEPT !.head = Head(pending)]
  <2>3. sees.head = Head(pending)
    BY <2>2 DEF Status
  <2>4. \E x \in {Blank, sees} : seen' = [seen EXCEPT ![w] = x] /\ (x = sees => pending # <<>> \/ x = Blank)
    BY <2>1
  <2> HIDE DEF sees
  <2> QED BY <1>1, <2>3, <2>4 DEF PageTypes
<1>6. PagesKnow'
  <2>1. \A v \in Windows : /\ paint'[v] # None => NotNew(paint'[v].req)
                           /\ seen'[v].head # None => NotNew(seen'[v].head)
    BY <1>3, <1>4, <1>5 DEF QueueSide, PagesKnow, PaintsStay, NotNew
  <2> QED BY <1>2, <2>1 DEF PagesKnow, NotNew
<1>7. RecordedIsOpen' /\ OneRequest'
  BY <1>2, BrowserStill DEF QueueSide, OneRequest, NotNew
<1> QED BY <1>2, <1>4, <1>6, <1>7 DEF Stays, QueueSide, NotNew

\* The window paints what it read.
LEMMA ShowStays ==
    ASSUME IInv, QueueSide, NEW w \in Windows, ShowRequest(w)
    PROVE  /\ QueueSide' /\ UNCHANGED <<phase, shown>>
           /\ seen[w].head \in Requests /\ NotNew(seen[w].head)
           /\ paint' = [paint EXCEPT ![w] = paint'[w]]
           /\ paint'[w].req = seen[w].head
<1>1. PageTypes /\ Blank.head = None
  BY TypesAre, BlankIs DEF IInv
<1>2. /\ UNCHANGED <<approveWinId, phase, browser, shown>> /\ seen' = [seen EXCEPT ![w] = Blank]
      /\ paint' = [paint EXCEPT ![w] = [req |-> seen[w].head, signer |-> seen[w].acct,
                                        warned |-> unconf[w][seen[w].head]]]
      /\ stage[w] = "painting"
  BY Zenon DEF ShowRequest, worker, browser
<1>3. seen[w].head # None
  BY <1>2 DEF IInv, StagesOk
<1>4. seen[w].head \in Requests /\ NotNew(seen[w].head)
  BY <1>3, PagesRead DEF QueueSide, PagesKnow
<1>5. paint' = [paint EXCEPT ![w] = paint'[w]] /\ paint'[w].req = seen[w].head
  BY <1>1, <1>2 DEF PageTypes
<1>6. PagesKnow'
  BY <1>1, <1>2, <1>4, <1>5 DEF QueueSide, PagesKnow, NotNew, PageTypes
<1>7. RecordedIsOpen' /\ OneRequest'
  BY <1>2, BrowserStill DEF QueueSide, OneRequest, NotNew
<1> QED BY <1>2, <1>4, <1>5, <1>6, <1>7 DEF QueueSide


-----------------------------------------------------------------------------
(* The cards *)

LEMMA TipsAre == 0 \in Tips /\ LastTip \in Nat /\ \A t \in Tips : t \in Nat
  BY ReviewAssumption DEF Tips

LEMMA NoCardOk == height \in Tips => CardOk(NoCard) /\ OnScreen(NoCard) /\ Quoted(NoCard)
  BY TipsAre, NoneAssumption, ReviewAssumption
     DEF NoCard, NoRead, NoClick, CardOk, Card, Read, Aim, Opinions, TipsOrdered, AimHeld,
         Remembered, OnScreen, Quoted

\* A step of the queue forgets the cards of the windows it closes.
LEMMA ForgetsKeeps == ASSUME CardsOk, Stays, Forgets, UNCHANGED height PROVE CardsOk'
<1>1. card' \in [Windows -> Card]
  BY NoCardOk DEF CardsOk, Forgets, CardOk
<1>2. ASSUME NEW w \in Windows
      PROVE  /\ CardOk(card[w])' /\ Quoted(card[w])'
             /\ ~Showing(w)' => card'[w] = NoCard
             /\ Painted(w)' => OnScreen(card'[w])
  <2>1. /\ CardOk(card[w]) /\ Quoted(card[w])
        /\ ~Showing(w) => card[w] = NoCard
        /\ Painted(w) => OnScreen(card[w])
    BY DEF CardsOk
  <2>2. card'[w] = IF Showing(w)' THEN card[w] ELSE NoCard
    BY DEF Forgets, Showing
  <2>3. CardOk(NoCard) /\ OnScreen(NoCard) /\ Quoted(NoCard)
    BY NoCardOk DEF CardsOk
  <2>4. CardOk(card[w])' /\ Quoted(card[w])'
    BY <2>1, <2>2, <2>3 DEF CardOk, TipsOrdered, AimHeld, Remembered, Quoted, Stays
  <2>5. Painted(w)' => OnScreen(card'[w])
    BY <2>1, <2>2, <2>3 DEF Stays, PaintsStay, Painted
  <2> QED BY <2>2, <2>4, <2>5
<1> QED BY <1>1, <1>2 DEF CardsOk, OnScreen

\* What one card may become.
LEMMA CardMoves ==
    ASSUME CardsOk, NEW w \in Windows, NEW c, card' = [card EXCEPT ![w] = c],
           UNCHANGED <<height, shown>>, Showing(w), CardOk(c), Quoted(c),
           \A r \in Requests : NotNew(r) => NotNew(r)',
           \A v \in Windows \ {w} : paint'[v] # None => paint'[v] = paint[v],
           Painted(w)' => OnScreen(c)
    PROVE  CardsOk'
<1>1. card' \in [Windows -> Card] /\ height' \in Tips
  BY DEF CardsOk, CardOk
<1>2. ASSUME NEW v \in Windows
      PROVE  /\ CardOk(card[v])' /\ Quoted(card[v])'
             /\ ~Showing(v)' => card'[v] = NoCard
             /\ Painted(v)' => OnScreen(card'[v])
  <2>1. /\ CardOk(card[v]) /\ Quoted(card[v])
        /\ ~Showing(v) => card[v] = NoCard
        /\ Painted(v) => OnScreen(card[v])
        /\ card'[v] = IF v = w THEN c ELSE card[v]
    BY DEF CardsOk
  <2>2. CardOk(card[v])' /\ Quoted(card[v])'
    BY <2>1 DEF CardOk, TipsOrdered, AimHeld, Remembered, Quoted
  <2>3. ~Showing(v)' => card'[v] = NoCard
    BY <2>1 DEF Showing
  <2>4. Painted(v)' => OnScreen(card'[v])
    BY <2>1 DEF Painted, Showing
  <2> QED BY <2>2, <2>3, <2>4
<1> QED BY <1>1, <1>2 DEF CardsOk, OnScreen

\* The request of a paint is the one the quotes are of.
LEMMA RebuiltOk ==
    ASSUME IInv, OneRequest, height \in Tips, NEW c, CardOk(c), Quoted(c),
           NEW r \in Requests, NotNew(r)
    PROVE  CardOk(Rebuilt(c, r)) /\ Quoted(Rebuilt(c, r)) /\ OnScreen(Rebuilt(c, r))
<1> DEFINE d == Rebuilt(c, r)
           reads == PreviewsOf[r] \ Gates
<1>1. /\ d.due = {<<e[1], "old">> : e \in c.due} \cup (reads \X {"now"})
      /\ d.preview = (IF "quote" \in reads THEN "loading" ELSE c.preview)
      /\ d.amount = None /\ d.box = FALSE /\ d.short = FALSE /\ d.armed = FALSE
      /\ d.quote = c.quote /\ d.verdict = c.verdict /\ d.note = Reattached(c)
      /\ d.gate = IF c.gate # "off" \/ PreviewsOf[r] \cap Gates = {} THEN c.gate
                  ELSE IF "verdict" \in PreviewsOf[r] THEN "check" ELSE "checkOnce"
      /\ d.since = c.since /\ d.refresh = c.refresh /\ d.click = c.click /\ d.last = c.last
  BY DEF Rebuilt, CardOk, Card
<1>2. d \in Card
  <2>1. PreviewsOf[r] \subseteq Previews
    BY ReviewAssumption
  <2>2. d.due \in SUBSET ((Previews \ Gates) \X {"now", "old"})
    BY <1>1, <2>1 DEF CardOk, Card
  <2>3. Reattached(c) \in Opinions
    BY DEF Reattached, CardOk, Card, Opinions
  <2>4. /\ d.paints \in {"first", "again"}
        /\ d = [c EXCEPT !.paints = d.paints, !.due = d.due, !.armed = d.armed, !.amount = d.amount,
                         !.box = d.box, !.short = d.short, !.preview = d.preview, !.gate = d.gate,
                         !.note = d.note]
    BY DEF Rebuilt, CardOk, Card
  <2>5. /\ d.preview \in {"none", "loading", "ready", "error"} /\ d.amount \in Quotes \cup {None}
        /\ d.armed \in BOOLEAN /\ d.box \in BOOLEAN /\ d.short \in BOOLEAN /\ d.note \in Opinions
        /\ d.gate \in {"off", "check", "checkOnce", "live", "once"}
    BY <1>1, <2>3 DEF CardOk, Card
  <2> HIDE DEF d
  <2> QED BY <2>2, <2>4, <2>5 DEF CardOk, Card
<1>3. TipsOrdered(d) /\ AimHeld(d) /\ Remembered(d)
  BY <1>1 DEF CardOk, TipsOrdered, AimHeld, Remembered
<1>4. Quoted(d)
  <2>1. "quote" \in reads => Quoted(d)
    BY DEF Quoted
  <2>2. (\E e \in d.due : e[1] = "quote") => "quote" \in reads \/ \E e \in c.due : e[1] = "quote"
    BY <1>1
  <2> QED BY <1>1, <2>1, <2>2 DEF Quoted
<1>5. OnScreen(d)
  <2>1. d.preview # "ready"
    <3>1. c.preview = "ready" => "quote" \in PreviewsOf[r]
      BY DEF Quoted, OneRequest
    <3> QED BY <1>1, <3>1 DEF Gates
  <2> QED BY <1>1, <2>1 DEF OnScreen, Reattached
<1> QED BY <1>2, <1>3, <1>4, <1>5 DEF CardOk


\* The two halves of ApprovesWhatIsShown, as a step.
CarriesShown ==
    \A c \in clicks' \ clicks : c.win \in Watched /\ c.approve =>
       LET k == card[c.win]
       IN  /\ "quote" \in PreviewsOf[c.req] => k.amount # None /\ k.quote = k.amount
           /\ k.verdict = "block" => k.click.at = "tip" /\ k.click.from >= k.since
SinceStays == \A w \in Watched : card'[w].verdict # None => card'[w].since >= card[w].since

NotOlder(w, c) == c.verdict # None => c.since >= card[w].since

Holds == RInv' /\ CarriesShown /\ SinceStays

LEMMA SinceKept ==
    ASSUME CardsOk, NEW w \in Windows, NEW c, card' = [card EXCEPT ![w] = c], NotOlder(w, c)
    PROVE  SinceStays
<1> SUFFICES ASSUME NEW v \in Watched, card'[v].verdict # None PROVE card'[v].since >= card[v].since
  BY DEF SinceStays
<1>1. v \in Windows /\ card'[v] = IF v = w THEN c ELSE card[v]
  BY ReviewAssumption DEF CardsOk
<1>2. card[v].since \in Nat
  BY <1>1, TipsAre DEF CardsOk, Card
<1> QED BY <1>1, <1>2 DEF NotOlder

\* A step of the queue that sends no click.
LEMMA QueueHolds ==
    ASSUME RInv, IInv', Stays, Forgets, UNCHANGED height, clicks' \subseteq clicks PROVE Holds
<1>1. CardsOk'
  BY ForgetsKeeps DEF RInv
<1>2. SinceStays
  <2> SUFFICES ASSUME NEW v \in Watched, card'[v].verdict # None PROVE card'[v].since >= card[v].since
    BY DEF SinceStays
  <2>1. v \in Windows /\ (card'[v] = card[v] \/ card'[v] = NoCard)
    BY ReviewAssumption DEF Forgets
  <2>2. card[v].since \in Nat
    BY <2>1, TipsAre DEF RInv, CardsOk, Card
  <2> QED BY <2>1, <2>2 DEF NoCard
<1> QED BY <1>1, <1>2 DEF Holds, RInv, CarriesShown, Stays, QueueSide

\* A step of the card alone.
LEMMA CardHolds ==
    ASSUME RInv, NEW w \in Windows, NEW c, card' = [card EXCEPT ![w] = c], UNCHANGED <<vars, height>>,
           Showing(w), CardOk(c), Quoted(c), Painted(w) => OnScreen(c), NotOlder(w, c)
    PROVE  Holds
<1>1. IInv'
  BY StillKeeps DEF RInv
<1>2. UNCHANGED <<paint, seen, phase, shown, browser, approveWinId, clicks>>
  BY DEF vars, worker, browser, page
<1>3. Stays
  BY <1>2, SideStill, BrowserStill DEF RInv, QueueSide
<1>4. Painted(w)' => Painted(w)
  BY <1>2 DEF Painted, Showing
<1>5. CardsOk'
  BY <1>2, <1>3, <1>4, CardMoves DEF RInv, Stays
<1>6. CarriesShown
  BY <1>2 DEF CarriesShown
<1> QED BY <1>1, <1>3, <1>5, <1>6, SinceKept DEF Holds, RInv, Stays, QueueSide

LEMMA CardIs ==
    ASSUME RInv, NEW w \in Windows
    PROVE  /\ CardOk(card[w]) /\ Quoted(card[w]) /\ card[w] \in Card
           /\ card[w] # NoCard => Showing(w)
           /\ Painted(w) => OnScreen(card[w])
           /\ card[w].since \in Nat /\ height \in Nat /\ height \in Tips
<1>1. card[w] \in Card /\ height \in Tips
  BY DEF RInv, CardsOk
<1> QED BY <1>1, TipsAre DEF RInv, CardsOk, Card

\* A change that leaves the verdict, its reads and the click alone.
SameJudgement(c, e) ==
    /\ e.gate = c.gate /\ e.verdict = c.verdict /\ e.since = c.since
    /\ e.refresh = c.refresh /\ e.click = c.click /\ e.last = c.last

LEMMA SameJudged ==
    ASSUME NEW c, CardOk(c), NEW e \in Card, SameJudgement(c, e), Remembered(e) PROVE CardOk(e)
  BY DEF SameJudgement, CardOk, TipsOrdered, AimHeld

\* The reads of a paint.
LEMMA EndedOk ==
    ASSUME NEW c, CardOk(c), Quoted(c), NEW d
    PROVE  /\ CardOk(Ended(c, d)) /\ Quoted(Ended(c, d))
           /\ SameJudgement(c, Ended(c, d)) /\ (OnScreen(c) => OnScreen(Ended(c, d)))
<1>1. Ended(c, d) \in Card
  BY DEF Ended, CardOk, Card
<1>2. SameJudgement(c, Ended(c, d)) /\ (OnScreen(c) => OnScreen(Ended(c, d))) /\ Remembered(Ended(c, d))
  BY DEF Ended, CardOk, Card, SameJudgement, OnScreen, Remembered
<1>3. Ended(c, d).due = c.due \ {d} /\ Ended(c, d).preview = c.preview
  BY DEF Ended, CardOk, Card
<1>4. Quoted(Ended(c, d))
  BY <1>3 DEF Quoted
<1> QED BY <1>1, <1>2, <1>4, SameJudged DEF CardOk

LEMMA ReadIsOnCard ==
    ASSUME RInv, NEW w \in Windows, NEW p, NEW d \in Reads(w, p)
    PROVE  Showing(w) /\ d \in card[w].due /\ d[1] = p
<1>1. d \in card[w].due /\ d[1] = p
  BY DEF Reads
<1> QED BY <1>1, CardIs DEF NoCard

LEMMA ScreenHolds ==
    ASSUME RInv, NEW w \in Windows, NEW e \in Card, card' = [card EXCEPT ![w] = e],
           UNCHANGED <<vars, height>>, Showing(w), SameJudgement(card[w], e), Remembered(e),
           Quoted(e), Painted(w) => OnScreen(e)
    PROVE  Holds
<1>1. CardOk(e)
  BY CardIs, SameJudged
<1>2. NotOlder(w, e)
  BY CardIs DEF NotOlder, SameJudgement
<1> QED BY <1>1, <1>2, CardHolds

LEMMA WarningsHold == ASSUME RInv, NEW w \in Windows, WarningsLand(w) PROVE Holds
<1>1. PICK d \in Reads(w, "warnings") : card' = [card EXCEPT ![w] = Ended(card[w], d)]
  BY DEF WarningsLand
<1> DEFINE e == Ended(card[w], d)
<1>2. CardOk(e) /\ Quoted(e) /\ Showing(w) /\ SameJudgement(card[w], e) /\ (Painted(w) => OnScreen(e))
  BY CardIs, EndedOk, ReadIsOnCard
<1>3. card' = [card EXCEPT ![w] = e] /\ UNCHANGED <<vars, height>>
  BY <1>1 DEF WarningsLand
<1> HIDE DEF e
<1> QED BY <1>2, <1>3, ScreenHolds DEF CardOk

LEMMA BalanceHolds == ASSUME RInv, NEW w \in Windows, BalanceLands(w) PROVE Holds
<1>1. PICK d \in Reads(w, "balance"), short \in BOOLEAN :
          card' = [card EXCEPT ![w] =
              IF Live(w, d) THEN [Ended(card[w], d) EXCEPT !.short = short, !.box = short]
              ELSE Ended(card[w], d)]
  BY DEF BalanceLands
<1> DEFINE e == Ended(card[w], d)
           c == IF Live(w, d) THEN [e EXCEPT !.short = short, !.box = short] ELSE e
<1>2. CardOk(e) /\ Quoted(e) /\ Showing(w) /\ SameJudgement(card[w], e) /\ (Painted(w) => OnScreen(e))
  BY CardIs, EndedOk, ReadIsOnCard
<1>3. card' = [card EXCEPT ![w] = c] /\ UNCHANGED <<vars, height>>
  BY <1>1 DEF BalanceLands
<1> HIDE DEF e
<1>4. c \in {e, [e EXCEPT !.short = short, !.box = short]}
  OBVIOUS
<1>5. /\ c \in Card /\ SameJudgement(card[w], c) /\ (Painted(w) => OnScreen(c))
      /\ c.preview = e.preview /\ c.quote = e.quote /\ c.due = e.due
  <2> HIDE DEF c
  <2>1. CASE c = e
    BY <1>2, <2>1 DEF CardOk
  <2>2. CASE c = [e EXCEPT !.short = short, !.box = short]
    <3>1. c \in Card
      BY <1>2, <2>2, ZenonT(30) DEF CardOk, Card
    <3>2. SameJudgement(card[w], c)
      BY <1>2, <2>2 DEF CardOk, Card, SameJudgement
    <3>3. Painted(w) => OnScreen(c)
      BY <1>2, <2>2 DEF CardOk, Card, OnScreen
    <3> QED BY <1>2, <2>2, <3>1, <3>2, <3>3 DEF CardOk, Card
  <2> QED BY <1>4, <2>1, <2>2
<1> HIDE DEF c
<1>6. Remembered(c) /\ Quoted(c)
  BY <1>2, <1>5 DEF CardOk, Remembered, Quoted
<1> QED BY <1>2, <1>3, <1>5, <1>6, ScreenHolds

LEMMA QuoteHolds == ASSUME RInv, NEW w \in Windows, QuoteLands(w) PROVE Holds
<1>1. PICK d \in Reads(w, "quote"), q \in Quotes \cup {None} :
          card' = [card EXCEPT ![w] =
              IF ~Live(w, d) THEN Ended(@, d)
              ELSE [Ended(@, d) EXCEPT !.quote = q, !.preview = IF q = None THEN "error" ELSE "ready",
                                       !.amount = IF d[2] = "now" THEN q ELSE @]]
  BY Zenon DEF QuoteLands
<1> DEFINE e == Ended(card[w], d)
           c == IF ~Live(w, d) THEN e
                ELSE [e EXCEPT !.quote = q, !.preview = IF q = None THEN "error" ELSE "ready", !.amount = q]
<1>2. CardOk(e) /\ Quoted(e) /\ Showing(w) /\ SameJudgement(card[w], e) /\ (Painted(w) => OnScreen(e))
  BY CardIs, EndedOk, ReadIsOnCard
<1>3. \E r \in Requests : NotNew(r) /\ "quote" \in PreviewsOf[r]
  BY CardIs, ReadIsOnCard DEF Quoted
<1>4. card' = [card EXCEPT ![w] = c] /\ UNCHANGED <<vars, height>>
  BY <1>1 DEF Live, QuoteLands
<1> HIDE DEF e
<1>5. c \in Card /\ SameJudgement(card[w], c) /\ Remembered(c) /\ (Painted(w) => OnScreen(c))
  <2>1. CASE Live(w, d)
    <3>1. c = [e EXCEPT !.quote = q, !.preview = IF q = None THEN "error" ELSE "ready", !.amount = q]
      BY <2>1
    <3> HIDE DEF c
    <3>2. c \in Card
      BY <1>2, <3>1, ZenonT(30) DEF CardOk, Card
    <3>3. SameJudgement(card[w], c)
      BY <1>2, <3>1 DEF CardOk, Card, SameJudgement
    <3>4. Remembered(c)
      BY <1>2, <3>1 DEF CardOk, Card, Remembered
    <3>5. Painted(w) => OnScreen(c)
      BY <1>2, <3>1 DEF CardOk, Card, OnScreen
    <3> QED BY <3>2, <3>3, <3>4, <3>5
  <2>2. CASE ~Live(w, d)
    <3>1. c = e
      BY <2>2
    <3> HIDE DEF c
    <3> QED BY <1>2, <3>1 DEF CardOk
  <2> QED BY <2>1, <2>2
<1> HIDE DEF c
<1>6. Quoted(c)
  BY <1>3 DEF Quoted
<1> QED BY <1>2, <1>4, <1>5, <1>6, ScreenHolds

LEMMA ArmsHolds == ASSUME RInv, NEW w \in Windows, Arms(w) PROVE Holds
<1> DEFINE c == [card[w] EXCEPT !.armed = TRUE]
<1>1. CardOk(card[w]) /\ Quoted(card[w]) /\ (Painted(w) => OnScreen(card[w]))
  BY CardIs
<1>2. c \in Card /\ SameJudgement(card[w], c) /\ (Painted(w) => OnScreen(c))
  BY <1>1, ZenonT(30) DEF CardOk, Card, SameJudgement, OnScreen
<1>3. Remembered(c) /\ Quoted(c)
  BY <1>1 DEF CardOk, Card, Remembered, Quoted
<1>4. card' = [card EXCEPT ![w] = c] /\ UNCHANGED <<vars, height>> /\ Showing(w)
  BY DEF Arms, Painted
<1> HIDE DEF c
<1> QED BY <1>2, <1>3, <1>4, ScreenHolds


\* A change that leaves what the card shows alone, but the note.
SameScreen(c, e) ==
    /\ e.preview = c.preview /\ e.quote = c.quote /\ e.amount = c.amount
    /\ e.short = c.short /\ e.box = c.box /\ e.due = c.due

Noted(c) == c.verdict \in {"block", "warn"} => c.note = c.verdict

\* What a verdict, a read of the tip or a click may make of a card.
Fits(w, e) ==
    /\ e \in Card /\ SameScreen(card[w], e) /\ TipsOrdered(e) /\ AimHeld(e)
    /\ Painted(w) => Noted(e)
    /\ NotOlder(w, e)

LEMMA FitsOk ==
    ASSUME RInv, NEW w \in Windows, NEW e, Fits(w, e)
    PROVE  CardOk(e) /\ Quoted(e) /\ (Painted(w) => OnScreen(e))
<1>1. CardOk(card[w]) /\ Quoted(card[w]) /\ (Painted(w) => OnScreen(card[w]))
  BY CardIs
<1>2. CardOk(e)
  BY <1>1 DEF Fits, SameScreen, CardOk, Remembered
<1>3. Quoted(e)
  BY <1>1 DEF Fits, SameScreen, Quoted
<1>4. Painted(w) => OnScreen(e)
  BY <1>1 DEF Fits, SameScreen, Noted, OnScreen
<1> QED BY <1>2, <1>3, <1>4

LEMMA FitHolds ==
    ASSUME RInv, NEW w \in Windows, NEW e, Fits(w, e), card' = [card EXCEPT ![w] = e],
           UNCHANGED <<vars, height>>, Showing(w)
    PROVE  Holds
  BY FitsOk, CardHolds DEF Fits

\* An answer leaves the window, and the page forgets.
LEMMA SendHolds ==
    ASSUME RInv, NEW w \in Windows, NEW a \in Click, a.win = w, Sends(w, a), Showing(w),
           NEW e, CardOk(e), Quoted(e), e.verdict = None, card' = [card EXCEPT ![w] = e],
           UNCHANGED height,
           a.approve /\ w \in Watched =>
              /\ "quote" \in PreviewsOf[a.req] => card[w].amount # None /\ card[w].quote = card[w].amount
              /\ card[w].verdict = "block" =>
                    card[w].click.at = "tip" /\ card[w].click.from >= card[w].since
    PROVE  Holds
<1>1. IInv' /\ Stays
  BY SendsKeeps, SendsStays DEF RInv, QueueSide
<1>2. UNCHANGED shown /\ paint' = [paint EXCEPT ![w] = None] /\ clicks' = clicks \cup {a}
  BY DEF Sends, browser
<1>3. ~Painted(w)'
  <2>1. paint'[w] = None
    BY <1>2, TypesAre DEF RInv, IInv, PageTypes
  <2> QED BY <2>1 DEF Painted
<1>4. CardsOk'
  BY <1>1, <1>2, <1>3, CardMoves DEF RInv, Stays, PaintsStay
<1>5. CarriesShown
  BY <1>2 DEF CarriesShown
<1>6. SinceStays
  BY SinceKept DEF RInv, NotOlder
<1> QED BY <1>1, <1>4, <1>5, <1>6 DEF Holds, RInv, Stays, QueueSide

LEMMA KeptOk ==
    ASSUME height \in Tips, NEW c, CardOk(c), Quoted(c)
    PROVE  CardOk(Kept(c)) /\ Quoted(Kept(c)) /\ Kept(c).verdict = None
<1>1. NoCard \in Card /\ TipsOrdered(NoCard) /\ AimHeld(NoCard)
  BY NoCardOk DEF CardOk
<1>2. Kept(c) \in Card
  BY <1>1, ZenonT(30) DEF Kept, CardOk, Card
<1>3. /\ Kept(c).preview = c.preview /\ Kept(c).quote = c.quote
      /\ Kept(c).due = {} /\ Kept(c).verdict = None /\ SameJudgement(NoCard, Kept(c))
  BY DEF Kept, NoCard, SameJudgement
<1>4. Remembered(Kept(c)) /\ Quoted(Kept(c))
  BY <1>3 DEF CardOk, Remembered, Quoted
<1>5. TipsOrdered(Kept(c)) /\ AimHeld(Kept(c))
  BY <1>1, <1>3 DEF SameJudgement, TipsOrdered, AimHeld
<1> QED BY <1>2, <1>4, <1>5, <1>3 DEF CardOk

\* The click goes on: its request has a gate, so it asks for no quote.
LEMMA DecidedHolds ==
    ASSUME RInv, NEW w \in Windows, NEW c, Fits(w, c), Showing(w), Decided(w, c), UNCHANGED height,
           c.click.req \in Requests, c.click.signer \in Accounts, PreviewsOf[c.click.req] \cap Gates # {},
           c.verdict # "block" /\ card[w].verdict = "block" =>
              card[w].click.at = "tip" /\ card[w].click.from >= card[w].since
    PROVE  Holds
<1>1. CASE c.verdict = "block"
  <2> DEFINE e == [c EXCEPT !.click = NoClick]
  <2>1. card' = [card EXCEPT ![w] = e] /\ UNCHANGED vars
    BY <1>1 DEF Decided
  <2>2. /\ e \in Card /\ e.gate = c.gate /\ e.verdict = c.verdict /\ e.note = c.note /\ e.since = c.since
        /\ e.refresh = c.refresh /\ e.click = NoClick /\ SameScreen(c, e)
    BY TipsAre, NoneAssumption, ZenonT(30) DEF Fits, Card, Aim, NoClick, SameScreen
  <2> HIDE DEF e
  <2>3. Fits(w, e)
    BY <2>2, CardIs DEF Fits, SameScreen, TipsOrdered, AimHeld, Noted, NotOlder, NoClick
  <2> QED BY <2>1, <2>3, FitHolds
<1>2. CASE c.verdict # "block"
  <2> DEFINE a == [win |-> w, req |-> c.click.req, approve |-> TRUE,
                   signer |-> c.click.signer, ack |-> None]
  <2>1. card' = [card EXCEPT ![w] = Kept(c)] /\ Sends(w, a)
    BY <1>2 DEF Decided
  <2>2. a \in Click /\ a.win = w /\ a.req = c.click.req
    BY DEF Click
  <2>3. CardOk(Kept(c)) /\ Quoted(Kept(c)) /\ Kept(c).verdict = None
    BY FitsOk, KeptOk, CardIs
  <2>4. "quote" \notin PreviewsOf[a.req]
    BY <2>2, ReviewAssumption
  <2> HIDE DEF a
  <2> QED BY <1>2, <2>1, <2>2, <2>3, <2>4, SendHolds
<1> QED BY <1>1, <1>2

-----------------------------------------------------------------------------
(* The verdict and its reads *)

LEMMA VerdictIs == ASSUME NEW record, NEW t PROVE Verdict(record, t) \in {"block", "warn", "pass"}
  BY DEF Verdict

\* What the reads make of the verdict, and leave alone.
LEMMA AppliedIs ==
    ASSUME NEW w \in Windows, NEW c \in Card, NEW v \in {"block", "warn", "pass"}, NEW from \in Tips,
           NEW a, a = Applied(w, c, v, from)
    PROVE  /\ a \in Card /\ a.verdict = v /\ a.since = from
           /\ a.gate = c.gate /\ a.refresh = c.refresh /\ a.click = c.click /\ a.last = c.last
           /\ SameScreen(c, a) /\ (Painted(w) => Noted(a))
<1> DEFINE n == IF ~Painted(w) THEN c.note ELSE IF v = "pass" THEN None ELSE v
<1>1. n \in Opinions /\ (Painted(w) => (v \in {"block", "warn"} => n = v))
  BY DEF Card, Opinions
<1>2. a = [c EXCEPT !.verdict = v, !.since = from, !.note = n]
  BY DEF Applied
<1> HIDE DEF n
<1>3. a \in Card
  <2> DEFINE x == [c EXCEPT !.verdict = v]
             y == [x EXCEPT !.since = from]
  <2>1. x \in Card
    BY DEF Card, Opinions
  <2>2. a = [y EXCEPT !.note = n]
    BY <1>2
  <2> HIDE DEF x
  <2>3. y \in Card
    BY <2>1 DEF Card
  <2> HIDE DEF y
  <2> QED BY <1>1, <2>2, <2>3 DEF Card
<1>4. /\ a.verdict = v /\ a.since = from /\ a.note = n
      /\ a.gate = c.gate /\ a.refresh = c.refresh /\ a.click = c.click /\ a.last = c.last
      /\ SameScreen(c, a)
  BY <1>2 DEF Card, SameScreen
<1> QED BY <1>1, <1>3, <1>4 DEF Noted

LEMMA VoidsIs ==
    ASSUME NEW c \in Card, NEW which, NEW e, e = Voids(c, which)
    PROVE  /\ e \in Card /\ SameScreen(c, e)
           /\ e.gate = c.gate /\ e.verdict = c.verdict /\ e.since = c.since /\ e.note = c.note
           /\ e.last = c.last
           /\ e.refresh = IF c.last = which THEN [c.refresh EXCEPT !.void = TRUE] ELSE c.refresh
           /\ e.click = IF c.last = which THEN [c.click EXCEPT !.void = TRUE] ELSE c.click
<1> DEFINE r == [c.refresh EXCEPT !.void = TRUE]
           k == [c.click EXCEPT !.void = TRUE]
<1>1. r \in Read /\ k \in Aim
  BY DEF Card, Read, Aim
<1>2. e = IF c.last # which THEN c ELSE [c EXCEPT !.refresh = r, !.click = k]
  BY DEF Voids
<1> HIDE DEF r, k
<1>3. CASE c.last # which
  BY <1>2, <1>3 DEF SameScreen
<1>4. CASE c.last = which
  <2>1. e \in Card
    <3> DEFINE x == [c EXCEPT !.refresh = r]
    <3>1. x \in Card
      BY <1>1 DEF Card
    <3>2. e = [x EXCEPT !.click = k]
      BY <1>2, <1>4
    <3> HIDE DEF x
    <3> QED BY <1>1, <3>1, <3>2 DEF Card
  <2>2. e.refresh = r /\ e.click = k
    BY <1>2, <1>4 DEF Card
  <2>3. /\ e.gate = c.gate /\ e.verdict = c.verdict /\ e.since = c.since /\ e.note = c.note
        /\ e.last = c.last /\ SameScreen(c, e)
    BY <1>2, <1>4 DEF Card, SameScreen
  <2> QED BY <1>4, <2>1, <2>2, <2>3 DEF r, k
<1> QED BY <1>3, <1>4


LEMMA GateIsOnCard ==
    ASSUME RInv, NEW w \in Windows,
           card[w].gate # "off" \/ card[w].refresh.at # "no" \/ card[w].click.at # "no"
    PROVE  Showing(w)
<1>1. NoCard.gate = "off" /\ NoCard.refresh.at = "no" /\ NoCard.click.at = "no"
  BY DEF NoCard, NoRead, NoClick
<1> QED BY <1>1, CardIs

\* The first verdict, of either kind of gate.
LEMMA FirstHolds ==
    ASSUME RInv, NEW w \in Windows, card[w].gate \in {"check", "checkOnce"},
           NEW x \in Card, SameScreen(card[w], x), x.gate \in {"live", "once"},
           x.refresh = card[w].refresh, x.click = card[w].click,
           NEW v \in {"block", "warn", "pass"},
           NEW c, c = Applied(w, x, v, height), FirstVerdict(w, c), UNCHANGED height
    PROVE  Holds
<1>1. CardOk(card[w]) /\ card[w] \in Card /\ height \in Tips /\ height \in Nat /\ card[w].since \in Nat
  BY CardIs
<1>2. /\ c \in Card /\ c.verdict = v /\ c.since = height
      /\ c.gate = x.gate /\ c.refresh = card[w].refresh /\ c.click = card[w].click
      /\ SameScreen(x, c) /\ (Painted(w) => Noted(c))
  BY <1>1, AppliedIs, SMTT(30)
<1>3. SameScreen(card[w], c)
  BY <1>2 DEF SameScreen
<1>4. /\ card[w].refresh.at = "no" /\ card[w].click.at # "tip" /\ card[w].verdict = None
      /\ card[w].since <= height /\ card[w].refresh.from <= height /\ card[w].click.from <= height
  BY <1>1 DEF CardOk, TipsOrdered
<1>5. TipsOrdered(c) /\ NotOlder(w, c)
  BY <1>1, <1>2, <1>4 DEF TipsOrdered, NotOlder
<1>6. AimHeld(c)
  BY <1>1, <1>2 DEF CardOk, AimHeld
<1>7. Fits(w, c) /\ Showing(w)
  BY <1>2, <1>3, <1>5, <1>6, GateIsOnCard DEF Fits
<1>8. CASE c.click.at = "gate"
  <2>1. /\ c.click.req \in Requests /\ c.click.signer \in Accounts
        /\ PreviewsOf[c.click.req] \cap Gates # {}
    BY <1>6, <1>8 DEF AimHeld
  <2>2. card[w].verdict # "block" /\ Decided(w, c)
    BY <1>4, <1>8, ReviewAssumption DEF FirstVerdict
  <2> QED BY <1>7, <2>1, <2>2, DecidedHolds
<1>9. CASE c.click.at # "gate"
  BY <1>7, <1>9, FitHolds DEF FirstVerdict
<1> QED BY <1>8, <1>9

LEMMA CheckHolds == ASSUME RInv, NEW w \in Windows, CheckLands(w) PROVE Holds
<1>1. PICK record \in Fetched, t \in {height, None} :
          FirstVerdict(w, Applied(w, [card[w] EXCEPT !.gate = "live", !.record = record],
                                  Verdict(record, t), height))
  BY DEF CheckLands
<1> DEFINE x == [card[w] EXCEPT !.gate = "live", !.record = record]
<1>2. record \in {None, "mine", "gone"} /\ card[w] \in Card
  BY CardIs DEF Fetched
<1>3. /\ x \in Card /\ SameScreen(card[w], x) /\ x.gate = "live"
      /\ x.refresh = card[w].refresh /\ x.click = card[w].click
  BY <1>2 DEF Card, SameScreen
<1> HIDE DEF x
<1>4. FirstVerdict(w, Applied(w, x, Verdict(record, t), height))
  BY <1>1 DEF x
<1> QED BY <1>3, <1>4, VerdictIs, FirstHolds DEF CheckLands

LEMMA ActHolds == ASSUME RInv, NEW w \in Windows, ActLands(w) PROVE Holds
<1>1. PICK record \in Fetched :
          FirstVerdict(w, Applied(w, [card[w] EXCEPT !.gate = "once"], ActVerdict(record), height))
  BY DEF ActLands
<1> DEFINE x == [card[w] EXCEPT !.gate = "once"]
<1>2. card[w] \in Card
  BY CardIs
<1>3. /\ x \in Card /\ SameScreen(card[w], x) /\ x.gate = "once"
      /\ x.refresh = card[w].refresh /\ x.click = card[w].click
  BY <1>2 DEF Card, SameScreen
<1> HIDE DEF x
<1>4. FirstVerdict(w, Applied(w, x, ActVerdict(record), height))
  BY <1>1 DEF x
<1>5. ActVerdict(record) \in {"block", "warn", "pass"}
  BY DEF ActVerdict
<1> QED BY <1>3, <1>4, <1>5, FirstHolds DEF ActLands

MaybeTip == Tips \cup {None}

\* A refresh that ends: void, it changes nothing; else its verdict is the later one.
LEMMA RefreshedFits ==
    ASSUME RInv, NEW w \in Windows, card[w].refresh.at # "no",
           NEW record \in {None, "mine", "gone"}, NEW recTip \in MaybeTip, NEW t
    PROVE  Fits(w, Refreshed(w, record, recTip, t))
<1> DEFINE c == [card[w] EXCEPT !.refresh = NoRead]
           old == card[w]
           e == Refreshed(w, record, recTip, t)
<1> SUFFICES Fits(w, e)
  OBVIOUS
<1>1. /\ old \in Card /\ TipsOrdered(old) /\ AimHeld(old) /\ height \in Nat /\ old.since \in Nat
      /\ (Painted(w) => Noted(old)) /\ old.refresh.from \in Tips /\ old.refresh.from \in Nat
  BY CardIs, TipsAre DEF CardOk, OnScreen, Noted, Card, Read
<1>2. NoRead \in Read /\ NoRead.at = "no" /\ NoRead.from = 0
  BY TipsAre DEF NoRead, Read
<1>3. /\ c \in Card /\ SameScreen(old, c) /\ c.gate = old.gate /\ c.verdict = old.verdict
      /\ c.since = old.since /\ c.note = old.note /\ c.last = old.last
      /\ c.refresh = NoRead /\ c.click = old.click
  BY <1>1, <1>2 DEF Card, SameScreen
<1> HIDE DEF c, old, e
<1>4. CASE old.refresh.void
  <2>1. e = c
    BY <1>4 DEF Refreshed, c, old, e
  <2> QED BY <1>1, <1>2, <1>3, <2>1 DEF Fits, TipsOrdered, AimHeld, Noted, NotOlder, old
<1>5. CASE ~old.refresh.void
  <2> DEFINE d == Voids(c, "refresh")
             x == [d EXCEPT !.record = record, !.recTip = recTip]
             v == Verdict(record, t)
  <2>1. /\ d \in Card /\ SameScreen(c, d) /\ d.gate = c.gate /\ d.last = c.last
        /\ d.refresh = IF c.last = "refresh" THEN [c.refresh EXCEPT !.void = TRUE] ELSE c.refresh
        /\ d.click = IF c.last = "refresh" THEN [c.click EXCEPT !.void = TRUE] ELSE c.click
    BY <1>3, VoidsIs
  <2> HIDE DEF d
  <2>2. /\ x \in Card /\ SameScreen(d, x) /\ x.gate = d.gate /\ x.last = d.last
        /\ x.refresh = d.refresh /\ x.click = d.click
    BY <2>1, ZenonT(30) DEF Card, MaybeTip, SameScreen
  <2>3. e = Applied(w, x, v, old.refresh.from)
    BY <1>5 DEF Refreshed, c, d, old, e
  <2>4. v \in {"block", "warn", "pass"}
    BY VerdictIs
  <2> HIDE DEF x, v
  <2>5. /\ e \in Card /\ e.since = old.refresh.from /\ e.gate = x.gate /\ e.refresh = x.refresh
        /\ e.click = x.click /\ e.last = x.last /\ SameScreen(x, e) /\ (Painted(w) => Noted(e))
        /\ e.verdict = v
    BY <1>1, <2>2, <2>3, <2>4, AppliedIs, SMTT(30)
  <2>6. SameScreen(old, e)
    BY <1>3, <2>1, <2>2, <2>5 DEF SameScreen
  <2>7. /\ e.refresh.at = "no" /\ e.refresh.from = 0
        /\ e.click.at = old.click.at /\ e.click.from = old.click.from
        /\ e.click.req = old.click.req /\ e.click.signer = old.click.signer
        /\ ~e.click.void => c.last # "refresh"
    BY <1>1, <1>2, <1>3, <2>1, <2>2, <2>5 DEF Card, Aim, Read
  <2>8. old.gate = "live" /\ old.refresh.from <= height /\ old.since <= old.refresh.from
    BY <1>1, <1>5 DEF TipsOrdered, old
  <2>9. old.click.at = "tip" /\ c.last # "refresh" => old.refresh.from <= old.click.from
    BY <1>1, <1>3 DEF TipsOrdered, old
  <2>10. TipsOrdered(e)
    BY <1>1, <1>3, <2>1, <2>2, <2>5, <2>7, <2>8, <2>9 DEF TipsOrdered
  <2>11. AimHeld(e) /\ NotOlder(w, e)
    BY <1>1, <2>5, <2>7, <2>8 DEF AimHeld, NotOlder, old
  <2> QED BY <2>5, <2>6, <2>10, <2>11 DEF Fits, old
<1> QED BY <1>4, <1>5

LEMMA RefreshRecordHolds == ASSUME RInv, NEW w \in Windows, RefreshRecord(w) PROVE Holds
<1>1. card[w].refresh.at = "record" /\ UNCHANGED <<vars, height>> /\ Showing(w)
  BY GateIsOnCard DEF RefreshRecord
<1>2. /\ card[w].record \in {None, "mine", "gone"} /\ card[w].recTip \in MaybeTip
      /\ card[w].refresh.tip \in MaybeTip
  BY CardIs DEF Card, Read, MaybeTip
<1>3. PICK f \in Fetched : card' = [card EXCEPT ![w] =
                  IF f = None THEN Refreshed(w, card[w].record, card[w].recTip, card[w].refresh.tip)
                              ELSE Refreshed(w, f, card[w].refresh.tip, card[w].refresh.tip)]
  BY DEF RefreshRecord
<1>4. f \in {None, "mine", "gone"}
  BY DEF Fetched
<1> DEFINE e == IF f = None THEN Refreshed(w, card[w].record, card[w].recTip, card[w].refresh.tip)
                            ELSE Refreshed(w, f, card[w].refresh.tip, card[w].refresh.tip)
<1>5. Fits(w, e)
  BY <1>1, <1>2, <1>4, RefreshedFits
<1>6. card' = [card EXCEPT ![w] = e]
  BY <1>3
<1> HIDE DEF e
<1> QED BY <1>1, <1>5, <1>6, FitHolds

LEMMA RefreshTipHolds == ASSUME RInv, NEW w \in Windows, RefreshTip(w) PROVE Holds
<1> DEFINE old == card[w]
<1>1. old.refresh.at = "tip" /\ UNCHANGED <<vars, height>> /\ Showing(w)
  BY GateIsOnCard DEF RefreshTip
<1>2. /\ old \in Card /\ TipsOrdered(old) /\ AimHeld(old) /\ old.since \in Nat
      /\ (Painted(w) => Noted(old)) /\ old.refresh \in Read
      /\ old.record \in {None, "mine", "gone"} /\ old.recTip \in MaybeTip
      /\ old.refresh.from \in Nat /\ height \in Tips
  BY CardIs, TipsAre DEF CardOk, OnScreen, Noted, Card, Read, MaybeTip
<1>3. PICK t \in (old.refresh.from..height) \cup {None} : card' = [card EXCEPT ![w] =
                  IF t = None THEN [old EXCEPT !.refresh = NoRead]
                  ELSE IF t # old.recTip \/ old.record = None
                  THEN [old EXCEPT !.refresh.at = "record", !.refresh.tip = t]
                  ELSE Refreshed(w, old.record, old.recTip, t)]
  BY DEF RefreshTip
<1> HIDE DEF old
<1> DEFINE r == [old.refresh EXCEPT !.at = "record", !.tip = t]
<1>4. CASE t = None
  <2> DEFINE e == [old EXCEPT !.refresh = NoRead]
  <2>1. NoRead \in Read /\ NoRead.at = "no" /\ NoRead.from = 0
    BY TipsAre DEF NoRead, Read
  <2>2. /\ e \in Card /\ SameScreen(old, e) /\ e.gate = old.gate /\ e.verdict = old.verdict
        /\ e.since = old.since /\ e.note = old.note /\ e.last = old.last
        /\ e.refresh = NoRead /\ e.click = old.click
    BY <1>2, <2>1 DEF Card, SameScreen
  <2>3. card' = [card EXCEPT ![w] = e]
    BY <1>3, <1>4
  <2> HIDE DEF e
  <2>4. Fits(w, e)
    BY <1>2, <2>1, <2>2, TipsAre DEF Fits, TipsOrdered, AimHeld, Noted, NotOlder, old
  <2> QED BY <1>1, <2>3, <2>4, FitHolds
<1>5. CASE t # None /\ (t # old.recTip \/ old.record = None)
  <2> DEFINE e == [old EXCEPT !.refresh = r]
  <2>1. t \in Tips
    BY <1>2, <1>5, ReviewAssumption DEF Tips
  <2>2. r \in Read /\ r.at = "record" /\ r.from = old.refresh.from /\ r.void = old.refresh.void
    BY <1>2, <2>1 DEF Read
  <2>3. card' = [card EXCEPT ![w] = e]
    <3>1. card' = [card EXCEPT ![w] = [old EXCEPT !.refresh.at = "record", !.refresh.tip = t]]
      BY <1>3, <1>5
    <3>2. [old EXCEPT !.refresh.at = "record", !.refresh.tip = t] = e
      BY <1>2 DEF Card, Read
    <3> QED BY <3>1, <3>2
  <2> HIDE DEF r
  <2>4. /\ e \in Card /\ SameScreen(old, e) /\ e.gate = old.gate /\ e.verdict = old.verdict
        /\ e.since = old.since /\ e.note = old.note /\ e.last = old.last
        /\ e.refresh = r /\ e.click = old.click
    BY <1>2, <2>2 DEF Card, SameScreen
  <2> HIDE DEF e
  <2>5. Fits(w, e)
    BY <1>1, <1>2, <2>2, <2>4 DEF Fits, TipsOrdered, AimHeld, Noted, NotOlder, old
  <2> QED BY <1>1, <2>3, <2>5, FitHolds
<1>6. CASE t # None /\ ~(t # old.recTip \/ old.record = None)
  <2> DEFINE e == Refreshed(w, old.record, old.recTip, t)
  <2>1. Fits(w, e)
    BY <1>1, <1>2, RefreshedFits DEF old
  <2>2. card' = [card EXCEPT ![w] = e]
    BY <1>3, <1>6
  <2> HIDE DEF e
  <2> QED BY <1>1, <2>1, <2>2, FitHolds
<1> QED BY <1>4, <1>5, <1>6


\* What the click found at its own tip is the later answer, unless it is void.
LEMMA ClickHolds == ASSUME RInv, NEW w \in Windows, ClickTip(w) PROVE Holds
<1> DEFINE old == card[w]
<1>1. old.click.at = "tip" /\ UNCHANGED height /\ Showing(w)
  BY GateIsOnCard DEF ClickTip
<1>2. /\ old \in Card /\ TipsOrdered(old) /\ AimHeld(old) /\ old.since \in Nat
      /\ (Painted(w) => Noted(old)) /\ old.click.from \in Tips /\ old.click.from \in Nat
      /\ old.refresh.from \in Nat /\ height \in Nat
  BY CardIs, TipsAre DEF CardOk, OnScreen, Noted, Card, Aim, Read
<1>3. PICK t \in (old.click.from..height) \cup {None} :
          Decided(w, IF t = None \/ old.click.void THEN old
                     ELSE Applied(w, Voids(old, "click"), Verdict(old.record, t), old.click.from))
  BY DEF ClickTip
<1>4. /\ old.click.req \in Requests /\ old.click.signer \in Accounts
      /\ PreviewsOf[old.click.req] \cap Gates # {}
  BY <1>1, <1>2 DEF AimHeld
<1> HIDE DEF old
<1>5. CASE t = None \/ old.click.void
  <2>1. Fits(w, old)
    BY <1>2 DEF Fits, SameScreen, NotOlder, old
  <2>2. Decided(w, old)
    BY <1>3, <1>5
  <2> QED BY <1>1, <1>4, <2>1, <2>2, DecidedHolds DEF old
<1>6. CASE ~(t = None \/ old.click.void)
  <2> DEFINE d == Voids(old, "click")
             v == Verdict(old.record, t)
             e == Applied(w, d, v, old.click.from)
  <2>1. /\ d \in Card /\ SameScreen(old, d) /\ d.gate = old.gate /\ d.last = old.last
        /\ d.refresh = IF old.last = "click" THEN [old.refresh EXCEPT !.void = TRUE] ELSE old.refresh
        /\ d.click = IF old.last = "click" THEN [old.click EXCEPT !.void = TRUE] ELSE old.click
    BY <1>2, VoidsIs
  <2>2. v \in {"block", "warn", "pass"} /\ Decided(w, e)
    BY <1>3, <1>6, VerdictIs
  <2> HIDE DEF d, v
  <2>3. /\ e \in Card /\ e.since = old.click.from /\ e.gate = d.gate /\ e.refresh = d.refresh
        /\ e.click = d.click /\ e.last = d.last /\ SameScreen(d, e) /\ (Painted(w) => Noted(e))
        /\ e.verdict = v
    BY <1>2, <2>1, <2>2, AppliedIs, SMTT(30)
  <2> HIDE DEF e
  <2>4. SameScreen(old, e)
    BY <2>1, <2>3 DEF SameScreen
  <2>5. /\ e.click.at = "tip" /\ e.click.from = old.click.from
        /\ e.click.req = old.click.req /\ e.click.signer = old.click.signer
        /\ e.refresh.at = old.refresh.at /\ e.refresh.from = old.refresh.from
        /\ ~e.refresh.void => old.last # "click"
    BY <1>1, <1>2, <2>1, <2>3 DEF Card, Aim, Read
  <2>6. /\ old.gate = "live" /\ old.click.from <= height /\ old.refresh.from <= height
        /\ old.since <= old.click.from
        /\ old.refresh.at # "no" =>
              /\ old.last # "refresh" => old.refresh.from <= old.click.from
              /\ old.last # "click" => old.click.from <= old.refresh.from
    BY <1>1, <1>2, <1>6 DEF TipsOrdered
  <2>7. TipsOrdered(e)
    BY <1>2, <2>1, <2>3, <2>5, <2>6, ReviewAssumption, VerdictIs DEF TipsOrdered
  <2>8. AimHeld(e) /\ NotOlder(w, e)
    BY <1>2, <1>4, <2>3, <2>5, <2>6 DEF AimHeld, NotOlder, old
  <2>9. Fits(w, e)
    BY <2>3, <2>4, <2>7, <2>8 DEF Fits, old
  <2>10. card[w].click.at = "tip" /\ card[w].click.from >= card[w].since
    BY <1>1, <1>2, <2>6 DEF old
  <2> QED BY <1>1, <1>4, <2>2, <2>5, <2>9, <2>10, DecidedHolds
<1> QED BY <1>5, <1>6

\* A click on a card that has a gate.
LEMMA ApproveVerdictHolds == ASSUME RInv, NEW w \in Windows, ApproveVerdict(w) PROVE Holds
<1> DEFINE old == card[w]
           k == Aims(w)
           c == [old EXCEPT !.click = k]
<1>1. /\ old \in Card /\ TipsOrdered(old) /\ (Painted(w) => Noted(old)) /\ old.since \in Nat
      /\ height \in Tips /\ height \in Nat
  BY CardIs DEF CardOk, OnScreen, Noted
<1>2. /\ Painted(w) /\ paint[w] # None /\ Showing(w) /\ PreviewsOf[paint[w].req] \cap Gates # {}
      /\ old.verdict # "block" /\ old.click.at = "no" /\ UNCHANGED height
  BY DEF ApproveVerdict, Shows, Painted, ApproveLive
<1>3. paint[w].req \in Requests /\ paint[w].signer \in Accounts
  BY <1>2, PagesRead DEF RInv
<1>4. /\ k \in Aim /\ k.from = height /\ k.req = paint[w].req /\ k.signer = paint[w].signer
      /\ k.at = "no" /\ ~k.void
  BY <1>1, <1>3 DEF Aims, NoClick, Aim
<1>5. \/ /\ c.gate \in {"check", "checkOnce"}
         /\ card' = [card EXCEPT ![w] = [c EXCEPT !.click.at = "gate"]]
         /\ UNCHANGED vars
      \/ /\ c.gate = "live"
         /\ card' = [card EXCEPT ![w] = [c EXCEPT !.click.at = "tip", !.last = "click"]]
         /\ UNCHANGED vars
      \/ c.gate \in {"live", "once"} /\ Decided(w, c)
  BY DEF ApproveVerdict
<1> HIDE DEF k, old
<1>6. /\ c \in Card /\ c.click = k /\ SameScreen(old, c) /\ c.gate = old.gate /\ c.since = old.since
      /\ c.refresh = old.refresh /\ c.last = old.last /\ c.verdict = old.verdict /\ c.note = old.note
  BY <1>1, <1>4 DEF Card, SameScreen
<1> HIDE DEF c
<1>7. CASE /\ c.gate \in {"check", "checkOnce"}
           /\ card' = [card EXCEPT ![w] = [c EXCEPT !.click.at = "gate"]]
           /\ UNCHANGED vars
  <2> DEFINE j == [k EXCEPT !.at = "gate"]
             e == [c EXCEPT !.click = j]
  <2>1. /\ j \in Aim /\ j.from = height /\ j.req = paint[w].req /\ j.signer = paint[w].signer
        /\ j.at = "gate"
    BY <1>4 DEF Aim
  <2>2. [c EXCEPT !.click.at = "gate"] = e
    BY <1>6 DEF Card
  <2> HIDE DEF j
  <2>3. /\ e \in Card /\ e.click = j /\ SameScreen(old, e) /\ e.gate = c.gate /\ e.since = c.since
        /\ e.refresh = c.refresh /\ e.last = c.last /\ e.verdict = c.verdict /\ e.note = c.note
    BY <1>6, <2>1 DEF Card, SameScreen
  <2>4. card' = [card EXCEPT ![w] = e]
    BY <1>7, <2>2
  <2> HIDE DEF e
  <2>5. TipsOrdered(e) /\ NotOlder(w, e) /\ (Painted(w) => Noted(e))
    BY <1>1, <1>6, <1>7, <2>1, <2>3 DEF TipsOrdered, NotOlder, Noted, old
  <2>6. AimHeld(e)
    BY <1>2, <1>3, <2>1, <2>3 DEF AimHeld
  <2> QED BY <1>2, <1>7, <2>3, <2>4, <2>5, <2>6, FitHolds DEF Fits, old
<1>8. CASE /\ c.gate = "live"
           /\ card' = [card EXCEPT ![w] = [c EXCEPT !.click.at = "tip", !.last = "click"]]
           /\ UNCHANGED vars
  <2> DEFINE j == [k EXCEPT !.at = "tip"]
             e == [c EXCEPT !.click = j, !.last = "click"]
  <2>1. /\ j \in Aim /\ j.from = height /\ j.req = paint[w].req /\ j.signer = paint[w].signer
        /\ j.at = "tip" /\ ~j.void
    BY <1>4 DEF Aim
  <2>2. [c EXCEPT !.click.at = "tip", !.last = "click"] = e
    BY <1>6 DEF Card
  <2> HIDE DEF j
  <2>3. /\ e \in Card /\ e.click = j /\ SameScreen(old, e) /\ e.gate = c.gate /\ e.since = c.since
        /\ e.refresh = c.refresh /\ e.last = "click" /\ e.verdict = c.verdict /\ e.note = c.note
    BY <1>6, <2>1 DEF Card, SameScreen
  <2>4. card' = [card EXCEPT ![w] = e]
    BY <1>8, <2>2
  <2> HIDE DEF e
  <2>5. TipsOrdered(e) /\ NotOlder(w, e) /\ (Painted(w) => Noted(e))
    BY <1>1, <1>6, <1>8, <2>1, <2>3 DEF TipsOrdered, NotOlder, Noted, old
  <2>6. AimHeld(e)
    BY <1>2, <1>3, <2>1, <2>3 DEF AimHeld
  <2> QED BY <1>2, <1>8, <2>3, <2>4, <2>5, <2>6, FitHolds DEF Fits, old
<1>9. CASE c.gate \in {"live", "once"} /\ Decided(w, c)
  <2>1. TipsOrdered(c) /\ NotOlder(w, c) /\ (Painted(w) => Noted(c)) /\ AimHeld(c)
    BY <1>1, <1>4, <1>6, <1>9 DEF TipsOrdered, NotOlder, Noted, AimHeld, old
  <2>2. Fits(w, c)
    BY <1>6, <2>1 DEF Fits, old
  <2> QED BY <1>2, <1>3, <1>4, <1>6, <1>9, <2>2, DecidedHolds DEF old
<1> QED BY <1>5, <1>7, <1>8, <1>9

\* The answers that wait for no verdict.
LEMMA ApproveNowHolds == ASSUME RInv, NEW w \in Windows, ApproveNow(w) PROVE Holds
<1> DEFINE a == [win |-> w, req |-> paint[w].req, approve |-> TRUE,
                 signer |-> paint[w].signer, ack |-> paint[w].warned]
<1>1. /\ Showing(w) /\ paint[w] # None /\ Sends(w, a) /\ UNCHANGED height
      /\ card' = [card EXCEPT ![w] = Kept(card[w])]
      /\ w \in Watched => ApproveLive(w)
  BY DEF ApproveNow, Answered
<1>2. a \in Click /\ a.win = w /\ a.req = paint[w].req
  BY <1>1, AnswerIs DEF RInv
<1> HIDE DEF a
<1>3. CardOk(Kept(card[w])) /\ Quoted(Kept(card[w])) /\ Kept(card[w]).verdict = None
  BY CardIs, KeptOk
<1>4. w \in Watched =>
         /\ "quote" \in PreviewsOf[a.req] => card[w].amount # None /\ card[w].quote = card[w].amount
         /\ card[w].verdict # "block"
  BY <1>1, <1>2, CardIs DEF ApproveLive, Shows, Painted, OnScreen, CardOk, Remembered
<1> QED BY <1>1, <1>2, <1>3, <1>4, SendHolds

LEMMA RejectHolds == ASSUME RInv, NEW w \in Windows, Reject(w) PROVE Holds
<1> DEFINE a == [win |-> w, req |-> paint[w].req, approve |-> FALSE,
                 signer |-> paint[w].signer, ack |-> paint[w].warned]
<1>1. /\ Showing(w) /\ paint[w] # None /\ Sends(w, a) /\ UNCHANGED height
      /\ card' = [card EXCEPT ![w] = NoCard]
  BY DEF Reject, Answered
<1>2. a \in Click /\ a.win = w /\ ~a.approve
  BY <1>1, AnswerIs DEF RInv
<1> HIDE DEF a
<1>3. CardOk(NoCard) /\ Quoted(NoCard) /\ NoCard.verdict = None
  BY NoCardOk, CardIs DEF NoCard
<1> QED BY <1>1, <1>2, <1>3, SendHolds


\* A poll may start a refresh, a paint starts the reads again; both also move the page.
LEMMA MoveHolds ==
    ASSUME RInv, IInv', QueueSide', NEW w \in Windows, NEW e, card' = [card EXCEPT ![w] = e],
           UNCHANGED <<height, shown, phase, clicks>>, Showing(w), CardOk(e), Quoted(e), NotOlder(w, e),
           \A v \in Windows \ {w} : paint'[v] # None => paint'[v] = paint[v],
           Painted(w)' => OnScreen(e)
    PROVE  Holds
<1>1. CardsOk'
  BY CardMoves DEF RInv, NotNew
<1>2. CarriesShown /\ SinceStays
  BY SinceKept DEF CarriesShown, RInv
<1> QED BY <1>1, <1>2 DEF Holds, RInv, QueueSide

LEMMA PolledHolds == ASSUME RInv, NEW w \in Windows, Polled(w) PROVE Holds
<1> DEFINE old == card[w]
           r == [NoRead EXCEPT !.at = "tip", !.from = height]
           e == [old EXCEPT !.last = "refresh", !.refresh = r]
<1>1. /\ old \in Card /\ CardOk(old) /\ Quoted(old) /\ (Painted(w) => OnScreen(old)) /\ old.since \in Nat
      /\ height \in Tips /\ height \in Nat
  BY CardIs
<1>2. IInv' /\ Stays /\ PollQueue(w) /\ UNCHANGED height
  BY PollQueueKeeps, PollQueueStays DEF Polled, RInv, QueueSide
<1>3. Showing(w) /\ UNCHANGED <<shown, phase, clicks>>
  BY <1>2 DEF PollQueue, browser, worker
<1>4. Painted(w)' => Painted(w)
  BY <1>2, <1>3 DEF Painted, Stays, PaintsStay, Showing
<1>5. \/ UNCHANGED card
      \/ old.gate = "live" /\ old.refresh.at = "no" /\ card' = [card EXCEPT ![w] = e]
  BY DEF Polled
<1> HIDE DEF old
<1>6. CASE UNCHANGED card
  <2>1. card' = [card EXCEPT ![w] = old]
    BY <1>6 DEF old, RInv, CardsOk
  <2>2. NotOlder(w, old)
    BY <1>1 DEF NotOlder, old
  <2> QED BY <1>1, <1>2, <1>3, <1>4, <2>1, <2>2, MoveHolds DEF Stays, PaintsStay
<1>7. CASE old.gate = "live" /\ old.refresh.at = "no" /\ card' = [card EXCEPT ![w] = e]
  <2>1. r \in Read /\ r.from = height
    BY <1>1, NoneAssumption DEF NoRead, Read
  <2> HIDE DEF r
  <2>2. /\ e \in Card /\ SameScreen(old, e) /\ e.gate = old.gate /\ e.verdict = old.verdict
        /\ e.since = old.since /\ e.note = old.note /\ e.last = "refresh"
        /\ e.refresh = r /\ e.click = old.click
    BY <1>1, <2>1 DEF Card, SameScreen
  <2> HIDE DEF e
  <2>3. TipsOrdered(e) /\ AimHeld(e)
    BY <1>1, <1>7, <2>1, <2>2 DEF CardOk, TipsOrdered, AimHeld
  <2>4. Fits(w, e)
    BY <1>1, <2>2, <2>3 DEF Fits, OnScreen, Noted, NotOlder, old
  <2> QED BY <1>2, <1>3, <1>4, <1>7, <2>4, FitsOk, MoveHolds DEF Stays, PaintsStay, Fits
<1> QED BY <1>5, <1>6, <1>7

LEMMA ShowHolds == ASSUME RInv, NEW w \in Windows, Show(w) PROVE Holds
<1> DEFINE old == card[w]
           r == seen[w].head
           e == IF w \in Watched THEN Rebuilt(old, r) ELSE old
<1>1. CardOk(old) /\ Quoted(old) /\ old \in Card /\ old.since \in Nat /\ height \in Tips
  BY CardIs
<1>2. IInv' /\ ShowRequest(w) /\ UNCHANGED height /\ card' = [card EXCEPT ![w] = e]
  BY ShowKeeps DEF Show, RInv
<1>3. /\ QueueSide' /\ UNCHANGED <<phase, shown>> /\ r \in Requests /\ NotNew(r)
      /\ paint' = [paint EXCEPT ![w] = paint'[w]]
  BY <1>2, ShowStays DEF RInv, QueueSide
<1>4. Showing(w) /\ UNCHANGED clicks
  BY <1>2 DEF ShowRequest
<1>5. \A v \in Windows \ {w} : paint'[v] # None => paint'[v] = paint[v]
  <2>1. paint \in [Windows -> Paint \cup {None}]
    BY DEF RInv, IInv, TypeOK
  <2> QED BY <1>3, <2>1
<1> HIDE DEF r, old
<1>6. CASE w \in Watched
  <2>1. e = Rebuilt(old, r)
    BY <1>6
  <2>2. CardOk(e) /\ Quoted(e) /\ OnScreen(e)
    BY <1>1, <1>3, <2>1, RebuiltOk DEF RInv
  <2>3. NotOlder(w, e)
    BY <1>1, <2>1 DEF NotOlder, Rebuilt, Card, old
  <2> HIDE DEF e
  <2> QED BY <1>2, <1>3, <1>4, <1>5, <2>2, <2>3, MoveHolds
<1>7. CASE w \notin Watched
  <2>1. e = old /\ ~Painted(w)'
    BY <1>7 DEF Painted
  <2>2. NotOlder(w, e)
    BY <1>1, <2>1 DEF NotOlder, old
  <2> HIDE DEF e
  <2> QED BY <1>1, <1>2, <1>3, <1>4, <1>5, <2>1, <2>2, MoveHolds
<1> QED BY <1>6, <1>7

\* A new block comes to nobody's card.
LEMMA TipHolds == ASSUME RInv, TipAdvances PROVE Holds
<1>1. /\ height < LastTip /\ height' = height + 1 /\ UNCHANGED card
      /\ UNCHANGED <<paint, seen, phase, shown, browser, approveWinId, clicks>> /\ UNCHANGED vars
  BY DEF TipAdvances, vars, worker, browser, page
<1>2. IInv' /\ Stays
  BY <1>1, StillKeeps, SideStill, BrowserStill DEF RInv, QueueSide
<1>3. height' \in Tips /\ height \in Nat
  BY <1>1, TipsAre DEF RInv, CardsOk, Tips
<1>4. ASSUME NEW w \in Windows PROVE CardOk(card[w])' /\ Quoted(card[w])'
  <2>1. CardOk(card[w]) /\ Quoted(card[w])
    BY CardIs
  <2>2. card[w].since \in Nat /\ card[w].refresh.from \in Nat /\ card[w].click.from \in Nat
    BY <2>1, TipsAre DEF CardOk, Card, Read, Aim
  <2>3. TipsOrdered(card[w])'
    BY <1>1, <1>3, <2>1, <2>2 DEF CardOk, TipsOrdered
  <2>4. CardOk(card[w])'
    BY <1>1, <2>1, <2>3 DEF CardOk, AimHeld, Remembered
  <2>5. Quoted(card[w])'
    BY <1>1, <2>1 DEF Quoted, NotNew
  <2> QED BY <2>4, <2>5
<1>5. CardsOk'
  BY <1>1, <1>3, <1>4 DEF RInv, CardsOk, OnScreen, Painted, Showing
<1>6. CarriesShown /\ SinceStays
  <2>1. \A w \in Watched : card[w].since \in Nat
    BY CardIs, ReviewAssumption
  <2> QED BY <1>1, <2>1 DEF CarriesShown, SinceStays
<1> QED BY <1>2, <1>5, <1>6 DEF Holds, RInv, Stays, QueueSide

LEMMA StutterHolds == ASSUME RInv, UNCHANGED rvars PROVE Holds
<1>1. /\ UNCHANGED <<height, card>> /\ UNCHANGED vars
      /\ UNCHANGED <<paint, seen, phase, shown, browser, approveWinId, clicks>>
  BY DEF rvars, vars, worker, browser, page
<1>2. IInv' /\ Stays
  BY <1>1, StillKeeps, SideStill, BrowserStill DEF RInv, QueueSide
<1>3. CardsOk'
  BY <1>1 DEF RInv, CardsOk, CardOk, TipsOrdered, AimHeld, Remembered, Quoted, NotNew, OnScreen,
              Painted, Showing
<1>4. CarriesShown /\ SinceStays
  <2>1. \A w \in Watched : card[w].since \in Nat
    BY CardIs, ReviewAssumption
  <2> QED BY <1>1, <2>1 DEF CarriesShown, SinceStays
<1> QED BY <1>2, <1>3, <1>4 DEF Holds, RInv, Stays, QueueSide

-----------------------------------------------------------------------------
(* The theorems about the window *)

LEMMA RInitHolds == RInit => RInv
<1> SUFFICES ASSUME RInit PROVE RInv
  OBVIOUS
<1>1. IInv /\ height = 0 /\ card = [w \in Windows |-> NoCard]
  BY InitHolds DEF RInit
<1>2. OneRequest /\ PagesKnow /\ RecordedIsOpen
  <2>1. /\ phase = [r \in Requests |-> "new"] /\ paint = [w \in Windows |-> None]
        /\ seen = [w \in Windows |-> Blank] /\ shown = [w \in Windows |-> "none"]
    BY DEF RInit, Init
  <2> QED BY <1>1, <2>1, BlankIs DEF OneRequest, NotNew, PagesKnow, RecordedIsOpen, Adopted, Showing
<1>3. CardsOk
  <2>1. height \in Tips /\ CardOk(NoCard) /\ OnScreen(NoCard) /\ Quoted(NoCard)
    BY <1>1, TipsAre, NoCardOk
  <2> QED BY <1>1, <2>1 DEF CardsOk, CardOk
<1> QED BY <1>1, <1>2, <1>3 DEF RInv

\* The steps of the queue leave the clicks, but the one that takes one away.
LEMMA QueueingHolds ==
    ASSUME RInv, Forgets, UNCHANGED height,
           \/ \E r \in Requests : (Alone /\ Queue(r)) \/ Worker(r)
           \/ \E w \in Windows : PollStatus(w) \/ CloseEmpty(w) \/ Events(w) \/ CloseByUser(w)
           \/ \E c \in replies : Outcome(c)
           \/ \E c \in clicks : Resolve(c)
           \/ Review \/ WalletMoves
    PROVE  Holds
<1>1. IInv /\ QueueSide
  BY DEF RInv, QueueSide
<1>2. ASSUME NEW r \in Requests, Alone, Queue(r) PROVE Holds
  BY <1>1, <1>2, QueueKeeps, QueueStays, QueueHolds DEF Queue
<1>3. ASSUME NEW r \in Requests, Worker(r) PROVE Holds
  <2>1. IInv'
    BY <1>1, <1>3, StepKeeps, Zenon DEF Next
  <2>2. UNCHANGED clicks
    BY <1>3 DEF Worker, StatusReadsAddr, Dispatch, PreflightRefuses, MethodReturns,
                PreflightUnconfirmed, PreflightPasses
  <2> QED BY <1>1, <1>3, <2>1, <2>2, WorkerStays, QueueHolds
<1>4. ASSUME NEW w \in Windows, PollStatus(w) \/ CloseEmpty(w) PROVE Holds
  <2>1. UNCHANGED clicks
    BY <1>4 DEF PollStatus, CloseEmpty
  <2> QED BY <1>1, <1>4, <2>1, PollStatusKeeps, CloseEmptyKeeps, PollStays, CloseEmptyStays, QueueHolds
<1>5. ASSUME NEW w \in Windows, Events(w) PROVE Holds
  <2>1. UNCHANGED clicks
    BY <1>5 DEF Events, Report, Removed
  <2> QED BY <1>1, <1>5, <2>1, ReportKeeps, RemovedKeeps, ReportStays, RemovedStays, QueueHolds DEF Events
<1>6. ASSUME NEW w \in Windows, CloseByUser(w) PROVE Holds
  BY <1>1, <1>6, CloseByUserKeeps, CloseByUserStays, QueueHolds DEF CloseByUser
<1>7. ASSUME NEW c \in replies, Outcome(c) PROVE Holds
  BY <1>1, <1>7, OutcomeKeeps, OutcomeStays, QueueHolds DEF Outcome
<1>8. ASSUME NEW c \in clicks, Resolve(c) PROVE Holds
  BY <1>1, <1>8, ResolveKeeps, ResolveStays, QueueHolds DEF Resolve
<1>9. CASE Review
  BY <1>1, <1>9, ReviewKeeps, ReviewStays, QueueHolds DEF Review
<1>10. CASE WalletMoves
  BY <1>1, <1>10, WalletKeeps, WalletStays, QueueHolds DEF WalletMoves
<1> QED BY <1>2, <1>3, <1>4, <1>5, <1>6, <1>7, <1>8, <1>9, <1>10

LEMMA RStepHolds == RInv /\ [RNext]_rvars => Holds
<1> SUFFICES ASSUME RInv, [RNext]_rvars PROVE Holds
  OBVIOUS
<1>1. CASE UNCHANGED rvars
  BY <1>1, StutterHolds
<1>2. ASSUME NEW r \in Requests, Queueing(Alone /\ Queue(r)) \/ Working(r) PROVE Holds
  BY <1>2, QueueingHolds DEF Queueing, Working
<1>3. ASSUME NEW w \in Windows, Lands(w) PROVE Holds
  BY <1>3, WarningsHold, BalanceHolds, QuoteHolds, ArmsHolds DEF Lands
<1>4. ASSUME NEW w \in Windows, Judges(w) PROVE Holds
  BY <1>4, CheckHolds, ActHolds, RefreshTipHolds, RefreshRecordHolds, ClickHolds DEF Judges
<1>5. ASSUME NEW w \in Windows, Polling(w) PROVE Holds
  BY <1>5, QueueingHolds, PolledHolds, ShowHolds DEF Polling, Queueing
<1>6. ASSUME NEW w \in Windows, Hears(w) PROVE Holds
  BY <1>6, QueueingHolds DEF Hears, Queueing
<1>7. ASSUME NEW w \in Windows, Chooses(w) PROVE Holds
  BY <1>7, QueueingHolds, ApproveVerdictHolds, ApproveNowHolds, RejectHolds DEF Chooses, Queueing
<1>8. CASE Told \/ Resolves
  BY <1>8, QueueingHolds DEF Told, Resolves, Queueing
<1>9. CASE TipAdvances
  BY <1>9, TipHolds
<1>10. CASE Queueing(Allowed("review") /\ Review) \/ Queueing(Allowed("lock") /\ WalletMoves)
  BY <1>10, QueueingHolds DEF Queueing
<1> QED BY <1>1, <1>2, <1>3, <1>4, <1>5, <1>6, <1>7, <1>8, <1>9, <1>10 DEF RNext

LEMMA RInductive == RSpec => []RInv
<1>1. Holds => RInv'
  BY DEF Holds
<1> QED BY <1>1, RInitHolds, RStepHolds, PTL DEF RSpec

\* While the worker lives there is one window that has reported in, whichever closes
\* itself, is closed or is asked for again; and with all its cards between the queue and
\* the click, one approval still signs once (openApprovalWindow, its callback).
THEOREM OneWindowHolds == RSpec => []WindowInv
<1>1. RInv => WindowInv
  <2> SUFFICES ASSUME RInv PROVE WindowInv
    OBVIOUS
  <2>1. ReviewTypeOK
    BY ReviewAssumption, TipsAre
       DEF RInv, CardsOk, Card, Read, Aim, Opinions, ReviewTypeOK
  <2>2. SignedOnce
    BY DEF RInv, IInv, SignedOnce, HandledOk, Handled
  <2>3. OneWindow
    BY DEF RInv, RecordedIsOpen, OneWindow
  <2> QED BY <2>1, <2>2, <2>3 DEF WindowInv
<1> QED BY <1>1, RInductive, PTL

\* The screen says what the buttons go by, in whatever order the reads of this paint and
\* of earlier ones land (render, fillBalance, fillTokenSim, applyNfin).
THEOREM ScreenTellsTheReview == RSpec => []ScreenIsTheReview
<1>1. RInv => ScreenIsTheReview
  BY ReviewAssumption DEF RInv, CardsOk, OnScreen, ScreenIsTheReview
<1> QED BY <1>1, RInductive, PTL

\* An approval carries the quote on the screen, and a refusal gives way only to an answer
\* that was asked for later (nfinAtClick, refreshNfinalize).
THEOREM ApprovalIsOfTheScreen == RSpec => ApprovesWhatIsShown
<1>1. RInv /\ [RNext]_rvars => CarriesShown /\ SinceStays
  BY RStepHolds DEF Holds
<1> QED BY <1>1, RInductive, PTL DEF RSpec, ApprovesWhatIsShown, CarriesShown, SinceStays
==============================================================================
