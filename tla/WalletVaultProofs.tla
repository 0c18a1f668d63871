------------------------- MODULE WalletVaultProofs -------------------------
(***************************************************************************)
(* WalletVault: type correctness, and the two invariants that hold         *)
(* whatever calls overlap (finished vault writes never mix two snapshots,  *)
(* the active slot stays in range); then, for a user who lets create,      *)
(* unlock and reset settle, what the vault promises: answered accounts     *)
(* stay, memory, store and session agree, a reset is final, and a removal  *)
(* takes one account.                                                      *)
(***************************************************************************)
EXTENDS WalletVault, TLAPS, SequenceTheorems, WellFoundedInduction

\* A set of naturals that is not empty has a least element.
LEMMA LeastNat ==
    ASSUME NEW T, T \subseteq Nat, T # {}
    PROVE  \E m \in T : \A n \in T : m <= n
<1>1. IsWellFoundedOn(OpToRel(<, Nat), Nat)
  BY NatLessThanWellFounded
<1>2. PICK m \in T : \A n \in T : ~(<<n, m>> \in OpToRel(<, Nat))
  BY <1>1, WFMin
<1>3. \A n \in T : ~(n < m)
  BY <1>2 DEF OpToRel
<1> QED
  BY <1>3

\* The slot a lookup by address finds is a slot of the array with that address.
LEMMA SlotOfIsSlot ==
    ASSUME NEW s \in Seq(Entry), NEW a \in AddrsOf(s)
    PROVE  SlotOf(s, a) \in DOMAIN s /\ s[SlotOf(s, a)].addr = a
<1> DEFINE T == {i \in DOMAIN s : s[i].addr = a}
<1>1. T \subseteq Nat /\ T # {}
  BY DEF AddrsOf
<1>2. PICK m \in T : \A n \in T : m <= n
  BY <1>1, LeastNat
<1>3. m \in DOMAIN s /\ s[m].addr = a /\ \A j \in 1..(m - 1) : s[j].addr # a
  BY <1>2
<1> QED
  BY <1>3 DEF SlotOf

\* The greatest element of a bounded set of naturals is one of its elements.
LEMMA MaxOfBounded ==
    ASSUME NEW b \in Nat, NEW S, S \subseteq 0..b, S # {}
    PROVE  Max(S) \in S /\ \A x \in S : x <= Max(S)
<1> DEFINE U == {n \in Nat : \A x \in S : n >= x}
<1>1. b \in U /\ U \subseteq Nat
  OBVIOUS
<1>2. PICK u \in U : \A n \in U : u <= n
  BY <1>1, LeastNat
<1>3. u \in S
  <2>1. SUFFICES ASSUME u \notin S PROVE FALSE
    OBVIOUS
  <2>2. PICK x \in S : TRUE
    OBVIOUS
  <2>3. \A y \in S : y \in Int /\ y >= 0 /\ u >= y /\ u # y
    BY <1>2, <2>1
  <2>4. \A y \in S : u - 1 >= y
    BY <2>3, <1>2
  <2>5. u - 1 \in U
    BY <2>2, <2>3, <2>4, <1>2
  <2> QED
    BY <1>2, <2>5
<1>4. \A y \in S : u >= y
  BY <1>2
<1> QED
  BY <1>3, <1>4 DEF Max

LEMMA RemoveAtShrinks ==
    ASSUME NEW S, NEW s \in Seq(S), NEW i \in 1..Len(s)
    PROVE  RemoveAt(s, i) \in Seq(S) /\ Len(RemoveAt(s, i)) = Len(s) - 1
<1>1. SubSeq(s, 1, i - 1) \in Seq(S) /\ Len(SubSeq(s, 1, i - 1)) = i - 1
  BY SubSeqProperties
<1>2. SubSeq(s, i + 1, Len(s)) \in Seq(S) /\ Len(SubSeq(s, i + 1, Len(s))) = Len(s) - i
  BY SubSeqProperties
<1>3. \A x, y \in Seq(S) : x \o y \in Seq(S) /\ Len(x \o y) = Len(x) + Len(y)
  BY ConcatProperties
<1>4. Len(s) \in Nat /\ i \in Int
  OBVIOUS
<1> DEFINE a == SubSeq(s, 1, i - 1)
           b == SubSeq(s, i + 1, Len(s))
<1>5. a \o b \in Seq(S) /\ Len(a \o b) = Len(a) + Len(b)
  BY <1>1, <1>2, <1>3
<1>6. RemoveAt(s, i) = a \o b
  BY DEF RemoveAt
<1>7. Len(a) = i - 1 /\ Len(b) = Len(s) - i
  BY <1>1, <1>2
<1> HIDE DEF a, b
<1> QED
  BY <1>4, <1>5, <1>6, <1>7

-----------------------------------------------------------------------------
\* The fields of an account entry: only a derived account has an index.
LEMMA EntryFields ==
    ASSUME NEW e \in Entry
    PROVE  /\ e.addr \in Addresses /\ e.label \in Labels /\ e.imported \in BOOLEAN
           /\ ~e.imported => e.index \in 0..MaxIndex
<1>1. CASE e \in [addr: Addresses, label: Labels, index: 0..MaxIndex, imported: {FALSE}]
  BY <1>1
<1>2. CASE e \in [addr: Addresses, label: Labels, index: {None}, imported: {TRUE}]
  BY <1>2
<1> QED
  BY <1>1, <1>2 DEF Entry

\* The cleartext mirror of a list of accounts is a list of public accounts.
LEMMA MirrorType ==
    ASSUME NEW s \in Seq(Entry)
    PROVE  Mirror(s) \in Seq(PubAcct)
<1>1. \A i \in 1..Len(s) : [addr |-> s[i].addr, label |-> s[i].label,
                            imported |-> s[i].imported] \in PubAcct
  BY EntryFields DEF PubAcct
<1> QED
  BY <1>1 DEF Mirror

\* The next derivation index stays within the bound.
LEMMA NextFreeType ==
    ASSUME VaultAssumption, NEW d \in Doc
    PROVE  NextFree(d) \in 0..(MaxIndex + 1)
<1> DEFINE S == {d.nextIndex} \cup {d.accts[i].index + 1 : i \in HdSlots(d.accts)}
<1>1. d.accts \in Seq(Entry) /\ d.nextIndex \in 0..(MaxIndex + 1)
  BY DEF Doc
<1>2. \A i \in HdSlots(d.accts) : d.accts[i].index \in 0..MaxIndex
  BY <1>1, EntryFields DEF HdSlots
<1>3. S \subseteq 0..(MaxIndex + 1) /\ S # {}
  <2>1. \A n \in 0..MaxIndex : n + 1 \in 0..(MaxIndex + 1)
    BY DEF VaultAssumption
  <2>2. \A i \in HdSlots(d.accts) : d.accts[i].index + 1 \in 0..(MaxIndex + 1)
    BY <1>2, <2>1
  <2> QED
    BY <1>1, <2>2
<1>4. MaxIndex + 1 \in Nat
  BY DEF VaultAssumption
<1> HIDE DEF S
<1>5. Max(S) \in S
  BY <1>3, <1>4, MaxOfBounded
<1> QED
  BY <1>3, <1>5 DEF NextFree, S

-----------------------------------------------------------------------------
(***************************************************************************)
(* The inductive invariant.  Types alone are not inductive: a write stores *)
(* what its call captured, so the steps of a call must be known to carry a *)
(* document and a key, and the head of the chain must be the one writer.   *)
(***************************************************************************)
CarriesDoc(r) == r.pc \in {"sealNew", "kdf", "putVault", "putWallets", "putActive"}
                    \/ (r.pc = "queued" /\ r.op = "create")
CarriesKey(r) == CarriesDoc(r) /\ r.pc # "sealNew"
DocOK(d) == d.active < Len(d.accts)

\* What a call carries at each of its steps.
CallShape ==
    \A c \in Calls :
       /\ CarriesDoc(call[c]) => call[c].doc # None
       /\ call[c].doc # None => DocOK(call[c].doc)
       /\ CarriesKey(call[c]) => call[c].key # None
       /\ call[c].pc = "reauth" => call[c].list # None
       /\ call[c].pc \in {"kdf", "purge"} => call[c].op # "create"

\* The unlocked wallet has a key and an account, and its active slot is one.
MemoryShape == Unlocked => vaultKey # None /\ lists[cur] # <<>> /\ active < Len(lists[cur])
VaultShape == vault # None => DocOK(vault.doc)

\* Writes run one at a time, in the order they were queued.
ChainOK ==
    /\ \A c \in Calls : call[c].pc \in Writing => chain # <<>> /\ Head(chain) = c
    /\ \A i \in 1..Len(chain) : call[chain[i]].pc \in Writing \cup {"queued"}
    /\ \A i, j \in 1..Len(chain) : chain[i] = chain[j] => i = j

IInv == TypeOK /\ CallShape /\ MemoryShape /\ VaultShape /\ ChainOK

-----------------------------------------------------------------------------
(***************************************************************************)
(* The types are proved in three parts: the calls and the chain, the       *)
(* worker's memory, and storage.                                           *)
(***************************************************************************)
CallT == call \in [Calls -> Call] /\ chain \in Seq(Calls)

MemT ==
    /\ cur \in Lists \cup {None} /\ lists \in [Lists -> Seq(Entry)] /\ active \in Nat
    /\ vaultKey \in Keys \cup {None} /\ mnemonic \in Seeds \cup {None}
    /\ nextIndex \in 0..(MaxIndex + 1)

StoreT ==
    /\ vault \in [key: Keys, doc: Doc] \cup {None} /\ wallets \in Seq(PubAcct)
    /\ stActive \in Nat /\ recs \subseteq Addresses
    /\ sessKey \in Keys \cup {None} /\ sessTs \in {"none", "fresh", "stale"}
    /\ lastActive \in {"fresh", "stale"} /\ acked \subseteq Addresses
    /\ wiped \in BOOLEAN /\ torn \in BOOLEAN /\ erased \in BOOLEAN

LEMMA TypeParts == TypeOK <=> CallT /\ MemT /\ StoreT
BY DEF TypeOK, CallT, MemT, StoreT

LEMMA IdleIsCall == IdleCall \in Call
BY EmptySeq DEF IdleCall, Call, Pcs

LEMMA InitIInv == Init => IInv
<1> SUFFICES ASSUME Init PROVE IInv
  OBVIOUS
<1> USE DEF Init
<1>1. TypeOK
  <2>1. CallT
    BY IdleIsCall, EmptySeq DEF CallT
  <2>2. MemT
    BY VaultAssumption, EmptySeq DEF MemT, VaultAssumption
  <2>3. StoreT
    BY EmptySeq DEF StoreT
  <2> QED
    BY <2>1, <2>2, <2>3, TypeParts
<1>2. CallShape /\ MemoryShape /\ VaultShape /\ ChainOK
  BY VaultAssumption DEF CallShape, MemoryShape, VaultShape, ChainOK, IdleCall, CarriesDoc, CarriesKey, Unlocked, Writing
<1> QED
  BY <1>1, <1>2 DEF IInv

LEMMA BeginType ==
    ASSUME CallT, NEW c \in Calls, NEW r \in Call, Begin(c, r)
    PROVE  call' \in [Calls -> Call]
BY DEF CallT, Begin

LEMMA FinishType ==
    ASSUME CallT, NEW c \in Calls, Finish(c)
    PROVE  call' \in [Calls -> Call]
BY IdleIsCall DEF CallT, Finish

LEMMA ToType ==
    ASSUME CallT, NEW c \in Calls, NEW pc \in Pcs, To(c, pc)
    PROVE  call' \in [Calls -> Call]
<1>1. [call[c] EXCEPT !.pc = pc] \in Call
  BY DEF CallT, Call
<1> QED
  BY <1>1 DEF CallT, To

\* The fields a call's later steps fill in.
LEMMA UpdateType ==
    ASSUME NEW r \in Call, NEW pc \in Pcs
    PROVE  /\ \A k \in Keys \cup {None} : [r EXCEPT !.key = k, !.pc = pc] \in Call
           /\ \A p \in Seq(PubAcct) : [r EXCEPT !.pub = p, !.pc = pc] \in Call
           /\ \A d \in Doc \cup {None}, k \in Keys \cup {None} :
                 [r EXCEPT !.doc = d, !.key = k, !.pc = pc] \in Call
BY DEF Call

LEMMA EnqueueType ==
    ASSUME CallT, NEW c \in Calls, Enqueue(c)
    PROVE  chain' \in Seq(Calls)
BY DEF CallT, Enqueue

LEMMA LeaveType ==
    ASSUME CallT, chain # <<>>, Leave
    PROVE  chain' \in Seq(Calls)
BY HeadTailProperties DEF CallT, Leave

\* A call whose write runs is the head of the chain.
LEMMA WriterIsHead ==
    ASSUME ChainOK, NEW c \in Calls, call[c].pc \in Writing
    PROVE  chain # <<>> /\ Head(chain) = c
BY DEF ChainOK

LEMMA BuildDocType ==
    ASSUME MemT, MemoryShape, Unlocked
    PROVE  BuildDoc \in Doc /\ DocOK(BuildDoc)
BY DEF MemT, MemoryShape, Unlocked, BuildDoc, Doc, DocOK, Accts

\* The one account of a new wallet, and the document that holds it.
LEMMA NewEntryType ==
    ASSUME VaultAssumption
    PROVE  /\ \A s \in Seeds, i \in 0..MaxIndex, l \in Labels : HdEntry(s, i, l) \in Entry
           /\ \A a \in Addresses, l \in Labels : RawEntry(a, l) \in Entry
<1>1. \A s \in Seeds, i \in 0..MaxIndex : <<s, i>> \in Addresses
  BY DEF Addresses
<1> QED
  BY <1>1 DEF HdEntry, RawEntry, Entry

LEMMA NewDocType ==
    ASSUME VaultAssumption, NEW d \in NewDocs
    PROVE  d \in Doc /\ d.accts[1].addr \in Addresses /\ DocOK(d)
<1>1. 0 \in 0..MaxIndex /\ 0 \in 0..(MaxIndex + 1) /\ 1 \in 0..(MaxIndex + 1)
  BY DEF VaultAssumption
<1>2. ASSUME NEW e \in Entry
      PROVE  <<e>> \in Seq(Entry) \ {<<>>} /\ Len(<<e>>) = 1 /\ <<e>>[1] = e
  OBVIOUS
<1>3. ASSUME NEW s \in Seeds, NEW l \in Labels,
             d = [mnemonic |-> s, nextIndex |-> 1, accts |-> <<HdEntry(s, 0, l)>>, active |-> 0]
      PROVE  d \in Doc /\ d.accts[1].addr \in Addresses /\ DocOK(d)
  BY <1>1, <1>2, <1>3, NewEntryType, EntryFields DEF Doc, DocOK
<1>4. ASSUME NEW a \in Importable, NEW l \in Labels,
             d = [mnemonic |-> None, nextIndex |-> 0, accts |-> <<RawEntry(a, l)>>, active |-> 0]
      PROVE  d \in Doc /\ d.accts[1].addr \in Addresses /\ DocOK(d)
  BY <1>1, <1>2, <1>4, NewEntryType, EntryFields DEF Doc, DocOK, VaultAssumption
<1> QED
  BY <1>3, <1>4 DEF NewDocs

LEMMA AddEntryType ==
    ASSUME CallT, NEW c \in Calls, NEW e \in Entry, AddEntry(c, e)
    PROVE  call' \in [Calls -> Call]
<1>1. [IdleCall EXCEPT !.op = "account", !.pc = "queued", !.addr = e.addr] \in Call
  BY IdleIsCall, EntryFields DEF Call, Pcs
<1> QED
  BY <1>1, BeginType DEF AddEntry

LEMMA CallStep ==
    ASSUME IInv, Next PROVE CallT'
<1> USE VaultAssumption, TypeParts, BeginType, FinishType, ToType DEF IInv
<1>0. CallT /\ MemT /\ StoreT /\ "idle" \in Pcs /\ "sealNew" \in Pcs
  BY DEF Pcs
<1>1. ASSUME NEW c \in Calls, DropSessionKey(c) PROVE CallT'
  BY <1>1, <1>0 DEF DropSessionKey, Pcs, CallT
<1>2. ASSUME NEW c \in Calls, PutVault(c) PROVE CallT'
  BY <1>2, <1>0 DEF PutVault, Pcs, CallT
<1>3. ASSUME NEW c \in Calls, PutWallets(c) PROVE CallT'
  BY <1>3, <1>0 DEF PutWallets, Pcs, CallT
<1>4. ASSUME NEW c \in Calls, ExportSession(c) PROVE CallT'
  BY <1>4, <1>0 DEF ExportSession, Pcs, CallT
<1>5. ASSUME NEW c \in Calls, WipeRecords(c) PROVE CallT'
  BY <1>5, <1>0 DEF WipeRecords, Pcs, CallT
<1>6. ASSUME NEW c \in Calls, WipeVault(c) PROVE CallT'
  BY <1>6, <1>0 DEF WipeVault, Pcs, CallT
<1>7. ASSUME NEW c \in Calls, WipeWallets(c) PROVE CallT'
  BY <1>7, <1>0 DEF WipeWallets, Pcs, CallT
<1>8. ASSUME NEW c \in Calls, StampSession(c) PROVE CallT'
  BY <1>8, <1>0 DEF StampSession, CallT
<1>9. ASSUME NEW c \in Calls, RevealKey(c) PROVE CallT'
  BY <1>9, <1>0 DEF RevealKey, CallT
<1>10. ASSUME NEW c \in Calls, Refused(c) PROVE CallT'
  BY <1>10, <1>0 DEF Refused, CallT
<1>11. ASSUME NEW c \in Calls, WipeActive(c) PROVE CallT'
  BY <1>11, <1>0, WriterIsHead, LeaveType DEF WipeActive, CallT, Writing
<1>12. ASSUME NEW c \in Calls, StoreFails(c) PROVE CallT'
  BY <1>12, <1>0, WriterIsHead, LeaveType DEF StoreFails, CallT, Writing
<1>13. ASSUME NEW c \in Calls, SealNew(c) PROVE CallT'
  <2>1. PICK k \in FreeKeys : Begin(c, [call[c] EXCEPT !.key = k, !.pc = "queued"])
    BY <1>13 DEF SealNew
  <2>2. [call[c] EXCEPT !.key = k, !.pc = "queued"] \in Call
    BY <1>0, UpdateType DEF CallT, Pcs, FreeKeys
  <2>3. Enqueue(c)
    BY <1>13 DEF SealNew
  <2> QED
    BY <1>0, <2>1, <2>2, <2>3, EnqueueType DEF CallT
<1>14. ASSUME NEW c \in Calls, UnlockOpens(c) PROVE CallT'
  <2>1. [call[c] EXCEPT !.doc = None, !.key = None, !.pc = "queued"] \in Call
    BY <1>0, UpdateType DEF CallT, Pcs
  <2>2. Begin(c, [call[c] EXCEPT !.doc = None, !.key = None, !.pc = "queued"]) /\ Enqueue(c)
    BY <1>14 DEF UnlockOpens
  <2> QED
    BY <1>0, <2>1, <2>2, BeginType, EnqueueType DEF CallT
<1>15. ASSUME NEW c \in Calls, PurgeRecords(c) PROVE CallT'
  BY <1>15, <1>0, EnqueueType DEF PurgeRecords, CallT, Pcs
<1>16. ASSUME NEW c \in Calls, DropSessionStamp(c) PROVE CallT'
  BY <1>16, <1>0, EnqueueType DEF DropSessionStamp, CallT, Pcs
<1>17. ASSUME NEW c \in Calls, Lock(c) PROVE CallT'
  <2>1. [IdleCall EXCEPT !.op = "lock", !.pc = "delKey"] \in Call
    BY IdleIsCall DEF Call, Pcs
  <2> QED
    BY <1>17, <1>0, <2>1 DEF Lock, CallT
<1>18. ASSUME NEW c \in Calls, Reset(c) PROVE CallT'
  <2>1. [IdleCall EXCEPT !.op = "reset", !.pc = "readWallets"] \in Call
    BY IdleIsCall DEF Call, Pcs
  <2> QED
    BY <1>18, <1>0, <2>1 DEF Reset, CallT
<1>19. ASSUME NEW c \in Calls, ResetLocks(c) PROVE CallT'
  <2>1. [call[c] EXCEPT !.pub = wallets, !.pc = "delKey"] \in Call
    BY <1>0, UpdateType DEF CallT, StoreT, Pcs
  <2>2. Begin(c, [call[c] EXCEPT !.pub = wallets, !.pc = "delKey"]) /\ chain' = chain
    BY <1>19 DEF ResetLocks
  <2> QED
    BY <1>0, <2>1, <2>2, BeginType DEF CallT
<1>20. ASSUME NEW c \in Calls, Create(c) PROVE CallT'
  <2>1. PICK d \in NewDocs :
           Begin(c, [IdleCall EXCEPT !.op = "create", !.pc = "sealNew", !.doc = d,
                                     !.addr = d.accts[1].addr])
    BY <1>20 DEF Create
  <2>2. d \in Doc /\ d.accts[1].addr \in Addresses
    BY NewDocType
  <2>3. [IdleCall EXCEPT !.op = "create", !.pc = "sealNew", !.doc = d,
                         !.addr = d.accts[1].addr] \in Call
    BY <2>2, IdleIsCall DEF Call, Pcs
  <2> QED
    BY <1>20, <1>0, <2>1, <2>3 DEF Create, CallT
<1>21. ASSUME NEW c \in Calls, Unlock(c) PROVE CallT'
  <2>1. vault.doc \in Doc /\ vault.key \in Keys
    BY <1>21, <1>0 DEF Unlock, StoreT
  <2>2. [IdleCall EXCEPT !.op = "unlock", !.pc = "kdf",
                         !.doc = vault.doc, !.key = vault.key] \in Call
    BY <2>1, IdleIsCall DEF Call, Pcs
  <2> QED
    BY <1>21, <1>0, <2>2 DEF Unlock, CallT
<1>22. ASSUME NEW c \in Calls, ExportKey(c) PROVE CallT'
  <2>1. vault.doc \in Doc
    BY <1>22, <1>0 DEF ExportKey, StoreT
  <2>2. ShownAddr \in Addresses
    <3>1. CASE Unlocked
      <4>1. active + 1 \in 1..Len(Accts) /\ Accts \in Seq(Entry)
        BY <1>22, <1>0, <3>1 DEF ExportKey, MemT, Unlocked, Accts
      <4> QED
        BY <3>1, <4>1, EntryFields DEF ShownAddr
    <3>2. CASE ~Unlocked
      <4>1. stActive + 1 \in 1..Len(wallets) /\ wallets \in Seq(PubAcct)
        BY <1>22, <1>0, <3>2 DEF ExportKey, StoreT
      <4>2. wallets[stActive + 1] \in PubAcct
        BY <4>1
      <4>3. wallets[stActive + 1].addr \in Addresses
        BY <4>2 DEF PubAcct
      <4> QED
        BY <3>2, <4>3 DEF ShownAddr
    <3> QED
      BY <3>1, <3>2
  <2>3. [IdleCall EXCEPT !.op = "exportKey", !.pc = "reveal",
                         !.doc = vault.doc, !.addr = ShownAddr] \in Call
    BY <2>1, <2>2, IdleIsCall DEF Call, Pcs
  <2> QED
    BY <1>22, <1>0, <2>3 DEF ExportKey, CallT
<1>23. ASSUME NEW c \in Calls, AddAccount(c) PROVE CallT'
  <2>1. \A e \in Entry : AddEntry(c, e) => call' \in [Calls -> Call]
    BY <1>0, AddEntryType
  <2>2. \E e \in Entry : AddEntry(c, e)
    BY <1>23, <1>0, NewEntryType DEF AddAccount, FreshRaw, MemT, Addresses, VaultAssumption
  <2>3. Enqueue(c)
    BY <1>23 DEF AddAccount, Account
  <2> QED
    BY <1>0, <2>1, <2>2, <2>3, EnqueueType DEF CallT
<1>24. ASSUME NEW c \in Calls, ImportAccount(c) PROVE CallT'
  <2>1. \A e \in Entry : AddEntry(c, e) => call' \in [Calls -> Call]
    BY <1>0, AddEntryType
  <2>2. \E e \in Entry : AddEntry(c, e)
    BY <1>24, <1>0, NewEntryType DEF ImportAccount, FreshRaw, MemT, Addresses, VaultAssumption
  <2>3. Enqueue(c)
    BY <1>24 DEF ImportAccount, Account
  <2> QED
    BY <1>0, <2>1, <2>2, <2>3, EnqueueType DEF CallT
<1>25. ASSUME NEW c \in Calls, SwitchAccount(c) PROVE CallT'
  <2>1. [IdleCall EXCEPT !.op = "account", !.pc = "queued"] \in Call
    BY IdleIsCall DEF Call, Pcs
  <2> QED
    BY <1>25, <1>0, <2>1, EnqueueType DEF SwitchAccount, Account, CallT
<1>26. ASSUME NEW c \in Calls, RenameAccount(c) PROVE CallT'
  <2>1. [IdleCall EXCEPT !.op = "account", !.pc = "queued"] \in Call
    BY IdleIsCall DEF Call, Pcs
  <2> QED
    BY <1>26, <1>0, <2>1, EnqueueType DEF RenameAccount, Account, CallT
<1>27. ASSUME NEW c \in Calls, RemoveAccount(c) PROVE CallT'
  <2>1. PICK a \in AddrsOf(Accts) :
           IF Accts[SlotOf(Accts, a)].imported
           THEN Begin(c, [IdleCall EXCEPT !.op = "remove", !.pc = "reauth",
                                          !.list = cur, !.addr = a])
           ELSE Splice(c, cur, a)
    BY <1>27 DEF RemoveAccount
  <2>2. a \in Addresses
    BY <1>27, <1>0, EntryFields DEF RemoveAccount, AddrsOf, MemT, Unlocked, Accts
  <2>3. /\ [IdleCall EXCEPT !.op = "remove", !.pc = "reauth", !.list = cur, !.addr = a] \in Call
        /\ [IdleCall EXCEPT !.op = "remove", !.pc = "purge", !.addr = a] \in Call
    BY <1>0, <2>2, IdleIsCall DEF Call, Pcs, MemT
  <2> QED
    BY <1>27, <1>0, <2>1, <2>3 DEF RemoveAccount, Splice, CallT
<1>28. ASSUME NEW c \in Calls, RemoveReauthed(c) PROVE CallT'
  <2>1. call[c].list \in Lists
    BY <1>28, <1>0 DEF RemoveReauthed, CallShape, CallT, Call
  <2>2. call[c].addr \in Addresses
    BY <1>28, <1>0, <2>1, EntryFields DEF RemoveReauthed, AddrsOf, MemT
  <2>3. [IdleCall EXCEPT !.op = "remove", !.pc = "purge", !.addr = call[c].addr] \in Call
    BY <2>2, IdleIsCall DEF Call, Pcs
  <2> QED
    BY <1>28, <1>0, <2>3 DEF RemoveReauthed, Splice, CallT
<1>29. ASSUME NEW c \in Calls, RunChain(c) PROVE CallT'
  <2>1. CASE call[c].op \notin {"create", "reset"} /\ Unlocked
    <3>1. [call[c] EXCEPT !.doc = BuildDoc, !.key = vaultKey, !.pc = "putVault"] \in Call
      BY <1>0, <2>1, BuildDocType, UpdateType DEF CallT, MemT, Pcs
    <3> QED
      BY <1>29, <1>0, <2>1, <3>1 DEF RunChain, CallT
  <2>2. CASE ~(call[c].op \notin {"create", "reset"} /\ Unlocked)
    BY <1>29, <1>0, <2>2, LeaveType DEF RunChain, Heads, CallT, Pcs
  <2> QED
    BY <2>1, <2>2
<1>30. ASSUME NEW c \in Calls, PutActive(c) PROVE CallT'
  <2>1. chain' \in Seq(Calls)
    BY <1>30, <1>0, WriterIsHead, LeaveType DEF PutActive, Writing
  <2>2. vaultKey' \in Keys \cup {None}
    BY <1>30, <1>0 DEF PutActive, Adopt, CallT, Call, MemT, mem
  <2>3. [IdleCall EXCEPT !.op = call[c].op, !.pc = "export", !.key = vaultKey',
                         !.addr = call[c].addr] \in Call
    BY <1>0, <2>2, IdleIsCall DEF CallT, Call, Pcs
  <2>4. \/ Finish(c)
        \/ Begin(c, [IdleCall EXCEPT !.op = call[c].op, !.pc = "export", !.key = vaultKey',
                                     !.addr = call[c].addr])
    BY <1>30 DEF PutActive
  <2> QED
    BY <1>0, <2>1, <2>3, <2>4 DEF CallT
<1>31. ASSUME RecordActivity \/ TimePasses PROVE CallT'
  BY <1>31, <1>0 DEF RecordActivity, TimePasses, CallT
<1>32. ASSUME NEW b \in BOOLEAN, Restart(b) PROVE CallT'
  BY <1>32, IdleIsCall, EmptySeq DEF Restart, CallT
<1> QED
  BY <1>1, <1>2, <1>3, <1>4, <1>5, <1>6, <1>7, <1>8, <1>9, <1>10, <1>11, <1>12, <1>13, <1>14, <1>15, <1>16, <1>17, <1>18, <1>19, <1>20, <1>21, <1>22, <1>23, <1>24, <1>25, <1>26, <1>27, <1>28, <1>29, <1>30, <1>31, <1>32 DEF Next, Start, Continue

-----------------------------------------------------------------------------
\* What the steps do to the memory: most leave it, lock empties it, unlock and
\* a restart install a document.
MemRest == UNCHANGED <<cur, lists, active, vaultKey, mnemonic, nextIndex>>

LEMMA PointToType ==
    ASSUME NEW l \in Lists \cup {None}, NEW s \in Seq(Entry), MemT, PointTo(l, s)
    PROVE  /\ cur' = l /\ lists' \in [Lists -> Seq(Entry)]
           /\ l \in Lists => lists'[l] = s
BY EmptySeq DEF MemT, PointTo

LEMMA ClampType ==
    ASSUME NEW d \in Doc
    PROVE  Clamp(d.active, Len(d.accts)) \in 0..(Len(d.accts) - 1)
<1>1. d.active \in Nat /\ d.accts \in Seq(Entry) /\ d.accts # <<>>
  BY DEF Doc
<1>2. Len(d.accts) \in Nat \ {0}
  BY <1>1, EmptySeq
<1> QED
  BY <1>1, <1>2 DEF Clamp

LEMMA ForgetKeysMem ==
    ASSUME VaultAssumption, MemT, ForgetKeys
    PROVE  MemT' /\ ~Unlocked'
<1>1. cur' = None /\ lists' \in [Lists -> Seq(Entry)]
  BY EmptySeq, PointToType DEF ForgetKeys
<1> QED
  BY <1>1 DEF ForgetKeys, MemT, VaultAssumption, Unlocked

LEMMA ApplyDocMem ==
    ASSUME VaultAssumption, MemT, NEW d \in Doc, NEW k \in Keys, NEW l \in Lists,
           ApplyDoc(d, k, l)
    PROVE  MemT' /\ MemoryShape'
<1>1. d.accts \in Seq(Entry) /\ d.accts # <<>> /\ d.mnemonic \in Seeds \cup {None}
  BY DEF Doc
<1>2. cur' = l /\ lists' \in [Lists -> Seq(Entry)] /\ lists'[l] = d.accts
  BY <1>1, PointToType DEF ApplyDoc
<1>3. active' \in 0..(Len(d.accts) - 1)
  BY ClampType DEF ApplyDoc
<1>4. nextIndex' \in 0..(MaxIndex + 1) /\ mnemonic' \in Seeds \cup {None} /\ vaultKey' = k
  BY <1>1, NextFreeType DEF ApplyDoc
<1>5. Len(d.accts) \in Nat /\ k # None
  BY <1>1 DEF VaultAssumption
<1> QED
  BY <1>1, <1>2, <1>3, <1>4, <1>5 DEF MemT, MemoryShape

LEMMA AddEntryMem ==
    ASSUME MemT, MemoryShape, Unlocked, NEW c \in Calls, NEW e \in Entry, AddEntry(c, e),
           UNCHANGED <<cur, vaultKey, mnemonic>>, nextIndex' \in 0..(MaxIndex + 1)
    PROVE  MemT' /\ MemoryShape'
<1>1. cur \in Lists /\ lists[cur] \in Seq(Entry)
  BY DEF MemT, Unlocked
<1>2. /\ Append(lists[cur], e) \in Seq(Entry) /\ Append(lists[cur], e) # <<>>
      /\ Len(lists[cur]) \in Nat /\ Len(Append(lists[cur], e)) = Len(lists[cur]) + 1
  BY <1>1
<1>3. lists' = [lists EXCEPT ![cur] = Append(lists[cur], e)] /\ active' = Len(lists[cur])
  BY DEF AddEntry, Accts
<1> QED
  BY <1>1, <1>2, <1>3 DEF MemT, MemoryShape, Unlocked

\* Removing an account keeps the active slot in range, whichever array it
\* leaves: the slot only ever moves down, and to a slot that is left.
LEMMA SpliceMem ==
    ASSUME MemT, MemoryShape, NEW c \in Calls, NEW l \in Lists, NEW a \in AddrsOf(lists[l]),
           ~OnlyOne(lists[l]), Splice(c, l, a), UNCHANGED <<cur, vaultKey, mnemonic, nextIndex>>
    PROVE  MemT' /\ MemoryShape'
<1> DEFINE s == lists[l]
           i == SlotOf(s, a)
           t == RemoveAt(s, i)
<1>1. s \in Seq(Entry)
  BY DEF MemT
<1>2. i \in 1..Len(s)
  BY <1>1, SlotOfIsSlot
<1>3. t \in Seq(Entry) /\ Len(t) = Len(s) - 1
  BY <1>1, <1>2, RemoveAtShrinks
<1>4. Len(s) \in Nat /\ Len(s) >= 2
  BY <1>1 DEF OnlyOne
<1>5. t # <<>>
  BY <1>3, <1>4
<1>6. lists' = [lists EXCEPT ![l] = t] /\ active' = ActiveAfter(i, Len(s) - 1)
  BY DEF Splice
<1>7. active \in Nat
  BY DEF MemT
<1> HIDE DEF s, i, t
<1>8. /\ active' \in Nat /\ active' < Len(t)
      /\ active' <= active
  BY <1>2, <1>3, <1>4, <1>6, <1>7 DEF ActiveAfter
<1>9. MemT'
  BY <1>3, <1>6, <1>8 DEF MemT
<1>10. CASE cur = l
  BY <1>3, <1>5, <1>6, <1>8, <1>9, <1>10 DEF MemT, MemoryShape, Unlocked
<1>11. CASE cur # l
  <2>1. Unlocked => lists'[cur] = lists[cur] /\ Len(lists[cur]) \in Nat
    BY <1>6, <1>11 DEF MemT, Unlocked
  <2> QED
    BY <1>7, <1>8, <1>9, <2>1 DEF MemoryShape, Unlocked
<1> QED
  BY <1>9, <1>10, <1>11

LEMMA MemUnchanged ==
    ASSUME MemT, MemoryShape, MemRest PROVE MemT' /\ MemoryShape'
BY DEF MemT, MemoryShape, MemRest, Unlocked

LEMMA RelabelType ==
    ASSUME NEW e \in Entry, NEW l \in Labels
    PROVE  [e EXCEPT !.label = l] \in Entry
<1>1. CASE e \in [addr: Addresses, label: Labels, index: 0..MaxIndex, imported: {FALSE}]
  BY <1>1 DEF Entry
<1>2. CASE e \in [addr: Addresses, label: Labels, index: {None}, imported: {TRUE}]
  BY <1>2 DEF Entry
<1> QED
  BY <1>1, <1>2 DEF Entry

LEMMA MemStep ==
    ASSUME IInv, Next PROVE MemT' /\ MemoryShape'
<1> USE VaultAssumption DEF IInv
<1>0. CallT /\ MemT /\ StoreT
  BY TypeParts
<1>1. ASSUME NEW c \in Calls, Create(c) PROVE MemT' /\ MemoryShape'
  BY <1>1, <1>0, MemUnchanged DEF Create, mem, MemRest
<1>2. ASSUME NEW c \in Calls, Unlock(c) PROVE MemT' /\ MemoryShape'
  BY <1>2, <1>0, MemUnchanged DEF Unlock, mem, MemRest
<1>3. ASSUME NEW c \in Calls, ExportKey(c) PROVE MemT' /\ MemoryShape'
  BY <1>3, <1>0, MemUnchanged DEF ExportKey, mem, MemRest
<1>4. ASSUME NEW c \in Calls, SealNew(c) PROVE MemT' /\ MemoryShape'
  BY <1>4, <1>0, MemUnchanged DEF SealNew, mem, MemRest
<1>5. ASSUME NEW c \in Calls, RevealKey(c) PROVE MemT' /\ MemoryShape'
  BY <1>5, <1>0, MemUnchanged DEF RevealKey, mem, MemRest
<1>6. ASSUME NEW c \in Calls, Refused(c) PROVE MemT' /\ MemoryShape'
  BY <1>6, <1>0, MemUnchanged DEF Refused, mem, MemRest
<1>7. ASSUME NEW c \in Calls, DropSessionKey(c) PROVE MemT' /\ MemoryShape'
  BY <1>7, <1>0, MemUnchanged DEF DropSessionKey, mem, MemRest
<1>8. ASSUME NEW c \in Calls, DropSessionStamp(c) PROVE MemT' /\ MemoryShape'
  BY <1>8, <1>0, MemUnchanged DEF DropSessionStamp, mem, MemRest
<1>9. ASSUME NEW c \in Calls, PurgeRecords(c) PROVE MemT' /\ MemoryShape'
  BY <1>9, <1>0, MemUnchanged DEF PurgeRecords, mem, MemRest
<1>10. ASSUME NEW c \in Calls, RunChain(c) PROVE MemT' /\ MemoryShape'
  BY <1>10, <1>0, MemUnchanged DEF RunChain, mem, MemRest
<1>11. ASSUME NEW c \in Calls, PutVault(c) PROVE MemT' /\ MemoryShape'
  BY <1>11, <1>0, MemUnchanged DEF PutVault, mem, MemRest
<1>12. ASSUME NEW c \in Calls, PutWallets(c) PROVE MemT' /\ MemoryShape'
  BY <1>12, <1>0, MemUnchanged DEF PutWallets, mem, MemRest
<1>13. ASSUME NEW c \in Calls, ExportSession(c) PROVE MemT' /\ MemoryShape'
  BY <1>13, <1>0, MemUnchanged DEF ExportSession, mem, MemRest
<1>14. ASSUME NEW c \in Calls, StampSession(c) PROVE MemT' /\ MemoryShape'
  BY <1>14, <1>0, MemUnchanged DEF StampSession, mem, MemRest
<1>15. ASSUME NEW c \in Calls, WipeRecords(c) PROVE MemT' /\ MemoryShape'
  BY <1>15, <1>0, MemUnchanged DEF WipeRecords, mem, MemRest
<1>16. ASSUME NEW c \in Calls, WipeVault(c) PROVE MemT' /\ MemoryShape'
  BY <1>16, <1>0, MemUnchanged DEF WipeVault, mem, MemRest
<1>17. ASSUME NEW c \in Calls, WipeWallets(c) PROVE MemT' /\ MemoryShape'
  BY <1>17, <1>0, MemUnchanged DEF WipeWallets, mem, MemRest
<1>18. ASSUME NEW c \in Calls, WipeActive(c) PROVE MemT' /\ MemoryShape'
  BY <1>18, <1>0, MemUnchanged DEF WipeActive, mem, MemRest
<1>19. ASSUME NEW c \in Calls, StoreFails(c) PROVE MemT' /\ MemoryShape'
  BY <1>19, <1>0, MemUnchanged DEF StoreFails, mem, MemRest
<1>20. ASSUME NEW c \in Calls, Reset(c) PROVE MemT' /\ MemoryShape'
  BY <1>20, <1>0, MemUnchanged DEF Reset, mem, MemRest
<1>21. ASSUME NEW c \in Calls, Lock(c) PROVE MemT' /\ MemoryShape'
  BY <1>21, <1>0, ForgetKeysMem DEF Lock, MemoryShape
<1>22. ASSUME NEW c \in Calls, ResetLocks(c) PROVE MemT' /\ MemoryShape'
  BY <1>22, <1>0, ForgetKeysMem DEF ResetLocks, MemoryShape
<1>23. ASSUME NEW c \in Calls, UnlockOpens(c) PROVE MemT' /\ MemoryShape'
  <2>1. call[c].doc \in Doc /\ call[c].key \in Keys
    BY <1>23, <1>0 DEF UnlockOpens, CallShape, CarriesDoc, CarriesKey, CallT, Call
  <2> QED
    BY <1>23, <1>0, <2>1, ApplyDocMem DEF UnlockOpens, FreeLists
<1>24. ASSUME NEW c \in Calls, AddAccount(c) PROVE MemT' /\ MemoryShape'
  <2>1. nextIndex' \in 0..(MaxIndex + 1)
    BY <1>24, <1>0 DEF AddAccount, Account, MemT, VaultAssumption
  <2>2. \E e \in Entry : AddEntry(c, e)
    BY <1>24, <1>0, NewEntryType DEF AddAccount, FreshRaw, MemT, Addresses, VaultAssumption
  <2> QED
    BY <1>24, <1>0, <2>1, <2>2, AddEntryMem DEF AddAccount, Account
<1>25. ASSUME NEW c \in Calls, ImportAccount(c) PROVE MemT' /\ MemoryShape'
  <2>1. nextIndex' \in 0..(MaxIndex + 1)
    BY <1>25, <1>0 DEF ImportAccount, Account, MemT, VaultAssumption
  <2>2. \E e \in Entry : AddEntry(c, e)
    BY <1>25, <1>0, NewEntryType DEF ImportAccount, FreshRaw, MemT, Addresses, VaultAssumption
  <2> QED
    BY <1>25, <1>0, <2>1, <2>2, AddEntryMem DEF ImportAccount, Account
<1>26. ASSUME NEW c \in Calls, SwitchAccount(c) PROVE MemT' /\ MemoryShape'
  <2>1. Unlocked /\ lists[cur] \in Seq(Entry)
    BY <1>26, <1>0 DEF SwitchAccount, Account, MemT, Unlocked
  <2>2. active' \in Nat /\ active' < Len(lists[cur])
    BY <1>26, <2>1 DEF SwitchAccount, Accts
  <2> QED
    BY <1>26, <1>0, <2>1, <2>2 DEF SwitchAccount, Account, MemT, MemoryShape, Unlocked
<1>27. ASSUME NEW c \in Calls, RenameAccount(c) PROVE MemT' /\ MemoryShape'
  <2>1. cur \in Lists /\ lists[cur] \in Seq(Entry)
    BY <1>27, <1>0 DEF RenameAccount, Account, MemT, Unlocked
  <2>2. PICK a \in AddrsOf(lists[cur]), l \in Labels :
           lists' = [lists EXCEPT ![cur][SlotOf(lists[cur], a)].label = l]
    BY <1>27 DEF RenameAccount, Accts
  <2> DEFINE i == SlotOf(lists[cur], a)
             t == [lists[cur] EXCEPT ![i].label = l]
  <2>3. i \in 1..Len(lists[cur])
    BY <2>1, SlotOfIsSlot
  <2>4. [lists[cur][i] EXCEPT !.label = l] \in Entry
    BY <2>1, <2>3, RelabelType
  <2>5. t \in Seq(Entry) /\ Len(t) = Len(lists[cur])
    BY <2>1, <2>3, <2>4, ExceptSeq
  <2>6. lists' = [lists EXCEPT ![cur] = t]
    BY <2>2
  <2> HIDE DEF i, t
  <2>7. UNCHANGED <<cur, active, vaultKey, mnemonic, nextIndex>> /\ Len(lists[cur]) \in Nat
    BY <1>27, <2>1 DEF RenameAccount, Account
  <2>8. lists[cur] # <<>> /\ active < Len(lists[cur]) /\ vaultKey # None
    BY <1>27 DEF RenameAccount, Account, MemoryShape
  <2>9. t # <<>>
    BY <2>1, <2>5, <2>7, <2>8, EmptySeq
  <2> QED
    BY <1>0, <2>1, <2>5, <2>6, <2>7, <2>8, <2>9 DEF MemT, MemoryShape
<1>28. ASSUME NEW c \in Calls, RemoveAccount(c) PROVE MemT' /\ MemoryShape'
  <2>1. cur \in Lists /\ ~OnlyOne(lists[cur])
    BY <1>28, <1>0 DEF RemoveAccount, MemT, Unlocked, Accts
  <2>2. PICK a \in AddrsOf(lists[cur]) : MemRest \/ Splice(c, cur, a)
    BY <1>28 DEF RemoveAccount, Accts, MemRest
  <2> QED
    BY <1>28, <1>0, <2>1, <2>2, SpliceMem, MemUnchanged DEF RemoveAccount, MemRest
<1>29. ASSUME NEW c \in Calls, RemoveReauthed(c) PROVE MemT' /\ MemoryShape'
  <2>1. call[c].list \in Lists
    BY <1>29, <1>0 DEF RemoveReauthed, CallShape, CallT, Call
  <2> QED
    BY <1>29, <1>0, <2>1, SpliceMem DEF RemoveReauthed
<1>30. ASSUME NEW c \in Calls, PutActive(c) PROVE MemT' /\ MemoryShape'
  <2>1. CASE call[c].op = "create"
    <3> DEFINE d == call[c].doc
    <3>1. d \in Doc /\ DocOK(d) /\ call[c].key \in Keys
      BY <1>30, <1>0 DEF PutActive, CallShape, CarriesDoc, CarriesKey, CallT, Call
    <3>2. /\ d.accts \in Seq(Entry) /\ d.accts # <<>> /\ d.mnemonic \in Seeds \cup {None}
          /\ d.nextIndex \in 0..(MaxIndex + 1) /\ d.active \in Nat /\ d.active < Len(d.accts)
      BY <3>1 DEF Doc, DocOK
    <3>3. PICK l \in FreeLists : PointTo(l, d.accts)
      BY <1>30, <2>1 DEF PutActive, Adopt
    <3>4. l \in Lists /\ cur' = l /\ lists' \in [Lists -> Seq(Entry)] /\ lists'[l] = d.accts
      BY <1>0, <3>2, <3>3, PointToType DEF FreeLists
    <3>5. /\ active' = d.active /\ nextIndex' = d.nextIndex /\ mnemonic' = d.mnemonic
          /\ vaultKey' = call[c].key
      BY <1>30, <2>1 DEF PutActive, Adopt
    <3>6. call[c].key # None
      BY <3>1 DEF VaultAssumption
    <3> QED
      BY <3>1, <3>2, <3>4, <3>5, <3>6 DEF MemT, MemoryShape
  <2>2. CASE call[c].op # "create"
    BY <1>30, <1>0, <2>2, MemUnchanged DEF PutActive, mem, MemRest
  <2> QED
    BY <2>1, <2>2
<1>31. ASSUME RecordActivity \/ TimePasses PROVE MemT' /\ MemoryShape'
  BY <1>31, <1>0, MemUnchanged DEF RecordActivity, TimePasses, mem, MemRest
<1>32. ASSUME NEW b \in BOOLEAN, Restart(b) PROVE MemT' /\ MemoryShape'
  <2>1. CASE cur' = None
    <3>1. /\ lists' = [m \in Lists |-> <<>>] /\ active' = 0 /\ nextIndex' = 0
          /\ mnemonic' = None /\ vaultKey' = None
      BY <1>32, <1>0, <2>1 DEF Restart, VaultAssumption
    <3>2. lists' \in [Lists -> Seq(Entry)]
      BY <3>1, EmptySeq
    <3> QED
      BY <2>1, <3>1, <3>2 DEF MemT, MemoryShape, Unlocked, VaultAssumption
  <2>2. CASE cur' # None
    <3>1. /\ vault # None /\ vault.key = sessKey /\ sessKey # None
          /\ cur' \in Lists
          /\ lists' = [m \in Lists |-> IF m = cur' THEN vault.doc.accts ELSE <<>>]
          /\ active' = Clamp(vault.doc.active, Len(vault.doc.accts))
          /\ nextIndex' = NextFree(vault.doc)
          /\ mnemonic' = vault.doc.mnemonic /\ vaultKey' = sessKey
      BY <1>32, <2>2 DEF Restart
    <3>2. vault.doc \in Doc
      BY <1>0, <3>1 DEF StoreT
    <3>3. /\ vault.doc.accts \in Seq(Entry) /\ vault.doc.accts # <<>>
          /\ vault.doc.mnemonic \in Seeds \cup {None} /\ Len(vault.doc.accts) \in Nat
      BY <3>2 DEF Doc
    <3>4. active' \in 0..(Len(vault.doc.accts) - 1)
      BY <3>1, <3>2, ClampType
    <3>5. nextIndex' \in 0..(MaxIndex + 1)
      BY <3>1, <3>2, NextFreeType
    <3>6. lists' \in [Lists -> Seq(Entry)] /\ lists'[cur'] = vault.doc.accts
      BY <3>1, <3>3, EmptySeq
    <3> QED
      BY <1>0, <3>1, <3>3, <3>4, <3>5, <3>6 DEF MemT, MemoryShape, StoreT
  <2> QED
    BY <2>1, <2>2
<1> QED
  BY <1>1, <1>2, <1>3, <1>4, <1>5, <1>6, <1>7, <1>8, <1>9, <1>10, <1>11, <1>12, <1>13, <1>14, <1>15, <1>16, <1>17, <1>18, <1>19, <1>20, <1>21, <1>22, <1>23, <1>24, <1>25, <1>26, <1>27, <1>28, <1>29, <1>30, <1>31, <1>32 DEF Next, Start, Continue

\* An account entry's address is an address of the instance.
LEMMA AddrsOfType ==
    ASSUME NEW s \in Seq(Entry)
    PROVE  AddrsOf(s) \subseteq Addresses
BY EntryFields DEF AddrsOf

LEMMA StoreStep ==
    ASSUME IInv, Next PROVE StoreT'
<1> USE VaultAssumption DEF IInv
<1>0. CallT /\ MemT /\ StoreT
  BY TypeParts
<1>1. ASSUME NEW c \in Calls, Create(c) PROVE StoreT'
  BY <1>1, <1>0 DEF Create, Touch, StoreT, disk, sess, mem, ghost
<1>2. ASSUME NEW c \in Calls, Unlock(c) PROVE StoreT'
  BY <1>2, <1>0 DEF Unlock, Touch, StoreT, disk, sess, mem, ghost
<1>3. ASSUME NEW c \in Calls, ExportKey(c) PROVE StoreT'
  BY <1>3, <1>0 DEF ExportKey, Touch, StoreT, disk, sess, mem, ghost
<1>4. ASSUME NEW c \in Calls, Reset(c) PROVE StoreT'
  BY <1>4, <1>0 DEF Reset, Touch, StoreT, disk, sess, mem, ghost
<1>5. ASSUME NEW c \in Calls, Lock(c) PROVE StoreT'
  BY <1>5, <1>0 DEF Lock, Touch, ForgetKeys, StoreT, disk, sess, mem, ghost
<1>6. ASSUME NEW c \in Calls, SealNew(c) PROVE StoreT'
  BY <1>6, <1>0 DEF SealNew, StoreT, disk, sess, mem, ghost
<1>7. ASSUME NEW c \in Calls, UnlockOpens(c) PROVE StoreT'
  BY <1>7, <1>0 DEF UnlockOpens, ApplyDoc, StoreT, disk, sess, mem, ghost
<1>8. ASSUME NEW c \in Calls, RevealKey(c) PROVE StoreT'
  BY <1>8, <1>0 DEF RevealKey, StoreT, disk, sess, mem, ghost
<1>9. ASSUME NEW c \in Calls, Refused(c) PROVE StoreT'
  BY <1>9, <1>0 DEF Refused, StoreT, disk, sess, mem, ghost
<1>10. ASSUME NEW c \in Calls, RunChain(c) PROVE StoreT'
  BY <1>10, <1>0 DEF RunChain, StoreT, disk, sess, mem, ghost
<1>11. ASSUME NEW c \in Calls, DropSessionKey(c) PROVE StoreT'
  BY <1>11, <1>0 DEF DropSessionKey, StoreT, disk, sess, mem, ghost
<1>12. ASSUME NEW c \in Calls, DropSessionStamp(c) PROVE StoreT'
  BY <1>12, <1>0 DEF DropSessionStamp, StoreT, disk, sess, mem, ghost
<1>13. ASSUME NEW c \in Calls, PutVault(c) PROVE StoreT'
  <2>1. call[c].doc \in Doc /\ call[c].key \in Keys
    BY <1>13, <1>0 DEF PutVault, CallShape, CarriesDoc, CarriesKey, CallT, Call
  <2> QED
    BY <1>13, <1>0, <2>1 DEF PutVault, StoreT, sess, mem
<1>14. ASSUME NEW c \in Calls, StampSession(c) PROVE StoreT'
  BY <1>14, <1>0 DEF StampSession, StoreT, disk, sess, mem, ghost
<1>15. ASSUME NEW c \in Calls, ResetLocks(c) PROVE StoreT'
  BY <1>15, <1>0 DEF ResetLocks, ForgetKeys, StoreT, disk, sess, mem, ghost
<1>16. ASSUME NEW c \in Calls, WipeRecords(c) PROVE StoreT'
  BY <1>16, <1>0 DEF WipeRecords, StoreT, disk, sess, mem, ghost
<1>17. ASSUME NEW c \in Calls, WipeVault(c) PROVE StoreT'
  BY <1>17, <1>0 DEF WipeVault, StoreT, disk, sess, mem, ghost
<1>18. ASSUME NEW c \in Calls, WipeWallets(c) PROVE StoreT'
  BY <1>18, <1>0, EmptySeq DEF WipeWallets, StoreT, disk, sess, mem, ghost
<1>19. ASSUME NEW c \in Calls, WipeActive(c) PROVE StoreT'
  BY <1>19, <1>0 DEF WipeActive, StoreT, disk, sess, mem, ghost
<1>20. ASSUME NEW c \in Calls, StoreFails(c) PROVE StoreT'
  BY <1>20, <1>0 DEF StoreFails, StoreT, disk, sess, mem, ghost
<1>21. ASSUME NEW c \in Calls, PurgeRecords(c) PROVE StoreT'
  BY <1>21, <1>0 DEF PurgeRecords, StoreT, disk, sess, mem, ghost
<1>22. ASSUME NEW c \in Calls, AddAccount(c) PROVE StoreT'
  BY <1>22, <1>0 DEF AddAccount, Account, Touch, StoreT, disk, ghost
<1>23. ASSUME NEW c \in Calls, ImportAccount(c) PROVE StoreT'
  BY <1>23, <1>0 DEF ImportAccount, Account, Touch, StoreT, disk, ghost
<1>24. ASSUME NEW c \in Calls, SwitchAccount(c) PROVE StoreT'
  BY <1>24, <1>0 DEF SwitchAccount, Account, Touch, StoreT, disk, ghost
<1>25. ASSUME NEW c \in Calls, RenameAccount(c) PROVE StoreT'
  BY <1>25, <1>0 DEF RenameAccount, Account, Touch, StoreT, disk, ghost
<1>26. ASSUME NEW c \in Calls, RemoveAccount(c) PROVE StoreT'
  <2>1. acked' \subseteq acked
    BY <1>26 DEF RemoveAccount, Splice
  <2> QED
    BY <1>26, <1>0, <2>1 DEF RemoveAccount, Touch, StoreT, disk
<1>27. ASSUME NEW c \in Calls, RemoveReauthed(c) PROVE StoreT'
  BY <1>27, <1>0 DEF RemoveReauthed, Splice, StoreT, disk, sess
<1>28. ASSUME NEW c \in Calls, PutWallets(c) PROVE StoreT'
  <2>1. call[c].doc \in Doc
    BY <1>28, <1>0 DEF PutWallets, CallShape, CarriesDoc, CallT, Call
  <2>2. Mirror(call[c].doc.accts) \in Seq(PubAcct)
    BY <2>1, MirrorType DEF Doc
  <2> QED
    BY <1>28, <1>0, <2>2 DEF PutWallets, StoreT, sess, mem, ghost
<1>29. ASSUME NEW c \in Calls, ExportSession(c) PROVE StoreT'
  <2>1. call[c].key \in Keys \cup {None}
    BY <1>0 DEF CallT, Call
  <2> QED
    BY <1>29, <1>0, <2>1 DEF ExportSession, StoreT, disk, mem, ghost
<1>30. ASSUME NEW c \in Calls, PutActive(c) PROVE StoreT'
  <2>1. call[c].doc \in Doc
    BY <1>30, <1>0 DEF PutActive, CallShape, CarriesDoc, CallT, Call
  <2>2. stActive' \in Nat /\ AddrsOf(call[c].doc.accts) \subseteq Addresses
    BY <1>30, <2>1, AddrsOfType DEF PutActive, Doc
  <2>3. acked' \subseteq Addresses /\ UNCHANGED <<vault, wallets, recs, sessKey, erased>> /\ torn' = FALSE
    BY <1>30, <1>0, <2>2 DEF PutActive, StoreT
  <2>4. wiped' \in BOOLEAN
    BY <1>30, <1>0 DEF PutActive, StoreT, Adopt, mem
  <2>5. lastActive' \in {"fresh", "stale"} /\ sessTs' \in {"none", "fresh", "stale"}
    BY <1>30, <1>0 DEF PutActive, StoreT, Touch
  <2> QED
    BY <1>0, <2>2, <2>3, <2>4, <2>5 DEF StoreT
<1>31. ASSUME RecordActivity PROVE StoreT'
  <2>1. cur \in Lists /\ lists[cur] \in Seq(Entry) /\ active + 1 \in 1..Len(lists[cur])
    BY <1>31, <1>0 DEF RecordActivity, MemT, Unlocked, Accts
  <2>2. lists[cur][active + 1].addr \in Addresses
    BY <2>1, EntryFields
  <2> QED
    BY <1>31, <1>0, <2>2 DEF RecordActivity, StoreT, sess, mem, ghost, Accts
<1>32. ASSUME TimePasses PROVE StoreT'
  BY <1>32, <1>0 DEF TimePasses, StoreT, disk, mem, ghost
<1>33. ASSUME NEW b \in BOOLEAN, Restart(b) PROVE StoreT'
  <2>1. sessKey' \in Keys \cup {None} /\ sessTs' \in {"none", "fresh", "stale"}
    BY <1>33, <1>0 DEF Restart, StoreT
  <2>2. UNCHANGED <<disk, acked, erased>> /\ wiped' = FALSE /\ lastActive' = "fresh"
    BY <1>33 DEF Restart
  <2>3. torn' \in BOOLEAN
    BY <1>33, <1>0 DEF Restart, StoreT
  <2> QED
    BY <1>0, <2>1, <2>2, <2>3 DEF StoreT, disk
<1> QED
  BY <1>1, <1>2, <1>3, <1>4, <1>5, <1>6, <1>7, <1>8, <1>9, <1>10, <1>11, <1>12, <1>13, <1>14, <1>15, <1>16, <1>17, <1>18, <1>19, <1>20, <1>21, <1>22, <1>23, <1>24, <1>25, <1>26, <1>27, <1>28, <1>29, <1>30, <1>31, <1>32, <1>33 DEF Next, Start, Continue

-----------------------------------------------------------------------------
\* CallShape says the same thing of every call.
WellFormed(r) ==
    /\ CarriesDoc(r) => r.doc # None
    /\ r.doc # None => DocOK(r.doc)
    /\ CarriesKey(r) => r.key # None
    /\ r.pc = "reauth" => r.list # None
    /\ r.pc \in {"kdf", "purge"} => r.op # "create"

LEMMA ShapeBegin ==
    ASSUME CallT, CallShape, NEW c \in Calls, NEW r, WellFormed(r), Begin(c, r)
    PROVE  CallShape'
<1>1. \A d \in Calls : WellFormed(call[d])
  BY DEF CallShape, WellFormed
<1>2. \A d \in Calls : call'[d] = IF d = c THEN r ELSE call[d]
  BY DEF CallT, Begin
<1>3. \A d \in Calls : WellFormed(call'[d])
  BY <1>1, <1>2
<1> QED
  BY <1>3 DEF CallShape, WellFormed

LEMMA ShapeFinish ==
    ASSUME CallT, CallShape, NEW c \in Calls, Finish(c)
    PROVE  CallShape'
<1>1. WellFormed(IdleCall)
  BY DEF WellFormed, IdleCall, CarriesDoc, CarriesKey
<1> QED
  BY <1>1, ShapeBegin DEF Finish, Begin

\* Only the step changes: what the call carries stays.
LEMMA ShapeTo ==
    ASSUME CallT, CallShape, NEW c \in Calls, NEW pc, To(c, pc),
           \/ pc \in Pcs \ {"sealNew", "kdf", "putVault", "putWallets", "putActive",
                            "queued", "reauth", "purge"}
           \/ pc = "queued" /\ call[c].op # "create"
           \/ CarriesKey(call[c]) /\ pc \in {"putVault", "putWallets", "putActive"}
    PROVE  CallShape'
<1> DEFINE r == [call[c] EXCEPT !.pc = pc]
<1>1. /\ r.pc = pc /\ r.op = call[c].op /\ r.doc = call[c].doc
      /\ r.key = call[c].key /\ r.list = call[c].list
  BY DEF CallT, Call
<1>2. WellFormed(call[c]) /\ Begin(c, r)
  BY DEF CallShape, WellFormed, To, Begin
<1> HIDE DEF r
<1>3. WellFormed(r)
  BY <1>1, <1>2 DEF WellFormed, CarriesDoc, CarriesKey
<1> QED
  BY <1>2, <1>3, ShapeBegin

LEMMA ShapeStep ==
    ASSUME IInv, Next PROVE CallShape'
<1> USE VaultAssumption, ShapeBegin, ShapeFinish, ShapeTo DEF IInv
<1>0. CallT /\ MemT /\ StoreT
  BY TypeParts
<1>1. ASSUME NEW c \in Calls, RevealKey(c) PROVE CallShape'
  BY <1>1, <1>0 DEF RevealKey
<1>2. ASSUME NEW c \in Calls, Refused(c) PROVE CallShape'
  BY <1>2, <1>0 DEF Refused
<1>3. ASSUME NEW c \in Calls, StampSession(c) PROVE CallShape'
  BY <1>3, <1>0 DEF StampSession
<1>4. ASSUME NEW c \in Calls, WipeActive(c) PROVE CallShape'
  BY <1>4, <1>0 DEF WipeActive
<1>5. ASSUME NEW c \in Calls, StoreFails(c) PROVE CallShape'
  BY <1>5, <1>0 DEF StoreFails
<1>6. ASSUME NEW c \in Calls, DropSessionKey(c) PROVE CallShape'
  BY <1>6, <1>0 DEF DropSessionKey, Pcs
<1>7. ASSUME NEW c \in Calls, ExportSession(c) PROVE CallShape'
  BY <1>7, <1>0 DEF ExportSession, Pcs
<1>8. ASSUME NEW c \in Calls, WipeRecords(c) PROVE CallShape'
  BY <1>8, <1>0 DEF WipeRecords, Pcs
<1>9. ASSUME NEW c \in Calls, WipeVault(c) PROVE CallShape'
  BY <1>9, <1>0 DEF WipeVault, Pcs
<1>10. ASSUME NEW c \in Calls, WipeWallets(c) PROVE CallShape'
  BY <1>10, <1>0 DEF WipeWallets, Pcs
<1>11. ASSUME NEW c \in Calls, PutVault(c) PROVE CallShape'
  <2>1. CarriesKey(call[c])
    BY <1>11 DEF PutVault, CarriesKey, CarriesDoc
  <2> QED
    BY <1>11, <1>0, <2>1 DEF PutVault
<1>12. ASSUME NEW c \in Calls, PutWallets(c) PROVE CallShape'
  <2>1. CarriesKey(call[c])
    BY <1>12 DEF PutWallets, CarriesKey, CarriesDoc
  <2> QED
    BY <1>12, <1>0, <2>1 DEF PutWallets
<1>13. ASSUME NEW c \in Calls, PurgeRecords(c) PROVE CallShape'
  BY <1>13, <1>0 DEF PurgeRecords, CallShape
<1>14. ASSUME NEW c \in Calls, DropSessionStamp(c) PROVE CallShape'
  BY <1>14, <1>0 DEF DropSessionStamp
<1>15. ASSUME NEW c \in Calls, Lock(c) PROVE CallShape'
  <2>1. WellFormed([IdleCall EXCEPT !.op = "lock", !.pc = "delKey"])
    BY DEF WellFormed, IdleCall, CarriesDoc, CarriesKey
  <2> QED
    BY <1>15, <1>0, <2>1 DEF Lock
<1>16. ASSUME NEW c \in Calls, Reset(c) PROVE CallShape'
  <2>1. WellFormed([IdleCall EXCEPT !.op = "reset", !.pc = "readWallets"])
    BY DEF WellFormed, IdleCall, CarriesDoc, CarriesKey
  <2> QED
    BY <1>16, <1>0, <2>1 DEF Reset
<1>17. ASSUME NEW c \in Calls, SwitchAccount(c) PROVE CallShape'
  <2>1. WellFormed([IdleCall EXCEPT !.op = "account", !.pc = "queued"])
    BY DEF WellFormed, IdleCall, CarriesDoc, CarriesKey
  <2> QED
    BY <1>17, <1>0, <2>1 DEF SwitchAccount
<1>18. ASSUME NEW c \in Calls, RenameAccount(c) PROVE CallShape'
  <2>1. WellFormed([IdleCall EXCEPT !.op = "account", !.pc = "queued"])
    BY DEF WellFormed, IdleCall, CarriesDoc, CarriesKey
  <2> QED
    BY <1>18, <1>0, <2>1 DEF RenameAccount
<1>19. ASSUME NEW c \in Calls, AddAccount(c) PROVE CallShape'
  <2>1. PICK e : AddEntry(c, e)
    BY <1>19 DEF AddAccount
  <2>2. WellFormed([IdleCall EXCEPT !.op = "account", !.pc = "queued", !.addr = e.addr])
    BY DEF WellFormed, IdleCall, CarriesDoc, CarriesKey
  <2> QED
    BY <1>0, <2>1, <2>2 DEF AddEntry
<1>20. ASSUME NEW c \in Calls, ImportAccount(c) PROVE CallShape'
  <2>1. PICK e : AddEntry(c, e)
    BY <1>20 DEF ImportAccount
  <2>2. WellFormed([IdleCall EXCEPT !.op = "account", !.pc = "queued", !.addr = e.addr])
    BY DEF WellFormed, IdleCall, CarriesDoc, CarriesKey
  <2> QED
    BY <1>0, <2>1, <2>2 DEF AddEntry
<1>21. ASSUME NEW c \in Calls, ResetLocks(c) PROVE CallShape'
  <2> DEFINE r == [call[c] EXCEPT !.pub = wallets, !.pc = "delKey"]
  <2>1. r.pc = "delKey" /\ r.doc = call[c].doc
    BY <1>0 DEF CallT, Call
  <2>2. Begin(c, r) /\ (call[c].doc # None => DocOK(call[c].doc))
    BY <1>21 DEF ResetLocks, CallShape
  <2> HIDE DEF r
  <2>3. WellFormed(r)
    BY <2>1, <2>2 DEF WellFormed, CarriesDoc, CarriesKey
  <2> QED
    BY <1>0, <2>2, <2>3
<1>22. ASSUME NEW c \in Calls, SealNew(c) PROVE CallShape'
  <2>1. PICK k \in FreeKeys : Begin(c, [call[c] EXCEPT !.key = k, !.pc = "queued"])
    BY <1>22 DEF SealNew
  <2> DEFINE r == [call[c] EXCEPT !.key = k, !.pc = "queued"]
  <2>2. r.pc = "queued" /\ r.doc = call[c].doc /\ r.key = k /\ k # None
    BY <1>0 DEF CallT, Call, FreeKeys, VaultAssumption
  <2>3. call[c].doc # None /\ DocOK(call[c].doc)
    BY <1>22 DEF SealNew, CallShape, CarriesDoc
  <2> HIDE DEF r
  <2>4. WellFormed(r)
    BY <2>2, <2>3 DEF WellFormed, CarriesDoc, CarriesKey
  <2> QED
    BY <1>0, <2>1, <2>4 DEF r
<1>23. ASSUME NEW c \in Calls, UnlockOpens(c) PROVE CallShape'
  <2> DEFINE r == [call[c] EXCEPT !.doc = None, !.key = None, !.pc = "queued"]
  <2>1. r.pc = "queued" /\ r.doc = None /\ r.op = call[c].op
    BY <1>0 DEF CallT, Call
  <2>2. Begin(c, r) /\ call[c].op # "create"
    BY <1>23 DEF UnlockOpens, CallShape
  <2> HIDE DEF r
  <2>3. WellFormed(r)
    BY <2>1, <2>2 DEF WellFormed, CarriesDoc, CarriesKey
  <2> QED
    BY <1>0, <2>2, <2>3
<1>24. ASSUME NEW c \in Calls, Create(c) PROVE CallShape'
  <2>1. PICK d \in NewDocs :
           Begin(c, [IdleCall EXCEPT !.op = "create", !.pc = "sealNew", !.doc = d,
                                     !.addr = d.accts[1].addr])
    BY <1>24 DEF Create
  <2>2. d \in Doc /\ DocOK(d)
    BY NewDocType
  <2>3. WellFormed([IdleCall EXCEPT !.op = "create", !.pc = "sealNew", !.doc = d,
                                    !.addr = d.accts[1].addr])
    BY <2>2 DEF WellFormed, IdleCall, CarriesDoc, CarriesKey, VaultAssumption
  <2> QED
    BY <1>0, <2>1, <2>3
<1>25. ASSUME NEW c \in Calls, Unlock(c) PROVE CallShape'
  <2>1. vault.doc \in Doc /\ vault.key \in Keys /\ DocOK(vault.doc)
    BY <1>25, <1>0 DEF Unlock, StoreT, VaultShape
  <2>2. vault.doc # None /\ vault.key # None
    BY <2>1 DEF VaultAssumption
  <2>3. WellFormed([IdleCall EXCEPT !.op = "unlock", !.pc = "kdf",
                                    !.doc = vault.doc, !.key = vault.key])
    BY <2>1, <2>2 DEF WellFormed, IdleCall, CarriesDoc, CarriesKey
  <2> QED
    BY <1>25, <1>0, <2>3 DEF Unlock
<1>26. ASSUME NEW c \in Calls, ExportKey(c) PROVE CallShape'
  <2>1. DocOK(vault.doc)
    BY <1>26 DEF ExportKey, VaultShape
  <2>2. WellFormed([IdleCall EXCEPT !.op = "exportKey", !.pc = "reveal",
                                    !.doc = vault.doc, !.addr = ShownAddr])
    BY <2>1 DEF WellFormed, IdleCall, CarriesDoc, CarriesKey
  <2> QED
    BY <1>26, <1>0, <2>2 DEF ExportKey
<1>27. ASSUME NEW c \in Calls, RemoveAccount(c) PROVE CallShape'
  <2>1. PICK a :
          \/ Begin(c, [IdleCall EXCEPT !.op = "remove", !.pc = "reauth", !.list = cur, !.addr = a])
          \/ Splice(c, cur, a)
    BY <1>27 DEF RemoveAccount
  <2>2. cur # None
    BY <1>27 DEF RemoveAccount, Unlocked
  <2>3. /\ WellFormed([IdleCall EXCEPT !.op = "remove", !.pc = "reauth", !.list = cur, !.addr = a])
        /\ WellFormed([IdleCall EXCEPT !.op = "remove", !.pc = "purge", !.addr = a])
    BY <2>2 DEF WellFormed, IdleCall, CarriesDoc, CarriesKey
  <2> QED
    BY <1>0, <2>1, <2>3 DEF Splice
<1>28. ASSUME NEW c \in Calls, RemoveReauthed(c) PROVE CallShape'
  <2>1. WellFormed([IdleCall EXCEPT !.op = "remove", !.pc = "purge", !.addr = call[c].addr])
    BY DEF WellFormed, IdleCall, CarriesDoc, CarriesKey
  <2> QED
    BY <1>28, <1>0, <2>1 DEF RemoveReauthed, Splice
<1>29. ASSUME NEW c \in Calls, RunChain(c) PROVE CallShape'
  <2>1. CASE call[c].op = "create"
    <3>1. To(c, "putVault")
      BY <1>29, <2>1 DEF RunChain
    <3>2. CarriesKey(call[c])
      BY <1>29, <2>1 DEF RunChain, CarriesKey, CarriesDoc
    <3> QED
      BY <1>0, <3>1, <3>2
  <2>2. CASE call[c].op = "reset"
    <3>1. To(c, "delRecs")
      BY <1>29, <2>2 DEF RunChain
    <3> QED
      BY <1>0, <3>1 DEF Pcs
  <2>3. CASE call[c].op \notin {"create", "reset"} /\ Unlocked
    <3> DEFINE r == [call[c] EXCEPT !.doc = BuildDoc, !.key = vaultKey, !.pc = "putVault"]
    <3>1. Begin(c, r)
      BY <1>29, <2>3 DEF RunChain
    <3>2. r.pc = "putVault" /\ r.doc = BuildDoc /\ r.key = vaultKey
      BY <1>0 DEF CallT, Call
    <3>3. BuildDoc \in Doc /\ DocOK(BuildDoc) /\ vaultKey # None
      BY <1>0, <2>3, BuildDocType DEF MemoryShape
    <3>4. BuildDoc # None
      BY <3>3 DEF VaultAssumption
    <3> HIDE DEF r
    <3>5. WellFormed(r)
      BY <3>2, <3>3, <3>4 DEF WellFormed, CarriesDoc, CarriesKey
    <3> QED
      BY <1>0, <3>1, <3>5
  <2>4. CASE call[c].op \notin {"create", "reset"} /\ ~Unlocked
    BY <1>29, <1>0, <2>4 DEF RunChain
  <2> QED
    BY <2>1, <2>2, <2>3, <2>4
<1>30. ASSUME NEW c \in Calls, PutActive(c) PROVE CallShape'
  <2>1. CASE Finish(c)
    BY <1>0, <2>1
  <2>2. CASE ~Finish(c)
    <3>1. Begin(c, [IdleCall EXCEPT !.op = call[c].op, !.pc = "export",
                                    !.key = vaultKey', !.addr = call[c].addr])
      BY <1>30, <2>2 DEF PutActive
    <3>2. WellFormed([IdleCall EXCEPT !.op = call[c].op, !.pc = "export",
                                      !.key = vaultKey', !.addr = call[c].addr])
      BY DEF WellFormed, IdleCall, CarriesDoc, CarriesKey
    <3> QED
      BY <1>0, <3>1, <3>2
  <2> QED
    BY <2>1, <2>2
<1>31. ASSUME RecordActivity \/ TimePasses PROVE CallShape'
  BY <1>31 DEF RecordActivity, TimePasses, CallShape
<1>32. ASSUME NEW b \in BOOLEAN, Restart(b) PROVE CallShape'
  BY <1>32 DEF Restart, CallShape, CarriesDoc, CarriesKey, IdleCall
<1> QED
  BY <1>1, <1>2, <1>3, <1>4, <1>5, <1>6, <1>7, <1>8, <1>9, <1>10, <1>11, <1>12, <1>13, <1>14, <1>15, <1>16, <1>17, <1>18, <1>19, <1>20, <1>21, <1>22, <1>23, <1>24, <1>25, <1>26, <1>27, <1>28, <1>29, <1>30, <1>31, <1>32 DEF Next, Start, Continue

\* Only two steps write the vault: what they write is a document of the call.
LEMMA VaultWriters ==
    ASSUME Next
    PROVE  UNCHANGED vault \/ \E c \in Calls : PutVault(c) \/ WipeVault(c)
<1> USE DEF disk
<1>1. ASSUME NEW c \in Calls, Create(c) PROVE UNCHANGED vault
  BY <1>1 DEF Create
<1>2. ASSUME NEW c \in Calls, Unlock(c) PROVE UNCHANGED vault
  BY <1>2 DEF Unlock
<1>3. ASSUME NEW c \in Calls, Lock(c) PROVE UNCHANGED vault
  BY <1>3 DEF Lock
<1>4. ASSUME NEW c \in Calls, Reset(c) PROVE UNCHANGED vault
  BY <1>4 DEF Reset
<1>5. ASSUME NEW c \in Calls, ExportKey(c) PROVE UNCHANGED vault
  BY <1>5 DEF ExportKey
<1>6. ASSUME NEW c \in Calls, AddAccount(c) PROVE UNCHANGED vault
  BY <1>6 DEF AddAccount, Account
<1>7. ASSUME NEW c \in Calls, ImportAccount(c) PROVE UNCHANGED vault
  BY <1>7 DEF ImportAccount, Account
<1>8. ASSUME NEW c \in Calls, SwitchAccount(c) PROVE UNCHANGED vault
  BY <1>8 DEF SwitchAccount, Account
<1>9. ASSUME NEW c \in Calls, RenameAccount(c) PROVE UNCHANGED vault
  BY <1>9 DEF RenameAccount, Account
<1>10. ASSUME NEW c \in Calls, RemoveAccount(c) PROVE UNCHANGED vault
  BY <1>10 DEF RemoveAccount
<1>11. ASSUME NEW c \in Calls, SealNew(c) PROVE UNCHANGED vault
  BY <1>11 DEF SealNew
<1>12. ASSUME NEW c \in Calls, UnlockOpens(c) PROVE UNCHANGED vault
  BY <1>12 DEF UnlockOpens
<1>13. ASSUME NEW c \in Calls, RemoveReauthed(c) PROVE UNCHANGED vault
  BY <1>13 DEF RemoveReauthed
<1>14. ASSUME NEW c \in Calls, RevealKey(c) PROVE UNCHANGED vault
  BY <1>14 DEF RevealKey
<1>15. ASSUME NEW c \in Calls, Refused(c) PROVE UNCHANGED vault
  BY <1>15 DEF Refused
<1>16. ASSUME NEW c \in Calls, DropSessionKey(c) PROVE UNCHANGED vault
  BY <1>16 DEF DropSessionKey
<1>17. ASSUME NEW c \in Calls, DropSessionStamp(c) PROVE UNCHANGED vault
  BY <1>17 DEF DropSessionStamp
<1>18. ASSUME NEW c \in Calls, PurgeRecords(c) PROVE UNCHANGED vault
  BY <1>18 DEF PurgeRecords
<1>19. ASSUME NEW c \in Calls, RunChain(c) PROVE UNCHANGED vault
  BY <1>19 DEF RunChain
<1>20. ASSUME NEW c \in Calls, PutWallets(c) PROVE UNCHANGED vault
  BY <1>20 DEF PutWallets
<1>21. ASSUME NEW c \in Calls, PutActive(c) PROVE UNCHANGED vault
  BY <1>21 DEF PutActive
<1>22. ASSUME NEW c \in Calls, ExportSession(c) PROVE UNCHANGED vault
  BY <1>22 DEF ExportSession
<1>23. ASSUME NEW c \in Calls, StampSession(c) PROVE UNCHANGED vault
  BY <1>23 DEF StampSession
<1>24. ASSUME NEW c \in Calls, ResetLocks(c) PROVE UNCHANGED vault
  BY <1>24 DEF ResetLocks
<1>25. ASSUME NEW c \in Calls, WipeRecords(c) PROVE UNCHANGED vault
  BY <1>25 DEF WipeRecords
<1>26. ASSUME NEW c \in Calls, WipeWallets(c) PROVE UNCHANGED vault
  BY <1>26 DEF WipeWallets
<1>27. ASSUME NEW c \in Calls, WipeActive(c) PROVE UNCHANGED vault
  BY <1>27 DEF WipeActive
<1>28. ASSUME NEW c \in Calls, StoreFails(c) PROVE UNCHANGED vault
  BY <1>28 DEF StoreFails
<1>29. ASSUME RecordActivity \/ TimePasses PROVE UNCHANGED vault
  BY <1>29 DEF RecordActivity, TimePasses
<1>30. ASSUME NEW b \in BOOLEAN, Restart(b) PROVE UNCHANGED vault
  BY <1>30 DEF Restart
<1> QED
  BY <1>1, <1>2, <1>3, <1>4, <1>5, <1>6, <1>7, <1>8, <1>9, <1>10, <1>11, <1>12, <1>13, <1>14, <1>15, <1>16, <1>17, <1>18, <1>19, <1>20, <1>21, <1>22, <1>23, <1>24, <1>25, <1>26, <1>27, <1>28, <1>29, <1>30 DEF Next, Start, Continue

LEMMA VaultStep ==
    ASSUME IInv, Next PROVE VaultShape'
<1>1. CASE UNCHANGED vault
  BY <1>1 DEF IInv, VaultShape
<1>2. ASSUME NEW c \in Calls, PutVault(c) PROVE VaultShape'
  <2>1. DocOK(call[c].doc)
    BY <1>2 DEF IInv, PutVault, CallShape, CarriesDoc
  <2> QED
    BY <1>2, <2>1 DEF PutVault, VaultShape
<1>3. ASSUME NEW c \in Calls, WipeVault(c) PROVE VaultShape'
  BY <1>3 DEF WipeVault, VaultShape
<1> QED
  BY <1>1, <1>2, <1>3, VaultWriters

-----------------------------------------------------------------------------
(***************************************************************************)
(* The chain.  A call's step leaves it alone, appends the call, or removes *)
(* its head; only the step ("pc") of that one call changes.                *)
(***************************************************************************)
Moves(c, pc) == \A d \in Calls : call'[d].pc = IF d = c THEN pc ELSE call[d].pc
OnChain == Writing \cup {"queued"}

LEMMA BeginMoves ==
    ASSUME CallT, NEW c \in Calls, NEW r, Begin(c, r)
    PROVE  Moves(c, r.pc)
BY DEF CallT, Begin, Moves

LEMMA FinishMoves ==
    ASSUME CallT, NEW c \in Calls, Finish(c)
    PROVE  Moves(c, "idle")
BY DEF CallT, Finish, Moves, IdleCall

LEMMA ToMoves ==
    ASSUME CallT, NEW c \in Calls, NEW pc, To(c, pc)
    PROVE  Moves(c, pc)
<1>1. [call[c] EXCEPT !.pc = pc].pc = pc
  BY DEF CallT, Call
<1> QED
  BY <1>1 DEF CallT, To, Moves

LEMMA ChainEnqueue ==
    ASSUME CallT, ChainOK, NEW c \in Calls, call[c].pc \notin OnChain,
           Enqueue(c), Moves(c, "queued")
    PROVE  ChainOK'
<1>1. chain \in Seq(Calls) /\ Len(chain) \in Nat
  BY DEF CallT
<1>2. /\ Len(chain') = Len(chain) + 1 /\ chain'[Len(chain) + 1] = c
      /\ \A i \in 1..Len(chain) : chain'[i] = chain[i]
  BY <1>1 DEF Enqueue
<1>3. chain # <<>> => chain' # <<>> /\ Head(chain') = Head(chain)
  BY <1>1 DEF Enqueue
<1>4. \A i \in 1..Len(chain) : chain[i] \in Calls /\ chain[i] # c
  BY <1>1 DEF ChainOK, OnChain
<1>5. \A d \in Calls : call'[d].pc \in Writing => chain' # <<>> /\ Head(chain') = d
  BY <1>3 DEF ChainOK, Moves, Writing
<1>6. \A i \in 1..Len(chain') : call'[chain'[i]].pc \in Writing \cup {"queued"}
  <2>1. \A i \in 1..Len(chain') : i \in 1..Len(chain) \/ i = Len(chain) + 1
    BY <1>1, <1>2
  <2> QED
    BY <2>1, <1>2, <1>4 DEF ChainOK, Moves
<1>7. \A i, j \in 1..Len(chain') : chain'[i] = chain'[j] => i = j
  <2>1. \A i \in 1..Len(chain') : i \in 1..Len(chain) \/ i = Len(chain) + 1
    BY <1>1, <1>2
  <2> QED
    BY <2>1, <1>2, <1>4 DEF ChainOK
<1> QED
  BY <1>5, <1>6, <1>7 DEF ChainOK

LEMMA ChainLeave ==
    ASSUME CallT, ChainOK, NEW c \in Calls, NEW pc, chain # <<>>, Head(chain) = c,
           Leave, Moves(c, pc), pc \notin Writing
    PROVE  ChainOK'
<1>1. chain \in Seq(Calls) /\ Len(chain) \in Nat \ {0} /\ chain[1] = c
  BY DEF CallT
<1>2. /\ chain' \in Seq(Calls) /\ Len(chain') = Len(chain) - 1
      /\ \A i \in 1..Len(chain') : chain'[i] = chain[i + 1]
  BY <1>1, HeadTailProperties DEF Leave
<1>3. \A i \in 1..Len(chain') : i + 1 \in 1..Len(chain) /\ i + 1 # 1
  BY <1>1, <1>2
<1>4. \A i \in 1..Len(chain') : chain'[i] \in Calls /\ chain'[i] # c
  BY <1>1, <1>2, <1>3 DEF ChainOK
<1>5. \A d \in Calls : call'[d].pc \notin Writing
  BY DEF ChainOK, Moves
<1>6. \A i \in 1..Len(chain') : call'[chain'[i]].pc \in Writing \cup {"queued"}
  BY <1>2, <1>3, <1>4 DEF ChainOK, Moves
<1>7. \A i, j \in 1..Len(chain') : chain'[i] = chain'[j] => i = j
  <2> SUFFICES ASSUME NEW i \in 1..Len(chain'), NEW j \in 1..Len(chain'), chain'[i] = chain'[j]
               PROVE  i = j
    OBVIOUS
  <2>1. i + 1 = j + 1
    BY <1>2, <1>3 DEF ChainOK
  <2> QED
    BY <2>1
<1> QED
  BY <1>5, <1>6, <1>7 DEF ChainOK

LEMMA ChainStay ==
    ASSUME CallT, ChainOK, NEW c \in Calls, NEW pc, Moves(c, pc), UNCHANGED chain,
           \/ call[c].pc \notin OnChain /\ pc \notin Writing
           \/ chain # <<>> /\ Head(chain) = c /\ pc \in Writing
    PROVE  ChainOK'
<1>1. chain \in Seq(Calls)
  BY DEF CallT
<1>2. \A i \in 1..Len(chain) : chain[i] \in Calls
  BY <1>1
<1>3. \A d \in Calls : call'[d].pc \in Writing => chain' # <<>> /\ Head(chain') = d
  BY DEF ChainOK, Moves
<1>4. \A i \in 1..Len(chain') : call'[chain'[i]].pc \in Writing \cup {"queued"}
  BY <1>2 DEF ChainOK, Moves, OnChain
<1>5. \A i, j \in 1..Len(chain') : chain'[i] = chain'[j] => i = j
  BY DEF ChainOK
<1> QED
  BY <1>3, <1>4, <1>5 DEF ChainOK

LEMMA ChainStep ==
    ASSUME IInv, Next PROVE ChainOK'
<1> USE BeginMoves, FinishMoves, ToMoves, TypeParts DEF IInv
<1>0. CallT /\ ChainOK
  OBVIOUS
<1>1. ASSUME NEW c \in Calls, Create(c) PROVE ChainOK'
  <2>0. PICK d \in NewDocs :
           Begin(c, [IdleCall EXCEPT !.op = "create", !.pc = "sealNew", !.doc = d,
                                     !.addr = d.accts[1].addr])
    BY <1>1 DEF Create
  <2>2. [IdleCall EXCEPT !.op = "create", !.pc = "sealNew", !.doc = d,
                         !.addr = d.accts[1].addr].pc = "sealNew"
    BY DEF IdleCall
  <2>1. Moves(c, "sealNew")
    BY <1>0, <2>0, <2>2
  <2> QED
    BY <1>1, <1>0, <2>1, ChainStay DEF Create, Idle, OnChain, Writing
<1>2. ASSUME NEW c \in Calls, Unlock(c) PROVE ChainOK'
  <2>0. [IdleCall EXCEPT !.op = "unlock", !.pc = "kdf",
       !.doc = vault.doc, !.key = vault.key].pc = "kdf"
    BY DEF IdleCall
  <2>1. Moves(c, "kdf")
    BY <1>2, <1>0, <2>0 DEF Unlock
  <2> QED
    BY <1>2, <1>0, <2>1, ChainStay DEF Unlock, Idle, OnChain, Writing
<1>3. ASSUME NEW c \in Calls, Lock(c) PROVE ChainOK'
  <2>0. [IdleCall EXCEPT !.op = "lock", !.pc = "delKey"].pc = "delKey"
    BY DEF IdleCall
  <2>1. Moves(c, "delKey")
    BY <1>3, <1>0, <2>0 DEF Lock
  <2> QED
    BY <1>3, <1>0, <2>1, ChainStay DEF Lock, Idle, OnChain, Writing
<1>4. ASSUME NEW c \in Calls, Reset(c) PROVE ChainOK'
  <2>0. [IdleCall EXCEPT !.op = "reset", !.pc = "readWallets"].pc = "readWallets"
    BY DEF IdleCall
  <2>1. Moves(c, "readWallets")
    BY <1>4, <1>0, <2>0 DEF Reset
  <2> QED
    BY <1>4, <1>0, <2>1, ChainStay DEF Reset, Idle, OnChain, Writing
<1>5. ASSUME NEW c \in Calls, ExportKey(c) PROVE ChainOK'
  <2>0. [IdleCall EXCEPT !.op = "exportKey", !.pc = "reveal",
       !.doc = vault.doc, !.addr = ShownAddr].pc = "reveal"
    BY DEF IdleCall
  <2>1. Moves(c, "reveal")
    BY <1>5, <1>0, <2>0 DEF ExportKey
  <2> QED
    BY <1>5, <1>0, <2>1, ChainStay DEF ExportKey, Idle, OnChain, Writing
<1>6. ASSUME NEW c \in Calls, RevealKey(c) PROVE ChainOK'
  <2>1. Moves(c, "idle")
    BY <1>6, <1>0 DEF RevealKey
  <2> QED
    BY <1>6, <1>0, <2>1, ChainStay DEF RevealKey, OnChain, Writing
<1>7. ASSUME NEW c \in Calls, Refused(c) PROVE ChainOK'
  <2>1. Moves(c, "idle")
    BY <1>7, <1>0 DEF Refused
  <2> QED
    BY <1>7, <1>0, <2>1, ChainStay DEF Refused, OnChain, Writing
<1>8. ASSUME NEW c \in Calls, DropSessionKey(c) PROVE ChainOK'
  <2>1. Moves(c, "delTs")
    BY <1>8, <1>0 DEF DropSessionKey
  <2> QED
    BY <1>8, <1>0, <2>1, ChainStay DEF DropSessionKey, OnChain, Writing
<1>9. ASSUME NEW c \in Calls, ExportSession(c) PROVE ChainOK'
  <2>1. Moves(c, "stamp")
    BY <1>9, <1>0 DEF ExportSession
  <2> QED
    BY <1>9, <1>0, <2>1, ChainStay DEF ExportSession, OnChain, Writing
<1>10. ASSUME NEW c \in Calls, StampSession(c) PROVE ChainOK'
  <2>1. Moves(c, "idle")
    BY <1>10, <1>0 DEF StampSession
  <2> QED
    BY <1>10, <1>0, <2>1, ChainStay DEF StampSession, OnChain, Writing
<1>11. ASSUME NEW c \in Calls, ResetLocks(c) PROVE ChainOK'
  <2>0. [call[c] EXCEPT !.pub = wallets, !.pc = "delKey"].pc = "delKey"
    BY <1>0 DEF CallT, Call
  <2>1. Moves(c, "delKey")
    BY <1>11, <1>0, <2>0 DEF ResetLocks
  <2> QED
    BY <1>11, <1>0, <2>1, ChainStay DEF ResetLocks, OnChain, Writing
<1>12. ASSUME NEW c \in Calls, RemoveReauthed(c) PROVE ChainOK'
  <2>0. [IdleCall EXCEPT !.op = "remove", !.pc = "purge", !.addr = call[c].addr].pc = "purge"
    BY DEF IdleCall
  <2>1. Moves(c, "purge")
    BY <1>12, <1>0, <2>0 DEF RemoveReauthed, Splice
  <2> QED
    BY <1>12, <1>0, <2>1, ChainStay DEF RemoveReauthed, OnChain, Writing
<1>13. ASSUME NEW c \in Calls, PutVault(c) PROVE ChainOK'
  BY <1>13, <1>0, ChainStay, WriterIsHead DEF PutVault, Writing
<1>14. ASSUME NEW c \in Calls, PutWallets(c) PROVE ChainOK'
  BY <1>14, <1>0, ChainStay, WriterIsHead DEF PutWallets, Writing
<1>15. ASSUME NEW c \in Calls, WipeRecords(c) PROVE ChainOK'
  BY <1>15, <1>0, ChainStay, WriterIsHead DEF WipeRecords, Writing
<1>16. ASSUME NEW c \in Calls, WipeVault(c) PROVE ChainOK'
  BY <1>16, <1>0, ChainStay, WriterIsHead DEF WipeVault, Writing
<1>17. ASSUME NEW c \in Calls, WipeWallets(c) PROVE ChainOK'
  BY <1>17, <1>0, ChainStay, WriterIsHead DEF WipeWallets, Writing
<1>18. ASSUME NEW c \in Calls, WipeActive(c) PROVE ChainOK'
  BY <1>18, <1>0, ChainLeave, WriterIsHead DEF WipeActive, Writing
<1>19. ASSUME NEW c \in Calls, StoreFails(c) PROVE ChainOK'
  BY <1>19, <1>0, ChainLeave, WriterIsHead DEF StoreFails, Writing
<1>20. ASSUME NEW c \in Calls, PurgeRecords(c) PROVE ChainOK'
  BY <1>20, <1>0, ChainEnqueue DEF PurgeRecords, OnChain, Writing
<1>21. ASSUME NEW c \in Calls, DropSessionStamp(c) PROVE ChainOK'
  <2>1. CASE call[c].op = "reset"
    BY <1>21, <1>0, <2>1, ChainEnqueue DEF DropSessionStamp, OnChain, Writing
  <2>2. CASE call[c].op # "reset"
    BY <1>21, <1>0, <2>2, ChainStay DEF DropSessionStamp, OnChain, Writing
  <2> QED
    BY <2>1, <2>2
<1>22. ASSUME NEW c \in Calls, SwitchAccount(c) PROVE ChainOK'
  <2>0. [IdleCall EXCEPT !.op = "account", !.pc = "queued"].pc = "queued"
    BY DEF IdleCall
  <2>1. Moves(c, "queued")
    BY <1>22, <1>0, <2>0 DEF SwitchAccount
  <2> QED
    BY <1>22, <1>0, <2>1, ChainEnqueue DEF SwitchAccount, Account, Idle, OnChain, Writing
<1>23. ASSUME NEW c \in Calls, RenameAccount(c) PROVE ChainOK'
  <2>0. [IdleCall EXCEPT !.op = "account", !.pc = "queued"].pc = "queued"
    BY DEF IdleCall
  <2>1. Moves(c, "queued")
    BY <1>23, <1>0, <2>0 DEF RenameAccount
  <2> QED
    BY <1>23, <1>0, <2>1, ChainEnqueue DEF RenameAccount, Account, Idle, OnChain, Writing
<1>24. ASSUME NEW c \in Calls, AddAccount(c) PROVE ChainOK'
  <2>1. PICK e : AddEntry(c, e)
    BY <1>24 DEF AddAccount
  <2>0. [IdleCall EXCEPT !.op = "account", !.pc = "queued", !.addr = e.addr].pc = "queued"
    BY DEF IdleCall
  <2>2. Moves(c, "queued")
    BY <1>0, <2>0, <2>1 DEF AddEntry
  <2> QED
    BY <1>24, <1>0, <2>2, ChainEnqueue DEF AddAccount, Account, Idle, OnChain, Writing
<1>25. ASSUME NEW c \in Calls, ImportAccount(c) PROVE ChainOK'
  <2>1. PICK e : AddEntry(c, e)
    BY <1>25 DEF ImportAccount
  <2>0. [IdleCall EXCEPT !.op = "account", !.pc = "queued", !.addr = e.addr].pc = "queued"
    BY DEF IdleCall
  <2>2. Moves(c, "queued")
    BY <1>0, <2>0, <2>1 DEF AddEntry
  <2> QED
    BY <1>25, <1>0, <2>2, ChainEnqueue DEF ImportAccount, Account, Idle, OnChain, Writing
<1>26. ASSUME NEW c \in Calls, SealNew(c) PROVE ChainOK'
  <2>0. PICK k : Begin(c, [call[c] EXCEPT !.key = k, !.pc = "queued"])
    BY <1>26 DEF SealNew
  <2>1. [call[c] EXCEPT !.key = k, !.pc = "queued"].pc = "queued"
    BY <1>0 DEF CallT, Call
  <2>2. Moves(c, "queued")
    BY <1>0, <2>0, <2>1
  <2> QED
    BY <1>26, <1>0, <2>2, ChainEnqueue DEF SealNew, OnChain, Writing
<1>27. ASSUME NEW c \in Calls, UnlockOpens(c) PROVE ChainOK'
  <2>0. [call[c] EXCEPT !.doc = None, !.key = None, !.pc = "queued"].pc = "queued"
    BY <1>0 DEF CallT, Call
  <2>1. Moves(c, "queued")
    BY <1>27, <1>0, <2>0 DEF UnlockOpens
  <2> QED
    BY <1>27, <1>0, <2>1, ChainEnqueue DEF UnlockOpens, OnChain, Writing
<1>28. ASSUME NEW c \in Calls, RemoveAccount(c) PROVE ChainOK'
  <2>0. PICK a :
          \/ Begin(c, [IdleCall EXCEPT !.op = "remove", !.pc = "reauth", !.list = cur, !.addr = a])
          \/ Splice(c, cur, a)
    BY <1>28 DEF RemoveAccount
  <2>1. /\ [IdleCall EXCEPT !.op = "remove", !.pc = "reauth", !.list = cur, !.addr = a].pc = "reauth"
        /\ [IdleCall EXCEPT !.op = "remove", !.pc = "purge", !.addr = a].pc = "purge"
    BY DEF IdleCall
  <2>2. Moves(c, "reauth") \/ Moves(c, "purge")
    BY <1>0, <2>0, <2>1 DEF Splice
  <2> QED
    BY <1>28, <1>0, <2>2, ChainStay DEF RemoveAccount, Idle, OnChain, Writing
<1>29. ASSUME NEW c \in Calls, RunChain(c) PROVE ChainOK'
  <2>0. chain # <<>> /\ Head(chain) = c
    BY <1>29 DEF RunChain, Heads
  <2>1. CASE Moves(c, "putVault") \/ Moves(c, "delRecs")
    <3>1. UNCHANGED chain \/ (Finish(c) /\ Leave)
      BY <1>29 DEF RunChain
    <3>2. CASE UNCHANGED chain
      BY <1>0, <2>0, <2>1, <3>2, ChainStay DEF Writing
    <3>3. CASE Finish(c) /\ Leave
      BY <1>0, <2>0, <3>3, ChainLeave DEF Writing
    <3> QED
      BY <3>1, <3>2, <3>3
  <2>2. CASE Finish(c) /\ Leave
    BY <1>0, <2>0, <2>2, ChainLeave DEF Writing
  <2>3. [call[c] EXCEPT !.doc = BuildDoc, !.key = vaultKey, !.pc = "putVault"].pc = "putVault"
    BY <1>0 DEF CallT, Call
  <2> QED
    BY <1>29, <1>0, <2>1, <2>2, <2>3 DEF RunChain
<1>30. ASSUME NEW c \in Calls, PutActive(c) PROVE ChainOK'
  <2>0. [IdleCall EXCEPT !.op = call[c].op, !.pc = "export",
                         !.key = vaultKey', !.addr = call[c].addr].pc = "export"
    BY DEF IdleCall
  <2>1. Moves(c, "idle") \/ Moves(c, "export")
    BY <1>30, <1>0, <2>0 DEF PutActive
  <2> QED
    BY <1>30, <1>0, <2>1, ChainLeave, WriterIsHead DEF PutActive, Writing
<1>31. ASSUME RecordActivity \/ TimePasses PROVE ChainOK'
  BY <1>31, <1>0 DEF RecordActivity, TimePasses, ChainOK
<1>32. ASSUME NEW b \in BOOLEAN, Restart(b) PROVE ChainOK'
  BY <1>32 DEF Restart, ChainOK, IdleCall, Writing
<1> QED
  BY <1>1, <1>2, <1>3, <1>4, <1>5, <1>6, <1>7, <1>8, <1>9, <1>10, <1>11, <1>12, <1>13, <1>14, <1>15, <1>16, <1>17, <1>18, <1>19, <1>20, <1>21, <1>22, <1>23, <1>24, <1>25, <1>26, <1>27, <1>28, <1>29, <1>30, <1>31, <1>32 DEF Next, Start, Continue

-----------------------------------------------------------------------------
LEMMA IInvStep ==
    ASSUME IInv, [Next]_vars PROVE IInv'
<1>1. CASE Next
  <2>1. CallT' /\ MemT' /\ MemoryShape' /\ StoreT' /\ CallShape' /\ VaultShape' /\ ChainOK'
    BY <1>1, CallStep, MemStep, StoreStep, ShapeStep, VaultStep, ChainStep
  <2>2. TypeOK'
    BY <2>1 DEF TypeOK, CallT, MemT, StoreT
  <2> QED
    BY <2>1, <2>2 DEF IInv
<1>2. CASE UNCHANGED vars
  <2> USE <1>2 DEF vars, disk, sess, mem, ghost
  <2>1. TypeOK'
    BY DEF IInv, TypeOK
  <2>2. CallShape' /\ VaultShape' /\ ChainOK'
    BY DEF IInv, CallShape, VaultShape, ChainOK
  <2>3. MemoryShape'
    BY DEF IInv, MemoryShape, Unlocked
  <2> QED
    BY <2>1, <2>2, <2>3 DEF IInv
<1> QED
  BY <1>1, <1>2

LEMMA Inductive == Spec => []IInv
<1>1. Init => IInv
  BY InitIInv
<1>2. IInv /\ [Next]_vars => IInv'
  BY IInvStep
<1> QED
  BY <1>1, <1>2, PTL DEF Spec

\* Every variable keeps its type: no overlap of calls, crash or failed write
\* makes a queued write store anything but a whole document under a key.
THEOREM TypeCorrect == Spec => []TypeOK
<1>1. IInv => TypeOK
  BY DEF IInv
<1> QED
  BY <1>1, Inductive, PTL

\* Whatever removals, locks, unlocks and failures overlap, the unlocked
\* wallet's active slot holds an account: must() and pubActive() never read
\* past the array.
THEOREM ActiveStaysInRange == Spec => []ActiveInRange
<1>1. IInv => ActiveInRange
  BY DEF IInv, MemoryShape, ActiveInRange, Accts
<1> QED
  BY <1>1, Inductive, PTL

-----------------------------------------------------------------------------
(***************************************************************************)
(* The ciphertext and the cleartext mirror.  Between the first and the     *)
(* last of its three writes, the head of the chain has put its own         *)
(* document, and nothing else, in the store.                               *)
(***************************************************************************)
WriteProgress ==
    \A c \in Calls :
       /\ call[c].pc \in {"putWallets", "putActive"} =>
             vault # None /\ vault.doc = call[c].doc
       /\ call[c].pc = "putActive" => wallets = Mirror(call[c].doc.accts)
       /\ call[c].pc \in {"delWallets", "delActive"} => vault = None
       /\ call[c].pc = "delActive" => wallets = <<>>

MirrorInv == WriteProgress /\ VaultAndMirrorAgree

\* A step of a call that is not in its writes, before or after.
Quiet(c) ==
    /\ call[c].pc \notin CutShort /\ call'[c].pc \notin CutShort
    /\ \A d \in Calls \ {c} : call'[d] = call[d]

LEMMA QuietKeepsMirror ==
    ASSUME MirrorInv, NEW c \in Calls, Quiet(c), UNCHANGED <<vault, wallets, stActive, torn>>
    PROVE  MirrorInv'
<1>1. \A d \in Calls : call'[d].pc \in CutShort => call'[d] = call[d]
  BY DEF Quiet
<1>2. WriteProgress'
  BY <1>1 DEF MirrorInv, WriteProgress, CutShort
<1>3. (\A d \in Calls : call'[d].pc \notin CutShort) => \A d \in Calls : call[d].pc \notin CutShort
  BY DEF Quiet
<1>4. VaultAndMirrorAgree'
  BY <1>3 DEF MirrorInv, VaultAndMirrorAgree
<1> QED
  BY <1>2, <1>4 DEF MirrorInv

LEMMA QuietBegin ==
    ASSUME CallT, NEW c \in Calls, NEW r, Begin(c, r),
           call[c].pc \notin CutShort, r.pc \notin CutShort
    PROVE  Quiet(c)
BY DEF CallT, Begin, Quiet

LEMMA QuietTo ==
    ASSUME CallT, NEW c \in Calls, NEW pc, To(c, pc),
           call[c].pc \notin CutShort, pc \notin CutShort
    PROVE  Quiet(c)
<1>1. [call[c] EXCEPT !.pc = pc].pc = pc
  BY DEF CallT, Call
<1> QED
  BY <1>1 DEF CallT, To, Quiet

LEMMA QuietFinish ==
    ASSUME CallT, NEW c \in Calls, Finish(c), call[c].pc \notin CutShort
    PROVE  Quiet(c)
BY DEF CallT, Finish, Quiet, IdleCall, CutShort

LEMMA QuietStep ==
    ASSUME CallT, NEW c \in Calls,
           Start(c) \/ (Continue(c) /\ call[c].pc \notin Writing)
    PROVE  Quiet(c) /\ UNCHANGED <<vault, wallets, stActive, torn>>
<1> DEFINE P == Quiet(c) /\ UNCHANGED <<vault, wallets, stActive, torn>>
<1> USE QuietBegin, QuietTo, QuietFinish DEF disk, ghost
<1>1. ASSUME Unlock(c) PROVE P
  <2>1. [IdleCall EXCEPT !.op = "unlock", !.pc = "kdf",
         !.doc = vault.doc, !.key = vault.key].pc \notin CutShort
    BY DEF IdleCall, CutShort
  <2> QED
    BY <1>1, <2>1 DEF Unlock, Idle, CutShort
<1>2. ASSUME Lock(c) PROVE P
  <2>1. [IdleCall EXCEPT !.op = "lock", !.pc = "delKey"].pc \notin CutShort
    BY DEF IdleCall, CutShort
  <2> QED
    BY <1>2, <2>1 DEF Lock, Idle, CutShort
<1>3. ASSUME Reset(c) PROVE P
  <2>1. [IdleCall EXCEPT !.op = "reset", !.pc = "readWallets"].pc \notin CutShort
    BY DEF IdleCall, CutShort
  <2> QED
    BY <1>3, <2>1 DEF Reset, Idle, CutShort
<1>4. ASSUME ExportKey(c) PROVE P
  <2>1. [IdleCall EXCEPT !.op = "exportKey", !.pc = "reveal",
         !.doc = vault.doc, !.addr = ShownAddr].pc \notin CutShort
    BY DEF IdleCall, CutShort
  <2> QED
    BY <1>4, <2>1 DEF ExportKey, Idle, CutShort
<1>5. ASSUME SwitchAccount(c) PROVE P
  <2>1. [IdleCall EXCEPT !.op = "account", !.pc = "queued"].pc \notin CutShort
    BY DEF IdleCall, CutShort
  <2> QED
    BY <1>5, <2>1 DEF SwitchAccount, Account, Idle, CutShort
<1>6. ASSUME RenameAccount(c) PROVE P
  <2>1. [IdleCall EXCEPT !.op = "account", !.pc = "queued"].pc \notin CutShort
    BY DEF IdleCall, CutShort
  <2> QED
    BY <1>6, <2>1 DEF RenameAccount, Account, Idle, CutShort
<1>7. ASSUME ResetLocks(c) PROVE P
  <2>1. [call[c] EXCEPT !.pub = wallets, !.pc = "delKey"].pc \notin CutShort
    BY DEF CallT, Call, CutShort
  <2> QED
    BY <1>7, <2>1 DEF ResetLocks, CutShort
<1>8. ASSUME UnlockOpens(c) PROVE P
  <2>1. [call[c] EXCEPT !.doc = None, !.key = None, !.pc = "queued"].pc \notin CutShort
    BY DEF CallT, Call, CutShort
  <2> QED
    BY <1>8, <2>1 DEF UnlockOpens, CutShort
<1>9. ASSUME Create(c) PROVE P
  <2>1. PICK d : Begin(c, [IdleCall EXCEPT !.op = "create", !.pc = "sealNew", !.doc = d,
                                           !.addr = d.accts[1].addr])
    BY <1>9 DEF Create
  <2>2. [IdleCall EXCEPT !.op = "create", !.pc = "sealNew", !.doc = d,
         !.addr = d.accts[1].addr].pc \notin CutShort
    BY DEF IdleCall, CutShort
  <2> QED
    BY <1>9, <2>1, <2>2 DEF Create, Idle, CutShort
<1>10. ASSUME AddAccount(c) PROVE P
  <2>1. PICK e : AddEntry(c, e)
    BY <1>10 DEF AddAccount
  <2>2. [IdleCall EXCEPT !.op = "account", !.pc = "queued", !.addr = e.addr].pc \notin CutShort
    BY DEF IdleCall, CutShort
  <2> QED
    BY <1>10, <2>1, <2>2 DEF AddAccount, AddEntry, Account, Idle, CutShort
<1>11. ASSUME ImportAccount(c) PROVE P
  <2>1. PICK e : AddEntry(c, e)
    BY <1>11 DEF ImportAccount
  <2>2. [IdleCall EXCEPT !.op = "account", !.pc = "queued", !.addr = e.addr].pc \notin CutShort
    BY DEF IdleCall, CutShort
  <2> QED
    BY <1>11, <2>1, <2>2 DEF ImportAccount, AddEntry, Account, Idle, CutShort
<1>12. ASSUME SealNew(c) PROVE P
  <2>1. PICK k : Begin(c, [call[c] EXCEPT !.key = k, !.pc = "queued"])
    BY <1>12 DEF SealNew
  <2>2. [call[c] EXCEPT !.key = k, !.pc = "queued"].pc \notin CutShort
    BY DEF CallT, Call, CutShort
  <2> QED
    BY <1>12, <2>1, <2>2 DEF SealNew, CutShort
<1>13. ASSUME RemoveAccount(c) PROVE P
  <2>1. PICK a :
          \/ Begin(c, [IdleCall EXCEPT !.op = "remove", !.pc = "reauth", !.list = cur, !.addr = a])
          \/ Splice(c, cur, a)
    BY <1>13 DEF RemoveAccount
  <2>2. /\ [IdleCall EXCEPT !.op = "remove", !.pc = "reauth", !.list = cur, !.addr = a].pc
              \notin CutShort
        /\ [IdleCall EXCEPT !.op = "remove", !.pc = "purge", !.addr = a].pc \notin CutShort
    BY DEF IdleCall, CutShort
  <2> QED
    BY <1>13, <2>1, <2>2 DEF RemoveAccount, Splice, Idle, CutShort
<1>14. ASSUME RemoveReauthed(c) PROVE P
  <2>1. [IdleCall EXCEPT !.op = "remove", !.pc = "purge", !.addr = call[c].addr].pc \notin CutShort
    BY DEF IdleCall, CutShort
  <2> QED
    BY <1>14, <2>1 DEF RemoveReauthed, Splice, CutShort
<1>15. ASSUME RevealKey(c) PROVE P
  BY <1>15 DEF RevealKey, CutShort
<1>16. ASSUME Refused(c) PROVE P
  BY <1>16 DEF Refused, CutShort
<1>17. ASSUME StampSession(c) PROVE P
  BY <1>17 DEF StampSession, CutShort
<1>18. ASSUME DropSessionKey(c) PROVE P
  BY <1>18 DEF DropSessionKey, CutShort
<1>19. ASSUME ExportSession(c) PROVE P
  BY <1>19 DEF ExportSession, CutShort
<1>20. ASSUME PurgeRecords(c) PROVE P
  BY <1>20 DEF PurgeRecords, CutShort
<1>21. ASSUME DropSessionStamp(c) PROVE P
  BY <1>21 DEF DropSessionStamp, CutShort
<1>22. ASSUME RunChain(c) PROVE P
  <2>1. [call[c] EXCEPT !.doc = BuildDoc, !.key = vaultKey, !.pc = "putVault"].pc \notin CutShort
    BY DEF CallT, Call, CutShort
  <2> QED
    BY <1>22, <2>1 DEF RunChain, CutShort
<1> QED
  BY <1>1, <1>2, <1>3, <1>4, <1>5, <1>6, <1>7, <1>8, <1>9, <1>10, <1>11, <1>12, <1>13, <1>14, <1>15, <1>16, <1>17, <1>18, <1>19, <1>20, <1>21, <1>22 DEF Start, Continue, Writing,
     PutVault, PutWallets, PutActive, WipeRecords, WipeVault, WipeWallets, WipeActive, StoreFails

\* The document a write stores is the one the call carries to its last write.
LEMMA ToKeepsDoc ==
    ASSUME CallT, NEW c \in Calls, NEW pc, To(c, pc)
    PROVE  /\ call'[c].pc = pc /\ call'[c].doc = call[c].doc
           /\ \A d \in Calls \ {c} : call'[d] = call[d]
<1>1. /\ [call[c] EXCEPT !.pc = pc].pc = pc
      /\ [call[c] EXCEPT !.pc = pc].doc = call[c].doc
  BY DEF CallT, Call
<1> QED
  BY <1>1 DEF CallT, To

LEMMA PutVaultDoc ==
    ASSUME IInv, NEW c \in Calls, PutVault(c)
    PROVE  vault' # None /\ vault'.doc = call[c].doc
<1>1. call[c].doc \in Doc /\ call[c].key \in Keys
  BY TypeParts DEF IInv, PutVault, CallShape, CarriesDoc, CarriesKey, CallT, Call
<1>2. vault' = [key |-> call[c].key, doc |-> call[c].doc]
  BY DEF PutVault
<1>3. vault' \in [key: Keys, doc: Doc]
  BY <1>1, <1>2
<1> QED
  BY <1>2, <1>3, VaultAssumption DEF VaultAssumption

LEMMA PutActiveMoves ==
    ASSUME CallT, NEW c \in Calls, PutActive(c)
    PROVE  Moves(c, "idle") \/ Moves(c, "export")
<1>1. [IdleCall EXCEPT !.op = call[c].op, !.pc = "export",
                       !.key = vaultKey', !.addr = call[c].addr].pc = "export"
  BY DEF IdleCall
<1> QED
  BY <1>1, BeginMoves, FinishMoves DEF PutActive

LEMMA WriteStep ==
    ASSUME IInv, MirrorInv, NEW c \in Calls, Continue(c), call[c].pc \in Writing
    PROVE  MirrorInv'
<1>0. CallT /\ StoreT
  BY TypeParts DEF IInv
<1>1. \A d \in Calls \ {c} : call[d].pc \notin Writing
  BY DEF IInv, ChainOK
<1> USE <1>0, <1>1, ToKeepsDoc DEF MirrorInv, WriteProgress, VaultAndMirrorAgree, Writing, CutShort
<1>2. CASE PutVault(c)
  <2>1. vault' # None /\ vault'.doc = call[c].doc
    BY <1>2, PutVaultDoc
  <2> QED
    BY <1>2, <2>1 DEF PutVault
<1>3. CASE PutWallets(c)
  BY <1>3 DEF PutWallets
<1>4. CASE PutActive(c)
  <2>1. vault # None /\ vault.doc = call[c].doc /\ wallets = Mirror(vault.doc.accts)
    BY <1>4 DEF PutActive
  <2>2. \A d \in Calls \ {c} : call'[d] = call[d]
    BY <1>4 DEF PutActive, Begin, Finish, CallT
  <2>3. call'[c].pc \in {"idle", "export"}
    BY <1>4, PutActiveMoves DEF Moves
  <2>4. stActive' = vault.doc.active /\ UNCHANGED <<vault, wallets>>
    BY <1>4, <2>1 DEF PutActive
  <2> QED
    BY <2>1, <2>2, <2>3, <2>4
<1>5. CASE WipeRecords(c)
  BY <1>5 DEF WipeRecords, ghost
<1>6. CASE WipeVault(c)
  BY <1>6 DEF WipeVault
<1>7. CASE WipeWallets(c)
  BY <1>7 DEF WipeWallets, ghost
<1>8. CASE WipeActive(c)
  <2>1. \A d \in Calls : call'[d].pc \notin CutShort
    BY <1>8 DEF WipeActive, Finish, CallT, IdleCall
  <2> QED
    BY <1>8, <2>1 DEF WipeActive
<1>9. CASE StoreFails(c)
  <2>1. \A d \in Calls : call'[d].pc \notin CutShort
    BY <1>9 DEF StoreFails, Finish, CallT, IdleCall
  <2> QED
    BY <1>9, <2>1 DEF StoreFails
<1> QED
  BY <1>2, <1>3, <1>4, <1>5, <1>6, <1>7, <1>8, <1>9
  DEF Continue, SealNew, UnlockOpens, RemoveReauthed, RevealKey, Refused, DropSessionKey,
      DropSessionStamp, PurgeRecords, RunChain, ExportSession, StampSession, ResetLocks

LEMMA MirrorStep ==
    ASSUME IInv, MirrorInv, [Next]_vars PROVE MirrorInv'
<1>0. CallT
  BY TypeParts DEF IInv
<1>1. ASSUME NEW c \in Calls, Start(c) \/ (Continue(c) /\ call[c].pc \notin Writing)
      PROVE  MirrorInv'
  BY <1>0, <1>1, QuietStep, QuietKeepsMirror
<1>2. ASSUME NEW c \in Calls, Continue(c), call[c].pc \in Writing PROVE MirrorInv'
  BY <1>2, WriteStep
<1>3. CASE RecordActivity \/ TimePasses \/ UNCHANGED vars
  <2>1. UNCHANGED <<vault, wallets, stActive, call, torn>>
    BY <1>3 DEF RecordActivity, TimePasses, vars, disk, ghost
  <2> QED
    BY <2>1 DEF MirrorInv, WriteProgress, VaultAndMirrorAgree
<1>4. ASSUME NEW b \in BOOLEAN, Restart(b) PROVE MirrorInv'
  <2>1. \A c \in Calls : call'[c].pc = "idle"
    BY <1>4 DEF Restart, IdleCall
  <2>2. /\ UNCHANGED <<vault, wallets, stActive>>
        /\ torn' = (torn \/ \E c \in Calls : call[c].pc \in CutShort)
    BY <1>4 DEF Restart, disk
  <2> QED
    BY <2>1, <2>2 DEF MirrorInv, WriteProgress, VaultAndMirrorAgree
<1> QED
  BY <1>1, <1>2, <1>3, <1>4 DEF Next

\* A finished vault write leaves the ciphertext and the cleartext mirror of one
\* snapshot, however many writes overlap: persistVault's chain and writeVault.
THEOREM MirrorMatchesVault == Spec => []VaultAndMirrorAgree
<1>1. Init => MirrorInv
  BY DEF Init, MirrorInv, WriteProgress, VaultAndMirrorAgree, IdleCall
<1>2. IInv /\ MirrorInv /\ [Next]_vars => MirrorInv'
  BY MirrorStep
<1>3. MirrorInv => VaultAndMirrorAgree
  BY DEF MirrorInv
<1> QED
  BY <1>1, <1>2, <1>3, Inductive, PTL DEF Spec

-----------------------------------------------------------------------------
(***************************************************************************)
(* What the wallet promises when the user waits: create, unlock and reset  *)
(* start only when no other of these calls is under way (OneAtATime).      *)
(* Without it the results below do not hold: vault_reset_race.cfg shows an *)
(* unlock whose write lands after a reset.                                 *)
(*                                                                         *)
(* First what each step does, field by field.                              *)
(***************************************************************************)
Turn(c, op, pc) ==
    /\ call'[c].op = op /\ call'[c].pc = pc
    /\ \A d \in Calls \ {c} : call'[d] = call[d]
Carries(c) ==
    /\ call'[c].doc = call[c].doc /\ call'[c].key = call[c].key
    /\ call'[c].list = call[c].list /\ call'[c].addr = call[c].addr
MemStill == UNCHANGED <<cur, lists, active, vaultKey, mnemonic, nextIndex>>
StoreStill == UNCHANGED <<vault, wallets, sessKey, acked, torn, erased>>
Still == MemStill /\ StoreStill

LEMMA TurnTo ==
    ASSUME CallT, NEW c \in Calls, NEW pc, To(c, pc)
    PROVE  Turn(c, call[c].op, pc) /\ Carries(c)
<1> DEFINE r == [call[c] EXCEPT !.pc = pc]
<1>1. /\ r.pc = pc /\ r.op = call[c].op /\ r.doc = call[c].doc /\ r.key = call[c].key
      /\ r.list = call[c].list /\ r.addr = call[c].addr
  BY DEF CallT, Call
<1>2. call' = [call EXCEPT ![c] = r]
  BY DEF To
<1> HIDE DEF r
<1> QED BY <1>1, <1>2 DEF CallT, Turn, Carries

LEMMA TurnBegin ==
    ASSUME CallT, NEW c \in Calls, NEW r, Begin(c, r)
    PROVE  call'[c] = r /\ Turn(c, r.op, r.pc)
BY DEF CallT, Begin, Turn

LEMMA TurnFinish ==
    ASSUME CallT, NEW c \in Calls, Finish(c)
    PROVE  Turn(c, "none", "idle") /\ call'[c].doc = None
BY DEF CallT, Finish, Turn, IdleCall

LEMMA CreateEffect ==
    ASSUME CallT, NEW c \in Calls, Create(c)
    PROVE  /\ vault = None /\ (OneAtATime => Calm)
           /\ Turn(c, "create", "sealNew") /\ call'[c].doc \in NewDocs /\ Still
<1>1. PICK d \in NewDocs : Begin(c, [IdleCall EXCEPT !.op = "create", !.pc = "sealNew", !.doc = d,
                                                     !.addr = d.accts[1].addr])
  BY DEF Create
<1> DEFINE r == [IdleCall EXCEPT !.op = "create", !.pc = "sealNew", !.doc = d, !.addr = d.accts[1].addr]
<1>2. r.op = "create" /\ r.pc = "sealNew" /\ r.doc = d
  BY DEF IdleCall
<1> HIDE DEF r
<1>3. Begin(c, r)
  BY <1>1 DEF r
<1> QED BY <1>2, <1>3, TurnBegin DEF Create, Settled, Still, MemStill, StoreStill, disk, mem, ghost

LEMMA SealNewEffect ==
    ASSUME CallT, NEW c \in Calls, SealNew(c)
    PROVE  /\ call[c].pc = "sealNew"
           /\ Turn(c, call[c].op, "queued") /\ call'[c].doc = call[c].doc /\ Still
<1>1. PICK k : Begin(c, [call[c] EXCEPT !.key = k, !.pc = "queued"])
  BY DEF SealNew
<1> DEFINE r == [call[c] EXCEPT !.key = k, !.pc = "queued"]
<1>2. r.op = call[c].op /\ r.pc = "queued" /\ r.doc = call[c].doc
  BY DEF CallT, Call
<1> HIDE DEF r
<1>3. Begin(c, r)
  BY <1>1 DEF r
<1> QED BY <1>2, <1>3, TurnBegin DEF SealNew, Still, MemStill, StoreStill, disk, sess, mem, ghost

LEMMA UnlockEffect ==
    ASSUME CallT, NEW c \in Calls, Unlock(c)
    PROVE  /\ vault # None /\ (OneAtATime => Calm /\ ~Unlocked)
           /\ Turn(c, "unlock", "kdf") /\ call'[c].doc = vault.doc /\ call'[c].key = vault.key /\ Still
<1> DEFINE r == [IdleCall EXCEPT !.op = "unlock", !.pc = "kdf", !.doc = vault.doc, !.key = vault.key]
<1>1. r.op = "unlock" /\ r.pc = "kdf" /\ r.doc = vault.doc /\ r.key = vault.key
  BY DEF IdleCall
<1> HIDE DEF r
<1>2. Begin(c, r)
  BY DEF r, Unlock
<1> QED BY <1>1, <1>2, TurnBegin DEF Unlock, Settled, Still, MemStill, StoreStill, disk, mem, ghost

LEMMA ForgetEffect ==
    ASSUME VaultAssumption, ForgetKeys PROVE ~Unlocked'
BY DEF ForgetKeys, PointTo, Unlocked

LEMMA UnlockOpensEffect ==
    ASSUME VaultAssumption, IInv, NEW c \in Calls, UnlockOpens(c)
    PROVE  /\ call[c].pc = "kdf" /\ Turn(c, call[c].op, "queued") /\ call'[c].doc = None
           /\ StoreStill /\ Unlocked' /\ Accts' = call[c].doc.accts
           /\ call[c].doc \in Doc /\ nextIndex' = NextFree(call[c].doc)
<1>0. CallT /\ MemT /\ call[c].doc \in Doc /\ call[c].key # None
  BY TypeParts DEF UnlockOpens, IInv, CallShape, CarriesDoc, CarriesKey, CallT, Call
<1>1. PICK l \in FreeLists : ApplyDoc(call[c].doc, call[c].key, l)
  BY DEF UnlockOpens
<1> DEFINE r == [call[c] EXCEPT !.doc = None, !.key = None, !.pc = "queued"]
<1>2. r.op = call[c].op /\ r.pc = "queued" /\ r.doc = None
  BY <1>0 DEF CallT, Call
<1> HIDE DEF r
<1>3. Begin(c, r)
  BY DEF r, UnlockOpens
<1>4. l \in Lists /\ l # None /\ cur' = l /\ lists'[l] = call[c].doc.accts
  BY <1>1, VaultAssumption DEF FreeLists, VaultAssumption, ApplyDoc, PointTo
<1>5. nextIndex' = NextFree(call[c].doc)
  BY <1>1 DEF ApplyDoc
<1>6. StoreStill
  BY DEF UnlockOpens, StoreStill, disk, sess, ghost
<1>7. call[c].pc = "kdf"
  BY DEF UnlockOpens
<1> QED BY <1>0, <1>2, <1>3, <1>4, <1>5, <1>6, <1>7, TurnBegin DEF Unlocked, Accts

LEMMA LockEffect ==
    ASSUME VaultAssumption, CallT, NEW c \in Calls, Lock(c)
    PROVE  /\ OneAtATime => NoLifecycleCall
           /\ Turn(c, "lock", "delKey") /\ call'[c].doc = None /\ ~Unlocked' /\ StoreStill
<1> DEFINE r == [IdleCall EXCEPT !.op = "lock", !.pc = "delKey"]
<1>1. r.op = "lock" /\ r.pc = "delKey" /\ r.doc = None
  BY DEF IdleCall
<1> HIDE DEF r
<1>2. Begin(c, r)
  BY DEF r, Lock
<1> QED BY <1>1, <1>2, TurnBegin, ForgetEffect
        DEF Lock, NotMidLifecycle, StoreStill, disk, ghost

LEMMA ResetEffect ==
    ASSUME CallT, NEW c \in Calls, Reset(c)
    PROVE  /\ OneAtATime => NoLifecycleCall
           /\ Turn(c, "reset", "readWallets") /\ call'[c].doc = None /\ Still
<1> DEFINE r == [IdleCall EXCEPT !.op = "reset", !.pc = "readWallets"]
<1>1. r.op = "reset" /\ r.pc = "readWallets" /\ r.doc = None
  BY DEF IdleCall
<1> HIDE DEF r
<1>2. Begin(c, r)
  BY DEF r, Reset
<1> QED BY <1>1, <1>2, TurnBegin DEF Reset, NotMidLifecycle, Still, MemStill, StoreStill, disk, ghost

LEMMA ExportKeyEffect ==
    ASSUME CallT, NEW c \in Calls, ExportKey(c)
    PROVE  Turn(c, "exportKey", "reveal") /\ vault # None /\ call'[c].doc = vault.doc /\ Still
<1> DEFINE r == [IdleCall EXCEPT !.op = "exportKey", !.pc = "reveal", !.doc = vault.doc, !.addr = ShownAddr]
<1>1. r.op = "exportKey" /\ r.pc = "reveal" /\ r.doc = vault.doc
  BY DEF IdleCall
<1> HIDE DEF r
<1>2. Begin(c, r)
  BY DEF r, ExportKey
<1> QED BY <1>1, <1>2, TurnBegin DEF ExportKey, Still, MemStill, StoreStill, disk, mem, ghost

\* The account operations queue a write in the same step.
AccountTurn(c) ==
    /\ Unlocked /\ Unlocked' /\ Turn(c, "account", "queued") /\ call'[c].doc = None
    /\ StoreStill /\ UNCHANGED <<cur, vaultKey, mnemonic>>

LEMMA AddEntryEffect ==
    ASSUME CallT, MemT, NEW c \in Calls, NEW e \in Entry, AddEntry(c, e), Account(c)
    PROVE  AccountTurn(c) /\ Accts' = Append(Accts, e)
<1> DEFINE r == [IdleCall EXCEPT !.op = "account", !.pc = "queued", !.addr = e.addr]
<1>1. r.op = "account" /\ r.pc = "queued" /\ r.doc = None
  BY DEF IdleCall
<1> HIDE DEF r
<1>2. Begin(c, r)
  BY DEF r, AddEntry
<1>3. Turn(c, "account", "queued") /\ call'[c].doc = None
  BY <1>1, <1>2, TurnBegin
<1>4. /\ Unlocked /\ cur' = cur /\ UNCHANGED <<vaultKey, mnemonic>> /\ StoreStill
      /\ lists' = [lists EXCEPT ![cur] = Append(Accts, e)]
  BY DEF Account, AddEntry, StoreStill, disk, ghost
<1> QED BY <1>3, <1>4 DEF AccountTurn, Unlocked, Accts, MemT

LEMMA AddAccountEffect ==
    ASSUME VaultAssumption, CallT, MemT, NEW c \in Calls, AddAccount(c)
    PROVE  /\ AccountTurn(c)
           /\ \E e \in Entry : /\ Accts' = Append(Accts, e) /\ nextIndex' >= nextIndex
                               /\ ~e.imported => e.index < nextIndex'
<1>0. Account(c) /\ nextIndex \in Nat
  BY DEF AddAccount, MemT
<1>1. CASE \E l \in Labels : /\ mnemonic # None /\ nextIndex <= MaxIndex
                             /\ AddEntry(c, HdEntry(mnemonic, nextIndex, l)) /\ nextIndex' = nextIndex + 1
  <2>1. PICK l \in Labels : AddEntry(c, HdEntry(mnemonic, nextIndex, l))
    BY <1>1
  <2>2. mnemonic \in Seeds /\ nextIndex \in 0..MaxIndex
    BY <1>0, <1>1 DEF MemT, VaultAssumption
  <2>3. HdEntry(mnemonic, nextIndex, l) \in Entry
    BY <2>2, NewEntryType
  <2>4. HdEntry(mnemonic, nextIndex, l).index = nextIndex
    BY DEF HdEntry
  <2> QED BY <1>0, <1>1, <2>1, <2>3, <2>4, AddEntryEffect
<1>2. CASE \E l \in Labels : \E a \in FreshRaw : AddEntry(c, RawEntry(a, l)) /\ nextIndex' = nextIndex
  <2>1. PICK l \in Labels, a \in FreshRaw : AddEntry(c, RawEntry(a, l))
    BY <1>2
  <2>2. RawEntry(a, l) \in Entry
    BY NewEntryType DEF FreshRaw, Addresses
  <2>3. RawEntry(a, l).imported
    BY DEF RawEntry
  <2> QED BY <1>0, <1>2, <2>1, <2>2, <2>3, AddEntryEffect
<1> QED BY <1>1, <1>2 DEF AddAccount

LEMMA ImportAccountEffect ==
    ASSUME VaultAssumption, CallT, MemT, NEW c \in Calls, ImportAccount(c)
    PROVE  /\ AccountTurn(c)
           /\ \E e \in Entry : /\ Accts' = Append(Accts, e) /\ nextIndex' >= nextIndex
                               /\ ~e.imported => e.index < nextIndex'
<1>0. Account(c) /\ nextIndex \in Nat /\ nextIndex' = nextIndex
  BY DEF ImportAccount, MemT
<1>1. PICK a \in Importable, l \in Labels : AddEntry(c, RawEntry(a, l))
  BY DEF ImportAccount
<1>2. RawEntry(a, l) \in Entry /\ RawEntry(a, l).imported
  BY NewEntryType DEF VaultAssumption, RawEntry
<1> QED BY <1>0, <1>1, <1>2, AddEntryEffect

LEMMA SwitchAccountEffect ==
    ASSUME CallT, MemT, NEW c \in Calls, SwitchAccount(c)
    PROVE  AccountTurn(c) /\ Accts' = Accts /\ nextIndex' = nextIndex
<1> DEFINE r == [IdleCall EXCEPT !.op = "account", !.pc = "queued"]
<1>1. r.op = "account" /\ r.pc = "queued" /\ r.doc = None
  BY DEF IdleCall
<1> HIDE DEF r
<1>2. Begin(c, r)
  BY DEF r, SwitchAccount
<1> QED BY <1>1, <1>2, TurnBegin DEF SwitchAccount, Account, AccountTurn, Unlocked, Accts, StoreStill, disk, ghost

LEMMA RenameAccountEffect ==
    ASSUME CallT, MemT, NEW c \in Calls, RenameAccount(c)
    PROVE  /\ AccountTurn(c) /\ nextIndex' = nextIndex
           /\ Len(Accts') = Len(Accts)
           /\ \A i \in 1..Len(Accts) : /\ Accts'[i].addr = Accts[i].addr
                                       /\ Accts'[i].imported = Accts[i].imported
                                       /\ Accts'[i].index = Accts[i].index
<1> DEFINE r == [IdleCall EXCEPT !.op = "account", !.pc = "queued"]
<1>1. r.op = "account" /\ r.pc = "queued" /\ r.doc = None
  BY DEF IdleCall
<1> HIDE DEF r
<1>2. Begin(c, r)
  BY DEF r, RenameAccount
<1>3. AccountTurn(c) /\ nextIndex' = nextIndex
  BY <1>1, <1>2, TurnBegin DEF RenameAccount, Account, AccountTurn, Unlocked, StoreStill, disk, ghost
<1>4. cur \in Lists /\ cur' = cur /\ Accts \in Seq(Entry)
  BY <1>3 DEF AccountTurn, Unlocked, MemT, Accts
<1>5. PICK a \in AddrsOf(Accts), l \in Labels :
         lists' = [lists EXCEPT ![cur][SlotOf(Accts, a)].label = l]
  BY DEF RenameAccount
<1> DEFINE k == SlotOf(Accts, a)
           e == [Accts[k] EXCEPT !.label = l]
<1>6. k \in 1..Len(Accts)
  BY <1>4, SlotOfIsSlot
<1>7. e.addr = Accts[k].addr /\ e.imported = Accts[k].imported /\ e.index = Accts[k].index
  <2>1. Accts[k] \in Entry
    BY <1>4, <1>6
  <2> QED BY <2>1 DEF Entry
<1>8. Accts' = [Accts EXCEPT ![k] = e]
  BY <1>4, <1>5 DEF Accts, MemT
<1> HIDE DEF k, e
<1>9. Len(Accts') = Len(Accts)
  BY <1>4, <1>8
<1> QED BY <1>3, <1>4, <1>6, <1>7, <1>8, <1>9


\* An array without its slot i: the entries before it stay, the later move up.
LEMMA RemoveAtItems ==
    ASSUME NEW S, NEW s \in Seq(S), NEW i \in 1..Len(s)
    PROVE  /\ RemoveAt(s, i) \in Seq(S) /\ Len(RemoveAt(s, i)) = Len(s) - 1
           /\ \A j \in 1..(Len(s) - 1) : RemoveAt(s, i)[j] = IF j < i THEN s[j] ELSE s[j + 1]
<1> DEFINE a == SubSeq(s, 1, i - 1)
           b == SubSeq(s, i + 1, Len(s))
<1>1. Len(s) \in Nat /\ i \in Nat /\ 1 <= i /\ i <= Len(s)
  OBVIOUS
<1>2. a \in Seq(S) /\ Len(a) = i - 1 /\ \A j \in 1..(i - 1) : a[j] = s[j]
  BY SubSeqProperties
<1>3. b \in Seq(S) /\ Len(b) = Len(s) - i /\ \A j \in 1..(Len(s) - i) : b[j] = s[i + j]
  BY SubSeqProperties
<1>4. RemoveAt(s, i) = a \o b
  BY DEF RemoveAt
<1> HIDE DEF a, b
<1>5. \A j \in 1..(Len(s) - 1) : (a \o b)[j] = IF j < i THEN s[j] ELSE s[j + 1]
  <2> SUFFICES ASSUME NEW j \in 1..(Len(s) - 1) PROVE (a \o b)[j] = IF j < i THEN s[j] ELSE s[j + 1]
    OBVIOUS
  <2>1. (a \o b)[j] = IF j <= Len(a) THEN a[j] ELSE b[j - Len(a)]
    BY <1>1, <1>2, <1>3, ConcatProperties
  <2>2. CASE j < i
    BY <1>1, <1>2, <2>1, <2>2
  <2>3. CASE ~(j < i)
    <3>1. j - (i - 1) \in 1..(Len(s) - i) /\ i + (j - (i - 1)) = j + 1
      BY <1>1, <2>3
    <3>2. (a \o b)[j] = b[j - (i - 1)]
      BY <1>1, <1>2, <2>1, <2>3
    <3> QED BY <1>3, <2>3, <3>1, <3>2
  <2> QED BY <2>2, <2>3
<1> QED BY <1>4, <1>5, RemoveAtShrinks

\* Taking address a out of array l.
SpliceTurn(c, l, a) ==
    /\ Turn(c, "remove", "purge") /\ call'[c].doc = None /\ call'[c].addr = a
    /\ UNCHANGED <<cur, vaultKey, mnemonic, nextIndex, vault, wallets, sessKey, torn, erased>>
    /\ lists' = [lists EXCEPT ![l] = RemoveAt(@, SlotOf(lists[l], a))]
    /\ active' = ActiveAfter(SlotOf(lists[l], a), Len(lists[l]) - 1)
    /\ acked' = acked \ {a}

LEMMA SpliceEffect ==
    ASSUME CallT, NEW c \in Calls, NEW l, NEW a, Splice(c, l, a),
           UNCHANGED <<cur, vaultKey, mnemonic, nextIndex, vault, wallets, sessKey, torn, erased>>
    PROVE  SpliceTurn(c, l, a)
<1> DEFINE r == [IdleCall EXCEPT !.op = "remove", !.pc = "purge", !.addr = a]
<1>1. r.op = "remove" /\ r.pc = "purge" /\ r.doc = None /\ r.addr = a
  BY DEF IdleCall
<1> HIDE DEF r
<1>2. Begin(c, r)
  BY DEF r, Splice
<1> QED BY <1>1, <1>2, TurnBegin DEF Splice, SpliceTurn

LEMMA RemoveAccountEffect ==
    ASSUME CallT, NEW c \in Calls, RemoveAccount(c)
    PROVE  /\ Unlocked
           /\ \/ /\ Turn(c, "remove", "reauth") /\ call'[c].doc = None /\ call'[c].list = cur /\ Still
              \/ \E a \in AddrsOf(Accts) : SpliceTurn(c, cur, a)
<1>1. PICK a \in AddrsOf(Accts) :
         IF Accts[SlotOf(Accts, a)].imported
         THEN /\ Begin(c, [IdleCall EXCEPT !.op = "remove", !.pc = "reauth", !.list = cur, !.addr = a])
              /\ UNCHANGED <<lists, active, acked>>
         ELSE Splice(c, cur, a)
  BY DEF RemoveAccount
<1>2. /\ Unlocked
      /\ UNCHANGED <<cur, vaultKey, mnemonic, nextIndex, vault, wallets, sessKey, torn, erased>>
  BY DEF RemoveAccount, disk
<1> DEFINE r == [IdleCall EXCEPT !.op = "remove", !.pc = "reauth", !.list = cur, !.addr = a]
<1>3. r.op = "remove" /\ r.pc = "reauth" /\ r.doc = None /\ r.list = cur
  BY DEF IdleCall
<1>4. \/ Begin(c, r) /\ UNCHANGED <<lists, active, acked>>
      \/ Splice(c, cur, a)
  BY <1>1
<1> HIDE DEF r
<1>5. CASE Begin(c, r) /\ UNCHANGED <<lists, active, acked>>
  BY <1>2, <1>3, <1>5, TurnBegin DEF Still, MemStill, StoreStill
<1>6. CASE Splice(c, cur, a)
  BY <1>2, <1>6, SpliceEffect
<1> QED BY <1>4, <1>5, <1>6

LEMMA RemoveReauthedEffect ==
    ASSUME CallT, NEW c \in Calls, RemoveReauthed(c)
    PROVE  /\ call[c].pc = "reauth" /\ call[c].addr \in AddrsOf(lists[call[c].list])
           /\ SpliceTurn(c, call[c].list, call[c].addr)
BY SpliceEffect DEF RemoveReauthed, disk, sess

LEMMA EndEffect ==
    ASSUME CallT, NEW c \in Calls, RevealKey(c) \/ Refused(c) \/ StampSession(c)
    PROVE  /\ call[c].pc \in {"reveal", "kdf", "reauth", "stamp"}
           /\ Turn(c, "none", "idle") /\ call'[c].doc = None /\ Still
BY TurnFinish DEF RevealKey, Refused, StampSession, Still, MemStill, StoreStill, disk, sess, mem, ghost

LEMMA DropSessionKeyEffect ==
    ASSUME CallT, NEW c \in Calls, DropSessionKey(c)
    PROVE  /\ call[c].pc = "delKey" /\ Turn(c, call[c].op, "delTs") /\ Carries(c)
           /\ sessKey' = None /\ MemStill /\ UNCHANGED <<vault, wallets, acked, torn, erased>>
BY TurnTo DEF DropSessionKey, MemStill, disk, mem, ghost

LEMMA DropSessionStampEffect ==
    ASSUME CallT, NEW c \in Calls, DropSessionStamp(c)
    PROVE  /\ call[c].pc = "delTs" /\ Still
           /\ IF call[c].op = "reset" THEN Turn(c, "reset", "queued") /\ Carries(c)
              ELSE Turn(c, "none", "idle") /\ call'[c].doc = None
BY TurnTo, TurnFinish DEF DropSessionStamp, Still, MemStill, StoreStill, disk, mem, ghost

LEMMA PurgeRecordsEffect ==
    ASSUME CallT, NEW c \in Calls, PurgeRecords(c)
    PROVE  call[c].pc = "purge" /\ Turn(c, call[c].op, "queued") /\ Carries(c) /\ Still
BY TurnTo DEF PurgeRecords, Still, MemStill, StoreStill, sess, mem, ghost

\* The head of the chain takes its snapshot, or finds the wallet locked.
LEMMA RunChainEffect ==
    ASSUME CallT, NEW c \in Calls, RunChain(c)
    PROVE  /\ call[c].pc = "queued" /\ Heads(c) /\ Still
           /\ \/ call[c].op = "create" /\ Turn(c, "create", "putVault") /\ Carries(c)
              \/ call[c].op = "reset" /\ Turn(c, "reset", "delRecs") /\ Carries(c)
              \/ /\ call[c].op \notin {"create", "reset"} /\ Unlocked
                 /\ Turn(c, call[c].op, "putVault") /\ call'[c].addr = call[c].addr
                 /\ call'[c].doc = BuildDoc /\ call'[c].key = vaultKey
              \/ /\ call[c].op \notin {"create", "reset"} /\ ~Unlocked
                 /\ Turn(c, "none", "idle") /\ call'[c].doc = None
<1> DEFINE r == [call[c] EXCEPT !.doc = BuildDoc, !.key = vaultKey, !.pc = "putVault"]
<1>1. /\ r.op = call[c].op /\ r.pc = "putVault" /\ r.doc = BuildDoc /\ r.key = vaultKey
      /\ r.addr = call[c].addr
  BY DEF CallT, Call
<1>2. \/ call[c].op = "create" /\ To(c, "putVault")
      \/ call[c].op = "reset" /\ To(c, "delRecs")
      \/ call[c].op \notin {"create", "reset"} /\ Unlocked /\ Begin(c, r)
      \/ call[c].op \notin {"create", "reset"} /\ ~Unlocked /\ Finish(c)
  BY DEF RunChain
<1> HIDE DEF r
<1>3. call[c].pc = "queued" /\ Heads(c) /\ Still
  BY DEF RunChain, Still, MemStill, StoreStill, disk, sess, mem, ghost
<1>4. CASE call[c].op = "create" /\ To(c, "putVault")
  BY <1>3, <1>4, TurnTo
<1>5. CASE call[c].op = "reset" /\ To(c, "delRecs")
  BY <1>3, <1>5, TurnTo
<1>6. CASE call[c].op \notin {"create", "reset"} /\ Unlocked /\ Begin(c, r)
  BY <1>1, <1>3, <1>6, TurnBegin
<1>7. CASE call[c].op \notin {"create", "reset"} /\ ~Unlocked /\ Finish(c)
  BY <1>3, <1>7, TurnFinish
<1> QED BY <1>2, <1>4, <1>5, <1>6, <1>7


LEMMA PutVaultEffect ==
    ASSUME CallT, NEW c \in Calls, PutVault(c)
    PROVE  /\ call[c].pc = "putVault" /\ Turn(c, call[c].op, "putWallets") /\ Carries(c)
           /\ vault' = [key |-> call[c].key, doc |-> call[c].doc]
           /\ erased' = (erased /\ call[c].op # "create")
           /\ MemStill /\ UNCHANGED <<wallets, sessKey, acked, torn>>
BY TurnTo DEF PutVault, MemStill, mem, sess

LEMMA PutWalletsEffect ==
    ASSUME CallT, NEW c \in Calls, PutWallets(c)
    PROVE  /\ call[c].pc = "putWallets" /\ Turn(c, call[c].op, "putActive") /\ Carries(c)
           /\ wallets' = Mirror(call[c].doc.accts)
           /\ MemStill /\ UNCHANGED <<vault, sessKey, acked, torn, erased>>
BY TurnTo DEF PutWallets, MemStill, mem, sess, ghost

\* What a finished write leaves: a new wallet is adopted, the session key of a
\* wallet just opened is still to be stored, and a promised account is noted.
LEMMA PutActiveEffect ==
    ASSUME VaultAssumption, IInv, NEW c \in Calls, PutActive(c)
    PROVE  /\ call[c].pc = "putActive" /\ call'[c].doc = None
           /\ UNCHANGED <<vault, wallets, sessKey, erased>> /\ torn' = FALSE
           /\ IF call[c].op = "create"
              THEN /\ Turn(c, "create", "export") /\ Unlocked' /\ Accts' = call[c].doc.accts
                   /\ active' = call[c].doc.active /\ nextIndex' = call[c].doc.nextIndex
                   /\ mnemonic' = call[c].doc.mnemonic /\ vaultKey' = call[c].key
              ELSE MemStill
           /\ call[c].op = "unlock" /\ Unlocked => Turn(c, "unlock", "export")
           /\ call[c].op = "unlock" => Turn(c, "unlock", "export") \/ Turn(c, "none", "idle")
           /\ call[c].op \notin {"create", "unlock"} => Turn(c, "none", "idle")
           /\ acked' \subseteq acked \cup (AddrsOf(call[c].doc.accts) \ Removing)
<1>0. CallT /\ call[c].key # None /\ (Unlocked => vaultKey # None)
  BY TypeParts DEF PutActive, IInv, CallShape, CarriesDoc, CarriesKey, MemoryShape
<1> DEFINE r == [IdleCall EXCEPT !.op = call[c].op, !.pc = "export", !.key = vaultKey', !.addr = call[c].addr]
<1>1. r.op = call[c].op /\ r.pc = "export" /\ r.doc = None
  BY DEF IdleCall
<1>2. IF call[c].op \in {"create", "unlock"}
      THEN IF vaultKey' = None THEN Finish(c) ELSE Begin(c, r)
      ELSE Finish(c)
  BY DEF PutActive
<1> HIDE DEF r
<1>3. IF call[c].op \in {"create", "unlock"} /\ vaultKey' # None
      THEN Turn(c, call[c].op, "export") /\ call'[c].doc = None
      ELSE Turn(c, "none", "idle") /\ call'[c].doc = None
  BY <1>0, <1>1, <1>2, TurnBegin, TurnFinish
<1>4. CASE call[c].op = "create"
  <2>1. Adopt(c)
    BY <1>4 DEF PutActive
  <2>2. PICK l \in FreeLists : PointTo(l, call[c].doc.accts)
    BY <2>1 DEF Adopt
  <2>3. l \in Lists /\ l # None /\ cur' = l /\ lists'[l] = call[c].doc.accts
    BY <2>2, VaultAssumption DEF FreeLists, VaultAssumption, PointTo
  <2>4. /\ active' = call[c].doc.active /\ nextIndex' = call[c].doc.nextIndex
        /\ mnemonic' = call[c].doc.mnemonic /\ vaultKey' = call[c].key
    BY <2>1 DEF Adopt
  <2> QED BY <1>0, <1>3, <1>4, <2>3, <2>4 DEF PutActive, Unlocked, Accts
<1>5. CASE call[c].op # "create"
  <2>1. MemStill
    BY <1>5 DEF PutActive, mem, MemStill
  <2> QED BY <1>0, <1>3, <1>5, <2>1 DEF PutActive, MemStill, Unlocked
<1> QED BY <1>4, <1>5

LEMMA ExportSessionEffect ==
    ASSUME CallT, NEW c \in Calls, ExportSession(c)
    PROVE  /\ call[c].pc = "export" /\ Turn(c, call[c].op, "stamp") /\ Carries(c)
           /\ MemStill /\ UNCHANGED <<vault, wallets, acked, torn, erased>>
BY TurnTo DEF ExportSession, MemStill, disk, mem, ghost

LEMMA ResetLocksEffect ==
    ASSUME VaultAssumption, CallT, NEW c \in Calls, ResetLocks(c)
    PROVE  /\ call[c].pc = "readWallets" /\ Turn(c, call[c].op, "delKey")
           /\ call'[c].doc = call[c].doc /\ ~Unlocked' /\ StoreStill
<1> DEFINE r == [call[c] EXCEPT !.pub = wallets, !.pc = "delKey"]
<1>1. r.op = call[c].op /\ r.pc = "delKey" /\ r.doc = call[c].doc
  BY DEF CallT, Call
<1> HIDE DEF r
<1>2. Begin(c, r)
  BY DEF r, ResetLocks
<1> QED BY <1>1, <1>2, TurnBegin, ForgetEffect DEF ResetLocks, StoreStill, disk, sess, ghost

LEMMA WipeEffect ==
    ASSUME CallT, NEW c \in Calls, WipeRecords(c) \/ WipeVault(c) \/ WipeWallets(c)
    PROVE  /\ call[c].pc \in {"delRecs", "delVault", "delWallets"}
           /\ \E pc \in {"delVault", "delWallets", "delActive"} : Turn(c, call[c].op, pc)
           /\ Carries(c) /\ MemStill /\ UNCHANGED <<sessKey, torn, erased>>
           /\ vault' \in {vault, None} /\ (vault' = vault \/ (vault' = None /\ acked' = {}))
           /\ acked' \subseteq acked /\ wallets' \in {wallets, <<>>}
           /\ call[c].pc # "delVault" => UNCHANGED <<vault, acked>>
<1>1. CASE WipeRecords(c)
  <2>1. Turn(c, call[c].op, "delVault") /\ Carries(c)
    BY <1>1, TurnTo DEF WipeRecords
  <2>2. /\ call[c].pc = "delRecs" /\ UNCHANGED <<vault, sessKey, acked, torn, erased>>
        /\ MemStill /\ wallets' \in {wallets, <<>>}
    BY <1>1 DEF WipeRecords, MemStill, sess, mem, ghost
  <2> QED BY <2>1, <2>2
<1>2. CASE WipeVault(c)
  <2>1. Turn(c, call[c].op, "delWallets") /\ Carries(c)
    BY <1>2, TurnTo DEF WipeVault
  <2> QED BY <1>2, <2>1 DEF WipeVault, MemStill, sess, mem
<1>3. CASE WipeWallets(c)
  <2>1. Turn(c, call[c].op, "delActive") /\ Carries(c)
    BY <1>3, TurnTo DEF WipeWallets
  <2>2. /\ call[c].pc = "delWallets" /\ UNCHANGED <<vault, sessKey, acked, torn, erased>>
        /\ MemStill /\ wallets' \in {wallets, <<>>}
    BY <1>3 DEF WipeWallets, MemStill, sess, mem, ghost
  <2> QED BY <2>1, <2>2
<1> QED BY <1>1, <1>2, <1>3

LEMMA WipeActiveEffect ==
    ASSUME CallT, NEW c \in Calls, WipeActive(c)
    PROVE  /\ call[c].pc = "delActive" /\ Turn(c, "none", "idle") /\ call'[c].doc = None
           /\ MemStill /\ UNCHANGED <<vault, wallets, sessKey, acked>> /\ torn' = FALSE /\ erased'
BY TurnFinish DEF WipeActive, MemStill, sess, mem

LEMMA StoreFailsEffect ==
    ASSUME CallT, NEW c \in Calls, StoreFails(c)
    PROVE  /\ call[c].pc \in Writing /\ Turn(c, "none", "idle") /\ call'[c].doc = None
           /\ MemStill /\ UNCHANGED <<vault, wallets, sessKey, acked, erased>> /\ torn'
BY TurnFinish DEF StoreFails, MemStill, disk, sess, mem

LEMMA RestartEffect ==
    ASSUME VaultAssumption, StoreT, NEW b \in BOOLEAN, Restart(b)
    PROVE  /\ \A c \in Calls : call'[c] = IdleCall
           /\ UNCHANGED <<vault, wallets, acked, erased>> /\ (torn => torn')
           /\ Unlocked' => /\ vault # None /\ Accts' = vault.doc.accts
                           /\ active' = Clamp(vault.doc.active, Len(vault.doc.accts))
                           /\ nextIndex' = NextFree(vault.doc) /\ mnemonic' = vault.doc.mnemonic
                           /\ vaultKey' = vault.key
           /\ ~Unlocked' => sessKey' = None
<1> DEFINE resumes == /\ ~b /\ sessKey # None /\ sessTs = "fresh" /\ vault # None /\ vault.key = sessKey
           keeps == resumes \/ (~b /\ sessKey = None)
<1>1. /\ UNCHANGED <<vault, wallets, acked, erased>> /\ (torn => torn')
      /\ \A c \in Calls : call'[c] = IdleCall
  BY DEF Restart, disk
<1>2. sessKey' = IF keeps THEN sessKey ELSE None
  BY DEF Restart
<1>3. CASE resumes
  <2>1. PICK l \in Lists : cur' = l /\ lists' = [m \in Lists |-> IF m = l THEN vault.doc.accts ELSE <<>>]
    BY <1>3 DEF Restart
  <2>2. /\ active' = Clamp(vault.doc.active, Len(vault.doc.accts))
        /\ nextIndex' = NextFree(vault.doc) /\ mnemonic' = vault.doc.mnemonic /\ vaultKey' = sessKey
    BY <1>3 DEF Restart
  <2>3. Unlocked' /\ Accts' = vault.doc.accts
    BY <2>1, VaultAssumption DEF VaultAssumption, Unlocked, Accts
  <2> QED BY <1>1, <1>3, <2>2, <2>3
<1>4. CASE ~resumes
  <2>1. cur' = None
    BY <1>4 DEF Restart
  <2> QED BY <1>1, <1>2, <1>4, <2>1 DEF Unlocked
<1> QED BY <1>3, <1>4

LEMMA OtherEffect ==
    ASSUME RecordActivity \/ TimePasses \/ UNCHANGED vars
    PROVE  call' = call /\ Still
BY DEF RecordActivity, TimePasses, Still, MemStill, StoreStill, vars, disk, sess, mem, ghost


-----------------------------------------------------------------------------
(***************************************************************************)
(* The invariant.  Which steps an operation has; that create, unlock and   *)
(* reset are alone, and what that leaves of the others; what the store     *)
(* holds at each of their steps; and, for each property, what carries it   *)
(* from the call that makes it true to the call that needs it.             *)
(***************************************************************************)
Put == {"putVault", "putWallets", "putActive"}
StepsOf(op) ==
    CASE op = "none" -> {"idle"}
      [] op = "create" -> {"sealNew", "queued", "export", "stamp"} \cup Put
      [] op = "unlock" -> {"kdf", "queued", "export", "stamp"} \cup Put
      [] op = "lock" -> {"delKey", "delTs"}
      [] op = "account" -> {"queued"} \cup Put
      [] op = "remove" -> {"reauth", "purge", "queued"} \cup Put
      [] op = "reset" -> {"readWallets", "delKey", "delTs", "queued",
                          "delRecs", "delVault", "delWallets", "delActive"}
      [] op = "exportKey" -> {"reveal"}
StepsOk == \A c \in Calls : call[c].pc \in StepsOf(call[c].op)

\* A create or unlock that has not opened the wallet yet.
Lifecycle == {"create", "unlock", "reset"}
Opens(r) == r.pc = "kdf" \/ (r.op = "create" /\ r.pc \notin {"export", "stamp"})

OneLife ==
    /\ \A c, d \in Calls : call[c].op \in Lifecycle /\ call[d].op \in Lifecycle => c = d
    /\ \A c \in Calls : Opens(call[c]) =>
          ~Unlocked /\ \A d \in Calls \ {c} : call[d].op \in {"none", "exportKey"}
    /\ \A c \in Calls : call[c].op \in {"create", "unlock"} /\ ~Opens(call[c]) => Unlocked
    /\ \A c \in Calls : call[c].op = "reset" /\ call[c].pc # "readWallets" => ~Unlocked
    /\ \A c \in Calls : call[c].pc = "reauth" /\ Unlocked => call[c].list = cur

\* What each step of create, unlock and reset finds in the store.
Stores(r) == [key |-> r.key, doc |-> r.doc]
StoredOk ==
    /\ \A c \in Calls : call[c].pc \in {"kdf", "putWallets", "putActive"} => vault = Stores(call[c])
    /\ \A c \in Calls : call[c].op = "create" /\ call[c].pc \in {"sealNew", "queued", "putVault"} => vault = None
    /\ Unlocked => vault # None
    /\ erased => /\ vault = None /\ wallets = <<>>
                 /\ \A c \in Calls : call[c].pc \in Put => call[c].op = "create" /\ call[c].pc = "putVault"

\* A locked wallet's key is gone from the session, or a lock is about to drop it.
KeyDropped == ~Unlocked => sessKey = None \/ \E c \in Calls : call[c].pc = "delKey"

\* The next derivation index is above every index in use.
IndexOk(accts, next) == \A i \in 1..Len(accts) : ~accts[i].imported => accts[i].index < next
IndexInv ==
    /\ Unlocked => IndexOk(Accts, nextIndex)
    /\ vault # None => IndexOk(vault.doc.accts, vault.doc.nextIndex)
    /\ \A c \in Calls : call[c].doc # None => IndexOk(call[c].doc.accts, call[c].doc.nextIndex)

\* A change of the memory is in the store, on its way there, or a write is due.
Dirty == \E c \in Calls : /\ call[c].op \in {"unlock", "account", "remove"}
                          /\ call[c].pc \in {"queued", "purge"}
Memory == [key |-> vaultKey, doc |-> BuildDoc]
FreshInv ==
    Unlocked /\ ~Dirty =>
        /\ \A c \in Calls : call[c].pc \in Put => Stores(call[c]) = Memory
        /\ ~torn /\ (\A c \in Calls : call[c].pc \notin Put) => vault = Memory

\* A promised account is in the store, in memory, and in what is about to be
\* stored; what memory has lost since a snapshot, a removal still owes.
Gone == {call[c].addr : c \in {d \in Calls : call[d].op = "remove" /\ call[d].pc # "reauth"}}
AckInv ==
    /\ vault = None => acked = {}
    /\ vault # None => acked \subseteq AddrsOf(vault.doc.accts)
    /\ Unlocked => acked \subseteq AddrsOf(Accts)
    /\ \A c \in Calls : call[c].pc = "putVault" => acked \subseteq AddrsOf(call[c].doc.accts)
    /\ \A c \in Calls : Unlocked /\ call[c].pc \in Put =>
          AddrsOf(call[c].doc.accts) \subseteq AddrsOf(Accts) \cup Gone

LifeInv == StepsOk /\ OneLife /\ StoredOk /\ KeyDropped /\ IndexInv /\ FreshInv /\ AckInv
AllInv == IInv /\ MirrorInv /\ LifeInv

LEMMA Steps ==
    ASSUME CallT, StepsOk, NEW c \in Calls
    PROVE  /\ call[c].pc \in StepsOf(call[c].op)
           /\ call[c].pc = "idle" <=> call[c].op = "none"
           /\ call[c].pc = "sealNew" => call[c].op = "create"
           /\ call[c].pc = "kdf" => call[c].op = "unlock"
           /\ call[c].pc \in {"reauth", "purge"} => call[c].op = "remove"
           /\ call[c].pc = "reveal" => call[c].op = "exportKey"
           /\ call[c].pc \in {"delKey", "delTs"} => call[c].op \in {"lock", "reset"}
           /\ call[c].pc \in {"readWallets", "delRecs", "delVault", "delWallets", "delActive"} =>
                 call[c].op = "reset"
           /\ call[c].pc \in {"export", "stamp"} => call[c].op \in {"create", "unlock"}
           /\ call[c].pc \in Put => call[c].op \in {"create", "unlock", "account", "remove"}
           /\ call[c].pc = "queued" => call[c].op \in {"create", "unlock", "account", "remove", "reset"}
<1>1. call[c].op \in {"none", "create", "unlock", "lock", "account", "remove", "reset", "exportKey"}
  BY DEF CallT, Call
<1>2. call[c].pc \in StepsOf(call[c].op)
  BY DEF StepsOk
<1> QED BY <1>1, <1>2 DEF StepsOf, Put

LEMMA StepsTurn ==
    ASSUME StepsOk, NEW c \in Calls, NEW op, NEW pc, Turn(c, op, pc), pc \in StepsOf(op)
    PROVE  StepsOk'
BY DEF StepsOk, Turn

\* Every call goes through the steps of its operation.
LEMMA StepsStep ==
    ASSUME VaultAssumption, IInv, StepsOk, NEW c \in Calls, Start(c) \/ Continue(c)
    PROVE  StepsOk'
<1>0. CallT /\ MemT /\ StoreT
  BY TypeParts DEF IInv
<1>s. /\ call[c].pc \in StepsOf(call[c].op) /\ Put = {"putVault", "putWallets", "putActive"}
      /\ call[c].pc \in {"reveal", "kdf", "reauth", "stamp"} => call[c].op # "none"
  BY <1>0, Steps DEF Put
<1> USE <1>0, StepsTurn DEF StepsOf
<1>1. CASE Create(c)            BY <1>1, CreateEffect
<1>2. CASE Unlock(c)            BY <1>2, UnlockEffect
<1>3. CASE Lock(c)              BY <1>3, LockEffect
<1>4. CASE Reset(c)             BY <1>4, ResetEffect
<1>5. CASE ExportKey(c)         BY <1>5, ExportKeyEffect
<1>6. CASE AddAccount(c)        BY <1>6, AddAccountEffect DEF AccountTurn
<1>7. CASE ImportAccount(c)     BY <1>7, ImportAccountEffect DEF AccountTurn
<1>8. CASE SwitchAccount(c)     BY <1>8, SwitchAccountEffect DEF AccountTurn
<1>9. CASE RenameAccount(c)     BY <1>9, RenameAccountEffect DEF AccountTurn
<1>10. CASE RemoveAccount(c)    BY <1>10, RemoveAccountEffect DEF SpliceTurn
<1>11. CASE SealNew(c)          BY <1>11, SealNewEffect, Steps
<1>12. CASE UnlockOpens(c)      BY <1>12, UnlockOpensEffect, Steps
<1>13. CASE RemoveReauthed(c)   BY <1>13, RemoveReauthedEffect DEF SpliceTurn
<1>14. CASE RevealKey(c) \/ Refused(c) \/ StampSession(c) BY <1>14, EndEffect
<1>15. CASE DropSessionKey(c)   BY <1>15, DropSessionKeyEffect, Steps
<1>16. CASE DropSessionStamp(c) BY <1>16, DropSessionStampEffect
<1>17. CASE PurgeRecords(c)     BY <1>17, PurgeRecordsEffect, Steps
<1>18. CASE RunChain(c)         BY <1>18, RunChainEffect, Steps, <1>s
<1>19. CASE PutVault(c)         BY <1>19, PutVaultEffect, Steps, <1>s
<1>20. CASE PutWallets(c)       BY <1>20, PutWalletsEffect, Steps, <1>s
<1>21. CASE PutActive(c)        BY <1>21, PutActiveEffect, Steps, <1>s
<1>22. CASE ExportSession(c)    BY <1>22, ExportSessionEffect, Steps
<1>23. CASE ResetLocks(c)       BY <1>23, ResetLocksEffect, Steps
<1>24. CASE WipeRecords(c) \/ WipeVault(c) \/ WipeWallets(c)
  BY <1>24, WipeEffect, Steps
<1>25. CASE WipeActive(c)       BY <1>25, WipeActiveEffect
<1>26. CASE StoreFails(c)       BY <1>26, StoreFailsEffect
<1> QED BY <1>1, <1>2, <1>3, <1>4, <1>5, <1>6, <1>7, <1>8, <1>9, <1>10, <1>11, <1>12, <1>13, <1>14,
           <1>15, <1>16, <1>17, <1>18, <1>19, <1>20, <1>21, <1>22, <1>23, <1>24, <1>25, <1>26
        DEF Start, Continue


\* create, unlock and reset stay alone, and a wallet one of them has opened or
\* locked stays so while it runs.
LEMMA OneLifeStep ==
    ASSUME VaultAssumption, OneAtATime, AllInv, NEW c \in Calls, Start(c) \/ Continue(c)
    PROVE  OneLife'
<1>0. CallT /\ MemT /\ StoreT /\ StepsOk /\ OneLife /\ IInv
  BY TypeParts DEF AllInv, LifeInv, IInv
<1>s. Lifecycle = {"create", "unlock", "reset"} /\ Put = {"putVault", "putWallets", "putActive"}
  BY DEF Lifecycle, Put
<1>m. MemStill => (Unlocked' <=> Unlocked) /\ cur' = cur
  BY DEF MemStill, Unlocked
<1>i. Calm => \A d \in Calls : call[d].op = "none"
  BY <1>0, Steps DEF Calm, Idle
<1>n. NoLifecycleCall => \A d \in Calls : call[d].op \notin Lifecycle
  BY DEF NoLifecycleCall, Lifecycle
<1>k. \A d \in Calls : /\ call[d].pc = "kdf" => call[d].op = "unlock"
                       /\ call[d].pc = "reauth" => call[d].op = "remove"
  BY <1>0, Steps
<1> USE <1>0, <1>s, <1>m DEF OneLife, Opens, Turn
<1>1. CASE Create(c)
  <2>1. ~Unlocked
    BY <1>1, CreateEffect DEF AllInv, LifeInv, StoredOk
  <2>2. \A d \in Calls : call[d].op = "none"
    BY <1>1, CreateEffect, <1>i
  <2>3. Turn(c, "create", "sealNew") /\ MemStill
    BY <1>1, CreateEffect DEF Still
  <2> QED BY <2>1, <2>2, <2>3, <1>k
<1>2. CASE Unlock(c)
  <2>1. ~Unlocked /\ \A d \in Calls : call[d].op = "none"
    BY <1>2, UnlockEffect, <1>i
  <2>2. Turn(c, "unlock", "kdf") /\ MemStill
    BY <1>2, UnlockEffect DEF Still
  <2> QED BY <2>1, <2>2, <1>k
<1>3. CASE Lock(c)
  <2>1. NoLifecycleCall
    BY <1>3, LockEffect
  <2> QED BY <1>3, <2>1, LockEffect, <1>n, <1>k
<1>4. CASE Reset(c)
  <2>1. NoLifecycleCall
    BY <1>4, ResetEffect
  <2> QED BY <1>4, <2>1, ResetEffect, <1>n, <1>k DEF Still
<1>5. CASE ExportKey(c)         BY <1>5, ExportKeyEffect DEF Still
<1>6. CASE AddAccount(c)        BY <1>6, AddAccountEffect DEF AccountTurn
<1>7. CASE ImportAccount(c)     BY <1>7, ImportAccountEffect DEF AccountTurn
<1>8. CASE SwitchAccount(c)     BY <1>8, SwitchAccountEffect DEF AccountTurn
<1>9. CASE RenameAccount(c)     BY <1>9, RenameAccountEffect DEF AccountTurn
<1>10. CASE RemoveAccount(c)    BY <1>10, RemoveAccountEffect DEF SpliceTurn, Still, Unlocked
<1>11. CASE SealNew(c)          BY <1>11, SealNewEffect, Steps DEF Still
<1>12. CASE UnlockOpens(c)      BY <1>12, UnlockOpensEffect, Steps, <1>k
<1>13. CASE RemoveReauthed(c)   BY <1>13, RemoveReauthedEffect, Steps DEF SpliceTurn, Unlocked
<1>14. CASE RevealKey(c) \/ Refused(c) \/ StampSession(c) BY <1>14, EndEffect DEF Still
<1>15. CASE DropSessionKey(c)   BY <1>15, DropSessionKeyEffect, Steps
<1>16. CASE DropSessionStamp(c) BY <1>16, DropSessionStampEffect, Steps DEF Still
<1>17. CASE PurgeRecords(c)     BY <1>17, PurgeRecordsEffect, Steps DEF Still
<1>18. CASE RunChain(c)         BY <1>18, RunChainEffect, Steps DEF Still
<1>19. CASE PutVault(c)         BY <1>19, PutVaultEffect, Steps
<1>20. CASE PutWallets(c)       BY <1>20, PutWalletsEffect, Steps
<1>21. CASE PutActive(c)
  <2>1. CASE call[c].op = "create"
    <3>1. Turn(c, "create", "export") /\ Unlocked'
      BY <1>21, <2>1, PutActiveEffect
    <3>2. \A d \in Calls \ {c} : call[d].op \in {"none", "exportKey"}
      BY <1>21, <2>1, PutActiveEffect
    <3> QED BY <2>1, <3>1, <3>2, <1>k
  <2>2. CASE call[c].op = "unlock"
    <3>1. Unlocked /\ MemStill /\ Turn(c, "unlock", "export")
      BY <1>21, <2>2, PutActiveEffect
    <3> QED BY <2>2, <3>1
  <2>3. CASE call[c].op \notin {"create", "unlock"}
    <3>1. MemStill /\ Turn(c, "none", "idle")
      BY <1>21, <2>3, PutActiveEffect
    <3> QED BY <3>1
  <2> QED BY <2>1, <2>2, <2>3
<1>22. CASE ExportSession(c)    BY <1>22, ExportSessionEffect, Steps
<1>23. CASE ResetLocks(c)       BY <1>23, ResetLocksEffect, Steps, <1>k
<1>24. CASE WipeRecords(c) \/ WipeVault(c) \/ WipeWallets(c)
  BY <1>24, WipeEffect, Steps
<1>25. CASE WipeActive(c) \/ StoreFails(c)
  <2>1. Turn(c, "none", "idle") /\ MemStill
    BY <1>25, WipeActiveEffect, StoreFailsEffect
  <2> QED BY <2>1
<1> QED BY <1>1, <1>2, <1>3, <1>4, <1>5, <1>6, <1>7, <1>8, <1>9, <1>10, <1>11, <1>12, <1>13, <1>14,
           <1>15, <1>16, <1>17, <1>18, <1>19, <1>20, <1>21, <1>22, <1>23, <1>24, <1>25
        DEF Start, Continue


LEMMA WritesAlone ==
    ASSUME IInv, NEW c \in Calls, call[c].pc \in Writing, NEW d \in Calls \ {c}
    PROVE  call[d].pc \notin Writing
BY DEF IInv, ChainOK

LEMMA StoresIsVault ==
    ASSUME VaultAssumption, IInv, NEW c \in Calls, call[c].pc \in Put \cup {"kdf"}
    PROVE  /\ call[c].doc \in Doc /\ call[c].key \in Keys
           /\ Stores(call[c]) \in [key: Keys, doc: Doc] /\ Stores(call[c]) # None
<1>1. call[c].doc # None /\ call[c].key # None
  BY DEF IInv, CallShape, CarriesDoc, CarriesKey, Put
<1>2. call[c].doc \in Doc /\ call[c].key \in Keys
  BY <1>1, TypeParts DEF IInv, CallT, Call
<1>3. Stores(call[c]) \in [key: Keys, doc: Doc]
  BY <1>2 DEF Stores
<1> QED BY <1>2, <1>3 DEF VaultAssumption

LEMMA VaultIsRecord ==
    ASSUME VaultAssumption, IInv, vault # None
    PROVE  vault.doc \in Doc /\ vault = [key |-> vault.key, doc |-> vault.doc]
BY TypeParts DEF IInv, StoreT

\* What the steps of create, unlock and reset rely on being in the store, is.
LEMMA StoredOkStep ==
    ASSUME VaultAssumption, OneAtATime, AllInv, NEW c \in Calls, Start(c) \/ Continue(c)
    PROVE  StoredOk'
<1>0. CallT /\ MemT /\ StoreT /\ StepsOk /\ OneLife /\ StoredOk /\ IInv
  BY TypeParts DEF AllInv, LifeInv, IInv
<1>s. /\ Put = {"putVault", "putWallets", "putActive"}
      /\ Writing = {"putVault", "putWallets", "putActive", "delRecs", "delVault", "delWallets", "delActive"}
  BY DEF Put, Writing
<1>m. MemStill => (Unlocked' <=> Unlocked)
  BY DEF MemStill, Unlocked
<1>v. \A r, q : r.key = q.key /\ r.doc = q.doc => Stores(r) = Stores(q)
  BY DEF Stores
<1>o. /\ call[c].op \notin {"none", "exportKey"} => \A d \in Calls \ {c} : ~Opens(call[d])
      /\ ~Opens(call[c]) \/ call[c].op \in {"create", "unlock"}
  BY <1>0, Steps DEF OneLife, Opens
<1> USE <1>0, <1>s, <1>m DEF StoredOk, Turn
<1>1. CASE Create(c)            BY <1>1, CreateEffect DEF Still, StoreStill
<1>2. CASE Unlock(c)
  <2>1. /\ Turn(c, "unlock", "kdf") /\ Still /\ vault # None
        /\ call'[c].doc = vault.doc /\ call'[c].key = vault.key
    BY <1>2, UnlockEffect
  <2>2. Stores(call'[c]) = vault
    BY <2>1, VaultIsRecord DEF Stores
  <2> QED BY <2>1, <2>2 DEF Still, StoreStill
<1>3. CASE Lock(c)              BY <1>3, LockEffect DEF StoreStill
<1>4. CASE Reset(c)             BY <1>4, ResetEffect DEF Still, StoreStill
<1>5. CASE ExportKey(c)         BY <1>5, ExportKeyEffect DEF Still, StoreStill
<1>6. CASE AddAccount(c)        BY <1>6, AddAccountEffect DEF AccountTurn, StoreStill
<1>7. CASE ImportAccount(c)     BY <1>7, ImportAccountEffect DEF AccountTurn, StoreStill
<1>8. CASE SwitchAccount(c)     BY <1>8, SwitchAccountEffect DEF AccountTurn, StoreStill
<1>9. CASE RenameAccount(c)     BY <1>9, RenameAccountEffect DEF AccountTurn, StoreStill
<1>10. CASE RemoveAccount(c)    BY <1>10, RemoveAccountEffect DEF SpliceTurn, Still, StoreStill, Unlocked
<1>11. CASE SealNew(c)          BY <1>11, SealNewEffect, Steps DEF Still, StoreStill
<1>12. CASE UnlockOpens(c)
  <2>1. vault # None
    BY <1>12, UnlockOpensEffect, StoresIsVault
  <2> QED BY <1>12, <2>1, UnlockOpensEffect, Steps DEF StoreStill
<1>13. CASE RemoveReauthed(c)   BY <1>13, RemoveReauthedEffect DEF SpliceTurn, Unlocked
<1>14. CASE RevealKey(c) \/ Refused(c) \/ StampSession(c) BY <1>14, EndEffect DEF Still, StoreStill
<1>15. CASE DropSessionKey(c)   BY <1>15, DropSessionKeyEffect, Steps
<1>16. CASE DropSessionStamp(c) BY <1>16, DropSessionStampEffect, Steps DEF Still, StoreStill
<1>17. CASE PurgeRecords(c)     BY <1>17, PurgeRecordsEffect, Steps DEF Still, StoreStill
<1>18. CASE RunChain(c)         BY <1>18, RunChainEffect, Steps DEF Still, StoreStill
<1>19. CASE PutVault(c)
  <2>1. /\ Turn(c, call[c].op, "putWallets") /\ MemStill /\ vault' = Stores(call[c])
        /\ Stores(call'[c]) = Stores(call[c]) /\ erased' = (erased /\ call[c].op # "create")
    BY <1>19, PutVaultEffect DEF Carries, Stores
  <2>2. /\ vault' # None /\ call[c].pc = "putVault" /\ ~erased'
        /\ call[c].op \notin {"none", "exportKey"}
    BY <1>19, <2>1, StoresIsVault, PutVaultEffect, Steps
  <2>3. \A d \in Calls \ {c} : call[d].pc \notin Writing /\ ~Opens(call[d])
    BY <1>o, <2>2, WritesAlone
  <2> QED BY <2>1, <2>2, <2>3 DEF Opens
<1>20. CASE PutWallets(c)
  <2>1. /\ Turn(c, call[c].op, "putActive") /\ MemStill /\ UNCHANGED <<vault, erased>>
        /\ Stores(call'[c]) = Stores(call[c]) /\ call[c].pc = "putWallets"
    BY <1>20, PutWalletsEffect DEF Carries, Stores
  <2> QED BY <2>1
<1>21. CASE PutActive(c)
  <2>1. vault # None /\ UNCHANGED <<vault, wallets, erased>>
    BY <1>21, PutActiveEffect DEF AllInv, MirrorInv, WriteProgress
  <2>2. Turn(c, call[c].op, "export") \/ Turn(c, "none", "idle")
    BY <1>21, PutActiveEffect
  <2> QED BY <2>1, <2>2
<1>22. CASE ExportSession(c)    BY <1>22, ExportSessionEffect, Steps
<1>23. CASE ResetLocks(c)       BY <1>23, ResetLocksEffect, Steps DEF StoreStill
<1>24. CASE WipeRecords(c) \/ WipeVault(c) \/ WipeWallets(c)
  <2>1. /\ call[c].pc \in Writing /\ call[c].op = "reset" /\ call[c].pc # "readWallets"
    BY <1>24, WipeEffect, Steps
  <2>2. \A d \in Calls \ {c} : call[d].pc \notin Writing /\ ~Opens(call[d])
    BY <1>o, <2>1, WritesAlone
  <2>3. ~Unlocked
    BY <2>1 DEF OneLife
  <2> QED BY <1>24, <2>1, <2>2, <2>3, WipeEffect DEF Opens
<1>25. CASE WipeActive(c)
  <2>1. vault = None /\ wallets = <<>> /\ call[c].pc = "delActive" /\ call[c].op = "reset"
    BY <1>25, WipeActiveEffect, Steps DEF AllInv, MirrorInv, WriteProgress
  <2>2. \A d \in Calls \ {c} : call[d].pc \notin Writing
    BY <2>1, WritesAlone
  <2>3. Turn(c, "none", "idle") /\ MemStill /\ UNCHANGED <<vault, wallets>>
    BY <1>25, WipeActiveEffect
  <2>4. \A d \in Calls : call'[d].pc \notin Writing
    BY <2>2, <2>3
  <2> QED BY <2>1, <2>3, <2>4
<1>26. CASE StoreFails(c)       BY <1>26, StoreFailsEffect
<1> QED BY <1>1, <1>2, <1>3, <1>4, <1>5, <1>6, <1>7, <1>8, <1>9, <1>10, <1>11, <1>12, <1>13, <1>14,
           <1>15, <1>16, <1>17, <1>18, <1>19, <1>20, <1>21, <1>22, <1>23, <1>24, <1>25, <1>26
        DEF Start, Continue


\* A key is stored only while the wallet is open, and what locks it drops the key.
LEMMA KeyDroppedStep ==
    ASSUME VaultAssumption, AllInv, NEW c \in Calls, Start(c) \/ Continue(c)
    PROVE  KeyDropped'
<1>0. CallT /\ MemT /\ StoreT /\ StepsOk /\ OneLife /\ KeyDropped /\ IInv
  BY TypeParts DEF AllInv, LifeInv, IInv
<1>m. MemStill => (Unlocked' <=> Unlocked)
  BY DEF MemStill, Unlocked
<1>f. ASSUME MemStill \/ cur' = cur, sessKey' = sessKey, call[c].pc # "delKey",
             \A d \in Calls \ {c} : call'[d] = call[d]
      PROVE  KeyDropped'
  BY <1>0, <1>f DEF KeyDropped, MemStill, Unlocked
<1> USE <1>0 DEF Turn
<1>1. CASE Create(c)            BY <1>1, <1>f, CreateEffect DEF Still, StoreStill, Create, Idle
<1>2. CASE Unlock(c)            BY <1>2, <1>f, UnlockEffect DEF Still, StoreStill, Unlock, Idle
<1>3. CASE Lock(c)              BY <1>3, LockEffect DEF KeyDropped
<1>4. CASE Reset(c)             BY <1>4, <1>f, ResetEffect DEF Still, StoreStill, Reset, Idle
<1>5. CASE ExportKey(c)         BY <1>5, <1>f, ExportKeyEffect DEF Still, StoreStill, ExportKey, Idle
<1>6. CASE AddAccount(c)        BY <1>6, AddAccountEffect DEF AccountTurn, KeyDropped
<1>7. CASE ImportAccount(c)     BY <1>7, ImportAccountEffect DEF AccountTurn, KeyDropped
<1>8. CASE SwitchAccount(c)     BY <1>8, SwitchAccountEffect DEF AccountTurn, KeyDropped
<1>9. CASE RenameAccount(c)     BY <1>9, RenameAccountEffect DEF AccountTurn, KeyDropped
<1>10. CASE RemoveAccount(c)
  BY <1>10, <1>f, RemoveAccountEffect DEF SpliceTurn, Still, StoreStill, RemoveAccount, Idle
<1>11. CASE SealNew(c)          BY <1>11, <1>f, SealNewEffect DEF Still, StoreStill
<1>12. CASE UnlockOpens(c)      BY <1>12, UnlockOpensEffect DEF KeyDropped
<1>13. CASE RemoveReauthed(c)   BY <1>13, <1>f, RemoveReauthedEffect DEF SpliceTurn
<1>14. CASE RevealKey(c) \/ Refused(c) \/ StampSession(c) BY <1>14, <1>f, EndEffect DEF Still, StoreStill
<1>15. CASE DropSessionKey(c)   BY <1>15, DropSessionKeyEffect DEF KeyDropped
<1>16. CASE DropSessionStamp(c) BY <1>16, <1>f, DropSessionStampEffect DEF Still, StoreStill
<1>17. CASE PurgeRecords(c)     BY <1>17, <1>f, PurgeRecordsEffect DEF Still, StoreStill
<1>18. CASE RunChain(c)         BY <1>18, <1>f, RunChainEffect DEF Still, StoreStill
<1>19. CASE PutVault(c)         BY <1>19, <1>f, PutVaultEffect
<1>20. CASE PutWallets(c)       BY <1>20, <1>f, PutWalletsEffect
<1>21. CASE PutActive(c)
  <2>1. CASE call[c].op = "create"
    BY <1>21, <2>1, PutActiveEffect DEF KeyDropped
  <2>2. CASE call[c].op # "create"
    <3>1. MemStill /\ sessKey' = sessKey /\ call[c].pc = "putActive"
      BY <1>21, <2>2, PutActiveEffect
    <3>2. \A d \in Calls \ {c} : call'[d] = call[d]
      BY <1>21, <2>2, PutActiveEffect
    <3> QED BY <1>f, <3>1, <3>2
  <2> QED BY <2>1, <2>2
<1>22. CASE ExportSession(c)
  <2>1. Unlocked
    BY <1>22, ExportSessionEffect, Steps DEF OneLife, Opens
  <2> QED BY <1>22, <1>m, <2>1, ExportSessionEffect DEF KeyDropped
<1>23. CASE ResetLocks(c)       BY <1>23, ResetLocksEffect DEF KeyDropped
<1>24. CASE WipeRecords(c) \/ WipeVault(c) \/ WipeWallets(c)
  BY <1>24, <1>f, WipeEffect
<1>25. CASE WipeActive(c)       BY <1>25, <1>f, WipeActiveEffect
<1>26. CASE StoreFails(c)       BY <1>26, <1>f, StoreFailsEffect DEF Writing
<1> QED BY <1>1, <1>2, <1>3, <1>4, <1>5, <1>6, <1>7, <1>8, <1>9, <1>10, <1>11, <1>12, <1>13, <1>14,
           <1>15, <1>16, <1>17, <1>18, <1>19, <1>20, <1>21, <1>22, <1>23, <1>24, <1>25, <1>26
        DEF Start, Continue


-----------------------------------------------------------------------------
\* Derivation indices: adding, removing and renaming accounts, and what
\* opening a document makes of them.
LEMMA IndexAppend ==
    ASSUME NEW s \in Seq(Entry), NEW e \in Entry, NEW n \in Nat, NEW m \in Nat, n <= m,
           IndexOk(s, n), ~e.imported => e.index < m
    PROVE  IndexOk(Append(s, e), m)
<1> SUFFICES ASSUME NEW i \in 1..Len(Append(s, e)), ~Append(s, e)[i].imported
             PROVE  Append(s, e)[i].index < m
  BY DEF IndexOk
<1>1. CASE i = Len(s) + 1
  BY <1>1
<1>2. CASE i # Len(s) + 1
  <2>1. i \in 1..Len(s) /\ Append(s, e)[i] = s[i] /\ s[i] \in Entry
    BY <1>2
  <2>2. s[i].index \in Nat /\ s[i].index < n
    BY <2>1, EntryFields DEF IndexOk
  <2> QED BY <2>1, <2>2
<1> QED BY <1>1, <1>2

LEMMA IndexRemove ==
    ASSUME NEW s \in Seq(Entry), NEW i \in 1..Len(s), NEW n, IndexOk(s, n)
    PROVE  IndexOk(RemoveAt(s, i), n)
<1>1. /\ Len(RemoveAt(s, i)) = Len(s) - 1
      /\ \A j \in 1..(Len(s) - 1) : RemoveAt(s, i)[j] = IF j < i THEN s[j] ELSE s[j + 1]
  BY RemoveAtItems
<1> QED BY <1>1 DEF IndexOk

LEMMA IndexNewDoc ==
    ASSUME NEW d \in NewDocs
    PROVE  IndexOk(d.accts, d.nextIndex)
<1>1. \A s \in Seeds, l \in Labels : IndexOk(<<HdEntry(s, 0, l)>>, 1)
  BY DEF IndexOk, HdEntry
<1>2. \A a \in Importable, l \in Labels : IndexOk(<<RawEntry(a, l)>>, 0)
  BY DEF IndexOk, RawEntry
<1> QED BY <1>1, <1>2 DEF NewDocs

LEMMA IndexNextFree ==
    ASSUME VaultAssumption, NEW d \in Doc
    PROVE  /\ IndexOk(d.accts, NextFree(d))
           /\ IndexOk(d.accts, d.nextIndex) => NextFree(d) = d.nextIndex
<1> DEFINE S == {d.nextIndex} \cup {d.accts[i].index + 1 : i \in HdSlots(d.accts)}
<1>1. d.accts \in Seq(Entry) /\ d.nextIndex \in 0..(MaxIndex + 1) /\ MaxIndex + 1 \in Nat
  BY DEF Doc, VaultAssumption
<1>2. \A i \in 1..Len(d.accts) : ~d.accts[i].imported => d.accts[i].index \in 0..MaxIndex
  BY <1>1, EntryFields
<1>3. S \subseteq 0..(MaxIndex + 1) /\ d.nextIndex \in S
  BY <1>1, <1>2 DEF HdSlots
<1>4. \A i \in 1..Len(d.accts) : ~d.accts[i].imported => d.accts[i].index + 1 \in S
  BY <1>1 DEF HdSlots
<1>5. ASSUME IndexOk(d.accts, d.nextIndex), NEW x \in S PROVE x <= d.nextIndex
  BY <1>1, <1>2, <1>5 DEF HdSlots, IndexOk
<1> HIDE DEF S
<1>6. Max(S) \in S /\ \A x \in S : x <= Max(S)
  BY <1>1, <1>3, MaxOfBounded
<1>7. NextFree(d) = Max(S)
  BY DEF NextFree, S
<1>8. IndexOk(d.accts, Max(S))
  BY <1>1, <1>2, <1>3, <1>4, <1>6 DEF IndexOk
<1>9. IndexOk(d.accts, d.nextIndex) => Max(S) = d.nextIndex
  BY <1>1, <1>3, <1>5, <1>6
<1> QED BY <1>7, <1>8, <1>9

\* No derivation index is handed out twice: memory, the store and every
\* document in flight keep the next index above those in use.
LEMMA IndexStep ==
    ASSUME VaultAssumption, AllInv, NEW c \in Calls, Start(c) \/ Continue(c)
    PROVE  IndexInv'
<1>0. CallT /\ MemT /\ StoreT /\ IndexInv /\ IInv
  BY TypeParts DEF AllInv, LifeInv, IInv
<1>m. MemStill => (Unlocked' <=> Unlocked) /\ Accts' = Accts /\ nextIndex' = nextIndex
  BY DEF MemStill, Unlocked, Accts
<1>v. StoreStill => vault' = vault
  BY DEF StoreStill
<1>a. Unlocked => Accts \in Seq(Entry) /\ nextIndex \in Nat /\ nextIndex' \in Nat
  <2>1. nextIndex' \in Nat
    BY <1>0, MemStep DEF MemT, Next
  <2> QED BY <1>0, <2>1 DEF MemT, Unlocked, Accts
<1>g. ASSUME AccountTurn(c), Unlocked => IndexOk(Accts', nextIndex') PROVE IndexInv'
  BY <1>0, <1>g, <1>v DEF IndexInv, AccountTurn, Turn
<1>e. ASSUME AccountTurn(c), \E e \in Entry : /\ Accts' = Append(Accts, e) /\ nextIndex' >= nextIndex
                                              /\ ~e.imported => e.index < nextIndex'
      PROVE  IndexInv'
  <2>1. PICK e \in Entry : /\ Accts' = Append(Accts, e) /\ nextIndex' >= nextIndex
                           /\ ~e.imported => e.index < nextIndex'
    BY <1>e
  <2>2. Unlocked => IndexOk(Accts', nextIndex')
    BY <1>0, <1>a, <2>1, IndexAppend DEF IndexInv
  <2> QED BY <1>e, <1>g, <2>2
<1>r. ASSUME NEW l \in Lists, NEW a \in AddrsOf(lists[l]), SpliceTurn(c, l, a), Unlocked
      PROVE  IndexInv'
  <2>1. lists[l] \in Seq(Entry)
    BY <1>0 DEF MemT
  <2>2. SlotOf(lists[l], a) \in 1..Len(lists[l])
    BY <2>1, SlotOfIsSlot
  <2>3. cur \in Lists /\ Accts' = IF cur = l THEN RemoveAt(lists[l], SlotOf(lists[l], a)) ELSE Accts
    BY <1>0, <1>r DEF SpliceTurn, Accts, MemT, Unlocked
  <2>4. IndexOk(Accts', nextIndex)
    BY <1>0, <1>r, <2>1, <2>2, <2>3, IndexRemove DEF IndexInv, Accts
  <2> QED BY <1>0, <1>r, <2>4 DEF IndexInv, SpliceTurn, Turn
<1>q. ASSUME Unlocked' => Unlocked /\ Accts' = Accts /\ nextIndex' = nextIndex, vault' = vault,
             call'[c].doc \in {None, call[c].doc},
             \A d \in Calls \ {c} : call'[d] = call[d]
      PROVE  IndexInv'
  BY <1>0, <1>q DEF IndexInv
<1> USE <1>0 DEF Turn, Carries
<1>1. CASE Create(c)
  <2>1. Turn(c, "create", "sealNew") /\ call'[c].doc \in NewDocs /\ Still
    BY <1>1, CreateEffect
  <2>2. IndexOk(call'[c].doc.accts, call'[c].doc.nextIndex)
    BY <2>1, IndexNewDoc
  <2> QED BY <1>m, <1>v, <2>1, <2>2 DEF Still, IndexInv
<1>2. CASE Unlock(c)            BY <1>2, <1>m, <1>v, UnlockEffect DEF Still, IndexInv
<1>3. CASE Lock(c)              BY <1>3, <1>q, <1>v, LockEffect
<1>4. CASE Reset(c)             BY <1>4, <1>q, <1>m, <1>v, ResetEffect DEF Still
<1>5. CASE ExportKey(c)         BY <1>5, <1>m, <1>v, ExportKeyEffect DEF Still, IndexInv
<1>6. CASE AddAccount(c)        BY <1>6, <1>e, AddAccountEffect
<1>7. CASE ImportAccount(c)     BY <1>7, <1>e, ImportAccountEffect
<1>8. CASE SwitchAccount(c)     BY <1>8, <1>g, SwitchAccountEffect DEF IndexInv
<1>9. CASE RenameAccount(c)     BY <1>9, <1>g, RenameAccountEffect DEF IndexInv, IndexOk
<1>10. CASE RemoveAccount(c)
  <2>1. Unlocked /\ cur \in Lists
    BY <1>10, RemoveAccountEffect DEF MemT, Unlocked
  <2>2. CASE Turn(c, "remove", "reauth") /\ call'[c].doc = None /\ Still
    BY <1>m, <1>v, <1>q, <2>2 DEF Still
  <2>3. CASE \E a \in AddrsOf(Accts) : SpliceTurn(c, cur, a)
    BY <1>r, <2>1, <2>3 DEF Accts
  <2> QED BY <1>10, <2>2, <2>3, RemoveAccountEffect
<1>11. CASE SealNew(c)          BY <1>11, <1>q, <1>m, <1>v, SealNewEffect DEF Still
<1>12. CASE UnlockOpens(c)
  <2>1. IndexOk(Accts', nextIndex')
    BY <1>12, UnlockOpensEffect, IndexNextFree
  <2> QED BY <1>12, <1>v, <2>1, UnlockOpensEffect DEF IndexInv
<1>13. CASE RemoveReauthed(c)
  <2>1. /\ call[c].pc = "reauth" /\ call[c].addr \in AddrsOf(lists[call[c].list])
        /\ SpliceTurn(c, call[c].list, call[c].addr)
    BY <1>13, RemoveReauthedEffect
  <2>2. CASE Unlocked
    <3>1. call[c].list \in Lists
      BY <2>1 DEF CallT, Call, IInv, CallShape
    <3> QED BY <1>r, <2>1, <2>2, <3>1
  <2>3. CASE ~Unlocked
    BY <1>q, <2>1, <2>3 DEF SpliceTurn, Unlocked
  <2> QED BY <2>2, <2>3
<1>14. CASE RevealKey(c) \/ Refused(c) \/ StampSession(c)
  BY <1>14, <1>q, <1>m, <1>v, EndEffect DEF Still
<1>15. CASE DropSessionKey(c)   BY <1>15, <1>q, <1>m, DropSessionKeyEffect
<1>16. CASE DropSessionStamp(c) BY <1>16, <1>q, <1>m, <1>v, DropSessionStampEffect DEF Still
<1>17. CASE PurgeRecords(c)     BY <1>17, <1>q, <1>m, <1>v, PurgeRecordsEffect DEF Still
<1>18. CASE RunChain(c)
  <2>1. Still /\ \A d \in Calls \ {c} : call'[d] = call[d]
    BY <1>18, RunChainEffect
  <2>2. \/ call'[c].doc \in {None, call[c].doc}
        \/ Unlocked /\ call'[c].doc = BuildDoc
    BY <1>18, RunChainEffect
  <2>3. BuildDoc.accts = Accts /\ BuildDoc.nextIndex = nextIndex
    BY DEF BuildDoc
  <2> QED BY <1>m, <1>v, <2>1, <2>2, <2>3 DEF Still, IndexInv
<1>19. CASE PutVault(c)
  <2>1. /\ Turn(c, call[c].op, "putWallets") /\ Carries(c) /\ MemStill
        /\ vault' = [key |-> call[c].key, doc |-> call[c].doc] /\ call[c].pc = "putVault"
    BY <1>19, PutVaultEffect
  <2>2. call[c].doc # None /\ vault'.doc = call[c].doc
    BY <2>1 DEF IInv, CallShape, CarriesDoc
  <2> QED BY <1>m, <2>1, <2>2 DEF IndexInv
<1>20. CASE PutWallets(c)       BY <1>20, <1>q, <1>m, PutWalletsEffect
<1>21. CASE PutActive(c)
  <2>1. CASE call[c].op = "create"
    <3>1. /\ Accts' = call[c].doc.accts /\ nextIndex' = call[c].doc.nextIndex
          /\ vault' = vault /\ call'[c].doc = None /\ call[c].pc = "putActive"
          /\ \A d \in Calls \ {c} : call'[d] = call[d]
      BY <1>21, <2>1, PutActiveEffect
    <3>2. call[c].doc # None
      BY <3>1 DEF IInv, CallShape, CarriesDoc
    <3> QED BY <3>1, <3>2 DEF IndexInv
  <2>2. CASE call[c].op # "create"
    <3>1. /\ MemStill /\ vault' = vault /\ call'[c].doc = None
          /\ \A d \in Calls \ {c} : call'[d] = call[d]
      BY <1>21, <2>2, PutActiveEffect
    <3> QED BY <1>q, <1>m, <3>1
  <2> QED BY <2>1, <2>2
<1>22. CASE ExportSession(c)    BY <1>22, <1>q, <1>m, ExportSessionEffect
<1>23. CASE ResetLocks(c)       BY <1>23, <1>q, <1>v, ResetLocksEffect
<1>24. CASE WipeRecords(c) \/ WipeVault(c) \/ WipeWallets(c)
  BY <1>24, <1>m, WipeEffect DEF IndexInv
<1>25. CASE WipeActive(c)       BY <1>25, <1>q, <1>m, WipeActiveEffect
<1>26. CASE StoreFails(c)       BY <1>26, <1>q, <1>m, StoreFailsEffect
<1> QED BY <1>1, <1>2, <1>3, <1>4, <1>5, <1>6, <1>7, <1>8, <1>9, <1>10, <1>11, <1>12, <1>13, <1>14,
           <1>15, <1>16, <1>17, <1>18, <1>19, <1>20, <1>21, <1>22, <1>23, <1>24, <1>25, <1>26
        DEF Start, Continue


\* With nothing owed to the store, what is being written, or was last written,
\* is what the memory holds.
LEMMA FreshStep ==
    ASSUME VaultAssumption, OneAtATime, AllInv, NEW c \in Calls, Start(c) \/ Continue(c)
    PROVE  FreshInv'
<1>0. CallT /\ MemT /\ StoreT /\ StepsOk /\ OneLife /\ StoredOk /\ FreshInv /\ IInv
  BY TypeParts DEF AllInv, LifeInv, IInv
<1>s. Put = {"putVault", "putWallets", "putActive"} /\ Put \subseteq Writing
  BY DEF Put, Writing
<1>m. MemStill => (Unlocked' <=> Unlocked) /\ Memory' = Memory
  BY DEF MemStill, Unlocked, Accts, Memory, BuildDoc
<1>v. StoreStill => vault' = vault /\ torn' = torn
  BY DEF StoreStill
<1>l. ASSUME ~Unlocked' PROVE FreshInv'
  BY <1>l DEF FreshInv
<1>c. call[c].pc = "idle" => call[c].op = "none"
  BY <1>0, Steps
<1>q. ASSUME MemStill, vault' = vault, torn' = torn, \A d \in Calls \ {c} : call'[d] = call[d],
             call[c].pc \notin Put, call'[c].pc \notin Put,
             ~(call[c].op \in {"unlock", "account", "remove"} /\ call[c].pc \in {"queued", "purge"})
      PROVE  FreshInv'
  <2>1. Dirty => Dirty'
    BY <1>q DEF Dirty
  <2>2. \A d \in Calls : call'[d].pc \in Put => call'[d] = call[d]
    BY <1>q
  <2>3. (\A d \in Calls : call'[d].pc \notin Put) => \A d \in Calls : call[d].pc \notin Put
    BY <1>q
  <2>4. (Unlocked' <=> Unlocked) /\ Memory' = Memory
    BY <1>q, <1>m
  <2> QED BY <1>0, <1>q, <2>1, <2>2, <2>3, <2>4 DEF FreshInv
<1>d. ASSUME call'[c].op \in {"unlock", "account", "remove"}, call'[c].pc \in {"queued", "purge"}
      PROVE  FreshInv'
  BY <1>d DEF FreshInv, Dirty
<1>w. ASSUME call[c].pc \in Put
      PROVE  \A d \in Calls \ {c} : call[d].pc \notin Put
  BY <1>0, <1>s, <1>w, WritesAlone
<1> USE <1>0, <1>s DEF Turn
<1>1. CASE Create(c)            BY <1>1, <1>l, <1>m, CreateEffect DEF Still, StoredOk
<1>2. CASE Unlock(c)            BY <1>2, <1>l, <1>m, UnlockEffect DEF Still
<1>3. CASE Lock(c)              BY <1>3, <1>l, LockEffect
<1>4. CASE Reset(c)             BY <1>4, <1>q, <1>v, ResetEffect DEF Still, Reset, Idle
<1>5. CASE ExportKey(c)         BY <1>5, <1>q, <1>v, ExportKeyEffect DEF Still, ExportKey, Idle
<1>6. CASE AddAccount(c)        BY <1>6, <1>d, AddAccountEffect DEF AccountTurn
<1>7. CASE ImportAccount(c)     BY <1>7, <1>d, ImportAccountEffect DEF AccountTurn
<1>8. CASE SwitchAccount(c)     BY <1>8, <1>d, SwitchAccountEffect DEF AccountTurn
<1>9. CASE RenameAccount(c)     BY <1>9, <1>d, RenameAccountEffect DEF AccountTurn
<1>10. CASE RemoveAccount(c)
  <2>1. call[c].pc = "idle"
    BY <1>10 DEF RemoveAccount, Idle
  <2>2. CASE Turn(c, "remove", "reauth") /\ Still
    BY <1>q, <1>v, <2>1, <2>2 DEF Still
  <2>3. CASE \E a \in AddrsOf(Accts) : SpliceTurn(c, cur, a)
    BY <1>d, <2>3 DEF SpliceTurn
  <2> QED BY <1>10, <2>2, <2>3, RemoveAccountEffect
<1>11. CASE SealNew(c)
  <2>1. call[c].pc = "sealNew" /\ MemStill
    BY <1>11, SealNewEffect DEF Still
  <2>2. Opens(call[c])
    BY <2>1, Steps DEF Opens
  <2> QED BY <1>l, <1>m, <2>1, <2>2 DEF OneLife
<1>12. CASE UnlockOpens(c)      BY <1>12, <1>d, UnlockOpensEffect, Steps
<1>13. CASE RemoveReauthed(c)   BY <1>13, <1>d, RemoveReauthedEffect DEF SpliceTurn
<1>14. CASE RevealKey(c) \/ Refused(c) \/ StampSession(c)
  BY <1>14, <1>q, <1>v, EndEffect DEF Still
<1>15. CASE DropSessionKey(c)   BY <1>15, <1>q, DropSessionKeyEffect
<1>16. CASE DropSessionStamp(c) BY <1>16, <1>q, <1>v, DropSessionStampEffect DEF Still
<1>17. CASE PurgeRecords(c)     BY <1>17, <1>d, PurgeRecordsEffect, Steps
<1>18. CASE RunChain(c)
  <2>1. call[c].pc = "queued" /\ Heads(c) /\ MemStill /\ \A d \in Calls \ {c} : call'[d] = call[d]
    BY <1>18, RunChainEffect DEF Still
  <2>2. CASE call[c].op \in {"create", "reset"}
    <3>1. ~Unlocked
      BY <2>1, <2>2 DEF OneLife, Opens
    <3> QED BY <1>l, <1>m, <2>1, <3>1
  <2>3. CASE call[c].op \notin {"create", "reset"} /\ Unlocked
    <3>1. \A d \in Calls \ {c} : call[d].pc \notin Put
      BY <2>1 DEF Heads, IInv, ChainOK
    <3>2. call'[c].pc = "putVault" /\ call'[c].doc = BuildDoc /\ call'[c].key = vaultKey
      BY <1>18, <2>3, RunChainEffect
    <3>3. Stores(call'[c]) = Memory
      BY <3>2 DEF Stores, Memory
    <3> QED BY <1>m, <2>1, <3>1, <3>2, <3>3 DEF FreshInv
  <2>4. CASE ~Unlocked
    BY <1>l, <1>m, <2>1, <2>4
  <2> QED BY <2>2, <2>3, <2>4
<1>19. CASE PutVault(c) \/ PutWallets(c)
  <2>1. /\ MemStill /\ Carries(c) /\ call[c].pc \in Put /\ call'[c].pc \in Put
        /\ call'[c].op = call[c].op /\ torn' = torn
        /\ \A d \in Calls \ {c} : call'[d] = call[d]
    BY <1>19, PutVaultEffect, PutWalletsEffect
  <2>2. Stores(call'[c]) = Stores(call[c])
    BY <2>1 DEF Carries, Stores
  <2>3. Dirty => Dirty'
    BY <2>1 DEF Dirty
  <2>4. (Unlocked' <=> Unlocked) /\ Memory' = Memory
    BY <2>1, <1>m
  <2> QED BY <2>1, <2>2, <2>3, <2>4 DEF FreshInv
<1>20. CASE PutActive(c)
  <2>1. /\ call[c].pc = "putActive" /\ call'[c].pc \notin Put /\ vault' = vault
        /\ \A d \in Calls \ {c} : call'[d] = call[d]
    BY <1>20, PutActiveEffect
  <2>2. \A d \in Calls : call'[d].pc \notin Put
    BY <1>w, <2>1
  <2>3. vault = Stores(call[c]) /\ call[c].doc \in Doc
    BY <2>1, StoresIsVault DEF StoredOk
  <2>4. CASE call[c].op = "create"
    <3>1. /\ Accts' = call[c].doc.accts /\ active' = call[c].doc.active
          /\ nextIndex' = call[c].doc.nextIndex /\ mnemonic' = call[c].doc.mnemonic
          /\ vaultKey' = call[c].key
      BY <1>20, <2>4, PutActiveEffect
    <3>2. BuildDoc' = call[c].doc
      BY <2>3, <3>1 DEF BuildDoc, Doc
    <3>3. Memory' = vault'
      BY <2>1, <2>3, <3>1, <3>2 DEF Memory, Stores
    <3> QED BY <2>2, <3>3 DEF FreshInv
  <2>5. CASE call[c].op # "create"
    <3>1. MemStill
      BY <1>20, <2>5, PutActiveEffect
    <3>2. Dirty => Dirty'
      BY <2>1 DEF Dirty
    <3>3. (Unlocked' <=> Unlocked) /\ Memory' = Memory
      BY <3>1, <1>m
    <3> QED BY <2>1, <2>2, <2>3, <3>2, <3>3 DEF FreshInv
  <2> QED BY <2>4, <2>5
<1>21. CASE ExportSession(c)    BY <1>21, <1>q, ExportSessionEffect
<1>22. CASE ResetLocks(c)       BY <1>22, <1>l, ResetLocksEffect
<1>23. CASE WipeRecords(c) \/ WipeVault(c) \/ WipeWallets(c) \/ WipeActive(c)
  <2>1. MemStill /\ call[c].op = "reset" /\ call[c].pc # "readWallets"
    BY <1>23, WipeEffect, WipeActiveEffect, Steps
  <2> QED BY <1>l, <1>m, <2>1 DEF OneLife
<1>24. CASE StoreFails(c)
  <2>1. /\ MemStill /\ call[c].pc \in Writing /\ call'[c].pc = "idle" /\ torn'
        /\ \A d \in Calls \ {c} : call'[d] = call[d]
    BY <1>24, StoreFailsEffect
  <2>2. Dirty => Dirty'
    BY <2>1 DEF Dirty, Writing
  <2>3. (Unlocked' <=> Unlocked) /\ Memory' = Memory
    BY <2>1, <1>m
  <2> QED BY <2>1, <2>2, <2>3 DEF FreshInv
<1> QED BY <1>1, <1>2, <1>3, <1>4, <1>5, <1>6, <1>7, <1>8, <1>9, <1>10, <1>11, <1>12, <1>13, <1>14,
           <1>15, <1>16, <1>17, <1>18, <1>19, <1>20, <1>21, <1>22, <1>23, <1>24
        DEF Start, Continue


\* The addresses of a list lose only the account taken out, and keep their own
\* when an account joins or a label changes.
LEMMA AddrsRemoved ==
    ASSUME NEW s \in Seq(Entry), NEW a \in AddrsOf(s)
    PROVE  AddrsOf(s) \ {a} \subseteq AddrsOf(RemoveAt(s, SlotOf(s, a)))
<1> DEFINE i == SlotOf(s, a)
           r == RemoveAt(s, i)
<1>1. i \in 1..Len(s)
  BY SlotOfIsSlot
<1>2. s[i].addr = a
  BY SlotOfIsSlot
<1> HIDE DEF i
<1>3. /\ r \in Seq(Entry) /\ Len(r) = Len(s) - 1
      /\ \A j \in 1..(Len(s) - 1) : r[j] = IF j < i THEN s[j] ELSE s[j + 1]
  BY <1>1, RemoveAtItems
<1> HIDE DEF r
<1>4. SUFFICES ASSUME NEW k \in 1..Len(s), s[k].addr # a
               PROVE  \E j \in 1..Len(r) : r[j].addr = s[k].addr
  BY <1>3 DEF AddrsOf, r, i
<1>5. CASE k < i
  BY <1>1, <1>3, <1>5
<1>6. CASE k > i
  <2>1. k - 1 \in 1..Len(r) /\ ~(k - 1 < i) /\ (k - 1) + 1 = k
    BY <1>1, <1>3, <1>6
  <2> QED BY <1>3, <2>1
<1> QED BY <1>1, <1>2, <1>4, <1>5, <1>6

LEMMA AddrsAppended ==
    ASSUME NEW s \in Seq(Entry), NEW e \in Entry
    PROVE  AddrsOf(s) \subseteq AddrsOf(Append(s, e))
<1>1. DOMAIN s = 1..Len(s) /\ DOMAIN Append(s, e) = 1..(Len(s) + 1)
  OBVIOUS
<1>2. \A i \in 1..Len(s) : Append(s, e)[i] = s[i]
  OBVIOUS
<1> QED BY <1>1, <1>2 DEF AddrsOf

\* A promised account leaves the store only with the removal or the reset the
\* user asked for.
LEMMA AckStep ==
    ASSUME VaultAssumption, OneAtATime, AllInv, NEW c \in Calls, Start(c) \/ Continue(c)
    PROVE  AckInv'
<1>0. CallT /\ MemT /\ StoreT /\ StepsOk /\ OneLife /\ StoredOk /\ AckInv /\ IInv
  BY TypeParts DEF AllInv, LifeInv, IInv
<1>s. Put = {"putVault", "putWallets", "putActive"} /\ Put \subseteq Writing
  BY DEF Put, Writing
<1>m. MemStill => (Unlocked' <=> Unlocked) /\ Accts' = Accts
  BY DEF MemStill, Unlocked, Accts
<1>v. StoreStill => vault' = vault /\ acked' = acked
  BY DEF StoreStill
<1>a. Unlocked => Accts \in Seq(Entry)
  BY <1>0 DEF MemT, Unlocked, Accts
<1>w. ASSUME call[c].pc \in Writing PROVE \A d \in Calls \ {c} : call[d].pc \notin Put
  BY <1>0, <1>s, <1>w, WritesAlone
<1>c. call[c].pc = "idle" => call[c].op = "none"
  BY <1>0, Steps
<1>h. ASSUME \A d \in Calls \ {c} : call'[d] = call[d],
             \/ call[c].op # "remove" \/ call[c].pc = "reauth"
             \/ call'[c].op = "remove" /\ call'[c].pc # "reauth" /\ call'[c].addr = call[c].addr
      PROVE  Gone \subseteq Gone'
  BY <1>h DEF Gone
<1>q. ASSUME Unlocked' => /\ Unlocked /\ AddrsOf(Accts) \subseteq AddrsOf(Accts')
                          /\ Gone \subseteq Gone',
             vault' = vault, acked' = acked, \A d \in Calls \ {c} : call'[d] = call[d],
             call'[c].pc \in Put => /\ call[c].pc \in Put /\ call'[c].doc = call[c].doc
                                    /\ call'[c].pc # "putVault"
      PROVE  AckInv'
  <2>1. \A d \in Calls : call'[d].pc \in Put => /\ call[d].pc \in Put /\ call'[d].doc = call[d].doc
                                                /\ call'[d].pc = "putVault" => call[d].pc = "putVault"
    BY <1>q
  <2>2. \A d \in Calls : call'[d].pc = "putVault" => acked' \subseteq AddrsOf(call'[d].doc.accts)
    BY <1>0, <1>s, <1>q, <2>1 DEF AckInv
  <2>3. ASSUME NEW d \in Calls, Unlocked', call'[d].pc \in Put
        PROVE  AddrsOf(call'[d].doc.accts) \subseteq AddrsOf(Accts') \cup Gone'
    <3>1. AddrsOf(call[d].doc.accts) \subseteq AddrsOf(Accts) \cup Gone
      BY <1>0, <1>q, <2>1, <2>3 DEF AckInv
    <3> QED BY <1>q, <2>1, <2>3, <3>1
  <2> QED BY <1>0, <1>q, <2>2, <2>3 DEF AckInv
<1>r. ASSUME NEW l \in Lists, NEW a \in AddrsOf(lists[l]), SpliceTurn(c, l, a),
             Unlocked => l = cur, call[c].op # "remove" \/ call[c].pc = "reauth"
      PROVE  AckInv'
  <2>1. /\ (Unlocked' <=> Unlocked) /\ vault' = vault /\ acked' = acked \ {a}
        /\ call'[c].op = "remove" /\ call'[c].pc = "purge" /\ call'[c].addr = a
        /\ \A d \in Calls \ {c} : call'[d] = call[d]
    BY <1>r DEF SpliceTurn, Turn, Unlocked
  <2>2. Gone \subseteq Gone' /\ a \in Gone'
    BY <1>h, <1>r, <2>1 DEF Gone
  <2>3. Unlocked => AddrsOf(Accts) \ {a} \subseteq AddrsOf(Accts')
    <3>1. SUFFICES ASSUME Unlocked PROVE AddrsOf(Accts) \ {a} \subseteq AddrsOf(Accts')
      OBVIOUS
    <3>2. Accts' = RemoveAt(Accts, SlotOf(Accts, a)) /\ a \in AddrsOf(Accts)
      BY <1>0, <1>r, <3>1 DEF SpliceTurn, Accts, MemT
    <3> QED BY <1>a, <3>1, <3>2, AddrsRemoved
  <2>4. Unlocked' => acked' \subseteq AddrsOf(Accts')
    BY <1>0, <2>1, <2>3 DEF AckInv
  <2>5. \A d \in Calls : call'[d].pc \in Put => d # c /\ call'[d] = call[d]
    BY <1>s, <2>1
  <2>6. ASSUME NEW d \in Calls, Unlocked', call'[d].pc \in Put
        PROVE  AddrsOf(call'[d].doc.accts) \subseteq AddrsOf(Accts') \cup Gone'
    <3>1. AddrsOf(call[d].doc.accts) \subseteq AddrsOf(Accts) \cup Gone
      BY <1>0, <2>1, <2>5, <2>6 DEF AckInv
    <3> QED BY <2>1, <2>2, <2>3, <2>5, <2>6, <3>1
  <2>7. \A d \in Calls : call'[d].pc = "putVault" => acked' \subseteq AddrsOf(call'[d].doc.accts)
    BY <1>0, <1>s, <2>1, <2>5 DEF AckInv
  <2> QED BY <1>0, <2>1, <2>4, <2>6, <2>7 DEF AckInv
<1>e. ASSUME AccountTurn(c), Unlocked => AddrsOf(Accts) \subseteq AddrsOf(Accts'),
             call[c].op # "remove"
      PROVE  AckInv'
  <2>1. /\ Unlocked /\ vault' = vault /\ acked' = acked /\ call'[c].pc = "queued"
        /\ \A d \in Calls \ {c} : call'[d] = call[d]
    BY <1>e, <1>v DEF AccountTurn, Turn
  <2> QED BY <1>e, <1>h, <1>q, <1>s, <2>1
<1> USE <1>0, <1>s DEF Turn
<1>1. CASE Create(c)
  <2>1. vault = None /\ Turn(c, "create", "sealNew") /\ Still
    BY <1>1, CreateEffect
  <2>2. ~Unlocked'
    BY <1>m, <2>1 DEF StoredOk, Still
  <2> QED BY <1>q, <1>v, <2>1, <2>2 DEF Still
<1>2. CASE Unlock(c)            BY <1>2, <1>q, <1>m, <1>v, UnlockEffect DEF Still
<1>3. CASE Lock(c)              BY <1>3, <1>q, <1>v, LockEffect
<1>4. CASE Reset(c)             BY <1>4, <1>c, <1>h, <1>q, <1>m, <1>v, ResetEffect DEF Still, Reset, Idle
<1>5. CASE ExportKey(c)         BY <1>5, <1>c, <1>h, <1>q, <1>m, <1>v, ExportKeyEffect DEF Still, ExportKey, Idle
<1>6. CASE AddAccount(c)
  <2>1. call[c].op # "remove"
    BY <1>6, <1>c DEF AddAccount, Account, Idle
  <2> QED BY <1>6, <1>a, <1>e, <2>1, AddAccountEffect, AddrsAppended
<1>7. CASE ImportAccount(c)
  <2>1. call[c].op # "remove"
    BY <1>7, <1>c DEF ImportAccount, Account, Idle
  <2> QED BY <1>7, <1>a, <1>e, <2>1, ImportAccountEffect, AddrsAppended
<1>8. CASE SwitchAccount(c)
  <2>1. call[c].op # "remove"
    BY <1>8, <1>c DEF SwitchAccount, Account, Idle
  <2> QED BY <1>8, <1>e, <2>1, SwitchAccountEffect
<1>9. CASE RenameAccount(c)
  <2>1. call[c].op # "remove"
    BY <1>9, <1>c DEF RenameAccount, Account, Idle
  <2>2. AccountTurn(c) /\ Accts' \in Seq(Entry)
    <3>1. MemT' /\ AccountTurn(c)
      BY <1>9, MemStep, RenameAccountEffect DEF Next, Start
    <3> QED BY <3>1 DEF MemT, AccountTurn, Unlocked, Accts
  <2>3. AddrsOf(Accts) \subseteq AddrsOf(Accts')
    <3>1. /\ Len(Accts') = Len(Accts) /\ Accts \in Seq(Entry)
          /\ \A i \in 1..Len(Accts) : Accts'[i].addr = Accts[i].addr
      BY <1>9, <1>a, <2>2, RenameAccountEffect DEF AccountTurn
    <3>2. DOMAIN Accts' = DOMAIN Accts /\ DOMAIN Accts = 1..Len(Accts)
      BY <2>2, <3>1
    <3> QED BY <3>1, <3>2 DEF AddrsOf
  <2> QED BY <1>e, <2>1, <2>2, <2>3
<1>10. CASE RemoveAccount(c)
  <2>1. Unlocked /\ cur \in Lists /\ call[c].op = "none"
    BY <1>10, <1>c, RemoveAccountEffect DEF MemT, Unlocked, RemoveAccount, Idle
  <2>2. CASE Turn(c, "remove", "reauth") /\ Still
    BY <1>h, <1>m, <1>v, <1>q, <2>1, <2>2 DEF Still
  <2>3. CASE \E a \in AddrsOf(Accts) : SpliceTurn(c, cur, a)
    BY <1>r, <2>1, <2>3 DEF Accts
  <2> QED BY <1>10, <2>2, <2>3, RemoveAccountEffect
<1>11. CASE SealNew(c)
  <2>1. call[c].op # "remove"
    BY <1>11, SealNewEffect, Steps
  <2> QED BY <1>11, <1>h, <1>q, <1>m, <1>v, <2>1, SealNewEffect DEF Still
<1>12. CASE UnlockOpens(c)
  <2>1. /\ call[c].pc = "kdf" /\ call'[c].pc = "queued" /\ vault' = vault /\ acked' = acked
        /\ Accts' = call[c].doc.accts /\ \A d \in Calls \ {c} : call'[d] = call[d]
    BY <1>12, <1>v, UnlockOpensEffect
  <2>2. vault = Stores(call[c]) /\ vault # None
    BY <2>1, StoresIsVault DEF StoredOk
  <2>3. vault.doc = call[c].doc
    BY <2>2 DEF Stores
  <2>4. \A d \in Calls \ {c} : call[d].op \in {"none", "exportKey"}
    BY <2>1 DEF OneLife, Opens
  <2>5. \A d \in Calls : call'[d].pc \notin Put
    BY <2>1, <2>4, Steps
  <2> QED BY <2>1, <2>2, <2>3, <2>5 DEF AckInv
<1>13. CASE RemoveReauthed(c)
  <2>1. /\ call[c].pc = "reauth" /\ call[c].addr \in AddrsOf(lists[call[c].list])
        /\ SpliceTurn(c, call[c].list, call[c].addr)
    BY <1>13, RemoveReauthedEffect
  <2>2. call[c].list \in Lists /\ (Unlocked => call[c].list = cur)
    BY <2>1 DEF CallT, Call, IInv, CallShape, OneLife
  <2> QED BY <1>r, <2>1, <2>2
<1>14. CASE RevealKey(c) \/ Refused(c) \/ StampSession(c)
  <2>1. call[c].op # "remove" \/ call[c].pc = "reauth"
    BY <1>14, EndEffect, Steps
  <2> QED BY <1>14, <1>h, <1>q, <1>m, <1>v, <2>1, EndEffect DEF Still
<1>15. CASE DropSessionKey(c)   BY <1>15, <1>h, <1>q, <1>m, DropSessionKeyEffect, Steps
<1>16. CASE DropSessionStamp(c)
  <2>1. call[c].op # "remove"
    BY <1>16, DropSessionStampEffect, Steps
  <2> QED BY <1>16, <1>h, <1>q, <1>m, <1>v, <2>1, DropSessionStampEffect DEF Still
<1>17. CASE PurgeRecords(c)
  <2>1. call[c].pc = "purge" /\ Turn(c, "remove", "queued") /\ call'[c].addr = call[c].addr /\ Still
    BY <1>17, PurgeRecordsEffect, Steps DEF Carries
  <2> QED BY <1>h, <1>q, <1>m, <1>v, <2>1 DEF Still
<1>18. CASE RunChain(c)
  <2>1. /\ call[c].pc = "queued" /\ Heads(c) /\ MemStill /\ vault' = vault /\ acked' = acked
        /\ \A d \in Calls \ {c} : call'[d] = call[d]
    BY <1>18, <1>v, RunChainEffect DEF Still
  <2>2. CASE call[c].op = "create"
    <3>1. vault = None /\ ~Unlocked'
      BY <1>m, <2>1, <2>2 DEF StoredOk, OneLife, Opens
    <3> QED BY <2>1, <3>1 DEF AckInv
  <2>3. CASE call[c].op = "reset"
    <3>1. ~Unlocked' /\ call'[c].pc = "delRecs"
      BY <1>18, <1>m, <2>1, <2>3, RunChainEffect DEF OneLife
    <3> QED BY <1>q, <2>1, <3>1
  <2>4. CASE call[c].op \notin {"create", "reset"} /\ Unlocked
    <3>1. \A d \in Calls \ {c} : call[d].pc \notin Put
      BY <2>1 DEF Heads, IInv, ChainOK
    <3>2. call'[c].doc.accts = Accts
      BY <1>18, <2>4, RunChainEffect DEF BuildDoc
    <3>3. (Unlocked' <=> Unlocked) /\ Accts' = Accts
      BY <1>m, <2>1
    <3> QED BY <2>1, <2>4, <3>1, <3>2, <3>3 DEF AckInv
  <2>5. CASE call[c].op \notin {"create", "reset"} /\ ~Unlocked
    <3>1. ~Unlocked' /\ call'[c].pc = "idle"
      BY <1>18, <1>m, <2>1, <2>5, RunChainEffect
    <3> QED BY <1>q, <2>1, <3>1
  <2> QED BY <2>2, <2>3, <2>4, <2>5
<1>19. CASE PutVault(c)
  <2>1. /\ call[c].pc = "putVault" /\ call'[c].pc = "putWallets" /\ MemStill /\ acked' = acked
        /\ vault' = Stores(call[c]) /\ call'[c].doc = call[c].doc /\ call'[c].op = call[c].op
        /\ call'[c].addr = call[c].addr /\ \A d \in Calls \ {c} : call'[d] = call[d]
    BY <1>19, PutVaultEffect DEF Carries, Stores
  <2>2. vault' # None /\ vault'.doc = call[c].doc
    BY <2>1, StoresIsVault DEF Stores
  <2>3. acked' \subseteq AddrsOf(vault'.doc.accts)
    BY <2>1, <2>2 DEF AckInv
  <2>4. Gone \subseteq Gone' /\ (Unlocked' <=> Unlocked) /\ Accts' = Accts
    BY <1>h, <1>m, <2>1
  <2>5. \A d \in Calls : Unlocked' /\ call'[d].pc \in Put =>
            AddrsOf(call'[d].doc.accts) \subseteq AddrsOf(Accts') \cup Gone'
    BY <2>1, <2>4 DEF AckInv
  <2> QED BY <1>w, <2>1, <2>2, <2>3, <2>4, <2>5 DEF AckInv
<1>20. CASE PutWallets(c)
  <2>1. Turn(c, call[c].op, "putActive") /\ Carries(c) /\ MemStill /\ call[c].pc = "putWallets"
    BY <1>20, PutWalletsEffect
  <2>2. vault' = vault /\ acked' = acked
    BY <1>20, PutWalletsEffect
  <2>3. Gone \subseteq Gone'
    BY <1>h, <2>1 DEF Carries
  <2> QED BY <1>q, <1>m, <2>1, <2>2, <2>3 DEF Carries
<1>21. CASE PutActive(c)
  <2>1. /\ call[c].pc = "putActive" /\ vault' = vault /\ call'[c].pc \notin Put
        /\ \A d \in Calls \ {c} : call'[d] = call[d]
        /\ acked' \subseteq acked \cup (AddrsOf(call[c].doc.accts) \ Removing)
    BY <1>21, PutActiveEffect
  <2>2. \A d \in Calls : call'[d].pc \notin Put
    BY <1>w, <2>1
  <2>3. vault # None /\ vault.doc = call[c].doc
    BY <2>1, StoresIsVault DEF StoredOk, Stores
  <2>4. acked' \subseteq AddrsOf(call[c].doc.accts)
    BY <2>1, <2>3 DEF AckInv
  <2>5. Unlocked' => acked' \subseteq AddrsOf(Accts')
    <3>1. CASE call[c].op = "create"
      BY <1>21, <2>4, <3>1, PutActiveEffect
    <3>2. CASE call[c].op # "create"
      <4>1. MemStill
        BY <1>21, <3>2, PutActiveEffect
      <4>2. (Unlocked' <=> Unlocked) /\ Accts' = Accts
        BY <1>m, <4>1
      <4>3. Gone \subseteq Removing
        BY DEF Gone, Removing
      <4>4. Unlocked => AddrsOf(call[c].doc.accts) \subseteq AddrsOf(Accts) \cup Gone
        BY <2>1 DEF AckInv
      <4> QED BY <2>1, <4>2, <4>3, <4>4 DEF AckInv
    <3> QED BY <3>1, <3>2
  <2> QED BY <2>1, <2>2, <2>3, <2>4, <2>5 DEF AckInv
<1>22. CASE ExportSession(c)    BY <1>22, <1>h, <1>q, <1>m, ExportSessionEffect, Steps
<1>23. CASE ResetLocks(c)       BY <1>23, <1>q, <1>v, ResetLocksEffect
<1>24. CASE WipeRecords(c) \/ WipeVault(c) \/ WipeWallets(c)
  <2>1. /\ ~Unlocked' /\ vault' \in {vault, None} /\ (vault' = vault \/ acked' = {}) /\ acked' \subseteq acked
        /\ call'[c].pc \notin Put /\ \A d \in Calls \ {c} : call'[d] = call[d]
    BY <1>24, <1>m, WipeEffect, Steps DEF OneLife
  <2> QED BY <2>1 DEF AckInv
<1>25. CASE WipeActive(c)
  <2>1. /\ ~Unlocked' /\ vault' = vault /\ acked' = acked
        /\ call'[c].pc \notin Put /\ \A d \in Calls \ {c} : call'[d] = call[d]
    BY <1>25, <1>m, WipeActiveEffect, Steps DEF OneLife
  <2> QED BY <1>q, <2>1
<1>26. CASE StoreFails(c)
  <2>1. /\ MemStill /\ vault' = vault /\ acked' = acked /\ call[c].pc \in Writing
        /\ call'[c].pc \notin Put /\ \A d \in Calls \ {c} : call'[d] = call[d]
    BY <1>26, StoreFailsEffect
  <2>2. \A d \in Calls : call'[d].pc \notin Put
    BY <1>w, <2>1
  <2> QED BY <1>m, <2>1, <2>2 DEF AckInv
<1> QED BY <1>1, <1>2, <1>3, <1>4, <1>5, <1>6, <1>7, <1>8, <1>9, <1>10, <1>11, <1>12, <1>13, <1>14,
           <1>15, <1>16, <1>17, <1>18, <1>19, <1>20, <1>21, <1>22, <1>23, <1>24, <1>25, <1>26
        DEF Start, Continue


\* No call is under way at the start, and none survives the worker.
LEMMA LifeInit ==
    ASSUME Init PROVE LifeInv
<1>1. \A c \in Calls : call[c].op = "none" /\ call[c].pc = "idle" /\ call[c].doc = None
  BY DEF Init, IdleCall
<1>2. vault = None /\ ~Unlocked /\ sessKey = None /\ acked = {} /\ ~erased
  BY DEF Init, Unlocked
<1>3. StepsOk /\ OneLife
  BY <1>1, <1>2 DEF StepsOk, StepsOf, OneLife, Opens, Lifecycle
<1>4. StoredOk /\ KeyDropped /\ IndexInv /\ FreshInv
  BY <1>1, <1>2 DEF StoredOk, KeyDropped, IndexInv, FreshInv
<1>5. AckInv
  BY <1>1, <1>2 DEF AckInv
<1> QED BY <1>3, <1>4, <1>5 DEF LifeInv

LEMMA LifeRestart ==
    ASSUME VaultAssumption, AllInv, NEW b \in BOOLEAN, Restart(b)
    PROVE  LifeInv'
<1>0. StoreT /\ StoredOk /\ IndexInv /\ AckInv /\ IInv
  BY TypeParts DEF AllInv, LifeInv, IInv
<1>1. /\ \A c \in Calls : call'[c].op = "none" /\ call'[c].pc = "idle" /\ call'[c].doc = None
      /\ UNCHANGED <<vault, wallets, acked, erased>> /\ (~Unlocked' => sessKey' = None)
  BY <1>0, RestartEffect DEF IdleCall
<1>2. ASSUME Unlocked'
      PROVE  /\ vault # None /\ Accts' = vault.doc.accts /\ Memory' = vault
             /\ IndexOk(Accts', nextIndex')
  <2>1. /\ vault # None /\ Accts' = vault.doc.accts
        /\ active' = Clamp(vault.doc.active, Len(vault.doc.accts))
        /\ nextIndex' = NextFree(vault.doc) /\ mnemonic' = vault.doc.mnemonic
        /\ vaultKey' = vault.key
    BY <1>0, <1>2, RestartEffect
  <2>2. vault.doc \in Doc /\ vault = [key |-> vault.key, doc |-> vault.doc]
    BY <1>0, <2>1, VaultIsRecord
  <2>3. active' = vault.doc.active
    BY <1>0, <2>1 DEF IInv, VaultShape, DocOK, Clamp
  <2>4. nextIndex' = vault.doc.nextIndex /\ IndexOk(Accts', nextIndex')
    BY <1>0, <2>1, <2>2, IndexNextFree DEF IndexInv
  <2>5. BuildDoc' = vault.doc
    BY <2>1, <2>2, <2>3, <2>4 DEF BuildDoc, Doc
  <2>6. Memory' = vault
    BY <2>1, <2>2, <2>5 DEF Memory
  <2> QED BY <2>1, <2>4, <2>6
<1>3. StepsOk' /\ OneLife'
  BY <1>1 DEF StepsOk, StepsOf, OneLife, Opens, Lifecycle
<1>4. StoredOk' /\ KeyDropped'
  BY <1>0, <1>1, <1>2 DEF StoredOk, KeyDropped, Put
<1>5. IndexInv' /\ FreshInv'
  BY <1>0, <1>1, <1>2 DEF IndexInv, FreshInv, Put
<1>6. AckInv'
  BY <1>0, <1>1, <1>2 DEF AckInv, Put
<1> QED BY <1>3, <1>4, <1>5, <1>6 DEF LifeInv

LEMMA LifeOther ==
    ASSUME LifeInv, RecordActivity \/ TimePasses \/ UNCHANGED vars
    PROVE  LifeInv'
<1>1. /\ call' = call /\ UNCHANGED <<vault, wallets, sessKey, acked, torn, erased>>
      /\ UNCHANGED <<cur, lists, active, vaultKey, mnemonic, nextIndex>>
  BY OtherEffect DEF Still, MemStill, StoreStill
<1>2. (Unlocked' <=> Unlocked) /\ Accts' = Accts /\ Memory' = Memory /\ Gone' = Gone
  BY <1>1 DEF Unlocked, Accts, Memory, BuildDoc, Gone
<1>3. StepsOk' /\ OneLife'
  BY <1>1, <1>2 DEF LifeInv, StepsOk, OneLife
<1>4. StoredOk' /\ KeyDropped'
  BY <1>1, <1>2 DEF LifeInv, StoredOk, Stores, KeyDropped
<1>5. IndexInv' /\ FreshInv'
  BY <1>1, <1>2 DEF LifeInv, IndexInv, FreshInv, Stores, Dirty
<1>6. AckInv'
  BY <1>1, <1>2 DEF LifeInv, AckInv
<1> QED BY <1>3, <1>4, <1>5, <1>6 DEF LifeInv

LEMMA AllInvStep ==
    ASSUME VaultAssumption, OneAtATime, AllInv, [Next]_vars PROVE AllInv'
<1>1. IInv' /\ MirrorInv'
  BY IInvStep, MirrorStep DEF AllInv
<1>2. ASSUME NEW c \in Calls, Start(c) \/ Continue(c) PROVE LifeInv'
  BY <1>2, StepsStep, OneLifeStep, StoredOkStep, KeyDroppedStep, IndexStep, FreshStep, AckStep
     DEF AllInv, LifeInv
<1>3. LifeInv'
  BY <1>2, LifeRestart, LifeOther DEF Next, AllInv
<1> QED BY <1>1, <1>3 DEF AllInv

LEMMA LifeInductive == ASSUME OneAtATime PROVE Spec => []AllInv
<1>1. Init => AllInv
  <2>1. Init => MirrorInv
    BY DEF Init, MirrorInv, WriteProgress, VaultAndMirrorAgree, IdleCall
  <2> QED BY <2>1, InitIInv, LifeInit DEF AllInv
<1>2. AllInv /\ [Next]_vars => AllInv'
  BY AllInvStep, VaultAssumption
<1> QED BY <1>1, <1>2, PTL DEF Spec

\* An account that a call answered with is in the stored vault until the user
\* removes it or resets the wallet, whatever crash, rejected write or queued
\* write comes between: persistVault's chain and doPersistVault's snapshot.
THEOREM PromisedAccountsStay == ASSUME OneAtATime PROVE Spec => []AckedDurable
<1>1. AllInv => AckedDurable
  BY DEF AllInv, LifeInv, AckInv, AckedDurable
<1> QED BY <1>1, LifeInductive, PTL

\* At rest the stored vault is what the memory holds, sealed under the key the
\* memory holds; and a locked wallet has left no key in the session store.
THEOREM SessionAgrees == ASSUME OneAtATime PROVE Spec => []SessionMatchesVault
<1>1. AllInv => MemoryMatchesVault
  <2> SUFFICES ASSUME AllInv, Calm, Unlocked, ~torn PROVE vault = Memory
    BY DEF MemoryMatchesVault, Memory
  <2>1. \A c \in Calls : call[c].pc = "idle"
    BY DEF Calm, Idle
  <2>2. ~Dirty /\ \A c \in Calls : call[c].pc \notin Put
    BY <2>1 DEF Dirty, Put
  <2> QED BY <2>2 DEF AllInv, LifeInv, FreshInv
<1>2. AllInv => LockedMeansNoSession
  BY DEF AllInv, LifeInv, KeyDropped, LockedMeansNoSession
<1> QED BY <1>1, <1>2, LifeInductive, PTL DEF SessionMatchesVault

\* Once reset has finished, no vault and no mirror is stored and the wallet is
\* locked until a new one is sealed: the wipe runs on the vault chain, behind
\* every write queued before it.
THEOREM ResetIsFinal == ASSUME OneAtATime PROVE Spec => []WipedStaysWiped
<1>1. AllInv => WipedStaysWiped
  BY DEF AllInv, LifeInv, StoredOk, WipedStaysWiped
<1> QED BY <1>1, LifeInductive, PTL

-----------------------------------------------------------------------------
\* Taking slot i out of the array moves `active` with the account it named.
LEMMA ActiveFollows ==
    ASSUME NEW s \in Seq(Entry), NEW a \in AddrsOf(s), active \in Nat, active < Len(s),
           s[active + 1].addr # a,
           active' = ActiveAfter(SlotOf(s, a), Len(s) - 1)
    PROVE  RemoveAt(s, SlotOf(s, a))[active' + 1] = s[active + 1]
<1> DEFINE i == SlotOf(s, a)
<1>1. i \in 1..Len(s) /\ s[i].addr = a
  BY SlotOfIsSlot
<1>2. active' = ActiveAfter(i, Len(s) - 1)
  OBVIOUS
<1> HIDE DEF i
<1>3. \A j \in 1..(Len(s) - 1) : RemoveAt(s, i)[j] = IF j < i THEN s[j] ELSE s[j + 1]
  BY <1>1, RemoveAtItems
<1>4. Len(s) \in Nat /\ active + 1 # i
  BY <1>1
<1>5. CASE active + 1 < i
  <2>1. active' = active /\ active + 1 \in 1..(Len(s) - 1)
    BY <1>1, <1>2, <1>4, <1>5 DEF ActiveAfter
  <2> QED BY <1>3, <1>5, <2>1 DEF i
<1>6. CASE active + 1 > i
  <2>1. active' + 1 = active /\ active \in 1..(Len(s) - 1) /\ ~(active < i)
    BY <1>1, <1>2, <1>4, <1>6 DEF ActiveAfter
  <2> QED BY <1>3, <2>1 DEF i
<1> QED BY <1>1, <1>4, <1>5, <1>6

\* Only a removal enters the purge, and it does so by the splice.
LEMMA PurgeIsSplice ==
    ASSUME VaultAssumption, AllInv, NEW c \in Calls, Start(c) \/ Continue(c),
           ~RemoveAccount(c), ~RemoveReauthed(c), NEW d \in Calls, call[d].pc # "purge"
    PROVE  call'[d].pc # "purge"
<1>0. CallT /\ MemT /\ StoreT /\ StepsOk /\ IInv
  BY TypeParts DEF AllInv, LifeInv, IInv
<1> USE <1>0 DEF Turn
<1>1. CASE Create(c) \/ Unlock(c) \/ Lock(c) \/ Reset(c) \/ ExportKey(c)
  BY <1>1, CreateEffect, UnlockEffect, LockEffect, ResetEffect, ExportKeyEffect
<1>2. CASE AddAccount(c) \/ ImportAccount(c) \/ SwitchAccount(c) \/ RenameAccount(c)
  BY <1>2, AddAccountEffect, ImportAccountEffect, SwitchAccountEffect, RenameAccountEffect
     DEF AccountTurn
<1>3. CASE SealNew(c) \/ UnlockOpens(c) \/ RevealKey(c) \/ Refused(c) \/ StampSession(c)
  BY <1>3, SealNewEffect, UnlockOpensEffect, EndEffect
<1>4. CASE DropSessionKey(c) \/ DropSessionStamp(c) \/ PurgeRecords(c) \/ RunChain(c)
  BY <1>4, DropSessionKeyEffect, DropSessionStampEffect, PurgeRecordsEffect, RunChainEffect
<1>5. CASE PutVault(c) \/ PutWallets(c) \/ PutActive(c) \/ ExportSession(c) \/ ResetLocks(c)
  BY <1>5, PutVaultEffect, PutWalletsEffect, PutActiveEffect, ExportSessionEffect, ResetLocksEffect, ZenonT(30)
<1>6. CASE WipeRecords(c) \/ WipeVault(c) \/ WipeWallets(c) \/ WipeActive(c) \/ StoreFails(c)
  BY <1>6, WipeEffect, WipeActiveEffect, StoreFailsEffect
<1> QED BY <1>1, <1>2, <1>3, <1>4, <1>5, <1>6 DEF Start, Continue

LEMMA RemovalStep ==
    ASSUME VaultAssumption, AllInv, [Next]_vars, NEW c \in Calls,
           call[c].pc # "purge", call'[c].pc = "purge", Unlocked, active < Len(Accts),
           Accts[active + 1].addr # call'[c].addr
    PROVE  Unlocked' /\ Accts'[active' + 1].addr = Accts[active + 1].addr
<1>0. CallT /\ MemT /\ StoreT /\ StepsOk /\ OneLife /\ IInv
  BY TypeParts DEF AllInv, LifeInv, IInv
<1>1. PICK d \in Calls : RemoveAccount(d) \/ RemoveReauthed(d)
  <2>1. CASE RecordActivity \/ TimePasses \/ UNCHANGED vars
    BY <2>1, OtherEffect
  <2>2. ASSUME NEW b \in BOOLEAN, Restart(b) PROVE FALSE
    BY <1>0, <2>2, RestartEffect DEF IdleCall
  <2> QED BY <2>1, <2>2, PurgeIsSplice DEF Next
<1>2. \E a \in AddrsOf(Accts) : SpliceTurn(d, cur, a) /\ d = c
  <2>1. CASE RemoveAccount(d)
    BY <1>0, <2>1, RemoveAccountEffect DEF SpliceTurn, Turn
  <2>2. CASE RemoveReauthed(d)
    <3>1. /\ call[d].pc = "reauth" /\ call[d].addr \in AddrsOf(lists[call[d].list])
          /\ SpliceTurn(d, call[d].list, call[d].addr)
      BY <1>0, <2>2, RemoveReauthedEffect
    <3>2. call[d].list = cur
      BY <1>0, <3>1 DEF OneLife
    <3> QED BY <3>1, <3>2 DEF SpliceTurn, Turn, Accts
  <2> QED BY <1>1, <2>1, <2>2
<1>3. PICK a \in AddrsOf(Accts) : SpliceTurn(c, cur, a)
  BY <1>2
<1>4. Accts \in Seq(Entry) /\ active \in Nat /\ cur \in Lists
  BY <1>0 DEF MemT, Unlocked, Accts
<1>5. /\ Unlocked' /\ Accts' = RemoveAt(Accts, SlotOf(Accts, a)) /\ call'[c].addr = a
      /\ active' = ActiveAfter(SlotOf(Accts, a), Len(Accts) - 1)
  BY <1>0, <1>3, <1>4 DEF SpliceTurn, Unlocked, Accts, MemT
<1>6. RemoveAt(Accts, SlotOf(Accts, a))[active' + 1] = Accts[active + 1]
  BY <1>4, <1>5, ActiveFollows
<1> QED BY <1>5, <1>6

\* Records are deleted by a removal's purge and by the reset's, nowhere else.
LEMMA RecordsStay ==
    ASSUME Next, \A c \in Calls : ~PurgeRecords(c) /\ ~WipeRecords(c)
    PROVE  recs \subseteq recs'
<1>1. ASSUME NEW c \in Calls, Start(c) PROVE recs' = recs
  <2>1. CASE Create(c) \/ Unlock(c) \/ Lock(c) \/ Reset(c) \/ ExportKey(c) \/ RemoveAccount(c)
    BY <2>1 DEF Create, Unlock, Lock, Reset, ExportKey, RemoveAccount, disk
  <2>2. CASE AddAccount(c) \/ ImportAccount(c) \/ SwitchAccount(c) \/ RenameAccount(c)
    <3>1. Account(c)
      BY <2>2 DEF AddAccount, ImportAccount, SwitchAccount, RenameAccount
    <3> QED BY <3>1 DEF Account, disk
  <2> QED BY <1>1, <2>1, <2>2 DEF Start
<1>2. ASSUME NEW c \in Calls, Continue(c) PROVE recs' = recs
  <2>1. CASE SealNew(c) \/ UnlockOpens(c) \/ RemoveReauthed(c) \/ RevealKey(c) \/ Refused(c)
    BY <2>1 DEF SealNew, UnlockOpens, RemoveReauthed, RevealKey, Refused, disk
  <2>2. CASE DropSessionKey(c) \/ DropSessionStamp(c) \/ RunChain(c) \/ ExportSession(c)
                \/ StampSession(c) \/ ResetLocks(c) \/ StoreFails(c)
    BY <2>2 DEF DropSessionKey, DropSessionStamp, RunChain, ExportSession, StampSession,
                ResetLocks, StoreFails, disk
  <2>3. CASE PutVault(c) \/ PutWallets(c) \/ PutActive(c)
    BY <2>3 DEF PutVault, PutWallets, PutActive
  <2>4. CASE WipeVault(c) \/ WipeWallets(c) \/ WipeActive(c)
    BY <2>4 DEF WipeVault, WipeWallets, WipeActive
  <2> QED BY <1>2, <2>1, <2>2, <2>3, <2>4 DEF Continue
<1>3. CASE RecordActivity
  BY <1>3 DEF RecordActivity
<1>4. ASSUME TimePasses \/ \E b \in BOOLEAN : Restart(b) PROVE recs' = recs
  BY <1>4 DEF TimePasses, Restart, disk
<1> QED BY <1>1, <1>2, <1>3, <1>4 DEF Next

\* Removing an account leaves another active account active, and deletes the
\* records of no account that is still in the wallet, however the removals, the
\* password awaits and the other calls overlap: removeAccount and splice.
THEOREM RemovalTakesOneAccount == ASSUME OneAtATime PROVE Spec => RemovalIsExact
<1>1. AllInv /\ [Next]_vars =>
        [\A c \in Calls :
            (/\ call[c].pc # "purge" /\ call'[c].pc = "purge"
             /\ Unlocked /\ active < Len(Accts)
             /\ Accts[active + 1].addr # call'[c].addr) =>
                Unlocked' /\ Accts'[active' + 1].addr = Accts[active + 1].addr]_vars
  BY RemovalStep, VaultAssumption
<1>2. AllInv /\ [Next]_vars =>
        [\A a \in recs \ recs' :
            \/ \E c \in Calls : call[c].pc = "delRecs"
            \/ \E c \in Calls : call[c].op = "remove" /\ call[c].addr = a
            \/ ~(Unlocked /\ a \in AddrsOf(Accts))]_vars
  <2> SUFFICES ASSUME AllInv, Next, NEW a \in recs \ recs'
               PROVE  \/ \E c \in Calls : call[c].pc = "delRecs"
                      \/ \E c \in Calls : call[c].op = "remove" /\ call[c].addr = a
    BY DEF vars
  <2>1. PICK c \in Calls : PurgeRecords(c) \/ WipeRecords(c)
    BY RecordsStay
  <2>2. CASE PurgeRecords(c)
    <3>1. CallT /\ StepsOk
      BY TypeParts DEF AllInv, IInv, LifeInv
    <3>2. call[c].pc = "purge" /\ recs' = recs \ {call[c].addr}
      BY <2>2 DEF PurgeRecords
    <3>3. call[c].op = "remove"
      BY <3>1, <3>2, Steps
    <3> QED BY <3>2, <3>3
  <2>3. CASE WipeRecords(c)
    BY <2>3 DEF WipeRecords
  <2> QED BY <2>1, <2>2, <2>3
<1> QED BY <1>1, <1>2, LifeInductive, PTL DEF Spec, RemovalIsExact, RemovalKeepsActive, PurgeOnlyRemoved
==============================================================================
