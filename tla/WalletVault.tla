---------------------------- MODULE WalletVault ----------------------------
(***************************************************************************)
(* The vault lifecycle of src/core/wallet.ts: the encrypted vault and its  *)
(* cleartext mirror in chrome.storage.local, the unlocked accounts in the  *)
(* memory of the service worker, the key that outlives the worker in       *)
(* chrome.storage.session, and the popup calls that change them.           *)
(*                                                                         *)
(* The worker is single threaded, so a step is the code between two awaits.*)
(* Calls interleave at every await.  A call records where it is in "pc",   *)
(* and what it captured before an await in its other fields.  Every vault  *)
(* write rides one promise chain: "chain" is that queue, its head the call *)
(* whose write is running.  The worker may be killed between any two steps *)
(* (Restart), and any write to storage may reject (StoreFails).            *)
(***************************************************************************)
EXTENDS Naturals, Sequences, FiniteSets, SequencesExt

CONSTANTS
    Calls,       \* the calls that may be in flight at once
    Seeds,       \* recovery phrases
    RawKeys,     \* keys that no phrase derives
    Importable,  \* accounts whose private key the user may paste
    Labels,      \* account labels
    MaxIndex,    \* bound: the highest derivation index an account gets
    Keys,        \* vault keys: one per salt, so one per sealed vault
    Lists,       \* identities of the in-memory account array
    Ops,         \* bound: the operations this instance offers
    OneAtATime,  \* whether the user waits for the lifecycle calls to settle
    None

Addresses == (Seeds \X (0..MaxIndex)) \cup RawKeys

Entry == [addr: Addresses, label: Labels, index: 0..MaxIndex, imported: {FALSE}]
            \cup [addr: Addresses, label: Labels, index: {None}, imported: {TRUE}]
PubAcct == [addr: Addresses, label: Labels, imported: BOOLEAN]
Doc == [mnemonic: Seeds \cup {None}, nextIndex: 0..(MaxIndex + 1),
        accts: Seq(Entry) \ {<<>>}, active: Nat]

ASSUME VaultAssumption ==
    /\ MaxIndex \in Nat
    /\ OneAtATime \in BOOLEAN
    /\ Importable \subseteq Addresses
    /\ None \notin Calls \cup Seeds \cup Addresses \cup Keys \cup Lists \cup Doc
    /\ None \notin [key: Keys, doc: Doc]

VARIABLES
    \* chrome.storage.local
    vault,       \* None, or [key, doc]: the ciphertext and what it decrypts to
    wallets,     \* the cleartext account list
    stActive,    \* the cleartext active slot
    recs,        \* the accounts with history or sealed claims in the store
    \* chrome.storage.session
    sessKey, sessTs,
    \* the worker's memory
    cur,         \* the array `accts` points to, None while locked
    lists,       \* the contents of each array
    active, vaultKey, mnemonic, nextIndex, wiped, lastActive,
    call, chain,
    \* history variables
    acked,       \* accounts an answered call said are in the wallet
    torn,        \* a vault write failed or was cut off since the last full one
    erased       \* a reset finished, and no new wallet was sealed since

disk  == <<vault, wallets, stActive, recs>>
sess  == <<sessKey, sessTs>>
mem   == <<cur, lists, active, vaultKey, mnemonic, nextIndex, wiped>>
ghost == <<acked, torn, erased>>
vars  == <<disk, sess, mem, lastActive, call, chain, ghost>>

Pcs == {"idle", "sealNew", "kdf", "reauth", "purge", "reveal", "queued",
        "putVault", "putWallets", "putActive", "export", "stamp",
        "readWallets", "delKey", "delTs",
        "delRecs", "delVault", "delWallets", "delActive"}
Call == [op: {"none", "create", "unlock", "lock", "account", "remove", "reset", "exportKey"},
         pc: Pcs, doc: Doc \cup {None}, key: Keys \cup {None},
         list: Lists \cup {None}, addr: Addresses \cup {None},
         pub: Seq(PubAcct)]
IdleCall == [op |-> "none", pc |-> "idle", doc |-> None, key |-> None,
             list |-> None, addr |-> None, pub |-> <<>>]

TypeOK ==
    /\ vault \in [key: Keys, doc: Doc] \cup {None}
    /\ wallets \in Seq(PubAcct)
    /\ stActive \in Nat
    /\ recs \subseteq Addresses
    /\ sessKey \in Keys \cup {None}
    /\ sessTs \in {"none", "fresh", "stale"}
    /\ cur \in Lists \cup {None}
    /\ lists \in [Lists -> Seq(Entry)]
    /\ active \in Nat
    /\ vaultKey \in Keys \cup {None}
    /\ mnemonic \in Seeds \cup {None}
    /\ nextIndex \in 0..(MaxIndex + 1)
    /\ wiped \in BOOLEAN
    /\ lastActive \in {"fresh", "stale"}
    /\ call \in [Calls -> Call]
    /\ chain \in Seq(Calls)
    /\ acked \subseteq Addresses
    /\ torn \in BOOLEAN
    /\ erased \in BOOLEAN

Init ==
    /\ vault = None /\ wallets = <<>> /\ stActive = 0 /\ recs = {}
    /\ sessKey = None /\ sessTs = "none"
    /\ cur = None /\ lists = [l \in Lists |-> <<>>] /\ active = 0
    /\ vaultKey = None /\ mnemonic = None /\ nextIndex = 0 /\ wiped = FALSE
    /\ lastActive = "fresh"
    /\ call = [c \in Calls |-> IdleCall] /\ chain = <<>>
    /\ acked = {} /\ torn = FALSE /\ erased = FALSE

-----------------------------------------------------------------------------
Unlocked == cur # None
Accts == lists[cur]
AddrsOf(s) == {s[i].addr : i \in DOMAIN s}
HdEntry(s, i, l) == [addr |-> <<s, i>>, label |-> l, index |-> i, imported |-> FALSE]
RawEntry(a, l) == [addr |-> a, label |-> l, index |-> None, imported |-> TRUE]

\* What the locked UI reads: no key material and no derivation index.
Mirror(s) == [i \in DOMAIN s |-> [addr |-> s[i].addr, label |-> s[i].label,
                                  imported |-> s[i].imported]]
BuildDoc == [mnemonic |-> mnemonic, nextIndex |-> nextIndex,
             accts |-> Accts, active |-> active]

\* The slot `find` returns: the first entry with this address.
SlotOf(s, a) == CHOOSE i \in DOMAIN s :
                    s[i].addr = a /\ \A j \in 1..(i - 1) : s[j].addr # a

HdSlots(s) == {i \in DOMAIN s : ~s[i].imported}
NextFree(doc) == Max({doc.nextIndex} \cup {doc.accts[i].index + 1 : i \in HdSlots(doc.accts)})
Clamp(i, len) == IF i < len THEN i ELSE len - 1

Idle(c) == call[c].pc = "idle"
Calm == \A c \in Calls : Idle(c)
NoLifecycleCall == \A c \in Calls : call[c].op \notin {"create", "unlock", "reset"}
Settled == OneAtATime => Calm
NotMidLifecycle == OneAtATime => NoLifecycleCall

\* Every popup call that is not a pure read restarts the idle window first.
Touch == lastActive' = "fresh" /\ sessTs' = "fresh"

Begin(c, r) == call' = [call EXCEPT ![c] = r]
To(c, pc) == call' = [call EXCEPT ![c].pc = pc]
Finish(c) == call' = [call EXCEPT ![c] = IdleCall]
Enqueue(c) == chain' = Append(chain, c)
\* Mutant of Heads: writes do not wait for each other.
HeadsUnchained(c) == c \in {chain[i] : i \in DOMAIN chain}
Heads(c) == chain # <<>> /\ Head(chain) = c
Leave == chain' = Tail(chain)

\* Point `accts` at array l holding s (at nothing, if l is None); an array that
\* no call captured is garbage.
Captured == {call[c].list : c \in Calls}
PointTo(l, s) ==
    /\ cur' = l
    /\ lists' = [m \in Lists |-> IF m = l THEN s ELSE IF m \in Captured THEN lists[m] ELSE <<>>]

\* An array, and a salt, that nothing in flight refers to.
FreeLists == Lists \ ({cur} \cup Captured)
FreeKeys == Keys \ ({vaultKey, sessKey} \cup {call[c].key : c \in Calls}
                       \cup (IF vault = None THEN {} ELSE {vault.key}))

ApplyDoc(doc, key, l) ==
    /\ PointTo(l, doc.accts)
    /\ active' = Clamp(doc.active, Len(doc.accts))
    /\ nextIndex' = NextFree(doc)
    /\ mnemonic' = doc.mnemonic
    /\ vaultKey' = key
    /\ UNCHANGED wiped

\* The synchronous half of lock(); `active` and `wiped` stay.
ForgetKeys ==
    /\ PointTo(None, <<>>)
    /\ vaultKey' = None /\ mnemonic' = None /\ nextIndex' = 0
    /\ UNCHANGED <<active, wiped>>

-----------------------------------------------------------------------------
\* create, restore and importKey: refused when a vault is stored, else a
\* one-account document is sealed under a new salt (the KDF is an await).
NewDocs == {[mnemonic |-> s, nextIndex |-> 1, accts |-> <<HdEntry(s, 0, l)>>, active |-> 0] :
                s \in Seeds, l \in Labels}
             \cup {[mnemonic |-> None, nextIndex |-> 0, accts |-> <<RawEntry(a, l)>>, active |-> 0] :
                l \in Labels, a \in Importable}

Create(c) ==
    /\ "create" \in Ops /\ Idle(c) /\ Settled
    /\ vault = None
    /\ \E d \in NewDocs :
          Begin(c, [IdleCall EXCEPT !.op = "create", !.pc = "sealNew", !.doc = d,
                                    !.addr = d.accts[1].addr])
    /\ Touch
    /\ UNCHANGED <<disk, sessKey, mem, chain, ghost>>

SealNew(c) ==
    /\ call[c].pc = "sealNew"
    /\ \E k \in FreeKeys :
          Begin(c, [call[c] EXCEPT !.key = k, !.pc = "queued"])
    /\ Enqueue(c)
    /\ UNCHANGED <<disk, sess, mem, lastActive, ghost>>

\* unlock reads the stored vault, then derives the key; the document it
\* installs is the one it read.
Unlock(c) ==
    /\ "unlock" \in Ops /\ Idle(c) /\ Settled
    /\ OneAtATime => ~Unlocked
    /\ vault # None
    /\ Begin(c, [IdleCall EXCEPT !.op = "unlock", !.pc = "kdf",
                                 !.doc = vault.doc, !.key = vault.key])
    /\ Touch
    /\ UNCHANGED <<disk, sessKey, mem, chain, ghost>>

UnlockOpens(c) ==
    /\ call[c].pc = "kdf"
    /\ \E l \in FreeLists : ApplyDoc(call[c].doc, call[c].key, l)
    /\ Begin(c, [call[c] EXCEPT !.doc = None, !.key = None, !.pc = "queued"])
    /\ Enqueue(c)
    /\ UNCHANGED <<disk, sess, lastActive, ghost>>

\* The popup's Lock, and the auto-lock alarm once the idle window has passed.
Lock(c) ==
    /\ "lock" \in Ops /\ Idle(c) /\ NotMidLifecycle
    /\ \/ Touch
       \/ Unlocked /\ lastActive = "stale" /\ UNCHANGED <<lastActive, sessTs>>
    /\ ForgetKeys
    /\ Begin(c, [IdleCall EXCEPT !.op = "lock", !.pc = "delKey"])
    /\ UNCHANGED <<disk, sessKey, chain, ghost>>

\* Mutant of DropSessionKey: only the stamp is dropped.
DropSessionKeyNot(c) == call[c].pc = "delKey" /\ To(c, "delTs")
    /\ UNCHANGED <<disk, sess, mem, lastActive, chain, ghost>>
DropSessionKey(c) ==
    /\ call[c].pc = "delKey"
    /\ sessKey' = None
    /\ To(c, "delTs")
    /\ UNCHANGED <<disk, sessTs, mem, lastActive, chain, ghost>>

DropSessionStamp(c) ==
    /\ call[c].pc = "delTs"
    /\ sessTs' = "none"
    /\ IF call[c].op = "reset"
       THEN To(c, "queued") /\ Enqueue(c)
       ELSE Finish(c) /\ UNCHANGED chain
    /\ UNCHANGED <<disk, sessKey, mem, lastActive, ghost>>

-----------------------------------------------------------------------------
\* The account operations change the array in the same step as the call and
\* then queue a write of whatever the memory holds when its turn comes.
AddEntry(c, e) ==
    /\ lists' = [lists EXCEPT ![cur] = Append(Accts, e)]
    /\ active' = Len(Accts)
    /\ Begin(c, [IdleCall EXCEPT !.op = "account", !.pc = "queued", !.addr = e.addr])

Account(c) ==
    /\ Idle(c) /\ Unlocked /\ Touch /\ Enqueue(c)
    /\ UNCHANGED <<disk, sessKey, cur, vaultKey, mnemonic, wiped, ghost>>

\* A generated key collides with nothing the wallet, the store or a call holds.
FreshRaw == RawKeys \ (AddrsOf(Accts) \cup recs \cup acked \cup {call[c].addr : c \in Calls})

AddAccount(c) ==
    /\ "addAccount" \in Ops /\ Account(c)
    /\ \E l \in Labels :
          \/ /\ mnemonic # None /\ nextIndex <= MaxIndex
             /\ AddEntry(c, HdEntry(mnemonic, nextIndex, l))
             /\ nextIndex' = nextIndex + 1
          \/ /\ mnemonic = None
             /\ \E a \in FreshRaw : AddEntry(c, RawEntry(a, l))
             /\ UNCHANGED nextIndex

ImportAccount(c) ==
    /\ "importAccount" \in Ops /\ Account(c)
    /\ \E a \in Importable \ AddrsOf(Accts), l \in Labels : AddEntry(c, RawEntry(a, l))
    /\ UNCHANGED nextIndex

SwitchAccount(c) ==
    /\ "switchAccount" \in Ops /\ Account(c)
    /\ \E i \in DOMAIN Accts : active' = i - 1
    /\ Begin(c, [IdleCall EXCEPT !.op = "account", !.pc = "queued"])
    /\ UNCHANGED <<lists, nextIndex>>

RenameAccount(c) ==
    /\ "renameAccount" \in Ops /\ Account(c)
    /\ \E a \in AddrsOf(Accts), l \in Labels :
          lists' = [lists EXCEPT ![cur][SlotOf(Accts, a)].label = l]
    /\ Begin(c, [IdleCall EXCEPT !.op = "account", !.pc = "queued"])
    /\ UNCHANGED <<active, nextIndex>>

\* Where `active` goes when slot i leaves an array of which len stay.
\* Mutants: the slots off by one; no clamp to the shorter array.
ActiveAfterOffByOne(i, len) == IF active >= len THEN len - 1
                               ELSE IF active > i THEN active - 1 ELSE active
ActiveAfterUnclamped(i, len) == IF active > i - 1 THEN active - 1 ELSE active
ActiveAfter(i, len) == IF active >= len THEN len - 1
                       ELSE IF active > i - 1 THEN active - 1 ELSE active

\* The last account of an array is never removed.  Mutant: it is.
OnlyOneNever(s) == FALSE
OnlyOne(s) == Len(s) <= 1

\* splice the entry out of array l and move `active` by the length of l,
\* whichever array `accts` now is.
Splice(c, l, a) ==
    LET i == SlotOf(lists[l], a)
    IN /\ lists' = [lists EXCEPT ![l] = RemoveAt(@, i)]
       /\ active' = ActiveAfter(i, Len(lists[l]) - 1)
       /\ acked' = acked \ {a}
       /\ Begin(c, [IdleCall EXCEPT !.op = "remove", !.pc = "purge", !.addr = a])

\* A derived account goes at once; an imported one asks for the password.
RemoveAccount(c) ==
    /\ "removeAccount" \in Ops /\ Idle(c) /\ Unlocked
    /\ ~OnlyOne(Accts)
    /\ \E a \in AddrsOf(Accts) :
          IF Accts[SlotOf(Accts, a)].imported
          THEN /\ vault # None
               /\ Begin(c, [IdleCall EXCEPT !.op = "remove", !.pc = "reauth",
                                            !.list = cur, !.addr = a])
               /\ UNCHANGED <<lists, active, acked>>
          ELSE Splice(c, cur, a)
    /\ Touch
    /\ UNCHANGED <<disk, sessKey, cur, vaultKey, mnemonic, nextIndex, wiped, chain, torn, erased>>

\* After the password await: look the entry up again in the array captured
\* before it.  A racing removal may have taken it, or left one account.
RemoveReauthed(c) ==
    /\ call[c].pc = "reauth"
    /\ call[c].addr \in AddrsOf(lists[call[c].list])
    /\ ~OnlyOne(lists[call[c].list])
    /\ Splice(c, call[c].list, call[c].addr)
    /\ UNCHANGED <<disk, sess, cur, vaultKey, mnemonic, nextIndex, wiped, lastActive, chain, torn, erased>>

\* The removed account's history and sealed claims are deleted (on chains of
\* their own, TxHistory and SealedClaims), then the vault write is queued.
PurgeRecords(c) ==
    /\ call[c].pc = "purge"
    /\ recs' = recs \ {call[c].addr}
    /\ To(c, "queued") /\ Enqueue(c)
    /\ UNCHANGED <<vault, wallets, stActive, sess, mem, lastActive, ghost>>

\* A signed transaction of the active account leaves a record in the store.
RecordActivity ==
    /\ "record" \in Ops /\ Unlocked /\ active < Len(Accts)
    /\ recs' = recs \cup {Accts[active + 1].addr}
    /\ UNCHANGED <<vault, wallets, stActive, sess, mem, lastActive, call, chain, ghost>>

-----------------------------------------------------------------------------
\* The head of the chain starts.  doPersistVault snapshots memory, or throws
\* when the wallet is locked; sealFresh and reset do not look at the lock.
RunChain(c) ==
    /\ call[c].pc = "queued" /\ Heads(c)
    /\ CASE call[c].op = "create" -> To(c, "putVault") /\ UNCHANGED chain
         [] call[c].op = "reset" -> To(c, "delRecs") /\ UNCHANGED chain
         [] call[c].op \notin {"create", "reset"} /\ Unlocked ->
              /\ Begin(c, [call[c] EXCEPT !.doc = BuildDoc, !.key = vaultKey, !.pc = "putVault"])
              /\ UNCHANGED chain
         [] OTHER -> Finish(c) /\ Leave
    /\ UNCHANGED <<disk, sess, mem, lastActive, ghost>>

PutVault(c) ==
    /\ call[c].pc = "putVault"
    /\ vault' = [key |-> call[c].key, doc |-> call[c].doc]
    /\ erased' = (erased /\ call[c].op # "create")
    /\ To(c, "putWallets")
    /\ UNCHANGED <<wallets, stActive, recs, sess, mem, lastActive, chain, acked, torn>>

PutWallets(c) ==
    /\ call[c].pc = "putWallets"
    /\ wallets' = Mirror(call[c].doc.accts)
    /\ To(c, "putActive")
    /\ UNCHANGED <<vault, stActive, recs, sess, mem, lastActive, chain, ghost>>

Removing == {call[c].addr : c \in {d \in Calls : call[d].op = "remove"}}

\* The last write and what its caller does with it: sealFresh adopts the new
\* wallet, unlock and sealFresh go on to store the session key, the account
\* operations answer.
Adopt(c) ==
    LET d == call[c].doc IN
    /\ \E l \in FreeLists : PointTo(l, d.accts)
    /\ active' = d.active /\ nextIndex' = d.nextIndex /\ mnemonic' = d.mnemonic
    /\ vaultKey' = call[c].key
    /\ wiped' = FALSE

PutActive(c) ==
    /\ call[c].pc = "putActive"
    /\ stActive' = call[c].doc.active
    /\ Leave
    /\ torn' = FALSE
    /\ IF call[c].op = "create" THEN Adopt(c) ELSE UNCHANGED mem
    /\ IF call[c].op \in {"create", "unlock"}
       THEN /\ Touch
            /\ IF vaultKey' = None THEN Finish(c)
               ELSE Begin(c, [IdleCall EXCEPT !.op = call[c].op, !.pc = "export",
                                              !.key = vaultKey', !.addr = call[c].addr])
       ELSE Finish(c) /\ UNCHANGED <<lastActive, sessTs>>
    /\ acked' = IF call[c].op \in {"create", "account"}
                THEN acked \cup (({call[c].addr} \cap AddrsOf(call[c].doc.accts)) \ Removing)
                ELSE acked
    /\ UNCHANGED <<vault, wallets, recs, sessKey, erased>>

\* persistSession: the raw key, then the activity stamp.
ExportSession(c) ==
    /\ call[c].pc = "export"
    /\ sessKey' = call[c].key
    /\ To(c, "stamp")
    /\ UNCHANGED <<disk, sessTs, mem, lastActive, chain, ghost>>

StampSession(c) ==
    /\ call[c].pc = "stamp"
    /\ sessTs' = lastActive
    /\ Finish(c)
    /\ UNCHANGED <<disk, sessKey, mem, lastActive, chain, ghost>>

-----------------------------------------------------------------------------
\* reset: note the stored accounts, lock, and wipe behind all three chains.
Reset(c) ==
    /\ "reset" \in Ops /\ Idle(c) /\ NotMidLifecycle
    /\ Begin(c, [IdleCall EXCEPT !.op = "reset", !.pc = "readWallets"])
    /\ wiped' = TRUE
    /\ Touch
    /\ UNCHANGED <<disk, sessKey, cur, lists, active, vaultKey, mnemonic, nextIndex, chain, ghost>>

ResetLocks(c) ==
    /\ call[c].pc = "readWallets"
    /\ Begin(c, [call[c] EXCEPT !.pub = wallets, !.pc = "delKey"])
    /\ ForgetKeys
    /\ UNCHANGED <<disk, sess, lastActive, chain, ghost>>

WipeRecords(c) ==
    /\ call[c].pc = "delRecs"
    /\ recs' = recs \ AddrsOf(call[c].pub)
    /\ To(c, "delVault")
    /\ UNCHANGED <<vault, wallets, stActive, sess, mem, lastActive, chain, ghost>>

WipeVault(c) ==
    /\ call[c].pc = "delVault"
    /\ vault' = None /\ acked' = {}
    /\ To(c, "delWallets")
    /\ UNCHANGED <<wallets, stActive, recs, sess, mem, lastActive, chain, torn, erased>>

WipeWallets(c) ==
    /\ call[c].pc = "delWallets"
    /\ wallets' = <<>>
    /\ To(c, "delActive")
    /\ UNCHANGED <<vault, stActive, recs, sess, mem, lastActive, chain, ghost>>

WipeActive(c) ==
    /\ call[c].pc = "delActive"
    /\ stActive' = 0
    /\ Finish(c) /\ Leave
    /\ torn' = FALSE /\ erased' = TRUE
    /\ UNCHANGED <<vault, wallets, recs, sess, mem, lastActive, acked>>

-----------------------------------------------------------------------------
\* exportKey reads the vault, runs the KDF, and answers with the key in the
\* active slot of the document it read.
ShownAddr == IF Unlocked THEN Accts[active + 1].addr ELSE wallets[stActive + 1].addr

ExportKey(c) ==
    /\ "exportKey" \in Ops /\ Idle(c) /\ vault # None
    /\ IF Unlocked THEN active < Len(Accts) ELSE stActive < Len(wallets)
    /\ Begin(c, [IdleCall EXCEPT !.op = "exportKey", !.pc = "reveal",
                                 !.doc = vault.doc, !.addr = ShownAddr])
    /\ Touch
    /\ UNCHANGED <<disk, sessKey, mem, chain, ghost>>

RevealedAddr(c) ==
    LET d == call[c].doc
        i == IF Unlocked THEN active ELSE d.active
    IN d.accts[Clamp(i, Len(d.accts)) + 1].addr

RevealKey(c) ==
    /\ call[c].pc = "reveal"
    /\ Finish(c)
    /\ UNCHANGED <<disk, sess, mem, lastActive, chain, ghost>>

\* A wrong password, or what a removal finds gone after its re-auth.
Refused(c) ==
    /\ call[c].pc \in {"kdf", "reauth"}
    /\ Finish(c)
    /\ UNCHANGED <<disk, sess, mem, lastActive, chain, ghost>>

-----------------------------------------------------------------------------
Writing == {"putVault", "putWallets", "putActive",
            "delRecs", "delVault", "delWallets", "delActive"}
CutShort == {"putWallets", "putActive", "delWallets", "delActive"}

\* Mutant of StoreFails: the rejection is left at the head of the chain.
StoreFailsStuck(c) ==
    /\ "storeFails" \in Ops
    /\ call[c].pc \in Writing
    /\ Finish(c) /\ torn' = TRUE
    /\ UNCHANGED <<disk, sess, mem, lastActive, chain, acked, erased>>

\* A write to chrome.storage.local rejects: the chain goes on, the caller throws.
StoreFails(c) ==
    /\ "storeFails" \in Ops
    /\ call[c].pc \in Writing
    /\ Finish(c) /\ Leave
    /\ torn' = TRUE
    /\ UNCHANGED <<disk, sess, mem, lastActive, acked, erased>>

TimePasses ==
    /\ "idle" \in Ops /\ Settled
    /\ lastActive' = "stale"
    /\ sessTs' = IF sessTs = "none" THEN "none" ELSE "stale"
    /\ UNCHANGED <<disk, sessKey, mem, call, chain, ghost>>

\* The worker dies with everything in memory; init() rehydrates the session
\* before any message is served.  Closing the browser clears the session too.
Restart(browserClosed) ==
    /\ "restart" \in Ops
    /\ LET resumes == /\ ~browserClosed /\ sessKey # None /\ sessTs = "fresh"
                      /\ vault # None /\ vault.key = sessKey
           keeps == resumes \/ (~browserClosed /\ sessKey = None)
       IN /\ IF resumes
             THEN \E l \in Lists :
                     /\ cur' = l
                     /\ lists' = [m \in Lists |-> IF m = l THEN vault.doc.accts ELSE <<>>]
                     /\ active' = Clamp(vault.doc.active, Len(vault.doc.accts))
                     /\ nextIndex' = NextFree(vault.doc)
                     /\ mnemonic' = vault.doc.mnemonic
                     /\ vaultKey' = sessKey
             ELSE /\ cur' = None /\ lists' = [m \in Lists |-> <<>>] /\ active' = 0
                  /\ nextIndex' = 0 /\ mnemonic' = None /\ vaultKey' = None
          /\ sessKey' = IF keeps THEN sessKey ELSE None
          /\ sessTs' = IF keeps THEN sessTs ELSE "none"
    /\ wiped' = FALSE /\ lastActive' = "fresh"
    /\ call' = [c \in Calls |-> IdleCall] /\ chain' = <<>>
    /\ torn' = (torn \/ \E c \in Calls : call[c].pc \in CutShort)
    /\ UNCHANGED <<disk, acked, erased>>

-----------------------------------------------------------------------------
Start(c) ==
    \/ Create(c) \/ Unlock(c) \/ Lock(c) \/ Reset(c) \/ ExportKey(c)
    \/ AddAccount(c) \/ ImportAccount(c) \/ SwitchAccount(c) \/ RenameAccount(c)
    \/ RemoveAccount(c)

\* The steps an accepted call goes on to take, whatever the user does next.
Continue(c) ==
    \/ SealNew(c) \/ UnlockOpens(c) \/ RemoveReauthed(c) \/ RevealKey(c) \/ Refused(c)
    \/ DropSessionKey(c) \/ DropSessionStamp(c) \/ PurgeRecords(c)
    \/ RunChain(c) \/ PutVault(c) \/ PutWallets(c) \/ PutActive(c)
    \/ ExportSession(c) \/ StampSession(c)
    \/ ResetLocks(c) \/ WipeRecords(c) \/ WipeVault(c) \/ WipeWallets(c) \/ WipeActive(c)
    \/ StoreFails(c)

Next ==
    \/ \E c \in Calls : Start(c) \/ Continue(c)
    \/ RecordActivity
    \/ TimePasses
    \/ \E b \in BOOLEAN : Restart(b)

Spec == Init /\ [][Next]_vars

\* The storage and crypto promises settle, so an accepted call keeps moving.
FairSpec == Spec /\ \A c \in Calls : WF_vars(Continue(c))

-----------------------------------------------------------------------------
\* A finished vault write leaves the ciphertext and the cleartext mirror of one
\* snapshot: two overlapping writes never mix (persistVault, writeVault).
VaultAndMirrorAgree ==
    (~torn /\ \A c \in Calls : call[c].pc \notin CutShort) =>
        IF vault = None THEN wallets = <<>> /\ stActive = 0
        ELSE wallets = Mirror(vault.doc.accts) /\ stActive = vault.doc.active

\* While unlocked, `active` indexes the accounts (the comment on must()),
\* whatever removals, locks and unlocks overlap.
ActiveInRange == Unlocked => active < Len(Accts)

\* An account that create, addAccount or importAccount answered with stays in
\* the stored vault until the user removes it or resets the wallet: no crash,
\* rejected write or queued write drops it (the persistVault-race comment).
AckedDurable == \A a \in acked : vault # None /\ a \in AddrsOf(vault.doc.accts)

\* With no call in flight and no rejected write since, the vault at rest holds
\* the accounts in memory, sealed under the key in memory.
MemoryMatchesVault ==
    (Calm /\ Unlocked /\ ~torn) => vault = [key |-> vaultKey, doc |-> BuildDoc]

\* Once lock() has answered, no key is left in chrome.storage.session for a
\* restarted worker to unlock with (the LOCK-ASYNC comment in lock()).
LockedMeansNoSession ==
    (~Unlocked /\ \A c \in Calls : call[c].pc # "delKey") => sessKey = None

\* What is stored, in RAM and in the session store describes one wallet.
SessionMatchesVault == MemoryMatchesVault /\ LockedMeansNoSession

\* After reset() nothing of the old wallet lands again: no vault, no mirror and
\* no unlocked accounts until a new wallet is sealed.
WipedStaysWiped == erased => vault = None /\ wallets = <<>> /\ ~Unlocked

\* What the comment on reset() promises of the store alone: "nothing queued
\* after this point can land".
NothingLandsAfterReset == erased => vault = None

\* reset() leaves no account's history or sealed claims in the store.
ResetLeavesNoRecords == erased => recs = {}

\* No two accounts of the unlocked wallet share an address: the check in
\* importAccount, and what every lookup by address assumes.
AddressesUnique ==
    Unlocked => \A i, j \in DOMAIN Accts : Accts[i].addr = Accts[j].addr => i = j

\* Removing one account leaves another account that was active, active.
RemovalKeepsActive ==
    [][\A c \in Calls :
          (/\ call[c].pc # "purge" /\ call'[c].pc = "purge"
           /\ Unlocked /\ active < Len(Accts)
           /\ Accts[active + 1].addr # call'[c].addr) =>
              Unlocked' /\ Accts'[active' + 1].addr = Accts[active + 1].addr]_vars

\* A removal deletes no records of an account that is still in the wallet, except
\* its own account's when the user imports that one again before the purge.
PurgeOnlyRemoved ==
    [][\A a \in recs \ recs' :
          \/ \E c \in Calls : call[c].pc = "delRecs"
          \/ \E c \in Calls : call[c].op = "remove" /\ call[c].addr = a
          \/ ~(Unlocked /\ a \in AddrsOf(Accts))]_vars

\* A removal takes its own account and nothing else, from the list or the records.
RemovalIsExact == RemovalKeepsActive /\ PurgeOnlyRemoved

\* exportKey answers with the key of the active account: the one active when
\* the user asked, or when the answer was made.
RevealsActiveKey ==
    [][\A c \in Calls : (RevealKey(c) /\ (Unlocked => active < Len(Accts))) =>
          \/ RevealedAddr(c) = call[c].addr
          \/ Unlocked /\ RevealedAddr(c) = Accts[active + 1].addr]_vars

\* Every accepted call is answered: a rejected write or a lock never stalls the
\* write chain (the throw-safe comment on persistVault).
CallsSettle == \A c \in Calls : ~Idle(c) ~> Idle(c)
=============================================================================
