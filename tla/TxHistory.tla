------------------------------ MODULE TxHistory ------------------------------
(***************************************************************************)
(* Per-account transaction history: src/core/history.ts, with the parts of *)
(* src/core/wallet.ts that lock, unlock, reset, create and remove accounts.*)
(*                                                                         *)
(* A flow signs a transaction with the key of the account active when it   *)
(* started, and waits for the node's answer.  What it records, and every   *)
(* other read-modify-write of a history list, is a job on one promise      *)
(* chain.  A job reads its list in one step and writes it in a later one;  *)
(* the user, the other flows and the browser act in between.  A row that   *)
(* cannot be written is parked in memory and drained later.                *)
(***************************************************************************)
EXTENDS Naturals, Sequences, FiniteSets, SequencesExt, Subsequences

CONSTANTS
    Txs,         \* transactions: a byte-identical retry has the same id
    Merges,      \* those that consolidate coins
    Minable,     \* bound: the transactions a refresh may find on the chain
    Accounts,
    MaxRows,     \* rows a stored list keeps (200 in the code)
    MaxChain,    \* bound: no refresh, unlock or retry starts with this many jobs queued
    MaxParked,   \* bound: no retry starts with this many rows parked
    MaxMishaps,  \* bound: rejected writes, locks, switches, removals, resets and restarts
    Ops,         \* bound: the operations this instance offers
    UserWaits,   \* whether the user removes or creates only with no flow in flight
    None

ASSUME HistoryAssumption ==
    /\ MaxRows \in Nat \ {0} /\ {MaxChain, MaxParked, MaxMishaps} \subseteq Nat
    /\ Merges \subseteq Txs /\ Minable \subseteq Txs
    /\ UserWaits \in BOOLEAN
    /\ None \notin Txs \cup Accounts

Row == [tx: Txs, maybe: BOOLEAN, confirmed: BOOLEAN]
Parked == [k: Accounts, row: Row]
Job == [kind: {"record", "clear", "latch", "settle", "drain", "purge", "wipe"},
        k: Accounts \cup {None}, tx: Txs \cup {None}, maybe: BOOLEAN,
        txs: SUBSET Txs, ks: SUBSET Accounts]

VARIABLES
    stored,      \* chrome.storage.local: the rows under histKey(account), newest first
    exists,      \* whether a vault is stored
    accounts, active, unlocked, wiped,
    pend,        \* pendingHist: the parked rows
    chain,       \* histChain: the queued jobs, the head running
    at,          \* the head's next step: "start", "next" parked row, or "write"
    snap,        \* the list the head read
    held,        \* the rows the running drain took off pend
    opening,     \* unlock() has opened the vault and will look at pend
    resetting,   \* reset(): "no", "reading" the accounts, or "locked"
    key,         \* the account a transaction was signed with
    flow,        \* "new", "sent", "recording", "latching" or "done"
    outcome,     \* the last answer
    spends,      \* the merges whose outputs it consumed
    mined,
    mishaps,     \* how many of them there were
    \* history variables
    filed,       \* transactions whose recordTx returned
    excused,     \* those whose row may be gone: evicted, removed, reset, or lost in a restart
    purged,      \* accounts whose removal has finished
    old          \* transactions of the accounts the last reset erased

wallet == <<exists, accounts, active, unlocked, wiped, opening, resetting>>
work   == <<pend, chain, at, snap, held>>
flows  == <<key, flow, outcome, spends, mined>>
ghosts == <<filed, excused, purged, old>>
vars   == <<stored, wallet, work, flows, ghosts, mishaps>>

TypeOK ==
    /\ stored \in [Accounts -> Seq(Row)] /\ \A k \in Accounts : Len(stored[k]) <= MaxRows
    /\ exists \in BOOLEAN /\ unlocked \in BOOLEAN /\ wiped \in BOOLEAN /\ opening \in BOOLEAN
    /\ accounts \subseteq Accounts /\ active \in Accounts \cup {None}
    /\ pend \in Seq(Parked) /\ chain \in Seq(Job)
    /\ at \in {"start", "next", "write"} /\ snap \in Seq(Row) /\ held \in Seq(Parked)
    /\ resetting \in {"no", "reading", "locked"}
    /\ key \in [Txs -> Accounts \cup {None}]
    /\ flow \in [Txs -> {"new", "sent", "recording", "latching", "done"}]
    /\ outcome \in [Txs -> {"none", "ok", "maybe", "duplicate", "refused"}]
    /\ spends \in [Txs -> SUBSET Merges]
    /\ mined \subseteq Txs /\ filed \subseteq Txs /\ excused \subseteq Txs /\ old \subseteq Txs
    /\ purged \subseteq Accounts /\ mishaps \in 0..MaxMishaps

Init ==
    /\ stored = [k \in Accounts |-> <<>>]
    /\ exists = TRUE /\ accounts = Accounts /\ active \in Accounts
    /\ unlocked = TRUE /\ wiped = FALSE /\ opening = FALSE /\ resetting = "no"
    /\ pend = <<>> /\ chain = <<>> /\ at = "start" /\ snap = <<>> /\ held = <<>>
    /\ key = [t \in Txs |-> None] /\ flow = [t \in Txs |-> "new"]
    /\ outcome = [t \in Txs |-> "none"] /\ spends = [t \in Txs |-> {}]
    /\ mined = {} /\ filed = {} /\ excused = {} /\ purged = {} /\ old = {} /\ mishaps = 0

-----------------------------------------------------------------------------
TxsOf(h) == {h[i].tx : i \in DOMAIN h}
NewRow(t, maybe) == [tx |-> t, maybe |-> maybe, confirmed |-> FALSE]
\* The jobs of the chain, each with what its closure captured.
RecordJob(t, maybe) ==
    [kind |-> "record", k |-> key[t], tx |-> t, maybe |-> maybe, txs |-> {}, ks |-> {}]
ClearJob(t) == [kind |-> "clear", k |-> key[t], tx |-> t, maybe |-> FALSE, txs |-> {}, ks |-> {}]
MarkJob(kind, k, txs) ==
    [kind |-> kind, k |-> k, tx |-> None, maybe |-> FALSE, txs |-> txs, ks |-> {}]
PurgeJob(k) == [kind |-> "purge", k |-> k, tx |-> None, maybe |-> FALSE, txs |-> {}, ks |-> {}]
WipeJob(ks) == [kind |-> "wipe", k |-> None, tx |-> None, maybe |-> FALSE, txs |-> {}, ks |-> ks]
DrainJob == [kind |-> "drain", k |-> None, tx |-> None, maybe |-> FALSE, txs |-> {}, ks |-> {}]

Capped(h) == SubSeq(h, 1, IF Len(h) < MaxRows THEN Len(h) ELSE MaxRows)
Definite(r) == [tx |-> r.tx, maybe |-> FALSE, confirmed |-> r.confirmed]
ClearMaybeOf(h, t) == [i \in DOMAIN h |-> IF h[i].tx = t THEN Definite(h[i]) ELSE h[i]]

\* Mutants of Filed: the definitive row leaves the stored flag, or replaces the
\* stored row.
FiledNoResolve(h, row) == IF row.tx \in TxsOf(h) THEN h ELSE Capped(<<row>> \o h)
FiledReplacing(h, row) ==
    Capped(<<row>> \o (IF row.maybe THEN h ELSE SelectSeq(h, LAMBDA r : r.tx # row.tx)))

\* doRecordTx: idempotent by txid; a definitive record clears an earlier maybe in place.
Filed(h, row) ==
    IF row.tx \in TxsOf(h)
    THEN (IF row.maybe THEN h ELSE ClearMaybeOf(h, row.tx))
    ELSE Capped(<<row>> \o h)

\* The rows clearMaybe, latchSpentMerges and pendingMerge's chained step change.
Resolved(r, j) == [tx |-> r.tx, maybe |-> FALSE,
                   confirmed |-> r.confirmed \/ (r.tx \in Merges /\ j.kind # "clear")]
Touches(r, j) ==
    CASE j.kind = "clear"  -> r.tx = j.tx
      [] j.kind = "latch"  -> r.tx \in j.txs \cap Merges /\ ~r.confirmed
      [] j.kind = "settle" -> r.tx \in j.txs /\ (r.maybe \/ (r.tx \in Merges /\ ~r.confirmed))
Edited(h, j) == [i \in DOMAIN h |-> IF Touches(h[i], j) THEN Resolved(h[i], j) ELSE h[i]]

\* Whether a reset is under way, or has left no wallet.
Erasing == \/ ~exists \/ resetting # "no"
           \/ \E j \in ToSet(chain) : j.kind = "wipe"

\* The transactions with a row parked, held by the running drain, or being filed.
ParkedTxs(k) == {p.row.tx : p \in {q \in ToSet(pend) : q.k = k}}
HeldTxs(k) == {p.row.tx : p \in {q \in ToSet(held) : q.k = k}}
BeingFiled == {j.tx : j \in {x \in ToSet(chain) : x.kind = "record"}}
InMemory == BeingFiled \cup UNION {ParkedTxs(k) \cup HeldTxs(k) : k \in Accounts}

InFlight == \E t \in Txs : flow[t] \in {"sent", "recording", "latching"}
Free == UserWaits => ~InFlight

\* What a flow does once its own record is written: latch what it spent, or end.
AfterRecord(t) == IF outcome[t] = "ok" /\ spends[t] # {} THEN "latching" ELSE "done"

\* The head is done: its caller goes on, and the next job starts.
FinishJob ==
    /\ chain' = Tail(chain) /\ at' = "start" /\ snap' = <<>> /\ held' = <<>>
    /\ IF Head(chain).kind = "record"
       THEN /\ flow' = [flow EXCEPT ![Head(chain).tx] =
                                      IF @ = "recording" THEN AfterRecord(Head(chain).tx) ELSE @]
            /\ filed' = filed \cup {Head(chain).tx}
       ELSE UNCHANGED <<flow, filed>>
    /\ UNCHANGED <<key, outcome, spends, mined>>

-----------------------------------------------------------------------------
\* A value flow captures its signer and history key, signs, and submits.  After
\* an ambiguous answer the user may retry: the same coins give the same id.
Sign(t) ==
    /\ unlocked
    /\ \/ flow[t] = "new"
       \/ /\ flow[t] = "done" /\ outcome[t] = "maybe" /\ key[t] = active
          /\ Len(chain) < MaxChain /\ Len(pend) < MaxParked
    /\ key' = [key EXCEPT ![t] = active]
    /\ flow' = [flow EXCEPT ![t] = "sent"]
    /\ \E s \in SUBSET {m \in Merges \ {t} : key[m] = active /\ outcome[m] \in {"ok", "maybe"}} :
          spends' = [spends EXCEPT ![t] = s]
    /\ old' = old \ {t}
    /\ UNCHANGED <<stored, wallet, work, outcome, mined, filed, excused, purged>>

\* maybeRecord's recordTx: the write is queued, and a drain behind it if any row
\* was parked by then.
Record(t, maybe) ==
    /\ LET own == Append(chain, RecordJob(t, maybe))
       IN  chain' = IF pend = <<>> THEN own ELSE Append(own, DrainJob)
    /\ flow' = [flow EXCEPT ![t] = "recording"]
    /\ UNCHANGED pend

\* clearMaybe: the parked twin at once, the stored row on the chain.
ClearParked(t) ==
    [i \in DOMAIN pend |-> IF pend[i].k = key[t] /\ pend[i].row.tx = t
                           THEN [k |-> pend[i].k, row |-> Definite(pend[i].row)] ELSE pend[i]]

Answer(t) ==
    /\ flow[t] = "sent"
    /\ \E a \in {"ok", "maybe", "duplicate", "refused"} :
          /\ a = "duplicate" => outcome[t] = "maybe" \* the first submit was taken
          /\ outcome' = [outcome EXCEPT ![t] = a]
          /\ CASE a = "ok" -> Record(t, FALSE)
               [] a = "maybe" -> Record(t, TRUE)
               [] a = "duplicate" ->
                    /\ pend' = ClearParked(t)
                    /\ chain' = Append(chain, ClearJob(t))
                    /\ flow' = [flow EXCEPT ![t] = "done"]
               [] a = "refused" -> flow' = [flow EXCEPT ![t] = "done"] /\ UNCHANGED <<pend, chain>>
    /\ UNCHANGED <<stored, wallet, at, snap, held, key, spends, mined, ghosts>>

\* Spending an output proves its source confirmed: latch those rows.
LatchSpent(t) ==
    /\ flow[t] = "latching"
    /\ chain' = Append(chain, MarkJob("latch", key[t], spends[t]))
    /\ flow' = [flow EXCEPT ![t] = "done"]
    /\ UNCHANGED <<stored, wallet, pend, at, snap, held, key, outcome, spends, mined, ghosts>>

Mine(t) ==
    /\ "mine" \in Ops /\ t \in Minable \ mined /\ outcome[t] \in {"ok", "maybe", "duplicate"}
    /\ mined' = mined \cup {t}
    /\ UNCHANGED <<stored, wallet, work, key, flow, outcome, spends, ghosts>>

\* The popup refreshes: pendingMerge reads the chain, then queues what it found.
Refresh ==
    /\ "refresh" \in Ops /\ unlocked /\ Len(chain) < MaxChain
    /\ \E s \in (SUBSET mined) \ {{}} :
          chain' = Append(chain, MarkJob("settle", active, s))
    /\ UNCHANGED <<stored, wallet, pend, at, snap, held, flows, ghosts>>

-----------------------------------------------------------------------------
\* recordTx's job starts: locked, it parks the row (or drops it after a reset);
\* unlocked, the row supersedes a parked maybe twin, and the list is read.
Twin(p, j) == p.k = j.k /\ p.row.tx = j.tx /\ p.row.maybe /\ ~j.maybe
Superseded(j) == At(pend, {i \in DOMAIN pend : ~Twin(pend[i], j)})

ParkRow(j) == Append(pend, [k |-> j.k, row |-> NewRow(j.tx, j.maybe)])
\* Mutant of ParkUnlessWiped: a reset does not drop the row.
ParkAnyway(j) == ParkRow(j)
ParkUnlessWiped(j) == IF wiped THEN pend ELSE ParkRow(j)

StartRecord ==
    /\ chain # <<>> /\ at = "start"
    /\ LET j == Head(chain) IN
          /\ j.kind = "record"
          /\ IF unlocked
             THEN /\ pend' = Superseded(j) /\ at' = "write" /\ snap' = stored[j.k]
                  /\ UNCHANGED <<chain, held, flows, filed, excused>>
             ELSE /\ pend' = ParkUnlessWiped(j)
                  /\ excused' = excused \cup (IF wiped /\ Erasing THEN {j.tx} ELSE {})
                  /\ FinishJob
    /\ UNCHANGED <<stored, wallet, purged, old>>

\* clearMaybe, latchSpentMerges and pendingMerge give up while locked.
StartEdit ==
    /\ chain # <<>> /\ at = "start" /\ Head(chain).kind \in {"clear", "latch", "settle"}
    /\ IF unlocked
       THEN /\ at' = "write" /\ snap' = stored[Head(chain).k]
            /\ UNCHANGED <<chain, held, flows, filed>>
       ELSE FinishJob
    /\ UNCHANGED <<stored, wallet, pend, excused, purged, old>>

\* drainPendingHist takes every parked row; locked, it leaves them.
StartDrain ==
    /\ chain # <<>> /\ at = "start" /\ Head(chain).kind = "drain"
    /\ IF unlocked
       THEN /\ held' = pend /\ pend' = <<>> /\ at' = "next"
            /\ UNCHANGED <<chain, snap, flows, filed>>
       ELSE FinishJob /\ UNCHANGED pend
    /\ UNCHANGED <<stored, wallet, excused, purged, old>>

DrainNext ==
    /\ at = "next"
    /\ IF held = <<>>
       THEN FinishJob
       ELSE /\ at' = "write" /\ snap' = stored[Head(held).k]
            /\ UNCHANGED <<chain, held, flows, filed>>
    /\ UNCHANGED <<stored, wallet, pend, excused, purged, old>>

\* A removal forgets the parked rows of its account; a reset all of them.
KeptAfter(j) == IF j.kind = "wipe" THEN <<>> ELSE At(pend, {i \in DOMAIN pend : pend[i].k # j.k})

StartDelete ==
    /\ chain # <<>> /\ at = "start"
    /\ LET j == Head(chain) IN
          /\ j.kind \in {"purge", "wipe"}
          /\ pend' = KeptAfter(j)
          /\ excused' = excused \cup {t \in filed : j.kind = "wipe" \/ key[t] = j.k}
    /\ at' = "write"
    /\ UNCHANGED <<stored, wallet, chain, snap, held, flows, filed, purged, old>>

\* The head writes what it read and changed.
WriteRow(k, row) ==
    /\ stored' = [stored EXCEPT ![k] = Filed(snap, row)]
    /\ excused' = excused \cup (TxsOf(snap) \ TxsOf(Filed(snap, row)))

WriteRecord ==
    /\ at = "write" /\ Head(chain).kind = "record"
    /\ WriteRow(Head(chain).k, NewRow(Head(chain).tx, Head(chain).maybe))
    /\ FinishJob
    /\ UNCHANGED <<wallet, pend, purged, old>>

WriteDrained ==
    /\ at = "write" /\ Head(chain).kind = "drain"
    /\ WriteRow(Head(held).k, Head(held).row)
    /\ held' = Tail(held) /\ at' = "next" /\ snap' = <<>>
    /\ UNCHANGED <<wallet, pend, chain, flows, filed, purged, old>>

WriteEdit ==
    /\ at = "write" /\ Head(chain).kind \in {"clear", "latch", "settle"}
    /\ stored' = [stored EXCEPT ![Head(chain).k] = Edited(snap, Head(chain))]
    /\ FinishJob
    /\ UNCHANGED <<wallet, pend, excused, purged, old>>

Delete ==
    /\ at = "write"
    /\ LET j == Head(chain) IN
          \/ /\ j.kind = "purge"
             /\ stored' = [stored EXCEPT ![j.k] = <<>>]
             /\ purged' = purged \cup {j.k}
             /\ UNCHANGED <<wallet, old>>
          \/ /\ j.kind = "wipe"
             /\ stored' = [k \in Accounts |-> IF k \in j.ks THEN <<>> ELSE stored[k]]
             /\ exists' = FALSE /\ accounts' = {} /\ active' = None
             /\ old' = {t \in Txs : key[t] \in j.ks}
             /\ UNCHANGED <<unlocked, wiped, opening, resetting, purged>>
    /\ FinishJob
    /\ UNCHANGED <<pend, excused>>

\* A read or a write of chrome.storage.local rejects.  A row is parked (again),
\* an edit is given up, a deletion throws to its caller; the chain goes on.
\* Mutant of Park: the row is dropped.
ParkNot(p) == UNCHANGED pend
Park(p) == pend' = Append(pend, p)

StoreFails ==
    /\ "storeFails" \in Ops /\ at = "write"
    /\ LET j == Head(chain) IN
          \/ /\ j.kind = "record"
             /\ pend' = ParkRow(j) /\ FinishJob
             /\ UNCHANGED stored
          \/ /\ j.kind = "drain"
             /\ Park(Head(held))
             /\ held' = Tail(held) /\ at' = "next" /\ snap' = <<>>
             /\ UNCHANGED <<stored, chain, flows, filed>>
          \/ /\ j.kind \in {"clear", "latch", "settle", "purge"}
             /\ FinishJob /\ UNCHANGED <<stored, pend>>
          \/ /\ j.kind = "wipe" /\ "resetFails" \in Ops
             /\ \E s \in SUBSET j.ks :
                   stored' = [k \in Accounts |-> IF k \in s THEN <<>> ELSE stored[k]]
             /\ FinishJob /\ UNCHANGED pend
    /\ UNCHANGED <<wallet, excused, purged, old>>

-----------------------------------------------------------------------------
Lock ==
    /\ "lock" \in Ops /\ unlocked
    /\ unlocked' = FALSE
    /\ UNCHANGED <<stored, exists, accounts, active, wiped, opening, resetting, work, flows, ghosts>>

\* Not while a reset is under way: an unlock that overlaps one brings back the old
\* wallet itself, which is the subject of WalletVault (vault_reset_race.cfg).
Unlock ==
    /\ "lock" \in Ops /\ ~unlocked /\ ~Erasing /\ Len(chain) < MaxChain
    /\ unlocked' = TRUE /\ opening' = TRUE
    /\ UNCHANGED <<stored, exists, accounts, active, wiped, resetting, work, flows, ghosts>>

\* unlock() goes on after its vault and session writes, unless one of them threw.
UnlockDrains ==
    /\ opening /\ opening' = FALSE
    /\ IF pend # <<>> THEN chain' = Append(chain, DrainJob) ELSE UNCHANGED chain
    /\ UNCHANGED <<stored, exists, accounts, active, unlocked, wiped, resetting,
                   pend, at, snap, held, flows, ghosts>>

UnlockThrows ==
    /\ "storeFails" \in Ops /\ opening /\ opening' = FALSE
    /\ UNCHANGED <<stored, exists, accounts, active, unlocked, wiped, resetting, work, flows, ghosts>>

Switch ==
    /\ "switch" \in Ops /\ unlocked
    /\ active' \in accounts \ {active}
    /\ UNCHANGED <<stored, exists, accounts, unlocked, wiped, opening, resetting, work, flows, ghosts>>

\* removeAccount: the account leaves memory at once, its rows when their turn comes.
RemoveAccount ==
    /\ "remove" \in Ops /\ unlocked /\ Cardinality(accounts) > 1 /\ Free
    /\ \E k \in accounts :
          /\ accounts' = accounts \ {k}
          /\ active' \in IF active = k THEN accounts' ELSE {active}
          /\ chain' = Append(chain, PurgeJob(k))
    /\ UNCHANGED <<stored, exists, unlocked, wiped, opening, resetting, pend, at, snap, held, flows, ghosts>>

\* reset: mark the wallet wiped, read its accounts, lock, and queue the wipe.
Reset ==
    /\ "reset" \in Ops /\ exists /\ resetting = "no"
    /\ \A j \in ToSet(chain) : j.kind # "wipe"
    /\ wiped' = TRUE /\ resetting' = "reading"
    /\ UNCHANGED <<stored, exists, accounts, active, unlocked, opening, work, flows, ghosts>>

ResetLocks ==
    /\ resetting = "reading"
    /\ unlocked' = FALSE /\ resetting' = "locked"
    /\ UNCHANGED <<stored, exists, accounts, active, wiped, opening, work, flows, ghosts>>

ResetQueues ==
    /\ resetting = "locked" /\ resetting' = "no"
    /\ chain' = Append(chain, WipeJob(accounts))
    /\ UNCHANGED <<stored, exists, accounts, active, unlocked, wiped, opening,
                   pend, at, snap, held, flows, ghosts>>

\* A new wallet is sealed (restored, perhaps with the accounts of the old one).
Create ==
    /\ "create" \in Ops /\ ~exists /\ Free
    /\ exists' = TRUE /\ unlocked' = TRUE /\ wiped' = FALSE
    /\ active' \in Accounts /\ accounts' = {active'}
    /\ purged' = purged \ accounts'
    /\ UNCHANGED <<stored, opening, resetting, work, flows, filed, excused, old>>

\* The worker dies: what is in memory is gone, what is in flight is unanswered, and
\* an account whose records were not purged yet is still in the stored vault.
Unpurged == {j.k : j \in {x \in ToSet(chain) : x.kind = "purge"}}
Restart ==
    /\ "restart" \in Ops
    /\ accounts' = accounts \cup Unpurged
    /\ active' \in {active} \cup Unpurged
    /\ unlocked' \in {FALSE, unlocked} /\ wiped' = FALSE /\ opening' = FALSE /\ resetting' = "no"
    /\ pend' = <<>> /\ chain' = <<>> /\ at' = "start" /\ snap' = <<>> /\ held' = <<>>
    /\ flow' = [t \in Txs |-> IF flow[t] = "new" THEN "new" ELSE "done"]
    /\ excused' = excused \cup InMemory \cup {t \in filed : t \notin TxsOf(stored[key[t]])}
    /\ UNCHANGED <<stored, exists, key, outcome, spends, mined, filed, purged, old>>

-----------------------------------------------------------------------------
Mishap == mishaps < MaxMishaps /\ mishaps' = mishaps + 1

RunJob ==
    \/ /\ \/ StartRecord \/ StartEdit \/ StartDrain \/ DrainNext \/ StartDelete
          \/ WriteRecord \/ WriteDrained \/ WriteEdit \/ Delete
       /\ UNCHANGED mishaps
    \/ StoreFails /\ Mishap

Next ==
    \/ RunJob
    \/ /\ \/ \E t \in Txs : Sign(t) \/ Answer(t) \/ LatchSpent(t) \/ Mine(t)
          \/ Refresh \/ Unlock \/ UnlockDrains \/ ResetLocks \/ ResetQueues \/ Create
       /\ UNCHANGED mishaps
    \/ (Lock \/ UnlockThrows \/ Switch \/ RemoveAccount \/ Reset \/ Restart) /\ Mishap

Spec == Init /\ [][Next]_vars

-----------------------------------------------------------------------------
History(k) == TxsOf(stored[k]) \cup ParkedTxs(k)

\* A recorded transaction is never lost: its row is stored, parked, or in the
\* hands of a job, unless the user removed its account or reset the wallet, the
\* list evicted it, or the worker died first (recordTx: the double-pay backstop).
RowsKept ==
    \A t \in filed \ excused :
        t \in History(key[t]) \cup HeldTxs(key[t]) \cup BeingFiled

\* A list never shows one transaction twice (doRecordTx is idempotent by txid).
NoDuplicateRows ==
    \A k \in Accounts : \A i, j \in DOMAIN stored[k] : stored[k][i].tx = stored[k][j].tx => i = j

\* Once an answer has settled a transaction and its record has been written, no
\* stored row of it still says "maybe", whatever order parked rows drained in.
DefiniteResolves ==
    \A t \in filed \ (excused \cup InMemory) :
        outcome[t] = "ok" =>
            \A i \in DOMAIN stored[key[t]] :
                stored[key[t]][i].tx = t => ~stored[key[t]][i].maybe

\* The confirmed latch survives every later write of the list: no job writes back
\* a list it read before another job's write.
ConfirmedIsFinal ==
    [][\A k \in Accounts : \A i \in DOMAIN stored[k] : \A j \in DOMAIN stored'[k] :
          (stored[k][i].tx = stored'[k][j].tx /\ stored[k][i].confirmed) =>
              stored'[k][j].confirmed]_vars

\* A removed account's rows do not come back (removeAccount: "wipe the removed
\* account's isolated data so it can't resurface").
PurgedStaysGone ==
    \A k \in purged : stored[k] = <<>> /\ ParkedTxs(k) = {}

\* After reset() "nothing of the old wallet may land again" (the comment on wiped).
WipedStaysWiped ==
    \A t \in old : \A k \in Accounts : t \notin History(k) \cup HeldTxs(k)

\* What the user erased stays erased, in the store and in the worker's memory,
\* whatever answer arrives afterwards; and the lists stay well formed.
ErasedStaysErased == TypeOK /\ NoDuplicateRows /\ PurgedStaysGone /\ WipedStaysWiped

=============================================================================
