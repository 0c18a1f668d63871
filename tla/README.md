# Cairn wallet: a TLA+ model of the extension

The wallet is a browser extension for the Compute Substrate chain. It keeps the
user's keys, asks the user before it signs anything a page requested, follows what
it broadcast, keeps the secrets that only it holds, and proves what servers tell it
about coins, offers, names and headers. This directory models the parts of it where
order matters: what happens when calls, storage writes, windows, pages, the idle lock,
a moving chain and the death of the service worker meet each other.

Every module is a translation of code under `src/src/`. `PROJECT.json` maps each
definition to the lines it stands for, and lists the components, the runs, the mutants
that show each property can fail, the hazards and the theorems.

    tlc -workers 2 -config vault_accounts.cfg MCWalletVault
    tlapm TxHistoryProofs.tla

## 1. The system

The extension has four kinds of process, and no two share memory.

| Process | Code | Lives | State |
|---|---|---|---|
| service worker | `background.ts`, `core/*.ts` | killed by the browser at will, restarted by the next event | all `Wallet` fields, the approval queue, promise chains and caches in memory |
| toolbar popup | `popup/popup*.ts` | while open | what it rendered, the review the user is looking at |
| approval windows | `popup/approve.ts`, `clearsign.ts` | until closed, also across worker restarts | the painted request, the signer and the warnings it displayed |
| pages | `inpage.ts`, `content.ts` | until closed | the address they were told |

They exchange messages (`chrome.runtime.sendMessage`, ports) and share
`chrome.storage.local` (survives everything) and `chrome.storage.session` (survives
the worker, not the browser). The worker is single threaded, but every handler
awaits storage, key derivation and the network, and any other handler may run at
every await. That is where the hard behaviour comes from; nothing is parallel.

### Components

**Wallet lifecycle** (`core/wallet.ts`). Keeps the encrypted vault, a cleartext mirror
of its accounts and the active index in local storage; the accounts, key, phrase and
next index in memory while unlocked; the raw key in session storage so that a
restarted worker is still unlocked. Operations: create, restore, import, unlock,
resume, lock, add / import / rename / switch / remove an account, export of the active
key, reset. Vault writes go through one promise chain. Hard: an operation captures state
before an await (key derivation takes most of a second) and uses it after; any of three
writes may reject; the worker dies between two. Correct if: no acknowledged account is
lost; ciphertext and mirror agree; the active index names an account; a locked wallet
leaves no key in session storage; a reset leaves nothing.

**Transaction history** (`core/history.ts`). One stored list per account, newest first, of
at most 200 rows; rows that could not be written wait in `pendingHist`; every
read-modify-write is a job on one promise chain. Operations: record the outcome of a
transaction, drain, refresh, latch merges whose output was spent, purge an account, wipe.
Hard: answers are late, ambiguous ("maybe broadcast") or duplicates of a retry; the wallet
locks, switches, resets in between. Correct if: the row of a broadcast transaction is never
lost (it is what stops a user from paying twice), never doubled, loses its "maybe" once the
answer is definite, and does not return once erased.

**Approval queue and window** (`background.ts`, `popup/approve.ts`, `approve-window.ts`). A
`Map` of requests in memory, bounded globally and per site; one approval window
on record. The window polls the queue, paints its head with the account that will
sign, reads what the card warns about, and answers. A fill whose reservation is not
confirmed goes back to the front of the queue for a second click on a warning. Hard: the
user switches accounts after the paint; two windows are created at once; reads of a card
land in any order and after a lock; a window closes while a request is in work. Correct
if: what is signed is what was shown; one click signs once; every request is answered.

**Site consents and the page gateway** (`background.ts`, `content.ts`, `core/events.ts`).
One stored object of origins and the address each was granted. Operations: connect, silent
reads, disconnect by the page, revoke by the user, events, wipe at a reset. Correct if: a
page holds an address only if the user approved that account for that site; a removed site
does not return.

**Off-chain content** (`core/wallet.ts`). A stored queue of bodies whose anchor was paid
for; a flush registers the mined ones. Correct if: a body leaves the queue only
registered, expired or reset, and leaves it eventually.

**Sealed claims** (`core/claims.ts`). Commit-reveal: the nonce of a paid commit exists in
this wallet only, first parked in memory, then in the account's list. Correct if: it is held
until it is revealed, filed under the signer, and published only after the commit is mined.

**Node client and coins** (`core/node.ts`, `core/csdtx.ts`). Selection of coins the node
must prove one by one, in rounds that leave out what it could not prove; caches of those
shared by all calls of the worker; merge, Max, fee caps, change; the submit, whose answer may
be lost, late or a duplicate. Correct if: what is signed balances to the unit against what
the coins are worth, a refusal is true, and "nothing was sent" is never said of a payment
that was sent.

**Fill preflight and fill proof** (`core/fillpreflight.ts`, `fillspv.ts`, `offerxcheck.ts`).
Before a fill is signed the offer and the reservation are proved from headers and block
bodies, and a second source is asked. Correct if: a fill it signs delivers; a refusal is
based on true evidence; a tip once verified is not forgotten.

**Headers** (`core/headerstore.ts`, `spvpin.ts`, `spvbind.ts`, `spvanchors.ts`,
`namespv.ts`). The light client's chain, kept in chunks, pinned for the session, migrated
from the snapshot of older releases, written back by writes nobody waits for. Correct if: the
work it compares chains by is the work it holds, nothing proven is lost by a restart, and it
catches up with a served chain that has more work.

**Names** (`core/names.ts`, `namecache.ts`, `namegate.ts`, `namespv.ts`, `popup/popup-send*.ts`).
The union of what two services serve is bound to blocks and replayed; a cache remembers what
was proved; a send freezes a review and resolves again at the confirm. Correct if: no
withholding service changes the owner, and what is signed is the review shown.

**Not modelled**: the failed-unlock limiter, inclusion verdicts, token views and market
reads, key derivation and encryption, storage adapters, endpoints, the page bridge, popup panels and
clear signing, the vendored verifier and codec (section 6).

### How they interact

    page --message--> content.ts --message--> background.ts --queue--> approve.ts
                                   |  ^                          |
                        consents <-+  +-- accountsChanged        | resolve(id, approve, signer, ack)
                                   v                             v
                              Wallet (core/wallet.ts) <----------+   popup calls
              vault chain | history chain | seal chain | pendingContent | coin caches | header source
                                   v
                 chrome.storage.local / session          node and Cairn API (HTTP)

Promise chains (vault, history, seals, consents) serialise the writes that need it. `reset()`
runs a part of its work on each; `lock()` runs on none, so it lands in the middle of
everything. `wiped` is the flag by which jobs that outlive a reset know that they are of the old wallet.

## 2. The modules

| Module | Code | Abstracts |
|---|---|---|
| `WalletVault` | `core/wallet.ts` | a ciphertext is the pair of its key and its document; an address is (phrase, index) or a raw key |
| `TxHistory` | `core/history.ts`, `core/wallet.ts` | a row is its transaction, its "maybe" and its "confirmed" |
| `ApprovalQueue` | `background.ts`, `popup/approve.ts` | a request is its site and its kind; a method is when it reads the account |
| `ReviewWindow` | `popup/approve.ts`, composed with `ApprovalQueue` | a card is the state of its reads and latches; time is open |
| `SiteConsent` | `background.ts`, `content.ts` | a stored consent is the address |
| `PendingContent` | `core/wallet.ts` | an entry is its post, its age a flag |
| `SealedClaims` | `core/claims.ts`, `core/wallet.ts` | a record is its commit and whether it is revealed |
| `CoinSpend` | `core/node.ts`, `core/csdtx.ts` | a coin is a number with a reported and a real value and what the node can answer for it |
| `PaymentPromise` | what `node.ts` and the popup tell the user | abstract specification: the last word said, and how often the payment landed |
| `OfferChain` | external: the vendored resolver, from how `src/src` uses it | an offer's history is a set of events, one a block |
| `FillPreflight` | `core/fillpreflight.ts`, `fillspv.ts`, `offerxcheck.ts` | outputs are one of three classes, the market one of three kinds |
| `HeaderChain` | `core/headerstore.ts`, `spvanchors.ts`, the vendored `LightClient` (external) | a chain is given by its last header; it forks once |
| `HeaderSync` | `core/namespv.ts`, `headerstore.ts`, `spvpin.ts`, `spvbind.ts` | work is a number per branch, a page a target height |
| `NameRecords` | `core/namespv.ts` | a record is its author and its operation |
| `NameSend` | `core/names.ts`, `namecache.ts`, `namespv.ts`, `popup/popup-send*.ts` | a card is the address shown and whether it was proved |
| `Subsequences` | `Array.prototype.filter` in `claims.ts`, `history.ts` | |

`WalletVaultProofs`, `CoinSpendProofs`, `NameSendProofs`, `TxHistoryProofs` and `HeaderSyncProofs`
hold the theorems of their components, `ApprovalQueueProofs` those of `ApprovalQueue` and `ReviewWindow`, `RequestProofs`
those of what a page's request meets before it is answered (`FillPreflight` and `SiteConsent`), and `SealedClaimsProofs` those of
the two lists a paid anchor leaves to be worked off (`SealedClaims` and `PendingContent`). The second of a pair names its
specification apart (`ConsentSpec`, `ContentSpec`). `MC...` modules give a
module its constants for TLC. `ReviewWindow` extends `ApprovalQueue`, `CoinSpend` implements `PaymentPromise`,
`FillPreflight` stands on `OfferChain`, `HeaderSync` on `HeaderChain`, `NameSend` on `NameRecords`. The others do
not share state: each takes what it can see of its neighbours (the account that is active,
locked or not, wiped or not) as actions of its own, guarded by nothing but the order the
neighbour guarantees.

### How a call becomes actions

The unit is the code between two awaits. A call is a record with a program counter named
for what it awaits and the fields it captured; the action that continues it makes all the
assignments up to the next await. A promise chain is a sequence with its running job at the
head. What runs without an await in the code is one step in the model, with one exception: in
`TxHistory` the start of a job is a step of its own, although a job at the head of an empty
chain starts in a microtask, so the model has a few more interleavings there than the code.

**WalletVault.** `vault`, `wallets`, `stActive`, `recs` are local storage, `sessKey`, `sessTs`
session storage, the rest the fields of `Wallet`. `lists` gives each in-memory array an identity,
because `removeAccount` compares the array it saw before the password check with `this.accts` after
it. `call` and `chain` are the calls in flight and `persistChain`. `acked`, `torn`, `erased` are
history variables. `Restart(b)` is the death of the worker (b: the session key is still young enough to
resume). Left out: explorers, endpoints, the pending-spend set, the failed-unlock limiter.

**TxHistory.** `stored` is local storage, `pend` is `pendingHist`, `chain` is `histChain`, whose
head reads into `snap` and writes from it; `held` are the rows a drain has taken. A
transaction goes through `Sign`, `Answer` (ok, maybe, duplicate, refused), its record job, and
`LatchSpent`. `Sign` again is a byte-identical retry. `key` is the captured history key. An
unlock never overlaps a reset here: it brings back the old wallet itself, which
`vault_reset_race` of `WalletVault` shows.

**ApprovalQueue.** `pending` is the queue, `phase` and `review` where the handling of each
request stands, `approveWinId` and the windows' own state the two sides of the window. Clicks and
replies are messages. `Opens` and `Reports` split `chrome.windows.create` from its callback, which
comes before the window's `onRemoved`. With one window, `Review` only focuses the one on record.

**ReviewWindow.** `card` is what the script of a window remembers of the request it painted (across
paints) and what is on its screen (not across paints); each read under way is marked "now" or "old" by the paint
that started it. `height` is the node's tip, which decides an nfinalize. All steps of the queue are steps here.

**SiteConsent.** `consents` is the stored object, `jobs` is `consentChain`, `calls` the handlers in flight,
`knows` what each page believes, from replies and from the events emitted to it.

**PendingContent.** `stored` is the queue, `post` each `cairnPost`, `flush` each `flushPending`,
`latch` is `flushInFlight`.

**SealedClaims.** `list` and `parked` are the stored lists and `pendingSeals`, `jobs` and `run` are `sealChain`
and its head, `seal` and `reveal` the calls beside it.

**CoinSpend.** `call` holds each call's round, what it left out and why; `ghostSeen`, `horizonSeen`,
`unrepSeen` are the session caches; `wire`, `reply`, `pool`, `mined` the way of a submit to the
node and back. `Reported` and `Real` are what the node says a coin is worth and what it is worth, `Answers` what it may
answer when asked to prove it. Selection follows the code's order, so the largest coins come first.

**FillPreflight.** `log` (a set of events, one a block) and `tip` are the real chain, which grows, mines our own and rival
reservations and fills, and may lose its last blocks: `peak` is the highest it ever was, and no reorganisation undoes a block that is
`ClaimDepth` deep under it. `floor` is the session's highest verified tip.
`Ask`, `Scan`, `SecondSource`, `CheckOffer`, `Sign` are the reads in their order, each of a chain that moved. `sure`, `late`, `clean` and
`openAt` are history.

**HeaderSync.** `chunks`, `head`, `legacy`, `attempts` are the store, `pin` the session pin, `src` each
source's light client with its own pending writes, `cur` the source new callers get. `Die` is
the worker's or the browser's end. The writes of a source go out beside its calls, at most one at a time, the rest merged.

**NameSend.** `chain` is the records of each block and how often the block was replaced; `hints` is
the cache of proofs; `card`, `armed`, `submitting` the sheet of the popup. `call` are reviews and confirms under way.

## 3. The runs

A property is named in one run only. Where a run's property is a conjunction, the parts are
named; `TypeOK` is one of them in every module.

| Run | Properties | What they say |
|---|---|---|
| `vault_accounts` | `TypeOK` | |
| | `AckedDurable` | an account an answered call promised is in the stored vault until it is removed or reset |
| | `SessionMatchesVault` | at rest the vault holds what memory holds, and a locked wallet leaves no key in session storage |
| | `VaultAndMirrorAgree` | finished writes of ciphertext, mirror and active index are of one snapshot |
| | `ActiveInRange` | `accts[active]` exists while unlocked |
| | `RemovalIsExact` | a removal keeps the other active account active, and deletes its own records only |
| `vault_reset` | `WipedStaysWiped` | no vault, mirror or unlocked account lands after a reset |
| | `CallsSettle` | every call is answered, also past rejected writes and locks |
| `history_record` | `RowsKept` | the row of every recorded transaction is stored, parked, held or in a job, unless evicted, erased or lost with the worker |
| | `DefiniteResolves` | after the record of a definite answer no row of it says "maybe" |
| | `ErasedStaysErased` | rows are never doubled and those of a removed or reset wallet never return |
| | `ConfirmedIsFinal` | no job writes an older list over a confirmed row |
| `queue_fill` | `UsesReviewedSigner` | what signs is the account the window displayed |
| | `WarnedBeforeUnconfirmed` | a fill on an unconfirmed reservation is signed only after a click on a warning about that reservation |
| | `QueueInv` | nothing waits without a window or one on the way; what was refused is never signed |
| `queue_window` | `WindowInv` | one window stays on record, one approval signs once |
| | `ScreenIsTheReview` | the card shows the newest reads of the request that is painted |
| | `ApprovesWhatIsShown` | a click approves what the screen shows at that moment |
| | `RequestsAnswered` | a request is answered if the user answers, or closes, what is shown |
| `consent_sites` | `ConsentInv` | a site knows, and the map holds, only what the user approved |
| | `NoWriteBack` | no job of another site brings a consent back |
| | `ConsentCallsEnd` | every connect, disconnect and revoke is answered |
| `content_queue` | `QueueIsFaithful` | an entry leaves only registered, expired or reset, and never returns |
| | `QueueDrains` | it leaves |
| `seal_keep` | `PaidSealsHeld` | the preimage of a paid and unrevealed commit is held |
| | `SealInv` | records are filed under their signer; nothing is public before its commit is mined |
| | `ParkedIsWritten` | a parked record reaches the store |
| `coins_spend` | `EngineInv` | what is signed balances to the unit; no input is one the node could not prove; a refusal is true |
| | `MaxIsReal` | the amount Max offered can be paid |
| | `PromiseKept` | the engine implements `PaymentPromise` (refinement) |
| `fill_lanes` | `FillDelivers` | a CSD fill signed from a clean read delivers in the next block |
| | `RefusalsAreTrue` | the second source refuses on evidence that is true |
| | `PreflightInv` | the hold that a signed fill pays outlives every tip verified before its checks |
| `header_sync` | `SourceInv` | the work a source compares chains by is that of the chain it holds |
| | `FloorIsEarned` | the tip floor was proved by the node of the current source |
| | `NothingProvenIsLost` | restores and migrations keep the chain, its work never falls |
| | `Heals` | a source that holds less than the served chain catches up |
| `name_send` | `UnionDefeatsWithholding` | a name proved from two services, one complete, has its real owner |
| | `LookupInv` | the cache holds proofs; a repointed name is not signed |
| | `SignsTheShownReview` | what is signed is the frozen review |

`PROJECT.json` gives for every property a mutant of the code that breaks it.

### Bounds

Bounds are constants or `.cfg` values with a name; what they let happen:

- `vault_*`: two calls in flight, one phrase, one raw key, two vault keys and two array
  identities, derivation index 0 and 1. Two is what every race here needs; a third would only repeat
  a queue. `OneAtATime` is the user's discipline: create, unlock, reset are asked when no other of
  these runs (the popup shows one screen at a time). `vault_reset_race` drops it.
- `history_record`: two transactions of two accounts, lists of two rows (so that eviction happens), one job
  beside the running one, one parked row, and `MaxMishaps` = 2 rejected writes or restarts.
- `queue_fill`: a fill and a send, one window, caps of 2 and 1. `queue_window`: one request, two windows, a tip
  that moves once, two quotes.
- `consent_sites`: two calls, two sites, one of which asks. `content_queue`: two posts, two flushes, two restarts, one at a time.
- `seal_keep`: two accounts, two seals, a cap of one, two jobs.
- `coins_spend`: five coins (one of each kind), four calls, two inputs and two rounds a spend, three questions,
  one restart.
- `fill_lanes`: ten blocks with at most three events, of which one is another market's; one reorganisation, one fill.
- `header_sync`: chunks of two, pages of two, two branches, two sources, two mishaps. A sync is then two or three pages and
  crosses two chunks.
- `name_send`: two calls, two reviews, two events of the chain, one growth.

Symmetry is used in runs with safety properties only.

### Fairness

`FairSpec` of `WalletVault`: `WF` of the continuation of each call, because storage and WebCrypto
promises settle. `SiteConsent`: `WF` of its jobs. `PendingContent`: `WF` of the flush's steps, of its alarm and of a
post's steps; `SF` of the write-back, since a worker that keeps dying before it would never finish. `SealedClaims`: `WF` of jobs and of
`lock`, `SF` of a write that succeeds and of an unlock: a store that never accepts a write keeps nothing.
`ReviewWindow`: awaits settle, Chrome delivers messages and window events, a window polls, and the user answers or closes a
window that shows a request. `HeaderSync`: the current source always has a step (a caller asks again when the last one is done),
so `[]<><<SourceStep(cur)>>_vars` is its weak fairness; TLC evaluates this form faster.

### Deadlock

`CHECK_DEADLOCK FALSE` in `fill_lanes`, `name_send`, `coins_spend`, `queue_*`, `history_*` and `header_sync`: each request,
payment, flow or review happens once in an instance, so a behaviour ends when all are answered. The others are checked.

### Further configurations

These state what a comment or a test would lead one to expect beyond the runs above, and TLC finds each violated. They
are kept beside the runs as documentation of where the code's guarantee ends.

| Configuration | Property | What happens |
|---|---|---|
| `vault_reset_race` | `NothingLandsAfterReset` | an unlock in its key derivation when `reset()` runs queues a vault write after it |
| `vault_reset_records` | `ResetLeavesNoRecords` | an account whose mirror write failed is not in the list `reset()` purges |
| `vault_export` | `RevealsActiveKey` | a removal during the derivation of `exportKey` shifts the slot: the key of another account is shown |
| `vault_duplicate` | `AddressesUnique` | a key imported before `addAccount` derives the same one is listed twice |
| `history_removed_returns` | `PurgedStaysGone` | a transaction under way when its account is removed writes its list again |
| `history_failed_reset` | `RowsKept` | a reset whose deletion rejects still drops the parked rows |
| `queue_plain_signer` | `UsesReviewedSigner` | a post carries no expected signer: a switch between display and click changes who signs |
| `queue_told` | `ToldTheTruth` | the worker dies between broadcast and answer, the page is told "closed" |
| `queue_autoclose` | `ClosedByUserOnly` | a request that arrives while the empty window closes itself is rejected |
| `consent_added` | `SitesHearOfSwitch` | an added account becomes active without `accountsChanged` |
| `consent_reset` | `ResetForgetsSites` | a connect that waits to record its consent records it after the reset |
| `content_race` | `QueuedSurviveFlush` | two flushes overlap: one writes back a list read before `addPending` |
| `name_lapse` | `NoSkipPastLapse` | the lookup is skipped for a lease that ended since |

### Observations

Seen while modelling; not stated as properties.

- *Fill*. Without its hypothesis `call.clean`, `FillDelivers` is violated with four events: a rival's reservation that the resolver
  denied because of a cap spent on another market is granted by the wallet's replay, which sees this market's lane only. The comment
  `fillpreflight.ts:339-343` says such a replay errs to the safe side.
- *Header floor*. `spvNodeTipFloor` can fall after a change of endpoint, when the prepare of the old source finishes late;
  `namespv.ts:404` calls it a cross-session high-water mark.
- *Inclusion*. `updateMergePending` in `popup-balance.ts` has no sequence guard where `popup-assets.ts:54` has one. Overlapping refreshes can set a false
  "gone" that stays for up to 100 blocks; `latchSpentMerges` leaves `gone` and `goneTip` set.
- *Approval card*. `balShort` is not read again after a click's awaits. Reject may have been armed by an earlier paint (`approve.ts:509`). A click that waited
  across a lock is sent with the signer it captured; the worker refuses it.
- *Wallet*. A lock that races the export of the session key leaves the key in session storage. A second unlock that read an older vault writes its list
  back. `getPermissions` answers an address after a lock during its second read. A failed create leaves a vault. A lock keeps parked
  rows although `history.ts:42` says they are cleared. `sealFresh` clears `wiped`, so an answer of the old wallet is filed. A drain hides
  rows for the time between two writes.

## 4. The proofs

tlapm 1.4.5 with Z3, Zenon and LS4 proves every module below with no step left out. A theorem is about every number of calls,
accounts, requests, coins and jobs, with the bounds of the runs as parameters.

| Module | Theorems | Argument |
|---|---|---|
| `WalletVaultProofs` | `TypeCorrect`, `ActiveStaysInRange`, `MirrorMatchesVault`; under `OneAtATime` also `PromisedAccountsStay`, `SessionAgrees`, `ResetIsFinal`, `RemovalTakesOneAccount` | see below |
| `TxHistoryProofs` | `RowsAreKept`, `DefiniteAnswersResolve`, `ErasedIsErased`, `ConfirmedStays` | see below |
| `ApprovalQueueProofs` | `QueueIsSound`, `OneApprovalSignsOnce`, `UserWasWarned`, `ReviewedSignerSigns`, `UsesTheReviewedSigner` | `IInv` adds to the properties where each request is (`PlacesOk`: in the queue, in review, or nowhere, as its phase says, and once), what the click in work carries (`HandledOk`), that an acknowledged reservation was warned about in a paint (`AcksOk`), and what is fixed from which stage on (`StagesOk`) |
| | `OneWindowHolds`, `ScreenTellsTheReview`, `ApprovalIsOfTheScreen` (of `ReviewWindow`) | see below |
| `CoinSpendProofs` | `EngineIsExact`, `MaxCanBePaid` | see below |
| | `EngineKeepsPromise`, `EnginePaysOnce` | refinement of `PaymentPromise` step by step. `Fate` says where a submit is: with the caller, on the wire, in the node or answered, in one place only; so an answer can be mapped to what the node did |
| `NameSendProofs` | `VerifiedIsTrue`, `CacheProves`, `RepointedIsNotSigned`, `LookupsHold`, `SignsWhatIsShown` | `UnionIsTheChain`: of two lists one complete, hints that replay are the chain's. Over it `ChainOk`, `CallsOk` (what each call has proved, and for which epoch), `ArmedOk` (a live Confirm button belongs to the card on screen) and `CacheIsAProof`. `TInv` types the rest: `resolve`, a fold, names only the records' addresses (`ResolveTyped`, by a smallest set of hints on which it would not) |
| `SealedClaimsProofs` | `NoPreimageLost`, `RecordsAreSound` | `KeptInv`: a preimage is stored, parked or in the job that carries it. A job's copy of the list differs from the stored one only by what that job adds (`CopyInv`) |
| | under `~Overlap`, `QueueStaysFaithful` (of `PendingContent`) | the latch admits one flush (`OneFlush`), so whoever is about to write has read what is stored, or a list a reset has emptied since (`Working`, `Adding`); `content_race` shows that the hypothesis is needed |
| `RequestProofs` | `FillIsDelivered`, `RefusalsHold`, `PreflightHolds` (of `FillPreflight`) | see below |
| | `OnlyApprovedIsKnown`, `RemovedStaysRemoved` (of `SiteConsent`) | what each handler read before an await was approved then (`GivenInv`); jobs run one at a time in order and the head's snapshot is the stored map (`ChainInv`) |
| `HeaderSyncProofs` | `SourcesHold`, `FloorEarned`, `NothingLost` (and `Inductive`) | see below |

**WalletVault.** Types alone are not inductive: a write stores what its call captured. `IInv` adds what a call
carries at each step (`CallShape`), what an unlocked wallet and a stored vault have (`MemoryShape`, `VaultShape`) and that writes run one at a
time in the order they were queued (`ChainOK`). With `WriteProgress` (between the first and last of its writes, the head of the chain has put
its own document and nothing else in the store) that gives the first three theorems, for calls that overlap in any way. The other
four assume `OneAtATime`, which `vault_reset_race` shows to be needed: two unlocks and a reset that overlap put an old document back. Their
invariant is `LifeInv`:

- `StepsOk`: which steps an operation has;
- `OneLife`: create, unlock and reset are alone until they have opened or locked the wallet, and an array captured before a password check
  is still the wallet's while it is unlocked;
- `StoredOk`: what each step of those three finds in the store;
- `KeyDropped`: a locked wallet's key is gone from the session, or a lock is about to drop it;
- `IndexInv`: the next derivation index is above those in use, in memory, store and every captured document, so reopening a
  document changes nothing of it;
- `FreshInv`: with no write owed, what is being written, or was written last, is what memory holds;
- `AckInv`: an answered account is in the store, in memory and in what is about to be stored; what memory has lost since a
  snapshot was taken, a removal still owes (`Gone`).

TLC checked these seven on the instances of `vault_accounts` and `vault_reset` before they were proved. `ActiveFollows` is the arithmetic of `splice`: whichever
slot leaves, the active index follows the account it named.

**TxHistory.** The invariant is long because the chain decides everything: `ChainOk` says which jobs can be queued together (a transaction
has at most one record job of each answer, in order) and, per job, what it carries (`JobOk`); `HeadOk` that what the running job read is the
stored list, except for what only this job changes; `RowsOk` that a row is under its account and its transaction
recorded. On it stand `KeptOk` (a recorded transaction has a row in one of four places, or a reason), proved if no deletion
of a reset rejects, and `GoneOk` and `OldOk` (nothing in flight can write an erased account), proved if the user waits for
transactions before a removal or a reset. Both hypotheses are needed: `history_failed_reset` and `history_removed_returns` violate
the properties without them. `ConfirmedStays` needs neither.

**CoinSpend.** Two difficulties, the data and the awaits. The engine sums the coins it selects and files what it must
skip by folding, and the induction theorems of the library take an operator as a parameter. The proofs use the smallest
counterexample instead: if a statement on finite sets of coins fails, it fails at a set all of whose strict subsets satisfy it
(`SmallestSet`, from the well-foundedness of the strict subset order), and that set loses one coin. So `Total` has a type, splits over disjoint sets
and grows with its set, `Filed` files only coins it held or was given, and the largest coins first are the best choice of so many coins. That
last fact carries `MaxIsReal`: if the coins the engine would pick cannot pay, no coins of that number can.
The awaits are met by `Kept`, what a call knows at each of them:

- `AtWork`: a call between its reads has signed nothing, passed its checks, and asks for its amount and fee (only Max may lower that);
- `Chosen`: the coins it asks the node to prove are coins left to it, no more than a transaction takes, and report enough;
- `Booked`: the coins it skips are exactly those filed under one of the causes;
- `CallOk`: at each step those that apply, and after it that the transaction balances (`Exact`) and the refusal is true (`True`);
- `Caches`: a coin is remembered under one cause.

TLC checked `Kept` on the instance of `coins_spend` before it was proved. `EngineIsExact` and `MaxCanBePaid` follow from it.

**ReviewWindow.** These three are about `RSpec`: one request, a worker that lives on, any number of windows, previews, tips and
quotes. `RInv` puts on top of `IInv` that a page knows of no other request (`OneRequest`, `PagesKnow`), that a window of ours that is open
is the recorded one (`RecordedIsOpen`), and, for the card of each window (`CardsOk`):

- `TipsOrdered`: two reads of the tip may be under way, that of a refresh and that of a click. A verdict is never younger than
  a read that may still replace it, and of two reads under way the one counted as last started last; so an answer that lands late
  cannot replace a newer verdict;
- `AimHeld`: a click that waits for a read belongs to a request that has a gate, and holds its signer;
- `Remembered` and `OnScreen`: a price that counts as ready was read, and what the script goes by is what the paint has put on its screen;
- `Quoted`: a price comes from a request that is quoted at all.

TLC checked `RInv` on the instance of `queue_window` before it was proved. `ApprovalIsOfTheScreen` follows for the step of a click:
the price it sends is `amount` by `OnScreen`, and the refusal it overrules is older by `TipsOrdered`.

**FillPreflight.** The resolver folds the events of a chain, and what it computes must be compared with what the wallet computes from a
window of that chain. `resolve` takes a set of events, the highest block last, so that the state after a block follows from
the state before it (`NextBlock`), and a statement holds of every state if one block keeps it (`SubsetsAll`, again by the smallest counterexample).
The proof has four layers:

- `Sound`: what a state says of the events below it. A granted reservation was mined, under its buyer's cap, for an epoch not too far ahead;
- `Later`, `Follows`: what blocks above may change. A hold lasts until its end or its holder's own fill (`GrantedIsDelivered`), a bound
  offer until a fill (`BoundIsDelivered`), and a lost offer stays lost;
- `Like`: the replay of the window and of the whole chain agree on the reservation that is paid. They differ only in holds that began before the
  window, which a window as long as a hold has seen end, and in the buyers' caps, which `call.clean` says were known (`WindowLike`, `WindowGrant`);
- `Firm`, `Backed`, `Checked`, `Signed`, `Lost`: what each read has established, in terms of blocks `ClaimDepth` deep, so that neither a new
  block nor a reorganisation changes it.

`IInv` is the last layer for the call under way and for every signed fill, with the types, one event a block, and fills placed
before the end of their hold. TLC checked it on the instance of `fill_lanes` before it was proved.

**HeaderSync.** The chunk size, the branches, their work per header and where they fork, the sources and what nodes answer are
parameters. `IInv` says of the disk what chunks, snapshot, floor and attempts may be (`DiskOk`), of the session that the pin counts work from
the anchor (`PinIs`), of the world that no source holds, or was told, more than was earned (`Earned`), and of each source:

- `Steps`: what each point of a restore knows. What was read back is whole chunks in order, the last one perhaps shorter, and, unless
  another source wrote since, still what is stored (`Whole`, `ReadBack`);
- `WorkOk`: work is counted from the anchor, whatever height the light client was rebuilt from, so that a reseed, a held chain and a pin
  compare like with like;
- `Solid`: the chain up to what the source counts as persisted is stored once its writes have landed. A source counts a header
  as persisted when it hands the write over, with up to two writes still to come, the second merged from all those after the first; so the
  invariant is about the store after both (`Landed`), and `MergeKeeps` says that the merged write leaves stored what its parts would have.
  Only a source no other has written under (`sole`) can promise this.

`SourcesHold` and `FloorEarned` follow from `IInv`, the action property `NothingLost` from the same step lemmas (`GoodStep`): `Parity`
because the shortcut by the pin and the restore with every check walk the same records (what a client reaches by a list of records,
`Reached`, is the last one all of whose predecessors link), `Grows` because only a reseed replaces a chain, `Migrated` because
the old snapshot is dropped in a state whose source has landed its writes. TLC checked `IInv` on the instance of `header_sync` before it was proved.
The proof needed one correction of the model: a page that ends a walk and one that does not must be told
apart by the height reached, as `prepare` does, and not by the order of a CASE.

**Assumptions on constants.** `VaultAssumption`, `HistoryAssumption`, `QueueAssumption`, `ReviewAssumption`, `CoinAssumption`,
`RecordsAssumption`, `SendAssumption`, `SealAssumption`, `ContentAssumption`, `ConsentAssumption`, `OfferAssumption`, `FillAssumption`,
`ChainAssumption`, `SyncAssumption`, `WriteAssumption` say that bounds are naturals, maps have their domains, and that a coin a node proves has
a positive value; `NoneAssumption` and its like that `None` is no other value. The header modules
assume besides that branches fork above the anchor and every header has work (as verified headers do), that a node serves, and an old snapshot holds, chains of
real headers above the anchor, and that the `SEED` headers a rebuild starts from lie within a chunk. `ReviewAssumption`
adds that a request with a price has no name gate: a token fill is no name action. TLC evaluates them in the runs. `UsesTheReviewedSigner` assumes no request of
a kind that carries no expected signer; `ReviewedSignerSigns` is the form without the assumption.

**Model-checked only.** Liveness and fairness (`CallsSettle`, `RequestsAnswered`, `ConsentCallsEnd`, `QueueDrains`, `ParkedIsWritten`, `Heals`): out of
reach of the prover. Every other property of a run is a theorem, some under the hypotheses above.

## 5. What comes next

- `SiteConsent` and `SealedClaims`: an abstract specification of each (a map of approvals; a set of held preimages) that the
  detailed one implements.

## 6. What is not modelled

- *Headers*: anchored chunks older than the newest and their eviction; oversized or malformed old snapshots; the retry ladder of a page
  (429, 502); a caller that holds the old source and prepares it only after the endpoint changed; pin writes that reject; two callers
  inside one source.
- *Names*: disagreement, depth and badge flags; hints below the floor; transfers, pending reservations, profiles; the cap on hints; nodes that lie
  about the tip; both services withholding the same record; the cache's age is a free choice; the status line, the
  name-action flow; CSD and token sends are one flow; closing the popup and worker restarts in it; the Max button; the hold on a short
  balance; address recipients; a reseed of the light client between the replay and the last block hash.
- *Fill*: partial fills, paid amounts, synthesis of the give-backing, holds on closed offers, tips below the sunset of the legacy rules.
- *History*: the inclusion verdicts "gone" and "stuck", which are displayed and never decide a spend.
- *Hazards listed without a property of a run* are those the further configurations show; besides these the failed-unlock
  limiter and the reconnection of the page's port (`content.ts`) are in no module.
- *Throughout*: cryptography and encodings, rendering and wording, HTTP and its failover, storage quotas, the vendored verifier, codec and QR
  code.
