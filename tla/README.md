# Verification of the ar.io claims service and attestor

TLA+ models of `packages/claims`, the service that lets holders of Arweave and
Ethereum identities claim ARIO tokens, vaults and ANTs on Solana, and of
`packages/attestor`, which attests Arweave signatures to an escrow program. The
models are checked with TLC on small instances; the safety properties and the
properties of steps are also proved with TLAPS, for every value of the constants
within the assumptions that section 4 names.

## 1. The system

| Part | State it keeps | Operations | Talks to |
|---|---|---|---|
| Claims API (`api/service.ts`) | `claims`, `assets` rows; a challenge per claim | initiate, complete (two-phase, idempotent), reads | Postgres, proof verifier, audit log |
| Reaper (`api/reaper.ts`) | none | expire stale challenges, `SKIP LOCKED` | `claims` |
| Proofs (`verify/`, `packages/canonical`) | none | build a canonical message, verify RSA-PSS, data-item and EIP-191 signatures | the API, the attestor |
| Attestor (`packages/attestor`) | map of repeated attestations | attest | escrow program on Solana |
| Dispatch transactions (`dispatch-core.ts`) | claim and asset rows | persist, finalize, fail, freeze, clear a dead signature, route to review or manual delivery | Postgres |
| Dispatch worker (`worker.ts`) | nothing but what it has read | tick, ANT batch, recover, dispatch, approve | rows, chain, float |
| Chain gateway (`chain.ts`) | none | sign, broadcast, status with expiry, outflow scan | Solana RPC |
| Float (`float.ts`) | policy | reserved value, brake and float check | rows, chain balance |
| ANT operator (`ant-operator.ts`) | `ant_batches`, reservation columns | reserve, build, submit, cancel, expire, recover | rows, chain, operator's wallet |
| Admin access (`ant-admin.ts`) | in-memory challenges and read tokens | issue, verify, session, read | admin routes |
| ACL healer (`ant-acl-*.ts`) | attempts and notes per claim | sweep, plan, execute | `ario-ant` program |
| Audit log, anchoring (`audit.ts`, `transparency/`) | hash chain, anchors | append, sign, anchor, page, verify | Postgres, Solana memo |
| Ledger (`ledger/`, `reconcile/`) | `assets` rows | plan, build, reconcile, settle a vault | snapshot files, Postgres |
| Published ledger, reserves (`transparency/`) | artifacts | publish, prove membership, verify, report | third parties |
| Monitor (`ops/`, worker loop) | last post per alert | evaluate, post, forget | Slack, balances |
| Limiter (`rate-limit.ts`) | windows per key | hit | every route |
| Dispatch report (`reconcile-dispatch.ts`) | none | compare claims with assets | operators |

What is hard in it:

- *Processes without a common lock.* The API's requests, the reaper, the
  daemon, `dispatch:ants`, the admin server, the operator's CLIs and the reports
  meet only in row locks that each transaction takes and releases. What a
  process reads outside a transaction may be stale when it acts.
- *An external effect that cannot be undone or repeated.* A Solana transfer is
  sent between two database transactions. A send may be lost, may land minutes
  later, or land while its sender concludes that it cannot. The same holds of
  anchors and of access-list repairs.
- *Expiry.* A signature is dead only once the block height has passed its
  `lastValidBlockHeight` and it is not on chain, two facts read at two times.
- *Rebuilding.* The ledger may be built again while claims are open; what a
  wallet has signed, and what a vault still has to run, may change in between.
- *Bounded memory.* Limiter, nonce store, anomaly map and alert router keep
  state in memory, evict it at a cap and lose it in a restart.
- *Bounded resources.* The hot float, the re-sign cap, the approval brake.

`PROJECT.json` lists the hazards at the lines where they bite, with the
properties that would catch them.

## 2. Modules

    DispatchCore     rows, the transactions of dispatch-core.ts, the chain
      Worker         DispatchWorker + dispatchSignedTx + float + confirmation reads
        AntOperator      operator-wallet batches, composed with the worker
        DispatchReport   reconcile:dispatch while the worker runs
    Dispense         what a dispenser promises (abstract; refined by Worker)
    ClaimsApi        initiate, complete, reaper, dispatcher as database transactions
    AuditLog         appends, signing, anchoring, paging, verification
    ClaimProof       challenges, canonical messages and their signatures
      Attestor       POST /attest and the escrow that trusts it
    LedgerPlan       planner, independent derivation, vault settlement (pure)
      Ledger         builds, claims and deliveries over the assets table
    Merkle           the tree and its proofs (pure)
      PublishedLedger  Ledger + Merkle: artifact, verifier, reserves report
    RateLimiter      fixed windows
      AdminApi       challenges, tokens and restarts behind a limiter
    AclHealer        sweep and CLI over one planner
    Monitor          tick loop, alerts, quiet windows

    Subsequences     filtering a sequence by position: the GC of both Maps

    MCWorker, MCDispatchReport, MCAntOperator, MCClaimsApi, MCEvidence,
    MCLedger, MCService: instances for TLC

    Collections          lemmas: sums over finite sets, counting, filtered sequences
    WorkerProofs         Worker and DispatchReport: exactly-once, gates, caps, float,
                         outcomes, refinement
    AntOperatorProofs    AntOperator
    ClaimsApiProofs      ClaimsApi
    AuditLogProofs       AuditLog
    AttestorProofs       ClaimProof and Attestor
    LedgerProofs         LedgerPlan, Ledger, Merkle and PublishedLedger
    ServiceProofs        AdminApi, AclHealer, Monitor and RateLimiter

`MCEvidence` (AuditLog and Attestor) and `MCService` (AdminApi, AclHealer and
Monitor) put parts that share no state into one run: a behaviour is about one
*scene*, chosen in the initial state, and the other parts keep still.

### DispatchCore

One variable per column that the control flow reads (`status`, `approved`,
`sig`, `txSigs`, `resign`, `batch`, `asset`), one asset per claim. Each
transaction of `dispatch-core.ts` is one operator; its condition is the
re-check the code makes under `FOR UPDATE`. `ClearDeadSignature` compares no
signature and `ParkAs` overwrites every status but two, as the code does.

The chain is external. A signature is `unsent`, `inflight`, `processed` (or
`processed_err`), then `confirmed` (or `failed`). Block heights are kept per
signature, relative to its own `lastValidBlockHeight` (below, equal, past): this
is all `#statusOnce` can tell apart and it leaves time unbounded. A token
transfer executes only if the account covers it, an ANT transfer only while the
dispenser owns the ANT. `Forks` lets a processed block be dropped.

### Worker

A worker is the daemon or a `dispatch:ants` run. `job[w]` holds the program
counter and everything it has read: the claim, the signature, the re-sign count
of the snapshot, the sampled height. A step is one await of the code:

| Code | Actions |
|---|---|
| `runOnce`, `runAntBatch`, `#eligibleClaimIds` | `RunOnce`, `Eligible` |
| `processClaim` | `ProcessClaim` |
| `#statusOnce`: height first, then status | `SampleHeight`, `ReadStatus`, `Classify` |
| `#recover` | `ScanOutflow`, `ClearAndRedispatch`, `FreezeClaim`, `FailClaim`, `FinalizeClaim` |
| `#dispatchFresh` | `LoadFresh`, `CheckFloat`, `ReviewClaim`, `ManualVault` |
| `#signPersistBroadcastConfirm`, `dispatchSignedTx` | `SignTransaction`, `PersistSigned`, `Broadcast` |
| an exception, or the process dies | `Crash` |
| `dispatch:approve` | `Approve` |

Decisions taken: RPC heights and balances are read at commitment `confirmed`
(the client's default); the balance and the reserved sum, read by one
`Promise.all`, are one step, and so are the claim and asset of
`#dispatchFresh`; a vault's settlement is a choice among the three outcomes the
clock can give (`LedgerPlan` has the arithmetic); `signers.ant` is unset, as in
production; a failure to build a relock is a `Crash`. Operators who edit rows by
SQL (the "re-drive" of OPERATIONS.md) are outside the model: `StoppedNeverPaid`
is what makes that re-drive safe.

### AntOperator

Adds the reservation (`batch`, `resTxid`), the batch headers, the built
transactions in the operator's wallet, which may be submitted at any later time,
and the submit requests. Reserve, build (and rebuild), cancel and TTL expiry are
transactions. A submit reads the reservation and the claim without a lock, then
goes through the worker's own steps (`dispatchSignedTx`) or recovers an earlier
submission, so it is one of `Workers` with a request beside its job; at its end
it counts what is left and closes the header in two steps. The daemon works beside
it. `OperatorWallet` says whether the daemon was told the mode: if it was not, it
lists ANTs too, and recovers those that are dispatching outside a batch.

### DispatchReport

Two of the queries of `reconcile:dispatch`, interleaved with the worker. `moved`
records whether a claim was finalized between them.

### ClaimsApi

Requests, the reaper and the dispatcher run transactions, one statement per
step: `LookupKey`, `LoadAsset`, `InsertClaim` (initiate); `LockClaim`,
`LockAsset` (complete, dispatcher); `Reap`; then `LockAudit` and a commit. A
step waits for a row lock, for an uncommitted duplicate of its idempotency key,
for the KEY SHARE lock that an INSERT holds on the asset it references, or for
the advisory lock of `appendAudit`. Writes become visible at the commit.
`Abort` is a lost connection or a dead process at any point. `Moves` lists what
the dispatcher's transactions may do to a claim, from their re-checks alone, so
that the API is checked against any dispatcher built from them. `stopped` stands
for failed, needs_operator and awaiting_manual_vault_delivery, which the API
does not tell apart. The verdict of the proof verifier is a Boolean input here;
`ClaimProof` opens it up.

### ClaimProof and Attestor

`claims` are challenges with their nonce, asset and destination; `signed` is
everything a wallet ever signed, with the page it was shown (a claim, or 0 for
an escrow). The canonical message is a record of the lines the code writes. It
is built from the ledger row when the challenge is issued and *again* from the
ledger when the signature comes back, which `RebuildRow` may have changed.
Signatures are ideal. Expired challenges, signatures made for other pages, other
keys and retries of completed claims are all sent.

`Attestor` adds `/attest`: it builds a message from the request alone, checks
the Arweave signature over it and signs it with its own key. The escrow program
is external: it accepts an attested, or an Ethereum-signed, message that names
its deposit, nonce and recipient. The map of repeated attestations is a
sequence, in the insertion order of the code's `Map`; purge, eviction and count
are `CheckAnomaly`. Its key has the asset id as the request spells it
(`EscrowKey`): `decodeHex` takes either case, so another spelling is another entry.

### AuditLog

A hash is the sequence of entries it commits to. A writer takes the advisory
lock, reads the head, inserts and commits; a rollback burns a sequence value.
The anchor job goes through its steps one await at a time and may die between
any two: sign what is unsigned, verify the chain, read the head, send the memo,
confirm, record. A third party follows the cursor of the log's endpoint and
verifies pages and rows against a memo. `Alter` rewrites rows, hashes and
signatures as somebody with the database and the audit key could. The verifier
has the audit key or not; with it, it wants at least one signed row.

### LedgerPlan and Ledger

`LedgerPlan` translates the planner (liquid fallback, milliseconds to seconds,
operator exits, spelling of addresses, refusals), the independent derivation of
`reconcile:ledger`, and `computeVaultSettlement`. `Ledger` puts rows under it: a
build checks for claims, then upserts in its scope, in two steps, with or
without force; claims are opened, parked and delivered, a delivery is decided,
signed, and lands or expires while the clock runs. `ManualDelivery` is the
operator, who works off the manual queue. No code notes a hand delivery (the
queue lists the claim until its row is edited), so that a claim is delivered
from it once is an assumption about the operator, made in that action.

### Merkle and PublishedLedger

A hash is the term it is a hash of, so equal hashes have equal preimages. `Rows`
are the levels of `merkleRoot`, from the leaves up; a row of one hash is its own
next, so that there is one for every leaf. `Path` is the climb of `merkleProof`,
`Folded` the loop of `verifyMerkleProof`.
`publish:ledger` builds an artifact from the rows, `VerifyArtifactMode` is the
third party's command, pinned by key, by memo or by both. `Copies` are the
artifacts somebody without the publisher's key can put together: leaves altered
or left out, the manifest old, computed anew or with other figures, a signature
copied or made with a key of one's own, any publisher's name. The reserves report reads the hot balance, the cold
balance and what is owed in three steps, between deliveries and refills; `calm`
records that no claim was finalized and no ledger built meanwhile.

### RateLimiter, AdminApi

Buckets are a sequence in insertion order. `allowed`, a history variable, counts
the requests of one caller that were let through at each time; `LimiterBound` caps
the counters in the checked instance only. Nonces and tokens are sets of numbered
entries, the numbers giving that order. `AdminApi` models the routes: the limiter
by address, the issue of a challenge, the consumption of its nonce *before* the
signature is verified, the session's read token, restarts that lose all of them.
Either issue sweeps both stores (`GcStore`). Requests are repeated and sent to
other routes.

### AclHealer

The `ario-ant` program is external: pages of recorded ANTs per user, an entry
being removed by moving the page's last one to its place. A healer (the worker's
sweep, in batches by confirmation time, or the CLI) lists its work, reads the
pages, plans with `PlanAclHeal` and sends one atomic transaction, which lands
later or never; failures are counted with the attempts read when the sweep began.

### Monitor

The worker's loop on a clock. It sleeps, works (`runOnce`, which waits for
confirmations one claim after the other, then the sweep) and, if the cadence says
so, reads (the balances first, the database last); each takes time, up to
`MaxWork` and `MaxRead`. Alerts come from what could be read; those that are due
are posted, and `lastPosted` is forgotten for alerts that are quiet. A restart
may come in any stage. `since`, `posted`, `passed` and `lull` are history
variables for the two properties.

`MaxWork` and `MaxRead` are assumptions: a claim that does not confirm takes
`confirmTimeoutMs` of a tick (`chain.ts:296`), an RPC call has no timeout of its
own, and no code limits how many claims a tick visits.

### Dispense

The promise: a claim is open, then confirmed or stopped for good; it gets at
most one receipt; it is confirmed only with a receipt and never gets one once
stopped.

## 3. Runs

| Run | Instance | Shows |
|---|---|---|
| `tokens` | 1 daemon; a token of 1 and a vault of 2 over the brake; float 2; 3 signatures, 2 crashes | exactly-once and its inductive invariant, re-sign cap, float cover, approval gates; implements `Dispense`, hence honest reports and stopped claims unpaid |
| `lag` | 1 daemon, lagging RPC, forks, 2 crashes, a report | at most one extra transfer; a report raises an issue only if a claim was finalized between its queries |
| `live` | `tokens` with a float that holds everything, 2 signatures, 1 crash, fair | every claim settles |
| `operator` | 1 ANT, 2 batches, one submit at a time and a daemon that was not told the mode, 2 signatures, 1 crash | what can land is on record, no reservation stranded, headers truthful, confirmed only when transferred, stopped only when not |
| `api_races` | 2 requests, reaper, dispatcher; 2 claims of one asset, a held asset | one winner, winners stay won, tables agree, no lock cycle |
| `api_pairs` | 2 requests, 1 key; 2 assets of one recipient, together over the brake; fair | the brake sees the recipient's total; every transaction ends |
| `evidence` | scenes: log (2 writers, 3 entries, 1 anchor job), claims (2 claims, 2 signings, a row rebuilt), escrow (2 attestations), reports (3 deposits, cap 2, threshold 2) | a linear log, complete pages, no false accusation, tamper evidence; accepted means signed, for this claim; escrows pay the recipient; repeats are reported |
| `ledger` | 23 single inputs at every edge, a mixed, a wide and 3 refused ones; 2 builds at times 0 and 3; clock to 3; the re-lock program configured or not | an asset is delivered once, locks are kept, plans reconcile and keep unlock dates, reports never overstate, only the published ledger is accepted and proved |
| `service` | scenes: limiter (3 keys, 2 buckets), admin (4 nonces, 1 route and the session), healer (2 ANTs, 2 healers, 2 attempts), monitor (2 worlds, clock to 12, ticks and reads of up to 1, 1 fault) | less than twice the limit per window; access comes from the wallet; healed stays healed and every ANT is settled; alerts in time and not flooding |

Runs that refute a statement of the repository (`findings` in `PROJECT.json`
quotes it):

| Run | What happens |
|---|---|
| `two_daemons` | one daemon clears the live signature of the other; the claim is paid twice |
| `float_backlog` | two queued claims reserve the float against each other and wait forever |
| `api_key_reuse` | the loser of a key race is given the claim of another asset |

Every property of a passing run has a mutant: a plausible slip in one mapped
definition (a guard dropped, `>` for `>=`, a read too early) under which TLC
finds the property violated.

### Bounds

- *Worker.* `MaxSigs` 3 leaves room for one signature more than the cap allows,
  so `ResignCap` can fail; 2 crashes interrupt the first attempt and its
  recovery. Two claims suffice for the float (one competitor). One crash and 2
  signatures are enough for `live`, where the cap ends every claim after its
  second signature.
- *Operator.* One ANT and two batches: a claim leaves one batch and enters
  another; two signatures: a transaction built before and one built after. One
  crash strands a submit at any step, and the daemon recovers what it left.
- *API.* Two requests plus reaper and dispatcher give every pair of
  transactions; two claims race for an asset, two assets add up.
- *Evidence.* Three entries have a middle, which can be edited with something on
  both sides; one job meets rows appended before, during and after it. Two
  claims and two signings allow a signature for one to be sent for the other.
  Cap 2 with three deposits overflows the anomaly map; window 1 and times to 4
  have several windows; with threshold 2 one attestation of a key may go
  unreported in a window.
- *Ledger.* `MS` 2 makes every rounding visible; lock and size limits are 2 and
  the inputs lie below, on and above them. Five leaves have an odd node promoted
  over two levels. Two builds: one before and one among the claims. A vault routed
  to the manual queue is delivered from it locked, and liquid once its end is past.
- *Service.* `Window` 2 and `MaxTime` 3 contain an edge; one bucket more than
  are kept; one nonce more than the store. Two ANTs share the claimant's pages.
  `MaxClock` 12 exceeds the longest quiet window plus the latency (6 + 5); work and
  reads of 0 or 1 let a pass begin late and end late. `MaxChanges` 2 lets a
  condition come, go, or come again.

Deadlock is checked in the API runs; elsewhere it is not, because the bounds
end a run. Symmetry is used where the members of a set differ only in name: the
requests (`api_races`), and writers, entries and claimants (`evidence`).

### Fairness

`Worker!FairSpec`: weak fairness of each worker's steps (the daemon's timer,
the operator's batch cadence, and a sequential tick that visits every claim it
listed), of block confirmation and of block height, of the operator's approval
and of the refill. Nothing is assumed of sends (a transfer may never land) or
of crashes. `ClaimsApi!FairSpec`: strong fairness of each transaction's
statements, since Postgres queues lock requests in order; nothing is assumed of
arrivals or aborts. `AclHealer!HealFairness`: weak fairness of the sweep, which
the worker's loop calls, of the steps of the sweep, and of a sent transaction's
end, landed or not; nothing is assumed of the CLI.

## 4. Proofs

Each theorem is about every value of the constants, hence about any number of
processes, claims, rows and faults, within the assumptions its table names. The
constants' own assumptions (`CoreAssumption`, `WorkerAssumption`,
`ApiAssumption`, `ProofAssumption`, `SnapshotAssumption`, `HealerAssumption`
and so on) say what the code's types, schema and start-up checks say: amounts
and limits are naturals, an ANT has no amount, `None` is not a row, a frozen file
is finite and has amounts and times, a wallet's key is not the placeholder,
claims, assets and ANTs are finitely many, the anomaly threshold is at least 2
(the code's is 5).

`Collections` holds what several of these proofs need about the operators of the
models: how a sum over a finite set changes with one element or one value, that
sums are monotone and add up over disjoint sets, what `KeepAt` leaves of a
sequence, and induction up to a bound (`UpTo`), which takes a *set* of good
numbers, not a predicate, and so can be cited.

### Dispatch (`WorkerProofs`)

| Theorem | States | Assumes |
|---|---|---|
| `TypeCorrect` | `TypeOK` | nothing: any workers of either role |
| `ReportedMeansPaid` | `ConfirmedWasPaid` | nothing: lag and forks included |
| `SentMeansApproved` | `NothingSentUnapproved` | nothing |
| `ResignsAreCapped` | `ResignCap` | one worker |
| `LagCostsOneTransfer` | `AtMostOneExtraTransfer` | one worker, a cap of at most one re-sign |
| `ReportsOnlyMovement` | `OnlyMovementIsReported` | one worker |
| `OnlyRecordedSignatureIsAlive` | `ExactlyOnceInv` | one worker, no lag |
| `ExactlyOnce` | `AtMostOneTransfer` | one worker, no lag |
| `FloatIsEnough` | `FloatCoversInFlight` | one worker, no lag, no forks |
| `StoppedIsUnpaid` | `StoppedNeverPaid` | one worker, no lag, no forks |
| `WorkerImplementsDispense` | `ImplementsDispense` | one worker, no lag, no forks |

`AtMostOneTransfer` is not inductive. `ExactlyOnceInv` strengthens it with
three parts: `OnlyRecordedIsAlive` (every signature that executed or can still
execute is the row's `dispatch_signature`, and every sent one is on record),
`RowsCoherent` (a queued claim has no signature, a dispatching one has its own),
and `JobCurrent` (what the worker has read still holds when it acts: a sampled
height is a lower bound, a signature found expired is past its height and not
alive). The step that matters is `OnceDecide`: `expired` needs the height to be
past *before* a status read that finds nothing, so a transaction that could
have landed would have been seen. The assumptions are needed: `two_daemons`
violates the conclusion without the first, and a lagging RPC without the second.

With several workers or a lagging RPC less remains, and it needs less:
`HandsInv` (a signature a worker still holds is unsent and held by it alone; it
finalizes only what is confirmed on chain) for `ReportedMeansPaid`; `GateInv` (a
worker past the gates has an approved claim, or one that needs no approval) for
`SentMeansApproved`; `OwnInv` (a claim has at most one signature more
than its re-sign count, and what the worker read of the count is current) for the
caps. The
refinement maps an outcome to the claim's status and receipts to its confirmed
transfers; a step of the chain is the step that pays, a finalize the one that
confirms.

`FloatCoversInFlight` is a sum over the signatures that may execute. `FloatInv`
adds that from the float check to the broadcast the balance also covers the claim
at hand. `ExactlyOnceInv` and `StoppedNeverPaid` give the step: what may execute
is the recorded signature of a dispatching claim, so no two are of one claim and
the sum is at most what `FloatManager.reserved` adds up. With `Forks` it fails, and TLC shows
how: a claim marked failed after its block is dropped no longer counts as
reserved while its transfer can still land.

### Operator batches (`AntOperatorProofs`)

For any number of submits at once, of daemons beside them, of ANTs, batches and
signatures:

| Theorem | States | Assumes |
|---|---|---|
| `ConfirmedAntsWereDelivered` | `ConfirmedWasPaid` | nothing: any workers, lag and forks included |
| `NoReservationIsStranded` | `ReservationsCanEnd` | `WalletDispatch` |
| `HeadersAreTruthful` | `HeadersTellTheTruth` | `WalletDispatch` |
| `LiveIsOnRecord` | `AliveIsOnRecord` | `WalletDispatch`, no lag, no forks, `[]~Overtaking` |
| `StoppedAntsStay` | `StoppedNeverPaid` | the same |

`WalletDispatch`: ANTs are sent by submits only, not by `dispatch:ants`; if a
daemon was not told the mode, ANTs need no approval (section 6 says what happens
otherwise).

`Overtaking` is the one step that the last two exclude, and the code does not: a
process found a signature dead or failed and goes on to clear, freeze or fail the
row, which by then has another signature. It takes two processes that confirm one
signature, two submits of one claim for instance, while a third step releases,
rebuilds and submits the claim anew. The theorems say that nothing else can take
a live signature off the record. With one submit at a time `AliveIsOnRecord` holds
in the run `operator`; with two at once it fails (section 6).

`LifeInv` says of each row what its status tells of its signature, of each
worker that only a submit sends an ANT, and is enough, with `ReqInv`, for the
reservations; `HeaderInv` says that a count of nothing left is still right when the
header is written, since a confirmed claim stays confirmed. `OnRecordInv` adds
what a process may still conclude from what it has read: a signature it found
dead is dead, one it found failed came to nothing, and a new one is recorded only
where none is.

### Claims API (`ClaimsApiProofs`)

`NoDoubleClaim`, `TablesAgree`, `WinsArePermanent`, and `LocksProtectDecisions`,
the inductive invariant itself: `JobInv` says that what a transaction has read
and decided still holds as long as it holds the row lock under which it read it,
so a commit acts on the truth. Any number of requests; no fairness.

`LocksAreOrdered` is the absence of deadlock: `Placed` says at which statements a
transaction can hold a lock of each kind, so whoever is waited for is further
along the order claim, asset, audit log (`Rank`), or is an uncommitted INSERT; of
any set of transactions, a furthest one waits for none of the others. It also
proves that who waits for nobody can take its statement.

`SplitsAreBraked`: `BrakeInv` says that a decision to verify without a review,
once made, is still right at the commit, although the total it rests on was
summed earlier and other completes have moved assets since: no status a complete
or a dispatcher can write takes an asset out of that sum.

### Audit log (`AuditLogProofs`)

`TheChainNeverForks`, `ReadersMissNothing` and `HonestOperatorsVerify` from
`AuditInv`, which holds until somebody alters rows: the advisory lock is held
from the read of the head to the commit, so values of the sequence become
visible in order and each row's hash extends the head; what an anchor job has
read is a prefix of the log. A verifier with the audit key refuses rows of which
none is signed; `HonestOperatorsVerify` says that this is its only complaint about
an honest log.

`AcceptedLogsAreUnaltered` holds whoever wrote the rows, so it rests on
`RowsInv` alone (one row per sequence value) and on what the verifier checked.
Its core is `TheHeadIsTheContents`: in rows whose links verify, the head's hash
is the sequence of all entries. This is an induction over the chain; it is done
as a minimal counterexample (the least row whose hash is not the sequence of the
entries up to it), because a well-founded order has minimal elements by a
theorem without an operator parameter.

### Proofs of ownership (`AttestorProofs`)

`OnlyTheRecipientClaims`, `SignaturesAreNotReused`, `EscrowsPayTheRecipient`
from `ProofInv`: a challenge's nonce is its own, wallets sign what they are
shown, a rebuild keeps a claimed row, and what was attested was signed for an
escrow. The claim that an answer is matched against the *ledger* and not against
the challenge is what `AcceptedIsCurrent` carries across rebuilds.

`RepeatsAreSeen` is about the map of repeated attestations. `Tally` follows, for
each key, which is a signer and an asset id in one spelling, and each time a window may begin, how many calls went unreported: at
most 2 (threshold - 1) - 1, and while the window lasts no more than the key's entry,
if there is one, accounts for (`Follows`, `Hidden`). Every call expires, evicts,
updates or adds an entry in the insertion order of the `Map`; that eviction drops
no live entry while the map is not full of live ones is the step that needs
`KeptBy` and `RankGrows` of `Collections`.

### Ledger and what is published (`LedgerProofs`)

| Theorem | States | Argument |
|---|---|---|
| `PlansReconcile`, `PlannedVaultsKeepTheirEnd` | parts of `PlansAreFaithful` | the planner as a function, any snapshot, time and limits |
| `PlansAreTrue` | `PlansAreFaithful` | with them, totals and counters are sums over one set of items split in two ways (`TotalsReconcile`) |
| `RebuildsOfferNothingTwice`, `DeliveriesKeepTheLock` | `AssetDeliveredOnce`, `LockPreserved` | `LedgerInv` |
| `ReportsAreCautious` | `ReportsNeverOverstate` | `AccountInv`, `ReportInv` |
| `RootBindsLeaves`, `ProofsVerify` | | the Merkle tree as a function, any number of leaves |
| `PublishingConvinces` | `OnlyPublishedIsAccepted` | with them |

`LedgerInv`: a row in delivery is taken, a delivered one is not offered again by
any build, and a decided lock is the one its row and its time of signing give.

`AccountInv` says that no ANT is paid in ARIO and that what is paid or claimed
has been delivered. `ReportInv` bounds each figure of a report in progress: the
balance read is at most the reserve less what the claimed rows cost, and the
liabilities read are at least what is owed now. At the end the two meet: every
delivered row is claimed or owed. TLC checked both on the `ledger` instance before
they were proved.

The tree is cut into rows, each a function of the one below. `Nodes` are the
hashes in all rows. They are closed under taking the children of an inner hash,
and a leaf hash among them is one of the leaves (`NodesAreBuilt`); whatever
contains the root and is closed under children contains them all
(`NodesAreReached`). Two trees with one root thus have each other's leaves, since
leaf and inner hashes have different tags. A proof, folded, leads from a leaf to
where it has come in each row (`Leads`), and from one hash only (`FoldsDiffer`).
For the artifact it remains that sorting loses no leaf of a set without a key
twice (`LeavesAreSorted`), so that one root means one set (`RootTells`), and that
an accepted artifact commits to its own leaves, whoever signed it. With the
publisher's key pinned the manifest is the signed one, so a copy is accepted only
if it is the original. With its memo alone pinned the leaves, the root, the digest
and the count are; the other figures of the manifest are bound by nothing, and the
theorem does not claim it.

### Around the core (`ServiceProofs`)

`OnlyTheWalletOperates` from `AdminInv`: an issued nonce is live, being checked
or spent, never two of these, and a token stands for a session that was
authorised. `LastingConditionsAreReported` and `LastingConditionsDoNotFlood` from
`MonitorInv`: from a pass to the next there is at most the cadence (or the reads,
if they take longer), a sleep, the work of one tick and its reads, and what the
router remembers is what it last posted. `HealedAntsStayHealed` from
`HealInv`: only ANTs that were transferred are looked at, an asset read in order
stays in order while the claimant owns it, and whatever transaction lands, late
or twice, takes entries off the cold wallet's pages only and adds them to the
claimant's only.

`AtMostTwiceTheLimit` assumes `Limit > 0`, since a limiter without a limit is
switched off. `LimiterInv`: a bucket counts at least what was let through since
it began, it began with a hit, and the window before it was not full (`Counts`);
a caller without a bucket has had less than the limit in the window that ends
now (`Rested`). A span of one window meets at most two windows of the limiter,
and if it meets two it misses the hit that began the first.

### What stays with TLC

*Liveness* (`EveryClaimSettles`, `EveryTransactionEnds`, `EveryAntIsSettled`).
Liveness under fairness needs `ENABLED`, which this prover cannot reason about;
`LocksAreOrdered` proves the part of `EveryTransactionEnds` that is about states.

The statements that the refuting runs violate are of course not proved. And a
proof is as wide as its assumptions: with several workers, a lagging RPC, dropped
blocks or overtaking submits the theorems whose tables exclude them say nothing,
and the runs or section 6 say what goes wrong.

## 5. What could come next

1. Bulk recovery by operators: the SQL re-drive of OPERATIONS.md as an action of
   the worker's environment, under the preconditions the runbook states.
2. The sums of `reconcile:dispatch` and its audit rows.
3. The read-only endpoints, if they come to decide anything.

## 6. Observations without a run

Met while modelling; each is visible in the source.

*Dispatch.*
- A transfer that fails in a *processed* block marks the claim failed
  (`chain.ts:285`); if that block is dropped, the transfer may land later. With
  `Forks` `StoppedNeverPaid` is false, and so is `FloatCoversInFlight`, since a
  failed claim reserves nothing; OPERATIONS.md:352 treats the verdict as
  final.
- An ANT approved while it is `verified` is listed by neither query
  (`worker.ts:277`, `worker.ts:298`).
- `reconcile:dispatch` reads with separate queries: a claim finalized in between
  shows as an orphan, and a claim paid twice on chain shows as clean.
- The confirm job of `docs/claims/ANT_OPERATOR_SIGNING_SPEC.md:57` does not
  exist: a submitted batch is confirmed by a resubmission.
- A submit that passes its read before a cancel commits leaves the claim
  dispatching with no batch. A daemon that was not told the mode recovers it; one
  that was told leaves it until the operator runs `dispatch:ants`.
- `clearDeadSignature` and `releaseReservationForRebuild` (`ant-operator.ts:723`)
  do not compare the row's signature with the one found dead. Two submits of one
  claim at once, or `dispatch:ants` beside a submit, can therefore take a *live*
  newer signature off an ANT's row: with two submits, or with `Role` `"ants"` and
  three signatures, TLC finds `AliveIsOnRecord` false. The claim may then be
  broadcast again, though `ANT_OPERATOR_SIGNING_SPEC.md:132` says "at most one
  broadcast per claim" of a double submit and `worker.ts:293` "the two paths must
  never fight over a claim". The ANT still moves once, since the program refuses
  the second transfer.
- A daemon that was not told the mode, while ANTs need approval, can overwrite
  `failed` with a stale `routeToReview`.
- `ant-operator.ts:757`: its comment does not hold after a release for rebuild.
- `planAclHeal` plans a reconcile without effect when the old owner is still a
  controller and `last_known_owner` is already the claimant. "Gave up" of the
  healer is only logged.

*Audit log and monitoring.*
- `ops/metrics.ts:161` counts rows whose signature is empty or NULL;
  `appendAudit` writes 64 zero bytes (`audit.ts:25`), so
  `audit-unsigned-backlog` (`alerts.ts:248`) cannot fire.
- Hashes cover `entry_canonical`: an edit of the `entry` column alone is seen by
  a verifier of the served pages, not by one of the database
  (`docs/claims/runbooks/README.md:38`: "A single deleted or edited row breaks
  the chain").
- `getLatestAuditAnchor` (`store.ts:198`) also returns unconfirmed anchors.
- `alert-slack.ts:15`, "at most once per repostIntervalMs while it keeps firing",
  does not hold across a pass that could not read the balance: `NotFlooded`
  excludes that pass.
- `dispatch-worker.ts:257` says of the throttle that "what throttling costs is
  alert latency, bounded by DISPATCH_MONITOR_INTERVAL_MS". The tick dispatches
  first (`dispatch-worker.ts:190`) and every unconfirmed claim holds it for up to
  `confirmTimeoutMs`, one after the other, so the latency grows with the claims
  that do not confirm: when dispatching stalls, the alerts about it come late.
- With `--audit-pubkey` an honest dump in which no row is signed yet is refused
  (`verify-transparency.ts:177`).
- Outstanding value includes `manual_review` in `ops/metrics.ts:153` and not in
  `reserves.ts:70`.

*Ledger.*
- The manual queue relocks without testing the minimum duration again.
- An unlock date may be up to one second early when `LEDGER_NOW_MS` is not a
  whole second; a rebuild with a later one moves a locked operator exit later.
- A rebuild keeps rows that are no longer in the plan.
- No code notes that an operator delivered a lock by hand:
  `vault-manual-queue.ts:70` lists the row every time it is run.
- A memo binds the root alone: with no key pinned, the rest of the manifest and the
  publisher may be anybody's (`verify-transparency.ts:115`). A pinned key alone
  accepts every artifact that key has signed, older ones too.

*Limits.*
- `rate-limit.ts:89` says "Still over the cap after expiry", but no expiry ran on
  that path; `ant-admin.ts:52` says "CONSUMED on first successful verify", but it
  is consumed before.
- `app.ts:424` says that the name or the asset id "uniquely identifies the target",
  but the id is a string as the caller spelled it: hex digits in another case have
  a counter of their own.
- The attestor's semaphore (`app.ts:70`) never refuses: its handler is
  synchronous. Its anomaly window is one per entry, not a rolling one, and counts
  successful attestations only. Setting an expired key keeps its place in the
  `Map`, so eviction may drop a fresh entry, even the one being counted.

## 7. Not modelled

- *Cryptography* (RSA-PSS, secp256k1, SHA-256, key sealing and custody): taken as
  ideal where a property needs it.
- *Byte layouts* of instructions, data items and messages: no state, and beyond
  the data TLC can enumerate; the fields they carry are in `ClaimProof`,
  `AclHealer` and `DispatchCore`.
- *HTTP parsing, start-up validation, configuration*: refusals without a state
  change.
- *Text*: alert wording, the Slack transport, display names and their backfill.
- *Read-only endpoints*: they return what the modelled tables hold.
- *Scripts, rehearsals and the reference frontend*: they drive the modelled
  operations.
