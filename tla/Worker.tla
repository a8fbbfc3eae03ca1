------------------------------- MODULE Worker -------------------------------
(***************************************************************************)
(* DispatchWorker (worker.ts) with dispatchSignedTx (dispatch-core.ts),    *)
(* the float check (float.ts) and the confirmation reads (chain.ts).       *)
(*                                                                         *)
(* A worker is the dispatch:worker daemon, which holds the hot token       *)
(* signer, or one run of dispatch:ants, which also holds the cold ANT      *)
(* signer.  A worker handles one claim at a time.  It is interruptible at  *)
(* every await, so every RPC call and every database transaction is a      *)
(* step of its own, and what it read stays in its job until it is used.    *)
(***************************************************************************)
EXTENDS DispatchCore

CONSTANTS
  Workers,
  Role,                  \* Workers -> {"daemon", "ants"}
  OperatorWallet,        \* ANT_DISPATCH_MODE is operator-wallet
  AntRequiresApproval,
  ArioCoreConfigured,    \* ARIO_CORE_PROGRAM is set: a relock can be built
  BigClaimThreshold,     \* 0 turns the brake off
  MaxResignAttempts,     \* MAX_RESIGN_ATTEMPTS
  LaggingRpc,            \* may a confirmation read miss what has landed?
  MaxCrashes             \* bound: interrupted runs of processClaim

ASSUME WorkerAssumption ==
  /\ Role \in [Workers -> {"daemon", "ants"}]
  /\ OperatorWallet \in BOOLEAN /\ AntRequiresApproval \in BOOLEAN
  /\ ArioCoreConfigured \in BOOLEAN /\ LaggingRpc \in BOOLEAN
  /\ BigClaimThreshold \in Nat /\ MaxResignAttempts \in Nat /\ MaxCrashes \in Nat

VARIABLES
  queue,    \* claim ids of the worker's current tick or batch
  job,      \* what each worker is doing and what it has read
  crashes   \* interrupted runs so far

vars == <<rowVars, chainVars, queue, job, crashes>>

PC == {"idle", "sample", "status", "scan", "clear", "freeze", "fail",
       "finalize", "load", "float", "review", "manual", "sign", "persist",
       "broadcast"}

Job == [pc       : PC,
        claim    : Claims \cup {None},
        sig      : Sig \cup {None},   \* signature being confirmed or sent
        known    : SUBSET Sig,        \* sig and tx_signatures at the snapshot
        resign   : Nat,               \* dispatch_resign_count at the snapshot
        height   : 0 .. 2,            \* sampled height, relative to sig
        inline   : BOOLEAN,           \* confirming its own broadcast?
        approved : BOOLEAN]           \* approved_at when #dispatchFresh loaded

NoJob == [pc |-> "idle", claim |-> None, sig |-> None, known |-> {},
          resign |-> 0, height |-> 0, inline |-> FALSE, approved |-> FALSE]

\* The steps at which a worker works on a signature.
WithSig == {"sample", "status", "scan", "clear", "freeze", "fail", "finalize",
            "persist", "broadcast"}

TypeOK ==
  /\ CoreTypeOK
  /\ queue \in [Workers -> SUBSET Claims]
  /\ job \in [Workers -> Job]
  /\ \A w \in Workers : /\ job[w].pc # "idle" => job[w].claim \in Claims
                        /\ job[w].pc \in WithSig => job[w].sig \in Sig
  /\ crashes \in Nat

Init ==
  /\ CoreInit
  /\ queue = [w \in Workers |-> {}]
  /\ job = [w \in Workers |-> NoJob]
  /\ crashes = 0

Done(w) == job' = [job EXCEPT ![w] = NoJob]
Goto(w, label) == job' = [job EXCEPT ![w] = [@ EXCEPT !.pc = label]]

-----------------------------------------------------------------------------
(***************************************************************************)
(* A tick (runOnce) or batch (runAntBatch) lists its claims once; each is  *)
(* then processed from a snapshot taken, without a lock, at its turn.      *)
(***************************************************************************)

\* Mutant: claims left dispatching by a crash are not picked up again.
EligibleUnsentOnly(w, c) ==
  /\ AssetType[c] # "ant" <=> Role[w] = "daemon"
  /\ status[c] = "verified" \/ (status[c] = "pending_review" /\ approved[c])

\* #eligibleClaimIds for the daemon, the batch query for dispatch:ants.
Eligible(w, c) ==
  IF Role[w] = "daemon"
  THEN /\ OperatorWallet => AssetType[c] # "ant"
       /\ \/ status[c] \in {"verified", "dispatching"}
          \/ status[c] = "pending_review" /\ approved[c]
  ELSE /\ AssetType[c] = "ant"
       /\ batch[c] = None
       /\ \/ status[c] = "dispatching"
          \/ status[c] = "pending_review" /\ approved[c]

RunOnce(w) ==
  /\ job[w].pc = "idle" /\ queue[w] = {}
  /\ queue' = [queue EXCEPT ![w] = {c \in Claims : Eligible(w, c)}]
  /\ UNCHANGED <<rowVars, chainVars, job, crashes>>

\* A recorded signature is recovered before anything new is signed.
ProcessClaim(w, c) ==
  /\ job[w].pc = "idle" /\ c \in queue[w]
  /\ queue' = [queue EXCEPT ![w] = @ \ {c}]
  /\ LET skip    == status[c] = "confirmed" \/ batch[c] # None
         recover == sig[c] # None /\ status[c] \in {"dispatching", "verified"}
         fresh   == \/ status[c] = "verified"
                    \/ status[c] = "pending_review" /\ approved[c]
     IN job' = [job EXCEPT ![w] =
          IF ~skip /\ recover
          THEN [NoJob EXCEPT !.pc = "sample", !.claim = c, !.sig = sig[c],
                             !.known = {sig[c]} \cup txSigs[c], !.resign = resign[c]]
          ELSE IF ~skip /\ fresh THEN [NoJob EXCEPT !.pc = "load", !.claim = c]
          ELSE NoJob]
  /\ UNCHANGED <<rowVars, chainVars, crashes>>

-----------------------------------------------------------------------------
(***************************************************************************)
(* #statusOnce and confirmSignature: the height is sampled first, then the *)
(* status is read.  The recovery path goes on to #recover's decision, the  *)
(* inline path to the end of dispatchSignedTx.                             *)
(***************************************************************************)

SampleHeight(w) ==
  /\ job[w].pc = "sample"
  /\ job' = [job EXCEPT ![w] = [@ EXCEPT !.pc = "status", !.height = age[job[w].sig]]]
  /\ UNCHANGED <<rowVars, chainVars, queue, crashes>>

\* What getSignatureStatuses may answer; a lagging replica may not have it.
StatusAnswers(s) ==
  {CASE tx[s] \in {"unsent", "inflight"}        -> "not_found"
     [] tx[s] = "processed"                     -> "processed"
     [] tx[s] \in {"processed_err", "failed"}   -> "err"
     [] tx[s] = "confirmed"                     -> "confirmed"}
    \cup (IF LaggingRpc THEN {"not_found"} ELSE {})

\* Mutant: a processed status counts as confirmed.
IsConfirmedOrProcessed(answer) == answer \in {"processed", "confirmed"}

IsConfirmed(answer) == answer = "confirmed"

\* Mutant: the last valid height itself counts as past it.
PastFromLastValid(height) == height >= 1

\* Mutant: the height is not compared.
PastAlways(height) == TRUE

PastLastValid(height) == height > 1

Classify(answer, height) ==
  CASE answer = "err"       -> "failed"
    [] IsConfirmed(answer)  -> "confirmed"
    [] answer = "not_found" /\ PastLastValid(height) -> "expired"
    [] OTHER                -> "pending"

\* A pending answer is polled again until the deadline, then left to a later
\* tick; an expired inline answer is left to recovery too.
ReadStatus(w) ==
  /\ job[w].pc = "status"
  /\ \E answer \in StatusAnswers(job[w].sig) :
       LET state == Classify(answer, job[w].height)
       IN \/ state = "confirmed" /\ Goto(w, "finalize")
          \/ state = "failed"    /\ Goto(w, "fail")
          \/ state = "expired"   /\ ~job[w].inline /\ Goto(w, "scan")
          \/ state = "expired"   /\ job[w].inline  /\ Done(w)
          \/ state = "pending"   /\ (Goto(w, "sample") \/ Done(w))
  /\ UNCHANGED <<rowVars, chainVars, queue, crashes>>

-----------------------------------------------------------------------------
(***************************************************************************)
(* #recover after an expired classification.                               *)
(***************************************************************************)

Outflows(w) == {s \in job[w].known : tx[s] = "confirmed"}

\* Mutant: the cap is compared with > instead of >=.
AtResignCapLate(n) == n > MaxResignAttempts

AtResignCap(n) == n >= MaxResignAttempts

\* findConfirmedOutflow and the decision on its result.
ScanOutflow(w) ==
  /\ job[w].pc = "scan"
  /\ \/ \E s \in Outflows(w) :
          job' = [job EXCEPT ![w] = [@ EXCEPT !.pc = "finalize", !.sig = s]]
     \/ /\ Outflows(w) = {} \/ LaggingRpc
        /\ Goto(w, IF AtResignCap(job[w].resign) THEN "freeze" ELSE "clear")
  /\ UNCHANGED <<rowVars, chainVars, queue, crashes>>

ClearAndRedispatch(w) ==
  /\ job[w].pc = "clear"
  /\ ClearDeadSignature(job[w].claim)
  /\ job' = [job EXCEPT ![w] = [NoJob EXCEPT !.pc = "load", !.claim = job[w].claim]]
  /\ UNCHANGED <<chainVars, queue, crashes>>

FreezeClaim(w) ==
  /\ job[w].pc = "freeze"
  /\ MarkNeedsOperator(job[w].claim)
  /\ Done(w)
  /\ UNCHANGED <<chainVars, queue, crashes>>

FailClaim(w) ==
  /\ job[w].pc = "fail"
  /\ MarkFailed(job[w].claim)
  /\ Done(w)
  /\ UNCHANGED <<chainVars, queue, crashes>>

FinalizeClaim(w) ==
  /\ job[w].pc = "finalize"
  /\ FinalizeConfirmed(job[w].claim, job[w].sig)
  /\ Done(w)
  /\ UNCHANGED <<chainVars, queue, crashes>>

-----------------------------------------------------------------------------
(***************************************************************************)
(* #dispatchFresh.                                                         *)
(***************************************************************************)

\* Where a freshly loaded claim goes: the cheap asset guard, then the ANT
\* gates, or the float check for a token or vault.  (An ANT without a mint is ruled out
\* by assets_ant_shape_ck, the hot key as ANT signer by runAntBatch.)
LoadTarget(w, c) ==
  IF asset[c] = "claimed"                      THEN "idle"
  ELSE IF AssetType[c] # "ant"                 THEN "float"
  ELSE IF AntRequiresApproval /\ ~approved[c]  THEN "review"
  ELSE IF Role[w] # "ants"                     THEN "idle"
  ELSE "sign"

LoadFresh(w) ==
  /\ job[w].pc = "load"
  /\ LET c == job[w].claim
         target == LoadTarget(w, c)
     IN IF target = "idle" THEN Done(w)
        ELSE job' = [job EXCEPT ![w] = [@ EXCEPT !.pc = target,
                                                 !.approved = approved[c]]]
  /\ UNCHANGED <<rowVars, chainVars, queue, crashes>>

SumAmount(S) == SumFunctionOnSet(Amount, S)

\* Mutant: value already sent is not reserved.
ReservedUnsent(c) ==
  SumAmount({d \in Claims \ {c} : status[d] = "verified" /\ AssetType[d] # "ant"})

\* FloatManager.reserved: what other verified or dispatching claims commit.
Reserved(c) ==
  SumAmount({d \in Claims \ {c} : /\ status[d] \in {"verified", "dispatching"}
                                  /\ AssetType[d] # "ant"})

Available(c) == IF balance > Reserved(c) THEN balance - Reserved(c) ELSE 0

\* Mutant: the threshold is off by one.
ExceedsBrakeByTwo(c, isApproved) ==
  ~isApproved /\ BigClaimThreshold > 0 /\ Amount[c] > BigClaimThreshold + 1

ExceedsBrake(c, isApproved) ==
  ~isApproved /\ BigClaimThreshold > 0 /\ Amount[c] > BigClaimThreshold

\* The settlements a vault may get, by its unlock time and the wall clock.
Settlements(c) ==
  IF AssetType[c] = "vault" THEN {"liquid", "relock", "too_long"} ELSE {"liquid"}

CheckFloat(w) ==
  /\ job[w].pc = "float"
  /\ LET c == job[w].claim
     IN \/ ExceedsBrake(c, job[w].approved) /\ Goto(w, "review")
        \/ /\ ~ExceedsBrake(c, job[w].approved)
           /\ Amount[c] > Available(c)
           /\ Done(w)
        \/ /\ ~ExceedsBrake(c, job[w].approved)
           /\ Amount[c] <= Available(c)
           /\ \E settlement \in Settlements(c) :
                IF settlement = "liquid" \/ (settlement = "relock" /\ ArioCoreConfigured)
                THEN Goto(w, "sign")
                ELSE Goto(w, "manual")
  /\ UNCHANGED <<rowVars, chainVars, queue, crashes>>

ReviewClaim(w) ==
  /\ job[w].pc = "review"
  /\ RouteToReview(job[w].claim)
  /\ Done(w)
  /\ UNCHANGED <<chainVars, queue, crashes>>

ManualVault(w) ==
  /\ job[w].pc = "manual"
  /\ RouteToManualVaultDelivery(job[w].claim)
  /\ Done(w)
  /\ UNCHANGED <<chainVars, queue, crashes>>

-----------------------------------------------------------------------------
(***************************************************************************)
(* #signPersistBroadcastConfirm and dispatchSignedTx.                      *)
(***************************************************************************)

\* Signatures no row and no process has: a fresh blockhash gives a fresh one.
\* One that was discarded before it was persisted is free again.
Unused(c) ==
  {s \in Sig : /\ ClaimOf(s) = c
               /\ s \notin txSigs[c]
               /\ tx[s] = "unsent"
               /\ \A v \in Workers : job[v].sig # s}

SignTransaction(w) ==
  /\ job[w].pc = "sign"
  /\ \E s \in Unused(job[w].claim) :
       /\ \A t \in Unused(job[w].claim) : s[2] <= t[2]
       /\ job' = [job EXCEPT ![w] = [@ EXCEPT !.pc = "persist", !.sig = s]]
       /\ age' = [age EXCEPT ![s] = 0]
  /\ UNCHANGED <<rowVars, tx, balance, queue, crashes>>

PersistSigned(w) ==
  /\ job[w].pc = "persist"
  /\ \/ /\ PersistDispatching(job[w].claim, job[w].sig)
        /\ Goto(w, "broadcast")
     \/ /\ ~CanDispatch(job[w].claim)
        /\ Done(w)
        /\ UNCHANGED rowVars
  /\ UNCHANGED <<chainVars, queue, crashes>>

\* The send may be refused or lost (the error is swallowed); either way the
\* worker goes on to confirm.  To send what was sent before changes nothing.
Broadcast(w) ==
  /\ job[w].pc = "broadcast"
  /\ tx' \in {tx, [tx EXCEPT ![job[w].sig] = IF @ = "unsent" THEN "inflight" ELSE @]}
  /\ job' = [job EXCEPT ![w] = [@ EXCEPT !.pc = "sample", !.inline = TRUE]]
  /\ UNCHANGED <<rowVars, age, balance, queue, crashes>>

-----------------------------------------------------------------------------

\* An RPC or database call throws out of processClaim: the daemon's tick goes
\* on with the next claim, a dispatch:ants batch ends.  Or the process dies.
Crash(w) ==
  /\ job[w].pc # "idle"
  /\ crashes < MaxCrashes
  /\ crashes' = crashes + 1
  /\ Done(w)
  /\ \/ Role[w] = "daemon" /\ UNCHANGED queue
     \/ queue' = [queue EXCEPT ![w] = {}]
  /\ UNCHANGED <<rowVars, chainVars>>

WorkerStep(w) ==
  \/ RunOnce(w) \/ \E c \in queue[w] : ProcessClaim(w, c)
  \/ SampleHeight(w) \/ ReadStatus(w)
  \/ ScanOutflow(w) \/ ClearAndRedispatch(w) \/ FreezeClaim(w)
  \/ FailClaim(w) \/ FinalizeClaim(w)
  \/ LoadFresh(w) \/ CheckFloat(w) \/ ReviewClaim(w) \/ ManualVault(w)
  \/ SignTransaction(w) \/ PersistSigned(w) \/ Broadcast(w)

Approve == \E c \in Claims : ApproveClaim(c) /\ UNCHANGED <<queue, job, crashes>>

\* A signature exists once some process holds it or some row records it.
Exists(s) == s \in txSigs[ClaimOf(s)] \/ \E w \in Workers : job[w].sig = s

ChainStep ==
  /\ \/ Refill
     \/ \E s \in Sig : \/ Land(s) \/ LandWithError(s) \/ ConfirmBlock(s)
                       \/ DropBlock(s)
                       \/ Exists(s) /\ AgeBlockhash(s)
  /\ UNCHANGED <<queue, job, crashes>>

Next ==
  \/ \E w \in Workers : WorkerStep(w) \/ Crash(w)
  \/ Approve
  \/ ChainStep

Spec == Init /\ [][Next]_vars

(***************************************************************************)
(* Fairness.  The daemon runs ticks on a timer and dispatch:ants is run on *)
(* the operator's cadence; a tick visits every claim it listed and a       *)
(* started step ends.  Blocks are produced, and a processed block is       *)
(* confirmed.  The operator approves what waits for review and refills the *)
(* float when it is low.                                                   *)
(***************************************************************************)
FairSpec ==
  /\ Spec
  /\ \A w \in Workers : WF_vars(WorkerStep(w))
  /\ WF_vars(\E s \in Sig : ConfirmBlock(s) /\ UNCHANGED <<queue, job, crashes>>)
  /\ WF_vars(\E s \in Sig : Exists(s) /\ AgeBlockhash(s) /\ UNCHANGED <<queue, job, crashes>>)
  /\ WF_vars(Approve)
  /\ WF_vars(Refill /\ UNCHANGED <<queue, job, crashes>>)

-----------------------------------------------------------------------------
(***************************************************************************)
(* Safety.                                                                 *)
(***************************************************************************)

Stopped == {"failed", "needs_operator", "awaiting_manual_vault_delivery"}

Paid(c) == \E s \in Sig : ClaimOf(s) = c /\ tx[s] = "confirmed"

\* Some transfer of the claim has executed or still can.
MayPay(s) == tx[s] \in {"processed", "confirmed"} \/ Landable(s)

\* Exactly-once (worker.ts header: "at most ONE signature per claim can ever
\* land"): no two transfers of one claim are ever confirmed, whatever crashes,
\* lost sends, late landings and re-signs happen in between.
AtMostOneTransfer ==
  \A s, t \in Sig :
    ClaimOf(s) = ClaimOf(t) /\ tx[s] = "confirmed" /\ tx[t] = "confirmed"
      => s = t

\* A claim is reported confirmed, and its asset claimed, only when one of the
\* signatures recorded for it is confirmed on chain (finalizeConfirmed).
ConfirmedWasPaid ==
  \A c \in Claims :
    /\ status[c] = "confirmed" => \E s \in txSigs[c] : tx[s] = "confirmed"
    /\ asset[c] = "claimed" <=> status[c] = "confirmed"

\* A claim handed to an operator (failed, needs_operator, manual vault) has not
\* been paid and no transfer of it can still land, so that a deliberate
\* re-drive (OPERATIONS.md 3.1, 3.4) pays once.
StoppedNeverPaid ==
  \A s \in Sig : status[ClaimOf(s)] \in Stopped => ~MayPay(s)

\* The re-sign cap (MAX_RESIGN_ATTEMPTS): a claim never gets more than one
\* signature beyond the cap's re-signs, however its runs are interrupted.
ResignCap ==
  \A c \in Claims : Cardinality(txSigs[c]) <= MaxResignAttempts + 1

\* worker.ts, MAX_RESIGN_ATTEMPTS: a lagging confirm-RPC costs "at most one
\* extra transfer".
AtMostOneExtraTransfer ==
  \A c \in Claims :
    Cardinality({s \in Sig : ClaimOf(s) = c /\ tx[s] = "confirmed"}) <= 2

\* The float is never over-committed: the account covers every token transfer
\* that can still execute at once (FloatManager.check against balance - reserved).
MayExecute == {s \in Sig : tx[s] = "processed" \/ Landable(s)}

FloatCoversInFlight == SumFunctionOnSet(AmountOf, MayExecute) <= balance

\* Nothing over the brake, and no ANT, is ever sent without an operator's
\* approval, on the first attempt or on a re-sign after recovery.
NothingSentUnapproved ==
  \A s \in Sig :
    tx[s] # "unsent" =>
      \/ approved[ClaimOf(s)]
      \/ /\ AssetType[ClaimOf(s)] = "ant" => ~AntRequiresApproval
         /\ BigClaimThreshold > 0 => Amount[ClaimOf(s)] <= BigClaimThreshold

\* The abstract claim: its outcome as the rows report it, its receipts as the
\* chain has them.
outcomeBar ==
  [c \in Claims |-> CASE status[c] = "confirmed" -> "confirmed"
                      [] status[c] \in Stopped   -> "stopped"
                      [] OTHER                   -> "open"]
receiptsBar == [c \in Claims |-> {s \in Sig : ClaimOf(s) = c /\ tx[s] = "confirmed"}]

D == INSTANCE Dispense WITH Receipts <- Sig, outcome <- outcomeBar,
                            receipts <- receiptsBar

\* One worker, a consistent RPC and no dropped blocks implement the promise:
\* every step of worker and chain is a step of Dispense or leaves it alone.
ImplementsDispense == D!Spec

-----------------------------------------------------------------------------
(***************************************************************************)
(* Why exactly-once holds: the inductive invariant of a single worker.     *)
(***************************************************************************)

SingleWorker == \A v, w \in Workers : v = w

\* s has executed, or some future block may still execute it.
Alive(s) ==
  \/ tx[s] \in {"processed", "processed_err", "confirmed"}
  \/ Landable(s)

\* The row's signature is the only one of the claim that is alive, and every
\* signature that was ever sent is on record.
OnlyRecordedIsAlive ==
  \A s \in Sig : /\ Alive(s) => sig[ClaimOf(s)] = s
                 /\ tx[s] # "unsent" => s \in txSigs[ClaimOf(s)]

\* A queued claim has no signature, a dispatching one has its own.
RowsCoherent ==
  \A c \in Claims :
    /\ batch[c] = None
    /\ \A s \in txSigs[c] : ClaimOf(s) = c
    /\ sig[c] # None => ClaimOf(sig[c]) = c /\ sig[c] \in txSigs[c]
    /\ status[c] \in {"verified", "pending_review"} => sig[c] = None
    /\ status[c] = "dispatching" => sig[c] # None

Recovering == {"sample", "status", "scan", "clear", "freeze", "fail", "broadcast"}
Fresh      == {"load", "float", "review", "manual", "sign", "persist"}

\* What a worker read still holds when it acts on it.
JobCurrent(w) ==
  LET c == job[w].claim
      s == job[w].sig
  IN /\ \A k \in job[w].known : ClaimOf(k) = c
     /\ job[w].pc \in Recovering => sig[c] = s /\ status[c] = "dispatching"
     /\ job[w].pc = "status" => job[w].height <= age[s]
     /\ job[w].pc \in {"scan", "clear", "freeze"} => ~Alive(s) /\ age[s] = 2
     /\ job[w].pc = "broadcast" => tx[s] = "unsent"
     /\ job[w].pc = "finalize" =>
          ClaimOf(s) = c /\ status[c] = "dispatching" /\ tx[s] = "confirmed"
     /\ job[w].pc = "fail" => Forks \/ tx[s] \in {"processed_err", "failed"}
     /\ job[w].pc \in Fresh => status[c] \in {"verified", "pending_review"}
     /\ job[w].pc = "persist" => ClaimOf(s) = c /\ tx[s] = "unsent"

\* The inductive invariant: only the signature on record is alive, and what
\* the one worker has read about it is still true when it acts.
ExactlyOnceInv ==
  /\ OnlyRecordedIsAlive
  /\ RowsCoherent
  /\ \A w \in Workers : JobCurrent(w)

-----------------------------------------------------------------------------
(***************************************************************************)
(* Liveness.                                                               *)
(***************************************************************************)

Settled(c) == status[c] \in Stopped \cup {"confirmed"}

\* Every won claim ends up confirmed or in an operator's queue: no crash, lost
\* send, expiry or float shortage leaves it in the dispatch queue forever.
EveryClaimSettles == \A c \in Claims : <>Settled(c)
=============================================================================
