---------------------------- MODULE DispatchCore ----------------------------
(***************************************************************************)
(* The state shared by every process that moves value in the claims        *)
(* service, and the primitives they change it with:                        *)
(*                                                                         *)
(*  - the claim and asset rows (one asset per claim: the partial unique    *)
(*    index one_live_claim_per_asset admits one live claim of an asset);   *)
(*  - the database transactions of dispatch-core.ts, one operator each,    *)
(*    with the FOR UPDATE re-check of the transaction as its condition;    *)
(*  - the Solana chain as chain.ts observes it.                            *)
(*                                                                         *)
(* Block heights are kept per transaction, relative to its own             *)
(* lastValidBlockHeight: age 0 is "height below it", 1 "height equal to    *)
(* it" (the last slot in which the transaction may land), 2 "height past   *)
(* it".  This is all #statusOnce distinguishes, and leaves time unbounded. *)
(***************************************************************************)
EXTENDS Integers, FiniteSets, Functions

CONSTANTS
  Claims,             \* claim ids
  AssetType,          \* Claims -> {"token", "vault", "ant"}
  Amount,             \* Claims -> Nat, mARIO of the asset (0 for an ANT)
  MaxSigs,            \* bound: distinct signatures a claim may ever get
  Batches,            \* ids of operator-wallet ANT batches
  FloatCap,           \* float.ts capMario, the level an operator refills to
  Forks,              \* may a processed (unconfirmed) block be dropped?
  None                \* SQL NULL

Sig == Claims \X (1 .. MaxSigs)
ClaimOf(s) == s[1]

ASSUME CoreAssumption ==
  /\ IsFiniteSet(Claims)
  /\ AssetType \in [Claims -> {"token", "vault", "ant"}]
  /\ Amount \in [Claims -> Nat]
  /\ \A c \in Claims : AssetType[c] = "ant" => Amount[c] = 0  \* assets_ant_shape_ck
  /\ MaxSigs \in Nat
  /\ FloatCap \in Nat
  /\ Forks \in BOOLEAN
  /\ None \notin Claims /\ None \notin Sig /\ None \notin Batches

VARIABLES
  status,    \* claims.status
  approved,  \* claims.approved_at IS NOT NULL
  sig,       \* claims.dispatch_signature
  txSigs,    \* claims.tx_signatures
  resign,    \* claims.dispatch_resign_count
  batch,     \* claims.ant_batch_id
  asset,     \* assets.status of the claim's asset
  tx,        \* what the chain knows of a signature
  age,       \* block height relative to the signature's lastValidBlockHeight
  balance    \* confirmed token balance of the hot dispenser's account

rowVars   == <<status, approved, sig, txSigs, resign, batch, asset>>
chainVars == <<tx, age, balance>>

ClaimStatus == {"verified", "pending_review", "dispatching", "confirmed",
                "failed", "needs_operator", "awaiting_manual_vault_delivery"}
AssetStatus == {"claiming", "pending_review", "claimed"}
TxState     == {"unsent", "inflight", "processed", "processed_err",
                "confirmed", "failed"}

CoreTypeOK ==
  /\ status   \in [Claims -> ClaimStatus]
  /\ approved \in [Claims -> BOOLEAN]
  /\ sig      \in [Claims -> Sig \cup {None}]
  /\ txSigs   \in [Claims -> SUBSET Sig]
  /\ resign   \in [Claims -> Nat]
  /\ batch    \in [Claims -> Batches \cup {None}]
  /\ asset    \in [Claims -> AssetStatus]
  /\ tx       \in [Sig -> TxState]
  /\ age      \in [Sig -> 0 .. 2]
  /\ balance  \in Int

\* A claim reaches the dispatcher as completeClaim left it: verified with a
\* claiming asset, or both pending_review.
CoreInit ==
  /\ status \in [Claims -> {"verified", "pending_review"}]
  /\ asset = [c \in Claims |-> IF status[c] = "verified"
                               THEN "claiming" ELSE "pending_review"]
  /\ approved = [c \in Claims |-> FALSE]
  /\ sig      = [c \in Claims |-> None]
  /\ txSigs   = [c \in Claims |-> {}]
  /\ resign   = [c \in Claims |-> 0]
  /\ batch    = [c \in Claims |-> None]
  /\ tx       = [s \in Sig |-> "unsent"]
  /\ age      = [s \in Sig |-> 0]
  /\ balance  = FloatCap

-----------------------------------------------------------------------------
(***************************************************************************)
(* Database transactions (dispatch-core.ts).                               *)
(***************************************************************************)

CanDispatch(c) ==
  /\ \/ status[c] = "verified"
     \/ status[c] = "pending_review" /\ approved[c]
  /\ asset[c] \in {"claiming", "pending_review"}

\* The committed branch of persistDispatching: the signature is on record
\* before anything is sent.
PersistDispatching(c, s) ==
  /\ CanDispatch(c)
  /\ status' = [status EXCEPT ![c] = "dispatching"]
  /\ sig'    = [sig EXCEPT ![c] = s]
  /\ txSigs' = [txSigs EXCEPT ![c] = @ \cup {s}]
  /\ asset'  = [asset EXCEPT ![c] = "claiming"]
  /\ UNCHANGED <<approved, resign, batch>>

\* Mutant: the asset is not settled with its claim.
FinalizeClaimOnly(c, s) ==
  IF status[c] = "confirmed"
  THEN UNCHANGED rowVars
  ELSE /\ status' = [status EXCEPT ![c] = "confirmed"]
       /\ txSigs' = [txSigs EXCEPT ![c] = @ \cup {s}]
       /\ UNCHANGED <<approved, sig, resign, batch, asset>>

FinalizeConfirmed(c, s) ==
  IF status[c] = "confirmed"
  THEN UNCHANGED rowVars
  ELSE /\ status' = [status EXCEPT ![c] = "confirmed"]
       /\ txSigs' = [txSigs EXCEPT ![c] = @ \cup {s}]
       /\ asset'  = [asset EXCEPT ![c] = "claimed"]
       /\ UNCHANGED <<approved, sig, resign, batch>>

MarkFailed(c) ==
  IF status[c] = "confirmed"
  THEN UNCHANGED rowVars
  ELSE /\ status' = [status EXCEPT ![c] = "failed"]
       /\ UNCHANGED <<approved, sig, txSigs, resign, batch, asset>>

MarkNeedsOperator(c) ==
  IF status[c] \in {"confirmed", "needs_operator"}
  THEN UNCHANGED rowVars
  ELSE /\ status' = [status EXCEPT ![c] = "needs_operator"]
       /\ UNCHANGED <<approved, sig, txSigs, resign, batch, asset>>

\* Mutant: the re-sign is not counted.
ClearUncounted(c) ==
  IF status[c] # "dispatching" \/ batch[c] # None
  THEN UNCHANGED rowVars
  ELSE /\ status' = [status EXCEPT ![c] = IF approved[c] THEN "pending_review"
                                                         ELSE "verified"]
       /\ sig'    = [sig EXCEPT ![c] = None]
       /\ UNCHANGED <<approved, txSigs, resign, batch, asset>>

\* The transaction looks at the status only: it does not compare the row's
\* signature with the one the caller found dead.
ClearDeadSignature(c) ==
  IF status[c] # "dispatching" \/ batch[c] # None
  THEN UNCHANGED rowVars
  ELSE /\ status' = [status EXCEPT ![c] = IF approved[c] THEN "pending_review"
                                                         ELSE "verified"]
       /\ sig'    = [sig EXCEPT ![c] = None]
       /\ resign' = [resign EXCEPT ![c] = @ + 1]
       /\ UNCHANGED <<approved, txSigs, batch, asset>>

\* Mutant: the asset is given the claim's new status.
ParkedAssetAsClaim(a, newStatus) == IF a = "claimed" THEN a ELSE newStatus

ParkedAsset(a, newStatus) == IF a = "claimed" THEN a ELSE "pending_review"

\* Any status but confirmed and dispatching is overwritten.
ParkAs(c, newStatus) ==
  IF status[c] \in {"confirmed", "dispatching"}
  THEN UNCHANGED rowVars
  ELSE /\ status' = [status EXCEPT ![c] = newStatus]
       /\ asset'  = [asset EXCEPT ![c] = ParkedAsset(@, newStatus)]
       /\ UNCHANGED <<approved, sig, txSigs, resign, batch>>

RouteToReview(c) == ParkAs(c, "pending_review")

RouteToManualVaultDelivery(c) == ParkAs(c, "awaiting_manual_vault_delivery")

\* The operator's dispatch:approve (worker.ts approveClaim).
ApproveClaim(c) ==
  /\ status[c] \in {"pending_review", "verified"}
  /\ ~approved[c]
  /\ approved' = [approved EXCEPT ![c] = TRUE]
  /\ UNCHANGED <<status, sig, txSigs, resign, batch, asset, chainVars>>

-----------------------------------------------------------------------------
(***************************************************************************)
(* The chain.  A transaction that was sent may land while the height has   *)
(* not passed its lastValidBlockHeight; it is first processed, then        *)
(* confirmed.  A block is confirmed, or dropped, before the confirmed      *)
(* height passes the last height its transactions are valid at.            *)
(***************************************************************************)

Landable(s) == tx[s] = "inflight" /\ age[s] < 2

\* What a transfer takes from the account.
AmountOf == [s \in Sig |-> Amount[ClaimOf(s)]]

Processing == {s \in Sig : tx[s] = "processed"}

\* The chain executes an ANT transfer only for its current owner, and a token
\* transfer only if the dispenser's account covers it.
Executes(s) ==
  IF AssetType[ClaimOf(s)] = "ant"
  THEN \A t \in Sig : ClaimOf(t) = ClaimOf(s) => tx[t] \notin {"processed", "confirmed"}
  ELSE SumFunctionOnSet(AmountOf, Processing) + AmountOf[s] <= balance

Land(s) ==
  /\ Landable(s)
  /\ Executes(s)
  /\ tx' = [tx EXCEPT ![s] = "processed"]
  /\ UNCHANGED <<rowVars, age, balance>>

LandWithError(s) ==
  /\ Landable(s)
  /\ tx' = [tx EXCEPT ![s] = "processed_err"]
  /\ UNCHANGED <<rowVars, age, balance>>

ConfirmBlock(s) ==
  /\ \/ /\ tx[s] = "processed"
        /\ tx' = [tx EXCEPT ![s] = "confirmed"]
        /\ balance' = balance - Amount[ClaimOf(s)]
     \/ /\ tx[s] = "processed_err"
        /\ tx' = [tx EXCEPT ![s] = "failed"]
        /\ UNCHANGED balance
  /\ UNCHANGED <<rowVars, age>>

\* A fork drops the block; the transaction is still in flight.
DropBlock(s) ==
  /\ Forks
  /\ tx[s] \in {"processed", "processed_err"}
  /\ tx' = [tx EXCEPT ![s] = "inflight"]
  /\ UNCHANGED <<rowVars, age, balance>>

\* The height reaches, then passes, the last height s is valid at.
AgeBlockhash(s) ==
  /\ age[s] < 2
  /\ age[s] = 1 => tx[s] \notin {"processed", "processed_err"}
  /\ age' = [age EXCEPT ![s] = @ + 1]
  /\ UNCHANGED <<rowVars, tx, balance>>

\* Runbook 03: the operator tops the float up to its cap.
Refill ==
  /\ balance < FloatCap
  /\ balance' = FloatCap
  /\ UNCHANGED <<rowVars, tx, age>>
=============================================================================
