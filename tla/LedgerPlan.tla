----------------------------- MODULE LedgerPlan -----------------------------
(***************************************************************************)
(* The ledger planner (ledger/plan.ts and its helpers), the independent    *)
(* derivation it is reconciled with (reconcile/authoritative.ts), and the  *)
(* settlement of a vault at claim time (verify/vault-settlement.ts).  All  *)
(* of it is pure: functions of the frozen inputs and of a time.            *)
(*                                                                         *)
(* An input is a set of items, each from one of the frozen files.  The     *)
(* asset key, a hash of a seed string in the code, is the tuple of the     *)
(* seed's parts.  Times of the snapshot are in milliseconds, MS of them to *)
(* a second, those of the stake plan in seconds.                           *)
(***************************************************************************)
EXTENDS Integers, FiniteSets, Functions

CONSTANTS
  MS,             \* milliseconds per second
  MinVaultSize,   \* MIN_VAULT_SIZE_MARIO
  MinVaultLock,   \* MIN_VAULT_LOCK_SECONDS, and ArioConfig.min_vault_duration
  MaxVaultLock,   \* ArioConfig.max_vault_duration
  Mapped,         \* keys of address-map.json, normalized
  Moduli,         \* owners in escrow-recipient-modulus.json
  Corrupt,        \* those whose modulus does not hash to the owner
  AtRisk,         \* owners in escrow-recipient-AT-RISK.json
  AoProcess,      \* AO_PROCESS_ID
  None

ASSUME PlanAssumption ==
  /\ MS \in Nat \ {0} /\ MinVaultSize \in Nat
  /\ MinVaultLock \in Nat \ {0} /\ MaxVaultLock \in Nat /\ MinVaultLock <= MaxVaultLock
  /\ Corrupt \subseteq Moduli /\ None \notin Int

-----------------------------------------------------------------------------
(***************************************************************************)
(* Addresses and asset keys.  An owner is [chain, name, upper]: an address *)
(* as a file spells it.                                                    *)
(***************************************************************************)

LowerCase(owner) == [owner EXCEPT !.upper = FALSE]

\* Ethereum addresses lose their case, all others keep it.
NormalizeSourceAddress(owner) == IF owner.chain = "eth" THEN LowerCase(owner) ELSE owner

IsMapped(owner) == NormalizeSourceAddress(owner) \in Mapped

\* deriveAntMint, deriveTokenAssetId, deriveVaultAssetId, deriveStakeAssetId.
AssetKey(item) ==
  IF item.file = "ants" THEN <<"ants", item.id>>
  ELSE IF item.file = "balances" THEN <<item.file, NormalizeSourceAddress(item.owner)>>
  ELSE <<item.file, NormalizeSourceAddress(item.owner), item.id>>

StakeFiles  == {"stake", "withdrawal"}
LiquidFiles == {"stakeLiquid", "withdrawalLiquid"}

-----------------------------------------------------------------------------
(***************************************************************************)
(* Who is paid, and what the planner refuses.                              *)
(***************************************************************************)

\* resolveRecipientPubkey: an Ethereum address, or a published modulus.
Resolvable(owner) == owner.chain = "eth" \/ owner \in Moduli

\* The items that become assets.  The stake plan holds unmapped owners only.
Escrowed(item) ==
  CASE item.file = "ants"     -> ~IsMapped(item.owner)
    [] item.file = "balances" -> /\ ~IsMapped(item.owner) /\ item.amount > 0
                                 /\ item.owner # AoProcess
    [] item.file = "vaults"   -> ~IsMapped(item.owner) /\ item.amount > 0
    [] OTHER                  -> TRUE

Deposits(inputs) == {item \in inputs : Escrowed(item)}

\* assertUniqueAssetSeeds also refuses seeds that differ by case alone.
UniqueSeeds(inputs) ==
  \A p, q \in {item \in inputs : item.file \in StakeFiles \cup LiquidFiles} :
    p # q => ~(p.file = q.file /\ p.id = q.id /\ LowerCase(p.owner) = LowerCase(q.owner))

\* classifyOwner, upsertRecipient and pushAsset throw nowhere.
Buildable(inputs) ==
  /\ Corrupt = {}
  /\ \A item \in Deposits(inputs) : Resolvable(item.owner) \/ item.owner \in AtRisk
  /\ \A p, q \in Deposits(inputs) : p # q => AssetKey(p) # AssetKey(q)
  /\ UniqueSeeds(inputs)

-----------------------------------------------------------------------------
(***************************************************************************)
(* Vault or liquid?                                                        *)
(***************************************************************************)

CeilDiv(a, b) == (a + b - 1) \div b

VaultEscrowFallsBackToLiquid(amount, remaining) ==
  remaining < MinVaultLock \/ amount < MinVaultSize

\* Mutant: the lock of a snapshot vault is rounded down.
LockSecondsFloor(item, nowMs) ==
  IF item.file = "vaults" THEN (item.end - nowMs) \div MS ELSE item.end - nowMs \div MS

\* A still locked operator exit is extended to the minimum, not paid out early.
LockSeconds(item, nowMs) ==
  IF item.file = "vaults" THEN CeilDiv(item.end - nowMs, MS)
  ELSE LET base == item.end - nowMs \div MS
       IN IF item.file = "withdrawal" /\ item.exit /\ item.amount >= MinVaultSize
             /\ base > 0 /\ base < MinVaultLock
          THEN MinVaultLock ELSE base

Expired(item, nowMs) == item.file = "vaults" /\ item.end <= nowMs

IsVault(item, nowMs) ==
  /\ item.file \in {"vaults"} \cup StakeFiles
  /\ ~Expired(item, nowMs)
  /\ ~VaultEscrowFallsBackToLiquid(item.amount, LockSeconds(item, nowMs))

PlannedAsset(item, nowMs) ==
  [key       |-> AssetKey(item),
   type      |-> IF item.file = "ants" THEN "ant"
                 ELSE IF IsVault(item, nowMs) THEN "vault" ELSE "token",
   recipient |-> NormalizeSourceAddress(item.owner),
   amount    |-> item.amount,
   endTs     |-> IF IsVault(item, nowMs) THEN nowMs \div MS + LockSeconds(item, nowMs)
                 ELSE None,
   status    |-> IF Resolvable(item.owner) THEN "available" ELSE "manual_review"]

BuildLedgerPlan(inputs, nowMs) == {PlannedAsset(item, nowMs) : item \in Deposits(inputs)}

\* Recipients: every frozen modulus, every AT-RISK owner, every owner deposited.
PlannedRecipients(inputs) ==
  {[source |-> NormalizeSourceAddress(owner),
    status |-> IF Resolvable(owner) THEN "open" ELSE "manual_review"] :
     owner \in Moduli \cup AtRisk \cup {item.owner : item \in Deposits(inputs)}}

-----------------------------------------------------------------------------
(***************************************************************************)
(* Counters, phase totals, and the reconciliation.                         *)
(***************************************************************************)

Available(inputs) == {item \in Deposits(inputs) : Resolvable(item.owner)}
In(inputs, files) == {item \in Available(inputs) : item.file \in files}
Amounts(items)    == SumFunctionOnSet([item \in items |-> item.amount], items)

PhaseTotals(inputs) ==
  [token |-> Amounts(In(inputs, {"balances"})),
   vault |-> Amounts(In(inputs, {"vaults"})),
   stake |-> Amounts(In(inputs, StakeFiles \cup LiquidFiles))]

\* An expired vault counts as a token, an active one as a vault however routed.
Counters(inputs, nowMs) ==
  LET expired == {item \in Available(inputs) : Expired(item, nowMs)}
  IN [ant   |-> Cardinality(In(inputs, {"ants"})),
      token |-> Cardinality(In(inputs, {"balances"}) \cup expired),
      vault |-> Cardinality(In(inputs, {"vaults"}) \ expired),
      stake |-> Cardinality(In(inputs, StakeFiles \cup LiquidFiles))]

\* What batch-escrow would have deposited: AT-RISK owners are left out.
AuthoritativeDeposits(inputs, nowMs) ==
  {[key       |-> IF item.file = "ants" THEN <<"ants", item.id>>
                  ELSE IF item.file = "balances"
                  THEN <<item.file, NormalizeSourceAddress(item.owner)>>
                  ELSE <<item.file, NormalizeSourceAddress(item.owner), item.id>>,
    type      |-> IF item.file = "ants" THEN "ant"
                  ELSE IF /\ item.amount >= MinVaultSize
                          /\ \/ item.file = "vaults" /\ item.end > nowMs + (MinVaultLock - 1) * MS
                             \/ item.file \in StakeFiles /\ item.end >= nowMs \div MS + MinVaultLock
                             \/ item.file = "withdrawal" /\ item.exit /\ item.end > nowMs \div MS
                       THEN "vault" ELSE "token",
    amount    |-> item.amount,
    recipient |-> NormalizeSourceAddress(item.owner)] :
      item \in {item \in inputs : Escrowed(item) /\ Resolvable(item.owner)}}

BuiltSet(assets) ==
  {[key |-> a.key, type |-> a.type, amount |-> a.amount, recipient |-> a.recipient] :
     a \in {a \in assets : a.status = "available"}}

\* reconcile(): no missing, extra or different asset.
Reconcile(assets, inputs, nowMs) == BuiltSet(assets) = AuthoritativeDeposits(inputs, nowMs)

-----------------------------------------------------------------------------
(***************************************************************************)
(* Settlement of a vault at claim time, now in seconds.                    *)
(***************************************************************************)

\* Mutant: a lock that is too long is capped instead of refused.
VaultSettlementCapped(endTs, amount, now) ==
  IF \/ endTs - now <= 0 \/ amount < MinVaultSize \/ endTs - now < MinVaultLock
  THEN [kind |-> "liquid", lock |-> 0]
  ELSE [kind |-> "relock", lock |-> IF endTs - now > MaxVaultLock THEN MaxVaultLock ELSE endTs - now]

ComputeVaultSettlement(endTs, amount, now) ==
  LET remaining == endTs - now
  IN IF \/ remaining <= 0 \/ amount < MinVaultSize \/ remaining < MinVaultLock
     THEN [kind |-> "liquid", lock |-> 0]
     ELSE IF remaining > MaxVaultLock
     THEN [kind |-> "too_long", lock |-> 0]
     ELSE [kind |-> "relock", lock |-> remaining]

\* The manual queue decides again when the operator reads it: the lock that is
\* left, or none.  An end that is NULL has passed.
ManualLock(endTs, now) == IF endTs # None /\ endTs > now THEN endTs - now ELSE 0
=============================================================================
