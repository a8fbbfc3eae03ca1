------------------------------- MODULE Ledger -------------------------------
(***************************************************************************)
(* The assets table from its first build to the last delivery: build:ledger*)
(* (ledger/build.ts), run again while claims are open, and the settlement  *)
(* of what was claimed, by the worker and by hand.  Claims, approval and   *)
(* confirmation are those of ClaimsApi and Worker, here one step each;     *)
(* what matters is the row they leave, the clock and the lock they create. *)
(***************************************************************************)
EXTENDS LedgerPlan

CONSTANTS
  Snapshots,           \* frozen inputs, one of which is loaded
  BuildTimes,          \* values of LEDGER_NOW_MS
  MaxBuilds,           \* how often build:ledger is run
  MaxTime,             \* the wall clock stops here
  Validity,            \* how long a signed transaction can land
  ArioCoreSettings     \* whether ARIO_CORE_PROGRAM is set: either, if both are in it

ASSUME LedgerAssumption ==
  /\ BuildTimes \subseteq Nat /\ MaxBuilds \in Nat
  /\ MaxTime \in Nat /\ Validity \in Nat /\ ArioCoreSettings \subseteq BOOLEAN

\* What the frozen files hold: amounts, times, and a flag on the operators' exits;
\* an ANT has no amount.
ASSUME SnapshotAssumption ==
  \A snapshot \in Snapshots :
    /\ IsFiniteSet(snapshot)
    /\ \A item \in snapshot :
         /\ item.file \in {"ants", "balances", "vaults"} \cup StakeFiles \cup LiquidFiles
         /\ item.amount \in Nat /\ item.end \in Nat /\ item.exit \in BOOLEAN
         /\ item.file = "ants" => item.amount = 0

VARIABLES
  inputs,    \* the frozen inputs
  rows,      \* the assets table, a function of the keys it holds
  build,     \* the build in progress
  clock,     \* unix seconds
  pay,       \* the delivery in progress of each claimed asset
  delivered  \* what left the treasury: a set of transfers

ledgerVars == <<inputs, rows, build, clock, pay, delivered>>

BuildableStatus == {"available", "manual_review"}
Claimed         == {"claiming", "pending_review"}

NoBuild == [pc |-> "idle", now |-> 0, count |-> 0]
NoPay   == [pc |-> "none", lock |-> 0, at |-> 0]

LedgerInit ==
  /\ inputs \in Snapshots
  /\ rows = [k \in {} |-> None]
  /\ build = NoBuild
  /\ clock = 0
  /\ pay = [k \in {AssetKey(item) : item \in inputs} |-> NoPay]
  /\ delivered = {}

-----------------------------------------------------------------------------
(***************************************************************************)
(* build:ledger.  The plan is made first; a plan that throws writes        *)
(* nothing.  The check and the writes are one READ COMMITTED transaction:  *)
(* a claim may commit between them.                                        *)
(***************************************************************************)

PlanOf(b)   == BuildLedgerPlan(inputs, b.now)
EndBuild    == [build EXCEPT !.pc = "idle", !.now = 0]
PlanKeys(b) == {a.key : a \in PlanOf(b)}

StartBuild(nowMs, force) ==
  /\ build.pc = "idle" /\ build.count < MaxBuilds
  /\ Buildable(inputs)
  /\ build' = [pc |-> IF force THEN "write" ELSE "check", now |-> nowMs,
               count |-> build.count + 1]
  /\ UNCHANGED <<inputs, rows, clock, pay, delivered>>

\* Guard 1: an asset of the plan has left the buildable set, refuse.
CheckLive ==
  /\ build.pc = "check"
  /\ build' = IF \E k \in PlanKeys(build) \cap DOMAIN rows :
                    rows[k].status \notin BuildableStatus
              THEN EndBuild ELSE [build EXCEPT !.pc = "write"]
  /\ UNCHANGED <<inputs, rows, clock, pay, delivered>>

Row(a, nonce) ==
  [type |-> a.type, recipient |-> a.recipient, amount |-> a.amount,
   endTs |-> a.endTs, status |-> a.status, nonce |-> nonce]

\* Mutant: only a paid asset is left alone.
UpsertScopeClaimed(k) == rows[k].status # "claimed"

\* Guard 2, the WHERE of the upsert.
UpsertScope(k) == rows[k].status \in BuildableStatus

\* The upsert of the plan's assets: rows in scope are refreshed and keep their
\* nonce, others are left intact, rows that are not in the plan stay.
Upsert(plan, nonce) ==
  [k \in DOMAIN rows \cup {a.key : a \in plan} |->
     IF k \in DOMAIN rows /\ (~UpsertScope(k) \/ k \notin {a.key : a \in plan})
     THEN rows[k]
     ELSE Row(CHOOSE a \in plan : a.key = k,
              IF k \in DOMAIN rows THEN rows[k].nonce ELSE nonce)]

WriteLedger ==
  /\ build.pc = "write"
  /\ rows' = Upsert(PlanOf(build), build.count)
  /\ build' = EndBuild
  /\ UNCHANGED <<inputs, clock, pay, delivered>>

\* The process dies or a statement fails: ROLLBACK.
BuildCrash ==
  /\ build.pc # "idle"
  /\ build' = EndBuild
  /\ UNCHANGED <<inputs, rows, clock, pay, delivered>>

-----------------------------------------------------------------------------
(***************************************************************************)
(* Claims, and the settlement of tokens and vaults.                        *)
(***************************************************************************)

SetStatus(k, s) == rows' = [rows EXCEPT ![k].status = s]
SetPay(k, p)    == pay' = [pay EXCEPT ![k] = p]

\* completeClaim: the asset is taken, straight away or under the brake.
ClaimAsset(k) ==
  /\ rows[k].status = "available"
  /\ \E s \in Claimed : SetStatus(k, s)
  /\ SetPay(k, NoPay)
  /\ UNCHANGED <<inputs, build, clock, delivered>>

\* The operator voids an asset on offer (by SQL).
CancelAsset(k) ==
  /\ rows[k].status = "available"
  /\ SetStatus(k, "cancelled")
  /\ UNCHANGED <<inputs, build, clock, pay, delivered>>

Settlement(k) ==
  IF rows[k].type = "vault" THEN ComputeVaultSettlement(rows[k].endTs, rows[k].amount, clock)
  ELSE [kind |-> "liquid", lock |-> 0]

\* #dispatchFresh: decide, build, sign and send.
SignDelivery(k) ==
  /\ rows[k].status \in Claimed /\ rows[k].type # "ant" /\ pay[k].pc = "none"
  /\ \/ Settlement(k).kind = "liquid"
     \/ Settlement(k).kind = "relock" /\ TRUE \in ArioCoreSettings
  /\ SetPay(k, [pc |-> "signed", lock |-> Settlement(k).lock, at |-> clock])
  /\ UNCHANGED <<inputs, rows, build, clock, delivered>>

\* A lock that no re-lock can create, or no program to create it.
RouteToManualVaultDelivery(k) ==
  /\ rows[k].status \in Claimed /\ rows[k].type # "ant" /\ pay[k].pc = "none"
  /\ \/ Settlement(k).kind = "too_long"
     \/ Settlement(k).kind = "relock" /\ FALSE \in ArioCoreSettings
  /\ SetStatus(k, "pending_review")
  /\ SetPay(k, [NoPay EXCEPT !.pc = "manual"])
  /\ UNCHANGED <<inputs, build, clock, delivered>>

Transfer(k, end) ==
  [n |-> Cardinality(delivered) + 1, key |-> k, amount |-> rows[k].amount,
   end |-> end, at |-> clock]

\* The transaction executes while it can; the program locks from that moment.
ExecuteDelivery(k) ==
  /\ pay[k].pc = "signed" /\ clock <= pay[k].at + Validity
  /\ delivered' = delivered \cup
       {Transfer(k, IF pay[k].lock = 0 THEN 0 ELSE clock + pay[k].lock)}
  /\ SetPay(k, [pay[k] EXCEPT !.pc = "paid"])
  /\ UNCHANGED <<inputs, rows, build, clock>>

\* It was lost: dropped, and the settlement is decided anew.
ExpireDelivery(k) ==
  /\ pay[k].pc = "signed" /\ clock > pay[k].at + Validity
  /\ SetPay(k, NoPay)
  /\ UNCHANGED <<inputs, rows, build, clock, delivered>>

\* finalizeConfirmed.
FinalizeDelivery(k) ==
  /\ pay[k].pc = "paid"
  /\ SetStatus(k, "claimed")
  /\ SetPay(k, [pay[k] EXCEPT !.pc = "done"])
  /\ UNCHANGED <<inputs, build, clock, delivered>>

\* The operator (external) reads the manual queue and delivers as it says: locked to
\* the original end, or liquid once that has passed.  No code notes it: the row is
\* not touched and the queue goes on listing the claim.  That a claim is delivered
\* from it only once is the operator's doing, and assumed here.
ManualDelivery(k) ==
  /\ pay[k].pc = "manual"
  /\ delivered' = delivered \cup
       {Transfer(k, IF ManualLock(rows[k].endTs, clock) = 0 THEN 0 ELSE rows[k].endTs)}
  /\ SetPay(k, [NoPay EXCEPT !.pc = "done"])
  /\ UNCHANGED <<inputs, rows, build, clock>>

\* Only vaults look at the clock.
Tick ==
  /\ \E k \in DOMAIN rows : rows[k].type = "vault"
  /\ clock < MaxTime /\ clock' = clock + 1
  /\ UNCHANGED <<inputs, rows, build, pay, delivered>>

Settle(k) ==
  \/ SignDelivery(k) \/ RouteToManualVaultDelivery(k) \/ ExecuteDelivery(k)
  \/ ExpireDelivery(k) \/ FinalizeDelivery(k) \/ ManualDelivery(k)

LedgerNext ==
  \/ \E nowMs \in BuildTimes, force \in BOOLEAN : StartBuild(nowMs, force)
  \/ CheckLive \/ WriteLedger \/ BuildCrash
  \/ \E k \in DOMAIN rows : ClaimAsset(k) \/ CancelAsset(k) \/ Settle(k)
  \/ Tick

LedgerSpec == LedgerInit /\ [][LedgerNext]_ledgerVars

-----------------------------------------------------------------------------
(***************************************************************************)
(* Properties.                                                             *)
(***************************************************************************)

\* reconcile:ledger passes on whatever build:ledger plans, at any LEDGER_NOW_MS:
\* the planner's routing, with its lock arithmetic per file, agrees with the
\* deposits derived independently of it; and what each phase is worth does not
\* depend on the time (the pinned per-phase totals).
Reconciles(nowMs) ==
  LET plan == BuildLedgerPlan(inputs, nowMs)
      n    == Counters(inputs, nowMs)
      m    == PhaseTotals(inputs)
  IN /\ Reconcile(plan, inputs, nowMs)
     /\ m.token + m.vault + m.stake = Amounts(BuiltSet(plan))
     /\ n.ant + n.token + n.vault + n.stake = Cardinality(BuiltSet(plan))

\* Every planned vault is one the program accepts, and nobody's unlock date
\* moves by a second or more when the lock is computed from LEDGER_NOW_MS and
\* added to it again; an exit that is extended only moves later.
VaultsKeepTheirEnd(nowMs) ==
  \A item \in Deposits(inputs) :
    LET a == PlannedAsset(item, nowMs)
    IN a.type = "vault" =>
         /\ a.amount >= MinVaultSize
         /\ a.endTs - nowMs \div MS >= MinVaultLock
         /\ IF item.file = "vaults"
            THEN a.endTs * MS > item.end - MS /\ a.endTs * MS < item.end + MS
            ELSE a.endTs >= item.end

Starts == build.pc = "idle" /\ build'.pc # "idle"

\* Whatever build:ledger plans passes reconcile:ledger, which derives the totals
\* on its own, and keeps the unlock dates of the inputs.
PlansAreFaithful ==
  [][Starts => Reconciles(build'.now) /\ VaultsKeepTheirEnd(build'.now)]_ledgerVars

\* Rebuilds never offer again what was claimed: across any builds, forced or
\* not, racing with claims, an asset leaves the treasury at most once, if what the
\* operator delivers by hand is delivered once.
AssetDeliveredOnce ==
  \A p, q \in delivered : p.key = q.key => p = q

\* A delivered vault is locked at least to the row's unlock date and at most the
\* transaction's validity longer; it is liquid only if the lock left when it was
\* decided was too short, or the amount too small, for a vault.
LockPreserved ==
  \A t \in delivered :
    LET row == rows[t.key]
    IN /\ t.amount = row.amount
       /\ row.type = "vault" =>
            IF t.end = 0
            THEN row.endTs - t.at < MinVaultLock \/ row.amount < MinVaultSize
            ELSE t.end >= row.endTs /\ t.end <= row.endTs + Validity
=============================================================================
