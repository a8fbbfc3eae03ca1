---------------------------- MODULE LedgerProofs ----------------------------
(***************************************************************************)
(* Theorems about the ledger: for every set of frozen inputs, every limit  *)
(* on vaults, and any number of builds, claims and deliveries; about its   *)
(* reserves report; and about the Merkle tree and the artifact published.  *)
(***************************************************************************)
EXTENDS PublishedLedger, Collections

AssetKeys == {AssetKey(item) : item \in inputs}

LedgerRow ==
  [type : {"ant", "token", "vault"},
   recipient : {NormalizeSourceAddress(item.owner) : item \in inputs},
   amount : Nat, endTs : Int \cup {None},
   status : {"available", "manual_review", "claiming", "pending_review", "claimed", "cancelled"},
   nonce : Nat]

Pay == [pc : {"none", "signed", "manual", "paid", "done"}, lock : Nat, at : Nat]

RowsTypeOK ==
  /\ rows = [k \in DOMAIN rows |-> rows[k]] /\ DOMAIN rows \subseteq AssetKeys
  /\ \A k \in DOMAIN rows : rows[k] \in LedgerRow

LedgerTypeOK ==
  /\ inputs \in Snapshots
  /\ RowsTypeOK
  /\ build \in [pc : {"idle", "check", "write"}, now : Nat, count : Nat]
  /\ clock \in Nat
  /\ pay \in [AssetKeys -> Pay]

\* A row says when a vault ends.
VaultsEnd == \A k \in DOMAIN rows : rows[k].type = "vault" => rows[k].endTs \in Int

\* What is being delivered is out of reach of a rebuild and of another claim.
InDeliveryIsTaken ==
  \A k \in AssetKeys :
    pay[k].pc # "none" =>
      k \in DOMAIN rows /\ rows[k].status \in Claimed \cup {"claimed"}

\* What was delivered has been delivered: its delivery is over.
DeliveredIsOver ==
  \A t \in delivered : t.key \in AssetKeys /\ pay[t.key].pc \in {"paid", "done"}

\* The lock that was decided is the one the row had left at that moment.
LockAsDecided ==
  \A k \in AssetKeys :
    /\ pay[k].at <= clock
    /\ pay[k].pc = "signed" /\ rows[k].type = "vault" =>
         IF pay[k].lock = 0
         THEN rows[k].endTs - pay[k].at < MinVaultLock \/ rows[k].amount < MinVaultSize
         ELSE pay[k].lock = rows[k].endTs - pay[k].at

LedgerInv ==
  /\ VaultsEnd /\ InDeliveryIsTaken /\ DeliveredIsOver /\ LockAsDecided
  /\ AssetDeliveredOnce /\ LockPreserved

-----------------------------------------------------------------------------
(***************************************************************************)
(* The plan.                                                               *)
(***************************************************************************)

\* Division by a positive number, as the code's floors and ceilings need it.
LEMMA Division ==
  ASSUME NEW a \in Int, NEW b \in Nat \ {0}
  PROVE  a \div b \in Int /\ b * (a \div b) <= a /\ a < b * (a \div b) + b
OBVIOUS

LEMMA CeilDivBounds ==
  ASSUME NEW a \in Int, NEW b \in Nat \ {0}
  PROVE  CeilDiv(a, b) \in Int /\ b * CeilDiv(a, b) >= a /\ b * CeilDiv(a, b) < a + b
<1>1. PICK n \in Int : n = a + b - 1
  OBVIOUS
<1>2. n \div b \in Int /\ b * (n \div b) <= n /\ n < b * (n \div b) + b
  BY Division
<1>3. PICK q \in Int : q = n \div b
  BY <1>2
<1>4. PICK m \in Int : m = b * q
  OBVIOUS
<1>5. m <= n /\ n < m + b
  BY <1>2, <1>3, <1>4
<1>6. m >= a /\ m < a + b
  BY <1>1, <1>5
<1>7. CeilDiv(a, b) = q
  BY <1>1, <1>3 DEF CeilDiv
<1> QED
  BY <1>4, <1>6, <1>7

LEMMA LockIsInteger ==
  ASSUME NEW item, item.end \in Nat, NEW nowMs \in Nat
  PROVE  LockSeconds(item, nowMs) \in Int /\ nowMs \div MS \in Int
<1>1. nowMs \div MS \in Int
  BY PlanAssumption, Division
<1>2. CeilDiv(item.end - nowMs, MS) \in Int
  <2>1. PICK left \in Int : left = item.end - nowMs
    OBVIOUS
  <2>2. CeilDiv(left, MS) \in Int
    BY PlanAssumption, CeilDivBounds
  <2> QED
    BY <2>1, <2>2
<1>3. PICK base \in Int : base = item.end - nowMs \div MS
  BY <1>1
<1>4. LockSeconds(item, nowMs) \in {CeilDiv(item.end - nowMs, MS), base, MinVaultLock}
  BY <1>3 DEF LockSeconds
<1> QED
  BY <1>1, <1>2, <1>4, PlanAssumption

\* A planned asset is a row of the ledger.
LEMMA PlannedIsRow ==
  ASSUME inputs \in Snapshots, NEW item \in inputs, NEW nowMs \in Nat, NEW nonce \in Nat
  PROVE  /\ Row(PlannedAsset(item, nowMs), nonce) \in LedgerRow
         /\ Row(PlannedAsset(item, nowMs), nonce).type = "vault"
              => Row(PlannedAsset(item, nowMs), nonce).endTs \in Int
<1>1. item.amount \in Nat /\ item.end \in Nat
  BY SnapshotAssumption
<1>2. PICK lock \in Int : lock = LockSeconds(item, nowMs)
  BY <1>1, LockIsInteger
<1>3. PICK now \in Int : now = nowMs \div MS
  BY <1>1, LockIsInteger
<1>4. PICK vault \in BOOLEAN : vault = IsVault(item, nowMs)
  BY DEF IsVault
<1>5. PICK end : end = IF vault THEN now + lock ELSE None
  OBVIOUS
<1>6. PICK type : type = IF item.file = "ants" THEN "ant" ELSE IF vault THEN "vault" ELSE "token"
  OBVIOUS
<1>7. PICK s : s = IF Resolvable(item.owner) THEN "available" ELSE "manual_review"
  OBVIOUS
<1>8. Row(PlannedAsset(item, nowMs), nonce)
        = [type |-> type, recipient |-> NormalizeSourceAddress(item.owner),
           amount |-> item.amount, endTs |-> end, status |-> s, nonce |-> nonce]
  BY <1>2, <1>3, <1>4, <1>5, <1>6, <1>7 DEF Row, PlannedAsset
<1>9. /\ type \in {"ant", "token", "vault"} /\ end \in Int \cup {None}
      /\ s \in {"available", "manual_review"} /\ (type = "vault" => end \in Int)
  BY <1>5, <1>6, <1>7
<1> QED
  BY <1>1, <1>8, <1>9 DEF LedgerRow

LEMMA Scaling ==
  ASSUME NEW m \in Nat \ {0}, NEW a \in Int, NEW b \in Int
  PROVE  (a <= b => m * a <= m * b) /\ (m * a < m * b => a < b)
OBVIOUS

\* A lock, rounded up to a second, is at least the minimum exactly if more than
\* the minimum less one second is left in milliseconds.
LEMMA CeilingMeetsMinimum ==
  ASSUME NEW left \in Int, NEW b \in Nat \ {0}, NEW min \in Nat \ {0}
  PROVE  CeilDiv(left, b) >= min <=> left > (min - 1) * b
<1>1. PICK c \in Int : c = CeilDiv(left, b)
  BY CeilDivBounds
<1>2. PICK p \in Int : p = b * c
  OBVIOUS
<1>3. p >= left /\ p < left + b
  BY <1>1, <1>2, CeilDivBounds
<1>4. PICK m \in Int : m = min - 1
  OBVIOUS
<1>5. PICK q \in Int : q = b * m
  OBVIOUS
<1>6. (min - 1) * b = q /\ b * min = q + b
  BY <1>4, <1>5
<1>7. ASSUME c >= min PROVE left > q
  <2>1. b * min <= b * c
    BY <1>7, Scaling
  <2> QED
    BY <1>2, <1>3, <1>5, <1>6, <2>1
<1>8. ASSUME left > q PROVE c >= min
  <2>1. b * m < b * c
    BY <1>2, <1>3, <1>5, <1>8
  <2>2. m < c
    BY <2>1, Scaling
  <2> QED
    BY <1>4, <2>2
<1> QED
  BY <1>1, <1>6, <1>7, <1>8

\* The condition under which the independent derivation makes a vault.
DerivedVault(item, nowMs) ==
  /\ item.amount >= MinVaultSize
  /\ \/ item.file = "vaults" /\ item.end > nowMs + (MinVaultLock - 1) * MS
     \/ item.file \in StakeFiles /\ item.end >= nowMs \div MS + MinVaultLock
     \/ item.file = "withdrawal" /\ item.exit /\ item.end > nowMs \div MS

\* The planner and the derivation agree on what becomes a vault.
LEMMA SameRouting ==
  ASSUME NEW item, item.amount \in Nat, item.end \in Nat, NEW nowMs \in Nat
  PROVE  IsVault(item, nowMs) <=> DerivedVault(item, nowMs)
<1> USE PlanAssumption
<1>1. PICK end \in Nat : end = item.end
  OBVIOUS
<1>2. PICK amount \in Nat : amount = item.amount
  OBVIOUS
<1>3. CASE item.file = "vaults"
  <2>1. PICK left \in Int : left = end - nowMs
    OBVIOUS
  <2>2. PICK c \in Int : c = CeilDiv(left, MS)
    BY CeilDivBounds
  <2>3. PICK p \in Int : p = (MinVaultLock - 1) * MS
    OBVIOUS
  <2>4. c >= MinVaultLock <=> left > p
    BY <2>2, <2>3, CeilingMeetsMinimum
  <2>5. p >= 0
    BY <2>3
  <2>6. IsVault(item, nowMs) <=> end > nowMs /\ c >= MinVaultLock /\ amount >= MinVaultSize
    BY <1>1, <1>2, <1>3, <2>1, <2>2
       DEF IsVault, Expired, VaultEscrowFallsBackToLiquid, LockSeconds
  <2>7. DerivedVault(item, nowMs) <=> amount >= MinVaultSize /\ end > nowMs + p
    BY <1>1, <1>2, <1>3, <2>3 DEF DerivedVault, StakeFiles
  <2> QED
    BY <2>1, <2>4, <2>5, <2>6, <2>7
<1>4. CASE item.file \in StakeFiles
  <2>1. PICK now \in Int : now = nowMs \div MS
    BY LockIsInteger
  <2>2. IsVault(item, nowMs) <=> LockSeconds(item, nowMs) >= MinVaultLock /\ amount >= MinVaultSize
    BY <1>2, <1>4, LockIsInteger
       DEF IsVault, Expired, VaultEscrowFallsBackToLiquid, StakeFiles
  <2>3. LockSeconds(item, nowMs) =
          IF /\ item.file = "withdrawal" /\ item.exit /\ amount >= MinVaultSize
             /\ end - now > 0 /\ end - now < MinVaultLock
          THEN MinVaultLock ELSE end - now
    BY <1>1, <1>2, <1>4, <2>1 DEF LockSeconds, StakeFiles
  <2>4. DerivedVault(item, nowMs) <=>
          /\ amount >= MinVaultSize
          /\ end >= now + MinVaultLock \/ (item.file = "withdrawal" /\ item.exit /\ end > now)
    BY <1>1, <1>2, <1>4, <2>1 DEF DerivedVault, StakeFiles
  <2> QED
    BY <2>2, <2>3, <2>4
<1>5. CASE item.file \notin {"vaults"} \cup StakeFiles
  BY <1>5 DEF IsVault, DerivedVault, StakeFiles
<1> QED
  BY <1>3, <1>4, <1>5

\* What reconcile:ledger sees of the asset planned for an item.
Built(item, nowMs) ==
  [key |-> AssetKey(item),
   type |-> IF item.file = "ants" THEN "ant"
            ELSE IF IsVault(item, nowMs) THEN "vault" ELSE "token",
   amount |-> item.amount, recipient |-> NormalizeSourceAddress(item.owner)]

LEMMA BuiltFromAvailable ==
  ASSUME NEW snapshot \in Snapshots, NEW nowMs \in Nat
  PROVE  BuiltSet(BuildLedgerPlan(snapshot, nowMs))
           = {Built(item, nowMs) : item \in Available(snapshot)}
<1> DEFINE Entry(a) == [key |-> a.key, type |-> a.type, amount |-> a.amount,
                        recipient |-> a.recipient]
           plan == BuildLedgerPlan(snapshot, nowMs)
<1>1. ASSUME NEW item \in snapshot
      PROVE  /\ PlannedAsset(item, nowMs).status = "available" <=> Resolvable(item.owner)
             /\ Entry(PlannedAsset(item, nowMs)) = Built(item, nowMs)
  BY DEF PlannedAsset, Built
<1>2. ASSUME NEW a \in plan, a.status = "available"
      PROVE  \E item \in Available(snapshot) : Entry(a) = Built(item, nowMs)
  <2>1. PICK item \in Deposits(snapshot) : a = PlannedAsset(item, nowMs)
    BY DEF BuildLedgerPlan
  <2>2. item \in snapshot /\ item \in Available(snapshot)
    BY <1>1, <1>2, <2>1 DEF Deposits, Available
  <2> QED
    BY <1>1, <2>1, <2>2
<1>3. ASSUME NEW item \in Available(snapshot)
      PROVE  \E a \in plan : a.status = "available" /\ Entry(a) = Built(item, nowMs)
  <2>1. item \in snapshot /\ Resolvable(item.owner) /\ PlannedAsset(item, nowMs) \in plan
    BY DEF BuildLedgerPlan, Deposits, Available
  <2> QED
    BY <1>1, <2>1
<1>4. BuiltSet(plan) = {Entry(a) : a \in {a \in plan : a.status = "available"}}
  BY DEF BuiltSet
<1> HIDE DEF Entry
<1> QED
  BY <1>2, <1>3, <1>4

\* Whatever is planned, at any LEDGER_NOW_MS and for any limits on vaults, is what
\* reconcile:ledger derives on its own: no asset missing, extra or different.
THEOREM PlansReconcile ==
  ASSUME NEW snapshot \in Snapshots, NEW nowMs \in Nat
  PROVE  Reconcile(BuildLedgerPlan(snapshot, nowMs), snapshot, nowMs)
<1> DEFINE Derived(item) ==
             [key |-> AssetKey(item),
              type |-> IF item.file = "ants" THEN "ant"
                       ELSE IF DerivedVault(item, nowMs) THEN "vault" ELSE "token",
              amount |-> item.amount, recipient |-> NormalizeSourceAddress(item.owner)]
<1>1. AuthoritativeDeposits(snapshot, nowMs) = {Derived(item) : item \in Available(snapshot)}
  <2>1. Available(snapshot) = {item \in snapshot : Escrowed(item) /\ Resolvable(item.owner)}
    BY DEF Available, Deposits
  <2> QED
    BY <2>1 DEF AuthoritativeDeposits, DerivedVault, AssetKey
<1>2. ASSUME NEW item \in Available(snapshot) PROVE Derived(item) = Built(item, nowMs)
  <2>1. IsVault(item, nowMs) <=> DerivedVault(item, nowMs)
    BY SnapshotAssumption, SameRouting DEF Available, Deposits
  <2> QED
    BY <2>1 DEF Built
<1> HIDE DEF Derived
<1> QED
  BY <1>1, <1>2, BuiltFromAvailable DEF Reconcile

\* The amounts of two disjoint sets add up.
LEMMA AmountsUnion ==
  ASSUME NEW X, NEW Y, IsFiniteSet(X), IsFiniteSet(Y), X \cap Y = {},
         \A x \in X \cup Y : x.amount \in Nat
  PROVE  Amounts(X \cup Y) = Amounts(X) + Amounts(Y)
<1> DEFINE f == [x \in X \cup Y |-> x.amount]
           g == [x \in X |-> x.amount]
           h == [x \in Y |-> x.amount]
<1>1. /\ \A x \in X \cup Y : f[x] \in Int
      /\ \A x \in X : f[x] = g[x]
      /\ \A x \in Y : f[x] = h[x]
  OBVIOUS
<1>2. Amounts(X \cup Y) = SumFunctionOnSet(f, X \cup Y)
  BY DEF Amounts
<1>3. Amounts(X) = SumFunctionOnSet(g, X) /\ Amounts(Y) = SumFunctionOnSet(h, Y)
  BY DEF Amounts
<1> HIDE DEF f, g, h
<1>4. SumFunctionOnSet(f, X) = SumFunctionOnSet(g, X)
  BY <1>1, SumSame
<1>5. SumFunctionOnSet(f, Y) = SumFunctionOnSet(h, Y)
  BY <1>1, SumSame
<1>6. SumFunctionOnSet(f, X \cup Y) = SumFunctionOnSet(f, X) + SumFunctionOnSet(f, Y)
  BY <1>1, SumUnion
<1> QED
  BY <1>2, <1>3, <1>4, <1>5, <1>6

LEMMA AmountsAre ==
  ASSUME NEW X, IsFiniteSet(X), \A x \in X : x.amount \in Nat
  PROVE  /\ Amounts(X) \in Nat
         /\ (\A x \in X : x.amount = 0) => Amounts(X) = 0
<1> DEFINE f == [x \in X |-> x.amount]
           none == [x \in {} |-> 0]
<1>1. \A x \in X : f[x] \in Nat /\ f[x] = x.amount
  OBVIOUS
<1>2. Amounts(X) = SumFunctionOnSet(f, X)
  BY DEF Amounts
<1> HIDE DEF f, none
<1>3. SumFunctionOnSet(f, X) \in Nat
  BY <1>1, SumNat
<1>4. ASSUME \A x \in X : x.amount = 0 PROVE SumFunctionOnSet(f, X) = 0
  <2>1. IsFiniteSet({}) /\ SumFunctionOnSet(none, {}) = 0
    BY FS_EmptySet, SumEmpty
  <2> DEFINE m == [x \in X |-> x]
  <2>2. \A x, y \in X : m[x] = m[y] => x = y
    OBVIOUS
  <2>3. \A x \in X : f[x] \in Int /\ f[x] <= 0
    BY <1>1, <1>4
  <2> HIDE DEF m
  <2>4. SumFunctionOnSet(f, X) <= SumFunctionOnSet(none, {})
    BY <2>1, <2>2, <2>3, SumInjects
  <2> QED
    BY <1>3, <2>1, <2>4
<1> QED
  BY <1>2, <1>3, <1>4

\* Sets with a one-to-one map that keeps amounts are worth the same.
LEMMA AmountsOfImage ==
  ASSUME NEW X, IsFiniteSet(X), \A x \in X : x.amount \in Nat,
         NEW Y, NEW m \in [X -> Y], \A x, z \in X : m[x] = m[z] => x = z,
         \A y \in Y : \E x \in X : y = m[x], \A x \in X : m[x].amount = x.amount
  PROVE  /\ IsFiniteSet(Y) /\ Cardinality(Y) = Cardinality(X)
         /\ Amounts(Y) = Amounts(X)
<1>1. m \in Bijection(X, Y)
  BY DEF Bijection, Injection, Surjection, IsInjective
<1>2. IsFiniteSet(Y) /\ Cardinality(Y) = Cardinality(X)
  BY <1>1, FS_Bijection DEF ExistsBijection
<1> DEFINE f == [x \in X |-> x.amount]
           g == [y \in Y |-> y.amount]
           w == [y \in Y |-> CHOOSE x \in X : y = m[x]]
<1>3. \A x \in X : f[x] \in Nat /\ m[x] \in Y /\ f[x] <= g[m[x]] /\ g[m[x]] <= f[x]
  OBVIOUS
<1>4. \A y \in Y : w[y] \in X /\ y = m[w[y]]
  OBVIOUS
<1>5. \A y, z \in Y : w[y] = w[z] => y = z
  BY <1>4
<1>6. \A y \in Y : g[y] \in Nat /\ g[y] <= f[w[y]]
  <2>1. ASSUME NEW y \in Y PROVE g[y] = f[w[y]] /\ f[w[y]] \in Nat
    <3>1. w[y] \in X /\ y = m[w[y]]
      BY <1>4
    <3> HIDE DEF w
    <3> QED
      BY <3>1
  <2> HIDE DEF f, g, w
  <2> QED
    BY <2>1
<1>7. Amounts(X) = SumFunctionOnSet(f, X) /\ Amounts(Y) = SumFunctionOnSet(g, Y)
  BY DEF Amounts
<1> HIDE DEF f, g, w
<1>8. SumFunctionOnSet(f, X) <= SumFunctionOnSet(g, Y)
  BY <1>2, <1>3, <1>6, SumInjects
<1>9. SumFunctionOnSet(g, Y) <= SumFunctionOnSet(f, X)
  BY <1>2, <1>3, <1>4, <1>5, <1>6, SumInjects
<1>10. SumFunctionOnSet(f, X) \in Nat /\ SumFunctionOnSet(g, Y) \in Nat
  BY <1>2, <1>3, <1>6, SumNat
<1> QED
  BY <1>2, <1>7, <1>8, <1>9, <1>10

LEMMA Disjoint ==
  ASSUME NEW S, NEW T, IsFiniteSet(S), IsFiniteSet(T), S \cap T = {}
  PROVE  Cardinality(S \cup T) = Cardinality(S) + Cardinality(T)
<1>1. /\ Cardinality(S \cup T) = Cardinality(S) + Cardinality(T) - Cardinality(S \cap T)
      /\ Cardinality(S) \in Nat /\ Cardinality(T) \in Nat
  BY FS_Union, FS_CardinalityType
<1>2. Cardinality(S \cap T) = 0
  BY FS_EmptySet
<1> QED
  BY <1>1, <1>2

\* The totals per phase and the counters add up to what is built, whatever the
\* time: no asset is counted twice, in two phases or as two types, and none is left
\* out.
LEMMA TotalsReconcile ==
  ASSUME NEW snapshot \in Snapshots, Buildable(snapshot), NEW nowMs \in Nat
  PROVE  LET plan == BuildLedgerPlan(snapshot, nowMs)
             n    == Counters(snapshot, nowMs)
             m    == PhaseTotals(snapshot)
         IN /\ m.token + m.vault + m.stake = Amounts(BuiltSet(plan))
            /\ n.ant + n.token + n.vault + n.stake = Cardinality(BuiltSet(plan))
<1> DEFINE X == Available(snapshot)
           Y == {Built(item, nowMs) : item \in X}
           f == [item \in X |-> Built(item, nowMs)]
           A == In(snapshot, {"ants"})
           B == In(snapshot, {"balances"})
           V == In(snapshot, {"vaults"})
           K == In(snapshot, StakeFiles \cup LiquidFiles)
           E == {item \in X : Expired(item, nowMs)}
<1>1. IsFiniteSet(X) /\ \A item \in X : item.amount \in Nat
  <2>1. X \subseteq snapshot /\ IsFiniteSet(snapshot)
    BY SnapshotAssumption DEF Available, Deposits
  <2> QED
    BY <2>1, FS_Subset, SnapshotAssumption
<1>2. \A p, q \in X : AssetKey(p) = AssetKey(q) => p = q
  BY DEF Buildable, Available
<1>3. Cardinality(Y) = Cardinality(X) /\ Amounts(Y) = Amounts(X)
  <2>1. f \in [X -> Y]
    OBVIOUS
  <2>2. \A p, q \in X : f[p] = f[q] => p = q
    <3> SUFFICES ASSUME NEW p \in X, NEW q \in X, f[p] = f[q] PROVE p = q
      OBVIOUS
    <3>1. Built(p, nowMs) = Built(q, nowMs)
      OBVIOUS
    <3>2. AssetKey(p) = AssetKey(q)
      BY <3>1 DEF Built
    <3> QED
      BY <1>2, <3>2
  <2>3. \A y \in Y : \E p \in X : y = f[p]
    OBVIOUS
  <2>4. \A p \in X : f[p].amount = p.amount
    BY DEF Built
  <2> HIDE DEF f, X, Y
  <2> QED
    BY <1>1, <2>1, <2>2, <2>3, <2>4, AmountsOfImage
<1>4. /\ X = ((A \cup B) \cup V) \cup K
      /\ A \cap B = {} /\ (A \cup B) \cap V = {} /\ ((A \cup B) \cup V) \cap K = {}
      /\ A \subseteq X /\ B \subseteq X /\ V \subseteq X /\ K \subseteq X
      /\ E \subseteq V
  <2>1. \A item \in X :
          item.file \in {"ants", "balances", "vaults"} \cup StakeFiles \cup LiquidFiles
    BY SnapshotAssumption DEF Available, Deposits
  <2> QED
    BY <2>1 DEF In, StakeFiles, LiquidFiles, Expired
<1>5. \A item \in A : item.amount = 0
  BY SnapshotAssumption DEF In, Available, Deposits
<1>6. PhaseTotals(snapshot) = [token |-> Amounts(B), vault |-> Amounts(V), stake |-> Amounts(K)]
  BY DEF PhaseTotals
<1>7. Counters(snapshot, nowMs)
        = [ant |-> Cardinality(A), token |-> Cardinality(B \cup E),
           vault |-> Cardinality(V \ E), stake |-> Cardinality(K)]
  BY DEF Counters
<1>8. BuiltSet(BuildLedgerPlan(snapshot, nowMs)) = Y
  BY BuiltFromAvailable
<1> HIDE DEF X, Y, f, A, B, V, K, E
<1>9. /\ IsFiniteSet(A) /\ IsFiniteSet(B) /\ IsFiniteSet(V) /\ IsFiniteSet(K)
      /\ IsFiniteSet(E) /\ IsFiniteSet(V \ E)
      /\ IsFiniteSet(A \cup B) /\ IsFiniteSet((A \cup B) \cup V)
  <2>1. (A \cup B) \subseteq X /\ ((A \cup B) \cup V) \subseteq X /\ (V \ E) \subseteq X
        /\ E \subseteq X
    BY <1>4
  <2> QED
    BY <1>1, <1>4, <2>1, FS_Subset
<1>10. Amounts(X) = Amounts(B) + Amounts(V) + Amounts(K)
  <2>1. Amounts(X) = Amounts((A \cup B) \cup V) + Amounts(K)
    BY <1>1, <1>4, <1>9, AmountsUnion
  <2>2. Amounts((A \cup B) \cup V) = Amounts(A \cup B) + Amounts(V)
    BY <1>1, <1>4, <1>9, AmountsUnion
  <2>3. Amounts(A \cup B) = Amounts(A) + Amounts(B)
    BY <1>1, <1>4, <1>9, AmountsUnion
  <2>4. Amounts(A) = 0
    BY <1>1, <1>4, <1>5, <1>9, AmountsAre
  <2>5. Amounts(B) \in Nat /\ Amounts(V) \in Nat /\ Amounts(K) \in Nat
    BY <1>1, <1>4, <1>9, AmountsAre
  <2> QED
    BY <2>1, <2>2, <2>3, <2>4, <2>5
<1>11. Cardinality(X) = Cardinality(A) + Cardinality(B \cup E) + Cardinality(V \ E) + Cardinality(K)
  <2>1. B \cap E = {} /\ V = (V \ E) \cup E /\ (V \ E) \cap E = {}
    BY <1>4
  <2>2. /\ Cardinality(X) = Cardinality((A \cup B) \cup V) + Cardinality(K)
        /\ Cardinality((A \cup B) \cup V) = Cardinality(A \cup B) + Cardinality(V)
        /\ Cardinality(A \cup B) = Cardinality(A) + Cardinality(B)
    BY <1>4, <1>9, Disjoint
  <2>3. /\ Cardinality(B \cup E) = Cardinality(B) + Cardinality(E)
        /\ Cardinality(V) = Cardinality(V \ E) + Cardinality(E)
    BY <1>9, <2>1, Disjoint
  <2>4. /\ Cardinality(A) \in Nat /\ Cardinality(B) \in Nat /\ Cardinality(V) \in Nat
        /\ Cardinality(K) \in Nat /\ Cardinality(E) \in Nat /\ Cardinality(V \ E) \in Nat
    BY <1>9, FS_CardinalityType
  <2> QED
    BY <2>2, <2>3, <2>4
<1> QED
  BY <1>3, <1>6, <1>7, <1>8, <1>10, <1>11

\* Rounding up to seconds from a time that is itself rounded down moves an end
\* by less than a second.
LEMMA EndIsKept ==
  ASSUME NEW end \in Nat, NEW nowMs \in Nat
  PROVE  /\ (nowMs \div MS + CeilDiv(end - nowMs, MS)) * MS > end - MS
         /\ (nowMs \div MS + CeilDiv(end - nowMs, MS)) * MS < end + MS
<1> USE PlanAssumption
<1>1. PICK left \in Int : left = end - nowMs
  OBVIOUS
<1>2. PICK c \in Int : c = CeilDiv(left, MS)
  BY CeilDivBounds
<1>3. PICK q \in Int : q = nowMs \div MS
  BY Division
<1>4. PICK p \in Int : p = MS * c
  OBVIOUS
<1>5. PICK r \in Int : r = MS * q
  OBVIOUS
<1>6. p >= left /\ p < left + MS
  BY <1>2, <1>4, CeilDivBounds
<1>7. r <= nowMs /\ nowMs < r + MS
  BY <1>3, <1>5, Division
<1>8. (q + c) * MS = p + r
  BY <1>4, <1>5
<1>9. p + r > end - MS /\ p + r < end + MS
  BY <1>1, <1>6, <1>7
<1> QED
  BY <1>1, <1>2, <1>3, <1>8, <1>9

\* Nobody's unlock date moves by a second or more, an extended exit only moves
\* later, and every planned vault is one the program accepts: at any
\* LEDGER_NOW_MS and for any limits on vaults.
THEOREM PlannedVaultsKeepTheirEnd ==
  ASSUME inputs \in Snapshots, NEW nowMs \in Nat
  PROVE  VaultsKeepTheirEnd(nowMs)
<1> USE PlanAssumption
<1> SUFFICES ASSUME NEW item \in inputs, PlannedAsset(item, nowMs).type = "vault"
             PROVE  /\ PlannedAsset(item, nowMs).amount >= MinVaultSize
                    /\ PlannedAsset(item, nowMs).endTs - nowMs \div MS >= MinVaultLock
                    /\ IF item.file = "vaults"
                       THEN /\ PlannedAsset(item, nowMs).endTs * MS > item.end - MS
                            /\ PlannedAsset(item, nowMs).endTs * MS < item.end + MS
                       ELSE PlannedAsset(item, nowMs).endTs >= item.end
  BY DEF VaultsKeepTheirEnd, Deposits
<1>1. item.amount \in Nat /\ item.end \in Nat
  BY SnapshotAssumption
<1>2. PICK amount \in Nat : amount = item.amount
  BY <1>1
<1>3. PICK end \in Nat : end = item.end
  BY <1>1
<1>4. PICK lock \in Int : lock = LockSeconds(item, nowMs)
  BY <1>1, LockIsInteger
<1>5. PICK now \in Int : now = nowMs \div MS
  BY <1>1, LockIsInteger
<1>6. IsVault(item, nowMs)
  BY DEF PlannedAsset
<1>7. /\ PlannedAsset(item, nowMs).amount = amount
      /\ PlannedAsset(item, nowMs).endTs = now + lock
  BY <1>2, <1>4, <1>5, <1>6 DEF PlannedAsset
<1>8. lock >= MinVaultLock /\ amount >= MinVaultSize /\ item.file \in {"vaults"} \cup StakeFiles
  BY <1>2, <1>4, <1>6 DEF IsVault, VaultEscrowFallsBackToLiquid
<1>9. CASE item.file = "vaults"
  <2>1. lock = CeilDiv(end - nowMs, MS)
    BY <1>3, <1>4, <1>9 DEF LockSeconds
  <2>2. (now + lock) * MS > end - MS /\ (now + lock) * MS < end + MS
    BY <1>5, <2>1, EndIsKept
  <2> QED
    BY <1>3, <1>5, <1>7, <1>8, <1>9, <2>2
<1>10. CASE item.file # "vaults"
  <2>1. lock >= end - now
    BY <1>3, <1>4, <1>5, <1>10 DEF LockSeconds
  <2> QED
    BY <1>3, <1>5, <1>7, <1>8, <1>10, <2>1
<1> QED
  BY <1>9, <1>10

-----------------------------------------------------------------------------
(***************************************************************************)
(* Builds, claims and deliveries.                                          *)
(***************************************************************************)

LEMMA LedgerInitial == LedgerInit => LedgerTypeOK /\ LedgerInv
<1> SUFFICES ASSUME LedgerInit PROVE LedgerTypeOK /\ LedgerInv
  OBVIOUS
<1>1. DOMAIN rows = {} /\ rows = [k \in DOMAIN rows |-> rows[k]]
  BY DEF LedgerInit
<1>2. RowsTypeOK
  BY <1>1 DEF RowsTypeOK
<1>3. pay \in [AssetKeys -> Pay] /\ \A k \in AssetKeys : pay[k] = NoPay
  BY DEF LedgerInit, AssetKeys, NoPay, Pay
<1>4. NoPay.pc = "none" /\ NoPay.at = 0
  BY DEF NoPay
<1>5. LedgerTypeOK
  BY <1>2, <1>3 DEF LedgerInit, LedgerTypeOK, NoBuild
<1>6. VaultsEnd /\ InDeliveryIsTaken /\ LockAsDecided
  BY <1>1, <1>3, <1>4 DEF LedgerInit, VaultsEnd, InDeliveryIsTaken, LockAsDecided
<1>7. DeliveredIsOver /\ AssetDeliveredOnce /\ LockPreserved
  BY DEF LedgerInit, DeliveredIsOver, AssetDeliveredOnce, LockPreserved
<1> QED
  BY <1>5, <1>6, <1>7 DEF LedgerInv

\* One status changes, and nothing else of the table.
LEMMA StatusChanges ==
  ASSUME LedgerTypeOK, NEW k \in DOMAIN rows, UNCHANGED inputs,
         NEW s \in {"available", "manual_review", "claiming", "pending_review", "claimed",
                    "cancelled"},
         SetStatus(k, s)
  PROVE  /\ RowsTypeOK' /\ DOMAIN rows' = DOMAIN rows /\ rows'[k].status = s
         /\ \A j \in DOMAIN rows :
              /\ j # k => rows'[j] = rows[j]
              /\ rows'[j].type = rows[j].type /\ rows'[j].amount = rows[j].amount
              /\ rows'[j].endTs = rows[j].endTs
<1>1. rows[k] \in LedgerRow
  BY DEF LedgerTypeOK, RowsTypeOK
<1> DEFINE r == [rows[k] EXCEPT !.status = s]
<1>2. /\ r \in LedgerRow /\ r.status = s /\ r.type = rows[k].type
      /\ r.amount = rows[k].amount /\ r.endTs = rows[k].endTs
  BY <1>1 DEF LedgerRow
<1>3. rows' = [rows EXCEPT ![k] = r]
  BY DEF SetStatus
<1> HIDE DEF r
<1>4. LedgerRow' = LedgerRow /\ AssetKeys' = AssetKeys
  BY DEF LedgerRow, AssetKeys
<1>5. DOMAIN rows' = DOMAIN rows /\ rows'[k] = r /\ \A j \in DOMAIN rows : j # k => rows'[j] = rows[j]
  BY <1>3 DEF LedgerTypeOK, RowsTypeOK
<1>6. rows' = [j \in DOMAIN rows' |-> rows'[j]]
  BY <1>3 DEF LedgerTypeOK, RowsTypeOK
<1>7. RowsTypeOK'
  BY <1>2, <1>4, <1>5, <1>6 DEF LedgerTypeOK, RowsTypeOK
<1> QED
  BY <1>2, <1>5, <1>7

LEMMA PayChanges ==
  ASSUME LedgerTypeOK, UNCHANGED inputs, NEW k \in AssetKeys, NEW p \in Pay, SetPay(k, p)
  PROVE  /\ AssetKeys' = AssetKeys /\ pay' \in [AssetKeys -> Pay]
         /\ pay'[k] = p /\ \A j \in AssetKeys : j # k => pay'[j] = pay[j]
<1>1. AssetKeys' = AssetKeys
  BY DEF AssetKeys
<1> QED
  BY <1>1 DEF LedgerTypeOK, SetPay

\* A build writes only rows that are not being delivered.
LEMMA WriteKeeps ==
  ASSUME LedgerTypeOK, LedgerInv, WriteLedger
  PROVE  LedgerTypeOK' /\ LedgerInv'
<1> DEFINE plan == PlanOf(build)
           keys == {a.key : a \in plan}
<1>1. /\ rows' = Upsert(plan, build.count) /\ build' = EndBuild
      /\ UNCHANGED <<inputs, clock, pay, delivered>>
  BY DEF WriteLedger
<1>2. AssetKeys' = AssetKeys /\ LedgerRow' = LedgerRow
  BY <1>1 DEF AssetKeys, LedgerRow
<1>3. build.now \in Nat /\ build.count \in Nat /\ inputs \in Snapshots
  BY DEF LedgerTypeOK
<1>4. ASSUME NEW a \in plan
      PROVE  /\ a.key \in AssetKeys
             /\ \A n \in Nat : Row(a, n) \in LedgerRow /\ (Row(a, n).type = "vault" => Row(a, n).endTs \in Int)
  <2>1. PICK item \in inputs : a = PlannedAsset(item, build.now)
    BY DEF PlanOf, BuildLedgerPlan, Deposits
  <2>2. a.key = AssetKey(item)
    BY <2>1 DEF PlannedAsset
  <2>3. a.key \in AssetKeys
    BY <2>2 DEF AssetKeys
  <2>4. ASSUME NEW n \in Nat
        PROVE  Row(a, n) \in LedgerRow /\ (Row(a, n).type = "vault" => Row(a, n).endTs \in Int)
    BY <1>3, <2>1, PlannedIsRow
  <2> QED
    BY <2>3, <2>4
<1> HIDE DEF plan
<1>5. /\ DOMAIN rows' = DOMAIN rows \cup keys
      /\ rows' = [k \in DOMAIN rows' |-> rows'[k]]
      /\ \A k \in DOMAIN rows \cup keys :
           rows'[k] = IF k \in DOMAIN rows /\ (~UpsertScope(k) \/ k \notin keys) THEN rows[k]
                      ELSE Row(CHOOSE a \in plan : a.key = k,
                               IF k \in DOMAIN rows THEN rows[k].nonce ELSE build.count)
  BY <1>1 DEF Upsert
<1>6. ASSUME NEW k \in DOMAIN rows \cup keys
      PROVE  /\ rows'[k] \in LedgerRow /\ (rows'[k].type = "vault" => rows'[k].endTs \in Int)
  <2>1. CASE k \in DOMAIN rows /\ (~UpsertScope(k) \/ k \notin keys)
    BY <1>5, <2>1 DEF LedgerTypeOK, RowsTypeOK, LedgerInv, VaultsEnd
  <2>2. CASE ~(k \in DOMAIN rows /\ (~UpsertScope(k) \/ k \notin keys))
    <3>1. k \in keys
      BY <2>2
    <3>2. PICK a \in plan : a = CHOOSE b \in plan : b.key = k
      BY <3>1
    <3>3. PICK n \in Nat : n = IF k \in DOMAIN rows THEN rows[k].nonce ELSE build.count
      BY <1>3 DEF LedgerTypeOK, RowsTypeOK, LedgerRow
    <3>4. rows'[k] = Row(a, n)
      BY <1>5, <2>2, <3>2, <3>3
    <3> QED
      BY <1>4, <3>4
  <2> QED
    BY <2>1, <2>2
<1>7. ASSUME NEW k \in DOMAIN rows, rows[k].status \in Claimed \cup {"claimed"}
      PROVE  k \in DOMAIN rows' /\ rows'[k] = rows[k]
  BY <1>5, <1>7 DEF UpsertScope, BuildableStatus, Claimed
<1>8. LedgerTypeOK'
  <2>1. RowsTypeOK'
    BY <1>2, <1>4, <1>5, <1>6 DEF RowsTypeOK, LedgerTypeOK
  <2>2. build' \in [pc : {"idle", "check", "write"}, now : Nat, count : Nat]
    BY <1>1 DEF EndBuild, LedgerTypeOK
  <2> QED
    BY <1>1, <1>2, <2>1, <2>2 DEF LedgerTypeOK
<1> HIDE DEF keys
<1>9. VaultsEnd'
  BY <1>5, <1>6 DEF VaultsEnd
<1>10. ASSUME NEW k \in AssetKeys, pay[k].pc # "none"
       PROVE  k \in DOMAIN rows /\ k \in DOMAIN rows' /\ rows'[k] = rows[k]
  BY <1>7, <1>10 DEF LedgerInv, InDeliveryIsTaken
<1>11. InDeliveryIsTaken' /\ DeliveredIsOver'
  BY <1>1, <1>2, <1>10 DEF LedgerInv, InDeliveryIsTaken, DeliveredIsOver
<1>12. LockAsDecided'
  BY <1>1, <1>2, <1>10 DEF LedgerInv, LockAsDecided
<1>13. ASSUME NEW t \in delivered PROVE rows'[t.key] = rows[t.key]
  BY <1>10 DEF LedgerInv, DeliveredIsOver
<1>14. AssetDeliveredOnce' /\ LockPreserved'
  BY <1>1, <1>13 DEF LedgerInv, AssetDeliveredOnce, LockPreserved
<1> QED
  BY <1>8, <1>9, <1>11, <1>12, <1>14 DEF LedgerInv

\* A transfer of the asset with this unlock date keeps the lock of its row.
KeepsLock(k, end) ==
  rows[k].type = "vault" =>
    IF end = 0
    THEN rows[k].endTs - clock < MinVaultLock \/ rows[k].amount < MinVaultSize
    ELSE end >= rows[k].endTs /\ end <= rows[k].endTs + Validity

\* One delivery moves on: its state becomes p, the status of its row may change,
\* and a transfer may execute if none has.
LEMMA OneDelivery ==
  ASSUME LedgerTypeOK, LedgerInv, NEW k \in DOMAIN rows, NEW p \in Pay, SetPay(k, p),
         UNCHANGED <<inputs, build, clock>>,
         RowsTypeOK', DOMAIN rows' = DOMAIN rows,
         \A j \in DOMAIN rows :
           /\ j # k => rows'[j] = rows[j]
           /\ rows'[j].type = rows[j].type /\ rows'[j].amount = rows[j].amount
           /\ rows'[j].endTs = rows[j].endTs,
         p.pc # "none" => rows'[k].status \in Claimed \cup {"claimed"},
         p.at <= clock,
         p.pc = "signed" /\ rows[k].type = "vault" =>
           IF p.lock = 0
           THEN rows[k].endTs - p.at < MinVaultLock \/ rows[k].amount < MinVaultSize
           ELSE p.lock = rows[k].endTs - p.at,
         pay[k].pc \in {"paid", "done"} => p.pc \in {"paid", "done"},
         \/ delivered' = delivered
         \/ \E end : /\ delivered' = delivered \cup {Transfer(k, end)}
                      /\ pay[k].pc \notin {"paid", "done"} /\ p.pc \in {"paid", "done"}
                      /\ KeepsLock(k, end)
  PROVE  LedgerTypeOK' /\ LedgerInv'
<1>1. k \in AssetKeys
  BY DEF LedgerTypeOK, RowsTypeOK
<1>2. /\ AssetKeys' = AssetKeys /\ pay' \in [AssetKeys -> Pay]
      /\ pay'[k] = p /\ \A j \in AssetKeys : j # k => pay'[j] = pay[j]
  BY <1>1, PayChanges
<1>3. LedgerTypeOK'
  BY <1>2 DEF LedgerTypeOK
<1>4. VaultsEnd'
  BY DEF LedgerInv, VaultsEnd
<1>5. InDeliveryIsTaken'
  <2> SUFFICES ASSUME NEW j \in AssetKeys, pay'[j].pc # "none"
               PROVE  j \in DOMAIN rows' /\ rows'[j].status \in Claimed \cup {"claimed"}
    BY <1>2 DEF InDeliveryIsTaken, Claimed
  <2>1. CASE j = k
    BY <1>2, <2>1
  <2>2. CASE j # k
    BY <1>2, <2>2 DEF LedgerInv, InDeliveryIsTaken
  <2> QED
    BY <2>1, <2>2
<1>6. LockAsDecided'
  <2> SUFFICES ASSUME NEW j \in AssetKeys
               PROVE  /\ pay'[j].at <= clock'
                      /\ pay'[j].pc = "signed" /\ rows'[j].type = "vault" =>
                           IF pay'[j].lock = 0
                           THEN \/ rows'[j].endTs - pay'[j].at < MinVaultLock
                                \/ rows'[j].amount < MinVaultSize
                           ELSE pay'[j].lock = rows'[j].endTs - pay'[j].at
    BY <1>2 DEF LockAsDecided
  <2>1. CASE j = k
    BY <1>2, <2>1
  <2>2. CASE j # k
    <3>1. pay'[j] = pay[j] /\ (pay[j].pc # "none" => rows'[j] = rows[j])
      BY <1>2, <2>2 DEF LedgerInv, InDeliveryIsTaken
    <3> QED
      BY <3>1 DEF LedgerInv, LockAsDecided
  <2> QED
    BY <2>1, <2>2
\* What was delivered before.
<1>7. ASSUME NEW t \in delivered
      PROVE  /\ t.key \in AssetKeys /\ pay'[t.key].pc \in {"paid", "done"}
             /\ t.key = k => pay[k].pc \in {"paid", "done"}
             /\ t.key \in DOMAIN rows
  <2>1. t.key \in AssetKeys /\ pay[t.key].pc \in {"paid", "done"}
    BY DEF LedgerInv, DeliveredIsOver
  <2>2. t.key \in DOMAIN rows
    BY <2>1 DEF LedgerInv, InDeliveryIsTaken
  <2>3. pay'[t.key].pc \in {"paid", "done"}
    BY <1>2, <2>1
  <2> QED
    BY <2>1, <2>2, <2>3
<1>8. ASSUME NEW t \in delivered
      PROVE  LET row == rows'[t.key]
             IN /\ t.amount = row.amount
                /\ row.type = "vault" =>
                     IF t.end = 0
                     THEN row.endTs - t.at < MinVaultLock \/ row.amount < MinVaultSize
                     ELSE t.end >= row.endTs /\ t.end <= row.endTs + Validity
  <2>1. PICK j \in DOMAIN rows : j = t.key
    BY <1>7
  <2>2. /\ rows'[j].type = rows[j].type /\ rows'[j].amount = rows[j].amount
        /\ rows'[j].endTs = rows[j].endTs
    OBVIOUS
  <2> QED
    BY <2>1, <2>2 DEF LedgerInv, LockPreserved
<1>9. CASE delivered' = delivered
  <2>1. DeliveredIsOver' /\ AssetDeliveredOnce' /\ LockPreserved'
    BY <1>2, <1>7, <1>8, <1>9 DEF LedgerInv, DeliveredIsOver, AssetDeliveredOnce, LockPreserved
  <2> QED
    BY <1>3, <1>4, <1>5, <1>6, <2>1 DEF LedgerInv
<1>10. ASSUME NEW end, delivered' = delivered \cup {Transfer(k, end)},
              pay[k].pc \notin {"paid", "done"}, p.pc \in {"paid", "done"}, KeepsLock(k, end)
       PROVE  LedgerTypeOK' /\ LedgerInv'
  <2>1. PICK new : new = Transfer(k, end)
    OBVIOUS
  <2>2. new.key = k /\ new.amount = rows[k].amount /\ new.end = end /\ new.at = clock
    BY <2>1 DEF Transfer
  <2>3. delivered' = delivered \cup {new}
    BY <1>10, <2>1
  <2>4. DeliveredIsOver'
    BY <1>1, <1>2, <1>7, <1>10, <2>2, <2>3 DEF DeliveredIsOver
  <2>5. AssetDeliveredOnce'
    BY <1>7, <1>10, <2>2, <2>3 DEF LedgerInv, AssetDeliveredOnce
  <2>6. LET row == rows'[new.key]
        IN /\ new.amount = row.amount
           /\ row.type = "vault" =>
                IF new.end = 0
                THEN row.endTs - new.at < MinVaultLock \/ row.amount < MinVaultSize
                ELSE new.end >= row.endTs /\ new.end <= row.endTs + Validity
    BY <1>10, <2>2 DEF KeepsLock
  <2>7. LockPreserved'
    BY <1>8, <2>3, <2>6 DEF LockPreserved
  <2> QED
    BY <1>3, <1>4, <1>5, <1>6, <2>4, <2>5, <2>7 DEF LedgerInv
<1> QED
  BY <1>9, <1>10

LEMMA NothingDelivered ==
  ASSUME LedgerTypeOK, LedgerInv, NEW k \in DOMAIN rows,
         rows[k].status \notin Claimed \cup {"claimed"}
  PROVE  k \in AssetKeys /\ pay[k].pc = "none" /\ pay[k] \in Pay /\ pay[k].at <= clock
BY DEF LedgerTypeOK, RowsTypeOK, LedgerInv, InDeliveryIsTaken, LockAsDecided

LEMMA ClaimKeeps ==
  ASSUME LedgerTypeOK, LedgerInv, NEW k \in DOMAIN rows, ClaimAsset(k) \/ CancelAsset(k)
  PROVE  LedgerTypeOK' /\ LedgerInv'
<1>1. /\ rows[k].status = "available" /\ UNCHANGED <<inputs, build, clock, delivered>>
      /\ \E s \in Claimed \cup {"cancelled"} : SetStatus(k, s)
  BY DEF ClaimAsset, CancelAsset
<1>2. k \in AssetKeys /\ pay[k].pc = "none" /\ pay[k] \in Pay /\ pay[k].at <= clock
  BY <1>1, NothingDelivered DEF Claimed
<1>3. PICK s \in Claimed \cup {"cancelled"} : SetStatus(k, s)
  BY <1>1
<1>4. /\ RowsTypeOK' /\ DOMAIN rows' = DOMAIN rows
      /\ \A j \in DOMAIN rows :
           /\ j # k => rows'[j] = rows[j]
           /\ rows'[j].type = rows[j].type /\ rows'[j].amount = rows[j].amount
           /\ rows'[j].endTs = rows[j].endTs
  BY <1>1, <1>3, StatusChanges DEF Claimed
<1>5. NoPay \in Pay /\ NoPay.pc = "none" /\ NoPay.at = 0 /\ 0 <= clock
  BY DEF NoPay, Pay, LedgerTypeOK
<1>6. PICK p \in Pay : SetPay(k, p) /\ p.pc = "none" /\ p.at <= clock
  <2>1. CASE ClaimAsset(k)
    BY <1>5, <2>1 DEF ClaimAsset
  <2>2. CASE CancelAsset(k)
    <3>1. pay' = [pay EXCEPT ![k] = pay[k]]
      BY <1>2, <2>2 DEF CancelAsset, LedgerTypeOK
    <3> QED
      BY <1>2, <3>1 DEF SetPay
  <2> QED
    BY <2>1, <2>2
<1> QED
  BY <1>1, <1>2, <1>4, <1>6, OneDelivery

\* The rows stay as they are.
LEMMA SameRows ==
  ASSUME LedgerTypeOK, UNCHANGED <<inputs, rows>>
  PROVE  /\ RowsTypeOK' /\ DOMAIN rows' = DOMAIN rows
         /\ \A j \in DOMAIN rows : rows'[j] = rows[j]
<1>1. LedgerRow' = LedgerRow /\ AssetKeys' = AssetKeys
  BY DEF LedgerRow, AssetKeys
<1> QED
  BY <1>1 DEF LedgerTypeOK, RowsTypeOK

LEMMA SettleKeeps ==
  ASSUME LedgerTypeOK, LedgerInv, NEW k \in DOMAIN rows, Settle(k)
  PROVE  LedgerTypeOK' /\ LedgerInv'
<1>0. /\ k \in AssetKeys /\ rows[k] \in LedgerRow /\ clock \in Nat
      /\ rows[k].amount \in Nat /\ (rows[k].type = "vault" => rows[k].endTs \in Int)
      /\ pay[k] \in Pay /\ pay[k].at \in Nat /\ pay[k].lock \in Nat /\ pay[k].at <= clock
  BY DEF LedgerTypeOK, RowsTypeOK, LedgerRow, Pay, LedgerInv, VaultsEnd, LockAsDecided
<1>taken. pay[k].pc # "none" => rows[k].status \in Claimed \cup {"claimed"}
  BY <1>0 DEF LedgerInv, InDeliveryIsTaken
<1> USE PlanAssumption, LedgerAssumption
<1>1. CASE SignDelivery(k)
  <2> DEFINE p == [pc |-> "signed", lock |-> Settlement(k).lock, at |-> clock]
  <2>1. /\ rows[k].status \in Claimed /\ pay[k].pc = "none" /\ SetPay(k, p)
        /\ Settlement(k).kind \in {"liquid", "relock"}
        /\ UNCHANGED <<inputs, rows, build, clock, delivered>>
    BY <1>1 DEF SignDelivery
  <2>2. /\ Settlement(k).lock \in Nat
        /\ rows[k].type = "vault" =>
             IF Settlement(k).lock = 0
             THEN rows[k].endTs - clock < MinVaultLock \/ rows[k].amount < MinVaultSize
             ELSE Settlement(k).lock = rows[k].endTs - clock
    <3>1. CASE rows[k].type = "vault"
      BY <1>0, <2>1, <3>1 DEF Settlement, ComputeVaultSettlement
    <3>2. CASE rows[k].type # "vault"
      BY <3>2 DEF Settlement
    <3> QED
      BY <3>1, <3>2
  <2>3. p \in Pay /\ p.pc = "signed" /\ p.at = clock /\ p.lock = Settlement(k).lock
    BY <1>0, <2>2 DEF Pay
  <2> HIDE DEF p
  <2> QED
    BY <1>0, <2>1, <2>2, <2>3, SameRows, OneDelivery
<1>2. CASE RouteToManualVaultDelivery(k)
  <2> DEFINE p == [NoPay EXCEPT !.pc = "manual"]
  <2>1. /\ rows[k].status \in Claimed /\ pay[k].pc = "none" /\ SetPay(k, p)
        /\ SetStatus(k, "pending_review") /\ UNCHANGED <<inputs, build, clock, delivered>>
    BY <1>2 DEF RouteToManualVaultDelivery
  <2>2. p \in Pay /\ p.pc = "manual" /\ p.at <= clock
    BY <1>0 DEF NoPay, Pay
  <2> HIDE DEF p
  <2>3. /\ RowsTypeOK' /\ DOMAIN rows' = DOMAIN rows /\ rows'[k].status = "pending_review"
        /\ \A j \in DOMAIN rows :
             /\ j # k => rows'[j] = rows[j]
             /\ rows'[j].type = rows[j].type /\ rows'[j].amount = rows[j].amount
             /\ rows'[j].endTs = rows[j].endTs
    BY <2>1, StatusChanges
  <2>4. rows'[k].status \in Claimed \cup {"claimed"}
    BY <2>3 DEF Claimed
  <2> QED
    BY <2>1, <2>2, <2>3, <2>4, OneDelivery
<1>3. CASE ExecuteDelivery(k)
  <2> DEFINE p == [pay[k] EXCEPT !.pc = "paid"]
             end == IF pay[k].lock = 0 THEN 0 ELSE clock + pay[k].lock
  <2>1. /\ pay[k].pc = "signed" /\ clock <= pay[k].at + Validity /\ SetPay(k, p)
        /\ delivered' = delivered \cup {Transfer(k, end)}
        /\ UNCHANGED <<inputs, rows, build, clock>>
    BY <1>3 DEF ExecuteDelivery
  <2>2. p \in Pay /\ p.pc = "paid" /\ p.at = pay[k].at
    BY <1>0 DEF Pay
  <2>3. KeepsLock(k, end)
    <3>1. rows[k].type = "vault" =>
            IF pay[k].lock = 0
            THEN rows[k].endTs - pay[k].at < MinVaultLock \/ rows[k].amount < MinVaultSize
            ELSE pay[k].lock = rows[k].endTs - pay[k].at
      BY <1>0, <2>1 DEF LedgerInv, LockAsDecided
    <3> QED
      BY <1>0, <2>1, <3>1 DEF KeepsLock
  <2> HIDE DEF p, end
  <2> QED
    BY <1>0, <1>taken, <2>1, <2>2, <2>3, SameRows, OneDelivery
<1>4. CASE ExpireDelivery(k)
  <2>1. /\ pay[k].pc = "signed" /\ SetPay(k, NoPay)
        /\ UNCHANGED <<inputs, rows, build, clock, delivered>>
    BY <1>4 DEF ExpireDelivery
  <2>2. NoPay \in Pay /\ NoPay.pc = "none" /\ NoPay.at <= clock
    BY <1>0 DEF NoPay, Pay
  <2> QED
    BY <2>1, <2>2, SameRows, OneDelivery
<1>5. CASE FinalizeDelivery(k)
  <2> DEFINE p == [pay[k] EXCEPT !.pc = "done"]
  <2>1. /\ pay[k].pc = "paid" /\ SetPay(k, p) /\ SetStatus(k, "claimed")
        /\ UNCHANGED <<inputs, build, clock, delivered>>
    BY <1>5 DEF FinalizeDelivery
  <2>2. p \in Pay /\ p.pc = "done" /\ p.at = pay[k].at
    BY <1>0 DEF Pay
  <2> HIDE DEF p
  <2>3. /\ RowsTypeOK' /\ DOMAIN rows' = DOMAIN rows /\ rows'[k].status = "claimed"
        /\ \A j \in DOMAIN rows :
             /\ j # k => rows'[j] = rows[j]
             /\ rows'[j].type = rows[j].type /\ rows'[j].amount = rows[j].amount
             /\ rows'[j].endTs = rows[j].endTs
    BY <2>1, StatusChanges
  <2> QED
    BY <1>0, <2>1, <2>2, <2>3, OneDelivery
<1>6. CASE ManualDelivery(k)
  <2> DEFINE p == [NoPay EXCEPT !.pc = "done"]
             end == IF ManualLock(rows[k].endTs, clock) = 0 THEN 0 ELSE rows[k].endTs
  <2>1. /\ pay[k].pc = "manual" /\ SetPay(k, p)
        /\ delivered' = delivered \cup {Transfer(k, end)}
        /\ UNCHANGED <<inputs, rows, build, clock>>
    BY <1>6 DEF ManualDelivery
  <2>2. p \in Pay /\ p.pc = "done" /\ p.at <= clock
    BY <1>0 DEF NoPay, Pay
  <2>3. KeepsLock(k, end)
    <3>1. CASE rows[k].type = "vault"
      <4>1. rows[k].endTs \in Int /\ rows[k].endTs # None
        BY <1>0, <3>1
      <4> QED
        BY <1>0, <4>1 DEF KeepsLock, ManualLock
    <3>2. CASE rows[k].type # "vault"
      BY <3>2 DEF KeepsLock
    <3> QED
      BY <3>1, <3>2
  <2> HIDE DEF p, end
  <2> QED
    BY <1>0, <1>taken, <2>1, <2>2, <2>3, SameRows, OneDelivery
<1> QED
  BY <1>1, <1>2, <1>3, <1>4, <1>5, <1>6 DEF Settle

LEMMA LedgerStepKeeps ==
  ASSUME LedgerTypeOK, LedgerInv, [LedgerNext]_ledgerVars
  PROVE  LedgerTypeOK' /\ LedgerInv'
\* A build reads and plans.
<1>1. ASSUME build' \in [pc : {"idle", "check", "write"}, now : Nat, count : Nat],
             UNCHANGED <<inputs, rows, clock, pay, delivered>>
      PROVE  LedgerTypeOK' /\ LedgerInv'
  <2>1. AssetKeys' = AssetKeys /\ RowsTypeOK'
    BY <1>1, SameRows DEF AssetKeys
  <2>2. LedgerTypeOK'
    BY <1>1, <2>1 DEF LedgerTypeOK
  <2>3. VaultsEnd' /\ InDeliveryIsTaken' /\ DeliveredIsOver' /\ LockAsDecided'
    BY <1>1, <2>1 DEF LedgerInv, VaultsEnd, InDeliveryIsTaken, DeliveredIsOver, LockAsDecided
  <2>4. AssetDeliveredOnce' /\ LockPreserved'
    BY <1>1 DEF LedgerInv, AssetDeliveredOnce, LockPreserved
  <2> QED
    BY <2>2, <2>3, <2>4 DEF LedgerInv
<1>2. build \in [pc : {"idle", "check", "write"}, now : Nat, count : Nat]
  BY DEF LedgerTypeOK
<1>3. ASSUME NEW nowMs \in BuildTimes, NEW force \in BOOLEAN, StartBuild(nowMs, force)
      PROVE  LedgerTypeOK' /\ LedgerInv'
  <2>1. nowMs \in Nat /\ build.count + 1 \in Nat
    BY <1>2, LedgerAssumption
  <2> QED
    BY <1>1, <1>3, <2>1 DEF StartBuild
<1>4. CASE CheckLive \/ BuildCrash
  <2>1. /\ EndBuild \in [pc : {"idle", "check", "write"}, now : Nat, count : Nat]
        /\ [build EXCEPT !.pc = "write"] \in [pc : {"idle", "check", "write"}, now : Nat, count : Nat]
    BY <1>2 DEF EndBuild
  <2> QED
    BY <1>1, <1>4, <2>1 DEF CheckLive, BuildCrash
<1>5. CASE UNCHANGED ledgerVars
  BY <1>1, <1>2, <1>5 DEF ledgerVars
<1>6. CASE Tick
  <2>1. clock' = clock + 1 /\ clock \in Nat /\ UNCHANGED <<inputs, rows, build, pay, delivered>>
    BY <1>6 DEF Tick, LedgerTypeOK
  <2>2. AssetKeys' = AssetKeys /\ RowsTypeOK'
    BY <2>1, SameRows DEF AssetKeys
  <2>3. LedgerTypeOK'
    BY <2>1, <2>2 DEF LedgerTypeOK
  <2>4. VaultsEnd' /\ InDeliveryIsTaken' /\ DeliveredIsOver'
    BY <2>1, <2>2 DEF LedgerInv, VaultsEnd, InDeliveryIsTaken, DeliveredIsOver
  <2>5. LockAsDecided'
    <3>1. ASSUME NEW k \in AssetKeys PROVE pay[k].at <= clock + 1
      <4>1. pay[k].at \in Nat /\ pay[k].at <= clock
        BY DEF LedgerTypeOK, Pay, LedgerInv, LockAsDecided
      <4> QED
        BY <2>1, <4>1
    <3> QED
      BY <2>1, <2>2, <3>1 DEF LedgerInv, LockAsDecided
  <2>6. AssetDeliveredOnce' /\ LockPreserved'
    BY <2>1 DEF LedgerInv, AssetDeliveredOnce, LockPreserved
  <2> QED
    BY <2>3, <2>4, <2>5, <2>6 DEF LedgerInv
<1> QED
  BY <1>3, <1>4, <1>5, <1>6, WriteKeeps, ClaimKeeps, SettleKeeps DEF LedgerNext

\* The published ledger and the reserves report only read the assets table.
LEMMA PublishingReads == PubSpec => LedgerSpec
<1>1. PubInit => LedgerInit
  BY DEF PubInit
<1>2. [PubNext]_allVars => [LedgerNext]_ledgerVars
  BY DEF PubNext, LedgerStep, PublishLedger, ComputeReserves, ReadHot, ReadOwed, ReadCold,
         RefillFloat, allVars, ledgerVars
<1> QED
  BY <1>1, <1>2, PTL DEF PubSpec, LedgerSpec

\* The invariant of builds, claims and deliveries.
LEMMA LedgerInvariant == PubSpec => [](LedgerTypeOK /\ LedgerInv)
<1>1. LedgerSpec => [](LedgerTypeOK /\ LedgerInv)
  BY LedgerInitial, LedgerStepKeeps, PTL DEF LedgerSpec
<1> QED
  BY <1>1, PublishingReads, PTL

\* Across any builds, forced or not, racing with claims, and however often a
\* transaction expires and is signed again, an asset leaves the treasury at most
\* once, by the worker or by hand.
THEOREM RebuildsOfferNothingTwice == PubSpec => []AssetDeliveredOnce
<1>1. LedgerInv => AssetDeliveredOnce
  BY DEF LedgerInv
<1> QED
  BY <1>1, LedgerInvariant, PTL

\* A vault is delivered locked to the end its row has, plus at most the validity
\* of its transaction; liquid only below the program's minimum.
THEOREM DeliveriesKeepTheLock == PubSpec => []LockPreserved
<1>1. LedgerInv => LockPreserved
  BY DEF LedgerInv
<1> QED
  BY <1>1, LedgerInvariant, PTL

\* Only StartBuild leaves idle, and only with inputs that can be built.
LEMMA PlanningStarts ==
  ASSUME LedgerTypeOK, [LedgerNext]_ledgerVars, Starts
  PROVE  inputs \in Snapshots /\ Buildable(inputs) /\ build'.now \in Nat
<1>1. PICK nowMs \in BuildTimes, force \in BOOLEAN : StartBuild(nowMs, force)
  <2>1. build' # build
    BY DEF Starts
  <2>2. ~CheckLive /\ ~WriteLedger /\ ~BuildCrash /\ ~Tick
    BY <2>1 DEF Starts, CheckLive, WriteLedger, BuildCrash, Tick
  <2>3. \A k \in DOMAIN rows : ~ClaimAsset(k) /\ ~CancelAsset(k)
    BY <2>1 DEF ClaimAsset, CancelAsset
  <2>4. \A k \in DOMAIN rows : ~Settle(k)
    BY <2>1 DEF Settle, SignDelivery, RouteToManualVaultDelivery, ExecuteDelivery,
                ExpireDelivery, FinalizeDelivery, ManualDelivery
  <2> QED
    BY <2>1, <2>2, <2>3, <2>4 DEF LedgerNext, ledgerVars
<1>2. Buildable(inputs) /\ build'.now = nowMs
  BY <1>1 DEF StartBuild
<1> QED
  BY <1>1, <1>2, LedgerAssumption DEF LedgerTypeOK

\* Whatever build:ledger plans, over any run of builds and claims, reconcile:ledger
\* accepts, asset by asset, in its totals and in its counters; and no unlock date
\* of the inputs is moved by a second or brought forward.
THEOREM PlansAreTrue == PubSpec => PlansAreFaithful
<1>1. ASSUME LedgerTypeOK, [PubNext]_allVars
      PROVE  [Starts => Reconciles(build'.now) /\ VaultsKeepTheirEnd(build'.now)]_ledgerVars
  <2> SUFFICES ASSUME Starts
               PROVE  Reconciles(build'.now) /\ VaultsKeepTheirEnd(build'.now)
    OBVIOUS
  <2>1. [LedgerNext]_ledgerVars
    BY <1>1 DEF PubNext, LedgerStep, PublishLedger, ComputeReserves, ReadHot, ReadOwed, ReadCold,
                RefillFloat, allVars, ledgerVars
  <2>2. inputs \in Snapshots /\ Buildable(inputs) /\ build'.now \in Nat
    BY <1>1, <2>1, PlanningStarts
  <2>3. PICK nowMs \in Nat : nowMs = build'.now
    BY <2>2
  <2>4. Reconciles(nowMs)
    BY <2>2, PlansReconcile, TotalsReconcile DEF Reconciles
  <2>5. VaultsKeepTheirEnd(nowMs)
    BY <2>2, PlannedVaultsKeepTheirEnd
  <2> QED
    BY <2>3, <2>4, <2>5
<1>2. LedgerTypeOK /\ LedgerInv => LedgerTypeOK
  OBVIOUS
<1> QED
  BY <1>1, <1>2, LedgerInvariant, PTL DEF PubSpec, PlansAreFaithful

-----------------------------------------------------------------------------
(***************************************************************************)
(* The reserves report.  What it subtracts, the transfers that executed,   *)
(* and what it adds, the rows that are owed, meet in the rows: whatever is *)
(* claimed was delivered, and whatever was delivered is claimed or owed.   *)
(***************************************************************************)

OwedKeys    == {k \in DOMAIN rows : Owed(k)}
ClaimedKeys == {k \in DOMAIN rows : rows[k].status = "claimed"}

\* No ANT is paid in ARIO, and what is paid or claimed has been delivered.
AccountInv ==
  /\ IsFiniteSet(delivered)
  /\ \A k \in AssetKeys : pay[k].pc # "none" => rows[k].type # "ant"
  /\ \A k \in AssetKeys :
       pay[k].pc = "paid" \/ (k \in DOMAIN rows /\ rows[k].status = "claimed")
         => \E t \in delivered : t.key = k

\* While no figure is outdated: the balance counts nothing that the claimed rows
\* have cost, and the liabilities cover what is still owed.
ReportInv ==
  /\ report \in [pc : {"idle", "reading"}, hot : Int \cup {None}, owed : Int \cup {None},
                 calm : BOOLEAN]
  /\ cold \in Nat
  /\ report.pc = "reading" /\ report.calm /\ report.hot # None =>
       report.hot + cold <= Reserve - SumRows(ClaimedKeys)
  /\ report.pc = "reading" /\ report.calm /\ report.owed # None =>
       SumRows(OwedKeys) <= report.owed

\* What a build leaves alone.
LEMMA WriteLeaves ==
  ASSUME LedgerTypeOK, WriteLedger
  PROVE  /\ AssetKeys' = AssetKeys /\ DOMAIN rows \subseteq DOMAIN rows'
         /\ \A k \in DOMAIN rows : rows[k].status \notin BuildableStatus => rows'[k] = rows[k]
         /\ \A k \in DOMAIN rows' :
              rows'[k].status = "claimed" => k \in DOMAIN rows /\ rows'[k] = rows[k]
<1> DEFINE plan == PlanOf(build)
           keys == {a.key : a \in plan}
<1>1. /\ rows' = Upsert(plan, build.count) /\ inputs' = inputs
  BY DEF WriteLedger
<1>2. \A a \in plan : \A n : Row(a, n).status \in {"available", "manual_review"}
  BY DEF PlanOf, BuildLedgerPlan, PlannedAsset, Row
<1> HIDE DEF plan
<1>3. /\ DOMAIN rows' = DOMAIN rows \cup keys
      /\ \A k \in DOMAIN rows \cup keys :
           rows'[k] = IF k \in DOMAIN rows /\ (~UpsertScope(k) \/ k \notin keys) THEN rows[k]
                      ELSE Row(CHOOSE a \in plan : a.key = k,
                               IF k \in DOMAIN rows THEN rows[k].nonce ELSE build.count)
  BY <1>1 DEF Upsert
<1>4. ASSUME NEW k \in DOMAIN rows', ~(k \in DOMAIN rows /\ rows'[k] = rows[k])
      PROVE  rows'[k].status # "claimed"
  <2>1. k \in keys
    BY <1>3, <1>4
  <2>2. PICK a \in plan : a = CHOOSE b \in plan : b.key = k
    BY <2>1
  <2>3. PICK n : n = IF k \in DOMAIN rows THEN rows[k].nonce ELSE build.count
    OBVIOUS
  <2>4. rows'[k] = Row(a, n)
    BY <1>3, <1>4, <2>2, <2>3
  <2> QED
    BY <1>2, <2>4
<1>5. \A k \in DOMAIN rows : rows[k].status \notin BuildableStatus => rows'[k] = rows[k]
  BY <1>3 DEF UpsertScope
<1>6. AssetKeys' = AssetKeys
  BY <1>1 DEF AssetKeys
<1> QED
  BY <1>3, <1>4, <1>5, <1>6

\* A step other than a build's write: at most one row changes its status, and one
\* delivery moves on.
LEMMA RowsMove ==
  ASSUME LedgerTypeOK, LedgerInv, [LedgerNext]_ledgerVars, ~WriteLedger
  PROVE  /\ DOMAIN rows' = DOMAIN rows /\ AssetKeys' = AssetKeys
         /\ \A k \in DOMAIN rows :
              /\ rows'[k].type = rows[k].type /\ rows'[k].amount = rows[k].amount
              /\ rows'[k].status # rows[k].status =>
                   rows[k].status \in {"available"} \cup Claimed \/ rows'[k].status = "claimed"
              /\ rows'[k].status \in {"available", "manual_review"} => rows'[k].status = rows[k].status
              /\ rows'[k].status = "claimed" => rows[k].status = "claimed" \/ pay[k].pc = "paid"
<1>1. AssetKeys' = AssetKeys
  BY DEF LedgerNext, StartBuild, CheckLive, WriteLedger, BuildCrash, ClaimAsset, CancelAsset,
         Settle, SignDelivery, RouteToManualVaultDelivery, ExecuteDelivery, ExpireDelivery,
         FinalizeDelivery, ManualDelivery, Tick, ledgerVars, AssetKeys
<1>2. CASE rows' = rows
  BY <1>1, <1>2
<1>3. ASSUME NEW k \in DOMAIN rows, ClaimAsset(k) \/ CancelAsset(k)
                                    \/ RouteToManualVaultDelivery(k) \/ FinalizeDelivery(k)
      PROVE  /\ UNCHANGED inputs
             /\ \E s \in Claimed \cup {"claimed", "cancelled"} :
                  /\ SetStatus(k, s)
                  /\ rows[k].status \in {"available"} \cup Claimed \/ s = "claimed"
                  /\ s = "claimed" => pay[k].pc = "paid"
  <2>1. CASE ClaimAsset(k)
    BY <2>1 DEF ClaimAsset, Claimed
  <2>2. CASE CancelAsset(k)
    BY <2>2 DEF CancelAsset
  <2>3. CASE RouteToManualVaultDelivery(k)
    <3>1. /\ rows[k].status \in Claimed /\ SetStatus(k, "pending_review") /\ UNCHANGED inputs
      BY <2>3 DEF RouteToManualVaultDelivery
    <3> QED
      BY <3>1 DEF Claimed
  <2>4. CASE FinalizeDelivery(k)
    BY <2>4 DEF FinalizeDelivery
  <2> QED
    BY <1>3, <2>1, <2>2, <2>3, <2>4
<1>4. ASSUME NEW k \in DOMAIN rows, UNCHANGED inputs,
             NEW s \in Claimed \cup {"claimed", "cancelled"}, SetStatus(k, s),
             rows[k].status \in {"available"} \cup Claimed \/ s = "claimed",
             s = "claimed" => pay[k].pc = "paid"
      PROVE  /\ DOMAIN rows' = DOMAIN rows
             /\ \A j \in DOMAIN rows :
                  /\ rows'[j].type = rows[j].type /\ rows'[j].amount = rows[j].amount
                  /\ rows'[j].status # rows[j].status =>
                       rows[j].status \in {"available"} \cup Claimed \/ rows'[j].status = "claimed"
                  /\ rows'[j].status \in {"available", "manual_review"}
                       => rows'[j].status = rows[j].status
                  /\ rows'[j].status = "claimed" => rows[j].status = "claimed" \/ pay[j].pc = "paid"
  <2>1. s \in {"available", "manual_review", "claiming", "pending_review", "claimed", "cancelled"}
        /\ s \notin {"available", "manual_review"}
    BY DEF Claimed
  <2>2. /\ DOMAIN rows' = DOMAIN rows /\ rows'[k].status = s
        /\ \A j \in DOMAIN rows :
             /\ j # k => rows'[j] = rows[j]
             /\ rows'[j].type = rows[j].type /\ rows'[j].amount = rows[j].amount
             /\ rows'[j].endTs = rows[j].endTs
    BY <1>4, <2>1, StatusChanges
  <2> SUFFICES ASSUME NEW j \in DOMAIN rows
               PROVE  /\ rows'[j].status # rows[j].status =>
                           \/ rows[j].status \in {"available"} \cup Claimed
                           \/ rows'[j].status = "claimed"
                      /\ rows'[j].status \in {"available", "manual_review"}
                           => rows'[j].status = rows[j].status
                      /\ rows'[j].status = "claimed" =>
                           rows[j].status = "claimed" \/ pay[j].pc = "paid"
    BY <2>2
  <2> QED
    BY <1>4, <2>1, <2>2
<1>5. \/ rows' = rows
      \/ \E k \in DOMAIN rows : ClaimAsset(k) \/ CancelAsset(k)
                                \/ RouteToManualVaultDelivery(k) \/ FinalizeDelivery(k)
  BY DEF LedgerNext, StartBuild, CheckLive, BuildCrash, Settle, SignDelivery,
         ExecuteDelivery, ExpireDelivery, ManualDelivery, Tick, ledgerVars
<1> QED
  BY <1>1, <1>2, <1>3, <1>4, <1>5

\* While nothing is claimed and no build is written, no more is owed or claimed.
LEMMA CalmStep ==
  ASSUME LedgerTypeOK, LedgerInv, [LedgerNext]_ledgerVars, ~Outdated
  PROVE  /\ OwedKeys' \subseteq OwedKeys /\ ClaimedKeys' \subseteq ClaimedKeys
         /\ DOMAIN rows' = DOMAIN rows /\ \A k \in DOMAIN rows : rows'[k].amount = rows[k].amount
<1>1. ~WriteLedger
  BY DEF Outdated, WriteLedger
<1>2. /\ DOMAIN rows' = DOMAIN rows
      /\ \A k \in DOMAIN rows :
           /\ rows'[k].type = rows[k].type /\ rows'[k].amount = rows[k].amount
           /\ rows'[k].status # rows[k].status =>
                rows[k].status \in {"available"} \cup Claimed \/ rows'[k].status = "claimed"
  BY <1>1, RowsMove
<1>3. ASSUME NEW k \in DOMAIN rows PROVE rows'[k].status = "claimed" => rows[k].status = "claimed"
  BY DEF Outdated
<1>4. ClaimedKeys' \subseteq ClaimedKeys
  BY <1>2, <1>3 DEF ClaimedKeys
<1>5. ASSUME NEW k \in DOMAIN rows, Owed(k)' PROVE Owed(k)
  <2>1. /\ rows'[k].type # "ant"
        /\ rows'[k].status \notin {"claimed", "cancelled", "manual_review"}
    BY <1>5 DEF Owed
  <2>2. CASE rows'[k].status = rows[k].status
    BY <1>2, <2>1, <2>2 DEF Owed
  <2>3. CASE rows'[k].status # rows[k].status
    <3>1. rows[k].status \in {"available"} \cup Claimed
      BY <1>2, <2>1, <2>3
    <3> QED
      BY <1>2, <2>1, <3>1 DEF Owed, Claimed
  <2> QED
    BY <2>2, <2>3
<1>6. OwedKeys' \subseteq OwedKeys
  BY <1>2, <1>5 DEF OwedKeys
<1> QED
  BY <1>2, <1>4, <1>6

LEMMA AccountInitial == LedgerInit => AccountInv
<1> SUFFICES ASSUME LedgerInit PROVE AccountInv
  OBVIOUS
<1>1. DOMAIN rows = {} /\ delivered = {} /\ \A k \in AssetKeys : pay[k] = NoPay
  BY DEF LedgerInit, AssetKeys
<1> QED
  BY <1>1, FS_EmptySet DEF AccountInv, NoPay

\* How a delivery and the transfers move in a step.
LEMMA DeliveriesMove ==
  ASSUME LedgerTypeOK, LedgerInv, [LedgerNext]_ledgerVars
  PROVE  /\ IsFiniteSet(delivered) => IsFiniteSet(delivered')
         /\ delivered \subseteq delivered'
         /\ \A k \in AssetKeys :
              /\ pay'[k].pc # "none" =>
                   pay[k].pc # "none" \/ (k \in DOMAIN rows /\ rows[k].type # "ant")
              /\ pay'[k].pc = "paid" =>
                   pay[k].pc = "paid" \/ \E t \in delivered' : t.key = k
<1>1. CASE UNCHANGED <<pay, delivered>>
  BY <1>1
<1>2. ASSUME NEW k \in DOMAIN rows, NEW p, SetPay(k, p), p.pc # "paid",
             p.pc = "none" \/ pay[k].pc # "none" \/ rows[k].type # "ant",
             IsFiniteSet(delivered) => IsFiniteSet(delivered'), delivered \subseteq delivered'
      PROVE  \A j \in AssetKeys :
              /\ pay'[j].pc # "none" =>
                   pay[j].pc # "none" \/ (j \in DOMAIN rows /\ rows[j].type # "ant")
              /\ pay'[j].pc = "paid" =>
                   pay[j].pc = "paid" \/ \E t \in delivered' : t.key = j
  <2>1. pay \in [AssetKeys -> Pay]
    BY DEF LedgerTypeOK
  <2> QED
    BY <1>2, <2>1 DEF SetPay
<1>3. ASSUME NEW k \in DOMAIN rows, ClaimAsset(k) \/ ExpireDelivery(k)
      PROVE  SetPay(k, NoPay) /\ NoPay.pc = "none" /\ delivered' = delivered
  BY <1>3 DEF ClaimAsset, ExpireDelivery, NoPay
<1>4. ASSUME NEW k \in DOMAIN rows, SignDelivery(k)
      PROVE  \E p : /\ SetPay(k, p) /\ p.pc = "signed" /\ rows[k].type # "ant"
                    /\ delivered' = delivered
  BY <1>4 DEF SignDelivery
<1>5. ASSUME NEW k \in DOMAIN rows, RouteToManualVaultDelivery(k)
      PROVE  \E p : /\ SetPay(k, p) /\ p.pc = "manual" /\ rows[k].type # "ant"
                    /\ delivered' = delivered
  <2>1. [NoPay EXCEPT !.pc = "manual"].pc = "manual"
    BY DEF NoPay
  <2> QED
    BY <1>5, <2>1 DEF RouteToManualVaultDelivery
<1>6. ASSUME NEW k \in DOMAIN rows, FinalizeDelivery(k)
      PROVE  \E p : /\ SetPay(k, p) /\ p.pc = "done" /\ pay[k].pc # "none"
                    /\ delivered' = delivered
  <2>1. pay[k] \in Pay
    BY DEF LedgerTypeOK, RowsTypeOK
  <2>2. [pay[k] EXCEPT !.pc = "done"].pc = "done"
    BY <2>1 DEF Pay
  <2> QED
    BY <1>6, <2>2 DEF FinalizeDelivery
<1>7. ASSUME NEW k \in DOMAIN rows, ManualDelivery(k)
      PROVE  \E p, t : /\ SetPay(k, p) /\ p.pc = "done" /\ pay[k].pc # "none"
                       /\ delivered' = delivered \cup {t}
  <2>1. [NoPay EXCEPT !.pc = "done"].pc = "done"
    BY DEF NoPay
  <2> QED
    BY <1>7, <2>1 DEF ManualDelivery
<1>8. ASSUME NEW k \in DOMAIN rows, ExecuteDelivery(k)
      PROVE  /\ IsFiniteSet(delivered) => IsFiniteSet(delivered')
             /\ delivered \subseteq delivered'
             /\ \A j \in AssetKeys :
                  /\ pay'[j].pc # "none" =>
                       pay[j].pc # "none" \/ (j \in DOMAIN rows /\ rows[j].type # "ant")
                  /\ pay'[j].pc = "paid" =>
                       pay[j].pc = "paid" \/ \E t \in delivered' : t.key = j
  <2>1. PICK t : delivered' = delivered \cup {t} /\ t.key = k
    <3>1. PICK end : delivered' = delivered \cup {Transfer(k, end)}
      BY <1>8 DEF ExecuteDelivery
    <3>2. Transfer(k, end).key = k
      BY DEF Transfer
    <3> QED
      BY <3>1, <3>2
  <2>2. pay \in [AssetKeys -> Pay]
    BY DEF LedgerTypeOK
  <2>3. pay[k].pc # "none" /\ \A j \in AssetKeys : j # k => pay'[j] = pay[j]
    BY <1>8, <2>2 DEF ExecuteDelivery, SetPay
  <2>4. IsFiniteSet(delivered) => IsFiniteSet(delivered')
    BY <2>1, FS_AddElement
  <2> QED
    BY <2>1, <2>3, <2>4
<1>9. ASSUME NEW t, delivered' = delivered \cup {t}
      PROVE  (IsFiniteSet(delivered) => IsFiniteSet(delivered')) /\ delivered \subseteq delivered'
  BY <1>9, FS_AddElement
<1>10. ASSUME NEW k \in DOMAIN rows, Settle(k) \/ ClaimAsset(k), ~ExecuteDelivery(k)
       PROVE  \E p : /\ SetPay(k, p) /\ p.pc # "paid"
                     /\ p.pc = "none" \/ pay[k].pc # "none" \/ rows[k].type # "ant"
                     /\ IsFiniteSet(delivered) => IsFiniteSet(delivered')
                     /\ delivered \subseteq delivered'
  <2>1. CASE ClaimAsset(k) \/ ExpireDelivery(k)
    BY <1>3, <2>1
  <2>2. CASE SignDelivery(k)
    BY <1>4, <2>2
  <2>3. CASE RouteToManualVaultDelivery(k)
    BY <1>5, <2>3
  <2>4. CASE FinalizeDelivery(k)
    BY <1>6, <2>4
  <2>5. CASE ManualDelivery(k)
    BY <1>7, <1>9, <2>5
  <2> QED
    BY <1>10, <2>1, <2>2, <2>3, <2>4, <2>5 DEF Settle
<1>11. \/ UNCHANGED <<pay, delivered>>
       \/ \E k \in DOMAIN rows : Settle(k) \/ ClaimAsset(k)
  BY DEF LedgerNext, StartBuild, CheckLive, WriteLedger, BuildCrash, CancelAsset, Tick, ledgerVars
<1>12. ASSUME NEW k \in DOMAIN rows, Settle(k) \/ ClaimAsset(k), ~ExecuteDelivery(k)
       PROVE  /\ IsFiniteSet(delivered) => IsFiniteSet(delivered')
              /\ delivered \subseteq delivered'
              /\ \A j \in AssetKeys :
                  /\ pay'[j].pc # "none" =>
                       pay[j].pc # "none" \/ (j \in DOMAIN rows /\ rows[j].type # "ant")
                  /\ pay'[j].pc = "paid" =>
                       pay[j].pc = "paid" \/ \E t \in delivered' : t.key = j
  <2>1. PICK p : /\ SetPay(k, p) /\ p.pc # "paid"
                 /\ p.pc = "none" \/ pay[k].pc # "none" \/ rows[k].type # "ant"
                 /\ IsFiniteSet(delivered) => IsFiniteSet(delivered')
                 /\ delivered \subseteq delivered'
    BY <1>10, <1>12
  <2> QED
    BY <1>2, <2>1
<1> QED
  BY <1>1, <1>8, <1>11, <1>12

LEMMA AccountKeeps ==
  ASSUME LedgerTypeOK, LedgerInv, AccountInv, [LedgerNext]_ledgerVars
  PROVE  AccountInv'
<1>1. IsFiniteSet(delivered') /\ delivered \subseteq delivered'
  BY DeliveriesMove DEF AccountInv
\* Rows keep their type once they are being delivered, and only a paid one is claimed.
<1>2. /\ AssetKeys' = AssetKeys
      /\ \A k \in DOMAIN rows :
           rows[k].type # "ant" /\ (pay[k].pc # "none" \/ pay'[k].pc # "none")
             => rows'[k].type # "ant"
      /\ \A k \in DOMAIN rows' : rows'[k].status = "claimed" =>
           k \in DOMAIN rows /\ (rows[k].status = "claimed" \/ pay[k].pc = "paid")
  <2>1. CASE WriteLedger
    <3>1. /\ AssetKeys' = AssetKeys /\ pay' = pay
          /\ \A k \in DOMAIN rows : rows[k].status \notin BuildableStatus => rows'[k] = rows[k]
          /\ \A k \in DOMAIN rows' :
               rows'[k].status = "claimed" => k \in DOMAIN rows /\ rows'[k] = rows[k]
      BY <2>1, WriteLeaves DEF WriteLedger
    <3>2. \A k \in DOMAIN rows : pay[k].pc # "none" => rows[k].status \notin BuildableStatus
      BY DEF LedgerTypeOK, RowsTypeOK, LedgerInv, InDeliveryIsTaken, BuildableStatus, Claimed
    <3> QED
      BY <3>1, <3>2
  <2>2. CASE ~WriteLedger
    BY <2>2, RowsMove
  <2> QED
    BY <2>1, <2>2
<1>3. ASSUME NEW k \in AssetKeys, pay'[k].pc # "none" PROVE rows'[k].type # "ant"
  <2>1. pay[k].pc # "none" => k \in DOMAIN rows /\ rows[k].type # "ant"
    BY DEF AccountInv, LedgerInv, InDeliveryIsTaken
  <2>2. k \in DOMAIN rows /\ rows[k].type # "ant"
    BY <1>3, <2>1, DeliveriesMove
  <2> QED
    BY <1>2, <1>3, <2>2
<1>4. ASSUME NEW k \in AssetKeys,
             pay'[k].pc = "paid" \/ (k \in DOMAIN rows' /\ rows'[k].status = "claimed")
      PROVE  \E t \in delivered' : t.key = k
  <2>1. \/ pay[k].pc = "paid" \/ (k \in DOMAIN rows /\ rows[k].status = "claimed")
        \/ \E t \in delivered' : t.key = k
    BY <1>2, <1>4, DeliveriesMove
  <2> QED
    BY <1>1, <2>1 DEF AccountInv
<1> QED
  BY <1>1, <1>2, <1>3, <1>4 DEF AccountInv

\* The rows the treasury still has to pay, once transfers are looked at.
DueKeys ==
  {k \in DOMAIN rows :
     /\ rows[k].type # "ant"
     /\ rows[k].status \in {"available", "claiming", "pending_review"}
     /\ k \notin {t.key : t \in delivered}}

LEMMA RowsAreFinite ==
  ASSUME LedgerTypeOK
  PROVE  IsFiniteSet(DOMAIN rows) /\ \A k \in DOMAIN rows : rows[k].amount \in Nat
<1>1. IsFiniteSet(inputs)
  BY SnapshotAssumption DEF LedgerTypeOK
<1>2. [item \in inputs |-> AssetKey(item)] \in Surjection(inputs, AssetKeys)
  BY DEF Surjection, AssetKeys
<1>3. IsFiniteSet(AssetKeys)
  BY <1>1, <1>2, FS_Surjection DEF ExistsSurjection
<1>4. DOMAIN rows \subseteq AssetKeys /\ \A k \in DOMAIN rows : rows[k].amount \in Nat
  BY DEF LedgerTypeOK, RowsTypeOK, LedgerRow
<1> QED
  BY <1>3, <1>4, FS_Subset

\* What was delivered, and what its row says.
LEMMA DeliveredRows ==
  ASSUME LedgerTypeOK, LedgerInv, AccountInv, NEW t \in delivered
  PROVE  /\ t.key \in DOMAIN rows /\ t.amount = rows[t.key].amount /\ t.amount \in Nat
         /\ t.key \in ClaimedKeys \cup (OwedKeys \ DueKeys)
<1>1. t.key \in AssetKeys /\ pay[t.key].pc # "none"
  BY DEF LedgerInv, DeliveredIsOver
<1>2. PICK k \in DOMAIN rows : k = t.key /\ rows[k].status \in Claimed \cup {"claimed"}
  BY <1>1 DEF LedgerInv, InDeliveryIsTaken
<1>3. rows[k].type # "ant"
  BY <1>1, <1>2 DEF AccountInv
<1>4. t.amount = rows[k].amount
  BY <1>2 DEF LedgerInv, LockPreserved
<1>5. k \notin DueKeys
  BY <1>2 DEF DueKeys
<1>6. rows[k].status # "claimed" => k \in OwedKeys
  BY <1>2, <1>3 DEF OwedKeys, Owed, Claimed
<1> QED
  BY <1>2, <1>4, <1>5, <1>6, RowsAreFinite DEF ClaimedKeys

LEMMA SumRowsIs ==
  ASSUME LedgerTypeOK, NEW K \in SUBSET DOMAIN rows
  PROVE  IsFiniteSet(K) /\ SumRows(K) \in Nat
<1> DEFINE f == [k \in DOMAIN rows |-> rows[k].amount]
<1>1. IsFiniteSet(K) /\ \A k \in K : f[k] \in Nat
  BY RowsAreFinite, FS_Subset
<1>2. SumRows(K) = SumFunctionOnSet(f, K)
  BY DEF SumRows
<1> HIDE DEF f
<1> QED
  BY <1>1, <1>2, SumNat

LEMMA SumRowsUnion ==
  ASSUME LedgerTypeOK, NEW K \in SUBSET DOMAIN rows, NEW L \in SUBSET DOMAIN rows, K \cap L = {}
  PROVE  SumRows(K \cup L) = SumRows(K) + SumRows(L)
<1> DEFINE f == [k \in DOMAIN rows |-> rows[k].amount]
<1>1. \A k \in K \cup L : f[k] \in Int
  BY RowsAreFinite
<1>2. /\ SumRows(K) = SumFunctionOnSet(f, K) /\ SumRows(L) = SumFunctionOnSet(f, L)
      /\ SumRows(K \cup L) = SumFunctionOnSet(f, K \cup L)
  BY DEF SumRows
<1>3. IsFiniteSet(K) /\ IsFiniteSet(L)
  BY SumRowsIs
<1> HIDE DEF f
<1> QED
  BY <1>1, <1>2, <1>3, SumUnion

\* The transfers cost at least what is claimed, and at most what is claimed or owed.
LEMMA PaidIsAccounted ==
  ASSUME LedgerTypeOK, LedgerInv, AccountInv
  PROVE  /\ Paid \in Nat /\ SumRows(ClaimedKeys) <= Paid
         /\ Paid + SumRows(DueKeys) <= SumRows(ClaimedKeys) + SumRows(OwedKeys)
<1> DEFINE f == [k \in DOMAIN rows |-> rows[k].amount]
           g == [t \in delivered |-> t.amount]
           w == [k \in ClaimedKeys |-> CHOOSE t \in delivered : t.key = k]
           h == [t \in delivered |-> t.key]
           Rest == OwedKeys \ DueKeys
<1>1. /\ ClaimedKeys \subseteq DOMAIN rows /\ OwedKeys \subseteq DOMAIN rows
      /\ DueKeys \subseteq OwedKeys /\ ClaimedKeys \cap Rest = {}
  BY DEF ClaimedKeys, OwedKeys, DueKeys, Owed
<1>2. /\ \A k \in DOMAIN rows : f[k] \in Nat
      /\ \A t \in delivered : /\ g[t] \in Nat /\ h[t] \in ClaimedKeys \cup Rest
                              /\ g[t] = f[h[t]]
  BY RowsAreFinite, DeliveredRows
<1>3. \A k \in ClaimedKeys : w[k] \in delivered /\ f[k] = g[w[k]] /\ k = h[w[k]]
  <2> SUFFICES ASSUME NEW k \in ClaimedKeys
               PROVE  w[k] \in delivered /\ f[k] = g[w[k]] /\ k = h[w[k]]
    OBVIOUS
  <2>1. k \in DOMAIN rows /\ rows[k].status = "claimed" /\ k \in AssetKeys
    BY DEF ClaimedKeys, LedgerTypeOK, RowsTypeOK
  <2>2. \E t \in delivered : t.key = k
    BY <2>1 DEF AccountInv
  <2>3. PICK t \in delivered : t = w[k] /\ t.key = k
    BY <2>2
  <2>4. f[k] = rows[k].amount /\ g[t] = t.amount /\ h[t] = k /\ t.amount = rows[t.key].amount
    BY <2>1, <2>3, DeliveredRows
  <2> HIDE DEF w, f, g, h
  <2> QED
    BY <2>3, <2>4
<1>4. \A t, u \in delivered : h[t] = h[u] => t = u
  BY DEF LedgerInv, AssetDeliveredOnce
<1>5. Paid = SumFunctionOnSet(g, delivered)
  BY DEF Paid, Amounts
<1>6. /\ SumRows(ClaimedKeys) = SumFunctionOnSet(f, ClaimedKeys)
      /\ SumRows(ClaimedKeys \cup Rest) = SumFunctionOnSet(f, ClaimedKeys \cup Rest)
  BY DEF SumRows
<1>7. IsFiniteSet(delivered) /\ IsFiniteSet(ClaimedKeys) /\ IsFiniteSet(ClaimedKeys \cup Rest)
  BY <1>1, SumRowsIs DEF AccountInv
<1>8. Rest \subseteq DOMAIN rows /\ DueKeys \subseteq DOMAIN rows /\ OwedKeys = Rest \cup DueKeys
      /\ Rest \cap DueKeys = {}
  BY <1>1
<1> HIDE DEF f, g, w, h, Rest
<1>9. Paid \in Nat
  BY <1>2, <1>5, <1>7, SumNat
<1>10. SumRows(ClaimedKeys) <= Paid
  <2>1. \A k, l \in ClaimedKeys : w[k] = w[l] => k = l
    BY <1>3
  <2>2. \A k \in ClaimedKeys : f[k] \in Int /\ w[k] \in delivered /\ f[k] <= g[w[k]]
    BY <1>1, <1>2, <1>3
  <2>3. \A t \in delivered : g[t] \in Nat
    BY <1>2
  <2> QED
    BY <1>5, <1>6, <1>7, <2>1, <2>2, <2>3, SumInjects
<1>11. Paid <= SumRows(ClaimedKeys) + SumRows(Rest)
  <2>1. \A t \in delivered : g[t] \in Int /\ h[t] \in ClaimedKeys \cup Rest /\ g[t] <= f[h[t]]
    BY <1>2
  <2>2. \A k \in ClaimedKeys \cup Rest : f[k] \in Nat
    BY <1>1, <1>2, <1>8
  <2>3. Paid <= SumRows(ClaimedKeys \cup Rest)
    BY <1>4, <1>5, <1>6, <1>7, <2>1, <2>2, SumInjects
  <2> QED
    BY <1>1, <1>8, <2>3, SumRowsUnion
<1>12. SumRows(OwedKeys) = SumRows(Rest) + SumRows(DueKeys)
  BY <1>8, SumRowsUnion
<1>13. SumRows(ClaimedKeys) \in Nat /\ SumRows(Rest) \in Nat /\ SumRows(DueKeys) \in Nat
  BY <1>1, <1>8, SumRowsIs
<1> QED
  BY <1>9, <1>10, <1>11, <1>12, <1>13

\* Calm steps take from the sums and add nothing.
LEMMA CalmSums ==
  ASSUME LedgerTypeOK, LedgerTypeOK', LedgerInv, [LedgerNext]_ledgerVars, ~Outdated
  PROVE  /\ SumRows(ClaimedKeys)' <= SumRows(ClaimedKeys)
         /\ SumRows(OwedKeys)' <= SumRows(OwedKeys)
<1> DEFINE f == [k \in DOMAIN rows |-> rows[k].amount]
<1>1. PICK g : g = f'
  OBVIOUS
<1>2. PICK C : C = ClaimedKeys'
  OBVIOUS
<1>3. PICK O : O = OwedKeys'
  OBVIOUS
<1>4. /\ SumRows(ClaimedKeys)' = SumFunctionOnSet(g, C)
      /\ SumRows(OwedKeys)' = SumFunctionOnSet(g, O)
  BY <1>1, <1>2, <1>3 DEF SumRows
<1>5. /\ SumRows(ClaimedKeys) = SumFunctionOnSet(f, ClaimedKeys)
      /\ SumRows(OwedKeys) = SumFunctionOnSet(f, OwedKeys)
  BY DEF SumRows
<1>6. \A k \in DOMAIN rows : f[k] \in Nat /\ g[k] = f[k]
  <2>1. DOMAIN rows' = DOMAIN rows /\ \A k \in DOMAIN rows : rows'[k].amount = rows[k].amount
    BY CalmStep
  <2>2. g = [k \in DOMAIN rows' |-> rows'[k].amount]
    BY <1>1
  <2> QED
    BY <2>1, <2>2, RowsAreFinite
<1>7. C \subseteq ClaimedKeys /\ O \subseteq OwedKeys
  BY <1>2, <1>3, CalmStep
<1>8. ClaimedKeys \subseteq DOMAIN rows /\ OwedKeys \subseteq DOMAIN rows
  BY DEF ClaimedKeys, OwedKeys
<1>9. IsFiniteSet(ClaimedKeys) /\ IsFiniteSet(OwedKeys)
  BY <1>8, SumRowsIs
<1> HIDE DEF f
<1>10. /\ \A k \in C : g[k] \in Int /\ g[k] <= f[k]
       /\ \A k \in O : g[k] \in Int /\ g[k] <= f[k]
       /\ \A k \in ClaimedKeys : f[k] \in Nat
       /\ \A k \in OwedKeys : f[k] \in Nat
  BY <1>6, <1>7, <1>8
<1>11. SumFunctionOnSet(g, C) <= SumFunctionOnSet(f, ClaimedKeys)
  BY <1>7, <1>9, <1>10, SumMonotone
<1>12. SumFunctionOnSet(g, O) <= SumFunctionOnSet(f, OwedKeys)
  BY <1>7, <1>9, <1>10, SumMonotone
<1> QED
  BY <1>4, <1>5, <1>11, <1>12

LEMMA SumsAreInt ==
  ASSUME LedgerTypeOK
  PROVE  SumRows(ClaimedKeys) \in Nat /\ SumRows(OwedKeys) \in Nat
<1>1. ClaimedKeys \subseteq DOMAIN rows /\ OwedKeys \subseteq DOMAIN rows
  BY DEF ClaimedKeys, OwedKeys
<1> QED
  BY <1>1, SumRowsIs

LEMMA ReportInitial == PubInit => ReportInv
BY PublishedAssumption DEF PubInit, ReportInv, NoReport

\* The steps of the report itself, and the refill, change no row.
LEMMA ReadingKeeps ==
  ASSUME LedgerTypeOK, LedgerInv, AccountInv, ReportInv, UNCHANGED ledgerVars,
         \/ UNCHANGED <<cold, report>>
         \/ ComputeReserves \/ ReadHot \/ ReadOwed \/ ReadCold \/ RefillFloat
  PROVE  ReportInv'
<1> DEFINE Report == [pc : {"idle", "reading"}, hot : Int \cup {None}, owed : Int \cup {None},
                      calm : BOOLEAN]
<1>1. SumRows(ClaimedKeys)' = SumRows(ClaimedKeys)
  <2>1. ClaimedKeys' = ClaimedKeys
    BY DEF ledgerVars, ClaimedKeys
  <2> QED
    BY <2>1 DEF ledgerVars, SumRows
<1>2. SumRows(OwedKeys)' = SumRows(OwedKeys)
  <2>1. OwedKeys' = OwedKeys
    BY DEF ledgerVars, OwedKeys, Owed
  <2> QED
    BY <2>1 DEF ledgerVars, SumRows
<1>3. PICK claimed \in Nat : claimed = SumRows(ClaimedKeys)
  BY SumsAreInt
<1>4. PICK owed \in Nat : owed = SumRows(OwedKeys)
  BY SumsAreInt
<1>5. PICK paid \in Nat : paid = Paid /\ claimed <= paid
  BY <1>3, PaidIsAccounted
<1>6. /\ report \in Report /\ cold \in Nat /\ Reserve \in Nat
      /\ report.pc = "reading" /\ report.calm /\ report.hot # None =>
           report.hot + cold <= Reserve - claimed
      /\ report.pc = "reading" /\ report.calm /\ report.owed # None => owed <= report.owed
  BY <1>3, <1>4, PublishedAssumption DEF ReportInv
<1>7. SUFFICES
        /\ report' \in Report /\ cold' \in Nat
        /\ report'.pc = "reading" /\ report'.calm /\ report'.hot # None =>
             report'.hot + cold' <= Reserve - claimed
        /\ report'.pc = "reading" /\ report'.calm /\ report'.owed # None => owed <= report'.owed
  BY <1>1, <1>2, <1>3, <1>4 DEF ReportInv
<1>8. CASE UNCHANGED <<cold, report>>
  BY <1>6, <1>8
<1>9. CASE ComputeReserves \/ ReadCold
  <2>1. PICK pc \in {"idle", "reading"} :
          report' = [pc |-> pc, hot |-> None, owed |-> None, calm |-> TRUE]
    BY <1>9 DEF ComputeReserves, ReadCold, NoReport
  <2>2. cold' = cold
    BY <1>9 DEF ComputeReserves, ReadCold
  <2>3. report' \in Report /\ report'.hot = None /\ report'.owed = None
    BY <2>1
  <2> HIDE DEF Report
  <2> QED
    BY <1>6, <2>2, <2>3
<1>10. CASE ReadHot
  <2>1. PICK hot \in Int : hot = Reserve - cold - paid
    BY <1>6
  <2>2. report' = [report EXCEPT !.hot = hot] /\ cold' = cold
    BY <1>5, <1>10, <2>1 DEF ReadHot, Hot
  <2>3. hot + cold <= Reserve - claimed
    BY <1>5, <1>6, <2>1
  <2> QED
    BY <1>6, <2>2, <2>3
<1>11. CASE ReadOwed
  <2>1. report' = [report EXCEPT !.owed = owed] /\ cold' = cold
    BY <1>4, <1>11 DEF ReadOwed, ReadLiabilities, OwedKeys
  <2> QED
    BY <1>6, <2>1
<1>12. CASE RefillFloat
  <2>1. report' = report /\ cold' = 0
    BY <1>12 DEF RefillFloat
  <2>2. ASSUME report.pc = "reading", report.calm, report.hot # None
        PROVE  report.hot + 0 <= Reserve - claimed
    <3>1. PICK hot \in Int : hot = report.hot
      BY <1>6, <2>2
    <3>2. hot + cold <= Reserve - claimed /\ cold \in Nat
      BY <1>6, <2>2, <3>1
    <3> QED
      BY <1>6, <3>1, <3>2
  <2>3. cold' \in Nat
    BY <2>1
  <2> HIDE DEF Report
  <2> QED
    BY <1>6, <2>1, <2>2, <2>3
<1> QED
  BY <1>8, <1>9, <1>10, <1>11, <1>12

LEMMA ReportKeeps ==
  ASSUME LedgerTypeOK, LedgerTypeOK', LedgerInv, AccountInv, ReportInv, LedgerStep
  PROVE  ReportInv'
<1>1. /\ LedgerNext /\ cold' = cold
      /\ report' = IF report.pc = "reading" /\ Outdated THEN [report EXCEPT !.calm = FALSE]
                   ELSE report
  BY DEF LedgerStep
<1>2. CASE report.pc = "reading" /\ Outdated
  <2>1. report' = [report EXCEPT !.calm = FALSE]
    BY <1>1, <1>2
  <2>2. /\ report' \in [pc : {"idle", "reading"}, hot : Int \cup {None}, owed : Int \cup {None},
                        calm : BOOLEAN]
        /\ report'.calm = FALSE
    BY <2>1 DEF ReportInv
  <2> QED
    BY <1>1, <2>2 DEF ReportInv
<1>3. CASE report.pc # "reading"
  BY <1>1, <1>3 DEF ReportInv
<1>4. CASE ~Outdated
  <2>1. PICK claimed \in Nat : claimed = SumRows(ClaimedKeys)
    BY SumsAreInt
  <2>2. PICK owed \in Nat : owed = SumRows(OwedKeys)
    BY SumsAreInt
  <2>3. SumRows(ClaimedKeys)' \in Nat /\ SumRows(OwedKeys)' \in Nat
    <3>1. (SumRows(ClaimedKeys) \in Nat /\ SumRows(OwedKeys) \in Nat)'
      BY SumsAreInt, PTL
    <3> QED
      BY <3>1
  <2>4. SumRows(ClaimedKeys)' <= claimed /\ SumRows(OwedKeys)' <= owed
    BY <1>1, <1>4, <2>1, <2>2, CalmSums
  <2>5. PICK later \in Nat : later = SumRows(ClaimedKeys)' /\ later <= claimed
    BY <2>3, <2>4
  <2>6. PICK due \in Nat : due = SumRows(OwedKeys)' /\ due <= owed
    BY <2>3, <2>4
  <2>7. /\ report' = report /\ Reserve \in Nat /\ cold \in Nat
        /\ report \in [pc : {"idle", "reading"}, hot : Int \cup {None}, owed : Int \cup {None},
                       calm : BOOLEAN]
        /\ report.pc = "reading" /\ report.calm /\ report.hot # None =>
             report.hot + cold <= Reserve - claimed
        /\ report.pc = "reading" /\ report.calm /\ report.owed # None => owed <= report.owed
    BY <1>1, <1>4, <2>1, <2>2, PublishedAssumption DEF ReportInv
  <2>8. /\ report.hot # None => report.hot \in Int
        /\ report.owed # None => report.owed \in Int
    BY <2>7
  <2>9. /\ report.pc = "reading" /\ report.calm /\ report.hot # None =>
             report.hot + cold <= Reserve - later
        /\ report.pc = "reading" /\ report.calm /\ report.owed # None => due <= report.owed
    BY <2>5, <2>6, <2>7, <2>8
  <2> QED
    BY <1>1, <2>5, <2>6, <2>7, <2>9 DEF ReportInv
<1> QED
  BY <1>2, <1>3, <1>4

LEMMA ReportInvariant == PubSpec => [](LedgerTypeOK /\ LedgerInv /\ AccountInv /\ ReportInv)
<1>1. PubInit => LedgerTypeOK /\ LedgerInv /\ AccountInv /\ ReportInv
  BY LedgerInitial, AccountInitial, ReportInitial DEF PubInit
<1>2. ASSUME LedgerTypeOK, LedgerInv, AccountInv, ReportInv, [PubNext]_allVars
      PROVE  LedgerTypeOK' /\ LedgerInv' /\ AccountInv' /\ ReportInv'
  <2>1. [LedgerNext]_ledgerVars
    BY <1>2 DEF PubNext, LedgerStep, PublishLedger, ComputeReserves, ReadHot, ReadOwed, ReadCold,
                RefillFloat, allVars, ledgerVars
  <2>2. LedgerTypeOK' /\ LedgerInv' /\ AccountInv'
    BY <1>2, <2>1, LedgerStepKeeps, AccountKeeps
  <2>3. \/ LedgerStep
        \/ /\ UNCHANGED ledgerVars
           /\ \/ UNCHANGED <<cold, report>>
              \/ ComputeReserves \/ ReadHot \/ ReadOwed \/ ReadCold \/ RefillFloat
    BY <1>2 DEF PubNext, PublishLedger, ComputeReserves, ReadHot, ReadOwed, ReadCold, RefillFloat,
                allVars, pubVars
  <2> QED
    BY <1>2, <2>2, <2>3, ReportKeeps, ReadingKeeps
<1> QED
  BY <1>1, <1>2, PTL DEF PubSpec

\* Whatever transfers execute and however the float is refilled while its figures
\* are read, the reserves report shows no more surplus than there is: what left the
\* treasury is either claimed, which the balance has paid, or still owed by a row.
\* For any inputs and reserve, and any number of builds and claims; a claim
\* finalized or a ledger built between the reads is the exception.
THEOREM ReportsAreCautious == PubSpec => ReportsNeverOverstate
<1>1. ASSUME LedgerTypeOK, LedgerInv, AccountInv, ReportInv, [PubNext]_allVars
      PROVE  [report.pc = "reading" /\ report'.pc = "idle" /\ report.calm =>
                report.hot + cold - report.owed <= Solvency]_allVars
  <2> SUFFICES ASSUME report.pc = "reading", report'.pc = "idle", report.calm
               PROVE  report.hot + cold - report.owed <= Solvency
    OBVIOUS
  <2>1. report \in [pc : {"idle", "reading"}, hot : Int \cup {None}, owed : Int \cup {None},
                    calm : BOOLEAN]
    BY <1>1 DEF ReportInv
  <2>2. ReadCold
    <3>1. report' # report
      OBVIOUS
    <3>2. ~LedgerStep
      BY <2>1 DEF LedgerStep
    <3> QED
      BY <1>1, <2>1, <3>1, <3>2 DEF PubNext, PublishLedger, ComputeReserves, ReadHot, ReadOwed,
                                    RefillFloat, allVars, pubVars
  <2>3. report.hot # None /\ report.owed # None
    BY <2>2 DEF ReadCold
  <2>4. PICK hot \in Int : hot = report.hot
    BY <2>1, <2>3
  <2>5. PICK owed \in Int : owed = report.owed
    BY <2>1, <2>3
  <2>6. /\ hot + cold <= Reserve - SumRows(ClaimedKeys) /\ SumRows(OwedKeys) <= owed
        /\ cold \in Nat /\ Reserve \in Nat
    BY <1>1, <2>3, <2>4, <2>5, PublishedAssumption DEF ReportInv
  <2>7. PICK due \in Nat : due = SumRows(DueKeys)
    <3>1. DueKeys \subseteq DOMAIN rows
      BY DEF DueKeys
    <3> QED
      BY <1>1, <3>1, SumRowsIs
  <2>8. /\ Paid \in Nat /\ SumRows(ClaimedKeys) \in Nat /\ SumRows(OwedKeys) \in Nat
        /\ Paid + due <= SumRows(ClaimedKeys) + SumRows(OwedKeys)
    BY <1>1, <2>7, PaidIsAccounted, SumsAreInt
  <2>9. Solvency = Reserve - Paid - due
    BY <2>7 DEF Solvency, DueKeys
  <2>10. hot + cold - owed <= Reserve - Paid - due
    BY <2>6, <2>7, <2>8
  <2> QED
    BY <2>4, <2>5, <2>9, <2>10
<1> QED
  BY <1>1, ReportInvariant, PTL DEF PubSpec, ReportsNeverOverstate

-----------------------------------------------------------------------------
(***************************************************************************)
(* The Merkle tree.  Its nodes are the hashes of all its rows; the root is *)
(* the only one of the last row, every node is below the root, and leaves  *)
(* and inner nodes are told apart by their tags.                           *)
(***************************************************************************)

IsRow(row, m) == m \in Nat /\ row = [i \in 1 .. m |-> row[i]]

\* The nodes that s and the rows above it hold.
Nodes(s) == UNION {{Rows(s)[n][i] : i \in DOMAIN Rows(s)[n]} : n \in 0 .. Len(s)}

\* Only leaves are hashed.
IsLeafRow(s) == \A i \in DOMAIN s : \E d : s[i] = HashLeaf(d)

LEMMA RowIs ==
  ASSUME NEW row, NEW m, IsRow(row, m)
  PROVE  Len(row) = m /\ DOMAIN row = 1 .. m
<1>1. row \in Seq({row[i] : i \in 1 .. m}) /\ DOMAIN row = 1 .. m
  BY DEF IsRow
<1> QED
  BY <1>1 DEF IsRow

LEMMA Halves ==
  ASSUME NEW m \in Nat \ {0}
  PROVE  /\ (m + 1) \div 2 \in Nat \ {0}
         /\ m > 1 => (m + 1) \div 2 < m
         /\ m = 1 => (m + 1) \div 2 = 1
         /\ \A i \in 1 .. m : (i + 1) \div 2 \in 1 .. (m + 1) \div 2
         /\ \A i \in 1 .. (m + 1) \div 2 : 2 * i - 1 \in 1 .. m
<1>1. PICK h \in Int : h = (m + 1) \div 2
  OBVIOUS
<1>2. 2 * h <= m + 1 /\ m + 1 < 2 * h + 2
  BY <1>1
<1>3. ASSUME NEW i \in 1 .. m PROVE (i + 1) \div 2 \in 1 .. h
  <2>1. PICK j \in Int : j = (i + 1) \div 2
    OBVIOUS
  <2>2. 2 * j <= i + 1 /\ i + 1 < 2 * j + 2
    BY <2>1
  <2> QED
    BY <1>2, <2>1, <2>2
<1> QED
  BY <1>1, <1>2, <1>3

LEMMA NextLevelIs ==
  ASSUME NEW row, NEW m \in Nat \ {0}, IsRow(row, m)
  PROVE  /\ IsRow(NextLevel(row), (m + 1) \div 2)
         /\ \A i \in 1 .. (m + 1) \div 2 :
              NextLevel(row)[i] = IF 2 * i <= m THEN HashNode(row[2 * i - 1], row[2 * i])
                                  ELSE row[2 * i - 1]
<1>1. Len(row) = m
  BY RowIs
<1>2. PICK h \in Nat : h = (m + 1) \div 2
  BY Halves
<1>3. NextLevel(row) = [i \in 1 .. h |->
         IF 2 * i <= m THEN HashNode(row[2 * i - 1], row[2 * i]) ELSE row[2 * i - 1]]
  BY <1>1, <1>2 DEF NextLevel
<1>4. PICK next : next = NextLevel(row)
  OBVIOUS
<1>5. next = [i \in 1 .. h |-> next[i]]
  BY <1>3, <1>4
<1> QED
  BY <1>2, <1>3, <1>4, <1>5 DEF IsRow

-----------------------------------------------------------------------------
\* The recursions of the tree: what their functions are defined by.

RowsUpTo(s, N, g) == g = [n \in 0 .. N |-> IF n = 0 THEN s ELSE NextLevel(g[n - 1])]

LEMMA RowsExist ==
  ASSUME NEW s, NEW N \in Nat
  PROVE  \E g : RowsUpTo(s, N, g)
<1> DEFINE Good == {n \in 0 .. N : \E g : RowsUpTo(s, n, g)}
<1>1. 0 \in Good
  <2>1. RowsUpTo(s, 0, [n \in 0 .. 0 |-> s])
    BY DEF RowsUpTo
  <2> QED
    BY <2>1
<1>2. ASSUME NEW k \in 0 .. N, k \in Good, k < N PROVE k + 1 \in Good
  <2>1. PICK g : RowsUpTo(s, k, g)
    BY <1>2
  <2>2. PICK f : f = [n \in 0 .. k + 1 |-> IF n = k + 1 THEN NextLevel(g[k]) ELSE g[n]]
    OBVIOUS
  <2>3. \A n \in 0 .. k : g[n] = IF n = 0 THEN s ELSE NextLevel(g[n - 1])
    BY <2>1 DEF RowsUpTo
  <2>4. ASSUME NEW n \in 0 .. k + 1 PROVE f[n] = IF n = 0 THEN s ELSE NextLevel(f[n - 1])
    <3>1. CASE n = k + 1
      <4>1. f[n] = NextLevel(g[k]) /\ f[k] = g[k] /\ n # 0 /\ n - 1 = k
        BY <2>2, <3>1
      <4> QED
        BY <4>1
    <3>2. CASE n # k + 1
      <4>1. n \in 0 .. k /\ f[n] = g[n]
        BY <2>2, <3>2
      <4>2. n # 0 => n - 1 \in 0 .. k + 1 /\ n - 1 # k + 1
        BY <3>2
      <4>3. n # 0 => f[n - 1] = g[n - 1]
        BY <2>2, <4>2
      <4> QED
        BY <2>3, <4>1, <4>3
    <3> QED
      BY <3>1, <3>2
  <2>5. f = [n \in 0 .. k + 1 |-> f[n]]
    BY <2>2
  <2>6. RowsUpTo(s, k + 1, f)
    BY <2>4, <2>5 DEF RowsUpTo
  <2>7. k + 1 \in 0 .. N
    BY <1>2
  <2> QED
    BY <2>6, <2>7
<1> HIDE DEF Good
<1>3. N \in Good
  BY <1>1, <1>2, UpTo
<1> QED
  BY <1>3 DEF Good

LEMMA RowsAre ==
  ASSUME NEW s, NEW N \in Nat, Len(s) = N
  PROVE  Rows(s)[0] = s /\ \A n \in 0 .. N : n > 0 => Rows(s)[n] = NextLevel(Rows(s)[n - 1])
<1>1. PICK g : g = Rows(s) /\ RowsUpTo(s, N, g)
  <2>1. Rows(s) = CHOOSE g : RowsUpTo(s, N, g)
    BY DEF Rows, RowsUpTo
  <2> QED
    BY <2>1, RowsExist
<1>2. \A n \in 0 .. N : g[n] = IF n = 0 THEN s ELSE NextLevel(g[n - 1])
  BY <1>1 DEF RowsUpTo
<1> QED
  BY <1>1, <1>2

\* Rows shrink to one node.
LEMMA Widths ==
  ASSUME NEW s, NEW N \in Nat \ {0}, IsRow(s, N)
  PROVE  /\ \A n \in 0 .. N : \E m \in Nat \ {0} : IsRow(Rows(s)[n], m) /\ (m = 1 \/ m <= N - n)
         /\ IsRow(Rows(s)[N], 1)
<1> DEFINE Good == {n \in 0 .. N :
             \E m \in Nat \ {0} : IsRow(Rows(s)[n], m) /\ (m = 1 \/ m <= N - n)}
<1>1. /\ Rows(s)[0] = s
      /\ \A n \in 0 .. N : n > 0 => Rows(s)[n] = NextLevel(Rows(s)[n - 1])
  BY RowIs, RowsAre
<1>2. 0 \in Good
  BY <1>1
<1>3. ASSUME NEW n \in 0 .. N, n \in Good, n < N PROVE n + 1 \in Good
  <2>1. PICK m \in Nat \ {0} : IsRow(Rows(s)[n], m) /\ (m = 1 \/ m <= N - n)
    BY <1>3
  <2>2. n + 1 \in 0 .. N /\ n + 1 > 0 /\ (n + 1) - 1 = n
    BY <1>3
  <2>3. Rows(s)[n + 1] = NextLevel(Rows(s)[n])
    BY <1>1, <2>2
  <2>4. PICK h \in Nat \ {0} : h = (m + 1) \div 2 /\ (m > 1 => h < m) /\ (m = 1 => h = 1)
    BY Halves
  <2>5. IsRow(Rows(s)[n + 1], h)
    BY <2>1, <2>3, <2>4, NextLevelIs
  <2>6. h = 1 \/ h <= N - (n + 1)
    BY <2>1, <2>4
  <2> QED
    BY <2>2, <2>5, <2>6
<1> HIDE DEF Good
<1>4. \A n \in 0 .. N : n \in Good
  BY <1>2, <1>3, UpTo
<1>5. N \in Good
  BY <1>4
<1>6. PICK m \in Nat \ {0} : IsRow(Rows(s)[N], m) /\ (m = 1 \/ m <= N - N)
  BY <1>5 DEF Good
<1>7. m = 1
  BY <1>6
<1> QED
  BY <1>4, <1>6, <1>7 DEF Good

\* A node is inner or a leaf, by its tag; the two parts of an inner node are known.
LEMMA HashesDiffer ==
  /\ \A d, l, r : HashLeaf(d) # HashNode(l, r)
  /\ \A d : HashLeaf(d) # NoLeaves
  /\ \A l, r : HashNode(l, r) # NoLeaves
  /\ \A c, d : HashLeaf(c) = HashLeaf(d) => c = d
  /\ \A l, r, p, q : HashNode(l, r) = HashNode(p, q) => l = p /\ r = q
BY DEF HashLeaf, HashNode, NoLeaves

\* Two nodes of a row make one of the next, or one is promoted.
Pairs(below, above, m) ==
  /\ DOMAIN below = 1 .. m /\ DOMAIN above = 1 .. (m + 1) \div 2
  /\ \A i \in 1 .. (m + 1) \div 2 :
       above[i] = IF 2 * i <= m THEN HashNode(below[2 * i - 1], below[2 * i])
                  ELSE below[2 * i - 1]

LEMMA RowAbove ==
  ASSUME NEW s, NEW N \in Nat \ {0}, IsRow(s, N), NEW n \in 0 .. N, n < N
  PROVE  \E m \in Nat \ {0} : IsRow(Rows(s)[n], m) /\ Pairs(Rows(s)[n], Rows(s)[n + 1], m)
<1>1. PICK m \in Nat \ {0} : IsRow(Rows(s)[n], m)
  BY Widths
<1>2. n + 1 \in 0 .. N /\ n + 1 > 0 /\ (n + 1) - 1 = n
  OBVIOUS
<1>3. Rows(s)[n + 1] = NextLevel(Rows(s)[n])
  BY <1>2, RowIs, RowsAre
<1>4. DOMAIN Rows(s)[n] = 1 .. m /\ DOMAIN Rows(s)[n + 1] = 1 .. (m + 1) \div 2
  BY <1>1, <1>3, NextLevelIs, RowIs
<1> QED
  BY <1>1, <1>3, <1>4, NextLevelIs DEF Pairs

LEMMA NodesOfRow ==
  ASSUME NEW s, NEW N \in Nat, Len(s) = N, NEW n \in 0 .. N, NEW i \in DOMAIN Rows(s)[n]
  PROVE  Rows(s)[n][i] \in Nodes(s)
BY DEF Nodes

LEMMA NodesAreBuilt ==
  ASSUME NEW s, NEW N \in Nat \ {0}, IsRow(s, N), IsLeafRow(s), NEW x \in Nodes(s)
  PROVE  /\ \A l, r : x = HashNode(l, r) => l \in Nodes(s) /\ r \in Nodes(s)
         /\ \A d : x = HashLeaf(d) => \E i \in DOMAIN s : x = s[i]
<1> DEFINE Grown(y) == /\ \A l, r : y = HashNode(l, r) => l \in Nodes(s) /\ r \in Nodes(s)
                       /\ \A d : y = HashLeaf(d) => \E i \in DOMAIN s : y = s[i]
           Good == {n \in 0 .. N : \A i \in DOMAIN Rows(s)[n] : Grown(Rows(s)[n][i])}
<1>0. Len(s) = N
  BY RowIs
<1>1. 0 \in Good
  <2>1. Rows(s)[0] = s
    BY <1>0, RowsAre
  <2>2. ASSUME NEW i \in DOMAIN s PROVE Grown(s[i])
    BY HashesDiffer DEF IsLeafRow
  <2> HIDE DEF Grown
  <2> QED
    BY <2>1, <2>2
<1>2. ASSUME NEW n \in 0 .. N, n \in Good, n < N PROVE n + 1 \in Good
  <2> DEFINE below == Rows(s)[n]
             above == Rows(s)[n + 1]
  <2>pairs. PICK m \in Nat \ {0} : Pairs(below, above, m)
    BY <1>2, RowAbove
  <2>1. /\ DOMAIN below = 1 .. m
        /\ DOMAIN above = 1 .. (m + 1) \div 2
        /\ \A i \in 1 .. (m + 1) \div 2 :
             above[i] = IF 2 * i <= m THEN HashNode(below[2 * i - 1], below[2 * i])
                        ELSE below[2 * i - 1]
    BY <2>pairs DEF Pairs
  <2>2. \A i \in 1 .. m : below[i] \in Nodes(s) /\ Grown(below[i])
    BY <1>0, <1>2, <2>1, NodesOfRow
  <2> HIDE DEF below, above
  <2>3. ASSUME NEW i \in 1 .. (m + 1) \div 2 PROVE Grown(above[i])
    <3>1. 2 * i - 1 \in 1 .. m
      BY Halves
    <3>2. CASE 2 * i <= m
      <4>1. 2 * i \in 1 .. m
        BY <3>1, <3>2
      <4>2. above[i] = HashNode(below[2 * i - 1], below[2 * i])
        BY <2>1, <3>2
      <4>3. below[2 * i - 1] \in Nodes(s) /\ below[2 * i] \in Nodes(s)
        BY <2>2, <3>1, <4>1
      <4> QED
        BY <4>2, <4>3, HashesDiffer
    <3>3. CASE ~(2 * i <= m)
      <4>1. above[i] = below[2 * i - 1]
        BY <2>1, <3>3
      <4> HIDE DEF Grown
      <4> QED
        BY <2>2, <3>1, <4>1
    <3> QED
      BY <3>2, <3>3
  <2>4. n + 1 \in 0 .. N
    BY <1>2
  <2> HIDE DEF Grown
  <2> QED
    BY <2>1, <2>3, <2>4 DEF above
<1> HIDE DEF Good
<1>3. \A n \in 0 .. N : n \in Good
  BY <1>1, <1>2, UpTo
<1>4. PICK n \in 0 .. N : \E i \in DOMAIN Rows(s)[n] : x = Rows(s)[n][i]
  BY <1>0 DEF Nodes
<1>5. Grown(x)
  BY <1>3, <1>4 DEF Good
<1> QED
  BY <1>5

\* Every node is below the root.
LEMMA NodesAreReached ==
  ASSUME NEW s, NEW N \in Nat \ {0}, IsRow(s, N),
         NEW C, Rows(s)[N][1] \in C,
         \A l, r : HashNode(l, r) \in C => l \in C /\ r \in C
  PROVE  Nodes(s) \subseteq C
<1> DEFINE Good == {n \in 0 .. N : \A i \in DOMAIN Rows(s)[n] : Rows(s)[n][i] \in C}
<1>0. Len(s) = N
  BY RowIs
<1>1. N \in Good
  <2>1. IsRow(Rows(s)[N], 1)
    BY Widths
  <2>2. DOMAIN Rows(s)[N] = 1 .. 1
    BY <2>1, RowIs
  <2> QED
    BY <2>2
<1>2. ASSUME NEW n \in 0 .. N, n \in Good, n > 0 PROVE n - 1 \in Good
  <2>0. PICK k \in 0 .. N : k = n - 1 /\ k < N /\ k + 1 = n
    BY <1>2
  <2> DEFINE below == Rows(s)[k]
             above == Rows(s)[k + 1]
  <2>pairs. PICK m \in Nat \ {0} : Pairs(below, above, m)
    BY <2>0, RowAbove
  <2>1. /\ DOMAIN below = 1 .. m
        /\ DOMAIN above = 1 .. (m + 1) \div 2
        /\ \A i \in 1 .. (m + 1) \div 2 :
             above[i] = IF 2 * i <= m THEN HashNode(below[2 * i - 1], below[2 * i])
                        ELSE below[2 * i - 1]
    BY <2>pairs DEF Pairs
  <2>2. \A i \in 1 .. (m + 1) \div 2 : above[i] \in C
    BY <1>2, <2>0, <2>1
  <2> HIDE DEF below, above
  <2>3. ASSUME NEW i \in 1 .. m PROVE below[i] \in C
    <3>1. PICK j \in 1 .. (m + 1) \div 2 : j = (i + 1) \div 2
      BY Halves
    <3>2. above[j] \in C
      BY <2>2
    <3>3. (i = 2 * j - 1 \/ i = 2 * j) /\ (i = 2 * j => 2 * j <= m)
      BY <3>1
    <3>4. CASE 2 * j <= m
      <4>1. above[j] = HashNode(below[2 * j - 1], below[2 * j])
        BY <2>1, <3>4
      <4>2. below[2 * j - 1] \in C /\ below[2 * j] \in C
        BY <3>2, <4>1
      <4> QED
        BY <3>3, <4>2
    <3>5. CASE ~(2 * j <= m)
      <4>1. above[j] = below[2 * j - 1] /\ i = 2 * j - 1
        BY <2>1, <3>3, <3>5
      <4> QED
        BY <3>2, <4>1
    <3> QED
      BY <3>4, <3>5
  <2> QED
    BY <2>0, <2>1, <2>3 DEF below
<1> HIDE DEF Good
<1>3. \A n \in 0 .. N : n \in Good
  BY <1>1, <1>2, DownFrom
<1> QED
  BY <1>0, <1>3 DEF Good, Nodes

LEMMA LeavesAreNodes ==
  ASSUME NEW s, NEW N \in Nat \ {0}, IsRow(s, N), IsLeafRow(s)
  PROVE  /\ MerkleRoot(s) = Rows(s)[N][1] /\ Rows(s)[N][1] \in Nodes(s)
         /\ \A i \in DOMAIN s : s[i] \in Nodes(s) /\ \E d : s[i] = HashLeaf(d)
<1>1. Len(s) = N /\ Rows(s)[0] = s
  BY RowIs, RowsAre
<1>2. DOMAIN Rows(s)[N] = 1 .. 1
  BY Widths, RowIs
<1>3. s # <<>>
  BY <1>1
<1> QED
  BY <1>1, <1>2, <1>3, NodesOfRow DEF MerkleRoot, IsLeafRow

\* Equal roots, equal leaves: whoever commits to a root commits to the set of the
\* leaf hashes under it, whatever the number of leaves and with odd rows promoted.
\* No node can pass for a leaf and no two shapes of a tree share a root.
THEOREM RootBindsLeaves ==
  ASSUME NEW s, NEW N \in Nat \ {0}, IsRow(s, N), IsLeafRow(s),
         NEW t, NEW M \in Nat \ {0}, IsRow(t, M), IsLeafRow(t),
         MerkleRoot(s) = MerkleRoot(t)
  PROVE  \A i \in DOMAIN s : \E j \in DOMAIN t : s[i] = t[j]
<1>1. Rows(s)[N][1] \in Nodes(t)
  BY LeavesAreNodes
<1>2. \A l, r : HashNode(l, r) \in Nodes(t) => l \in Nodes(t) /\ r \in Nodes(t)
  BY NodesAreBuilt
<1>3. Nodes(s) \subseteq Nodes(t)
  BY <1>1, <1>2, NodesAreReached
<1>4. ASSUME NEW i \in DOMAIN s PROVE \E j \in DOMAIN t : s[i] = t[j]
  <2>1. s[i] \in Nodes(t) /\ \E d : s[i] = HashLeaf(d)
    BY <1>3, LeavesAreNodes
  <2> QED
    BY <2>1, NodesAreBuilt
<1> QED
  BY <1>4

\* The same for the way up from one leaf.
PathUpTo(s, index, N, g) ==
  g = [n \in 0 .. N |-> IF n = 0 THEN [i |-> index, steps |-> <<>>]
                        ELSE Ascend(g[n - 1], Rows(s)[n - 1])]

LEMMA PathExists ==
  ASSUME NEW s, NEW index, NEW N \in Nat
  PROVE  \E g : PathUpTo(s, index, N, g)
<1> DEFINE start == [i |-> index, steps |-> <<>>]
           Up(at, n) == Ascend(at, Rows(s)[n])
           Good == {n \in 0 .. N : \E g : PathUpTo(s, index, n, g)}
<1>1. 0 \in Good
  <2>1. PathUpTo(s, index, 0, [n \in 0 .. 0 |-> start])
    BY DEF PathUpTo
  <2> QED
    BY <2>1
<1>2. ASSUME NEW k \in 0 .. N, k \in Good, k < N PROVE k + 1 \in Good
  <2>1. PICK g : PathUpTo(s, index, k, g)
    BY <1>2
  <2>2. PICK f : f = [n \in 0 .. k + 1 |-> IF n = k + 1 THEN Up(g[k], k) ELSE g[n]]
    OBVIOUS
  <2>3. \A n \in 0 .. k : g[n] = IF n = 0 THEN start ELSE Up(g[n - 1], n - 1)
    BY <2>1 DEF PathUpTo
  <2> HIDE DEF Up, start
  <2>4. ASSUME NEW n \in 0 .. k + 1 PROVE f[n] = IF n = 0 THEN start ELSE Up(f[n - 1], n - 1)
    <3>1. CASE n = k + 1
      <4>1. f[n] = Up(g[k], k) /\ f[k] = g[k] /\ n # 0 /\ n - 1 = k
        BY <2>2, <3>1
      <4> QED
        BY <4>1
    <3>2. CASE n # k + 1
      <4>1. n \in 0 .. k /\ f[n] = g[n]
        BY <2>2, <3>2
      <4>2. n # 0 => n - 1 \in 0 .. k + 1 /\ n - 1 # k + 1
        BY <3>2
      <4>3. n # 0 => f[n - 1] = g[n - 1]
        BY <2>2, <4>2
      <4> QED
        BY <2>3, <4>1, <4>3
    <3> QED
      BY <3>1, <3>2
  <2>5. f = [n \in 0 .. k + 1 |-> f[n]]
    BY <2>2
  <2>6. PathUpTo(s, index, k + 1, f)
    BY <2>4, <2>5 DEF PathUpTo, Up, start
  <2>7. k + 1 \in 0 .. N
    BY <1>2
  <2> QED
    BY <2>6, <2>7
<1> HIDE DEF Good
<1>3. N \in Good
  BY <1>1, <1>2, UpTo
<1> QED
  BY <1>3 DEF Good

Climbs(s, index, N) ==
  /\ Path(s, index)[0] = [i |-> index, steps |-> <<>>]
  /\ \A n \in 0 .. N :
       n < N => Path(s, index)[n + 1] = Ascend(Path(s, index)[n], Rows(s)[n])

LEMMA PathIs ==
  ASSUME NEW s, NEW index, NEW N \in Nat, Len(s) = N
  PROVE  Climbs(s, index, N)
<1>1. PICK g : g = Path(s, index) /\ PathUpTo(s, index, N, g)
  <2>1. Path(s, index) = CHOOSE g : PathUpTo(s, index, N, g)
    BY DEF Path, PathUpTo
  <2> QED
    BY <2>1, PathExists
<1>2. \A n \in 0 .. N : g[n] = IF n = 0 THEN [i |-> index, steps |-> <<>>]
                               ELSE Ascend(g[n - 1], Rows(s)[n - 1])
  BY <1>1 DEF PathUpTo
<1>3. g[0] = [i |-> index, steps |-> <<>>]
  BY <1>2
<1>4. ASSUME NEW n \in 0 .. N, n < N PROVE g[n + 1] = Ascend(g[n], Rows(s)[n])
  <2>1. n + 1 \in 0 .. N /\ n + 1 # 0 /\ (n + 1) - 1 = n
    BY <1>4
  <2> QED
    BY <1>2, <2>1
<1> QED
  BY <1>1, <1>3, <1>4 DEF Climbs

\* And for what a verifier folds.
Folds(h, proof, g) ==
  g = [n \in 0 .. Len(proof) |-> IF n = 0 THEN h ELSE Hashed(g[n - 1], proof[n])]

LEMMA FoldsAgree ==
  ASSUME NEW h, NEW proof, Len(proof) \in Nat, NEW g, Folds(h, proof, g), NEW f, Folds(h, proof, f)
  PROVE  g = f
<1> DEFINE Good == {n \in 0 .. Len(proof) : g[n] = f[n]}
<1>1. /\ \A n \in 0 .. Len(proof) : g[n] = IF n = 0 THEN h ELSE Hashed(g[n - 1], proof[n])
      /\ \A n \in 0 .. Len(proof) : f[n] = IF n = 0 THEN h ELSE Hashed(f[n - 1], proof[n])
      /\ g = [n \in 0 .. Len(proof) |-> g[n]]
      /\ f = [n \in 0 .. Len(proof) |-> f[n]]
  BY DEF Folds
<1>2. 0 \in Good
  BY <1>1
<1>3. ASSUME NEW n \in 0 .. Len(proof), n \in Good, n < Len(proof) PROVE n + 1 \in Good
  <2>1. n + 1 \in 0 .. Len(proof) /\ n + 1 # 0 /\ (n + 1) - 1 = n
    BY <1>3
  <2> QED
    BY <1>1, <1>3, <2>1
<1> HIDE DEF Good
<1>4. \A n \in 0 .. Len(proof) : n \in Good
  BY <1>2, <1>3, UpTo
<1> QED
  BY <1>1, <1>4 DEF Good

LEMMA FoldExists ==
  ASSUME NEW h, NEW proof, Len(proof) \in Nat
  PROVE  Folds(h, proof, Folded(h, proof))
<1> DEFINE Part(k, g) == g = [n \in 0 .. k |-> IF n = 0 THEN h ELSE Hashed(g[n - 1], proof[n])]
           Good == {k \in 0 .. Len(proof) : \E g : Part(k, g)}
<1>1. 0 \in Good
  <2>1. PICK g : g = [n \in 0 .. 0 |-> h]
    OBVIOUS
  <2>2. Part(0, g)
    BY <2>1
  <2>3. 0 \in 0 .. Len(proof)
    OBVIOUS
  <2> QED
    BY <2>2, <2>3
<1>2. ASSUME NEW k \in 0 .. Len(proof), k \in Good, k < Len(proof) PROVE k + 1 \in Good
  <2>1. PICK g : Part(k, g)
    BY <1>2
  <2>2. PICK f : f = [n \in 0 .. k + 1 |-> IF n = k + 1 THEN Hashed(g[k], proof[n]) ELSE g[n]]
    OBVIOUS
  <2>3. \A n \in 0 .. k : g[n] = IF n = 0 THEN h ELSE Hashed(g[n - 1], proof[n])
    BY <2>1
  <2>4. ASSUME NEW n \in 0 .. k + 1 PROVE f[n] = IF n = 0 THEN h ELSE Hashed(f[n - 1], proof[n])
    <3>1. CASE n = k + 1
      <4>1. f[n] = Hashed(g[k], proof[n]) /\ f[k] = g[k] /\ n # 0 /\ n - 1 = k
        BY <2>2, <3>1
      <4> QED
        BY <4>1
    <3>2. CASE n # k + 1
      <4>1. n \in 0 .. k /\ f[n] = g[n]
        BY <2>2, <3>2
      <4>2. n # 0 => n - 1 \in 0 .. k + 1 /\ n - 1 # k + 1
        BY <3>2
      <4>3. n # 0 => f[n - 1] = g[n - 1]
        BY <2>2, <4>2
      <4> QED
        BY <2>3, <4>1, <4>3
    <3> QED
      BY <3>1, <3>2
  <2>5. f = [n \in 0 .. k + 1 |-> f[n]]
    BY <2>2
  <2>6. Part(k + 1, f)
    BY <2>4, <2>5
  <2>7. k + 1 \in 0 .. Len(proof)
    BY <1>2
  <2> QED
    BY <2>6, <2>7
<1> HIDE DEF Good
<1>3. \A k \in 0 .. Len(proof) : k \in Good
  BY <1>1, <1>2, UpTo
<1>4. \E g : Folds(h, proof, g)
  <2>1. Len(proof) \in Good
    BY <1>3
  <2> QED
    BY <2>1 DEF Good, Folds
<1>5. Folded(h, proof) = CHOOSE g : Folds(h, proof, g)
  BY DEF Folded, Folds
<1> QED
  BY <1>4, <1>5

\* One proof leads from one hash only to a root.
LEMMA FoldsDiffer ==
  ASSUME NEW proof, Len(proof) \in Nat, NEW h, NEW g, Folds(h, proof, g),
         NEW k, NEW f, Folds(k, proof, f), g[Len(proof)] = f[Len(proof)]
  PROVE  h = k
<1> DEFINE Good == {n \in 0 .. Len(proof) : g[n] = f[n]}
<1>1. /\ \A n \in 0 .. Len(proof) : g[n] = IF n = 0 THEN h ELSE Hashed(g[n - 1], proof[n])
      /\ \A n \in 0 .. Len(proof) : f[n] = IF n = 0 THEN k ELSE Hashed(f[n - 1], proof[n])
  BY DEF Folds
<1>2. Len(proof) \in Good
  OBVIOUS
<1>3. ASSUME NEW n \in 0 .. Len(proof), n + 1 \in Good, n < Len(proof) PROVE n \in Good
  <2>1. n + 1 \in 0 .. Len(proof) /\ n + 1 # 0 /\ (n + 1) - 1 = n
    BY <1>3
  <2>2. Hashed(g[n], proof[n + 1]) = Hashed(f[n], proof[n + 1])
    BY <1>1, <1>3, <2>1
  <2>3. g[n] = f[n]
    BY <2>2, HashesDiffer DEF Hashed
  <2> QED
    BY <2>3
<1> HIDE DEF Good
<1>4. \A n \in 0 .. Len(proof) : n \in Good
  BY <1>2, <1>3, DownFrom
<1>5. 0 \in Good
  BY <1>4
<1> QED
  BY <1>1, <1>5 DEF Good

LEMMA FoldExtends ==
  ASSUME NEW S, NEW proof \in Seq(S), NEW step \in S, NEW h, NEW g, Folds(h, proof, g)
  PROVE  \E f : /\ Folds(h, proof \o <<step>>, f)
                /\ f[Len(proof \o <<step>>)] = Hashed(g[Len(proof)], step)
<1>1. PICK k \in Nat : k = Len(proof)
  OBVIOUS
<1>2. PICK longer : longer = proof \o <<step>>
  OBVIOUS
<1>3. /\ Len(longer) = k + 1 /\ longer[k + 1] = step
      /\ \A n \in 1 .. k : longer[n] = proof[n]
  BY <1>1, <1>2
<1>4. PICK f : f = [n \in 0 .. k + 1 |-> IF n = k + 1 THEN Hashed(g[k], step) ELSE g[n]]
  OBVIOUS
<1>5. \A n \in 0 .. k : g[n] = IF n = 0 THEN h ELSE Hashed(g[n - 1], proof[n])
  BY <1>1 DEF Folds
<1>6. ASSUME NEW n \in 0 .. k + 1 PROVE f[n] = IF n = 0 THEN h ELSE Hashed(f[n - 1], longer[n])
  <2>1. CASE n = k + 1
    <3>1. f[n] = Hashed(g[k], step) /\ f[k] = g[k] /\ n # 0 /\ n - 1 = k
      BY <1>4, <2>1
    <3> QED
      BY <1>3, <2>1, <3>1
  <2>2. CASE n # k + 1
    <3>1. n \in 0 .. k /\ f[n] = g[n] /\ (n # 0 => n \in 1 .. k)
      BY <1>4, <2>2
    <3>2. n # 0 => n - 1 \in 0 .. k + 1 /\ n - 1 # k + 1
      BY <2>2
    <3>3. n # 0 => f[n - 1] = g[n - 1]
      BY <1>4, <3>2
    <3> QED
      BY <1>3, <1>5, <3>1, <3>3
  <2> QED
    BY <2>1, <2>2
<1>7. f = [n \in 0 .. k + 1 |-> f[n]] /\ f[k + 1] = Hashed(g[k], step)
  BY <1>4
<1>8. Folds(h, longer, f)
  BY <1>3, <1>6, <1>7 DEF Folds
<1> QED
  BY <1>1, <1>2, <1>3, <1>7, <1>8

\* The step at position i leads to the node above it.
LEMMA OneUp ==
  ASSUME NEW below, NEW above, NEW m \in Nat \ {0}, IsRow(below, m), Pairs(below, above, m),
         NEW i \in 1 .. m
  PROVE  /\ (i + 1) \div 2 \in 1 .. (m + 1) \div 2
         /\ \/ /\ Sibling(below, i) = <<>>
               /\ above[(i + 1) \div 2] = below[i]
            \/ \E k \in 1 .. m : \E side \in {"left", "right"} :
                 /\ Sibling(below, i) = <<[hash |-> below[k], side |-> side]>>
                 /\ above[(i + 1) \div 2]
                      = Hashed(below[i], [hash |-> below[k], side |-> side])
<1>1. PICK j \in 1 .. (m + 1) \div 2 : j = (i + 1) \div 2
  BY Halves
<1>2. Len(below) = m
  BY RowIs
<1>3. above[j] = IF 2 * j <= m THEN HashNode(below[2 * j - 1], below[2 * j]) ELSE below[2 * j - 1]
  BY DEF Pairs
<1>4. (i % 2 = 0 => i = 2 * j) /\ (i % 2 # 0 => i = 2 * j - 1)
  BY <1>1
<1>5. CASE i % 2 = 0
  <2>1. i - 1 \in 1 .. m /\ 2 * j = i /\ 2 * j - 1 = i - 1
    BY <1>4, <1>5
  <2> DEFINE step == [hash |-> below[i - 1], side |-> "left"]
  <2>2. Sibling(below, i) = <<step>>
    BY <1>5 DEF Sibling
  <2>3. above[j] = HashNode(below[i - 1], below[i])
    BY <1>3, <2>1
  <2>4. Hashed(below[i], step) = HashNode(below[i - 1], below[i])
    BY DEF Hashed
  <2> QED
    BY <1>1, <2>1, <2>2, <2>3, <2>4
<1>6. CASE i % 2 # 0 /\ i < m
  <2>1. i + 1 \in 1 .. m /\ 2 * j = i + 1 /\ 2 * j - 1 = i
    BY <1>4, <1>6
  <2> DEFINE step == [hash |-> below[i + 1], side |-> "right"]
  <2>2. Sibling(below, i) = <<step>>
    BY <1>2, <1>6 DEF Sibling
  <2>3. above[j] = HashNode(below[i], below[i + 1])
    BY <1>3, <2>1
  <2>4. Hashed(below[i], step) = HashNode(below[i], below[i + 1])
    BY DEF Hashed
  <2> QED
    BY <1>1, <2>1, <2>2, <2>3, <2>4
<1>7. CASE i % 2 # 0 /\ ~(i < m)
  <2>1. ~(2 * j <= m) /\ 2 * j - 1 = i
    BY <1>4, <1>7
  <2>2. Sibling(below, i) = <<>>
    BY <1>2, <1>7 DEF Sibling
  <2> QED
    BY <1>1, <1>3, <2>1, <2>2
<1> QED
  BY <1>5, <1>6, <1>7

\* The steps gathered on the way up lead, folded over the leaf, to where it stands.
Leads(s, index, n) ==
  LET at == Path(s, index)[n]
  IN /\ at.i \in DOMAIN Rows(s)[n]
     /\ at.steps \in Seq([hash : Nodes(s), side : {"left", "right"}])
     /\ \E g : Folds(s[index], at.steps, g) /\ g[Len(at.steps)] = Rows(s)[n][at.i]

LEMMA PathLeads ==
  ASSUME NEW s, NEW N \in Nat \ {0}, IsRow(s, N), NEW index \in DOMAIN s
  PROVE  Leads(s, index, N)
<1> DEFINE Steps == [hash : Nodes(s), side : {"left", "right"}]
           Good  == {n \in 0 .. N : Leads(s, index, n)}
<1>0. Len(s) = N /\ DOMAIN s = 1 .. N /\ Rows(s)[0] = s
  BY RowIs, RowsAre
<1>9. Climbs(s, index, N)
  BY <1>0, PathIs
<1>1. 0 \in Good
  <2> DEFINE none == <<>>
  <2>1. Path(s, index)[0].i = index /\ Path(s, index)[0].steps = none
    BY <1>9 DEF Climbs
  <2>2. none \in Seq(Steps) /\ Len(none) = 0
    OBVIOUS
  <2>3. PICK g : g = [n \in 0 .. 0 |-> s[index]]
    OBVIOUS
  <2>4. g = [n \in 0 .. Len(none) |-> IF n = 0 THEN s[index] ELSE Hashed(g[n - 1], none[n])]
    BY <2>2, <2>3
  <2>5. Folds(s[index], none, g)
    BY <2>4 DEF Folds
  <2>6. g[Len(none)] = Rows(s)[0][index]
    BY <1>0, <2>2, <2>3
  <2> HIDE DEF none
  <2>7. Leads(s, index, 0)
    BY <1>0, <2>1, <2>2, <2>5, <2>6 DEF Leads
  <2> QED
    BY <2>7
<1>2. ASSUME NEW n \in 0 .. N, n \in Good, n < N PROVE n + 1 \in Good
  <2>1. PICK m \in Nat \ {0} : IsRow(Rows(s)[n], m) /\ Pairs(Rows(s)[n], Rows(s)[n + 1], m)
    BY <1>2, RowAbove
  <2>2. PICK below : below = Rows(s)[n]
    OBVIOUS
  <2>3. PICK above : above = Rows(s)[n + 1]
    OBVIOUS
  <2>4. PICK i : i = Path(s, index)[n].i
    OBVIOUS
  <2>5. PICK steps : steps = Path(s, index)[n].steps
    OBVIOUS
  <2>6. /\ IsRow(below, m) /\ Pairs(below, above, m)
        /\ DOMAIN below = 1 .. m /\ DOMAIN above = 1 .. (m + 1) \div 2
    BY <2>1, <2>2, <2>3 DEF Pairs
  <2>7. /\ i \in 1 .. m /\ steps \in Seq(Steps)
        /\ \E g : Folds(s[index], steps, g) /\ g[Len(steps)] = below[i]
    BY <1>2, <2>2, <2>4, <2>5, <2>6 DEF Leads
  <2>8. PICK g : Folds(s[index], steps, g) /\ g[Len(steps)] = below[i]
    BY <2>7
  <2>9. /\ Path(s, index)[n + 1].i = (i + 1) \div 2
        /\ Path(s, index)[n + 1].steps = steps \o Sibling(below, i)
    <3>1. PICK at : at = Path(s, index)[n]
      OBVIOUS
    <3>2. Path(s, index)[n + 1] = Ascend(at, below)
      BY <1>2, <1>9, <2>2, <3>1 DEF Climbs
    <3>3. at.i = i /\ at.steps = steps
      BY <2>4, <2>5, <3>1
    <3>4. Ascend(at, below) = [i |-> (i + 1) \div 2, steps |-> steps \o Sibling(below, i)]
      BY <3>3 DEF Ascend
    <3> QED
      BY <3>2, <3>4
  <2>10. PICK j : j = (i + 1) \div 2 /\ j \in DOMAIN above
    BY <2>6, <2>7, Halves
  <2> HIDE DEF Steps
  <2>11. PICK more :
           /\ more = steps \o Sibling(below, i) /\ more \in Seq(Steps)
           /\ \E f : Folds(s[index], more, f) /\ f[Len(more)] = above[j]
    <3>1. CASE Sibling(below, i) = <<>> /\ above[j] = below[i]
      <4>1. steps \o Sibling(below, i) = steps
        BY <2>7, <3>1
      <4> QED
        BY <2>7, <2>8, <3>1, <4>1
    <3>2. ASSUME NEW k \in 1 .. m, NEW side \in {"left", "right"},
                 Sibling(below, i) = <<[hash |-> below[k], side |-> side]>>,
                 above[j] = Hashed(below[i], [hash |-> below[k], side |-> side])
          PROVE  \E f : /\ Folds(s[index], steps \o Sibling(below, i), f)
                        /\ f[Len(steps \o Sibling(below, i))] = above[j]
                        /\ steps \o Sibling(below, i) \in Seq(Steps)
      <4>1. below[k] \in Nodes(s)
        BY <1>0, <2>2, <2>6, NodesOfRow
      <4>2. PICK step \in Steps : step = [hash |-> below[k], side |-> side]
        BY <4>1 DEF Steps
      <4>3. steps \o Sibling(below, i) = steps \o <<step>>
        BY <3>2, <4>2
      <4>4. above[j] = Hashed(g[Len(steps)], step)
        BY <2>8, <3>2, <4>2
      <4>5. PICK f : /\ Folds(s[index], steps \o <<step>>, f)
                     /\ f[Len(steps \o <<step>>)] = Hashed(g[Len(steps)], step)
        BY <2>7, <2>8, FoldExtends
      <4>6. steps \o <<step>> \in Seq(Steps)
        BY <2>7
      <4> QED
        BY <4>3, <4>4, <4>5, <4>6
    <3>3. \/ Sibling(below, i) = <<>> /\ above[j] = below[i]
          \/ \E k \in 1 .. m : \E side \in {"left", "right"} :
               /\ Sibling(below, i) = <<[hash |-> below[k], side |-> side]>>
               /\ above[j] = Hashed(below[i], [hash |-> below[k], side |-> side])
      BY <2>6, <2>7, <2>10, OneUp
    <3> QED
      BY <3>1, <3>2, <3>3
  <2>12. Leads(s, index, n + 1)
    BY <2>3, <2>9, <2>10, <2>11 DEF Leads, Steps
  <2> QED
    BY <1>2, <2>12
<1> HIDE DEF Good
<1>3. \A n \in 0 .. N : n \in Good
  BY <1>1, <1>2, UpTo
<1>4. N \in Good
  BY <1>3
<1> QED
  BY <1>4 DEF Good

\* Every leaf has a proof that verifies against the root, for every number of
\* leaves, and nothing else verifies with that proof.
THEOREM ProofsVerify ==
  ASSUME NEW s, NEW N \in Nat \ {0}, IsRow(s, N), NEW index \in DOMAIN s
  PROVE  \A h : VerifyMerkleProof(h, MerkleProof(s, index), MerkleRoot(s)) <=> h = s[index]
<1>1. PICK steps : steps = Path(s, index)[N].steps
  OBVIOUS
<1>2. PICK i : i = Path(s, index)[N].i
  OBVIOUS
<1>3. Leads(s, index, N)
  BY PathLeads
<1>4. /\ i \in DOMAIN Rows(s)[N]
      /\ steps \in Seq([hash : Nodes(s), side : {"left", "right"}])
      /\ \E g : Folds(s[index], steps, g) /\ g[Len(steps)] = Rows(s)[N][i]
  BY <1>1, <1>2, <1>3 DEF Leads
<1>5. PICK g : Folds(s[index], steps, g) /\ g[Len(steps)] = Rows(s)[N][i]
  BY <1>4
<1>6. Len(s) = N /\ s # <<>> /\ Len(steps) \in Nat
  <2>1. Len(s) = N
    BY RowIs
  <2> QED
    BY <1>4, <2>1
<1>7. i = 1
  <2>1. DOMAIN Rows(s)[N] = 1 .. 1
    BY Widths, RowIs
  <2> QED
    BY <1>4, <2>1
<1>8. MerkleRoot(s) = g[Len(steps)] /\ MerkleProof(s, index) = steps
  BY <1>1, <1>5, <1>6, <1>7 DEF MerkleRoot, MerkleProof
<1>9. Folded(s[index], steps) = g
  BY <1>5, <1>6, FoldExists, FoldsAgree
<1>10. ASSUME NEW h, Folded(h, steps)[Len(steps)] = g[Len(steps)] PROVE h = s[index]
  <2>1. PICK f : f = Folded(h, steps) /\ Folds(h, steps, f)
    BY <1>6, FoldExists
  <2>2. g[Len(steps)] = f[Len(steps)]
    BY <1>10, <2>1
  <2> QED
    BY <1>5, <1>6, <2>1, <2>2, FoldsDiffer
<1> QED
  BY <1>8, <1>9, <1>10 DEF VerifyMerkleProof

-----------------------------------------------------------------------------
(***************************************************************************)
(* The published artifact.  Sorting keeps the leaves, the root tells which *)
(* they are, and so an artifact whose commitment is that of other leaves   *)
(* is found out, whoever signed it.                                        *)
(***************************************************************************)

\* What is committed: no key twice.
Keyed(L) == IsFiniteSet(L) /\ \A p, q \in L : p.key = q.key => p = q

\* Sorted into a row of N leaves, all of them and no others.
SortedAs(L, N) ==
  /\ IsRow(SortLeaves(L), N) /\ IsRow(LeafHashes(L), N)
  /\ {SortLeaves(L)[i] : i \in 1 .. N} = L
  /\ \A i \in 1 .. N : LeafHashes(L)[i] = HashLeaf(SortLeaves(L)[i])
  /\ N = 0 <=> L = {}

LEMMA SequenceOfSet ==
  ASSUME NEW K, IsFiniteSet(K)
  PROVE  \E N \in Nat : /\ SetToSeq(K) \in [1 .. N -> K]
                        /\ {SetToSeq(K)[i] : i \in 1 .. N} = K
<1>1. PICK N \in Nat : N = Cardinality(K)
  BY FS_CardinalityType
<1>2. \E f \in [1 .. N -> K] : IsInjective(f)
  <2>1. ExistsBijection(1 .. N, K)
    BY <1>1, FS_CardinalityType
  <2> QED
    BY <2>1 DEF ExistsBijection, Bijection, Injection
<1>3. PICK f : f = SetToSeq(K)
  OBVIOUS
<1>4. f \in [1 .. N -> K] /\ IsInjective(f)
  BY <1>1, <1>2, <1>3 DEF SetToSeq
<1>5. f \in Injection(1 .. N, K)
  BY <1>4 DEF Injection
<1>6. Cardinality(1 .. N) = N
  BY FS_Interval
<1>7. f \in Surjection(1 .. N, K)
  BY <1>1, <1>5, <1>6, FS_Injection
<1>8. {f[i] : i \in 1 .. N} = K
  BY <1>4, <1>7 DEF Surjection
<1> QED
  BY <1>3, <1>4, <1>8

LEMMA LeavesAreSorted ==
  ASSUME NEW L, Keyed(L)
  PROVE  \E N \in Nat : SortedAs(L, N)
<1> DEFINE K == {leaf.key : leaf \in L}
<1>1. IsFiniteSet(K)
  <2>1. PICK f : f = [leaf \in L |-> leaf.key]
    OBVIOUS
  <2>2. f \in Surjection(L, K)
    BY <2>1 DEF Surjection
  <2>3. IsFiniteSet(L)
    BY DEF Keyed
  <2> HIDE DEF K
  <2> QED
    BY <2>2, <2>3, FS_Surjection
<1>2. PICK N \in Nat : SetToSeq(K) \in [1 .. N -> K] /\ {SetToSeq(K)[i] : i \in 1 .. N} = K
  <2> HIDE DEF K
  <2> QED
    BY <1>1, SequenceOfSet
<1>3. PICK keys : keys = SetToSeq(K)
  OBVIOUS
<1>4. PICK s : s = [i \in 1 .. N |-> CHOOSE leaf \in L : leaf.key = keys[i]]
  OBVIOUS
<1>5. SortLeaves(L) = s
  BY <1>2, <1>3, <1>4 DEF SortLeaves
<1>6. \A i \in 1 .. N : keys[i] \in K
  BY <1>2, <1>3
<1>7. ASSUME NEW i \in 1 .. N PROVE s[i] \in L /\ s[i].key = keys[i]
  <2>1. \E leaf \in L : leaf.key = keys[i]
    BY <1>6
  <2> QED
    BY <1>4, <2>1
<1>8. ASSUME NEW leaf \in L PROVE \E i \in 1 .. N : s[i] = leaf
  <2>1. PICK i \in 1 .. N : keys[i] = leaf.key
    BY <1>2, <1>3
  <2> QED
    BY <1>7, <2>1 DEF Keyed
<1>9. IsRow(s, N)
  BY <1>4 DEF IsRow
<1>10. PICK h : h = [i \in 1 .. N |-> HashLeaf(s[i])]
  OBVIOUS
<1>11. LeafHashes(L) = h
  <2>1. DOMAIN s = 1 .. N
    BY <1>4
  <2> QED
    BY <1>5, <1>10, <2>1 DEF LeafHashes
<1>12. IsRow(h, N) /\ \A i \in 1 .. N : h[i] = HashLeaf(s[i])
  BY <1>10 DEF IsRow
<1>13. {s[i] : i \in 1 .. N} = L
  BY <1>7, <1>8
<1>14. N = 0 <=> L = {}
  <2>1. N = 0 => 1 .. N = {}
    OBVIOUS
  <2>2. N # 0 => 1 \in 1 .. N
    OBVIOUS
  <2> QED
    BY <1>7, <1>8, <2>1, <2>2
<1>15. SortedAs(L, N)
  BY <1>5, <1>9, <1>11, <1>12, <1>13, <1>14 DEF SortedAs
<1> QED
  BY <1>15

\* Two sets of leaves with one root are the same.
LEMMA RootTells ==
  ASSUME NEW L, Keyed(L), L # {}, NEW M, Keyed(M),
         CommitLedger(L).root = CommitLedger(M).root
  PROVE  L = M
<1>1. PICK N \in Nat : SortedAs(L, N)
  BY LeavesAreSorted
<1>2. PICK P \in Nat : SortedAs(M, P)
  BY LeavesAreSorted
<1>3. PICK s : s = LeafHashes(L)
  OBVIOUS
<1>4. PICK t : t = LeafHashes(M)
  OBVIOUS
<1>5. MerkleRoot(s) = MerkleRoot(t)
  BY <1>3, <1>4 DEF CommitLedger
<1>6. IsRow(s, N) /\ IsRow(t, P) /\ N \in Nat \ {0} /\ (P = 0 <=> M = {})
  BY <1>1, <1>2, <1>3, <1>4 DEF SortedAs
<1>7. DOMAIN s = 1 .. N /\ DOMAIN t = 1 .. P /\ Len(t) = P
  BY <1>6, RowIs
<1>8. /\ \A i \in 1 .. N : SortLeaves(L)[i] \in L /\ s[i] = HashLeaf(SortLeaves(L)[i])
      /\ \A i \in 1 .. P : SortLeaves(M)[i] \in M /\ t[i] = HashLeaf(SortLeaves(M)[i])
      /\ \A leaf \in L : \E i \in 1 .. N : leaf = SortLeaves(L)[i]
      /\ \A leaf \in M : \E i \in 1 .. P : leaf = SortLeaves(M)[i]
  BY <1>1, <1>2, <1>3, <1>4 DEF SortedAs
<1>9. IsLeafRow(s) /\ IsLeafRow(t)
  BY <1>7, <1>8 DEF IsLeafRow
<1>10. P # 0
  <2> SUFFICES ASSUME P = 0 PROVE FALSE
    OBVIOUS
  <2>1. t = <<>>
    BY <1>6 DEF IsRow
  <2>2. MerkleRoot(s) = NoLeaves
    BY <1>5, <2>1 DEF MerkleRoot
  <2>3. MerkleRoot(s) = Rows(s)[N][1] /\ s[1] \in Nodes(s)
    BY <1>6, <1>7, <1>9, LeavesAreNodes
  <2>4. PICK C : C = {NoLeaves}
    OBVIOUS
  <2>5. Rows(s)[N][1] \in C /\ \A l, r : HashNode(l, r) \in C => l \in C /\ r \in C
    BY <2>2, <2>3, <2>4, HashesDiffer
  <2>6. Nodes(s) \subseteq C
    BY <1>6, <2>5, NodesAreReached
  <2>7. s[1] = NoLeaves
    BY <2>3, <2>4, <2>6
  <2>8. 1 \in 1 .. N
    BY <1>6
  <2> QED
    BY <1>8, <2>7, <2>8, HashesDiffer
<1>11. /\ \A i \in DOMAIN s : \E j \in DOMAIN t : s[i] = t[j]
       /\ \A j \in DOMAIN t : \E i \in DOMAIN s : t[j] = s[i]
  BY <1>5, <1>6, <1>9, <1>10, RootBindsLeaves
<1>12. \A c, d : HashLeaf(c) = HashLeaf(d) => c = d
  BY HashesDiffer
<1>13. ASSUME NEW leaf \in L PROVE leaf \in M
  <2>1. PICK i \in 1 .. N : leaf = SortLeaves(L)[i]
    BY <1>8
  <2>2. PICK j \in 1 .. P : s[i] = t[j]
    BY <1>7, <1>11
  <2>3. HashLeaf(leaf) = HashLeaf(SortLeaves(M)[j])
    BY <1>8, <2>1, <2>2
  <2>4. leaf = SortLeaves(M)[j]
    BY <1>12, <2>3
  <2> QED
    BY <1>8, <2>4
<1>14. ASSUME NEW leaf \in M PROVE leaf \in L
  <2>1. PICK i \in 1 .. P : leaf = SortLeaves(M)[i]
    BY <1>8
  <2>2. PICK j \in 1 .. N : t[i] = s[j]
    BY <1>7, <1>11
  <2>3. HashLeaf(leaf) = HashLeaf(SortLeaves(L)[j])
    BY <1>8, <2>1, <2>2
  <2>4. leaf = SortLeaves(L)[j]
    BY <1>12, <2>3
  <2> QED
    BY <1>8, <2>4
<1> QED
  BY <1>13, <1>14

\* A record of the artifact as somebody presents it.
LEMMA AlteredDiffer ==
  ASSUME NEW L, Keyed(L), \A leaf \in L : leaf.amount \in Nat,
         \A leaf \in L : leaf = [key |-> leaf.key, type |-> leaf.type,
                                 recipient |-> leaf.recipient, amount |-> leaf.amount,
                                 endTs |-> leaf.endTs, status |-> leaf.status],
         NEW leaf \in L,
         NEW more, more = [leaf EXCEPT !.amount = @ + 1],
         NEW M \in {L \ {leaf}, (L \ {leaf}) \cup {more}}
  PROVE  Keyed(M) /\ M # L
<1>1. PICK other : other = more
  OBVIOUS
<1>2. other.key = leaf.key /\ other.amount = leaf.amount + 1 /\ leaf.amount \in Nat
  BY <1>1
<1>3. other # leaf
  BY <1>2
<1>4. IsFiniteSet(L \ {leaf})
  BY FS_RemoveElement DEF Keyed
<1>5. CASE M = L \ {leaf}
  BY <1>4, <1>5 DEF Keyed
<1>6. CASE M = (L \ {leaf}) \cup {other}
  <2>1. IsFiniteSet(M)
    BY <1>4, <1>6, FS_AddElement
  <2>2. \A p \in L \ {leaf} : p.key # other.key
    BY <1>2 DEF Keyed
  <2>3. \A p, q \in M : p.key = q.key => p = q
    BY <1>6, <2>2 DEF Keyed
  <2>4. leaf \notin M
    BY <1>3, <1>6
  <2> QED
    BY <2>1, <2>3, <2>4 DEF Keyed
<1> QED
  BY <1>1, <1>5, <1>6

\* Whoever pins the publisher's key accepts the original alone; whoever pins its
\* memo accepts the leaves of the original alone.
LEMMA CopiesBind ==
  ASSUME NEW L, Keyed(L), L # {}, "publisher" # None, NEW M, Keyed(M),
         NEW artifact, artifact = BuildLedgerArtifact(L, "publisher"),
         NEW m, NEW copy \in Copies(artifact, M, m)
  PROVE  AcceptsOnlyTheOriginal(artifact, copy)
<1>1. PICK made : made = ManifestOf(L)
  OBVIOUS
<1>2. artifact = [manifest |-> made, signature |-> <<"publisher", made>>,
                  publisher |-> "publisher", leaves |-> L]
  BY <1>1 DEF BuildLedgerArtifact
<1>3. PICK signature \in {<<"publisher", made>>, <<"other", m>>}, key \in {"publisher", "other"} :
        copy = [manifest |-> m, signature |-> signature, publisher |-> key, leaves |-> M]
  BY <1>2 DEF Copies
<1>4. made.commit = CommitLedger(L) /\ made.count = Cardinality(L)
  BY <1>1 DEF ManifestOf
<1>5. ASSUME RederivesLeaves(copy), m.commit.root = made.commit.root
      PROVE  M = L /\ m.commit = made.commit /\ m.count = made.count
  <2>1. m.commit = CommitLedger(M) /\ m.count = Cardinality(M)
    BY <1>3, <1>5 DEF RederivesLeaves
  <2>2. CommitLedger(M).root = CommitLedger(L).root
    BY <1>4, <1>5, <2>1
  <2>3. M = L
    BY <2>2, RootTells
  <2> QED
    BY <1>4, <2>1, <2>3
<1>6. ASSUME NEW memo, NEW signer, VerifyArtifactMode(copy, "publisher", memo, signer)
      PROVE  copy = artifact
  <2>1. /\ RederivesLeaves(copy) /\ copy.publisher = "publisher"
        /\ copy.signature = <<"publisher", copy.manifest>>
    BY <1>6 DEF VerifyArtifactMode, VerifyLedgerArtifact
  <2>2. key = "publisher" /\ signature = <<"publisher", m>>
    BY <1>3, <2>1
  <2>3. m = made /\ signature = <<"publisher", made>>
    BY <1>3, <2>2
  <2>4. M = L
    BY <1>5, <2>1, <2>3
  <2> QED
    BY <1>2, <1>3, <2>2, <2>3, <2>4
<1>7. ASSUME NEW memo \in Memos(artifact, copy), NEW signer \in {"publisher", None},
             VerifyArtifactMode(copy, None, memo, signer)
      PROVE  /\ copy.leaves = artifact.leaves
             /\ copy.manifest.commit = artifact.manifest.commit
             /\ copy.manifest.count = artifact.manifest.count
  <2>1. /\ RederivesLeaves(copy) /\ memo # None /\ signer = "publisher"
        /\ memo.signer = "publisher" /\ memo.root = m.commit.root
    BY <1>3, <1>7 DEF VerifyArtifactMode
  <2>2. memo = [root |-> made.commit.root, signer |-> "publisher"]
    BY <1>2, <1>7, <2>1 DEF Memos, PublishersMemo
  <2>3. m.commit.root = made.commit.root
    BY <2>1, <2>2
  <2> QED
    BY <1>2, <1>3, <1>5, <2>1, <2>3
<1> QED
  BY <1>6, <1>7 DEF AcceptsOnlyTheOriginal

\* The original is accepted with every pin.
LEMMA OriginalIsAccepted ==
  ASSUME NEW L, NEW artifact, artifact = BuildLedgerArtifact(L, "publisher"),
         VerifyLedgerArtifact(artifact, "publisher")
  PROVE  AcceptsTheOriginal(artifact)
<1>1. RederivesLeaves(artifact) /\ "publisher" # None
  BY DEF VerifyLedgerArtifact
<1>2. ASSUME NEW pin \in {"publisher", None}, NEW memo \in {None, PublishersMemo(artifact)},
             pin # None \/ memo # None
      PROVE  VerifyArtifactMode(artifact, pin, memo, "publisher")
  <2>1. memo # None => /\ memo.signer = "publisher"
                       /\ memo.root = artifact.manifest.commit.root
    BY <1>2 DEF PublishersMemo
  <2> QED
    BY <1>1, <1>2, <2>1 DEF VerifyArtifactMode
<1> QED
  BY <1>2 DEF AcceptsTheOriginal

\* A member's proof is for its leaf and for no other.
LEMMA MembersAreProved ==
  ASSUME NEW L, Keyed(L), NEW leaf \in L,
         NEW artifact, artifact = BuildLedgerArtifact(L, "publisher"),
         NEW m, m = ProveMembership(artifact, leaf.key),
         NEW root, root = artifact.manifest.commit.root
  PROVE  /\ m.leaf = leaf /\ VerifyMembership(m, root)
         /\ \A other : other # leaf =>
              \A hash \in {m.hash, HashLeaf(other)} :
                ~VerifyMembership([leaf |-> other, hash |-> hash, proof |-> m.proof], root)
<1>1. PICK N \in Nat : SortedAs(L, N)
  BY LeavesAreSorted
<1>2. PICK sorted : sorted = SortLeaves(L)
  OBVIOUS
<1>3. PICK hashes : hashes = LeafHashes(L)
  OBVIOUS
<1>4. PICK index : index = CHOOSE i \in DOMAIN sorted : sorted[i].key = leaf.key
  OBVIOUS
<1>5. artifact.leaves = L /\ root = MerkleRoot(hashes)
  BY <1>3 DEF BuildLedgerArtifact, ManifestOf, CommitLedger
<1>6. m = [leaf |-> sorted[index], hash |-> hashes[index], proof |-> MerkleProof(hashes, index)]
  BY <1>2, <1>3, <1>4, <1>5 DEF ProveMembership
<1>7. /\ IsRow(sorted, N) /\ IsRow(hashes, N) /\ N \in Nat \ {0}
      /\ \A i \in 1 .. N : sorted[i] \in L /\ hashes[i] = HashLeaf(sorted[i])
      /\ \E i \in 1 .. N : sorted[i] = leaf
  <2>1. N # 0
    BY <1>1 DEF SortedAs
  <2> QED
    BY <1>1, <1>2, <1>3, <2>1 DEF SortedAs
<1>8. DOMAIN sorted = 1 .. N /\ DOMAIN hashes = 1 .. N
  BY <1>7, RowIs
<1>9. index \in 1 .. N /\ sorted[index].key = leaf.key
  BY <1>4, <1>7, <1>8
<1>10. sorted[index] = leaf /\ hashes[index] = HashLeaf(leaf)
  BY <1>7, <1>9 DEF Keyed
<1>11. PICK proof : proof = MerkleProof(hashes, index)
  OBVIOUS
<1>12. m = [leaf |-> leaf, hash |-> HashLeaf(leaf), proof |-> proof]
  BY <1>6, <1>10, <1>11
<1>13. \A h : VerifyMerkleProof(h, proof, root) <=> h = HashLeaf(leaf)
  <2>1. \A h : VerifyMerkleProof(h, MerkleProof(hashes, index), MerkleRoot(hashes))
                <=> h = hashes[index]
    BY <1>7, <1>8, <1>9, ProofsVerify
  <2> QED
    BY <1>5, <1>10, <1>11, <2>1
<1>14. VerifyMembership(m, root)
  BY <1>12, <1>13 DEF VerifyMembership
<1>15. ASSUME NEW other, other # leaf, NEW hash
       PROVE  ~VerifyMembership([leaf |-> other, hash |-> hash, proof |-> m.proof], root)
  <2>1. PICK n : n = [leaf |-> other, hash |-> hash, proof |-> proof]
    OBVIOUS
  <2>2. [leaf |-> other, hash |-> hash, proof |-> m.proof] = n
    BY <1>12, <2>1
  <2>3. HashLeaf(other) # HashLeaf(leaf)
    BY <1>15, HashesDiffer
  <2>4. ~VerifyMembership(n, root)
    BY <1>13, <2>1, <2>3 DEF VerifyMembership
  <2> QED
    BY <2>2, <2>4
<1> QED
  BY <1>12, <1>14, <1>15

LEMMA LeavesAreKeyed ==
  ASSUME LedgerTypeOK
  PROVE  /\ Keyed(BuildLeavesFromDb)
         /\ \A leaf \in BuildLeavesFromDb :
              /\ leaf.amount \in Nat /\ leaf.status # "voided"
              /\ leaf = [key |-> leaf.key, type |-> leaf.type, recipient |-> leaf.recipient,
                         amount |-> leaf.amount, endTs |-> leaf.endTs, status |-> leaf.status]
<1>1. PICK K : K = {k \in DOMAIN rows : rows[k].status # "cancelled"}
  OBVIOUS
<1>2. BuildLeavesFromDb = {LeafOf(k) : k \in K}
  BY <1>1 DEF BuildLeavesFromDb
<1>3. \A k \in K : rows[k] \in LedgerRow
  BY <1>1 DEF LedgerTypeOK, RowsTypeOK
<1>4. IsFiniteSet(K)
  BY <1>1, RowsAreFinite, FS_Subset
<1>5. IsFiniteSet(BuildLeavesFromDb)
  <2>1. PICK f : f = [k \in K |-> LeafOf(k)]
    OBVIOUS
  <2>2. PICK L : L = {LeafOf(k) : k \in K}
    OBVIOUS
  <2>3. f \in Surjection(K, L)
    BY <2>1, <2>2 DEF Surjection
  <2> QED
    BY <1>2, <1>4, <2>2, <2>3, FS_Surjection
<1>6. \A k \in K : /\ LeafOf(k).key = k /\ LeafOf(k).amount \in Nat
                   /\ LeafOf(k).status # "voided"
  BY <1>3 DEF LeafOf, LedgerRow
<1>7. Keyed(BuildLeavesFromDb)
  BY <1>2, <1>5, <1>6 DEF Keyed
<1>8. ASSUME NEW leaf \in BuildLeavesFromDb
      PROVE  leaf = [key |-> leaf.key, type |-> leaf.type, recipient |-> leaf.recipient,
                     amount |-> leaf.amount, endTs |-> leaf.endTs, status |-> leaf.status]
  <2>1. PICK k \in K : leaf = LeafOf(k)
    BY <1>2
  <2> QED
    BY <2>1 DEF LeafOf
<1> QED
  BY <1>2, <1>6, <1>7, <1>8

\* Whatever the ledger holds when it is published: a verifier accepts it.  Whoever
\* alters a leaf or the manifest, leaves a leaf out or signs anew is refused by a
\* verifier who pins the publisher's key, and one who pins the publisher's memo
\* accepts no other leaves.  Each asset's proof is its own.
THEOREM PublishingConvinces == PubSpec => OnlyPublishedIsAccepted
<1>1. ASSUME LedgerTypeOK, [PubNext]_allVars
      PROVE  [published' # published =>
                \A leaves \in {BuildLeavesFromDb} :
                  \A artifact \in {BuildLedgerArtifact(leaves, "publisher")} :
                    /\ AcceptsTheOriginal(artifact)
                    /\ \A others \in Altered(artifact) \cup {leaves} :
                         \A m \in Manifests(artifact, others) :
                           \A copy \in Copies(artifact, others, m) :
                             AcceptsOnlyTheOriginal(artifact, copy)
                    /\ ProofsSound(leaves)]_allVars
  <2> SUFFICES ASSUME published' # published
               PROVE  \A leaves \in {BuildLeavesFromDb} :
                        \A artifact \in {BuildLedgerArtifact(leaves, "publisher")} :
                          /\ AcceptsTheOriginal(artifact)
                          /\ \A others \in Altered(artifact) \cup {leaves} :
                               \A m \in Manifests(artifact, others) :
                                 \A copy \in Copies(artifact, others, m) :
                                   AcceptsOnlyTheOriginal(artifact, copy)
                          /\ ProofsSound(leaves)
    OBVIOUS
  <2>1. PublishLedger
    BY <1>1 DEF PubNext, LedgerStep, ComputeReserves, ReadHot, ReadOwed, ReadCold, RefillFloat,
                allVars, pubVars
  <2>2. PICK L : L = BuildLeavesFromDb
    OBVIOUS
  <2>3. PICK artifact : artifact = BuildLedgerArtifact(L, "publisher")
    OBVIOUS
  <2>4. L # {} /\ VerifyLedgerArtifact(artifact, "publisher")
    BY <2>1, <2>2, <2>3 DEF PublishLedger
  <2>5. /\ Keyed(L)
        /\ \A leaf \in L : leaf.amount \in Nat /\ leaf.status # "voided"
        /\ \A leaf \in L : leaf = [key |-> leaf.key, type |-> leaf.type,
                                   recipient |-> leaf.recipient, amount |-> leaf.amount,
                                   endTs |-> leaf.endTs, status |-> leaf.status]
    BY <1>1, <2>2, LeavesAreKeyed
  <2>6. AcceptsTheOriginal(artifact)
    BY <2>3, <2>4, OriginalIsAccepted
  <2>7. \A M \in Altered(artifact) : Keyed(M) /\ M # L
    <3>1. artifact.leaves = L
      BY <2>3 DEF BuildLedgerArtifact
    <3>2. ASSUME NEW M \in Altered(artifact) PROVE Keyed(M) /\ M # L
      <4>1. PICK leaf \in L :
              M \in {L \ {leaf}, (L \ {leaf}) \cup {[leaf EXCEPT !.amount = @ + 1]}}
        BY <3>1, <3>2 DEF Altered
      <4>2. PICK more : more = [leaf EXCEPT !.amount = @ + 1]
        OBVIOUS
      <4>3. M \in {L \ {leaf}, (L \ {leaf}) \cup {more}}
        BY <4>1, <4>2
      <4> QED
        BY <2>5, <4>2, <4>3, AlteredDiffer
    <3> QED
      BY <3>2
  <2>8. ASSUME NEW M \in Altered(artifact) \cup {L}, NEW m, NEW copy \in Copies(artifact, M, m)
        PROVE  AcceptsOnlyTheOriginal(artifact, copy)
    <3>1. Keyed(M) /\ "publisher" # None
      BY <2>4, <2>5, <2>7, <2>8 DEF VerifyLedgerArtifact
    <3> QED
      BY <2>3, <2>4, <2>5, <3>1, CopiesBind
  <2>9. ProofsSound(L)
    <3>1. ASSUME NEW leaf \in L, NEW m, m = ProveMembership(artifact, leaf.key),
                 NEW root, root = artifact.manifest.commit.root
          PROVE  /\ m.leaf = leaf /\ VerifyMembership(m, root)
                 /\ \A other \in {[leaf EXCEPT !.amount = @ + 1], [leaf EXCEPT !.status = "voided"]} :
                      \A hash \in {m.hash, HashLeaf(other)} :
                        ~VerifyMembership([leaf |-> other, hash |-> hash, proof |-> m.proof], root)
      <4>1. PICK more : more = [leaf EXCEPT !.amount = @ + 1]
        OBVIOUS
      <4>2. PICK void : void = [leaf EXCEPT !.status = "voided"]
        OBVIOUS
      <4>3. more # leaf
        <5>1. more.amount = leaf.amount + 1
          BY <2>5, <4>1
        <5> QED
          BY <2>5, <5>1
      <4>4. void # leaf
        <5>1. void.status = "voided"
          BY <2>5, <4>2
        <5> QED
          BY <2>5, <5>1
      <4>5. /\ m.leaf = leaf /\ VerifyMembership(m, root)
            /\ \A other : other # leaf =>
                 \A hash \in {m.hash, HashLeaf(other)} :
                   ~VerifyMembership([leaf |-> other, hash |-> hash, proof |-> m.proof], root)
        BY <2>3, <2>5, <3>1, MembersAreProved
      <4> QED
        BY <4>1, <4>2, <4>3, <4>4, <4>5
    <3> QED
      BY <2>3, <3>1 DEF ProofsSound
  <2> QED
    BY <2>2, <2>3, <2>6, <2>8, <2>9
<1>2. LedgerTypeOK /\ LedgerInv => LedgerTypeOK
  OBVIOUS
<1> QED
  BY <1>1, <1>2, LedgerInvariant, PTL DEF PubSpec, OnlyPublishedIsAccepted
=============================================================================
