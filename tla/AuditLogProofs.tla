--------------------------- MODULE AuditLogProofs ---------------------------
(***************************************************************************)
(* Theorems about the audit log, for any number of transactions, anchor    *)
(* jobs and readers, any page size and any length of the log: first as     *)
(* long as nobody writes behind the service's back, then, from what holds  *)
(* of the rows whoever wrote them, that an alteration is noticed.          *)
(***************************************************************************)
EXTENDS AuditLog, FiniteSetTheorems, WellFoundedInduction, TLAPS

\* Hashes of any length: the sequence behind seq is bounded for TLC alone.
AnyHash == Seq(Entry)
AnyRow  == [seq : Nat \ {0}, prev : AnyHash, entry : Entry, canon : Entry,
            hash : AnyHash, signature : AnyHash \cup {None}]

Txn == [pc : {"idle", "locked", "read"}, prev : AnyHash, rows : SUBSET AnyRow]
Job == [pc : {"start", "sign", "load", "head", "send", "confirm", "record", "done"},
        unsigned : SUBSET [seq : Nat, hash : AnyHash],
        seq : Nat, hash : AnyHash, confirmed : BOOLEAN]

AuditTypeOK ==
  /\ log \subseteq AnyRow
  /\ nextSeq \in Nat \ {0}
  /\ lock \in Writers \cup {None}
  /\ txn \in [Writers -> Txn]
  /\ cli \in [Runs -> Job]
  /\ memo \in [Runs -> {"none", "sent", "landed", "failed"}]
  /\ page \in [cursor : Nat, rows : SUBSET AnyRow]

\* A seq names one row.
OneRowPerSeq(rows) == \A p, q \in rows : p.seq = q.seq => p = q

\* The lock is held from the first append to the end of the transaction.
LockIsHeld == \A w \in Writers : txn[w] # Idle => lock = w

\* Rows are numbered in the order they will be committed in.
SeqsInOrder ==
  /\ \A q \in log : q.seq < nextSeq
  /\ \A w \in Writers : \A r \in txn[w].rows : r.seq < nextSeq /\ \A q \in log : q.seq < r.seq

\* What the log would be if w's transaction committed.
With(w) == log \cup txn[w].rows

\* Each row commits to the one before, those not committed yet too.
ChainsHold ==
  /\ OneRowPerSeq(log) /\ VerifyAuditChain(log, FALSE, TRUE)
  /\ \A r \in log : r.entry = r.canon
  /\ \A w \in Writers :
       /\ OneRowPerSeq(With(w)) /\ VerifyAuditChain(With(w), FALSE, TRUE)
       /\ \A r \in txn[w].rows : r.entry = r.canon
       /\ txn[w].pc = "read" => txn[w].prev = HeadHash(With(w))

\* What an anchor job read is still in the log.
JobsReadTheLog ==
  \A r \in Runs :
    /\ \A u \in cli[r].unsigned : \E q \in log : q.seq = u.seq /\ q.hash = u.hash
    /\ cli[r].pc \in {"send", "confirm", "record"} \/ memo[r] # "none" =>
         \E q \in log : q.seq = cli[r].seq /\ q.hash = cli[r].hash

\* A reader has the rows up to its cursor, signed or not yet.
PagesAreExact ==
  /\ page.cursor = 0 \/ \E q \in log : q.seq = page.cursor
  /\ Unsigned(page.rows) = Unsigned(UpTo(log, page.cursor))
  /\ OneRowPerSeq(page.rows)
  /\ \A r \in page.rows : r.signature \in {None, r.hash}

AuditInv ==
  AuditTypeOK /\ LockIsHeld /\ SeqsInOrder /\ ChainsHold /\ JobsReadTheLog /\ PagesAreExact

-----------------------------------------------------------------------------
(***************************************************************************)
(* Rows, hashes and chains.                                                *)
(***************************************************************************)

\* A bounded set of numbers has a greatest one.
LEMMA GreatestOne ==
  ASSUME NEW n \in Nat, NEW T \in SUBSET (0 .. n), T # {}
  PROVE  \E x \in T : \A y \in T : y <= x
<1> DEFINE U == {n - x : x \in T}
           R == OpToRel(<, Nat)
<1>1. U \subseteq Nat /\ U # {}
  <2>1. \A x \in T : n - x \in Nat
    OBVIOUS
  <2> QED
    BY <2>1
<1>2. \E m \in U : \A k \in U : ~(<<k, m>> \in R)
  BY <1>1, NatLessThanWellFounded, WFMin
<1>3. \A k, m \in Nat : k < m => <<k, m>> \in R
  BY DEF OpToRel
<1> HIDE DEF R
<1>4. PICK m \in U : \A k \in U : ~(k < m)
  BY <1>1, <1>2, <1>3
<1>5. PICK x \in T : m = n - x
  BY <1>4
<1>6. \A y \in T : ~(n - y < n - x)
  BY <1>4, <1>5
<1> QED
  BY <1>6

Below(rows, n) == \A r \in rows : r.seq < n

\* Latest is a row of the set, and none has a higher seq.
LEMMA LatestIsLast ==
  ASSUME NEW rows \in SUBSET AnyRow, NEW n \in Nat, Below(rows, n), rows # {}
  PROVE  Latest(rows) \in rows /\ \A q \in rows : q.seq <= Latest(rows).seq
<1> DEFINE T == {r.seq : r \in rows}
<1>1. T \in SUBSET (0 .. n) /\ T # {}
  BY DEF AnyRow, Below
<1>2. \E x \in T : \A y \in T : y <= x
  BY <1>1, GreatestOne
<1>3. \E r \in rows : \A q \in rows : q.seq <= r.seq
  BY <1>2
<1> QED
  BY <1>3 DEF Latest

\* Rows that are equal but for their signatures.
Alike(p, q) ==
  /\ p.seq = q.seq /\ p.prev = q.prev /\ p.entry = q.entry
  /\ p.canon = q.canon /\ p.hash = q.hash

LEMMA BareRow ==
  ASSUME NEW p \in AnyRow, NEW q \in AnyRow
  PROVE  [p EXCEPT !.signature = None] = [q EXCEPT !.signature = None] <=> Alike(p, q)
BY DEF AnyRow, Alike

LEMMA SameUnsigned ==
  ASSUME NEW X \in SUBSET AnyRow, NEW Y \in SUBSET AnyRow
  PROVE  Unsigned(X) = Unsigned(Y) <=>
           /\ \A x \in X : \E y \in Y : Alike(x, y)
           /\ \A y \in Y : \E x \in X : Alike(x, y)
<1> DEFINE Bare(r) == [r EXCEPT !.signature = None]
<1>1. \A x \in X, y \in Y : Bare(x) = Bare(y) <=> Alike(x, y)
  BY BareRow
<1>2. Unsigned(X) = {Bare(x) : x \in X} /\ Unsigned(Y) = {Bare(y) : y \in Y}
  BY DEF Unsigned
<1> HIDE DEF Bare
<1>3. ASSUME Unsigned(X) = Unsigned(Y)
      PROVE  /\ \A x \in X : \E y \in Y : Bare(x) = Bare(y)
             /\ \A y \in Y : \E x \in X : Bare(x) = Bare(y)
  <2>1. ASSUME NEW x \in X PROVE \E y \in Y : Bare(x) = Bare(y)
    <3>1. Bare(x) \in {Bare(z) : z \in X}
      OBVIOUS
    <3>2. Bare(x) \in {Bare(y) : y \in Y}
      BY <1>2, <1>3, <3>1
    <3> QED
      BY <3>2
  <2>2. ASSUME NEW y \in Y PROVE \E x \in X : Bare(x) = Bare(y)
    <3>1. Bare(y) \in {Bare(z) : z \in Y}
      OBVIOUS
    <3>2. Bare(y) \in {Bare(x) : x \in X}
      BY <1>2, <1>3, <3>1
    <3> QED
      BY <3>2
  <2> QED
    BY <2>1, <2>2
<1>4. ASSUME /\ \A x \in X : \E y \in Y : Bare(x) = Bare(y)
             /\ \A y \in Y : \E x \in X : Bare(x) = Bare(y)
      PROVE  Unsigned(X) = Unsigned(Y)
  <2>1. {Bare(x) : x \in X} = {Bare(y) : y \in Y}
    BY <1>4
  <2> QED
    BY <1>2, <2>1
<1> QED
  BY <1>1, <1>3, <1>4

\* The head is the same however many rows of a log have been signed.
LEMMA SameHead ==
  ASSUME NEW X \in SUBSET AnyRow, NEW Y \in SUBSET AnyRow, NEW n \in Nat, Below(X, n), Below(Y, n),
         OneRowPerSeq(Y), Unsigned(X) = Unsigned(Y)
  PROVE  HeadHash(X) = HeadHash(Y)
<1>1. /\ \A x \in X : \E y \in Y : Alike(x, y)
      /\ \A y \in Y : \E x \in X : Alike(x, y)
  BY SameUnsigned
<1>2. CASE X = {}
  BY <1>1, <1>2 DEF HeadHash
<1>3. CASE X # {}
  <2>1. Y # {}
    BY <1>1, <1>3
  <2>2. PICK a \in X : a = Latest(X) /\ \A q \in X : q.seq <= a.seq
    BY <1>3, LatestIsLast
  <2>3. PICK b \in Y : b = Latest(Y) /\ \A q \in Y : q.seq <= b.seq
    BY <2>1, LatestIsLast
  <2>4. PICK y \in Y : Alike(a, y)
    BY <1>1
  <2>5. PICK x \in X : Alike(x, b)
    BY <1>1
  <2>6. y.seq <= b.seq /\ b.seq <= y.seq /\ y.seq \in Nat /\ b.seq \in Nat
    BY <2>2, <2>3, <2>4, <2>5 DEF Alike, AnyRow
  <2>7. y = b
    BY <2>6 DEF OneRowPerSeq
  <2> QED
    BY <1>3, <2>1, <2>2, <2>3, <2>4, <2>7 DEF HeadHash, Alike
<1> QED
  BY <1>2, <1>3

\* A copy of a chain verifies, with the entries as stored or as served, if its
\* signatures do.
LEMMA ChainCarries ==
  ASSUME NEW X \in SUBSET AnyRow, NEW Y \in SUBSET AnyRow, NEW n \in Nat, Below(X, n), Below(Y, n),
         OneRowPerSeq(Y), Unsigned(X) = Unsigned(Y),
         VerifyAuditChain(X, FALSE, TRUE), \A x \in X : x.entry = x.canon,
         \A y \in Y : y.signature \in {None, y.hash}, NEW served \in BOOLEAN
  PROVE  VerifyAuditChain(Y, served, TRUE)
<1>1. /\ \A x \in X : \E y \in Y : Alike(x, y)
      /\ \A y \in Y : \E x \in X : Alike(x, y)
  BY SameUnsigned
<1> SUFFICES ASSUME NEW y \in Y
             PROVE  y.prev = HeadHash(Before(Y, y)) /\ y.hash = Recomputed(y, served)
  BY DEF VerifyAuditChain
<1>2. PICK x \in X : Alike(x, y)
  BY <1>1
<1>3. x.prev = HeadHash(Before(X, x)) /\ x.hash = Recomputed(x, FALSE) /\ x.entry = x.canon
  BY DEF VerifyAuditChain
<1>4. y.hash = Recomputed(y, served)
  BY <1>2, <1>3 DEF Alike, Recomputed
<1>5. PICK A : A = Before(X, x)
  OBVIOUS
<1>6. PICK B : B = Before(Y, y)
  OBVIOUS
<1>7. /\ A \in SUBSET AnyRow /\ B \in SUBSET AnyRow /\ Below(A, n) /\ Below(B, n) /\ OneRowPerSeq(B)
  BY <1>5, <1>6 DEF Before, Below, OneRowPerSeq
<1>8. /\ \A p \in A : \E q \in B : Alike(p, q)
      /\ \A q \in B : \E p \in A : Alike(p, q)
  BY <1>1, <1>2, <1>5, <1>6 DEF Before, Alike
<1>9. Unsigned(A) = Unsigned(B)
  BY <1>7, <1>8, SameUnsigned
<1>10. HeadHash(A) = HeadHash(B)
  BY <1>7, <1>9, SameHead
<1> QED
  BY <1>2, <1>3, <1>4, <1>5, <1>6, <1>10 DEF Alike

\* The rows up to one of them are a chain of their own.
LEMMA ChainUpTo ==
  ASSUME NEW X \in SUBSET AnyRow, NEW s \in Nat, NEW served, NEW keyed, VerifyAuditChain(X, served, keyed)
  PROVE  VerifyAuditChain(UpTo(X, s), served, keyed)
<1> SUFFICES ASSUME NEW r \in UpTo(X, s)
             PROVE  /\ r.prev = HeadHash(Before(UpTo(X, s), r)) /\ r.hash = Recomputed(r, served)
                    /\ keyed => r.signature \in {None, r.hash}
  BY DEF VerifyAuditChain
<1>1. r \in X /\ r.seq <= s /\ \A q \in X : q.seq < r.seq => q.seq <= s
  BY DEF UpTo, AnyRow
<1>2. Before(UpTo(X, s), r) = Before(X, r)
  BY <1>1 DEF Before, UpTo
<1> QED
  BY <1>1, <1>2 DEF VerifyAuditChain

\* Without the audit key less is looked at.
LEMMA KeyedIsStricter ==
  ASSUME NEW X, NEW served, NEW keyed \in BOOLEAN, VerifyAuditChain(X, served, TRUE)
  PROVE  VerifyAuditChain(X, served, keyed)
BY DEF VerifyAuditChain

LEMMA WithoutTheKey ==
  ASSUME NEW X, NEW served, NEW keyed, VerifyAuditChain(X, served, keyed)
  PROVE  VerifyAuditChain(X, served, FALSE)
BY DEF VerifyAuditChain

\* A row after the last, over the last one's hash, makes the chain longer.
LEMMA ChainGrows ==
  ASSUME NEW X \in SUBSET AnyRow, NEW r \in AnyRow, \A q \in X : q.seq < r.seq,
         r.prev = HeadHash(X), r.hash = Append(r.prev, r.canon), r.signature = None,
         OneRowPerSeq(X), VerifyAuditChain(X, FALSE, TRUE)
  PROVE  OneRowPerSeq(X \cup {r}) /\ VerifyAuditChain(X \cup {r}, FALSE, TRUE)
<1>1. OneRowPerSeq(X \cup {r})
  BY DEF OneRowPerSeq, AnyRow
<1>2. Before(X \cup {r}, r) = X
  BY DEF Before, AnyRow
<1>3. ASSUME NEW q \in X PROVE Before(X \cup {r}, q) = Before(X, q)
  BY DEF Before, AnyRow
<1>4. VerifyAuditChain(X \cup {r}, FALSE, TRUE)
  BY <1>2, <1>3 DEF VerifyAuditChain, Recomputed
<1> QED
  BY <1>1, <1>4

LEMMA HeadIsHash ==
  ASSUME NEW X \in SUBSET AnyRow, NEW n \in Nat, Below(X, n)
  PROVE  HeadHash(X) \in AnyHash
<1>1. CASE X = {}
  BY <1>1 DEF HeadHash, Genesis, AnyHash
<1>2. CASE X # {}
  BY <1>2, LatestIsLast DEF HeadHash, AnyRow
<1> QED
  BY <1>1, <1>2

-----------------------------------------------------------------------------
(***************************************************************************)
(* The transactions that append.                                           *)
(***************************************************************************)

LEMMA AuditInitial == Init => AuditInv
<1> SUFFICES ASSUME Init PROVE AuditInv
  OBVIOUS
<1>1. Idle \in Txn /\ Idle.rows = {} /\ Idle.pc = "idle"
  BY DEF Idle, Txn, Genesis, AnyHash
<1>2. Ready \in Job /\ Ready.unsigned = {} /\ Ready.pc = "start"
  BY DEF Ready, Job, Genesis, AnyHash
<1>3. AuditTypeOK
  BY <1>1, <1>2 DEF Init, AuditTypeOK
<1>4. LockIsHeld /\ SeqsInOrder
  BY <1>1 DEF Init, LockIsHeld, SeqsInOrder
<1>5. ChainsHold
  <2>1. OneRowPerSeq({}) /\ VerifyAuditChain({}, FALSE, TRUE)
    BY DEF OneRowPerSeq, VerifyAuditChain
  <2>2. log = {} /\ \A w \in Writers : With(w) = {} /\ txn[w].rows = {} /\ txn[w].pc # "read"
    BY <1>1 DEF Init, With
  <2> QED
    BY <2>1, <2>2 DEF ChainsHold
<1>6. JobsReadTheLog
  BY <1>2 DEF Init, JobsReadTheLog
<1>7. PagesAreExact
  BY DEF Init, PagesAreExact, Unsigned, UpTo, OneRowPerSeq
<1> QED
  BY <1>3, <1>4, <1>5, <1>6, <1>7 DEF AuditInv

\* The lock lets one transaction append at a time.
LEMMA OneAtATime ==
  ASSUME AuditInv, NEW w \in Writers, NEW v \in Writers, v # w, txn[w] # Idle
  PROVE  txn[v] = Idle
BY DEF AuditInv, LockIsHeld

\* Rows that come after the others change nothing of what was read before.
LEMMA ReadersKeep ==
  ASSUME AuditInv, NEW new \in SUBSET AnyRow, \A r \in new : \A q \in log : q.seq < r.seq,
         log' = log \cup new, UNCHANGED <<cli, memo, page>>
  PROVE  JobsReadTheLog' /\ PagesAreExact'
<1>1. JobsReadTheLog'
  BY DEF AuditInv, JobsReadTheLog
<1>2. page.cursor \in Nat /\ log \subseteq AnyRow
  BY DEF AuditInv, AuditTypeOK
<1>3. \A r \in new : r.seq \in Nat /\ r.seq > page.cursor
  <2>1. CASE page.cursor = 0
    BY <2>1 DEF AnyRow
  <2>2. CASE page.cursor # 0
    BY <2>2 DEF AuditInv, PagesAreExact, AnyRow
  <2> QED
    BY <2>1, <2>2
<1>4. UpTo(log', page.cursor) = UpTo(log, page.cursor)
  BY <1>2, <1>3 DEF UpTo
<1> QED
  BY <1>1, <1>4 DEF AuditInv, PagesAreExact

\* A transaction that has not committed moves on, to t.
LEMMA TransactionMoves ==
  ASSUME AuditInv, NEW w \in Writers, NEW t \in Txn, txn' = [txn EXCEPT ![w] = t],
         lock' \in Writers \cup {None}, t # Idle => lock' = w,
         \A v \in Writers : v # w /\ txn[v] # Idle => lock' = v,
         nextSeq' \in Nat \ {0}, nextSeq <= nextSeq', UNCHANGED <<log, cli, memo, page>>,
         \A r \in t.rows : /\ r.seq < nextSeq' /\ r.entry = r.canon
                           /\ \A q \in log : q.seq < r.seq,
         OneRowPerSeq(log \cup t.rows), VerifyAuditChain(log \cup t.rows, FALSE, TRUE),
         t.pc = "read" => t.prev = HeadHash(log \cup t.rows)
  PROVE  AuditInv'
<1>1. /\ txn' \in [Writers -> Txn] /\ txn'[w] = t
      /\ \A v \in Writers : v # w => txn'[v] = txn[v]
  BY DEF AuditInv, AuditTypeOK
<1>2. AuditTypeOK'
  BY <1>1 DEF AuditInv, AuditTypeOK
<1>3. LockIsHeld'
  BY <1>1 DEF AuditInv, LockIsHeld
<1>4. SeqsInOrder'
  <2>1. \A q \in log : q.seq \in Nat /\ q.seq < nextSeq'
    BY DEF AuditInv, AuditTypeOK, SeqsInOrder, AnyRow
  <2>2. ASSUME NEW v \in Writers, v # w, NEW r \in txn[v].rows
        PROVE  r.seq < nextSeq' /\ \A q \in log : q.seq < r.seq
    <3>1. txn[v].rows \subseteq AnyRow
      BY DEF AuditInv, AuditTypeOK, Txn
    <3> QED
      BY <2>2, <3>1 DEF AuditInv, AuditTypeOK, SeqsInOrder, AnyRow
  <2> QED
    BY <1>1, <2>1, <2>2 DEF SeqsInOrder
<1>5. ChainsHold'
  BY <1>1 DEF AuditInv, ChainsHold, With
<1>6. JobsReadTheLog' /\ PagesAreExact'
  <2>1. PICK new \in SUBSET AnyRow : new = {}
    OBVIOUS
  <2>2. log' = log \cup new
    BY <2>1
  <2> QED
    BY <2>1, <2>2, ReadersKeep
<1> QED
  BY <1>2, <1>3, <1>4, <1>5, <1>6 DEF AuditInv

LEMMA WriterStepKeeps ==
  ASSUME AuditInv, NEW w \in Writers, WriterStep(w)
  PROVE  AuditInv'
<1>0. /\ txn[w] \in Txn /\ txn[w].rows \in SUBSET AnyRow /\ txn[w].prev \in AnyHash
      /\ nextSeq \in Nat \ {0} /\ log \in SUBSET AnyRow /\ lock \in Writers \cup {None}
  BY DEF AuditInv, AuditTypeOK, Txn
<1>idle. Idle \in Txn /\ Idle.rows = {} /\ Idle.pc = "idle"
  BY DEF Idle, Txn, Genesis, AnyHash
<1>rows. /\ \A r \in txn[w].rows : /\ r.seq < nextSeq /\ r.entry = r.canon
                                   /\ \A q \in log : q.seq < r.seq
         /\ OneRowPerSeq(log \cup txn[w].rows) /\ VerifyAuditChain(log \cup txn[w].rows, FALSE, TRUE)
         /\ OneRowPerSeq(log) /\ VerifyAuditChain(log, FALSE, TRUE)
         /\ txn[w].pc = "read" => txn[w].prev = HeadHash(log \cup txn[w].rows)
  BY DEF AuditInv, SeqsInOrder, ChainsHold, With
<1>below. log \cup txn[w].rows \in SUBSET AnyRow /\ Below(log \cup txn[w].rows, nextSeq)
  BY <1>0, <1>rows DEF AuditInv, SeqsInOrder, Below
<1>1. CASE LockAudit(w)
  <2> DEFINE t == [txn[w] EXCEPT !.pc = "locked"]
  <2>1. /\ lock \in {None, w} /\ lock' = w /\ txn' = [txn EXCEPT ![w] = t]
        /\ UNCHANGED <<log, nextSeq, cli, memo, page>>
    BY <1>1 DEF LockAudit, runVars
  <2>2. t \in Txn /\ t.rows = txn[w].rows /\ t.pc = "locked"
    BY <1>0 DEF Txn
  <2> HIDE DEF t
  <2>3. \A v \in Writers : v # w => txn[v] = Idle
    BY <2>1, AuditAssumption DEF AuditInv, LockIsHeld
  <2>4. /\ \A r \in t.rows : /\ r.seq < nextSeq' /\ r.entry = r.canon
                            /\ \A q \in log : q.seq < r.seq
        /\ OneRowPerSeq(log \cup t.rows) /\ VerifyAuditChain(log \cup t.rows, FALSE, TRUE)
        /\ nextSeq' \in Nat \ {0} /\ nextSeq <= nextSeq'
    <3>1. \A r \in t.rows : /\ r.seq < nextSeq' /\ r.entry = r.canon
                             /\ \A q \in log : q.seq < r.seq
      BY <1>0, <1>rows, <2>1, <2>2
    <3>2. OneRowPerSeq(log \cup t.rows) /\ VerifyAuditChain(log \cup t.rows, FALSE, TRUE)
      BY <1>0, <1>rows, <2>1, <2>2
    <3>3. nextSeq' \in Nat \ {0} /\ nextSeq <= nextSeq'
      BY <1>0, <1>rows, <2>1, <2>2
    <3> QED
      BY <3>1, <3>2, <3>3
  <2> QED
    BY <2>1, <2>2, <2>3, <2>4, TransactionMoves
<1>2. CASE ReadPrevHash(w)
  <2> DEFINE t == [txn[w] EXCEPT !.pc = "read", !.prev = HeadHash(log \cup txn[w].rows)]
  <2>1. /\ txn[w].pc = "locked" /\ txn' = [txn EXCEPT ![w] = t]
        /\ UNCHANGED <<log, nextSeq, lock, cli, memo, page>>
    BY <1>2 DEF ReadPrevHash, runVars
  <2>2. HeadHash(log \cup txn[w].rows) \in AnyHash
    BY <1>0, <1>below, HeadIsHash
  <2>3. /\ t \in Txn /\ t.rows = txn[w].rows /\ t.pc = "read"
        /\ t.prev = HeadHash(log \cup txn[w].rows)
    BY <1>0, <2>2 DEF Txn
  <2> HIDE DEF t
  <2>4. txn[w] # Idle /\ lock = w
    BY <1>idle, <2>1 DEF AuditInv, LockIsHeld
  <2>5. \A v \in Writers : v # w => txn[v] = Idle
    BY <2>4, OneAtATime
  <2>6. /\ \A r \in t.rows : /\ r.seq < nextSeq' /\ r.entry = r.canon
                            /\ \A q \in log : q.seq < r.seq
        /\ OneRowPerSeq(log \cup t.rows) /\ VerifyAuditChain(log \cup t.rows, FALSE, TRUE)
        /\ nextSeq' \in Nat \ {0} /\ nextSeq <= nextSeq'
    <3>1. \A r \in t.rows : /\ r.seq < nextSeq' /\ r.entry = r.canon
                             /\ \A q \in log : q.seq < r.seq
      BY <1>0, <1>rows, <2>1, <2>3
    <3>2. OneRowPerSeq(log \cup t.rows) /\ VerifyAuditChain(log \cup t.rows, FALSE, TRUE)
      BY <1>0, <1>rows, <2>1, <2>3
    <3>3. nextSeq' \in Nat \ {0} /\ nextSeq <= nextSeq'
      BY <1>0, <1>rows, <2>1, <2>3
    <3> QED
      BY <3>1, <3>2, <3>3
  <2> QED
    BY <1>0, <2>1, <2>3, <2>4, <2>5, <2>6, TransactionMoves
<1>3. CASE InsertRow(w)
  <2>1. PICK e \in Entry :
          txn' = [txn EXCEPT ![w].pc = "idle",
                             ![w].rows = @ \cup {NewRow(nextSeq, txn[w].prev, e)}]
    BY <1>3 DEF InsertRow
  <2>2. /\ txn[w].pc = "read" /\ nextSeq' = nextSeq + 1
        /\ UNCHANGED <<log, lock, cli, memo, page>>
    BY <1>3 DEF InsertRow, runVars
  <2>3. PICK r : r = NewRow(nextSeq, txn[w].prev, e)
    OBVIOUS
  <2>4. /\ r \in AnyRow /\ r.seq = nextSeq /\ r.prev = txn[w].prev /\ r.entry = r.canon
        /\ r.hash = Append(r.prev, r.canon) /\ r.signature = None
    <3>1. Append(txn[w].prev, e) \in AnyHash
      BY <1>0 DEF AnyHash
    <3> QED
      BY <1>0, <2>3, <3>1 DEF NewRow, AnyRow
  <2> DEFINE t == [txn[w] EXCEPT !.pc = "idle", !.rows = @ \cup {r}]
  <2>5. txn' = [txn EXCEPT ![w] = t]
    BY <2>1, <2>3
  <2>6. t \in Txn /\ t.rows = txn[w].rows \cup {r} /\ t.pc = "idle"
    BY <1>0, <2>4 DEF Txn
  <2> HIDE DEF t
  <2>7. txn[w] # Idle /\ lock = w
    BY <1>idle, <2>2 DEF AuditInv, LockIsHeld
  <2>8. \A v \in Writers : v # w => txn[v] = Idle
    BY <2>7, OneAtATime
  <2>9. PICK X : X = log \cup txn[w].rows
    OBVIOUS
  <2>10. /\ X \in SUBSET AnyRow /\ \A q \in X : q.seq < r.seq
         /\ r.prev = HeadHash(X) /\ OneRowPerSeq(X) /\ VerifyAuditChain(X, FALSE, TRUE)
    BY <1>rows, <1>below, <2>2, <2>4, <2>9 DEF Below
  <2>11. OneRowPerSeq(X \cup {r}) /\ VerifyAuditChain(X \cup {r}, FALSE, TRUE)
    BY <2>4, <2>10, ChainGrows
  <2>12. log \cup t.rows = X \cup {r}
    BY <2>6, <2>9
  <2>13. \A q \in t.rows : /\ q.seq < nextSeq' /\ q.entry = q.canon
                           /\ \A p \in log : p.seq < q.seq
    <3>1. ASSUME NEW q \in txn[w].rows PROVE q.seq < nextSeq + 1
      BY <1>0, <1>rows DEF AnyRow
    <3>2. \A p \in log : p.seq < r.seq
      BY <2>9, <2>10
    <3> QED
      BY <1>0, <1>rows, <2>2, <2>4, <2>6, <3>1, <3>2
  <2>14. nextSeq' \in Nat \ {0} /\ nextSeq <= nextSeq'
    BY <1>0, <2>2
  <2> QED
    BY <1>0, <2>2, <2>5, <2>6, <2>7, <2>8, <2>11, <2>12, <2>13, <2>14, TransactionMoves
<1>4. CASE Rollback(w)
  <2>1. /\ txn[w] # Idle /\ txn' = [txn EXCEPT ![w] = Idle]
        /\ lock' = (IF lock = w THEN None ELSE lock)
        /\ UNCHANGED <<log, nextSeq, cli, memo, page>>
    BY <1>4 DEF Rollback, EndTransaction, runVars
  <2>2. \A v \in Writers : v # w => txn[v] = Idle
    BY <2>1, OneAtATime
  <2>3. log \cup Idle.rows = log
    BY <1>idle
  <2>4. /\ \A r \in Idle.rows : /\ r.seq < nextSeq' /\ r.entry = r.canon
                            /\ \A q \in log : q.seq < r.seq
        /\ OneRowPerSeq(log \cup Idle.rows) /\ VerifyAuditChain(log \cup Idle.rows, FALSE, TRUE)
        /\ nextSeq' \in Nat \ {0} /\ nextSeq <= nextSeq'
    <3>1. \A r \in Idle.rows : /\ r.seq < nextSeq' /\ r.entry = r.canon
                             /\ \A q \in log : q.seq < r.seq
      BY <1>0, <1>idle, <1>rows, <2>1, <2>3
    <3>2. OneRowPerSeq(log \cup Idle.rows) /\ VerifyAuditChain(log \cup Idle.rows, FALSE, TRUE)
      BY <1>0, <1>idle, <1>rows, <2>1, <2>3
    <3>3. nextSeq' \in Nat \ {0} /\ nextSeq <= nextSeq'
      BY <1>0, <1>idle, <1>rows, <2>1, <2>3
    <3> QED
      BY <3>1, <3>2, <3>3
  <2> QED
    BY <1>0, <1>idle, <2>1, <2>2, <2>4, TransactionMoves
<1>5. CASE Commit(w)
  <2>1. /\ txn[w].rows # {} /\ log' = log \cup txn[w].rows /\ txn' = [txn EXCEPT ![w] = Idle]
        /\ lock' = (IF lock = w THEN None ELSE lock) /\ UNCHANGED <<nextSeq, cli, memo, page>>
    BY <1>5 DEF Commit, EndTransaction, runVars
  <2>2. \A v \in Writers : txn'[v] = Idle
    BY <1>idle, <2>1, OneAtATime DEF AuditInv, AuditTypeOK
  <2>3. AuditTypeOK'
    BY <1>0, <1>idle, <2>1 DEF AuditInv, AuditTypeOK
  <2>4. LockIsHeld'
    BY <2>2 DEF LockIsHeld
  <2>5. SeqsInOrder'
    BY <1>idle, <1>rows, <2>1, <2>2 DEF AuditInv, SeqsInOrder
  <2>6. ChainsHold'
    <3>1. /\ OneRowPerSeq(log') /\ VerifyAuditChain(log', FALSE, TRUE)
          /\ \A r \in log' : r.entry = r.canon
      BY <1>rows, <2>1 DEF AuditInv, ChainsHold
    <3>2. \A v \in Writers : /\ With(v)' = log' /\ txn'[v].rows = {} /\ txn'[v].pc # "read"
      BY <1>idle, <2>2 DEF With
    <3> QED
      BY <3>1, <3>2 DEF ChainsHold
  <2>7. JobsReadTheLog' /\ PagesAreExact'
    BY <1>0, <1>rows, <2>1, ReadersKeep
  <2> QED
    BY <2>3, <2>4, <2>5, <2>6, <2>7 DEF AuditInv
<1> QED
  BY <1>1, <1>2, <1>3, <1>4, <1>5 DEF WriterStep

-----------------------------------------------------------------------------
(***************************************************************************)
(* The anchor job.                                                         *)
(***************************************************************************)

\* A run of the job moves on, to j, its memo to m; the log stays.
LEMMA JobMoves ==
  ASSUME AuditInv, NEW r \in Runs, NEW j \in Job, NEW m \in {"none", "sent", "landed", "failed"},
         cli' = [cli EXCEPT ![r] = j], memo' = [memo EXCEPT ![r] = m],
         UNCHANGED <<log, nextSeq, lock, txn, page>>,
         \A u \in j.unsigned : \E q \in log : q.seq = u.seq /\ q.hash = u.hash,
         j.pc \in {"send", "confirm", "record"} \/ m # "none" =>
           \E q \in log : q.seq = j.seq /\ q.hash = j.hash
  PROVE  AuditInv'
<1>1. /\ cli' \in [Runs -> Job] /\ cli'[r] = j /\ \A x \in Runs : x # r => cli'[x] = cli[x]
      /\ memo' \in [Runs -> {"none", "sent", "landed", "failed"}]
      /\ memo'[r] = m /\ \A x \in Runs : x # r => memo'[x] = memo[x]
  BY DEF AuditInv, AuditTypeOK
<1>2. AuditTypeOK'
  BY <1>1 DEF AuditInv, AuditTypeOK
<1>3. LockIsHeld' /\ SeqsInOrder' /\ ChainsHold' /\ PagesAreExact'
  BY DEF AuditInv, LockIsHeld, SeqsInOrder, ChainsHold, With, PagesAreExact
<1>4. JobsReadTheLog'
  BY <1>1 DEF AuditInv, JobsReadTheLog
<1> QED
  BY <1>2, <1>3, <1>4 DEF AuditInv

\* A signature that is stored is the one of the row it is stored with.
LEMMA SigningKeeps ==
  ASSUME AuditInv, NEW r \in Runs, SignUnsignedAuditRows(r)
  PROVE  AuditInv'
<1> DEFINE Signed(q) ==
      LET u == {u \in cli[r].unsigned : u.seq = q.seq}
      IN IF u = {} THEN q ELSE [q EXCEPT !.signature = (CHOOSE v \in u : TRUE).hash]
<1>1. /\ log' = {Signed(q) : q \in log} /\ cli' = [cli EXCEPT ![r].pc = "load", ![r].unsigned = {}]
      /\ cli[r].pc = "sign" /\ UNCHANGED <<nextSeq, lock, txn, memo, page>>
  BY DEF SignUnsignedAuditRows, writeVars
<1>0. /\ log \in SUBSET AnyRow /\ nextSeq \in Nat /\ Below(log, nextSeq) /\ OneRowPerSeq(log)
      /\ \A q \in log : q.signature \in {None, q.hash} /\ q.entry = q.canon
      /\ cli[r] \in Job
  BY DEF AuditInv, AuditTypeOK, SeqsInOrder, Below, ChainsHold, VerifyAuditChain
<1>2. ASSUME NEW q \in log
      PROVE  /\ Signed(q) \in AnyRow /\ Alike(Signed(q), q)
             /\ Signed(q).signature \in {None, Signed(q).hash}
  <2> DEFINE u == {u \in cli[r].unsigned : u.seq = q.seq}
  <2>1. CASE u = {}
    BY <1>0, <2>1 DEF Alike
  <2>2. CASE u # {}
    <3>1. PICK v \in u : v = CHOOSE x \in u : TRUE
      BY <2>2
    <3>2. PICK p \in log : p.seq = v.seq /\ p.hash = v.hash
      BY DEF AuditInv, JobsReadTheLog
    <3>3. v.hash = q.hash
      BY <1>0, <3>2 DEF OneRowPerSeq
    <3>4. Signed(q) = [q EXCEPT !.signature = q.hash]
      BY <2>2, <3>1, <3>3
    <3>5. q \in AnyRow
      BY <1>0
    <3> QED
      BY <3>4, <3>5 DEF AnyRow, Alike
  <2> QED
    BY <2>1, <2>2
<1> HIDE DEF Signed
<1>3. /\ log' \in SUBSET AnyRow
      /\ \A x \in log' : x.signature \in {None, x.hash} /\ \E q \in log : x = Signed(q) /\ Alike(x, q)
      /\ \A q \in log : Signed(q) \in log' /\ Alike(Signed(q), q)
  BY <1>1, <1>2
\* The log with more rows, R: as a chain it stays what it was.
<1>4. ASSUME NEW R \in SUBSET AnyRow, Below(R, nextSeq), \A x \in R : \A q \in log : q.seq < x.seq,
             OneRowPerSeq(log \cup R), VerifyAuditChain(log \cup R, FALSE, TRUE),
             \A x \in R : x.entry = x.canon
      PROVE  /\ OneRowPerSeq(log' \cup R) /\ VerifyAuditChain(log' \cup R, FALSE, TRUE)
             /\ HeadHash(log' \cup R) = HeadHash(log \cup R)
  <2>1. PICK X : X = log \cup R
    OBVIOUS
  <2>2. PICK Y : Y = log' \cup R
    OBVIOUS
  <2>3. /\ X \in SUBSET AnyRow /\ Y \in SUBSET AnyRow /\ Below(X, nextSeq)
        /\ \A x \in X : x.entry = x.canon
    BY <1>0, <1>3, <1>4, <2>1, <2>2 DEF Below
  <2>4. Below(Y, nextSeq)
    BY <1>0, <1>3, <1>4, <2>2 DEF Below, Alike
  <2>5. OneRowPerSeq(Y)
    <3>1. ASSUME NEW p \in log', NEW q \in log', p.seq = q.seq PROVE p = q
      <4>1. PICK a \in log : p = Signed(a) /\ Alike(p, a)
        BY <1>3
      <4>2. PICK b \in log : q = Signed(b) /\ Alike(q, b)
        BY <1>3
      <4>3. a = b
        BY <1>0, <3>1, <4>1, <4>2 DEF Alike, OneRowPerSeq
      <4> QED
        BY <4>1, <4>2, <4>3
    <3>2. ASSUME NEW p \in log', NEW q \in R PROVE p.seq < q.seq /\ p.seq \in Nat /\ q.seq \in Nat
      BY <1>3, <1>4 DEF Alike, AnyRow
    <3>3. ASSUME NEW p \in R, NEW q \in R, p.seq = q.seq PROVE p = q
      BY <1>4, <3>3 DEF OneRowPerSeq
    <3> QED
      BY <2>2, <3>1, <3>2, <3>3 DEF OneRowPerSeq
  <2>6. Unsigned(X) = Unsigned(Y)
    <3>1. ASSUME NEW x \in X PROVE \E y \in Y : Alike(x, y)
      <4>1. CASE x \in log
        BY <1>3, <2>2, <4>1 DEF Alike
      <4>2. CASE x \in R
        BY <2>2, <4>2 DEF Alike
      <4> QED
        BY <2>1, <4>1, <4>2
    <3>2. ASSUME NEW y \in Y PROVE \E x \in X : Alike(x, y)
      <4>1. CASE y \in log'
        BY <1>3, <2>1, <4>1 DEF Alike
      <4>2. CASE y \in R
        BY <2>1, <4>2 DEF Alike
      <4> QED
        BY <2>2, <4>1, <4>2
    <3> QED
      BY <2>3, <3>1, <3>2, SameUnsigned
  <2>7. \A y \in Y : y.signature \in {None, y.hash}
    <3>1. \A y \in R : y.signature \in {None, y.hash}
      BY <1>4 DEF VerifyAuditChain
    <3> QED
      BY <1>3, <2>2, <3>1
  <2>8. VerifyAuditChain(X, FALSE, TRUE)
    BY <1>4, <2>1
  <2>9. VerifyAuditChain(Y, FALSE, TRUE)
    BY <1>0, <2>3, <2>4, <2>5, <2>6, <2>7, <2>8, ChainCarries
  <2>10. HeadHash(X) = HeadHash(Y)
    BY <1>0, <2>3, <2>4, <2>5, <2>6, SameHead
  <2> QED
    BY <2>1, <2>2, <2>5, <2>9, <2>10
<1>5. AuditTypeOK'
  <2> DEFINE j == [cli[r] EXCEPT !.pc = "load", !.unsigned = {}]
  <2>1. j \in Job
    BY <1>0 DEF Job
  <2>2. cli' = [cli EXCEPT ![r] = j]
    BY <1>1
  <2> HIDE DEF j
  <2>3. cli' \in [Runs -> Job]
    BY <2>1, <2>2 DEF AuditInv, AuditTypeOK
  <2>4. log' \subseteq AnyRow
    BY <1>3
  <2> QED
    BY <1>1, <2>3, <2>4 DEF AuditInv, AuditTypeOK
<1>6. LockIsHeld'
  BY <1>1 DEF AuditInv, LockIsHeld
<1>7. SeqsInOrder'
  BY <1>1, <1>3 DEF AuditInv, SeqsInOrder, Alike
<1>8. ChainsHold'
  <2>1. \A x \in log' : x.entry = x.canon
    BY <1>0, <1>3 DEF Alike
  <2>2. OneRowPerSeq(log') /\ VerifyAuditChain(log', FALSE, TRUE)
    <3>1. PICK R \in SUBSET AnyRow : R = {}
      OBVIOUS
    <3>2. log \cup R = log /\ log' \cup R = log'
      BY <3>1
    <3>3. OneRowPerSeq(log \cup R) /\ VerifyAuditChain(log \cup R, FALSE, TRUE)
      BY <3>2 DEF AuditInv, ChainsHold
    <3>4. OneRowPerSeq(log' \cup R) /\ VerifyAuditChain(log' \cup R, FALSE, TRUE)
      BY <1>4, <3>1, <3>3 DEF Below
    <3> QED
      BY <3>2, <3>4
  <2>3. ASSUME NEW w \in Writers
        PROVE  /\ OneRowPerSeq(log' \cup txn[w].rows) /\ VerifyAuditChain(log' \cup txn[w].rows, FALSE, TRUE)
               /\ HeadHash(log' \cup txn[w].rows) = HeadHash(log \cup txn[w].rows)
    <3>1. PICK R \in SUBSET AnyRow : R = txn[w].rows
      BY DEF AuditInv, AuditTypeOK, Txn
    <3>2. /\ Below(R, nextSeq) /\ \A x \in R : x.entry = x.canon
          /\ \A x \in R : \A q \in log : q.seq < x.seq
          /\ OneRowPerSeq(log \cup R) /\ VerifyAuditChain(log \cup R, FALSE, TRUE)
      BY <3>1 DEF AuditInv, SeqsInOrder, Below, ChainsHold, With
    <3> QED
      BY <1>4, <3>1, <3>2
  <2> QED
    BY <1>1, <2>1, <2>2, <2>3 DEF AuditInv, ChainsHold, With
<1>9. JobsReadTheLog'
  <2>1. \A x \in Runs : x # r => cli'[x] = cli[x]
    BY <1>1 DEF AuditInv, AuditTypeOK
  <2>2. /\ cli'[r].unsigned = {} /\ cli'[r].pc = "load"
        /\ cli'[r].seq = cli[r].seq /\ cli'[r].hash = cli[r].hash
    BY <1>0, <1>1 DEF AuditInv, AuditTypeOK, Job
  <2>3. ASSUME NEW s, NEW h, \E q \in log : q.seq = s /\ q.hash = h
        PROVE  \E q \in log' : q.seq = s /\ q.hash = h
    BY <1>3, <2>3 DEF Alike
  <2>4. ASSUME NEW x \in Runs
        PROVE  /\ \A u \in cli'[x].unsigned : \E q \in log : q.seq = u.seq /\ q.hash = u.hash
               /\ cli'[x].pc \in {"send", "confirm", "record"} \/ memo[x] # "none" =>
                    \E q \in log : q.seq = cli'[x].seq /\ q.hash = cli'[x].hash
    <3>1. CASE x = r
      BY <2>2, <3>1 DEF AuditInv, JobsReadTheLog
    <3>2. CASE x # r
      BY <2>1, <3>2 DEF AuditInv, JobsReadTheLog
    <3> QED
      BY <3>1, <3>2
  <2> SUFFICES ASSUME NEW x \in Runs
               PROVE  /\ \A u \in cli'[x].unsigned : \E q \in log' : q.seq = u.seq /\ q.hash = u.hash
                      /\ (cli'[x].pc \in {"send", "confirm", "record"} \/ memo[x] # "none") =>
                           \E q \in log' : q.seq = cli'[x].seq /\ q.hash = cli'[x].hash
    BY <1>1 DEF JobsReadTheLog
  <2>5. ASSUME NEW u \in cli'[x].unsigned PROVE \E q \in log' : q.seq = u.seq /\ q.hash = u.hash
    BY <2>3, <2>4
  <2>6. ASSUME cli'[x].pc \in {"send", "confirm", "record"} \/ memo[x] # "none"
        PROVE  \E q \in log' : q.seq = cli'[x].seq /\ q.hash = cli'[x].hash
    <3>1. PICK a \in log : a.seq = cli'[x].seq /\ a.hash = cli'[x].hash
      BY <2>4, <2>6
    <3>2. PICK q \in log' : q.seq = a.seq /\ q.hash = a.hash
      BY <2>3
    <3> QED
      BY <3>1, <3>2
  <2> QED
    BY <2>5, <2>6
<1>10. PagesAreExact'
  <2>1. page.cursor = 0 \/ \E q \in log' : q.seq = page.cursor
    BY <1>3 DEF AuditInv, PagesAreExact, Alike
  <2>2. PICK A \in SUBSET AnyRow : A = UpTo(log, page.cursor)
    BY <1>0 DEF UpTo
  <2>3. PICK B \in SUBSET AnyRow : B = UpTo(log', page.cursor)
    BY <1>3 DEF UpTo
  <2>4. /\ \A x \in A : \E y \in B : Alike(x, y)
        /\ \A y \in B : \E x \in A : Alike(x, y)
    BY <1>3, <2>2, <2>3 DEF UpTo, Alike
  <2>5. Unsigned(A) = Unsigned(B)
    BY <2>4, SameUnsigned
  <2> QED
    BY <1>1, <2>1, <2>2, <2>3, <2>5 DEF AuditInv, PagesAreExact
<1> QED
  BY <1>5, <1>6, <1>7, <1>8, <1>9, <1>10 DEF AuditInv

LEMMA JobStepKeeps ==
  ASSUME AuditInv, NEW r \in Runs, JobStep(r)
  PROVE  AuditInv'
<1>0. /\ cli[r] \in Job /\ cli \in [Runs -> Job] /\ log \in SUBSET AnyRow /\ nextSeq \in Nat
      /\ memo[r] \in {"none", "sent", "landed", "failed"} /\ memo = [memo EXCEPT ![r] = memo[r]]
      /\ Below(log, nextSeq)
  BY DEF AuditInv, AuditTypeOK, SeqsInOrder, Below
<1>read. /\ \A u \in cli[r].unsigned : \E q \in log : q.seq = u.seq /\ q.hash = u.hash
         /\ cli[r].pc \in {"send", "confirm", "record"} \/ memo[r] # "none" =>
              \E q \in log : q.seq = cli[r].seq /\ q.hash = cli[r].hash
  BY DEF AuditInv, JobsReadTheLog
\* Steps that only move the program counter on.
<1>moves. ASSUME NEW label \in {"start", "sign", "load", "head", "send", "confirm", "record", "done"},
                 NEW m \in {"none", "sent", "landed", "failed"}, Step(r, label),
                 memo' = [memo EXCEPT ![r] = m], UNCHANGED <<log, nextSeq, lock, txn, page>>,
                 label \in {"send", "confirm", "record"} \/ m # "none" =>
                   \E q \in log : q.seq = cli[r].seq /\ q.hash = cli[r].hash
          PROVE  AuditInv'
  <2> DEFINE j == [cli[r] EXCEPT !.pc = label]
  <2>1. j \in Job
    BY <1>0 DEF Job
  <2>2. /\ j.unsigned = cli[r].unsigned /\ j.pc = label /\ j.seq = cli[r].seq /\ j.hash = cli[r].hash
    BY <1>0 DEF Job
  <2>3. cli' = [cli EXCEPT ![r] = j]
    BY <1>moves DEF Step
  <2> HIDE DEF j
  <2>4. /\ \A u \in j.unsigned : \E q \in log : q.seq = u.seq /\ q.hash = u.hash
        /\ j.pc \in {"send", "confirm", "record"} \/ m # "none" =>
             \E q \in log : q.seq = j.seq /\ q.hash = j.hash
    BY <1>read, <1>moves, <2>2
  <2> QED
    BY <1>moves, <2>1, <2>3, <2>4, JobMoves
<1>1. CASE ReadUnsigned(r)
  <2>1. PICK U : U = {[seq |-> q.seq, hash |-> q.hash] : q \in {q \in log : q.signature = None}}
    OBVIOUS
  <2>2. \A u \in U : /\ u \in [seq : Nat, hash : AnyHash]
                     /\ \E q \in log : q.seq = u.seq /\ q.hash = u.hash
    BY <1>0, <2>1 DEF AnyRow
  <2> DEFINE j == [cli[r] EXCEPT !.pc = "sign", !.unsigned = U]
  <2>3. j \in Job
    BY <1>0, <2>2 DEF Job
  <2>4. /\ j.unsigned = U /\ j.pc = "sign" /\ j.seq = cli[r].seq /\ j.hash = cli[r].hash
    BY <1>0 DEF Job
  <2>5. cli' = [cli EXCEPT ![r] = j] /\ UNCHANGED <<log, nextSeq, lock, txn, memo, page>>
    BY <1>1, <2>1 DEF ReadUnsigned, writeVars
  <2> HIDE DEF j
  <2>6. memo' = [memo EXCEPT ![r] = memo[r]]
    BY <1>0, <2>5
  <2>7. /\ \A u \in j.unsigned : \E q \in log : q.seq = u.seq /\ q.hash = u.hash
        /\ j.pc \in {"send", "confirm", "record"} \/ memo[r] # "none" =>
             \E q \in log : q.seq = j.seq /\ q.hash = j.hash
    BY <1>read, <2>2, <2>4
  <2> QED
    BY <1>0, <2>3, <2>5, <2>6, <2>7, JobMoves
<1>2. CASE SignUnsignedAuditRows(r)
  BY <1>2, SigningKeeps
<1>3. CASE VerifyBeforeAnchor(r)
  <2>1. PICK label \in {"head", "done"} : Step(r, label)
    BY <1>3 DEF VerifyBeforeAnchor
  <2>2. UNCHANGED <<log, nextSeq, lock, txn, memo, page>>
    BY <1>3 DEF VerifyBeforeAnchor, writeVars
  <2>3. memo' = [memo EXCEPT ![r] = memo[r]]
    BY <1>0, <2>2
  <2> QED
    BY <1>0, <1>read, <1>moves, <2>1, <2>2, <2>3
<1>4. CASE GetAuditHead(r)
  <2>1. UNCHANGED <<log, nextSeq, lock, txn, memo, page>>
    BY <1>4 DEF GetAuditHead, writeVars
  <2>2. memo' = [memo EXCEPT ![r] = memo[r]]
    BY <1>0, <2>1
  <2>3. CASE log = {}
    <3>1. Step(r, "done")
      BY <1>4, <2>3 DEF GetAuditHead
    <3> QED
      BY <1>0, <1>read, <1>moves, <2>1, <2>2, <3>1
  <2>4. CASE log # {}
    <3>1. PICK a \in log : a = Latest(log)
      BY <1>0, <2>4, LatestIsLast
    <3> DEFINE j == [cli[r] EXCEPT !.pc = "send", !.seq = a.seq, !.hash = a.hash]
    <3>2. a.seq \in Nat /\ a.hash \in AnyHash
      BY <1>0 DEF AnyRow
    <3>3. j \in Job
      BY <1>0, <3>2 DEF Job
    <3>4. /\ j.unsigned = cli[r].unsigned /\ j.seq = a.seq /\ j.hash = a.hash
      BY <1>0 DEF Job
    <3>5. cli' = [cli EXCEPT ![r] = j]
      BY <1>4, <2>4, <3>1 DEF GetAuditHead
    <3> HIDE DEF j
    <3>6. /\ \A u \in j.unsigned : \E q \in log : q.seq = u.seq /\ q.hash = u.hash
          /\ \E q \in log : q.seq = j.seq /\ q.hash = j.hash
      BY <1>read, <3>4
    <3> QED
      BY <1>0, <2>1, <2>2, <3>3, <3>5, <3>6, JobMoves
  <2> QED
    BY <2>3, <2>4
<1>5. CASE SubmitAnchor(r)
  <2>1. /\ cli[r].pc = "send" /\ Step(r, "confirm") /\ memo' = [memo EXCEPT ![r] = "sent"]
        /\ UNCHANGED <<log, nextSeq, lock, txn, page>>
    BY <1>5 DEF SubmitAnchor, writeVars
  <2> QED
    BY <1>read, <1>moves, <2>1
<1>6. CASE ConfirmAnchor(r)
  <2>1. PICK ok \in {FALSE, memo[r] = "landed"} :
          cli' = [cli EXCEPT ![r].pc = "record", ![r].confirmed = ok]
    BY <1>6 DEF ConfirmAnchor
  <2>2. ok \in BOOLEAN
    OBVIOUS
  <2>3. cli[r].pc = "confirm" /\ UNCHANGED <<log, nextSeq, lock, txn, memo, page>>
    BY <1>6 DEF ConfirmAnchor, writeVars
  <2>4. memo' = [memo EXCEPT ![r] = memo[r]]
    BY <1>0, <2>3
  <2> DEFINE j == [cli[r] EXCEPT !.pc = "record", !.confirmed = ok]
  <2>5. j \in Job
    BY <1>0, <2>2 DEF Job
  <2>6. /\ j.unsigned = cli[r].unsigned /\ j.seq = cli[r].seq /\ j.hash = cli[r].hash
    BY <1>0 DEF Job
  <2>7. cli' = [cli EXCEPT ![r] = j]
    BY <2>1
  <2> HIDE DEF j
  <2>8. /\ \A u \in j.unsigned : \E q \in log : q.seq = u.seq /\ q.hash = u.hash
        /\ \E q \in log : q.seq = j.seq /\ q.hash = j.hash
    BY <1>read, <2>3, <2>6
  <2> QED
    BY <1>0, <2>3, <2>4, <2>5, <2>7, <2>8, JobMoves
<1>7. CASE RecordAnchor(r)
  <2>1. Step(r, "done") /\ UNCHANGED <<log, nextSeq, lock, txn, memo, page>>
    BY <1>7 DEF RecordAnchor, writeVars
  <2>2. memo' = [memo EXCEPT ![r] = memo[r]]
    BY <1>0, <2>1
  <2> QED
    BY <1>0, <1>read, <1>moves, <2>1, <2>2
<1>8. CASE AnchorJobDies(r)
  <2>1. Step(r, "done") /\ UNCHANGED <<log, nextSeq, lock, txn, memo, page>>
    BY <1>8 DEF AnchorJobDies, writeVars
  <2>2. memo' = [memo EXCEPT ![r] = memo[r]]
    BY <1>0, <2>1
  <2> QED
    BY <1>0, <1>read, <1>moves, <2>1, <2>2
<1>9. CASE MemoLands(r)
  <2>1. PICK m \in {"landed", "failed"} : memo' = [memo EXCEPT ![r] = m]
    BY <1>9 DEF MemoLands
  <2>2. memo[r] = "sent" /\ UNCHANGED <<log, nextSeq, lock, txn, cli, page>>
    BY <1>9 DEF MemoLands, writeVars
  <2>3. cli' = [cli EXCEPT ![r] = cli[r]]
    BY <1>0, <2>2
  <2> QED
    BY <1>0, <1>read, <2>1, <2>2, <2>3, JobMoves
<1> QED
  BY <1>1, <1>2, <1>3, <1>4, <1>5, <1>6, <1>7, <1>8, <1>9 DEF JobStep

-----------------------------------------------------------------------------
(***************************************************************************)
(* The reader.                                                             *)
(***************************************************************************)

LEMMA LogIsFinite ==
  ASSUME NEW X \in SUBSET AnyRow, NEW n \in Nat, Below(X, n), OneRowPerSeq(X)
  PROVE  IsFiniteSet(X)
<1> DEFINE f == [q \in X |-> q.seq]
<1>1. \A q \in X : q.seq \in 0 .. n
  BY DEF Below, AnyRow
<1>2. f \in [X -> 0 .. n] /\ \A p, q \in X : f[p] = f[q] => p = q
  BY <1>1 DEF OneRowPerSeq
<1>3. f \in Injection(X, 0 .. n)
  BY <1>2 DEF Injection, IsInjective
<1> HIDE DEF f
<1>4. IsFiniteSet(0 .. n)
  BY FS_Interval
<1> QED
  BY <1>3, <1>4, FS_Injection

\* A page is all the rows between the cursor before and the cursor after.
LEMMA PageHasNoGaps ==
  ASSUME log \in SUBSET AnyRow, NEW n \in Nat, Below(log, n), OneRowPerSeq(log), NEW c \in Nat,
         NEW a \in LoadAuditRows(c), \A q \in LoadAuditRows(c) : q.seq <= a.seq
  PROVE  \A q \in log : q \in LoadAuditRows(c) <=> c < q.seq /\ q.seq <= a.seq
<1> DEFINE S(x) == {q \in log : q.seq \in c + 1 .. x}
<1>1. \A q : q \in LoadAuditRows(c) <=> q \in log /\ q.seq > c /\ Cardinality(S(q.seq)) <= PageSize
  BY DEF LoadAuditRows
<1>2. \A q \in log : q.seq \in Nat
  BY DEF AnyRow
<1>3. IsFiniteSet(log)
  BY LogIsFinite
<1>4. ASSUME NEW x \in Nat
      PROVE  /\ S(x) \in SUBSET log /\ IsFiniteSet(S(x)) /\ Cardinality(S(x)) \in Nat
             /\ \A y \in Nat : y <= x => S(y) \in SUBSET S(x)
  <2>1. S(x) \in SUBSET log
    OBVIOUS
  <2>2. IsFiniteSet(S(x))
    BY <1>3, <2>1, FS_Subset
  <2>3. Cardinality(S(x)) \in Nat
    BY <2>2, FS_CardinalityType
  <2>4. \A y \in Nat : y <= x => S(y) \in SUBSET S(x)
    BY <1>2
  <2> QED
    BY <2>1, <2>2, <2>3, <2>4
<1> HIDE DEF S
<1>5. ASSUME NEW q \in log, c < q.seq, q.seq <= a.seq
      PROVE  q \in LoadAuditRows(c)
  <2>1. a \in log /\ Cardinality(S(a.seq)) <= PageSize /\ a.seq \in Nat /\ q.seq \in Nat
    BY <1>1, <1>2
  <2>2. PICK A : A = S(a.seq)
    OBVIOUS
  <2>3. PICK B \in SUBSET A : B = S(q.seq)
    BY <1>4, <1>5, <2>1, <2>2
  <2>4. IsFiniteSet(A) /\ Cardinality(A) \in Nat /\ Cardinality(B) \in Nat
    BY <1>4, <2>1, <2>2, <2>3
  <2>5. Cardinality(B) <= Cardinality(A)
    BY <2>4, FS_Subset
  <2>6. Cardinality(S(q.seq)) <= PageSize
    BY <2>1, <2>2, <2>3, <2>4, <2>5, AuditAssumption
  <2> QED
    BY <1>1, <1>2, <1>5, <2>6
<1> QED
  BY <1>1, <1>2, <1>5

LEMMA ReadingKeeps ==
  ASSUME AuditInv, GetAuditLog
  PROVE  AuditInv'
<1>0. /\ log \in SUBSET AnyRow /\ nextSeq \in Nat /\ Below(log, nextSeq) /\ OneRowPerSeq(log)
      /\ page.cursor \in Nat /\ page.rows \in SUBSET AnyRow
      /\ \A q \in log : q.signature \in {None, q.hash}
  BY DEF AuditInv, AuditTypeOK, SeqsInOrder, Below, ChainsHold, VerifyAuditChain
<1>1. PICK c \in Nat : c = page.cursor
  BY <1>0
<1>2. PICK rows : rows = LoadAuditRows(c)
  OBVIOUS
<1>3. /\ rows # {} /\ page' = [cursor |-> Latest(rows).seq, rows |-> page.rows \cup rows]
      /\ UNCHANGED <<log, nextSeq, lock, txn, cli, memo>>
  BY <1>1, <1>2 DEF GetAuditLog, writeVars, runVars
<1>4. rows \in SUBSET AnyRow /\ rows \in SUBSET log /\ Below(rows, nextSeq)
  BY <1>0, <1>2 DEF LoadAuditRows, Below
<1>5. PICK a \in rows : a = Latest(rows) /\ \A q \in rows : q.seq <= a.seq
  BY <1>0, <1>3, <1>4, LatestIsLast
<1>6. \A q \in log : q \in rows <=> c < q.seq /\ q.seq <= a.seq
  BY <1>0, <1>2, <1>5, PageHasNoGaps
<1>7. /\ a \in log /\ a.seq \in Nat /\ page'.cursor = a.seq /\ page'.rows = page.rows \cup rows
  BY <1>3, <1>4, <1>5 DEF AnyRow
<1>8. AuditTypeOK'
  <2>1. page' \in [cursor : Nat, rows : SUBSET AnyRow]
    BY <1>0, <1>3, <1>4, <1>5, <1>7
  <2> QED
    BY <1>3, <2>1 DEF AuditInv, AuditTypeOK
<1>9. LockIsHeld' /\ SeqsInOrder' /\ JobsReadTheLog'
  BY <1>3 DEF AuditInv, LockIsHeld, SeqsInOrder, JobsReadTheLog
<1>10. ChainsHold'
  BY <1>3 DEF AuditInv, ChainsHold, With
<1>11. PagesAreExact'
  <2>1. PICK A \in SUBSET AnyRow : A = UpTo(log, c)
    BY <1>0 DEF UpTo
  <2>2. /\ \A x \in page.rows : \E y \in A : Alike(x, y)
        /\ \A y \in A : \E x \in page.rows : Alike(x, y)
    BY <1>0, <1>1, <2>1, SameUnsigned DEF AuditInv, PagesAreExact
  <2>3. PICK B \in SUBSET AnyRow : B = UpTo(log, a.seq)
    BY <1>0 DEF UpTo
  <2>4. c < a.seq /\ \A q \in log : q.seq \in Nat
    BY <1>0, <1>4, <1>6 DEF AnyRow
  <2>5. \A q : q \in B <=> q \in A \/ q \in rows
    BY <1>4, <1>6, <1>7, <2>1, <2>3, <2>4 DEF UpTo
  <2>6. PICK P \in SUBSET AnyRow : P = page.rows \cup rows
    BY <1>0, <1>4
  <2>7. /\ \A x \in P : \E y \in B : Alike(x, y)
        /\ \A y \in B : \E x \in P : Alike(x, y)
    <3>1. \A x : Alike(x, x)
      BY DEF Alike
    <3> QED
      BY <2>2, <2>5, <2>6, <3>1
  <2>8. Unsigned(P) = Unsigned(B)
    BY <2>7, SameUnsigned
  <2>9. OneRowPerSeq(P)
    <3>1. \A p \in page.rows : p.seq <= c /\ p.seq \in Nat
      BY <1>0, <2>1, <2>2 DEF UpTo, Alike, AnyRow
    <3>2. \A q \in rows : c < q.seq /\ q.seq \in Nat
      BY <1>4, <1>6, <2>4
    <3>3. OneRowPerSeq(page.rows) /\ OneRowPerSeq(rows)
      BY <1>0, <1>4 DEF AuditInv, PagesAreExact, OneRowPerSeq
    <3> QED
      BY <2>6, <3>1, <3>2, <3>3 DEF OneRowPerSeq
  <2>10. \A q \in P : q.signature \in {None, q.hash}
    BY <1>0, <1>4, <2>6 DEF AuditInv, PagesAreExact
  <2>11. \E q \in log : q.seq = a.seq
    BY <1>7
  <2> QED
    BY <1>3, <1>7, <2>3, <2>6, <2>8, <2>9, <2>10, <2>11 DEF PagesAreExact
<1> QED
  BY <1>8, <1>9, <1>10, <1>11 DEF AuditInv

-----------------------------------------------------------------------------
(***************************************************************************)
(* The theorems.                                                           *)
(***************************************************************************)

\* Only Alter touches the mark that somebody wrote to the rows.
LEMMA AlteredStays ==
  ASSUME [Next]_vars
  PROVE  altered' = altered \/ Alter
<1>1. CASE UNCHANGED vars
  BY <1>1 DEF vars
<1>2. ASSUME NEW w \in Writers, WriterStep(w) PROVE altered' = altered
  BY <1>2 DEF WriterStep, LockAudit, ReadPrevHash, InsertRow, Commit, Rollback, EndTransaction
<1>3. ASSUME NEW r \in Runs, JobStep(r) PROVE altered' = altered
  BY <1>3 DEF JobStep, ReadUnsigned, SignUnsignedAuditRows, VerifyBeforeAnchor, GetAuditHead,
              SubmitAnchor, ConfirmAnchor, RecordAnchor, AnchorJobDies, MemoLands
<1>4. CASE GetAuditLog
  BY <1>4 DEF GetAuditLog
<1> QED
  BY <1>1, <1>2, <1>3, <1>4 DEF Next

LEMMA StutteringKeeps ==
  ASSUME AuditInv, UNCHANGED vars
  PROVE  AuditInv'
<1>1. UNCHANGED <<log, nextSeq, lock, txn, cli, memo, page>>
  BY DEF vars, writeVars, runVars
<1>2. AuditTypeOK' /\ LockIsHeld' /\ SeqsInOrder'
  BY <1>1 DEF AuditInv, AuditTypeOK, LockIsHeld, SeqsInOrder
<1>3. ChainsHold'
  BY <1>1 DEF AuditInv, ChainsHold, With
<1>4. JobsReadTheLog' /\ PagesAreExact'
  BY <1>1 DEF AuditInv, JobsReadTheLog, PagesAreExact
<1> QED
  BY <1>2, <1>3, <1>4 DEF AuditInv

LEMMA AuditInvariant == Spec => [](altered \/ AuditInv)
<1>1. ASSUME altered \/ AuditInv, [Next]_vars PROVE (altered \/ AuditInv)'
  <2>1. CASE Alter
    BY <2>1 DEF Alter
  <2>2. CASE altered' = altered /\ altered
    BY <2>2
  <2>3. CASE ~Alter /\ AuditInv
    <3>1. CASE UNCHANGED vars
      BY <2>3, <3>1, StutteringKeeps
    <3>2. ASSUME NEW w \in Writers, WriterStep(w) PROVE AuditInv'
      BY <2>3, <3>2, WriterStepKeeps
    <3>3. ASSUME NEW r \in Runs, JobStep(r) PROVE AuditInv'
      BY <2>3, <3>3, JobStepKeeps
    <3>4. CASE GetAuditLog
      BY <2>3, <3>4, ReadingKeeps
    <3> QED
      BY <1>1, <2>3, <3>1, <3>2, <3>3, <3>4 DEF Next
  <2> QED
    BY <1>1, <2>1, <2>2, <2>3, AlteredStays
<1> QED
  BY <1>1, AuditInitial, PTL DEF Spec

\* The advisory lock of appendAudit, held to the end of the transaction, keeps
\* the log one chain: no two rows commit to the same row before them, whatever
\* transactions overlap, append several rows or roll back.
THEOREM TheChainNeverForks == Spec => []ChainLinear
<1>1. altered \/ AuditInv => ChainLinear
  BY DEF AuditInv, ChainsHold, ChainLinear
<1> QED
  BY <1>1, AuditInvariant, PTL

\* A reader who follows the cursor of /v1/transparency/log, whatever the page
\* size, has every row up to the cursor: none is committed behind it.
THEOREM ReadersMissNothing == Spec => []PagesMissNothing
<1>1. altered \/ AuditInv => PagesMissNothing
  BY DEF AuditInv, PagesAreExact, PagesMissNothing
<1> QED
  BY <1>1, AuditInvariant, PTL

\* The log of an operator who rewrites nothing verifies against every memo the
\* anchor jobs ever landed, from the database and from the served pages: always
\* without the audit key, and with it as soon as one of the rows has been signed.
THEOREM HonestOperatorsVerify == Spec => []HonestLogExtendsAnchors
<1>1. ASSUME AuditInv, NEW r \in Runs, Landed(r), NEW keyed \in BOOLEAN
      PROVE  /\ (keyed => AnySigned(log)) =>
                  VerifyExtension(log, cli[r].seq, cli[r].hash, FALSE, keyed)
             /\ page.cursor >= cli[r].seq =>
                  ((keyed => AnySigned(page.rows)) =>
                     VerifyExtension(page.rows, cli[r].seq, cli[r].hash, TRUE, keyed))
  <2>0. /\ log \in SUBSET AnyRow /\ nextSeq \in Nat /\ Below(log, nextSeq) /\ OneRowPerSeq(log)
        /\ VerifyAuditChain(log, FALSE, TRUE) /\ \A q \in log : q.entry = q.canon
        /\ page.cursor \in Nat /\ page.rows \in SUBSET AnyRow /\ cli[r] \in Job
    BY <1>1 DEF AuditInv, AuditTypeOK, SeqsInOrder, Below, ChainsHold
  <2>1. PICK s \in Nat, h \in AnyHash : s = cli[r].seq /\ h = cli[r].hash
    BY <2>0 DEF Job
  <2>2. PICK a \in log : a.seq = s /\ a.hash = h
    BY <1>1, <2>1 DEF AuditInv, JobsReadTheLog, Landed
  <2>3. ASSUME keyed => AnySigned(log) PROVE VerifyExtension(log, s, h, FALSE, keyed)
    <3>0. PICK L \in SUBSET AnyRow : L = log /\ VerifyAuditChain(L, FALSE, keyed)
      BY <2>0, KeyedIsStricter
    <3>1. VerifyAuditChain(UpTo(log, s), FALSE, keyed)
      BY <3>0, ChainUpTo
    <3>2. a \in UpTo(log, s)
      BY <2>1, <2>2 DEF UpTo
    <3> QED
      BY <2>2, <2>3, <3>0, <3>1, <3>2 DEF VerifyExtension, CheckExtendsAnchor
  <2>4. ASSUME page.cursor >= s, keyed => AnySigned(page.rows)
        PROVE  VerifyExtension(page.rows, s, h, TRUE, keyed)
    <3>1. PICK c \in Nat : c = page.cursor
      BY <2>0
    <3>2. PICK X \in SUBSET AnyRow : X = UpTo(log, c)
      BY <2>0 DEF UpTo
    <3>3. PICK Y \in SUBSET AnyRow : Y = page.rows
      BY <2>0
    <3>4. /\ Unsigned(X) = Unsigned(Y) /\ OneRowPerSeq(Y)
          /\ \A y \in Y : y.signature \in {None, y.hash}
      BY <1>1, <3>1, <3>2, <3>3 DEF AuditInv, PagesAreExact
    <3>5. VerifyAuditChain(X, FALSE, TRUE) /\ \A x \in X : x.entry = x.canon
      <4>1. VerifyAuditChain(X, FALSE, TRUE)
        BY <2>0, <3>2, ChainUpTo
      <4> QED
        BY <2>0, <3>2, <4>1 DEF UpTo
    <3>6. Below(X, nextSeq)
      BY <2>0, <3>2 DEF UpTo, Below
    <3>7. /\ \A x \in X : \E y \in Y : Alike(x, y)
          /\ \A y \in Y : \E x \in X : Alike(x, y)
      BY <3>4, SameUnsigned
    <3>8. Below(Y, nextSeq)
      BY <3>6, <3>7 DEF Below, Alike
    <3>9. VerifyAuditChain(Y, TRUE, keyed)
      <4>1. VerifyAuditChain(Y, TRUE, TRUE)
        BY <2>0, <3>4, <3>5, <3>6, <3>8, ChainCarries
      <4> QED
        BY <4>1, KeyedIsStricter
    <3>10. VerifyAuditChain(UpTo(Y, s), TRUE, keyed)
      BY <3>9, ChainUpTo
    <3>11. a \in X
      BY <2>2, <2>4, <3>1, <3>2 DEF UpTo
    <3>12. PICK y \in Y : Alike(a, y)
      BY <3>7, <3>11
    <3>13. y \in UpTo(Y, s) /\ y.seq = s /\ y.hash = h
      BY <2>2, <3>12 DEF UpTo, Alike
    <3> QED
      BY <2>4, <3>3, <3>9, <3>10, <3>13 DEF VerifyExtension, CheckExtendsAnchor
  <2> QED
    BY <2>1, <2>3, <2>4
<1>2. altered \/ AuditInv => HonestLogExtendsAnchors
  BY <1>1 DEF HonestLogExtendsAnchors
<1> QED
  BY <1>2, AuditInvariant, PTL

-----------------------------------------------------------------------------
(***************************************************************************)
(* Tamper evidence: what a chain that verifies says about its contents.    *)
(***************************************************************************)

\* The hash of every row lists the entries up to it.
Tells(X, r) ==
  /\ Len(r.hash) = Place(X, r)
  /\ \A q \in X : q.seq <= r.seq => Place(X, q) \in 1 .. Place(X, r) /\ r.hash[Place(X, q)] = q.canon

LEMMA OneMoreRow ==
  ASSUME NEW X \in SUBSET AnyRow, IsFiniteSet(X), OneRowPerSeq(X), NEW r \in X
  PROVE  /\ UpTo(X, r.seq) = Before(X, r) \cup {r} /\ r \notin Before(X, r)
         /\ IsFiniteSet(UpTo(X, r.seq)) /\ IsFiniteSet(Before(X, r))
         /\ Cardinality(Before(X, r)) \in Nat
         /\ Place(X, r) = Cardinality(Before(X, r)) + 1
<1>1. UpTo(X, r.seq) = Before(X, r) \cup {r} /\ r \notin Before(X, r)
  BY DEF UpTo, Before, OneRowPerSeq, AnyRow
<1>2. PICK B \in SUBSET X : B = Before(X, r)
  BY DEF Before
<1>3. IsFiniteSet(B) /\ r \notin B
  BY <1>1, <1>2, FS_Subset
<1>4. IsFiniteSet(B \cup {r}) /\ Cardinality(B \cup {r}) = Cardinality(B) + 1
  BY <1>3, FS_AddElement
<1>5. Cardinality(B) \in Nat
  BY <1>3, FS_CardinalityType
<1> QED
  BY <1>1, <1>2, <1>3, <1>4, <1>5 DEF Place

\* One link: what the row before tells, and the entry of its own.
LEMMA LinkTells ==
  ASSUME NEW X \in SUBSET AnyRow, NEW n \in Nat, Below(X, n), OneRowPerSeq(X),
         VerifyAuditChain(X, FALSE, FALSE), NEW r \in X, \A p \in X : p.seq < r.seq => Tells(X, p)
  PROVE  Tells(X, r)
<1>0. IsFiniteSet(X) /\ \A q \in X : q.seq \in Nat /\ q.hash \in Seq(Entry) /\ q.prev \in Seq(Entry) /\ q.canon \in Entry
  BY LogIsFinite DEF AnyRow, AnyHash
<1>1. r.prev = HeadHash(Before(X, r)) /\ r.hash = Append(r.prev, r.canon)
  BY DEF VerifyAuditChain, Recomputed
<1>2. PICK k \in Nat : k = Cardinality(Before(X, r)) /\ Place(X, r) = k + 1
  BY <1>0, OneMoreRow
<1>3. /\ Len(r.prev) = k
      /\ \A q \in Before(X, r) : Place(X, q) \in 1 .. k /\ r.prev[Place(X, q)] = q.canon
  <2>1. CASE Before(X, r) = {}
    <3>1. Cardinality(Before(X, r)) = 0
      BY <2>1, FS_EmptySet
    <3>2. r.prev = << >>
      BY <1>1, <2>1 DEF HeadHash, Genesis
    <3>3. Len(r.prev) = 0 /\ k = 0
      BY <1>2, <3>1, <3>2
    <3>4. \A q \in Before(X, r) : FALSE
      BY <2>1
    <3>5. Len(r.prev) = k
      BY <3>3
    <3> QED
      BY <3>4, <3>5
  <2>2. CASE Before(X, r) # {}
    <3>1. PICK B \in SUBSET X : B = Before(X, r)
      BY DEF Before
    <3>2. B \in SUBSET AnyRow /\ Below(B, n) /\ B # {}
      BY <2>2, <3>1 DEF Below
    <3>3. PICK p \in B : p = Latest(B) /\ \A q \in B : q.seq <= p.seq
      BY <3>2, LatestIsLast
    <3>4. p \in X /\ p.seq < r.seq /\ r.prev = p.hash
      BY <1>1, <3>1, <3>2, <3>3 DEF HeadHash, Before
    <3>5. UpTo(X, p.seq) = B
      <4>1. \A q \in X : q \in B <=> q.seq < r.seq
        BY <3>1 DEF Before
      <4>2. \A q \in X : q.seq <= p.seq <=> q \in B
        BY <1>0, <3>3, <3>4, <4>1
      <4> QED
        BY <4>2 DEF UpTo
    <3>6. Place(X, p) = k
      BY <1>2, <3>1, <3>5 DEF Place
    <3>7. Tells(X, p)
      BY <3>4
    <3> QED
      BY <3>1, <3>3, <3>4, <3>6, <3>7 DEF Tells
  <2> QED
    BY <2>1, <2>2
<1>4. Len(r.hash) = k + 1 /\ r.hash[k + 1] = r.canon /\ \A i \in 1 .. k : r.hash[i] = r.prev[i]
  BY <1>0, <1>1, <1>3
<1>5. ASSUME NEW q \in X, q.seq <= r.seq
      PROVE  Place(X, q) \in 1 .. k + 1 /\ r.hash[Place(X, q)] = q.canon
  <2>1. CASE q = r
    BY <1>2, <1>4, <2>1
  <2>2. CASE q # r
    <3>1. q \in Before(X, r)
      BY <1>0, <1>5, <2>2 DEF Before, OneRowPerSeq
    <3>2. PICK i \in 1 .. k : i = Place(X, q) /\ r.prev[i] = q.canon
      BY <1>3, <3>1
    <3> QED
      BY <1>4, <3>2
  <2> QED
    BY <2>1, <2>2
<1> QED
  BY <1>2, <1>4, <1>5 DEF Tells

LEMMA EveryRowTells ==
  ASSUME NEW X \in SUBSET AnyRow, NEW n \in Nat, Below(X, n), OneRowPerSeq(X),
         VerifyAuditChain(X, FALSE, FALSE)
  PROVE  \A r \in X : Tells(X, r)
<1> SUFFICES ASSUME NEW r0 \in X, ~Tells(X, r0) PROVE FALSE
  OBVIOUS
<1> DEFINE U == {r.seq : r \in {q \in X : ~Tells(X, q)}}
           R == OpToRel(<, Nat)
<1>1. U \subseteq Nat /\ U # {}
  BY DEF AnyRow
<1>2. \E m \in U : \A k \in U : ~(<<k, m>> \in R)
  BY <1>1, NatLessThanWellFounded, WFMin
<1>3. \A k, m \in Nat : k < m => <<k, m>> \in R
  BY DEF OpToRel
<1> HIDE DEF R
<1>4. PICK m \in U : \A k \in U : ~(k < m)
  BY <1>1, <1>2, <1>3
<1>5. PICK r \in X : r.seq = m /\ ~Tells(X, r)
  BY <1>4
<1>6. \A p \in X : p.seq < r.seq => Tells(X, p)
  BY <1>4, <1>5
<1> QED
  BY <1>5, <1>6, LinkTells

\* Whoever wrote the rows: if the chain verifies, its head is its contents.
LEMMA TheHeadIsTheContents ==
  ASSUME NEW X \in SUBSET AnyRow, NEW n \in Nat, Below(X, n), OneRowPerSeq(X),
         VerifyAuditChain(X, FALSE, FALSE)
  PROVE  Contents(X) = HeadHash(X)
<1>0. IsFiniteSet(X)
  BY LogIsFinite
<1>1. CASE X = {}
  <2>1. Cardinality(X) = 0
    BY <1>1, FS_EmptySet
  <2> QED
    BY <1>1, <2>1 DEF Contents, HeadHash, Genesis
<1>2. CASE X # {}
  <2>1. PICK r \in X : r = Latest(X) /\ \A q \in X : q.seq <= r.seq
    BY <1>2, LatestIsLast
  <2>2. PICK k \in Nat : k = Cardinality(X)
    BY <1>0, FS_CardinalityType
  <2>3. Place(X, r) = k
    <3>1. UpTo(X, r.seq) = X
      BY <2>1 DEF UpTo
    <3> QED
      BY <2>2, <3>1 DEF Place
  <2>4. Tells(X, r)
    BY EveryRowTells
  <2>5. /\ Len(r.hash) = k
        /\ \A q \in X : Place(X, q) \in 1 .. k /\ r.hash[Place(X, q)] = q.canon
    BY <2>1, <2>3, <2>4 DEF Tells
  <2>6. \A i \in 1 .. k : \E q \in X : Place(X, q) = i
    <3> DEFINE f == [q \in X |-> Place(X, q)]
    <3>1. f \in [X -> 1 .. k]
      BY <2>5
    <3>2. ASSUME NEW p \in X, NEW q \in X, p.seq < q.seq PROVE f[p] # f[q]
      <4>1. PICK A : A = UpTo(X, p.seq)
        OBVIOUS
      <4>2. PICK B : B = UpTo(X, q.seq)
        OBVIOUS
      <4>3. A \in SUBSET B /\ q \in B /\ q \notin A
        BY <3>2, <4>1, <4>2 DEF UpTo, AnyRow
      <4>4. IsFiniteSet(B)
        BY <1>0, <4>2, OneMoreRow
      <4>5. Cardinality(A) # Cardinality(B)
        BY <4>3, <4>4, FS_Subset
      <4> QED
        BY <4>1, <4>2, <4>5 DEF Place
    <3>3. \A p, q \in X : f[p] = f[q] => p = q
      <4>1. \A p, q \in X : p.seq = q.seq => p = q
        BY DEF OneRowPerSeq
      <4>2. \A p, q \in X : p.seq < q.seq \/ q.seq < p.seq \/ p.seq = q.seq
        BY DEF AnyRow
      <4> HIDE DEF f
      <4> QED
        BY <3>2, <4>1, <4>2
    <3>4. f \in Injection(X, 1 .. k)
      BY <3>1, <3>3 DEF Injection, IsInjective
    <3> HIDE DEF f
    <3>5. IsFiniteSet(1 .. k) /\ Cardinality(1 .. k) = k
      BY FS_Interval
    <3>6. f \in Surjection(X, 1 .. k)
      BY <2>2, <3>4, <3>5, FS_Injection
    <3>7. \A i \in 1 .. k : \E q \in X : f[q] = i
      BY <3>6 DEF Surjection
    <3> QED
      BY <3>7 DEF f
  <2>7. ASSUME NEW i \in 1 .. k
        PROVE  (CHOOSE q \in X : Place(X, q) = i).canon = r.hash[i]
    <3>1. PICK q \in X : q = (CHOOSE p \in X : Place(X, p) = i) /\ Place(X, q) = i
      BY <2>6
    <3> QED
      BY <2>5, <3>1
  <2>8. r.hash \in Seq(Entry)
    BY DEF AnyRow, AnyHash
  <2>9. r.hash = [i \in 1 .. k |-> r.hash[i]]
    BY <2>5, <2>8
  <2>10. Contents(X) = [i \in 1 .. k |-> r.hash[i]]
    BY <2>2, <2>7 DEF Contents
  <2> QED
    BY <1>2, <2>1, <2>9, <2>10 DEF HeadHash
<1> QED
  BY <1>1, <1>2

-----------------------------------------------------------------------------
(***************************************************************************)
(* What holds of the rows whoever wrote them.                              *)
(***************************************************************************)

RowsInv ==
  /\ AuditTypeOK /\ LockIsHeld /\ SeqsInOrder
  /\ OneRowPerSeq(log)
  /\ \A w \in Writers : OneRowPerSeq(With(w))

LEMMA RowsInitial == Init => RowsInv
BY AuditInitial DEF AuditInv, RowsInv, ChainsHold

\* A transaction that has not committed moves on, to t.
LEMMA RowsMove ==
  ASSUME RowsInv, NEW w \in Writers, NEW t \in Txn, txn' = [txn EXCEPT ![w] = t],
         lock' \in Writers \cup {None}, t # Idle => lock' = w,
         \A v \in Writers : v # w /\ txn[v] # Idle => lock' = v,
         nextSeq' \in Nat \ {0}, nextSeq <= nextSeq', UNCHANGED <<log, cli, memo, page>>,
         \A r \in t.rows : r.seq < nextSeq' /\ \A q \in log : q.seq < r.seq,
         OneRowPerSeq(log \cup t.rows)
  PROVE  RowsInv'
<1>1. /\ txn' \in [Writers -> Txn] /\ txn'[w] = t
      /\ \A v \in Writers : v # w => txn'[v] = txn[v]
  BY DEF RowsInv, AuditTypeOK
<1>2. AuditTypeOK'
  BY <1>1 DEF RowsInv, AuditTypeOK
<1>3. LockIsHeld'
  BY <1>1 DEF RowsInv, LockIsHeld
<1>4. SeqsInOrder'
  <2>1. \A q \in log : q.seq \in Nat /\ q.seq < nextSeq'
    BY DEF RowsInv, AuditTypeOK, SeqsInOrder, AnyRow
  <2>2. ASSUME NEW v \in Writers, v # w, NEW r \in txn[v].rows
        PROVE  r.seq < nextSeq' /\ \A q \in log : q.seq < r.seq
    <3>1. txn[v].rows \subseteq AnyRow
      BY DEF RowsInv, AuditTypeOK, Txn
    <3> QED
      BY <2>2, <3>1 DEF RowsInv, AuditTypeOK, SeqsInOrder, AnyRow
  <2> QED
    BY <1>1, <2>1, <2>2 DEF SeqsInOrder
<1>5. OneRowPerSeq(log') /\ \A v \in Writers : OneRowPerSeq(With(v)')
  BY <1>1 DEF RowsInv, With
<1> QED
  BY <1>2, <1>3, <1>4, <1>5 DEF RowsInv

LEMMA WritersKeepRows ==
  ASSUME RowsInv, NEW w \in Writers, WriterStep(w)
  PROVE  RowsInv'
<1>0. /\ txn[w] \in Txn /\ txn[w].rows \in SUBSET AnyRow /\ txn[w].prev \in AnyHash
      /\ nextSeq \in Nat \ {0} /\ log \in SUBSET AnyRow /\ lock \in Writers \cup {None}
  BY DEF RowsInv, AuditTypeOK, Txn
<1>idle. Idle \in Txn /\ Idle.rows = {} /\ Idle.pc = "idle"
  BY DEF Idle, Txn, Genesis, AnyHash
<1>rows. /\ \A r \in txn[w].rows : r.seq < nextSeq /\ \A q \in log : q.seq < r.seq
         /\ OneRowPerSeq(log \cup txn[w].rows) /\ OneRowPerSeq(log)
         /\ \A q \in log : q.seq < nextSeq
  BY DEF RowsInv, SeqsInOrder, With
<1>below. log \cup txn[w].rows \in SUBSET AnyRow /\ Below(log \cup txn[w].rows, nextSeq)
  BY <1>0, <1>rows DEF Below
<1>alone. \A v \in Writers : v # w /\ (txn[w] # Idle \/ lock \in {None, w}) => txn[v] = Idle
  BY AuditAssumption DEF RowsInv, LockIsHeld
<1>1. CASE LockAudit(w)
  <2> DEFINE t == [txn[w] EXCEPT !.pc = "locked"]
  <2>1. /\ lock \in {None, w} /\ lock' = w /\ txn' = [txn EXCEPT ![w] = t]
        /\ UNCHANGED <<log, nextSeq, cli, memo, page>>
    BY <1>1 DEF LockAudit, runVars
  <2>2. t \in Txn /\ t.rows = txn[w].rows
    BY <1>0 DEF Txn
  <2> HIDE DEF t
  <2>3. /\ \A r \in t.rows : r.seq < nextSeq' /\ \A q \in log : q.seq < r.seq
        /\ OneRowPerSeq(log \cup t.rows)
    BY <1>rows, <2>1, <2>2
  <2>4. nextSeq' \in Nat \ {0} /\ nextSeq <= nextSeq'
    BY <1>0, <2>1
  <2> QED
    BY <1>alone, <2>1, <2>2, <2>3, <2>4, RowsMove
<1>2. CASE ReadPrevHash(w)
  <2> DEFINE t == [txn[w] EXCEPT !.pc = "read", !.prev = HeadHash(log \cup txn[w].rows)]
  <2>1. /\ txn[w].pc = "locked" /\ txn' = [txn EXCEPT ![w] = t]
        /\ UNCHANGED <<log, nextSeq, lock, cli, memo, page>>
    BY <1>2 DEF ReadPrevHash, runVars
  <2>2. HeadHash(log \cup txn[w].rows) \in AnyHash
    BY <1>0, <1>below, HeadIsHash
  <2>3. t \in Txn /\ t.rows = txn[w].rows
    BY <1>0, <2>2 DEF Txn
  <2> HIDE DEF t
  <2>4. txn[w] # Idle /\ lock = w
    BY <1>idle, <2>1 DEF RowsInv, LockIsHeld
  <2>5. /\ \A r \in t.rows : r.seq < nextSeq' /\ \A q \in log : q.seq < r.seq
        /\ OneRowPerSeq(log \cup t.rows)
    BY <1>rows, <2>1, <2>3
  <2>6. nextSeq' \in Nat \ {0} /\ nextSeq <= nextSeq'
    BY <1>0, <2>1
  <2> QED
    BY <1>0, <1>alone, <2>1, <2>3, <2>4, <2>5, <2>6, RowsMove
<1>3. CASE InsertRow(w)
  <2>1. PICK e \in Entry :
          txn' = [txn EXCEPT ![w].pc = "idle",
                             ![w].rows = @ \cup {NewRow(nextSeq, txn[w].prev, e)}]
    BY <1>3 DEF InsertRow
  <2>2. /\ txn[w].pc = "read" /\ nextSeq' = nextSeq + 1
        /\ UNCHANGED <<log, lock, cli, memo, page>>
    BY <1>3 DEF InsertRow, runVars
  <2>3. PICK r : r = NewRow(nextSeq, txn[w].prev, e)
    OBVIOUS
  <2>4. r \in AnyRow /\ r.seq = nextSeq
    <3>1. Append(txn[w].prev, e) \in AnyHash
      BY <1>0 DEF AnyHash
    <3> QED
      BY <1>0, <2>3, <3>1 DEF NewRow, AnyRow
  <2> DEFINE t == [txn[w] EXCEPT !.pc = "idle", !.rows = @ \cup {r}]
  <2>5. txn' = [txn EXCEPT ![w] = t]
    BY <2>1, <2>3
  <2>6. t \in Txn /\ t.rows = txn[w].rows \cup {r}
    BY <1>0, <2>4 DEF Txn
  <2> HIDE DEF t
  <2>7. txn[w] # Idle /\ lock = w
    BY <1>idle, <2>2 DEF RowsInv, LockIsHeld
  <2>8. OneRowPerSeq(log \cup t.rows)
    BY <1>0, <1>rows, <2>4, <2>6 DEF OneRowPerSeq, AnyRow
  <2>9. \A q \in t.rows : q.seq < nextSeq' /\ \A p \in log : p.seq < q.seq
    <3>1. ASSUME NEW q \in txn[w].rows PROVE q.seq < nextSeq + 1
      BY <1>0, <1>rows DEF AnyRow
    <3> QED
      BY <1>0, <1>rows, <2>2, <2>4, <2>6, <3>1
  <2>10. nextSeq' \in Nat \ {0} /\ nextSeq <= nextSeq'
    BY <1>0, <2>2
  <2> QED
    BY <1>0, <1>alone, <2>2, <2>5, <2>6, <2>7, <2>8, <2>9, <2>10, RowsMove
<1>4. CASE Rollback(w)
  <2>1. /\ txn[w] # Idle /\ txn' = [txn EXCEPT ![w] = Idle]
        /\ lock' = (IF lock = w THEN None ELSE lock)
        /\ UNCHANGED <<log, nextSeq, cli, memo, page>>
    BY <1>4 DEF Rollback, EndTransaction, runVars
  <2>2. log \cup Idle.rows = log
    BY <1>idle
  <2>3. /\ \A r \in Idle.rows : r.seq < nextSeq' /\ \A q \in log : q.seq < r.seq
        /\ OneRowPerSeq(log \cup Idle.rows)
    BY <1>idle, <1>rows, <2>2
  <2>4. nextSeq' \in Nat \ {0} /\ nextSeq <= nextSeq'
    BY <1>0, <2>1
  <2> QED
    BY <1>0, <1>idle, <1>alone, <2>1, <2>3, <2>4, RowsMove
<1>5. CASE Commit(w)
  <2>1. /\ txn[w].rows # {} /\ log' = log \cup txn[w].rows /\ txn' = [txn EXCEPT ![w] = Idle]
        /\ lock' = (IF lock = w THEN None ELSE lock) /\ UNCHANGED <<nextSeq, cli, memo, page>>
    BY <1>5 DEF Commit, EndTransaction, runVars
  <2>2. \A v \in Writers : txn'[v] = Idle
    BY <1>idle, <1>alone, <2>1 DEF RowsInv, AuditTypeOK
  <2>3. AuditTypeOK'
    BY <1>0, <1>idle, <2>1 DEF RowsInv, AuditTypeOK
  <2>4. LockIsHeld'
    BY <2>2 DEF LockIsHeld
  <2>5. SeqsInOrder'
    BY <1>idle, <1>rows, <2>1, <2>2 DEF SeqsInOrder
  <2>6. OneRowPerSeq(log') /\ \A v \in Writers : OneRowPerSeq(With(v)')
    <3>1. \A v \in Writers : With(v)' = log'
      BY <1>idle, <2>2 DEF With
    <3> QED
      BY <1>rows, <2>1, <3>1
  <2> QED
    BY <2>3, <2>4, <2>5, <2>6 DEF RowsInv
<1> QED
  BY <1>1, <1>2, <1>3, <1>4, <1>5 DEF WriterStep

\* Rows are changed, none is added and none gets another seq.
LEMMA RowsStay ==
  ASSUME RowsInv, log' \in SUBSET AnyRow, \A x \in log' : \E q \in log : x.seq = q.seq,
         OneRowPerSeq(log'), UNCHANGED <<nextSeq, lock, txn>>, cli' \in [Runs -> Job],
         memo' \in [Runs -> {"none", "sent", "landed", "failed"}],
         page' \in [cursor : Nat, rows : SUBSET AnyRow]
  PROVE  RowsInv'
<1>1. AuditTypeOK'
  BY DEF RowsInv, AuditTypeOK
<1>2. LockIsHeld'
  BY DEF RowsInv, LockIsHeld
<1>3. SeqsInOrder'
  BY DEF RowsInv, SeqsInOrder
<1>4. ASSUME NEW w \in Writers PROVE OneRowPerSeq(With(w)')
  <2>1. /\ txn'[w].rows \in SUBSET AnyRow /\ \A x \in log' : \A r \in txn'[w].rows : x.seq < r.seq
    BY DEF RowsInv, AuditTypeOK, Txn, SeqsInOrder
  <2>2. \A p, q \in txn'[w].rows : p.seq = q.seq => p = q
    BY DEF RowsInv, With, OneRowPerSeq
  <2> QED
    BY <2>1, <2>2 DEF With, OneRowPerSeq, AnyRow
<1> QED
  BY <1>1, <1>2, <1>3, <1>4 DEF RowsInv

\* Each row is changed in its place.
LEMMA RowsMapped ==
  ASSUME NEW X \in SUBSET AnyRow, OneRowPerSeq(X), NEW f \in [X -> AnyRow], \A q \in X : f[q].seq = q.seq
  PROVE  /\ {f[q] : q \in X} \in SUBSET AnyRow
         /\ \A x \in {f[q] : q \in X} : \E q \in X : x.seq = q.seq
         /\ OneRowPerSeq({f[q] : q \in X})
<1>1. {f[q] : q \in X} \in SUBSET AnyRow /\ \A x \in {f[q] : q \in X} : \E q \in X : x.seq = q.seq
  OBVIOUS
<1>2. ASSUME NEW p \in X, NEW q \in X, f[p].seq = f[q].seq PROVE f[p] = f[q]
  BY <1>2 DEF OneRowPerSeq
<1> QED
  BY <1>1, <1>2 DEF OneRowPerSeq

LEMMA JobsKeepRows ==
  ASSUME RowsInv, NEW r \in Runs, JobStep(r)
  PROVE  RowsInv'
<1>0. /\ cli[r] \in Job /\ cli \in [Runs -> Job] /\ log \in SUBSET AnyRow /\ nextSeq \in Nat
      /\ memo \in [Runs -> {"none", "sent", "landed", "failed"}] /\ Below(log, nextSeq)
      /\ page \in [cursor : Nat, rows : SUBSET AnyRow] /\ OneRowPerSeq(log)
  BY DEF RowsInv, AuditTypeOK, SeqsInOrder, Below
<1>moves. ASSUME NEW label \in {"start", "sign", "load", "head", "send", "confirm", "record", "done"},
                 Step(r, label)
          PROVE  cli' \in [Runs -> Job]
  BY <1>0, <1>moves DEF Step, Job
<1>frame. ASSUME UNCHANGED <<log, nextSeq, lock, txn, page>>, cli' \in [Runs -> Job],
                 memo' \in [Runs -> {"none", "sent", "landed", "failed"}]
          PROVE  RowsInv'
  BY <1>0, <1>frame, RowsStay
<1>1. CASE ReadUnsigned(r)
  <2>1. PICK U : U = {[seq |-> q.seq, hash |-> q.hash] : q \in {q \in log : q.signature = None}}
    OBVIOUS
  <2>2. U \in SUBSET [seq : Nat, hash : AnyHash]
    BY <1>0, <2>1 DEF AnyRow
  <2>3. cli' = [cli EXCEPT ![r] = [cli[r] EXCEPT !.pc = "sign", !.unsigned = U]]
    BY <1>1, <2>1 DEF ReadUnsigned
  <2>4. [cli[r] EXCEPT !.pc = "sign", !.unsigned = U] \in Job
    BY <1>0, <2>2 DEF Job
  <2> QED
    BY <1>0, <1>1, <1>frame, <2>3, <2>4 DEF ReadUnsigned, writeVars
<1>2. CASE SignUnsignedAuditRows(r)
  <2> DEFINE Signed(q) ==
        LET u == {u \in cli[r].unsigned : u.seq = q.seq}
        IN IF u = {} THEN q ELSE [q EXCEPT !.signature = (CHOOSE v \in u : TRUE).hash]
  <2>1. /\ log' = {Signed(q) : q \in log} /\ cli' = [cli EXCEPT ![r].pc = "load", ![r].unsigned = {}]
        /\ UNCHANGED <<nextSeq, lock, txn, memo, page>>
    BY <1>2 DEF SignUnsignedAuditRows, writeVars
  <2>2. ASSUME NEW q \in log PROVE Signed(q) \in AnyRow /\ Signed(q).seq = q.seq
    <3> DEFINE u == {u \in cli[r].unsigned : u.seq = q.seq}
    <3>0. q \in AnyRow
      BY <1>0
    <3>1. CASE u = {}
      BY <3>0, <3>1
    <3>2. CASE u # {}
      <4>1. PICK v \in u : v = CHOOSE x \in u : TRUE
        BY <3>2
      <4>2. v.hash \in AnyHash
        BY <1>0 DEF Job
      <4>3. Signed(q) = [q EXCEPT !.signature = v.hash]
        BY <3>2, <4>1
      <4> QED
        BY <3>0, <4>2, <4>3 DEF AnyRow
    <3> QED
      BY <3>1, <3>2
  <2> DEFINE f == [q \in log |-> Signed(q)]
  <2>3. log' = {f[q] : q \in log}
    BY <2>1
  <2> HIDE DEF Signed
  <2>4. f \in [log -> AnyRow] /\ \A q \in log : f[q].seq = q.seq
    BY <2>2
  <2>5. PICK g \in [log -> AnyRow] : log' = {g[q] : q \in log} /\ \A q \in log : g[q].seq = q.seq
    BY <2>3, <2>4
  <2> HIDE DEF f
  <2>6. log' \in SUBSET AnyRow /\ (\A x \in log' : \E q \in log : x.seq = q.seq) /\ OneRowPerSeq(log')
    <3>1. PICK X \in SUBSET AnyRow : X = log
      BY <1>0
    <3> QED
      BY <1>0, <2>5, <3>1, RowsMapped
  <2>7. cli' \in [Runs -> Job]
    <3>1. cli' = [cli EXCEPT ![r] = [cli[r] EXCEPT !.pc = "load", !.unsigned = {}]]
      BY <2>1
    <3>2. [cli[r] EXCEPT !.pc = "load", !.unsigned = {}] \in Job
      BY <1>0 DEF Job
    <3> QED
      BY <1>0, <3>1, <3>2
  <2> QED
    BY <1>0, <2>1, <2>6, <2>7, RowsStay
<1>3. CASE VerifyBeforeAnchor(r)
  <2>1. PICK label \in {"head", "done"} : Step(r, label)
    BY <1>3 DEF VerifyBeforeAnchor
  <2>2. cli' \in [Runs -> Job]
    BY <1>moves, <2>1
  <2> QED
    BY <1>0, <1>3, <1>frame, <2>2 DEF VerifyBeforeAnchor, writeVars
<1>4. CASE GetAuditHead(r)
  <2>1. CASE log = {}
    <3>1. cli' \in [Runs -> Job]
      BY <1>4, <1>moves, <2>1 DEF GetAuditHead
    <3> QED
      BY <1>0, <1>4, <1>frame, <3>1 DEF GetAuditHead, writeVars
  <2>2. CASE log # {}
    <3>1. PICK a \in log : a = Latest(log)
      BY <1>0, <2>2, LatestIsLast
    <3>2. a.seq \in Nat /\ a.hash \in AnyHash
      BY <1>0 DEF AnyRow
    <3>3. cli' = [cli EXCEPT ![r] = [cli[r] EXCEPT !.pc = "send", !.seq = a.seq, !.hash = a.hash]]
      BY <1>4, <2>2, <3>1 DEF GetAuditHead
    <3>4. [cli[r] EXCEPT !.pc = "send", !.seq = a.seq, !.hash = a.hash] \in Job
      BY <1>0, <3>2 DEF Job
    <3> QED
      BY <1>0, <1>4, <1>frame, <3>3, <3>4 DEF GetAuditHead, writeVars
  <2> QED
    BY <2>1, <2>2
<1>5. CASE SubmitAnchor(r)
  <2>1. cli' \in [Runs -> Job]
    BY <1>5, <1>moves DEF SubmitAnchor
  <2> QED
    BY <1>0, <1>5, <1>frame, <2>1 DEF SubmitAnchor, writeVars
<1>6. CASE ConfirmAnchor(r)
  <2>1. PICK ok \in {FALSE, memo[r] = "landed"} :
          cli' = [cli EXCEPT ![r].pc = "record", ![r].confirmed = ok]
    BY <1>6 DEF ConfirmAnchor
  <2>2. ok \in BOOLEAN
    OBVIOUS
  <2>3. cli' = [cli EXCEPT ![r] = [cli[r] EXCEPT !.pc = "record", !.confirmed = ok]]
    BY <2>1
  <2>4. [cli[r] EXCEPT !.pc = "record", !.confirmed = ok] \in Job
    BY <1>0, <2>2 DEF Job
  <2>5. cli' \in [Runs -> Job]
    BY <1>0, <2>3, <2>4
  <2> QED
    BY <1>0, <1>6, <1>frame, <2>5 DEF ConfirmAnchor, writeVars
<1>7. CASE RecordAnchor(r)
  <2>1. cli' \in [Runs -> Job]
    BY <1>7, <1>moves DEF RecordAnchor
  <2> QED
    BY <1>0, <1>7, <1>frame, <2>1 DEF RecordAnchor, writeVars
<1>8. CASE AnchorJobDies(r)
  <2>1. cli' \in [Runs -> Job]
    BY <1>8, <1>moves DEF AnchorJobDies
  <2> QED
    BY <1>0, <1>8, <1>frame, <2>1 DEF AnchorJobDies, writeVars
<1>9. CASE MemoLands(r)
  <2>1. PICK m \in {"landed", "failed"} : memo' = [memo EXCEPT ![r] = m]
    BY <1>9 DEF MemoLands
  <2>2. memo' \in [Runs -> {"none", "sent", "landed", "failed"}]
    BY <1>0, <2>1
  <2> QED
    BY <1>0, <1>9, <1>frame, <2>2 DEF MemoLands, writeVars
<1> QED
  BY <1>1, <1>2, <1>3, <1>4, <1>5, <1>6, <1>7, <1>8, <1>9 DEF JobStep

LEMMA ReadingKeepsRows ==
  ASSUME RowsInv, GetAuditLog
  PROVE  RowsInv'
<1>1. PICK rows : /\ rows = LoadAuditRows(page.cursor) /\ rows # {}
                  /\ page' = [cursor |-> Latest(rows).seq, rows |-> page.rows \cup rows]
  BY DEF GetAuditLog
<1>2. UNCHANGED <<log, nextSeq, lock, txn, cli, memo>>
  BY DEF GetAuditLog, writeVars, runVars
<1>3. rows \in SUBSET AnyRow /\ Below(rows, nextSeq) /\ nextSeq \in Nat /\ page.rows \in SUBSET AnyRow
  BY <1>1 DEF RowsInv, AuditTypeOK, SeqsInOrder, LoadAuditRows, Below
<1>4. Latest(rows).seq \in Nat
  BY <1>1, <1>3, LatestIsLast DEF AnyRow
<1>5. page' \in [cursor : Nat, rows : SUBSET AnyRow]
  BY <1>1, <1>3, <1>4
<1> QED
  BY <1>2, <1>5, RowsStay DEF RowsInv, AuditTypeOK

LEMMA ChangedHash ==
  ASSUME NEW h \in AnyHash, NEW n, NEW e \in Entry
  PROVE  [h EXCEPT ![n] = e] \in AnyHash
<1>1. PICK m \in Nat : h \in [1 .. m -> Entry]
  BY DEF AnyHash
<1>2. [h EXCEPT ![n] = e] \in [1 .. m -> Entry]
  BY <1>1
<1> QED
  BY <1>2 DEF AnyHash

LEMMA AlteringKeepsRows ==
  ASSUME RowsInv, Alter
  PROVE  RowsInv'
<1>0. /\ log \in SUBSET AnyRow /\ OneRowPerSeq(log) /\ cli \in [Runs -> Job]
      /\ memo \in [Runs -> {"none", "sent", "landed", "failed"}]
      /\ page \in [cursor : Nat, rows : SUBSET AnyRow]
  BY DEF RowsInv, AuditTypeOK
<1>1. PICK t \in log, e \in Entry :
        \/ log' = log \ {t}
        \/ log' = (log \ {t}) \cup {[t EXCEPT !.entry = e]}
        \/ log' = (log \ {t}) \cup {[t EXCEPT !.entry = e, !.canon = e]}
        \/ log' = Rehashed(t, e)
  BY DEF Alter
<1>2. UNCHANGED <<nextSeq, lock, txn, cli, memo, page>>
  BY DEF Alter, writeVars, runVars
<1>3. log' \in SUBSET AnyRow /\ (\A x \in log' : \E q \in log : x.seq = q.seq) /\ OneRowPerSeq(log')
  <2>1. CASE log' = log \ {t}
    BY <1>0, <2>1 DEF OneRowPerSeq
  <2>2. ASSUME NEW x \in AnyRow, x.seq = t.seq, log' = (log \ {t}) \cup {x}
        PROVE  log' \in SUBSET AnyRow /\ (\A y \in log' : \E q \in log : y.seq = q.seq) /\ OneRowPerSeq(log')
    <3>1. log' \in SUBSET AnyRow /\ \A y \in log' : \E q \in log : y.seq = q.seq
      BY <1>0, <2>2
    <3>2. OneRowPerSeq(log')
      BY <1>0, <2>2 DEF OneRowPerSeq
    <3> QED
      BY <3>1, <3>2
  <2>3. t \in AnyRow
    BY <1>0
  <2>4. CASE log' = (log \ {t}) \cup {[t EXCEPT !.entry = e]}
    <3>1. [t EXCEPT !.entry = e] \in AnyRow /\ [t EXCEPT !.entry = e].seq = t.seq
      BY <2>3 DEF AnyRow
    <3> QED
      BY <2>2, <2>4, <3>1
  <2>5. CASE log' = (log \ {t}) \cup {[t EXCEPT !.entry = e, !.canon = e]}
    <3>1. /\ [t EXCEPT !.entry = e, !.canon = e] \in AnyRow
          /\ [t EXCEPT !.entry = e, !.canon = e].seq = t.seq
      BY <2>3 DEF AnyRow
    <3> QED
      BY <2>2, <2>5, <3>1
  <2>6. CASE log' = Rehashed(t, e)
    <3> DEFINE n == Len(t.hash)
               h(q) == [q.hash EXCEPT ![n] = e]
               Again(q) == [q EXCEPT !.entry = IF q = t THEN e ELSE @, !.canon = IF q = t THEN e ELSE @,
                              !.prev = IF Len(@) < n THEN @ ELSE [@ EXCEPT ![n] = e],
                              !.hash = h(q), !.signature = IF @ = None THEN None ELSE h(q)]
               f == [q \in log |-> IF q.seq < t.seq THEN q ELSE Again(q)]
    <3>1. log' = {f[q] : q \in log}
      BY <2>6 DEF Rehashed
    <3>2. ASSUME NEW q \in log PROVE f[q] \in AnyRow /\ f[q].seq = q.seq
      <4>0. q \in AnyRow
        BY <1>0
      <4>1. PICK k \in AnyHash : k = h(q)
        BY <4>0, ChangedHash DEF AnyRow
      <4>2. PICK p \in AnyHash : p = IF Len(q.prev) < n THEN q.prev ELSE [q.prev EXCEPT ![n] = e]
        BY <4>0, ChangedHash DEF AnyRow
      <4>3. PICK a \in Entry, b \in Entry :
              a = (IF q = t THEN e ELSE q.entry) /\ b = (IF q = t THEN e ELSE q.canon)
        BY <4>0 DEF AnyRow
      <4>4. PICK s \in AnyHash \cup {None} : s = IF q.signature = None THEN None ELSE k
        OBVIOUS
      <4>5. Again(q) = [q EXCEPT !.entry = a, !.canon = b, !.prev = p, !.hash = k, !.signature = s]
        BY <4>0, <4>1, <4>2, <4>3, <4>4 DEF AnyRow
      <4> HIDE DEF Again
      <4>6. Again(q) \in AnyRow /\ Again(q).seq = q.seq
        BY <4>0, <4>5 DEF AnyRow
      <4> QED
        BY <4>0, <4>6
    <3> HIDE DEF Again
    <3>3. f \in [log -> AnyRow] /\ \A q \in log : f[q].seq = q.seq
      BY <3>2
    <3> HIDE DEF f
    <3>4. PICK X \in SUBSET AnyRow : X = log
      BY <1>0
    <3> QED
      BY <1>0, <3>1, <3>3, <3>4, RowsMapped
  <2> QED
    BY <1>1, <2>1, <2>4, <2>5, <2>6
<1> QED
  BY <1>0, <1>2, <1>3, RowsStay

LEMMA RowsInvariant == Spec => []RowsInv
<1>1. ASSUME RowsInv, [Next]_vars PROVE RowsInv'
  <2>1. CASE UNCHANGED vars
    BY <1>1, <2>1 DEF vars, writeVars, runVars, RowsInv, AuditTypeOK, LockIsHeld, SeqsInOrder, With
  <2>2. ASSUME NEW w \in Writers, WriterStep(w) PROVE RowsInv'
    BY <1>1, <2>2, WritersKeepRows
  <2>3. ASSUME NEW r \in Runs, JobStep(r) PROVE RowsInv'
    BY <1>1, <2>3, JobsKeepRows
  <2>4. CASE GetAuditLog
    BY <1>1, <2>4, ReadingKeepsRows
  <2>5. CASE Alter
    BY <1>1, <2>5, AlteringKeepsRows
  <2> QED
    BY <1>1, <2>1, <2>2, <2>3, <2>4, <2>5 DEF Next
<1> QED
  BY <1>1, RowsInitial, PTL DEF Spec

\* Tamper evidence: whoever has written to the rows, with the audit key or
\* without it, a log that verify-transparency accepts against a memo that
\* landed has, up to the anchored row, exactly the entries the memo commits to.
THEOREM AcceptedLogsAreUnaltered == Spec => []AcceptedMeansUnaltered
<1>1. ASSUME RowsInv, NEW r \in Runs, NEW keyed \in BOOLEAN,
             VerifyExtension(log, cli[r].seq, cli[r].hash, FALSE, keyed)
      PROVE  Contents(UpTo(log, cli[r].seq)) = cli[r].hash
  <2>0. /\ log \in SUBSET AnyRow /\ nextSeq \in Nat /\ Below(log, nextSeq) /\ OneRowPerSeq(log)
        /\ cli[r] \in Job
    BY <1>1 DEF RowsInv, AuditTypeOK, SeqsInOrder, Below
  <2>1. PICK s \in Nat, h \in AnyHash : s = cli[r].seq /\ h = cli[r].hash
    BY <2>0 DEF Job
  <2>2. PICK X \in SUBSET AnyRow : X = UpTo(log, s)
    BY <2>0 DEF UpTo
  <2>3. Below(X, nextSeq) /\ OneRowPerSeq(X) /\ \A q \in X : q.seq <= s
    BY <2>0, <2>2 DEF UpTo, Below, OneRowPerSeq
  <2>4. VerifyAuditChain(X, FALSE, FALSE) /\ \E q \in X : q.seq = s /\ q.hash = h
    <3>1. VerifyAuditChain(X, FALSE, keyed) /\ \E q \in X : q.seq = s /\ q.hash = h
      BY <1>1, <2>1, <2>2 DEF VerifyExtension, CheckExtendsAnchor
    <3> QED
      BY <3>1, WithoutTheKey
  <2>5. PICK a \in X : a.seq = s /\ a.hash = h
    BY <2>4
  <2>6. Latest(X) \in X /\ \A q \in X : q.seq <= Latest(X).seq
    BY <2>0, <2>3, <2>5, LatestIsLast
  <2>7. Latest(X).seq = a.seq
    BY <2>1, <2>3, <2>5, <2>6 DEF AnyRow
  <2>8. Latest(X) = a
    BY <2>3, <2>6, <2>7 DEF OneRowPerSeq
  <2>9. HeadHash(X) = h
    BY <2>5, <2>8 DEF HeadHash
  <2>10. Contents(X) = HeadHash(X)
    BY <2>0, <2>3, <2>4, TheHeadIsTheContents
  <2> QED
    BY <2>1, <2>2, <2>9, <2>10
<1>2. RowsInv => AcceptedMeansUnaltered
  BY <1>1 DEF AcceptedMeansUnaltered
<1> QED
  BY <1>2, RowsInvariant, PTL

=============================================================================
