------------------------------ MODULE AuditLog ------------------------------
(***************************************************************************)
(* The audit log (api/audit.ts), its verification and signing              *)
(* (transparency/audit-chain.ts), the anchor job (cli/anchor-audit-log.ts, *)
(* transparency/anchor.ts), the pages the API serves and the third party's *)
(* verifier (cli/verify-transparency.ts).                                  *)
(*                                                                         *)
(* SHA-256 is taken to be injective: the hash of a row is the sequence of  *)
(* the entries it commits to, hashCanonical(prev, json) = Append(prev,     *)
(* json).  A signature of the audit key is the hash it signs.              *)
(***************************************************************************)
EXTENDS Integers, FiniteSets, SequencesExt

CONSTANTS
  Writers,    \* database transactions that append
  Runs,       \* runs of the anchor job; each happens at most once
  Entry,      \* audit entries
  MaxSeq,     \* bound: values the BIGSERIAL gives out
  PageSize,   \* rows of a page of GET /v1/transparency/log
  None

ASSUME AuditAssumption ==
  /\ MaxSeq \in Nat /\ PageSize \in Nat \ {0}
  /\ None \notin Writers

VARIABLES
  log,       \* the committed rows of audit_log
  nextSeq,   \* the sequence behind audit_log.seq
  lock,      \* holder of the advisory lock AUDIT_ADVISORY_KEY
  txn,       \* the transactions that append
  cli,       \* the runs of the anchor job
  memo,      \* the memo transaction of each run, as the chain has it
  anchors,   \* audit_anchors
  page,      \* what a third party has read of the log so far
  altered    \* did somebody write to the rows behind the service's back?

writeVars == <<nextSeq, lock, txn>>
runVars   == <<cli, memo, anchors>>
vars == <<log, writeVars, runVars, page, altered>>

Genesis == << >>
Hash == BoundedSeq(Entry, MaxSeq)
Row  == [seq : 1 .. MaxSeq, prev : Hash, entry : Entry, canon : Entry,
         hash : Hash, signature : Hash \cup {None}]
Idle == [pc |-> "idle", prev |-> Genesis, rows |-> {}]
Ready == [pc |-> "start", unsigned |-> {}, seq |-> 0, hash |-> Genesis, confirmed |-> FALSE]

TypeOK ==
  /\ log \subseteq Row
  /\ nextSeq \in 1 .. MaxSeq + 1
  /\ lock \in Writers \cup {None}
  /\ txn \in [Writers -> [pc : {"idle", "locked", "read"}, prev : Hash, rows : SUBSET Row]]
  /\ cli \in [Runs -> [pc : {"start", "sign", "load", "head", "send", "confirm",
                             "record", "done"},
                       unsigned : SUBSET [seq : 1 .. MaxSeq, hash : Hash],
                       seq : 0 .. MaxSeq, hash : Hash, confirmed : BOOLEAN]]
  /\ memo \in [Runs -> {"none", "sent", "landed", "failed"}]
  /\ anchors \subseteq [run : Runs, seq : 1 .. MaxSeq, hash : Hash, confirmed : BOOLEAN]
  /\ page \in [cursor : 0 .. MaxSeq, rows : SUBSET Row]
  /\ altered \in BOOLEAN

Init ==
  /\ log = {} /\ nextSeq = 1 /\ lock = None
  /\ txn = [w \in Writers |-> Idle]
  /\ cli = [r \in Runs |-> Ready]
  /\ memo = [r \in Runs |-> "none"]
  /\ anchors = {}
  /\ page = [cursor |-> 0, rows |-> {}]
  /\ altered = FALSE

Latest(rows) == CHOOSE r \in rows : \A q \in rows : q.seq <= r.seq
HeadHash(rows) == IF rows = {} THEN Genesis ELSE Latest(rows).hash

-----------------------------------------------------------------------------
(***************************************************************************)
(* appendAudit, inside the transaction of the claim's state change.  One   *)
(* transaction may append several rows (the reaper does).                  *)
(***************************************************************************)

\* Mutant: the lock is not waited for.
LockAuditFree(w) ==
  /\ txn[w].pc = "idle" /\ nextSeq <= MaxSeq
  /\ lock' = w
  /\ txn' = [txn EXCEPT ![w].pc = "locked"]
  /\ UNCHANGED <<log, nextSeq, runVars, page, altered>>

\* pg_advisory_xact_lock: held to the end of the transaction, re-entrant.
LockAudit(w) ==
  /\ txn[w].pc = "idle" /\ nextSeq <= MaxSeq
  /\ lock \in {None, w}
  /\ lock' = w
  /\ txn' = [txn EXCEPT ![w].pc = "locked"]
  /\ UNCHANGED <<log, nextSeq, runVars, page, altered>>

\* READ COMMITTED: the committed rows and the transaction's own.
ReadPrevHash(w) ==
  /\ txn[w].pc = "locked"
  /\ txn' = [txn EXCEPT ![w].pc = "read",
                        ![w].prev = HeadHash(log \cup txn[w].rows)]
  /\ UNCHANGED <<log, nextSeq, lock, runVars, page, altered>>

\* The service registers no audit signer: the signature is the placeholder.
NewRow(s, prev, e) ==
  [seq |-> s, prev |-> prev, entry |-> e, canon |-> e,
   hash |-> Append(prev, e), signature |-> None]

\* Mutant: the lock is released with the statement, not with the transaction.
InsertAndUnlock(w) ==
  /\ txn[w].pc = "read" /\ nextSeq <= MaxSeq
  /\ \E e \in Entry :
       txn' = [txn EXCEPT ![w].pc = "idle",
                          ![w].rows = @ \cup {NewRow(nextSeq, txn[w].prev, e)}]
  /\ nextSeq' = nextSeq + 1
  /\ lock' = None
  /\ UNCHANGED <<log, runVars, page, altered>>

InsertRow(w) ==
  /\ txn[w].pc = "read" /\ nextSeq <= MaxSeq
  /\ \E e \in Entry :
       txn' = [txn EXCEPT ![w].pc = "idle",
                          ![w].rows = @ \cup {NewRow(nextSeq, txn[w].prev, e)}]
  /\ nextSeq' = nextSeq + 1
  /\ UNCHANGED <<log, lock, runVars, page, altered>>

EndTransaction(w) ==
  /\ txn' = [txn EXCEPT ![w] = Idle]
  /\ lock' = IF lock = w THEN None ELSE lock
  /\ UNCHANGED <<nextSeq, runVars, page, altered>>

Commit(w) ==
  /\ txn[w].pc = "idle" /\ txn[w].rows # {}
  /\ log' = log \cup txn[w].rows
  /\ EndTransaction(w)

\* An error after the append, or a lost connection: the sequence keeps its value.
Rollback(w) ==
  /\ txn[w] # Idle
  /\ EndTransaction(w)
  /\ UNCHANGED log

-----------------------------------------------------------------------------
(***************************************************************************)
(* Verification.                                                           *)
(***************************************************************************)

UpTo(rows, s) == {r \in rows : r.seq <= s}
Before(rows, r) == {q \in rows : q.seq < r.seq}

\* The exact stored bytes, or, for the served dump, which does not carry them,
\* the entry serialized again.
Recomputed(r, served) == Append(r.prev, IF served THEN r.entry ELSE r.canon)

\* Mutant: only the hashes are recomputed, not the links.
VerifyHashesOnly(rows, served, keyed) ==
  \A r \in rows : r.hash = Recomputed(r, served)

\* Signatures are looked at only with the audit key, where a placeholder is
\* accepted and a wrong one is not.
VerifyAuditChain(rows, served, keyed) ==
  \A r \in rows :
    /\ r.prev = HeadHash(Before(rows, r))
    /\ r.hash = Recomputed(r, served)
    /\ keyed => r.signature \in {None, r.hash}

\* Mutant: the rows before the anchored one are taken.
CheckExtendsStrict(rows, s, h, served, keyed) ==
  LET upTo == UpTo(rows, s - 1)
  IN VerifyAuditChain(upTo, served, keyed) /\ \E r \in upTo : r.seq = s /\ r.hash = h

CheckExtendsAnchor(rows, s, h, served, keyed) ==
  LET upTo == UpTo(rows, s)
  IN VerifyAuditChain(upTo, served, keyed) /\ \E r \in upTo : r.seq = s /\ r.hash = h

AnySigned(rows) == \E r \in rows : r.signature # None

\* verify-transparency, with --audit-pubkey or without: the whole dump, which
\* with the key must hold a signed row, then the extension.
VerifyExtension(rows, s, h, served, keyed) ==
  /\ VerifyAuditChain(rows, served, keyed)
  /\ keyed => AnySigned(rows)
  /\ CheckExtendsAnchor(rows, s, h, served, keyed)

-----------------------------------------------------------------------------
(***************************************************************************)
(* The anchor job: sign, verify, read the head, post it, record it.  Each  *)
(* is a query or an RPC call of its own, with no lock across them.         *)
(***************************************************************************)

Step(r, label) == cli' = [cli EXCEPT ![r].pc = label]

ReadUnsigned(r) ==
  /\ cli[r].pc = "start"
  /\ cli' = [cli EXCEPT ![r].pc = "sign",
       ![r].unsigned = {[seq |-> q.seq, hash |-> q.hash] :
                          q \in {q \in log : q.signature = None}}]
  /\ UNCHANGED <<log, writeVars, memo, anchors, page, altered>>

SignUnsignedAuditRows(r) ==
  /\ cli[r].pc = "sign"
  /\ log' = {LET u == {u \in cli[r].unsigned : u.seq = q.seq}
             IN IF u = {} THEN q
                ELSE [q EXCEPT !.signature = (CHOOSE v \in u : TRUE).hash] : q \in log}
  /\ cli' = [cli EXCEPT ![r].pc = "load", ![r].unsigned = {}]
  /\ UNCHANGED <<writeVars, memo, anchors, page, altered>>

\* A broken chain is not anchored; the job has the audit key.
VerifyBeforeAnchor(r) ==
  /\ cli[r].pc = "load"
  /\ Step(r, IF VerifyAuditChain(log, FALSE, TRUE) THEN "head" ELSE "done")
  /\ UNCHANGED <<log, writeVars, memo, anchors, page, altered>>

\* The head is read again, so it may be newer than what was verified.
GetAuditHead(r) ==
  /\ cli[r].pc = "head"
  /\ IF log = {} THEN Step(r, "done")
     ELSE cli' = [cli EXCEPT ![r].pc = "send", ![r].seq = Latest(log).seq,
                                               ![r].hash = Latest(log).hash]
  /\ UNCHANGED <<log, writeVars, memo, anchors, page, altered>>

SubmitAnchor(r) ==
  /\ cli[r].pc = "send"
  /\ memo' = [memo EXCEPT ![r] = "sent"]
  /\ Step(r, "confirm")
  /\ UNCHANGED <<log, writeVars, anchors, page, altered>>

\* The chain.
MemoLands(r) ==
  /\ memo[r] = "sent"
  /\ \E result \in {"landed", "failed"} : memo' = [memo EXCEPT ![r] = result]
  /\ UNCHANGED <<log, writeVars, cli, anchors, page, altered>>

\* Confirmed, or given up on (failed, expired, still pending).
ConfirmAnchor(r) ==
  /\ cli[r].pc = "confirm"
  /\ \E ok \in {FALSE, memo[r] = "landed"} :
       cli' = [cli EXCEPT ![r].pc = "record", ![r].confirmed = ok]
  /\ UNCHANGED <<log, writeVars, memo, anchors, page, altered>>

RecordAnchor(r) ==
  /\ cli[r].pc = "record"
  /\ anchors' = anchors \cup {[run |-> r, seq |-> cli[r].seq, hash |-> cli[r].hash,
                               confirmed |-> cli[r].confirmed]}
  /\ Step(r, "done")
  /\ UNCHANGED <<log, writeVars, memo, page, altered>>

\* An RPC or database error, or the process dies.
AnchorJobDies(r) ==
  /\ cli[r].pc \notin {"start", "done"}
  /\ Step(r, "done")
  /\ UNCHANGED <<log, writeVars, memo, anchors, page, altered>>

-----------------------------------------------------------------------------
(***************************************************************************)
(* The pages of the log.                                                   *)
(***************************************************************************)

LoadAuditRows(cursor) ==
  {r \in log : r.seq > cursor /\ Cardinality({q \in log : q.seq \in cursor + 1 .. r.seq}) <= PageSize}

GetAuditLog ==
  /\ LET rows == LoadAuditRows(page.cursor)
     IN /\ rows # {}
        /\ page' = [cursor |-> Latest(rows).seq, rows |-> page.rows \cup rows]
  /\ UNCHANGED <<log, writeVars, runVars, altered>>

-----------------------------------------------------------------------------
(***************************************************************************)
(* What the log is kept against: somebody with access to the database, and *)
(* to the audit key, changes rows.                                         *)
(***************************************************************************)

\* Row t and all that follow it, hashed and signed again over a new entry.
Rehashed(t, e) ==
  {IF q.seq < t.seq THEN q
   ELSE LET n == Len(t.hash)
            h == [q.hash EXCEPT ![n] = e]
        IN [q EXCEPT !.entry = IF q = t THEN e ELSE @, !.canon = IF q = t THEN e ELSE @,
                     !.prev = IF Len(@) < n THEN @ ELSE [@ EXCEPT ![n] = e],
                     !.hash = h, !.signature = IF @ = None THEN None ELSE h] : q \in log}

Alter ==
  /\ ~altered /\ altered' = TRUE
  /\ \E t \in log, e \in Entry :
       /\ e # t.canon
       /\ \/ log' = log \ {t}
          \/ log' = (log \ {t}) \cup {[t EXCEPT !.entry = e]}
          \/ log' = (log \ {t}) \cup {[t EXCEPT !.entry = e, !.canon = e]}
          \/ log' = Rehashed(t, e)
  /\ UNCHANGED <<writeVars, runVars, page>>

-----------------------------------------------------------------------------

WriterStep(w) ==
  \/ LockAudit(w) \/ ReadPrevHash(w) \/ InsertRow(w) \/ Commit(w) \/ Rollback(w)

JobStep(r) ==
  \/ ReadUnsigned(r) \/ SignUnsignedAuditRows(r) \/ VerifyBeforeAnchor(r)
  \/ GetAuditHead(r) \/ SubmitAnchor(r) \/ ConfirmAnchor(r) \/ RecordAnchor(r)
  \/ AnchorJobDies(r) \/ MemoLands(r)

Next ==
  \/ \E w \in Writers : WriterStep(w)
  \/ \E r \in Runs : JobStep(r)
  \/ GetAuditLog
  \/ Alter

Spec == Init /\ [][Next]_vars

-----------------------------------------------------------------------------
(***************************************************************************)
(* Properties.                                                             *)
(***************************************************************************)

\* The chain never forks: whatever transactions append, roll back or overlap,
\* the rows in seq order each commit to the one before (audit.ts: "kept linear
\* under concurrency"), and what has been signed meanwhile is signed rightly.
ChainLinear == altered \/ VerifyAuditChain(log, FALSE, TRUE)

\* A reader who follows the cursor of /v1/transparency/log while rows are being
\* appended misses none and reads none twice: seq order is commit order.
Unsigned(rows) == {[r EXCEPT !.signature = None] : r \in rows}
PagesMissNothing ==
  altered \/ Unsigned(page.rows) = Unsigned(UpTo(log, page.cursor))

Landed(r) == memo[r] = "landed"

\* An operator who rewrites nothing is not accused: the log, and what has been
\* served of it, verify against every memo that ever landed, also one whose job
\* died before recording it and one whose head was appended while the job ran.
\* With the audit key they do once any of their rows has been signed: what was
\* read before the first signing is refused.
HonestLogExtendsAnchors ==
  altered \/ \A r \in Runs, keyed \in BOOLEAN :
    LET Accepted(rows, served) ==
          (keyed => AnySigned(rows)) => VerifyExtension(rows, cli[r].seq, cli[r].hash, served, keyed)
    IN Landed(r) => /\ Accepted(log, FALSE)
                    /\ page.cursor >= cli[r].seq => Accepted(page.rows, TRUE)

\* The rows of a log are numbered from 1, in seq order.
Place(rows, r) == Cardinality(UpTo(rows, r.seq))
Contents(rows) ==
  [i \in 1 .. Cardinality(rows) |-> (CHOOSE r \in rows : Place(rows, r) = i).canon]

\* Tamper evidence: a log that verifies against an anchored head, with the audit
\* key or without it, has up to that head exactly the entries the head committed
\* to; one that was edited, shortened in the middle or hashed and signed again is
\* refused.
AcceptedMeansUnaltered ==
  \A r \in Runs, keyed \in BOOLEAN :
    Landed(r) /\ VerifyExtension(log, cli[r].seq, cli[r].hash, FALSE, keyed)
      => Contents(UpTo(log, cli[r].seq)) = cli[r].hash
=============================================================================
