------------------------- MODULE AntOperatorProofs --------------------------
(***************************************************************************)
(* Theorems about operator-wallet dispatch, for any number of submits at   *)
(* once, daemons, ANTs, batches and signatures: confirmed rows were paid,  *)
(* no reservation is stranded, batch headers are truthful and, until a     *)
(* process overwrites a signature it did not judge, what can land is on    *)
(* record.                                                                 *)
(***************************************************************************)
EXTENDS AntOperator, WorkerProofs, WellFoundedInduction

(***************************************************************************)
(* ANTs are dispatched by submits alone.  Daemons beside them are told the *)
(* mode or not; if not, ANTs need no approval (else a stale routeToReview  *)
(* could put a failed claim back into the queue).                          *)
(***************************************************************************)
WalletDispatch ==
  /\ \A c \in Claims : AssetType[c] = "ant"
  /\ \A w \in Workers \ Submits : Role[w] = "daemon"
  /\ OperatorWallet \/ ~AntRequiresApproval

\* A process overwrites a signature it did not judge: it found one dead or
\* failed, and meanwhile another released the claim, which was built and
\* submitted anew.  releaseReservationForRebuild, clearDeadSignature, markFailed
\* and markNeedsOperator look at the status only.  It takes two submits, or two
\* daemons, that confirm the same signature.
Overtaken(w) ==
  LET c == job[w].claim
  IN /\ \/ job[w].pc = "clear" /\ status[c] = "dispatching"
        \/ /\ job[w].pc \in {"freeze", "fail"}
           /\ status[c] \in {"verified", "pending_review", "dispatching"}
     /\ sig[c] # job[w].sig

Overtaking == \E w \in Workers : Overtaken(w)

Queued == {"verified", "pending_review"}

\* Nothing of s has executed and nothing can.
Dead(s) == age[s] = 2 /\ tx[s] \in {"unsent", "inflight"}

\* Dead, or executed with an error.
Fruitless(s) == Dead(s) \/ tx[s] \in {"processed_err", "failed"}

Confirming == {"sample", "status", "scan", "clear", "freeze", "fail", "finalize"}

\* A request belongs to a batch with a header and to the claim of its signature.
ReqInv ==
  \A p \in Submits : req[p].pc # "idle" =>
    /\ req[p].batch \in Batches /\ header[req[p].batch] # "none"
    /\ req[p].sig \in Sig /\ req[p].claim \in Claims
    /\ req[p].claim = ClaimOf(req[p].sig)

-----------------------------------------------------------------------------
(***************************************************************************)
(* Types.                                                                  *)
(***************************************************************************)

\* A bounded set of numbers has a greatest one.
LEMMA LastOne ==
  ASSUME NEW n \in Nat, NEW T \in SUBSET (1 .. n), T # {}
  PROVE  \E x \in T : \A y \in T : x >= y
<1> DEFINE U == {n - x : x \in T}
<1>1. U \subseteq Nat /\ U # {}
  <2>1. \A x \in T : n - x \in Nat
    OBVIOUS
  <2> QED
    BY <2>1
<1> DEFINE R == OpToRel(<, Nat)
<1>2. \E m \in U : \A k \in U : ~(<<k, m>> \in R)
  BY <1>1, NatLessThanWellFounded, WFMin
<1>3. \A k, m \in Nat : k < m => <<k, m>> \in R
  BY DEF OpToRel
<1> HIDE DEF R
<1>4. PICK m \in U : \A k \in U : ~(k < m)
  BY <1>1, <1>2, <1>3
<1>5. PICK x \in T : m = n - x
  BY <1>4
<1>6. \A y \in T : ~(n - y < n - x)
  BY <1>4, <1>5
<1> QED
  BY <1>6

\* build_reserved_batch signs with a fresh transaction id of the claim.
LEMMA BuiltIsFresh ==
  ASSUME NEW c \in Claims, Buildable(c) # {}
  PROVE  Built(c) \in Buildable(c)
<1> DEFINE T == {s[2] : s \in Buildable(c)}
<1>1. Buildable(c) \subseteq Sig
  BY DEF Buildable, Unused
<1>2. MaxSigs \in Nat /\ T \in SUBSET (1 .. MaxSigs) /\ T # {}
  BY <1>1, CoreAssumption DEF Sig
<1>3. \E x \in T : \A y \in T : x >= y
  BY <1>2, LastOne
<1>4. \E s \in Buildable(c) : \A t \in Buildable(c) : s[2] >= t[2]
  BY <1>3
<1> QED
  BY <1>4 DEF Built

LEMMA OpTypeInit == OpInit => OpTypeOK
BY TypeInit DEF OpInit, OpTypeOK, NoReq

\* The job of a submit, and of every other worker, is a job of Worker.
LEMMA WorkerMovesType ==
  ASSUME TypeOK, NEW w \in Workers, WorkerStep(w) \/ Crash(w)
  PROVE  TypeOK'
BY TypeNext DEF Next

LEMMA SubmitStepType ==
  ASSUME OpTypeOK, NEW p \in Submits, SubmitStep(p)
  PROVE  OpTypeOK'
<1>1. p \in Workers /\ TypeOK
  BY OperatorAssumption DEF OpTypeOK
<1>2. WorkerStep(p)
  BY DEF SubmitStep, WorkerStep
<1> QED
  BY <1>1, <1>2, WorkerMovesType DEF SubmitStep, OpTypeOK, opVars

LEMMA OpTypeNext ==
  ASSUME OpTypeOK, ReqInv, [OpNext]_allVars
  PROVE  OpTypeOK'
<1>0. TypeOK /\ CoreTypeOK
  BY DEF OpTypeOK, TypeOK
<1>1. ASSUME UNCHANGED <<status, approved, sig, txSigs, resign, asset, chainVars, queue, job,
                         crashes, wallet, req>>,
             batch' \in [Claims -> Batches \cup {None}],
             resTxid' \in [Claims -> Sig \cup {None}],
             header' \in [Batches -> {"none", "open", "submitted", "completed", "expired"}]
      PROVE  OpTypeOK'
  BY <1>0, <1>1 DEF OpTypeOK, TypeOK, CoreTypeOK, chainVars
<1>2. ASSUME NEW b \in Batches, ReserveAntBatch(b) PROVE OpTypeOK'
  <2>1. batch' \in [Claims -> Batches \cup {None}]
    BY <1>0, <1>2 DEF ReserveAntBatch, CoreTypeOK
  <2> QED
    BY <1>1, <1>2, <2>1 DEF ReserveAntBatch, OpTypeOK
<1>3. ASSUME NEW b \in Batches, BuildReservedBatch(b) PROVE OpTypeOK'
  <2>1. ASSUME NEW c \in ToBuild(b) PROVE Built(c) \in Sig
    BY <1>3, <2>1, BuiltIsFresh DEF BuildReservedBatch, Buildable, Unused, ToBuild, Members
  <2>2. resTxid' \in [Claims -> Sig \cup {None}] /\ wallet' \subseteq Sig
    BY <1>3, <2>1 DEF BuildReservedBatch, OpTypeOK
  <2>3. age' \in [Sig -> 0 .. 2]
    BY <1>0, <1>3 DEF BuildReservedBatch, CoreTypeOK
  <2> QED
    BY <1>0, <1>3, <2>2, <2>3 DEF BuildReservedBatch, OpTypeOK, TypeOK, CoreTypeOK, rowVars
<1>4. ASSUME NEW b \in Batches, ReleaseAntBatch(b) PROVE OpTypeOK'
  <2>1. /\ batch' \in [Claims -> Batches \cup {None}]
        /\ resTxid' \in [Claims -> Sig \cup {None}]
        /\ status' \in [Claims -> ClaimStatus]
    BY <1>0, <1>4 DEF ReleaseAntBatch, Free, OpTypeOK, CoreTypeOK, ClaimStatus
  <2>2. header' \in [Batches -> {"none", "open", "submitted", "completed", "expired"}]
    BY <1>4 DEF ReleaseAntBatch, CancelHeader, OpTypeOK
  <2> QED
    BY <1>0, <1>4, <2>1, <2>2 DEF ReleaseAntBatch, OpTypeOK, TypeOK, CoreTypeOK, chainVars
<1>5. ASSUME NEW k \in Batches, ExpireStaleReservations(k) PROVE OpTypeOK'
  <2>1. /\ batch' \in [Claims -> Batches \cup {None}]
        /\ resTxid' \in [Claims -> Sig \cup {None}]
    BY <1>0, <1>5 DEF ExpireStaleReservations, Free, OpTypeOK, CoreTypeOK
  <2>2. header' \in [Batches -> {"none", "open", "submitted", "completed", "expired"}]
    BY <1>5 DEF ExpireStaleReservations, OpTypeOK
  <2> QED
    BY <1>1, <1>5, <2>1, <2>2 DEF ExpireStaleReservations
<1> DEFINE Request0 == [pc    : {"idle", "load", "reload", "run", "count", "header"},
                        batch : Batches \cup {None}, claim : Claims \cup {None},
                        sig   : Sig \cup {None},     open  : BOOLEAN]
<1>6. NoReq \in Request0 /\ req \in [Submits -> Request0]
  BY DEF NoReq, OpTypeOK
<1>7. ASSUME NEW p \in Submits, NEW r \in Request0, req' = [req EXCEPT ![p] = r], TypeOK',
             UNCHANGED <<resTxid, wallet>>,
             header' \in [Batches -> {"none", "open", "submitted", "completed", "expired"}]
      PROVE  OpTypeOK'
  BY <1>6, <1>7 DEF OpTypeOK
<1>8. ASSUME NEW p \in Submits, NEW l \in {"reload", "run", "count", "header"}, NEW o \in BOOLEAN,
             \/ Request(p, l)
             \/ req' = [req EXCEPT ![p] = [@ EXCEPT !.pc = l, !.open = o]],
             TypeOK', UNCHANGED <<resTxid, wallet, header>>
      PROVE  OpTypeOK'
  <2>1. [req[p] EXCEPT !.pc = l] \in Request0 /\ [req[p] EXCEPT !.pc = l, !.open = o] \in Request0
    BY <1>6
  <2>2. PICK r \in Request0 : req' = [req EXCEPT ![p] = r]
    BY <1>8, <2>1 DEF Request
  <2>3. header' \in [Batches -> {"none", "open", "submitted", "completed", "expired"}]
    BY <1>8 DEF OpTypeOK
  <2> QED
    BY <1>7, <1>8, <2>2, <2>3
<1>9. ASSUME UNCHANGED vars PROVE TypeOK'
  BY <1>0, <1>9, TypeNext
<1>10. ASSUME NEW p \in Submits, NEW b \in Batches, NEW s \in Sig, SubmitAntBatch(p, b, s)
       PROVE  OpTypeOK'
  <2> DEFINE r == [NoReq EXCEPT !.batch = b, !.claim = ClaimOf(s), !.sig = s,
                       !.pc = IF Matches(ClaimOf(s), s, b) THEN "load" ELSE "count"]
  <2>1. ClaimOf(s) \in Claims
    BY DEF ClaimOf, Sig
  <2>2. r \in Request0
    BY <1>6, <2>1
  <2> QED
    BY <1>7, <1>9, <1>10, <2>2 DEF SubmitAntBatch, OpTypeOK
\* Jobs of a submit.
<1>11. ASSUME NEW p \in Submits, NEW j \in Job, job' = [job EXCEPT ![p] = j],
              j.pc # "idle" => j.claim \in Claims, j.pc \in WithSig => j.sig \in Sig,
              CoreTypeOK', crashes' \in Nat, UNCHANGED queue
       PROVE  TypeOK'
  BY <1>0, <1>11, OperatorAssumption DEF TypeOK
<1>12. ASSUME NEW p \in Submits, Done(p), CoreTypeOK', crashes' \in Nat, UNCHANGED queue
       PROVE  TypeOK'
  BY <1>11, <1>12, NoJobType DEF Done, NoJob, WithSig
<1>13. ASSUME UNCHANGED <<rowVars, chainVars>> PROVE CoreTypeOK'
  BY <1>0, <1>13 DEF CoreTypeOK, rowVars, chainVars
<1>14. ASSUME NEW p \in Submits, SubmitLoad(p) PROVE OpTypeOK'
  <2>1. req[p].claim \in Claims /\ req[p].sig \in Sig
    BY <1>14 DEF SubmitLoad, ReqInv, OpTypeOK
  <2> DEFINE j == [NoJob EXCEPT !.pc = "persist", !.claim = req[p].claim, !.sig = req[p].sig]
  <2>2. j \in Job
    BY <2>1, NoJobType DEF Job, PC
  <2>3. j.claim \in Claims /\ j.sig \in Sig
    BY <2>1 DEF NoJob
  <2>4. job' = [job EXCEPT ![p] = j] \/ UNCHANGED job
    BY <1>14 DEF SubmitLoad
  <2> HIDE DEF j
  <2>5. CoreTypeOK' /\ crashes' \in Nat /\ UNCHANGED queue
    BY <1>0, <1>13, <1>14 DEF SubmitLoad, TypeOK
  <2>6. TypeOK'
    BY <1>0, <1>11, <2>2, <2>3, <2>4, <2>5 DEF TypeOK
  <2>7. \E l \in {"reload", "run", "count", "header"} : Request(p, l)
    BY <1>14 DEF SubmitLoad
  <2> QED
    BY <1>8, <1>14, <2>6, <2>7 DEF SubmitLoad
<1>15. ASSUME NEW p \in Submits, RecoverReservedAntClaim(p) PROVE OpTypeOK'
  <2>1. PICK c \in Claims : c = req[p].claim
    BY <1>15 DEF RecoverReservedAntClaim, ReqInv
  <2> DEFINE j == [NoJob EXCEPT !.pc = "sample", !.claim = c, !.sig = sig[c],
                                !.known = {sig[c]} \cup txSigs[c], !.resign = resign[c]]
  <2>2. ASSUME sig[c] # None
        PROVE  j \in Job
    <3>1. PICK s \in Sig, n \in Nat : s = sig[c] /\ n = resign[c]
      BY <1>0, <2>1, <2>2 DEF CoreTypeOK
    <3>2. PICK k \in SUBSET Sig : k = {sig[c]} \cup txSigs[c]
      BY <1>0, <2>1, <3>1 DEF CoreTypeOK
    <3>3. "sample" \in PC
      BY DEF PC
    <3>4. j = [NoJob EXCEPT !.pc = "sample", !.claim = c, !.sig = s, !.known = k, !.resign = n]
      BY <3>1, <3>2
    <3> HIDE DEF j
    <3> QED
      BY <3>3, <3>4, NoJobType DEF Job
  <2>3. j.claim \in Claims /\ j.sig = sig[c]
    BY <2>1 DEF NoJob
  <2>4. (sig[c] # None /\ job' = [job EXCEPT ![p] = j]) \/ UNCHANGED job
    BY <1>15, <2>1 DEF RecoverReservedAntClaim
  <2> HIDE DEF j
  <2>5. CoreTypeOK' /\ crashes' \in Nat /\ UNCHANGED queue
    BY <1>0, <1>13, <1>15 DEF RecoverReservedAntClaim, TypeOK
  <2>6. TypeOK'
    BY <1>0, <1>11, <2>2, <2>3, <2>4, <2>5 DEF TypeOK, CoreTypeOK
  <2>7. \E l \in {"reload", "run", "count", "header"} : Request(p, l)
    BY <1>15 DEF RecoverReservedAntClaim
  <2> QED
    BY <1>8, <1>15, <2>6, <2>7 DEF RecoverReservedAntClaim
<1>16. ASSUME NEW p \in Submits, ReleaseReservationForRebuild(p) PROVE OpTypeOK'
  <2>1. PICK c \in Claims : c = job[p].claim
    BY <1>0, <1>16, OperatorAssumption DEF ReleaseReservationForRebuild, TypeOK
  <2>2. CoreTypeOK' /\ resTxid' \in [Claims -> Sig \cup {None}]
    <3>1. CASE UNCHANGED <<rowVars, resTxid>>
      BY <1>13, <1>16, <3>1 DEF ReleaseReservationForRebuild, OpTypeOK
    <3>2. CASE ~UNCHANGED <<rowVars, resTxid>>
      <4>1. /\ status' = [status EXCEPT ![c] = IF approved[c] THEN "pending_review" ELSE "verified"]
            /\ sig' = [sig EXCEPT ![c] = None] /\ resign' = [resign EXCEPT ![c] = @ + 1]
            /\ Free({c}) /\ UNCHANGED <<approved, txSigs, asset>> /\ UNCHANGED chainVars
        BY <1>16, <2>1, <3>2 DEF ReleaseReservationForRebuild
      <4> QED
        BY <1>0, <4>1 DEF Free, OpTypeOK, CoreTypeOK, ClaimStatus, chainVars
    <3> QED
      BY <3>1, <3>2
  <2> QED
    BY <1>0, <1>12, <1>16, <2>2 DEF ReleaseReservationForRebuild, OpTypeOK, TypeOK
<1>17. ASSUME NEW p \in Submits, CountRemaining(p) PROVE OpTypeOK'
  <2>1. Remaining(req[p].batch) \in BOOLEAN
    BY DEF Remaining
  <2> QED
    BY <1>8, <1>9, <1>17, <2>1 DEF CountRemaining
<1>18. ASSUME NEW p \in Submits, FinalizeBatchStatus(p) PROVE OpTypeOK'
  <2>1. header' \in [Batches -> {"none", "open", "submitted", "completed", "expired"}]
    BY <1>18 DEF FinalizeBatchStatus, OpTypeOK
  <2> QED
    BY <1>6, <1>7, <1>9, <1>18, <2>1 DEF FinalizeBatchStatus
<1>19. ASSUME NEW p \in Submits, SubmitError(p) \/ SubmitDies(p) PROVE OpTypeOK'
  <2>1. CoreTypeOK' /\ crashes' \in Nat /\ UNCHANGED <<queue, resTxid, header, wallet>> /\ Done(p)
    BY <1>0, <1>13, <1>19 DEF SubmitError, SubmitDies, TypeOK
  <2>2. TypeOK'
    BY <1>12, <2>1
  <2>3. CASE SubmitError(p)
    BY <1>8, <2>1, <2>2, <2>3 DEF SubmitError
  <2>4. CASE SubmitDies(p)
    BY <1>6, <1>7, <2>1, <2>2, <2>4 DEF SubmitDies, OpTypeOK
  <2> QED
    BY <1>19, <2>3, <2>4
<1>20. ASSUME TypeOK', UNCHANGED opVars PROVE OpTypeOK'
  BY <1>20 DEF OpTypeOK, opVars
<1>21. CASE OtherWorkers
  BY <1>0, <1>20, <1>21, WorkerMovesType DEF OtherWorkers
<1>22. CASE Approve /\ UNCHANGED opVars
  BY <1>0, <1>20, <1>22, TypeNext DEF Next
<1>23. CASE OpChainStep
  <2>1. ASSUME NEW s \in Sig, AgeBlockhash(s) PROVE CoreTypeOK'
    BY <1>0, <2>1 DEF AgeBlockhash, CoreTypeOK, rowVars
  <2>2. ASSUME NEW s \in Sig, AgeBlockhash(s), UNCHANGED <<queue, job, crashes>> PROVE TypeOK'
    BY <1>0, <2>1, <2>2 DEF TypeOK
  <2>3. ASSUME NEW s \in Sig, Land(s) \/ LandWithError(s) \/ ConfirmBlock(s) \/ DropBlock(s),
               UNCHANGED <<queue, job, crashes>>
        PROVE  TypeOK'
    BY <1>0, <2>3, TypeNext DEF Next, ChainStep
  <2> QED
    BY <1>20, <1>23, <2>2, <2>3 DEF OpChainStep
<1>24. CASE UNCHANGED allVars
  BY <1>9, <1>20, <1>24 DEF allVars
<1> HIDE DEF Request0
<1> QED
  BY <1>2, <1>3, <1>4, <1>5, <1>10, <1>14, <1>15, <1>16, <1>17, <1>18, <1>19, <1>21, <1>22,
     <1>23, <1>24, SubmitStepType DEF OpNext, OperatorStep, ServeSubmit

-----------------------------------------------------------------------------
(***************************************************************************)
(* What a step may do to headers, batches, rows, jobs and the chain.       *)
(***************************************************************************)

\* A header is opened once; it expires when its last unsubmitted member is
\* freed, and is completed by a request that counted none unconfirmed.
HeaderMove(b) ==
  \/ header'[b] = header[b]
  \/ header[b] = "none" /\ header'[b] = "open"
  \/ header[b] # "none" /\ header'[b] = "submitted"
  \/ /\ header[b] # "none" /\ header'[b] = "completed"
     /\ \E p \in Submits : req[p].pc = "header" /\ req[p].batch = b /\ ~req[p].open
  \/ /\ header[b] # "none" /\ header'[b] = "expired"
     /\ \A c \in Claims : batch'[c] = b =>
          /\ batch[c] = b /\ sig[c] = None /\ status[c] \notin Queued
          /\ status'[c] = status[c] /\ sig'[c] = sig[c]

\* A claim joins a batch when the batch is opened.
BatchMove(c) ==
  \/ batch'[c] \in {batch[c], None}
  \/ header[batch'[c]] = "none" /\ header'[batch'[c]] = "open" /\ batch'[c] \in Batches

\* The row keeps its signature, and its status up to the approval.
Keeps(c) == /\ sig'[c] = sig[c] /\ txSigs'[c] = txSigs[c]
            /\ status'[c] = status[c] \/ {status[c], status'[c]} \subseteq Queued

\* The five ways in which a process writes the row of its claim.
Sends(w) ==
  LET c == job[w].claim
  IN /\ job[w].pc = "persist" /\ status[c] \in Queued /\ status'[c] = "dispatching"
     /\ sig'[c] = job[w].sig /\ txSigs'[c] = txSigs[c] \cup {job[w].sig}

Clears(w) ==
  LET c == job[w].claim
  IN /\ job[w].pc = "clear" /\ status[c] = "dispatching" /\ status'[c] \in Queued
     /\ sig'[c] = None /\ txSigs'[c] = txSigs[c]

Stops(w) ==
  LET c == job[w].claim
  IN /\ job[w].pc \in {"freeze", "fail"} /\ status[c] # "confirmed" /\ status'[c] \in Stopped
     /\ sig'[c] = sig[c] /\ txSigs'[c] = txSigs[c]

Confirms(w) ==
  LET c == job[w].claim
  IN /\ job[w].pc = "finalize" /\ status[c] # "confirmed" /\ status'[c] = "confirmed"
     /\ sig'[c] = sig[c] /\ txSigs'[c] = txSigs[c] \cup {job[w].sig}

RowMove(c) ==
  \/ Keeps(c)
  \/ \E w \in Workers : job[w].claim = c /\ (Sends(w) \/ Clears(w) \/ Stops(w) \/ Confirms(w))

\* The steps of a job that is confirmed, persisted or sent.
Continues(j, k) ==
  \/ j.pc = "scan" /\ k.pc = "finalize" /\ k.sig \in j.known /\ tx[k.sig] = "confirmed"
  \/ /\ k.sig = j.sig
     /\ \/ j.pc = "sample" /\ k.pc = "status" /\ k.height = age[j.sig]
        \/ j.pc = "status" /\ k.pc = "sample"
        \/ j.pc = "status" /\ k.pc = "finalize" /\ tx[j.sig] = "confirmed"
        \/ j.pc = "status" /\ k.pc = "fail" /\ tx[j.sig] \in {"processed_err", "failed"}
        \/ /\ j.pc = "status" /\ k.pc = "scan" /\ j.height = 2
           /\ LaggingRpc \/ tx[j.sig] \in {"unsent", "inflight"}
        \/ j.pc = "scan" /\ k.pc \in {"clear", "freeze"}
        \/ /\ j.pc = "persist" /\ k.pc = "broadcast"
           /\ sig'[j.claim] = j.sig /\ txSigs'[j.claim] = txSigs[j.claim] \cup {j.sig}
        \/ j.pc = "broadcast" /\ k.pc = "sample"

JobMove(w) ==
  LET j == job[w]
      k == job'[w]
  IN \/ k = j
     \/ k.pc = "idle" /\ k.known = {}
     \/ k.pc = "load" /\ k.known = {} /\ w \notin Submits /\ j.pc \in {"idle", "clear"}
     \/ /\ k.pc = "sample" /\ k.claim \in Claims /\ sig[k.claim] # None
        /\ k.sig = sig[k.claim] /\ k.known = {k.sig} \cup txSigs[k.claim]
     \/ /\ k.pc = "persist" /\ k.known = {} /\ w \in Submits
        /\ k.sig \in Sig /\ k.claim = ClaimOf(k.sig)
     \/ /\ j.pc \in {"load", "float", "sign"} /\ w \notin Submits
        /\ k.pc \in {"float", "review", "manual", "sign", "persist"}
        /\ j.pc = "load" => k.pc = LoadTarget(w, j.claim)
     \/ k.claim = j.claim /\ k.known = j.known /\ Continues(j, k)

\* What getSignatureStatuses and the sampled height tell.
LEMMA AnswersTell ==
  ASSUME NEW s \in Sig, tx[s] \in TxState, NEW answer \in StatusAnswers(s), NEW h \in 0 .. 2
  PROVE  /\ Classify(answer, h) = "confirmed" => tx[s] = "confirmed"
         /\ Classify(answer, h) = "failed" => tx[s] \in {"processed_err", "failed"}
         /\ Classify(answer, h) = "expired"
              => h = 2 /\ (LaggingRpc \/ tx[s] \in {"unsent", "inflight"})
<1>2. \/ LaggingRpc /\ answer = "not_found"
      \/ answer = (CASE tx[s] \in {"unsent", "inflight"}        -> "not_found"
                     [] tx[s] = "processed"                     -> "processed"
                     [] tx[s] \in {"processed_err", "failed"}   -> "err"
                     [] tx[s] = "confirmed"                     -> "confirmed")
  BY DEF StatusAnswers
<1>3. Classify(answer, h) = "confirmed" => answer = "confirmed"
  BY DEF Classify, IsConfirmed
<1>4. Classify(answer, h) = "failed" => answer = "err"
  BY DEF Classify, IsConfirmed
<1>5. Classify(answer, h) = "expired" => answer = "not_found" /\ h > 1
  BY DEF Classify, IsConfirmed, PastLastValid
<1> QED
  BY <1>2, <1>3, <1>4, <1>5 DEF TxState

\* A step of Worker moves no other worker's job, and its own as JobMove says.
LEMMA WorkerJobMoves ==
  ASSUME TypeOK, NEW x \in Workers, WorkerStep(x) \/ Crash(x)
  PROVE  /\ \A v \in Workers : v # x => job'[v] = job[v] /\ queue'[v] = queue[v]
         /\ x \notin Submits \/ SubmitStep(x) => JobMove(x)
<1> USE DEF TypeOK
<1>0. job[x] \in Job /\ queue[x] \subseteq Claims /\ x \in DOMAIN job
  OBVIOUS
<1>1. \A v \in Workers : v # x => job'[v] = job[v] /\ queue'[v] = queue[v]
  BY DEF WorkerStep, Crash, RunOnce, ProcessClaim, SampleHeight, ReadStatus, ScanOutflow,
       ClearAndRedispatch, FreezeClaim, FailClaim, FinalizeClaim, LoadFresh, CheckFloat,
       ReviewClaim, ManualVault, SignTransaction, PersistSigned, Broadcast, Done, Goto
<1>2. NoJob.pc = "idle" /\ NoJob.known = {}
  BY DEF NoJob
<1>3. ASSUME Done(x) PROVE JobMove(x)
  BY <1>2, <1>3 DEF Done, JobMove
<1>4. ASSUME NEW l, Goto(x, l)
      PROVE  /\ job'[x].pc = l /\ job'[x].sig = job[x].sig
             /\ job'[x].claim = job[x].claim /\ job'[x].known = job[x].known
  BY <1>0, <1>4 DEF Goto, Job
<1>5. ASSUME RunOnce(x) PROVE JobMove(x)
  BY <1>5 DEF RunOnce, JobMove
<1>6. ASSUME x \notin Submits, NEW c \in Claims, ProcessClaim(x, c) PROVE JobMove(x)
  <2> DEFINE r == [NoJob EXCEPT !.pc = "sample", !.claim = c, !.sig = sig[c],
                        !.known = {sig[c]} \cup txSigs[c], !.resign = resign[c]]
             f == [NoJob EXCEPT !.pc = "load", !.claim = c]
  <2>1. /\ r.pc = "sample" /\ r.claim = c /\ r.sig = sig[c] /\ r.known = {sig[c]} \cup txSigs[c]
        /\ f.pc = "load" /\ f.known = {}
    BY DEF NoJob
  <2>2. \/ job'[x] = r /\ sig[c] # None
        \/ job'[x] = f
        \/ job'[x] = NoJob
    BY <1>0, <1>6 DEF ProcessClaim
  <2>3. job[x].pc = "idle"
    BY <1>6 DEF ProcessClaim
  <2> HIDE DEF r, f
  <2> QED
    BY <1>2, <1>6, <2>1, <2>2, <2>3 DEF JobMove
<1>7. ASSUME SampleHeight(x) PROVE JobMove(x)
  <2> DEFINE k == [job[x] EXCEPT !.pc = "status", !.height = age[job[x].sig]]
  <2>1. /\ k.pc = "status" /\ k.claim = job[x].claim /\ k.known = job[x].known
        /\ k.sig = job[x].sig /\ k.height = age[job[x].sig]
    BY <1>0 DEF Job
  <2>2. job'[x] = k /\ job[x].pc = "sample"
    BY <1>0, <1>7 DEF SampleHeight
  <2> HIDE DEF k
  <2> QED
    BY <2>1, <2>2 DEF JobMove, Continues
<1>8. ASSUME ReadStatus(x) PROVE JobMove(x)
  <2>1. /\ job[x].sig \in Sig /\ tx[job[x].sig] \in TxState /\ job[x].pc = "status"
        /\ job[x].height \in 0 .. 2
    BY <1>0, <1>8 DEF ReadStatus, WithSig, CoreTypeOK, Job
  <2>2. PICK answer \in StatusAnswers(job[x].sig) :
          LET state == Classify(answer, job[x].height)
          IN \/ state = "confirmed" /\ Goto(x, "finalize")
             \/ state = "failed"    /\ Goto(x, "fail")
             \/ state = "expired"   /\ Goto(x, "scan")
             \/ Done(x)
             \/ Goto(x, "sample")
    BY <1>8 DEF ReadStatus
  <2>3. /\ Classify(answer, job[x].height) = "confirmed" => tx[job[x].sig] = "confirmed"
        /\ Classify(answer, job[x].height) = "failed"
             => tx[job[x].sig] \in {"processed_err", "failed"}
        /\ Classify(answer, job[x].height) = "expired"
             => /\ job[x].height = 2
                /\ LaggingRpc \/ tx[job[x].sig] \in {"unsent", "inflight"}
    BY <2>1, AnswersTell
  <2> QED
    BY <1>3, <1>4, <2>1, <2>2, <2>3 DEF JobMove, Continues
<1>9. ASSUME ScanOutflow(x) PROVE JobMove(x)
  <2>1. job[x].pc = "scan"
    BY <1>9 DEF ScanOutflow
  <2>2. ASSUME NEW s \in Outflows(x),
               job' = [job EXCEPT ![x] = [@ EXCEPT !.pc = "finalize", !.sig = s]]
        PROVE  JobMove(x)
    <3>1. /\ job'[x].pc = "finalize" /\ job'[x].sig = s /\ tx[s] = "confirmed" /\ s \in job[x].known
          /\ job'[x].claim = job[x].claim /\ job'[x].known = job[x].known
      BY <1>0, <2>2 DEF Outflows, Job
    <3> QED
      BY <2>1, <3>1 DEF JobMove, Continues
  <2>3. ASSUME NEW l \in {"clear", "freeze"}, Goto(x, l) PROVE JobMove(x)
    BY <1>4, <2>1, <2>3 DEF JobMove, Continues
  <2> QED
    BY <1>9, <2>2, <2>3 DEF ScanOutflow
<1>10. ASSUME x \notin Submits, ClearAndRedispatch(x) PROVE JobMove(x)
  <2> DEFINE f == [NoJob EXCEPT !.pc = "load", !.claim = job[x].claim]
  <2>1. f.pc = "load" /\ f.known = {}
    BY DEF NoJob
  <2>2. job'[x] = f /\ job[x].pc = "clear"
    BY <1>0, <1>10 DEF ClearAndRedispatch
  <2> HIDE DEF f
  <2> QED
    BY <1>10, <2>1, <2>2 DEF JobMove
<1>11. ASSUME \/ FreezeClaim(x) \/ FailClaim(x) \/ FinalizeClaim(x)
              \/ ReviewClaim(x) \/ ManualVault(x) \/ Crash(x)
       PROVE  JobMove(x)
  BY <1>3, <1>11 DEF FreezeClaim, FailClaim, FinalizeClaim, ReviewClaim, ManualVault, Crash
<1>12. ASSUME x \notin Submits, LoadFresh(x) PROVE JobMove(x)
  <2> DEFINE t == LoadTarget(x, job[x].claim)
             k == [job[x] EXCEPT !.pc = t, !.approved = approved[job[x].claim]]
  <2>1. t \in {"idle", "float", "review", "sign"} /\ k.pc = t
    BY <1>0 DEF LoadTarget, Job
  <2>2. (t = "idle" /\ Done(x)) \/ (t # "idle" /\ job'[x] = k)
    BY <1>0, <1>12 DEF LoadFresh
  <2>3. job[x].pc = "load"
    BY <1>12 DEF LoadFresh
  <2> HIDE DEF k
  <2> QED
    BY <1>3, <1>12, <2>1, <2>2, <2>3 DEF JobMove
<1>13. ASSUME x \notin Submits, CheckFloat(x) PROVE JobMove(x)
  BY <1>3, <1>4, <1>13 DEF CheckFloat, JobMove
<1>14. ASSUME x \notin Submits, SignTransaction(x) PROVE JobMove(x)
  <2>1. job'[x].pc = "persist" /\ job[x].pc = "sign"
    BY <1>0, <1>14 DEF SignTransaction, Job
  <2> QED
    BY <1>14, <2>1 DEF JobMove
<1>15. ASSUME PersistSigned(x) PROVE JobMove(x)
  <2>1. ASSUME PersistDispatching(job[x].claim, job[x].sig), Goto(x, "broadcast") PROVE JobMove(x)
    <3>1. job[x].claim \in Claims /\ job[x].pc = "persist"
      BY <1>15 DEF PersistSigned
    <3>2. sig'[job[x].claim] = job[x].sig
          /\ txSigs'[job[x].claim] = txSigs[job[x].claim] \cup {job[x].sig}
      BY <2>1, <3>1 DEF PersistDispatching, CoreTypeOK
    <3> QED
      BY <1>4, <2>1, <3>1, <3>2 DEF JobMove, Continues
  <2> QED
    BY <1>3, <1>15, <2>1 DEF PersistSigned
<1>16. ASSUME Broadcast(x) PROVE JobMove(x)
  <2> DEFINE k == [job[x] EXCEPT !.pc = "sample", !.inline = TRUE]
  <2>1. k.pc = "sample" /\ k.claim = job[x].claim /\ k.known = job[x].known /\ k.sig = job[x].sig
    BY <1>0 DEF Job
  <2>2. job'[x] = k /\ job[x].pc = "broadcast"
    BY <1>0, <1>16 DEF Broadcast
  <2> HIDE DEF k
  <2> QED
    BY <2>1, <2>2 DEF JobMove, Continues
<1>17. ASSUME x \notin Submits PROVE JobMove(x)
  BY <1>0, <1>17, <1>5, <1>6, <1>7, <1>8, <1>9, <1>10, <1>11, <1>12, <1>13, <1>14, <1>15, <1>16
     DEF WorkerStep
<1>18. ASSUME SubmitStep(x) PROVE JobMove(x)
  BY <1>18, <1>7, <1>8, <1>9, <1>11, <1>15, <1>16 DEF SubmitStep
<1> QED
  BY <1>1, <1>17, <1>18

\* The same for every step of the system.
LEMMA JobsMove ==
  ASSUME OpTypeOK, ReqInv, [OpNext]_allVars, NEW v \in Workers
  PROVE  JobMove(v)
<1>0. TypeOK /\ job[v] \in Job /\ \A p \in Submits : p \in Workers
  BY OperatorAssumption DEF OpTypeOK, TypeOK
<1>1. ASSUME UNCHANGED job PROVE JobMove(v)
  BY <1>1 DEF JobMove
<1>2. ASSUME NEW x \in Workers, NEW j, job' = [job EXCEPT ![x] = j], v # x PROVE JobMove(v)
  BY <1>0, <1>2 DEF JobMove, TypeOK
<1>3. ASSUME NEW x \in Workers, Done(x) PROVE JobMove(v)
  <2>1. CASE v = x
    BY <1>0, <1>3, <2>1 DEF JobMove, Done, NoJob, TypeOK
  <2> QED
    BY <1>2, <1>3, <2>1 DEF Done
<1>4. ASSUME NEW p \in Submits, SubmitStep(p) PROVE JobMove(v)
  <2>1. WorkerStep(p)
    BY <1>4 DEF SubmitStep, WorkerStep
  <2>2. CASE v = p
    BY <1>0, <1>4, <2>1, <2>2, WorkerJobMoves
  <2>3. CASE v # p
    <3>1. job'[v] = job[v]
      BY <1>0, <2>1, <2>3, WorkerJobMoves
    <3> QED
      BY <3>1 DEF JobMove
  <2> QED
    BY <2>2, <2>3
<1>5. CASE OtherWorkers
  <2>1. PICK w \in Workers \ Submits : WorkerStep(w) \/ Crash(w)
    BY <1>5 DEF OtherWorkers
  <2>2. CASE v = w
    BY <1>0, <2>1, <2>2, WorkerJobMoves
  <2>3. CASE v # w
    <3>1. job'[v] = job[v]
      BY <1>0, <2>1, <2>3, WorkerJobMoves
    <3> QED
      BY <3>1 DEF JobMove
  <2> QED
    BY <2>2, <2>3
<1>6. ASSUME NEW p \in Submits, SubmitLoad(p) PROVE JobMove(v)
  <2> DEFINE k == [NoJob EXCEPT !.pc = "persist", !.claim = req[p].claim, !.sig = req[p].sig]
  <2>1. k.pc = "persist" /\ k.known = {} /\ k.sig = req[p].sig /\ k.claim = req[p].claim
    BY DEF NoJob
  <2>2. req[p].sig \in Sig /\ req[p].claim = ClaimOf(req[p].sig)
    BY <1>6 DEF SubmitLoad, ReqInv
  <2>3. UNCHANGED job \/ job' = [job EXCEPT ![p] = k]
    BY <1>6 DEF SubmitLoad
  <2> HIDE DEF k
  <2>4. CASE v = p /\ job' = [job EXCEPT ![p] = k]
    <3>1. job'[v] = k /\ v \in Submits
      BY <1>0, <2>4 DEF TypeOK
    <3> QED
      BY <2>1, <2>2, <3>1 DEF JobMove
  <2> QED
    BY <1>0, <1>1, <1>2, <2>3, <2>4
<1>7. ASSUME NEW p \in Submits, RecoverReservedAntClaim(p) PROVE JobMove(v)
  <2>1. PICK c \in Claims : c = req[p].claim
    BY <1>7 DEF RecoverReservedAntClaim, ReqInv
  <2> DEFINE k == [NoJob EXCEPT !.pc = "sample", !.claim = c, !.sig = sig[c],
                                !.known = {sig[c]} \cup txSigs[c], !.resign = resign[c]]
  <2>2. k.pc = "sample" /\ k.claim = c /\ k.sig = sig[c] /\ k.known = {sig[c]} \cup txSigs[c]
    BY DEF NoJob
  <2>3. UNCHANGED job \/ (sig[c] # None /\ job' = [job EXCEPT ![p] = k])
    BY <1>7, <2>1 DEF RecoverReservedAntClaim
  <2> HIDE DEF k
  <2>4. CASE v = p /\ sig[c] # None /\ job' = [job EXCEPT ![p] = k]
    <3>1. job'[v] = k
      BY <1>0, <2>4 DEF TypeOK
    <3> QED
      BY <2>2, <2>4, <3>1 DEF JobMove
  <2> QED
    BY <1>0, <1>1, <1>2, <2>3, <2>4
<1>8. ASSUME NEW p \in Submits,
             ReleaseReservationForRebuild(p) \/ SubmitError(p) \/ SubmitDies(p)
      PROVE  JobMove(v)
  BY <1>0, <1>3, <1>8 DEF ReleaseReservationForRebuild, SubmitError, SubmitDies
<1>9. ASSUME NEW p \in Submits, CountRemaining(p) \/ FinalizeBatchStatus(p) PROVE JobMove(v)
  BY <1>1, <1>9 DEF CountRemaining, FinalizeBatchStatus, vars
<1>10. CASE OperatorStep
  BY <1>1, <1>10 DEF OperatorStep, ReserveAntBatch, BuildReservedBatch, ReleaseAntBatch,
       ExpireStaleReservations, SubmitAntBatch, vars
<1>11. CASE (Approve /\ UNCHANGED opVars) \/ OpChainStep \/ UNCHANGED allVars
  BY <1>1, <1>11 DEF Approve, OpChainStep, allVars, vars
<1> QED
  BY <1>4, <1>5, <1>6, <1>7, <1>8, <1>9, <1>10, <1>11 DEF OpNext, ServeSubmit

\* A worker that neither parks a claim nor starts to writes one row at most.
LEMMA WorkerRowsMove ==
  ASSUME TypeOK, NEW x \in Workers, WorkerStep(x) \/ Crash(x),
         job[x].pc \notin {"review", "manual"}
  PROVE  /\ \A c \in Claims : RowMove(c)
         /\ UNCHANGED batch
<1> USE DEF TypeOK
<1>0. CoreTypeOK /\ (job[x].pc # "idle" => job[x].claim \in Claims)
  OBVIOUS
<1>1. ASSUME UNCHANGED rowVars PROVE (\A c \in Claims : RowMove(c)) /\ UNCHANGED batch
  BY <1>1 DEF RowMove, Keeps, rowVars
<1>2. ASSUME NEW c \in Claims, c = job[x].claim, Sends(x) \/ Clears(x) \/ Stops(x) \/ Confirms(x),
             \A d \in Claims : d # c => Keeps(d), UNCHANGED batch
      PROVE  (\A d \in Claims : RowMove(d)) /\ UNCHANGED batch
  BY <1>2 DEF RowMove
<1>3. ASSUME PersistSigned(x) PROVE (\A c \in Claims : RowMove(c)) /\ UNCHANGED batch
  <2>1. CASE PersistDispatching(job[x].claim, job[x].sig)
    <3>1. PICK c \in Claims : c = job[x].claim
      BY <1>0, <1>3 DEF PersistSigned
    <3>2. Sends(x)
      BY <1>0, <1>3, <2>1, <3>1 DEF PersistSigned, PersistDispatching, CanDispatch, CoreTypeOK,
           Sends, Queued
    <3>3. (\A d \in Claims : d # c => Keeps(d)) /\ UNCHANGED batch
      BY <1>0, <2>1, <3>1 DEF PersistDispatching, CoreTypeOK, Keeps
    <3> QED
      BY <1>2, <3>1, <3>2, <3>3
  <2> QED
    BY <1>1, <1>3, <2>1 DEF PersistSigned
<1>4. ASSUME ClearAndRedispatch(x) PROVE (\A c \in Claims : RowMove(c)) /\ UNCHANGED batch
  <2>1. PICK c \in Claims : c = job[x].claim
    BY <1>0, <1>4 DEF ClearAndRedispatch
  <2>2. CASE ~UNCHANGED rowVars
    <3>1. Clears(x)
      BY <1>0, <1>4, <2>1, <2>2 DEF ClearAndRedispatch, ClearDeadSignature, CoreTypeOK, Clears, Queued
    <3>2. (\A d \in Claims : d # c => Keeps(d)) /\ UNCHANGED batch
      BY <1>0, <1>4, <2>1, <2>2 DEF ClearAndRedispatch, ClearDeadSignature, CoreTypeOK, Keeps
    <3> QED
      BY <1>2, <2>1, <3>1, <3>2
  <2> QED
    BY <1>1, <2>2
<1>5. ASSUME FreezeClaim(x) \/ FailClaim(x)
      PROVE  (\A c \in Claims : RowMove(c)) /\ UNCHANGED batch
  <2>1. PICK c \in Claims : c = job[x].claim
    BY <1>0, <1>5 DEF FreezeClaim, FailClaim
  <2>2. CASE ~UNCHANGED rowVars
    <3>1. Stops(x)
      BY <1>0, <1>5, <2>1, <2>2 DEF FreezeClaim, FailClaim, MarkNeedsOperator, MarkFailed,
           CoreTypeOK, Stops, Stopped
    <3>2. (\A d \in Claims : d # c => Keeps(d)) /\ UNCHANGED batch
      BY <1>0, <1>5, <2>1, <2>2 DEF FreezeClaim, FailClaim, MarkNeedsOperator, MarkFailed,
           CoreTypeOK, Keeps
    <3> QED
      BY <1>2, <2>1, <3>1, <3>2
  <2> QED
    BY <1>1, <2>2
<1>6. ASSUME FinalizeClaim(x) PROVE (\A c \in Claims : RowMove(c)) /\ UNCHANGED batch
  <2>1. PICK c \in Claims : c = job[x].claim
    BY <1>0, <1>6 DEF FinalizeClaim
  <2>2. CASE ~UNCHANGED rowVars
    <3>1. Confirms(x)
      BY <1>0, <1>6, <2>1, <2>2 DEF FinalizeClaim, FinalizeConfirmed, CoreTypeOK, Confirms
    <3>2. (\A d \in Claims : d # c => Keeps(d)) /\ UNCHANGED batch
      BY <1>0, <1>6, <2>1, <2>2 DEF FinalizeClaim, FinalizeConfirmed, CoreTypeOK, Keeps
    <3> QED
      BY <1>2, <2>1, <3>1, <3>2
  <2> QED
    BY <1>1, <2>2
<1>7. ASSUME \/ RunOnce(x) \/ \E c \in queue[x] : ProcessClaim(x, c)
             \/ SampleHeight(x) \/ ReadStatus(x) \/ ScanOutflow(x) \/ LoadFresh(x)
             \/ CheckFloat(x) \/ SignTransaction(x) \/ Broadcast(x) \/ Crash(x)
      PROVE  (\A c \in Claims : RowMove(c)) /\ UNCHANGED batch
  BY <1>1, <1>7 DEF RunOnce, ProcessClaim, SampleHeight, ReadStatus, ScanOutflow, LoadFresh,
       CheckFloat, SignTransaction, Broadcast, Crash
<1> QED
  BY <1>3, <1>4, <1>5, <1>6, <1>7 DEF WorkerStep, ReviewClaim, ManualVault


\* The same for every step, where nobody parks claims.
LEMMA RowsMove ==
  ASSUME OpTypeOK, \A w \in Workers : job[w].pc \notin {"review", "manual"},
         [OpNext]_allVars, NEW c \in Claims
  PROVE  RowMove(c)
<1>0. TypeOK /\ CoreTypeOK /\ \A p \in Submits : p \in Workers
  BY OperatorAssumption DEF OpTypeOK, TypeOK
<1>1. ASSUME UNCHANGED <<status, sig, txSigs>> PROVE RowMove(c)
  BY <1>1 DEF RowMove, Keeps
<1>2. ASSUME NEW p \in Submits, SubmitStep(p) PROVE RowMove(c)
  <2>1. WorkerStep(p)
    BY <1>2 DEF SubmitStep, WorkerStep
  <2> QED
    BY <1>0, <2>1, WorkerRowsMove
<1>3. CASE OtherWorkers
  BY <1>0, <1>3, WorkerRowsMove DEF OtherWorkers
<1>4. ASSUME NEW p \in Submits, ReleaseReservationForRebuild(p) PROVE RowMove(c)
  <2>1. PICK d \in Claims : d = job[p].claim
    BY <1>0, <1>4, OperatorAssumption DEF ReleaseReservationForRebuild, TypeOK
  <2>2. CASE ~UNCHANGED <<rowVars, resTxid>>
    <3>1. Clears(p)
      BY <1>0, <1>4, <2>1, <2>2 DEF ReleaseReservationForRebuild, CoreTypeOK, Clears, Queued
    <3>2. d # c => Keeps(c)
      BY <1>0, <1>4, <2>1, <2>2 DEF ReleaseReservationForRebuild, CoreTypeOK, Keeps
    <3> QED
      BY <1>0, <2>1, <3>1, <3>2 DEF RowMove
  <2> QED
    BY <1>1, <2>2 DEF rowVars
<1>5. ASSUME NEW p \in Submits,
             \/ SubmitLoad(p) \/ RecoverReservedAntClaim(p) \/ CountRemaining(p)
             \/ FinalizeBatchStatus(p) \/ SubmitError(p) \/ SubmitDies(p)
      PROVE  RowMove(c)
  BY <1>1, <1>5 DEF SubmitLoad, RecoverReservedAntClaim, CountRemaining, FinalizeBatchStatus,
       SubmitError, SubmitDies, vars, rowVars
<1>6. ASSUME NEW b \in Batches, ReleaseAntBatch(b) PROVE RowMove(c)
  <2>1. /\ sig'[c] = sig[c] /\ txSigs'[c] = txSigs[c]
        /\ status'[c] = status[c] \/ (Unsubmitted(c) /\ status'[c] \in Queued)
    BY <1>6 DEF ReleaseAntBatch, Queued
  <2> QED
    BY <2>1 DEF RowMove, Keeps, Unsubmitted, Queued
<1>7. ASSUME NEW b \in Batches,
             \/ ReserveAntBatch(b) \/ BuildReservedBatch(b) \/ ExpireStaleReservations(b)
             \/ \E p \in Submits, s \in Sig : SubmitAntBatch(p, b, s)
      PROVE  RowMove(c)
  BY <1>1, <1>7 DEF ReserveAntBatch, BuildReservedBatch, ExpireStaleReservations,
       SubmitAntBatch, vars, rowVars
<1>8. CASE (Approve /\ UNCHANGED opVars) \/ OpChainStep \/ UNCHANGED allVars
  BY <1>1, <1>8 DEF Approve, ApproveClaim, OpChainStep, Land, LandWithError, ConfirmBlock,
       DropBlock, AgeBlockhash, allVars, vars, rowVars
<1> QED
  BY <1>2, <1>3, <1>4, <1>5, <1>6, <1>7, <1>8 DEF OpNext, OperatorStep, ServeSubmit

LEMMA BatchesMove ==
  ASSUME OpTypeOK, [OpNext]_allVars, NEW c \in Claims
  PROVE  BatchMove(c)
<1>0. TypeOK /\ CoreTypeOK /\ \A p \in Submits : p \in Workers
  BY OperatorAssumption DEF OpTypeOK, TypeOK
<1>1. ASSUME UNCHANGED batch PROVE BatchMove(c)
  BY <1>1 DEF BatchMove
<1>2. ASSUME NEW S, Free(S) PROVE BatchMove(c)
  BY <1>2 DEF Free, BatchMove
<1>3. ASSUME NEW x \in Workers, WorkerStep(x) \/ Crash(x) PROVE UNCHANGED batch
  BY <1>3 DEF WorkerStep, Crash, RunOnce, ProcessClaim, SampleHeight, ReadStatus,
       ScanOutflow, ClearAndRedispatch, ClearDeadSignature, FreezeClaim, MarkNeedsOperator,
       FailClaim, MarkFailed, FinalizeClaim, FinalizeConfirmed, LoadFresh, CheckFloat,
       ReviewClaim, RouteToReview, ManualVault, RouteToManualVaultDelivery, ParkAs,
       SignTransaction, PersistSigned, PersistDispatching, Broadcast, rowVars
<1>4. ASSUME NEW p \in Submits, SubmitStep(p) PROVE BatchMove(c)
  <2>1. WorkerStep(p)
    BY <1>4 DEF SubmitStep, WorkerStep
  <2> QED
    BY <1>0, <1>1, <1>3, <2>1
<1>5. CASE OtherWorkers
  BY <1>1, <1>3, <1>5 DEF OtherWorkers
<1>6. ASSUME NEW p \in Submits, ReleaseReservationForRebuild(p) PROVE BatchMove(c)
  BY <1>1, <1>2, <1>6 DEF ReleaseReservationForRebuild, rowVars
<1>7. ASSUME NEW p \in Submits,
             \/ SubmitLoad(p) \/ RecoverReservedAntClaim(p) \/ CountRemaining(p)
             \/ FinalizeBatchStatus(p) \/ SubmitError(p) \/ SubmitDies(p)
      PROVE  BatchMove(c)
  BY <1>1, <1>7 DEF SubmitLoad, RecoverReservedAntClaim, CountRemaining, FinalizeBatchStatus,
       SubmitError, SubmitDies, vars, rowVars
<1>8. ASSUME NEW b \in Batches, ReserveAntBatch(b) PROVE BatchMove(c)
  BY <1>8 DEF ReserveAntBatch, BatchMove, OpTypeOK
<1>9. ASSUME NEW b \in Batches,
             \/ ReleaseAntBatch(b) \/ BuildReservedBatch(b) \/ ExpireStaleReservations(b)
             \/ \E p \in Submits, s \in Sig : SubmitAntBatch(p, b, s)
      PROVE  BatchMove(c)
  BY <1>1, <1>2, <1>9 DEF ReleaseAntBatch, BuildReservedBatch, ExpireStaleReservations,
       SubmitAntBatch, vars, rowVars
<1>10. CASE (Approve /\ UNCHANGED opVars) \/ OpChainStep \/ UNCHANGED allVars
  BY <1>1, <1>10 DEF Approve, ApproveClaim, OpChainStep, Land, LandWithError, ConfirmBlock,
       DropBlock, AgeBlockhash, allVars, vars, rowVars
<1> QED
  BY <1>4, <1>5, <1>6, <1>7, <1>8, <1>9, <1>10 DEF OpNext, OperatorStep, ServeSubmit

LEMMA HeadersMove ==
  ASSUME OpTypeOK, ReqInv, [OpNext]_allVars, NEW d \in Batches
  PROVE  HeaderMove(d)
<1>1. ASSUME UNCHANGED header PROVE HeaderMove(d)
  BY <1>1 DEF HeaderMove
<1>2. ASSUME NEW b \in Batches, ReserveAntBatch(b) PROVE HeaderMove(d)
  BY <1>2 DEF ReserveAntBatch, HeaderMove, OpTypeOK
<1>3. ASSUME NEW b \in Batches, ReleaseAntBatch(b) PROVE HeaderMove(d)
  <2> DEFINE S == {c \in Members(b) : Unsubmitted(c)}
  <2>1. /\ header[b] # "none" /\ Free(S) /\ UNCHANGED sig
        /\ \A c \in Claims : c \notin S => status'[c] = status[c]
        /\ header' = IF header[b] \in {"open", "submitted"}
                          /\ \A c \in Members(b) \ S : sig[c] = None
                     THEN [header EXCEPT ![b] = "expired"] ELSE header
    BY <1>3 DEF ReleaseAntBatch, CancelHeader
  <2>2. CASE d = b /\ header'[b] # header[b]
    <3>1. header'[b] = "expired" /\ \A c \in Members(b) \ S : sig[c] = None
      BY <2>1, <2>2 DEF OpTypeOK
    <3>2. ASSUME NEW c \in Claims, batch'[c] = b
          PROVE  /\ batch[c] = b /\ sig[c] = None /\ status[c] \notin Queued
                 /\ status' [c] = status[c] /\ sig'[c] = sig[c]
      <4>1. c \notin S /\ batch[c] = b
        BY <2>1, <3>2, CoreAssumption DEF Free
      <4> QED
        BY <2>1, <3>1, <4>1 DEF Members, Unsubmitted, Queued
    <3> QED
      BY <2>1, <2>2, <3>1, <3>2 DEF HeaderMove
  <2> QED
    BY <2>1, <2>2 DEF HeaderMove, OpTypeOK
<1>4. ASSUME NEW k \in Batches, ExpireStaleReservations(k) PROVE HeaderMove(d)
  <2> DEFINE S == {c \in Claims : batch[c] \in 1 .. k /\ Unsubmitted(c)}
  <2>1. /\ Free(S) /\ UNCHANGED <<sig, status>>
        /\ header' = [b \in Batches |-> IF b <= k /\ header[b] = "open" /\ Members(b) \subseteq S
                                        THEN "expired" ELSE header[b]]
    BY <1>4 DEF ExpireStaleReservations
  <2>2. CASE d <= k /\ header[d] = "open" /\ Members(d) \subseteq S
    <3>1. header'[d] = "expired"
      BY <2>1, <2>2
    <3>2. ASSUME NEW c \in Claims PROVE batch'[c] # d
      BY <2>1, <2>2, CoreAssumption DEF Free, Members
    <3> QED
      BY <2>2, <3>1, <3>2 DEF HeaderMove
  <2> QED
    BY <2>1, <2>2 DEF HeaderMove
<1>5. ASSUME NEW p \in Submits, FinalizeBatchStatus(p) PROVE HeaderMove(d)
  <2>1. req[p].pc = "header" /\ req[p].batch \in Batches /\ header[req[p].batch] # "none"
    BY <1>5 DEF FinalizeBatchStatus, ReqInv
  <2> QED
    BY <1>5, <2>1 DEF FinalizeBatchStatus, HeaderMove, OpTypeOK
<1>6. ASSUME NEW p \in Submits,
             \/ SubmitLoad(p) \/ RecoverReservedAntClaim(p) \/ ReleaseReservationForRebuild(p)
             \/ SubmitStep(p) \/ CountRemaining(p) \/ SubmitError(p) \/ SubmitDies(p)
      PROVE  HeaderMove(d)
  BY <1>1, <1>6 DEF SubmitLoad, RecoverReservedAntClaim, ReleaseReservationForRebuild,
       SubmitStep, CountRemaining, SubmitError, SubmitDies, opVars
<1>7. ASSUME NEW b \in Batches,
             BuildReservedBatch(b) \/ \E p \in Submits, s \in Sig : SubmitAntBatch(p, b, s)
      PROVE  HeaderMove(d)
  BY <1>1, <1>7 DEF BuildReservedBatch, SubmitAntBatch
<1>8. CASE OtherWorkers \/ (Approve /\ UNCHANGED opVars) \/ OpChainStep \/ UNCHANGED allVars
  BY <1>1, <1>8 DEF OtherWorkers, OpChainStep, allVars, opVars
<1> QED
  BY <1>2, <1>3, <1>4, <1>5, <1>6, <1>7, <1>8 DEF OpNext, OperatorStep, ServeSubmit


\* A request is new, over, or goes on with its batch and signature; it counts
\* what is unconfirmed while nothing moves.
ReqMove(p) ==
  LET r == req[p]
      q == req'[p]
  IN \/ q = r
     \/ q.pc = "idle"
     \/ /\ q.pc \in {"load", "count"}
        /\ q.batch \in Batches /\ header[q.batch] # "none"
        /\ q.sig \in Sig /\ q.claim \in Claims /\ q.claim = ClaimOf(q.sig)
     \/ /\ r.pc # "idle" /\ q.batch = r.batch /\ q.sig = r.sig /\ q.claim = r.claim
        /\ \/ q.pc \in {"reload", "run", "count"}
           \/ q.pc = "header" /\ q.open = Remaining(r.batch) /\ UNCHANGED rowVars

LEMMA RequestsMove ==
  ASSUME OpTypeOK, [OpNext]_allVars, NEW q \in Submits
  PROVE  ReqMove(q)
<1>1. ASSUME UNCHANGED req PROVE ReqMove(q)
  BY <1>1 DEF ReqMove
<1>2. ASSUME NEW p \in Submits, NEW r, req' = [req EXCEPT ![p] = r], p # q PROVE ReqMove(q)
  BY <1>2 DEF ReqMove, OpTypeOK
<1>3. ASSUME NEW p \in Submits, req' = [req EXCEPT ![p] = NoReq] PROVE ReqMove(q)
  BY <1>3 DEF ReqMove, OpTypeOK, NoReq
<1>4. ASSUME NEW p \in Submits, NEW l \in {"reload", "run", "count"}, Request(p, l),
             req[p].pc # "idle"
      PROVE  ReqMove(q)
  <2> DEFINE r == [req[p] EXCEPT !.pc = l]
  <2>1. r.pc = l /\ r.batch = req[p].batch /\ r.sig = req[p].sig /\ r.claim = req[p].claim
    BY DEF OpTypeOK
  <2>2. req' = [req EXCEPT ![p] = r]
    BY <1>4 DEF Request
  <2>3. req'[p] = r
    BY <2>2 DEF OpTypeOK
  <2> HIDE DEF r
  <2> QED
    BY <1>2, <1>4, <2>1, <2>2, <2>3 DEF ReqMove
<1>5. ASSUME NEW p \in Submits, CountRemaining(p) PROVE ReqMove(q)
  <2> DEFINE r == [req[p] EXCEPT !.pc = "header", !.open = Remaining(req[p].batch)]
  <2>1. /\ r.pc = "header" /\ r.batch = req[p].batch /\ r.sig = req[p].sig
        /\ r.claim = req[p].claim /\ r.open = Remaining(req[p].batch)
    BY DEF OpTypeOK
  <2>2. req' = [req EXCEPT ![p] = r] /\ req[p].pc # "idle" /\ UNCHANGED rowVars
    BY <1>5 DEF CountRemaining, vars
  <2>3. req'[p] = r
    BY <2>2 DEF OpTypeOK
  <2> HIDE DEF r
  <2> QED
    BY <1>2, <2>1, <2>2, <2>3 DEF ReqMove
<1>6. ASSUME NEW p \in Submits, NEW b \in Batches, NEW s \in Sig, SubmitAntBatch(p, b, s)
      PROVE  ReqMove(q)
  <2> DEFINE r == [NoReq EXCEPT !.batch = b, !.claim = ClaimOf(s), !.sig = s,
                       !.pc = IF Matches(ClaimOf(s), s, b) THEN "load" ELSE "count"]
  <2>1. r.batch = b /\ r.claim = ClaimOf(s) /\ r.sig = s /\ r.pc \in {"load", "count"}
    BY DEF NoReq
  <2>2. ClaimOf(s) \in Claims /\ header[b] # "none"
    BY <1>6 DEF SubmitAntBatch, ClaimOf, Sig
  <2>3. req' = [req EXCEPT ![p] = r]
    BY <1>6 DEF SubmitAntBatch
  <2>4. req'[p] = r
    BY <2>3 DEF OpTypeOK
  <2> HIDE DEF r
  <2> QED
    BY <1>2, <2>1, <2>2, <2>3, <2>4 DEF ReqMove
<1>7. ASSUME NEW p \in Submits, SubmitLoad(p) \/ RecoverReservedAntClaim(p) \/ SubmitError(p)
      PROVE  ReqMove(q)
  <2>1. req[p].pc # "idle" /\ \E l \in {"reload", "run", "count"} : Request(p, l)
    BY <1>7 DEF SubmitLoad, RecoverReservedAntClaim, SubmitError
  <2> QED
    BY <1>4, <2>1
<1>8. ASSUME NEW p \in Submits, FinalizeBatchStatus(p) \/ SubmitDies(p) PROVE ReqMove(q)
  BY <1>3, <1>8 DEF FinalizeBatchStatus, SubmitDies
<1>9. ASSUME NEW p \in Submits, ReleaseReservationForRebuild(p) \/ SubmitStep(p)
      PROVE  ReqMove(q)
  BY <1>1, <1>9 DEF ReleaseReservationForRebuild, SubmitStep, opVars
<1>10. ASSUME NEW b \in Batches,
              \/ ReserveAntBatch(b) \/ BuildReservedBatch(b)
              \/ ReleaseAntBatch(b) \/ ExpireStaleReservations(b)
       PROVE  ReqMove(q)
  BY <1>1, <1>10 DEF ReserveAntBatch, BuildReservedBatch, ReleaseAntBatch,
       ExpireStaleReservations
<1>11. CASE OtherWorkers \/ (Approve /\ UNCHANGED opVars) \/ OpChainStep \/ UNCHANGED allVars
  BY <1>1, <1>11 DEF OtherWorkers, OpChainStep, allVars, opVars
<1> QED
  BY <1>5, <1>6, <1>7, <1>8, <1>9, <1>10, <1>11 DEF OpNext, OperatorStep, ServeSubmit

LEMMA ReqNext ==
  ASSUME OpTypeOK, ReqInv, [OpNext]_allVars
  PROVE  ReqInv'
<1>1. ASSUME NEW b \in Batches, header[b] # "none" PROVE header'[b] # "none"
  BY <1>1, HeadersMove DEF HeaderMove
<1>2. ASSUME NEW p \in Submits, req'[p].pc # "idle"
      PROVE  /\ req'[p].batch \in Batches /\ header[req'[p].batch] # "none"
             /\ req'[p].sig \in Sig /\ req'[p].claim \in Claims
             /\ req'[p].claim = ClaimOf(req'[p].sig)
  BY <1>2, RequestsMove DEF ReqInv, ReqMove
<1> QED
  BY <1>1, <1>2 DEF ReqInv

\* No step takes back a confirmation of the chain.
LEMMA ConfirmedRemains ==
  ASSUME OpTypeOK, [OpNext]_allVars, NEW s \in Sig, tx[s] = "confirmed"
  PROVE  tx'[s] = "confirmed"
<1>0. TypeOK /\ CoreTypeOK /\ \A p \in Submits : p \in Workers
  BY OperatorAssumption DEF OpTypeOK, TypeOK
<1>1. ASSUME NEW x \in Workers, WorkerStep(x) \/ Crash(x) PROVE tx'[s] = "confirmed"
  BY <1>0, <1>1, ConfirmedStays DEF Next
<1>2. ASSUME NEW p \in Submits, SubmitStep(p) PROVE tx'[s] = "confirmed"
  <2>1. WorkerStep(p)
    BY <1>2 DEF SubmitStep, WorkerStep
  <2> QED
    BY <1>0, <1>1, <2>1
<1>3. CASE OpChainStep
  BY <1>0, <1>3, ChainIsTame DEF OpChainStep
<1>4. ASSUME NEW p \in Submits,
             \/ SubmitLoad(p) \/ RecoverReservedAntClaim(p) \/ ReleaseReservationForRebuild(p)
             \/ CountRemaining(p) \/ FinalizeBatchStatus(p) \/ SubmitError(p) \/ SubmitDies(p)
      PROVE  UNCHANGED tx
  BY <1>4 DEF SubmitLoad, RecoverReservedAntClaim, ReleaseReservationForRebuild, CountRemaining,
       FinalizeBatchStatus, SubmitError, SubmitDies, vars, chainVars
<1>5. CASE OperatorStep \/ (Approve /\ UNCHANGED opVars) \/ UNCHANGED allVars
  BY <1>5 DEF OperatorStep, ReserveAntBatch, BuildReservedBatch, ReleaseAntBatch,
       ExpireStaleReservations, SubmitAntBatch, Approve, ApproveClaim, allVars, vars, chainVars
<1> QED
  BY <1>1, <1>2, <1>3, <1>4, <1>5 DEF OpNext, OtherWorkers, ServeSubmit

-----------------------------------------------------------------------------
(***************************************************************************)
(* Confirmed rows were paid: any mix of submits, daemons and batches.      *)
(***************************************************************************)

LEMMA FinalNext ==
  ASSUME OpTypeOK, ReqInv, FinalInv, [OpNext]_allVars
  PROVE  FinalInv'
<1> SUFFICES ASSUME NEW w \in Workers, job'[w].pc = "finalize"
             PROVE  tx'[job'[w].sig] = "confirmed"
  BY DEF FinalInv
<1>1. /\ job[w] \in Job /\ (job[w].pc \in WithSig => job[w].sig \in Sig)
      /\ job[w].known \subseteq Sig
  BY DEF OpTypeOK, TypeOK, Job
<1>2. JobMove(w)
  BY JobsMove
<1>3. job'[w].sig \in Sig /\ tx[job'[w].sig] = "confirmed"
  BY <1>1, <1>2 DEF JobMove, Continues, FinalInv, WithSig
<1> QED
  BY <1>3, ConfirmedRemains

LEMMA OpPaidNext ==
  ASSUME OpTypeOK, FinalInv, ConfirmedWasPaid, [OpNext]_allVars
  PROVE  ConfirmedWasPaid'
<1>0. TypeOK /\ CoreTypeOK /\ \A p \in Submits : p \in Workers
  BY OperatorAssumption DEF OpTypeOK, TypeOK
<1>1. ASSUME UNCHANGED <<txSigs, asset>>,
             \A c \in Claims : status'[c] = "confirmed" <=> status[c] = "confirmed"
      PROVE  ConfirmedWasPaid'
  <2>1. ASSUME NEW c \in Claims, NEW s \in txSigs[c], tx[s] = "confirmed"
        PROVE  tx'[s] = "confirmed"
    BY <1>0, <2>1, ConfirmedRemains DEF CoreTypeOK
  <2> QED
    BY <1>1, <2>1 DEF ConfirmedWasPaid
<1>2. ASSUME NEW x \in Workers, WorkerStep(x) \/ Crash(x) PROVE ConfirmedWasPaid'
  BY <1>0, <1>2, PaidNext DEF Next
<1>3. ASSUME NEW p \in Submits, SubmitStep(p) PROVE ConfirmedWasPaid'
  <2>1. WorkerStep(p)
    BY <1>3 DEF SubmitStep, WorkerStep
  <2> QED
    BY <1>0, <1>2, <2>1
<1>4. ASSUME NEW p \in Submits, ReleaseReservationForRebuild(p) PROVE ConfirmedWasPaid'
  BY <1>0, <1>1, <1>4 DEF ReleaseReservationForRebuild, CoreTypeOK, rowVars
<1>5. ASSUME NEW b \in Batches, ReleaseAntBatch(b) PROVE ConfirmedWasPaid'
  BY <1>1, <1>5 DEF ReleaseAntBatch, Unsubmitted
<1>6. ASSUME NEW p \in Submits,
             \/ SubmitLoad(p) \/ RecoverReservedAntClaim(p) \/ CountRemaining(p)
             \/ FinalizeBatchStatus(p) \/ SubmitError(p) \/ SubmitDies(p)
      PROVE  ConfirmedWasPaid'
  BY <1>1, <1>6 DEF SubmitLoad, RecoverReservedAntClaim, CountRemaining, FinalizeBatchStatus,
       SubmitError, SubmitDies, vars, rowVars
<1>7. ASSUME NEW b \in Batches,
             \/ ReserveAntBatch(b) \/ BuildReservedBatch(b) \/ ExpireStaleReservations(b)
             \/ \E p \in Submits, s \in Sig : SubmitAntBatch(p, b, s)
      PROVE  ConfirmedWasPaid'
  BY <1>1, <1>7 DEF ReserveAntBatch, BuildReservedBatch, ExpireStaleReservations,
       SubmitAntBatch, vars, rowVars
<1>8. CASE (Approve /\ UNCHANGED opVars) \/ OpChainStep \/ UNCHANGED allVars
  BY <1>1, <1>8 DEF Approve, ApproveClaim, OpChainStep, Land, LandWithError, ConfirmBlock,
       DropBlock, AgeBlockhash, allVars, vars, rowVars
<1> QED
  BY <1>2, <1>3, <1>4, <1>5, <1>6, <1>7, <1>8 DEF OpNext, OperatorStep, OtherWorkers, ServeSubmit

LEMMA OpTypeCorrect == OpSpec => [](OpTypeOK /\ ReqInv)
<1>1. OpInit => OpTypeOK /\ ReqInv
  BY OpTypeInit DEF OpInit, NoReq, ReqInv
<1>2. OpTypeOK /\ ReqInv /\ [OpNext]_allVars => OpTypeOK' /\ ReqInv'
  BY OpTypeNext, ReqNext
<1> QED
  BY <1>1, <1>2, PTL DEF OpSpec

\* A claim reported confirmed, and its ANT claimed, only after a recorded
\* transaction of it was confirmed on chain: for any number of submits, daemons
\* and dispatch:ants runs at once, a lagging RPC and dropped blocks.
THEOREM ConfirmedAntsWereDelivered == OpSpec => []ConfirmedWasPaid
<1>1. OpInit => FinalInv /\ ConfirmedWasPaid
  BY DEF OpInit, Init, CoreInit, NoJob, FinalInv, ConfirmedWasPaid
<1>2. OpTypeOK /\ ReqInv /\ FinalInv /\ ConfirmedWasPaid /\ [OpNext]_allVars
        => FinalInv' /\ ConfirmedWasPaid'
  BY FinalNext, OpPaidNext
<1> QED
  BY <1>1, <1>2, OpTypeCorrect, PTL DEF OpSpec


-----------------------------------------------------------------------------
(***************************************************************************)
(* Reservations and headers, where ANTs are dispatched by submits alone.   *)
(***************************************************************************)

\* A daemon confirms and releases but never sends; told the mode it is idle.
HandsOff(w) ==
  IF w \in Submits
  THEN job[w].pc \in Confirming \cup {"idle", "persist", "broadcast"}
  ELSE /\ job[w].pc \in Confirming \cup {"idle", "load"}
       /\ OperatorWallet => job[w].pc = "idle" /\ queue[w] = {}

\* Queued means unsigned, dispatching means signed.
RowLives(c) ==
  /\ status[c] \in Queued => sig[c] = None
  /\ status[c] = "dispatching" => sig[c] # None
  /\ batch[c] # None => header[batch[c]] # "none"

LifeInv == (\A w \in Workers : HandsOff(w)) /\ (\A c \in Claims : RowLives(c))

LEMMA LifeInit == OpInit => LifeInv
BY DEF OpInit, Init, CoreInit, NoJob, LifeInv, HandsOff, RowLives, Queued

\* A daemon told the mode lists no ANT.
LEMMA DaemonStaysIdle ==
  ASSUME WalletDispatch, OperatorWallet, OpTypeOK, [OpNext]_allVars,
         NEW w \in Workers \ Submits, job[w].pc = "idle", queue[w] = {}
  PROVE  job'[w].pc = "idle" /\ queue'[w] = {}
<1>0. TypeOK /\ \A p \in Submits : p \in Workers /\ p # w
  BY OperatorAssumption DEF OpTypeOK
<1>1. ASSUME NEW x \in Workers, x # w, WorkerStep(x) \/ Crash(x)
      PROVE  job'[w] = job[w] /\ queue'[w] = queue[w]
  BY <1>0, <1>1, WorkerJobMoves
<1>2. ASSUME WorkerStep(w) \/ Crash(w) PROVE job'[w].pc = "idle" /\ queue'[w] = {}
  <2>1. RunOnce(w)
    BY <1>2 DEF WorkerStep, Crash, SampleHeight, ReadStatus, ScanOutflow, ClearAndRedispatch,
         FreezeClaim, FailClaim, FinalizeClaim, LoadFresh, CheckFloat, ReviewClaim,
         ManualVault, SignTransaction, PersistSigned, Broadcast
  <2>2. {c \in Claims : Eligible(w, c)} = {}
    BY DEF WalletDispatch, Eligible
  <2> QED
    BY <1>0, <2>1, <2>2 DEF RunOnce, TypeOK
<1>3. ASSUME NEW p \in Submits, SubmitStep(p) PROVE job'[w] = job[w] /\ queue'[w] = queue[w]
  <2>1. WorkerStep(p)
    BY <1>3 DEF SubmitStep, WorkerStep
  <2> QED
    BY <1>0, <1>1, <2>1
<1>4. ASSUME NEW p \in Submits,
             \/ SubmitLoad(p) \/ RecoverReservedAntClaim(p) \/ ReleaseReservationForRebuild(p)
             \/ CountRemaining(p) \/ FinalizeBatchStatus(p) \/ SubmitError(p) \/ SubmitDies(p)
      PROVE  job'[w] = job[w] /\ queue'[w] = queue[w]
  BY <1>0, <1>4 DEF SubmitLoad, RecoverReservedAntClaim, ReleaseReservationForRebuild,
       CountRemaining, FinalizeBatchStatus, SubmitError, SubmitDies, Done, vars, TypeOK
<1>5. CASE OperatorStep \/ (Approve /\ UNCHANGED opVars) \/ OpChainStep \/ UNCHANGED allVars
  BY <1>5 DEF OperatorStep, ReserveAntBatch, BuildReservedBatch, ReleaseAntBatch,
       ExpireStaleReservations, SubmitAntBatch, Approve, OpChainStep, allVars, vars
<1> QED
  BY <1>1, <1>2, <1>3, <1>4, <1>5 DEF OpNext, OtherWorkers, ServeSubmit

LEMMA HandsOffNext ==
  ASSUME WalletDispatch, OpTypeOK, ReqInv, LifeInv, [OpNext]_allVars, NEW w \in Workers
  PROVE  HandsOff(w)'
<1>1. JobMove(w) /\ HandsOff(w)
  BY JobsMove DEF LifeInv
<1>2. CASE w \in Submits
  BY <1>1, <1>2 DEF HandsOff, JobMove, Continues, Confirming
<1>3. CASE w \notin Submits
  <2>1. ASSUME OperatorWallet PROVE job'[w].pc = "idle" /\ queue'[w] = {}
    BY <1>1, <1>3, <2>1, DaemonStaysIdle DEF HandsOff
  <2>2. ASSUME ~OperatorWallet, job[w].pc = "load" PROVE LoadTarget(w, job[w].claim) = "idle"
    <3>1. job[w].claim \in Claims /\ AssetType[job[w].claim] = "ant" /\ Role[w] = "daemon"
      BY <1>3, <2>2 DEF OpTypeOK, TypeOK, WalletDispatch
    <3> QED
      BY <2>2, <3>1 DEF LoadTarget, WalletDispatch
  <2>3. ASSUME ~OperatorWallet PROVE job'[w].pc \in Confirming \cup {"idle", "load"}
    BY <1>1, <1>3, <2>2, <2>3 DEF HandsOff, JobMove, Continues, Confirming
  <2> QED
    BY <1>3, <2>1, <2>3 DEF HandsOff
<1> QED
  BY <1>2, <1>3

LEMMA NobodyParks ==
  ASSUME LifeInv
  PROVE  \A w \in Workers : job[w].pc \notin {"review", "manual", "sign"}
BY DEF LifeInv, HandsOff, Confirming

LEMMA LifeNext ==
  ASSUME WalletDispatch, OpTypeOK, ReqInv, LifeInv, [OpNext]_allVars
  PROVE  LifeInv'
<1>1. ASSUME NEW c \in Claims PROVE RowLives(c)'
  <2>1. RowLives(c) /\ RowMove(c) /\ BatchMove(c)
    BY RowsMove, BatchesMove, NobodyParks DEF LifeInv
  <2>2. batch[c] \in Batches \cup {None} /\ \A b \in Batches : HeaderMove(b)
    BY HeadersMove DEF OpTypeOK, TypeOK, CoreTypeOK
  <2>3. \A w \in Workers : Sends(w) => job[w].sig # None
    BY CoreAssumption DEF Sends, OpTypeOK, TypeOK, WithSig, Sig
  <2>4. (status[c] \in Queued => sig[c] = None)' /\ (status[c] = "dispatching" => sig[c] # None)'
    BY <2>1, <2>3 DEF RowLives, RowMove, Keeps, Sends, Clears, Stops, Confirms, Queued, Stopped
  <2>5. (batch[c] # None => header[batch[c]] # "none")'
    BY <2>1, <2>2 DEF RowLives, BatchMove, HeaderMove
  <2> QED
    BY <2>4, <2>5 DEF RowLives
<1> QED
  BY <1>1, HandsOffNext DEF LifeInv

LEMMA LifeHolds ==
  ASSUME WalletDispatch
  PROVE  OpSpec => [](OpTypeOK /\ ReqInv /\ LifeInv)
<1>1. OpInit => LifeInv
  BY LifeInit
<1>2. OpTypeOK /\ ReqInv /\ LifeInv /\ [OpNext]_allVars => LifeInv'
  BY LifeNext
<1> QED
  BY <1>1, <1>2, OpTypeCorrect, PTL DEF OpSpec

\* No reservation is stranded: whatever submits, cancels, builds, expiries and
\* crashes do at once, every claim in a batch can be freed by cancel or TTL or
\* recovered by submitting again, or is done with.
THEOREM NoReservationIsStranded ==
  ASSUME WalletDispatch
  PROVE  OpSpec => []ReservationsCanEnd
<1>1. OpTypeOK /\ LifeInv => ReservationsCanEnd
  <2> SUFFICES ASSUME OpTypeOK, LifeInv, NEW c \in Claims
               PROVE  \/ Unsubmitted(c)
                      \/ status[c] = "dispatching" /\ sig[c] # None
                      \/ status[c] \in Stopped \cup {"confirmed"}
    BY DEF ReservationsCanEnd
  <2>1. RowLives(c) /\ status[c] \in ClaimStatus
    BY DEF LifeInv, OpTypeOK, TypeOK, CoreTypeOK
  <2> QED
    BY <2>1 DEF RowLives, Unsubmitted, Queued, ClaimStatus, Stopped
<1> QED
  BY <1>1, LifeHolds, PTL

\* A completed header has confirmed members only and an expired one none that
\* was sent or still can be; a request that counted none open stays right.
HeaderInv ==
  /\ \A b \in Batches : header[b] = "completed" => \A c \in Members(b) : status[c] = "confirmed"
  /\ \A b \in Batches : header[b] = "expired" =>
       \A c \in Members(b) : sig[c] = None /\ status[c] \in Stopped \cup {"confirmed"}
  /\ \A p \in Submits : req[p].pc = "header" /\ ~req[p].open =>
       \A c \in Members(req[p].batch) : status[c] = "confirmed"

LEMMA HeaderNext ==
  ASSUME OpTypeOK, ReqInv, LifeInv, HeaderInv, [OpNext]_allVars
  PROVE  HeaderInv'
<1>1. ASSUME NEW b \in Batches, header[b] # "none", NEW c \in Members(b)' PROVE c \in Members(b)
  <2>1. c \in Claims /\ BatchMove(c) /\ batch'[c] = b /\ HeaderMove(b)
    BY <1>1, BatchesMove, HeadersMove DEF Members
  <2> QED
    BY <1>1, <2>1, CoreAssumption DEF BatchMove, Members
<1>2. ASSUME NEW c \in Claims
      PROVE  /\ status[c] = "confirmed" => status'[c] = "confirmed"
             /\ sig[c] = None /\ status[c] \in Stopped \cup {"confirmed"}
                  => sig'[c] = None /\ status'[c] \in Stopped \cup {"confirmed"}
  <2>1. RowMove(c)
    BY RowsMove, NobodyParks
  <2> QED
    BY <2>1 DEF RowMove, Keeps, Sends, Clears, Stops, Confirms, Queued, Stopped
<1>3. ASSUME NEW b \in Batches, header'[b] = "completed", NEW c \in Members(b)'
      PROVE  status'[c] = "confirmed"
  <2>1. HeaderMove(b) /\ header[b] # "none" /\ c \in Claims
    BY <1>3, HeadersMove DEF HeaderMove, Members
  <2>2. c \in Members(b)
    BY <1>1, <1>3, <2>1
  <2>3. status[c] = "confirmed"
    BY <1>3, <2>1, <2>2 DEF HeaderInv, HeaderMove
  <2> QED
    BY <1>2, <2>1, <2>3
<1>4. ASSUME NEW b \in Batches, header'[b] = "expired", NEW c \in Members(b)'
      PROVE  sig'[c] = None /\ status'[c] \in Stopped \cup {"confirmed"}
  <2>1. HeaderMove(b) /\ c \in Claims /\ batch'[c] = b
    BY <1>4, HeadersMove DEF Members
  <2>2. CASE header[b] = "expired"
    BY <1>1, <1>2, <1>4, <2>1, <2>2 DEF HeaderInv
  <2>3. CASE header[b] # "expired"
    <3>1. /\ sig[c] = None /\ status[c] \notin Queued
          /\ status'[c] = status[c] /\ sig'[c] = sig[c]
      BY <1>4, <2>1, <2>3 DEF HeaderMove
    <3>2. RowLives(c) /\ status[c] \in ClaimStatus
      BY <2>1 DEF LifeInv, OpTypeOK, TypeOK, CoreTypeOK
    <3> QED
      BY <3>1, <3>2 DEF RowLives, ClaimStatus, Queued, Stopped
  <2> QED
    BY <2>2, <2>3
<1>5. ASSUME NEW p \in Submits, req'[p].pc = "header", ~req'[p].open,
             NEW c \in Claims, batch'[c] = req'[p].batch
      PROVE  status'[c] = "confirmed"
  <2>1. /\ ReqMove(p) /\ req[p].pc # "idle" /\ req'[p].batch = req[p].batch
    BY <1>5, RequestsMove DEF ReqMove
  <2>2. CASE req'[p] = req[p]
    <3>1. c \in Members(req[p].batch)
      BY <1>1, <1>5, <2>1 DEF ReqInv, Members
    <3> QED
      BY <1>2, <1>5, <2>1, <2>2, <3>1 DEF HeaderInv
  <2>3. CASE req'[p] # req[p]
    <3>1. req'[p].open = Remaining(req[p].batch) /\ UNCHANGED rowVars
      BY <1>5, <2>1, <2>3 DEF ReqMove
    <3> QED
      BY <1>5, <2>1, <3>1 DEF Remaining, Members, rowVars
  <2> QED
    BY <2>2, <2>3
<1>6. \A p \in Submits : req'[p].pc = "header" /\ ~req'[p].open =>
        \A c \in Claims : batch'[c] = req'[p].batch => status'[c] = "confirmed"
  BY <1>5
<1> QED
  BY <1>3, <1>4, <1>6 DEF HeaderInv, Members

\* A header that finalizeBatchStatus, cancel or the TTL closed has nothing
\* left to look after, however submits of the batch interleave.
THEOREM HeadersAreTruthful ==
  ASSUME WalletDispatch
  PROVE  OpSpec => []HeadersTellTheTruth
<1>1. OpInit => HeaderInv
  BY DEF OpInit, NoReq, HeaderInv
<1>2. OpTypeOK /\ ReqInv /\ LifeInv /\ HeaderInv /\ [OpNext]_allVars => HeaderInv'
  BY HeaderNext
<1>3. HeaderInv => HeadersTellTheTruth
  BY DEF HeaderInv, HeadersTellTheTruth
<1> QED
  BY <1>1, <1>2, <1>3, LifeHolds, PTL DEF OpSpec


-----------------------------------------------------------------------------
(***************************************************************************)
(* What can land is on record, while no process overwrites a signature     *)
(* other than the one it judged (Overtaking), and the confirmation RPC is  *)
(* consistent and confirms what it has processed.                          *)
(***************************************************************************)

\* Signatures the row no longer points at are dead; a claim handed to an
\* operator keeps a signature that moved nothing.
RecordInv(c) ==
  /\ \A s \in txSigs[c] : ClaimOf(s) = c /\ (s = sig[c] \/ Dead(s))
  /\ sig[c] # None => sig[c] \in txSigs[c]
  /\ status[c] \in Stopped => sig[c] # None /\ Fruitless(sig[c])

\* What a process has read of the signature it confirms; what it is about to
\* send is on the row, or dead.
ReadInv(w) ==
  LET j == job[w]
  IN /\ \A k \in j.known : ClaimOf(k) = j.claim /\ k \in txSigs[j.claim]
     /\ j.pc \in Confirming \cup {"broadcast"} =>
          ClaimOf(j.sig) = j.claim /\ j.sig \in txSigs[j.claim]
     /\ j.pc = "persist" => ClaimOf(j.sig) = j.claim
     /\ j.pc = "broadcast" => sig[j.claim] = j.sig \/ Dead(j.sig)
     /\ j.pc = "status" => j.height <= age[j.sig]
     /\ j.pc \in {"scan", "clear", "freeze"} => Dead(j.sig)
     /\ j.pc = "fail" => tx[j.sig] \in {"processed_err", "failed"}
     /\ j.pc = "finalize" => tx[j.sig] = "confirmed"

OnRecordInv ==
  /\ OnlyRecordedIsAlive
  /\ \A c \in Claims : RecordInv(c)
  /\ \A w \in Workers : ReadInv(w)

LEMMA OnRecordInit == OpInit => OnRecordInv
<1> SUFFICES ASSUME OpInit PROVE OnRecordInv
  OBVIOUS
<1>1. OnlyRecordedIsAlive
  BY DEF OpInit, Init, CoreInit, OnlyRecordedIsAlive, Alive, Landable
<1>2. \A c \in Claims : RecordInv(c)
  BY DEF OpInit, Init, CoreInit, RecordInv, Stopped
<1>3. \A w \in Workers : ReadInv(w)
  BY DEF OpInit, Init, NoJob, ReadInv, Confirming
<1> QED
  BY <1>1, <1>2, <1>3 DEF OnRecordInv

\* s is sent by a process that writes no row.
Sent(s) == /\ \E w \in Workers : job[w].pc = "broadcast" /\ job[w].sig = s
           /\ UNCHANGED <<sig, txSigs, age>>

\* What is known of a recorded signature stays known.
Grows(s) ==
  /\ age[s] <= age'[s]
  /\ Dead(s) => Dead(s)'
  /\ tx[s] = "confirmed" => tx'[s] = "confirmed"
  /\ tx[s] \in {"processed_err", "failed"} => tx'[s] \in {"processed_err", "failed"}

SigMove(s) ==
  /\ s \in txSigs[ClaimOf(s)] => Grows(s)
  /\ Alive(s)' => Alive(s) \/ Sent(s)
  /\ tx'[s] # "unsent" => tx[s] # "unsent" \/ Sent(s)

LEMMA SignaturesMove ==
  ASSUME OpTypeOK, LifeInv, ~Forks, [OpNext]_allVars, NEW s \in Sig
  PROVE  SigMove(s)
<1>0. /\ TypeOK /\ CoreTypeOK /\ age[s] \in 0 .. 2 /\ tx[s] \in TxState
      /\ \A p \in Submits : p \in Workers
  BY OperatorAssumption DEF OpTypeOK, TypeOK, CoreTypeOK
<1>1. ASSUME UNCHANGED <<tx, age>> PROVE SigMove(s)
  BY <1>0, <1>1 DEF SigMove, Grows, Dead, Alive, Landable
<1>2. ASSUME NEW x \in Workers, Broadcast(x) PROVE SigMove(s)
  <2>1. job[x].pc = "broadcast" /\ UNCHANGED <<sig, txSigs, age>>
    BY <1>2 DEF Broadcast, rowVars
  <2>2. tx'[s] = tx[s] \/ (job[x].sig = s /\ tx[s] = "unsent" /\ tx'[s] = "inflight")
    BY <1>0, <1>2 DEF Broadcast, CoreTypeOK
  <2>3. Grows(s)
    BY <1>0, <2>1, <2>2 DEF Grows, Dead
  <2>4. Alive(s)' => Alive(s) \/ Sent(s)
    BY <2>1, <2>2 DEF Alive, Landable, Sent
  <2> QED
    BY <2>1, <2>2, <2>3, <2>4 DEF SigMove, Sent
<1>3. ASSUME NEW x \in Workers, WorkerStep(x) \/ Crash(x) PROVE SigMove(s)
  <2>1. job[x].pc # "sign"
    BY NobodyParks
  <2>2. CASE ~Broadcast(x)
    <3>1. UNCHANGED <<tx, age>>
      BY <1>3, <2>1, <2>2 DEF WorkerStep, Crash, RunOnce, ProcessClaim, SampleHeight, ReadStatus,
           ScanOutflow, ClearAndRedispatch, FreezeClaim, FailClaim, FinalizeClaim, LoadFresh,
           CheckFloat, ReviewClaim, ManualVault, SignTransaction, PersistSigned, chainVars
    <3> QED
      BY <1>1, <3>1
  <2> QED
    BY <1>2, <2>2
<1>4. ASSUME NEW p \in Submits, SubmitStep(p) PROVE SigMove(s)
  <2>1. WorkerStep(p)
    BY <1>4 DEF SubmitStep, WorkerStep
  <2> QED
    BY <1>0, <1>3, <2>1
<1>5. CASE OpChainStep
  <2>1. /\ Alive(s)' => Alive(s)
        /\ tx'[s] = "unsent" <=> tx[s] = "unsent"
        /\ tx[s] = "confirmed" => tx'[s] = "confirmed"
        /\ age[s] <= age'[s] /\ age'[s] \in 0 .. 2
        /\ tx[s] \in {"processed_err", "failed"} => tx'[s] \in {"processed_err", "failed"}
    BY <1>0, <1>5, ChainIsTame DEF OpChainStep
  <2>2. Dead(s) => Dead(s)'
    BY <1>0, <1>5 DEF OpChainStep, Dead, Land, LandWithError, ConfirmBlock, DropBlock,
         AgeBlockhash, Landable, CoreTypeOK
  <2> QED
    BY <2>1, <2>2 DEF SigMove, Grows
<1>6. ASSUME NEW b \in Batches, BuildReservedBatch(b) PROVE SigMove(s)
  <2> DEFINE built == {Built(c) : c \in ToBuild(b)}
  <2>1. /\ UNCHANGED <<rowVars, tx>>
        /\ age' = [t \in Sig |-> IF t \in built THEN 0 ELSE age[t]]
    BY <1>6 DEF BuildReservedBatch
  <2>2. ASSUME NEW c \in ToBuild(b)
        PROVE  ClaimOf(Built(c)) = c /\ Built(c) \notin txSigs[c] /\ tx[Built(c)] = "unsent"
    <3>1. c \in Claims /\ Buildable(c) # {}
      BY <1>6 DEF BuildReservedBatch, ToBuild, Members
    <3> QED
      BY <3>1, BuiltIsFresh DEF Buildable, Unused
  <2>3. s \in built => s \notin txSigs[ClaimOf(s)] /\ tx[s] = "unsent"
    BY <2>2
  <2>4. s \notin built => age'[s] = age[s]
    BY <2>1
  <2> HIDE DEF built
  <2> QED
    BY <1>0, <2>1, <2>3, <2>4 DEF SigMove, Grows, Dead, Alive, Landable
<1>7. ASSUME NEW p \in Submits,
             \/ SubmitLoad(p) \/ RecoverReservedAntClaim(p) \/ ReleaseReservationForRebuild(p)
             \/ CountRemaining(p) \/ FinalizeBatchStatus(p) \/ SubmitError(p) \/ SubmitDies(p)
      PROVE  SigMove(s)
  BY <1>1, <1>7 DEF SubmitLoad, RecoverReservedAntClaim, ReleaseReservationForRebuild,
       CountRemaining, FinalizeBatchStatus, SubmitError, SubmitDies, vars, chainVars
<1>8. ASSUME NEW b \in Batches,
             \/ ReserveAntBatch(b) \/ ReleaseAntBatch(b) \/ ExpireStaleReservations(b)
             \/ \E p \in Submits, t \in Sig : SubmitAntBatch(p, b, t)
      PROVE  SigMove(s)
  BY <1>1, <1>8 DEF ReserveAntBatch, ReleaseAntBatch, ExpireStaleReservations, SubmitAntBatch,
       vars, chainVars
<1>9. CASE (Approve /\ UNCHANGED opVars) \/ UNCHANGED allVars
  BY <1>1, <1>9 DEF Approve, ApproveClaim, allVars, vars, chainVars
<1> QED
  BY <1>3, <1>4, <1>5, <1>6, <1>7, <1>8, <1>9 DEF OpNext, OperatorStep, OtherWorkers, ServeSubmit


LEMMA OnlyRecordedNext ==
  ASSUME OpTypeOK, LifeInv, OnRecordInv, ~Overtaking, ~Forks, [OpNext]_allVars
  PROVE  OnlyRecordedIsAlive'
<1> SUFFICES ASSUME NEW s \in Sig
             PROVE  /\ Alive(s)' => sig'[ClaimOf(s)] = s
                    /\ tx'[s] # "unsent" => s \in txSigs'[ClaimOf(s)]
  BY DEF OnlyRecordedIsAlive
<1> DEFINE c == ClaimOf(s)
<1>1. c \in Claims /\ s # None
  BY CoreAssumption DEF ClaimOf, Sig
<1>2. RowMove(c) /\ SigMove(s) /\ RowLives(c) /\ RecordInv(c)
  BY <1>1, RowsMove, SignaturesMove, NobodyParks DEF LifeInv, OnRecordInv
<1>3. txSigs[c] \subseteq txSigs'[c]
  BY <1>2 DEF RowMove, Keeps, Sends, Clears, Stops, Confirms
<1>4. /\ Alive(s) => sig[c] = s
      /\ tx[s] # "unsent" => s \in txSigs[c]
  BY DEF OnRecordInv, OnlyRecordedIsAlive
<1>5. Dead(s) => ~Alive(s)
  BY DEF Dead, Alive, Landable
<1>6. Sent(s) => s \in txSigs[c] /\ (sig[c] = s \/ Dead(s)) /\ UNCHANGED <<sig, txSigs>>
  BY DEF Sent, OnRecordInv, ReadInv
<1>7. CASE Sent(s)
  <2>1. Alive(s)' => ~Dead(s)
    BY <1>2, <1>6, <1>7 DEF SigMove, Grows, Dead, Alive, Landable
  <2> QED
    BY <1>6, <1>7, <2>1
<1>8. CASE ~Sent(s)
  <2>1. ASSUME Alive(s) PROVE sig'[c] = s
    <3>1. sig[c] = s
      BY <1>4, <2>1
    <3>2. ASSUME NEW w \in Workers, job[w].claim = c, Clears(w) PROVE FALSE
      <4>1. job[w].pc = "clear" /\ status[c] = "dispatching"
        BY <3>2 DEF Clears
      <4>2. sig[c] = job[w].sig
        BY <3>2, <4>1 DEF Overtaking, Overtaken
      <4>3. Dead(job[w].sig)
        BY <4>1 DEF OnRecordInv, ReadInv
      <4> QED
        BY <1>5, <2>1, <3>1, <4>2, <4>3
    <3> QED
      BY <1>1, <1>2, <3>1, <3>2 DEF RowMove, Keeps, Sends, Stops, Confirms, RowLives
  <2> QED
    BY <1>2, <1>3, <1>4, <1>8, <2>1 DEF SigMove
<1> QED
  BY <1>7, <1>8

LEMMA RecordNext ==
  ASSUME OpTypeOK, LifeInv, OnRecordInv, ~Overtaking, ~Forks, [OpNext]_allVars, NEW c \in Claims
  PROVE  RecordInv(c)'
<1>1. /\ RowMove(c) /\ RowLives(c) /\ RecordInv(c) /\ txSigs[c] \subseteq Sig
      /\ status[c] \in ClaimStatus
  BY RowsMove, NobodyParks DEF LifeInv, OnRecordInv, OpTypeOK, TypeOK, CoreTypeOK
<1>2. ASSUME NEW s \in txSigs[c] PROVE Grows(s) /\ ClaimOf(s) = c
  BY <1>1, <1>2, SignaturesMove DEF SigMove, RecordInv
<1>3. ASSUME NEW s \in txSigs[c], Fruitless(s) PROVE Fruitless(s)'
  BY <1>2, <1>3 DEF Grows, Fruitless
<1>4. CASE Keeps(c)
  <2>1. \A s \in txSigs'[c] : ClaimOf(s) = c /\ (s = sig'[c] \/ Dead(s)')
    BY <1>1, <1>2, <1>4 DEF Keeps, RecordInv, Grows
  <2>2. status'[c] \in Stopped => sig'[c] # None /\ Fruitless(sig[c])'
    <3>1. status'[c] \in Stopped => status[c] \in Stopped
      BY <1>4 DEF Keeps, Queued, Stopped
    <3>2. PICK s : s = sig[c] /\ s = sig'[c]
      BY <1>4 DEF Keeps
    <3>3. status'[c] \in Stopped => s # None /\ Fruitless(s)'
      BY <1>1, <1>3, <3>1, <3>2 DEF RecordInv
    <3> QED
      BY <3>2, <3>3 DEF Fruitless, Dead
  <2> QED
    BY <1>1, <1>4, <2>1, <2>2 DEF Keeps, RecordInv
<1>5. ASSUME NEW w \in Workers, job[w].claim = c, Sends(w) PROVE RecordInv(c)'
  <2>1. ClaimOf(job[w].sig) = c /\ sig[c] = None
    BY <1>1, <1>5 DEF Sends, OnRecordInv, ReadInv, RowLives
  <2>2. \A s \in txSigs[c] : s # None
    BY <1>1, CoreAssumption DEF Sig
  <2>3. \A s \in txSigs[c] : Dead(s)'
    BY <1>1, <1>2, <2>1, <2>2 DEF RecordInv, Grows
  <2> QED
    BY <1>2, <1>5, <2>1, <2>3 DEF Sends, RecordInv, Stopped
<1>6. ASSUME NEW w \in Workers, job[w].claim = c, Clears(w) PROVE RecordInv(c)'
  <2>1. sig[c] = job[w].sig /\ Dead(job[w].sig)
    BY <1>6 DEF Clears, Overtaking, Overtaken, OnRecordInv, ReadInv
  <2>2. \A s \in txSigs[c] : Dead(s)'
    BY <1>1, <1>2, <2>1 DEF RecordInv, Grows
  <2> QED
    BY <1>2, <1>6, <2>2 DEF Clears, RecordInv, Queued, Stopped
<1>7. ASSUME NEW w \in Workers, job[w].claim = c, Stops(w) PROVE RecordInv(c)'
  <2>1. sig[c] # None /\ Fruitless(sig[c]) /\ sig[c] \in txSigs[c]
    <3>1. CASE status[c] \in {"verified", "pending_review", "dispatching"}
      <4>1. sig[c] = job[w].sig /\ Fruitless(job[w].sig)
        BY <1>7, <3>1 DEF Stops, Overtaking, Overtaken, OnRecordInv, ReadInv, Fruitless
      <4>2. job[w].sig \in txSigs[c]
        BY <1>7 DEF Stops, OnRecordInv, ReadInv, Confirming
      <4> QED
        BY <1>1, <4>1, <4>2, CoreAssumption DEF Sig
    <3>2. CASE status[c] \in Stopped
      BY <1>1, <3>2 DEF RecordInv
    <3> QED
      BY <1>1, <1>7, <3>1, <3>2 DEF Stops, ClaimStatus, Stopped
  <2>2. PICK s : s = sig[c] /\ s = sig'[c]
    BY <1>7 DEF Stops
  <2>3. s # None /\ Fruitless(s)' /\ s \in txSigs[c]
    BY <1>3, <2>1, <2>2
  <2>4. Fruitless(sig[c])'
    BY <2>2, <2>3 DEF Fruitless, Dead
  <2>5. \A t \in txSigs'[c] : ClaimOf(t) = c /\ (t = sig'[c] \/ Dead(t)')
    BY <1>1, <1>2, <1>7 DEF Stops, RecordInv, Grows
  <2> QED
    BY <1>7, <2>2, <2>3, <2>4, <2>5 DEF Stops, RecordInv
<1>8. ASSUME NEW w \in Workers, job[w].claim = c, Confirms(w) PROVE RecordInv(c)'
  <2>1. txSigs'[c] = txSigs[c] /\ sig'[c] = sig[c] /\ status'[c] = "confirmed"
    BY <1>8 DEF Confirms, OnRecordInv, ReadInv, Confirming
  <2> QED
    BY <1>1, <1>2, <2>1 DEF RecordInv, Grows, Stopped
<1> QED
  BY <1>1, <1>4, <1>5, <1>6, <1>7, <1>8 DEF RowMove

LEMMA ReadNext ==
  ASSUME WalletDispatch, ~LaggingRpc, ~Forks, OpTypeOK, ReqInv, LifeInv, OnRecordInv,
         ~Overtaking, [OpNext]_allVars, NEW w \in Workers
  PROVE  ReadInv(w)'
<1>1. /\ JobMove(w) /\ ReadInv(w) /\ HandsOff(w) /\ job[w] \in Job
      /\ job[w].pc # "idle" => job[w].claim \in Claims
      /\ job[w].pc \in WithSig => job[w].sig \in Sig
  BY JobsMove DEF OnRecordInv, LifeInv, OpTypeOK, TypeOK
<1>2. ASSUME NEW c \in Claims
      PROVE  /\ RecordInv(c) /\ RowLives(c) /\ RowMove(c)
             /\ txSigs[c] \subseteq txSigs'[c] /\ txSigs[c] \subseteq Sig
             /\ \A s \in txSigs[c] : Grows(s) /\ ClaimOf(s) = c /\ age[s] \in 0 .. 2
  <2>1. RecordInv(c) /\ RowLives(c) /\ RowMove(c) /\ txSigs[c] \subseteq Sig
    BY RowsMove, NobodyParks DEF OnRecordInv, LifeInv, OpTypeOK, TypeOK, CoreTypeOK
  <2>2. txSigs[c] \subseteq txSigs'[c]
    BY <2>1 DEF RowMove, Keeps, Sends, Clears, Stops, Confirms
  <2>3. ASSUME NEW s \in txSigs[c] PROVE Grows(s) /\ ClaimOf(s) = c /\ age[s] \in 0 .. 2
    BY <2>1, <2>3, SignaturesMove DEF SigMove, RecordInv, OpTypeOK, TypeOK, CoreTypeOK
  <2> QED
    BY <2>1, <2>2, <2>3
\* What waits to be sent stays on the row until it is found dead.
<1>3. ASSUME NEW c \in Claims, NEW s \in txSigs[c], sig[c] = s \/ Dead(s)
      PROVE  sig'[c] = s \/ Dead(s)'
  <2>1. Dead(s) => Dead(s)'
    BY <1>2 DEF Grows
  <2>2. s # None
    BY <1>2, CoreAssumption DEF Sig
  <2>3. ASSUME NEW v \in Workers, job[v].claim = c, Clears(v), sig[c] = s PROVE Dead(s)
    BY <2>3 DEF Clears, Overtaking, Overtaken, OnRecordInv, ReadInv
  <2> QED
    BY <1>2, <1>3, <2>1, <2>2, <2>3 DEF RowMove, Keeps, Sends, Stops, Confirms, RowLives
<1>4. ASSUME NEW k, NEW c \in Claims, k = job'[w], k.claim = c,
             \A m \in k.known : m \in txSigs[c],
             k.pc \in Confirming \cup {"broadcast"} => k.sig \in txSigs'[c] /\ ClaimOf(k.sig) = c,
             k.pc = "persist" => ClaimOf(k.sig) = c,
             k.pc = "broadcast" => sig'[c] = k.sig \/ Dead(k.sig)',
             k.pc = "status" => k.height <= age'[k.sig],
             k.pc \in {"scan", "clear", "freeze"} => Dead(k.sig)',
             k.pc = "fail" => tx'[k.sig] \in {"processed_err", "failed"},
             k.pc = "finalize" => tx'[k.sig] = "confirmed"
      PROVE  ReadInv(w)'
  BY <1>2, <1>4 DEF ReadInv, Dead
<1>5. CASE job'[w] = job[w]
  <2>1. CASE job[w].claim \in Claims
    <3>1. PICK c \in Claims : c = job[w].claim
      BY <2>1
    <3>2. job[w].pc \in Confirming \cup {"broadcast"} =>
            job[w].sig \in txSigs[c] /\ ClaimOf(job[w].sig) = c /\ Grows(job[w].sig)
      BY <1>1, <1>2, <3>1 DEF ReadInv
    <3>3. job[w].pc = "broadcast" => sig'[c] = job[w].sig \/ Dead(job[w].sig)'
      <4>1. PICK s : s = job[w].sig /\ s = job'[w].sig
        BY <1>5
      <4>2. job[w].pc = "broadcast" => s \in txSigs[c] /\ (sig[c] = s \/ Dead(s))
        BY <1>1, <3>1, <3>2, <4>1 DEF ReadInv
      <4>3. job[w].pc = "broadcast" => sig'[c] = s \/ Dead(s)'
        BY <1>3, <4>2
      <4> QED
        BY <4>1, <4>3 DEF Dead
    <3>4. job[w].pc = "status" => job[w].height <= age'[job[w].sig]
      <4>1. ASSUME job[w].pc = "status" PROVE job[w].height <= age'[job[w].sig]
        <5>1. PICK s \in Sig : s = job[w].sig /\ s \in txSigs[c]
          BY <1>2, <3>2, <4>1 DEF Confirming
        <5>2. PICK h \in Nat, a \in Nat, b \in Int :
                h = job[w].height /\ a = age[s] /\ b = age'[s]
          <6>1. age[s] \in 0 .. 2 /\ job[w].height \in 0 .. 2
            BY <1>1, <1>2, <5>1 DEF Job
          <6>2. OpTypeOK'
            BY OpTypeNext
          <6>3. age' \in [Sig -> 0 .. 2]
            BY <6>2 DEF OpTypeOK, TypeOK, CoreTypeOK
          <6>4. age'[s] \in 0 .. 2
            BY <6>3
          <6> QED
            BY <6>1, <6>4
        <5>3. h <= a /\ a <= b
          BY <1>1, <1>2, <4>1, <5>1, <5>2 DEF ReadInv, Grows
        <5>4. h <= b
          BY <5>3
        <5> QED
          BY <5>1, <5>2, <5>4
      <4> QED
        BY <4>1
    <3>5. /\ job[w].pc \in {"scan", "clear", "freeze"} => Dead(job[w].sig)'
          /\ job[w].pc = "fail" => tx'[job[w].sig] \in {"processed_err", "failed"}
          /\ job[w].pc = "finalize" => tx'[job[w].sig] = "confirmed"
      BY <1>1, <3>2 DEF ReadInv, Grows, Confirming
    <3>6. /\ job[w].pc = "persist" => ClaimOf(job[w].sig) = c
          /\ \A m \in job[w].known : m \in txSigs[c]
      BY <1>1, <3>1 DEF ReadInv
    <3> QED
      BY <1>2, <1>4, <1>5, <3>1, <3>2, <3>3, <3>4, <3>5, <3>6
  <2>2. CASE job[w].claim \notin Claims
    <3>1. job[w].known = {}
      <4>1. ASSUME NEW m \in job[w].known PROVE FALSE
        BY <1>1, <2>2, <4>1 DEF ReadInv, Job, ClaimOf, Sig
      <4> QED
        BY <4>1
    <3> QED
      BY <1>1, <1>5, <2>2, <3>1 DEF ReadInv, Confirming
  <2> QED
    BY <2>1, <2>2
<1>6. CASE /\ job'[w].known = {} /\ job'[w].pc \in {"idle", "load", "persist"}
           /\ job'[w].pc = "persist" => job'[w].claim = ClaimOf(job'[w].sig)
  BY <1>6 DEF ReadInv, Confirming
<1>7. ASSUME job'[w].pc = "sample", NEW c \in Claims, c = job'[w].claim, sig[c] # None,
             job'[w].sig = sig[c], job'[w].known = {job'[w].sig} \cup txSigs[c]
      PROVE  ReadInv(w)'
  <2>1. sig[c] \in txSigs[c]
    BY <1>2, <1>7 DEF RecordInv
  <2> QED
    BY <1>2, <1>4, <1>7, <2>1 DEF Confirming
<1>8. ASSUME job'[w].claim = job[w].claim, job'[w].known = job[w].known,
             Continues(job[w], job'[w])
      PROVE  ReadInv(w)'
  <2>1. PICK c \in Claims : c = job[w].claim /\ c = job'[w].claim
    BY <1>1, <1>8 DEF Continues
  <2>2. \A m \in job[w].known : m \in txSigs[c] /\ Grows(m) /\ ClaimOf(m) = c
    BY <1>1, <1>2, <2>1 DEF ReadInv
  <2>3. job[w].pc \in Confirming \cup {"broadcast"} =>
          job[w].sig \in txSigs[c] /\ ClaimOf(job[w].sig) = c /\ Grows(job[w].sig)
    BY <1>1, <1>2, <2>1 DEF ReadInv
  <2>4. CASE job[w].pc = "scan" /\ job'[w].pc = "finalize"
    BY <1>2, <1>4, <1>8, <2>1, <2>2, <2>3, <2>4 DEF Continues, Grows, Confirming
  <2>5. CASE job[w].pc = "persist"
    <3>1. /\ job'[w].pc = "broadcast" /\ job'[w].sig = job[w].sig /\ sig'[c] = job[w].sig
          /\ txSigs'[c] = txSigs[c] \cup {job[w].sig} /\ ClaimOf(job[w].sig) = c
      BY <1>1, <1>8, <2>1, <2>5 DEF Continues, ReadInv
    <3> QED
      BY <1>4, <1>8, <2>1, <2>2, <3>1
  <2>6. CASE job'[w].pc = "status"
    <3>1. job[w].pc = "sample" /\ job'[w].sig = job[w].sig /\ job'[w].height = age[job[w].sig]
      BY <1>8, <2>6 DEF Continues
    <3>2. job'[w].height <= age'[job'[w].sig]
      BY <2>3, <3>1 DEF Grows, Confirming
    <3> QED
      BY <1>2, <1>4, <1>8, <2>1, <2>2, <2>3, <2>6, <3>1, <3>2 DEF Confirming
  <2>7. CASE job[w].pc = "status"
    <3>1. PICK s \in Sig : s = job[w].sig /\ s = job'[w].sig
      BY <1>1, <1>8, <2>7 DEF Continues, WithSig
    <3>2. Grows(s) /\ s \in txSigs[c] /\ ClaimOf(s) = c
      BY <2>3, <2>7, <3>1 DEF Confirming
    <3>3. job'[w].pc = "scan" => Dead(s)
      <4>1. job'[w].pc = "scan" => job[w].height = 2 /\ tx[s] \in {"unsent", "inflight"}
        BY <1>8, <2>7, <3>1 DEF Continues
      <4>2. job[w].height <= age[s] /\ age[s] \in 0 .. 2
        BY <1>1, <1>2, <2>7, <3>1, <3>2 DEF ReadInv
      <4> QED
        BY <4>1, <4>2 DEF Dead
    <3>4. /\ job'[w].pc \in {"sample", "finalize", "fail", "scan"}
          /\ job'[w].pc = "finalize" => tx'[s] = "confirmed"
          /\ job'[w].pc = "fail" => tx'[s] \in {"processed_err", "failed"}
          /\ job'[w].pc = "scan" => Dead(s)'
      BY <1>8, <2>7, <3>1, <3>2, <3>3 DEF Continues, Grows
    <3> QED
      BY <1>2, <1>4, <1>8, <2>1, <2>2, <3>1, <3>2, <3>4 DEF Dead
  <2>8. CASE job[w].pc = "scan" /\ job'[w].pc # "finalize"
    <3>1. PICK s \in Sig : s = job[w].sig /\ s = job'[w].sig
      BY <1>1, <1>8, <2>8 DEF Continues, WithSig
    <3>2. Dead(s) /\ Grows(s) /\ s \in txSigs[c] /\ ClaimOf(s) = c
      BY <1>1, <2>3, <2>8, <3>1 DEF Confirming, ReadInv
    <3>3. Dead(s)' /\ job'[w].pc \in {"clear", "freeze"}
      BY <1>8, <2>8, <3>2 DEF Continues, Grows
    <3> QED
      BY <1>2, <1>4, <1>8, <2>1, <2>2, <3>1, <3>2, <3>3 DEF Dead
  <2>9. CASE job[w].pc = "broadcast"
    <3>1. job'[w].pc = "sample" /\ job'[w].sig = job[w].sig
      BY <1>8, <2>9 DEF Continues
    <3> QED
      BY <1>2, <1>4, <1>8, <2>1, <2>2, <2>3, <2>9, <3>1
  <2> QED
    BY <1>8, <2>4, <2>5, <2>6, <2>7, <2>8, <2>9 DEF Continues
<1>9. HandsOff(w)'
  BY HandsOffNext
<1> QED
  BY <1>1, <1>5, <1>6, <1>7, <1>8, <1>9 DEF JobMove, HandsOff, Confirming

\* The invariant behind it: until a process overtakes another, the recorded
\* signature of a claim is the only one that has executed or can.
LEMMA OnRecordHolds ==
  ASSUME WalletDispatch, ~LaggingRpc, ~Forks
  PROVE  OpSpec /\ []~Overtaking => []OnRecordInv
<1>1. OpInit => OnRecordInv
  BY OnRecordInit
<1>2. OpTypeOK /\ ReqInv /\ LifeInv /\ OnRecordInv /\ ~Overtaking /\ [OpNext]_allVars
        => OnRecordInv'
  BY OnlyRecordedNext, RecordNext, ReadNext DEF OnRecordInv
<1> QED
  BY <1>1, <1>2, LifeHolds, PTL DEF OpSpec

\* What can land is on record: cancel, TTL, rebuild, any number of submits and
\* daemons never take away a signature that executed or still can, unless a
\* process that found one signature dead or failed writes the row of another.
THEOREM LiveIsOnRecord ==
  ASSUME WalletDispatch, ~LaggingRpc, ~Forks
  PROVE  OpSpec /\ []~Overtaking => []AliveIsOnRecord
<1>1. OnRecordInv => AliveIsOnRecord
  BY DEF OnRecordInv, OnlyRecordedIsAlive, AliveIsOnRecord
<1> QED
  BY <1>1, OnRecordHolds, PTL

\* Under the same condition an ANT handed to an operator was not delivered
\* and cannot be any more.
THEOREM StoppedAntsStay ==
  ASSUME WalletDispatch, ~LaggingRpc, ~Forks
  PROVE  OpSpec /\ []~Overtaking => []StoppedNeverPaid
<1>1. OnRecordInv => StoppedNeverPaid
  <2> SUFFICES ASSUME OnRecordInv, NEW s \in Sig, status[ClaimOf(s)] \in Stopped
               PROVE  ~MayPay(s)
    BY DEF StoppedNeverPaid
  <2>1. ClaimOf(s) \in Claims
    BY DEF Sig, ClaimOf
  <2>2. MayPay(s) => sig[ClaimOf(s)] = s
    BY DEF OnRecordInv, OnlyRecordedIsAlive, Alive, MayPay
  <2>3. Fruitless(sig[ClaimOf(s)])
    BY <2>1 DEF OnRecordInv, RecordInv
  <2> QED
    BY <2>2, <2>3 DEF Fruitless, Dead, MayPay, Landable
<1> QED
  BY <1>1, OnRecordHolds, PTL

=============================================================================
