---------------------------- MODULE WorkerProofs ----------------------------
(***************************************************************************)
(* Theorems about the dispatch worker, for every set of claims and every   *)
(* bound: no claim is paid twice, the outcome of a claim is what happened  *)
(* on chain, nothing is sent that an operator had to approve first, the    *)
(* float covers what is in flight, re-signs are bounded, and one worker    *)
(* implements the promise of Dispense.                                     *)
(***************************************************************************)
EXTENDS DispatchReport, Collections

(***************************************************************************)
(* Type correctness, for any number of workers.                            *)
(***************************************************************************)

LEMMA NoJobType == NoJob \in Job
BY DEF NoJob, Job, PC

LEMMA TypeInit == Init => TypeOK
BY CoreAssumption, WorkerAssumption, NoJobType
   DEF Init, CoreInit, TypeOK, CoreTypeOK, ClaimStatus, AssetStatus, TxState,
       NoJob, WithSig

LEMMA RowsType ==
  ASSUME CoreTypeOK, NEW c \in Claims, NEW s \in Sig,
         \/ PersistDispatching(c, s) \/ FinalizeConfirmed(c, s)
         \/ MarkFailed(c) \/ MarkNeedsOperator(c) \/ ClearDeadSignature(c)
         \/ RouteToReview(c) \/ RouteToManualVaultDelivery(c),
         UNCHANGED chainVars
  PROVE  CoreTypeOK'
BY DEF CoreTypeOK, PersistDispatching, FinalizeConfirmed, MarkFailed,
       MarkNeedsOperator, ClearDeadSignature, RouteToReview,
       RouteToManualVaultDelivery, ParkAs, ParkedAsset, rowVars, chainVars,
       ClaimStatus, AssetStatus

LEMMA TypeNext == TypeOK /\ [Next]_vars => TypeOK'
<1> SUFFICES ASSUME TypeOK, [Next]_vars PROVE TypeOK'
  OBVIOUS
<1> USE NoJobType
<1>j. ASSUME NEW w \in Workers, NEW j \in Job,
             job' = [job EXCEPT ![w] = j],
             j.pc # "idle" => j.claim \in Claims,
             j.pc \in WithSig => j.sig \in Sig,
             CoreTypeOK', crashes' \in Nat, UNCHANGED queue
      PROVE  TypeOK'
  BY <1>j DEF TypeOK
<1>done. ASSUME NEW w \in Workers, Done(w), CoreTypeOK', crashes' \in Nat, UNCHANGED queue
         PROVE  TypeOK'
  BY <1>done, <1>j DEF Done, NoJob, WithSig
<1>goto. ASSUME NEW w \in Workers, NEW label \in PC, Goto(w, label),
                job[w].pc # "idle",
                label \in WithSig => job[w].sig \in Sig,
                CoreTypeOK', crashes' \in Nat, UNCHANGED queue
         PROVE  TypeOK'
  <2>1. [job[w] EXCEPT !.pc = label] \in Job
    BY <1>goto DEF TypeOK, Job
  <2> QED
    BY <1>goto, <2>1, <1>j DEF Goto, TypeOK, Job
<1>same. ASSUME UNCHANGED <<rowVars, chainVars>> PROVE CoreTypeOK'
  BY <1>same DEF TypeOK, CoreTypeOK, rowVars, chainVars
<1>0. ASSUME NEW w \in Workers, RunOnce(w) PROVE TypeOK'
  BY <1>0, <1>same DEF RunOnce, TypeOK
<1>1. ASSUME NEW w \in Workers, NEW c \in Claims, ProcessClaim(w, c) PROVE TypeOK'
  <2> DEFINE r == [NoJob EXCEPT !.pc = "sample", !.claim = c, !.sig = sig[c],
                        !.known = {sig[c]} \cup txSigs[c], !.resign = resign[c]]
             f == [NoJob EXCEPT !.pc = "load", !.claim = c]
  <2>1. /\ CoreTypeOK' /\ crashes' \in Nat /\ queue' \in [Workers -> SUBSET Claims]
    BY <1>1, <1>same DEF ProcessClaim, TypeOK
  <2>2. sig[c] # None => r \in Job /\ r.claim \in Claims /\ r.sig \in Sig
    BY DEF Job, NoJob, PC, TypeOK, CoreTypeOK
  <2>3. f \in Job /\ f.claim \in Claims /\ f.pc \notin WithSig
    BY DEF Job, NoJob, PC, WithSig
  <2>4. NoJob.pc = "idle" /\ NoJob.pc \notin WithSig
    BY DEF NoJob, WithSig
  <2>5. PICK j \in {r, f, NoJob} :
          job' = [job EXCEPT ![w] = j] /\ (j = r => sig[c] # None \/ j \in {f, NoJob})
    BY <1>1 DEF ProcessClaim
  <2> HIDE DEF r, f
  <2> QED
    BY <2>1, <2>2, <2>3, <2>4, <2>5 DEF TypeOK
<1>2. ASSUME NEW w \in Workers, SampleHeight(w) PROVE TypeOK'
  <2> DEFINE j == [job[w] EXCEPT !.pc = "status", !.height = age[job[w].sig]]
  <2>1. job[w].sig \in Sig /\ job[w].claim \in Claims
    BY <1>2 DEF SampleHeight, TypeOK, WithSig
  <2>2. j \in Job /\ j.claim \in Claims /\ j.sig \in Sig
    BY <2>1 DEF TypeOK, CoreTypeOK, Job, PC
  <2> QED
    BY <1>2, <2>2, <1>same, <1>j DEF SampleHeight, TypeOK
<1>3. ASSUME NEW w \in Workers, ReadStatus(w) PROVE TypeOK'
  <2>1. CoreTypeOK' /\ crashes' \in Nat /\ UNCHANGED queue
    BY <1>3, <1>same DEF ReadStatus, TypeOK
  <2>2. job[w].sig \in Sig /\ job[w].pc # "idle"
    BY <1>3 DEF ReadStatus, TypeOK, WithSig
  <2>3. Done(w) \/ \E label \in PC : Goto(w, label)
    BY <1>3 DEF ReadStatus, PC
  <2> QED
    BY <2>1, <2>2, <2>3, <1>done, <1>goto
<1>4. ASSUME NEW w \in Workers, ScanOutflow(w) PROVE TypeOK'
  <2>1. CoreTypeOK' /\ crashes' \in Nat /\ UNCHANGED queue
    BY <1>4, <1>same DEF ScanOutflow, TypeOK
  <2>2. job[w].sig \in Sig /\ job[w].pc # "idle" /\ job[w].claim \in Claims
    BY <1>4 DEF ScanOutflow, TypeOK, WithSig
  <2>3. ASSUME NEW s \in Outflows(w),
               job' = [job EXCEPT ![w] = [@ EXCEPT !.pc = "finalize", !.sig = s]]
        PROVE  TypeOK'
    <3> DEFINE j == [job[w] EXCEPT !.pc = "finalize", !.sig = s]
    <3>1. s \in Sig
      BY <2>3 DEF Outflows, TypeOK, Job
    <3>2. j \in Job /\ j.claim \in Claims /\ j.sig \in Sig
      BY <2>2, <3>1 DEF TypeOK, Job, PC
    <3> QED
      BY <2>1, <2>3, <3>2, <1>j
  <2>4. ASSUME \E label \in PC : Goto(w, label) PROVE TypeOK'
    BY <2>1, <2>2, <2>4, <1>goto
  <2> QED
    BY <1>4, <2>3, <2>4 DEF ScanOutflow, PC
<1>5. ASSUME NEW w \in Workers, ClearAndRedispatch(w) PROVE TypeOK'
  <2> DEFINE j == [NoJob EXCEPT !.pc = "load", !.claim = job[w].claim]
  <2>1. job[w].claim \in Claims /\ job[w].sig \in Sig
    BY <1>5 DEF ClearAndRedispatch, TypeOK, WithSig
  <2>2. CoreTypeOK' /\ crashes' \in Nat /\ UNCHANGED queue
    BY <1>5, <2>1, RowsType DEF ClearAndRedispatch, TypeOK
  <2>3. j \in Job /\ j.claim \in Claims /\ j.pc \notin WithSig
    BY <2>1 DEF Job, NoJob, PC, WithSig
  <2> QED
    BY <1>5, <2>2, <2>3, <1>j DEF ClearAndRedispatch
<1>6. ASSUME NEW w \in Workers, FreezeClaim(w) PROVE TypeOK'
  <2>1. job[w].claim \in Claims /\ job[w].sig \in Sig
    BY <1>6 DEF FreezeClaim, TypeOK, WithSig
  <2> QED
    BY <1>6, <2>1, RowsType, <1>done DEF FreezeClaim, TypeOK
<1>7. ASSUME NEW w \in Workers, FailClaim(w) PROVE TypeOK'
  <2>1. job[w].claim \in Claims
    BY <1>7 DEF FailClaim, TypeOK
  <2>2. CoreTypeOK'
    BY <1>7, <2>1 DEF FailClaim, MarkFailed, TypeOK, CoreTypeOK, rowVars,
                      chainVars, ClaimStatus
  <2> QED
    BY <1>7, <2>2, <1>done DEF FailClaim, TypeOK
<1>8. ASSUME NEW w \in Workers, FinalizeClaim(w) PROVE TypeOK'
  <2>1. job[w].claim \in Claims /\ job[w].sig \in Sig
    BY <1>8 DEF FinalizeClaim, TypeOK, WithSig
  <2> QED
    BY <1>8, <2>1, RowsType, <1>done DEF FinalizeClaim, TypeOK
<1>9. ASSUME NEW w \in Workers, LoadFresh(w) PROVE TypeOK'
  <2> DEFINE target == LoadTarget(w, job[w].claim)
             j == [job[w] EXCEPT !.pc = target, !.approved = approved[job[w].claim]]
  <2>1. CoreTypeOK' /\ crashes' \in Nat /\ UNCHANGED queue
    BY <1>9, <1>same DEF LoadFresh, TypeOK
  <2>2. job[w].claim \in Claims
    BY <1>9 DEF LoadFresh, TypeOK
  <2>3. target \in PC /\ target \notin WithSig
    BY DEF LoadTarget, PC, WithSig
  <2>4. j \in Job /\ j.claim \in Claims /\ j.pc \notin WithSig
    BY <2>2, <2>3 DEF TypeOK, CoreTypeOK, Job
  <2>5. Done(w) \/ job' = [job EXCEPT ![w] = j]
    BY <1>9 DEF LoadFresh
  <2> HIDE DEF j, target
  <2> QED
    BY <2>1, <2>4, <2>5, <1>done, <1>j
<1>10. ASSUME NEW w \in Workers, CheckFloat(w) PROVE TypeOK'
  <2>1. CoreTypeOK' /\ crashes' \in Nat /\ UNCHANGED queue
    BY <1>10, <1>same DEF CheckFloat, TypeOK
  <2>2. job[w].pc # "idle"
    BY <1>10 DEF CheckFloat
  <2>3. Done(w) \/ \E label \in PC \ WithSig : Goto(w, label)
    BY <1>10 DEF CheckFloat, PC, WithSig
  <2> QED
    BY <2>1, <2>2, <2>3, <1>done, <1>goto
<1>11. ASSUME NEW w \in Workers, ReviewClaim(w) \/ ManualVault(w) PROVE TypeOK'
  <2>1. job[w].claim \in Claims
    BY <1>11 DEF ReviewClaim, ManualVault, TypeOK
  <2>2. CoreTypeOK'
    BY <1>11, <2>1 DEF ReviewClaim, ManualVault, RouteToReview,
         RouteToManualVaultDelivery, ParkAs, ParkedAsset, TypeOK, CoreTypeOK, rowVars,
         chainVars, ClaimStatus, AssetStatus
  <2> QED
    BY <1>11, <2>2, <1>done DEF ReviewClaim, ManualVault, TypeOK
<1>12. ASSUME NEW w \in Workers, SignTransaction(w) PROVE TypeOK'
  <2>1. PICK s \in Sig :
          /\ job' = [job EXCEPT ![w] = [@ EXCEPT !.pc = "persist", !.sig = s]]
          /\ age' = [age EXCEPT ![s] = 0]
    BY <1>12 DEF SignTransaction, Unused
  <2> DEFINE j == [job[w] EXCEPT !.pc = "persist", !.sig = s]
  <2>2. j \in Job /\ j.claim \in Claims /\ j.sig \in Sig
    BY <1>12 DEF SignTransaction, TypeOK, Job, PC
  <2>3. age' \in [Sig -> 0 .. 2]
    BY <2>1 DEF TypeOK, CoreTypeOK
  <2>4. CoreTypeOK' /\ crashes' \in Nat /\ UNCHANGED queue
    BY <1>12, <2>3 DEF SignTransaction, TypeOK, CoreTypeOK, rowVars
  <2> QED
    BY <2>1, <2>2, <2>4, <1>j
<1>13. ASSUME NEW w \in Workers, PersistSigned(w) PROVE TypeOK'
  <2>1. job[w].claim \in Claims /\ job[w].sig \in Sig /\ job[w].pc # "idle"
    BY <1>13 DEF PersistSigned, TypeOK, WithSig
  <2>2. CoreTypeOK' /\ crashes' \in Nat /\ UNCHANGED queue
    BY <1>13, <2>1, RowsType, <1>same DEF PersistSigned, TypeOK
  <2>3. Done(w) \/ Goto(w, "broadcast")
    BY <1>13 DEF PersistSigned
  <2> QED
    BY <2>1, <2>2, <2>3, <1>done, <1>goto DEF PC
<1>14. ASSUME NEW w \in Workers, Broadcast(w) PROVE TypeOK'
  <2> DEFINE j == [job[w] EXCEPT !.pc = "sample", !.inline = TRUE]
  <2>1. j \in Job /\ j.claim \in Claims /\ j.sig \in Sig
    BY <1>14 DEF Broadcast, TypeOK, WithSig, Job, PC
  <2>2. CoreTypeOK' /\ crashes' \in Nat /\ UNCHANGED queue
    BY <1>14 DEF Broadcast, TypeOK, CoreTypeOK, rowVars, TxState
  <2> QED
    BY <1>14, <2>1, <2>2, <1>j DEF Broadcast
<1>15. ASSUME NEW w \in Workers, Crash(w) PROVE TypeOK'
  <2>1. CoreTypeOK' /\ crashes' \in Nat /\ queue' \in [Workers -> SUBSET Claims]
    BY <1>15, <1>same DEF Crash, TypeOK
  <2> QED
    BY <1>15, <2>1 DEF Crash, Done, NoJob, WithSig, TypeOK
<1>16. CASE Approve
  BY <1>16 DEF Approve, ApproveClaim, TypeOK, CoreTypeOK, chainVars
<1>17. CASE ChainStep
  <2>1. CoreTypeOK
    BY DEF TypeOK
  <2>2. ASSUME Refill PROVE CoreTypeOK'
    BY <2>1, <2>2, CoreAssumption DEF Refill, CoreTypeOK, rowVars
  <2>3. ASSUME NEW s \in Sig,
               Land(s) \/ LandWithError(s) \/ DropBlock(s) \/ AgeBlockhash(s)
        PROVE  CoreTypeOK'
    BY <2>1, <2>3 DEF Land, LandWithError, DropBlock, AgeBlockhash, CoreTypeOK,
                      rowVars, TxState
  <2>4. ASSUME NEW s \in Sig, ConfirmBlock(s) PROVE CoreTypeOK'
    <3>1. Amount[ClaimOf(s)] \in Nat
      BY CoreAssumption DEF Sig, ClaimOf
    <3> QED
      BY <2>1, <2>4, <3>1 DEF ConfirmBlock, CoreTypeOK, rowVars, TxState
  <2> QED
    BY <1>17, <2>2, <2>3, <2>4 DEF ChainStep, TypeOK
<1>18. CASE UNCHANGED vars
  BY <1>18, <1>same DEF TypeOK, vars
<1> QED
  <2>1. \A w \in Workers : queue[w] \subseteq Claims
    BY DEF TypeOK
  <2> QED
    BY <2>1, <1>0, <1>1, <1>2, <1>3, <1>4, <1>5, <1>6, <1>7, <1>8, <1>9, <1>10, <1>11,
       <1>12, <1>13, <1>14, <1>15, <1>16, <1>17, <1>18 DEF Next, WorkerStep

\* Every reachable state of any number of workers is well typed: a busy worker
\* has a claim, and a signature wherever it is about to use one, so that no
\* NULL is ever confirmed, finalized or broadcast.
THEOREM TypeCorrect == Spec => []TypeOK
BY TypeInit, TypeNext, PTL DEF Spec

\* The transactions of dispatch-core.ts keep claim and asset in agreement and
\* report a claim confirmed only with the confirmed signature they are given.
LEMMA RowsTellPaid ==
  ASSUME CoreTypeOK, ConfirmedWasPaid, NEW c \in Claims, UNCHANGED tx,
         \/ \E s \in Sig : \/ PersistDispatching(c, s)
                           \/ tx[s] = "confirmed" /\ FinalizeConfirmed(c, s)
         \/ MarkFailed(c) \/ MarkNeedsOperator(c) \/ ClearDeadSignature(c)
         \/ RouteToReview(c) \/ RouteToManualVaultDelivery(c)
         \/ UNCHANGED rowVars
  PROVE  ConfirmedWasPaid'
<1> USE DEF CoreTypeOK, ConfirmedWasPaid, rowVars
<1>1. ASSUME NEW s \in Sig, PersistDispatching(c, s) PROVE ConfirmedWasPaid'
  BY <1>1 DEF PersistDispatching, CanDispatch
<1>2. ASSUME NEW s \in Sig, tx[s] = "confirmed", FinalizeConfirmed(c, s)
      PROVE  ConfirmedWasPaid'
  BY <1>2 DEF FinalizeConfirmed
<1>3. CASE MarkFailed(c) \/ MarkNeedsOperator(c)
  BY <1>3 DEF MarkFailed, MarkNeedsOperator
<1>4. CASE ClearDeadSignature(c)
  BY <1>4 DEF ClearDeadSignature
<1>5. CASE RouteToReview(c) \/ RouteToManualVaultDelivery(c)
  BY <1>5 DEF RouteToReview, RouteToManualVaultDelivery, ParkAs, ParkedAsset
<1>6. CASE UNCHANGED rowVars
  BY <1>6
<1> QED
  BY <1>1, <1>2, <1>3, <1>4, <1>5, <1>6

-----------------------------------------------------------------------------
(***************************************************************************)
(* Exactly-once, for one worker and a confirmation RPC that does not lag.  *)
(***************************************************************************)

LEMMA OnceInit == Init => ExactlyOnceInv
<1> SUFFICES ASSUME Init PROVE ExactlyOnceInv
  OBVIOUS
<1>1. OnlyRecordedIsAlive
  BY DEF Init, CoreInit, OnlyRecordedIsAlive, Alive, Landable
<1>2. RowsCoherent
  BY DEF Init, CoreInit, RowsCoherent
<1>3. ASSUME NEW w \in Workers PROVE JobCurrent(w)
  BY DEF Init, NoJob, JobCurrent, Recovering, Fresh
<1> QED
  BY <1>1, <1>2, <1>3 DEF ExactlyOnceInv

\* A worker at rest has read nothing.
LEMMA RestIsCurrent ==
  ASSUME TypeOK, NEW w \in Workers, Done(w)
  PROVE  JobCurrent(w)'
BY DEF TypeOK, Done, NoJob, JobCurrent, Recovering, Fresh

\* One worker's view decides for all of them.
LEMMA OneView ==
  ASSUME SingleWorker, NEW w \in Workers, JobCurrent(w)'
  PROVE  \A v \in Workers : JobCurrent(v)'
BY DEF SingleWorker

LEMMA SameRowsSameChain ==
  ASSUME ExactlyOnceInv, UNCHANGED <<rowVars, chainVars>>
  PROVE  OnlyRecordedIsAlive' /\ RowsCoherent'
BY DEF ExactlyOnceInv, OnlyRecordedIsAlive, RowsCoherent, Alive, Landable,
       rowVars, chainVars

\* The recovery path: what it reads of the recorded signature stays true.
LEMMA OnceRecover ==
  ASSUME SingleWorker, ~LaggingRpc, TypeOK, ExactlyOnceInv, NEW w \in Workers,
         \/ RunOnce(w) \/ \E c \in Claims : ProcessClaim(w, c)
         \/ SampleHeight(w) \/ ReadStatus(w) \/ ScanOutflow(w)
  PROVE  ExactlyOnceInv'
<1>1. OnlyRecordedIsAlive' /\ RowsCoherent'
  BY SameRowsSameChain DEF RunOnce, ProcessClaim, SampleHeight, ReadStatus, ScanOutflow
<1>2. JobCurrent(w)'
  <2> DEFINE c == job[w].claim
             s == job[w].sig
  <2>0. CASE RunOnce(w)
    BY <2>0 DEF RunOnce, ExactlyOnceInv, JobCurrent, Recovering, Fresh
  <2>1. ASSUME NEW d \in Claims, ProcessClaim(w, d) PROVE JobCurrent(w)'
    <3>0. UNCHANGED <<rowVars, chainVars>>
      BY <2>1 DEF ProcessClaim
    <3>1. CASE job' = [job EXCEPT ![w] = NoJob]
      BY <3>1, RestIsCurrent DEF Done
    <3>2. CASE /\ sig[d] # None /\ status[d] \in {"dispatching", "verified"}
               /\ job' = [job EXCEPT ![w] =
                    [NoJob EXCEPT !.pc = "sample", !.claim = d, !.sig = sig[d],
                       !.known = {sig[d]} \cup txSigs[d], !.resign = resign[d]]]
      <4>1. /\ status[d] = "dispatching"
            /\ \A k \in {sig[d]} \cup txSigs[d] : ClaimOf(k) = d
        BY <3>2 DEF ExactlyOnceInv, RowsCoherent
      <4>2. /\ job'[w].pc = "sample" /\ job'[w].claim = d /\ job'[w].sig = sig[d]
            /\ job'[w].known = {sig[d]} \cup txSigs[d]
        BY <3>2 DEF TypeOK, NoJob
      <4> QED
        BY <3>0, <4>1, <4>2 DEF JobCurrent, Recovering, Fresh, rowVars
    <3>3. CASE /\ status[d] \in {"verified", "pending_review"}
               /\ job' = [job EXCEPT ![w] = [NoJob EXCEPT !.pc = "load", !.claim = d]]
      <4>1. job'[w].pc = "load" /\ job'[w].claim = d /\ job'[w].known = {}
        BY <3>3 DEF TypeOK, NoJob
      <4> QED
        BY <3>0, <3>3, <4>1 DEF JobCurrent, Recovering, Fresh, rowVars
    <3> QED
      BY <2>1, <3>1, <3>2, <3>3 DEF ProcessClaim
  <2>2. CASE SampleHeight(w)
    BY <2>2 DEF SampleHeight, TypeOK, CoreTypeOK, WithSig, Job, ExactlyOnceInv,
         JobCurrent, Recovering, Fresh, rowVars, chainVars
  <2>3. CASE ReadStatus(w)
    <3>1. PICK answer \in StatusAnswers(s) :
            LET state == Classify(answer, job[w].height)
            IN \/ state = "confirmed" /\ Goto(w, "finalize")
               \/ state = "failed"    /\ Goto(w, "fail")
               \/ state = "expired"   /\ ~job[w].inline /\ Goto(w, "scan")
               \/ Goto(w, "sample")
               \/ Done(w)
      BY <2>3 DEF ReadStatus
    <3>2. /\ job[w].pc = "status" /\ s \in Sig /\ c \in Claims
          /\ sig[c] = s /\ status[c] = "dispatching" /\ ClaimOf(s) = c
          /\ job[w].height <= age[s]
          /\ \A k \in job[w].known : ClaimOf(k) = c
      BY <2>3 DEF ReadStatus, TypeOK, CoreTypeOK, WithSig, ExactlyOnceInv, RowsCoherent,
           JobCurrent, Recovering
    <3>3. UNCHANGED <<rowVars, chainVars>>
      BY <2>3 DEF ReadStatus
    <3>4. CASE Classify(answer, job[w].height) = "confirmed" /\ Goto(w, "finalize")
      <4>1. tx[s] = "confirmed"
        BY <3>1, <3>2, <3>4 DEF Classify, IsConfirmed, PastLastValid, StatusAnswers, TypeOK, CoreTypeOK, TxState
      <4> QED
        BY <3>2, <3>3, <3>4, <4>1 DEF Goto, TypeOK, Job, JobCurrent, Recovering,
             Fresh, rowVars, chainVars
    <3>5. CASE Classify(answer, job[w].height) = "failed" /\ Goto(w, "fail")
      <4>1. tx[s] \in {"processed_err", "failed"}
        BY <3>1, <3>2, <3>5 DEF Classify, IsConfirmed, PastLastValid, StatusAnswers, TypeOK, CoreTypeOK, TxState
      <4> QED
        BY <3>2, <3>3, <3>5, <4>1 DEF Goto, TypeOK, Job, JobCurrent, Recovering,
             Fresh, rowVars, chainVars
    <3>6. CASE Classify(answer, job[w].height) = "expired" /\ Goto(w, "scan")
      <4>1. answer = "not_found" /\ job[w].height = 2
        BY <3>6, <3>2 DEF Classify, PastLastValid, IsConfirmed, TypeOK, Job
      <4>2. tx[s] \in {"unsent", "inflight"}
        BY <3>1, <3>2, <4>1 DEF StatusAnswers, TypeOK, CoreTypeOK, TxState
      <4>3. age[s] = 2
        BY <3>2, <4>1 DEF TypeOK, CoreTypeOK
      <4>4. ~Alive(s)
        BY <4>2, <4>3 DEF Alive, Landable
      <4> QED
        BY <3>2, <3>3, <3>6, <4>3, <4>4 DEF Goto, TypeOK, Job, JobCurrent, Recovering,
             Fresh, Alive, Landable, rowVars, chainVars
    <3>7. CASE Goto(w, "sample")
      BY <3>2, <3>3, <3>7 DEF Goto, TypeOK, Job, JobCurrent, Recovering, Fresh,
           rowVars, chainVars
    <3> QED
      BY <3>1, <3>4, <3>5, <3>6, <3>7, RestIsCurrent
  <2>4. CASE ScanOutflow(w)
    <3>1. /\ job[w].pc = "scan" /\ s \in Sig /\ c \in Claims
          /\ sig[c] = s /\ status[c] = "dispatching" /\ ~Alive(s) /\ age[s] = 2
          /\ \A k \in job[w].known : ClaimOf(k) = c
      BY <2>4 DEF ScanOutflow, TypeOK, WithSig, ExactlyOnceInv, JobCurrent, Recovering
    <3>2. UNCHANGED <<rowVars, chainVars>>
      BY <2>4 DEF ScanOutflow
    <3>3. ASSUME NEW k \in Outflows(w) PROVE FALSE
      \* A confirmed signature of the claim is the recorded one, which is dead.
      BY <3>1, <3>3 DEF Outflows, TypeOK, Job, ExactlyOnceInv, OnlyRecordedIsAlive, Alive
    <3>4. Goto(w, "freeze") \/ Goto(w, "clear")
      BY <2>4, <3>3 DEF ScanOutflow
    <3> QED
      BY <3>1, <3>2, <3>4 DEF Goto, TypeOK, Job, JobCurrent, Recovering, Fresh,
           Alive, Landable, rowVars, chainVars
  <2> QED
    BY <2>0, <2>1, <2>2, <2>3, <2>4
<1> QED
  BY <1>1, <1>2, OneView DEF ExactlyOnceInv

\* The decisions: only a dead signature is cleared, and only the row of the
\* claim at hand changes.
LEMMA OnceDecide ==
  ASSUME SingleWorker, TypeOK, ExactlyOnceInv, NEW w \in Workers,
         \/ ClearAndRedispatch(w) \/ FreezeClaim(w) \/ FailClaim(w)
         \/ FinalizeClaim(w) \/ ReviewClaim(w) \/ ManualVault(w)
  PROVE  ExactlyOnceInv'
<1> DEFINE c == job[w].claim
           s == job[w].sig
<1>1. c \in Claims /\ UNCHANGED chainVars
  BY DEF ClearAndRedispatch, FreezeClaim, FailClaim, FinalizeClaim, ReviewClaim,
         ManualVault, TypeOK
<1>2. CASE ClearAndRedispatch(w)
  <2>1. s \in Sig /\ sig[c] = s /\ status[c] = "dispatching" /\ ~Alive(s) /\ batch[c] = None
    BY <1>2, <1>1 DEF ClearAndRedispatch, TypeOK, WithSig, ExactlyOnceInv, RowsCoherent,
         JobCurrent, Recovering
  <2>2. /\ status' = [status EXCEPT ![c] = IF approved[c] THEN "pending_review"
                                                         ELSE "verified"]
        /\ sig' = [sig EXCEPT ![c] = None]
        /\ UNCHANGED <<approved, txSigs, batch, asset>>
    BY <1>2, <2>1 DEF ClearAndRedispatch, ClearDeadSignature
  <2>3. OnlyRecordedIsAlive'
    BY <1>1, <2>1, <2>2, CoreAssumption DEF TypeOK, CoreTypeOK, ExactlyOnceInv,
         OnlyRecordedIsAlive, Alive, Landable, chainVars
  <2>4. RowsCoherent'
    BY <1>1, <2>1, <2>2 DEF TypeOK, CoreTypeOK, ExactlyOnceInv, RowsCoherent
  <2>5. JobCurrent(w)'
    BY <1>1, <1>2, <2>2 DEF ClearAndRedispatch, NoJob, TypeOK, CoreTypeOK,
         JobCurrent, Recovering, Fresh
  <2> QED
    BY <2>3, <2>4, <2>5, OneView DEF ExactlyOnceInv
<1>3. CASE FreezeClaim(w) \/ FailClaim(w) \/ ReviewClaim(w) \/ ManualVault(w)
  <2>1. /\ UNCHANGED <<sig, txSigs, batch>>
        /\ \/ UNCHANGED status
           \/ \E n \in {"needs_operator", "failed", "pending_review",
                        "awaiting_manual_vault_delivery"} :
                /\ status' = [status EXCEPT ![c] = n]
                /\ n = "pending_review" => status[c] \in {"verified", "pending_review"}
    BY <1>3 DEF FreezeClaim, FailClaim, ReviewClaim, ManualVault, MarkNeedsOperator,
         MarkFailed, RouteToReview, RouteToManualVaultDelivery, ParkAs, ParkedAsset, rowVars,
         ExactlyOnceInv, JobCurrent, Fresh
  <2>2. OnlyRecordedIsAlive'
    BY <1>1, <2>1 DEF ExactlyOnceInv, OnlyRecordedIsAlive, Alive, Landable, chainVars
  <2>3. RowsCoherent'
    BY <1>1, <2>1 DEF TypeOK, CoreTypeOK, ExactlyOnceInv, RowsCoherent
  <2>4. Done(w)
    BY <1>3 DEF FreezeClaim, FailClaim, ReviewClaim, ManualVault
  <2> QED
    BY <2>2, <2>3, <2>4, RestIsCurrent, OneView DEF ExactlyOnceInv
<1>4. CASE FinalizeClaim(w)
  <2>1. ClaimOf(s) = c /\ status[c] = "dispatching" /\ Done(w)
    BY <1>4 DEF FinalizeClaim, ExactlyOnceInv, JobCurrent
  <2>2. /\ status' = [status EXCEPT ![c] = "confirmed"]
        /\ txSigs' = [txSigs EXCEPT ![c] = @ \cup {s}]
        /\ UNCHANGED <<approved, sig, resign, batch>>
    BY <1>4, <2>1 DEF FinalizeClaim, FinalizeConfirmed
  <2>3. OnlyRecordedIsAlive'
    <3>1. \A d \in Claims : txSigs[d] \subseteq txSigs'[d]
      BY <1>1, <2>2 DEF TypeOK, CoreTypeOK
    <3>2. \A t \in Sig : ClaimOf(t) \in Claims
      BY DEF Sig, ClaimOf
    <3> QED
      BY <1>1, <2>2, <3>1, <3>2 DEF ExactlyOnceInv, OnlyRecordedIsAlive, Alive,
           Landable, chainVars
  <2>4. RowsCoherent'
    BY <1>1, <2>1, <2>2 DEF TypeOK, CoreTypeOK, ExactlyOnceInv, RowsCoherent
  <2> QED
    BY <2>1, <2>3, <2>4, RestIsCurrent, OneView DEF ExactlyOnceInv
<1> QED
  BY <1>2, <1>3, <1>4

\* A fresh dispatch: a claim that is signed has no live signature.
LEMMA OnceDispatch ==
  ASSUME SingleWorker, TypeOK, ExactlyOnceInv, NEW w \in Workers,
         \/ LoadFresh(w) \/ CheckFloat(w) \/ SignTransaction(w)
         \/ PersistSigned(w) \/ Broadcast(w) \/ Crash(w)
  PROVE  ExactlyOnceInv'
<1> DEFINE c == job[w].claim
           s == job[w].sig
<1>1. CASE LoadFresh(w)
  <2>1. OnlyRecordedIsAlive' /\ RowsCoherent'
    BY <1>1, SameRowsSameChain DEF LoadFresh
  <2>2. c \in Claims /\ status[c] \in {"verified", "pending_review"}
        /\ \A k \in job[w].known : ClaimOf(k) = c
    BY <1>1 DEF LoadFresh, TypeOK, ExactlyOnceInv, JobCurrent, Fresh
  <2>3. JobCurrent(w)'
    <3>1. CASE Done(w)
      BY <3>1, RestIsCurrent
    <3>2. CASE job' = [job EXCEPT ![w] = [@ EXCEPT !.pc = LoadTarget(w, c),
                                                 !.approved = approved[c]]]
      <4>1. LoadTarget(w, c) \in {"idle", "float", "review", "sign"}
        BY DEF LoadTarget
      <4> QED
        BY <1>1, <2>2, <3>2, <4>1 DEF LoadFresh, TypeOK, Job, JobCurrent,
             Recovering, Fresh, rowVars
    <3> QED
      BY <1>1, <3>1, <3>2 DEF LoadFresh
  <2> QED
    BY <2>1, <2>3, OneView DEF ExactlyOnceInv
<1>2. CASE CheckFloat(w)
  <2>1. OnlyRecordedIsAlive' /\ RowsCoherent'
    BY <1>2, SameRowsSameChain DEF CheckFloat
  <2>2. c \in Claims /\ status[c] \in {"verified", "pending_review"}
        /\ \A k \in job[w].known : ClaimOf(k) = c
    BY <1>2 DEF CheckFloat, TypeOK, ExactlyOnceInv, JobCurrent, Fresh
  <2>3. Done(w) \/ \E label \in {"review", "sign", "manual"} : Goto(w, label)
    BY <1>2 DEF CheckFloat
  <2>4. JobCurrent(w)'
    <3>1. ASSUME NEW label \in {"review", "sign", "manual"}, Goto(w, label)
          PROVE  JobCurrent(w)'
      BY <1>2, <2>2, <3>1 DEF CheckFloat, Goto, TypeOK, Job, JobCurrent, Recovering,
           Fresh, rowVars
    <3> QED
      BY <2>3, <3>1, RestIsCurrent
  <2> QED
    BY <2>1, <2>4, OneView DEF ExactlyOnceInv
<1>3. CASE SignTransaction(w)
  <2>1. PICK t \in Unused(c) :
          /\ job' = [job EXCEPT ![w] = [@ EXCEPT !.pc = "persist", !.sig = t]]
          /\ age' = [age EXCEPT ![t] = 0]
    BY <1>3 DEF SignTransaction
  <2>2. t \in Sig /\ ClaimOf(t) = c /\ tx[t] = "unsent"
    BY <2>1 DEF Unused
  <2>3. c \in Claims /\ status[c] \in {"verified", "pending_review"}
        /\ \A k \in job[w].known : ClaimOf(k) = c
    BY <1>3 DEF SignTransaction, TypeOK, ExactlyOnceInv, JobCurrent, Fresh
  <2>4. UNCHANGED <<rowVars, tx>>
    BY <1>3 DEF SignTransaction
  <2>5. OnlyRecordedIsAlive' /\ RowsCoherent'
    BY <2>1, <2>2, <2>4 DEF TypeOK, CoreTypeOK, ExactlyOnceInv, OnlyRecordedIsAlive,
         RowsCoherent, Alive, Landable, rowVars
  <2>6. JobCurrent(w)'
    BY <2>1, <2>2, <2>3, <2>4 DEF TypeOK, Job, JobCurrent, Recovering, Fresh, rowVars
  <2> QED
    BY <2>5, <2>6, OneView DEF ExactlyOnceInv
<1>4. CASE PersistSigned(w)
  <2>1. /\ c \in Claims /\ s \in Sig /\ ClaimOf(s) = c /\ tx[s] = "unsent"
        /\ status[c] \in {"verified", "pending_review"} /\ sig[c] = None
        /\ \A k \in job[w].known : ClaimOf(k) = c
    BY <1>4 DEF PersistSigned, TypeOK, WithSig, ExactlyOnceInv, RowsCoherent,
         JobCurrent, Fresh
  <2>2. CASE Done(w) /\ UNCHANGED rowVars
    BY <1>4, <2>2, SameRowsSameChain, RestIsCurrent, OneView DEF PersistSigned,
         ExactlyOnceInv
  <2>3. CASE PersistDispatching(c, s) /\ Goto(w, "broadcast")
    <3>1. /\ status' = [status EXCEPT ![c] = "dispatching"]
          /\ sig'    = [sig EXCEPT ![c] = s]
          /\ txSigs' = [txSigs EXCEPT ![c] = @ \cup {s}]
          /\ UNCHANGED <<batch, chainVars>>
      BY <1>4, <2>3 DEF PersistSigned, PersistDispatching
    <3>2. \A d \in Claims : txSigs[d] \subseteq txSigs'[d]
      BY <2>1, <3>1 DEF TypeOK, CoreTypeOK
    <3>3. \A t \in Sig : ClaimOf(t) \in Claims
      BY DEF Sig, ClaimOf
    <3>4. \A t \in Sig : Alive(t) => ClaimOf(t) # c
      BY <2>1, CoreAssumption DEF ExactlyOnceInv, OnlyRecordedIsAlive
    <3>5. OnlyRecordedIsAlive'
      BY <2>1, <3>1, <3>2, <3>3, <3>4 DEF TypeOK, CoreTypeOK, ExactlyOnceInv,
           OnlyRecordedIsAlive, Alive, Landable, chainVars
    <3>6. RowsCoherent'
      BY <2>1, <3>1, CoreAssumption DEF TypeOK, CoreTypeOK, ExactlyOnceInv, RowsCoherent
    <3>7. JobCurrent(w)'
      BY <2>1, <2>3, <3>1 DEF Goto, TypeOK, CoreTypeOK, Job, JobCurrent, Recovering,
           Fresh, chainVars
    <3> QED
      BY <3>5, <3>6, <3>7, OneView DEF ExactlyOnceInv
  <2> QED
    BY <1>4, <2>2, <2>3 DEF PersistSigned
<1>5. CASE Broadcast(w)
  <2>1. /\ c \in Claims /\ s \in Sig /\ ClaimOf(s) = c /\ tx[s] = "unsent"
        /\ status[c] = "dispatching" /\ sig[c] = s /\ s \in txSigs[c]
        /\ \A k \in job[w].known : ClaimOf(k) = c
    BY <1>5, CoreAssumption DEF Broadcast, TypeOK, WithSig, ExactlyOnceInv,
         RowsCoherent, JobCurrent, Recovering
  <2>2. tx' = tx \/ tx' = [tx EXCEPT ![s] = "inflight"]
    BY <1>5, <2>1 DEF Broadcast
  <2>3. UNCHANGED <<rowVars, age>>
    BY <1>5 DEF Broadcast
  <2>4. OnlyRecordedIsAlive' /\ RowsCoherent'
    BY <2>1, <2>2, <2>3 DEF TypeOK, CoreTypeOK, ExactlyOnceInv, OnlyRecordedIsAlive,
         RowsCoherent, Alive, Landable, rowVars
  <2>5. JobCurrent(w)'
    BY <1>5, <2>1, <2>3 DEF Broadcast, TypeOK, Job, JobCurrent, Recovering, Fresh,
         rowVars
  <2> QED
    BY <2>4, <2>5, OneView DEF ExactlyOnceInv
<1>6. CASE Crash(w)
  BY <1>6, SameRowsSameChain, RestIsCurrent, OneView DEF Crash, ExactlyOnceInv
<1> QED
  BY <1>1, <1>2, <1>3, <1>4, <1>5, <1>6

\* The chain revives no dead signature, takes none back to unsent and none
\* back from confirmed; without forks, what failed stays failed.
LEMMA ChainIsTame ==
  ASSUME CoreTypeOK, NEW t \in Sig,
         \/ Refill
         \/ \E s \in Sig : \/ Land(s) \/ LandWithError(s) \/ ConfirmBlock(s)
                           \/ DropBlock(s) \/ AgeBlockhash(s)
  PROVE  /\ Alive(t)' => Alive(t)
         /\ tx'[t] = "unsent" <=> tx[t] = "unsent"
         /\ tx[t] = "confirmed" => tx'[t] = "confirmed"
         /\ age[t] <= age'[t] /\ age'[t] \in 0 .. 2
         /\ Forks \/ (tx[t] \in {"processed_err", "failed"}
                      => tx'[t] \in {"processed_err", "failed"})
         /\ Forks \/ (MayPay(t)' => MayPay(t))
<1> DEFINE Tame == /\ Alive(t)' => Alive(t)
                   /\ tx'[t] = "unsent" <=> tx[t] = "unsent"
                   /\ tx[t] = "confirmed" => tx'[t] = "confirmed"
                   /\ age[t] <= age'[t] /\ age'[t] \in 0 .. 2
                   /\ Forks \/ (tx[t] \in {"processed_err", "failed"}
                                => tx'[t] \in {"processed_err", "failed"})
                   /\ Forks \/ (MayPay(t)' => MayPay(t))
<1> USE DEF CoreTypeOK, Alive, MayPay, Landable
<1>1. ASSUME Refill PROVE Tame
  BY <1>1 DEF Refill
<1>2. ASSUME NEW s \in Sig, Land(s) \/ LandWithError(s) PROVE Tame
  BY <1>2 DEF Land, LandWithError
<1>3. ASSUME NEW s \in Sig, ConfirmBlock(s) PROVE Tame
  BY <1>3 DEF ConfirmBlock
<1>4. ASSUME NEW s \in Sig, DropBlock(s) PROVE Tame
  BY <1>4 DEF DropBlock
<1>5. ASSUME NEW s \in Sig, AgeBlockhash(s) PROVE Tame
  BY <1>5 DEF AgeBlockhash
<1> QED
  BY <1>1, <1>2, <1>3, <1>4, <1>5

LEMMA OnceChain ==
  ASSUME TypeOK, ExactlyOnceInv, ChainStep
  PROVE  ExactlyOnceInv'
<1>1. UNCHANGED <<rowVars, job>>
  BY DEF ChainStep, Refill, Land, LandWithError, ConfirmBlock, DropBlock, AgeBlockhash
<1>2. ASSUME NEW t \in Sig
      PROVE  /\ Alive(t)' => Alive(t)
             /\ tx'[t] = "unsent" <=> tx[t] = "unsent"
             /\ tx[t] = "confirmed" => tx'[t] = "confirmed"
             /\ age[t] <= age'[t] /\ age'[t] \in 0 .. 2
             /\ Forks \/ (tx[t] \in {"processed_err", "failed"}
                          => tx'[t] \in {"processed_err", "failed"})
  BY ChainIsTame DEF ChainStep, TypeOK
<1>3. OnlyRecordedIsAlive' /\ RowsCoherent'
  BY <1>1, <1>2 DEF ExactlyOnceInv, OnlyRecordedIsAlive, RowsCoherent, rowVars
<1>4. ASSUME NEW w \in Workers PROVE JobCurrent(w)'
  <2>1. JobCurrent(w) /\ (job[w].pc \in WithSig => job[w].sig \in Sig) /\ job[w] \in Job
    BY DEF ExactlyOnceInv, TypeOK
  <2> QED
    BY <1>1, <1>2, <2>1 DEF TypeOK, CoreTypeOK, Job, JobCurrent, Recovering, Fresh,
         WithSig, rowVars
<1> QED
  BY <1>3, <1>4 DEF ExactlyOnceInv

LEMMA OnceNext ==
  ASSUME SingleWorker, ~LaggingRpc, TypeOK, ExactlyOnceInv, [Next]_vars
  PROVE  ExactlyOnceInv'
<1>1. CASE Approve
  BY <1>1 DEF Approve, ApproveClaim, ExactlyOnceInv, OnlyRecordedIsAlive, RowsCoherent,
       JobCurrent, Alive, Landable, chainVars
<1>2. CASE UNCHANGED vars
  BY <1>2 DEF vars, ExactlyOnceInv, OnlyRecordedIsAlive, RowsCoherent, JobCurrent,
       Alive, Landable, rowVars, chainVars
<1>3. \A w \in Workers : queue[w] \subseteq Claims
  BY DEF TypeOK
<1> QED
  BY <1>1, <1>2, <1>3, OnceRecover, OnceDecide, OnceDispatch, OnceChain DEF Next, WorkerStep

\* The invariant behind exactly-once: with one worker and a confirmation RPC
\* that does not lag, the recorded signature of a claim is the only one that
\* has executed or can, whatever crashes, lost sends, forks and re-signs occur.
THEOREM OnlyRecordedSignatureIsAlive ==
  ASSUME SingleWorker, ~LaggingRpc
  PROVE  Spec => []ExactlyOnceInv
BY TypeCorrect, OnceInit, OnceNext, PTL DEF Spec

\* Exactly-once dispatch: no claim is ever paid by two confirmed transfers.
THEOREM ExactlyOnce ==
  ASSUME SingleWorker, ~LaggingRpc
  PROVE  Spec => []AtMostOneTransfer
<1>1. ExactlyOnceInv => AtMostOneTransfer
  BY DEF ExactlyOnceInv, OnlyRecordedIsAlive, Alive, AtMostOneTransfer
<1> QED
  BY <1>1, OnlyRecordedSignatureIsAlive, PTL

-----------------------------------------------------------------------------
(***************************************************************************)
(* Any number of workers, any RPC, any forks.                              *)
(***************************************************************************)

\* A signature that is about to be recorded or sent.
Held(w) == job[w].pc \in {"persist", "broadcast"}

\* What a worker holds to be sent is its own and was never sent, and what it
\* is about to finalize is confirmed.
HandsInv ==
  \A w \in Workers :
    /\ Held(w) => /\ tx[job[w].sig] = "unsent"
                  /\ ClaimOf(job[w].sig) = job[w].claim
                  /\ \A v \in Workers : v # w /\ Held(v) => job[v].sig # job[w].sig
    /\ job[w].pc = "finalize" => tx[job[w].sig] = "confirmed"

LEMMA HandsInit == Init => HandsInv
BY DEF Init, NoJob, HandsInv, Held

\* Most steps neither touch the chain nor come to hold a signature.
LEMMA HandsAside ==
  ASSUME TypeOK, HandsInv, NEW w \in Workers, NEW j,
         job' = [job EXCEPT ![w] = j], UNCHANGED tx,
         \/ j.pc \notin {"persist", "broadcast"}
         \/ Held(w) /\ j.sig = job[w].sig /\ j.claim = job[w].claim,
         j.pc = "finalize" => tx[j.sig] = "confirmed"
  PROVE  HandsInv'
<1>1. /\ job'[w] = j
      /\ \A v \in Workers : v # w => job'[v] = job[v]
  BY DEF TypeOK
<1>2. Held(w)' => Held(w) /\ job'[w].sig = job[w].sig /\ job'[w].claim = job[w].claim
  BY <1>1 DEF Held
<1>3. ASSUME NEW v \in Workers, v # w
      PROVE  /\ Held(v)' <=> Held(v)
             /\ job'[v] = job[v]
  BY <1>1, <1>3 DEF Held
<1> QED
  BY <1>1, <1>2, <1>3 DEF HandsInv

\* What getSignatureStatuses calls confirmed is confirmed, lagging or not.
LEMMA ConfirmedAnswer ==
  ASSUME TypeOK, NEW s \in Sig, NEW answer \in StatusAnswers(s), NEW h \in 0 .. 2,
         Classify(answer, h) = "confirmed"
  PROVE  tx[s] = "confirmed"
BY DEF Classify, IsConfirmed, PastLastValid, StatusAnswers, TypeOK, CoreTypeOK, TxState

LEMMA HandsNext == TypeOK /\ HandsInv /\ [Next]_vars => HandsInv'
<1> SUFFICES ASSUME TypeOK, HandsInv, [Next]_vars PROVE HandsInv'
  OBVIOUS
<1>done. ASSUME NEW w \in Workers, Done(w), UNCHANGED tx PROVE HandsInv'
  BY <1>done, HandsAside DEF Done, NoJob
<1>goto. ASSUME NEW w \in Workers, NEW label \in PC \ {"persist", "broadcast", "finalize"},
                Goto(w, label), UNCHANGED tx
         PROVE  HandsInv'
  BY <1>goto, HandsAside DEF Goto, TypeOK, Job
<1>same. ASSUME UNCHANGED <<job, tx>> PROVE HandsInv'
  BY <1>same DEF HandsInv, Held
<1>0. ASSUME NEW w \in Workers, RunOnce(w) PROVE HandsInv'
  BY <1>0, <1>same DEF RunOnce, chainVars
<1>1. ASSUME NEW w \in Workers, NEW c \in Claims, ProcessClaim(w, c) PROVE HandsInv'
  <2> DEFINE r == [NoJob EXCEPT !.pc = "sample", !.claim = c, !.sig = sig[c],
                        !.known = {sig[c]} \cup txSigs[c], !.resign = resign[c]]
             f == [NoJob EXCEPT !.pc = "load", !.claim = c]
  <2>1. r.pc = "sample" /\ f.pc = "load" /\ NoJob.pc = "idle"
    BY DEF NoJob
  <2>2. PICK j \in {r, f, NoJob} : job' = [job EXCEPT ![w] = j]
    BY <1>1 DEF ProcessClaim
  <2>3. UNCHANGED tx
    BY <1>1 DEF ProcessClaim, chainVars
  <2> HIDE DEF r, f
  <2> QED
    BY <2>1, <2>2, <2>3, HandsAside
<1>2. ASSUME NEW w \in Workers, SampleHeight(w) PROVE HandsInv'
  <2> DEFINE j == [job[w] EXCEPT !.pc = "status", !.height = age[job[w].sig]]
  <2>1. j.pc = "status"
    BY DEF TypeOK, Job
  <2> QED
    BY <1>2, <2>1, HandsAside DEF SampleHeight, chainVars
<1>3. ASSUME NEW w \in Workers, ReadStatus(w) PROVE HandsInv'
  <2>1. job[w].sig \in Sig /\ job[w].height \in 0 .. 2 /\ UNCHANGED tx
    BY <1>3 DEF ReadStatus, TypeOK, WithSig, Job, chainVars
  <2>2. \/ Done(w) \/ Goto(w, "fail") \/ Goto(w, "scan") \/ Goto(w, "sample")
        \/ tx[job[w].sig] = "confirmed" /\ Goto(w, "finalize")
    BY <1>3, <2>1, ConfirmedAnswer DEF ReadStatus
  <2>3. ASSUME tx[job[w].sig] = "confirmed", Goto(w, "finalize") PROVE HandsInv'
    BY <2>1, <2>3, HandsAside DEF Goto, TypeOK, Job
  <2> QED
    BY <2>1, <2>2, <2>3, <1>done, <1>goto DEF PC
<1>4. ASSUME NEW w \in Workers, ScanOutflow(w) PROVE HandsInv'
  <2>1. UNCHANGED tx
    BY <1>4 DEF ScanOutflow, chainVars
  <2>2. ASSUME NEW s \in Outflows(w),
               job' = [job EXCEPT ![w] = [@ EXCEPT !.pc = "finalize", !.sig = s]]
        PROVE  HandsInv'
    <3> DEFINE j == [job[w] EXCEPT !.pc = "finalize", !.sig = s]
    <3>1. j.pc = "finalize" /\ j.sig = s /\ tx[s] = "confirmed"
      BY <2>2 DEF Outflows, TypeOK, Job
    <3> QED
      BY <2>1, <2>2, <3>1, HandsAside
  <2> QED
    BY <1>4, <2>1, <2>2, <1>goto DEF ScanOutflow, PC
<1>5. ASSUME NEW w \in Workers, ClearAndRedispatch(w) PROVE HandsInv'
  BY <1>5, HandsAside DEF ClearAndRedispatch, chainVars, NoJob
<1>6. ASSUME NEW w \in Workers,
             \/ FreezeClaim(w) \/ FailClaim(w) \/ FinalizeClaim(w)
             \/ ReviewClaim(w) \/ ManualVault(w) \/ Crash(w)
      PROVE  HandsInv'
  BY <1>6, <1>done DEF FreezeClaim, FailClaim, FinalizeClaim, ReviewClaim, ManualVault,
       Crash, chainVars
<1>7. ASSUME NEW w \in Workers, LoadFresh(w) PROVE HandsInv'
  <2> DEFINE target == LoadTarget(w, job[w].claim)
             j == [job[w] EXCEPT !.pc = target, !.approved = approved[job[w].claim]]
  <2>1. target \in {"idle", "float", "review", "sign"}
    BY DEF LoadTarget
  <2>2. j.pc \notin {"persist", "broadcast", "finalize"}
    BY <2>1 DEF TypeOK, Job
  <2>3. (Done(w) \/ job' = [job EXCEPT ![w] = j]) /\ UNCHANGED tx
    BY <1>7 DEF LoadFresh, chainVars
  <2> HIDE DEF j
  <2> QED
    BY <2>2, <2>3, <1>done, HandsAside
<1>8. ASSUME NEW w \in Workers, CheckFloat(w) PROVE HandsInv'
  BY <1>8, <1>done, <1>goto DEF CheckFloat, chainVars, PC
<1>9. ASSUME NEW w \in Workers, SignTransaction(w) PROVE HandsInv'
  <2>1. PICK s \in Unused(job[w].claim) :
          job' = [job EXCEPT ![w] = [@ EXCEPT !.pc = "persist", !.sig = s]]
    BY <1>9 DEF SignTransaction
  <2>2. /\ s \in Sig /\ ClaimOf(s) = job[w].claim /\ tx[s] = "unsent" /\ UNCHANGED tx
        /\ \A v \in Workers : job[v].sig # s
    BY <1>9, <2>1 DEF SignTransaction, Unused
  <2>3. /\ job'[w].pc = "persist" /\ job'[w].sig = s /\ job'[w].claim = job[w].claim
        /\ \A v \in Workers : v # w => job'[v] = job[v]
    BY <2>1 DEF TypeOK, Job
  <2> QED
    BY <2>2, <2>3 DEF HandsInv, Held
<1>10. ASSUME NEW w \in Workers, PersistSigned(w) PROVE HandsInv'
  <2>1. UNCHANGED tx /\ Held(w) /\ (Done(w) \/ Goto(w, "broadcast"))
    BY <1>10 DEF PersistSigned, chainVars, Held
  <2>2. ASSUME Goto(w, "broadcast") PROVE HandsInv'
    <3> DEFINE j == [job[w] EXCEPT !.pc = "broadcast"]
    <3>1. j.pc = "broadcast" /\ j.sig = job[w].sig /\ j.claim = job[w].claim
      BY DEF TypeOK, Job
    <3> QED
      BY <2>1, <2>2, <3>1, HandsAside DEF Goto
  <2> QED
    BY <2>1, <2>2, <1>done
<1>11. ASSUME NEW w \in Workers, Broadcast(w) PROVE HandsInv'
  \* Nobody else holds the signature, and what is finalized is another one.
  <2> DEFINE s == job[w].sig
  <2>1. /\ s \in Sig /\ tx[s] = "unsent" /\ Held(w)
        /\ \A v \in Workers : v # w /\ Held(v) => job[v].sig # s
    BY <1>11 DEF Broadcast, TypeOK, WithSig, HandsInv, Held
  <2>2. /\ job'[w].pc = "sample"
        /\ \A v \in Workers : v # w => job'[v] = job[v]
        /\ \A t \in Sig : t # s => tx'[t] = tx[t]
    BY <1>11 DEF Broadcast, TypeOK, CoreTypeOK, Job
  <2>3. ASSUME NEW v \in Workers, v # w, Held(v) \/ job[v].pc = "finalize"
        PROVE  job[v].sig \in Sig /\ job[v].sig # s
    BY <2>1, <2>3 DEF TypeOK, WithSig, HandsInv, Held
  <2> QED
    BY <2>2, <2>3 DEF HandsInv, Held
<1>12. CASE Approve
  BY <1>12, <1>same DEF Approve, ApproveClaim, chainVars
<1>13. CASE ChainStep
  <2>1. \A t \in Sig : /\ tx[t] = "unsent" => tx'[t] = "unsent"
                       /\ tx[t] = "confirmed" => tx'[t] = "confirmed"
    BY <1>13, ChainIsTame DEF ChainStep, TypeOK
  <2>2. UNCHANGED job
    BY <1>13 DEF ChainStep
  <2> QED
    BY <2>1, <2>2 DEF TypeOK, WithSig, HandsInv, Held
<1>14. CASE UNCHANGED vars
  BY <1>14, <1>same DEF vars, chainVars
<1> QED
  <2>1. \A w \in Workers : queue[w] \subseteq Claims
    BY DEF TypeOK
  <2> QED
    BY <2>1, <1>0, <1>1, <1>2, <1>3, <1>4, <1>5, <1>6, <1>7, <1>8, <1>9, <1>10, <1>11,
       <1>12, <1>13, <1>14 DEF Next, WorkerStep

-----------------------------------------------------------------------------

\* No step takes back a confirmation of the chain.
LEMMA ConfirmedStays ==
  ASSUME TypeOK, [Next]_vars, NEW s \in Sig, tx[s] = "confirmed"
  PROVE  tx'[s] = "confirmed"
<1>1. ASSUME NEW w \in Workers, WorkerStep(w) \/ Crash(w) PROVE tx'[s] = tx[s]
  <2>1. CASE Broadcast(w)
    BY <2>1 DEF Broadcast, TypeOK, CoreTypeOK
  <2>2. CASE SignTransaction(w)
    BY <2>2 DEF SignTransaction
  <2> QED
    BY <1>1, <2>1, <2>2 DEF WorkerStep, Crash, RunOnce, ProcessClaim, SampleHeight, ReadStatus,
         ScanOutflow, ClearAndRedispatch, FreezeClaim, FailClaim, FinalizeClaim,
         LoadFresh, CheckFloat, ReviewClaim, ManualVault, PersistSigned, chainVars
<1>2. CASE Approve \/ UNCHANGED vars
  BY <1>2 DEF Approve, ApproveClaim, vars, chainVars
<1>3. CASE ChainStep
  BY <1>3, ChainIsTame DEF ChainStep, TypeOK
<1> QED
  BY <1>1, <1>2, <1>3 DEF Next

\* What is about to be finalized is confirmed.
FinalInv == \A w \in Workers : job[w].pc = "finalize" => tx[job[w].sig] = "confirmed"

LEMMA PaidNext ==
  TypeOK /\ FinalInv /\ ConfirmedWasPaid /\ [Next]_vars => ConfirmedWasPaid'
<1> SUFFICES ASSUME TypeOK, FinalInv, ConfirmedWasPaid, [Next]_vars PROVE ConfirmedWasPaid'
  OBVIOUS
<1>1. CoreTypeOK
  BY DEF TypeOK
<1>same. ASSUME UNCHANGED <<status, txSigs, asset>> PROVE ConfirmedWasPaid'
  BY <1>same, ConfirmedStays DEF ConfirmedWasPaid, TypeOK, CoreTypeOK
<1>2. ASSUME NEW w \in Workers,
             \/ RunOnce(w) \/ \E c \in queue[w] : ProcessClaim(w, c)
             \/ SampleHeight(w) \/ ReadStatus(w) \/ ScanOutflow(w)
             \/ LoadFresh(w) \/ CheckFloat(w) \/ SignTransaction(w)
             \/ Broadcast(w) \/ Crash(w)
      PROVE  ConfirmedWasPaid'
  BY <1>2, <1>same DEF RunOnce, ProcessClaim, SampleHeight, ReadStatus, ScanOutflow,
       LoadFresh, CheckFloat, SignTransaction, Broadcast, Crash, rowVars
<1>3. ASSUME NEW w \in Workers,
             \/ ClearAndRedispatch(w) \/ FreezeClaim(w) \/ FailClaim(w)
             \/ ReviewClaim(w) \/ ManualVault(w)
      PROVE  ConfirmedWasPaid'
  BY <1>1, <1>3, RowsTellPaid DEF ClearAndRedispatch, FreezeClaim, FailClaim, ReviewClaim,
       ManualVault, chainVars, TypeOK
<1>4. ASSUME NEW w \in Workers, PersistSigned(w) \/ FinalizeClaim(w) PROVE ConfirmedWasPaid'
  <2>1. job[w].claim \in Claims /\ job[w].sig \in Sig
        /\ (job[w].pc = "finalize" => tx[job[w].sig] = "confirmed")
    BY <1>4 DEF PersistSigned, FinalizeClaim, TypeOK, WithSig, FinalInv
  <2> QED
    BY <1>1, <1>4, <2>1, RowsTellPaid DEF PersistSigned, FinalizeClaim, chainVars
<1>5. CASE Approve \/ ChainStep \/ UNCHANGED vars
  BY <1>5, <1>same DEF Approve, ApproveClaim, ChainStep, Refill, Land, LandWithError,
       ConfirmBlock, DropBlock, AgeBlockhash, vars, rowVars
<1> QED
  BY <1>2, <1>3, <1>4, <1>5 DEF Next, WorkerStep

\* A claim is reported confirmed, and its asset claimed, only after a recorded
\* signature of it was confirmed on chain: for any number of daemons and
\* batches at work on the same claims, a lagging RPC and dropped blocks.
THEOREM ReportedMeansPaid == Spec => []ConfirmedWasPaid
<1>1. Init => ConfirmedWasPaid
  BY DEF Init, CoreInit, ConfirmedWasPaid
<1>2. HandsInv => FinalInv
  BY DEF HandsInv, FinalInv
<1> QED
  BY <1>1, <1>2, TypeCorrect, HandsInit, HandsNext, PaidNext, PTL DEF Spec

-----------------------------------------------------------------------------

\* The claim may be sent: approved, or neither an ANT that needs approval nor
\* over the brake.
MaySend(c) ==
  \/ approved[c]
  \/ /\ AssetType[c] = "ant" => ~AntRequiresApproval
     /\ BigClaimThreshold > 0 => Amount[c] <= BigClaimThreshold

\* What a worker read of the approval still holds, and from the moment it
\* signs the claim may be sent.
GateOf(w) ==
  /\ job[w].pc # "idle" /\ job[w].approved => approved[job[w].claim]
  /\ job[w].pc = "float" => AssetType[job[w].claim] # "ant"
  /\ job[w].pc \in {"sign", "persist", "broadcast"} => MaySend(job[w].claim)

GateInv == NothingSentUnapproved /\ \A w \in Workers : GateOf(w)

\* An approval is never taken back.
LEMMA ApprovalStays ==
  ASSUME TypeOK, [Next]_vars, NEW c \in Claims
  PROVE  (approved[c] => approved'[c]) /\ (MaySend(c) => MaySend(c)')
<1>1. approved[c] => approved'[c]
  <2>1. ASSUME NEW w \in Workers, WorkerStep(w) \/ Crash(w) PROVE UNCHANGED approved
    BY <2>1 DEF WorkerStep, Crash, RunOnce, ProcessClaim, SampleHeight, ReadStatus,
         ScanOutflow, ClearAndRedispatch, FreezeClaim, FailClaim, FinalizeClaim, LoadFresh,
         CheckFloat, ReviewClaim, ManualVault, SignTransaction, PersistSigned, Broadcast,
         PersistDispatching, FinalizeConfirmed, MarkFailed, MarkNeedsOperator,
         ClearDeadSignature, RouteToReview, RouteToManualVaultDelivery, ParkAs, rowVars
  <2>2. CASE Approve
    BY <2>2 DEF Approve, ApproveClaim, TypeOK, CoreTypeOK
  <2>3. CASE ChainStep \/ UNCHANGED vars
    BY <2>3 DEF ChainStep, Refill, Land, LandWithError, ConfirmBlock, DropBlock,
         AgeBlockhash, vars, rowVars
  <2> QED
    BY <2>1, <2>2, <2>3 DEF Next
<1> QED
  BY <1>1 DEF MaySend

LEMMA GateNext ==
  TypeOK /\ HandsInv /\ GateInv /\ [Next]_vars => GateInv'
<1> SUFFICES ASSUME TypeOK, HandsInv, GateInv, [Next]_vars PROVE GateInv'
  OBVIOUS
<1>sig. \A s \in Sig : ClaimOf(s) \in Claims
  BY DEF Sig, ClaimOf
<1>stay. \A c \in Claims : (approved[c] => approved'[c]) /\ (MaySend(c) => MaySend(c)')
  BY ApprovalStays
<1>sent. NothingSentUnapproved'
  <2>1. ASSUME NEW s \in Sig, tx[s] # "unsent" PROVE MaySend(ClaimOf(s))'
    BY <1>sig, <1>stay, <2>1 DEF GateInv, NothingSentUnapproved, MaySend
  <2>2. ASSUME NEW w \in Workers, Broadcast(w), NEW s \in Sig, tx'[s] # "unsent",
               tx[s] = "unsent"
        PROVE  MaySend(ClaimOf(s))'
    <3>1. s = job[w].sig /\ ClaimOf(s) = job[w].claim /\ MaySend(ClaimOf(s))
      BY <2>2 DEF Broadcast, TypeOK, CoreTypeOK, WithSig, HandsInv, Held, GateInv, GateOf
    <3> QED
      BY <3>1, <1>sig, <1>stay
  <2>3. ASSUME NEW w \in Workers, WorkerStep(w) \/ Crash(w), ~Broadcast(w) PROVE UNCHANGED tx
    BY <2>3 DEF WorkerStep, Crash, RunOnce, ProcessClaim, SampleHeight, ReadStatus,
         ScanOutflow, ClearAndRedispatch, FreezeClaim, FailClaim, FinalizeClaim,
         LoadFresh, CheckFloat, ReviewClaim, ManualVault, SignTransaction, PersistSigned,
         chainVars
  <2>4. ASSUME ChainStep, NEW s \in Sig PROVE tx'[s] = "unsent" <=> tx[s] = "unsent"
    BY <2>4, ChainIsTame DEF ChainStep, TypeOK
  <2>5. CASE Approve \/ UNCHANGED vars
    BY <2>1, <2>5 DEF Approve, ApproveClaim, vars, chainVars, NothingSentUnapproved, MaySend
  <2> QED
    BY <2>1, <2>2, <2>3, <2>4, <2>5 DEF Next, NothingSentUnapproved, MaySend
<1>job. ASSUME NEW w \in Workers, NEW j \in Job, job' = [job EXCEPT ![w] = j],
               j.pc # "idle" => j.claim \in Claims,
               j.pc # "idle" /\ j.approved => approved[j.claim],
               j.pc = "float" => AssetType[j.claim] # "ant",
               j.pc \in {"sign", "persist", "broadcast"} => MaySend(j.claim)
        PROVE  \A v \in Workers : GateOf(v)'
  <2>1. job'[w] = j /\ \A v \in Workers : v # w => job'[v] = job[v]
    BY <1>job DEF TypeOK
  <2>2. ASSUME NEW v \in Workers, job'[v] = job[v] PROVE GateOf(v)'
    BY <2>2, <1>stay DEF GateInv, GateOf, TypeOK
  <2>3. GateOf(w)'
    BY <2>1, <1>job, <1>stay DEF GateOf
  <2> QED
    BY <2>1, <2>2, <2>3
<1>done. ASSUME NEW w \in Workers, Done(w) PROVE \A v \in Workers : GateOf(v)'
  BY <1>done, <1>job, NoJobType DEF Done, NoJob
<1>goto. ASSUME NEW w \in Workers, NEW label \in PC, Goto(w, label), job[w].pc # "idle",
                label # "float",
                label \in {"sign", "persist", "broadcast"} => MaySend(job[w].claim)
         PROVE  \A v \in Workers : GateOf(v)'
  <2> DEFINE j == [job[w] EXCEPT !.pc = label]
  <2>1. /\ j \in Job /\ j.pc = label /\ j.claim = job[w].claim /\ j.approved = job[w].approved
        /\ job[w].claim \in Claims
    BY <1>goto DEF TypeOK, Job
  <2>2. job' = [job EXCEPT ![w] = j]
    BY <1>goto DEF Goto
  <2>3. j.approved => approved[j.claim]
    BY <2>1, <1>goto DEF GateInv, GateOf
  <2> HIDE DEF j
  <2> QED
    BY <2>1, <2>2, <2>3, <1>goto, <1>job
<1>same. ASSUME UNCHANGED job PROVE \A v \in Workers : GateOf(v)'
  BY <1>same, <1>stay DEF GateInv, GateOf, TypeOK
<1>0. ASSUME NEW w \in Workers, RunOnce(w) PROVE \A v \in Workers : GateOf(v)'
  BY <1>0, <1>same DEF RunOnce
<1>1. ASSUME NEW w \in Workers, NEW c \in Claims, ProcessClaim(w, c)
      PROVE  \A v \in Workers : GateOf(v)'
  <2> DEFINE r == [NoJob EXCEPT !.pc = "sample", !.claim = c, !.sig = sig[c],
                        !.known = {sig[c]} \cup txSigs[c], !.resign = resign[c]]
             f == [NoJob EXCEPT !.pc = "load", !.claim = c]
  <2>1. sig[c] # None => r \in Job
    BY NoJobType DEF Job, PC, TypeOK, CoreTypeOK
  <2>2. f \in Job
    BY NoJobType DEF Job, PC
  <2>7. r.pc = "sample" /\ r.claim = c /\ f.pc = "load" /\ f.claim = c
    BY DEF NoJob
  <2>5. ~r.approved
    BY DEF NoJob
  <2>6. ~f.approved
    BY DEF NoJob
  <2>3. PICK j \in {r, f, NoJob} :
          job' = [job EXCEPT ![w] = j] /\ (j = r => sig[c] # None \/ j \in {f, NoJob})
    BY <1>1 DEF ProcessClaim
  <2>4. NoJob.pc = "idle"
    BY DEF NoJob
  <2> HIDE DEF r, f
  <2> QED
    BY <2>1, <2>2, <2>3, <2>4, <2>5, <2>6, <2>7, <1>job, NoJobType
<1>2. ASSUME NEW w \in Workers, SampleHeight(w) PROVE \A v \in Workers : GateOf(v)'
  <2> DEFINE j == [job[w] EXCEPT !.pc = "status", !.height = age[job[w].sig]]
  <2>1. /\ j \in Job /\ j.pc = "status" /\ j.claim = job[w].claim
        /\ j.approved = job[w].approved /\ job[w].claim \in Claims
    BY <1>2 DEF SampleHeight, TypeOK, CoreTypeOK, WithSig, Job, PC
  <2>2. j.approved => approved[j.claim]
    BY <1>2, <2>1 DEF SampleHeight, GateInv, GateOf
  <2>3. job' = [job EXCEPT ![w] = j]
    BY <1>2 DEF SampleHeight
  <2> HIDE DEF j
  <2> QED
    BY <2>1, <2>2, <2>3, <1>job
<1>3. ASSUME NEW w \in Workers, ReadStatus(w) PROVE \A v \in Workers : GateOf(v)'
  <2>1. Done(w) \/ \E label \in {"finalize", "fail", "scan", "sample"} : Goto(w, label)
    BY <1>3 DEF ReadStatus
  <2> QED
    BY <1>3, <2>1, <1>done, <1>goto DEF ReadStatus, PC
<1>4. ASSUME NEW w \in Workers, ScanOutflow(w) PROVE \A v \in Workers : GateOf(v)'
  <2>1. ASSUME NEW s \in Outflows(w),
               job' = [job EXCEPT ![w] = [@ EXCEPT !.pc = "finalize", !.sig = s]]
        PROVE  \A v \in Workers : GateOf(v)'
    <3> DEFINE j == [job[w] EXCEPT !.pc = "finalize", !.sig = s]
    <3>1. s \in Sig
      BY <2>1 DEF Outflows, TypeOK, Job
    <3>2. /\ j \in Job /\ j.pc = "finalize" /\ j.claim = job[w].claim
          /\ j.approved = job[w].approved /\ job[w].claim \in Claims
      BY <1>4, <3>1 DEF ScanOutflow, TypeOK, Job, PC
    <3>3. j.approved => approved[j.claim]
      BY <1>4, <3>2 DEF ScanOutflow, GateInv, GateOf
    <3>4. job' = [job EXCEPT ![w] = j]
      BY <2>1
    <3> HIDE DEF j
    <3> QED
      BY <3>2, <3>3, <3>4, <1>job
  <2>2. ASSUME NEW label \in {"freeze", "clear"}, Goto(w, label)
        PROVE  \A v \in Workers : GateOf(v)'
    BY <1>4, <2>2, <1>goto DEF ScanOutflow, PC
  <2> QED
    BY <1>4, <2>1, <2>2 DEF ScanOutflow
<1>5. ASSUME NEW w \in Workers, ClearAndRedispatch(w) PROVE \A v \in Workers : GateOf(v)'
  <2> DEFINE j == [NoJob EXCEPT !.pc = "load", !.claim = job[w].claim]
  <2>1. j \in Job /\ j.claim \in Claims
    BY <1>5, NoJobType DEF ClearAndRedispatch, TypeOK, Job, PC
  <2>4. j.pc = "load"
    BY DEF NoJob
  <2>3. ~j.approved
    BY DEF NoJob
  <2>2. job' = [job EXCEPT ![w] = j]
    BY <1>5 DEF ClearAndRedispatch
  <2> HIDE DEF j
  <2> QED
    BY <2>1, <2>2, <2>3, <2>4, <1>job
<1>6. ASSUME NEW w \in Workers,
             \/ FreezeClaim(w) \/ FailClaim(w) \/ FinalizeClaim(w)
             \/ ReviewClaim(w) \/ ManualVault(w) \/ Crash(w)
      PROVE  \A v \in Workers : GateOf(v)'
  BY <1>6, <1>done DEF FreezeClaim, FailClaim, FinalizeClaim, ReviewClaim, ManualVault, Crash
<1>7. ASSUME NEW w \in Workers, LoadFresh(w) PROVE \A v \in Workers : GateOf(v)'
  <2> DEFINE c == job[w].claim
             target == LoadTarget(w, c)
             j == [job[w] EXCEPT !.pc = target, !.approved = approved[c]]
  <2>1. c \in Claims
    BY <1>7 DEF LoadFresh, TypeOK
  <2>2. /\ target \in {"idle", "float", "review", "sign"}
        /\ target = "float" => AssetType[c] # "ant"
        /\ target = "sign" => MaySend(c)
    BY <2>1, CoreAssumption, WorkerAssumption DEF LoadTarget, MaySend
  <2>3. j \in Job /\ j.pc = target /\ j.claim = c /\ j.approved = approved[c]
    BY <2>1, <2>2 DEF TypeOK, CoreTypeOK, Job, PC
  <2>4. Done(w) \/ job' = [job EXCEPT ![w] = j]
    BY <1>7 DEF LoadFresh
  <2> HIDE DEF j, target
  <2> QED
    BY <2>1, <2>2, <2>3, <2>4, <1>done, <1>job
<1>8. ASSUME NEW w \in Workers, CheckFloat(w) PROVE \A v \in Workers : GateOf(v)'
  <2> DEFINE c == job[w].claim
  <2>1. /\ c \in Claims /\ job[w].pc = "float" /\ AssetType[c] # "ant"
        /\ job[w].approved => approved[c]
    BY <1>8 DEF CheckFloat, TypeOK, GateInv, GateOf
  <2>2. \/ Done(w) \/ Goto(w, "review")
        \/ ~ExceedsBrake(c, job[w].approved) /\ (Goto(w, "sign") \/ Goto(w, "manual"))
    BY <1>8 DEF CheckFloat
  <2>3. ~ExceedsBrake(c, job[w].approved) => MaySend(c)
    BY <2>1, CoreAssumption, WorkerAssumption DEF ExceedsBrake, MaySend
  <2> QED
    BY <2>1, <2>2, <2>3, <1>done, <1>goto DEF PC
<1>9. ASSUME NEW w \in Workers, SignTransaction(w) PROVE \A v \in Workers : GateOf(v)'
  <2>1. PICK s \in Sig :
          job' = [job EXCEPT ![w] = [@ EXCEPT !.pc = "persist", !.sig = s]]
    BY <1>9 DEF SignTransaction, Unused
  <2> DEFINE j == [job[w] EXCEPT !.pc = "persist", !.sig = s]
  <2>2. /\ j \in Job /\ j.pc = "persist" /\ j.claim = job[w].claim
        /\ j.approved = job[w].approved /\ job[w].claim \in Claims
    BY <1>9 DEF SignTransaction, TypeOK, Job, PC
  <2>3. (j.approved => approved[j.claim]) /\ MaySend(j.claim)
    BY <1>9, <2>2 DEF SignTransaction, GateInv, GateOf
  <2>4. job' = [job EXCEPT ![w] = j]
    BY <2>1
  <2> HIDE DEF j
  <2> QED
    BY <2>2, <2>3, <2>4, <1>job
<1>10. ASSUME NEW w \in Workers, PersistSigned(w) PROVE \A v \in Workers : GateOf(v)'
  BY <1>10, <1>done, <1>goto DEF PersistSigned, PC, GateInv, GateOf
<1>11. ASSUME NEW w \in Workers, Broadcast(w) PROVE \A v \in Workers : GateOf(v)'
  <2> DEFINE j == [job[w] EXCEPT !.pc = "sample", !.inline = TRUE]
  <2>1. /\ j \in Job /\ j.pc = "sample" /\ j.claim = job[w].claim
        /\ j.approved = job[w].approved /\ job[w].claim \in Claims
    BY <1>11 DEF Broadcast, TypeOK, Job, PC
  <2>2. j.approved => approved[j.claim]
    BY <1>11, <2>1 DEF Broadcast, GateInv, GateOf
  <2>3. job' = [job EXCEPT ![w] = j]
    BY <1>11 DEF Broadcast
  <2> HIDE DEF j
  <2> QED
    BY <2>1, <2>2, <2>3, <1>job
<1>12. CASE Approve \/ ChainStep \/ UNCHANGED vars
  BY <1>12, <1>same, <1>sent DEF Approve, ChainStep, vars, GateInv
<1> QED
  <2>1. \A w \in Workers : queue[w] \subseteq Claims
    BY DEF TypeOK
  <2> QED
    BY <2>1, <1>sent, <1>0, <1>1, <1>2, <1>3, <1>4, <1>5, <1>6, <1>7, <1>8, <1>9, <1>10,
       <1>11, <1>12 DEF Next, WorkerStep, GateInv

\* No ANT that needs approval and nothing over the brake is ever sent before
\* an operator approved the claim: on a first attempt, on a re-sign, and with
\* any number of workers, crashes and interleavings of the approval.
THEOREM SentMeansApproved == Spec => []NothingSentUnapproved
<1>1. Init => GateInv
  BY DEF Init, CoreInit, NoJob, GateInv, GateOf, NothingSentUnapproved
<1>2. GateInv => NothingSentUnapproved
  BY DEF GateInv
<1> QED
  BY <1>1, <1>2, TypeCorrect, HandsInit, HandsNext, GateNext, PTL DEF Spec

-----------------------------------------------------------------------------
(***************************************************************************)
(* One worker, whose RPC may lag and whose blocks may be dropped.          *)
(***************************************************************************)

\* Every signature a claim ever got but the one on its row was cleared as
\* dead and counted, and the count stays within the cap.
OwnRow(c) ==
  /\ batch[c] = None
  /\ IsFiniteSet(txSigs[c])
  /\ sig[c] # None => sig[c] \in txSigs[c]
  /\ status[c] \in {"verified", "pending_review"} => sig[c] = None
  /\ status[c] \in {"dispatching", "confirmed"} => sig[c] # None
  /\ resign[c] <= MaxResignAttempts
  /\ Cardinality(txSigs[c]) <= resign[c] + (IF sig[c] = None THEN 0 ELSE 1)

\* What the one worker read of its claim still holds.
OwnJob(w) ==
  LET c == job[w].claim
  IN /\ job[w].pc # "idle" => job[w].known \subseteq txSigs[c]
     /\ job[w].pc \in WithSig \ {"persist"} =>
          job[w].sig \in txSigs[c] /\ status[c] = "dispatching"
     /\ job[w].pc \in Fresh => status[c] \in {"verified", "pending_review"}
     /\ \/ job[w].pc \in {"sample", "status"} /\ ~job[w].inline
        \/ job[w].pc \in {"scan", "clear", "freeze"}
        => job[w].resign = resign[c]
     /\ job[w].pc = "clear" => job[w].resign < MaxResignAttempts

OwnInv ==
  /\ \A c \in Claims : OwnRow(c)
  /\ \A s \in Sig : tx[s] # "unsent" => s \in txSigs[ClaimOf(s)]
  /\ \A w \in Workers : OwnJob(w)

LEMMA OwnInit == Init => OwnInv
<1>1. IsFiniteSet({}) /\ Cardinality({}) = 0
  BY FS_EmptySet
<1> QED
  BY <1>1, CoreAssumption, WorkerAssumption DEF Init, CoreInit, NoJob, OwnInv, OwnRow, OwnJob,
       WithSig, Fresh

\* A worker at rest has read nothing.
LEMMA RestIsOwn ==
  ASSUME TypeOK, NEW w \in Workers, Done(w)
  PROVE  OwnJob(w)'
BY DEF TypeOK, Done, NoJob, OwnJob, WithSig, Fresh

\* Steps that leave the rows alone and send nothing but what is on record.
LEMMA OwnRows ==
  ASSUME OwnInv, UNCHANGED rowVars,
         \A s \in Sig : tx'[s] # "unsent" => tx[s] # "unsent" \/ s \in txSigs[ClaimOf(s)]
  PROVE  /\ \A c \in Claims : OwnRow(c)'
         /\ \A s \in Sig : tx'[s] # "unsent" => s \in txSigs'[ClaimOf(s)]
BY DEF OwnInv, OwnRow, rowVars

LEMMA OwnRead ==
  ASSUME SingleWorker, TypeOK, HandsInv, OwnInv, NEW w \in Workers,
         \/ RunOnce(w) \/ \E c \in Claims : ProcessClaim(w, c)
         \/ SampleHeight(w) \/ ReadStatus(w) \/ ScanOutflow(w)
         \/ LoadFresh(w) \/ CheckFloat(w) \/ SignTransaction(w) \/ Broadcast(w) \/ Crash(w)
  PROVE  OwnInv'
<1> DEFINE c == job[w].claim
           s == job[w].sig
<1>1. UNCHANGED rowVars
  BY DEF RunOnce, ProcessClaim, SampleHeight, ReadStatus, ScanOutflow, LoadFresh, CheckFloat,
         SignTransaction, Broadcast, Crash
<1>2. ASSUME NEW t \in Sig, tx'[t] # "unsent"
      PROVE  tx[t] # "unsent" \/ t \in txSigs[ClaimOf(t)]
  <2>1. CASE Broadcast(w)
    <3>1. s \in Sig /\ s \in txSigs[ClaimOf(s)]
      BY <2>1 DEF Broadcast, TypeOK, WithSig, HandsInv, Held, OwnInv, OwnJob
    <3> QED
      BY <1>2, <2>1, <3>1 DEF Broadcast, TypeOK, CoreTypeOK
  <2>2. CASE ~Broadcast(w)
    <3>1. UNCHANGED tx
      BY <2>2 DEF RunOnce, ProcessClaim, SampleHeight, ReadStatus, ScanOutflow, LoadFresh,
           CheckFloat, SignTransaction, Crash, chainVars
    <3> QED
      BY <1>2, <3>1
  <2> QED
    BY <2>1, <2>2
<1>3. OwnJob(w)'
  <2>0. CASE RunOnce(w)
    BY <2>0, <1>1 DEF RunOnce, OwnInv, OwnJob, rowVars
  <2>1. ASSUME NEW d \in Claims, ProcessClaim(w, d) PROVE OwnJob(w)'
    <3>1. CASE job' = [job EXCEPT ![w] = NoJob]
      BY <3>1, RestIsOwn DEF Done
    <3>2. CASE /\ sig[d] # None /\ status[d] \in {"dispatching", "verified"}
               /\ job' = [job EXCEPT ![w] =
                    [NoJob EXCEPT !.pc = "sample", !.claim = d, !.sig = sig[d],
                       !.known = {sig[d]} \cup txSigs[d], !.resign = resign[d]]]
      <4>1. status[d] = "dispatching" /\ sig[d] \in txSigs[d]
        BY <3>2 DEF OwnInv, OwnRow
      <4>2. /\ job'[w].pc = "sample" /\ job'[w].claim = d /\ job'[w].sig = sig[d]
            /\ job'[w].known = {sig[d]} \cup txSigs[d] /\ job'[w].resign = resign[d]
        BY <3>2 DEF TypeOK, NoJob
      <4> QED
        BY <1>1, <4>1, <4>2 DEF OwnJob, WithSig, Fresh, rowVars
    <3>3. CASE /\ status[d] \in {"verified", "pending_review"}
               /\ job' = [job EXCEPT ![w] = [NoJob EXCEPT !.pc = "load", !.claim = d]]
      <4>1. job'[w].pc = "load" /\ job'[w].claim = d /\ job'[w].known = {}
        BY <3>3 DEF TypeOK, NoJob
      <4> QED
        BY <1>1, <3>3, <4>1 DEF OwnJob, WithSig, Fresh, rowVars
    <3> QED
      BY <2>1, <3>1, <3>2, <3>3 DEF ProcessClaim
  <2>2. CASE SampleHeight(w)
    BY <2>2, <1>1 DEF SampleHeight, TypeOK, Job, OwnInv, OwnJob, WithSig, Fresh, rowVars
  <2>3. CASE ReadStatus(w)
    <3>1. \/ Done(w) \/ Goto(w, "finalize") \/ Goto(w, "fail") \/ Goto(w, "sample")
          \/ ~job[w].inline /\ Goto(w, "scan")
      BY <2>3 DEF ReadStatus
    <3>2. job[w].pc = "status"
      BY <2>3 DEF ReadStatus
    <3>3. CASE Goto(w, "finalize") \/ Goto(w, "fail") \/ Goto(w, "sample")
      BY <3>2, <3>3, <1>1 DEF Goto, TypeOK, Job, OwnInv, OwnJob, WithSig, Fresh, rowVars
    <3>4. CASE ~job[w].inline /\ Goto(w, "scan")
      BY <3>2, <3>4, <1>1 DEF Goto, TypeOK, Job, OwnInv, OwnJob, WithSig, Fresh, rowVars
    <3> QED
      BY <3>1, <3>3, <3>4, RestIsOwn
  <2>4. CASE ScanOutflow(w)
    <3>1. ASSUME NEW k \in Outflows(w),
                 job' = [job EXCEPT ![w] = [@ EXCEPT !.pc = "finalize", !.sig = k]]
          PROVE  OwnJob(w)'
      <4>1. k \in txSigs[c] /\ status[c] = "dispatching" /\ job[w].known \subseteq txSigs[c]
        BY <2>4, <3>1 DEF ScanOutflow, Outflows, OwnInv, OwnJob, WithSig
      <4> QED
        BY <3>1, <4>1, <1>1 DEF TypeOK, Job, OwnJob, WithSig, Fresh, rowVars
    <3>2. /\ job[w].pc = "scan" /\ job[w].known \subseteq txSigs[c] /\ s \in txSigs[c]
          /\ status[c] = "dispatching" /\ job[w].resign = resign[c]
      BY <2>4 DEF ScanOutflow, OwnInv, OwnJob, WithSig
    <3>3. CASE Goto(w, "freeze")
      BY <3>2, <3>3, <1>1 DEF Goto, TypeOK, Job, OwnJob, WithSig, Fresh, rowVars
    <3>4. CASE job[w].resign < MaxResignAttempts /\ Goto(w, "clear")
      BY <3>2, <3>4, <1>1 DEF Goto, TypeOK, Job, OwnJob, WithSig, Fresh, rowVars
    <3>5. ~AtResignCap(job[w].resign) => job[w].resign < MaxResignAttempts
      BY WorkerAssumption DEF AtResignCap, TypeOK, Job
    <3> QED
      BY <2>4, <3>1, <3>3, <3>4, <3>5 DEF ScanOutflow
  <2>5. CASE LoadFresh(w)
    <3>1. LoadTarget(w, c) \in {"idle", "float", "review", "sign"}
      BY DEF LoadTarget
    <3>2. job[w].pc = "load"
      BY <2>5 DEF LoadFresh
    <3>3. CASE job' = [job EXCEPT ![w] = [@ EXCEPT !.pc = LoadTarget(w, c),
                                                 !.approved = approved[c]]]
      BY <3>1, <3>2, <3>3, <1>1 DEF TypeOK, Job, OwnInv, OwnJob, WithSig, Fresh, rowVars
    <3> QED
      BY <2>5, <3>3, RestIsOwn DEF LoadFresh
  <2>6. CASE CheckFloat(w)
    <3>1. Done(w) \/ \E label \in {"review", "sign", "manual"} : Goto(w, label)
      BY <2>6 DEF CheckFloat
    <3>2. ASSUME NEW label \in {"review", "sign", "manual"}, Goto(w, label)
          PROVE  OwnJob(w)'
      BY <2>6, <3>2, <1>1 DEF CheckFloat, Goto, TypeOK, Job, OwnInv, OwnJob, WithSig, Fresh,
           rowVars
    <3> QED
      BY <3>1, <3>2, RestIsOwn
  <2>7. CASE SignTransaction(w)
    <3>1. PICK t \in Sig : job' = [job EXCEPT ![w] = [@ EXCEPT !.pc = "persist", !.sig = t]]
      BY <2>7 DEF SignTransaction, Unused
    <3>2. /\ job[w].pc = "sign" /\ job[w].known \subseteq txSigs[c]
          /\ status[c] \in {"verified", "pending_review"}
      BY <2>7 DEF SignTransaction, OwnInv, OwnJob, Fresh
    <3> QED
      BY <3>1, <3>2, <1>1 DEF TypeOK, Job, OwnJob, WithSig, Fresh, rowVars
  <2>8. CASE Broadcast(w)
    BY <2>8, <1>1 DEF Broadcast, TypeOK, Job, OwnInv, OwnJob, WithSig, Fresh, rowVars
  <2>9. CASE Crash(w)
    BY <2>9, RestIsOwn DEF Crash
  <2> QED
    BY <2>0, <2>1, <2>2, <2>3, <2>4, <2>5, <2>6, <2>7, <2>8, <2>9
<1> QED
  BY <1>1, <1>2, <1>3, OwnRows DEF OwnInv, SingleWorker

\* A transaction changes the row of one claim.
LEMMA OwnOneRow ==
  ASSUME OwnInv, NEW c \in Claims, OwnRow(c)',
         \A d \in Claims : txSigs[d] \subseteq txSigs'[d],
         \A d \in Claims \ {c} :
           /\ batch'[d] = batch[d] /\ txSigs'[d] = txSigs[d] /\ sig'[d] = sig[d]
           /\ status'[d] = status[d] /\ resign'[d] = resign[d],
         UNCHANGED tx
  PROVE  /\ \A d \in Claims : OwnRow(d)'
         /\ \A s \in Sig : tx'[s] # "unsent" => s \in txSigs'[ClaimOf(s)]
<1>1. \A s \in Sig : ClaimOf(s) \in Claims
  BY DEF Sig, ClaimOf
<1>2. ASSUME NEW d \in Claims, d # c PROVE OwnRow(d)'
  BY <1>2 DEF OwnInv, OwnRow
<1> QED
  BY <1>1, <1>2 DEF OwnInv

LEMMA OwnWrite ==
  ASSUME SingleWorker, TypeOK, HandsInv, OwnInv, NEW w \in Workers,
         \/ ClearAndRedispatch(w) \/ FreezeClaim(w) \/ FailClaim(w) \/ FinalizeClaim(w)
         \/ ReviewClaim(w) \/ ManualVault(w) \/ PersistSigned(w)
  PROVE  OwnInv'
<1>0. PICK c \in Claims, s \in Sig \cup {None} : c = job[w].claim /\ s = job[w].sig
  BY DEF ClearAndRedispatch, FreezeClaim, FailClaim, FinalizeClaim, ReviewClaim,
         ManualVault, PersistSigned, TypeOK, Job
<1>1. UNCHANGED tx /\ OwnRow(c) /\ OwnJob(w)
  BY DEF ClearAndRedispatch, FreezeClaim, FailClaim, FinalizeClaim, ReviewClaim,
         ManualVault, PersistSigned, TypeOK, chainVars, OwnInv
<1>c. Cardinality(txSigs[c]) \in Nat /\ resign[c] \in Nat /\ MaxResignAttempts \in Nat
  BY <1>0, <1>1, FS_CardinalityType, WorkerAssumption DEF OwnRow, TypeOK, CoreTypeOK
<1>2. CASE ClearAndRedispatch(w)
  <2>1. /\ status[c] = "dispatching" /\ batch[c] = None /\ sig[c] # None
        /\ resign[c] < MaxResignAttempts
    BY <1>0, <1>1, <1>2 DEF ClearAndRedispatch, OwnRow, OwnJob, WithSig
  <2>2. /\ status' = [status EXCEPT ![c] = IF approved[c] THEN "pending_review"
                                                         ELSE "verified"]
        /\ sig' = [sig EXCEPT ![c] = None]
        /\ resign' = [resign EXCEPT ![c] = @ + 1]
        /\ UNCHANGED <<approved, txSigs, batch, asset>>
    BY <1>0, <1>2, <2>1 DEF ClearAndRedispatch, ClearDeadSignature
  <2>3. /\ status'[c] \in {"verified", "pending_review"} /\ sig'[c] = None
        /\ resign'[c] = resign[c] + 1 /\ txSigs'[c] = txSigs[c] /\ batch'[c] = None
    BY <1>0, <1>1, <2>1, <2>2 DEF TypeOK, CoreTypeOK
  <2>4. OwnRow(c)'
    BY <1>0, <1>1, <1>c, <2>1, <2>3 DEF OwnRow
  <2>5. OwnJob(w)'
    BY <1>0, <1>2, <2>3 DEF ClearAndRedispatch, NoJob, TypeOK, OwnJob, WithSig, Fresh
  <2>6. \A d \in Claims \ {c} :
           /\ batch'[d] = batch[d] /\ txSigs'[d] = txSigs[d] /\ sig'[d] = sig[d]
           /\ status'[d] = status[d] /\ resign'[d] = resign[d]
    BY <1>0, <1>1, <2>2 DEF TypeOK, CoreTypeOK
  <2> QED
    BY <1>0, <1>1, <2>2, <2>4, <2>5, <2>6, OwnOneRow DEF OwnInv, SingleWorker
<1>3. CASE FreezeClaim(w) \/ FailClaim(w) \/ ReviewClaim(w) \/ ManualVault(w)
  <2>1. /\ UNCHANGED <<sig, txSigs, batch, resign>>
        /\ \/ UNCHANGED status
           \/ \E n \in {"needs_operator", "failed", "pending_review",
                        "awaiting_manual_vault_delivery"} :
                /\ status' = [status EXCEPT ![c] = n]
                /\ n = "pending_review" => status[c] \in {"verified", "pending_review"}
    BY <1>0, <1>1, <1>3 DEF FreezeClaim, FailClaim, ReviewClaim, ManualVault, MarkNeedsOperator,
         MarkFailed, RouteToReview, RouteToManualVaultDelivery, ParkAs, rowVars, OwnJob, Fresh
  <2>2. OwnRow(c)'
    BY <1>0, <1>1, <2>1 DEF OwnRow, TypeOK, CoreTypeOK
  <2>3. \A d \in Claims \ {c} : status'[d] = status[d]
    BY <1>0, <1>1, <2>1 DEF TypeOK, CoreTypeOK
  <2>4. Done(w)
    BY <1>0, <1>3 DEF FreezeClaim, FailClaim, ReviewClaim, ManualVault
  <2>5. OwnJob(w)'
    BY <1>0, <2>4, RestIsOwn
  <2> QED
    BY <1>0, <1>1, <2>1, <2>2, <2>3, <2>5, OwnOneRow DEF OwnInv, SingleWorker
<1>4. CASE FinalizeClaim(w)
  <2>1. /\ status[c] = "dispatching" /\ s \in txSigs[c] /\ Done(w)
    BY <1>0, <1>1, <1>4 DEF FinalizeClaim, OwnJob, WithSig
  <2>2. /\ status' = [status EXCEPT ![c] = "confirmed"]
        /\ txSigs' = [txSigs EXCEPT ![c] = @ \cup {s}]
        /\ UNCHANGED <<sig, resign, batch>>
    BY <1>0, <1>4, <2>1 DEF FinalizeClaim, FinalizeConfirmed
  <2>3. txSigs' = txSigs /\ status'[c] = "confirmed"
        /\ \A d \in Claims \ {c} : status'[d] = status[d]
    BY <1>0, <1>1, <2>1, <2>2 DEF TypeOK, CoreTypeOK
  <2>4. OwnRow(c)'
    BY <1>0, <1>1, <2>1, <2>2, <2>3 DEF OwnRow
  <2>5. OwnJob(w)'
    BY <1>0, <2>1, RestIsOwn
  <2> QED
    BY <1>0, <1>1, <2>2, <2>3, <2>4, <2>5, OwnOneRow DEF OwnInv, SingleWorker
<1>5. CASE PersistSigned(w)
  <2>1. CASE Done(w) /\ UNCHANGED rowVars
    BY <1>0, <1>1, <2>1, OwnRows, RestIsOwn DEF OwnInv, SingleWorker
  <2>2. CASE PersistDispatching(c, s) /\ Goto(w, "broadcast")
    <3>1. /\ job[w].pc = "persist" /\ s \in Sig /\ sig[c] = None
          /\ job[w].known \subseteq txSigs[c]
      BY <1>0, <1>1, <1>5, CoreAssumption DEF PersistSigned, OwnRow, OwnJob, Fresh, TypeOK, WithSig
    <3>2. /\ status' = [status EXCEPT ![c] = "dispatching"]
          /\ sig'    = [sig EXCEPT ![c] = s]
          /\ txSigs' = [txSigs EXCEPT ![c] = @ \cup {s}]
          /\ UNCHANGED <<resign, batch>>
      BY <1>0, <2>2 DEF PersistDispatching
    <3>3. /\ status'[c] = "dispatching" /\ sig'[c] = s /\ s # None
          /\ txSigs'[c] = txSigs[c] \cup {s}
          /\ \A d \in Claims \ {c} :
               status'[d] = status[d] /\ sig'[d] = sig[d] /\ txSigs'[d] = txSigs[d]
      BY <1>0, <1>1, <3>1, <3>2, CoreAssumption DEF TypeOK, CoreTypeOK
    <3>4. /\ IsFiniteSet(txSigs[c] \cup {s})
          /\ Cardinality(txSigs[c] \cup {s}) \in {Cardinality(txSigs[c]), Cardinality(txSigs[c]) + 1}
      BY <1>0, <1>1, FS_AddElement DEF OwnRow
    <3>5. OwnRow(c)'
      <4>1. Cardinality(txSigs[c]) <= resign[c]
        BY <1>1, <1>c, <3>1 DEF OwnRow
      <4>2. Cardinality(txSigs'[c]) <= resign[c] + 1
        BY <1>c, <3>3, <3>4, <4>1
      <4>3. IsFiniteSet(txSigs'[c]) /\ s \in txSigs'[c]
        BY <3>3, <3>4
      <4> QED
        BY <1>1, <3>2, <3>3, <4>2, <4>3 DEF OwnRow
    <3>6. OwnJob(w)'
      BY <1>0, <2>2, <3>1, <3>3 DEF Goto, TypeOK, Job, OwnJob, WithSig, Fresh
    <3> QED
      BY <1>0, <1>1, <3>2, <3>3, <3>5, <3>6, OwnOneRow DEF OwnInv, SingleWorker
  <2> QED
    BY <1>0, <1>5, <2>1, <2>2 DEF PersistSigned
<1> QED
  BY <1>0, <1>2, <1>3, <1>4, <1>5

LEMMA OwnNext ==
  ASSUME SingleWorker, TypeOK, HandsInv, OwnInv, [Next]_vars
  PROVE  OwnInv'
<1>1. ASSUME UNCHANGED <<rowVars, job>>,
             \A t \in Sig : tx'[t] = "unsent" <=> tx[t] = "unsent"
      PROVE  OwnInv'
  BY <1>1, OwnRows DEF OwnInv, OwnJob, rowVars
<1>2. CASE Approve
  BY <1>2 DEF Approve, ApproveClaim, OwnInv, OwnRow, OwnJob, chainVars
<1>3. CASE ChainStep
  <2>1. UNCHANGED <<rowVars, job>>
    BY <1>3 DEF ChainStep, Refill, Land, LandWithError, ConfirmBlock, DropBlock, AgeBlockhash
  <2>2. \A t \in Sig : tx'[t] = "unsent" <=> tx[t] = "unsent"
    BY <1>3, ChainIsTame DEF ChainStep, TypeOK
  <2> QED
    BY <2>1, <2>2, <1>1
<1>4. CASE UNCHANGED vars
  BY <1>1, <1>4 DEF vars, chainVars
<1>5. \A w \in Workers : queue[w] \subseteq Claims
  BY DEF TypeOK
<1> QED
  BY <1>2, <1>3, <1>4, <1>5, OwnRead, OwnWrite DEF Next, WorkerStep

LEMMA OneWorkerKnowsItsClaim ==
  ASSUME SingleWorker
  PROVE  Spec => []OwnInv
BY TypeCorrect, HandsInit, HandsNext, OwnInit, OwnNext, PTL DEF Spec

\* The re-sign cap holds through crashes, lost sends, forks and a lagging RPC:
\* no claim of one worker ever gets more signatures than the first and
\* MAX_RESIGN_ATTEMPTS more.
THEOREM ResignsAreCapped ==
  ASSUME SingleWorker
  PROVE  Spec => []ResignCap
<1>1. TypeOK /\ OwnInv => ResignCap
  <2> SUFFICES ASSUME TypeOK, OwnInv, NEW c \in Claims
               PROVE  Cardinality(txSigs[c]) <= MaxResignAttempts + 1
    BY DEF ResignCap
  <2>1. OwnRow(c) /\ resign[c] \in Nat
    BY DEF OwnInv, TypeOK, CoreTypeOK
  <2>2. Cardinality(txSigs[c]) \in Nat
    BY <2>1, FS_CardinalityType DEF OwnRow
  <2> QED
    BY <2>1, <2>2, WorkerAssumption DEF OwnRow
<1> QED
  BY <1>1, TypeCorrect, OneWorkerKnowsItsClaim, PTL

\* The cost of a lagging RPC is bounded: with the cap of the code, one re-sign,
\* a claim is paid at most twice, whatever the RPC fails to see.
THEOREM LagCostsOneTransfer ==
  ASSUME SingleWorker, MaxResignAttempts <= 1
  PROVE  Spec => []AtMostOneExtraTransfer
<1>1. TypeOK /\ OwnInv => AtMostOneExtraTransfer
  <2> SUFFICES ASSUME TypeOK, OwnInv, NEW c \in Claims
               PROVE  Cardinality({s \in Sig : ClaimOf(s) = c /\ tx[s] = "confirmed"}) <= 2
    BY DEF AtMostOneExtraTransfer
  <2> DEFINE paid == {s \in Sig : ClaimOf(s) = c /\ tx[s] = "confirmed"}
  <2>1. OwnRow(c) /\ resign[c] \in Nat
    BY DEF OwnInv, TypeOK, CoreTypeOK
  <2>2. paid \in SUBSET txSigs[c]
    BY DEF OwnInv
  <2>3. /\ Cardinality(txSigs[c]) \in Nat /\ Cardinality(paid) \in Nat
        /\ Cardinality(paid) <= Cardinality(txSigs[c])
    <3> HIDE DEF paid
    <3> QED
      BY <2>1, <2>2, FS_CardinalityType, FS_Subset DEF OwnRow
  <2> QED
    BY <2>1, <2>3, WorkerAssumption DEF OwnRow
<1> QED
  BY <1>1, TypeCorrect, OneWorkerKnowsItsClaim, PTL

-----------------------------------------------------------------------------
(***************************************************************************)
(* reconcile:dispatch beside the one worker.                               *)
(***************************************************************************)

\* The worker under the report is the worker.
LEMMA ReportIsSpec == ReportSpec => Spec
<1>1. ReportInit => Init
  BY DEF ReportInit
<1>2. [ReportNext]_reportVars => [Next]_vars
  BY DEF ReportNext, ReadConfirmed, ReadClaimedAssets, CloseReport, WorkOn, reportVars
<1> QED
  BY <1>1, <1>2, PTL DEF ReportSpec, Spec

\* Nothing is wrong with what the first query read, and a claim that is
\* confirmed without having been read was finalized since.
ReportInv ==
  /\ report \in [pc : {"idle", "reading", "done"}, seen : SUBSET Claims,
                 issues : SUBSET Claims, moved : BOOLEAN]
  /\ report.pc = "reading" =>
       /\ report.issues = {}
       /\ \A c \in Claims : status[c] = "confirmed" => c \in report.seen \/ report.moved
  /\ OnlyMovementIsReported

LEMMA ReportStep ==
  TypeOK /\ OwnInv /\ ConfirmedWasPaid /\ ReportInv /\ [ReportNext]_reportVars => ReportInv'
<1> SUFFICES ASSUME TypeOK, OwnInv, ConfirmedWasPaid, ReportInv, [ReportNext]_reportVars
             PROVE  ReportInv'
  OBVIOUS
<1>1. CASE ReadConfirmed
  <2>1. ASSUME NEW c \in Claims, status[c] = "confirmed"
        PROVE  sig[c] # None /\ asset[c] = "claimed"
    BY <2>1 DEF OwnInv, OwnRow, ConfirmedWasPaid
  <2>2. {c \in {d \in Claims : status[d] = "confirmed"} : sig[c] = None \/ asset[c] # "claimed"}
        = {}
    BY <2>1
  <2>3. UNCHANGED status
    BY <1>1 DEF ReadConfirmed, vars, rowVars
  <2>4. /\ report'.pc = "reading" /\ report'.issues = {}
        /\ report'.seen = {d \in Claims : status[d] = "confirmed"}
    BY <1>1, <2>2 DEF ReadConfirmed
  <2>5. report' \in [pc : {"idle", "reading", "done"}, seen : SUBSET Claims,
                     issues : SUBSET Claims, moved : BOOLEAN]
    BY <1>1 DEF ReadConfirmed
  <2> QED
    BY <2>3, <2>4, <2>5 DEF ReportInv, OnlyMovementIsReported
<1>2. CASE ReadClaimedAssets
  <2>1. ASSUME NEW c \in Claims, asset[c] = "claimed", c \notin report.seen
        PROVE  report.moved
    BY <1>2, <2>1 DEF ReadClaimedAssets, ConfirmedWasPaid, ReportInv
  <2>2. report.issues = {} /\ report.pc = "reading"
    BY <1>2 DEF ReadClaimedAssets, ReportInv
  <2>3. /\ report'.pc = "done" /\ report'.moved = report.moved
        /\ report'.issues = report.issues \cup
             {c \in Claims : asset[c] = "claimed" /\ c \notin report.seen}
    BY <1>2 DEF ReadClaimedAssets, ReportInv
  <2>4. report'.issues # {} => report'.moved
    BY <2>1, <2>2, <2>3
  <2>5. report' \in [pc : {"idle", "reading", "done"}, seen : SUBSET Claims,
                     issues : SUBSET Claims, moved : BOOLEAN]
    BY <1>2 DEF ReadClaimedAssets, ReportInv
  <2> QED
    BY <2>3, <2>4, <2>5 DEF ReportInv, OnlyMovementIsReported
<1>3. CASE CloseReport
  BY <1>3 DEF CloseReport, NoReport, ReportInv, OnlyMovementIsReported
<1>4. CASE WorkOn
  <2>1. CASE /\ report.pc = "reading"
             /\ \E c \in Claims : status[c] # "confirmed" /\ status'[c] = "confirmed"
    <3>1. report' = [report EXCEPT !.moved = TRUE]
      BY <1>4, <2>1 DEF WorkOn
    <3>2. report'.pc = "reading" /\ report'.issues = {} /\ report'.moved
      BY <2>1, <3>1 DEF ReportInv
    <3>3. report' \in [pc : {"idle", "reading", "done"}, seen : SUBSET Claims,
                       issues : SUBSET Claims, moved : BOOLEAN]
      BY <3>1 DEF ReportInv
    <3> QED
      BY <3>2, <3>3 DEF ReportInv, OnlyMovementIsReported
  <2>2. CASE ~(/\ report.pc = "reading"
               /\ \E c \in Claims : status[c] # "confirmed" /\ status'[c] = "confirmed")
    <3>1. report' = report
      BY <1>4, <2>2 DEF WorkOn
    <3> QED
      BY <2>2, <3>1 DEF ReportInv, OnlyMovementIsReported
  <2> QED
    BY <2>1, <2>2
<1>5. CASE UNCHANGED reportVars
  BY <1>5 DEF reportVars, vars, rowVars, ReportInv, OnlyMovementIsReported
<1> QED
  BY <1>1, <1>2, <1>3, <1>4, <1>5 DEF ReportNext

\* reconcile:dispatch raises no false alarm: beside one worker, with crashes,
\* expiries, re-signs and a lagging RPC, an issue is reported only if a claim
\* was finalized between the queries of the report.
THEOREM ReportsOnlyMovement ==
  ASSUME SingleWorker
  PROVE  ReportSpec => []OnlyMovementIsReported
<1>1. ReportInit => ReportInv
  BY DEF ReportInit, NoReport, ReportInv, OnlyMovementIsReported
<1>2. ReportInv => OnlyMovementIsReported
  BY DEF ReportInv
<1> QED
  BY <1>1, <1>2, ReportIsSpec, TypeCorrect, OneWorkerKnowsItsClaim, ReportedMeansPaid,
     ReportStep, PTL DEF ReportSpec

-----------------------------------------------------------------------------
(***************************************************************************)
(* One worker, a consistent RPC and no dropped blocks: the promise of      *)
(* Dispense.                                                               *)
(***************************************************************************)

\* Only the recorded signature of a claim may pay it.
LEMMA OnlyRecordedPays ==
  ASSUME ExactlyOnceInv, NEW s \in Sig, MayPay(s)
  PROVE  sig[ClaimOf(s)] = s
BY DEF ExactlyOnceInv, OnlyRecordedIsAlive, Alive, MayPay

\* How a step of a worker may change the status of a claim, and what is known
\* of its transfers where it hands the claim to an operator.
LEMMA StatusMoves ==
  ASSUME TypeOK, ExactlyOnceInv, ~Forks, NEW w \in Workers, WorkerStep(w) \/ Crash(w)
  PROVE  \/ UNCHANGED status
         \/ \E c \in Claims, n \in ClaimStatus :
              /\ status' = [status EXCEPT ![c] = n]
              /\ status[c] \in {"verified", "pending_review", "dispatching"}
              /\ n = "confirmed" => \E s \in Sig : ClaimOf(s) = c /\ tx[s] = "confirmed"
              /\ n \in Stopped => \A s \in Sig : ClaimOf(s) = c => ~MayPay(s)
              /\ UNCHANGED chainVars
<1> DEFINE c == job[w].claim
           k == job[w].sig
<1>1. CASE \/ RunOnce(w) \/ (\E d \in queue[w] : ProcessClaim(w, d))
           \/ SampleHeight(w) \/ ReadStatus(w) \/ ScanOutflow(w)
           \/ LoadFresh(w) \/ CheckFloat(w) \/ SignTransaction(w)
           \/ Broadcast(w) \/ Crash(w)
  BY <1>1 DEF RunOnce, ProcessClaim, SampleHeight, ReadStatus, ScanOutflow, LoadFresh,
       CheckFloat, SignTransaction, Broadcast, Crash, rowVars
<1>2. CASE ClearAndRedispatch(w)
  <2>1. /\ c \in Claims /\ status[c] = "dispatching" /\ UNCHANGED chainVars
        /\ \/ UNCHANGED status
           \/ \E n \in {"verified", "pending_review"} : status' = [status EXCEPT ![c] = n]
    BY <1>2 DEF ClearAndRedispatch, ClearDeadSignature, TypeOK, ExactlyOnceInv, JobCurrent,
         Recovering, rowVars
  <2> QED
    BY <2>1 DEF ClaimStatus, Stopped
<1>3. CASE FreezeClaim(w)
  <2>1. /\ c \in Claims /\ status[c] = "dispatching" /\ sig[c] = k /\ ~Alive(k)
        /\ UNCHANGED chainVars
        /\ status' = [status EXCEPT ![c] = "needs_operator"]
    BY <1>3 DEF FreezeClaim, MarkNeedsOperator, TypeOK, ExactlyOnceInv, JobCurrent, Recovering
  <2>2. ASSUME NEW s \in Sig, ClaimOf(s) = c PROVE ~MayPay(s)
    BY <2>1, <2>2, OnlyRecordedPays DEF Alive, MayPay
  <2> QED
    BY <2>1, <2>2 DEF ClaimStatus
<1>4. CASE FailClaim(w)
  <2>1. /\ c \in Claims /\ status[c] = "dispatching" /\ sig[c] = k
        /\ tx[k] \in {"processed_err", "failed"} /\ UNCHANGED chainVars
        /\ status' = [status EXCEPT ![c] = "failed"]
    BY <1>4 DEF FailClaim, MarkFailed, TypeOK, ExactlyOnceInv, JobCurrent, Recovering
  <2>2. ASSUME NEW s \in Sig, ClaimOf(s) = c PROVE ~MayPay(s)
    BY <2>1, <2>2, OnlyRecordedPays DEF Landable, MayPay
  <2> QED
    BY <2>1, <2>2 DEF ClaimStatus
<1>5. CASE FinalizeClaim(w)
  <2>1. /\ c \in Claims /\ k \in Sig /\ status[c] = "dispatching" /\ ClaimOf(k) = c
        /\ tx[k] = "confirmed" /\ UNCHANGED chainVars
        /\ status' = [status EXCEPT ![c] = "confirmed"]
    BY <1>5 DEF FinalizeClaim, FinalizeConfirmed, TypeOK, WithSig, ExactlyOnceInv, JobCurrent
  <2> QED
    BY <2>1 DEF ClaimStatus, Stopped
<1>6. CASE ReviewClaim(w) \/ ManualVault(w)
  <2>1. /\ c \in Claims /\ status[c] \in {"verified", "pending_review"} /\ sig[c] = None
        /\ UNCHANGED chainVars
        /\ \E n \in {"pending_review", "awaiting_manual_vault_delivery"} :
             status' = [status EXCEPT ![c] = n]
    BY <1>6 DEF ReviewClaim, ManualVault, RouteToReview, RouteToManualVaultDelivery, ParkAs,
         TypeOK, ExactlyOnceInv, RowsCoherent, JobCurrent, Fresh
  <2>2. ASSUME NEW s \in Sig, ClaimOf(s) = c PROVE ~MayPay(s)
    BY <2>1, <2>2, OnlyRecordedPays, CoreAssumption
  <2> QED
    BY <2>1, <2>2 DEF ClaimStatus
<1>7. CASE PersistSigned(w)
  <2>1. c \in Claims /\ UNCHANGED chainVars /\ status[c] \in {"verified", "pending_review"}
    BY <1>7 DEF PersistSigned, TypeOK, ExactlyOnceInv, JobCurrent, Fresh
  <2> QED
    BY <1>7, <2>1 DEF PersistSigned, PersistDispatching, rowVars, ClaimStatus, Stopped
<1> QED
  BY <1>1, <1>2, <1>3, <1>4, <1>5, <1>6, <1>7 DEF WorkerStep

LEMMA StoppedNext ==
  ASSUME ~Forks, TypeOK, ExactlyOnceInv, StoppedNeverPaid, [Next]_vars
  PROVE  StoppedNeverPaid'
<1>1. \A s \in Sig : ClaimOf(s) \in Claims
  BY DEF Sig, ClaimOf
<1>2. ASSUME NEW w \in Workers, WorkerStep(w) \/ Crash(w) PROVE StoppedNeverPaid'
  <2>1. CASE Broadcast(w)
    <3>1. /\ job[w].sig \in Sig /\ status[ClaimOf(job[w].sig)] = "dispatching"
      BY <2>1, <1>1, CoreAssumption DEF Broadcast, TypeOK, WithSig, ExactlyOnceInv, RowsCoherent,
           JobCurrent, Recovering
    <3> QED
      BY <2>1, <3>1 DEF Broadcast, TypeOK, CoreTypeOK, StoppedNeverPaid, Stopped, MayPay,
           Landable, rowVars
  <2>2. CASE SignTransaction(w)
    <3>1. PICK t \in Sig : tx[t] = "unsent" /\ age' = [age EXCEPT ![t] = 0]
      BY <2>2 DEF SignTransaction, Unused
    <3> QED
      BY <2>2, <3>1 DEF SignTransaction, TypeOK, CoreTypeOK, StoppedNeverPaid, MayPay,
           Landable, rowVars
  <2>3. CASE ~Broadcast(w) /\ ~SignTransaction(w)
    <3>1. UNCHANGED <<tx, age>>
      BY <1>2, <2>3 DEF WorkerStep, Crash, RunOnce, ProcessClaim, SampleHeight, ReadStatus,
           ScanOutflow, ClearAndRedispatch, FreezeClaim, FailClaim, FinalizeClaim, LoadFresh,
           CheckFloat, ReviewClaim, ManualVault, PersistSigned, chainVars
    <3>2. CASE UNCHANGED status
      BY <3>1, <3>2 DEF StoppedNeverPaid, MayPay, Landable
    <3>3. ASSUME NEW c \in Claims, NEW n \in ClaimStatus, status' = [status EXCEPT ![c] = n],
                 n \in Stopped => \A s \in Sig : ClaimOf(s) = c => ~MayPay(s)
          PROVE  StoppedNeverPaid'
      BY <1>1, <3>1, <3>3 DEF TypeOK, CoreTypeOK, StoppedNeverPaid, MayPay, Landable
    <3> QED
      BY <1>2, <3>2, <3>3, StatusMoves
  <2> QED
    BY <2>1, <2>2, <2>3
<1>3. CASE Approve \/ UNCHANGED vars
  BY <1>3 DEF Approve, ApproveClaim, vars, rowVars, chainVars, StoppedNeverPaid, MayPay, Landable
<1>4. CASE ChainStep
  <2>1. UNCHANGED status
    BY <1>4 DEF ChainStep, Refill, Land, LandWithError, ConfirmBlock, DropBlock, AgeBlockhash,
         rowVars
  <2>2. \A s \in Sig : MayPay(s)' => MayPay(s)
    BY <1>4, ChainIsTame DEF ChainStep, TypeOK
  <2> QED
    BY <2>1, <2>2 DEF StoppedNeverPaid
<1> QED
  BY <1>2, <1>3, <1>4 DEF Next

\* A claim that was handed to an operator as failed, frozen or for manual
\* delivery has not been paid and never will be: a deliberate re-drive pays it
\* once.
THEOREM StoppedIsUnpaid ==
  ASSUME SingleWorker, ~LaggingRpc, ~Forks
  PROVE  Spec => []StoppedNeverPaid
<1>1. Init => StoppedNeverPaid
  BY DEF Init, CoreInit, StoppedNeverPaid, MayPay, Landable
<1> QED
  BY <1>1, TypeCorrect, OnlyRecordedSignatureIsAlive, StoppedNext, PTL DEF Spec

\* Every step of worker and chain is a step of Dispense or leaves it alone: a
\* confirmed block pays, a finalized row reports it, a parked row stops.
LEMMA DispenseStep ==
  ASSUME ~Forks, TypeOK, ExactlyOnceInv, ConfirmedWasPaid, StoppedNeverPaid, [Next]_vars
  PROVE  [D!Next]_<<outcomeBar, receiptsBar>>
<1>1. \A s \in Sig : ClaimOf(s) \in Claims
  BY DEF Sig, ClaimOf
<1>same. ASSUME UNCHANGED status, \A s \in Sig : tx'[s] = "confirmed" <=> tx[s] = "confirmed"
         PROVE  UNCHANGED <<outcomeBar, receiptsBar>>
  BY <1>same DEF outcomeBar, receiptsBar
<1>2. ASSUME NEW w \in Workers, WorkerStep(w) \/ Crash(w)
      PROVE  [D!Next]_<<outcomeBar, receiptsBar>>
  <2>1. CASE UNCHANGED status
    <3>1. CASE Broadcast(w)
      <4>1. job[w].sig \in Sig /\ tx[job[w].sig] = "unsent"
        BY <3>1 DEF Broadcast, TypeOK, WithSig, ExactlyOnceInv, JobCurrent
      <4>2. \A s \in Sig : tx'[s] = "confirmed" <=> tx[s] = "confirmed"
        BY <3>1, <4>1 DEF Broadcast, TypeOK, CoreTypeOK
      <4> QED
        BY <2>1, <4>2, <1>same
    <3>2. CASE ~Broadcast(w)
      <4>1. UNCHANGED tx
        BY <1>2, <3>2 DEF WorkerStep, Crash, RunOnce, ProcessClaim, SampleHeight, ReadStatus,
             ScanOutflow, ClearAndRedispatch, FreezeClaim, FailClaim, FinalizeClaim, LoadFresh,
             CheckFloat, ReviewClaim, ManualVault, SignTransaction, PersistSigned, chainVars
      <4> QED
        BY <2>1, <4>1, <1>same
    <3> QED
      BY <3>1, <3>2
  <2>2. ASSUME NEW c \in Claims, NEW n \in ClaimStatus,
               status' = [status EXCEPT ![c] = n],
               status[c] \in {"verified", "pending_review", "dispatching"},
               n = "confirmed" => \E s \in Sig : ClaimOf(s) = c /\ tx[s] = "confirmed",
               n \in Stopped => \A s \in Sig : ClaimOf(s) = c => ~MayPay(s),
               UNCHANGED chainVars
        PROVE  [D!Next]_<<outcomeBar, receiptsBar>>
    <3>1. UNCHANGED receiptsBar
      BY <2>2 DEF receiptsBar, chainVars
    <3>2. outcomeBar[c] = "open"
      BY <2>2 DEF outcomeBar, Stopped
    <3>3. \A d \in Claims : status'[d] = IF d = c THEN n ELSE status[d]
      BY <2>2 DEF TypeOK, CoreTypeOK
    <3>4. CASE n = "confirmed"
      <4>1. outcomeBar' = [outcomeBar EXCEPT ![c] = "confirmed"]
        <5>1. \A d \in Claims : outcomeBar'[d] = IF d = c THEN "confirmed" ELSE outcomeBar[d]
          BY <3>3, <3>4 DEF outcomeBar, Stopped
        <5> QED
          BY <5>1 DEF outcomeBar
      <4>2. receiptsBar[c] # {}
        BY <2>2, <3>4 DEF receiptsBar
      <4> QED
        BY <3>1, <3>2, <4>1, <4>2 DEF D!Next, D!Confirm
    <3>5. CASE n \in Stopped
      <4>1. outcomeBar' = [outcomeBar EXCEPT ![c] = "stopped"]
        BY <3>3, <3>5 DEF outcomeBar, Stopped
      <4>2. receiptsBar[c] = {}
        BY <2>2, <3>5 DEF receiptsBar, MayPay
      <4> QED
        BY <3>1, <3>2, <4>1, <4>2 DEF D!Next, D!Stop
    <3>6. CASE n \notin Stopped /\ n # "confirmed"
      <4>1. UNCHANGED outcomeBar
        BY <2>2, <3>3, <3>6 DEF outcomeBar, Stopped
      <4> QED
        BY <3>1, <4>1
    <3> QED
      BY <3>4, <3>5, <3>6
  <2> QED
    BY <1>2, <2>1, <2>2, StatusMoves
<1>3. CASE Approve \/ UNCHANGED vars
  BY <1>3, <1>same DEF Approve, ApproveClaim, vars, rowVars, chainVars
<1>4. CASE ChainStep
  <2>1. UNCHANGED status
    BY <1>4 DEF ChainStep, Refill, Land, LandWithError, ConfirmBlock, DropBlock, AgeBlockhash,
         rowVars
  <2>2. ASSUME NEW s \in Sig, ConfirmBlock(s), tx[s] = "processed"
        PROVE  [D!Next]_<<outcomeBar, receiptsBar>>
    <3>1. PICK c \in Claims : c = ClaimOf(s)
      BY <1>1
    <3>2. MayPay(s) /\ sig[c] = s
      BY <2>2, <3>1, OnlyRecordedPays DEF MayPay
    <3>3. receiptsBar[c] = {}
      BY <2>2, <3>1, <3>2, OnlyRecordedPays DEF receiptsBar, MayPay
    <3>4. status[c] # "confirmed"
      BY <3>1, <3>3 DEF ConfirmedWasPaid, receiptsBar, ExactlyOnceInv, RowsCoherent, TypeOK,
           CoreTypeOK
    <3>5. status[c] \notin Stopped
      BY <3>1, <3>2 DEF StoppedNeverPaid
    <3>6. outcomeBar[c] = "open" /\ UNCHANGED outcomeBar
      BY <2>1, <3>4, <3>5 DEF outcomeBar
    <3>7. \A t \in Sig : tx'[t] = IF t = s THEN "confirmed" ELSE tx[t]
      BY <2>2 DEF ConfirmBlock, TypeOK, CoreTypeOK
    <3>8. receiptsBar' = [receiptsBar EXCEPT ![c] = {s}]
      <4>1. ASSUME NEW d \in Claims
            PROVE  receiptsBar'[d] = IF d = c THEN {s} ELSE receiptsBar[d]
        <5>1. receiptsBar'[d] = {t \in Sig : ClaimOf(t) = d /\ tx'[t] = "confirmed"}
          BY DEF receiptsBar
        <5>2. receiptsBar[d] = {t \in Sig : ClaimOf(t) = d /\ tx[t] = "confirmed"}
          BY DEF receiptsBar
        <5>3. CASE d = c
          <6>1. \A t \in Sig : ClaimOf(t) = d => tx[t] # "confirmed"
            BY <3>3, <5>2, <5>3
          <6>2. \A t \in Sig : ClaimOf(t) = d /\ tx'[t] = "confirmed" <=> t = s
            BY <3>1, <3>7, <5>3, <6>1
          <6> QED
            BY <5>1, <5>3, <6>2
        <5>4. CASE d # c
          <6>1. \A t \in Sig : ClaimOf(t) = d => tx'[t] = tx[t]
            BY <3>1, <3>7, <5>4
          <6> QED
            BY <5>1, <5>2, <5>4, <6>1
        <5> QED
          BY <5>3, <5>4
      <4> QED
        BY <4>1 DEF receiptsBar
    <3> QED
      BY <3>3, <3>6, <3>8 DEF D!Next, D!Pay
  <2>3. ASSUME ~ \E s \in Sig : ConfirmBlock(s) /\ tx[s] = "processed"
        PROVE  \A t \in Sig : tx'[t] = "confirmed" <=> tx[t] = "confirmed"
    BY <1>4, <2>3 DEF ChainStep, Refill, Land, LandWithError, ConfirmBlock, DropBlock,
         AgeBlockhash, TypeOK, CoreTypeOK, Landable
  <2> QED
    BY <2>1, <2>2, <2>3, <1>same
<1> QED
  BY <1>2, <1>3, <1>4 DEF Next

\* The promise to claimant and operator: one worker with a consistent RPC and
\* no dropped blocks implements Dispense.
THEOREM WorkerImplementsDispense ==
  ASSUME SingleWorker, ~LaggingRpc, ~Forks
  PROVE  Spec => ImplementsDispense
<1>1. Init => D!Init
  BY DEF Init, CoreInit, D!Init, outcomeBar, receiptsBar, Stopped
<1> QED
  BY <1>1, TypeCorrect, OnlyRecordedSignatureIsAlive, ReportedMeansPaid, StoppedIsUnpaid,
     DispenseStep, PTL DEF Spec, ImplementsDispense, D!Spec
-----------------------------------------------------------------------------
(***************************************************************************)
(* One worker, a consistent RPC and no dropped blocks: the float.          *)
(***************************************************************************)

\* From the float check to the broadcast the amount of the claim is put aside.
Committed(w) == job[w].pc \in {"sign", "persist", "broadcast"}

\* The balance covers everything in flight and what a worker is about to send.
FloatInv ==
  /\ FloatCoversInFlight
  /\ \A w \in Workers :
       Committed(w) => SumFunctionOnSet(AmountOf, MayExecute) + Amount[job[w].claim] <= balance

LEMMA AmountsAreSums ==
  /\ \A s \in Sig : ClaimOf(s) \in Claims /\ AmountOf[s] = Amount[ClaimOf(s)] /\ AmountOf[s] \in Nat
  /\ \A S \in SUBSET Sig : IsFiniteSet(S) /\ SumFunctionOnSet(AmountOf, S) \in Nat
  /\ MayExecute \in SUBSET Sig
<1>1. \A s \in Sig : ClaimOf(s) \in Claims /\ AmountOf[s] = Amount[ClaimOf(s)] /\ AmountOf[s] \in Nat
  BY CoreAssumption DEF Sig, ClaimOf, AmountOf
<1>2. IsFiniteSet(Sig)
  <2>1. IsFiniteSet(1 .. MaxSigs)
    BY CoreAssumption, FS_Interval
  <2> QED
    BY <2>1, CoreAssumption, FS_Product DEF Sig
<1>3. ASSUME NEW S \in SUBSET Sig
      PROVE  IsFiniteSet(S) /\ SumFunctionOnSet(AmountOf, S) \in Nat
  BY <1>1, <1>2, FS_Subset, SumNat
<1> QED
  BY <1>1, <1>3 DEF MayExecute

\* What was covered stays covered when the account keeps its balance and
\* nothing new is sent.
LEMMA LessInFlight ==
  ASSUME NEW n \in Nat, SumFunctionOnSet(AmountOf, MayExecute) + n <= balance,
         MayExecute' \subseteq MayExecute, balance \in Int, balance' \in Int, balance <= balance'
  PROVE  SumFunctionOnSet(AmountOf, MayExecute') + n <= balance'
<1>1. PICK S, T \in SUBSET Sig : S = MayExecute' /\ T = MayExecute
  BY AmountsAreSums
<1>2. SumFunctionOnSet(AmountOf, S) <= SumFunctionOnSet(AmountOf, T)
  BY <1>1, AmountsAreSums, SumMonotone
<1> QED
  BY <1>1, <1>2, AmountsAreSums

\* A transfer that may still execute belongs to a dispatching claim, whose
\* amount FloatManager.reserved counts.
LEMMA InFlightIsDispatching ==
  ASSUME TypeOK, ExactlyOnceInv, ConfirmedWasPaid, StoppedNeverPaid, NEW s \in MayExecute
  PROVE  status[ClaimOf(s)] = "dispatching" /\ sig[ClaimOf(s)] = s
<1>1. s \in Sig /\ ClaimOf(s) \in Claims /\ MayPay(s) /\ Alive(s) /\ tx[s] # "confirmed"
  BY AmountsAreSums DEF MayExecute, MayPay, Alive, Landable
<1>2. sig[ClaimOf(s)] = s /\ s # None
  BY <1>1, CoreAssumption DEF ExactlyOnceInv, OnlyRecordedIsAlive
<1>3. status[ClaimOf(s)] \notin Stopped \cup {"verified", "pending_review"}
  BY <1>1, <1>2 DEF StoppedNeverPaid, ExactlyOnceInv, RowsCoherent
<1>4. status[ClaimOf(s)] # "confirmed"
  <2>1. SUFFICES ASSUME status[ClaimOf(s)] = "confirmed" PROVE FALSE
    OBVIOUS
  <2>2. PICK t \in txSigs[ClaimOf(s)] : tx[t] = "confirmed"
    BY <1>1, <2>1 DEF ConfirmedWasPaid
  <2>3. t \in Sig /\ ClaimOf(t) = ClaimOf(s) /\ Alive(t)
    BY <1>1, <2>2 DEF TypeOK, CoreTypeOK, ExactlyOnceInv, RowsCoherent, Alive
  <2> QED
    BY <1>1, <1>2, <2>2, <2>3 DEF ExactlyOnceInv, OnlyRecordedIsAlive
<1> QED
  BY <1>1, <1>2, <1>3, <1>4 DEF TypeOK, CoreTypeOK, ClaimStatus, Stopped

\* The check of FloatManager is enough: what it leaves for a claim that has
\* nothing in flight is not needed by anything in flight.
LEMMA CheckedIsCovered ==
  ASSUME TypeOK, ExactlyOnceInv, ConfirmedWasPaid, StoppedNeverPaid, FloatCoversInFlight,
         NEW c \in Claims, status[c] # "dispatching", Amount[c] <= Available(c)
  PROVE  SumFunctionOnSet(AmountOf, MayExecute) + Amount[c] <= balance
<1> DEFINE R == {d \in Claims \ {c} : /\ status[d] \in {"verified", "dispatching"}
                                      /\ AssetType[d] # "ant"}
           m == [s \in MayExecute |-> ClaimOf(s)]
<1>1. Amount[c] \in Nat /\ balance \in Int
  BY CoreAssumption DEF TypeOK, CoreTypeOK
<1>2. IsFiniteSet(R) /\ IsFiniteSet(MayExecute)
  BY CoreAssumption, AmountsAreSums, FS_Subset
<1>3. \A s \in MayExecute : /\ ClaimOf(s) \in Claims /\ AmountOf[s] = Amount[ClaimOf(s)]
                            /\ status[ClaimOf(s)] = "dispatching" /\ sig[ClaimOf(s)] = s
  BY InFlightIsDispatching, AmountsAreSums
<1>4. \A s, t \in MayExecute : m[s] = m[t] => s = t
  BY <1>3
<1>5. \A s \in MayExecute :
        AmountOf[s] \in Int /\ (AmountOf[s] <= 0 \/ (m[s] \in R /\ AmountOf[s] <= Amount[m[s]]))
  BY <1>3, CoreAssumption
<1>6. \A d \in R : Amount[d] \in Nat
  BY CoreAssumption
<1>7. Reserved(c) = SumFunctionOnSet(Amount, R)
  BY DEF Reserved, SumAmount
<1>8. Reserved(c) \in Nat
  BY <1>2, <1>6, <1>7, SumNat
<1> HIDE DEF R, m
<1>9. SumFunctionOnSet(AmountOf, MayExecute) <= Reserved(c)
  BY <1>2, <1>4, <1>5, <1>6, <1>7, SumInjects
<1>10. SumFunctionOnSet(AmountOf, MayExecute) \in Nat
  BY AmountsAreSums
<1>11. Amount[c] = 0 \/ Amount[c] + Reserved(c) <= balance
  BY <1>1, <1>8 DEF Available
<1> QED
  BY <1>1, <1>8, <1>9, <1>10, <1>11 DEF FloatCoversInFlight

\* A step of a worker that leaves the chain alone and commits no worker anew.
LEMMA FloatAside ==
  ASSUME TypeOK, TypeOK', FloatInv, MayExecute' \subseteq MayExecute, balance' = balance,
         \A w \in Workers :
           Committed(w)' =>
             \/ Amount[job'[w].claim] = 0
             \/ Committed(w) /\ job'[w].claim = job[w].claim
             \/ SumFunctionOnSet(AmountOf, MayExecute) + Amount[job'[w].claim] <= balance
  PROVE  FloatInv'
<1>1. balance \in Int /\ balance' \in Int
  BY DEF TypeOK, CoreTypeOK
<1>2. SumFunctionOnSet(AmountOf, MayExecute') \in Nat /\ SumFunctionOnSet(AmountOf, MayExecute) \in Nat
  BY AmountsAreSums
<1>3. SumFunctionOnSet(AmountOf, MayExecute') <= balance'
  <2>1. SumFunctionOnSet(AmountOf, MayExecute) + 0 <= balance
    BY <1>1, <1>2 DEF FloatInv, FloatCoversInFlight
  <2>2. SumFunctionOnSet(AmountOf, MayExecute') + 0 <= balance'
    BY <1>1, <2>1, LessInFlight
  <2> QED
    BY <1>1, <1>2, <2>2
<1>4. ASSUME NEW w \in Workers, Committed(w)'
      PROVE  SumFunctionOnSet(AmountOf, MayExecute') + Amount[job'[w].claim] <= balance'
  <2>1. job'[w].claim \in Claims /\ Amount[job'[w].claim] \in Nat
    BY <1>4, CoreAssumption DEF TypeOK, Committed
  <2>2. CASE Amount[job'[w].claim] = 0
    BY <1>1, <1>2, <1>3, <2>2
  <2>3. CASE SumFunctionOnSet(AmountOf, MayExecute) + Amount[job'[w].claim] <= balance
    BY <1>1, <2>1, <2>3, LessInFlight
  <2>4. CASE Committed(w) /\ job'[w].claim = job[w].claim
    BY <2>3, <2>4 DEF FloatInv
  <2> QED
    BY <1>4, <2>2, <2>3, <2>4
<1> QED
  BY <1>3, <1>4 DEF FloatInv, FloatCoversInFlight

LEMMA OneLess ==
  ASSUME NEW M \in SUBSET Sig, NEW s \in M
  PROVE  SumFunctionOnSet(AmountOf, M) = AmountOf[s] + SumFunctionOnSet(AmountOf, M \ {s})
<1>1. IsFiniteSet(M) /\ \A t \in M : AmountOf[t] \in Int
  BY AmountsAreSums
<1> QED
  BY <1>1, SumRemove

LEMMA FloatChain ==
  ASSUME ~Forks, TypeOK, TypeOK', FloatInv, ChainStep
  PROVE  FloatInv'
<1> USE DEF MayExecute, Landable, TypeOK, CoreTypeOK
<1>1. UNCHANGED job
  BY DEF ChainStep
<1>2. \A w \in Workers : Committed(w)' => Committed(w) /\ job'[w].claim = job[w].claim
  BY <1>1 DEF Committed
<1>3. CASE Refill
  <2>1. MayExecute' = MayExecute /\ balance <= balance' /\ balance \in Int /\ balance' \in Int
    BY <1>3 DEF Refill
  <2>2. SumFunctionOnSet(AmountOf, MayExecute) \in Nat
    BY AmountsAreSums
  <2>3. \A w \in Workers : Committed(w) => Amount[job[w].claim] \in Nat
    BY CoreAssumption DEF Committed
  <2> HIDE DEF MayExecute
  <2>4. \A a, b, c, n \in Int : a + n <= b /\ b <= c => a + n <= c
    OBVIOUS
  <2>5. FloatCoversInFlight'
    BY <2>1, <2>2 DEF FloatInv, FloatCoversInFlight
  <2>6. ASSUME NEW w \in Workers, Committed(w)'
        PROVE  SumFunctionOnSet(AmountOf, MayExecute') + Amount[job'[w].claim] <= balance'
    <3>1. SumFunctionOnSet(AmountOf, MayExecute) + Amount[job[w].claim] <= balance
      BY <1>2, <2>6 DEF FloatInv
    <3> QED
      BY <1>1, <1>2, <2>1, <2>2, <2>3, <2>4, <2>6, <3>1
  <2> QED
    BY <2>5, <2>6 DEF FloatInv
<1>4. ASSUME NEW s \in Sig, Land(s) \/ LandWithError(s) \/ AgeBlockhash(s) PROVE FloatInv'
  <2>1. MayExecute' \subseteq MayExecute /\ balance' = balance
    BY <1>4 DEF Land, LandWithError, AgeBlockhash
  <2> QED
    BY <1>2, <2>1, FloatAside
<1>5. ASSUME NEW s \in Sig, ConfirmBlock(s) PROVE FloatInv'
  <2>1. CASE tx[s] = "processed_err"
    <3>1. MayExecute' \subseteq MayExecute /\ balance' = balance
      BY <1>5, <2>1 DEF ConfirmBlock
    <3> QED
      BY <1>2, <3>1, FloatAside
  <2>2. CASE tx[s] = "processed"
    <3>1. balance' = balance - AmountOf[s] /\ balance \in Int /\ AmountOf[s] \in Nat
      BY <1>5, <2>2, AmountsAreSums DEF ConfirmBlock
    <3>2. MayExecute' = MayExecute \ {s} /\ s \in MayExecute
      BY <1>5, <2>2 DEF ConfirmBlock
    <3> HIDE DEF MayExecute
    <3>3. PICK M \in SUBSET Sig : M = MayExecute
      BY AmountsAreSums
    <3>4. SumFunctionOnSet(AmountOf, M) = AmountOf[s] + SumFunctionOnSet(AmountOf, M \ {s})
      BY <3>2, <3>3, OneLess
    <3>5. SumFunctionOnSet(AmountOf, M \ {s}) \in Nat
      BY <3>3, AmountsAreSums
    <3>6. \A n \in Nat : SumFunctionOnSet(AmountOf, M) + n <= balance
                           => SumFunctionOnSet(AmountOf, M \ {s}) + n <= balance'
      BY <3>1, <3>4, <3>5
    <3>7. FloatCoversInFlight'
      BY <3>1, <3>2, <3>3, <3>4, <3>5 DEF FloatInv, FloatCoversInFlight
    <3>8. ASSUME NEW w \in Workers, Committed(w)'
          PROVE  SumFunctionOnSet(AmountOf, MayExecute') + Amount[job'[w].claim] <= balance'
      <4>1. /\ Amount[job[w].claim] \in Nat /\ job'[w].claim = job[w].claim
            /\ SumFunctionOnSet(AmountOf, M) + Amount[job[w].claim] <= balance
        BY <1>2, <3>3, <3>8, CoreAssumption DEF Committed, FloatInv
      <4> QED
        BY <3>2, <3>3, <3>6, <4>1
    <3> QED
      BY <3>7, <3>8 DEF FloatInv
  <2> QED
    BY <1>5, <2>1, <2>2 DEF ConfirmBlock
<1> QED
  BY <1>3, <1>4, <1>5 DEF ChainStep, DropBlock

\* The worker sends what it put aside.
LEMMA FloatBroadcast ==
  ASSUME SingleWorker, TypeOK, TypeOK', ExactlyOnceInv, FloatInv, NEW w \in Workers, Broadcast(w)
  PROVE  FloatInv'
<1> DEFINE s == job[w].sig
<1>1. s \in Sig /\ ClaimOf(s) = job[w].claim /\ tx[s] = "unsent" /\ Committed(w)
  BY CoreAssumption DEF Broadcast, TypeOK, WithSig, Committed, ExactlyOnceInv, RowsCoherent,
     JobCurrent, Recovering
<1>2. \A v \in Workers : ~Committed(v)'
  BY DEF SingleWorker, Broadcast, Committed, TypeOK
<1>3. balance' = balance /\ balance \in Int
  BY DEF Broadcast, TypeOK, CoreTypeOK
<1>4. MayExecute' \subseteq MayExecute \cup {s} /\ s \notin MayExecute
  BY <1>1 DEF Broadcast, MayExecute, Landable, TypeOK, CoreTypeOK
<1>5. PICK M, N \in SUBSET Sig : M = MayExecute /\ N = MayExecute'
  BY <1>1, <1>4, AmountsAreSums
<1>6. SumFunctionOnSet(AmountOf, M \cup {s}) = AmountOf[s] + SumFunctionOnSet(AmountOf, M)
  BY <1>1, <1>4, <1>5, AmountsAreSums, SumAdd
<1>7. SumFunctionOnSet(AmountOf, N) <= SumFunctionOnSet(AmountOf, M \cup {s})
  <2>1. IsFiniteSet(M \cup {s}) /\ N \subseteq M \cup {s}
    BY <1>1, <1>4, <1>5, AmountsAreSums
  <2> QED
    BY <1>1, <2>1, AmountsAreSums, SumMonotone
<1>8. SumFunctionOnSet(AmountOf, M) + AmountOf[s] <= balance
  BY <1>1, <1>5, AmountsAreSums DEF FloatInv
<1>9. /\ SumFunctionOnSet(AmountOf, M) \in Nat /\ SumFunctionOnSet(AmountOf, N) \in Nat
      /\ AmountOf[s] \in Nat
  BY <1>1, AmountsAreSums
<1>10. SumFunctionOnSet(AmountOf, N) <= balance
  BY <1>3, <1>6, <1>7, <1>8, <1>9
<1> QED
  BY <1>2, <1>3, <1>5, <1>10 DEF FloatInv, FloatCoversInFlight

LEMMA FloatNext ==
  ASSUME SingleWorker, ~Forks, TypeOK, TypeOK', ExactlyOnceInv, ConfirmedWasPaid,
         StoppedNeverPaid, FloatInv, [Next]_vars
  PROVE  FloatInv'
<1>same. ASSUME UNCHANGED <<tx, age, balance>>
         PROVE  MayExecute' \subseteq MayExecute /\ balance' = balance
  BY <1>same DEF MayExecute, Landable
<1>only. ASSUME NEW w \in Workers, UNCHANGED <<tx, age, balance>>,
                Committed(w)' => \/ Amount[job'[w].claim] = 0
                                 \/ Committed(w) /\ job'[w].claim = job[w].claim
                                 \/ SumFunctionOnSet(AmountOf, MayExecute)
                                      + Amount[job'[w].claim] <= balance
         PROVE  FloatInv'
  BY <1>only, <1>same, FloatAside DEF SingleWorker
<1>done. ASSUME NEW w \in Workers, Done(w) PROVE ~Committed(w)'
  BY <1>done DEF Done, NoJob, Committed, TypeOK
<1>goto. ASSUME NEW w \in Workers, NEW label \in PC, Goto(w, label)
         PROVE  job'[w].pc = label /\ job'[w].claim = job[w].claim
  BY <1>goto DEF Goto, TypeOK, Job
<1>1. ASSUME NEW w \in Workers,
             \/ Crash(w) \/ RunOnce(w) \/ (\E c \in queue[w] : ProcessClaim(w, c))
             \/ SampleHeight(w) \/ ReadStatus(w) \/ ScanOutflow(w)
      PROVE  FloatInv'
  <2>1. UNCHANGED <<tx, age, balance>>
    BY <1>1 DEF Crash, RunOnce, ProcessClaim, SampleHeight, ReadStatus, ScanOutflow, chainVars
  <2>2. ASSUME RunOnce(w) PROVE Committed(w)' => Committed(w) /\ job'[w].claim = job[w].claim
    BY <2>2 DEF RunOnce, Committed
  <2>3. ASSUME NEW c \in queue[w], ProcessClaim(w, c) PROVE ~Committed(w)'
    BY <2>3 DEF ProcessClaim, Committed, NoJob, TypeOK
  <2>4. ASSUME SampleHeight(w) PROVE ~Committed(w)'
    BY <2>4 DEF SampleHeight, Committed, TypeOK
  <2>5. ASSUME Crash(w) \/ ReadStatus(w) PROVE ~Committed(w)'
    BY <2>5, <1>done, <1>goto DEF Crash, ReadStatus, Committed, PC
  <2>6. ASSUME ScanOutflow(w) PROVE ~Committed(w)'
    <3>1. ASSUME NEW s \in Outflows(w),
                 job' = [job EXCEPT ![w] = [@ EXCEPT !.pc = "finalize", !.sig = s]]
          PROVE  ~Committed(w)'
      BY <3>1 DEF Committed, TypeOK
    <3> QED
      BY <2>6, <3>1, <1>goto DEF ScanOutflow, Committed, PC
  <2> QED
    BY <1>1, <1>only, <2>1, <2>2, <2>3, <2>4, <2>5, <2>6
<1>2. ASSUME NEW w \in Workers,
             \/ ClearAndRedispatch(w) \/ FreezeClaim(w) \/ FailClaim(w) \/ FinalizeClaim(w)
             \/ ReviewClaim(w) \/ ManualVault(w) \/ PersistSigned(w)
      PROVE  FloatInv'
  <2>1. UNCHANGED <<tx, age, balance>>
    BY <1>2 DEF ClearAndRedispatch, FreezeClaim, FailClaim, FinalizeClaim, ReviewClaim,
         ManualVault, PersistSigned, chainVars
  <2>2. ASSUME PersistSigned(w)
        PROVE  Committed(w)' => Committed(w) /\ job'[w].claim = job[w].claim
    BY <1>done, <1>goto, <2>2 DEF PersistSigned, Committed, PC
  <2>3. ASSUME ClearAndRedispatch(w) PROVE ~Committed(w)'
    BY <2>3 DEF ClearAndRedispatch, Committed, TypeOK
  <2>4. Committed(w)' => Committed(w) /\ job'[w].claim = job[w].claim
    BY <1>2, <1>done, <2>2, <2>3 DEF FreezeClaim, FailClaim, FinalizeClaim, ReviewClaim, ManualVault
  <2> QED
    BY <1>only, <2>1, <2>4
<1>3. ASSUME NEW w \in Workers, LoadFresh(w) PROVE FloatInv'
  <2>1. UNCHANGED <<tx, age, balance>>
    BY <1>3 DEF LoadFresh, chainVars
  <2>2. job[w].claim \in Claims
    BY <1>3 DEF LoadFresh, TypeOK
  <2>3. LoadTarget(w, job[w].claim) = "sign" => AssetType[job[w].claim] = "ant"
    BY DEF LoadTarget
  <2>4. Committed(w)' => Amount[job'[w].claim] = 0
    <3>1. CASE LoadTarget(w, job[w].claim) = "idle"
      BY <1>3, <3>1 DEF LoadFresh, Done, NoJob, Committed, TypeOK
    <3>2. CASE LoadTarget(w, job[w].claim) # "idle"
      <4>1. job'[w].pc = LoadTarget(w, job[w].claim) /\ job'[w].claim = job[w].claim
        <5>1. job' = [job EXCEPT ![w] = [@ EXCEPT !.pc = LoadTarget(w, job[w].claim),
                                                  !.approved = approved[job[w].claim]]]
          BY <1>3, <3>2 DEF LoadFresh
        <5> QED
          BY <5>1 DEF TypeOK, Job
      <4>2. LoadTarget(w, job[w].claim) \in {"idle", "float", "review", "sign"}
        BY DEF LoadTarget
      <4> QED
        BY <2>2, <2>3, <4>1, <4>2, CoreAssumption DEF Committed
    <3> QED
      BY <3>1, <3>2
  <2> QED
    BY <1>only, <2>1, <2>4
<1>4. ASSUME NEW w \in Workers, CheckFloat(w) PROVE FloatInv'
  <2>1. UNCHANGED <<tx, age, balance>>
    BY <1>4 DEF CheckFloat, chainVars
  <2>2. job[w].claim \in Claims /\ status[job[w].claim] # "dispatching"
    BY <1>4 DEF CheckFloat, TypeOK, ExactlyOnceInv, JobCurrent, Fresh
  <2>3. Committed(w)' => /\ job'[w].claim = job[w].claim
                         /\ Amount[job[w].claim] <= Available(job[w].claim)
    BY <1>4 DEF CheckFloat, Done, Goto, NoJob, Committed, TypeOK, Job
  <2>4. Committed(w)' => SumFunctionOnSet(AmountOf, MayExecute) + Amount[job'[w].claim] <= balance
    BY <2>2, <2>3, CheckedIsCovered DEF FloatInv
  <2> QED
    BY <1>only, <2>1, <2>4
<1>5. ASSUME NEW w \in Workers, SignTransaction(w) PROVE FloatInv'
  <2>1. PICK s \in Sig : tx[s] = "unsent" /\ age' = [age EXCEPT ![s] = 0]
    BY <1>5 DEF SignTransaction, Unused
  <2>2. MayExecute' \subseteq MayExecute /\ balance' = balance
    BY <1>5, <2>1 DEF SignTransaction, MayExecute, Landable, TypeOK, CoreTypeOK
  <2>3. \A v \in Workers : Committed(v)' => Committed(v) /\ job'[v].claim = job[v].claim
    BY <1>5 DEF SignTransaction, Committed, TypeOK, Job
  <2> QED
    BY <2>2, <2>3, FloatAside
<1>6. CASE Approve \/ UNCHANGED vars
  <2>1. UNCHANGED <<tx, age, balance, job>>
    BY <1>6 DEF Approve, ApproveClaim, vars, chainVars
  <2> QED
    BY <2>1, <1>same, FloatAside DEF Committed
<1> QED
  BY <1>1, <1>2, <1>3, <1>4, <1>5, <1>6, FloatBroadcast, FloatChain DEF Next, WorkerStep

\* The float is never over-committed: the hot account covers everything one
\* worker has in flight at once, through crashes, lost sends, late landings,
\* re-signs and refills, although the balance is read once and used later.
THEOREM FloatIsEnough ==
  ASSUME SingleWorker, ~LaggingRpc, ~Forks
  PROVE  Spec => []FloatCoversInFlight
<1>1. Init => FloatInv
  <2> SUFFICES ASSUME Init PROVE FloatInv
    OBVIOUS
  <2>1. MayExecute = {}
    BY DEF Init, CoreInit, MayExecute, Landable
  <2>2. balance \in Nat /\ \A w \in Workers : ~Committed(w)
    BY CoreAssumption DEF Init, CoreInit, NoJob, Committed
  <2>3. SumFunctionOnSet(AmountOf, MayExecute) = 0
    BY <2>1, SumEmpty
  <2> QED
    BY <2>2, <2>3 DEF FloatInv, FloatCoversInFlight
<1>2. FloatInv => FloatCoversInFlight
  BY DEF FloatInv
<1> QED
  BY <1>1, <1>2, TypeCorrect, OnlyRecordedSignatureIsAlive, ReportedMeansPaid, StoppedIsUnpaid,
     FloatNext, PTL DEF Spec

=============================================================================
