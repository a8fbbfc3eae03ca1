---------------------------- MODULE AntOperator -----------------------------
(***************************************************************************)
(* Operator-wallet dispatch of ANTs (ant-operator.ts): claims are reserved *)
(* into a batch, built into transactions the treasury has signed, signed   *)
(* by the operator's wallet, and submitted.  The server learns a           *)
(* transaction's id when it builds it and records it before it sends it.   *)
(*                                                                         *)
(* Reserve, build, cancel and expiry are database transactions.  A submit  *)
(* is a request that reads the reservation and the claim without a lock    *)
(* and then runs dispatchSignedTx or recoverReservedAntClaim; those go     *)
(* through the same steps as the worker's, so a submit has a job of        *)
(* Worker, next to its own request.  Other workers meet the same claims:   *)
(* the daemon, told the mode (OperatorWallet) or not, or dispatch:ants.    *)
(***************************************************************************)
EXTENDS Worker

CONSTANTS
  Submits,    \* submit requests served at once, a subset of Workers
  BatchMax    \* ANT_BATCH_MAX

ASSUME OperatorAssumption ==
  /\ Submits \subseteq Workers
  /\ Batches \subseteq Nat      \* batches in the order they are created
  /\ BatchMax \in Nat

VARIABLES
  resTxid,   \* claims.ant_reserved_txid
  header,    \* ant_batches.status; "none" where no row exists
  wallet,    \* built transactions, which the operator may submit at any time
  req        \* what each submit request is doing besides its job

opVars  == <<resTxid, header, wallet, req>>
allVars == <<vars, opVars>>

NoReq == [pc |-> "idle", batch |-> None, claim |-> None, sig |-> None, open |-> FALSE]

OpTypeOK ==
  /\ TypeOK
  /\ resTxid \in [Claims -> Sig \cup {None}]
  /\ header \in [Batches -> {"none", "open", "submitted", "completed", "expired"}]
  /\ wallet \subseteq Sig
  /\ req \in [Submits -> [pc    : {"idle", "load", "reload", "run", "count", "header"},
                          batch : Batches \cup {None}, claim : Claims \cup {None},
                          sig   : Sig \cup {None},     open  : BOOLEAN]]

OpInit ==
  /\ Init
  /\ resTxid = [c \in Claims |-> None]
  /\ header  = [b \in Batches |-> "none"]
  /\ wallet  = {}
  /\ req     = [p \in Submits |-> NoReq]

Members(b) == {c \in Claims : batch[c] = b}

-----------------------------------------------------------------------------
(***************************************************************************)
(* Reserve, build, cancel and the TTL.                                     *)
(***************************************************************************)

Awaiting(c) ==
  IF AntRequiresApproval
  THEN status[c] \in {"verified", "pending_review"} /\ approved[c]
  ELSE status[c] = "verified" \/ (status[c] = "pending_review" /\ approved[c])

Reservable(c) ==
  /\ AssetType[c] = "ant" /\ asset[c] \in {"claiming", "pending_review"}
  /\ sig[c] = None /\ batch[c] = None
  /\ Awaiting(c)

\* SKIP LOCKED may leave any of them out.
ReserveAntBatch(b) ==
  /\ header[b] = "none" /\ \A d \in Batches : header[d] = "none" => b <= d
  /\ \E S \in SUBSET {c \in Claims : Reservable(c)} :
       /\ Cardinality(S) <= BatchMax
       /\ batch' = [c \in Claims |-> IF c \in S THEN b ELSE batch[c]]
  /\ header' = [header EXCEPT ![b] = "open"]
  /\ UNCHANGED <<status, approved, sig, txSigs, resign, asset, chainVars,
                 queue, job, crashes, resTxid, wallet, req>>

\* What no row, no process and no wallet has; the worker takes them from the
\* other end.
Buildable(c) == {s \in Unused(c) : s \notin wallet}

Built(c) == CHOOSE s \in Buildable(c) : \A t \in Buildable(c) : s[2] >= t[2]

\* Members that are not submitted and still eligible; the others are skipped.
ToBuild(b) ==
  {c \in Members(b) : sig[c] = None /\ CanDispatch(c) /\ AssetType[c] = "ant"}

\* A fresh blockhash, and one transaction per claim.  A second build of the
\* batch replaces the first one's transaction ids.
BuildReservedBatch(b) ==
  /\ ToBuild(b) # {}
  /\ \A c \in ToBuild(b) : Buildable(c) # {}
  /\ LET built == {Built(c) : c \in ToBuild(b)}
     IN /\ resTxid' = [c \in Claims |-> IF c \in ToBuild(b) THEN Built(c) ELSE resTxid[c]]
        /\ wallet' = wallet \cup built
        /\ age' = [s \in Sig |-> IF s \in built THEN 0 ELSE age[s]]
  /\ UNCHANGED <<rowVars, tx, balance, queue, job, crashes, header, req>>

\* Mutant: the signature is not looked at.
UnsubmittedAny(c) == status[c] \in {"verified", "pending_review", "dispatching"}

Unsubmitted(c) == sig[c] = None /\ status[c] \in {"verified", "pending_review"}

Free(S) ==
  /\ batch' = [c \in Claims |-> IF c \in S THEN None ELSE batch[c]]
  /\ resTxid' = [c \in Claims |-> IF c \in S THEN None ELSE resTxid[c]]

CancelHeader == "expired"

\* The operator's cancel.
ReleaseAntBatch(b) ==
  /\ header[b] # "none"
  /\ LET S == {c \in Members(b) : Unsubmitted(c)}
     IN /\ Free(S)
        /\ status' = [c \in Claims |-> IF c \notin S THEN status[c]
                                       ELSE IF approved[c] THEN "pending_review"
                                       ELSE "verified"]
        /\ header' = IF header[b] \in {"open", "submitted"}
                        /\ \A c \in Members(b) \ S : sig[c] = None
                     THEN [header EXCEPT ![b] = CancelHeader] ELSE header
  /\ UNCHANGED <<approved, sig, txSigs, resign, asset, chainVars,
                 queue, job, crashes, wallet, req>>

\* The first transaction of reserveAntBatch: the batches up to k are older
\* than the TTL.
ExpireStaleReservations(k) ==
  /\ header[k] # "none"
  /\ LET S == {c \in Claims : batch[c] \in 1 .. k /\ Unsubmitted(c)}
     IN /\ Free(S)
        /\ header' = [b \in Batches |->
             IF b <= k /\ header[b] = "open" /\ Members(b) \subseteq S
             THEN "expired" ELSE header[b]]
  /\ UNCHANGED <<status, approved, sig, txSigs, resign, asset, chainVars,
                 queue, job, crashes, wallet, req>>

-----------------------------------------------------------------------------
(***************************************************************************)
(* Submit.  A tick of req[p].pc = "run" is a step of the worker's job.     *)
(***************************************************************************)

Request(p, label) == req' = [req EXCEPT ![p] = [@ EXCEPT !.pc = label]]

Matches(c, s, b) == resTxid[c] = s /\ batch[c] = b

\* A transaction signed by the wallet arrives.  One that is undecodable, lacks
\* the authority's signature or matches no reservation only ends in the header
\* update.
SubmitAntBatch(p, b, s) ==
  /\ req[p].pc = "idle"
  /\ header[b] # "none" /\ s \in wallet
  /\ LET c == ClaimOf(s)
     IN req' = [req EXCEPT ![p] =
          [NoReq EXCEPT !.batch = b, !.claim = c, !.sig = s,
                        !.pc = IF Matches(c, s, b) THEN "load" ELSE "count"]]
  /\ UNCHANGED <<vars, resTxid, header, wallet>>

\* The claim is read without a lock, after its reservation was.
SubmitLoad(p) ==
  /\ req[p].pc = "load"
  /\ LET c == req[p].claim
     IN \/ /\ status[c] = "confirmed"
           /\ Request(p, "count") /\ UNCHANGED job
        \/ /\ status[c] = "dispatching" /\ sig[c] # None
           /\ Request(p, "reload") /\ UNCHANGED job
        \/ /\ status[c] # "confirmed" /\ ~(status[c] = "dispatching" /\ sig[c] # None)
           /\ Request(p, "run")
           /\ job' = [job EXCEPT ![p] = [NoJob EXCEPT !.pc = "persist", !.claim = c,
                                                      !.sig = req[p].sig]]
  /\ UNCHANGED <<rowVars, chainVars, queue, crashes, resTxid, header, wallet>>

\* recoverReservedAntClaim reads the claim again.
RecoverReservedAntClaim(p) ==
  /\ req[p].pc = "reload"
  /\ LET c == req[p].claim
     IN IF status[c] = "dispatching" /\ sig[c] # None
        THEN /\ Request(p, "run")
             /\ job' = [job EXCEPT ![p] =
                  [NoJob EXCEPT !.pc = "sample", !.claim = c, !.sig = sig[c],
                                !.known = {sig[c]} \cup txSigs[c], !.resign = resign[c]]]
        ELSE Request(p, "count") /\ UNCHANGED job
  /\ UNCHANGED <<rowVars, chainVars, queue, crashes, resTxid, header, wallet>>

\* Mutant: only the signature is dropped; the claim stays dispatching, in its batch.
ReleaseSignatureOnly(p) ==
  /\ job[p].pc = "clear"
  /\ LET c == job[p].claim
     IN IF status[c] # "dispatching"
        THEN UNCHANGED <<rowVars, resTxid>>
        ELSE /\ sig' = [sig EXCEPT ![c] = None]
             /\ resign' = [resign EXCEPT ![c] = @ + 1]
             /\ UNCHANGED <<status, approved, txSigs, asset, batch, resTxid>>
  /\ Done(p)
  /\ UNCHANGED <<chainVars, queue, crashes, header, wallet, req>>

\* A claim found dead goes back to the operator's queue; only the status is
\* checked, not that the signature is still the one found dead.
ReleaseReservationForRebuild(p) ==
  /\ job[p].pc = "clear"
  /\ LET c == job[p].claim
     IN IF status[c] # "dispatching"
        THEN UNCHANGED <<rowVars, resTxid>>
        ELSE /\ status' = [status EXCEPT ![c] = IF approved[c] THEN "pending_review"
                                                               ELSE "verified"]
             /\ sig' = [sig EXCEPT ![c] = None]
             /\ resign' = [resign EXCEPT ![c] = @ + 1]
             /\ Free({c})
             /\ UNCHANGED <<approved, txSigs, asset>>
  /\ Done(p)
  /\ UNCHANGED <<chainVars, queue, crashes, header, wallet, req>>

\* Persist, broadcast, confirm, scan: the steps of Worker.
SubmitStep(p) ==
  /\ \/ PersistSigned(p) \/ Broadcast(p) \/ SampleHeight(p) \/ ReadStatus(p)
     \/ ScanOutflow(p) \/ FreezeClaim(p) \/ FailClaim(p) \/ FinalizeClaim(p)
  /\ UNCHANGED opVars

\* Mutant: what was submitted counts as done.
RemainingUnsubmitted(b) == \E c \in Members(b) : sig[c] = None

Remaining(b) == \E c \in Members(b) : status[c] # "confirmed"

\* finalizeBatchStatus counts, then writes.
CountRemaining(p) ==
  /\ \/ req[p].pc = "count"
     \/ req[p].pc = "run" /\ job[p].pc = "idle"
  /\ req' = [req EXCEPT ![p] =
       [@ EXCEPT !.pc = "header",
                 !.open = Remaining(req[p].batch)]]
  /\ UNCHANGED <<vars, resTxid, header, wallet>>

FinalizeBatchStatus(p) ==
  /\ req[p].pc = "header"
  /\ header' = IF header[req[p].batch] \in {"open", "submitted"}
               THEN [header EXCEPT ![req[p].batch] =
                       IF req[p].open THEN "submitted" ELSE "completed"]
               ELSE header
  /\ req' = [req EXCEPT ![p] = NoReq]
  /\ UNCHANGED <<vars, resTxid, wallet>>

\* An error is isolated to its transaction: the header is still updated.
SubmitError(p) ==
  /\ req[p].pc \in {"load", "reload", "run"}
  /\ crashes < MaxCrashes /\ crashes' = crashes + 1
  /\ Done(p) /\ Request(p, "count")
  /\ UNCHANGED <<rowVars, chainVars, queue, resTxid, header, wallet>>

\* The admin server dies.
SubmitDies(p) ==
  /\ req[p].pc # "idle"
  /\ crashes < MaxCrashes /\ crashes' = crashes + 1
  /\ Done(p) /\ req' = [req EXCEPT ![p] = NoReq]
  /\ UNCHANGED <<rowVars, chainVars, queue, resTxid, header, wallet>>

ServeSubmit(p) ==
  \/ SubmitLoad(p) \/ RecoverReservedAntClaim(p) \/ ReleaseReservationForRebuild(p)
  \/ SubmitStep(p) \/ CountRemaining(p) \/ FinalizeBatchStatus(p)

\* The other workers; a signature they make is not one the wallet has.
OtherWorkers ==
  /\ \E w \in Workers \ Submits :
       /\ WorkerStep(w) \/ Crash(w)
       /\ job'[w].pc = "persist" => job'[w].sig \notin wallet
  /\ UNCHANGED opVars

OpChainStep ==
  /\ \/ \E s \in Sig : Land(s) \/ LandWithError(s) \/ ConfirmBlock(s) \/ DropBlock(s)
     \/ \E s \in Sig : (Exists(s) \/ s \in wallet) /\ AgeBlockhash(s)
  /\ UNCHANGED <<queue, job, crashes, opVars>>

OperatorStep ==
  \/ \E b \in Batches : \/ ReserveAntBatch(b) \/ BuildReservedBatch(b)
                        \/ ReleaseAntBatch(b) \/ ExpireStaleReservations(b)
  \/ \E p \in Submits, b \in Batches, s \in Sig : SubmitAntBatch(p, b, s)

OpNext ==
  \/ OperatorStep
  \/ \E p \in Submits : ServeSubmit(p) \/ SubmitError(p) \/ SubmitDies(p)
  \/ OtherWorkers
  \/ Approve /\ UNCHANGED opVars
  \/ OpChainStep

OpSpec == OpInit /\ [][OpNext]_allVars

-----------------------------------------------------------------------------
(***************************************************************************)
(* Properties.                                                             *)
(***************************************************************************)

\* The exactly-once anchor survives cancel, TTL, rebuild and the daemon: a
\* transfer that executed or still can is the one on the claim's row, so that
\* every later submit or run confirms it instead of sending another.
AliveIsOnRecord == \A s \in Sig : Alive(s) => sig[ClaimOf(s)] = s

\* A reservation is never stranded: a claim in a batch is unsubmitted, so that
\* cancel and TTL can free it; or dispatching with a signature, so that a
\* resubmission can recover it; or done with, delivered or left to an operator.
ReservationsCanEnd ==
  \A c \in Claims : batch[c] # None =>
    \/ Unsubmitted(c)
    \/ status[c] = "dispatching" /\ sig[c] # None
    \/ status[c] \in Stopped \cup {"confirmed"}

\* A header that says completed or expired has no claim left to look after.
HeadersTellTheTruth ==
  \A b \in Batches :
    /\ header[b] = "completed" => \A c \in Members(b) : status[c] = "confirmed"
    /\ header[b] = "expired" => \A c \in Members(b) : sig[c] = None
=============================================================================
