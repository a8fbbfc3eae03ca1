----------------------------- MODULE ClaimsApi ------------------------------
(***************************************************************************)
(* initiateClaim and completeClaim (api/service.ts), the challenge reaper  *)
(* (api/reaper.ts) and the dispatcher's transactions as they meet them:    *)
(* concurrent database transactions under READ COMMITTED.                  *)
(*                                                                         *)
(* A process runs one transaction at a time, one statement per step.  The  *)
(* steps that can block are the row locks (FOR UPDATE), the share lock an  *)
(* INSERT takes on the asset it references, a duplicate idempotency key    *)
(* that is not committed yet, and the advisory lock of appendAudit, which  *)
(* every transaction that writes takes last.  What a transaction writes    *)
(* becomes visible when it commits.                                        *)
(***************************************************************************)
EXTENDS Integers, FiniteSets, Functions

CONSTANTS
  Requests,          \* HTTP requests being served at once
  Reaper, Dispatcher,
  Background,        \* which of these two are running
  Assets, Recipients,
  RecipientOf,       \* Assets -> Recipients
  Amount,            \* Assets -> Nat (0 for an ANT)
  Delisted,          \* assets that are never offered (manually delivered, retired)
  Held,              \* assets loaded as manual_review
  Keys,              \* client idempotency keys
  Threshold,         \* bigClaimThresholdMario, 0 turns the brake off
  MaxClaims,         \* bound: claims ever initiated
  None, Error

Procs == Requests \cup Background
Ids   == 1 .. MaxClaims

ASSUME ApiAssumption ==
  /\ IsFiniteSet(Assets)
  /\ RecipientOf \in [Assets -> Recipients]
  /\ Amount \in [Assets -> Nat]
  /\ Delisted \subseteq Assets /\ Held \subseteq Assets
  /\ Threshold \in Nat /\ MaxClaims \in Nat
  /\ Background \subseteq {Reaper, Dispatcher} /\ Reaper # Dispatcher
  /\ Reaper \notin Requests /\ Dispatcher \notin Requests
  /\ None \notin Procs \cup Assets \cup Keys \cup Ids
  /\ Error \notin Ids \cup {None}

VARIABLES
  claim,      \* the claims table; None where no row exists
  expired,    \* claims whose challenge_expires_at has passed
  asset,      \* assets.status
  claimLock,  \* holder of the row lock on a claim
  assetLock,  \* holder of the FOR UPDATE lock on an asset
  auditLock,  \* holder of the advisory lock of appendAudit
  job,        \* each process's transaction
  answer      \* what each request was told: a claim on success, or Error

tables == <<claim, expired, asset>>
locks  == <<claimLock, assetLock, auditLock>>
vars   == <<tables, locks, job, answer>>

\* stopped is failed, needs_operator or awaiting_manual_vault_delivery, which
\* the API does not tell apart.
Live        == {"verified", "pending_review", "dispatching"}
WonStatus   == Live \cup {"confirmed", "stopped"}
ClaimStatus == WonStatus \cup {"claiming", "rejected", "expired"}
AssetStatus == {"available", "claiming", "pending_review", "claimed", "manual_review"}

Row == [asset : Assets, key : Keys \cup {None}, status : ClaimStatus]

\* SQL's NULL is no row and no status.
ASSUME NullAssumption == None \notin Row \cup ClaimStatus \cup AssetStatus

Job == [pc     : {"idle", "lookup", "load", "insert", "lost", "lockClaim",
                  "lockAsset", "lockAudit", "commit"},
        op     : {"initiate", "complete", "reap", "dispatch"},
        claim  : Ids \cup {None},
        asset  : Assets \cup {None},         \* asked for, or written
        key    : Keys \cup {None},
        valid  : BOOLEAN,                    \* does the proof verify?
        echo   : BOOLEAN,                    \* does an echoed claimant agree?
        write  : ClaimStatus \cup {None},    \* status to be written
        mark   : AssetStatus \cup {None}]    \* asset status to be written

NoJob == [pc |-> "idle", op |-> "initiate", claim |-> None, asset |-> None,
          key |-> None, valid |-> FALSE, echo |-> TRUE, write |-> None, mark |-> None]

TypeOK ==
  /\ claim \in [Ids -> Row \cup {None}]
  /\ expired \subseteq Ids
  /\ asset \in [Assets -> AssetStatus]
  /\ claimLock \in [Ids -> Procs \cup {None}]
  /\ assetLock \in [Assets -> Procs \cup {None}]
  /\ auditLock \in Procs \cup {None}
  /\ job \in [Procs -> Job]
  /\ answer \in [Requests -> Ids \cup {None, Error}]

Init ==
  /\ claim = [i \in Ids |-> None]
  /\ expired = {}
  /\ asset = [a \in Assets |-> IF a \in Held THEN "manual_review" ELSE "available"]
  /\ claimLock = [i \in Ids |-> None]
  /\ assetLock = [a \in Assets |-> None]
  /\ auditLock = None
  /\ job = [p \in Procs |-> NoJob]
  /\ answer = [r \in Requests |-> None]

Existing   == {i \in Ids : claim[i] # None}
Status(i)  == claim[i].status
WithKey(k) == {i \in Existing : claim[i].key = k}
Goto(p, label) == job' = [job EXCEPT ![p] = [@ EXCEPT !.pc = label]]

\* End of a transaction: the locks are released, a request is answered.
Release(p) ==
  /\ claimLock' = [i \in Ids |-> IF claimLock[i] = p THEN None ELSE claimLock[i]]
  /\ assetLock' = [a \in Assets |-> IF assetLock[a] = p THEN None ELSE assetLock[a]]
  /\ auditLock' = IF auditLock = p THEN None ELSE auditLock

Finish(p, i, ok) ==
  /\ Release(p)
  /\ job' = [job EXCEPT ![p] = NoJob]
  /\ IF p \in Requests
     THEN answer' = [answer EXCEPT ![p] = IF ok THEN i ELSE Error]
     ELSE UNCHANGED answer

Refuse(p) == Finish(p, job[p].claim, FALSE) /\ UNCHANGED tables

-----------------------------------------------------------------------------
(***************************************************************************)
(* initiateClaim.                                                          *)
(***************************************************************************)

Initiating == {p \in Requests : job[p].op = "initiate" /\ job[p].pc # "idle"}

\* Rows inserted and not committed: each holds a KEY SHARE lock on its asset.
Inserted == {p \in Initiating : job[p].pc \in {"lockAudit", "commit"}}

Initiate(p, a, k) ==
  /\ p \in Requests /\ job[p].pc = "idle"
  /\ Cardinality(Existing) + Cardinality(Initiating) < MaxClaims
  /\ job' = [job EXCEPT ![p] = [NoJob EXCEPT !.pc = IF k = None THEN "load" ELSE "lookup",
                                             !.op = "initiate", !.asset = a, !.key = k]]
  /\ answer' = [answer EXCEPT ![p] = None]
  /\ UNCHANGED <<tables, locks>>

\* A FOR UPDATE lock on the asset (completeClaim, persistDispatching) conflicts
\* with KEY SHARE; the plain UPDATE of the other dispatcher transactions does not.
ForUpdate(p) == job[p].op = "complete" \/ job[p].write = "dispatching"

\* The idempotency-key SELECT ... FOR UPDATE.
LookupKey(p) ==
  /\ job[p].pc = "lookup"
  /\ \/ /\ WithKey(job[p].key) = {}
        /\ Goto(p, "load")
        /\ UNCHANGED <<tables, locks, answer>>
     \/ \E i \in WithKey(job[p].key) :
          /\ claimLock[i] = None
          /\ IF claim[i].asset # job[p].asset
             THEN Refuse(p)
             ELSE Finish(p, i, TRUE) /\ UNCHANGED tables

\* The asset is read without a lock.
LoadAsset(p) ==
  /\ job[p].pc = "load"
  /\ IF job[p].asset \in Delisted \/ asset[job[p].asset] # "available"
     THEN Refuse(p)
     ELSE Goto(p, "insert") /\ UNCHANGED <<tables, locks, answer>>

KeyTaken(k) == k # None /\ WithKey(k) # {}

\* The INSERT waits for an uncommitted duplicate of its key and for a FOR
\* UPDATE lock on the asset it references.
InsertClaim(p) ==
  /\ job[p].pc = "insert"
  /\ \/ /\ KeyTaken(job[p].key)
        /\ Goto(p, "lost")
     \/ /\ ~KeyTaken(job[p].key)
        /\ job[p].key # None => \A q \in Inserted : job[q].key # job[p].key
        /\ LET holder == assetLock[job[p].asset]
           IN holder # None => ~ForUpdate(holder)
        /\ Goto(p, "lockAudit")
  /\ UNCHANGED <<tables, locks, answer>>

\* The 23505 handler: the winner's claim is returned, whatever its asset.
ReturnWinner(p) ==
  /\ job[p].pc = "lost"
  /\ \E i \in WithKey(job[p].key) : Finish(p, i, TRUE)
  /\ UNCHANGED tables

-----------------------------------------------------------------------------
(***************************************************************************)
(* completeClaim.                                                          *)
(***************************************************************************)

Complete(p, i, valid, echo) ==
  /\ p \in Requests /\ job[p].pc = "idle"
  /\ i \in Existing
  /\ job' = [job EXCEPT ![p] = [NoJob EXCEPT !.pc = "lockClaim", !.op = "complete",
                                             !.claim = i, !.valid = valid, !.echo = echo]]
  /\ answer' = [answer EXCEPT ![p] = None]
  /\ UNCHANGED <<tables, locks>>

\* Mutant: claims the dispatcher gave up on are completed again.
CompletableAgain(status) == status \in {"claiming", "stopped"}

Completable(status) == status = "claiming"

\* A completed claim's answer is replayed, if the proof verifies again.
Replayed(status) == status \in Live \cup {"confirmed"}

LockClaim(p) ==
  /\ job[p].pc = "lockClaim"
  /\ LET i == job[p].claim
     IN /\ claimLock[i] = None
        /\ \/ /\ Replayed(Status(i))
              /\ Finish(p, i, job[p].valid)
           \/ /\ ~Replayed(Status(i)) /\ ~Completable(Status(i))
              /\ Finish(p, i, FALSE)
           \/ /\ Completable(Status(i))
              /\ claimLock' = [claimLock EXCEPT ![i] = p]
              /\ job' = [job EXCEPT ![p] =
                   IF ~job[p].echo THEN [@ EXCEPT !.pc = "lockAudit", !.write = "rejected"]
                   ELSE IF i \in expired THEN [@ EXCEPT !.pc = "lockAudit", !.write = "expired"]
                   ELSE [@ EXCEPT !.pc = "lockAsset", !.asset = claim[i].asset]]
              /\ UNCHANGED <<assetLock, auditLock, answer>>
  /\ UNCHANGED tables

\* Mutant: only a delivered asset is refused.
AssetOpenUnlessClaimed(a) == asset[a] # "claimed"

AssetOpen(a) == asset[a] = "available"

\* Mutant: what the recipient has already won does not count.
RecipientTotalLeft(r) ==
  SumFunctionOnSet(Amount, {a \in Assets : RecipientOf[a] = r /\ asset[a] = "available"})

RecipientTotal(r) ==
  SumFunctionOnSet(Amount,
    {a \in Assets : /\ RecipientOf[a] = r
                    /\ asset[a] \in {"available", "claiming", "claimed", "pending_review"}})

BigClaim(a) ==
  /\ Threshold > 0
  /\ Amount[a] > Threshold \/ RecipientTotal(RecipientOf[a]) > Threshold

\* Mutant: only a claim sent to review takes its asset.
MarkReviewOnly(write) == IF write = "verified" THEN None ELSE write

\* The asset's status when a claim wins it.
MarkOf(write) == IF write = "verified" THEN "claiming" ELSE write

\* What completeClaim decides once it holds the asset.
Decision(p) ==
  IF ~AssetOpen(job[p].asset) \/ ~job[p].valid THEN "rejected"
  ELSE IF BigClaim(job[p].asset) THEN "pending_review" ELSE "verified"

\* The asset's lock is granted; a complete decides, the dispatcher goes on.
TakeAsset(p) ==
  /\ assetLock[job[p].asset] = None
  /\ ForUpdate(p) => \A q \in Inserted : job[q].asset # job[p].asset
  /\ assetLock' = [assetLock EXCEPT ![job[p].asset] = p]
  /\ IF job[p].op = "dispatch"
     THEN Goto(p, "lockAudit")
     ELSE job' = [job EXCEPT ![p] =
            [@ EXCEPT !.pc = "lockAudit", !.write = Decision(p),
                      !.mark = IF Decision(p) = "rejected" THEN None
                               ELSE MarkOf(Decision(p))]]

\* Mutant: the audit lock is taken before the asset's.
LockAssetAuditFirst(p) ==
  /\ job[p].pc = "lockAsset"
  /\ \/ auditLock = None /\ auditLock' = p /\ UNCHANGED <<assetLock, job>>
     \/ auditLock = p /\ TakeAsset(p) /\ UNCHANGED auditLock
  /\ UNCHANGED <<tables, claimLock, answer>>

\* The sum over the recipient's assets is a later read than the asset's, but no
\* asset enters or leaves the statuses it counts.
LockAsset(p) ==
  /\ job[p].pc = "lockAsset"
  /\ TakeAsset(p)
  /\ UNCHANGED <<tables, claimLock, auditLock, answer>>

-----------------------------------------------------------------------------
(***************************************************************************)
(* The reaper, the dispatcher, and the end of every transaction.           *)
(***************************************************************************)

\* SELECT ... FOR UPDATE SKIP LOCKED of the expired challenges.
Reap(p) ==
  /\ p = Reaper /\ job[p].pc = "idle"
  /\ LET batch == {i \in Existing : /\ Status(i) = "claiming" /\ i \in expired
                                    /\ claimLock[i] = None}
     IN /\ batch # {}
        /\ claimLock' = [i \in Ids |-> IF i \in batch THEN p ELSE claimLock[i]]
  /\ job' = [job EXCEPT ![p] = [NoJob EXCEPT !.pc = "lockAudit", !.op = "reap",
                                             !.write = "expired"]]
  /\ UNCHANGED <<tables, assetLock, auditLock, answer>>

\* The transactions of dispatch-core.ts, as <<from, to, asset status set>>: the
\* statuses each one's re-check lets through.
Moves ==
  ({"verified", "pending_review"} \X {"dispatching"} \X {"claiming"})       \* persist
  \cup ((Live \cup {"stopped"}) \X {"confirmed"} \X {"claimed"})           \* finalize
  \cup ((Live \cup {"stopped"}) \X {"stopped"} \X {None})                  \* fail, freeze
  \cup ({"dispatching"} \X {"verified", "pending_review"} \X {None})       \* clear dead
  \cup ({"verified", "pending_review", "stopped"}
          \X {"pending_review", "stopped"} \X {"pending_review"})           \* route

Dispatch(p, i, m) ==
  /\ p = Dispatcher /\ job[p].pc = "idle"
  /\ i \in Existing /\ claimLock[i] = None /\ Status(i) = m[1]
  /\ claimLock' = [claimLock EXCEPT ![i] = p]
  /\ job' = [job EXCEPT ![p] =
       [NoJob EXCEPT !.pc = IF m[3] = None THEN "lockAudit" ELSE "lockAsset",
                     !.op = "dispatch", !.claim = i, !.asset = claim[i].asset,
                     !.write = m[2], !.mark = m[3]]]
  /\ UNCHANGED <<tables, assetLock, auditLock, answer>>

\* appendAudit's advisory lock, which its holder may take again.
LockAudit(p) ==
  /\ job[p].pc = "lockAudit"
  /\ auditLock \in {None, p}
  /\ auditLock' = p
  /\ Goto(p, "commit")
  /\ UNCHANGED <<tables, claimLock, assetLock, answer>>

\* one_live_claim_per_asset.
OtherLive(i) ==
  \E k \in Existing \ {i} : claim[k].asset = claim[i].asset /\ Status(k) \in Live

CommitInitiate(p) ==
  /\ job[p].pc = "commit" /\ job[p].op = "initiate"
  /\ \E i \in Ids \ Existing :
       /\ \A k \in Ids \ Existing : i <= k
       /\ claim' = [claim EXCEPT ![i] = [asset |-> job[p].asset, key |-> job[p].key,
                                         status |-> "claiming"]]
       /\ Finish(p, i, TRUE)
  /\ UNCHANGED <<expired, asset>>

CommitReap(p) ==
  /\ job[p].pc = "commit" /\ job[p].op = "reap"
  /\ claim' = [i \in Ids |-> IF claimLock[i] = p /\ Status(i) = "claiming"
                             THEN [claim[i] EXCEPT !.status = "expired"] ELSE claim[i]]
  /\ Finish(p, None, TRUE)
  /\ UNCHANGED <<expired, asset>>

CommitClaim(p) ==
  /\ job[p].pc = "commit" /\ job[p].op \in {"complete", "dispatch"}
  /\ LET i == job[p].claim
     IN IF job[p].write \in Live /\ OtherLive(i)
        THEN Refuse(p)
        ELSE /\ claim' = [claim EXCEPT ![i] = [@ EXCEPT !.status = job[p].write]]
             /\ asset' = IF job[p].mark = None THEN asset
                         ELSE [asset EXCEPT ![job[p].asset] = job[p].mark]
             /\ UNCHANGED expired
             /\ Finish(p, i, job[p].write \in Live)

\* The process dies or the connection is lost: the transaction rolls back.
Abort(p) ==
  /\ job[p].pc # "idle"
  /\ Release(p)
  /\ job' = [job EXCEPT ![p] = NoJob]
  /\ UNCHANGED <<tables, answer>>

\* Time passes a challenge's expiry, which matters to a claiming claim only.
ChallengeExpires(i) ==
  /\ i \in Existing \ expired /\ Status(i) = "claiming"
  /\ expired' = expired \cup {i}
  /\ UNCHANGED <<claim, asset, locks, job, answer>>

Arrive(p) ==
  \/ \E a \in Assets, k \in Keys \cup {None} : Initiate(p, a, k)
  \/ \E i \in Ids, valid, echo \in BOOLEAN : Complete(p, i, valid, echo)
  \/ Reap(p)
  \/ \E i \in Ids, m \in Moves : Dispatch(p, i, m)

Proceed(p) ==
  \/ LookupKey(p) \/ LoadAsset(p) \/ InsertClaim(p) \/ ReturnWinner(p)
  \/ LockClaim(p) \/ LockAsset(p) \/ LockAudit(p)
  \/ CommitInitiate(p) \/ CommitReap(p) \/ CommitClaim(p)

Next ==
  \/ \E p \in Procs : Arrive(p) \/ Proceed(p) \/ Abort(p)
  \/ \E i \in Ids : ChallengeExpires(i)

Spec == Init /\ [][Next]_vars

\* Postgres grants a contended lock in the order it was asked for, so a waiter
\* that finds it free again and again gets it.
FairSpec == Spec /\ \A p \in Procs : SF_vars(Proceed(p))

-----------------------------------------------------------------------------
(***************************************************************************)
(* Properties.                                                             *)
(***************************************************************************)

Won(i) == claim[i] # None /\ claim[i].status \in WonStatus

\* No double claim (service.ts header): of all the claims ever initiated for
\* an asset at most one wins it, also after the winner left the states that
\* the one_live_claim_per_asset index covers.
OneWinnerPerAsset ==
  \A i, k \in Ids : Won(i) /\ Won(k) /\ claim[i].asset = claim[k].asset => i = k

\* The claims and assets tables agree: an asset is taken exactly when a claim
\* has won it, and claimed exactly when that claim is confirmed, so no asset is
\* lost to a claim that was rejected, expired or rolled back.
AssetsMatchClaims ==
  \A a \in Assets :
    /\ asset[a] \in {"claiming", "pending_review", "claimed"}
         <=> \E i \in Ids : Won(i) /\ claim[i].asset = a
    /\ asset[a] = "claimed"
         <=> \E i \in Existing : claim[i].asset = a /\ Status(i) = "confirmed"

\* A won claim is never rejected or expired afterwards, by a late complete or
\* by the reaper.
WinnersStayWon == [][\A i \in Ids : Won(i) => Won(i)']_vars

\* The big-claim brake cannot be passed by claiming a large balance asset by
\* asset, in any order and however the completes overlap.
SplitClaimsAreBraked ==
  [][\A i \in Existing :
       /\ Status(i) = "claiming" /\ claim'[i].status = "verified"
       /\ Threshold > 0
       => SumFunctionOnSet(Amount, {a \in Assets \ Held :
                                      RecipientOf[a] = RecipientOf[claim[i].asset]})
            <= Threshold]_vars

\* service.adversarial.db.test.ts: an "idempotencyKey cannot be reused for a
\* DIFFERENT asset".
InitiateAnswersTheAssetAsked ==
  [][\A r \in Requests :
       /\ job[r].op = "initiate" /\ job[r].pc # "idle"
       /\ answer'[r] \in Ids
       => claim'[answer'[r]].asset = job[r].asset]_vars

\* Whom the next statement of p waits for: the holder of the row or advisory lock
\* it asks for, an uncommitted duplicate of its key, and between an INSERT and a
\* FOR UPDATE of the asset it references whoever came first.
WaitsFor(p) ==
  LET j == job[p]
      Holders ==
        CASE j.pc = "lookup"    -> {claimLock[i] : i \in WithKey(j.key)}
          [] j.pc = "lockClaim" -> {claimLock[j.claim]}
          [] j.pc = "insert" /\ ~KeyTaken(j.key) ->
               {q \in Inserted : j.key # None /\ job[q].key = j.key}
               \cup {q \in Procs : assetLock[j.asset] = q /\ ForUpdate(q)}
          [] j.pc = "lockAsset" ->
               {assetLock[j.asset]} \cup {q \in Inserted : ForUpdate(p) /\ job[q].asset = j.asset}
          [] j.pc = "lockAudit" -> {auditLock} \ {p}
          [] OTHER -> {}
  IN Holders \ {None}

\* Lock order claim, asset, audit (dispatch-core.ts: "so no deadlock cycle can
\* form"), with the locks an INSERT takes on its key and its asset: of any
\* transactions that are open at once, one waits for none of the others.
NoLockCycle ==
  \A D \in SUBSET Procs : D # {} => \E p \in D : WaitsFor(p) \cap D = {}

\* Every transaction ends, whatever the others do: skipped rows, lock waits and
\* the shared audit lock never leave a request without an answer.
EveryTransactionEnds == \A p \in Procs : job[p].pc # "idle" ~> job[p].pc = "idle"
=============================================================================
