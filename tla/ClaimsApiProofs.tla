-------------------------- MODULE ClaimsApiProofs ---------------------------
(***************************************************************************)
(* Theorems about the claims API: for any number of requests, assets and   *)
(* idempotency keys, with or without reaper and dispatcher, no asset is    *)
(* won twice and the two tables agree.                                     *)
(***************************************************************************)
EXTENDS ClaimsApi, Collections

\* The steps at which a transaction holds the row lock of its claim.
Holding == {"lockAsset", "lockAudit", "commit"}

\* What a transaction has read and decided still holds, because it has locked
\* what it read: the claim first, then the asset it is going to write.
JobInv(p) ==
  LET j == job[p]
  IN /\ j.pc \in {"lookup", "load", "insert", "lost"} => j.op = "initiate"
     /\ j.pc = "lockClaim" => j.op = "complete" /\ j.mark = None
     /\ j.pc = "lockAsset" => j.op \in {"complete", "dispatch"}
     /\ j.op = "initiate" /\ j.pc # "idle" => j.asset \in Assets
     /\ j.op = "complete" /\ j.pc # "idle" => j.claim \in Existing
     /\ j.op \in {"complete", "dispatch"} /\ j.pc \in Holding =>
          /\ j.claim \in Existing /\ claimLock[j.claim] = p
          /\ j.pc = "lockAsset" \/ j.mark # None => j.asset = claim[j.claim].asset
          /\ j.pc # "lockAsset" /\ j.mark # None => assetLock[j.asset] = p
     /\ j.op = "complete" /\ j.pc \in Holding =>
          /\ claim[j.claim].status = "claiming"
          /\ \/ j.pc = "lockAsset"
             \/ j.write \in {"rejected", "expired"} /\ j.mark = None
             \/ /\ j.write \in {"verified", "pending_review"} /\ j.mark = MarkOf(j.write)
                /\ asset[j.asset] = "available"
     /\ j.op = "dispatch" /\ j.pc # "idle" =>
          /\ j.pc \in Holding
          /\ <<claim[j.claim].status, j.write, j.mark>> \in Moves

\* Only rows that exist are locked.
LocksExist == \A i \in Ids : claimLock[i] # None => i \in Existing

ApiInv ==
  /\ \A p \in Procs : JobInv(p)
  /\ LocksExist
  /\ OneWinnerPerAsset
  /\ AssetsMatchClaims

-----------------------------------------------------------------------------
(***************************************************************************)
(* The shape of a step: one transaction moves, the others keep their locks *)
(* and with them what they rely on.                                        *)
(***************************************************************************)

\* Everything another transaction has locked stays as it is.
Respects(p) ==
  /\ \A i \in Ids : claimLock[i] \notin {p, None} =>
        claim'[i] = claim[i] /\ claimLock'[i] = claimLock[i]
  /\ \A a \in Assets : assetLock[a] \notin {p, None} =>
        asset'[a] = asset[a] /\ assetLock'[a] = assetLock[a]
  /\ \A i \in Ids : claim[i] # None => claim'[i] # None

LEMMA NoJobType == NoJob \in Job
BY DEF NoJob, Job

LEMMA OthersKeep ==
  ASSUME TypeOK, NEW p \in Procs, NEW q \in Procs, q # p, JobInv(q), Respects(p),
         job'[q] = job[q]
  PROVE  JobInv(q)'
<1>1. q # None
  BY ApiAssumption
<1>2. job[q] \in Job
  BY DEF TypeOK
<1>3. \A i \in Ids : claim[i] # None => claim'[i] # None
  BY DEF Respects
<1>4. \A i \in Ids : claimLock[i] = q => claim'[i] = claim[i] /\ claimLock'[i] = q
  BY <1>1 DEF Respects
<1>5. \A a \in Assets : assetLock[a] = q => asset'[a] = asset[a] /\ assetLock'[a] = q
  BY <1>1 DEF Respects
<1>6. \A i : i \in Existing => i \in Ids /\ i \in Existing'
  BY <1>3 DEF Existing
<1>7. ASSUME job[q].op \in {"complete", "dispatch"}, job[q].pc \in Holding
      PROVE  /\ claim'[job[q].claim] = claim[job[q].claim]
             /\ claimLock'[job[q].claim] = q
             /\ job[q].pc # "lockAsset" /\ job[q].mark # None =>
                  assetLock'[job[q].asset] = q /\ asset'[job[q].asset] = asset[job[q].asset]
  <2>1. job[q].claim \in Ids /\ claimLock[job[q].claim] = q /\ claim[job[q].claim] \in Row
    BY <1>6, <1>7 DEF JobInv, TypeOK, Existing
  <2>2. job[q].pc # "lockAsset" /\ job[q].mark # None =>
           job[q].asset \in Assets /\ assetLock[job[q].asset] = q
    BY <1>7, <2>1 DEF JobInv, Row
  <2> QED
    BY <2>1, <2>2, <1>4, <1>5
<1>8. MarkOf(job[q].write) # None \/ job[q].write \notin {"verified", "pending_review"}
  BY NullAssumption DEF MarkOf, AssetStatus
<1> QED
  BY <1>2, <1>6, <1>7, <1>8 DEF JobInv, Holding, Job

\* A step that leaves the two tables alone.
LEMMA QuietStep ==
  ASSUME TypeOK, ApiInv, NEW p \in Procs, NEW j \in Job, job' = [job EXCEPT ![p] = j],
         UNCHANGED <<claim, asset>>, Respects(p), LocksExist', JobInv(p)'
  PROVE  ApiInv'
<1>1. \A q \in Procs : q # p => job'[q] = job[q]
  BY DEF TypeOK
<1>2. \A q \in Procs : JobInv(q)'
  BY <1>1, OthersKeep DEF ApiInv
<1>3. OneWinnerPerAsset' /\ AssetsMatchClaims'
  BY DEF ApiInv, OneWinnerPerAsset, AssetsMatchClaims, Won, Existing, Status
<1> QED
  BY <1>2, <1>3 DEF ApiInv

\* The end of a transaction, whatever it did to the tables.
LEMMA ReleaseOK ==
  ASSUME TypeOK, ApiInv, NEW p \in Procs, Release(p)
  PROVE  /\ claimLock' \in [Ids -> Procs \cup {None}]
         /\ assetLock' \in [Assets -> Procs \cup {None}]
         /\ auditLock' \in Procs \cup {None}
         /\ \A i \in Ids : claimLock'[i] # None => claimLock'[i] = claimLock[i]
         /\ \A i \in Ids : claimLock[i] # p => claimLock'[i] = claimLock[i]
         /\ \A a \in Assets : assetLock[a] # p => assetLock'[a] = assetLock[a]
BY DEF Release, TypeOK

LEMMA IdleIsFine ==
  ASSUME TypeOK, NEW p \in Procs, job' = [job EXCEPT ![p] = NoJob]
  PROVE  /\ job' \in [Procs -> Job]
         /\ JobInv(p)'
         /\ \A q \in Procs : q # p => job'[q] = job[q]
<1>1. job'[p] = NoJob
  BY DEF TypeOK
<1>2. JobInv(p)'
  BY <1>1 DEF NoJob, JobInv, Holding
<1> QED
  BY <1>2, NoJobType DEF TypeOK

LEMMA FinishType ==
  ASSUME TypeOK, ApiInv, NEW p \in Procs, NEW i, NEW ok, ok => i \in Ids \cup {None},
         Finish(p, i, ok), UNCHANGED tables
  PROVE  TypeOK' /\ ApiInv'
<1>1. answer' \in [Requests -> Ids \cup {None, Error}]
  BY DEF Finish, TypeOK
<1>2. TypeOK'
  BY <1>1, ReleaseOK, IdleIsFine DEF Finish, TypeOK, tables
<1>3. Respects(p)
  BY ReleaseOK DEF Finish, Respects, tables
<1>4. LocksExist'
  BY ReleaseOK DEF Finish, LocksExist, ApiInv, Existing, tables
<1> QED
  BY <1>2, <1>3, <1>4, NoJobType, IdleIsFine, QuietStep DEF Finish, tables

\* A step of one transaction that touches neither tables nor row locks.
LEMMA MoveOn ==
  ASSUME TypeOK, ApiInv, NEW p \in Procs, NEW j \in Job, job' = [job EXCEPT ![p] = j],
         UNCHANGED <<tables, claimLock, assetLock>>,
         auditLock' \in Procs \cup {None}, answer' \in [Requests -> Ids \cup {None, Error}],
         JobInv(p)'
  PROVE  TypeOK' /\ ApiInv'
<1>1. TypeOK'
  BY DEF TypeOK, tables
<1>2. Respects(p) /\ LocksExist'
  BY DEF Respects, LocksExist, ApiInv, Existing, tables
<1> QED
  BY <1>1, <1>2, QuietStep DEF tables

-----------------------------------------------------------------------------
(***************************************************************************)
(* The actions.                                                            *)
(***************************************************************************)

LEMMA InitiateKeeps ==
  ASSUME TypeOK, ApiInv, NEW p \in Procs, NEW a \in Assets, NEW k \in Keys \cup {None},
         Initiate(p, a, k)
  PROVE  TypeOK' /\ ApiInv'
<1> DEFINE j == [NoJob EXCEPT !.pc = IF k = None THEN "load" ELSE "lookup",
                              !.op = "initiate", !.asset = a, !.key = k]
<1>1. j \in Job
  BY NoJobType DEF Job
<1>2. j.pc \in {"load", "lookup"} /\ j.op = "initiate" /\ j.asset = a
  BY DEF NoJob
<1>3. job' = [job EXCEPT ![p] = j] /\ job'[p] = j
  BY DEF Initiate, TypeOK
<1>4. answer' \in [Requests -> Ids \cup {None, Error}]
  BY DEF Initiate, TypeOK
<1> HIDE DEF j
<1>5. JobInv(p)'
  BY <1>2, <1>3 DEF JobInv, Holding
<1> QED
  BY <1>1, <1>3, <1>4, <1>5, MoveOn DEF Initiate, locks, TypeOK

LEMMA CompleteKeeps ==
  ASSUME TypeOK, ApiInv, NEW p \in Procs, NEW i \in Ids, NEW valid \in BOOLEAN,
         NEW echo \in BOOLEAN, Complete(p, i, valid, echo)
  PROVE  TypeOK' /\ ApiInv'
<1> DEFINE j == [NoJob EXCEPT !.pc = "lockClaim", !.op = "complete",
                              !.claim = i, !.valid = valid, !.echo = echo]
<1>1. j \in Job
  BY NoJobType DEF Job
<1>2. j.pc = "lockClaim" /\ j.op = "complete" /\ j.claim = i /\ j.mark = None
  BY DEF NoJob
<1>3. job' = [job EXCEPT ![p] = j] /\ job'[p] = j
  BY DEF Complete, TypeOK
<1>4. answer' \in [Requests -> Ids \cup {None, Error}]
  BY DEF Complete, TypeOK
<1> HIDE DEF j
<1>5. i \in Existing'
  BY DEF Complete, Existing, tables
<1>6. JobInv(p)'
  BY <1>2, <1>3, <1>5 DEF JobInv, Holding
<1> QED
  BY <1>1, <1>3, <1>4, <1>6, MoveOn DEF Complete, locks, TypeOK

\* SKIP LOCKED: the reaper only takes locks that are free.
LEMMA ReapKeeps ==
  ASSUME TypeOK, ApiInv, NEW p \in Procs, Reap(p)
  PROVE  TypeOK' /\ ApiInv'
<1> DEFINE j == [NoJob EXCEPT !.pc = "lockAudit", !.op = "reap", !.write = "expired"]
<1>1. j \in Job
  BY NoJobType DEF Job, ClaimStatus
<1>2. j.pc = "lockAudit" /\ j.op = "reap"
  BY DEF NoJob
<1>3. job' = [job EXCEPT ![p] = j] /\ job'[p] = j
  BY DEF Reap, TypeOK
<1> HIDE DEF j
<1>4. JobInv(p)'
  BY <1>2, <1>3 DEF JobInv, Holding
<1>5. \A i \in Ids : \/ claimLock'[i] = claimLock[i]
                     \/ claimLock[i] = None /\ claimLock'[i] = p /\ i \in Existing
  BY DEF Reap
<1>6. TypeOK'
  BY <1>1, <1>3, <1>5 DEF Reap, TypeOK, tables
<1>7. Respects(p) /\ LocksExist'
  BY <1>5 DEF Reap, Respects, LocksExist, ApiInv, Existing, tables
<1> QED
  BY <1>1, <1>3, <1>4, <1>6, <1>7, QuietStep DEF Reap, tables

\* The statuses the dispatcher reads and writes.
LEMMA MovesType ==
  ASSUME NEW m \in Moves
  PROVE  /\ m[1] \in WonStatus \ {"confirmed"} /\ m[2] \in WonStatus
         /\ m[3] \in {"claiming", "claimed", "pending_review", None}
         /\ m[2] = "confirmed" <=> m[3] = "claimed"
         /\ m = <<m[1], m[2], m[3]>>
BY NullAssumption DEF Moves, WonStatus, Live, AssetStatus

LEMMA DispatchKeeps ==
  ASSUME TypeOK, ApiInv, NEW p \in Procs, NEW i \in Ids, NEW m \in Moves, Dispatch(p, i, m)
  PROVE  TypeOK' /\ ApiInv'
<1> DEFINE j == [NoJob EXCEPT !.pc = IF m[3] = None THEN "lockAudit" ELSE "lockAsset",
                              !.op = "dispatch", !.claim = i, !.asset = claim[i].asset,
                              !.write = m[2], !.mark = m[3]]
<1>1. claim[i] \in Row /\ i \in Existing /\ claimLock[i] = None /\ claim[i].status = m[1]
  BY DEF Dispatch, Existing, TypeOK, Status
<1>2. claim[i].asset \in Assets
  BY <1>1 DEF Row
<1>3. j \in Job
  <2>1. m[2] \in ClaimStatus /\ m[3] \in AssetStatus \cup {None}
    BY MovesType DEF ClaimStatus, AssetStatus
  <2> QED
    BY <1>2, <2>1, NoJobType DEF Job
<1>4. /\ j.pc = IF m[3] = None THEN "lockAudit" ELSE "lockAsset"
      /\ j.op = "dispatch" /\ j.claim = i /\ j.asset = claim[i].asset
      /\ j.write = m[2] /\ j.mark = m[3]
  BY DEF NoJob
<1>5. job' = [job EXCEPT ![p] = j] /\ job'[p] = j
  BY DEF Dispatch, TypeOK
<1> HIDE DEF j
<1>6. UNCHANGED tables /\ claimLock' = [claimLock EXCEPT ![i] = p]
  BY DEF Dispatch
<1>7. TypeOK'
  BY <1>3, <1>5, <1>6 DEF Dispatch, TypeOK, tables
<1>8. Respects(p) /\ LocksExist'
  BY <1>1, <1>6 DEF Dispatch, Respects, LocksExist, ApiInv, Existing, tables, TypeOK
<1>9. JobInv(p)'
  <2>1. <<claim[i].status, j.write, j.mark>> \in Moves
    BY <1>1, <1>4, MovesType
  <2>2. claimLock'[i] = p /\ i \in Existing' /\ claim' = claim
    BY <1>1, <1>6 DEF TypeOK, Existing, tables
  <2> QED
    BY <1>4, <1>5, <2>1, <2>2 DEF JobInv, Holding
<1> QED
  BY <1>3, <1>5, <1>6, <1>7, <1>8, <1>9, QuietStep DEF tables

LEMMA ArriveKeeps ==
  ASSUME TypeOK, ApiInv, NEW p \in Procs, Arrive(p)
  PROVE  TypeOK' /\ ApiInv'
BY InitiateKeeps, CompleteKeeps, ReapKeeps, DispatchKeeps DEF Arrive

\* initiateClaim up to its INSERT: a label changes, or the request is answered.
LEMMA InitiatingKeeps ==
  ASSUME TypeOK, ApiInv, NEW p \in Procs,
         LookupKey(p) \/ LoadAsset(p) \/ InsertClaim(p) \/ ReturnWinner(p)
  PROVE  TypeOK' /\ ApiInv'
<1>1. job[p] \in Job /\ JobInv(p)
  BY DEF TypeOK, ApiInv
<1>2. job[p].pc \in {"lookup", "load", "insert", "lost"}
  BY DEF LookupKey, LoadAsset, InsertClaim, ReturnWinner
<1>3. job[p].op = "initiate" /\ job[p].asset \in Assets
  BY <1>1, <1>2 DEF JobInv
<1>4. \A i \in Existing : i \in Ids
  BY DEF Existing
<1>5. ASSUME NEW l \in {"load", "insert", "lost", "lockAudit"}, Goto(p, l),
             UNCHANGED <<tables, locks, answer>>
      PROVE  TypeOK' /\ ApiInv'
  <2> DEFINE j == [job[p] EXCEPT !.pc = l]
  <2>1. j \in Job
    BY <1>1 DEF Job
  <2>2. j.pc = l /\ j.op = "initiate" /\ j.asset \in Assets
    BY <1>1, <1>3 DEF Job
  <2>3. job' = [job EXCEPT ![p] = j] /\ job'[p] = j
    BY <1>5 DEF Goto, TypeOK
  <2> HIDE DEF j
  <2>4. JobInv(p)'
    BY <2>2, <2>3 DEF JobInv, Holding
  <2> QED
    BY <1>5, <2>1, <2>3, <2>4, MoveOn DEF locks, TypeOK
<1>6. ASSUME NEW i, NEW ok, ok => i \in Ids, Finish(p, i, ok), UNCHANGED tables
      PROVE  TypeOK' /\ ApiInv'
  BY <1>6, FinishType
<1>7. ASSUME LookupKey(p) PROVE TypeOK' /\ ApiInv'
  BY <1>4, <1>5, <1>6, <1>7 DEF LookupKey, WithKey, Refuse
<1>8. ASSUME LoadAsset(p) PROVE TypeOK' /\ ApiInv'
  BY <1>5, <1>6, <1>8 DEF LoadAsset, Refuse
<1>9. ASSUME InsertClaim(p) PROVE TypeOK' /\ ApiInv'
  BY <1>5, <1>9 DEF InsertClaim
<1>10. ASSUME ReturnWinner(p) PROVE TypeOK' /\ ApiInv'
  BY <1>4, <1>6, <1>10 DEF ReturnWinner, WithKey
<1> QED
  BY <1>7, <1>8, <1>9, <1>10

\* completeClaim takes the claim's lock and decides what it can without the asset.
LEMMA LockClaimKeeps ==
  ASSUME TypeOK, ApiInv, NEW p \in Procs, LockClaim(p)
  PROVE  TypeOK' /\ ApiInv'
<1>1. job[p] \in Job /\ JobInv(p)
  BY DEF TypeOK, ApiInv
<1>2. job[p].op = "complete" /\ job[p].claim \in Existing
  BY <1>1 DEF LockClaim, JobInv
<1>3. PICK i \in Ids : i = job[p].claim /\ claim[i] # None /\ claim[i] \in Row
  BY <1>2 DEF Existing, TypeOK
<1>4. claimLock[i] = None /\ UNCHANGED tables
  BY <1>3 DEF LockClaim
<1>5. ASSUME NEW ok, Finish(p, i, ok)
      PROVE  TypeOK' /\ ApiInv'
  BY <1>4, <1>5, FinishType
<1>6. ASSUME Completable(Status(i)), claimLock' = [claimLock EXCEPT ![i] = p],
             UNCHANGED <<assetLock, auditLock, answer>>,
             NEW j \in Job, job' = [job EXCEPT ![p] = j],
             j.op = "complete", j.claim = i, j.pc \in {"lockAsset", "lockAudit"},
             j.pc = "lockAsset" => j.asset = claim[i].asset,
             j.pc = "lockAudit" => j.write \in {"rejected", "expired"} /\ j.mark = None
      PROVE  TypeOK' /\ ApiInv'
  <2>1. job'[p] = j /\ claim[i].status = "claiming"
    BY <1>6 DEF TypeOK, Completable, Status
  <2>2. claimLock'[i] = p /\ i \in Existing' /\ claim' = claim
    BY <1>3, <1>4, <1>6 DEF TypeOK, Existing, tables
  <2>3. JobInv(p)'
    BY <1>6, <2>1, <2>2 DEF JobInv, Holding
  <2>4. TypeOK'
    BY <1>4, <1>6 DEF TypeOK, tables
  <2>5. Respects(p) /\ LocksExist'
    BY <1>3, <1>4, <1>6 DEF Respects, LocksExist, ApiInv, Existing, tables, TypeOK
  <2> QED
    BY <1>4, <1>6, <2>3, <2>4, <2>5, QuietStep DEF tables
<1>7. ASSUME Completable(Status(i)), claimLock' = [claimLock EXCEPT ![i] = p],
             UNCHANGED <<assetLock, auditLock, answer>>,
             job' = [job EXCEPT ![p] =
                   IF ~job[p].echo THEN [@ EXCEPT !.pc = "lockAudit", !.write = "rejected"]
                   ELSE IF i \in expired THEN [@ EXCEPT !.pc = "lockAudit", !.write = "expired"]
                   ELSE [@ EXCEPT !.pc = "lockAsset", !.asset = claim[i].asset]]
      PROVE  TypeOK' /\ ApiInv'
  <2>1. job[p].mark = None
    BY <1>1 DEF LockClaim, JobInv
  <2>2. ASSUME NEW x \in {"rejected", "expired"},
               job' = [job EXCEPT ![p] = [job[p] EXCEPT !.pc = "lockAudit", !.write = x]]
        PROVE  TypeOK' /\ ApiInv'
    <3> DEFINE j == [job[p] EXCEPT !.pc = "lockAudit", !.write = x]
    <3>1. j \in Job
      BY <1>1 DEF Job, ClaimStatus
    <3>2. j.pc = "lockAudit" /\ j.write = x /\ j.op = "complete" /\ j.claim = i /\ j.mark = None
      BY <1>1, <1>2, <1>3, <2>1 DEF Job
    <3> HIDE DEF j
    <3>3. job' = [job EXCEPT ![p] = j]
      BY <2>2 DEF j
    <3> QED
      BY <1>6, <1>7, <3>1, <3>2, <3>3
  <2>3. ASSUME job' = [job EXCEPT ![p] = [job[p] EXCEPT !.pc = "lockAsset",
                                                        !.asset = claim[i].asset]]
        PROVE  TypeOK' /\ ApiInv'
    <3> DEFINE j == [job[p] EXCEPT !.pc = "lockAsset", !.asset = claim[i].asset]
    <3>1. j \in Job
      BY <1>1, <1>3 DEF Job, Row
    <3>2. j.pc = "lockAsset" /\ j.op = "complete" /\ j.claim = i /\ j.asset = claim[i].asset
      BY <1>1, <1>2, <1>3 DEF Job
    <3> HIDE DEF j
    <3>3. job' = [job EXCEPT ![p] = j]
      BY <2>3 DEF j
    <3> QED
      BY <1>6, <1>7, <3>1, <3>2, <3>3
  <2> QED
    BY <1>7, <2>2, <2>3
<1> QED
  BY <1>3, <1>5, <1>7 DEF LockClaim

\* The asset's lock is granted and the claim decided.
LEMMA LockAssetKeeps ==
  ASSUME TypeOK, ApiInv, NEW p \in Procs, LockAsset(p)
  PROVE  TypeOK' /\ ApiInv'
<1>1. job[p] \in Job /\ JobInv(p) /\ job[p].pc = "lockAsset"
  BY DEF TypeOK, ApiInv, LockAsset
<1>2. PICK i \in Ids : /\ i = job[p].claim /\ claim[i] \in Row /\ i \in Existing
                       /\ claimLock[i] = p
  BY <1>1 DEF JobInv, Holding, TypeOK, Existing
<1>3. PICK a \in Assets : a = job[p].asset /\ a = claim[i].asset
  BY <1>1, <1>2 DEF JobInv, Holding, Row
<1>4. /\ assetLock[a] = None /\ assetLock' = [assetLock EXCEPT ![a] = p]
      /\ UNCHANGED <<tables, claimLock, auditLock, answer>>
  BY <1>3 DEF LockAsset, TakeAsset
<1>5. assetLock'[a] = p
  BY <1>4 DEF TypeOK
<1>6. Respects(p) /\ LocksExist' /\ i \in Existing'
  BY <1>2, <1>3, <1>4 DEF Respects, LocksExist, ApiInv, Existing, tables, TypeOK
<1>7. ASSUME NEW j \in Job, job' = [job EXCEPT ![p] = j], JobInv(p)'
      PROVE  TypeOK' /\ ApiInv'
  <2>1. TypeOK'
    BY <1>4, <1>7 DEF TypeOK, tables
  <2> QED
    BY <1>4, <1>6, <1>7, <2>1, QuietStep DEF tables
<1>8. CASE job[p].op = "dispatch"
  <2> DEFINE j == [job[p] EXCEPT !.pc = "lockAudit"]
  <2>1. j \in Job
    BY <1>1 DEF Job
  <2>2. /\ j.pc = "lockAudit" /\ j.op = "dispatch" /\ j.claim = i /\ j.asset = a
        /\ j.write = job[p].write /\ j.mark = job[p].mark
    BY <1>1, <1>2, <1>3, <1>8 DEF Job
  <2>3. job' = [job EXCEPT ![p] = j] /\ job'[p] = j
    BY <1>8 DEF LockAsset, TakeAsset, Goto, TypeOK
  <2> HIDE DEF j
  <2>4. <<claim[i].status, j.write, j.mark>> \in Moves
    BY <1>1, <1>2, <1>8, <2>2 DEF JobInv
  <2>5. JobInv(p)'
    BY <1>2, <1>3, <1>4, <1>5, <1>6, <2>2, <2>3, <2>4 DEF JobInv, Holding, tables
  <2> QED
    BY <1>7, <2>1, <2>3, <2>5
<1>9. CASE job[p].op # "dispatch"
  <2> DEFINE d == Decision(p)
             j == [job[p] EXCEPT !.pc = "lockAudit", !.write = d,
                                 !.mark = IF d = "rejected" THEN None ELSE MarkOf(d)]
  <2>1. /\ d \in {"rejected", "pending_review", "verified"}
        /\ d # "rejected" => asset[a] = "available"
    BY <1>3 DEF Decision, AssetOpen
  <2>2. job' = [job EXCEPT ![p] = j] /\ job'[p] = j
    BY <1>9 DEF LockAsset, TakeAsset, TypeOK
  <2> HIDE DEF d
  <2>3. j \in Job
    <3>1. d \in ClaimStatus /\ (IF d = "rejected" THEN None ELSE MarkOf(d)) \in AssetStatus \cup {None}
      BY <2>1 DEF ClaimStatus, WonStatus, Live, AssetStatus, MarkOf
    <3> QED
      BY <1>1, <3>1 DEF Job
  <2>4. /\ j.pc = "lockAudit" /\ j.op = "complete" /\ j.claim = i /\ j.asset = a
        /\ j.write = d /\ j.mark = IF d = "rejected" THEN None ELSE MarkOf(d)
    BY <1>1, <1>2, <1>3, <1>9 DEF Job, JobInv
  <2> HIDE DEF j
  <2>5. claim[i].status = "claiming"
    BY <1>1, <1>2, <1>9 DEF JobInv, Holding
  <2>6. JobInv(p)'
    BY <1>2, <1>3, <1>4, <1>5, <1>6, <2>1, <2>2, <2>4, <2>5 DEF JobInv, Holding, tables
  <2> QED
    BY <1>7, <2>2, <2>3, <2>6
<1> QED
  BY <1>8, <1>9

LEMMA LockAuditKeeps ==
  ASSUME TypeOK, ApiInv, NEW p \in Procs, LockAudit(p)
  PROVE  TypeOK' /\ ApiInv'
<1> DEFINE j == [job[p] EXCEPT !.pc = "commit"]
<1>1. job[p] \in Job /\ JobInv(p) /\ job[p].pc = "lockAudit"
  BY DEF TypeOK, ApiInv, LockAudit
<1>2. j \in Job
  BY <1>1 DEF Job
<1>3. /\ j.pc = "commit" /\ j.op = job[p].op /\ j.claim = job[p].claim
      /\ j.asset = job[p].asset /\ j.write = job[p].write /\ j.mark = job[p].mark
  BY <1>1 DEF Job
<1>4. job' = [job EXCEPT ![p] = j] /\ job'[p] = j
  BY DEF LockAudit, Goto, TypeOK
<1> HIDE DEF j
<1>5. JobInv(p)'
  BY <1>1, <1>3, <1>4 DEF JobInv, Holding, LockAudit, tables, Existing
<1> QED
  BY <1>2, <1>4, <1>5, MoveOn DEF LockAudit, TypeOK

LEMMA AbortKeeps ==
  ASSUME TypeOK, ApiInv, NEW p \in Procs, Abort(p)
  PROVE  TypeOK' /\ ApiInv'
<1>1. TypeOK'
  BY ReleaseOK, IdleIsFine DEF Abort, TypeOK, tables
<1>2. Respects(p) /\ LocksExist'
  BY ReleaseOK DEF Abort, Respects, LocksExist, ApiInv, Existing, tables
<1> QED
  BY <1>1, <1>2, NoJobType, IdleIsFine, QuietStep DEF Abort, tables

\* A transaction that wrote to the tables ends: what it wrote was its own.
LEMMA CommitFrame ==
  ASSUME TypeOK, ApiInv, NEW p \in Procs, NEW i, NEW ok, ok => i \in Ids \cup {None},
         Finish(p, i, ok), UNCHANGED expired,
         claim' \in [Ids -> Row \cup {None}], asset' \in [Assets -> AssetStatus],
         \A k \in Ids : claim[k] # None => claim'[k] # None,
         \A k \in Ids : claimLock[k] \notin {p, None} => claim'[k] = claim[k],
         \A a \in Assets : assetLock[a] \notin {p, None} => asset'[a] = asset[a]
  PROVE  TypeOK' /\ LocksExist' /\ \A q \in Procs : JobInv(q)'
<1>1. answer' \in [Requests -> Ids \cup {None, Error}]
  BY DEF Finish, TypeOK
<1>2. TypeOK'
  BY <1>1, ReleaseOK, IdleIsFine DEF Finish, TypeOK
<1>3. Respects(p)
  BY ReleaseOK DEF Finish, Respects
<1>4. LocksExist'
  BY ReleaseOK DEF Finish, LocksExist, ApiInv, Existing
<1> QED
  BY <1>2, <1>3, <1>4, IdleIsFine, OthersKeep DEF Finish, ApiInv

LEMMA CommitInitiateKeeps ==
  ASSUME TypeOK, ApiInv, NEW p \in Procs, CommitInitiate(p)
  PROVE  TypeOK' /\ ApiInv'
<1>1. job[p] \in Job /\ job[p].asset \in Assets
  BY DEF TypeOK, ApiInv, JobInv, CommitInitiate
<1> DEFINE row == [asset |-> job[p].asset, key |-> job[p].key, status |-> "claiming"]
<1>2. PICK i \in Ids : claim[i] = None /\ claim' = [claim EXCEPT ![i] = row] /\ Finish(p, i, TRUE)
  BY DEF CommitInitiate, Existing
<1>3. row \in Row /\ row.status = "claiming"
  BY <1>1 DEF Row, Job, ClaimStatus
<1> HIDE DEF row
<1>4. row # None
  BY <1>3, NullAssumption
<1>5. claimLock[i] = None
  BY <1>2 DEF ApiInv, LocksExist, Existing
<1>6. \A k \in Ids : claim'[k] = IF k = i THEN row ELSE claim[k]
  BY <1>2 DEF TypeOK
<1>7. TypeOK' /\ LocksExist' /\ \A q \in Procs : JobInv(q)'
  BY <1>2, <1>3, <1>4, <1>5, <1>6, CommitFrame DEF CommitInitiate, TypeOK
<1>8. /\ \A k \in Ids : Won(k)' <=> Won(k)
      /\ \A k \in Ids : Won(k) => claim'[k] = claim[k]
      /\ \A k \in Ids : claim'[k] # None /\ claim'[k].status = "confirmed"
                          <=> claim[k] # None /\ claim[k].status = "confirmed"
  BY <1>2, <1>3, <1>6 DEF Won, WonStatus, Live
<1>9. OneWinnerPerAsset'
  BY <1>8 DEF ApiInv, OneWinnerPerAsset
<1>10. AssetsMatchClaims'
  BY <1>8 DEF ApiInv, AssetsMatchClaims, Existing, Status, CommitInitiate, Won, WonStatus
<1> QED
  BY <1>7, <1>9, <1>10 DEF ApiInv

LEMMA CommitReapKeeps ==
  ASSUME TypeOK, ApiInv, NEW p \in Procs, CommitReap(p)
  PROVE  TypeOK' /\ ApiInv'
<1>1. p # None
  BY ApiAssumption
<1>2. \A k \in Ids : claimLock[k] = p => claim[k] \in Row
  BY <1>1 DEF ApiInv, LocksExist, Existing, TypeOK
<1>3. ASSUME NEW k \in Ids
      PROVE  \/ claim'[k] = claim[k]
             \/ /\ claim[k] \in Row /\ claim[k].status = "claiming" /\ claimLock[k] = p
                /\ claim'[k] \in Row /\ claim'[k].status = "expired"
                /\ claim'[k].asset = claim[k].asset
  BY <1>2 DEF CommitReap, Status, Row, ClaimStatus
<1>4. claim' \in [Ids -> Row \cup {None}]
  BY <1>3 DEF CommitReap, TypeOK
<1>5. \A k \in Ids : claim[k] # None => claim'[k] # None
  BY <1>3, NullAssumption
<1>6. TypeOK' /\ LocksExist' /\ \A q \in Procs : JobInv(q)'
  BY <1>3, <1>4, <1>5, CommitFrame DEF CommitReap, TypeOK
<1>7. /\ \A k \in Ids : Won(k)' <=> Won(k)
      /\ \A k \in Ids : Won(k) => claim'[k] = claim[k]
  BY <1>3, <1>5 DEF Won, WonStatus, Live
<1>8. OneWinnerPerAsset'
  BY <1>7 DEF ApiInv, OneWinnerPerAsset
<1>9. AssetsMatchClaims'
  BY <1>7 DEF ApiInv, AssetsMatchClaims, Existing, Status, CommitReap, Won, WonStatus
<1> QED
  BY <1>6, <1>8, <1>9 DEF ApiInv

\* One row of the claims table gets a new status.
LEMMA StatusWritten ==
  ASSUME TypeOK, NEW i \in Existing, NEW s \in ClaimStatus,
         claim' = [claim EXCEPT ![i] = [@ EXCEPT !.status = s]]
  PROVE  /\ claim' \in [Ids -> Row \cup {None}]
         /\ \A k \in Ids : claim'[k] # None <=> claim[k] # None
         /\ \A k \in Ids : k # i => claim'[k] = claim[k]
         /\ \A k \in Ids : claim[k] # None => claim'[k].asset = claim[k].asset
         /\ claim'[i].status = s /\ i \in Ids /\ claim[i] \in Row
<1>1. i \in Ids /\ claim[i] \in Row
  BY DEF Existing, TypeOK
<1>2. claim'[i] = [claim[i] EXCEPT !.status = s] /\ \A k \in Ids : k # i => claim'[k] = claim[k]
  BY <1>1 DEF TypeOK
<1>3. claim'[i] \in Row /\ claim'[i].status = s /\ claim'[i].asset = claim[i].asset
  BY <1>1, <1>2 DEF Row
<1>4. claim'[i] # None /\ claim[i] # None
  BY <1>3, NullAssumption DEF Existing
<1> QED
  BY <1>1, <1>2, <1>3, <1>4 DEF TypeOK

\* The two decisions of completeClaim and the moves of the dispatcher, as they
\* leave the tables.
LEMMA CommitClaimTables ==
  ASSUME TypeOK, ApiInv, NEW i \in Existing, NEW s \in ClaimStatus, NEW a \in Assets,
         a = claim[i].asset,
         claim' = [claim EXCEPT ![i] = [@ EXCEPT !.status = s]],
         \/ claim[i].status = "claiming" /\ s \in {"rejected", "expired"} /\ asset' = asset
         \/ /\ claim[i].status = "claiming" /\ s \in {"verified", "pending_review"}
            /\ asset[a] = "available" /\ asset' = [asset EXCEPT ![a] = MarkOf(s)]
         \/ \E m : /\ <<claim[i].status, s, m>> \in Moves
                   /\ asset' = IF m = None THEN asset ELSE [asset EXCEPT ![a] = m]
  PROVE  /\ OneWinnerPerAsset' /\ AssetsMatchClaims'
         /\ asset' \in [Assets -> AssetStatus]
         /\ \A b \in Assets : asset'[b] = "manual_review" <=> asset[b] = "manual_review"
         /\ \A k \in Ids : Won(k) => Won(k)'
<1>1. /\ \A k \in Ids : claim'[k] # None <=> claim[k] # None
      /\ \A k \in Ids : k # i => claim'[k] = claim[k]
      /\ \A k \in Ids : claim[k] # None => claim'[k].asset = claim[k].asset
      /\ claim'[i].status = s /\ i \in Ids /\ claim[i] # None
  BY StatusWritten DEF Existing
<1>2. Won(i)' <=> s \in WonStatus
  BY <1>1 DEF Won
<1>3. \A k \in Ids : k # i => (Won(k)' <=> Won(k))
  BY <1>1 DEF Won
<1> DEFINE taken == {"claiming", "pending_review", "claimed"}
<1>4. CASE claim[i].status = "claiming" /\ s \in {"rejected", "expired"} /\ asset' = asset
  <2>1. ~Won(i) /\ ~Won(i)'
    BY <1>2, <1>4 DEF Won, WonStatus, Live
  <2>2. OneWinnerPerAsset'
    BY <1>1, <1>3, <2>1 DEF ApiInv, OneWinnerPerAsset
  <2>3. AssetsMatchClaims'
    BY <1>1, <1>3, <1>4, <2>1 DEF ApiInv, AssetsMatchClaims, Existing, Status, Won
  <2> QED
    BY <1>3, <1>4, <2>1, <2>2, <2>3 DEF TypeOK
<1>5. CASE /\ claim[i].status = "claiming" /\ s \in {"verified", "pending_review"}
           /\ asset[a] = "available" /\ asset' = [asset EXCEPT ![a] = MarkOf(s)]
  <2>1. ~Won(i) /\ Won(i)' /\ s # "confirmed"
    BY <1>2, <1>5 DEF Won, WonStatus, Live
  <2>2. \A k \in Ids : Won(k) => claim[k].asset # a
    BY <1>5 DEF ApiInv, AssetsMatchClaims
  <2>3. OneWinnerPerAsset'
    BY <1>1, <1>3, <2>1, <2>2 DEF ApiInv, OneWinnerPerAsset, Won
  <2>4. MarkOf(s) \in {"claiming", "pending_review"}
    BY <1>5 DEF MarkOf
  <2>5. \A b \in Assets : asset'[b] = IF b = a THEN MarkOf(s) ELSE asset[b]
    BY <1>5 DEF TypeOK
  <2>6. ASSUME NEW b \in Assets
        PROVE  /\ asset'[b] \in taken <=> \E k \in Ids : Won(k)' /\ claim'[k].asset = b
               /\ asset'[b] = "claimed"
                    <=> \E k \in Existing' : claim'[k].asset = b /\ Status(k)' = "confirmed"
    <3>1. CASE b = a
      <4>1. \A k \in Existing : claim[k].asset = a => claim[k].status # "confirmed"
        BY <2>2 DEF Existing, Won, WonStatus
      <4> QED
        BY <1>1, <2>1, <2>4, <2>5, <3>1, <4>1 DEF Existing, Status
    <3>2. CASE b # a
      BY <1>1, <1>3, <2>1, <2>5, <3>2 DEF ApiInv, AssetsMatchClaims, Existing, Status, Won
    <3> QED
      BY <3>1, <3>2
  <2> QED
    BY <1>3, <1>5, <2>1, <2>3, <2>4, <2>5, <2>6 DEF AssetsMatchClaims, TypeOK, AssetStatus
<1>6. ASSUME NEW m, <<claim[i].status, s, m>> \in Moves,
             asset' = IF m = None THEN asset ELSE [asset EXCEPT ![a] = m]
      PROVE  /\ OneWinnerPerAsset' /\ AssetsMatchClaims'
             /\ asset' \in [Assets -> AssetStatus]
             /\ \A b \in Assets : asset'[b] = "manual_review" <=> asset[b] = "manual_review"
             /\ \A k \in Ids : Won(k) => Won(k)'
  <2>1. /\ claim[i].status \in WonStatus \ {"confirmed"} /\ s \in WonStatus
        /\ m \in {"claiming", "claimed", "pending_review", None}
        /\ s = "confirmed" <=> m = "claimed"
    BY <1>6, MovesType
  <2>2. Won(i) /\ Won(i)'
    BY <1>1, <1>2, <2>1 DEF Won
  <2>3. OneWinnerPerAsset'
    BY <1>1, <1>3, <2>2 DEF ApiInv, OneWinnerPerAsset, Won
  <2>4. asset[a] \in taken /\ asset[a] # "claimed"
    <3>1. asset[a] \in taken
      BY <1>1, <2>2 DEF ApiInv, AssetsMatchClaims
    <3>2. ASSUME NEW k \in Existing, claim[k].asset = a, Status(k) = "confirmed"
          PROVE  FALSE
      <4>1. k \in Ids /\ Won(k) /\ k # i
        BY <2>1, <3>2 DEF Existing, Won, WonStatus, Status
      <4> QED
        BY <1>1, <2>2, <3>2, <4>1 DEF ApiInv, OneWinnerPerAsset
    <3> QED
      BY <3>1, <3>2 DEF ApiInv, AssetsMatchClaims
  <2>5. /\ asset'[a] \in taken
        /\ asset'[a] = "claimed" <=> s = "confirmed"
        /\ \A b \in Assets : b # a => asset'[b] = asset[b]
        /\ asset' \in [Assets -> AssetStatus]
    BY <1>6, <2>1, <2>4, NullAssumption DEF TypeOK, AssetStatus
  <2>6. ASSUME NEW b \in Assets
        PROVE  /\ asset'[b] \in taken <=> \E k \in Ids : Won(k)' /\ claim'[k].asset = b
               /\ asset'[b] = "claimed"
                    <=> \E k \in Existing' : claim'[k].asset = b /\ Status(k)' = "confirmed"
    <3>1. CASE b = a
      <4>1. \A k \in Ids : k # i /\ Won(k) => claim[k].asset # a
        BY <1>1, <2>2 DEF ApiInv, OneWinnerPerAsset
      <4>2. \A k \in Ids : k # i /\ claim[k] # None /\ claim[k].asset = a =>
               claim[k].status # "confirmed"
        BY <4>1 DEF Won, WonStatus
      <4> QED
        BY <1>1, <2>2, <2>5, <3>1, <4>2 DEF Existing, Status
    <3>2. CASE b # a
      BY <1>1, <1>3, <2>2, <2>5, <3>2 DEF ApiInv, AssetsMatchClaims, Existing, Status, Won
    <3> QED
      BY <3>1, <3>2
  <2> QED
    BY <1>3, <2>2, <2>3, <2>4, <2>5, <2>6 DEF AssetsMatchClaims
<1> QED
  BY <1>4, <1>5, <1>6

LEMMA CommitClaimKeeps ==
  ASSUME TypeOK, ApiInv, NEW p \in Procs, CommitClaim(p)
  PROVE  /\ TypeOK' /\ ApiInv'
         /\ \A b \in Assets : asset'[b] = "manual_review" <=> asset[b] = "manual_review"
         /\ \A k \in Ids : Won(k) => Won(k)'
<1>1. job[p] \in Job /\ JobInv(p) /\ job[p].pc = "commit" /\ p # None
  BY ApiAssumption DEF TypeOK, ApiInv, CommitClaim
<1>2. PICK i \in Existing : i = job[p].claim /\ i \in Ids /\ claimLock[i] = p /\ claim[i] \in Row
  BY <1>1 DEF CommitClaim, JobInv, Holding, Existing, TypeOK
<1>3. CASE Refuse(p)
  <2>1. TypeOK' /\ ApiInv'
    BY <1>2, <1>3, FinishType DEF Refuse
  <2> QED
    BY <1>3, <2>1 DEF Refuse, tables, Won
<1>4. CASE ~Refuse(p)
  <2> DEFINE s == job[p].write
             a == claim[i].asset
  <2>1. /\ claim' = [claim EXCEPT ![i] = [@ EXCEPT !.status = s]]
        /\ asset' = IF job[p].mark = None THEN asset
                    ELSE [asset EXCEPT ![job[p].asset] = job[p].mark]
        /\ UNCHANGED expired
        /\ Finish(p, i, s \in Live)
    BY <1>2, <1>4 DEF CommitClaim
  <2>2. a \in Assets
    BY <1>2 DEF Row
  <2>3. job[p].mark # None => job[p].asset = a /\ assetLock[a] = p
    BY <1>1, <1>2 DEF CommitClaim, JobInv, Holding
  <2>4. \/ claim[i].status = "claiming" /\ s \in {"rejected", "expired"} /\ asset' = asset
        \/ /\ claim[i].status = "claiming" /\ s \in {"verified", "pending_review"}
           /\ asset[a] = "available" /\ asset' = [asset EXCEPT ![a] = MarkOf(s)]
        \/ \E m : /\ <<claim[i].status, s, m>> \in Moves
                  /\ asset' = IF m = None THEN asset ELSE [asset EXCEPT ![a] = m]
    <3>1. CASE job[p].op = "complete"
      <4>1. s \in {"verified", "pending_review"} => MarkOf(s) # None
        BY NullAssumption DEF MarkOf, AssetStatus
      <4> QED
        BY <1>1, <1>2, <2>1, <2>3, <3>1, <4>1 DEF JobInv, Holding
    <3>2. CASE job[p].op = "dispatch"
      <4>1. <<claim[i].status, s, job[p].mark>> \in Moves
        BY <1>1, <1>2, <3>2 DEF JobInv
      <4> QED
        BY <2>1, <2>3, <4>1
    <3> QED
      BY <3>1, <3>2 DEF CommitClaim
  <2>5. s \in ClaimStatus
    <3>1. ASSUME NEW m, <<claim[i].status, s, m>> \in Moves
          PROVE  s \in ClaimStatus
      BY <3>1, MovesType DEF ClaimStatus
    <3> QED
      BY <2>4, <3>1 DEF ClaimStatus, WonStatus, Live
  <2> HIDE DEF s
  <2>6. /\ OneWinnerPerAsset' /\ AssetsMatchClaims'
        /\ asset' \in [Assets -> AssetStatus]
        /\ \A b \in Assets : asset'[b] = "manual_review" <=> asset[b] = "manual_review"
        /\ \A k \in Ids : Won(k) => Won(k)'
    BY <2>1, <2>2, <2>4, <2>5, CommitClaimTables
  <2>7. /\ claim' \in [Ids -> Row \cup {None}]
        /\ \A k \in Ids : claim[k] # None => claim'[k] # None
        /\ \A k \in Ids : k # i => claim'[k] = claim[k]
    BY <2>1, <2>5, StatusWritten
  <2>8. \A b \in Assets : assetLock[b] \notin {p, None} => asset'[b] = asset[b]
    BY <2>1, <2>2, <2>3 DEF TypeOK
  <2>9. TypeOK' /\ LocksExist' /\ \A q \in Procs : JobInv(q)'
    BY <1>2, <2>1, <2>6, <2>7, <2>8, CommitFrame
  <2> QED
    BY <2>6, <2>9 DEF ApiInv
<1> QED
  BY <1>3, <1>4

LEMMA ExpiresKeeps ==
  ASSUME TypeOK, ApiInv, NEW i \in Ids, ChallengeExpires(i)
  PROVE  TypeOK' /\ ApiInv'
<1>1. TypeOK'
  BY DEF ChallengeExpires, TypeOK, locks
<1>2. \A q \in Procs : JobInv(q)'
  BY DEF ApiInv, JobInv, ChallengeExpires, locks, Existing
<1> QED
  BY <1>1, <1>2 DEF ApiInv, ChallengeExpires, locks, LocksExist, OneWinnerPerAsset,
     AssetsMatchClaims, Won, Existing, Status

LEMMA ApiInitial == Init => TypeOK /\ ApiInv
<1> SUFFICES ASSUME Init PROVE TypeOK /\ ApiInv
  OBVIOUS
<1>1. TypeOK
  BY NoJobType DEF Init, TypeOK, AssetStatus
<1>2. \A p \in Procs : JobInv(p)
  BY DEF Init, NoJob, JobInv, Holding
<1>3. LocksExist /\ OneWinnerPerAsset /\ AssetsMatchClaims
  BY DEF Init, LocksExist, OneWinnerPerAsset, AssetsMatchClaims, Won, Existing
<1> QED
  BY <1>1, <1>2, <1>3 DEF ApiInv

LEMMA ApiNext == TypeOK /\ ApiInv /\ [Next]_vars => TypeOK' /\ ApiInv'
<1> SUFFICES ASSUME TypeOK, ApiInv, [Next]_vars PROVE TypeOK' /\ ApiInv'
  OBVIOUS
<1>1. ASSUME NEW p \in Procs, Proceed(p) PROVE TypeOK' /\ ApiInv'
  BY <1>1, InitiatingKeeps, LockClaimKeeps, LockAssetKeeps, LockAuditKeeps,
     CommitInitiateKeeps, CommitReapKeeps, CommitClaimKeeps DEF Proceed
<1>2. CASE UNCHANGED vars
  <2>1. \A q \in Procs : JobInv(q)'
    BY <1>2 DEF ApiInv, JobInv, Existing, vars, tables, locks
  <2> QED
    BY <1>2, <2>1 DEF vars, tables, locks, TypeOK, ApiInv, LocksExist, OneWinnerPerAsset,
       AssetsMatchClaims, Won, Existing, Status
<1> QED
  BY <1>1, <1>2, ArriveKeeps, AbortKeeps, ExpiresKeeps DEF Next

-----------------------------------------------------------------------------
(***************************************************************************)
(* The theorems.                                                           *)
(***************************************************************************)

\* ApiInv is inductive: every transaction of service.ts, reaper.ts and
\* dispatch-core.ts commits on what it locked, so its checks still hold then.
THEOREM LocksProtectDecisions == Spec => [](TypeOK /\ ApiInv)
BY ApiInitial, ApiNext, PTL DEF Spec

\* No double claim, for any number of concurrent requests: of the claims ever
\* initiated for an asset at most one wins it (completeClaim re-checks the
\* asset's status under its row lock).
THEOREM NoDoubleClaim == Spec => []OneWinnerPerAsset
BY LocksProtectDecisions, PTL DEF ApiInv

\* The claims and the assets table agree after every commit, abort and crash:
\* an asset is taken exactly when a claim has won it and claimed exactly when
\* that claim is confirmed.
THEOREM TablesAgree == Spec => []AssetsMatchClaims
BY LocksProtectDecisions, PTL DEF ApiInv

\* No late complete, reaper batch or dispatcher transaction takes a won claim
\* back to a status in which it has not won.
LEMMA WonNext == TypeOK /\ ApiInv /\ [Next]_vars => \A i \in Ids : Won(i) => Won(i)'
<1> SUFFICES ASSUME TypeOK, ApiInv, [Next]_vars, NEW i \in Ids, Won(i) PROVE Won(i)'
  OBVIOUS
<1>1. ASSUME UNCHANGED claim PROVE Won(i)'
  BY <1>1 DEF Won
<1>2. ASSUME NEW p \in Procs, Proceed(p) PROVE Won(i)'
  <2>1. CASE CommitInitiate(p)
    BY <2>1 DEF CommitInitiate, Existing, Won, TypeOK
  <2>2. CASE CommitReap(p)
    BY <2>2 DEF CommitReap, Status, Won, WonStatus, Live
  <2>3. CASE CommitClaim(p)
    BY <2>3, CommitClaimKeeps
  <2> QED
    BY <1>1, <1>2, <2>1, <2>2, <2>3 DEF Proceed, LookupKey, LoadAsset, InsertClaim, ReturnWinner,
       Refuse, LockClaim, LockAsset, LockAudit, tables
<1>3. ASSUME NEW p \in Procs, Arrive(p) PROVE UNCHANGED claim
  BY <1>3 DEF Arrive, Initiate, Complete, Reap, Dispatch, tables
<1> QED
  BY <1>1, <1>2, <1>3 DEF Next, Abort, ChallengeExpires, vars, tables

\* A won claim stays won: not the reaper, nor a late complete, nor the
\* dispatcher's re-sign rejects or expires it.
THEOREM WinsArePermanent == Spec => WinnersStayWon
<1>1. TypeOK /\ ApiInv /\ [Next]_vars => [\A i \in Ids : Won(i) => Won(i)']_vars
  BY WonNext
<1> QED
  BY <1>1, LocksProtectDecisions, PTL DEF Spec, WinnersStayWon

-----------------------------------------------------------------------------
(***************************************************************************)
(* The lock order.                                                         *)
(***************************************************************************)

\* The statements at which a transaction can hold a lock of each kind.
Placed ==
  \A p \in Procs :
    /\ \A i \in Ids : claimLock[i] = p => job[p].pc \in Holding
    /\ \A a \in Assets : assetLock[a] = p => job[p].pc \in {"lockAudit", "commit"}
    /\ auditLock = p => job[p].pc = "commit"

\* How far along the order a transaction is.
Rank(p) ==
  IF job[p].pc = "commit" THEN 3
  ELSE IF job[p].pc = "lockAudit" THEN 2
  ELSE IF job[p].pc = "lockAsset" THEN 1 ELSE 0

\* A step of p touches no lock of another.
LEMMA PlacedOthers ==
  ASSUME TypeOK, Placed, NEW p \in Procs, NEW j, job' = [job EXCEPT ![p] = j],
         \A i \in Ids : claimLock'[i] \in {claimLock[i], p, None},
         \A a \in Assets : assetLock'[a] \in {assetLock[a], p, None},
         auditLock' \in {auditLock, p, None},
         \A i \in Ids : claimLock'[i] = p => j.pc \in Holding,
         \A a \in Assets : assetLock'[a] = p => j.pc \in {"lockAudit", "commit"},
         auditLock' = p => j.pc = "commit"
  PROVE  Placed'
<1>1. job'[p] = j /\ \A q \in Procs : q # p => job'[q] = job[q]
  BY DEF TypeOK
<1>2. \A q \in Procs : q # None
  BY ApiAssumption
<1>3. ASSUME NEW q \in Procs, q # p
      PROVE  /\ \A i \in Ids : claimLock'[i] = q => claimLock[i] = q
             /\ \A a \in Assets : assetLock'[a] = q => assetLock[a] = q
             /\ auditLock' = q => auditLock = q
  BY <1>2, <1>3
<1> QED
  BY <1>1, <1>3 DEF Placed

LEMMA ReleasedIsPlaced ==
  ASSUME TypeOK, Placed, NEW p \in Procs, Release(p), job' = [job EXCEPT ![p] = NoJob]
  PROVE  Placed'
<1>1. p # None
  BY ApiAssumption
<1>2. \A i \in Ids : claimLock'[i] \in {claimLock[i], None} /\ claimLock'[i] # p
  BY <1>1 DEF Release, TypeOK
<1>3. \A a \in Assets : assetLock'[a] \in {assetLock[a], None} /\ assetLock'[a] # p
  BY <1>1 DEF Release, TypeOK
<1>4. auditLock' \in {auditLock, None} /\ auditLock' # p
  BY <1>1 DEF Release
<1> QED
  BY <1>2, <1>3, <1>4, PlacedOthers

\* A transaction that has not reached its locks, or only moves on.
LEMMA UnlockedIsPlaced ==
  ASSUME TypeOK, Placed, NEW p \in Procs, NEW j, job' = [job EXCEPT ![p] = j],
         UNCHANGED locks, job[p].pc \notin Holding
  PROVE  Placed'
<1>1. claimLock' = claimLock /\ assetLock' = assetLock /\ auditLock' = auditLock
  BY DEF locks
<1>2. /\ \A i \in Ids : claimLock[i] # p
      /\ \A a \in Assets : assetLock[a] # p
      /\ auditLock # p
  BY DEF Placed, Holding
<1> QED
  BY <1>1, <1>2, PlacedOthers

LEMMA ArriveIsPlaced ==
  ASSUME TypeOK, Placed, NEW p \in Procs, Arrive(p)
  PROVE  Placed'
<1>0. /\ \A i \in Ids : claimLock[i] = p => job[p].pc \in Holding
      /\ \A a \in Assets : assetLock[a] = p => job[p].pc \in {"lockAudit", "commit"}
      /\ auditLock = p => job[p].pc = "commit"
  BY DEF Placed
<1>1. ASSUME NEW a \in Assets, NEW k \in Keys \cup {None}, Initiate(p, a, k) PROVE Placed'
  BY <1>1, UnlockedIsPlaced DEF Initiate, Holding
<1>2. ASSUME NEW i \in Ids, NEW valid \in BOOLEAN, NEW echo \in BOOLEAN,
             Complete(p, i, valid, echo)
      PROVE  Placed'
  BY <1>2, UnlockedIsPlaced DEF Complete, Holding
<1>3. ASSUME Reap(p) PROVE Placed'
  <2>1. PICK j : j = [NoJob EXCEPT !.pc = "lockAudit", !.op = "reap", !.write = "expired"]
    OBVIOUS
  <2>2. j.pc = "lockAudit"
    BY <2>1 DEF NoJob
  <2>3. job[p].pc = "idle" /\ job' = [job EXCEPT ![p] = j] /\ UNCHANGED <<assetLock, auditLock>>
    BY <1>3, <2>1 DEF Reap
  <2>4. \A i \in Ids : claimLock'[i] \in {claimLock[i], p}
    BY <1>3 DEF Reap
  <2> QED
    BY <1>0, <2>2, <2>3, <2>4, PlacedOthers DEF Holding
<1>4. ASSUME NEW i \in Ids, NEW m \in Moves, Dispatch(p, i, m) PROVE Placed'
  <2>1. PICK j : j = [NoJob EXCEPT !.pc = IF m[3] = None THEN "lockAudit" ELSE "lockAsset",
                                   !.op = "dispatch", !.claim = i, !.asset = claim[i].asset,
                                   !.write = m[2], !.mark = m[3]]
    OBVIOUS
  <2>2. j.pc \in {"lockAudit", "lockAsset"}
    BY <2>1 DEF NoJob
  <2>3. job[p].pc = "idle" /\ job' = [job EXCEPT ![p] = j] /\ UNCHANGED <<assetLock, auditLock>>
    BY <1>4, <2>1 DEF Dispatch
  <2>4. \A k \in Ids : claimLock'[k] \in {claimLock[k], p}
    BY <1>4 DEF Dispatch, TypeOK
  <2>5. j.pc \in Holding /\ (\A a \in Assets : assetLock'[a] # p) /\ auditLock' # p
    BY <1>0, <2>2, <2>3 DEF Holding
  <2> QED
    BY <2>3, <2>4, <2>5, PlacedOthers
<1> QED
  BY <1>1, <1>2, <1>3, <1>4 DEF Arrive

LEMMA ProceedIsPlaced ==
  ASSUME TypeOK, Placed, NEW p \in Procs, Proceed(p)
  PROVE  Placed'
<1>0. /\ \A i \in Ids : claimLock[i] = p => job[p].pc \in Holding
      /\ \A a \in Assets : assetLock[a] = p => job[p].pc \in {"lockAudit", "commit"}
      /\ auditLock = p => job[p].pc = "commit"
      /\ job[p] \in Job
  BY DEF Placed, TypeOK
<1>1. ASSUME NEW i, NEW ok, Finish(p, i, ok) PROVE Placed'
  BY <1>1, ReleasedIsPlaced DEF Finish
<1>2. ASSUME NEW l, Goto(p, l), UNCHANGED locks, job[p].pc \notin Holding PROVE Placed'
  BY <1>2, UnlockedIsPlaced DEF Goto
<1>3. CASE LookupKey(p)
  BY <1>1, <1>2, <1>3 DEF LookupKey, Refuse, Holding
<1>4. CASE LoadAsset(p)
  BY <1>1, <1>2, <1>4 DEF LoadAsset, Refuse, Holding
<1>5. CASE InsertClaim(p)
  BY <1>2, <1>5 DEF InsertClaim, Holding
<1>6. CASE ReturnWinner(p)
  BY <1>1, <1>6 DEF ReturnWinner
<1>7. CASE LockClaim(p)
  <2>1. SUFFICES ASSUME claimLock' = [claimLock EXCEPT ![job[p].claim] = p],
                        UNCHANGED <<assetLock, auditLock>>,
                        NEW j, j.pc \in {"lockAudit", "lockAsset"}, job' = [job EXCEPT ![p] = j]
                 PROVE  Placed'
    <3>1. ASSUME ~Completable(Status(job[p].claim)) \/ Replayed(Status(job[p].claim))
          PROVE  Placed'
      BY <1>1, <1>7, <3>1 DEF LockClaim, Completable, Replayed, Live
    <3>2. PICK j : j = IF ~job[p].echo THEN [job[p] EXCEPT !.pc = "lockAudit", !.write = "rejected"]
                       ELSE IF job[p].claim \in expired
                            THEN [job[p] EXCEPT !.pc = "lockAudit", !.write = "expired"]
                       ELSE [job[p] EXCEPT !.pc = "lockAsset", !.asset = claim[job[p].claim].asset]
      OBVIOUS
    <3>3. j.pc \in {"lockAudit", "lockAsset"}
      BY <1>0, <3>2 DEF Job
    <3>4. ASSUME Completable(Status(job[p].claim)), ~Replayed(Status(job[p].claim))
          PROVE  /\ claimLock' = [claimLock EXCEPT ![job[p].claim] = p]
                 /\ UNCHANGED <<assetLock, auditLock>>
                 /\ job' = [job EXCEPT ![p] = j]
      BY <1>7, <3>2, <3>4 DEF LockClaim
    <3> QED
      BY <3>1, <3>3, <3>4
  <2>2. job[p].pc = "lockClaim"
    BY <1>7 DEF LockClaim
  <2>3. \A k \in Ids : claimLock'[k] \in {claimLock[k], p}
    BY <2>1 DEF TypeOK
  <2>4. j.pc \in Holding /\ (\A a \in Assets : assetLock'[a] # p) /\ auditLock' # p
    BY <1>0, <2>1, <2>2 DEF Holding
  <2> QED
    BY <2>1, <2>3, <2>4, PlacedOthers
<1>8. CASE LockAsset(p)
  <2>1. PICK j : j = IF job[p].op = "dispatch" THEN [job[p] EXCEPT !.pc = "lockAudit"]
                     ELSE [job[p] EXCEPT !.pc = "lockAudit", !.write = Decision(p),
                                         !.mark = IF Decision(p) = "rejected" THEN None
                                                  ELSE MarkOf(Decision(p))]
    OBVIOUS
  <2>2. j.pc = "lockAudit"
    BY <1>0, <2>1 DEF Job
  <2>3. /\ job[p].pc = "lockAsset" /\ job' = [job EXCEPT ![p] = j]
        /\ UNCHANGED <<claimLock, auditLock>>
        /\ assetLock' = [assetLock EXCEPT ![job[p].asset] = p]
    BY <1>8, <2>1 DEF LockAsset, TakeAsset, Goto
  <2>4. \A a \in Assets : assetLock'[a] \in {assetLock[a], p}
    BY <2>3 DEF TypeOK
  <2> QED
    BY <1>0, <2>2, <2>3, <2>4, PlacedOthers DEF Holding
<1>9. CASE LockAudit(p)
  <2>1. PICK j : j = [job[p] EXCEPT !.pc = "commit"]
    OBVIOUS
  <2>2. j.pc = "commit"
    BY <1>0, <2>1 DEF Job
  <2>3. /\ job' = [job EXCEPT ![p] = j] /\ UNCHANGED <<claimLock, assetLock>> /\ auditLock' = p
    BY <1>9, <2>1 DEF LockAudit, Goto
  <2> QED
    BY <1>0, <2>2, <2>3, PlacedOthers DEF Holding
<1>10. CASE CommitInitiate(p) \/ CommitReap(p) \/ CommitClaim(p)
  BY <1>1, <1>10 DEF CommitInitiate, CommitReap, CommitClaim, Refuse
<1> QED
  BY <1>3, <1>4, <1>5, <1>6, <1>7, <1>8, <1>9, <1>10 DEF Proceed

LEMMA PlacedNext == TypeOK /\ Placed /\ [Next]_vars => Placed'
<1> SUFFICES ASSUME TypeOK, Placed, [Next]_vars PROVE Placed'
  OBVIOUS
<1>1. ASSUME NEW p \in Procs, Abort(p) PROVE Placed'
  BY <1>1, ReleasedIsPlaced DEF Abort
<1>2. ASSUME UNCHANGED <<locks, job>> PROVE Placed'
  BY <1>2 DEF Placed, locks
<1> QED
  BY <1>1, <1>2, ArriveIsPlaced, ProceedIsPlaced DEF Next, ChallengeExpires, vars

LEMMA PlacedInitially == Init => Placed
BY ApiAssumption DEF Init, Placed

\* Whoever is waited for is further along the order.
LEMMA WaitsForHigher ==
  ASSUME TypeOK, ApiInv, Placed, NEW p \in Procs, NEW q \in Procs, q \in WaitsFor(p)
  PROVE  Rank(q) > Rank(p)
<1>1. q # None /\ job[p] \in Job /\ JobInv(p)
  BY ApiAssumption DEF TypeOK, ApiInv
<1>2. /\ \A i \in Ids : claimLock[i] = q => job[q].pc \in Holding
      /\ \A a \in Assets : assetLock[a] = q => job[q].pc \in {"lockAudit", "commit"}
      /\ auditLock = q => job[q].pc = "commit"
      /\ q \in Inserted => job[q].pc \in {"lockAudit", "commit"}
  BY DEF Placed, Inserted
<1>3. CASE job[p].pc = "lookup"
  <2>1. WaitsFor(p) = {claimLock[i] : i \in WithKey(job[p].key)} \ {None}
    BY <1>3 DEF WaitsFor
  <2>2. \E i \in Ids : claimLock[i] = q
    BY <2>1 DEF WithKey, Existing
  <2> QED
    BY <1>2, <1>3, <2>2 DEF Rank, Holding
<1>4. CASE job[p].pc = "lockClaim"
  <2>1. WaitsFor(p) = {claimLock[job[p].claim]} \ {None}
    BY <1>4 DEF WaitsFor
  <2>2. job[p].claim \in Ids
    BY <1>1, <1>4 DEF JobInv, Existing
  <2> QED
    BY <1>2, <1>4, <2>1, <2>2 DEF Rank, Holding
<1>5. CASE job[p].pc = "insert"
  <2>1. q \in Inserted \/ assetLock[job[p].asset] = q
    <3>1. CASE KeyTaken(job[p].key)
      BY <1>5, <3>1 DEF WaitsFor
    <3>2. CASE ~KeyTaken(job[p].key)
      <4>1. WaitsFor(p) = ({r \in Inserted : job[p].key # None /\ job[r].key = job[p].key}
                           \cup {r \in Procs : assetLock[job[p].asset] = r /\ ForUpdate(r)})
                          \ {None}
        BY <1>5, <3>2 DEF WaitsFor
      <4> QED
        BY <4>1
    <3> QED
      BY <3>1, <3>2
  <2>2. job[p].asset \in Assets
    BY <1>1, <1>5 DEF JobInv
  <2> QED
    BY <1>2, <1>5, <2>1, <2>2 DEF Rank
<1>6. CASE job[p].pc = "lockAsset"
  <2>1. WaitsFor(p) = ({assetLock[job[p].asset]}
                       \cup {r \in Inserted : ForUpdate(p) /\ job[r].asset = job[p].asset}) \ {None}
    BY <1>6 DEF WaitsFor
  <2>2. job[p].asset \in Assets
    BY <1>1, <1>6 DEF JobInv, Holding, Existing, TypeOK, Row
  <2> QED
    BY <1>2, <1>6, <2>1, <2>2 DEF Rank
<1>7. CASE job[p].pc = "lockAudit"
  <2>1. WaitsFor(p) = ({auditLock} \ {p}) \ {None}
    BY <1>7 DEF WaitsFor
  <2> QED
    BY <1>2, <1>7, <2>1 DEF Rank
<1>8. CASE job[p].pc \notin {"lookup", "lockClaim", "insert", "lockAsset", "lockAudit"}
  BY <1>8 DEF WaitsFor
<1> QED
  BY <1>3, <1>4, <1>5, <1>6, <1>7, <1>8

\* What the next statement of p asks for is free: the guards of LookupKey,
\* LockClaim, InsertClaim, LockAsset and LockAudit.
Granted(p) ==
  LET j == job[p]
  IN /\ j.pc = "lookup" => \A i \in WithKey(j.key) : claimLock[i] = None
     /\ j.pc = "lockClaim" => claimLock[j.claim] = None
     /\ j.pc = "insert" /\ ~KeyTaken(j.key) =>
          /\ j.key # None => \A q \in Inserted : job[q].key # j.key
          /\ LET holder == assetLock[j.asset] IN holder # None => ~ForUpdate(holder)
     /\ j.pc = "lockAsset" =>
          /\ assetLock[j.asset] = None
          /\ ForUpdate(p) => \A q \in Inserted : job[q].asset # j.asset
     /\ j.pc = "lockAudit" => auditLock \in {None, p}

LEMMA UnlessItWaits ==
  ASSUME TypeOK, ApiInv, NEW p \in Procs, WaitsFor(p) = {}
  PROVE  Granted(p)
<1>1. \A q \in Inserted : q \in Procs /\ q # None
  BY ApiAssumption DEF Inserted, Initiating, Procs
<1>2. CASE job[p].pc = "lookup"
  BY <1>2 DEF WaitsFor, Granted
<1>3. CASE job[p].pc = "lockClaim"
  BY <1>3 DEF WaitsFor, Granted
<1>4. CASE job[p].pc = "insert" /\ ~KeyTaken(job[p].key)
  <2>1. ({r \in Inserted : job[p].key # None /\ job[r].key = job[p].key}
         \cup {r \in Procs : assetLock[job[p].asset] = r /\ ForUpdate(r)}) \ {None} = {}
    BY <1>4 DEF WaitsFor
  <2>2. assetLock[job[p].asset] \in Procs \cup {None}
    BY <1>4 DEF TypeOK, ApiInv, JobInv
  <2> QED
    BY <1>1, <1>4, <2>1, <2>2 DEF Granted
<1>5. CASE job[p].pc = "lockAsset"
  <2>1. ({assetLock[job[p].asset]}
         \cup {r \in Inserted : ForUpdate(p) /\ job[r].asset = job[p].asset}) \ {None} = {}
    BY <1>5 DEF WaitsFor
  <2> QED
    BY <1>1, <1>5, <2>1 DEF Granted
<1>6. CASE job[p].pc = "lockAudit"
  BY <1>6 DEF WaitsFor, Granted
<1> QED
  BY <1>2, <1>3, <1>4, <1>5, <1>6 DEF Granted

LEMMA OrderedLocks == ASSUME TypeOK, ApiInv, Placed PROVE NoLockCycle
<1> SUFFICES ASSUME NEW D \in SUBSET Procs, D # {}
             PROVE  \E p \in D : WaitsFor(p) \cap D = {}
  BY DEF NoLockCycle
<1>1. \A p \in D : Rank(p) \in 0 .. 3
  BY DEF Rank
<1>2. ASSUME NEW p \in D, \A q \in D : ~(Rank(q) > Rank(p)) PROVE WaitsFor(p) \cap D = {}
  <2>1. \A q \in D : q \notin WaitsFor(p)
    BY <1>2, WaitsForHigher
  <2> QED
    BY <2>1
<1>3. \E p \in D : \A q \in D : ~(Rank(q) > Rank(p))
  BY <1>1
<1> QED
  BY <1>2, <1>3

\* Transactions of service.ts, reaper.ts and dispatch-core.ts never wait for each
\* other in a circle, however many run: each takes its claim, its asset and the
\* audit log's advisory lock in this order.  Whoever waits for nobody can go on.
THEOREM LocksAreOrdered ==
  Spec => [](NoLockCycle /\ \A p \in Procs : WaitsFor(p) = {} => Granted(p))
<1>1. TypeOK /\ ApiInv /\ Placed =>
        NoLockCycle /\ \A p \in Procs : WaitsFor(p) = {} => Granted(p)
  BY OrderedLocks, UnlessItWaits
<1> QED
  BY <1>1, LocksProtectDecisions, PlacedInitially, PlacedNext, PTL DEF Spec

-----------------------------------------------------------------------------
(***************************************************************************)
(* The big-claim brake.                                                    *)
(***************************************************************************)

\* Assets held for review at the load stay so, and no other joins them: the total
\* a complete reads is the recipient's whole total, whenever it is read.
HeldStays == \A a \in Assets : asset[a] = "manual_review" <=> a \in Held

\* The recipient of a is not one whose claims are reviewed.
Small(a) ==
  Threshold > 0 =>
    SumFunctionOnSet(Amount, {b \in Assets \ Held : RecipientOf[b] = RecipientOf[a]}) <= Threshold

\* About to be verified without a review.
Unreviewed(j) == j.op = "complete" /\ j.pc \in {"lockAudit", "commit"} /\ j.write = "verified"

BrakeInv == HeldStays /\ \A p \in Procs : Unreviewed(job[p]) => Small(job[p].asset)

LEMMA DecidedSmall ==
  ASSUME TypeOK, HeldStays, NEW a \in Assets, ~BigClaim(a)
  PROVE  Small(a)
<1> DEFINE r == RecipientOf[a]
<1>1. {b \in Assets : /\ RecipientOf[b] = r
                      /\ asset[b] \in {"available", "claiming", "claimed", "pending_review"}}
        = {b \in Assets \ Held : RecipientOf[b] = r}
  BY DEF TypeOK, HeldStays, AssetStatus
<1>2. RecipientTotal(r) = SumFunctionOnSet(Amount, {b \in Assets \ Held : RecipientOf[b] = r})
  BY <1>1 DEF RecipientTotal
<1>3. SumFunctionOnSet(Amount, {b \in Assets \ Held : RecipientOf[b] = r}) \in Int
  <2>1. PICK S : S = {b \in Assets \ Held : RecipientOf[b] = r}
    OBVIOUS
  <2>2. IsFiniteSet(S) /\ \A b \in S : Amount[b] \in Int
    BY <2>1, ApiAssumption, FS_Subset
  <2> QED
    BY <2>1, <2>2, SumInt
<1> QED
  BY <1>2, <1>3, ApiAssumption DEF Small, BigClaim

\* A step of p that leaves the assets alone.
LEMMA BrakeStep ==
  ASSUME TypeOK, BrakeInv, NEW p \in Procs, NEW j, job' = [job EXCEPT ![p] = j],
         asset' = asset, Unreviewed(j) => Small(j.asset)
  PROVE  BrakeInv'
BY DEF TypeOK, BrakeInv, HeldStays, Small

LEMMA NoJobIsReviewed == ~Unreviewed(NoJob)
BY DEF NoJob, Unreviewed

LEMMA BrakeProceeds ==
  ASSUME TypeOK, ApiInv, BrakeInv, NEW p \in Procs, Proceed(p)
  PROVE  BrakeInv'
<1>0. job[p] \in Job /\ JobInv(p) /\ (Unreviewed(job[p]) => Small(job[p].asset))
  BY DEF TypeOK, ApiInv, BrakeInv
<1>1. ASSUME NEW i, NEW ok, Finish(p, i, ok), asset' = asset PROVE BrakeInv'
  BY <1>1, BrakeStep, NoJobIsReviewed DEF Finish
<1>2. ASSUME NEW l, Goto(p, l), asset' = asset, job[p].op # "complete" PROVE BrakeInv'
  <2>1. PICK j : j = [job[p] EXCEPT !.pc = l]
    OBVIOUS
  <2>2. j.op # "complete" /\ job' = [job EXCEPT ![p] = j]
    BY <1>0, <1>2, <2>1 DEF Job, Goto
  <2> QED
    BY <1>2, <2>2, BrakeStep DEF Unreviewed
<1>3. CASE LookupKey(p) \/ LoadAsset(p) \/ InsertClaim(p) \/ ReturnWinner(p)
  <2>1. job[p].op # "complete"
    BY <1>0, <1>3 DEF LookupKey, LoadAsset, InsertClaim, ReturnWinner, JobInv
  <2>2. asset' = asset
    BY <1>3 DEF LookupKey, LoadAsset, InsertClaim, ReturnWinner, Refuse, tables
  <2>3. (\E i, ok : Finish(p, i, ok)) \/ (\E l : Goto(p, l))
    BY <1>3 DEF LookupKey, LoadAsset, InsertClaim, ReturnWinner, Refuse
  <2> QED
    BY <1>1, <1>2, <2>1, <2>2, <2>3
<1>4. CASE LockClaim(p)
  <2>1. asset' = asset
    BY <1>4 DEF LockClaim, tables
  <2>2. PICK j : j = IF ~job[p].echo THEN [job[p] EXCEPT !.pc = "lockAudit", !.write = "rejected"]
                     ELSE IF job[p].claim \in expired
                          THEN [job[p] EXCEPT !.pc = "lockAudit", !.write = "expired"]
                     ELSE [job[p] EXCEPT !.pc = "lockAsset", !.asset = claim[job[p].claim].asset]
    OBVIOUS
  <2>3. ~Unreviewed(j)
    BY <1>0, <2>2 DEF Job, Unreviewed
  <2>4. (\E i, ok : Finish(p, i, ok)) \/ job' = [job EXCEPT ![p] = j]
    BY <1>4, <2>2 DEF LockClaim
  <2> QED
    BY <1>1, <2>1, <2>3, <2>4, BrakeStep
<1>5. CASE LockAsset(p)
  <2>1. job[p].asset \in Assets /\ asset' = asset
    BY <1>0, <1>5 DEF LockAsset, JobInv, Holding, Existing, TypeOK, Row, tables
  <2>2. CASE job[p].op = "dispatch"
    BY <1>2, <1>5, <2>1, <2>2 DEF LockAsset, TakeAsset
  <2>3. CASE job[p].op # "dispatch"
    <3>1. PICK d : d = Decision(p)
      OBVIOUS
    <3>2. PICK j : j = [job[p] EXCEPT !.pc = "lockAudit", !.write = d,
                                      !.mark = IF d = "rejected" THEN None ELSE MarkOf(d)]
      OBVIOUS
    <3>3. j.write = d /\ j.asset = job[p].asset
      BY <1>0, <3>2 DEF Job
    <3>4. job' = [job EXCEPT ![p] = j]
      BY <1>5, <2>3, <3>1, <3>2 DEF LockAsset, TakeAsset
    <3>5. d = "verified" => ~BigClaim(job[p].asset)
      BY <3>1 DEF Decision
    <3>6. d = "verified" => Small(job[p].asset)
      BY <2>1, <3>5, DecidedSmall DEF BrakeInv
    <3> QED
      BY <2>1, <3>3, <3>4, <3>6, BrakeStep DEF Unreviewed
  <2> QED
    BY <2>2, <2>3
<1>6. CASE LockAudit(p)
  <2>1. PICK j : j = [job[p] EXCEPT !.pc = "commit"]
    OBVIOUS
  <2>2. j.op = job[p].op /\ j.write = job[p].write /\ j.asset = job[p].asset
    BY <1>0, <2>1 DEF Job
  <2>3. job' = [job EXCEPT ![p] = j] /\ asset' = asset /\ job[p].pc = "lockAudit"
    BY <1>6, <2>1 DEF LockAudit, Goto, tables
  <2> QED
    BY <1>0, <2>2, <2>3, BrakeStep DEF Unreviewed
<1>7. CASE CommitInitiate(p) \/ CommitReap(p)
  BY <1>1, <1>7 DEF CommitInitiate, CommitReap
<1>8. CASE CommitClaim(p)
  <2>1. job' = [job EXCEPT ![p] = NoJob]
    BY <1>8 DEF CommitClaim, Refuse, Finish
  <2>2. \A b \in Assets : asset'[b] = "manual_review" <=> asset[b] = "manual_review"
    BY <1>8, CommitClaimKeeps
  <2>3. job'[p] = NoJob /\ \A q \in Procs : q # p => job'[q] = job[q]
    BY <2>1 DEF TypeOK
  <2> QED
    BY <2>2, <2>3, NoJobIsReviewed DEF BrakeInv, HeldStays, Small
<1> QED
  BY <1>3, <1>4, <1>5, <1>6, <1>7, <1>8 DEF Proceed

LEMMA BrakeArrives ==
  ASSUME TypeOK, BrakeInv, NEW p \in Procs, Arrive(p)
  PROVE  BrakeInv'
<1>1. ASSUME NEW a \in Assets, NEW k \in Keys \cup {None}, Initiate(p, a, k) PROVE BrakeInv'
  <2>1. PICK j : j = [NoJob EXCEPT !.pc = IF k = None THEN "load" ELSE "lookup",
                                   !.op = "initiate", !.asset = a, !.key = k]
    OBVIOUS
  <2>2. ~Unreviewed(j)
    BY <2>1 DEF NoJob, Unreviewed
  <2> QED
    BY <1>1, <2>1, <2>2, BrakeStep DEF Initiate, tables
<1>2. ASSUME NEW i \in Ids, NEW valid \in BOOLEAN, NEW echo \in BOOLEAN,
             Complete(p, i, valid, echo)
      PROVE  BrakeInv'
  <2>1. PICK j : j = [NoJob EXCEPT !.pc = "lockClaim", !.op = "complete",
                                   !.claim = i, !.valid = valid, !.echo = echo]
    OBVIOUS
  <2>2. ~Unreviewed(j)
    BY <2>1 DEF NoJob, Unreviewed
  <2> QED
    BY <1>2, <2>1, <2>2, BrakeStep DEF Complete, tables
<1>3. ASSUME Reap(p) PROVE BrakeInv'
  <2>1. PICK j : j = [NoJob EXCEPT !.pc = "lockAudit", !.op = "reap", !.write = "expired"]
    OBVIOUS
  <2>2. ~Unreviewed(j)
    BY <2>1 DEF NoJob, Unreviewed
  <2> QED
    BY <1>3, <2>1, <2>2, BrakeStep DEF Reap, tables
<1>4. ASSUME NEW i \in Ids, NEW m \in Moves, Dispatch(p, i, m) PROVE BrakeInv'
  <2>1. PICK j : j = [NoJob EXCEPT !.pc = IF m[3] = None THEN "lockAudit" ELSE "lockAsset",
                                   !.op = "dispatch", !.claim = i, !.asset = claim[i].asset,
                                   !.write = m[2], !.mark = m[3]]
    OBVIOUS
  <2>2. ~Unreviewed(j)
    BY <2>1 DEF NoJob, Unreviewed
  <2> QED
    BY <1>4, <2>1, <2>2, BrakeStep DEF Dispatch, tables
<1> QED
  BY <1>1, <1>2, <1>3, <1>4 DEF Arrive

LEMMA BrakeNext == TypeOK /\ ApiInv /\ BrakeInv /\ [Next]_vars => BrakeInv'
<1> SUFFICES ASSUME TypeOK, ApiInv, BrakeInv, [Next]_vars PROVE BrakeInv'
  OBVIOUS
<1>1. ASSUME NEW p \in Procs, Abort(p) PROVE BrakeInv'
  BY <1>1, BrakeStep, NoJobIsReviewed DEF Abort, tables
<1>2. ASSUME UNCHANGED <<asset, job>> PROVE BrakeInv'
  BY <1>2 DEF BrakeInv, HeldStays, Small
<1> QED
  BY <1>1, <1>2, BrakeArrives, BrakeProceeds DEF Next, ChallengeExpires, vars, tables

LEMMA BrakeInitially == Init => BrakeInv
<1> SUFFICES ASSUME Init PROVE BrakeInv
  OBVIOUS
<1>1. HeldStays
  BY DEF Init, HeldStays
<1>2. \A p \in Procs : ~Unreviewed(job[p])
  BY NoJobIsReviewed DEF Init
<1> QED
  BY <1>1, <1>2 DEF BrakeInv

\* Only a complete that decided so writes verified.
LEMMA VerifiedByDecision ==
  ASSUME TypeOK, ApiInv, BrakeInv, [Next]_vars, NEW i \in Existing,
         Status(i) = "claiming", claim'[i].status = "verified"
  PROVE  Small(claim[i].asset)
<1>1. i \in Ids /\ claim[i] \in Row /\ claim[i] # None
  BY DEF Existing, TypeOK
<1>2. claim' # claim
  BY DEF Status
<1>3. PICK p \in Procs : Proceed(p)
  <2>1. ASSUME NEW p \in Procs, Arrive(p) PROVE UNCHANGED claim
    BY <2>1 DEF Arrive, Initiate, Complete, Reap, Dispatch, tables
  <2> QED
    BY <1>2, <2>1 DEF Next, Abort, ChallengeExpires, vars, tables
<1>4. CommitInitiate(p) \/ CommitReap(p) \/ CommitClaim(p)
  BY <1>2, <1>3 DEF Proceed, LookupKey, LoadAsset, InsertClaim, ReturnWinner,
     Refuse, LockClaim, LockAsset, LockAudit, tables
<1>5. ~CommitInitiate(p)
  BY <1>1 DEF CommitInitiate, Existing, Status, TypeOK
<1>6. ~CommitReap(p)
  BY <1>1 DEF CommitReap, Status, Row
<1>7. CommitClaim(p) /\ ~Refuse(p)
  BY <1>2, <1>4, <1>5, <1>6 DEF Refuse, tables
<1>8. job[p] \in Job /\ JobInv(p) /\ (Unreviewed(job[p]) => Small(job[p].asset))
  BY DEF TypeOK, ApiInv, BrakeInv
<1>9. PICK k \in Existing : k = job[p].claim /\ k \in Ids /\ claim[k] \in Row
  BY <1>7, <1>8 DEF CommitClaim, JobInv, Holding, Existing, TypeOK
<1>10. claim' = [claim EXCEPT ![k] = [@ EXCEPT !.status = job[p].write]]
  BY <1>7, <1>9 DEF CommitClaim
<1>11. k = i
  BY <1>1, <1>9, <1>10 DEF Status, TypeOK
<1>12. job[p].write = "verified"
  BY <1>1, <1>10, <1>11 DEF TypeOK, Row
<1>13. job[p].pc = "commit" /\ job[p].op \in {"complete", "dispatch"}
  BY <1>7 DEF CommitClaim
<1>14. job[p].op = "complete"
  <2>1. ASSUME job[p].op = "dispatch" PROVE FALSE
    <3>1. <<claim[i].status, job[p].write, job[p].mark>> \in Moves
      BY <1>8, <1>9, <1>11, <1>13, <2>1 DEF JobInv
    <3>2. claim[i].status \in WonStatus
      BY <3>1, MovesType
    <3> QED
      BY <3>2 DEF Status, WonStatus, Live
  <2> QED
    BY <1>13, <2>1
<1>15. job[p].asset = claim[i].asset
  <2>1. MarkOf("verified") # None
    BY NullAssumption DEF MarkOf, AssetStatus
  <2>2. job[p].mark # None
    BY <1>8, <1>12, <1>13, <1>14, <2>1 DEF JobInv, Holding
  <2> QED
    BY <1>8, <1>9, <1>11, <1>13, <1>14, <2>2 DEF JobInv, Holding
<1> QED
  BY <1>8, <1>12, <1>13, <1>14, <1>15 DEF Unreviewed

\* The big-claim brake (completeClaim) cannot be passed by splitting a balance:
\* whoever is verified without a review has, over all assets on offer, no more than
\* the threshold, for any assets, amounts and overlap of the completes.
THEOREM SplitsAreBraked == Spec => SplitClaimsAreBraked
<1>1. TypeOK /\ ApiInv /\ BrakeInv /\ [Next]_vars =>
        [\A i \in Existing :
           /\ Status(i) = "claiming" /\ claim'[i].status = "verified"
           /\ Threshold > 0
           => SumFunctionOnSet(Amount, {a \in Assets \ Held :
                                          RecipientOf[a] = RecipientOf[claim[i].asset]})
                <= Threshold]_vars
  BY VerifiedByDecision DEF Small
<1> QED
  BY <1>1, LocksProtectDecisions, BrakeInitially, BrakeNext, PTL DEF Spec, SplitClaimsAreBraked

=============================================================================
