------------------------------ MODULE AclHealer -----------------------------
(***************************************************************************)
(* The repair of an ANT's access list after its transfer: the sweep of the *)
(* dispatch worker (dispatch/ant-acl-healer.ts) and the operator's         *)
(* reconcile:ant-acl --apply, over one planner (ant-acl-reconcile.ts) and  *)
(* one executor (ant-acl-execute.ts).  Both may be at work on the same ANT *)
(* or on the lists of the same claimant.                                   *)
(*                                                                         *)
(* The ario-ant program is external: its instructions do what the comments *)
(* on their builders (ant-acl-instructions.ts) say, and a transaction is   *)
(* all or nothing.  A user's list is a sequence of pages, each a sequence  *)
(* of ANTs the user is recorded to own.                                    *)
(***************************************************************************)
EXTENDS Integers, Sequences, SequencesExt, FiniteSetsExt

CONSTANTS
  Ants,         \* ANTs, all claimed by one user, the hardest case for the pages
  Healers,      \* processes: "worker" and the CLI
  PageCap,      \* MAX_ACL_PAGE_ENTRIES
  Batch,        \* ANT_ACL_HEAL_BATCH
  MaxAttempts,
  MaxTroubles   \* runs of the CLI, crashes and calls that throw, taken together

ASSUME HealerAssumption ==
  /\ IsFiniteSet(Ants)
  /\ PageCap \in Nat \ {0} /\ Batch \in Nat \ {0} /\ MaxAttempts \in Nat \ {0}

VARIABLES
  owner,       \* MPL Core owner of each ANT: "cold", "claimant" or "other"
  known,       \* AntConfig.last_known_owner
  delegated,   \* ANTs that have the cold wallet as a controller
  acl,         \* the pages of "cold" and of "claimant"; claimant's may not exist
  registered,  \* users with an AclConfig
  sent,        \* heal transactions that may yet land
  row,         \* per ANT: place in the order of confirmation, attempts, note
  work,        \* what each healer has left to do in this pass
  step,        \* where it is with the first of it, and what it has read
  troubles     \* how many of these there were

healVars == <<owner, known, delegated, acl, registered, sent, row, work, step, troubles>>

Start == [pc |-> "idle"]

ColdPages == [i \in 1 .. Cardinality(Ants) |-> <<SetToSeq(Ants)[i]>>]

\* The claimant is new to the program, or has a page, empty or with an ANT of its own.
HealInit ==
  /\ owner = [a \in Ants |-> "cold"] /\ known = [a \in Ants |-> "cold"]
  /\ delegated = Ants
  /\ \/ registered = {"cold"} /\ acl = [cold |-> ColdPages, claimant |-> <<>>]
     \/ registered = {"cold", "claimant"}
        /\ \E page \in {<<>>, <<"own">>} : acl = [cold |-> ColdPages, claimant |-> <<page>>]
  /\ sent = {}
  /\ row = [a \in Ants |-> [place |-> 0, attempts |-> 0, note |-> ""]]
  /\ work = [h \in Healers |-> <<>>]
  /\ step = [h \in Healers |-> Start]
  /\ troubles = 0

-----------------------------------------------------------------------------
(***************************************************************************)
(* What is read, and the plan made of it.                                  *)
(***************************************************************************)

PagesWith(u, a) == {i \in DOMAIN acl[u] : a \in ToSet(acl[u][i])}
RoomyPages(u)   == {i \in DOMAIN acl[u] : Len(acl[u][i]) < PageCap}

\* readOwnerAcl: the last page with the entry; the first with room, or none.
ReadOwnerAcl(u, a) ==
  [exists |-> u \in registered, count |-> Len(acl[u]),
   entry  |-> IF PagesWith(u, a) = {} THEN 0 ELSE Max(PagesWith(u, a)),
   room   |-> IF RoomyPages(u) = {} THEN 0 ELSE Min(RoomyPages(u))]

\* The part of readAclHealSnapshot that is about the asset.
ReadAsset(a) == [owner |-> owner[a], known |-> known[a], stale |-> a \in delegated]

TargetPage(new) == IF new.room = 0 THEN new.count + 1 ELSE new.room

\* Mutant: the stale entry of the old owner is left for later.
PlanWithoutRemove(asset, old, new) ==
  [remove |-> 0, register |-> ~new.exists /\ new.entry = 0,
   create |-> IF new.entry = 0 /\ new.room = 0 THEN TargetPage(new) ELSE 0,
   record |-> IF new.entry = 0 THEN TargetPage(new) ELSE 0,
   reconcile |-> asset.known # "claimant" \/ asset.stale]

\* planAclHeal once the owner is the claimant: page numbers, 0 for no step.
PlanAclHeal(asset, old, new) ==
  [remove |-> old.entry, register |-> ~new.exists /\ new.entry = 0,
   create |-> IF new.entry = 0 /\ new.room = 0 THEN TargetPage(new) ELSE 0,
   record |-> IF new.entry = 0 THEN TargetPage(new) ELSE 0,
   reconcile |-> asset.known # "claimant" \/ asset.stale]

NothingToDo(p) == p.remove = 0 /\ p.record = 0 /\ ~p.reconcile

\* verifyHealed.
InSync(a) ==
  /\ owner[a] = "claimant" /\ known[a] = "claimant" /\ a \notin delegated
  /\ PagesWith("cold", a) = {} /\ PagesWith("claimant", a) # {}

-----------------------------------------------------------------------------
(***************************************************************************)
(* The chain (external).                                                   *)
(***************************************************************************)

\* Every instruction of the transaction, made by plan p, succeeds.
Executes(a, p) ==
  /\ p.remove # 0 => owner[a] # "cold" /\ p.remove \in PagesWith("cold", a)
  /\ p.register => "claimant" \notin registered
  /\ p.create # 0 => p.create = Len(acl["claimant"]) + 1
  /\ p.record # 0 => /\ owner[a] = "claimant"
                     /\ p.create # 0 \/ p.record \in RoomyPages("claimant")

\* The entry's place is taken by the last one.
SwapRemoved(list, a) ==
  LET n == Len(list)
      i == CHOOSE i \in 1 .. n : list[i] = a
  IN SubSeq([list EXCEPT ![i] = list[n]], 1, n - 1)

RemovedFrom(pages, i, a) == [pages EXCEPT ![i] = SwapRemoved(@, a)]
CreatedIn(pages, i)      == IF i = 0 THEN pages ELSE Append(pages, <<>>)

Land(t) ==
  LET a == t.ant
      p == t.plan
      pages == CreatedIn(acl["claimant"], p.create)
  IN /\ Executes(a, p)
     /\ sent' = sent \ {t}
     /\ registered' = IF p.register THEN registered \cup {"claimant"} ELSE registered
     /\ acl' = [cold     |-> IF p.remove = 0 THEN acl["cold"]
                             ELSE RemovedFrom(acl["cold"], p.remove, a),
                claimant |-> IF p.record = 0 THEN pages
                             ELSE [pages EXCEPT ![p.record] = Append(@, a)]]
     /\ known' = IF p.reconcile THEN [known EXCEPT ![a] = owner[a]] ELSE known
     /\ delegated' = IF p.reconcile /\ known[a] # owner[a] THEN delegated \ {a} ELSE delegated
     /\ UNCHANGED <<owner, row, work, step, troubles>>

\* It fails, expires or is dropped.
Vanish(t) ==
  /\ sent' = sent \ {t}
  /\ UNCHANGED <<owner, known, delegated, acl, registered, row, work, step, troubles>>

\* The ANT is transferred and its claim confirmed, by the worker or by a batch.
ConfirmAnt(a) ==
  /\ owner[a] = "cold"
  /\ owner' = [owner EXCEPT ![a] = "claimant"]
  /\ row' = [row EXCEPT ![a].place = Max({row[b].place : b \in Ants}) + 1]
  /\ UNCHANGED <<known, delegated, acl, registered, sent, work, step, troubles>>

\* The claimant gives it away.
MoveOn(a) ==
  /\ owner[a] = "claimant"
  /\ owner' = [owner EXCEPT ![a] = "other"]
  /\ UNCHANGED <<known, delegated, acl, registered, sent, row, work, step, troubles>>

-----------------------------------------------------------------------------
(***************************************************************************)
(* The healers.                                                            *)
(***************************************************************************)

Pending == {a \in Ants : row[a].place > 0 /\ row[a].note = ""}

\* ORDER BY confirmed_at, LIMIT: the i-th has i - 1 before it.
InOrder ==
  {batch \in [1 .. Min({Batch, Cardinality(Pending)}) -> Pending] :
     \A i \in DOMAIN batch :
       Cardinality({a \in Pending : row[a].place < row[batch[i]].place}) = i - 1}

\* sweepOnce reads its rows, attempts included.
Sweep ==
  /\ work["worker"] = <<>> /\ Pending # {}
  /\ \E batch \in InOrder :
       work' = [work EXCEPT !["worker"] =
         [i \in DOMAIN batch |-> [ant |-> batch[i], attempts |-> row[batch[i]].attempts]]]
  /\ UNCHANGED <<owner, known, delegated, acl, registered, sent, row, step, troubles>>

\* The operator starts the CLI for one ANT.
RunCli(h, a) ==
  /\ h # "worker" /\ work[h] = <<>> /\ row[a].place > 0 /\ troubles < MaxTroubles
  /\ work' = [work EXCEPT ![h] = <<[ant |-> a, attempts |-> 0]>>]
  /\ troubles' = troubles + 1
  /\ UNCHANGED <<owner, known, delegated, acl, registered, sent, row, step>>

Ant(h) == Head(work[h]).ant

\* Done with the first item; only the worker has a row to write.
Done(h)        == work' = [work EXCEPT ![h] = Tail(@)] /\ step' = [step EXCEPT ![h] = Start]
MarkDone(h, n) == row' = IF h = "worker" THEN [row EXCEPT ![Ant(h)].note = n] ELSE row

\* Mutant: the count of attempts is not stored.
FailureForgotten(h) == row

\* #recordFailure, with the attempts read when the sweep began.
Failure(h) ==
  LET attempts == Head(work[h]).attempts + 1
  IN [row EXCEPT ![Ant(h)].attempts = attempts,
                 ![Ant(h)].note = IF attempts >= MaxAttempts THEN "gave up" ELSE @]

RecordFailure(h) == row' = IF h = "worker" THEN Failure(h) ELSE row

Read1(h) ==
  /\ work[h] # <<>> /\ step[h].pc = "idle"
  /\ step' = [step EXCEPT ![h] = [pc |-> "read", asset |-> ReadAsset(Ant(h))]]
  /\ UNCHANGED <<owner, known, delegated, acl, registered, sent, row, work, troubles>>

\* The pages are read after the asset; then the plan is made.
PlanOf(h) ==
  PlanAclHeal(step[h].asset, ReadOwnerAcl("cold", Ant(h)), ReadOwnerAcl("claimant", Ant(h)))

\* Not ours to heal: parked, never tried again.
Abort(h) ==
  /\ step[h].pc = "read" /\ step[h].asset.owner # "claimant"
  /\ MarkDone(h, "aborted") /\ Done(h)
  /\ UNCHANGED <<owner, known, delegated, acl, registered, sent, troubles>>

Already(h) ==
  /\ step[h].pc = "read" /\ step[h].asset.owner = "claimant" /\ NothingToDo(PlanOf(h))
  /\ MarkDone(h, "already") /\ Done(h)
  /\ UNCHANGED <<owner, known, delegated, acl, registered, sent, troubles>>

Apply(h) ==
  /\ step[h].pc = "read" /\ step[h].asset.owner = "claimant" /\ ~NothingToDo(PlanOf(h))
  /\ sent' = sent \cup {[ant |-> Ant(h), by |-> h, plan |-> PlanOf(h)]}
  /\ step' = [step EXCEPT ![h] = [pc |-> "sent"]]
  /\ UNCHANGED <<owner, known, delegated, acl, registered, row, work, troubles>>

\* confirmSignature has returned, whatever it said: what counts is a second look.
Verified(h) ==
  /\ step[h].pc = "sent" /\ InSync(Ant(h))
  /\ MarkDone(h, "healed") /\ Done(h)
  /\ UNCHANGED <<owner, known, delegated, acl, registered, sent, troubles>>

Unverified(h) ==
  /\ step[h].pc = "sent" /\ ~InSync(Ant(h))
  /\ RecordFailure(h) /\ Done(h)
  /\ UNCHANGED <<owner, known, delegated, acl, registered, sent, troubles>>

\* A read, the preflight or the broadcast throws.
RpcFails(h) ==
  /\ work[h] # <<>> /\ step[h].pc # "idle" /\ troubles < MaxTroubles
  /\ RecordFailure(h) /\ Done(h)
  /\ troubles' = troubles + 1
  /\ UNCHANGED <<owner, known, delegated, acl, registered, sent>>

CrashHealer(h) ==
  /\ work[h] # <<>> /\ troubles < MaxTroubles
  /\ work' = [work EXCEPT ![h] = <<>>] /\ step' = [step EXCEPT ![h] = Start]
  /\ troubles' = troubles + 1
  /\ UNCHANGED <<owner, known, delegated, acl, registered, sent, row>>

HealStep(h) ==
  Read1(h) \/ Abort(h) \/ Already(h) \/ Apply(h) \/ Verified(h) \/ Unverified(h)

HealNext ==
  \/ \E a \in Ants : ConfirmAnt(a) \/ MoveOn(a)
  \/ Sweep
  \/ \E h \in Healers :
       \/ HealStep(h) \/ RpcFails(h) \/ CrashHealer(h)
       \/ \E a \in Ants : RunCli(h, a)
  \/ \E t \in sent : Land(t) \/ Vanish(t)

HealSafety == HealInit /\ [][HealNext]_healVars

\* The worker's loop sweeps on every tick, and a transaction does not stay
\* undecided: it lands or its blockhash expires.
HealFairness ==
  /\ WF_healVars(Sweep)
  /\ WF_healVars(HealStep("worker"))
  /\ WF_healVars(\E t \in sent : Land(t) \/ Vanish(t))

-----------------------------------------------------------------------------
(***************************************************************************)
(* Properties.                                                             *)
(***************************************************************************)

\* An ANT marked healed stays in agreement with its owner, though an earlier
\* heal transaction, of the sweep or of the CLI, may land after it was marked.
HealedStaysHealed ==
  \A a \in Ants :
    row[a].note \in {"healed", "already"} /\ owner[a] = "claimant" => InSync(a)

\* Every confirmed ANT is settled: healed, found healed, not ours any more, or
\* given up on.  One that keeps failing does not hold up the others.
EveryAntIsSettled ==
  \A a \in Ants : row[a].place > 0 ~> row[a].note # ""
=============================================================================
