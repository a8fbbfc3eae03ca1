------------------------------ MODULE AdminApi ------------------------------
(***************************************************************************)
(* Access to the operator's ANT routes (api/ant-admin.ts, the admin routes *)
(* of api/routes.ts, cli/ant-admin-serve.ts): the per-address limiter, the *)
(* store of challenge nonces and read tokens, and the check of a signature *)
(* the operator's wallet made over a nonce and an action.  What a write    *)
(* then does is AntOperator's.                                             *)
(*                                                                         *)
(* Requests may be repeated, reordered and sent to another route than the  *)
(* one they were signed for.  A signature is the pair of action and nonce  *)
(* it covers.                                                              *)
(***************************************************************************)
EXTENDS RateLimiter

CONSTANTS
  Addresses,    \* who calls
  Writes,       \* the actions reserve, build, submit, cancel
  NonceTtl, ReadTtl,
  MaxNonces,    \* maxKeys of the challenge store
  MaxIssued,    \* challenges issued
  MaxSigned     \* messages the wallet signs

ASSUME AdminAssumption == MaxNonces \in Nat \ {0} /\ NonceTtl \in Nat /\ ReadTtl \in Nat

VARIABLES
  time,        \* the clock of the admin process
  mode,        \* how it was booted: "absent", "cli-cold" or "operator-wallet"
  ipBuckets,   \* its limiter
  live,        \* challenge nonces: a set of [id, exp], numbered in the order of the Map
  tokens,      \* read tokens, likewise
  issued,      \* how many nonces were made
  wallet,      \* what the operator's wallet has signed
  checking,    \* requests whose signature is being verified
  writes,      \* what was carried out: a set of [action, nonce, at, n]
  reading      \* the read just served, or None

CONSTANT None

adminVars == <<time, mode, ipBuckets, live, tokens, issued, wallet, checking, writes, reading>>

Actions == Writes \cup {"session"}

AdminInit ==
  /\ time = 0 /\ mode \in {"absent", "cli-cold", "operator-wallet"}
  /\ ipBuckets = <<>> /\ live = {} /\ tokens = {}
  /\ issued = 0 /\ wallet = {} /\ checking = {} /\ writes = {}
  /\ reading = None

-----------------------------------------------------------------------------
(***************************************************************************)
(* AntChallengeStore.                                                      *)
(***************************************************************************)

Unexpired(store)  == {e \in store : e.exp > time}
Ids(store)        == {e.id : e \in store}
EntryOf(store, x) == CHOOSE e \in store : e.id = x

\* The newest entries, half of the cap.
Newest(store) == {e \in store : 2 * Cardinality({f \in store : f.id >= e.id}) <= MaxNonces}

\* #gc: expired entries go once the map is more than half full; at the cap the
\* oldest of the others go too, if none had expired.
GcStore(store) ==
  IF 2 * Cardinality(store) <= MaxNonces /\ Cardinality(store) < MaxNonces THEN store
  ELSE IF Cardinality(Unexpired(store)) < MaxNonces THEN Unexpired(store)
  ELSE Newest(Unexpired(store))

\* issue() and issueReadToken() sweep both maps.
IssueNonce(id) ==
  /\ live' = GcStore(live) \cup {[id |-> id, exp |-> time + NonceTtl]}
  /\ tokens' = GcStore(tokens)
IssueToken(id) ==
  /\ live' = GcStore(live)
  /\ tokens' = GcStore(tokens) \cup {[id |-> id, exp |-> time + ReadTtl]}

\* Mutant: the nonce stays in the store until its signature is verified.
ConsumedLate(id) == live

\* A nonce is gone whatever comes of the request.
Consumed(id) == {e \in live : e.id # id}

Usable(id) == id \in Ids(live) /\ EntryOf(live, id).exp > time

-----------------------------------------------------------------------------
(***************************************************************************)
(* Routes.  Every request is counted by the limiter first.                 *)
(***************************************************************************)

\* requireAdmin, and requireOperatorMode of the writes.
Served(action) ==
  /\ mode # "absent"
  /\ action \in Writes => mode = "operator-wallet"

Admitted(ip) == Check(ipBuckets, ip, time).allowed
Count(ip)    == ipBuckets' = Check(ipBuckets, ip, time).buckets

\* 429, 503 or 409: nothing but the limiter notes it.
Refuse(ip, action) ==
  /\ ~Admitted(ip) \/ ~Served(action)
  /\ ip \in KeysOf(ipBuckets) => BucketOf(ipBuckets, ip).count <= Limit + 1  \* state bound
  /\ Count(ip) /\ reading' = None
  /\ UNCHANGED <<time, mode, live, tokens, issued, wallet, checking, writes>>

GetChallenge(ip) ==
  /\ Admitted(ip) /\ Served("session") /\ issued < MaxIssued
  /\ Count(ip) /\ reading' = None
  /\ issued' = issued + 1
  /\ IssueNonce(issued + 1)
  /\ UNCHANGED <<time, mode, wallet, checking, writes>>

\* External: the operator's wallet signs for one action.
WalletSigns(action, id) ==
  /\ Cardinality(wallet) < MaxSigned
  /\ wallet' = wallet \cup {<<action, id>>}
  /\ reading' = None
  /\ UNCHANGED <<time, mode, ipBuckets, live, tokens, issued, checking, writes>>

\* A POST with a nonce and a signature: the nonce is consumed, then the
\* signature is verified, which takes a while.  401 if it was not usable.
PostAdmin(ip, action, id, signature) ==
  /\ Admitted(ip) /\ Served(action)
  /\ Count(ip) /\ reading' = None
  /\ live' = Consumed(id)
  /\ checking' = IF Usable(id)
                 THEN checking \cup {[action |-> action, nonce |-> id, sig |-> signature]}
                 ELSE checking
  /\ UNCHANGED <<time, mode, tokens, issued, wallet, writes>>

Verifies(r) == r.sig = <<r.action, r.nonce>>

RejectSignature(r) ==
  /\ ~Verifies(r)
  /\ checking' = checking \ {r} /\ reading' = None
  /\ UNCHANGED <<time, mode, ipBuckets, live, tokens, issued, wallet, writes>>

\* Verified: the handler runs, or a read token is made, numbered like the request.
Authorize(r) ==
  LET n == Cardinality(writes) + 1
  IN /\ Verifies(r)
     /\ checking' = checking \ {r} /\ reading' = None
     /\ writes' = writes \cup {[action |-> r.action, nonce |-> r.nonce, at |-> time, n |-> n]}
     /\ IF r.action = "session" THEN IssueToken(n) ELSE UNCHANGED <<live, tokens>>
     /\ UNCHANGED <<time, mode, ipBuckets, issued, wallet>>

TokenGood(id) == id \in Ids(tokens) /\ EntryOf(tokens, id).exp > time

\* GET pending or batch status: an expired token is dropped, 401.
GetStatus(ip, id) ==
  /\ Admitted(ip) /\ Served("session")
  /\ Count(ip)
  /\ tokens' = IF TokenGood(id) THEN tokens ELSE {e \in tokens : e.id # id}
  /\ reading' = IF TokenGood(id) THEN id ELSE None
  /\ UNCHANGED <<time, mode, live, issued, wallet, checking, writes>>

Later ==
  /\ time < MaxTime /\ time' = time + 1 /\ reading' = None
  /\ UNCHANGED <<mode, ipBuckets, live, tokens, issued, wallet, checking, writes>>

\* All of it is in memory.
RestartAdmin ==
  /\ ipBuckets' = <<>> /\ live' = {} /\ tokens' = {} /\ checking' = {}
  /\ reading' = None
  /\ UNCHANGED <<time, mode, issued, wallet, writes>>

AdminNext ==
  \/ \E ip \in Addresses :
       \/ GetChallenge(ip)
       \/ \E action \in Actions : Refuse(ip, action)
       \/ \E id \in 0 .. Cardinality(writes) : GetStatus(ip, id)   \* 0: no token
       \/ \E id \in 1 .. issued, action \in Actions, signature \in wallet :
            PostAdmin(ip, action, id, signature)
  \/ \E action \in Actions, id \in 1 .. issued : WalletSigns(action, id)
  \/ \E r \in checking : Authorize(r) \/ RejectSignature(r)
  \/ Later \/ RestartAdmin

AdminSpec == AdminInit /\ [][AdminNext]_adminVars

-----------------------------------------------------------------------------
(***************************************************************************)
(* Properties.                                                             *)
(***************************************************************************)

\* Each write was signed by the operator's wallet for that very route, and each
\* signature counts once, though requests are repeated while the first one is
\* being verified; a read is served only to a session signed for shortly before.
AccessComesFromTheWallet ==
  /\ \A w \in writes : <<w.action, w.nonce>> \in wallet
  /\ \A w, v \in writes : w.nonce = v.nonce => w = v
  /\ reading # None =>
       \E w \in writes : w.action = "session" /\ w.n = reading /\ time < w.at + ReadTtl
=============================================================================
