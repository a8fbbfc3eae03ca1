------------------------------ MODULE MCLedger ------------------------------
(***************************************************************************)
(* Instances of PublishedLedger for TLC.                                   *)
(***************************************************************************)
EXTENDS PublishedLedger

Arweave(n)       == [chain |-> "arweave", name |-> n, upper |-> FALSE]
Ethereum(n, up)  == [chain |-> "eth", name |-> n, upper |-> up]

Item(file, owner, id, amount, end, exit) ==
  [file |-> file, owner |-> owner, id |-> id, amount |-> amount, end |-> end, exit |-> exit]

Balance(owner, amount)         == Item("balances", owner, 0, amount, 0, FALSE)
Vault(owner, id, amount, end)  == Item("vaults", owner, id, amount, end, FALSE)
Ant(owner, id)                 == Item("ants", owner, id, 0, 0, FALSE)

MappedOwners  == {Arweave("mapped"), Ethereum("mapped", FALSE)}
ModulusOwners == {Arweave("holder")}
AtRiskOwners  == {Arweave(n) : n \in {"r1", "r2", "r3", "r4"}}
Process       == Arweave("process")

Holder == Arweave("holder")

\* One vault or exit at a time, over the lock and size limits and their edges.
Singles ==
  {{Vault(Holder, 1, amount, end)} : amount \in {1, 3}, end \in {3, 4, 5, 7, 9, 14}}
  \cup {{Item("withdrawal", Holder, 1, 3, end, exit)} : end \in {0, 1, 3}, exit \in BOOLEAN}
  \cup {{Item("stake", Holder, 1, 3, end, FALSE)} : end \in {1, 2, 3}}
  \cup {{Item(file, Holder, 1, 1, 0, FALSE)} : file \in {"stakeLiquid", "withdrawalLiquid"}}

\* Several files at once: a vault about to end and a token of another chain, spelled in
\* upper case; mapped owners in either spelling and the process' own balance.
Mixed ==
  {{Vault(Holder, 1, 3, 2), Balance(Ethereum("e", TRUE), 1),
    Vault(Ethereum("mapped", TRUE), 1, 3, 5), Balance(Process, 4),
    Ant(Arweave("mapped"), 2), Balance(Holder, 0)}}

\* Five leaves, of which only a token can be claimed.
Wide == {{Balance(Arweave(n), 1) : n \in {"r1", "r2", "r3"}}
         \cup {Ant(Arweave("r4"), 1), Balance(Ethereum("e", FALSE), 2)}}

\* Inputs the planner refuses: one address spelled twice, an owner nobody knows,
\* one seed twice.
Refused ==
  {{Balance(Ethereum("e", TRUE), 1), Balance(Ethereum("e", FALSE), 2)},
   {Balance(Arweave("nobody"), 1)},
   {Item("stake", Ethereum("e", TRUE), 1, 3, 3, FALSE),
    Item("stake", Ethereum("e", FALSE), 1, 3, 3, FALSE)}}

AllSnapshots == Singles \cup Mixed \cup Wide \cup Refused
=============================================================================
