------------------------------ MODULE MCWorker ------------------------------
(***************************************************************************)
(* Instances of Worker for TLC.                                            *)
(***************************************************************************)
EXTENDS Worker, TLC

CONSTANTS c1, c2, d1, d2, a1

\* A small token claim and a vault over the brake, sharing a float that holds
\* either of them and not both.
TokenAndVault  == (c1 :> "token") @@ (c2 :> "vault")
TwoAmounts     == (c1 :> 1) @@ (c2 :> 2)

OneToken       == (c1 :> "token")
TwoTokens      == (c1 :> "token") @@ (c2 :> "token")
OneAnt         == (c1 :> "ant")
Ones           == [c \in Claims |-> 1]
Twos           == [c \in Claims |-> 2]
Zeros          == [c \in Claims |-> 0]

OneDaemon      == (d1 :> "daemon")
TwoDaemons     == (d1 :> "daemon") @@ (d2 :> "daemon")
DaemonAndBatch == (d1 :> "daemon") @@ (a1 :> "ants")
=============================================================================
