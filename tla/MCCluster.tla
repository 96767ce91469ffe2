------------------------------ MODULE MCCluster ------------------------------
(***************************************************************************)
(* Instances of ClusterRR: two workers, one or two connections.            *)
(***************************************************************************)
EXTENDS ClusterRR

CONSTANTS w1, w2

\* Every worker listens once; or w1 also closes its server and listens again.
Once == [w \in Worker |-> 1]
Again == [w \in Worker |-> IF w = w1 THEN 2 ELSE 1]

MCPrograms == {[conns |-> Conn, listens |-> Once],
               [conns |-> {CHOOSE c \in Conn : TRUE}, listens |-> Again]}
ListenOnce == {[conns |-> Conn, listens |-> Once]}
=============================================================================
