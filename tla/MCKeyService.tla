----------------------------- MODULE MCKeyService ------------------------------
(***************************************************************************)
(* A small instance of KeyService for TLC: two fixtures, a key of a client *)
(* and one the server draws; clients import every well-formed pair and one *)
(* whose private key belongs to a fixture.                                 *)
(***************************************************************************)
EXTENDS KeyService

CONSTANTS f1, f2, k1, k2

MCKeyId == {f1, f2, k1, k2}
MCFixtures == <<f1, f2>>
MCPairs ==
  {[privateKey |-> k, publicKey |-> k] : k \in {f1, f2, k1}}
    \cup {[privateKey |-> f1, publicKey |-> k1]}

===============================================================================
