-------------------------- MODULE MC_ConnectionPool --------------------------
(* Model-checking instance of ConnectionPool: three connection objects,    *)
(* two consumer threads.                                                   *)
EXTENDS ConnectionPool

CONSTANTS n1, n2, n3, c1, c2

MC_Conns == {n1, n2, n3}
MC_Consumers == {c1, c2}
MC_OneConsumer == {c1}
=============================================================================
