------------------------ MODULE MCPersistenceManager ------------------------
(* Small instances of PersistenceManager for TLC. *)
EXTENDS PersistenceManager

CONSTANTS t1, t2, r1, sa, da
=============================================================================
