---------------------------- MODULE MCParseStore ----------------------------
(* An editor, and one of an older format that shares its store.            *)
EXTENDS ParseStore

CONSTANTS later, older

MCVersionOf == [c \in Caches |-> IF c = later THEN 2 ELSE 1]

=============================================================================
