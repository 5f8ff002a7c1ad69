------------------------- MODULE MCDeclarationIndex -------------------------
(* A small project for TLC: two files, one name and one namespace besides  *)
(* the global one.                                                         *)
EXTENDS DeclarationIndex

CONSTANTS n1, geo

Record(n, ns, c) == [name |-> n, namespace |-> ns, conforms |-> c]

(* A class of geo with conformances, and a global conformance file.        *)
MCRecords == {Record(n1, geo, TRUE), Record(NoName, Global, TRUE)}

MCNames == {n1}
MCNamespaces == {Global, geo}

=============================================================================
