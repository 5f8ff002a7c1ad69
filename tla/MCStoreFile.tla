---------------------------- MODULE MCStoreFile -----------------------------
(* An editor with two threads that flush, and a second editor beside it;   *)
(* all of them may have the same bytes to write.                           *)
EXTENDS StoreFile

CONSTANTS w1, w2, w3, editor, other

MCProcessOf == [w \in Writers |-> IF w = w3 THEN other ELSE editor]

=============================================================================
