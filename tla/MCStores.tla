------------------------------ MODULE MCStores ------------------------------
(***************************************************************************)
(* What outlives a session: the declaration index, and the file a store is *)
(* in.  Both are side by side here and not composed: "part" says which of  *)
(* them moves, and the other stays as it began.                            *)
(***************************************************************************)
EXTENDS MCDeclarationIndex, MCStoreFile

VARIABLE part

MCInit ==
    /\ part \in {"index", "file"}
    /\ Init
    /\ SFInit

IndexMoves ==
    /\ part = "index"
    /\ UNCHANGED <<part, sfvars>>
    /\ Next

FileMoves ==
    /\ part = "file"
    /\ UNCHANGED <<part, vars>>
    /\ SFNext

StoresNext == IndexMoves \/ FileMoves

StoresSpec == MCInit /\ [][StoresNext]_<<part, vars, sfvars>>

=============================================================================
