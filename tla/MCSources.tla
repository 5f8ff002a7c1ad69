----------------------------- MODULE MCSources ------------------------------
(***************************************************************************)
(* What becomes of a script's text: the refresh of its file, and the code  *)
(* it is lowered to.  Both are side by side here and not composed: "part"  *)
(* says which of them moves, and the other stays as it began.              *)
(***************************************************************************)
EXTENDS MCSemanticRefresh, MCLowering

VARIABLE part

MCInit ==
    /\ part \in {"refresh", "lowering"}
    /\ RefreshInit /\ MCOnDisk
    /\ Init /\ (part # "lowering" => alphabet = CHOOSE x \in Alphabets : TRUE)

RefreshMoves ==
    /\ part = "refresh"
    /\ UNCHANGED <<part, vars>>
    /\ RefreshNext /\ MCFirst /\ MCLocal

LoweringMoves ==
    /\ part = "lowering"
    /\ UNCHANGED <<part, refreshVars>>
    /\ Next

SourcesNext == RefreshMoves \/ LoweringMoves

SourcesSpec == MCInit /\ [][SourcesNext]_<<part, refreshVars, vars>>

=============================================================================
