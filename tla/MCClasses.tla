----------------------------- MODULE MCClasses ------------------------------
(***************************************************************************)
(* What the analyzer admits of the classes of a project: the conformances  *)
(* they declare, across files, and the flow through their functions.  Both *)
(* are side by side here and not composed: "part" says which of them       *)
(* moves, and the other stays as it began.                                 *)
(***************************************************************************)
EXTENDS MCConformanceRegistry, MCFlowFinality

VARIABLE part

MCInit ==
    /\ part \in {"conformances", "flow"}
    /\ CRInit
    /\ Init /\ (part # "flow" => alphabet = CHOOSE x \in Alphabets : TRUE)

ConformancesMove ==
    /\ part = "conformances"
    /\ UNCHANGED <<part, vars>>
    /\ CRNext

FlowMoves ==
    /\ part = "flow"
    /\ UNCHANGED <<part, crvars>>
    /\ Next

ClassesNext == ConformancesMove \/ FlowMoves

ClassesSpec == MCInit /\ [][ClassesNext]_<<part, crvars, vars>>

=============================================================================
