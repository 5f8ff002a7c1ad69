----------------------------- MODULE MCScripts ------------------------------
(***************************************************************************)
(* What is kept of a script: the payload of its parse in a cache, and the  *)
(* compiled resource with its instances.  Both are side by side here and   *)
(* not composed: "part" says which of them moves, and the other stays as   *)
(* it began.                                                               *)
(***************************************************************************)
EXTENDS MCParseStore, MCScriptResource

VARIABLE part

MCInit ==
    /\ part \in {"payloads", "resource"}
    /\ PSInit
    /\ ScriptInit /\ (part # "resource" => source = plain)

PayloadsMove ==
    /\ part = "payloads"
    /\ UNCHANGED <<part, scriptVars>>
    /\ PSNext

ResourceMoves ==
    /\ part = "resource"
    /\ UNCHANGED <<part, psvars>>
    /\ ScriptNext

ScriptsNext == PayloadsMove \/ ResourceMoves

ScriptsSpec == MCInit /\ [][ScriptsNext]_<<part, psvars, scriptVars>>

=============================================================================
