--------------------------- MODULE RefreshTokens ---------------------------
(***************************************************************************)
(* What a declaration refresh is promised: every path has one revision, a  *)
(* revision that is replaced never comes back, and a conditional write     *)
(* lands only while the revision it was started under is still the one in  *)
(* force.  There is no counter, no floor and no table of generations here: *)
(* DeclarationIndex implements the revision of a path with the three.      *)
(***************************************************************************)
EXTENDS Integers

CONSTANTS
    Threads,    \* the refreshing threads
    Paths       \* the script paths

VARIABLES
    revision,   \* revision[p]: the revision in force for p
    held,       \* held[t][p]: the revision t works under for p
    writer      \* writer[p]: the revision of the last write to p's record

vars == <<revision, held, writer>>

Init ==
    /\ revision = [p \in Paths |-> 0]
    /\ held = [t \in Threads |-> [p \in Paths |-> 0]]
    /\ writer = [p \in Paths |-> 0]

(* Revisions of any set of paths are replaced by newer ones. *)
Supersede ==
    /\ revision' \in [Paths -> Nat]
    /\ \A p \in Paths : revision'[p] >= revision[p]

(* A thread learns the revision in force of the paths it refreshes, after  *)
(* the step has replaced them when it claims them.                         *)
Adopt(t) ==
    /\ Supersede
    /\ held' \in [Threads -> [Paths -> Nat]]
    /\ \A u \in Threads \ {t} : held'[u] = held[u]
    /\ \A p \in Paths : held'[t][p] \in {held[t][p], revision'[p]}
    /\ UNCHANGED writer

(* A conditional write by t: refused unless t's revision is in force. *)
Write(t, p) ==
    /\ held[t][p] = revision[p]
    /\ writer' = [writer EXCEPT ![p] = revision[p]]
    /\ UNCHANGED <<revision, held>>

(* An unconditional write, which only ever comes with a newer revision. *)
Overrule ==
    /\ Supersede
    /\ writer' \in [Paths -> Nat]
    /\ \A p \in Paths :
          \/ writer'[p] = writer[p]
          \/ writer'[p] = revision'[p] /\ revision'[p] > revision[p]
    /\ UNCHANGED held

Next ==
    \/ \E t \in Threads : Adopt(t)
    \/ \E t \in Threads, p \in Paths : Write(t, p)
    \/ Overrule

Spec == Init /\ [][Next]_vars

=============================================================================
