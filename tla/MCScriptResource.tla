-------------------------- MODULE MCScriptResource --------------------------
(* ScriptResource over three texts: a plain one, one whose inner class     *)
(* extends the outer and whose classes have static initializers, and one   *)
(* that does not compile.                                                  *)
EXTENDS ScriptResource

CONSTANTS plain, derived, broken, i1, i2, none

MCTexts == {plain, derived, broken}
MCCompilable == {plain, derived}
MCInherits == {derived}
MCStaticInit == {derived}
MCInstances == {i1, i2}

=============================================================================
