----------------------------- MODULE MCLowering -----------------------------
(* Small alphabets, each about one part of the lowering. *)
EXTENDS Lowering

Token(op, expr, local) == [op |-> op, expr |-> expr, local |-> local]
Function(opt, local) == [op |-> "func", opt |-> opt, expr |-> "none", local |-> local]
Call1 == Token("expr", "call", "none")

(* Conditions and loops inside one another. *)
Control == {Function(0, "none"), Token("if", "call", "none"), Token("else", "none", "none"),
            Token("while", "call", "none"), Token("break", "none", "none"),
            Token("continue", "none", "none"), Call1}

Iterations == {Function(0, "none"), Token("for", "list", "none"), Token("for", "range", "none"),
               Token("if", "call", "none"), Token("break", "none", "none"),
               Token("continue", "none", "none"), Token("return", "none", "none"), Call1}

(* Forms of expressions whose parts are skipped or joined, where the value *)
(* is used and where not, and default values.                              *)
Expressions == {Function(0, "any"), Function(2, "none")}
    \cup {Token(op, e, "none") : op \in {"if", "var", "expr"},
                                 e \in {"and", "or", "ternary", "nested"}}

(* Every other form, and what a statement leaves to the next.              *)
Operands == {Function(0, "none"), Token("return", "binary", "none"), Token("if", "named", "none")}
    \cup {Token("expr", e, "none") : e \in OneOperand \cup TwoOperands \cup {"named", "checked", "late"}}

Stores == {Function(0, "none"), Token("while", "checked", "none")}
    \cup {Token("expr", e, "none") : e \in Assignments \ {"assign", "add"}}

Named == {Function(0, "any"), Token("var", "none", "none"), Token("var", "subscript", "none"),
          Token("if", "with_variable", "any")}
    \cup {Token("expr", e, "none") : e \in {"assign", "add", "with_variable"}}

Exits == {Function(1, "none"), Token("if", "call", "none"), Token("while", "and", "none"),
          Token("assert", "assert", "none"), Token("return", "ternary", "none"),
          Token("return", "or", "none"), Token("return", "none", "none")}

(* Variables of blocks that follow one another, or go round. *)
Blocks == {Function(0, "none"), Function(0, "any"), Token("if", "call", "any"),
           Token("else", "none", "int"), Token("while", "call", "any"), Token("var", "call", "none"),
           Token("var", "none", "none"), Token("continue", "none", "none"), Call1}

Matches == {Function(0, "none"), Token("match", "call", "none"), Token("branch", "bind_if", "none"),
            Token("branch", "bind", "any"), Token("branch", "wild", "none"), Token("branch", "literal", "any"),
            Token("branch", "literal", "int"), Token("var", "call", "none"),
            Token("var", "none", "none"), Call1}

LoopedMatches == {Function(0, "none"), Token("for", "list", "none"), Token("match", "call", "none"),
            Token("branch", "bind_if", "none"), Token("branch", "literal", "any"),
            Token("var", "call", "none"), Token("break", "none", "none"),
            Token("continue", "none", "none"), Call1}

(* Every form of a pattern. *)
PatternForms == {Function(0, "none"), Token("match", "call", "none"), Call1}
    \cup {Token("branch", name, "none") : name \in DOMAIN Patterns}

Alphabet(tokens, statements) == [tokens |-> tokens, statements |-> statements]

MCAlphabets ==
    {Alphabet(Control, 5), Alphabet(Iterations, 4), Alphabet(Expressions, 3),
     Alphabet(Operands, 2), Alphabet(Stores, 2), Alphabet(Named, 4), Alphabet(Exits, 3),
     Alphabet(Blocks, 5), Alphabet(Matches, 6), Alphabet(LoopedMatches, 5),
     Alphabet(PatternForms, 5)}

(* An arm that declares an Array, and one that declares a variable without *)
(* a value.                                                                *)
TypedArms == {Function(0, "none"), Token("match", "call", "none"),
              Token("branch", "wild", "array"), Token("branch", "literal", "array"),
              Token("branch", "wild", "any"), Token("var", "none", "none"), Call1}

StaleAlphabets == {Alphabet(TypedArms, 6)}

(* A member of the object and a call that may write it, as operands.       *)
EarlyAlphabets == {Alphabet({Function(0, "none"), Token("expr", "early", "none")}, 1)}

=============================================================================
