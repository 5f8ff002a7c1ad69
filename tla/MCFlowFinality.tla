--------------------------- MODULE MCFlowFinality ---------------------------
(* Small alphabets, each about one part of the analysis. *)
EXTENDS FlowFinality

Token(op, on, of, cond) == [op |-> op, on |-> on, of |-> of, cond |-> cond]
Function(name, cond) == Token("func", None, name, cond)
Plainly(ops) == {Token(op, None, None, None) : op \in ops}
If1 == Token("if", None, None, "any")
While1 == Token("while", None, None, "any")

(* How functions end. *)
Exits == {Function("method", "value"), Function("method", "never"), If1, While1,
          Token("while", None, None, "true"), Token("match", None, None, None),
          Token("branch", None, None, "wild"), Token("branch", None, None, "literal")}
    \cup Plainly({"else", "for", "break", "return", "noreturn"})

(* Members through initializers, branches and ends of _init. *)
MembersOfInit == {Token("member", "m", None, None), Function("_init", "void"), If1,
          Token("assign", "m", None, None), Token("use", None, "m", None)}
    \cup Plainly({"else", "return", "noreturn"})

InInitializers == {Token("member", "m", None, None), Token("member", "m", None, "value"),
          Token("member", "k", "m", "value"), Function("_init", "void"),
          Function("method", "void"), Token("assign", "m", None, None),
          Token("use", None, "k", None)}

InLoops == {Token("member", "m", None, None), Function("_init", "void"), If1, While1,
          Token("assign", "m", None, None)} \cup Plainly({"break", "continue"})

InMatches == {Token("member", "m", None, None), Function("_init", "void"),
          Token("match", None, None, None), Token("branch", None, None, "wild"),
          Token("branch", None, "m", "literal"), Token("branch", None, None, "guarded"),
          Token("assign", "m", None, None), Token("use", None, "m", None)}
    \cup Plainly({"return"})

OfLocals == {Function("method", "void"), If1, While1, Token("var", "l", None, None),
          Token("var", "l", None, "value"), Token("assign", "l", None, None),
          Token("use", None, "l", None)} \cup Plainly({"else"})

(* Tests of the parameter. *)
Tests == {Function("method", "void"), Token("use", "s", None, None)}
    \cup {Token("if", "s", None, c) : c \in {"not_null", "is_null", "is", "is_not", "not_null_and"}}
    \cup Plainly({"else"})

Narrowings == {Function("method", "void"), Token("if", "s", None, "not_null"),
          Token("while", "s", None, "not_null"), Token("assert", "s", None, "not_null"),
          Token("assign", "s", None, None), Token("use", "s", None, None)}
    \cup Plainly({"else"})

ArmsOfSubject == {Function("method", "void"), Token("match", "s", None, None),
          Token("assign", "s", None, None), Token("use", "s", None, None)}
    \cup {Token("branch", None, None, c) :
              c \in {"null", "is", "literal", "expression", "guarded", "wild"}}

Alphabet(tokens, statements) == [tokens |-> tokens, statements |-> statements]

MCAlphabets ==
    {Alphabet(Exits, 4), Alphabet(MembersOfInit, 5), Alphabet(InInitializers, 3),
     Alphabet(InLoops, 5), Alphabet(InMatches, 6), Alphabet(OfLocals, 5),
     Alphabet(Tests, 4), Alphabet(Narrowings, 5), Alphabet(ArmsOfSubject, 5)}

(* An assignment in a block inside the one where s was narrowed, ...       *)
InnerAssignments == {Function("method", "void"), Token("if", "s", None, "not_null"), If1,
          Token("assign", "s", None, None), Token("use", "s", None, None)}

(* ... and arms with a guard behind one for null.                          *)
GuardedArms == {Function("method", "void"), Token("match", "s", None, None),
          Token("branch", None, None, "null"), Token("branch", None, None, "guarded"),
          Token("use", "s", None, None)}

OfInnerAssignments == {Alphabet(InnerAssignments, 4)}
OfGuardedArms == {Alphabet(GuardedArms, 4)}

=============================================================================
