--------------------------- MODULE StatementTree ----------------------------
(***************************************************************************)
(* The body of a function as a sequence of tokens: a head opens a block,   *)
(* "else" and "branch" open the next arm, "end" closes the innermost       *)
(* statement.  A block declares one variable at most.                      *)
(*                                                                         *)
(* What happens while it runs is numbered inside each statement: 0 is the  *)
(* beginning of the statement (the line a debugger stops at), 1, 2, ...    *)
(* are the calls, operators and accesses of its expression in the order of *)
(* the text, 14 and 15 the first and the next element of a loop.           *)
(***************************************************************************)
EXTENDS Integers, Sequences, FiniteSets, SequencesExt

VARIABLE prog       \* the tokens of the function, its own first

(* Values: null, the empty and another value of a builtin carrier, the two *)
(* booleans, and references, each the number of the evaluation that made   *)
(* it (those below 16 were passed by the caller); what typeof gives.       *)
Null == 0
Zero == -1
EmptyArray == -2
Some == -3
True == -4
False == -5
TypeOf(v) == -1000 - v

Site(n, k) == 16 * n + k
FirstElement == 14
NextElement == 15

IsReference(v) == v > 0
Truthy(v) == v > 0 \/ v \in {Some, True}
Empty(carrier) == CASE carrier = "int" -> Zero [] carrier = "array" -> EmptyArray
                    [] OTHER -> Null

(* An event: its place, the values of the parts of the expression so far,  *)
(* the values it was given, and the member when the statement began.       *)
Unstarted == [site |-> 0, part |-> 0, seen |-> <<>>, given |-> <<>>, before |-> Null]
Returned(v) == [Unstarted EXCEPT !.part = 1, !.given = <<v>>]
Failed == [Unstarted EXCEPT !.part = 2]

EventOf(a, n, k, v, given, member) ==
    [site |-> n, part |-> k, given |-> given,
     before |-> IF k = 0 THEN member ELSE a.before,
     seen |-> IF k = 0 THEN <<>>
              ELSE IF a.site = n /\ a.part < k /\ k < FirstElement THEN (k :> v) @@ a.seen
              ELSE k :> v]

-----------------------------------------------------------------------------
(* Expressions.  What each part is given: values of earlier parts, of a    *)
(* variable, of a member, as it was or is, of the subject of a match.      *)

Part(k) == <<"part", k>>
TypeOfPart(k) == <<"type", k>>
Variable == <<"variable", 0>>
MemberBefore == <<"before", 0>>
MemberNow == <<"now", 0>>
Subject == <<"subject", 0>>
TypeOfSubject == <<"subject_type", 0>>

OneOperand == {"unary", "is", "as", "attribute"}
TwoOperands == {"nested", "method", "binary", "array", "dictionary", "subscript"}

(* The parts of an expression or assignment, one after the other.          *)
Parts(expr) ==
    CASE expr = "none" -> <<>>
      [] expr \in {"call", "list", "assign"} -> << <<>> >>
      [] expr \in OneOperand -> << <<>>, <<Part(1)>> >>
      [] expr \in TwoOperands -> << <<>>, <<>>, <<Part(1), Part(2)>> >>
      [] expr \in {"and", "or", "range", "assert"} -> << <<>>, <<>> >>
      [] expr = "ternary" -> << <<>>, <<>>, <<>> >>
      [] expr = "named" -> << <<>>, <<>>, <<Part(2), Part(1)>> >>      \* f(b: 1, a: 2)
      [] expr = "checked" -> << <<>>, <<>>, <<Part(2)>>, <<Part(1), Part(3)>> >>
      [] expr = "early" -> << <<>>, <<MemberBefore, Part(1)>> >>       \* f(member, g())
      [] expr = "late" -> << <<>>, <<Part(1), MemberNow>> >>           \* f(g(), member)
      [] expr \in {"with_variable", "add"} -> << <<>>, <<Variable, Part(1)>> >>
      [] expr = "set_element" -> << <<>>, <<>>, <<>>, <<Part(1), Part(2), Part(3)>> >>
      [] expr = "add_element" -> << <<>>, <<>>, <<>>, <<Part(1), Part(2)>>, <<Part(4), Part(3)>>,
                                    <<Part(1), Part(2), Part(5)>> >>
      [] expr = "set_checked" -> << <<>>, <<>>, <<Part(2)>>, <<>>, <<Part(4)>>,
                                    <<Part(1), Part(3), Part(5)>> >>
      [] expr = "set_attribute" -> << <<>>, <<>>, <<Part(1), Part(2)>> >>
      [] expr = "add_attribute" -> << <<>>, <<>>, <<Part(1)>>, <<Part(3), Part(2)>>,
                                      <<Part(1), Part(4)>> >>
      [] expr \in {"set_property", "set_accessor"} -> << <<>>, <<Part(1)>> >>
      [] expr \in {"add_property", "add_static"} ->
            << <<>>, <<>>, <<Part(2), Part(1)>>, <<Part(3)>> >>
      [] expr = "add_accessor" -> << <<>>, <<>>, <<Part(1), Part(2)>>, <<Part(3)>> >>

Assignments == {"assign", "add", "set_element", "add_element", "set_checked", "set_attribute",
                "add_attribute", "set_property", "add_property", "add_static",
                "set_accessor", "add_accessor"}

(* Patterns.  A test may reject the value, the other parts only read it.   *)
Test(given) == [given |-> given, test |-> TRUE, bound |-> FALSE]
Value(given, bound) == [given |-> given, test |-> FALSE, bound |-> bound]

(* The type, then what depends on it: the value, or the size.              *)
TypedTests(type, value) == <<Test(<<type>>), Test(<<value>>)>>

(* The arms of a match by name: alternatives, trees of what they hold, ... *)
Leaf(kind) == [kind |-> kind, of |-> <<>>]
Tree(kind, of) == [kind |-> kind, of |-> of]

Patterns == [
    wild |-> <<Leaf("wild")>>,
    bind |-> <<Leaf("bind")>>,
    bind_if |-> <<Leaf("bind")>>,
    literal |-> <<Leaf("literal")>>,
    test |-> <<Leaf("test")>>,
    expression |-> <<Leaf("expression")>>,
    either |-> <<Leaf("literal"), Leaf("test")>>,
    elements |-> <<Tree("array", <<Leaf("bind"), Leaf("literal")>>)>>,
    nested |-> <<Tree("array", <<Tree("array", <<Leaf("bind")>>)>>)>>,
    entry |-> <<Tree("dictionary", <<Leaf("bind")>>)>>]

(* ... the parts of each, numbered through, and whether a guard follows.   *)
Alternatives(name) ==
    LET subject == TypedTests(TypeOfSubject, Subject) IN
    CASE name \in {"wild", "bind", "bind_if"} -> << <<>> >>
      [] name = "literal" -> <<subject>>
      [] name = "test" -> << <<Test(<<Subject>>)>> >>
      [] name = "expression" -> << <<Value(<<>>, FALSE), Test(<<TypeOfSubject, TypeOfPart(1)>>),
                                     Test(<<Subject, Part(1)>>)>> >>
      [] name = "either" -> <<subject, <<Test(<<Subject>>)>> >>
      [] name = "elements" -> <<subject \o <<Value(<<Subject>>, TRUE), Value(<<Subject>>, FALSE)>>
                                        \o TypedTests(TypeOfPart(4), Part(4))>>
      [] name = "nested" -> <<subject \o <<Value(<<Subject>>, FALSE)>>
                                      \o TypedTests(TypeOfPart(3), Part(3))
                                      \o <<Value(<<Part(3)>>, TRUE)>> >>
      [] name = "entry" -> <<subject \o <<Test(<<Subject>>), Value(<<Subject>>, TRUE)>> >>

Guarded(name) == name = "bind_if"

(* A bind names the part that read it, or else the subject.                *)
BoundParts(name) ==
    LET parts == FlattenSeq(Alternatives(name)) IN {k \in DOMAIN parts : parts[k].bound}
Binds(name) == name \in {"bind", "bind_if"} \/ BoundParts(name) # {}

-----------------------------------------------------------------------------
(* The shape of the text *)

Heads == {"func", "if", "while", "for", "match"}
Loops == {"while", "for"}
Arms  == {"else", "branch"}

(* Nest[m]: the blocks open in front of token m, outermost first. *)
Nest ==
    LET open[m \in 1 .. Len(prog) + 1] ==
            IF m = 1 THEN <<>>
            ELSE LET s == open[m - 1]
                     t == prog[m - 1]
                 IN CASE t.op \in Heads -> Append(s, m - 1)
                      [] t.op \in Arms ->
                            Append(IF prog[Last(s)].op = "match" THEN s ELSE Front(s), m - 1)
                      [] t.op = "end" ->
                            IF prog[Last(s)].op = "branch" THEN Front(Front(s)) ELSE Front(s)
                      [] OTHER -> s
    IN open

(* Blocks of the statement that token n opens or continues. *)
Outside(n) ==
    LET s == Nest[n] IN
    CASE prog[n].op = "else" -> Front(s)
      [] prog[n].op = "branch" ->
            IF prog[Last(s)].op = "branch" THEN Front(Front(s)) ELSE Front(s)
      [] OTHER -> s

(* The first token after the statement that token n belongs to. *)
Beyond(n) ==
    1 + (CHOOSE m \in (n + 1) .. Len(prog) :
            /\ prog[m].op = "end" /\ Nest[m + 1] = Outside(n)
            /\ \A k \in (n + 1) .. (m - 1) : ~(prog[k].op = "end" /\ Nest[k + 1] = Outside(n)))

NextArms(n) ==
    {m \in (n + 1) .. Len(prog) : prog[m].op \in Arms /\ Last(Nest[m]) = n}

InnerLoop(n) ==
    LET s == Nest[n] IN s[CHOOSE i \in DOMAIN s :
        prog[s[i]].op \in Loops /\ \A j \in DOMAIN s : j > i => prog[s[j]].op \notin Loops]

-----------------------------------------------------------------------------
(* Variables *)

Scope(n) == ToSet(IF prog[n].op = "branch" /\ prog[Last(Nest[n])].op = "branch"
                  THEN Front(Nest[n]) ELSE Nest[n])

Declaration(b) ==
    CHOOSE m \in DOMAIN prog : prog[m].op = "var" /\ Last(Nest[m]) = b

(* The variables a statement sees: those declared in front of it in the    *)
(* blocks around it, loop variables, binds, parameters, and the subject of *)
(* a match, which its arms see though the text cannot name it.             *)
Variables(n) ==
    {<<b, "local">> : b \in {x \in Scope(n) : prog[x].local # "none" /\ Declaration(x) < n}}
    \cup {<<b, "element">> : b \in {x \in Scope(n) : prog[x].op = "for"}}
    \cup {<<b, "subject">> : b \in {x \in Scope(n) : prog[x].op = "match"}}
    \cup {<<b, "bind">> : b \in {x \in Scope(n) : prog[x].op = "branch"
                                                    /\ Binds(prog[x].expr)}}
    \cup {<<0, k>> : k \in 1 .. prog[1].opt}

(* The variable an expression names: that of the innermost block.          *)
Declared(n) ==
    {b \in Scope(n) : prog[b].local = "any"
        /\ \E m \in 1 .. (n - 1) : prog[m].op = "var" /\ Last(Nest[m]) = b}
Target(n) == <<CHOOSE b \in Declared(n) : \A c \in Declared(n) : c <= b, "local">>

=============================================================================
