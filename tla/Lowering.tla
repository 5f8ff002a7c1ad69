------------------------------ MODULE Lowering ------------------------------
(***************************************************************************)
(* From statements to a running frame: BSCompiler lowers one function,     *)
(* statement by statement as the text gives them, through the emitter, and *)
(* BSFunction::call then runs the words.  Statements says what the text    *)
(* means; at and env are what a debugger would see of the run, and are     *)
(* written by the LINE and CALL instructions alone.                        *)
(***************************************************************************)
EXTENDS StatementTree, ByteCodeGenerator

CONSTANTS
    Alphabets           \* [tokens, statements]: what a text is written with, and
                        \* the bound of the model on its statements and arms

(* What a token may be.  Statements have an expression, blocks a variable. *)
CallForms == {"nested", "method", "named", "checked", "early", "late", "with_variable"}
ValueForms == {"call", "and", "or", "ternary"} \cup OneOperand \cup TwoOperands \cup CallForms
Carriers == {"none", "any", "int", "array"}

Tokens ==
    [op : {"func"}, opt : Nat, expr : {"none"}, local : Carriers]
    \cup [op : {"if", "while", "match"}, expr : ValueForms, local : Carriers]
    \cup [op : {"for"}, expr : {"list", "range"}, local : Carriers]
    \cup [op : {"branch"}, expr : DOMAIN Patterns, local : Carriers]
    \cup [op : {"else", "break", "continue"}, expr : {"none"}, local : Carriers]
    \cup [op : {"expr"}, expr : ValueForms \cup Assignments, local : Carriers]
    \cup [op : {"var", "return"}, expr : ValueForms \cup {"none"}, local : Carriers]
    \cup [op : {"assert"}, expr : {"assert"}, local : Carriers]

ASSUME AlphabetsAssumption == \A a \in Alphabets : a.tokens \subseteq Tokens

VARIABLES
    alphabet,
    g,                  \* the emitter
    slots,              \* variable -> [slot, carrier]
    blocks,             \* blocks being lowered, outermost first
    conditionally_cleared_locals,
    function,           \* what write_end returned
    ip, stack, at, env,
    member              \* what the slot of the object holds

compiler == <<alphabet, prog, g, slots, blocks, conditionally_cleared_locals, function>>
vm == <<ip, stack, at, env, member>>
vars == <<compiler, vm>>

NoFunction == [code |-> <<>>, temporaries_begin |-> 0, stack_size |-> 0,
               default_arguments |-> <<>>]

(* A block being lowered: the locals a jump out of it must give up, and    *)
(* for a match the slots its arms may have filled.                         *)
Block(n, kind, surviving, locals) ==
    [token |-> n, kind |-> kind, surviving |-> surviving, locals |-> locals,
     arms |-> 0, bound |-> <<>>, previous |-> <<>>]

Compiling == function = NoFunction
Top == Last(blocks)
Now == Len(prog) + 1                    \* the token being added
IsLoop(b) == b.kind \in Loops

CanHoldAReference(carrier) == carrier \in {"any", "array"}

ClearBlockLocals(h, locals) ==
    LET cleared[k \in 0 .. Len(locals)] ==
            IF k = 0 THEN h
            ELSE IF ~CanHoldAReference(locals[k].carrier) THEN cleared[k - 1]
            ELSE ClearLocal(cleared[k - 1], locals[k])
    IN cleared[Len(locals)]

(* The variable an expression may name: that of the innermost block.       *)
Visible ==
    {b \in {x.token : x \in ToSet(blocks)} :
        /\ prog[b].local = "any"
        /\ \E m \in DOMAIN prog : prog[m].op = "var" /\ Last(Nest[m]) = b}
VariableSlot == slots[<<Max(Visible), "local">>].slot

-----------------------------------------------------------------------------
(* Expressions.  The result is taken first and outlives every operand, so  *)
(* temporaries are given back in the order opposite to their taking.  The  *)
(* operands are calls.                                                     *)

Call(h, carrier) == WriteCall(AddTemporary(h, carrier), <<>>, Newest(1))

Calls(h, count) ==
    LET called[k \in 0 .. count] == IF k = 0 THEN h ELSE Call(called[k - 1], "any")
    IN called[count]

(* The forms below leave their value in the newest temporary of h.         *)
LogicOperand(h, opcode) == WriteOperand(Call(h, "any"), opcode, Newest(1))

And(h) ==
    LET both == LogicOperand(LogicOperand(h, Opcode.JUMP_IF_NOT), Opcode.JUMP_IF_NOT)
    IN PopTemporaries(WriteEndAnd(both, Newest(3)), 2)

Or(h) ==
    LET both == LogicOperand(LogicOperand(h, Opcode.JUMP_IF), Opcode.JUMP_IF)
    IN PopTemporaries(WriteEndOr(both, Newest(3)), 2)

Ternary(h) ==
    LET condition == PopTemporary(WriteTernaryCondition(Call(h, "any"), Newest(1)))
        true == PopTemporary(WriteTernaryTrue(Call(condition, "any"), Newest(2), Newest(1)))
    IN PopTemporary(WriteTernaryFalse(Call(true, "any"), Newest(2), Newest(1)))

(* The operands from left to right, then the instruction.                  *)
Operation(h, opcode, count) ==
    PopTemporaries(Operate(Calls(h, count), opcode,
                           [i \in 1 .. count |-> Newest(count + 1 - i)], Newest(count + 1)),
                   count)

UnaryOperator(h) == Operation(h, Opcode.OPERATOR, 1)
BinaryOperator(h) == Operation(h, Opcode.OPERATOR, 2)
ArrayLiteral(h) == Operation(h, Opcode.CONSTRUCT, 2)
DictionaryLiteral(h) == Operation(h, Opcode.CONSTRUCT, 2)
TypeTest(h) == Operation(h, Opcode.TYPE_TEST, 1)
CastTo(h) == Operation(h, Opcode.CAST, 1)
Attribute(h) == Operation(h, Opcode.GET_NAMED, 1)
Subscript(h) == Operation(h, Opcode.GET_KEYED, 2)

(* A temporary with the converted value of the newest.                     *)
Converted(h) == WriteConvert(AddTemporary(h, "any"), Newest(1), Newest(2))

(* parse_call: the receiver, the arguments in the order of the text, the   *)
(* conversions the call injects, the call.  Arguments go where their       *)
(* parameters are.  A member is read by the call itself.                   *)
CallArguments(h, expr) ==
    CASE expr \in {"nested", "method"} -> [g |-> Calls(h, 2), addresses |-> <<Newest(2), Newest(1)>>]
      [] expr = "named" -> [g |-> Calls(h, 2), addresses |-> <<Newest(1), Newest(2)>>]
      [] expr = "checked" ->
            [g |-> Converted(Calls(h, 2)), addresses |-> <<Newest(3), Newest(1)>>]
      [] expr = "early" -> [g |-> Call(h, "any"), addresses |-> <<Member, Newest(1)>>]
      [] expr = "late" -> [g |-> Call(h, "any"), addresses |-> <<Newest(1), Member>>]
      [] expr = "with_variable" ->
            [g |-> Call(h, "any"), addresses |-> <<VariableSlot, Newest(1)>>]

CallWith(h, a, discarded) ==
    LET taken == Len(a.g.used) - Len(h.used)
        target == IF discarded THEN NoAddress ELSE Newest(taken + 1)
    IN PopTemporaries(WriteCall(a.g, a.addresses, target), taken)

ValueInNewest(h, expr) ==
    CASE expr = "call" -> WriteCall(h, <<>>, Newest(1))
      [] expr = "and" -> And(h)
      [] expr = "or" -> Or(h)
      [] expr = "ternary" -> Ternary(h)
      [] expr = "unary" -> UnaryOperator(h)
      [] expr = "binary" -> BinaryOperator(h)
      [] expr = "array" -> ArrayLiteral(h)
      [] expr = "dictionary" -> DictionaryLiteral(h)
      [] expr = "is" -> TypeTest(h)
      [] expr = "as" -> CastTo(h)
      [] expr = "attribute" -> Attribute(h)
      [] expr = "subscript" -> Subscript(h)
      [] expr \in CallForms -> CallWith(h, CallArguments(h, expr), FALSE)

(* parse_expression: a new temporary holds the value. *)
Expression(h, expr, carrier) ==
    ValueInNewest(AddTemporary(h, IF expr \in {"and", "or"} THEN "bool" ELSE carrier), expr)

-----------------------------------------------------------------------------
(* Assignments (parse_assignment).  A compound one reads its target behind *)
(* the right side, but for a member with accessors.                        *)

(* The operator of a compound assignment. *)
Combined(h, current, value) ==
    WriteOperator(AddTemporary(h, "any"), <<current, value>>, Newest(1))

(* The same where the current value was read into the newest temporary,    *)
(* the result has the one before and the value is before that.             *)
CombinedInto(h) == PopTemporary(WriteOperator(h, <<Newest(1), Newest(3)>>, Newest(2)))

AssignVariable(h) ==
    PopTemporary(WriteAssign(Call(h, "any"), VariableSlot, Newest(1)))

AddToVariable(h) ==
    PopTemporaries(WriteAssign(Combined(Call(h, "any"), VariableSlot, Newest(2)),
                               VariableSlot, Newest(1)), 2)

(* Base, index, value. *)
AssignElement(h) == PopTemporaries(WriteSet(Calls(h, 3), Newest(3), Newest(2), Newest(1)), 3)

AddToElement(h) ==
    LET i == AddTemporaries(Calls(h, 3), <<"any", "any">>)
        j == CombinedInto(WriteGet(i, Newest(1), Newest(4), Newest(5)))
    IN PopTemporaries(WriteSet(j, Newest(4), Newest(3), Newest(1)), 4)

(* A typed dictionary: the key and the value are converted.                *)
AssignChecked(h) ==
    LET value == Converted(Call(Converted(Calls(h, 2)), "any"))
    IN PopTemporaries(WriteSet(value, Newest(5), Newest(3), Newest(1)), 5)

(* Base, value. *)
AssignAttribute(h) == PopTemporaries(WriteSetNamed(Calls(h, 2), Newest(2), Newest(1)), 2)

AddToAttribute(h) ==
    LET i == AddTemporaries(Calls(h, 2), <<"any", "any">>)
        j == CombinedInto(WriteGetNamed(i, Newest(1), Newest(4)))
    IN PopTemporaries(WriteSetNamed(j, Newest(3), Newest(1)), 3)

(* A property of the object the script is attached to.                     *)
AssignProperty(h) == PopTemporary(WriteSetMember(Call(h, "any"), Newest(1)))

AddToProperty(h) ==
    LET i == AddTemporaries(Call(h, "any"), <<"any", "any">>)
        j == CombinedInto(WriteGetMember(i, Newest(1)))
    IN PopTemporaries(WriteSetMember(j, Newest(1)), 2)

AddToStatic(h) ==
    LET i == WriteGetStatic(AddTemporary(Call(h, "any"), "any"), Newest(1))
    IN PopTemporaries(WriteSetStatic(Combined(i, Newest(2), Newest(3)), Newest(1)), 3)

(* A member with accessors: the getter, the value, the setter.             *)
AssignByAccessor(h) == PopTemporary(WriteCall(Call(h, "any"), <<Newest(1)>>, NoAddress))

AddByAccessor(h) ==
    PopTemporaries(WriteCall(Combined(Calls(h, 2), Newest(3), Newest(2)),
                             <<Newest(1)>>, NoAddress), 3)

Assignment(h, expr) ==
    CASE expr = "assign" -> AssignVariable(h)
      [] expr = "add" -> AddToVariable(h)
      [] expr = "set_element" -> AssignElement(h)
      [] expr = "add_element" -> AddToElement(h)
      [] expr = "set_checked" -> AssignChecked(h)
      [] expr = "set_attribute" -> AssignAttribute(h)
      [] expr = "add_attribute" -> AddToAttribute(h)
      [] expr = "set_property" -> AssignProperty(h)
      [] expr = "add_property" -> AddToProperty(h)
      [] expr = "add_static" -> AddToStatic(h)
      [] expr = "set_accessor" -> AssignByAccessor(h)
      [] expr = "add_accessor" -> AddByAccessor(h)

(* A statement that is an expression: a call whose value nobody wants has  *)
(* no destination.                                                         *)
Discarded(h, expr) ==
    CASE expr = "call" -> WriteCall(h, <<>>, NoAddress)
      [] expr \in CallForms -> CallWith(h, CallArguments(h, expr), TRUE)
      [] expr \in Assignments -> Assignment(h, expr)
      [] OTHER -> PopTemporary(Expression(h, expr, "any"))

-----------------------------------------------------------------------------
(* Lowering: one action per token.                                         *)

StatementsLeft ==
    Cardinality({m \in DOMAIN prog : prog[m].op # "end"}) <= alphabet.statements

AfterJump == prog[Len(prog)].op \in {"break", "continue", "return"}
BlockIsEmpty == prog[Len(prog)].op \in Heads \cup Arms

(* The block has statements, and has declared what it has to. *)
Complete(b) ==
    /\ ~BlockIsEmpty
    /\ prog[b.token].local # "none" =>
            \E k \in DOMAIN prog : prog[k].op = "var" /\ Last(Nest[k]) = b.token

(* A token can stand here. *)
NextToken(t) ==
    /\ Compiling /\ prog # <<>>
    /\ t \in alphabet.tokens /\ StatementsLeft /\ ~AfterJump
    /\ Top.kind # "match"
    /\ t.expr \in {"with_variable", "assign", "add"} => Visible # {}
    /\ prog' = Append(prog, t)

(* add_block_locals: the slot after those of h, if the block declares one. *)
Local(h, t) ==
    IF t.local = "none" THEN <<>> ELSE <<[slot |-> h.locals + FirstSlot, carrier |-> t.local]>>
WithLocal(h, t) == IF t.local = "none" THEN h ELSE AddLocal(h)

Declare(x, locals) ==
    slots' = [y \in DOMAIN slots \cup {x : l \in ToSet(locals)} |->
                IF y = x /\ locals # <<>> THEN Last(locals) ELSE slots[y]]

(* compile_function up to the body: parameters, their default values.      *)
Func(t) ==
    LET parameters == [k \in 1 .. t.opt |-> [slot |-> FirstSlot + k - 1, carrier |-> "any"]]
        added == [EmptyGenerator EXCEPT !.locals = t.opt, !.max_locals = t.opt]
        written[k \in 0 .. t.opt] ==
            IF k = 0 THEN StartParameters(added, t.opt)
            ELSE PopTemporary(AssignDefaultParameter(Call(written[k - 1], "any"),
                                                     parameters[k].slot, Newest(1)))
        ready == EndParameters(written[t.opt])
        locals == Local(ready, t)
    IN /\ prog = <<>>
       /\ t \in alphabet.tokens /\ t.op = "func"
       /\ prog' = <<t>>
       /\ g' = WithLocal(ready, t)
       /\ blocks' = <<Block(1, "func", ready.locals, locals)>>
       /\ slots' = [x \in {<<0, k>> : k \in 1 .. t.opt} \cup {<<1, "local">> : l \in ToSet(locals)} |->
                        IF x[1] = 0 THEN parameters[x[2]] ELSE locals[1]]
       /\ UNCHANGED <<alphabet, conditionally_cleared_locals, function, vm>>

If(t) ==
    LET n == Now
        h == PopTemporary(WriteIf(Expression(WriteLine(g, n), t.expr, "any"), Newest(1)))
    IN /\ t.op = "if" /\ NextToken(t)
       /\ g' = WithLocal(h, t)
       /\ blocks' = Append(blocks, Block(n, "if", h.locals, Local(h, t)))
       /\ Declare(<<n, "local">>, Local(h, t))
       /\ UNCHANGED <<alphabet, conditionally_cleared_locals, function, vm>>

While(t) ==
    LET n == Now
        condition == Expression(StartWhile(WriteLine(g, n)), t.expr, "any")
        h == PopTemporary(WriteWhile(condition, Newest(1)))
    IN /\ t.op = "while" /\ NextToken(t)
       /\ g' = WithLocal(h, t)
       /\ blocks' = Append(blocks, Block(n, "while", h.locals, Local(h, t)))
       /\ Declare(<<n, "local">>, Local(h, t))
       /\ UNCHANGED <<alphabet, conditionally_cleared_locals, function, vm>>

(* The loop variable and the loop's own slots are outside the body.        *)
For(t) ==
    LET n == Now
        is_range == t.expr = "range"
        h == StartFor(AddLocal(WriteLine(g, n)), is_range)
        element == g.locals + FirstSlot
        counter == element + 1
        assigned ==
            IF is_range
            THEN PopTemporaries(WriteAssign(WriteAssign(WriteAssign(Calls(h, 2),
                        counter + 1, Newest(2)), counter + 2, Newest(1)),
                        counter + 3, ConstantSome), 2)
            ELSE PopTemporary(WriteAssign(Call(h, "any"), counter + 1, Newest(1)))
        i == WriteFor(assigned, is_range, counter, element)
    IN /\ t.op = "for" /\ NextToken(t)
       /\ g' = WithLocal(i, t)
       /\ blocks' = Append(blocks, Block(n, "for", g.locals, Local(i, t)))
       /\ slots' = [x \in DOMAIN slots \cup {<<n, "element">>}
                            \cup {<<n, "local">> : l \in ToSet(Local(i, t))} |->
                        IF x = <<n, "element">> THEN [slot |-> element, carrier |-> "any"]
                        ELSE IF x = <<n, "local">> THEN Local(i, t)[1] ELSE slots[x]]
       /\ UNCHANGED <<alphabet, conditionally_cleared_locals, function, vm>>

(* parse_match up to its first arm: the subject is saved in a local.       *)
Match(t) ==
    LET n == Now
        h == AddLocal(WriteLine(g, n))
        value == [slot |-> NewestLocal(h), carrier |-> "any"]
        subject == Expression(h, t.expr, "any")
        i == AddLocal(PopTemporary(WriteAssign(subject, value.slot, Newest(1))))
    IN /\ t.op = "match" /\ NextToken(t)
       /\ g' = WriteTypeOf(i, NewestLocal(i), value.slot)
       /\ blocks' = Append(blocks, Block(n, "match", g.locals, <<value>>))
       /\ Declare(<<n, "subject">>, <<value>>)
       /\ UNCHANGED <<alphabet, conditionally_cleared_locals, function, vm>>

(* parse_match_pattern.  c says what is matched, where its verdict goes,   *)
(* and how it joins what was tested before: an alternative, or an element. *)
OpenJoin(h, c) ==
    IF c.nested THEN WriteOperand(h, Opcode.JUMP_IF_NOT, c.verdict)
    ELSE IF ~c.first THEN WriteOperand(h, Opcode.JUMP_IF, c.verdict) ELSE h

CloseJoin(h, c, test) ==
    IF c.nested THEN WriteEndAnd(WriteOperand(h, Opcode.JUMP_IF_NOT, test), c.verdict)
    ELSE IF ~c.first THEN WriteEndOr(WriteOperand(h, Opcode.JUMP_IF, test), c.verdict)
    ELSE WriteAssign(h, c.verdict, test)

(* The verdict in the newest temporary, and another test if it holds.      *)
AndTest(h, operand, carriers) ==
    LET i == AddTemporaries(WriteOperand(h, Opcode.JUMP_IF_NOT, Newest(1)), carriers)
        tested == WriteOperand(WriteOperator(i, <<operand>>, Newest(1)),
                               Opcode.JUMP_IF_NOT, Newest(1))
    IN PopTemporaries(WriteEndAnd(tested, Newest(Len(carriers) + 1)), Len(carriers))

(* The type, then what depends on it: the value, or the size.              *)
TypedTest(h, c, carriers) ==
    AndTest(WriteOperator(AddTemporary(OpenJoin(h, c), "bool"), <<c.type>>, Newest(1)),
            c.value, carriers)

LiteralPattern(h, c) == PopTemporary(CloseJoin(TypedTest(h, c, <<"bool">>), c, Newest(1)))

TypeTestPattern(h, c) ==
    LET i == AddTemporary(OpenJoin(h, c), "bool")
    IN PopTemporary(CloseJoin(Operate(i, Opcode.TYPE_TEST, <<c.value>>, Newest(1)), c, Newest(1)))

(* The instructions by which names and strings are told to be of one type  *)
(* are left out, their temporaries are not: below the value are its type,  *)
(* theirs, the equality and the verdict.                                   *)
ExpressionPattern(h, c) ==
    LET i == AddTemporaries(OpenJoin(h, c), <<"bool", "bool", "bool", "bool", "any">>)
        type == WriteTypeOf(Call(i, "any"), Newest(2), Newest(1))
        typed == WriteOperand(WriteOperator(type, <<c.type, Newest(2)>>, Newest(6)),
                              Opcode.JUMP_IF_NOT, Newest(6))
        equal == WriteOperand(WriteOperator(typed, <<c.value, Newest(1)>>, Newest(5)),
                              Opcode.JUMP_IF_NOT, Newest(5))
    IN PopTemporary(CloseJoin(PopTemporaries(WriteEndAnd(equal, Newest(6)), 5), c, Newest(1)))

BindPattern(h, c, kind) ==
    LET i == IF kind = "bind" THEN WriteAssign(OpenJoin(h, c), c.bind, c.value)
             ELSE OpenJoin(h, c)
    IN IF c.nested \/ ~c.first THEN CloseJoin(i, c, ConstantTrue)
       ELSE Emit(i, <<Opcode.ASSIGN_TRUE, c.verdict>>)

(* What is written between the two only runs while the verdict holds.      *)
WhileHolds(h, verdict) == WriteOperand(h, Opcode.JUMP_IF_NOT, verdict)
EndWhileHolds(h, verdict) ==
    WriteEndAnd(WriteOperand(h, Opcode.JUMP_IF_NOT, verdict), verdict)

(* The type and the size of a container; then, in the newest temporaries,  *)
(* the verdict, an element and its type.                                   *)
OpenContainer(h, c) ==
    AddTemporaries(TypedTest(h, c, <<"int", "bool">>), <<"any", "any">>)
CloseContainer(h, c) == PopTemporary(CloseJoin(PopTemporaries(h, 2), c, Newest(1)))

(* What an element of the container is matched as. *)
ElementOf(i, c) ==
    [c EXCEPT !.value = Resolve(i, Newest(2)), !.type = Resolve(i, Newest(1)),
              !.verdict = Resolve(i, Newest(3)), !.first = FALSE, !.nested = TRUE]

(* Each element, or entry, is read only once all before it have matched;   *)
(* an entry is there, or the pattern fails.                                *)
ReadElement(h, c, e) ==
    WriteTypeOf(Operate(h, Opcode.GET_KEYED, <<c.value>>, e.value), e.type, e.value)

OpenElement(h, kind, c, e) ==
    LET held == WhileHolds(h, e.verdict)
    IN ReadElement(IF kind = "array" THEN held
                   ELSE WhileHolds(WriteCall(held, <<c.value>>, e.verdict), e.verdict), c, e)

CloseElement(h, kind, e) ==
    LET matched == EndWhileHolds(h, e.verdict)
    IN IF kind = "array" THEN matched ELSE EndWhileHolds(matched, e.verdict)

(* Inner lowers the pattern of an element. *)
ContainerPattern(h, p, c, Inner(_, _, _)) ==
    LET i == OpenContainer(h, c)
        e == ElementOf(i, c)
        matched[k \in 0 .. Len(p.of)] ==
            IF k = 0 THEN i
            ELSE CloseElement(Inner(OpenElement(matched[k - 1], p.kind, c, e), p.of[k], e),
                              p.kind, e)
    IN CloseContainer(matched[Len(p.of)], c)

(* A pattern that is no container, one that holds none, and one that may.  *)
IsContainer(p) == p.kind \in {"array", "dictionary"}

LeafPattern(h, p, c) ==
    CASE p.kind = "literal" -> LiteralPattern(h, c)
      [] p.kind = "test" -> TypeTestPattern(h, c)
      [] p.kind = "expression" -> ExpressionPattern(h, c)
      [] p.kind \in {"wild", "bind"} -> BindPattern(h, c, p.kind)

FlatPattern(h, p, c) ==
    IF IsContainer(p) THEN ContainerPattern(h, p, c, LeafPattern) ELSE LeafPattern(h, p, c)

Pattern(h, p, c) ==
    IF IsContainer(p) THEN ContainerPattern(h, p, c, FlatPattern) ELSE LeafPattern(h, p, c)

(* The patterns of an arm and its guard: the newest temporary says whether *)
(* it is taken.                                                            *)
Alternatively(h, name, c) ==
    LET tried[k \in 0 .. Len(Patterns[name])] ==
            IF k = 0 THEN h
            ELSE Pattern(tried[k - 1], Patterns[name][k], [c EXCEPT !.first = (k = 1)])
    IN tried[Len(Patterns[name])]

AndGuard(h) ==
    LET guard == Call(WriteOperand(h, Opcode.JUMP_IF_NOT, Newest(1)), "any")
    IN PopTemporary(WriteEndAnd(WriteOperand(guard, Opcode.JUMP_IF_NOT, Newest(1)), Newest(2)))

Verdict(h, name, value, bind) ==
    LET i == AddTemporary(h, "bool")
        matched == Alternatively(i, name,
            [value |-> value, type |-> value + 1, bind |-> bind,
             verdict |-> Resolve(i, Newest(1)), first |-> TRUE, nested |-> FALSE])
    IN IF Guarded(name) THEN AndGuard(matched) ELSE matched

(* The reference-bearing slots of the arms, the first address of each.     *)
(* Mutant: the first address of a slot, whether or not it may hold one.    *)
RecordFirstAddress(bound, locals) ==
    LET recorded[k \in 0 .. Len(locals)] ==
            IF k = 0 THEN bound
            ELSE IF \E l \in ToSet(recorded[k - 1]) : l.slot = locals[k].slot THEN recorded[k - 1]
            ELSE Append(recorded[k - 1], locals[k])
    IN recorded[Len(locals)]

RecordBoundSlots(bound, locals) ==
    LET recorded[k \in 0 .. Len(locals)] ==
            IF k = 0 THEN bound
            ELSE IF \/ ~CanHoldAReference(locals[k].carrier)
                    \/ \E l \in ToSet(recorded[k - 1]) : l.slot = locals[k].slot
            THEN recorded[k - 1]
            ELSE Append(recorded[k - 1], locals[k])
    IN recorded[Len(locals)]

Branch(t) ==
    LET n == Now
        more == Top.kind = "branch"
        m == IF more THEN blocks[Len(blocks) - 1] ELSE Top
        closed == IF more THEN EndBlock(ClearBlockLocals(g, Top.locals), Top.surviving) ELSE g
        opened == IF more THEN ClearBlockLocals(WriteElse(closed), Top.locals) ELSE closed
        bind == IF Binds(t.expr)
                THEN <<[slot |-> opened.locals + FirstSlot, carrier |-> "any"]>> ELSE <<>>
        h == IF bind = <<>> THEN opened ELSE AddLocal(opened)
        i == WithLocal(h, t)
        verdict == Verdict(WriteLine(i, n), t.expr, m.locals[1].slot, opened.locals + FirstSlot)
        locals == bind \o Local(h, t)
    IN /\ t.op = "branch" /\ Compiling /\ prog # <<>>
       /\ t \in alphabet.tokens /\ StatementsLeft
       /\ Top.kind \in {"match", "branch"} /\ (more => Complete(Top))
       /\ prog' = Append(prog, t)
       /\ g' = PopTemporary(WriteIf(verdict, Newest(1)))
       /\ blocks' = (IF more THEN Front(Front(blocks)) ELSE Front(blocks)) \o
            <<[m EXCEPT !.arms = @ + 1, !.bound = RecordBoundSlots(@, locals)],
              Block(n, "branch", opened.locals, locals)>>
       /\ slots' = [x \in DOMAIN slots \cup {<<n, "bind">> : l \in ToSet(bind)}
                            \cup {<<n, "local">> : l \in ToSet(Local(h, t))} |->
                        IF x = <<n, "bind">> THEN bind[1]
                        ELSE IF x = <<n, "local">> THEN Local(h, t)[1] ELSE slots[x]]
       /\ UNCHANGED <<alphabet, conditionally_cleared_locals, function, vm>>

Else(t) ==
    LET h == WriteElse(EndBlock(ClearBlockLocals(g, Top.locals), Top.surviving))
    IN /\ t.op = "else" /\ Compiling /\ prog # <<>>
       /\ t \in alphabet.tokens /\ StatementsLeft
       /\ Top.kind = "if" /\ prog[Top.token].op = "if" /\ Complete(Top)
       /\ prog' = Append(prog, t)
       /\ g' = WithLocal(h, t)
       /\ blocks' = Append(Front(blocks), Block(Now, "if", h.locals, Local(h, t)))
       /\ Declare(<<Now, "local">>, Local(h, t))
       /\ UNCHANGED <<alphabet, conditionally_cleared_locals, function, vm>>

(* Every scope from the body of the innermost loop inwards.                *)
InnermostLoop == Max({i \in DOMAIN blocks : IsLoop(blocks[i])})

ClearLeftByJump(h) ==
    LET cleared[k \in 0 .. Len(blocks)] ==
            IF k = 0 THEN h
            ELSE IF k < InnermostLoop THEN cleared[k - 1]
            ELSE ClearBlockLocals(cleared[k - 1], blocks[k].locals)
    IN cleared[Len(blocks)]

LeftByJump == UNION {ToSet(blocks[i].locals) : i \in InnermostLoop .. Len(blocks)}

Jump(t) ==
    LET h == ClearLeftByJump(WriteLine(g, Now))
    IN /\ t.op \in {"break", "continue"} /\ NextToken(t)
       /\ \E i \in DOMAIN blocks : IsLoop(blocks[i])
       /\ g' = IF t.op = "break" THEN WriteBreak(h) ELSE WriteContinue(h)
       /\ conditionally_cleared_locals' =
            conditionally_cleared_locals \cup {l.slot : l \in LeftByJump}
       /\ UNCHANGED <<alphabet, slots, blocks, function, vm>>

Return(t) ==
    LET line == WriteLine(g, Now)
        value == Expression(line, t.expr, "any")
    IN /\ t.op = "return" /\ NextToken(t)
       /\ g' = ClearTemporaries(
                IF t.expr = "none" THEN WriteReturn(line, ConstantNull)
                ELSE PopTemporary(WriteReturn(value, Newest(1))))
       /\ UNCHANGED <<alphabet, slots, blocks, conditionally_cleared_locals, function, vm>>

Evaluate(t) ==
    /\ t.op = "expr" /\ NextToken(t)
    /\ g' = ClearTemporaries(Discarded(WriteLine(g, Now), t.expr))
    /\ UNCHANGED <<alphabet, slots, blocks, conditionally_cleared_locals, function, vm>>

(* The message is evaluated whether or not the assertion holds. *)
AssertStatement(t) ==
    /\ t.op = "assert" /\ NextToken(t)
    /\ g' = ClearTemporaries(PopTemporaries(
                WriteAssert(Calls(WriteLine(g, Now), 2), Newest(2), Newest(1)), 2))
    /\ UNCHANGED <<alphabet, slots, blocks, conditionally_cleared_locals, function, vm>>

(* A declaration without a value leaves its slot alone if it knows it to   *)
(* be empty.                                                               *)
NeedsClear(local) ==
    \/ local.carrier \in {"int", "array"}
    \/ local.slot \in g.dirty_locals
    \/ \E i \in DOMAIN blocks : IsLoop(blocks[i])
    \/ local.slot \in conditionally_cleared_locals

Var(t) ==
    LET local == slots[<<Top.token, "local">>]
        line == WriteLine(g, Now)
        value == Expression(line, t.expr, local.carrier)
    IN /\ t.op = "var" /\ NextToken(t)
       /\ prog[Top.token].local # "none"
       /\ \A k \in DOMAIN prog : ~(prog[k].op = "var" /\ Last(Nest[k]) = Top.token)
       /\ g' = ClearTemporaries(
                IF t.expr # "none"
                THEN PopTemporary(WriteAssign(value, local.slot, Newest(1)))
                ELSE IF NeedsClear(local) THEN ClearLocal(line, local) ELSE line)
       /\ UNCHANGED <<alphabet, slots, blocks, conditionally_cleared_locals, function, vm>>

EndIf ==
    LET h == WriteEndIf(EndBlock(ClearBlockLocals(g, Top.locals), Top.surviving))
    IN /\ Top.kind = "if"
       /\ g' = ClearTemporaries(h)
       /\ blocks' = Front(blocks)
       /\ UNCHANGED function

EndLoop ==
    LET h == ClearBlockLocals(g, Top.locals)
        i == IF Top.kind = "while" THEN WriteEndWhile(h) ELSE WriteEndFor(h)
    IN /\ IsLoop(Top)
       /\ g' = ClearTemporaries(EndBlock(ClearBlockLocals(i, Top.locals), Top.surviving))
       /\ blocks' = Front(blocks)
       /\ UNCHANGED function

(* What every arm may have left in its slots, and the subject, are given   *)
(* up behind the last arm.                                                 *)
EndMatch ==
    LET m == blocks[Len(blocks) - 1]
        last == EndBlock(ClearBlockLocals(g, Top.locals), Top.surviving)
        joined[k \in 0 .. m.arms] == IF k = 0 THEN last ELSE WriteEndIf(joined[k - 1])
        swept == ClearBlockLocals(ClearBlockLocals(joined[m.arms], m.bound), m.locals)
    IN /\ Top.kind = "branch"
       /\ g' = ClearTemporaries(EndBlock(swept, m.surviving))
       /\ blocks' = Front(Front(blocks))
       /\ UNCHANGED function

EndFunction ==
    LET h == EndBlock(ClearBlockLocals(g, Top.locals), Top.surviving)
    IN /\ Top.kind = "func"
       /\ function' = WriteEnd(WriteReturn(h, ConstantNull))
       /\ g' = EmptyGenerator
       /\ blocks' = <<>>

End ==
    /\ Compiling /\ prog # <<>>
    /\ Complete(Top)
    /\ prog' = Append(prog, [op |-> "end"])
    /\ EndIf \/ EndLoop \/ EndMatch \/ EndFunction
    /\ UNCHANGED <<alphabet, slots, conditionally_cleared_locals, vm>>

-----------------------------------------------------------------------------
(* BSFunction::call and its dispatch loop                                  *)

Word(i) == function.code[i + 1]
Running == ip # -1
Fetch(opcode) == Running /\ Word(ip) = opcode

Read(a) == CASE a = ConstantNull -> Null [] a = ConstantSome -> Some [] a = ConstantTrue -> True
             [] a = Member -> member [] OTHER -> stack[a]
Written(a, v) == IF a = NoAddress THEN stack ELSE [stack EXCEPT ![a] = v]

(* External: what an evaluation may give.  What decides where the text     *)
(* goes on may be either way; the bounds of a range are integers; all else *)
(* is an object.                                                           *)
Returns(n, k) ==
    LET t == prog[n]
        parts == FlattenSeq(Alternatives(t.expr))
    IN CASE t.op = "branch" /\ k \in DOMAIN parts ->
                IF parts[k].test THEN {True, False} ELSE {Site(n, k)}
         [] t.op # "branch" /\ t.expr = "range" -> {Some}
         [] t.op = "var" /\ prog[Last(Nest[n])].local = "int" -> {Some}
         [] \/ t.op = "branch" \/ t.expr \in {"and", "or", "ternary"} \/ t.op = "assert"
            \/ t.op \in {"if", "while"} /\ k = Len(Parts(t.expr)) -> {Null, Site(n, k)}
         [] OTHER -> {Site(n, k)}

(* External: what is called may assign the member. *)
Assigned(n, k) ==
    IF prog[n].expr \in {"early", "late"} /\ k = 1 THEN {Null, Some} ELSE {member}

(* The arguments that were given are in their slots, the rest of the frame *)
(* holds null, and JUMP_TO_DEF_ARGUMENT skips the defaults not needed.     *)
Enter(given) ==
    /\ ~Compiling /\ ip = -1 /\ at = Unstarted
    /\ given <= prog[1].opt
    /\ stack' = [a \in FirstSlot .. (function.stack_size - 1) |->
                    IF a < FirstSlot + given THEN a - FirstSlot + 1 ELSE Null]
    /\ ip' = IF function.code[1] # Opcode.JUMP_TO_DEF_ARGUMENT THEN 0
             ELSE function.default_arguments[prog[1].opt - given + 1]
    /\ at' = [Unstarted EXCEPT !.site = 1, !.part = given]
    /\ env' = [x \in {<<0, k>> : k \in 1 .. given} |-> stack'[slots[x].slot]]
    /\ UNCHANGED <<compiler, member>>

Line ==
    /\ Fetch(Opcode.LINE)
    /\ at' = EventOf(at, Word(ip + 1), 0, Null, <<>>, member)
    /\ env' = [x \in Variables(Word(ip + 1)) |-> stack[slots[x].slot]]
    /\ ip' = ip + 2
    /\ UNCHANGED <<compiler, stack, member>>

(* An instruction with operands reads them, does what it does, and stores  *)
(* what that gives.                                                        *)
Perform(opcodes) ==
    LET argc == Word(ip + 1)
        n == Word(ip + 3 + argc)
        k == Word(ip + 4 + argc)
        given == [i \in 1 .. argc |-> Read(Word(ip + 1 + i))]
    IN /\ Running /\ Word(ip) \in opcodes
       /\ \E v \in Returns(n, k) :
            /\ stack' = Written(Word(ip + 2 + argc), v)
            /\ at' = EventOf(at, n, k, v, given, member)
       /\ member' \in Assigned(n, k)
       /\ ip' = ip + 5 + argc
       /\ UNCHANGED <<compiler, env>>

Calling == {Opcode.CALL, Opcode.CONSTRUCT}
Operating == {Opcode.OPERATOR, Opcode.TYPE_TEST, Opcode.CAST, Opcode.ASSIGN_TYPED}
Accessing == {Opcode.GET_KEYED, Opcode.GET_NAMED, Opcode.GET_MEMBER, Opcode.GET_STATIC_VARIABLE,
              Opcode.SET_KEYED, Opcode.SET_NAMED, Opcode.SET_MEMBER, Opcode.SET_STATIC_VARIABLE}

CallFunction == Perform(Calling)
Operator == Perform(Operating)
Access == Perform(Accessing)

Assign ==
    /\ \/ /\ Fetch(Opcode.ASSIGN)
          /\ stack' = Written(Word(ip + 1), Read(Word(ip + 2)))
       \/ /\ Fetch(Opcode.TYPEOF)
          /\ stack' = Written(Word(ip + 1), TypeOf(Read(Word(ip + 2))))
    /\ ip' = ip + 3
    /\ UNCHANGED <<compiler, at, env, member>>

(* The values the one-operand stores write. *)
Stored == [o \in {Opcode.ASSIGN_NULL, Opcode.ASSIGN_TRUE, Opcode.ASSIGN_FALSE,
                  Opcode.ADJUST_INT, Opcode.ADJUST_ARRAY, Opcode.ADJUST_BOOL} |->
    CASE o = Opcode.ASSIGN_NULL -> Null [] o = Opcode.ASSIGN_TRUE -> True
      [] o = Opcode.ADJUST_INT -> Zero [] o = Opcode.ADJUST_ARRAY -> EmptyArray
      [] OTHER -> False]

Store ==
    /\ Running /\ Word(ip) \in DOMAIN Stored
    /\ stack' = Written(Word(ip + 1), Stored[Word(ip)])
    /\ ip' = ip + 2
    /\ UNCHANGED <<compiler, at, env, member>>

Goto ==
    /\ Fetch(Opcode.JUMP)
    /\ ip' = Word(ip + 1)
    /\ UNCHANGED <<compiler, stack, at, env, member>>

Branching ==
    /\ Running /\ Word(ip) \in {Opcode.JUMP_IF, Opcode.JUMP_IF_NOT}
    /\ ip' = IF Truthy(Read(Word(ip + 1))) = (Word(ip) = Opcode.JUMP_IF)
             THEN Word(ip + 2) ELSE ip + 3
    /\ UNCHANGED <<compiler, stack, at, env, member>>

(* The four iteration instructions: the words of operands, where the       *)
(* element is written, and what the counter starts with.                   *)
Iteration ==
    [o \in {Opcode.ITERATE_BEGIN, Opcode.ITERATE, Opcode.ITERATE_BEGIN_RANGE,
            Opcode.ITERATE_RANGE} |->
     CASE o = Opcode.ITERATE_BEGIN -> [operands |-> 4, element |-> 3, part |-> FirstElement]
       [] o = Opcode.ITERATE -> [operands |-> 4, element |-> 3, part |-> NextElement]
       [] o = Opcode.ITERATE_BEGIN_RANGE -> [operands |-> 6, element |-> 5, part |-> FirstElement]
       [] o = Opcode.ITERATE_RANGE -> [operands |-> 5, element |-> 4, part |-> NextElement]]

(* The loop whose slots an instruction names, of those around here. *)
LoopsAt(element) ==
    {n \in DOMAIN prog : /\ prog[n].op = "for"
                         /\ slots[<<n, "element">>].slot = element
                         /\ at.site = n \/ (at.site # 0 /\ n \in Scope(at.site))}

Iterate ==
    /\ Running /\ Word(ip) \in DOMAIN Iteration
    /\ LET it == Iteration[Word(ip)]
           range == Word(ip) \in {Opcode.ITERATE_BEGIN_RANGE, Opcode.ITERATE_RANGE}
       IN \E n \in LoopsAt(Word(ip + it.element)), more \in BOOLEAN :
            LET v == IF more THEN (IF range THEN Some ELSE Site(n, it.part)) ELSE Null IN
            /\ stack' = [stack EXCEPT ![Word(ip + 1)] = Some,
                                      ![Word(ip + it.element)] = IF more THEN v ELSE @]
            /\ at' = EventOf(at, n, it.part, v, <<>>, member)
            /\ ip' = IF more THEN ip + it.operands + 1 ELSE Word(ip + it.operands)
    /\ UNCHANGED <<compiler, env, member>>

Left(how) ==
    /\ ip' = -1
    /\ at' = how
    /\ env' = <<>>
    /\ stack' = <<>>
    /\ UNCHANGED <<compiler, member>>

Leave ==
    /\ Fetch(Opcode.RETURN)
    /\ Left(Returned(Read(Word(ip + 1))))

(* An assertion holds, or the call ends; vm_error ends it wherever an      *)
(* instruction finds something wrong with its operands.                    *)
AssertTrue ==
    /\ Fetch(Opcode.ASSERT) /\ Truthy(Read(Word(ip + 1)))
    /\ ip' = ip + 3
    /\ UNCHANGED <<compiler, stack, at, env, member>>

Fail ==
    \/ Fetch(Opcode.ASSERT) /\ ~Truthy(Read(Word(ip + 1))) /\ Left(Failed)
    \/ /\ Running /\ Word(ip) \in Calling \cup Operating \cup Accessing \cup DOMAIN Iteration
       /\ Left(Failed)

-----------------------------------------------------------------------------
Init ==
    /\ alphabet \in Alphabets
    /\ prog = <<>>
    /\ g = EmptyGenerator
    /\ slots = <<>>
    /\ blocks = <<>>
    /\ conditionally_cleared_locals = {}
    /\ function = NoFunction
    /\ ip = -1
    /\ stack = <<>>
    /\ at = Unstarted
    /\ env = <<>>
    /\ member = Null

Next ==
    \/ \E t \in alphabet.tokens :
        \/ Func(t) \/ If(t) \/ While(t) \/ For(t) \/ Match(t) \/ Branch(t) \/ Else(t)
        \/ Jump(t) \/ Return(t) \/ Evaluate(t) \/ AssertStatement(t) \/ Var(t)
    \/ End
    \/ \E given \in 0 .. 2 : Enter(given)
    \/ Line \/ CallFunction \/ Operator \/ Access \/ Assign \/ Store \/ Goto \/ Branching
    \/ Iterate \/ AssertTrue \/ Fail \/ Leave

Spec == Init /\ [][Next]_vars

-----------------------------------------------------------------------------
(* Properties *)

(* "Ran past the end of a compiled function", "Opcode not implemented",    *)
(* "Bad jump target", "Bad address index": no run of compiled code gets    *)
(* there, whichever way its tests go.  A word the machine is about to run  *)
(* is an instruction, all of it there, and its jump leads to another; and  *)
(* it is not END, since every function returns in front of it.             *)
CodeIsSound ==
    Running => \E o \in DOMAIN Opcode : Word(ip) = Opcode[o] /\ o # "END"

(* Compiled code runs the statements in the order the text means, makes    *)
(* the calls each needs with the values they gave, and each statement sees *)
(* what its variables hold: jumps are patched to the right places, slots   *)
(* and temporaries given to one thing at a time, defaults filled in for    *)
(* missing arguments.                                                      *)
Meaning == INSTANCE Statements
RunsTheText == Meaning!Spec

(* When a statement begins, a reference is in the slots of the variables   *)
(* that hold it and nowhere else: blocks give up what they held, also when *)
(* a jump leaves them and when a pattern fails after it bound.  Not        *)
(* covered are what a for loop leaves in its own slots, and temporaries of *)
(* the head of a statement.                                                *)
AtLine == Running /\ ip > 1 /\ Word(ip - 2) = Opcode.LINE /\ at.part = 0

OnlyVariablesRefer ==
    AtLine =>
        \A a \in DOMAIN stack :
            IsReference(stack[a]) /\ stack[a] >= 16 =>
                LET op == prog[stack[a] \div 16].op IN
                IF a < function.temporaries_begin
                THEN op = "for" \/ \E x \in DOMAIN env : slots[x].slot = a
                ELSE op \in Heads \cup Arms

=============================================================================
