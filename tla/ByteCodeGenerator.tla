------------------------- MODULE ByteCodeGenerator --------------------------
(***************************************************************************)
(* BSByteCodeGenerator: the function under construction is a record g.     *)
(* Code is a flat sequence of words.  A stack slot of a local is its       *)
(* number; a temporary has no slot until write_end lays them out above the *)
(* locals, and is written -1, -2, ... until then.  NoAddress is an absent  *)
(* destination.  Constants are addresses of their own.                     *)
(***************************************************************************)
EXTENDS Integers, Sequences, FiniteSets, SequencesExt

FirstSlot == 3          \* FIXED_ADDRESSES_MAX
NoAddress == 0
ConstantNull == 700
ConstantSome == 701
ConstantTrue == 702
Member == 703           \* a slot of the object

Opcode == [LINE |-> 801, CALL |-> 802, OPERATOR |-> 803, TYPE_TEST |-> 804, CAST |-> 805,
    CONSTRUCT |-> 806, GET_KEYED |-> 807, GET_NAMED |-> 808, GET_MEMBER |-> 809,
    GET_STATIC_VARIABLE |-> 810, SET_KEYED |-> 811, SET_NAMED |-> 812, SET_MEMBER |-> 813,
    SET_STATIC_VARIABLE |-> 814, ASSIGN_TYPED |-> 815, TYPEOF |-> 816, ASSERT |-> 817,
    ASSIGN |-> 818, ASSIGN_NULL |-> 819, ASSIGN_TRUE |-> 820, ASSIGN_FALSE |-> 821,
    ADJUST_INT |-> 822, ADJUST_ARRAY |-> 823, ADJUST_BOOL |-> 824,
    JUMP |-> 825, JUMP_IF |-> 826, JUMP_IF_NOT |-> 827, JUMP_TO_DEF_ARGUMENT |-> 828,
    ITERATE_BEGIN |-> 829, ITERATE |-> 830, ITERATE_BEGIN_RANGE |-> 831,
    ITERATE_RANGE |-> 832, RETURN |-> 833, END |-> 834]

(* The last two fields are not the code's: the statement being written and *)
(* the number of its next part, by which a run is compared with the text.  *)
EmptyGenerator ==
    [code |-> <<>>, locals |-> 0, max_locals |-> 0, dirty_locals |-> {},
     temporaries |-> <<>>, pool |-> [c \in {"any", "int", "bool"} |-> <<>>],
     used |-> <<>>, pending_clear |-> {}, default_arguments |-> <<>>,
     ifs |-> <<>>, whiles |-> <<>>, fors |-> <<>>, continues |-> <<>>, breaks |-> <<>>,
     logic |-> <<>>, ternary_fail |-> <<>>, ternary_skip |-> <<>>,
     site |-> 1, part |-> 1]

(* The k-th newest temporary: an address the compiler holds is named by    *)
(* the place it has among the temporaries in use when it is written.       *)
Newest(k) == 9000 + k
Resolve(g, word) == IF word > Newest(0) THEN 0 - g.used[Len(g.used) + 1 - (word - Newest(0))]
                    ELSE word

Emit(g, words) == [g EXCEPT !.code = @ \o words]
Here(g) == Len(g.code)                      \* opcodes.size()

PatchAll(g, positions) ==
    [g EXCEPT !.code = [i \in DOMAIN @ |-> IF i - 1 \in positions THEN Here(g) ELSE @[i]]]
Patched(g, position) == PatchAll(g, {position})

-----------------------------------------------------------------------------
(* Slots *)

AddLocal(g) ==
    [g EXCEPT !.locals = @ + 1,
              !.max_locals = IF g.locals + 1 > @ THEN g.locals + 1 ELSE @]

NewestLocal(g) == g.locals + FirstSlot - 1

(* Objects and containers share the pool of untyped temporaries. *)
PoolOf(carrier) == IF carrier \in {"int", "bool"} THEN carrier ELSE "any"

AddTemporary(g, carrier) ==
    LET c == PoolOf(carrier) IN
    IF g.pool[c] # <<>>
    THEN [g EXCEPT !.pool[c] = Tail(@), !.used = Append(@, Head(g.pool[c]))]
    ELSE [g EXCEPT !.temporaries = Append(@, c),
                   !.used = Append(@, Len(g.temporaries) + 1)]

AddTemporaries(g, carriers) ==
    LET taken[k \in 0 .. Len(carriers)] ==
            IF k = 0 THEN g ELSE AddTemporary(taken[k - 1], carriers[k])
    IN taken[Len(carriers)]

(* pop_temporary, the given number of times. *)
PopTemporaries(g, count) ==
    LET kept == Len(g.used) - count
        popped == Reverse(SubSeq(g.used, kept + 1, Len(g.used)))
    IN [g EXCEPT !.used = SubSeq(@, 1, kept), !.pending_clear = @ \cup ToSet(popped),
                 !.pool = [c \in DOMAIN @ |->
                    @[c] \o SelectSeq(popped, LAMBDA slot : g.temporaries[slot] = c)]]

PopTemporary(g) == PopTemporaries(g, 1)

ClearOf(carrier) ==
    CASE carrier = "int" -> Opcode.ADJUST_INT
      [] carrier = "bool" -> Opcode.ADJUST_BOOL
      [] carrier = "array" -> Opcode.ADJUST_ARRAY
      [] OTHER -> Opcode.ASSIGN_NULL

(* clear_temporaries *)
ClearTemporaries(g) ==
    LET cleared[slot \in 0 .. Len(g.temporaries)] ==
            IF slot = 0 THEN g
            ELSE IF slot \notin g.pending_clear THEN cleared[slot - 1]
            ELSE Emit(cleared[slot - 1], <<ClearOf(g.temporaries[slot]), 0 - slot>>)
    IN [cleared[Len(g.temporaries)] EXCEPT !.pending_clear = {}]

(* clear_address of a local: the empty value of its carrier. *)
ClearLocal(g, local) ==
    [Emit(g, <<ClearOf(local.carrier), local.slot>>) EXCEPT !.dirty_locals = @ \ {local.slot}]

(* end_block, back to the locals there were at start_block. *)
EndBlock(g, surviving) ==
    [g EXCEPT !.dirty_locals = @ \cup ((surviving + FirstSlot) .. (g.locals + FirstSlot - 1)),
              !.locals = surviving]

-----------------------------------------------------------------------------
(* Jumps *)

WriteLine(g, n) == [Emit(g, <<Opcode.LINE, n>>) EXCEPT !.site = n, !.part = 1]
WriteAssign(g, target, source) ==
    Emit(g, <<Opcode.ASSIGN, Resolve(g, target), Resolve(g, source)>>)
WriteTypeOf(g, target, source) ==
    Emit(g, <<Opcode.TYPEOF, Resolve(g, target), Resolve(g, source)>>)
WriteAssert(g, test, message) ==
    Emit(g, <<Opcode.ASSERT, Resolve(g, test), Resolve(g, message)>>)

(* The instructions that read operands, do something with them, and store  *)
(* what that gave.                                                         *)
Operate(g, opcode, operands, target) ==
    LET addresses == [i \in 1 .. Len(operands) |-> Resolve(g, operands[i])]
    IN [Emit(g, <<opcode, Len(operands)>> \o addresses
                    \o <<Resolve(g, target), g.site, g.part>>) EXCEPT !.part = @ + 1]

WriteCall(g, arguments, target) == Operate(g, Opcode.CALL, arguments, target)
WriteOperator(g, operands, target) == Operate(g, Opcode.OPERATOR, operands, target)
WriteConvert(g, target, source) == Operate(g, Opcode.ASSIGN_TYPED, <<source>>, target)
WriteGet(g, target, index, base) == Operate(g, Opcode.GET_KEYED, <<base, index>>, target)
WriteSet(g, base, index, value) == Operate(g, Opcode.SET_KEYED, <<base, index, value>>, NoAddress)
WriteGetNamed(g, target, base) == Operate(g, Opcode.GET_NAMED, <<base>>, target)
WriteSetNamed(g, base, value) == Operate(g, Opcode.SET_NAMED, <<base, value>>, NoAddress)
WriteGetMember(g, target) == Operate(g, Opcode.GET_MEMBER, <<>>, target)
WriteSetMember(g, value) == Operate(g, Opcode.SET_MEMBER, <<value>>, NoAddress)
WriteGetStatic(g, target) == Operate(g, Opcode.GET_STATIC_VARIABLE, <<>>, target)
WriteSetStatic(g, value) == Operate(g, Opcode.SET_STATIC_VARIABLE, <<value>>, NoAddress)

JumpIf(g, opcode, address) == Emit(g, <<opcode, Resolve(g, address), 0>>)

WriteIf(g, condition) ==
    LET h == JumpIf(g, Opcode.JUMP_IF_NOT, condition)
    IN [h EXCEPT !.ifs = Append(@, Here(h) - 1)]

WriteElse(g) ==
    LET h == Emit(g, <<Opcode.JUMP, 0>>)
    IN [Patched(h, Last(h.ifs)) EXCEPT !.ifs = Append(Front(@), Here(h) - 1)]

WriteEndIf(g) == [Patched(g, Last(g.ifs)) EXCEPT !.ifs = Front(@)]

(* write_and_left_operand and its three siblings. *)
WriteOperand(g, opcode, operand) ==
    LET h == JumpIf(g, opcode, operand) IN [h EXCEPT !.logic = Append(@, Here(h) - 1)]

(* write_end_and and write_end_or: the value when no operand jumped, and   *)
(* the value where both jumps land.                                        *)
WriteEndLogic(g, target, through, jumped) ==
    LET h == Emit(Emit(g, <<through, Resolve(g, target)>>), <<Opcode.JUMP, 0>>)
        i == PatchAll(h, {Last(h.logic), Last(Front(h.logic))})
    IN [Patched(Emit(i, <<jumped, Resolve(g, target)>>), Here(h) - 1)
            EXCEPT !.logic = Front(Front(@))]

WriteEndAnd(g, target) == WriteEndLogic(g, target, Opcode.ASSIGN_TRUE, Opcode.ASSIGN_FALSE)
WriteEndOr(g, target) == WriteEndLogic(g, target, Opcode.ASSIGN_FALSE, Opcode.ASSIGN_TRUE)

WriteTernaryCondition(g, condition) ==
    LET h == JumpIf(g, Opcode.JUMP_IF_NOT, condition)
    IN [h EXCEPT !.ternary_fail = Append(@, Here(h) - 1)]

WriteTernaryTrue(g, target, value) ==
    LET h == Emit(WriteAssign(g, target, value), <<Opcode.JUMP, 0>>)
    IN [Patched(h, Last(h.ternary_fail))
            EXCEPT !.ternary_fail = Front(@), !.ternary_skip = Append(@, Here(h) - 1)]

WriteTernaryFalse(g, target, value) ==
    LET h == WriteAssign(g, target, value)
    IN [Patched(h, Last(h.ternary_skip)) EXCEPT !.ternary_skip = Front(@)]

-----------------------------------------------------------------------------
(* Loops *)

StartWhile(g) ==
    [g EXCEPT !.continues = Append(@, Here(g)), !.breaks = Append(@, {})]

WriteWhile(g, condition) ==
    LET h == JumpIf(g, Opcode.JUMP_IF_NOT, condition)
    IN [h EXCEPT !.whiles = Append(@, Here(h) - 1)]

WriteEndWhile(g) ==
    LET h == Emit(g, <<Opcode.JUMP, Last(g.continues)>>)
    IN [PatchAll(h, Last(h.breaks) \cup {Last(h.whiles)})
            EXCEPT !.whiles = Front(@), !.breaks = Front(@), !.continues = Front(@)]

(* start_for: counter, container and, over a range, bound and step. *)
StartFor(g, is_range) ==
    LET h == AddLocal(AddLocal(g))
    IN [IF is_range THEN AddLocal(AddLocal(h)) ELSE h EXCEPT !.breaks = Append(@, {})]

(* The length of an advance and of the operand of the jump over it.        *)
(* Mutant: the same for both forms.                                        *)
ListAdvance(is_range) == 6

AdvanceLength(is_range) == IF is_range THEN 7 ELSE 6

(* write_for: begin, a jump over the advance, the advance.                 *)
WriteFor(g, is_range, counter, element) ==
    LET begin == IF is_range
                 THEN <<Opcode.ITERATE_BEGIN_RANGE, counter, counter + 1, counter + 2,
                        counter + 3, element, 0>>
                 ELSE <<Opcode.ITERATE_BEGIN, counter, counter + 1, element, 0>>
        advance == IF is_range
                   THEN <<Opcode.ITERATE_RANGE, counter, counter + 2, counter + 3, element, 0>>
                   ELSE <<Opcode.ITERATE, counter, counter + 1, element, 0>>
        h == Emit(g, begin)
        i == Emit(h, <<Opcode.JUMP, Here(h) + 1 + AdvanceLength(is_range)>>)
        j == Emit(i, advance)
    IN [j EXCEPT !.continues = Append(@, Here(i)),
                 !.fors = @ \o <<Here(h) - 1, Here(j) - 1>>]

WriteEndFor(g) ==
    LET h == Emit(g, <<Opcode.JUMP, Last(g.continues)>>)
    IN [PatchAll(h, Last(h.breaks) \cup {Last(h.fors), Last(Front(h.fors))})
            EXCEPT !.fors = Front(Front(@)), !.breaks = Front(@), !.continues = Front(@)]

WriteBreak(g) ==
    LET h == Emit(g, <<Opcode.JUMP, 0>>)
    IN [h EXCEPT !.breaks[Len(h.breaks)] = @ \cup {Here(h) - 1}]

WriteContinue(g) == Emit(g, <<Opcode.JUMP, Last(g.continues)>>)

-----------------------------------------------------------------------------
(* The function *)

WriteReturn(g, address) == Emit(g, <<Opcode.RETURN, Resolve(g, address)>>)

StartParameters(g, optional) ==
    IF optional = 0 THEN g
    ELSE LET h == Emit(g, <<Opcode.JUMP_TO_DEF_ARGUMENT>>)
         IN [h EXCEPT !.default_arguments = <<Here(h)>>]

AssignDefaultParameter(g, target, source) ==
    LET h == WriteAssign(g, target, source)
    IN [h EXCEPT !.default_arguments = Append(@, Here(h))]

(* Mutant: default values in the order of their parameters. *)
EndParametersInOrder(g) == g

EndParameters(g) == [g EXCEPT !.default_arguments = Reverse(@)]

(* write_end: temporaries move above the locals.  Only their addresses are *)
(* negative words.                                                         *)
WriteEnd(g) ==
    LET h == Emit(g, <<Opcode.END>>)
        top == FirstSlot + h.max_locals
    IN [code |-> [i \in DOMAIN h.code |->
                    IF h.code[i] < 0 THEN top - 1 - h.code[i] ELSE h.code[i]],
        temporaries_begin |-> top,
        stack_size |-> top + Len(h.temporaries),
        default_arguments |-> h.default_arguments]

=============================================================================
