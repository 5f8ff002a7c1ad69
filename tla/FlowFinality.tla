---------------------------- MODULE FlowFinality ----------------------------
(***************************************************************************)
(* FLOW_FINALITY, the phase of the analyzer that follows control through a *)
(* function: whether it ends, which final variables are assigned where,    *)
(* and what type a variable has been tested to be.  A class is written     *)
(* token by token and analysed along the way; if there are no errors it is *)
(* made and run, every test either way.                                    *)
(*                                                                         *)
(* The class has final members, _init and one other function.  A function  *)
(* has a parameter of a type that may be narrowed, and final locals, each  *)
(* name declared once.  A head opens a block, "else" and "branch" open the *)
(* next arm, "end" closes the innermost statement.                         *)
(***************************************************************************)
EXTENDS Integers, Sequences, FiniteSets, SequencesExt

CONSTANT Alphabets      \* what is written: kinds of tokens, how many statements and arms

Members == {"m", "k"}
Locals == {"l"}
Finals == Members \cup Locals
Types == {"null", "a", "b"}     \* the parameter s is a union, a? | b
None == "none"

Loops == {"while", "for"}
Arms  == {"else", "branch"}

(* Patterns that may match null and are held to reject it: "_" with a      *)
(* guard, which takes has_wildcard from the arm, and an expression.        *)
MayMatchNull == {"guarded", "expression"}

(* A token assigns or declares "on" and reads "of".                        *)
TokenOK(t) ==
    /\ t.op = "member" => t.on \in Members
    /\ t.op = "var" => t.on \in Locals
    /\ t.op = "assign" => t.on \in Finals \cup {"s"}
    /\ t.op = "match" => t.on \in {"s", None}
    /\ t.of \in Finals => t.op \notin {"func", "else", "noreturn", "break", "continue"}

ASSUME AlphabetsAssumption ==
    \A a \in Alphabets : a.statements \in Nat /\ \A t \in a.tokens : TokenOK(t)

VARIABLES
    alphabet,
    prog,                   \* the tokens written so far
    accepted,               \* no error so far
    state,                  \* FinalAssignmentState of the finals
    flow_narrowed_types,    \* the type s is known to have
    exit,                   \* SuiteExitState of the innermost suite
    blocks,                 \* the statements that are open
    marks,                  \* per token, what the analysis knew in front of it
    pc,                     \* the token to be run, 0 while the class is written
    by,                     \* history: final -> the token that assigned it last
    jumped,                 \* history: ... and whether a jump was taken since
    value,                  \* what s holds
    wrote                   \* history: the token that assigned s last

flow == <<state, flow_narrowed_types, exit, blocks, marks, accepted>>
run == <<pc, by, jumped, value, wrote>>
vars == <<alphabet, prog, flow, run>>

-----------------------------------------------------------------------------
(* The three analyses *)

(* Mutant: what either branch assigns is assigned. *)
MergeEither(first, second) ==
    IF first.reachable = second.reachable
    THEN [assigned |-> first.assigned \cup second.assigned,
          maybe_assigned |-> first.maybe_assigned \cup second.maybe_assigned,
          reachable |-> first.reachable]
    ELSE IF first.reachable THEN first ELSE second

(* Branches that end are not merged, nor what they may have assigned. *)
Merge(first, second) ==
    IF ~first.reachable /\ ~second.reachable
    THEN [assigned |-> {}, maybe_assigned |-> {}, reachable |-> FALSE]
    ELSE IF ~first.reachable THEN second
    ELSE IF ~second.reachable THEN first
    ELSE [assigned |-> first.assigned \cap second.assigned,
          maybe_assigned |-> first.maybe_assigned \cup second.maybe_assigned,
          reachable |-> TRUE]

Unassigned == [assigned |-> {}, maybe_assigned |-> {}, reachable |-> TRUE]
Assigned(s, x) ==
    [s EXCEPT !.assigned = @ \cup {x}, !.maybe_assigned = @ \cup {x}]
Unreachable(s) == [s EXCEPT !.reachable = FALSE]

(* How a statement or suite may be left; has_break is suite_has_reachable_ *)
(* break, asked of the same statements.                                    *)
FallsThrough == [always_terminates |-> FALSE, has_return |-> FALSE, has_break |-> FALSE]

InSuite(suite, statement) ==
    IF suite.always_terminates THEN suite
    ELSE [statement EXCEPT !.has_return = @ \/ suite.has_return, !.has_break = @ \/ suite.has_break]

Either(first, second) ==
    [always_terminates |-> first.always_terminates /\ second.always_terminates,
     has_return |-> first.has_return \/ second.has_return,
     has_break |-> first.has_break \/ second.has_break]

(* Mutant: a break does not keep an endless loop from being endless. *)
LoopExitEndless(cond, body) ==
    [body EXCEPT !.always_terminates = cond = "true", !.has_break = FALSE]

(* A loop that is left only by what ends the function. *)
LoopExit(cond, body) ==
    [body EXCEPT !.always_terminates = cond = "true" /\ ~body.has_break, !.has_break = FALSE]

(* The type of s once a test of it held or failed.  A failed type test     *)
(* leaves the other alternatives of a union.                               *)
NotNull(type) == type \ {"null"}

(* Mutant: what is left is not nullable.                                   *)
OtherThanNotNull(type) ==
    LET alternatives == NotNull(type) IN
    IF Cardinality(alternatives) < 2 \/ "a" \notin alternatives THEN type ELSE alternatives \ {"a"}

OtherThan(type) ==
    LET alternatives == NotNull(type) IN
    IF Cardinality(alternatives) < 2 \/ "a" \notin alternatives THEN type ELSE type \ {"a"}

Narrowed(type, cond, holds) ==
    CASE cond \in {"not_null", "not_null_and"} /\ holds -> NotNull(type)
      [] cond = "is_null" /\ ~holds -> NotNull(type)
      [] cond = "is" -> IF holds THEN {"a"} ELSE OtherThan(type)
      [] cond = "is_not" -> IF holds THEN OtherThan(type) ELSE {"a"}
      [] OTHER -> type

(* The type of s in an arm of a match of s. *)
NarrowedInArm(type, pattern) ==
    CASE pattern = "is" -> {"a"}
      [] pattern \in {"null", "wild"} -> type
      [] OTHER -> NotNull(type)

-----------------------------------------------------------------------------
(* The text *)

Writing == pc = 0 /\ accepted
Top == Last(blocks)
Op(block) == prog[block.head].op
Enclosing == {Op(f) : f \in ToSet(blocks)}
Statements == Cardinality({n \in DOMAIN prog : prog[n].op \notin {"member", "func", "end"}})
HasRoom == Statements < alphabet.statements

(* Members are analysed in _init alone, locals in their own function. *)
InInit == blocks # <<>> /\ prog[blocks[1].head].of = "_init"
Tracked == IF blocks = <<>> \/ InInit THEN Finals ELSE Locals
DeclaredMembers == {prog[n].on : n \in {n \in DOMAIN prog : prog[n].op = "member"}}
BlankFinals ==
    {prog[n].on : n \in {n \in DOMAIN prog : prog[n].op = "member" /\ prog[n].cond = None}}

(* Where the next token stands; the arms around a token.                   *)
Now == [state |-> state, type |-> flow_narrowed_types, exit |-> exit, blocks |-> blocks]
ArmsAround(mark) == {f.arm : f \in ToSet(mark.blocks)}
OwnArm(n) == Last(marks[n].blocks).arm

(* A name that can be looked up there.                                     *)
Visible(x) ==
    CASE x \in Members -> x \in DeclaredMembers
      [] x \in Locals -> \E n \in DOMAIN prog : /\ prog[n].op = "var" /\ prog[n].on = x
                                               /\ OwnArm(n) \in ArmsAround(Now)
      [] OTHER -> TRUE

Writes(t, op) ==
    /\ Writing /\ t.op = op
    /\ Visible(t.of)
    /\ prog' = Append(prog, t)
    /\ marks' = Append(marks, Now)
    /\ UNCHANGED <<alphabet, run>>

(* check_final_reads_in_expression, in a state s. *)
ReadsWell(t, s) == s.reachable /\ t.of \in Tracked => t.of \in s.assigned

Judged(ok) == accepted' = ok

(* A statement that opens no block: what it assigns, how it ends.          *)
Plain(s, type, how) ==
    /\ HasRoom /\ blocks # <<>> /\ (Op(Top) = "match" => Top.arms > 0)
    /\ state' = IF state.reachable THEN s ELSE state
    /\ flow_narrowed_types' = type
    /\ exit' = InSuite(exit, how)
    /\ UNCHANGED blocks

(* A statement that opens a block, whose suite begins in state s.          *)
Opens(t, s, type) ==
    /\ t.op # "func" => HasRoom /\ blocks # <<>> /\ (Op(Top) = "match" => Top.arms > 0)
    /\ blocks' = Append(blocks, [head |-> Len(prog) + 1, arm |-> Len(prog) + 1,
            before |-> state, type |-> flow_narrowed_types, suite |-> exit,
            arms |-> IF t.op = "match" THEN 0 ELSE 1, merged |-> state, exits |-> FallsThrough,
            catchall |-> FALSE, skipped |-> FALSE])
    /\ state' = s
    /\ flow_narrowed_types' = type
    /\ exit' = FallsThrough

Member(t) ==
    /\ Writes(t, "member")
    /\ blocks = <<>> /\ t.on \notin DeclaredMembers
    /\ \A n \in DOMAIN prog : prog[n].op = "member"
    /\ Judged(ReadsWell(t, state))
    /\ state' = IF t.cond = None THEN state ELSE Assigned(state, t.on)
    /\ UNCHANGED <<flow_narrowed_types, exit, blocks>>

(* The token of a function has its name in "of".                           *)
Func(t) ==
    /\ Writes(t, "func")
    /\ blocks = <<>>
    /\ \A n \in DOMAIN prog : prog[n].op = "func" => prog[n].of = "_init" /\ t.of # "_init"
    /\ Opens(t, IF t.of = "_init" THEN state ELSE Unassigned, Types)
    /\ Judged(TRUE)

(* scan_illegal_final_writes: a member is assigned in the body of _init.   *)
IsWritable(t) == t.on \in Members => InInit

(* Mutant: only what is assigned on every path is not assigned again.      *)
AssignmentIsLegalOnSomePath(t) ==
    /\ IsWritable(t)
    /\ state.reachable /\ t.on \in Tracked => t.on \notin state.assigned

(* What may be assigned already is not assigned again.                     *)
AssignmentIsLegal(t) ==
    /\ IsWritable(t)
    /\ state.reachable /\ t.on \in Tracked => t.on \notin state.maybe_assigned

Assignment(t) ==
    /\ Writes(t, "assign")
    /\ Visible(t.on)
    /\ Judged(AssignmentIsLegal(t) /\ ReadsWell(t, state))
    /\ Plain(IF t.on \in Tracked THEN Assigned(state, t.on) ELSE state,
             IF t.on = "s" THEN Types ELSE flow_narrowed_types, FallsThrough)

Var(t) ==
    /\ Writes(t, "var")
    /\ \A n \in DOMAIN prog : ~(prog[n].op = "var" /\ prog[n].on = t.on)
    /\ Judged(ReadsWell(t, state))
    /\ Plain(IF t.cond = None THEN state ELSE Assigned(state, t.on), flow_narrowed_types,
             FallsThrough)

(* An expression, which may read a variable. *)
Use(t) ==
    /\ Writes(t, "use")
    /\ Judged(ReadsWell(t, state))
    /\ Plain(state, flow_narrowed_types, FallsThrough)

AssertStatement(t) ==
    /\ Writes(t, "assert")
    /\ Judged(ReadsWell(t, state))
    /\ Plain(state, Narrowed(flow_narrowed_types, t.cond, TRUE), FallsThrough)

(* A call of a function that is declared not to return. *)
NoReturn(t) ==
    /\ Writes(t, "noreturn")
    /\ Judged(TRUE)
    /\ Plain(Unreachable(state), flow_narrowed_types,
             [FallsThrough EXCEPT !.always_terminates = TRUE])

Return(t) ==
    /\ Writes(t, "return")
    /\ Judged(/\ ReadsWell(t, state)
              /\ InInit /\ state.reachable => DeclaredMembers \subseteq state.assigned)
    /\ Plain(Unreachable(state), flow_narrowed_types,
             [FallsThrough EXCEPT !.always_terminates = TRUE, !.has_return = TRUE])

Jump(t) ==
    /\ Writes(t, t.op) /\ t.op \in {"break", "continue"}
    /\ Enclosing \cap Loops # {}
    /\ Judged(TRUE)
    /\ Plain(Unreachable(state), flow_narrowed_types,
             [FallsThrough EXCEPT !.has_break = t.op = "break"])

If(t) ==
    /\ Writes(t, "if")
    /\ Judged(ReadsWell(t, state))
    /\ Opens(t, state, Narrowed(flow_narrowed_types, t.cond, TRUE))

Else(t) ==
    /\ Writes(t, "else")
    /\ HasRoom /\ blocks # <<>> /\ Op(Top) = "if" /\ Top.arms = 1
    /\ Judged(TRUE)
    /\ blocks' = Front(blocks) \o
           <<[Top EXCEPT !.arm = Len(prog) + 1, !.arms = 2, !.merged = state, !.exits = exit]>>
    /\ state' = Top.before
    /\ flow_narrowed_types' = Narrowed(Top.type, prog[Top.head].cond, FALSE)
    /\ exit' = FallsThrough

While(t) ==
    /\ Writes(t, "while")
    /\ Judged(ReadsWell(t, state))
    /\ Opens(t, state, Narrowed(flow_narrowed_types, t.cond, TRUE))

For(t) ==
    /\ Writes(t, "for")
    /\ Judged(ReadsWell(t, state))
    /\ Opens(t, state, flow_narrowed_types)

Match(t) ==
    /\ Writes(t, "match")
    /\ Judged(ReadsWell(t, state))
    /\ Opens(t, state, flow_narrowed_types)

(* The match with the arm that was open, if there was one, merged.         *)
WithArm(f, s, how) ==
    IF f.arms = 0 THEN f
    ELSE [f EXCEPT !.merged = IF f.skipped THEN @ ELSE IF f.arms = 1 THEN s ELSE Merge(@, s),
                   !.exits = IF f.arms = 1 THEN how ELSE Either(@, how)]

(* An arm: its patterns are read and its suite analysed in the state the   *)
(* match began in, unless one before it matches everything.                *)
Branch(t) ==
    /\ Writes(t, "branch")
    /\ HasRoom /\ blocks # <<>> /\ Op(Top) = "match"
    /\ prog[Top.head].on = None => t.cond \notin {"null", "is"}
    /\ LET f == WithArm(Top, state, exit)
           s == IF f.catchall THEN Unreachable(f.before) ELSE f.before
       IN /\ Judged(ReadsWell(t, s))
          /\ blocks' = Front(blocks) \o
                 <<[f EXCEPT !.arm = Len(prog) + 1, !.arms = @ + 1, !.skipped = f.catchall,
                             !.catchall = @ \/ t.cond = "wild"]>>
          /\ state' = s
          /\ flow_narrowed_types' = IF prog[f.head].on = None THEN f.type
                                    ELSE NarrowedInArm(f.type, t.cond)
          /\ exit' = FallsThrough

(* The end of a statement.  One that cannot be reached changes nothing.    *)
Closes(f, s, how) ==
    /\ state' = IF f.before.reachable THEN s ELSE f.before
    /\ flow_narrowed_types' = f.type
    /\ exit' = InSuite(f.suite, how)
    /\ Judged(TRUE)

EndIf ==
    /\ Op(Top) = "if"
    /\ IF Top.arms = 1 THEN Closes(Top, Merge(state, Top.before), Either(exit, FallsThrough))
       ELSE Closes(Top, Merge(Top.merged, state), Either(Top.exits, exit))

EndLoop ==
    /\ Op(Top) \in Loops
    /\ Closes(Top, [Top.before EXCEPT !.maybe_assigned = @ \cup state.maybe_assigned],
              LoopExit(prog[Top.head].cond, exit))

EndMatch ==
    /\ Op(Top) = "match" /\ Top.arms > 0
    /\ LET f == WithArm(Top, state, exit) IN
       Closes(f, IF f.catchall THEN f.merged ELSE Merge(f.merged, f.before),
              [f.exits EXCEPT !.always_terminates = @ /\ f.catchall])

(* check_final_member_assignments and check_function_flow_finality.        *)
EndFunction ==
    /\ Op(Top) = "func"
    /\ Judged(/\ InInit /\ state.reachable => BlankFinals \subseteq state.assigned
              /\ prog[Top.head].cond = "value" => exit.always_terminates
              /\ prog[Top.head].cond = "never" => exit.always_terminates /\ ~exit.has_return)
    /\ UNCHANGED <<state, flow_narrowed_types, exit>>

End ==
    /\ Writing /\ blocks # <<>>
    /\ EndIf \/ EndLoop \/ EndMatch \/ EndFunction
    /\ blocks' = Front(blocks)
    /\ prog' = Append(prog, [op |-> "end", on |-> None, of |-> None, cond |-> None])
    /\ marks' = Append(marks, Now)
    /\ UNCHANGED <<alphabet, run>>

-----------------------------------------------------------------------------
(* The run: the initializers of the members in order, _init, the function. *)

(* A class with blank finals needs an _init to assign them.                *)
Start ==
    /\ Writing /\ blocks = <<>> /\ prog # <<>>
    /\ Last(prog).op = "end"
    /\ BlankFinals = {} \/ \E n \in DOMAIN prog : prog[n].op = "func" /\ prog[n].of = "_init"
    /\ pc' = 1
    /\ UNCHANGED <<alphabet, prog, flow, by, jumped, value, wrote>>

(* Control stands at a statement, at an arm whose pattern is to be tried,   *)
(* or at the end of a statement.                                           *)
EndOf(h) == CHOOSE e \in DOMAIN prog : prog[e].op = "end" /\ Last(marks[e].blocks).head = h
NextArms(a) == {n \in DOMAIN prog : prog[n].op \in Arms /\ OwnArm(n) = a}

(* Behind token n: the arm that ends there leads out of its statement.     *)
Behind(n) ==
    IF prog[n + 1].op \in Arms THEN EndOf(Last(marks[n + 1].blocks).head) ELSE n + 1

Otherwise(n) ==
    IF NextArms(n) # {}
    THEN LET m == CHOOSE x \in NextArms(n) : TRUE
         IN IF prog[m].op = "branch" THEN m ELSE m + 1
    ELSE CASE prog[n].op \in Loops -> Behind(EndOf(n))
           [] prog[n].op = "branch" -> EndOf(Last(marks[n].blocks).head)
           [] OTHER -> EndOf(n)

Finished == Len(prog) + 1
Running == pc \in DOMAIN prog
At(ops) == Running /\ prog[pc].op \in ops
Here == prog[pc]
Around == Last(marks[pc].blocks)
Leaving == At({"return"}) \/ (At({"end"}) /\ Op(Around) = "func")

InnerLoop ==
    LET s == marks[pc].blocks IN
    s[CHOOSE i \in DOMAIN s : Op(s[i]) \in Loops /\ \A j \in DOMAIN s : j > i => Op(s[j]) \notin Loops].head

(* The finals assigned so far are assigned in front of a jump, or of a     *)
(* loop's next turn.                                                       *)
JumpsBehind == [x \in Finals |-> jumped[x] \/ by[x] # 0]

RunMember ==
    /\ At({"member"})
    /\ by' = [by EXCEPT ![Here.on] = IF Here.cond = None THEN 0 ELSE pc]
    /\ pc' = pc + 1
    /\ UNCHANGED <<jumped, value, wrote>>

RunFunc ==
    /\ At({"func"})
    /\ value' \in Types
    /\ wrote' = 0
    /\ pc' = pc + 1
    /\ UNCHANGED <<by, jumped>>

RunAssignment ==
    /\ At({"assign", "var"})
    /\ IF Here.on = "s"
       THEN value' \in Types /\ wrote' = pc /\ UNCHANGED <<by, jumped>>
       ELSE /\ by' = [by EXCEPT ![Here.on] = IF Here.op = "var" /\ Here.cond = None THEN 0 ELSE pc]
            /\ jumped' = [jumped EXCEPT ![Here.on] = FALSE]
            /\ UNCHANGED <<value, wrote>>
    /\ pc' = Behind(pc)

RunUse ==
    /\ At({"use"})
    /\ pc' = Behind(pc)
    /\ UNCHANGED <<by, jumped, value, wrote>>

(* How a condition may turn out. *)
Outcomes(cond) ==
    CASE cond = "true" -> {TRUE}
      [] cond = "not_null" -> {value # "null"}
      [] cond = "is_null" -> {value = "null"}
      [] cond = "not_null_and" -> IF value = "null" THEN {FALSE} ELSE BOOLEAN
      [] cond = "is" -> {value = "a"}
      [] cond = "is_not" -> {value # "a"}
      [] OTHER -> BOOLEAN

RunTest ==
    /\ At({"if", "while", "for"})
    /\ \E holds \in Outcomes(Here.cond) :
        pc' = IF holds THEN Behind(pc) ELSE Otherwise(pc)
    /\ UNCHANGED <<by, jumped, value, wrote>>

RunAssert ==
    /\ At({"assert"})
    /\ \E holds \in Outcomes(Here.cond) : pc' = IF holds THEN Behind(pc) ELSE Finished
    /\ UNCHANGED <<by, jumped, value, wrote>>

RunMatch ==
    /\ At({"match"})
    /\ pc' = pc + 1
    /\ UNCHANGED <<by, jumped, value, wrote>>

Matches(n) ==
    LET pattern == prog[n].cond
        of_s == prog[Last(marks[n].blocks).head].on = "s"
    IN {holds \in BOOLEAN :
          /\ pattern = "wild" => holds
          /\ of_s /\ pattern = "null" => (holds <=> value = "null")
          /\ of_s /\ pattern = "is" => (holds <=> value = "a")
          /\ of_s /\ pattern \notin {"wild", "null", "is"} \cup MayMatchNull /\ value = "null" => ~ holds}

RunBranch ==
    /\ At({"branch"})
    /\ \E holds \in Matches(pc) : pc' = IF holds THEN Behind(pc) ELSE Otherwise(pc)
    /\ UNCHANGED <<by, jumped, value, wrote>>

RunJump ==
    /\ At({"break", "continue"})
    /\ pc' = IF Here.op = "break" THEN Behind(EndOf(InnerLoop)) ELSE InnerLoop
    /\ jumped' = JumpsBehind
    /\ UNCHANGED <<by, value, wrote>>

RunEnd ==
    /\ At({"end"}) /\ ~Leaving
    /\ IF Op(Around) \in Loops THEN pc' = Around.head /\ jumped' = JumpsBehind
       ELSE pc' = Behind(pc) /\ UNCHANGED jumped
    /\ UNCHANGED <<by, value, wrote>>

(* Out of the function, and its locals with it. *)
RunReturn ==
    /\ Leaving
    /\ pc' = EndOf(marks[pc].blocks[1].head) + 1
    /\ by' = [x \in Finals |-> IF x \in Locals THEN 0 ELSE by[x]]
    /\ UNCHANGED <<jumped, value, wrote>>

RunNoReturn ==
    /\ At({"noreturn"})
    /\ pc' = Finished
    /\ UNCHANGED <<by, jumped, value, wrote>>

-----------------------------------------------------------------------------
Init ==
    /\ alphabet \in Alphabets
    /\ prog = <<>> /\ marks = <<>> /\ blocks = <<>>
    /\ accepted = TRUE
    /\ state = Unassigned
    /\ flow_narrowed_types = Types
    /\ exit = FallsThrough
    /\ pc = 0
    /\ by = [x \in Finals |-> 0]
    /\ jumped = [x \in Finals |-> FALSE]
    /\ value = "null"
    /\ wrote = 0

Run ==
    /\ \/ RunMember \/ RunFunc \/ RunAssignment \/ RunUse \/ RunTest \/ RunAssert \/ RunMatch
       \/ RunBranch \/ RunJump \/ RunEnd \/ RunReturn \/ RunNoReturn
    /\ UNCHANGED <<alphabet, prog, flow>>

Next ==
    \/ \E t \in alphabet.tokens :
        \/ Member(t) \/ Func(t) \/ Assignment(t) \/ Var(t) \/ Use(t) \/ AssertStatement(t) \/ NoReturn(t)
        \/ Return(t) \/ Jump(t) \/ If(t) \/ Else(t) \/ While(t) \/ For(t) \/ Match(t) \/ Branch(t)
    \/ End \/ Start \/ Run

Spec == Init /\ [][Next]_vars

-----------------------------------------------------------------------------
(* Properties *)

(* A final is read only where a value was assigned to it, on every path:   *)
(* by initializers, by _init, by the other function once the instance is   *)
(* made; and _init, left by a return or at its end, has assigned them all. *)
FinalsAreAssigned ==
    Running =>
        /\ Here.of \in Finals => by[Here.of] # 0
        /\ Leaving /\ prog[marks[pc].blocks[1].head].of = "_init" =>
               \A x \in DeclaredMembers : by[x] # 0

(* A second assignment of a final is let through only if a loop has gone   *)
(* round, or a break or continue was taken, since the one before.          *)
TwiceOnlyRoundLoops ==
    At({"assign"}) /\ Here.on \in Finals => by[Here.on] = 0 \/ jumped[Here.on]

(* A function that has to return a value is not left at its end, and one   *)
(* that is declared not to return neither there nor by a return.           *)
ValueIsReturned ==
    Leaving =>
        LET declared == prog[marks[pc].blocks[1].head].cond IN
        /\ declared # "never"
        /\ declared = "value" => Here.op = "return"

(* An arm around token n that may have been taken with null.               *)
InArmOfNull(n) ==
    \E f \in ToSet(marks[n].blocks) :
        prog[f.arm].op = "branch" /\ prog[f.arm].cond \in MayMatchNull /\ prog[f.head].on = "s"

(* Where s is used it has a value of the type it was narrowed to, with the *)
(* exceptions the code makes: if it was assigned further on in a loop, or  *)
(* in a block inside this one, which the analysis does not carry over; and *)
(* for null in an arm that is wrongly held to reject it.                   *)
NarrowedReadsHold ==
    At({"use"}) /\ Here.on = "s" =>
        \/ value \in marks[pc].type
        \/ wrote > pc
        \/ wrote # 0 /\ OwnArm(wrote) \notin ArmsAround(marks[pc])
        \/ value = "null" /\ InArmOfNull(pc)

(* What the tests of the repository say of assignments: one to a narrowed  *)
(* variable clears the type for later reads.                               *)
AssignmentClearsNarrowing ==
    At({"use"}) /\ Here.on = "s" /\ wrote # 0 => value \in marks[pc].type

(* What narrowing is for: s, not assigned since, has in each arm the type  *)
(* which the pattern of the arm left it.                                   *)
ArmsNarrowRightly ==
    At({"use"}) /\ Here.on = "s" /\ wrote = 0 => value \in marks[pc].type

=============================================================================
