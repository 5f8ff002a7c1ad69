----------------------------- MODULE Statements -----------------------------
(***************************************************************************)
(* What the statements of a function mean, before any lowering: which      *)
(* statement or evaluation follows which, and what each variable in scope  *)
(* holds when a statement begins.                                          *)
(***************************************************************************)
EXTENDS StatementTree

VARIABLES
    at,         \* the last thing that happened
    env,        \* variables in scope -> value, when the last statement began
    member      \* a member of the object, which what is called may assign

-----------------------------------------------------------------------------
(* Control *)

(* What runs when control reaches token m: a statement begins, a loop goes *)
(* round, or the end of an arm leads out of its statement.                 *)
Arrive(n) ==
    LET arrival[m \in 1 .. Len(prog)] ==
            LET o == Last(Nest[m]) IN
            CASE prog[m].op \notin Arms \cup {"end"} -> <<m, 0>>
              [] prog[o].op = "while" -> <<o, 1>>
              [] prog[o].op = "for" -> <<o, NextElement>>
              [] prog[o].op = "func" -> <<0, 1>>
              [] OTHER -> arrival[Beyond(o)]
    IN arrival[n]

(* The part of an expression after its k-th, which gave v; 0 for none.     *)
NextPart(expr, k, v) ==
    CASE expr = "and" /\ k = 1 -> IF Truthy(v) THEN 2 ELSE 0
      [] expr = "or" /\ k = 1 -> IF Truthy(v) THEN 0 ELSE 2
      [] expr = "ternary" -> IF k = 1 THEN (IF Truthy(v) THEN 2 ELSE 3) ELSE 0
      [] OTHER -> IF k < Len(Parts(expr)) THEN k + 1 ELSE 0

ValueOf(expr, v) ==
    IF expr \in {"and", "or"} THEN (IF Truthy(v) THEN True ELSE False) ELSE v

Otherwise(n) ==
    IF NextArms(n) = {} THEN Arrive(Beyond(n))
    ELSE LET m == CHOOSE x \in NextArms(n) : TRUE
         IN IF prog[m].op = "branch" THEN <<m, 0>> ELSE Arrive(m + 1)

(* The arm of a match after k parts of its patterns, the last of which     *)
(* gave v: the next alternative once a test has failed, the guard or the   *)
(* statements behind the last part of one that held.                       *)
Matching(n, k, v) ==
    LET name == prog[n].expr
        last == [a \in 0 .. Len(Alternatives(name)) |->
                    Len(FlattenSeq(SubSeq(Alternatives(name), 1, a)))]
        parts == FlattenSeq(Alternatives(name))
        later == {a \in 1 .. Len(Alternatives(name)) : last[a - 1] >= k}
        guard == Len(parts) + 1
    IN CASE k = guard -> IF Truthy(v) THEN Arrive(n + 1) ELSE Otherwise(n)
         [] k > 0 /\ k # guard /\ parts[k].test /\ ~Truthy(v) ->
                IF later = {} THEN Otherwise(n) ELSE <<n, last[Min(later) - 1] + 1>>
         [] k < guard /\ (k = 0 => parts # <<>>) /\ (k > 0 => k \notin Range(last))
              /\ (k > 0 /\ parts[k].test => Truthy(v)) -> <<n, k + 1>>
         [] OTHER -> IF Guarded(name) THEN <<n, guard>> ELSE Arrive(n + 1)

(* A statement has begun. *)
AfterLine(n) ==
    LET t == prog[n] IN
    CASE t.op = "func" -> IF t.opt > 0 THEN <<1, 1>> ELSE Arrive(2)
      [] t.op = "break" -> Arrive(Beyond(InnerLoop(n)))
      [] t.op = "continue" ->
            <<InnerLoop(n), IF prog[InnerLoop(n)].op = "for" THEN NextElement ELSE 1>>
      [] t.op = "branch" -> Matching(n, 0, Null)
      [] t.op = "return" /\ t.expr = "none" -> <<0, 1>>
      [] t.op = "var" /\ t.expr = "none" -> Arrive(n + 1)
      [] OTHER -> <<n, 1>>

(* The k-th part of statement n gave v. *)
AfterPart(n, k, v) ==
    LET t == prog[n] IN
    CASE t.op = "func" -> IF k < t.opt THEN <<n, k + 1>> ELSE Arrive(n + 1)
      [] t.op = "branch" -> Matching(n, k, v)
      [] k \in {FirstElement, NextElement} ->
            IF v # Null THEN Arrive(n + 1) ELSE Arrive(Beyond(n))
      [] t.op \notin {"func", "branch"} /\ NextPart(t.expr, k, v) # 0 ->
            <<n, NextPart(t.expr, k, v)>>
      [] t.op = "for" -> <<n, FirstElement>>
      [] t.op = "match" -> <<n + 1, 0>>
      [] t.op \in {"if", "while"} ->
            IF Truthy(ValueOf(t.expr, v)) THEN Arrive(n + 1) ELSE Otherwise(n)
      [] t.op = "return" -> <<0, 1>>
      [] t.op = "assert" -> IF Truthy(at.seen[1]) THEN Arrive(n + 1) ELSE <<0, 2>>
      [] OTHER -> Arrive(n + 1)

Following(a) ==
    IF a.part = 0 THEN AfterLine(a.site)
    ELSE AfterPart(a.site, a.part, IF a.seen = <<>> THEN Null ELSE a.seen[a.part])

-----------------------------------------------------------------------------
(* Variables *)

SubjectOf(n) ==
    env[<<CHOOSE m \in Scope(n) : prog[m].op = "match" /\ \A o \in Scope(n) : o <= m,
          "subject">>]

(* What a variable holds when the statement after event a begins.  The     *)
(* evaluations of the function's own token are the missing arguments.      *)
Holds(x, a) ==
    LET b == x[1]
        value == ValueOf(prog[a.site].expr, a.seen[a.part])
    IN
    CASE b = 0 /\ a.site = 1 /\ x \notin DOMAIN env -> a.seen[x[2]]
      [] b # 0 /\ x[2] = "local" /\ a.site = Declaration(b) ->
            IF prog[a.site].expr = "none" THEN Empty(prog[b].local) ELSE value
      [] a.part > 0 /\ prog[a.site].expr \in {"assign", "add"} /\ x = Target(a.site) -> value
      [] b # 0 /\ x[2] \in {"element", "subject"} /\ a.site = b -> value
      [] b # 0 /\ x[2] = "bind" /\ a.site = b ->
            IF BoundParts(prog[b].expr) = {} THEN SubjectOf(b)
            ELSE a.seen[CHOOSE k \in BoundParts(prog[b].expr) : TRUE]
      [] OTHER -> env[x]

(* What the k-th part of statement n is given after event a.               *)
Operands(n, k, a) ==
    LET sources == IF prog[n].op = "branch"
                   THEN LET parts == FlattenSeq(Alternatives(prog[n].expr))
                        IN IF k \in DOMAIN parts THEN parts[k].given ELSE <<>>
                   ELSE IF prog[n].op = "func" \/ k \notin DOMAIN Parts(prog[n].expr) THEN <<>>
                   ELSE Parts(prog[n].expr)[k]
        value(s) ==
            CASE s[1] = "part" -> a.seen[s[2]]
              [] s[1] = "type" -> TypeOf(a.seen[s[2]])
              [] s[1] = "variable" -> env[Target(n)]
              [] s[1] = "before" -> a.before
              [] s[1] = "now" -> member
              [] s[1] = "subject" -> SubjectOf(n)
              [] s[1] = "subject_type" -> TypeOf(SubjectOf(n))
    IN [i \in DOMAIN sources |-> value(sources[i])]

-----------------------------------------------------------------------------
Init ==
    /\ at = Unstarted
    /\ env = <<>>
    /\ member = Null

(* The text is written before it runs. *)
Write ==
    /\ at = Unstarted
    /\ UNCHANGED <<at, env, member>>

(* A call passes some of the parameters.                                   *)
Start ==
    /\ at = Unstarted
    /\ \E g \in 0 .. prog[1].opt :
        /\ at' = [Unstarted EXCEPT !.site = 1, !.part = g]
        /\ env' = [x \in {<<0, k>> : k \in 1 .. g} |-> x[2]]
    /\ UNCHANGED <<prog, member>>

(* A statement begins: its variables are bound. *)
Begin ==
    LET f == Following(at) IN
    /\ at.site # 0 /\ f[1] # 0 /\ f[2] = 0
    /\ at' = EventOf(at, f[1], 0, Null, <<>>, member)
    /\ env' = [x \in Variables(f[1]) |-> Holds(x, at)]
    /\ UNCHANGED <<prog, member>>

(* Part of a statement is evaluated: it gets what it is to be given, and   *)
(* may give any value and assign the member.                               *)
Evaluate ==
    LET f == Following(at) IN
    /\ at.site # 0 /\ f[1] # 0 /\ f[2] # 0
    /\ f[2] \in DOMAIN at'.seen
    /\ at' = EventOf(at, f[1], f[2], at'.seen[f[2]], Operands(f[1], f[2], at), member)
    /\ UNCHANGED <<prog, env>>

(* Whatever is evaluated may raise, which ends the call; so does an        *)
(* assertion that fails.                                                   *)
Fail ==
    LET f == Following(at) IN
    /\ at.site # 0 /\ f[2] # 0 /\ f # <<0, 1>>
    /\ at' = Failed
    /\ env' = <<>>
    /\ UNCHANGED <<prog, member>>

Return ==
    /\ at.site # 0 /\ Following(at) = <<0, 1>>
    /\ at' = Returned(IF prog[at.site].op = "return" /\ at.part # 0
                      THEN ValueOf(prog[at.site].expr, at.seen[at.part]) ELSE Null)
    /\ env' = <<>>
    /\ UNCHANGED <<prog, member>>

Next == Write \/ Start \/ Begin \/ Evaluate \/ Fail \/ Return

Spec == Init /\ [][Next]_<<prog, at, env, member>>

=============================================================================
