------------------------- MODULE FlowFinalityProofs -------------------------
(***************************************************************************)
(* Theorems about FlowFinality, for classes of any size over any           *)
(* alphabets.  What was written is consistent: the analysis in front of    *)
(* each token follows from the one in front of the token before.  From     *)
(* this alone it follows, by induction along the text, how the tokens are  *)
(* nested and what the join of a statement keeps of its arms; and with     *)
(* these, that the run never leaves what the analysis claims: of the       *)
(* finals (Standing), and of the type of s (TypesFit).                     *)
(***************************************************************************)
EXTENDS FlowFinality, WellFoundedInduction, SequenceTheorems, TLAPS

-----------------------------------------------------------------------------
(* The state *)

States == [assigned : SUBSET Finals, maybe_assigned : SUBSET Finals, reachable : BOOLEAN]

ExitStates == [always_terminates : BOOLEAN, has_return : BOOLEAN, has_break : BOOLEAN]

Frames ==
    [head : Nat, arm : Nat, before : States, type : SUBSET Types, suite : ExitStates, arms : Nat,
     merged : States, exits : ExitStates, catchall : BOOLEAN, skipped : BOOLEAN]

Marks == [state : States, type : SUBSET Types, exit : ExitStates, blocks : Seq(Frames)]

EndToken == [op |-> "end", on |-> None, of |-> None, cond |-> None]

Texts == (UNION {a.tokens : a \in Alphabets}) \cup {EndToken}

-----------------------------------------------------------------------------
(* One token of a text p, its n-th, written where the analysis knew a; it  *)
(* knows b behind it.                                                      *)

HeadOf(p, f) == p[f.head]

TrackedAt(p, a) ==
    IF a.blocks = <<>> \/ p[a.blocks[1].head].of = "_init" THEN Finals ELSE Locals

InInitAt(p, a) == a.blocks # <<>> /\ p[a.blocks[1].head].of = "_init"

MembersBefore(p, n) == {k \in 1 .. n - 1 : p[k].op = "member"}

Declared(p, n, op, x) == \E k \in 1 .. n - 1 : p[k].op = op /\ p[k].on = x

Reads(p, a, t, s) == s.reachable /\ t.of \in TrackedAt(p, a) => t.of \in s.assigned

InBody(p, a) ==
    /\ a.blocks # <<>>
    /\ HeadOf(p, Last(a.blocks)).op = "match" => Last(a.blocks).arms > 0

PlainAt(p, a, b, s, type, how) ==
    /\ InBody(p, a)
    /\ b = [state |-> IF a.state.reachable THEN s ELSE a.state, type |-> type,
            exit |-> InSuite(a.exit, how), blocks |-> a.blocks]

Opened(t, n, a) ==
    [head |-> n, arm |-> n, before |-> a.state, type |-> a.type, suite |-> a.exit,
     arms |-> IF t.op = "match" THEN 0 ELSE 1, merged |-> a.state, exits |-> FallsThrough,
     catchall |-> FALSE, skipped |-> FALSE]

OpensAt(p, n, a, b, s, type) ==
    /\ b = [state |-> s, type |-> type, exit |-> FallsThrough,
            blocks |-> Append(a.blocks, Opened(p[n], n, a))]

MemberAt(p, n, a, b) ==
    LET t == p[n] IN
    /\ t.op = "member"
    /\ a.blocks = <<>>
    /\ \A k \in 1 .. n - 1 : p[k].op = "member" /\ p[k].on # t.on
    /\ Reads(p, a, t, a.state)
    /\ b = [a EXCEPT !.state = IF t.cond = None THEN a.state ELSE Assigned(a.state, t.on)]

FuncAt(p, n, a, b) ==
    LET t == p[n] IN
    /\ t.op = "func"
    /\ a.blocks = <<>>
    /\ \A k \in 1 .. n - 1 : p[k].op = "func" => p[k].of = "_init" /\ t.of # "_init"
    /\ OpensAt(p, n, a, b, IF t.of = "_init" THEN a.state ELSE Unassigned, Types)

AssignmentAt(p, n, a, b) ==
    LET t == p[n] IN
    /\ t.op = "assign"
    /\ t.on \in Locals => Declared(p, n, "var", t.on)
    /\ t.on \in Members => InInitAt(p, a)
    /\ a.state.reachable /\ t.on \in TrackedAt(p, a) => t.on \notin a.state.maybe_assigned
    /\ Reads(p, a, t, a.state)
    /\ PlainAt(p, a, b,
               IF t.on \in TrackedAt(p, a) THEN Assigned(a.state, t.on) ELSE a.state,
               IF t.on = "s" THEN Types ELSE a.type, FallsThrough)

VarAt(p, n, a, b) ==
    LET t == p[n] IN
    /\ t.op = "var"
    /\ \A k \in 1 .. n - 1 : ~ (p[k].op = "var" /\ p[k].on = t.on)
    /\ Reads(p, a, t, a.state)
    /\ PlainAt(p, a, b, IF t.cond = None THEN a.state ELSE Assigned(a.state, t.on), a.type,
               FallsThrough)

UseAt(p, n, a, b) ==
    LET t == p[n] IN
    /\ t.op = "use"
    /\ Reads(p, a, t, a.state)
    /\ PlainAt(p, a, b, a.state, a.type, FallsThrough)

AssertAt(p, n, a, b) ==
    LET t == p[n] IN
    /\ t.op = "assert"
    /\ Reads(p, a, t, a.state)
    /\ PlainAt(p, a, b, a.state, Narrowed(a.type, t.cond, TRUE), FallsThrough)

NoReturnAt(p, n, a, b) ==
    /\ p[n].op = "noreturn"
    /\ PlainAt(p, a, b, Unreachable(a.state), a.type,
               [FallsThrough EXCEPT !.always_terminates = TRUE])

ReturnAt(p, n, a, b) ==
    LET t == p[n] IN
    /\ t.op = "return"
    /\ Reads(p, a, t, a.state)
    /\ InInitAt(p, a) /\ a.state.reachable =>
           \A k \in MembersBefore(p, n) : p[k].on \in a.state.assigned
    /\ PlainAt(p, a, b, Unreachable(a.state), a.type,
               [FallsThrough EXCEPT !.always_terminates = TRUE, !.has_return = TRUE])

JumpAt(p, n, a, b) ==
    LET t == p[n] IN
    /\ t.op \in {"break", "continue"}
    /\ \E i \in 1 .. Len(a.blocks) : HeadOf(p, a.blocks[i]).op \in Loops
    /\ PlainAt(p, a, b, Unreachable(a.state), a.type,
               [FallsThrough EXCEPT !.has_break = t.op = "break"])

HeadAt(p, n, a, b) ==
    LET t == p[n] IN
    /\ t.op \in {"if", "while", "for", "match"}
    /\ Reads(p, a, t, a.state)
    /\ InBody(p, a)
    /\ OpensAt(p, n, a, b, a.state,
               IF t.op \in {"if", "while"} THEN Narrowed(a.type, t.cond, TRUE) ELSE a.type)

ElseAt(p, n, a, b) ==
    LET f == Last(a.blocks) IN
    /\ p[n].op = "else"
    /\ a.blocks # <<>> /\ HeadOf(p, f).op = "if" /\ f.arms = 1
    /\ b = [state |-> f.before, type |-> Narrowed(f.type, HeadOf(p, f).cond, FALSE),
            exit |-> FallsThrough,
            blocks |-> Front(a.blocks) \o
                <<[f EXCEPT !.arm = n, !.arms = 2, !.merged = a.state, !.exits = a.exit]>>]

(* The match f with its next arm open, which begins at n. *)
WithBranch(f, n, cond) ==
    [f EXCEPT !.arm = n, !.arms = @ + 1, !.skipped = f.catchall, !.catchall = @ \/ cond = "wild"]

BranchAt(p, n, a, b) ==
    LET t == p[n]
        f == WithArm(Last(a.blocks), a.state, a.exit)
        s == IF f.catchall THEN Unreachable(f.before) ELSE f.before
    IN /\ t.op = "branch"
       /\ a.blocks # <<>> /\ HeadOf(p, Last(a.blocks)).op = "match"
       /\ Reads(p, a, t, s)
       /\ b = [state |-> s,
               type |-> IF HeadOf(p, f).on = None THEN f.type ELSE NarrowedInArm(f.type, t.cond),
               exit |-> FallsThrough,
               blocks |-> Front(a.blocks) \o <<WithBranch(f, n, t.cond)>>]

ClosesAt(f, a, b, s, how) ==
    b = [state |-> IF f.before.reachable THEN s ELSE f.before, type |-> f.type,
         exit |-> InSuite(f.suite, how), blocks |-> Front(a.blocks)]

EndIfAt(p, a, b) ==
    LET f == Last(a.blocks) IN
    /\ HeadOf(p, f).op = "if"
    /\ IF f.arms = 1 THEN ClosesAt(f, a, b, Merge(a.state, f.before), Either(a.exit, FallsThrough))
       ELSE ClosesAt(f, a, b, Merge(f.merged, a.state), Either(f.exits, a.exit))

EndLoopAt(p, a, b) ==
    LET f == Last(a.blocks) IN
    /\ HeadOf(p, f).op \in Loops
    /\ ClosesAt(f, a, b, [f.before EXCEPT !.maybe_assigned = @ \cup a.state.maybe_assigned],
                LoopExit(HeadOf(p, f).cond, a.exit))

EndMatchAt(p, a, b) ==
    LET f == WithArm(Last(a.blocks), a.state, a.exit) IN
    /\ HeadOf(p, Last(a.blocks)).op = "match" /\ Last(a.blocks).arms > 0
    /\ ClosesAt(f, a, b, IF f.catchall THEN f.merged ELSE Merge(f.merged, f.before),
                [f.exits EXCEPT !.always_terminates = @ /\ f.catchall])

EndFunctionAt(p, n, a, b) ==
    LET f == Last(a.blocks) IN
    /\ HeadOf(p, f).op = "func"
    /\ InInitAt(p, a) /\ a.state.reachable =>
           \A k \in MembersBefore(p, n) : p[k].cond = None => p[k].on \in a.state.assigned
    /\ HeadOf(p, f).cond = "value" => a.exit.always_terminates
    /\ HeadOf(p, f).cond = "never" => a.exit.always_terminates /\ ~ a.exit.has_return
    /\ b = [a EXCEPT !.blocks = Front(a.blocks)]

EndAt(p, n, a, b) ==
    /\ p[n] = EndToken
    /\ a.blocks # <<>>
    /\ EndIfAt(p, a, b) \/ EndLoopAt(p, a, b) \/ EndMatchAt(p, a, b) \/ EndFunctionAt(p, n, a, b)

StepAt(p, n, a, b) ==
    /\ p[n].of \in Members => Declared(p, n, "member", p[n].of)
    /\ \/ MemberAt(p, n, a, b) \/ FuncAt(p, n, a, b) \/ AssignmentAt(p, n, a, b)
       \/ VarAt(p, n, a, b) \/ UseAt(p, n, a, b) \/ AssertAt(p, n, a, b) \/ NoReturnAt(p, n, a, b)
       \/ ReturnAt(p, n, a, b) \/ JumpAt(p, n, a, b) \/ HeadAt(p, n, a, b) \/ ElseAt(p, n, a, b)
       \/ BranchAt(p, n, a, b) \/ EndAt(p, n, a, b)

Beginning == [state |-> Unassigned, type |-> Types, exit |-> FallsThrough, blocks |-> <<>>]

(* The text p was written through the marks m. *)
Consistent(p, m) ==
    /\ p \in Seq(Texts)
    /\ m \in Seq(Marks)
    /\ Len(m) = Len(p) + 1
    /\ m[1] = Beginning
    /\ \A n \in 1 .. Len(p) : StepAt(p, n, m[n], m[n + 1])

Marked == Append(marks, Now)

IInv ==
    /\ marks \in Seq(Marks) /\ Now \in Marks /\ prog \in Seq(Texts)
    /\ alphabet \in Alphabets /\ accepted \in BOOLEAN /\ pc \in Nat
    /\ accepted => Consistent(prog, Marked)

-----------------------------------------------------------------------------
(* Induction along a text *)

(* A set of naturals with a member has a least one. *)
LEMMA Least ==
    ASSUME NEW T \in SUBSET Nat, T # {}
    PROVE  \E n \in T : \A m \in T : n <= m
<1>. DEFINE R == OpToRel(<, Nat)
<1>1. PICK n \in T : \A m \in T : ~ (<<m, n>> \in R)
  BY NatLessThanWellFounded, WFMin
<1>2. \A m \in T : ~ (m < n)
  BY <1>1 DEF OpToRel
<1>. QED
  BY <1>2

(* ... so a set that has 1 and the successors of its members up to N has   *)
(* all numbers from 1 to N + 1.                                            *)
LEMMA Inductive ==
    ASSUME NEW N \in Nat, NEW T, 1 \in T, \A n \in 1 .. N : n \in T => n + 1 \in T
    PROVE  \A n \in 1 .. N + 1 : n \in T
<1>. DEFINE B == (1 .. N + 1) \ T
<1>. SUFFICES ASSUME B # {} PROVE FALSE
  OBVIOUS
<1>0. B \in SUBSET Nat
  OBVIOUS
<1>1. PICK n \in B : \A m \in B : n <= m
  <2>. HIDE DEF B
  <2>. QED
    BY <1>0, Least
<1>2. n # 1 /\ n - 1 \in 1 .. N /\ n - 1 \in T
  BY <1>1
<1>3. n - 1 + 1 \in T
  BY <1>2
<1>. QED
  BY <1>1, <1>2, <1>3

(* The longest prefix, and something in place of the last element. *)
LEMMA FrontIs ==
    ASSUME NEW S, NEW s \in Seq(S), s # <<>>
    PROVE  /\ Len(s) \in Nat \ {0} /\ Last(s) = s[Len(s)] /\ Last(s) \in S
           /\ Front(s) \in Seq(S)
           /\ Len(Front(s)) = Len(s) - 1
           /\ \A i \in 1 .. Len(s) - 1 : Front(s)[i] = s[i]
<1>1. Len(s) \in Nat \ {0} /\ Last(s) = s[Len(s)] /\ Last(s) \in S
  BY EmptySeq, LenProperties, ElementOfSeq DEF Last
<1>2. \A i \in 1 .. Len(s) - 1 : s[i] \in S
  BY <1>1, ElementOfSeq
<1>. DEFINE k == Len(s) - 1
<1>3. k \in Int /\ 1 \in Int
  BY <1>1
<1>4. \A i \in 1 .. k : s[i] \in S
  BY <1>2
<1>. HIDE DEF k
<1>5. /\ SubSeq(s, 1, k) \in Seq(S)
      /\ Len(SubSeq(s, 1, k)) = IF 1 <= k THEN k - 1 + 1 ELSE 0
      /\ \A i \in 1 .. k - 1 + 1 : SubSeq(s, 1, k)[i] = s[1 + i - 1]
  BY <1>3, <1>4, SubSeqProperties
<1>6. \A i \in 1 .. k : SubSeq(s, 1, k)[i] = s[i]
  BY <1>3, <1>5
<1>7. k = Len(s) - 1 /\ Front(s) = SubSeq(s, 1, k)
  BY DEF Front, k
<1>. HIDE DEF Front
<1>. QED
  BY <1>1, <1>3, <1>5, <1>6, <1>7

(* A sequence with its last element replaced. *)
LEMMA ReplacedIs ==
    ASSUME NEW S, NEW s \in Seq(S), s # <<>>, NEW x \in S
    PROVE  /\ Front(s) \o <<x>> \in Seq(S)
           /\ Len(Front(s) \o <<x>>) = Len(s)
           /\ (Front(s) \o <<x>>)[Len(s)] = x
           /\ \A i \in 1 .. Len(s) - 1 : (Front(s) \o <<x>>)[i] = s[i]
<1>1. /\ Len(s) \in Nat \ {0}
      /\ Front(s) \in Seq(S)
      /\ Len(Front(s)) = Len(s) - 1
      /\ \A i \in 1 .. Len(s) - 1 : Front(s)[i] = s[i]
  BY FrontIs
<1>2. <<x>> \in Seq(S) /\ Len(<<x>>) = 1 /\ <<x>>[1] = x
  OBVIOUS
<1>. QED
  BY <1>1, <1>2, ConcatProperties

-----------------------------------------------------------------------------
(* How the blocks go on *)

PlainOps == {"member", "assign", "var", "use", "assert", "noreturn", "return", "break", "continue"}
Heads    == {"func", "if", "while", "for", "match"}

(* The frame f of a statement goes on as g with an arm that begins at n.   *)
NextArm(f, g, n) ==
    /\ g.head = f.head /\ g.before = f.before /\ g.type = f.type /\ g.suite = f.suite
    /\ g.arm = n

BlocksAt(p, n, a, b) ==
    LET s == a.blocks
        u == b.blocks
        D == Len(s)
    IN /\ p[n].op \in PlainOps \cup Heads \cup Arms \cup {"end"}
       /\ p[n].op \in PlainOps => u = s
       /\ p[n].op \in Heads =>
              /\ Len(u) = D + 1
              /\ u[D + 1] = Opened(p[n], n, a)
              /\ \A i \in 1 .. D : u[i] = s[i]
       /\ p[n].op \in Arms =>
              /\ D > 0 /\ Len(u) = D
              /\ NextArm(s[D], u[D], n)
              /\ \A i \in 1 .. D - 1 : u[i] = s[i]
       /\ p[n].op = "end" =>
              /\ D > 0 /\ Len(u) = D - 1
              /\ \A i \in 1 .. D - 1 : u[i] = s[i]

(* A join of two states is a state. *)
LEMMA MergeType ==
    ASSUME NEW s \in States, NEW r \in States
    PROVE  Merge(s, r) \in States
BY DEF Merge, States

(* Two ways to leave, taken together, are one. *)
LEMMA EitherType ==
    ASSUME NEW s \in ExitStates, NEW r \in ExitStates
    PROVE  Either(s, r) \in ExitStates
BY DEF Either, ExitStates

(* The match with the open arm merged: what changes and what does not. *)
LEMMA ArmType ==
    ASSUME NEW f \in Frames, NEW s \in States, NEW how \in ExitStates
    PROVE  LET g == WithArm(f, s, how) IN
           /\ g \in Frames
           /\ g.head = f.head /\ g.before = f.before /\ g.type = f.type /\ g.suite = f.suite
           /\ g.arm = f.arm /\ g.arms = f.arms
           /\ g.catchall = f.catchall /\ g.skipped = f.skipped
           /\ f.arms > 0 =>
                /\ g.merged = IF f.skipped THEN f.merged
                              ELSE IF f.arms = 1 THEN s ELSE Merge(f.merged, s)
                /\ g.exits = IF f.arms = 1 THEN how ELSE Either(f.exits, how)
           /\ f.arms = 0 => g.merged = f.merged
<1>1. f.merged \in States /\ f.exits \in ExitStates
  BY DEF Frames
<1>. DEFINE merged == IF f.skipped THEN f.merged ELSE IF f.arms = 1 THEN s ELSE Merge(f.merged, s)
            exits == IF f.arms = 1 THEN how ELSE Either(f.exits, how)
<1>2. merged \in States /\ exits \in ExitStates
  BY <1>1, MergeType, EitherType
<1>3. CASE f.arms = 0
  BY <1>3 DEF WithArm
<1>4. CASE f.arms # 0
  <2>1. WithArm(f, s, how) = [f EXCEPT !.merged = merged, !.exits = exits]
    BY <1>4 DEF WithArm
  <2>. HIDE DEF merged, exits
  <2>2. LET g == WithArm(f, s, how) IN
           /\ g \in Frames
           /\ g.head = f.head /\ g.before = f.before /\ g.type = f.type /\ g.suite = f.suite
           /\ g.arm = f.arm /\ g.arms = f.arms
           /\ g.catchall = f.catchall /\ g.skipped = f.skipped
           /\ g.merged = merged /\ g.exits = exits
    BY <1>2, <2>1 DEF Frames
  <2>. QED
    BY <1>4, <2>2 DEF merged, exits
<1>. QED
  BY <1>3, <1>4 DEF Frames

(* The open statements with the innermost one replaced. *)
LEMMA ReplacedBlocks ==
    ASSUME NEW s \in Seq(Frames), s # <<>>, NEW g \in Frames, NEW u, u = Front(s) \o <<g>>
    PROVE  /\ Len(u) = Len(s)
           /\ u[Len(s)] = g
           /\ \A i \in 1 .. Len(s) - 1 : u[i] = s[i]
BY ReplacedIs

(* The next arm is opened in a frame. *)
LEMMA WithBranchIs ==
    ASSUME NEW f \in Frames, NEW n \in Nat, NEW cond
    PROVE  /\ WithBranch(f, n, cond) \in Frames
           /\ WithBranch(f, n, cond).arm = n
           /\ WithBranch(f, n, cond).arms = f.arms + 1
           /\ WithBranch(f, n, cond).skipped = f.catchall
           /\ WithBranch(f, n, cond).catchall <=> f.catchall \/ cond = "wild"
           /\ WithBranch(f, n, cond).head = f.head /\ WithBranch(f, n, cond).before = f.before
           /\ WithBranch(f, n, cond).type = f.type /\ WithBranch(f, n, cond).suite = f.suite
           /\ WithBranch(f, n, cond).merged = f.merged /\ WithBranch(f, n, cond).exits = f.exits
<1>. DEFINE k == f.arms + 1
            c == f.catchall
            w == f.catchall \/ cond = "wild"
            g == [f EXCEPT !.arm = n, !.arms = k, !.skipped = c, !.catchall = w]
<1>1. WithBranch(f, n, cond) = g
  BY DEF WithBranch, Frames
<1>2. k \in Nat /\ c \in BOOLEAN /\ w \in BOOLEAN
  BY DEF Frames
<1>3. k = f.arms + 1 /\ c = f.catchall /\ (w <=> f.catchall \/ cond = "wild")
  OBVIOUS
<1>. HIDE DEF k, c, w
<1>4. g \in Frames
  BY <1>2 DEF Frames
<1>5. /\ g.arm = n /\ g.arms = k /\ g.skipped = c /\ g.catchall = w
      /\ g.head = f.head /\ g.before = f.before /\ g.type = f.type /\ g.suite = f.suite
      /\ g.merged = f.merged /\ g.exits = f.exits
  BY DEF Frames
<1>. HIDE DEF g
<1>. QED
  BY <1>1, <1>3, <1>4, <1>5

(* What a token does to the open statements. *)
LEMMA BlocksStep ==
    ASSUME NEW p, NEW n \in Nat, NEW a \in Marks, NEW b \in Marks, StepAt(p, n, a, b)
    PROVE  BlocksAt(p, n, a, b)
<1>1. a.blocks \in Seq(Frames) /\ b.blocks \in Seq(Frames) /\ Len(a.blocks) \in Nat
  BY DEF Marks
<1>2. CASE MemberAt(p, n, a, b)
  BY <1>1, <1>2 DEF MemberAt, BlocksAt, PlainOps, Heads, Arms, Marks
<1>3. CASE \/ AssignmentAt(p, n, a, b) \/ VarAt(p, n, a, b) \/ UseAt(p, n, a, b)
           \/ AssertAt(p, n, a, b) \/ NoReturnAt(p, n, a, b) \/ ReturnAt(p, n, a, b)
           \/ JumpAt(p, n, a, b)
  <2>1. p[n].op \in PlainOps
    BY <1>3 DEF AssignmentAt, VarAt, UseAt, AssertAt, NoReturnAt, ReturnAt, JumpAt, PlainOps
  <2>2. \A s, type, how : PlainAt(p, a, b, s, type, how) => b.blocks = a.blocks
    BY DEF PlainAt
  <2>3. b.blocks = a.blocks
    BY <1>3, <2>2 DEF AssignmentAt, VarAt, UseAt, AssertAt, NoReturnAt, ReturnAt, JumpAt
  <2>. QED
    BY <2>1, <2>3 DEF BlocksAt, PlainOps, Heads, Arms
<1>4. CASE FuncAt(p, n, a, b) \/ HeadAt(p, n, a, b)
  <2>0. p[n].op \in Heads
    BY <1>4 DEF FuncAt, HeadAt, Heads
  <2>1a. \A s, type : OpensAt(p, n, a, b, s, type) => b.blocks = Append(a.blocks, Opened(p[n], n, a))
    BY DEF OpensAt
  <2>1. b.blocks = Append(a.blocks, Opened(p[n], n, a))
    BY <1>4, <2>1a DEF FuncAt, HeadAt
  <2>. HIDE DEF Opened
  <2>2. /\ Len(b.blocks) = Len(a.blocks) + 1
        /\ b.blocks[Len(a.blocks) + 1] = Opened(p[n], n, a)
        /\ \A i \in 1 .. Len(a.blocks) : b.blocks[i] = a.blocks[i]
    BY <1>1, <2>1 DEF Opened
  <2>. QED
    BY <2>0, <2>2 DEF BlocksAt, PlainOps, Heads, Arms
<1>5. CASE ElseAt(p, n, a, b)
  <2>. DEFINE f == Last(a.blocks)
              g == [f EXCEPT !.arm = n, !.arms = 2, !.merged = a.state, !.exits = a.exit]
  <2>1. a.blocks # <<>> /\ b.blocks = Front(a.blocks) \o <<g>> /\ p[n].op = "else"
    BY <1>5 DEF ElseAt
  <2>2. f = a.blocks[Len(a.blocks)] /\ f \in Frames /\ Len(a.blocks) > 0
    BY <1>1, <2>1, FrontIs
  <2>3. g \in Frames /\ NextArm(f, g, n)
    BY <2>2 DEF Frames, NextArm, Marks
  <2>. HIDE DEF f, g
  <2>4. /\ Len(b.blocks) = Len(a.blocks)
        /\ b.blocks[Len(a.blocks)] = g
        /\ \A i \in 1 .. Len(a.blocks) - 1 : b.blocks[i] = a.blocks[i]
    <3>. DEFINE s == a.blocks
                u == b.blocks
    <3>1. s \in Seq(Frames) /\ s # <<>> /\ g \in Frames /\ u = Front(s) \o <<g>>
      BY <1>1, <2>1, <2>3
    <3>. HIDE DEF s, u
    <3>2. /\ Len(u) = Len(s)
          /\ u[Len(s)] = g
          /\ \A i \in 1 .. Len(s) - 1 : u[i] = s[i]
      BY <3>1, ReplacedBlocks
    <3>. QED
      BY <3>2 DEF s, u
  <2>. QED
    BY <2>1, <2>2, <2>3, <2>4 DEF BlocksAt, PlainOps, Heads, Arms
<1>6. CASE BranchAt(p, n, a, b)
  <2>. DEFINE f == WithArm(Last(a.blocks), a.state, a.exit)
              g == WithBranch(f, n, p[n].cond)
  <2>1. a.blocks # <<>> /\ b.blocks = Front(a.blocks) \o <<g>> /\ p[n].op = "branch"
    BY <1>6 DEF BranchAt
  <2>2. Last(a.blocks) = a.blocks[Len(a.blocks)] /\ Last(a.blocks) \in Frames /\ Len(a.blocks) > 0
    BY <1>1, <2>1, FrontIs
  <2>3. f \in Frames /\ f.head = Last(a.blocks).head /\ f.before = Last(a.blocks).before
        /\ f.type = Last(a.blocks).type /\ f.suite = Last(a.blocks).suite
    BY <2>2, ArmType DEF Marks
  <2>. HIDE DEF f
  <2>3a. g \in Frames /\ NextArm(Last(a.blocks), g, n)
    BY <2>3, WithBranchIs DEF NextArm
  <2>. HIDE DEF f, g
  <2>4. /\ Len(b.blocks) = Len(a.blocks)
        /\ b.blocks[Len(a.blocks)] = g
        /\ \A i \in 1 .. Len(a.blocks) - 1 : b.blocks[i] = a.blocks[i]
    <3>. DEFINE s == a.blocks
                u == b.blocks
    <3>1. s \in Seq(Frames) /\ s # <<>> /\ g \in Frames /\ u = Front(s) \o <<g>>
      BY <1>1, <2>1, <2>3a
    <3>. HIDE DEF s, u
    <3>2. /\ Len(u) = Len(s)
          /\ u[Len(s)] = g
          /\ \A i \in 1 .. Len(s) - 1 : u[i] = s[i]
      BY <3>1, ReplacedBlocks
    <3>. QED
      BY <3>2 DEF s, u
  <2>. QED
    BY <2>1, <2>2, <2>3a, <2>4 DEF BlocksAt, PlainOps, Heads, Arms
<1>7. CASE EndAt(p, n, a, b)
  <2>1. a.blocks # <<>> /\ b.blocks = Front(a.blocks) /\ p[n].op = "end"
    BY <1>7 DEF EndAt, EndIfAt, EndLoopAt, EndMatchAt, EndFunctionAt, ClosesAt, Marks, EndToken
  <2>2. Len(a.blocks) > 0
    BY <1>1, <2>1, FrontIs
  <2>3. /\ Len(b.blocks) = Len(a.blocks) - 1
        /\ \A i \in 1 .. Len(a.blocks) - 1 : b.blocks[i] = a.blocks[i]
    BY <1>1, <2>1, FrontIs
  <2>. QED
    BY <2>1, <2>2, <2>3 DEF BlocksAt, PlainOps, Heads, Arms
<1>. QED
  BY <1>2, <1>3, <1>4, <1>5, <1>6, <1>7 DEF StepAt

-----------------------------------------------------------------------------
(* How the tokens are nested *)

Depth(m, n)   == Len(m[n].blocks)
Open(m, n, i) == m[n].blocks[i]

(* One token on, in a text that is consistent. *)
LEMMA Onward ==
    ASSUME NEW p, NEW m, Consistent(p, m), NEW n \in 1 .. Len(p)
    PROVE  /\ m[n] \in Marks /\ m[n + 1] \in Marks /\ StepAt(p, n, m[n], m[n + 1])
           /\ Depth(m, n) \in Nat /\ Depth(m, n + 1) \in Nat
           /\ \A i \in 1 .. Depth(m, n) : Open(m, n, i) \in Frames
           /\ \A i \in 1 .. Depth(m, n + 1) : Open(m, n + 1, i) \in Frames
           /\ p[n].op \in PlainOps \cup Heads \cup Arms \cup {"end"}
           /\ p[n].op \in PlainOps =>
                /\ Depth(m, n + 1) = Depth(m, n)
                /\ \A i \in 1 .. Depth(m, n) : Open(m, n + 1, i) = Open(m, n, i)
           /\ p[n].op \in Heads =>
                /\ Depth(m, n + 1) = Depth(m, n) + 1
                /\ Open(m, n + 1, Depth(m, n) + 1) = Opened(p[n], n, m[n])
                /\ \A i \in 1 .. Depth(m, n) : Open(m, n + 1, i) = Open(m, n, i)
           /\ p[n].op \in Arms =>
                /\ Depth(m, n) > 0 /\ Depth(m, n + 1) = Depth(m, n)
                /\ NextArm(Open(m, n, Depth(m, n)), Open(m, n + 1, Depth(m, n)), n)
                /\ \A i \in 1 .. Depth(m, n) - 1 : Open(m, n + 1, i) = Open(m, n, i)
           /\ p[n].op = "end" =>
                /\ Depth(m, n) > 0 /\ Depth(m, n + 1) = Depth(m, n) - 1
                /\ \A i \in 1 .. Depth(m, n) - 1 : Open(m, n + 1, i) = Open(m, n, i)
<1>1. m[n] \in Marks /\ m[n + 1] \in Marks /\ StepAt(p, n, m[n], m[n + 1])
  BY DEF Consistent
<1>. DEFINE s == m[n].blocks
            u == m[n + 1].blocks
<1>2. s \in Seq(Frames) /\ u \in Seq(Frames)
  BY <1>1 DEF Marks
<1>. HIDE DEF s, u
<1>3. /\ Len(s) \in Nat /\ Len(u) \in Nat
      /\ \A i \in 1 .. Len(s) : s[i] \in Frames
      /\ \A i \in 1 .. Len(u) : u[i] \in Frames
  BY <1>2, LenProperties, ElementOfSeq
<1>4. BlocksAt(p, n, m[n], m[n + 1])
  BY <1>1, BlocksStep
<1>. QED
  BY <1>1, <1>3, <1>4 DEF BlocksAt, Depth, Open, s, u

(* How many statements are open behind it, ...                             *)
LEMMA Depths ==
    ASSUME NEW p, NEW m, Consistent(p, m), NEW n \in 1 .. Len(p)
    PROVE  /\ Depth(m, n) \in Nat /\ Depth(m, n + 1) \in Nat
           /\ p[n].op \in PlainOps \cup Heads \cup Arms \cup {"end"}
           /\ p[n].op \in PlainOps \cup Arms => Depth(m, n + 1) = Depth(m, n)
           /\ p[n].op \in Heads => Depth(m, n + 1) = Depth(m, n) + 1
           /\ p[n].op = "end" => Depth(m, n) > 0 /\ Depth(m, n + 1) = Depth(m, n) - 1
BY Onward

(* ... and which, behind a plain statement, ...                            *)
LEMMA AtPlain ==
    ASSUME NEW p, NEW m, Consistent(p, m), NEW n \in 1 .. Len(p), p[n].op \in PlainOps
    PROVE  /\ Depth(m, n) \in Nat /\ Depth(m, n + 1) = Depth(m, n)
           /\ \A i \in 1 .. Depth(m, n) : Open(m, n + 1, i) = Open(m, n, i)
BY Onward

(* ... behind a head, ...                                                  *)
LEMMA AtHead ==
    ASSUME NEW p, NEW m, Consistent(p, m), NEW n \in 1 .. Len(p), p[n].op \in Heads
    PROVE  /\ Depth(m, n) \in Nat /\ Depth(m, n + 1) = Depth(m, n) + 1
           /\ Open(m, n + 1, Depth(m, n) + 1) = Opened(p[n], n, m[n])
           /\ \A i \in 1 .. Depth(m, n) : Open(m, n + 1, i) = Open(m, n, i)
BY Onward

(* ... behind an end, ...                                                  *)
LEMMA AtEnd ==
    ASSUME NEW p, NEW m, Consistent(p, m), NEW n \in 1 .. Len(p), p[n].op = "end"
    PROVE  Depth(m, n) \in Nat \ {0} /\ Depth(m, n + 1) = Depth(m, n) - 1
BY Depths

(* ... and behind an arm.                                                  *)
LEMMA AtArm ==
    ASSUME NEW p, NEW m, Consistent(p, m), NEW n \in 1 .. Len(p), p[n].op \in Arms
    PROVE  /\ Depth(m, n) \in Nat \ {0} /\ Depth(m, n + 1) = Depth(m, n)
           /\ Open(m, n, Depth(m, n)) \in Frames /\ Open(m, n + 1, Depth(m, n)) \in Frames
           /\ NextArm(Open(m, n, Depth(m, n)), Open(m, n + 1, Depth(m, n)), n)
<1>1. /\ Depth(m, n) \in Nat /\ Depth(m, n) > 0 /\ Depth(m, n + 1) = Depth(m, n)
      /\ NextArm(Open(m, n, Depth(m, n)), Open(m, n + 1, Depth(m, n)), n)
  BY Onward
<1>2. Depth(m, n) \in Nat \ {0} /\ Depth(m, n) \in 1 .. Depth(m, n) /\ Depth(m, n) \in 1 .. Depth(m, n + 1)
  BY <1>1
<1>3. Open(m, n, Depth(m, n)) \in Frames /\ Open(m, n + 1, Depth(m, n)) \in Frames
  BY <1>2, Onward
<1>. QED
  BY <1>1, <1>2, <1>3

(* The i-th frame in front of token n, that of a head, ...                 *)
Rooted(p, m, n, i) ==
    LET f == Open(m, n, i) IN
    /\ f.head \in 1 .. n - 1
    /\ p[f.head].op \in Heads
    /\ Depth(m, f.head) = i - 1
    /\ f.before = m[f.head].state /\ f.type = m[f.head].type /\ f.suite = m[f.head].exit

(* ... has been there from the head on, and those below it before,         *)
Stays(m, n, i) ==
    LET h == Open(m, n, i).head IN
    \A k \in h + 1 .. n :
        /\ Depth(m, k) >= i
        /\ Open(m, k, i).head = h
        /\ \A j \in 1 .. i - 1 : Open(m, k, j) = Open(m, h, j)

(* ... and has been the same since its arm.                                *)
ArmStays(p, m, n, i) ==
    LET f == Open(m, n, i) IN
    /\ f.arm \in f.head .. n - 1
    /\ \A k \in f.arm + 1 .. n : Open(m, k, i) = f
    /\ f.arm # f.head => p[f.arm].op \in Arms /\ Depth(m, f.arm) = i

NestedAt(p, m, n, i) == Rooted(p, m, n, i) /\ Stays(m, n, i) /\ ArmStays(p, m, n, i)

Nested(p, m, n) == \A i \in 1 .. Depth(m, n) : NestedAt(p, m, n, i)

(* A head is nested in front of its body. *)
LEMMA NestedOpened ==
    ASSUME NEW p, NEW m, Consistent(p, m), NEW n \in 1 .. Len(p), p[n].op \in Heads
    PROVE  NestedAt(p, m, n + 1, Depth(m, n) + 1)
<1>. DEFINE i == Depth(m, n) + 1
            f == Open(m, n + 1, i)
<1>1. /\ f = Opened(p[n], n, m[n]) /\ i \in Nat /\ Depth(m, n + 1) = i /\ n \in Nat
      /\ \A j \in 1 .. i - 1 : Open(m, n + 1, j) = Open(m, n, j)
  BY Onward
<1>2. /\ f.head = n /\ f.arm = n /\ f.before = m[n].state /\ f.type = m[n].type
      /\ f.suite = m[n].exit
  BY <1>1 DEF Opened
<1>. HIDE DEF f
<1>3. Rooted(p, m, n + 1, i)
  <2>1. /\ f.head \in 1 .. n + 1 - 1
        /\ p[f.head].op \in Heads
        /\ Depth(m, f.head) = i - 1
    <3>1. f.head \in 1 .. n + 1 - 1
      BY <1>1, <1>2
    <3>2. p[f.head].op \in Heads
      BY <1>2
    <3>3. Depth(m, f.head) = i - 1
      BY <1>1, <1>2, Onward
    <3>. QED
      BY <3>1, <3>2, <3>3
  <2>2. f.before = m[f.head].state /\ f.type = m[f.head].type /\ f.suite = m[f.head].exit
    BY <1>2
  <2>. QED
    BY <2>1, <2>2 DEF Rooted, f
<1>4. Stays(m, n + 1, i)
  BY <1>1, <1>2 DEF Stays, f
<1>5. ArmStays(p, m, n + 1, i)
  BY <1>1, <1>2 DEF ArmStays, f
<1>. QED
  BY <1>3, <1>4, <1>5 DEF NestedAt

(* What stays open stays nested. *)
LEMMA NestedKept ==
    ASSUME NEW p, NEW m, Consistent(p, m), NEW n \in 1 .. Len(p), Nested(p, m, n),
           NEW i \in 1 .. Depth(m, n), i <= Depth(m, n + 1),
           \A j \in 1 .. i : Open(m, n + 1, j) = Open(m, n, j)
    PROVE  NestedAt(p, m, n + 1, i)
<1>1. NestedAt(p, m, n, i)
  BY DEF Nested
<1>. DEFINE f == Open(m, n, i)
<1>2. Open(m, n + 1, i) = f /\ n \in Nat /\ i \in Nat
  BY Onward
<1>3. f.head \in 1 .. n - 1 /\ f.arm \in f.head .. n - 1
  BY <1>1 DEF NestedAt, Rooted, ArmStays
<1>4. Rooted(p, m, n + 1, i)
  BY <1>1, <1>2, <1>3 DEF NestedAt, Rooted
<1>5. Stays(m, n + 1, i)
  <2>1. \A k \in f.head + 1 .. n :
            /\ Depth(m, k) >= i
            /\ Open(m, k, i).head = f.head
            /\ \A j \in 1 .. i - 1 : Open(m, k, j) = Open(m, f.head, j)
    BY <1>1 DEF NestedAt, Stays
  <2>. HIDE DEF f
  <2>2. \A j \in 1 .. i - 1 : Open(m, n + 1, j) = Open(m, f.head, j)
    BY <1>2, <1>3, <2>1
  <2>3. \A k \in f.head + 1 .. n + 1 :
            /\ Depth(m, k) >= i
            /\ Open(m, k, i).head = f.head
            /\ \A j \in 1 .. i - 1 : Open(m, k, j) = Open(m, f.head, j)
    BY <1>2, <1>3, <2>1, <2>2
  <2>. QED
    BY <1>2, <2>3 DEF Stays, f
<1>6. ArmStays(p, m, n + 1, i)
  <2>1. /\ \A k \in f.arm + 1 .. n : Open(m, k, i) = f
        /\ f.arm # f.head => p[f.arm].op \in Arms /\ Depth(m, f.arm) = i
    BY <1>1 DEF NestedAt, ArmStays
  <2>. HIDE DEF f
  <2>2. \A k \in f.arm + 1 .. n + 1 : Open(m, k, i) = f
    BY <1>2, <1>3, <2>1
  <2>. QED
    BY <1>2, <1>3, <2>1, <2>2 DEF ArmStays
<1>. QED
  BY <1>4, <1>5, <1>6 DEF NestedAt

(* An arm is nested in front of its body. *)
LEMMA NestedInNextArm ==
    ASSUME NEW p, NEW m, Consistent(p, m), NEW n \in 1 .. Len(p), Nested(p, m, n),
           p[n].op \in Arms
    PROVE  NestedAt(p, m, n + 1, Depth(m, n))
<1>. DEFINE i == Depth(m, n)
            f == Open(m, n, i)
            g == Open(m, n + 1, i)
<1>1. /\ i \in Nat \ {0} /\ Depth(m, n + 1) = i /\ n \in Nat
      /\ g.head = f.head /\ g.before = f.before /\ g.type = f.type /\ g.suite = f.suite
      /\ g.arm = n
      /\ \A j \in 1 .. i - 1 : Open(m, n + 1, j) = Open(m, n, j)
  BY Onward DEF NextArm
<1>2. NestedAt(p, m, n, i)
  BY <1>1 DEF Nested
<1>3. /\ f.head \in 1 .. n - 1 /\ p[f.head].op \in Heads /\ Depth(m, f.head) = i - 1
      /\ f.before = m[f.head].state /\ f.type = m[f.head].type /\ f.suite = m[f.head].exit
  BY <1>2 DEF NestedAt, Rooted
<1>4. \A k \in f.head + 1 .. n :
          /\ Depth(m, k) >= i
          /\ Open(m, k, i).head = f.head
          /\ \A j \in 1 .. i - 1 : Open(m, k, j) = Open(m, f.head, j)
  BY <1>2 DEF NestedAt, Stays
<1>. HIDE DEF i, f, g
<1>5. Rooted(p, m, n + 1, i)
  BY <1>1, <1>3 DEF Rooted, g
<1>6. \A j \in 1 .. i - 1 : Open(m, n + 1, j) = Open(m, f.head, j)
  BY <1>1, <1>3, <1>4
<1>7. \A k \in f.head + 1 .. n + 1 :
          /\ Depth(m, k) >= i
          /\ Open(m, k, i).head = f.head
          /\ \A j \in 1 .. i - 1 : Open(m, k, j) = Open(m, f.head, j)
  BY <1>1, <1>3, <1>4, <1>6 DEF g
<1>8. Stays(m, n + 1, i)
  BY <1>1, <1>7 DEF Stays, g
<1>9. ArmStays(p, m, n + 1, i)
  BY <1>1, <1>3 DEF ArmStays, g, i
<1>. QED
  BY <1>5, <1>8, <1>9 DEF NestedAt, i

(* Everywhere in a text the open statements are nested. *)
LEMMA Nesting ==
    ASSUME NEW p, NEW m, Consistent(p, m)
    PROVE  \A n \in 1 .. Len(p) + 1 : Nested(p, m, n)
<1>. DEFINE T == {n \in 1 .. Len(p) + 1 : Nested(p, m, n)}
<1>0. Len(p) \in Nat
  BY LenProperties DEF Consistent
<1>1. 1 \in T
  BY <1>0 DEF Nested, Depth, Consistent, Beginning
<1>2. ASSUME NEW n \in 1 .. Len(p), n \in T
      PROVE  n + 1 \in T
  <2>. DEFINE D == Depth(m, n)
  <2>0. Nested(p, m, n)
    BY <1>2
  <2>1. ASSUME NEW i \in 1 .. Depth(m, n + 1)
        PROVE  NestedAt(p, m, n + 1, i)
    <3>1. D \in Nat /\ Depth(m, n + 1) \in Nat /\ p[n].op \in PlainOps \cup Heads \cup Arms \cup {"end"}
      BY Onward
    <3>2. CASE p[n].op \in PlainOps \cup {"end"}
      <4>1. /\ i \in 1 .. D /\ i <= Depth(m, n + 1)
            /\ \A j \in 1 .. i : Open(m, n + 1, j) = Open(m, n, j)
        BY <3>1, <3>2, Onward
      <4>. QED
        BY <2>0, <4>1, NestedKept
    <3>3. CASE p[n].op \in Heads /\ i = D + 1
      BY <3>3, NestedOpened
    <3>4. CASE p[n].op \in Heads /\ i # D + 1
      <4>1. /\ i \in 1 .. D /\ i <= Depth(m, n + 1)
            /\ \A j \in 1 .. i : Open(m, n + 1, j) = Open(m, n, j)
        BY <3>1, <3>4, Onward
      <4>. QED
        BY <2>0, <4>1, NestedKept
    <3>5. CASE p[n].op \in Arms /\ i = D
      BY <2>0, <3>5, NestedInNextArm
    <3>6. CASE p[n].op \in Arms /\ i # D
      <4>1. /\ i \in 1 .. D /\ i <= Depth(m, n + 1)
            /\ \A j \in 1 .. i : Open(m, n + 1, j) = Open(m, n, j)
        BY <3>1, <3>6, Onward
      <4>. QED
        BY <2>0, <4>1, NestedKept
    <3>. QED
      BY <3>1, <3>2, <3>3, <3>4, <3>5, <3>6
  <2>. QED
    BY <1>0, <2>1 DEF Nested
<1>. HIDE DEF T
<1>3. \A n \in 1 .. Len(p) + 1 : n \in T
  BY <1>0, <1>1, <1>2, Inductive
<1>. QED
  BY <1>3 DEF T

(* The frame that is i-th behind token n.                                  *)
LEMMA FrameFrom ==
    ASSUME NEW p, NEW m, Consistent(p, m), NEW n \in 1 .. Len(p), NEW i \in 1 .. Depth(m, n + 1)
    PROVE  \/ i \in 1 .. Depth(m, n) /\ Open(m, n + 1, i) = Open(m, n, i)
           \/ /\ p[n].op \in Heads /\ i = Depth(m, n) + 1
              /\ Open(m, n + 1, i) = Opened(p[n], n, m[n])
           \/ p[n].op \in Arms /\ i = Depth(m, n)
<1>1. /\ Depth(m, n) \in Nat /\ Depth(m, n + 1) \in Nat
      /\ p[n].op \in PlainOps \cup Heads \cup Arms \cup {"end"}
  BY Onward
<1>2. CASE p[n].op \in PlainOps \cup {"end"}
  BY <1>1, <1>2, Onward
<1>3. CASE p[n].op \in Heads
  BY <1>1, <1>3, Onward
<1>4. CASE p[n].op \in Arms
  BY <1>1, <1>4, Onward
<1>. QED
  BY <1>1, <1>2, <1>3, <1>4

(* The statement around a token is the last that is open. *)
LEMMA TopIs ==
    ASSUME NEW a \in Marks
    PROVE  /\ a.blocks # <<>> <=> Len(a.blocks) > 0
           /\ a.blocks # <<>> => Last(a.blocks) = a.blocks[Len(a.blocks)] /\ Last(a.blocks) \in Frames
<1>. DEFINE s == a.blocks
<1>1. s \in Seq(Frames)
  BY DEF Marks
<1>. HIDE DEF s
<1>2. Len(s) \in Nat /\ (s # <<>> <=> Len(s) > 0)
  BY <1>1, EmptySeq, LenProperties
<1>3. s # <<>> => Last(s) = s[Len(s)] /\ Last(s) \in Frames
  BY <1>1, FrontIs
<1>. QED
  BY <1>2, <1>3 DEF s

(* What is open around a token. *)
LEMMA Around1 ==
    ASSUME NEW p, NEW m, Consistent(p, m), NEW n \in 1 .. Len(p) + 1
    PROVE  /\ m[n] \in Marks /\ Depth(m, n) \in Nat
           /\ m[n].blocks # <<>> <=> Depth(m, n) > 0
           /\ Depth(m, n) > 0 =>
                /\ Last(m[n].blocks) = Open(m, n, Depth(m, n))
                /\ Open(m, n, Depth(m, n)) \in Frames
           /\ \A i \in 1 .. Depth(m, n) : Open(m, n, i) \in Frames
<1>1. m[n] \in Marks
  BY LenProperties, ElementOfSeq DEF Consistent
<1>2. m[n].blocks \in Seq(Frames)
  BY <1>1 DEF Marks
<1>3. Len(m[n].blocks) \in Nat /\ \A i \in 1 .. Len(m[n].blocks) : m[n].blocks[i] \in Frames
  BY <1>2, LenProperties, ElementOfSeq
<1>. QED
  BY <1>1, <1>3, TopIs DEF Depth, Open

(* What is written is what its first word says. *)
LEMMA StepOf ==
    ASSUME NEW p, NEW n, NEW a, NEW b, StepAt(p, n, a, b)
    PROVE  /\ p[n].op = "member" => MemberAt(p, n, a, b)
           /\ p[n].op = "func" => FuncAt(p, n, a, b)
           /\ p[n].op = "assign" => AssignmentAt(p, n, a, b)
           /\ p[n].op = "var" => VarAt(p, n, a, b)
           /\ p[n].op = "use" => UseAt(p, n, a, b)
           /\ p[n].op = "assert" => AssertAt(p, n, a, b)
           /\ p[n].op = "noreturn" => NoReturnAt(p, n, a, b)
           /\ p[n].op = "return" => ReturnAt(p, n, a, b)
           /\ p[n].op \in {"break", "continue"} => JumpAt(p, n, a, b)
           /\ p[n].op \in {"if", "while", "for", "match"} => HeadAt(p, n, a, b)
           /\ p[n].op = "else" => ElseAt(p, n, a, b)
           /\ p[n].op = "branch" => BranchAt(p, n, a, b)
           /\ p[n].op = "end" => EndAt(p, n, a, b)
<1>1. /\ MemberAt(p, n, a, b) => p[n].op = "member"
      /\ FuncAt(p, n, a, b) => p[n].op = "func"
      /\ AssignmentAt(p, n, a, b) => p[n].op = "assign"
      /\ VarAt(p, n, a, b) => p[n].op = "var"
      /\ UseAt(p, n, a, b) => p[n].op = "use"
      /\ AssertAt(p, n, a, b) => p[n].op = "assert"
  BY DEF MemberAt, FuncAt, AssignmentAt, VarAt, UseAt, AssertAt
<1>2. /\ NoReturnAt(p, n, a, b) => p[n].op = "noreturn"
      /\ ReturnAt(p, n, a, b) => p[n].op = "return"
      /\ JumpAt(p, n, a, b) => p[n].op \in {"break", "continue"}
      /\ HeadAt(p, n, a, b) => p[n].op \in {"if", "while", "for", "match"}
      /\ ElseAt(p, n, a, b) => p[n].op = "else"
  BY DEF NoReturnAt, ReturnAt, JumpAt, HeadAt, ElseAt
<1>3. BranchAt(p, n, a, b) => p[n].op = "branch"
  BY DEF BranchAt
<1>4. EndAt(p, n, a, b) => p[n].op = "end"
  BY DEF EndAt, EndToken
<1>. QED
  BY <1>1, <1>2, <1>3, <1>4 DEF StepAt

(* Statements are written in a body, an arm of a match. *)
LEMMA InABody ==
    ASSUME NEW p, NEW m, Consistent(p, m), NEW n \in 1 .. Len(p),
           p[n].op \in (PlainOps \ {"member"}) \cup (Heads \ {"func"})
    PROVE  InBody(p, m[n])
<1>1. StepAt(p, n, m[n], m[n + 1])
  BY Onward
<1>2. \A s, type, how : PlainAt(p, m[n], m[n + 1], s, type, how) => InBody(p, m[n])
  BY DEF PlainAt
<1>. QED
  BY <1>1, <1>2, StepOf
     DEF AssignmentAt, VarAt, UseAt, AssertAt, NoReturnAt, ReturnAt, JumpAt, HeadAt, PlainOps, Heads

(* What an else makes of the frame of its statement, ...                   *)
LEMMA ElseFrame ==
    ASSUME NEW p, NEW m, Consistent(p, m), NEW n \in 1 .. Len(p), p[n].op = "else",
           NEW f, f = Open(m, n, Depth(m, n)), NEW g, g = Open(m, n + 1, Depth(m, n))
    PROVE  /\ p[f.head].op = "if" /\ f.arms = 1
           /\ g.arm = n /\ g.arms = 2 /\ g.merged = m[n].state /\ g.exits = m[n].exit
           /\ g.catchall <=> f.catchall
           /\ g.skipped <=> f.skipped
           /\ m[n + 1].state = f.before /\ m[n + 1].exit = FallsThrough
<1>. DEFINE s == m[n].blocks
            u == m[n + 1].blocks
            x == [f EXCEPT !.arm = n, !.arms = 2, !.merged = m[n].state, !.exits = m[n].exit]
<1>1. /\ m[n] \in Marks /\ s \in Seq(Frames) /\ n \in Nat /\ ElseAt(p, n, m[n], m[n + 1])
  BY Onward, StepOf DEF Marks
<1>2. s # <<>> /\ Len(s) \in Nat /\ f = Last(s) /\ f \in Frames
  BY <1>1, TopIs, LenProperties DEF ElseAt, Open, Depth
<1>3. x \in Frames
  BY <1>1, <1>2 DEF Frames, Marks
<1>4. u = Front(s) \o <<x>>
  BY <1>1, <1>2 DEF ElseAt
<1>5. g = u[Len(s)]
  BY DEF Open, Depth
<1>. HIDE DEF s, u, x
<1>6. u[Len(s)] = x
  BY <1>1, <1>2, <1>3, <1>4, ReplacedBlocks
<1>7. g = x
  BY <1>5, <1>6
<1>8. /\ g.arm = n /\ g.arms = 2 /\ g.merged = m[n].state /\ g.exits = m[n].exit
      /\ g.catchall <=> f.catchall
      /\ g.skipped <=> f.skipped
  BY <1>2, <1>7 DEF x, Frames
<1>. QED
  BY <1>1, <1>2, <1>8 DEF ElseAt, HeadOf, s

(* Behind an else the test of its if has failed. *)
LEMMA ElseType ==
    ASSUME NEW p, NEW m, Consistent(p, m), NEW n \in 1 .. Len(p), p[n].op = "else",
           NEW f, f = Open(m, n, Depth(m, n))
    PROVE  m[n + 1].type = Narrowed(f.type, p[f.head].cond, FALSE)
<1>1. m[n] \in Marks /\ ElseAt(p, n, m[n], m[n + 1])
  BY Onward, StepOf
<1>2. f = Last(m[n].blocks)
  BY <1>1, TopIs DEF ElseAt, Open, Depth
<1>. QED
  BY <1>1, <1>2 DEF ElseAt, HeadOf

(* ... a branch, which opens an arm of its match, ...                      *)
LEMMA BranchBlocks ==
    ASSUME NEW p, NEW n, NEW a, NEW b, BranchAt(p, n, a, b)
    PROVE  b.blocks = Front(a.blocks) \o
               <<WithBranch(WithArm(Last(a.blocks), a.state, a.exit), n, p[n].cond)>>
<1>. DEFINE f == WithArm(Last(a.blocks), a.state, a.exit)
            S == IF f.catchall THEN Unreachable(f.before) ELSE f.before
            T == IF HeadOf(p, f).on = None THEN f.type ELSE NarrowedInArm(f.type, p[n].cond)
            B == Front(a.blocks) \o <<WithBranch(f, n, p[n].cond)>>
<1>1. b = [state |-> S, type |-> T, exit |-> FallsThrough, blocks |-> B]
  BY Zenon DEF BranchAt
<1>. HIDE DEF S, T, B
<1>2. b.blocks = B
  BY <1>1
<1>. QED
  BY <1>2 DEF B

LEMMA BranchFrame ==
    ASSUME NEW p, NEW m, Consistent(p, m), NEW n \in 1 .. Len(p), p[n].op = "branch",
           NEW f, f = Open(m, n, Depth(m, n)), NEW g, g = Open(m, n + 1, Depth(m, n))
    PROVE  /\ p[f.head].op = "match"
           /\ g.arm = n /\ g.arms = f.arms + 1 /\ g.skipped = f.catchall
           /\ g.catchall <=> f.catchall \/ p[n].cond = "wild"
           /\ f.arms > 0 =>
                /\ g.merged = IF f.skipped THEN f.merged
                              ELSE IF f.arms = 1 THEN m[n].state ELSE Merge(f.merged, m[n].state)
                /\ g.exits = IF f.arms = 1 THEN m[n].exit ELSE Either(f.exits, m[n].exit)
           /\ f.arms = 0 => g.merged = f.merged
           /\ m[n + 1].state = IF f.catchall THEN Unreachable(f.before) ELSE f.before
           /\ Reads(p, m[n], p[n], m[n + 1].state)
           /\ m[n + 1].exit = FallsThrough
           /\ m[n + 1].type = IF p[f.head].on = None THEN f.type
                              ELSE NarrowedInArm(f.type, p[n].cond)
<1>. DEFINE s == m[n].blocks
            u == m[n + 1].blocks
            w == WithArm(f, m[n].state, m[n].exit)
            x == WithBranch(w, n, p[n].cond)
<1>1. /\ m[n] \in Marks /\ s \in Seq(Frames) /\ n \in Nat /\ BranchAt(p, n, m[n], m[n + 1])
  BY Onward, StepOf DEF Marks
<1>2. s # <<>> /\ Len(s) \in Nat /\ f = Last(s) /\ f \in Frames
  BY <1>1, TopIs, LenProperties DEF BranchAt, Open, Depth
<1>3. /\ w \in Frames
      /\ w.head = f.head /\ w.before = f.before /\ w.type = f.type
      /\ w.arms = f.arms /\ w.catchall = f.catchall
      /\ f.arms > 0 =>
           /\ w.merged = IF f.skipped THEN f.merged
                         ELSE IF f.arms = 1 THEN m[n].state ELSE Merge(f.merged, m[n].state)
           /\ w.exits = IF f.arms = 1 THEN m[n].exit ELSE Either(f.exits, m[n].exit)
      /\ f.arms = 0 => w.merged = f.merged
  BY <1>1, <1>2, ArmType DEF Marks
<1>4. u = Front(s) \o <<x>>
  <2>1. m[n + 1].blocks = Front(m[n].blocks) \o
            <<WithBranch(WithArm(Last(m[n].blocks), m[n].state, m[n].exit), n, p[n].cond)>>
    BY <1>1, BranchBlocks
  <2>. QED
    BY <1>2, <2>1
<1>5. g = u[Len(s)]
  BY DEF Open, Depth
<1>. HIDE DEF s, u, w
<1>6. /\ x \in Frames
      /\ x.arm = n /\ x.arms = w.arms + 1 /\ x.skipped = w.catchall
      /\ x.catchall <=> w.catchall \/ p[n].cond = "wild"
      /\ x.merged = w.merged /\ x.exits = w.exits
  BY <1>1, <1>3, WithBranchIs
<1>. HIDE DEF x
<1>7. u[Len(s)] = x
  BY <1>1, <1>2, <1>4, <1>6, ReplacedBlocks
<1>8. g = x
  BY <1>5, <1>7
<1>10. /\ p[f.head].op = "match"
       /\ m[n + 1].state = IF w.catchall THEN Unreachable(w.before) ELSE w.before
       /\ Reads(p, m[n], p[n], m[n + 1].state)
       /\ m[n + 1].exit = FallsThrough
       /\ m[n + 1].type = IF p[w.head].on = None THEN w.type ELSE NarrowedInArm(w.type, p[n].cond)
  BY <1>1, <1>2 DEF BranchAt, HeadOf, s, w
<1>11. g.catchall <=> f.catchall \/ p[n].cond = "wild"
  BY <1>3, <1>6, <1>8
<1>. QED
  BY <1>3, <1>6, <1>8, <1>10, <1>11

(* ... and an end of what its arms leave.                                  *)
ArmsState(f, s) == IF f.skipped THEN f.merged ELSE IF f.arms = 1 THEN s ELSE Merge(f.merged, s)

ArmsExit(f, how) == IF f.arms = 1 THEN how ELSE Either(f.exits, how)

JoinedState(p, f, s) ==
    CASE p[f.head].op = "if" -> IF f.arms = 1 THEN Merge(s, f.before) ELSE Merge(f.merged, s)
      [] p[f.head].op = "match" ->
            IF f.catchall THEN ArmsState(f, s) ELSE Merge(ArmsState(f, s), f.before)
      [] OTHER -> [f.before EXCEPT !.maybe_assigned = @ \cup s.maybe_assigned]

JoinedExit(p, f, how) ==
    CASE p[f.head].op = "if" -> IF f.arms = 1 THEN Either(how, FallsThrough) ELSE Either(f.exits, how)
      [] p[f.head].op = "match" -> [ArmsExit(f, how) EXCEPT !.always_terminates = @ /\ f.catchall]
      [] OTHER -> LoopExit(p[f.head].cond, how)

(* What an end leaves behind of the statement it closes. *)
LEMMA EndFrame ==
    ASSUME NEW p, NEW m, Consistent(p, m), NEW n \in 1 .. Len(p), p[n].op = "end",
           NEW f, f = Open(m, n, Depth(m, n))
    PROVE  /\ p[n] = EndToken
           /\ p[f.head].op \in Heads
           /\ p[f.head].op = "match" => f.arms > 0
           /\ p[f.head].op = "func" => EndFunctionAt(p, n, m[n], m[n + 1])
           /\ p[f.head].op # "func" =>
                /\ m[n + 1].type = f.type
                /\ m[n + 1].state =
                       IF f.before.reachable THEN JoinedState(p, f, m[n].state) ELSE f.before
                /\ m[n + 1].exit = InSuite(f.suite, JoinedExit(p, f, m[n].exit))
<1>. DEFINE a == m[n]
            b == m[n + 1]
            w == WithArm(f, a.state, a.exit)
            op == p[f.head].op
<1>1. a \in Marks /\ EndAt(p, n, a, b)
  BY Onward, StepOf
<1>2. a.blocks # <<>> /\ f = Last(a.blocks) /\ f \in Frames /\ p[n] = EndToken
  BY <1>1, TopIs DEF EndAt, Open, Depth
<1>3. /\ w.before = f.before /\ w.type = f.type /\ w.suite = f.suite /\ w.catchall = f.catchall
      /\ f.arms > 0 => w.merged = ArmsState(f, a.state) /\ w.exits = ArmsExit(f, a.exit)
  BY <1>1, <1>2, ArmType DEF Marks, ArmsState, ArmsExit
<1>. HIDE DEF a, b, w
<1>4. CASE EndIfAt(p, a, b)
  <2>1. op = "if"
    BY <1>2, <1>4 DEF EndIfAt, HeadOf
  <2>2. CASE f.arms = 1
    <3>1. ClosesAt(f, a, b, Merge(a.state, f.before), Either(a.exit, FallsThrough))
      BY <1>2, <1>4, <2>2 DEF EndIfAt
    <3>2. /\ JoinedState(p, f, a.state) = Merge(a.state, f.before)
          /\ JoinedExit(p, f, a.exit) = Either(a.exit, FallsThrough)
      BY <2>1, <2>2 DEF JoinedState, JoinedExit
    <3>. QED
      BY <1>2, <2>1, <3>1, <3>2 DEF ClosesAt, Heads, a, b
  <2>3. CASE f.arms # 1
    <3>1. ClosesAt(f, a, b, Merge(f.merged, a.state), Either(f.exits, a.exit))
      BY <1>2, <1>4, <2>3 DEF EndIfAt
    <3>2. /\ JoinedState(p, f, a.state) = Merge(f.merged, a.state)
          /\ JoinedExit(p, f, a.exit) = Either(f.exits, a.exit)
      BY <2>1, <2>3 DEF JoinedState, JoinedExit
    <3>. QED
      BY <1>2, <2>1, <3>1, <3>2 DEF ClosesAt, Heads, a, b
  <2>. QED
    BY <2>2, <2>3
<1>5. CASE EndLoopAt(p, a, b)
  <2>1. /\ op \in Loops
        /\ ClosesAt(f, a, b, [f.before EXCEPT !.maybe_assigned = @ \cup a.state.maybe_assigned],
                    LoopExit(p[f.head].cond, a.exit))
    BY <1>2, <1>5 DEF EndLoopAt, HeadOf
  <2>2. /\ JoinedState(p, f, a.state) = [f.before EXCEPT !.maybe_assigned = @ \cup a.state.maybe_assigned]
        /\ JoinedExit(p, f, a.exit) = LoopExit(p[f.head].cond, a.exit)
    <3>1. op # "if" /\ op # "match"
      BY <2>1 DEF Loops
    <3>. QED
      BY <3>1, Zenon DEF JoinedState, JoinedExit
  <2>3. op \in Heads /\ op \notin {"match", "func"}
    BY <2>1 DEF Heads, Loops
  <2>. QED
    BY <1>2, <2>1, <2>2, <2>3 DEF ClosesAt, a, b
<1>6. CASE EndMatchAt(p, a, b)
  <2>1. /\ op = "match" /\ f.arms > 0
        /\ ClosesAt(w, a, b, IF w.catchall THEN w.merged ELSE Merge(w.merged, w.before),
                    [w.exits EXCEPT !.always_terminates = @ /\ w.catchall])
    BY <1>2, <1>6 DEF EndMatchAt, HeadOf, w
  <2>2. /\ b.type = f.type
        /\ b.state = IF f.before.reachable
                     THEN IF f.catchall THEN ArmsState(f, a.state) ELSE Merge(ArmsState(f, a.state), f.before)
                     ELSE f.before
    BY <1>3, <2>1 DEF ClosesAt
  <2>3. b.exit = InSuite(f.suite, [ArmsExit(f, a.exit) EXCEPT !.always_terminates = @ /\ f.catchall])
    BY <1>3, <2>1 DEF ClosesAt
  <2>. QED
    BY <1>2, <2>1, <2>2, <2>3 DEF JoinedState, JoinedExit, Heads, a, b
<1>7. CASE EndFunctionAt(p, n, a, b)
  <2>1. op = "func"
    BY <1>2, <1>7 DEF EndFunctionAt, HeadOf
  <2>. QED
    BY <1>2, <1>7, <2>1 DEF Heads, a, b
<1>. QED
  BY <1>1, <1>4, <1>5, <1>6, <1>7 DEF EndAt

(* A function stands in no other. *)
LEMMA FuncOutside ==
    ASSUME NEW p, NEW m, Consistent(p, m), NEW n \in 1 .. Len(p), p[n].op = "func"
    PROVE  Depth(m, n) = 0
<1>1. FuncAt(p, n, m[n], m[n + 1])
  BY Onward, StepOf
<1>2. m[n].blocks = <<>>
  BY <1>1 DEF FuncAt
<1>3. n \in 1 .. Len(p) + 1 /\ Depth(m, n) \in Nat
  BY LenProperties, Onward DEF Consistent
<1>. QED
  BY <1>2, <1>3, Around1

(* An open statement keeps what was known at its head until it is closed. *)
LEMMA FrameIs ==
    ASSUME NEW p, NEW m, Consistent(p, m), NEW n \in 1 .. Len(p) + 1, NEW i \in 1 .. Depth(m, n),
           NEW f, f = Open(m, n, i)
    PROVE  /\ f \in Frames
           /\ f.head \in 1 .. n - 1 /\ p[f.head].op \in Heads /\ Depth(m, f.head) = i - 1
           /\ f.before = m[f.head].state /\ f.type = m[f.head].type /\ f.suite = m[f.head].exit
           /\ \A k \in f.head + 1 .. n :
                 /\ Depth(m, k) >= i
                 /\ Open(m, k, i).head = f.head
                 /\ \A j \in 1 .. i - 1 : Open(m, k, j) = Open(m, f.head, j)
           /\ f.arm \in f.head .. n - 1
           /\ \A k \in f.arm + 1 .. n : Open(m, k, i) = f
           /\ f.arm # f.head => p[f.arm].op \in Arms /\ Depth(m, f.arm) = i
<1>1. NestedAt(p, m, n, i)
  BY Nesting DEF Nested
<1>. QED
  BY <1>1, Around1 DEF NestedAt, Rooted, Stays, ArmStays

(* The part of it that is about the head. *)
LEMMA HeadIs ==
    ASSUME NEW p, NEW m, Consistent(p, m), NEW n \in 1 .. Len(p) + 1, NEW i \in 1 .. Depth(m, n),
           NEW h, h = Open(m, n, i).head
    PROVE  /\ h \in 1 .. n - 1 /\ p[h].op \in Heads /\ Depth(m, h) = i - 1
           /\ \A k \in h + 1 .. n :
                 Depth(m, k) >= i /\ \A j \in 1 .. i - 1 : Open(m, k, j) = Open(m, h, j)
<1>. DEFINE f == Open(m, n, i)
<1>1. /\ f.head \in 1 .. n - 1 /\ p[f.head].op \in Heads /\ Depth(m, f.head) = i - 1
      /\ \A k \in f.head + 1 .. n :
            Depth(m, k) >= i /\ \A j \in 1 .. i - 1 : Open(m, k, j) = Open(m, f.head, j)
  BY FrameIs
<1>. QED
  BY <1>1

(* An arm belongs to a head in front of it. *)
LEMMA ArmGoesOn ==
    ASSUME NEW p, NEW m, Consistent(p, m), NEW n \in 1 .. Len(p), p[n].op \in Arms,
           NEW i, i = Depth(m, n)
    PROVE  Open(m, n + 1, i).head = Open(m, n, i).head /\ Open(m, n, i).head < n
<1>1. Open(m, n + 1, i).head = Open(m, n, i).head /\ i \in Nat \ {0}
  BY AtArm DEF NextArm
<1>2. n \in 1 .. Len(p) + 1 /\ n \in Nat /\ i \in 1 .. Depth(m, n)
  BY <1>1, LenProperties DEF Consistent
<1>3. Open(m, n, i).head \in 1 .. n - 1
  BY <1>2, HeadIs
<1>. QED
  BY <1>1, <1>2, <1>3

(* How many arms a statement has and which of them is open.                *)
Shape(p, m, n, i) ==
    LET f  == Open(m, n, i)
        op == p[f.head].op
    IN /\ op = "func" <=> i = 1
       /\ op # "match" => ~ f.catchall /\ ~ f.skipped /\ f.arms >= 1
       /\ op \in Loops \cup {"func"} => f.arm = f.head /\ f.arms = 1
       /\ op = "if" => (f.arms = 1 <=> f.arm = f.head)
       /\ op = "match" => (f.arms = 0 <=> f.arm = f.head)
       /\ i < Depth(m, n) => f.arms >= 1

(* Everywhere in a text the open statements have their shape: how many     *)
(* arms there were, and of what.                                           *)
LEMMA Shapes ==
    ASSUME NEW p, NEW m, Consistent(p, m)
    PROVE  \A n \in 1 .. Len(p) + 1 : \A i \in 1 .. Depth(m, n) : Shape(p, m, n, i)
<1>. DEFINE T == {n \in 1 .. Len(p) + 1 : \A i \in 1 .. Depth(m, n) : Shape(p, m, n, i)}
<1>0. Len(p) \in Nat
  BY LenProperties DEF Consistent
<1>1. 1 \in T
  BY <1>0 DEF Depth, Consistent, Beginning
<1>2. ASSUME NEW n \in 1 .. Len(p), n \in T
      PROVE  n + 1 \in T
  <2>. DEFINE D == Depth(m, n)
  <2>0. \A i \in 1 .. D : Shape(p, m, n, i)
    BY <1>2
  <2>1. ASSUME NEW i \in 1 .. Depth(m, n + 1)
        PROVE  Shape(p, m, n + 1, i)
    <3>. DEFINE f == Open(m, n, i)
                g == Open(m, n + 1, i)
    <3>0. D \in Nat /\ Depth(m, n + 1) \in Nat /\ n \in Nat
      BY Onward
    <3>1. CASE i \in 1 .. D /\ g = f
      <4>1. i < Depth(m, n + 1) => f.arms >= 1
        <5>1. CASE i < D
          BY <2>0, <3>1, <5>1 DEF Shape
        <5>2. CASE i = D /\ i < Depth(m, n + 1)
          <6>1. p[n].op \in Heads
            BY <3>0, <5>2, Depths
          <6>2. p[n].op # "func"
            BY <3>0, <5>2, FuncOutside
          <6>3. InBody(p, m[n])
            BY <6>1, <6>2, InABody
          <6>4. p[f.head].op = "match" => f.arms > 0
            BY <3>0, <5>2, <6>3, Around1 DEF InBody, HeadOf
          <6>5. p[f.head].op # "match" => f.arms >= 1
            BY <2>0, <3>1 DEF Shape
          <6>6. f.arms \in Nat
            BY <3>1, Onward DEF Frames
          <6>. QED
            BY <6>4, <6>5, <6>6
        <5>. QED
          BY <3>0, <3>1, <5>1, <5>2
      <4>. QED
        BY <2>0, <3>1, <4>1 DEF Shape
    <3>2. CASE p[n].op \in Heads /\ i = D + 1 /\ g = Opened(p[n], n, m[n])
      <4>1. /\ g.head = n /\ g.arm = n /\ ~ g.catchall /\ ~ g.skipped
            /\ g.arms = IF p[n].op = "match" THEN 0 ELSE 1
        BY <3>2 DEF Opened
      <4>2. p[n].op = "func" => i = 1
        BY <3>2, FuncOutside
      <4>3. p[n].op # "func" => i # 1
        BY <3>0, <3>2, InABody, Around1 DEF InBody
      <4>4. Depth(m, n + 1) = i
        BY <3>2, Onward
      <4>. HIDE DEF g
      <4>. QED
        BY <3>0, <4>1, <4>2, <4>3, <4>4 DEF Shape, g, Loops
    <3>3. CASE p[n].op = "else" /\ i = D
      <4>1. /\ p[f.head].op = "if" /\ g.arm = n /\ g.arms = 2
            /\ g.catchall <=> f.catchall
            /\ g.skipped <=> f.skipped
        <5>1. f = Open(m, n, Depth(m, n)) /\ g = Open(m, n + 1, Depth(m, n))
          BY <3>3
        <5>. HIDE DEF f, g
        <5>. QED
          BY <3>3, <5>1, ElseFrame
      <4>2. g.head = f.head /\ f.head < n
        BY <3>3, ArmGoesOn DEF Arms
      <4>3. Shape(p, m, n, i)
        BY <2>0, <3>0, <3>3
      <4>. QED
        BY <3>0, <4>1, <4>2, <4>3 DEF Shape, Loops
    <3>4. CASE p[n].op = "branch" /\ i = D
      <4>1. /\ p[f.head].op = "match" /\ g.arm = n /\ g.arms = f.arms + 1
        BY <3>4, BranchFrame
      <4>2. g.head = f.head /\ f.head < n
        BY <3>4, ArmGoesOn DEF Arms
      <4>2a. f.arms \in Nat
        <5>1. Open(m, n, Depth(m, n)) \in Frames
          BY <3>4, AtArm DEF Arms
        <5>. QED
          BY <3>4, <5>1 DEF Frames
      <4>3. Shape(p, m, n, i)
        BY <2>0, <3>0, <3>4
      <4>. QED
        BY <3>0, <4>1, <4>2, <4>2a, <4>3 DEF Shape, Loops
    <3>. QED
      BY <3>1, <3>2, <3>3, <3>4, FrameFrom DEF Arms
  <2>. QED
    BY <1>0, <2>1
<1>. HIDE DEF T
<1>3. \A n \in 1 .. Len(p) + 1 : n \in T
  BY <1>0, <1>1, <1>2, Inductive
<1>. QED
  BY <1>3 DEF T

(* What is opened is closed, where nothing is left open, ...               *)
LEMMA Closed ==
    ASSUME NEW p, NEW m, Consistent(p, m), Depth(m, Len(p) + 1) = 0,
           NEW n \in 1 .. Len(p) + 1, NEW i \in 1 .. Depth(m, n)
    PROVE  \E e \in n .. Len(p) :
               /\ p[e].op = "end" /\ Depth(m, e) = i
               /\ \A k \in n .. e : Depth(m, k) >= i /\ Open(m, k, i).head = Open(m, n, i).head
<1>. DEFINE B == {k \in n .. Len(p) + 1 : Depth(m, k) < i}
<1>0. Len(p) \in Nat /\ n \in Nat /\ i \in Nat \ {0} /\ Depth(m, n) \in Nat
  BY LenProperties, Around1 DEF Consistent
<1>1. B \in SUBSET Nat /\ Len(p) + 1 \in B
  BY <1>0
<1>. HIDE DEF B
<1>2. PICK k \in B : \A j \in B : k <= j
  BY <1>1, Least
<1>3. k \in n .. Len(p) + 1 /\ Depth(m, k) < i /\ k # n
  BY <1>0, <1>2 DEF B
<1>. DEFINE e == k - 1
<1>4. e \in n .. Len(p) /\ e + 1 = k /\ e \in 1 .. Len(p)
  BY <1>0, <1>3
<1>5. \A j \in n .. e : ~ (Depth(m, j) < i) /\ j \in 1 .. Len(p) + 1
  BY <1>0, <1>2, <1>3, <1>4 DEF B
<1>. HIDE DEF e
<1>6. \A j \in n .. e : Depth(m, j) \in Nat /\ Depth(m, j) >= i
  BY <1>0, <1>5, Around1
<1>7. Depth(m, e + 1) < i /\ Depth(m, e) >= i /\ Depth(m, e) \in Nat
  BY <1>3, <1>4, <1>6
<1>7a. /\ p[e].op \in PlainOps \cup Heads \cup Arms \cup {"end"}
       /\ p[e].op \in PlainOps \cup Arms => Depth(m, e + 1) = Depth(m, e)
       /\ p[e].op \in Heads => Depth(m, e + 1) = Depth(m, e) + 1
       /\ p[e].op = "end" => Depth(m, e + 1) = Depth(m, e) - 1
  BY <1>4, Onward
<1>8. p[e].op = "end" /\ Depth(m, e) = i
  BY <1>0, <1>7, <1>7a
<1>. DEFINE h == Open(m, e, i).head
<1>9. /\ h \in 1 .. e - 1 /\ Depth(m, h) = i - 1
      /\ \A j \in h + 1 .. e : Open(m, j, i).head = h
  BY <1>0, <1>4, <1>8, FrameIs
<1>. HIDE DEF h
<1>10. h < n
  BY <1>0, <1>4, <1>6, <1>9
<1>11. \A j \in n .. e : Open(m, j, i).head = h
  BY <1>0, <1>4, <1>9, <1>10
<1>. QED
  BY <1>0, <1>4, <1>6, <1>8, <1>11

(* ... and closed once.                                                    *)
LEMMA ClosedOnce ==
    ASSUME NEW p, NEW m, Consistent(p, m),
           NEW d \in 1 .. Len(p), p[d].op = "end", NEW e \in 1 .. Len(p), p[e].op = "end",
           Open(m, d, Depth(m, d)).head = Open(m, e, Depth(m, e)).head
    PROVE  d = e
<1>0. Len(p) \in Nat
  BY LenProperties DEF Consistent
<1>1. ASSUME NEW c \in 1 .. Len(p), p[c].op = "end", NEW b \in 1 .. Len(p), p[b].op = "end",
             Open(m, c, Depth(m, c)).head = Open(m, b, Depth(m, b)).head, c < b
      PROVE  FALSE
  <2>. DEFINE h == Open(m, b, Depth(m, b)).head
  <2>1. /\ Depth(m, b) \in Nat \ {0} /\ Depth(m, c) \in Nat \ {0}
        /\ Depth(m, c + 1) = Depth(m, c) - 1
    <3>1. p[b].op = "end" /\ p[c].op = "end"
      BY <1>1
    <3>. HIDE DEF h
    <3>. QED
      BY <3>1, AtEnd
  <2>2. /\ h \in 1 .. b - 1 /\ Depth(m, h) = Depth(m, b) - 1
        /\ \A k \in h + 1 .. b : Depth(m, k) >= Depth(m, b)
    <3>1. b \in 1 .. Len(p) + 1 /\ Depth(m, b) \in 1 .. Depth(m, b)
      BY <1>0, <2>1
    <3>. QED
      BY <3>1, FrameIs
  <2>3. h \in 1 .. c - 1 /\ Depth(m, h) = Depth(m, c) - 1
    BY <1>0, <1>1, <2>1, FrameIs
  <2>. HIDE DEF h
  <2>4. c + 1 \in h + 1 .. b
    BY <1>1, <2>2, <2>3
  <2>. QED
    BY <2>1, <2>2, <2>3, <2>4
<1>. QED
  BY <1>0, <1>1

-----------------------------------------------------------------------------
(* What the join of a statement keeps of its arms *)

(* The state s holds wherever r does.                                      *)
Keeps(s, r) ==
    /\ s.reachable
    /\ s.assigned \subseteq r.assigned
    /\ r.maybe_assigned \subseteq s.maybe_assigned

(* A join keeps of either side what was to be kept. *)
LEMMA MergeKeeps ==
    ASSUME NEW s \in States, NEW r \in States, NEW x \in States, Keeps(s, r)
    PROVE  Keeps(Merge(s, x), r) /\ Keeps(Merge(x, s), r)
BY DEF Keeps, Merge, States

(* The last state and the last exit of the i-th block that is open.        *)
LevelState(m, n, i) == IF i = Depth(m, n) THEN m[n].state ELSE Open(m, n, i + 1).before
LevelExit(m, n, i)  == IF i = Depth(m, n) THEN m[n].exit ELSE Open(m, n, i + 1).suite

(* The arms behind one that matches everything cannot be reached.          *)
SkippedAt(m, n, i) == Open(m, n, i).skipped => ~ LevelState(m, n, i).reachable

(* Everywhere in a text only what follows a catch-all arm is skipped. *)
LEMMA Skipped ==
    ASSUME NEW p, NEW m, Consistent(p, m)
    PROVE  \A n \in 1 .. Len(p) + 1 : \A i \in 1 .. Depth(m, n) : SkippedAt(m, n, i)
<1>. DEFINE T == {n \in 1 .. Len(p) + 1 : \A i \in 1 .. Depth(m, n) : SkippedAt(m, n, i)}
<1>0. Len(p) \in Nat
  BY LenProperties DEF Consistent
<1>1. 1 \in T
  BY <1>0 DEF Depth, Consistent, Beginning
<1>2. ASSUME NEW n \in 1 .. Len(p), n \in T
      PROVE  n + 1 \in T
  <2>. DEFINE D == Depth(m, n)
  <2>0. \A i \in 1 .. D : SkippedAt(m, n, i)
    BY <1>2
  <2>1. ASSUME NEW i \in 1 .. Depth(m, n + 1)
        PROVE  SkippedAt(m, n + 1, i)
    <3>0. D \in Nat /\ Depth(m, n + 1) \in Nat /\ n \in Nat /\ i \in Nat
      BY Onward
    <3>1. CASE p[n].op \in PlainOps
      <4>1. \A s, type, how : PlainAt(p, m[n], m[n + 1], s, type, how) =>
                (~ m[n].state.reachable => m[n + 1].state = m[n].state)
        BY DEF PlainAt
      <4>2. p[n].op # "member"
        BY <3>0, <3>1, Onward, StepOf, Around1 DEF MemberAt
      <4>3. ~ m[n].state.reachable => m[n + 1].state = m[n].state
        BY <3>1, <4>1, <4>2, Onward, StepOf
           DEF AssignmentAt, VarAt, UseAt, AssertAt, NoReturnAt, ReturnAt, JumpAt, PlainOps
      <4>4. /\ Depth(m, n + 1) = D /\ Open(m, n + 1, i) = Open(m, n, i)
            /\ i # D => Open(m, n + 1, i + 1) = Open(m, n, i + 1)
        BY <3>0, <3>1, Onward
      <4>. QED
        BY <2>0, <4>3, <4>4 DEF SkippedAt, LevelState
    <3>2. CASE p[n].op \in Heads
      <4>1. /\ Depth(m, n + 1) = D + 1
            /\ Open(m, n + 1, D + 1).before = m[n].state
            /\ ~ Open(m, n + 1, D + 1).skipped
        <5>1. Depth(m, n + 1) = D + 1 /\ Open(m, n + 1, D + 1) = Opened(p[n], n, m[n])
          BY <3>2, Onward
        <5>. QED
          BY <5>1 DEF Opened
      <4>2. i # D + 1 => Open(m, n + 1, i) = Open(m, n, i)
        BY <3>0, <3>2, Onward
      <4>3. i # D + 1 /\ i # D => Open(m, n + 1, i + 1) = Open(m, n, i + 1)
        BY <3>0, <3>2, Onward
      <4>. QED
        BY <2>0, <3>0, <4>1, <4>2, <4>3 DEF SkippedAt, LevelState
    <3>3. CASE p[n].op \in Arms
      <4>1. /\ D > 0 /\ Depth(m, n + 1) = D
            /\ Open(m, n + 1, D).before = Open(m, n, D).before
            /\ i # D => Open(m, n + 1, i) = Open(m, n, i)
            /\ i # D /\ i + 1 # D => Open(m, n + 1, i + 1) = Open(m, n, i + 1)
        BY <3>0, <3>3, Onward DEF NextArm
      <4>2. CASE i # D
        BY <2>0, <4>1, <4>2 DEF SkippedAt, LevelState
      <4>3. CASE i = D /\ p[n].op = "else"
        <5>1. ~ Open(m, n, D).skipped
          BY <1>0, <3>0, <4>1, <4>3, Shapes, ElseFrame DEF Shape
        <5>2. Open(m, n + 1, D).skipped <=> Open(m, n, D).skipped
          BY <4>3, ElseFrame
        <5>. QED
          BY <4>3, <5>1, <5>2 DEF SkippedAt
      <4>4. CASE i = D /\ p[n].op = "branch"
        <5>1. /\ Open(m, n + 1, D).skipped = Open(m, n, D).catchall
              /\ m[n + 1].state = IF Open(m, n, D).catchall THEN Unreachable(Open(m, n, D).before)
                                  ELSE Open(m, n, D).before
          BY <4>4, BranchFrame
        <5>2. Open(m, n, D).before \in States
          BY <3>0, <4>1, Onward DEF Frames
        <5>3. Open(m, n, D).catchall => ~ m[n + 1].state.reachable
          BY <5>1, <5>2 DEF Unreachable, States
        <5>. QED
          BY <4>1, <4>4, <5>1, <5>3 DEF SkippedAt, LevelState
      <4>. QED
        BY <3>3, <4>2, <4>3, <4>4 DEF Arms
    <3>4. CASE p[n].op = "end"
      <4>1. /\ D > 0 /\ Depth(m, n + 1) = D - 1
            /\ Open(m, n + 1, i) = Open(m, n, i)
            /\ i # D - 1 => Open(m, n + 1, i + 1) = Open(m, n, i + 1)
        BY <3>0, <3>4, Onward
      <4>2. CASE i # D - 1
        BY <2>0, <3>0, <4>1, <4>2 DEF SkippedAt, LevelState
      <4>3. CASE i = D - 1
        <5>. DEFINE f == Open(m, n, D)
        <5>1. p[f.head].op # "func"
          BY <1>0, <3>0, <4>1, <4>3, Shapes DEF Shape
        <5>2. ~ f.before.reachable => m[n + 1].state = f.before
          BY <3>4, <5>1, EndFrame
        <5>. QED
          BY <2>0, <3>0, <4>1, <4>3, <5>2 DEF SkippedAt, LevelState
      <4>. QED
        BY <4>2, <4>3
    <3>. QED
      BY <3>1, <3>2, <3>3, <3>4, Onward
  <2>. QED
    BY <1>0, <2>1
<1>. HIDE DEF T
<1>3. \A n \in 1 .. Len(p) + 1 : n \in T
  BY <1>0, <1>1, <1>2, Inductive
<1>. QED
  BY <1>3 DEF T

(* A suite that goes on ends as its next statement does. *)
LEMMA InSuiteEnds ==
    ASSUME NEW suite \in ExitStates, NEW how \in ExitStates, ~ suite.always_terminates
    PROVE  /\ InSuite(suite, how) \in ExitStates
           /\ InSuite(suite, how).always_terminates <=> how.always_terminates
BY DEF InSuite, ExitStates

(* Two arms end if both of them end. *)
LEMMA EitherEnds ==
    ASSUME NEW first \in ExitStates, NEW second \in ExitStates
    PROVE  Either(first, second).always_terminates <=>
               first.always_terminates /\ second.always_terminates
BY DEF Either, ExitStates

(* The frame f of a statement has kept the arm that ended as a. *)
KeptIn(f, a) ==
    /\ f.arms >= 2
    /\ ~ f.exits.always_terminates
    /\ Keeps(f.merged, a.state)

(* What an arm that goes on ends with is kept until the statement is closed. *)
LEMMA ArmKept ==
    ASSUME NEW p, NEW m, Consistent(p, m), NEW k \in 1 .. Len(p), p[k].op \in Arms,
           NEW i, i = Depth(m, k), Open(m, k, i).arms >= 1,
           m[k].state.reachable, ~ m[k].exit.always_terminates,
           NEW e \in k + 1 .. Len(p) + 1, i <= Depth(m, e), Open(m, e, i).head = Open(m, k, i).head
    PROVE  KeptIn(Open(m, e, i), m[k])
<1>. DEFINE T == {n \in 1 .. Len(p) + 1 : n \in k + 1 .. e => KeptIn(Open(m, n, i), m[k])}
<1>0. /\ Len(p) \in Nat /\ k \in Nat /\ e \in Nat /\ i \in Nat \ {0}
      /\ m[k] \in Marks /\ m[k].state \in States /\ m[k].exit \in ExitStates
      /\ i \in 1 .. Depth(m, k) /\ k \in 1 .. Len(p) + 1
  <2>1. Len(p) \in Nat
    BY LenProperties DEF Consistent
  <2>2. m[k] \in Marks /\ Depth(m, k) \in Nat \ {0}
    BY Onward
  <2>. QED
    BY <2>1, <2>2 DEF Marks
<1>1. 1 \in T
  BY <1>0
<1>2. \A n \in k + 1 .. e : Depth(m, n) >= i
  <2>1. Depth(m, e) \in Nat
    BY <1>0, Around1
  <2>2. \A n \in Open(m, e, i).head + 1 .. e : Depth(m, n) >= i
    BY <1>0, <2>1, FrameIs
  <2>3. Open(m, k, i).head \in 1 .. k - 1
    BY <1>0, FrameIs
  <2>. QED
    BY <1>0, <2>2, <2>3
<1>3. ASSUME NEW n \in 1 .. Len(p), n \in T
      PROVE  n + 1 \in T
  <2>. DEFINE f == Open(m, n, i)
              g == Open(m, n + 1, i)
              b == m[n]
  <2>0. SUFFICES ASSUME n + 1 \in k + 1 .. e
                 PROVE  KeptIn(g, m[k])
    BY <1>0
  <2>1. n \in Nat /\ Depth(m, n) \in Nat /\ Depth(m, n + 1) \in Nat /\ i \in 1 .. Depth(m, n + 1)
    BY <1>0, <1>2, <2>0, Onward
  <2>2. i \in 1 .. Depth(m, n) /\ f \in Frames
    BY <1>0, <1>2, <2>0, <2>1, Onward
  <2>3. f.merged \in States /\ f.exits \in ExitStates /\ b.state \in States /\ b.exit \in ExitStates
    BY <2>2, Onward DEF Frames, Marks
  <2>4. n # k => KeptIn(f, m[k])
    BY <1>0, <1>3, <2>0, <2>1
  <2>5. CASE g = f /\ n # k
    BY <2>4, <2>5
  <2>6. CASE p[n].op = "else" /\ i = Depth(m, n)
    <3>1. f.arms = 1 /\ g.arms = 2 /\ g.merged = b.state /\ g.exits = b.exit
      BY <2>6, ElseFrame
    <3>2. n = k
      BY <2>4, <3>1 DEF KeptIn
    <3>. HIDE DEF g
    <3>. QED
      BY <1>0, <3>1, <3>2 DEF KeptIn, Keeps, States
  <2>7. CASE p[n].op = "branch" /\ i = Depth(m, n)
    <3>0. f.arms > 0 /\ f.arms \in Nat
      BY <2>2, <2>4 DEF KeptIn, Frames
    <3>1. /\ g.arms = f.arms + 1
          /\ g.merged = IF f.skipped THEN f.merged
                        ELSE IF f.arms = 1 THEN b.state ELSE Merge(f.merged, b.state)
          /\ g.exits = IF f.arms = 1 THEN b.exit ELSE Either(f.exits, b.exit)
      BY <2>7, <3>0, BranchFrame
    <3>. HIDE DEF f, g, b
    <3>2. CASE n = k
      <4>1. ~ f.skipped
        BY <1>0, <2>1, <2>2, <2>7, <3>2, Skipped DEF SkippedAt, LevelState, f
      <4>2. b = m[k] /\ Keeps(b.state, b.state)
        BY <1>0, <3>2 DEF b, Keeps
      <4>3. Keeps(g.merged, b.state)
        BY <2>3, <3>1, <4>1, <4>2, MergeKeeps
      <4>4. ~ g.exits.always_terminates
        BY <2>3, <3>1, <4>2, EitherEnds
      <4>. QED
        BY <3>0, <3>1, <4>2, <4>3, <4>4 DEF KeptIn
    <3>3. CASE n # k
      <4>1. f.arms >= 2 /\ ~ f.exits.always_terminates /\ Keeps(f.merged, m[k].state)
        BY <2>4, <3>3 DEF KeptIn
      <4>2. Keeps(g.merged, m[k].state)
        BY <1>0, <2>3, <3>0, <3>1, <4>1, MergeKeeps
      <4>3. ~ g.exits.always_terminates
        BY <2>3, <3>0, <3>1, <4>1, EitherEnds
      <4>. QED
        BY <3>0, <3>1, <4>1, <4>2, <4>3 DEF KeptIn
    <3>. QED
      BY <3>2, <3>3
  <2>. QED
    BY <2>1, <2>2, <2>5, <2>6, <2>7, FrameFrom DEF Arms
<1>. HIDE DEF T
<1>4. \A n \in 1 .. Len(p) + 1 : n \in T
  BY <1>0, <1>1, <1>3, Inductive
<1>. QED
  BY <1>0, <1>4 DEF T

(* Behind a statement, what one of its arms that go on ends with is kept. *)
LEMMA JoinKeeps ==
    ASSUME NEW p, NEW m, Consistent(p, m), NEW e \in 1 .. Len(p), p[e].op = "end",
           NEW f, f = Open(m, e, Depth(m, e)), p[f.head].op \in {"if", "match"},
           f.before.reachable, ~ f.suite.always_terminates,
           NEW a \in Marks,
           \/ KeptIn(f, a)
           \/ a = m[e] /\ a.state.reachable /\ ~ a.exit.always_terminates
    PROVE  Keeps(m[e + 1].state, a.state) /\ ~ m[e + 1].exit.always_terminates
<1>. DEFINE s == m[e].state
            how == m[e].exit
<1>0. Len(p) \in Nat /\ e \in Nat /\ Depth(m, e) \in Nat \ {0} /\ f \in Frames /\ a.state \in States
  <2>1. Len(p) \in Nat
    BY LenProperties DEF Consistent
  <2>2. Depth(m, e) \in Nat \ {0} /\ f \in Frames
    BY Onward
  <2>. QED
    BY <2>1, <2>2 DEF Marks
<1>1. /\ s \in States /\ how \in ExitStates /\ f.merged \in States /\ f.exits \in ExitStates
      /\ f.before \in States /\ f.suite \in ExitStates /\ f.catchall \in BOOLEAN /\ f.arms \in Nat
  BY <1>0, Onward DEF Frames, Marks
<1>2. /\ p[f.head].op = "match" => f.arms > 0
      /\ m[e + 1].state = JoinedState(p, f, s)
      /\ m[e + 1].exit = InSuite(f.suite, JoinedExit(p, f, how))
  BY EndFrame
<1>3. Shape(p, m, e, Depth(m, e)) /\ SkippedAt(m, e, Depth(m, e))
  BY <1>0, Shapes, Skipped
<1>4. /\ p[f.head].op = "if" => f.arms >= 1
      /\ f.skipped => ~ s.reachable
  BY <1>3 DEF Shape, SkippedAt, LevelState
<1>. HIDE DEF s, how
<1>5. a.state = s => a = m[e] \/ KeptIn(f, a)
  BY DEF s
<1>6. a = m[e] => a.state = s /\ a.exit = how
  BY DEF s, how
<1>7. \/ f.arms >= 2 /\ ~ f.exits.always_terminates /\ Keeps(f.merged, a.state)
      \/ ~ f.skipped /\ a.state = s /\ Keeps(s, a.state) /\ ~ how.always_terminates
  BY <1>1, <1>4, <1>6 DEF KeptIn, Keeps
<1>8. CASE p[f.head].op = "if"
  <2>1. Keeps(JoinedState(p, f, s), a.state)
    BY <1>0, <1>1, <1>4, <1>7, <1>8, MergeKeeps DEF JoinedState
  <2>2. /\ JoinedExit(p, f, how) \in ExitStates
        /\ ~ JoinedExit(p, f, how).always_terminates
    <3>1. FallsThrough \in ExitStates /\ ~ FallsThrough.always_terminates
      BY DEF FallsThrough, ExitStates
    <3>. QED
      BY <1>1, <1>4, <1>7, <1>8, <3>1, EitherType, EitherEnds DEF JoinedExit
  <2>. QED
    BY <1>1, <1>2, <2>1, <2>2, InSuiteEnds
<1>9. CASE p[f.head].op = "match"
  <2>0. f.arms > 0
    BY <1>2, <1>9
  <2>1. ArmsState(f, s) \in States /\ Keeps(ArmsState(f, s), a.state)
    <3>1. Merge(f.merged, s) \in States
      BY <1>1, MergeType
    <3>2. CASE f.arms >= 2 /\ Keeps(f.merged, a.state)
      BY <1>0, <1>1, <3>1, <3>2, MergeKeeps DEF ArmsState
    <3>3. CASE ~ f.skipped /\ a.state = s /\ Keeps(s, a.state)
      BY <1>0, <1>1, <3>1, <3>3, MergeKeeps DEF ArmsState
    <3>. QED
      BY <1>7, <3>2, <3>3
  <2>2. Keeps(JoinedState(p, f, s), a.state)
    BY <1>0, <1>1, <1>9, <2>1, MergeKeeps DEF JoinedState
  <2>3. ArmsExit(f, how) \in ExitStates /\ ~ ArmsExit(f, how).always_terminates
    <3>1. Either(f.exits, how) \in ExitStates
      BY <1>1, EitherType
    <3>2. CASE f.arms >= 2 /\ ~ f.exits.always_terminates
      BY <1>1, <3>1, <3>2, EitherEnds DEF ArmsExit
    <3>3. CASE ~ how.always_terminates
      BY <1>1, <3>1, <3>3, EitherEnds DEF ArmsExit
    <3>. QED
      BY <1>7, <3>2, <3>3
  <2>4. /\ JoinedExit(p, f, how) \in ExitStates
        /\ ~ JoinedExit(p, f, how).always_terminates
    BY <1>1, <1>9, <2>3 DEF JoinedExit, ExitStates
  <2>. QED
    BY <1>1, <1>2, <2>2, <2>4, InSuiteEnds
<1>. QED
  BY <1>8, <1>9

(* ... and of what goes on where no arm is taken.                          *)
LEMMA JoinOfNone ==
    ASSUME NEW p, NEW m, Consistent(p, m), NEW e \in 1 .. Len(p), p[e].op = "end",
           NEW f, f = Open(m, e, Depth(m, e)),
           \/ p[f.head].op = "if" /\ f.arms = 1
           \/ p[f.head].op = "match" /\ ~ f.catchall,
           f.before.reachable, ~ f.suite.always_terminates
    PROVE  Keeps(m[e + 1].state, f.before) /\ ~ m[e + 1].exit.always_terminates
<1>. DEFINE s == m[e].state
            how == m[e].exit
<1>0. Depth(m, e) \in Nat \ {0} /\ f \in Frames
  BY Onward
<1>1. /\ s \in States /\ how \in ExitStates /\ f.merged \in States /\ f.exits \in ExitStates
      /\ f.before \in States /\ f.suite \in ExitStates /\ f.catchall \in BOOLEAN /\ f.arms \in Nat
  BY <1>0, Onward DEF Frames, Marks
<1>2. /\ m[e + 1].state = JoinedState(p, f, s)
      /\ m[e + 1].exit = InSuite(f.suite, JoinedExit(p, f, how))
  BY EndFrame
<1>. HIDE DEF s, how
<1>3. Keeps(f.before, f.before)
  BY DEF Keeps
<1>4. ArmsState(f, s) \in States /\ ArmsExit(f, how) \in ExitStates
  BY <1>1, MergeType, EitherType DEF ArmsState, ArmsExit
<1>5. Keeps(JoinedState(p, f, s), f.before)
  BY <1>1, <1>3, <1>4, MergeKeeps DEF JoinedState
<1>6. FallsThrough \in ExitStates /\ ~ FallsThrough.always_terminates
  BY DEF FallsThrough, ExitStates
<1>7. CASE p[f.head].op = "if" /\ f.arms = 1
  <2>1. JoinedExit(p, f, how) \in ExitStates /\ ~ JoinedExit(p, f, how).always_terminates
    BY <1>1, <1>6, <1>7, EitherType, EitherEnds DEF JoinedExit
  <2>. QED
    BY <1>1, <1>2, <1>5, <2>1, InSuiteEnds
<1>8. CASE p[f.head].op = "match" /\ ~ f.catchall
  <2>1. JoinedExit(p, f, how) \in ExitStates /\ ~ JoinedExit(p, f, how).always_terminates
    BY <1>1, <1>4, <1>8 DEF JoinedExit, ExitStates
  <2>. QED
    BY <1>1, <1>2, <1>5, <2>1, InSuiteEnds
<1>. QED
  BY <1>7, <1>8

-----------------------------------------------------------------------------
(* How a return or a break is heard of at the end of what it is in *)

Flags == {"return", "break"}

Has(exits, flag) == IF flag = "return" THEN exits.has_return ELSE exits.has_break

(* A return or break of a statement is one of its suite. *)
LEMMA HasInSuite ==
    ASSUME NEW suite \in ExitStates, NEW how \in ExitStates, NEW flag \in Flags
    PROVE  /\ InSuite(suite, how) \in ExitStates
           /\ Has(suite, flag) => Has(InSuite(suite, how), flag)
           /\ ~ suite.always_terminates /\ Has(how, flag) => Has(InSuite(suite, how), flag)
BY DEF InSuite, ExitStates, Has, Flags

(* A return or break of an arm is one of both arms. *)
LEMMA HasEither ==
    ASSUME NEW first \in ExitStates, NEW second \in ExitStates, NEW flag \in Flags
    PROVE  Has(Either(first, second), flag) <=> Has(first, flag) \/ Has(second, flag)
BY DEF Either, ExitStates, Has, Flags

(* A statement that is closed is left in some way. *)
LEMMA JoinedExitType ==
    ASSUME NEW p, NEW f \in Frames, NEW how \in ExitStates
    PROVE  JoinedExit(p, f, how) \in ExitStates
<1>1. FallsThrough \in ExitStates /\ f.exits \in ExitStates /\ f.catchall \in BOOLEAN
  BY DEF FallsThrough, ExitStates, Frames
<1>2. Either(how, FallsThrough) \in ExitStates /\ Either(f.exits, how) \in ExitStates
  BY <1>1, EitherType
<1>3. ArmsExit(f, how) \in ExitStates
  BY <1>2 DEF ArmsExit
<1>4. [ArmsExit(f, how) EXCEPT !.always_terminates = @ /\ f.catchall] \in ExitStates
  BY <1>1, <1>3 DEF ExitStates
<1>5. LoopExit(p[f.head].cond, how) \in ExitStates
  BY DEF LoopExit, ExitStates
<1>. QED
  BY <1>2, <1>4, <1>5 DEF JoinedExit

(* A return or break of an arm is one of the statement, but for a break    *)
(* of a loop.                                                              *)
LEMMA HasJoined ==
    ASSUME NEW p, NEW f \in Frames, NEW how \in ExitStates, NEW flag \in Flags,
           p[f.head].op \in Loops => f.arms = 1 /\ flag = "return",
           p[f.head].op \in Heads \ {"func"}, f.arms >= 1,
           Has(how, flag) \/ (f.arms >= 2 /\ Has(f.exits, flag))
    PROVE  Has(JoinedExit(p, f, how), flag)
<1>1. f.exits \in ExitStates /\ f.arms \in Nat /\ FallsThrough \in ExitStates /\ f.catchall \in BOOLEAN
  BY DEF Frames, FallsThrough, ExitStates
<1>2. CASE p[f.head].op = "if"
  BY <1>1, <1>2, HasEither DEF JoinedExit
<1>3. CASE p[f.head].op = "match"
  <2>1. ArmsExit(f, how) \in ExitStates /\ Has(ArmsExit(f, how), flag)
    <3>1. Either(f.exits, how) \in ExitStates
      BY <1>1, EitherType
    <3>2. CASE f.arms = 1
      BY <3>2 DEF ArmsExit
    <3>3. CASE f.arms # 1
      BY <1>1, <3>1, <3>3, HasEither DEF ArmsExit
    <3>. QED
      BY <3>2, <3>3
  <2>2. Has([ArmsExit(f, how) EXCEPT !.always_terminates = @ /\ f.catchall], flag)
    BY <2>1 DEF Has, ExitStates, Flags
  <2>. QED
    BY <1>3, <2>2 DEF JoinedExit
<1>4. CASE p[f.head].op \in Loops
  <2>1. flag = "return" /\ Has(how, flag)
    BY <1>4
  <2>2. Has(LoopExit(p[f.head].cond, how), flag)
    BY <2>1 DEF LoopExit, Has, ExitStates
  <2>. QED
    BY <1>4, <2>2 DEF JoinedExit, Loops
<1>. QED
  BY <1>2, <1>3, <1>4 DEF Heads, Loops

(* The frames below go on.                                                 *)
LEMMA FrameGoesOn ==
    ASSUME NEW p, NEW m, Consistent(p, m), NEW n \in 1 .. Len(p),
           NEW i \in 1 .. Depth(m, n), i <= Depth(m, n + 1),
           NEW f, f = Open(m, n, i), NEW g, g = Open(m, n + 1, i)
    PROVE  /\ g.head = f.head /\ g.before = f.before /\ g.type = f.type /\ g.suite = f.suite
           /\ g.arms >= f.arms
           /\ g = f \/ (p[n].op \in Arms /\ i = Depth(m, n))
<1>1. /\ Depth(m, n) \in Nat /\ Depth(m, n + 1) \in Nat /\ f \in Frames /\ g \in Frames
      /\ i \in 1 .. Depth(m, n + 1)
  BY Onward
<1>2. f.arms \in Nat
  BY <1>1 DEF Frames
<1>3. CASE g = f
  BY <1>2, <1>3
<1>4. CASE p[n].op \in Heads /\ i = Depth(m, n) + 1
  BY <1>1, <1>4
<1>5. CASE p[n].op \in Arms /\ i = Depth(m, n)
  <2>1. NextArm(f, g, n)
    BY <1>5, Onward
  <2>2. CASE p[n].op = "else"
    BY <1>2, <1>5, <2>1, <2>2, ElseFrame DEF NextArm
  <2>3. CASE p[n].op = "branch"
    BY <1>2, <1>5, <2>1, <2>3, BranchFrame DEF NextArm
  <2>. QED
    BY <1>5, <2>2, <2>3 DEF Arms
<1>. QED
  BY <1>1, <1>3, <1>4, <1>5, FrameFrom

(* A plain statement is added to its suite. *)
LEMMA PlainExit ==
    ASSUME NEW p, NEW m, Consistent(p, m), NEW n \in 1 .. Len(p), p[n].op \in PlainOps,
           Depth(m, n) > 0
    PROVE  \E how \in ExitStates :
               /\ m[n + 1].exit = InSuite(m[n].exit, how)
               /\ p[n].op \in {"assign", "var", "use", "assert"} => how = FallsThrough
               /\ p[n].op = "return" => how.has_return
               /\ p[n].op \in {"break", "continue"} => ~ how.always_terminates
               /\ p[n].op = "break" => how.has_break
<1>1. p[n].op # "member" /\ StepAt(p, n, m[n], m[n + 1])
  BY Onward, StepOf, Around1 DEF MemberAt, Depth
<1>2. \A s, type, how : PlainAt(p, m[n], m[n + 1], s, type, how) =>
          m[n + 1].exit = InSuite(m[n].exit, how)
  BY DEF PlainAt
<1>3. FallsThrough \in ExitStates
  BY DEF FallsThrough, ExitStates
<1>4. CASE p[n].op \in {"assign", "var", "use", "assert"}
  BY <1>1, <1>2, <1>3, <1>4, StepOf DEF AssignmentAt, VarAt, UseAt, AssertAt
<1>5. CASE p[n].op = "noreturn"
  <2>. DEFINE how == [FallsThrough EXCEPT !.always_terminates = TRUE]
  <2>1. m[n + 1].exit = InSuite(m[n].exit, how)
    BY <1>1, <1>2, <1>5, StepOf DEF NoReturnAt
  <2>2. how \in ExitStates
    BY DEF FallsThrough, ExitStates
  <2>. QED
    BY <1>5, <2>1, <2>2
<1>6. CASE p[n].op = "return"
  <2>. DEFINE how == [FallsThrough EXCEPT !.always_terminates = TRUE, !.has_return = TRUE]
  <2>1. m[n + 1].exit = InSuite(m[n].exit, how)
    BY <1>1, <1>2, <1>6, StepOf DEF ReturnAt
  <2>2. how \in ExitStates /\ how.has_return
    BY DEF FallsThrough, ExitStates
  <2>. QED
    BY <1>6, <2>1, <2>2
<1>7. CASE p[n].op \in {"break", "continue"}
  <2>. DEFINE breaks == p[n].op = "break"
              how == [FallsThrough EXCEPT !.has_break = breaks]
  <2>1. m[n + 1].exit = InSuite(m[n].exit, how)
    BY <1>1, <1>2, <1>7, StepOf DEF JumpAt
  <2>2. breaks \in BOOLEAN
    OBVIOUS
  <2>. HIDE DEF breaks
  <2>3. how \in ExitStates /\ ~ how.always_terminates /\ (how.has_break <=> breaks)
    BY <2>2 DEF FallsThrough, ExitStates
  <2>. HIDE DEF how
  <2>. QED
    BY <1>7, <2>1, <2>3 DEF breaks
<1>. QED
  BY <1>1, <1>4, <1>5, <1>6, <1>7 DEF PlainOps

(* A return or break known on one level is known there behind the next token. *)
LEMMA LevelGoesOn ==
    ASSUME NEW p, NEW m, Consistent(p, m), NEW n \in 1 .. Len(p), NEW flag \in Flags,
           NEW j \in 1 .. Depth(m, n), j <= Depth(m, n + 1),
           ~ (p[n].op \in Arms /\ j = Depth(m, n)),
           Has(LevelExit(m, n, j), flag)
    PROVE  Has(LevelExit(m, n + 1, j), flag)
<1>. DEFINE D == Depth(m, n)
<1>1. /\ D \in Nat /\ Depth(m, n + 1) \in Nat /\ j \in Nat /\ Len(p) \in Nat
      /\ m[n] \in Marks /\ m[n + 1] \in Marks
  BY Onward, LenProperties DEF Consistent
<1>2. m[n].exit \in ExitStates
  BY <1>1 DEF Marks
<1>3. CASE p[n].op \in PlainOps
  <2>1. Depth(m, n + 1) = D /\ (j # D => Open(m, n + 1, j + 1) = Open(m, n, j + 1))
    BY <1>1, <1>3, Onward
  <2>2. PICK how \in ExitStates : m[n + 1].exit = InSuite(m[n].exit, how)
    BY <1>1, <1>3, PlainExit
  <2>3. CASE j = D
    BY <1>2, <2>1, <2>2, <2>3, HasInSuite DEF LevelExit
  <2>4. CASE j # D
    BY <2>1, <2>4 DEF LevelExit
  <2>. QED
    BY <2>3, <2>4
<1>4. CASE p[n].op \in Heads
  <2>1. /\ Depth(m, n + 1) = D + 1
        /\ Open(m, n + 1, D + 1) = Opened(p[n], n, m[n])
        /\ j # D => Open(m, n + 1, j + 1) = Open(m, n, j + 1)
    BY <1>1, <1>4, Onward
  <2>2. Open(m, n + 1, D + 1).suite = m[n].exit
    BY <2>1 DEF Opened
  <2>. QED
    BY <1>1, <2>1, <2>2 DEF LevelExit
<1>5. CASE p[n].op \in Arms
  <2>1. Depth(m, n + 1) = D /\ j < D
    BY <1>1, <1>5, Onward
  <2>2. Open(m, n + 1, j + 1).suite = Open(m, n, j + 1).suite
    <3>1. j + 1 \in 1 .. D /\ j + 1 <= Depth(m, n + 1)
      BY <1>1, <2>1
    <3>. QED
      BY <3>1, FrameGoesOn
  <2>. QED
    BY <1>1, <2>1, <2>2 DEF LevelExit
<1>6. CASE p[n].op = "end"
  <2>. DEFINE f == Open(m, n, D)
  <2>1. /\ D > 0 /\ Depth(m, n + 1) = D - 1
        /\ j # D - 1 => Open(m, n + 1, j + 1) = Open(m, n, j + 1)
    BY <1>1, <1>6, Onward
  <2>2. CASE j # D - 1
    BY <1>1, <2>1, <2>2 DEF LevelExit
  <2>3. CASE j = D - 1
    <3>1. Has(f.suite, flag) /\ f \in Frames
      BY <1>1, <2>1, <2>3, Onward DEF LevelExit
    <3>2. Shape(p, m, n, D)
      BY <1>1, <2>1, Shapes
    <3>3. p[f.head].op # "func"
      BY <1>1, <2>3, <3>2 DEF Shape
    <3>4. m[n + 1].exit = InSuite(f.suite, JoinedExit(p, f, m[n].exit))
      BY <1>6, <3>3, EndFrame
    <3>5. f.suite \in ExitStates /\ JoinedExit(p, f, m[n].exit) \in ExitStates
      BY <1>2, <3>1, JoinedExitType DEF Frames
    <3>6. Has(m[n + 1].exit, flag)
      BY <3>1, <3>4, <3>5, HasInSuite
    <3>. QED
      BY <2>1, <2>3, <3>6 DEF LevelExit
  <2>. QED
    BY <2>2, <2>3
<1>. QED
  BY <1>3, <1>4, <1>5, <1>6, Onward

(* The flag is known of a block inside the lo-th, which control may leave. *)
CarriedBy(p, m, n, lo, flag, j) ==
    /\ \A i \in lo + 1 .. j :
          /\ ~ Open(m, n, i).suite.always_terminates
          /\ flag = "break" => p[Open(m, n, i).head].op \notin Loops
    /\ Open(m, n, j).arms >= 1
    /\ \/ Has(LevelExit(m, n, j), flag)
       \/ j > lo /\ Open(m, n, j).arms >= 2 /\ Has(Open(m, n, j).exits, flag)

CarriedAt(p, m, n, lo, flag) ==
    /\ p[Open(m, n, lo).head].op \notin {"if", "match"}
    /\ \E j \in lo .. Depth(m, n) : CarriedBy(p, m, n, lo, flag, j)

(* A return or break that is known on some level goes on being known. *)
LEMMA CarriedOn ==
    ASSUME NEW p, NEW m, Consistent(p, m), NEW n \in 1 .. Len(p), NEW flag \in Flags,
           NEW lo \in 1 .. Depth(m, n), lo <= Depth(m, n + 1), CarriedAt(p, m, n, lo, flag)
    PROVE  CarriedAt(p, m, n + 1, lo, flag)
<1>. DEFINE D == Depth(m, n)
            f == Open(m, n, D)
            g == Open(m, n + 1, D)
<1>1. /\ D \in Nat /\ Depth(m, n + 1) \in Nat /\ lo \in Nat \ {0} /\ Len(p) \in Nat
      /\ p[n].op \in PlainOps \cup Heads \cup Arms \cup {"end"}
      /\ D > 0 /\ f \in Frames /\ m[n] \in Marks
  <2>1. /\ D \in Nat /\ Depth(m, n + 1) \in Nat
        /\ p[n].op \in PlainOps \cup Heads \cup Arms \cup {"end"}
    BY Depths
  <2>2. Len(p) \in Nat
    BY LenProperties DEF Consistent
  <2>3. lo \in Nat \ {0} /\ D > 0 /\ n \in 1 .. Len(p) + 1
    BY <2>1, <2>2
  <2>4. f \in Frames /\ m[n] \in Marks
    BY <2>3, Around1
  <2>. QED
    BY <2>1, <2>2, <2>3, <2>4
<1>2. PICK j \in lo .. D : CarriedBy(p, m, n, lo, flag, j)
  BY DEF CarriedAt
<1>3. Open(m, n + 1, lo).head = Open(m, n, lo).head
  BY FrameGoesOn
<1>4. p[Open(m, n + 1, lo).head].op \notin {"if", "match"}
  BY <1>3 DEF CarriedAt
<1>5. ASSUME NEW k \in lo .. j, k <= Depth(m, n + 1)
      PROVE  \A i \in lo + 1 .. k :
                 /\ ~ Open(m, n + 1, i).suite.always_terminates
                 /\ flag = "break" => p[Open(m, n + 1, i).head].op \notin Loops
  <2>1. \A i \in lo + 1 .. k : /\ Open(m, n + 1, i).suite = Open(m, n, i).suite
                               /\ Open(m, n + 1, i).head = Open(m, n, i).head
    BY <1>1, <1>5, FrameGoesOn
  <2>. QED
    BY <1>1, <1>2, <1>5, <2>1 DEF CarriedBy
<1>6. CASE j <= Depth(m, n + 1) /\ ~ (p[n].op \in Arms /\ j = D)
  <2>1. Open(m, n + 1, j) = Open(m, n, j)
    BY <1>1, <1>6, FrameGoesOn
  <2>2. Has(LevelExit(m, n, j), flag) => Has(LevelExit(m, n + 1, j), flag)
    BY <1>1, <1>6, LevelGoesOn
  <2>3. CarriedBy(p, m, n + 1, lo, flag, j)
    BY <1>1, <1>2, <1>5, <1>6, <2>1, <2>2 DEF CarriedBy
  <2>. QED
    BY <1>1, <1>4, <1>6, <2>3 DEF CarriedAt
<1>7. CASE p[n].op \in Arms /\ j = D
  <2>1. Depth(m, n + 1) = D /\ g.arms >= 1
    <3>1. Depth(m, n + 1) = D /\ g \in Frames
      BY <1>7, AtArm
    <3>2. D \in 1 .. D /\ D <= Depth(m, n + 1)
      BY <1>1, <3>1
    <3>3. g.arms >= f.arms
      BY <3>2, FrameGoesOn
    <3>4. f.arms >= 1
      BY <1>2, <1>7 DEF CarriedBy
    <3>5. f.arms \in Nat /\ g.arms \in Nat
      BY <1>1, <3>1 DEF Frames
    <3>. QED
      BY <3>1, <3>3, <3>4, <3>5
  <2>2. p[f.head].op \in {"if", "match"}
    BY <1>7, ElseFrame, BranchFrame DEF Arms
  <2>3. D > lo
    BY <1>1, <2>2 DEF CarriedAt
  <2>4. \/ Has(m[n].exit, flag)
        \/ f.arms >= 2 /\ Has(f.exits, flag)
    BY <1>2, <1>7 DEF CarriedBy, LevelExit
  <2>5. g.arms >= 2 /\ Has(g.exits, flag)
    <3>1. CASE p[n].op = "else"
      BY <2>4, <3>1, ElseFrame
    <3>2. CASE p[n].op = "branch"
      <4>1. f.arms >= 1 /\ f.arms \in Nat /\ f.exits \in ExitStates /\ m[n].exit \in ExitStates
        BY <1>1, <1>2, <1>7 DEF CarriedBy, Frames, Marks
      <4>2. g.arms = f.arms + 1 /\ g.exits = IF f.arms = 1 THEN m[n].exit ELSE Either(f.exits, m[n].exit)
        BY <3>2, <4>1, BranchFrame
      <4>. HIDE DEF f, g
      <4>. QED
        BY <2>4, <4>1, <4>2, HasEither
    <3>. QED
      BY <1>7, <3>1, <3>2 DEF Arms
  <2>6. CarriedBy(p, m, n + 1, lo, flag, D)
    BY <1>1, <1>5, <1>7, <2>1, <2>3, <2>5 DEF CarriedBy
  <2>. QED
    BY <1>1, <1>4, <2>1, <2>3, <2>6 DEF CarriedAt
<1>8. CASE j > Depth(m, n + 1)
  <2>1. p[n].op = "end" /\ j = D /\ Depth(m, n + 1) = D - 1 /\ D > lo
    BY <1>1, <1>8, Onward
  <2>2. /\ ~ f.suite.always_terminates
        /\ flag = "break" => p[f.head].op \notin Loops
        /\ f.arms >= 1
        /\ Has(m[n].exit, flag) \/ (f.arms >= 2 /\ Has(f.exits, flag))
    BY <1>1, <1>2, <2>1 DEF CarriedBy, LevelExit
  <2>3. Shape(p, m, n, D) /\ Shape(p, m, n, D - 1)
    BY <1>1, <2>1, Shapes
  <2>4. /\ p[f.head].op # "func" /\ (p[f.head].op \in Loops => f.arms = 1)
        /\ Open(m, n, D - 1).arms >= 1
    BY <1>1, <2>1, <2>3 DEF Shape
  <2>5. /\ p[f.head].op \in Heads
        /\ m[n + 1].exit = InSuite(f.suite, JoinedExit(p, f, m[n].exit))
    BY <2>1, <2>4, EndFrame
  <2>6. m[n].exit \in ExitStates /\ f.suite \in ExitStates
    BY <1>1 DEF Marks, Frames
  <2>7. Has(JoinedExit(p, f, m[n].exit), flag) /\ JoinedExit(p, f, m[n].exit) \in ExitStates
    BY <1>1, <2>2, <2>4, <2>5, <2>6, HasJoined, JoinedExitType DEF Flags
  <2>8. Has(m[n + 1].exit, flag)
    BY <2>2, <2>5, <2>6, <2>7, HasInSuite
  <2>9. Open(m, n + 1, D - 1) = Open(m, n, D - 1)
    BY <1>1, <2>1, FrameGoesOn DEF Arms
  <2>10. CarriedBy(p, m, n + 1, lo, flag, D - 1)
    BY <1>1, <1>5, <2>1, <2>4, <2>8, <2>9 DEF CarriedBy, LevelExit
  <2>. QED
    BY <1>1, <1>4, <2>1, <2>10 DEF CarriedAt
<1>. QED
  BY <1>1, <1>6, <1>7, <1>8

(* A return or break that can be reached is known where the statement      *)
(* around it ends.                                                         *)
LEMMA Carried ==
    ASSUME NEW p, NEW m, Consistent(p, m), NEW flag \in Flags,
           NEW k \in 1 .. Len(p), p[k].op \in PlainOps,
           NEW lo \in 1 .. Depth(m, k), p[Open(m, k, lo).head].op \notin {"if", "match"},
           \A i \in lo + 1 .. Depth(m, k) :
               /\ ~ Open(m, k, i).suite.always_terminates
               /\ flag = "break" => p[Open(m, k, i).head].op \notin Loops,
           Has(m[k + 1].exit, flag),
           NEW e \in k + 1 .. Len(p) + 1, Depth(m, e) = lo,
           \A n \in k + 1 .. e : Depth(m, n) >= lo
    PROVE  Has(m[e].exit, flag)
<1>. DEFINE T == {n \in 1 .. Len(p) + 1 : n \in k + 1 .. e => CarriedAt(p, m, n, lo, flag)}
<1>0. Len(p) \in Nat /\ k \in Nat /\ e \in Nat /\ Depth(m, k) \in Nat /\ lo \in Nat \ {0}
  <2>1. Len(p) \in Nat
    BY LenProperties DEF Consistent
  <2>2. Depth(m, k) \in Nat
    BY Onward
  <2>. QED
    BY <2>1, <2>2
<1>1. 1 \in T
  BY <1>0
<1>2. CarriedAt(p, m, k + 1, lo, flag)
  <2>. DEFINE D == Depth(m, k)
  <2>1. Depth(m, k + 1) = D /\ \A i \in 1 .. D : Open(m, k + 1, i) = Open(m, k, i)
    BY AtPlain
  <2>2. Open(m, k, D).arms >= 1
    <3>1. p[k].op # "member"
      <4>1. StepAt(p, k, m[k], m[k + 1])
        BY Onward
      <4>2. m[k].blocks # <<>>
        BY <1>0, Around1
      <4>. QED
        BY <4>1, <4>2, StepOf DEF MemberAt
    <3>2. InBody(p, m[k])
      BY <3>1, InABody
    <3>3. Shape(p, m, k, D) /\ Open(m, k, D) \in Frames
      <4>1. D \in 1 .. Depth(m, k) /\ k \in 1 .. Len(p) + 1
        BY <1>0
      <4>2. Shape(p, m, k, D)
        BY <4>1, Shapes
      <4>. QED
        BY <4>1, <4>2, Onward
    <3>4. p[Open(m, k, D).head].op = "match" => Open(m, k, D).arms > 0
      BY <1>0, <3>2, Around1 DEF InBody, HeadOf
    <3>. QED
      BY <3>3, <3>4 DEF Shape, Frames
  <2>3. CarriedBy(p, m, k + 1, lo, flag, D)
    BY <1>0, <2>1, <2>2 DEF CarriedBy, LevelExit
  <2>. QED
    BY <1>0, <2>1, <2>3 DEF CarriedAt
<1>3. ASSUME NEW n \in 1 .. Len(p), n \in T
      PROVE  n + 1 \in T
  <2>1. CASE n = k
    BY <1>0, <1>2, <2>1
  <2>2. CASE n \in k + 1 .. e - 1
    <3>1. CarriedAt(p, m, n, lo, flag) /\ Depth(m, n) >= lo /\ Depth(m, n + 1) >= lo
      BY <1>0, <1>3, <2>2
    <3>2. lo \in 1 .. Depth(m, n) /\ lo <= Depth(m, n + 1)
      BY <1>0, <3>1, Onward
    <3>. QED
      BY <1>0, <3>1, <3>2, CarriedOn
  <2>3. CASE n + 1 \notin k + 1 .. e
    BY <1>0, <2>3
  <2>. QED
    BY <1>0, <2>1, <2>2, <2>3
<1>. HIDE DEF T
<1>4. \A n \in 1 .. Len(p) + 1 : n \in T
  BY <1>0, <1>1, <1>3, Inductive
<1>5. CarriedAt(p, m, e, lo, flag)
  BY <1>0, <1>4 DEF T
<1>6. PICK j \in lo .. Depth(m, e) : CarriedBy(p, m, e, lo, flag, j)
  BY <1>5 DEF CarriedAt
<1>. QED
  BY <1>0, <1>6 DEF CarriedBy, LevelExit

-----------------------------------------------------------------------------
(* The arms of a statement, one after the other *)

(* An arm that goes on from where token a began one. *)
LEMMA NextArmOf ==
    ASSUME NEW p, NEW m, Consistent(p, m), NEW a \in 1 .. Len(p), NEW n \in 1 .. Len(p),
           p[n].op \in Arms, Open(m, n, Depth(m, n)).arm = a
    PROVE  /\ a < n
           /\ Open(m, n, Depth(m, n)) = Open(m, a + 1, Depth(m, n))
           /\ p[a].op \in Heads => Open(m, n, Depth(m, n)).head = a /\ Depth(m, n) = Depth(m, a) + 1
           /\ p[a].op \in Arms =>
                /\ Depth(m, n) = Depth(m, a) /\ a > Open(m, n, Depth(m, n)).head
                /\ Open(m, n, Depth(m, n)).head = Open(m, a, Depth(m, a)).head
<1>. DEFINE i == Depth(m, n)
            f == Open(m, n, i)
<1>0. Len(p) \in Nat /\ n \in 1 .. Len(p) + 1 /\ i \in 1 .. Depth(m, n)
  <2>1. Len(p) \in Nat
    BY LenProperties DEF Consistent
  <2>2. i \in Nat \ {0}
    BY Onward
  <2>. QED
    BY <2>1, <2>2
<1>1. /\ f.head \in 1 .. n - 1 /\ p[f.head].op \in Heads /\ Depth(m, f.head) = i - 1
      /\ f.arm \in f.head .. n - 1
      /\ f.arm # f.head => p[f.arm].op \in Arms /\ Depth(m, f.arm) = i
  BY <1>0, FrameIs
<1>2. /\ \A k \in f.head + 1 .. n : Open(m, k, i).head = f.head
      /\ \A k \in f.arm + 1 .. n : Open(m, k, i) = f
  BY <1>0, FrameIs
<1>. HIDE DEF i, f
<1>3. f.arm = a
  BY DEF f, i
<1>4. p[a].op \in Heads => f.head = a
  BY <1>1, <1>3 DEF Heads, Arms
<1>5. p[a].op \in Arms => f.head # a
  BY <1>1 DEF Heads, Arms
<1>6. a < n /\ Open(m, a + 1, i) = f
  BY <1>0, <1>1, <1>2, <1>3
<1>7. p[a].op \in Arms => Depth(m, a) = i /\ a > f.head /\ Open(m, a, i).head = f.head
  BY <1>0, <1>1, <1>2, <1>3, <1>5
<1>8. p[a].op \in Heads => i = Depth(m, a) + 1
  BY <1>0, <1>1, <1>4, AtHead
<1>. QED
  BY <1>4, <1>6, <1>7, <1>8 DEF f, i

(* If none goes on from there, it is the last. *)
LEMMA LastArm ==
    ASSUME NEW p, NEW m, Consistent(p, m), NEW e \in 1 .. Len(p) + 1, NEW i \in 1 .. Depth(m, e),
           NEW a \in 1 .. e - 1, Open(m, a + 1, i).arm = a, a >= Open(m, e, i).head,
           \A n \in a + 1 .. e - 1 :
               ~ (p[n].op \in Arms /\ Depth(m, n) = i /\ Open(m, n, i).arm = a)
    PROVE  Open(m, e, i) = Open(m, a + 1, i)
<1>. DEFINE T == {n \in 1 .. Len(p) + 1 : n \in a + 1 .. e => Open(m, n, i).arm = a}
            h == Open(m, e, i).head
<1>0. Len(p) \in Nat /\ e \in Nat /\ Depth(m, e) \in Nat /\ i \in Nat \ {0}
  BY LenProperties, Around1 DEF Consistent
<1>1. 1 \in T
  BY <1>0
<1>2. h \in 1 .. e - 1 /\ \A n \in h + 1 .. e : Depth(m, n) >= i
  BY <1>0, FrameIs
<1>3. ASSUME NEW n \in 1 .. Len(p), n \in T
      PROVE  n + 1 \in T
  <2>0. SUFFICES ASSUME n + 1 \in a + 1 .. e
                 PROVE  Open(m, n + 1, i).arm = a
    BY <1>0
  <2>1. CASE n = a
    BY <2>1
  <2>2. CASE n # a
    <3>1. n \in a + 1 .. e - 1 /\ n \in h + 1 .. e /\ n + 1 \in h + 1 .. e /\ Open(m, n, i).arm = a
      BY <1>0, <1>2, <1>3, <2>0, <2>2
    <3>2. i \in 1 .. Depth(m, n) /\ i <= Depth(m, n + 1)
      BY <1>0, <1>2, <3>1, Onward
    <3>3. ~ (p[n].op \in Arms /\ Depth(m, n) = i)
      BY <3>1
    <3>. QED
      BY <3>1, <3>2, <3>3, FrameGoesOn
  <2>. QED
    BY <2>1, <2>2
<1>. HIDE DEF T
<1>4. \A n \in 1 .. Len(p) + 1 : n \in T
  BY <1>0, <1>1, <1>3, Inductive
<1>5. Open(m, e, i).arm = a
  BY <1>0, <1>4 DEF T
<1>6. \A k \in Open(m, e, i).arm + 1 .. e : Open(m, k, i) = Open(m, e, i)
  BY <1>0, FrameIs
<1>. QED
  BY <1>0, <1>5, <1>6

(* Behind anything but its head, a match has an arm; behind its head it    *)
(* gets one.                                                               *)
LEMMA HasArm ==
    ASSUME NEW p, NEW m, Consistent(p, m), NEW n \in 1 .. Len(p), Depth(m, n + 1) > 0
    PROVE  /\ p[n].op # "match" => Open(m, n + 1, Depth(m, n + 1)).arms >= 1
           /\ p[n].op = "match" /\ n < Len(p) => p[n + 1].op = "branch"
<1>. DEFINE D == Depth(m, n + 1)
            g == Open(m, n + 1, D)
<1>0. /\ Len(p) \in Nat /\ n \in Nat /\ D \in Nat \ {0} /\ Depth(m, n) \in Nat /\ g \in Frames
      /\ n + 1 \in 1 .. Len(p) + 1
  <2>1. Len(p) \in Nat
    BY LenProperties DEF Consistent
  <2>2. D \in Nat \ {0} /\ Depth(m, n) \in Nat /\ g \in Frames
    BY Onward
  <2>. QED
    BY <2>1, <2>2
<1>1. ASSUME p[n].op # "match"
      PROVE  g.arms >= 1
  <2>1. CASE p[n].op \in Heads
    <3>1. g = Opened(p[n], n, m[n])
      BY <2>1, Onward
    <3>. HIDE DEF g
    <3>. QED
      BY <1>1, <3>1 DEF Opened
  <2>2. CASE p[n].op \in PlainOps
    <3>1. Depth(m, n) = D /\ g = Open(m, n, D)
      BY <1>0, <2>2, Onward
    <3>2. p[n].op # "member"
      BY <1>0, <3>1, Onward, StepOf, Around1 DEF MemberAt
    <3>3. InBody(p, m[n])
      BY <2>2, <3>2, InABody
    <3>4. p[g.head].op = "match" => g.arms > 0
      BY <1>0, <3>1, <3>3, Around1 DEF InBody, HeadOf
    <3>5. Shape(p, m, n, D)
      BY <1>0, <3>1, Shapes
    <3>6. p[g.head].op # "match" => g.arms >= 1
      BY <3>1, <3>5 DEF Shape
    <3>. QED
      BY <1>0, <3>4, <3>6 DEF Frames
  <2>3. CASE p[n].op = "else"
    <3>1. Depth(m, n) = D
      BY <2>3, Onward DEF Arms
    <3>. QED
      BY <2>3, <3>1, ElseFrame
  <2>4. CASE p[n].op = "branch"
    <3>1. Depth(m, n) = D
      BY <2>4, Onward DEF Arms
    <3>2. g.arms = Open(m, n, D).arms + 1
      BY <2>4, <3>1, BranchFrame
    <3>3. Open(m, n, D).arms \in Nat
      BY <1>0, <3>1, Onward DEF Frames
    <3>. QED
      BY <3>2, <3>3
  <2>5. CASE p[n].op = "end"
    <3>1. Depth(m, n) = D + 1 /\ g = Open(m, n, D)
      BY <1>0, <2>5, Onward
    <3>2. Shape(p, m, n, D)
      BY <1>0, <3>1, Shapes
    <3>. QED
      BY <1>0, <3>1, <3>2 DEF Shape
  <2>. QED
    BY <2>1, <2>2, <2>3, <2>4, <2>5, Onward DEF Arms
<1>2. ASSUME p[n].op = "match", n < Len(p)
      PROVE  p[n + 1].op = "branch"
  <2>1. g = Opened(p[n], n, m[n]) /\ n + 1 \in 1 .. Len(p)
    BY <1>0, <1>2, Onward DEF Heads
  <2>2. g.head = n /\ g.arms = 0
    BY <1>2, <2>1 DEF Opened
  <2>3. p[g.head].op = "match"
    BY <1>2, <2>2
  <2>4. ~ InBody(p, m[n + 1])
    BY <1>0, <2>2, <2>3, Around1 DEF InBody, HeadOf
  <2>5. p[n + 1].op \notin (PlainOps \ {"member"}) \cup (Heads \ {"func"})
    BY <2>1, <2>4, InABody
  <2>6. p[n + 1].op # "member"
    BY <1>0, <2>1, Onward, StepOf, Around1 DEF MemberAt
  <2>7. p[n + 1].op # "func"
    BY <1>0, <2>1, FuncOutside
  <2>8. p[n + 1].op # "else"
    BY <2>1, <2>3, ElseFrame
  <2>9. p[n + 1].op # "end"
    BY <1>0, <2>1, <2>2, <2>3, EndFrame
  <2>10. p[n + 1].op \in PlainOps \cup Heads \cup Arms \cup {"end"}
    BY <2>1, Onward
  <2>. QED
    BY <2>5, <2>6, <2>7, <2>8, <2>9, <2>10 DEF Arms
<1>. QED
  BY <1>1, <1>2

-----------------------------------------------------------------------------
(* Members and functions *)

(* Outside of the functions there are members, first, and functions.       *)
LEMMA Outside ==
    ASSUME NEW p, NEW m, Consistent(p, m), NEW n \in 1 .. Len(p), Depth(m, n) = 0
    PROVE  p[n].op \in {"member", "func"}
<1>1. ~ InBody(p, m[n])
  BY LenProperties, Around1 DEF InBody, Consistent
<1>2. p[n].op \in {"member", "func"} \/ p[n].op \in Arms \cup {"end"}
  BY <1>1, InABody, Onward
<1>3. p[n].op \notin Arms \cup {"end"}
  BY Onward
<1>. QED
  BY <1>2, <1>3

(* A token is one of some alphabet. *)
LEMMA OfAnAlphabet ==
    ASSUME NEW t \in UNION {a.tokens : a \in Alphabets}
    PROVE  \E a \in Alphabets : t \in a.tokens
OBVIOUS

(* A token of a text is well formed. *)
LEMMA Texted ==
    ASSUME NEW p, NEW m, Consistent(p, m), NEW n \in 1 .. Len(p)
    PROVE  TokenOK(p[n])
<1>1. p[n] \in UNION {a.tokens : a \in Alphabets} \/ p[n] = EndToken
  BY ElementOfSeq DEF Consistent, Texts
<1>2. TokenOK(EndToken)
  BY DEF TokenOK, EndToken, Finals, Members, Locals, None
<1>3. p[n] = EndToken \/ \E a \in Alphabets : p[n] \in a.tokens
  BY <1>1, OfAnAlphabet
<1>. QED
  BY <1>2, <1>3, AlphabetsAssumption

(* Members stand in front of everything else, outside, each name once. *)
LEMMA MembersFirst ==
    ASSUME NEW p, NEW m, Consistent(p, m), NEW k \in 1 .. Len(p), p[k].op = "member"
    PROVE  /\ Depth(m, k) = 0 /\ Depth(m, k + 1) = 0
           /\ p[k].on \in Members
           /\ \A n \in 1 .. k - 1 : p[n].op = "member" /\ p[n].on # p[k].on
<1>1. MemberAt(p, k, m[k], m[k + 1])
  BY Onward, StepOf
<1>2. m[k].blocks = <<>> /\ \A n \in 1 .. k - 1 : p[n].op = "member" /\ p[n].on # p[k].on
  BY <1>1 DEF MemberAt
<1>3. Depth(m, k) = 0 /\ Depth(m, k + 1) = 0
  BY <1>2, Onward DEF Depth, PlainOps
<1>. QED
  BY <1>2, <1>3, Texted DEF TokenOK

(* A local is not assigned in front of its declaration. *)
Unheard(m, n, x) ==
    /\ x \notin m[n].state.assigned
    /\ \A i \in 1 .. Depth(m, n) :
          x \notin Open(m, n, i).before.assigned /\ x \notin Open(m, n, i).merged.assigned

-----------------------------------------------------------------------------
(* What holds where control is, when the finals were last assigned at b and *)
(* a jump was taken since as j tells.                                      *)

StateFits(s, tracked, b, j) ==
    /\ s.reachable
    /\ \A x \in s.assigned : b[x] # 0
    /\ \A x \in tracked : b[x] # 0 /\ ~ j[x] => x \in s.maybe_assigned

(* Control came into the statement by its head, behind what was reachable. *)
FrameFits(f, b) ==
    /\ f.before.reachable
    /\ \A x \in f.before.assigned : b[x] # 0
    /\ ~ f.suite.always_terminates

MarkFits(p, m, n, b, j) ==
    /\ StateFits(m[n].state, TrackedAt(p, m[n]), b, j)
    /\ ~ m[n].exit.always_terminates
    /\ \A i \in 2 .. Depth(m, n) : FrameFits(Open(m, n, i), b)

(* Control comes to a pattern, and to the end of an if or a match, from     *)
(* several sides: there the state is the one behind the token.             *)
OfHead(p, m, n) == p[Open(m, n, Depth(m, n)).head]

Known(p, m, n) ==
    IF \/ p[n].op = "branch"
       \/ p[n].op = "end" /\ OfHead(p, m, n).op \in {"if", "match"}
    THEN n + 1 ELSE n

(* The members assigned so far, outside of _init all of them.              *)
AtInit(p, m, n) ==
    IF Depth(m, n) = 0 THEN p[n].op = "func" /\ p[n].of = "_init"
    ELSE p[Open(m, n, 1).head].of = "_init"

MembersFit(p, m, n, b) ==
    \A k \in 1 .. Len(p) : p[k].op = "member" =>
        /\ p[k].cond # None /\ k < n => b[p[k].on] # 0
        /\ p[n].op # "member" /\ ~ AtInit(p, m, n) => b[p[k].on] # 0
        /\ p[n].op = "member" /\ n <= k => b[p[k].on] = 0

Standing(p, m, n, b, j) ==
    /\ MembersFit(p, m, n, b)
    /\ Depth(m, n) = 0 => \A x \in Locals : b[x] = 0
    /\ Depth(m, n) > 0 \/ p[n].op = "member" \/ AtInit(p, m, n) =>
           MarkFits(p, m, Known(p, m, n), b, j)

(* An arm that may have been taken with null, and the tokens inside one.   *)
TakesNull(p, f) == p[f.arm].op = "branch" /\ p[f.arm].cond \in MayMatchNull /\ p[f.head].on = "s"
NullIn(p, m, n, v) == v = "null" /\ \E i \in 1 .. Depth(m, n) : TakesNull(p, Open(m, n, i))

(* What s holds has the type known at token n, but for what the analysis    *)
(* does not carry over, where it was last assigned at w, and for such arms.*)
TypeFits(p, m, n, v, w) ==
    \/ v \in m[n].type
    \/ w >= n
    \/ w # 0 /\ \A i \in 1 .. Depth(m, n) : Open(m, w, Depth(m, w)).arm # Open(m, n, i).arm
    \/ NullIn(p, m, n, v)

(* ... at the heads around it, too.                                        *)
TypesFit(p, m, n, v, w) ==
    /\ p[n].op # "branch" /\ Depth(m, n) > 0 => TypeFits(p, m, Known(p, m, n), v, w)
    /\ \A i \in 2 .. Depth(m, n) : TypeFits(p, m, Open(m, n, i).head, v, w)

RunIInv ==
    /\ by \in [Finals -> Nat] /\ jumped \in [Finals -> BOOLEAN] /\ value \in Types /\ wrote \in Nat
    /\ pc = 0 => by = [x \in Finals |-> 0] /\ jumped = [x \in Finals |-> FALSE] /\ wrote = 0
    /\ pc # 0 =>
         /\ accepted /\ blocks = <<>> /\ prog # <<>> /\ Len(marks) = Len(prog)
         /\ \/ \A k \in 1 .. Len(prog) : prog[k].op = "member" => prog[k].cond # None
            \/ \E k \in 1 .. Len(prog) : prog[k].op = "func" /\ prog[k].of = "_init"
    /\ Running => Standing(prog, Marked, pc, by, jumped)

TypeIInv ==
    /\ wrote # 0 => wrote \in 1 .. Len(prog) /\ prog[wrote].op = "assign" /\ prog[wrote].on = "s"
    /\ Running => TypesFit(prog, Marked, pc, value, wrote)

(* A statement assigns at most what it names. *)
LEMMA AssignsOnly ==
    ASSUME NEW p, NEW m, Consistent(p, m), NEW n \in 1 .. Len(p), p[n].op \in PlainOps
    PROVE  \/ m[n + 1].state.assigned = m[n].state.assigned
           \/ /\ p[n].op \in {"member", "assign", "var"}
              /\ m[n + 1].state.assigned = m[n].state.assigned \cup {p[n].on}
<1>1. m[n] \in Marks /\ m[n].state \in States /\ m[n + 1] \in Marks
  BY Onward DEF Marks
<1>2. CASE p[n].op = "member"
  <2>1. MemberAt(p, n, m[n], m[n + 1])
    BY <1>2, Onward, StepOf
  <2>2. m[n + 1].state = IF p[n].cond = None THEN m[n].state ELSE Assigned(m[n].state, p[n].on)
    BY <1>1, <2>1 DEF MemberAt, Marks
  <2>. QED
    BY <1>1, <1>2, <2>2 DEF Assigned, States
<1>3. CASE p[n].op = "assign"
  <2>1. AssignmentAt(p, n, m[n], m[n + 1])
    BY <1>3, Onward, StepOf
  <2>2. \/ m[n + 1].state = m[n].state
        \/ m[n + 1].state = Assigned(m[n].state, p[n].on)
    BY <1>1, <2>1 DEF AssignmentAt, PlainAt
  <2>. QED
    BY <1>1, <1>3, <2>2 DEF Assigned, States
<1>4. CASE p[n].op = "var"
  <2>1. VarAt(p, n, m[n], m[n + 1])
    BY <1>4, Onward, StepOf
  <2>2. \/ m[n + 1].state = m[n].state
        \/ m[n + 1].state = Assigned(m[n].state, p[n].on)
    BY <1>1, <2>1 DEF VarAt, PlainAt
  <2>. QED
    BY <1>1, <1>4, <2>2 DEF Assigned, States
<1>5. CASE p[n].op \in {"use", "assert", "noreturn", "return", "break", "continue"}
  <2>1. m[n + 1].state \in {m[n].state, Unreachable(m[n].state)}
    <3>0. StepAt(p, n, m[n], m[n + 1])
      BY Onward
    <3>a. \A s, type, how : PlainAt(p, m[n], m[n + 1], s, type, how) =>
              m[n + 1].state = s \/ m[n + 1].state = m[n].state
      BY DEF PlainAt
    <3>1. CASE p[n].op = "use"
      BY <3>0, <3>a, <3>1, StepOf DEF UseAt
    <3>2. CASE p[n].op = "assert"
      BY <3>0, <3>a, <3>2, StepOf DEF AssertAt
    <3>3. CASE p[n].op = "noreturn"
      BY <3>0, <3>a, <3>3, StepOf DEF NoReturnAt
    <3>4. CASE p[n].op = "return"
      BY <3>0, <3>a, <3>4, StepOf DEF ReturnAt
    <3>5. CASE p[n].op \in {"break", "continue"}
      BY <3>0, <3>a, <3>5, StepOf DEF JumpAt
    <3>. QED
      BY <1>5, <3>1, <3>2, <3>3, <3>4, <3>5
  <2>. QED
    BY <1>1, <2>1 DEF Unreachable, States
<1>. QED
  BY <1>2, <1>3, <1>4, <1>5 DEF PlainOps

(* A join has nothing assigned that neither side has. *)
LEMMA MergeAssigns ==
    ASSUME NEW s \in States, NEW r \in States
    PROVE  Merge(s, r).assigned \subseteq s.assigned \cup r.assigned
BY DEF Merge, States
(* A local that was not heard of is still not, behind a token that does    *)
(* not name it.                                                            *)
LEMMA UnheardOn ==
    ASSUME NEW p, NEW m, Consistent(p, m), NEW n \in 1 .. Len(p), NEW x, Unheard(m, n, x),
           ~ (p[n].op \in {"member", "assign", "var"} /\ p[n].on = x)
    PROVE  Unheard(m, n + 1, x)
<1>. DEFINE D == Depth(m, n)
<1>0. /\ D \in Nat /\ Depth(m, n + 1) \in Nat
      /\ m[n] \in Marks /\ m[n].state \in States
      /\ x \notin m[n].state.assigned
      /\ \A i \in 1 .. D : /\ Open(m, n, i) \in Frames
                           /\ x \notin Open(m, n, i).before.assigned
                           /\ x \notin Open(m, n, i).merged.assigned
  BY Onward DEF Unheard, Marks
<1>1. ASSUME NEW i \in 1 .. Depth(m, n + 1), i \in 1 .. D, Open(m, n + 1, i) = Open(m, n, i)
      PROVE  x \notin Open(m, n + 1, i).before.assigned /\ x \notin Open(m, n + 1, i).merged.assigned
  BY <1>0, <1>1
<1>2. CASE p[n].op \in PlainOps
  <2>1. x \notin m[n + 1].state.assigned
    BY <1>0, <1>2, AssignsOnly
  <2>2. \A i \in 1 .. Depth(m, n + 1) : i \in 1 .. D /\ Open(m, n + 1, i) = Open(m, n, i)
    BY <1>2, Onward
  <2>. QED
    BY <1>1, <2>1, <2>2 DEF Unheard
<1>3. CASE p[n].op \in Heads
  <2>1. m[n + 1].state = m[n].state \/ m[n + 1].state = Unassigned
    <3>1. StepAt(p, n, m[n], m[n + 1])
      BY Onward
    <3>a. \A s, type : OpensAt(p, n, m[n], m[n + 1], s, type) => m[n + 1].state = s
      BY DEF OpensAt
    <3>2. CASE p[n].op = "func"
      BY <3>1, <3>a, <3>2, StepOf DEF FuncAt
    <3>3. CASE p[n].op \in {"if", "while", "for", "match"}
      BY <3>1, <3>a, <3>3, StepOf DEF HeadAt
    <3>. QED
      BY <1>3, <3>2, <3>3 DEF Heads
  <2>2. x \notin m[n + 1].state.assigned
    BY <1>0, <2>1 DEF Unassigned
  <2>3. Depth(m, n + 1) = D + 1 /\ Open(m, n + 1, D + 1) = Opened(p[n], n, m[n])
    BY <1>3, Onward
  <2>4. \A i \in 1 .. D : Open(m, n + 1, i) = Open(m, n, i)
    BY <1>3, Onward
  <2>5. Opened(p[n], n, m[n]).before = m[n].state /\ Opened(p[n], n, m[n]).merged = m[n].state
    BY DEF Opened
  <2>6. \A i \in 1 .. Depth(m, n + 1) : i = D + 1 \/ (i \in 1 .. D /\ Open(m, n + 1, i) = Open(m, n, i))
    BY <1>0, <2>3, <2>4
  <2>. QED
    BY <1>0, <1>1, <2>2, <2>3, <2>5, <2>6 DEF Unheard
<1>4. CASE p[n].op \in Arms
  <2>. DEFINE f == Open(m, n, D)
              g == Open(m, n + 1, D)
  <2>0. D > 0 /\ Depth(m, n + 1) = D /\ g.before = f.before /\ D \in 1 .. D
    BY <1>0, <1>4, Onward DEF NextArm
  <2>1. \A i \in 1 .. Depth(m, n + 1) : i = D \/ (i \in 1 .. D /\ Open(m, n + 1, i) = Open(m, n, i))
    BY <1>0, <1>4, <2>0, Onward
  <2>2. f \in Frames /\ f.before \in States /\ f.merged \in States /\ f.arms \in Nat
    BY <1>0, <2>0 DEF Frames
  <2>3. /\ m[n + 1].state \in {f.before, Unreachable(f.before)}
        /\ g.merged = m[n].state \/ g.merged = f.merged \/ g.merged = Merge(f.merged, m[n].state)
    <3>1. CASE p[n].op = "else"
      BY <3>1, ElseFrame
    <3>2. CASE p[n].op = "branch"
      <4>1. /\ f.arms > 0 => g.merged = IF f.skipped THEN f.merged
                              ELSE IF f.arms = 1 THEN m[n].state ELSE Merge(f.merged, m[n].state)
            /\ f.arms = 0 => g.merged = f.merged
            /\ m[n + 1].state = IF f.catchall THEN Unreachable(f.before) ELSE f.before
        BY <3>2, BranchFrame
      <4>. QED
        BY <2>2, <4>1
    <3>. QED
      BY <1>4, <3>1, <3>2 DEF Arms
  <2>4. x \notin f.before.assigned /\ x \notin f.merged.assigned
    BY <1>0, <2>0
  <2>5. x \notin g.merged.assigned
    BY <1>0, <2>2, <2>3, <2>4, MergeAssigns
  <2>6. x \notin m[n + 1].state.assigned
    BY <2>2, <2>3, <2>4 DEF Unreachable, States
  <2>. HIDE DEF f, g
  <2>7. x \notin g.before.assigned
    BY <2>0, <2>4
  <2>8. \A i \in 1 .. Depth(m, n + 1) : i = D => Open(m, n + 1, i) = g
    BY DEF g
  <2>. QED
    BY <1>1, <2>1, <2>5, <2>6, <2>7, <2>8 DEF Unheard
<1>5. CASE p[n].op = "end"
  <2>. DEFINE f == Open(m, n, D)
  <2>0. D > 0 /\ Depth(m, n + 1) = D - 1 /\ D \in 1 .. D
    BY <1>0, <1>5, Onward
  <2>1. \A i \in 1 .. Depth(m, n + 1) : i \in 1 .. D /\ Open(m, n + 1, i) = Open(m, n, i)
    BY <1>0, <1>5, <2>0, Onward
  <2>2. f \in Frames /\ f.before \in States /\ f.merged \in States
    BY <1>0, <2>0 DEF Frames
  <2>3. x \notin f.before.assigned /\ x \notin f.merged.assigned
    BY <1>0, <2>0
  <2>4. CASE p[f.head].op = "func"
    <3>1. EndFunctionAt(p, n, m[n], m[n + 1])
      BY <1>5, <2>4, EndFrame
    <3>2. m[n + 1].state = m[n].state
      BY <1>0, <3>1 DEF EndFunctionAt, Marks
    <3>. QED
      BY <1>0, <1>1, <2>1, <3>2 DEF Unheard
  <2>5. CASE p[f.head].op # "func"
    <3>1. m[n + 1].state = IF f.before.reachable THEN JoinedState(p, f, m[n].state) ELSE f.before
      BY <1>5, <2>5, EndFrame
    <3>. HIDE DEF f
    <3>2. ArmsState(f, m[n].state) \in States /\ x \notin ArmsState(f, m[n].state).assigned
      BY <1>0, <2>2, <2>3, MergeType, MergeAssigns DEF ArmsState
    <3>3. x \notin JoinedState(p, f, m[n].state).assigned
      <4>1. CASE p[f.head].op = "if"
        BY <1>0, <2>2, <2>3, <4>1, MergeAssigns DEF JoinedState
      <4>2. CASE p[f.head].op = "match"
        BY <1>0, <2>2, <2>3, <3>2, <4>2, MergeAssigns DEF JoinedState
      <4>3. CASE p[f.head].op \notin {"if", "match"}
        BY <2>2, <2>3, <4>3 DEF JoinedState, States
      <4>. QED
        BY <4>1, <4>2, <4>3
    <3>4. x \notin m[n + 1].state.assigned
      BY <2>3, <3>1, <3>3
    <3>. QED
      BY <1>1, <2>1, <3>4 DEF Unheard
  <2>. QED
    BY <2>4, <2>5
<1>. QED
  BY <1>2, <1>3, <1>4, <1>5, Onward

(* Where a local is declared it was not heard of before. *)
LEMMA NotYet ==
    ASSUME NEW p, NEW m, Consistent(p, m), NEW v \in 1 .. Len(p), p[v].op = "var"
    PROVE  p[v].on \in Locals /\ Unheard(m, v, p[v].on)
<1>. DEFINE x == p[v].on
            T == {n \in Nat : n <= v => Unheard(m, n, x)}
<1>0. Len(p) \in Nat /\ v \in Nat /\ m[1] = Beginning
  BY LenProperties DEF Consistent
<1>1. x \in Locals /\ x \notin Members
  BY Texted DEF TokenOK, Locals, Members
<1>2. \A k \in 1 .. v - 1 : ~ (p[k].op = "var" /\ p[k].on = x)
  <2>1. VarAt(p, v, m[v], m[v + 1])
    BY Onward, StepOf
  <2>. QED
    BY <2>1 DEF VarAt
<1>3. 1 \in T
  BY <1>0 DEF Unheard, Beginning, Depth, Unassigned
<1>4. ASSUME NEW n \in 1 .. Len(p), n \in T
      PROVE  n + 1 \in T
  <2>1. SUFFICES ASSUME n + 1 <= v PROVE Unheard(m, n + 1, x)
    BY <1>0
  <2>2. Unheard(m, n, x)
    BY <1>0, <1>4, <2>1
  <2>3. n \in 1 .. v - 1
    BY <1>0, <2>1
  <2>4. ~ (p[n].op = "member" /\ p[n].on = x)
    BY <1>1, MembersFirst
  <2>5. ~ (p[n].op = "var" /\ p[n].on = x)
    BY <1>2, <2>3
  <2>6. ~ (p[n].op = "assign" /\ p[n].on = x)
    <3>1. SUFFICES ASSUME p[n].op = "assign", p[n].on = x PROVE FALSE
      OBVIOUS
    <3>2. AssignmentAt(p, n, m[n], m[n + 1])
      BY <3>1, Onward, StepOf
    <3>3. PICK k \in 1 .. n - 1 : p[k].op = "var" /\ p[k].on = x
      BY <1>1, <3>1, <3>2 DEF AssignmentAt, Declared
    <3>. QED
      BY <1>0, <1>2, <2>3, <3>3
  <2>. HIDE DEF x
  <2>. QED
    BY <2>2, <2>4, <2>5, <2>6, UnheardOn
<1>. HIDE DEF T
<1>5. \A n \in 1 .. Len(p) + 1 : n \in T
  BY <1>0, <1>3, <1>4, Inductive
<1>6. v \in T
  BY <1>0, <1>5
<1>. QED
  BY <1>0, <1>1, <1>6 DEF T

(* The state behind a statement that opens no block. *)
LEMMA PlainState ==
    ASSUME NEW p, NEW m, Consistent(p, m), NEW n \in 1 .. Len(p), m[n].state.reachable
    PROVE  /\ p[n].op = "member" => m[n + 1].state =
                  IF p[n].cond = None THEN m[n].state ELSE Assigned(m[n].state, p[n].on)
           /\ p[n].op = "assign" => m[n + 1].state =
                  IF p[n].on \in TrackedAt(p, m[n]) THEN Assigned(m[n].state, p[n].on) ELSE m[n].state
           /\ p[n].op = "var" => m[n + 1].state =
                  IF p[n].cond = None THEN m[n].state ELSE Assigned(m[n].state, p[n].on)
           /\ p[n].op \in {"use", "assert"} => m[n + 1].state = m[n].state
<1>0. StepAt(p, n, m[n], m[n + 1]) /\ m[n] \in Marks
  BY Onward
<1>1. \A s, type, how : PlainAt(p, m[n], m[n + 1], s, type, how) => m[n + 1].state = s
  BY DEF PlainAt
<1>2. p[n].op = "member" => m[n + 1].state =
          IF p[n].cond = None THEN m[n].state ELSE Assigned(m[n].state, p[n].on)
  BY <1>0, StepOf DEF MemberAt, Marks
<1>3. p[n].op = "assign" => m[n + 1].state =
          IF p[n].on \in TrackedAt(p, m[n]) THEN Assigned(m[n].state, p[n].on) ELSE m[n].state
  BY <1>0, <1>1, StepOf DEF AssignmentAt
<1>4. p[n].op = "var" => m[n + 1].state =
          IF p[n].cond = None THEN m[n].state ELSE Assigned(m[n].state, p[n].on)
  BY <1>0, <1>1, StepOf DEF VarAt
<1>5. p[n].op = "use" => m[n + 1].state = m[n].state
  BY <1>0, <1>1, StepOf DEF UseAt
<1>6. p[n].op = "assert" => m[n + 1].state = m[n].state
  BY <1>0, <1>1, StepOf DEF AssertAt
<1>. QED
  BY <1>2, <1>3, <1>4, <1>5, <1>6

(* The state in which a block begins. *)
LEMMA HeadState ==
    ASSUME NEW p, NEW m, Consistent(p, m), NEW n \in 1 .. Len(p), p[n].op \in Heads
    PROVE  /\ m[n + 1].exit = FallsThrough
           /\ m[n + 1].state = IF p[n].op # "func" \/ p[n].of = "_init" THEN m[n].state ELSE Unassigned
<1>0. StepAt(p, n, m[n], m[n + 1])
  BY Onward
<1>1. \A s, type : OpensAt(p, n, m[n], m[n + 1], s, type) =>
          m[n + 1].state = s /\ m[n + 1].exit = FallsThrough
  BY DEF OpensAt
<1>2. CASE p[n].op = "func"
  BY <1>0, <1>1, <1>2, StepOf DEF FuncAt
<1>3. CASE p[n].op \in {"if", "while", "for", "match"}
  BY <1>0, <1>1, <1>3, StepOf DEF HeadAt
<1>. QED
  BY <1>2, <1>3 DEF Heads

(* A state that keeps another one fits wherever the other does. *)
LEMMA KeepsFits ==
    ASSUME NEW s, NEW r, Keeps(s, r), NEW T, NEW b, NEW j, StateFits(r, T, b, j)
    PROVE  StateFits(s, T, b, j)
BY DEF Keeps, StateFits

(* In one function the same finals are tracked. *)
LEMMA SameTracked ==
    ASSUME NEW p, NEW m, Consistent(p, m), NEW n \in 1 .. Len(p) + 1, NEW k \in 1 .. Len(p) + 1,
           Depth(m, n) >= 1, Depth(m, k) >= 1, Open(m, k, 1).head = Open(m, n, 1).head
    PROVE  TrackedAt(p, m[k]) = TrackedAt(p, m[n])
<1>1. m[n].blocks # <<>> /\ m[k].blocks # <<>>
  BY Around1
<1>. QED
  BY <1>1 DEF TrackedAt, Open

(* The finals, last assigned as b tells, after token t at n.               *)
Assigning(t, n, b, j, c, l) ==
    /\ c \in [Finals -> Nat] /\ l \in [Finals -> BOOLEAN]
    /\ t.op \in {"use", "assert"} \/ t.on \notin Finals => c = b /\ l = j
    /\ t.op \in {"assign", "var"} /\ t.on \in Finals =>
           /\ \A x \in Finals : x # t.on => c[x] = b[x] /\ l[x] = j[x]
           /\ c[t.on] = IF t.op = "var" /\ t.cond = None THEN 0 ELSE n

(* What is claimed in front of a plain statement is claimed behind it. *)
LEMMA PlainMoves ==
    ASSUME NEW p, NEW m, Consistent(p, m), NEW n \in 1 .. Len(p),
           p[n].op \in {"assign", "var", "use", "assert"},
           NEW b \in [Finals -> Nat], NEW j \in [Finals -> BOOLEAN], MarkFits(p, m, n, b, j),
           NEW c, NEW l, Assigning(p[n], n, b, j, c, l)
    PROVE  MarkFits(p, m, n + 1, c, l) /\ Depth(m, n) >= 1
<1>. DEFINE D == Depth(m, n)
            t == p[n]
            s == m[n].state
<1>0. /\ Len(p) \in Nat /\ n \in Nat /\ n # 0 /\ n + 1 \in 1 .. Len(p) + 1
      /\ D \in Nat /\ s \in States /\ m[n].exit \in ExitStates
      /\ InBody(p, m[n]) /\ D >= 1 /\ Depth(m, n + 1) = D
      /\ \A i \in 1 .. D : Open(m, n + 1, i) = Open(m, n, i) /\ Open(m, n, i) \in Frames
  <2>1. Len(p) \in Nat /\ n \in Nat /\ n # 0 /\ n + 1 \in 1 .. Len(p) + 1
    BY LenProperties DEF Consistent
  <2>2. D \in Nat /\ m[n] \in Marks /\ Depth(m, n + 1) = D
        /\ \A i \in 1 .. D : Open(m, n + 1, i) = Open(m, n, i) /\ Open(m, n, i) \in Frames
    BY Onward DEF PlainOps
  <2>3. InBody(p, m[n])
    BY InABody DEF PlainOps
  <2>4. D >= 1
    BY <2>1, <2>2, <2>3, Around1 DEF InBody
  <2>. QED
    BY <2>1, <2>2, <2>3, <2>4 DEF Marks
<1>1. TrackedAt(p, m[n + 1]) = TrackedAt(p, m[n])
  BY <1>0, SameTracked
<1>1a. Locals \subseteq TrackedAt(p, m[n]) /\ TrackedAt(p, m[n]) \subseteq Finals
  BY DEF TrackedAt, Finals
<1>2. s.reachable /\ ~ m[n].exit.always_terminates
  BY DEF MarkFits, StateFits
<1>3. ~ m[n + 1].exit.always_terminates
  <2>1. m[n + 1].exit = InSuite(m[n].exit, FallsThrough)
    BY <1>0, PlainExit DEF PlainOps
  <2>2. FallsThrough \in ExitStates /\ ~ FallsThrough.always_terminates
    BY DEF FallsThrough, ExitStates
  <2>. HIDE DEF D, t, s
  <2>. QED
    BY <1>0, <1>2, <2>1, <2>2, InSuiteEnds
<1>4. CASE t.op \in {"use", "assert"} \/ t.on \notin Finals
  <2>0. c = b /\ l = j
    BY <1>4 DEF Assigning
  <2>1. t.op # "var"
    BY <1>4, Texted DEF TokenOK, Finals
  <2>2. m[n + 1].state = s
    BY <1>1a, <1>2, <1>4, <2>1, PlainState
  <2>. QED
    BY <1>0, <1>1, <1>3, <2>0, <2>2 DEF MarkFits
<1>5. CASE t.op \in {"assign", "var"} /\ t.on \in Finals
  <2>. DEFINE x == t.on
  <2>0. /\ \A y \in Finals : y # x => c[y] = b[y] /\ l[y] = j[y]
        /\ c[x] = IF t.op = "var" /\ t.cond = None THEN 0 ELSE n
    BY <1>5 DEF Assigning
  <2>1. CASE t.op = "var" /\ t.cond = None
    <3>1. m[n + 1].state = s /\ c[x] = 0
      BY <1>2, <2>0, <2>1, PlainState
    <3>2. x \in Locals /\ Unheard(m, n, x)
      BY <2>1, NotYet
    <3>3. StateFits(s, TrackedAt(p, m[n]), c, l)
      BY <1>0, <1>1a, <2>0, <3>1, <3>2 DEF MarkFits, StateFits, Unheard, States
    <3>4. \A i \in 2 .. D : FrameFits(Open(m, n, i), c)
      <4>1. SUFFICES ASSUME NEW i \in 2 .. D PROVE FrameFits(Open(m, n, i), c)
        OBVIOUS
      <4>2. i \in 1 .. D
        BY <1>0
      <4>3. FrameFits(Open(m, n, i), b) /\ x \notin Open(m, n, i).before.assigned
        BY <3>2, <4>2 DEF MarkFits, Unheard
      <4>4. Open(m, n, i).before.assigned \subseteq Finals
        BY <1>0, <4>2 DEF Frames, States
      <4>. QED
        BY <2>0, <4>3, <4>4 DEF FrameFits
    <3>. QED
      BY <1>0, <1>1, <1>3, <3>1, <3>3, <3>4 DEF MarkFits
  <2>2. CASE ~ (t.op = "var" /\ t.cond = None)
    <3>1. c[x] = n
      BY <2>0, <2>2
    <3>2. x \in TrackedAt(p, m[n])
      <4>1. CASE t.op = "var"
        BY <1>1a, <4>1, NotYet
      <4>2. CASE t.op = "assign"
        <5>1. x \in Members => InInitAt(p, m[n])
          BY <4>2, Onward, StepOf DEF AssignmentAt
        <5>. QED
          BY <1>1a, <1>5, <5>1 DEF InInitAt, TrackedAt, Finals
      <4>. QED
        BY <1>5, <4>1, <4>2
    <3>3. m[n + 1].state = Assigned(s, x)
      BY <1>2, <1>5, <2>2, <3>2, PlainState
    <3>4. StateFits(Assigned(s, x), TrackedAt(p, m[n]), c, l)
      BY <1>0, <1>1a, <2>0, <3>1 DEF MarkFits, StateFits, Assigned, States
    <3>5. \A i \in 2 .. D : FrameFits(Open(m, n, i), c)
      <4>1. SUFFICES ASSUME NEW i \in 2 .. D PROVE FrameFits(Open(m, n, i), c)
        OBVIOUS
      <4>2. i \in 1 .. D
        BY <1>0
      <4>3. FrameFits(Open(m, n, i), b)
        BY DEF MarkFits
      <4>4. Open(m, n, i).before.assigned \subseteq Finals
        BY <1>0, <4>2 DEF Frames, States
      <4>. QED
        BY <1>0, <2>0, <3>1, <4>3, <4>4 DEF FrameFits
    <3>. QED
      BY <1>0, <1>1, <1>3, <3>3, <3>4, <3>5 DEF MarkFits
  <2>. QED
    BY <2>1, <2>2
<1>. QED
  BY <1>0, <1>4, <1>5

(* ... in front of a head, at the beginning of its block. *)
LEMMA HeadMoves ==
    ASSUME NEW p, NEW m, Consistent(p, m), NEW n \in 1 .. Len(p), p[n].op \in Heads \ {"func"},
           NEW b, NEW j, MarkFits(p, m, n, b, j)
    PROVE  /\ MarkFits(p, m, n + 1, b, j)
           /\ Depth(m, n) >= 1 /\ Depth(m, n + 1) = Depth(m, n) + 1
           /\ Open(m, n + 1, 1) = Open(m, n, 1)
<1>. DEFINE D == Depth(m, n)
<1>1. Len(p) \in Nat /\ n \in Nat /\ n + 1 \in 1 .. Len(p) + 1
  BY LenProperties DEF Consistent
<1>2. /\ D \in Nat /\ Depth(m, n + 1) = D + 1
      /\ Open(m, n + 1, D + 1) = Opened(p[n], n, m[n])
      /\ \A i \in 1 .. D : Open(m, n + 1, i) = Open(m, n, i)
  BY AtHead
<1>3. InBody(p, m[n])
  BY InABody
<1>4. D >= 1
  BY <1>1, <1>2, <1>3, Around1 DEF InBody
<1>5. m[n + 1].state = m[n].state /\ m[n + 1].exit = FallsThrough
  BY HeadState
<1>6. TrackedAt(p, m[n + 1]) = TrackedAt(p, m[n])
  BY <1>1, <1>2, <1>4, SameTracked
<1>7. FrameFits(Opened(p[n], n, m[n]), b)
  BY DEF Opened, FrameFits, MarkFits, StateFits
<1>8. \A i \in 2 .. D + 1 : i = D + 1 \/ (i \in 2 .. D /\ Open(m, n + 1, i) = Open(m, n, i))
  BY <1>2
<1>. HIDE DEF D
<1>9. \A i \in 2 .. D + 1 : FrameFits(Open(m, n + 1, i), b)
  BY <1>2, <1>7, <1>8 DEF MarkFits, D
<1>10. ~ FallsThrough.always_terminates
  BY DEF FallsThrough
<1>. QED
  BY <1>2, <1>4, <1>5, <1>6, <1>9, <1>10 DEF MarkFits, D

EndFor(p, m, h) ==
    CHOOSE e \in 1 .. Len(p) : p[e].op = "end" /\ Open(m, e, Depth(m, e)).head = h

(* The end of an open statement, and what it has in common with the        *)
(* tokens before.                                                          *)
LEMMA EndForIs ==
    ASSUME NEW p, NEW m, Consistent(p, m), Depth(m, Len(p) + 1) = 0,
           NEW n \in 1 .. Len(p) + 1, NEW i \in 1 .. Depth(m, n),
           NEW e, e = EndFor(p, m, Open(m, n, i).head)
    PROVE  /\ e \in n .. Len(p) /\ e \in 1 .. Len(p) /\ p[e].op = "end" /\ Depth(m, e) = i
           /\ Open(m, e, i).head = Open(m, n, i).head
           /\ Open(m, e, i).before = Open(m, n, i).before
           /\ Open(m, e, i).suite = Open(m, n, i).suite
           /\ \A k \in n .. e : Depth(m, k) >= i /\ Open(m, k, i).head = Open(m, n, i).head
           /\ \A l \in 1 .. i - 1 : Open(m, e, l) = Open(m, n, l)
<1>. DEFINE h == Open(m, n, i).head
<1>0. Len(p) \in Nat
  BY LenProperties DEF Consistent
<1>1. PICK d \in n .. Len(p) :
          /\ p[d].op = "end" /\ Depth(m, d) = i
          /\ \A k \in n .. d : Depth(m, k) >= i /\ Open(m, k, i).head = h
  BY Closed
<1>2. d \in 1 .. Len(p) /\ Open(m, d, Depth(m, d)).head = h
  BY <1>0, <1>1
<1>3. e \in 1 .. Len(p) /\ p[e].op = "end" /\ Open(m, e, Depth(m, e)).head = h
  BY <1>1, <1>2 DEF EndFor
<1>4. e = d
  BY <1>1, <1>2, <1>3, ClosedOnce
<1>5. i \in 1 .. Depth(m, e) /\ e \in 1 .. Len(p) + 1
  BY <1>0, <1>1, <1>3, <1>4
<1>. DEFINE f == Open(m, n, i)
            g == Open(m, e, i)
<1>6. /\ f.head \in 1 .. n - 1 /\ f.before = m[f.head].state /\ f.suite = m[f.head].exit
      /\ \A l \in 1 .. i - 1 : Open(m, n, l) = Open(m, f.head, l)
  BY FrameIs
<1>7. /\ g.before = m[g.head].state /\ g.suite = m[g.head].exit
      /\ \A l \in 1 .. i - 1 : Open(m, e, l) = Open(m, g.head, l)
  <2>1. g.head \in 1 .. e - 1 /\ g.before = m[g.head].state /\ g.suite = m[g.head].exit
    BY <1>5, FrameIs
  <2>2. \A k \in g.head + 1 .. e : \A l \in 1 .. i - 1 : Open(m, k, l) = Open(m, g.head, l)
    BY <1>5, FrameIs
  <2>3. e \in g.head + 1 .. e
    BY <1>0, <1>3, <2>1
  <2>. QED
    BY <2>1, <2>2, <2>3
<1>8. g.head = f.head
  BY <1>1, <1>3, <1>4
<1>. QED
  BY <1>1, <1>3, <1>4, <1>6, <1>7, <1>8

(* The outermost open statement is a function, and no other one. *)
LEMMA NotAFunction ==
    ASSUME NEW p, NEW m, Consistent(p, m), NEW n \in 1 .. Len(p) + 1, NEW i \in 1 .. Depth(m, n)
    PROVE  /\ p[Open(m, n, i).head].op = "func" <=> i = 1
           /\ p[Open(m, n, i).head].op \in Heads
BY Shapes, FrameIs DEF Shape

(* What fits one arm fits behind the statement. *)
LEMMA JoinMoves ==
    ASSUME NEW p, NEW m, Consistent(p, m), NEW e \in 1 .. Len(p), p[e].op = "end",
           p[Open(m, e, Depth(m, e)).head].op # "func",
           NEW r, Keeps(m[e + 1].state, r), ~ m[e + 1].exit.always_terminates,
           NEW b, NEW j, StateFits(r, TrackedAt(p, m[e]), b, j),
           \A i \in 2 .. Depth(m, e) - 1 : FrameFits(Open(m, e, i), b)
    PROVE  /\ MarkFits(p, m, e + 1, b, j)
           /\ Depth(m, e + 1) >= 1 /\ Depth(m, e + 1) = Depth(m, e) - 1
           /\ Open(m, e + 1, 1) = Open(m, e, 1)
<1>. DEFINE D == Depth(m, e)
<1>1. Len(p) \in Nat /\ e \in Nat /\ e + 1 \in 1 .. Len(p) + 1 /\ e \in 1 .. Len(p) + 1
  BY LenProperties DEF Consistent
<1>2. /\ D \in Nat /\ D > 0 /\ Depth(m, e + 1) = D - 1
      /\ \A i \in 1 .. D - 1 : Open(m, e + 1, i) = Open(m, e, i)
  BY Onward
<1>3. D # 1
  BY <1>1, <1>2, NotAFunction
<1>4. D - 1 >= 1
  BY <1>2, <1>3
<1>5. TrackedAt(p, m[e + 1]) = TrackedAt(p, m[e])
  BY <1>1, <1>2, <1>4, SameTracked
<1>6. StateFits(m[e + 1].state, TrackedAt(p, m[e]), b, j)
  BY KeepsFits
<1>7. \A i \in 2 .. D - 1 : FrameFits(Open(m, e + 1, i), b)
  BY <1>2
<1>. QED
  BY <1>2, <1>4, <1>5, <1>6, <1>7 DEF MarkFits

Arrived(p, m, k) == IF p[k].op \in Arms THEN EndFor(p, m, Open(m, k, Depth(m, k)).head) ELSE k

(* Where control arrives, when the token it comes to may be the next arm,  *)
(* the claims hold.                                                        *)
LEMMA Arrives ==
    ASSUME NEW p, NEW m, Consistent(p, m), Depth(m, Len(p) + 1) = 0,
           NEW k \in 1 .. Len(p), Depth(m, k) >= 1,
           p[k].op \in Arms => Open(m, k, Depth(m, k)).arms >= 1,
           NEW b, NEW j, MarkFits(p, m, k, b, j),
           NEW q, q = Arrived(p, m, k)
    PROVE  /\ q \in k .. Len(p) /\ q \in 1 .. Len(p) /\ p[q].op \notin Arms
           /\ Depth(m, q) = Depth(m, k)
           /\ Open(m, q, 1).head = Open(m, k, 1).head
           /\ MarkFits(p, m, Known(p, m, q), b, j)
           /\ p[k].op \notin Arms => q = k
<1>. DEFINE D == Depth(m, k)
<1>0. /\ Len(p) \in Nat /\ k \in Nat /\ D \in Nat /\ D \in 1 .. D /\ k \in 1 .. Len(p) + 1
      /\ m[k] \in Marks
  <2>1. Len(p) \in Nat /\ k \in Nat /\ k \in 1 .. Len(p) + 1
    BY LenProperties DEF Consistent
  <2>2. D \in Nat /\ m[k] \in Marks
    BY Onward
  <2>. QED
    BY <2>1, <2>2
<1>2. CASE p[k].op \notin Arms
  <2>1. q = k
    BY <1>2 DEF Arrived
  <2>2. CASE Known(p, m, k) = k
    BY <1>0, <1>2, <2>1, <2>2
  <2>3. CASE Known(p, m, k) # k
    <3>. DEFINE f == Open(m, k, D)
    <3>1. p[k].op = "end" /\ p[f.head].op \in {"if", "match"} /\ Known(p, m, k) = k + 1
      BY <1>2, <2>3 DEF Known, Arms, OfHead
    <3>2. D # 1
      BY <1>0, <3>1, NotAFunction
    <3>3. FrameFits(f, b)
      BY <1>0, <3>2 DEF MarkFits
    <3>4. m[k].state.reachable /\ ~ m[k].exit.always_terminates
      BY DEF MarkFits, StateFits
    <3>5. Keeps(m[k + 1].state, m[k].state) /\ ~ m[k + 1].exit.always_terminates
      BY <1>0, <3>1, <3>3, <3>4, JoinKeeps DEF FrameFits
    <3>6. StateFits(m[k].state, TrackedAt(p, m[k]), b, j) /\ \A i \in 2 .. D - 1 : FrameFits(Open(m, k, i), b)
      BY <1>0 DEF MarkFits
    <3>7. MarkFits(p, m, k + 1, b, j)
      BY <3>1, <3>5, <3>6, JoinMoves
    <3>. QED
      BY <1>0, <1>2, <2>1, <3>1, <3>7
  <2>. QED
    BY <2>2, <2>3
<1>3. CASE p[k].op \in Arms
  <2>. DEFINE f == Open(m, q, D)
              a == Open(m, k, D)
  <2>0. q = EndFor(p, m, a.head)
    BY <1>3 DEF Arrived
  <2>1. /\ q \in k .. Len(p) /\ q \in 1 .. Len(p) /\ p[q].op = "end" /\ Depth(m, q) = D
        /\ f.head = a.head /\ f.before = a.before /\ f.suite = a.suite
        /\ \A i \in 1 .. D - 1 : Open(m, q, i) = Open(m, k, i)
    BY <1>0, <2>0, EndForIs
  <2>2. p[f.head].op \in {"if", "match"}
    BY <1>3, <2>1, ElseFrame, BranchFrame DEF Arms
  <2>3. q \in k + 1 .. Len(p) + 1
    BY <1>0, <1>3, <2>1 DEF Arms
  <2>4. m[k].state.reachable /\ ~ m[k].exit.always_terminates
    BY DEF MarkFits, StateFits
  <2>5. KeptIn(f, m[k])
    BY <1>0, <1>3, <2>1, <2>3, <2>4, ArmKept
  <2>6. D # 1
    BY <1>0, <2>1, <2>2, NotAFunction
  <2>7. FrameFits(a, b)
    BY <1>0, <2>6 DEF MarkFits
  <2>8. Keeps(m[q + 1].state, m[k].state) /\ ~ m[q + 1].exit.always_terminates
    <3>1. f.before.reachable /\ ~ f.suite.always_terminates
      BY <2>1, <2>7 DEF FrameFits
    <3>2. f = Open(m, q, Depth(m, q))
      BY <2>1
    <3>. HIDE DEF f, a
    <3>. QED
      BY <1>0, <2>1, <2>2, <2>5, <3>1, <3>2, JoinKeeps
  <2>9. TrackedAt(p, m[q]) = TrackedAt(p, m[k]) /\ Open(m, q, 1).head = Open(m, k, 1).head
    <3>1. 1 \in 1 .. D - 1
      BY <1>0, <2>6
    <3>2. Open(m, q, 1).head = Open(m, k, 1).head /\ q \in 1 .. Len(p) + 1
      BY <1>0, <2>1, <3>1
    <3>. QED
      BY <1>0, <2>1, <3>2, SameTracked
  <2>10. StateFits(m[k].state, TrackedAt(p, m[q]), b, j) /\ \A i \in 2 .. D - 1 : FrameFits(Open(m, q, i), b)
    BY <1>0, <2>1, <2>9 DEF MarkFits
  <2>11. MarkFits(p, m, q + 1, b, j)
    <3>1. p[Open(m, q, Depth(m, q)).head].op # "func"
      BY <2>1, <2>2
    <3>2. \A i \in 2 .. Depth(m, q) - 1 : FrameFits(Open(m, q, i), b)
      BY <2>1, <2>10
    <3>. QED
      BY <2>1, <2>8, <2>10, <3>1, <3>2, JoinMoves
  <2>12. Known(p, m, q) = q + 1
    BY <2>1, <2>2 DEF Known, OfHead
  <2>. QED
    BY <1>3, <2>1, <2>9, <2>11, <2>12 DEF Arms
<1>. QED
  BY <1>2, <1>3

(* Members are written in front of the functions. *)
LEMMA MembersBehind ==
    ASSUME NEW p, NEW m, Consistent(p, m), NEW n \in 1 .. Len(p), Depth(m, n) >= 1
    PROVE  p[n].op # "member" /\ \A k \in 1 .. Len(p) : p[k].op = "member" => k < n
<1>1. n \in Nat /\ Len(p) \in Nat /\ Depth(m, n) # 0
  BY LenProperties DEF Consistent
<1>2. ASSUME NEW k \in 1 .. Len(p), p[k].op = "member"
      PROVE  k < n
  <2>1. Depth(m, k) = 0 /\ \A i \in 1 .. k - 1 : p[i].op = "member"
    BY <1>2, MembersFirst
  <2>2. CASE n < k
    <3>1. p[n].op = "member"
      BY <1>1, <2>1, <2>2
    <3>. QED
      BY <1>1, <3>1, MembersFirst
  <2>. QED
    BY <1>1, <2>1, <2>2
<1>3. p[n].op # "member"
  BY <1>1, MembersFirst
<1>. QED
  BY <1>2, <1>3

(* Inside one function the members that were assigned stay assigned. *)
LEMMA MembersStay ==
    ASSUME NEW p, NEW m, Consistent(p, m),
           NEW n \in 1 .. Len(p), Depth(m, n) >= 1, NEW q \in 1 .. Len(p), Depth(m, q) >= 1,
           Open(m, q, 1).head = Open(m, n, 1).head,
           NEW b, MembersFit(p, m, n, b), NEW c, \A x \in Members : b[x] # 0 => c[x] # 0
    PROVE  MembersFit(p, m, q, c)
<1>0. Depth(m, n) # 0 /\ Depth(m, q) # 0
  OBVIOUS
<1>1. AtInit(p, m, q) <=> AtInit(p, m, n)
  BY <1>0 DEF AtInit
<1>. SUFFICES ASSUME NEW k \in 1 .. Len(p), p[k].op = "member"
              PROVE  /\ p[k].cond # None => c[p[k].on] # 0
                     /\ ~ AtInit(p, m, n) => c[p[k].on] # 0
  BY <1>1, MembersBehind DEF MembersFit
<1>2. p[k].on \in Members
  BY MembersFirst
<1>3. k < n /\ p[n].op # "member"
  BY MembersBehind
<1>. QED
  BY <1>2, <1>3 DEF MembersFit

(* Control goes on to k, or to the end of what k is in.                    *)
LEMMA StandsBehind ==
    ASSUME NEW p, NEW m, Consistent(p, m), Depth(m, Len(p) + 1) = 0,
           NEW n \in 1 .. Len(p), Depth(m, n) >= 1, NEW b, MembersFit(p, m, n, b),
           NEW k \in 1 .. Len(p), Depth(m, k) >= 1,
           Open(m, k, 1).head = Open(m, n, 1).head,
           p[k].op \in Arms => Open(m, k, Depth(m, k)).arms >= 1,
           NEW c, NEW j, MarkFits(p, m, k, c, j), \A x \in Members : b[x] # 0 => c[x] # 0,
           NEW q, q = Arrived(p, m, k)
    PROVE  q \in 1 .. Len(p) /\ Standing(p, m, q, c, j)
<1>1. /\ q \in 1 .. Len(p) /\ Depth(m, q) = Depth(m, k) /\ Open(m, q, 1).head = Open(m, k, 1).head
      /\ MarkFits(p, m, Known(p, m, q), c, j)
  BY Arrives
<1>2. MembersFit(p, m, q, c)
  BY <1>1, MembersStay
<1>3. Depth(m, q) # 0
  BY <1>1
<1>. QED
  BY <1>1, <1>2, <1>3 DEF Standing

(* Something follows where a statement is open. *)
LEMMA NotTheLast ==
    ASSUME NEW p, NEW m, Consistent(p, m), Depth(m, Len(p) + 1) = 0,
           NEW n \in 1 .. Len(p), Depth(m, n + 1) >= 1
    PROVE  n + 1 \in 1 .. Len(p)
<1>1. Len(p) \in Nat
  BY LenProperties DEF Consistent
<1>2. n # Len(p)
  OBVIOUS
<1>. QED
  BY <1>1, <1>2

(* A statement stands in a block. *)
LEMMA InABlock ==
    ASSUME NEW p, NEW m, Consistent(p, m), NEW n \in 1 .. Len(p),
           p[n].op \in (PlainOps \ {"member"}) \cup (Heads \ {"func"})
    PROVE  Depth(m, n) \in Nat /\ Depth(m, n) >= 1 /\ n \in Nat /\ n # 0 /\ Depth(m, n) # 0
<1>1. Depth(m, n) \in Nat
  BY Onward
<1>2. n \in 1 .. Len(p) + 1 /\ n \in Nat /\ n # 0
  BY LenProperties DEF Consistent
<1>3. InBody(p, m[n])
  BY InABody
<1>4. Depth(m, n) > 0
  BY <1>2, <1>3, Around1 DEF InBody
<1>. QED
  BY <1>1, <1>2, <1>4

(* Standing inside a function. *)
LEMMA StandsInside ==
    ASSUME NEW p, NEW m, NEW n, Depth(m, n) >= 1, Depth(m, n) \in Nat, NEW b, NEW j, Standing(p, m, n, b, j)
    PROVE  /\ MembersFit(p, m, n, b) /\ MarkFits(p, m, Known(p, m, n), b, j)
           /\ p[n].op \notin {"branch", "end"} => MarkFits(p, m, n, b, j)
<1>1. Depth(m, n) > 0
  OBVIOUS
<1>2. MembersFit(p, m, n, b) /\ MarkFits(p, m, Known(p, m, n), b, j)
  BY <1>1 DEF Standing
<1>3. p[n].op \notin {"branch", "end"} => Known(p, m, n) = n
  BY DEF Known
<1>. QED
  BY <1>2, <1>3

(* Control goes on from a plain statement. *)
LEMMA PlainStands ==
    ASSUME NEW p, NEW m, Consistent(p, m), Depth(m, Len(p) + 1) = 0, NEW n \in 1 .. Len(p),
           p[n].op \in {"assign", "var", "use", "assert"},
           NEW b \in [Finals -> Nat], NEW j \in [Finals -> BOOLEAN], Standing(p, m, n, b, j),
           NEW c, NEW l, Assigning(p[n], n, b, j, c, l)
    PROVE  /\ n + 1 \in 1 .. Len(p) /\ Depth(m, n + 1) >= 1
           /\ Arrived(p, m, n + 1) \in 1 .. Len(p) /\ Standing(p, m, Arrived(p, m, n + 1), c, l)
<1>. DEFINE q == Arrived(p, m, n + 1)
<1>0. p[n].op \notin {"branch", "end", "match"} /\ p[n].op \in PlainOps
  BY DEF PlainOps
<1>0a. Depth(m, n) \in Nat /\ Depth(m, n) >= 1 /\ n \in Nat /\ n # 0
  BY InABlock DEF PlainOps
<1>1. MarkFits(p, m, n, b, j) /\ MembersFit(p, m, n, b)
  BY <1>0, <1>0a, StandsInside
<1>2. MarkFits(p, m, n + 1, c, l)
  BY <1>1, PlainMoves
<1>3. Depth(m, n + 1) = Depth(m, n) /\ Open(m, n + 1, 1) = Open(m, n, 1)
  BY <1>0, <1>0a, Onward
<1>3a. Depth(m, n + 1) >= 1 /\ Depth(m, n + 1) > 0
  BY <1>0a, <1>3
<1>4. n + 1 \in 1 .. Len(p)
  BY <1>3a, NotTheLast
<1>5. p[n + 1].op \in Arms => Open(m, n + 1, Depth(m, n + 1)).arms >= 1
  BY <1>0, <1>3a, HasArm
<1>6. \A x \in Members : b[x] # 0 => c[x] # 0
  <2>1. p[n].op = "var" => p[n].on \notin Members
    BY NotYet DEF Locals, Members
  <2>. QED
    BY <1>0, <1>0a, <2>1 DEF Finals, Assigning
<1>7. Open(m, n + 1, 1).head = Open(m, n, 1).head
  BY <1>3
<1>8. q \in 1 .. Len(p) /\ Standing(p, m, q, c, l)
  <2>1. /\ q \in 1 .. Len(p) /\ Depth(m, q) = Depth(m, n + 1)
        /\ Open(m, q, 1).head = Open(m, n + 1, 1).head
        /\ MarkFits(p, m, Known(p, m, q), c, l)
    BY <1>2, <1>3a, <1>4, <1>5, Arrives
  <2>2. Depth(m, q) >= 1 /\ Open(m, q, 1).head = Open(m, n, 1).head
    BY <1>3a, <1>7, <2>1
  <2>3. MembersFit(p, m, q, c)
    <3>1. /\ Depth(m, n) >= 1 /\ q \in 1 .. Len(p) /\ Depth(m, q) >= 1
          /\ Open(m, q, 1).head = Open(m, n, 1).head /\ MembersFit(p, m, n, b)
      BY <1>0a, <1>1, <2>1, <2>2
    <3>. HIDE DEF q
    <3>. QED
      BY <1>6, <3>1, MembersStay
  <2>4. Depth(m, q) # 0
    BY <2>2
  <2>. QED
    BY <2>1, <2>3, <2>4 DEF Standing
<1>. QED
  BY <1>3a, <1>4, <1>8

(* Control goes into a block. *)
LEMMA HeadStands ==
    ASSUME NEW p, NEW m, Consistent(p, m), Depth(m, Len(p) + 1) = 0, NEW n \in 1 .. Len(p),
           p[n].op \in {"if", "while", "for"},
           NEW b, NEW j, Standing(p, m, n, b, j), NEW q, q = Arrived(p, m, n + 1)
    PROVE  n + 1 \in 1 .. Len(p) /\ Depth(m, n + 1) >= 1 /\ q \in 1 .. Len(p) /\ Standing(p, m, q, b, j)
<1>0. p[n].op \notin {"branch", "end", "match"} /\ p[n].op \in Heads \ {"func"}
  BY DEF Heads
<1>0a. Depth(m, n) \in Nat /\ Depth(m, n) >= 1 /\ n \in Nat /\ n # 0
  BY <1>0, InABlock
<1>1. MarkFits(p, m, n, b, j) /\ MembersFit(p, m, n, b)
  BY <1>0, <1>0a, StandsInside
<1>2. /\ MarkFits(p, m, n + 1, b, j) /\ Depth(m, n + 1) >= 1 /\ Depth(m, n + 1) = Depth(m, n) + 1
      /\ Open(m, n + 1, 1) = Open(m, n, 1)
  BY <1>0, <1>0a, <1>1, HeadMoves
<1>4. n + 1 \in 1 .. Len(p)
  BY <1>2, NotTheLast
<1>5. p[n + 1].op \in Arms => Open(m, n + 1, Depth(m, n + 1)).arms >= 1
  <2>1. Depth(m, n + 1) > 0
    BY <1>0a, <1>2
  <2>. QED
    BY <1>0, <2>1, HasArm
<1>6. Open(m, n + 1, 1).head = Open(m, n, 1).head
  BY <1>2
<1>7. \A x \in Members : b[x] # 0 => b[x] # 0
  OBVIOUS
<1>8. q \in 1 .. Len(p) /\ Standing(p, m, q, b, j)
  BY <1>0a, <1>1, <1>2, <1>4, <1>5, <1>6, <1>7, StandsBehind
<1>. QED
  BY <1>2, <1>4, <1>8

(* The frames below that of a statement are the same all along it. *)
LEMMA SameBelow ==
    ASSUME NEW p, NEW m, Consistent(p, m), NEW n \in 1 .. Len(p) + 1, NEW k \in 1 .. Len(p) + 1,
           NEW i \in 1 .. Depth(m, n), i \in 1 .. Depth(m, k), Open(m, k, i).head = Open(m, n, i).head
    PROVE  /\ \A l \in 1 .. i - 1 : Open(m, k, l) = Open(m, n, l)
           /\ Open(m, k, i).before = Open(m, n, i).before
           /\ Open(m, k, i).suite = Open(m, n, i).suite
           /\ i >= 1 => Open(m, k, 1).head = Open(m, n, 1).head
<1>. DEFINE f == Open(m, n, i)
            g == Open(m, k, i)
<1>1. /\ f.before = m[f.head].state /\ f.suite = m[f.head].exit
      /\ \A l \in 1 .. i - 1 : Open(m, n, l) = Open(m, f.head, l)
  <2>1. f.head \in 1 .. n - 1 /\ f.before = m[f.head].state /\ f.suite = m[f.head].exit
    BY FrameIs
  <2>2. \A d \in f.head + 1 .. n : \A l \in 1 .. i - 1 : Open(m, d, l) = Open(m, f.head, l)
    BY FrameIs
  <2>3. n \in f.head + 1 .. n
    BY <2>1
  <2>. QED
    BY <2>1, <2>2, <2>3
<1>2. /\ g.before = m[g.head].state /\ g.suite = m[g.head].exit
      /\ \A l \in 1 .. i - 1 : Open(m, k, l) = Open(m, g.head, l)
  <2>1. g.head \in 1 .. k - 1 /\ g.before = m[g.head].state /\ g.suite = m[g.head].exit
    BY FrameIs
  <2>2. \A d \in g.head + 1 .. k : \A l \in 1 .. i - 1 : Open(m, d, l) = Open(m, g.head, l)
    BY FrameIs
  <2>3. k \in g.head + 1 .. k
    BY <2>1
  <2>. QED
    BY <2>1, <2>2, <2>3
<1>3. Depth(m, n) \in Nat /\ i \in Nat
  BY Around1
<1>. QED
  BY <1>1, <1>2, <1>3

(* Control goes into an arm in the state its statement began in. *)
LEMMA ArmMoves ==
    ASSUME NEW p, NEW m, Consistent(p, m), NEW n \in 1 .. Len(p), p[n].op \in Arms,
           NEW f, f = Open(m, n, Depth(m, n)), p[n].op = "branch" => ~ f.catchall,
           NEW b, NEW j, StateFits(f.before, TrackedAt(p, m[n]), b, j),
           \A i \in 2 .. Depth(m, n) : FrameFits(Open(m, n, i), b)
    PROVE  /\ MarkFits(p, m, n + 1, b, j)
           /\ Depth(m, n + 1) = Depth(m, n) /\ Depth(m, n) >= 1
           /\ Open(m, n + 1, 1).head = Open(m, n, 1).head
<1>. DEFINE D == Depth(m, n)
            g == Open(m, n + 1, D)
<1>0. Len(p) \in Nat /\ n \in Nat /\ n + 1 \in 1 .. Len(p) + 1
  BY LenProperties DEF Consistent
<1>1. /\ D \in Nat /\ D > 0 /\ Depth(m, n + 1) = D
      /\ g.head = f.head /\ g.before = f.before /\ g.suite = f.suite
      /\ \A i \in 1 .. D - 1 : Open(m, n + 1, i) = Open(m, n, i)
  BY Onward DEF NextArm
<1>2. m[n + 1].state = f.before /\ m[n + 1].exit = FallsThrough
  BY ElseFrame, BranchFrame DEF Arms
<1>3. \A i \in 1 .. D : Open(m, n + 1, i).head = Open(m, n, i).head
  <2>1. \A i \in 1 .. D : i = D \/ i \in 1 .. D - 1
    BY <1>1
  <2>2. Open(m, n + 1, D).head = Open(m, n, D).head
    BY <1>1
  <2>. QED
    BY <1>1, <2>1, <2>2
<1>3a. D >= 1 /\ Open(m, n + 1, 1).head = Open(m, n, 1).head
  BY <1>1, <1>3
<1>4. TrackedAt(p, m[n + 1]) = TrackedAt(p, m[n])
  BY <1>0, <1>1, <1>3a, SameTracked
<1>5. \A i \in 2 .. D : FrameFits(Open(m, n + 1, i), b)
  <2>1. SUFFICES ASSUME NEW i \in 2 .. D PROVE FrameFits(Open(m, n + 1, i), b)
    OBVIOUS
  <2>2. CASE i = D
    <3>1. FrameFits(f, b)
      BY <2>2
    <3>2. FrameFits(g, b)
      BY <1>1, <3>1 DEF FrameFits
    <3>. QED
      BY <2>2, <3>2
  <2>3. CASE i # D
    <3>1. i \in 1 .. D - 1
      BY <1>1, <2>3
    <3>. QED
      BY <1>1, <3>1
  <2>. QED
    BY <2>2, <2>3
<1>6. ~ FallsThrough.always_terminates
  BY DEF FallsThrough
<1>. QED
  BY <1>1, <1>2, <1>3a, <1>4, <1>5, <1>6 DEF MarkFits

(* In an arm that n began: the next one ...                                *)
LEMMA NextMoves ==
    ASSUME NEW p, NEW m, Consistent(p, m), NEW n \in 1 .. Len(p), Depth(m, n + 1) >= 1,
           NEW i, i = Depth(m, n + 1), NEW f, f = Open(m, n + 1, i), p[f.head].op = "match" => ~ f.catchall,
           NEW b, NEW j, MarkFits(p, m, n + 1, b, j), StateFits(f.before, TrackedAt(p, m[n + 1]), b, j),
           p[n].op \in Heads \cup Arms,
           NEW k \in 1 .. Len(p), p[k].op \in Arms, Open(m, k, Depth(m, k)).arm = n
    PROVE  /\ MarkFits(p, m, k + 1, b, j)
           /\ Depth(m, k + 1) = i /\ Depth(m, k) = i
           /\ Open(m, k + 1, 1).head = Open(m, n + 1, 1).head
           /\ Open(m, k, 1).head = Open(m, n + 1, 1).head
           /\ p[k].op = IF p[f.head].op = "if" THEN "else" ELSE "branch"
<1>0. /\ Len(p) \in Nat /\ n + 1 \in 1 .. Len(p) + 1 /\ k \in 1 .. Len(p) + 1
      /\ Depth(m, n + 1) \in Nat /\ Depth(m, n) \in Nat
  <2>1. Len(p) \in Nat /\ n + 1 \in 1 .. Len(p) + 1 /\ k \in 1 .. Len(p) + 1
    BY LenProperties DEF Consistent
  <2>2. Depth(m, n + 1) \in Nat /\ Depth(m, n) \in Nat
    BY Onward
  <2>. QED
    BY <2>1, <2>2
<1>1. /\ n < k /\ Open(m, k, Depth(m, k)) = Open(m, n + 1, Depth(m, k))
      /\ p[n].op \in Heads => Depth(m, k) = Depth(m, n) + 1
      /\ p[n].op \in Arms => Depth(m, k) = Depth(m, n)
  BY NextArmOf
<1>2. Depth(m, k) = i
  <2>1. p[n].op \in Heads => Depth(m, n + 1) = Depth(m, n) + 1
    BY Onward
  <2>2. p[n].op \in Arms => Depth(m, n + 1) = Depth(m, n)
    BY Onward
  <2>. QED
    BY <1>1, <2>1, <2>2
<1>3. i \in 1 .. Depth(m, n + 1) /\ i \in 1 .. Depth(m, k) /\ Open(m, k, i) = f
  BY <1>0, <1>1, <1>2
<1>4. /\ \A l \in 1 .. i - 1 : Open(m, k, l) = Open(m, n + 1, l)
      /\ Open(m, k, 1).head = Open(m, n + 1, 1).head
  BY <1>0, <1>3, SameBelow
<1>5. p[k].op = IF p[f.head].op = "if" THEN "else" ELSE "branch"
  BY <1>2, <1>3, ElseFrame, BranchFrame DEF Arms
<1>6. p[k].op = "branch" => ~ f.catchall
  BY <1>2, <1>3, BranchFrame
<1>7. TrackedAt(p, m[k]) = TrackedAt(p, m[n + 1])
  BY <1>0, <1>2, <1>4, SameTracked
<1>8. \A l \in 2 .. Depth(m, k) : FrameFits(Open(m, k, l), b)
  <2>1. \A l \in 2 .. i : Open(m, k, l) = Open(m, n + 1, l)
    BY <1>0, <1>3, <1>4
  <2>. QED
    BY <1>2, <2>1 DEF MarkFits
<1>9. f = Open(m, k, Depth(m, k)) /\ StateFits(f.before, TrackedAt(p, m[k]), b, j)
  BY <1>2, <1>3, <1>7
<1>10. /\ MarkFits(p, m, k + 1, b, j) /\ Depth(m, k + 1) = Depth(m, k)
       /\ Open(m, k + 1, 1).head = Open(m, k, 1).head
  BY <1>6, <1>8, <1>9, ArmMoves
<1>. QED
  BY <1>2, <1>4, <1>5, <1>10

(* ... or if there is none, the end.                                       *)
LEMMA LastMoves ==
    ASSUME NEW p, NEW m, Consistent(p, m), Depth(m, Len(p) + 1) = 0,
           NEW n \in 1 .. Len(p), Depth(m, n + 1) >= 1,
           NEW i, i = Depth(m, n + 1), NEW f, f = Open(m, n + 1, i), f.arm = n,
           \/ p[f.head].op = "if" /\ f.arms = 1
           \/ p[f.head].op = "match" /\ ~ f.catchall,
           NEW b, NEW j, MarkFits(p, m, n + 1, b, j), StateFits(f.before, TrackedAt(p, m[n + 1]), b, j),
           \A k \in 1 .. Len(p) : ~ (p[k].op \in Arms /\ Open(m, k, Depth(m, k)).arm = n),
           NEW e, e = EndFor(p, m, f.head)
    PROVE  /\ e \in 1 .. Len(p) /\ Depth(m, e) = i
           /\ Open(m, e, 1).head = Open(m, n + 1, 1).head
           /\ MarkFits(p, m, Known(p, m, e), b, j)
<1>0. /\ Len(p) \in Nat /\ n + 1 \in 1 .. Len(p) + 1 /\ i \in Nat /\ i \in 1 .. i
  <2>1. Len(p) \in Nat /\ n + 1 \in 1 .. Len(p) + 1
    BY LenProperties DEF Consistent
  <2>2. Depth(m, n + 1) \in Nat
    BY Onward
  <2>. QED
    BY <2>1, <2>2
<1>1. /\ e \in n + 1 .. Len(p) /\ e \in 1 .. Len(p) /\ p[e].op = "end" /\ Depth(m, e) = i
      /\ Open(m, e, i).head = f.head
      /\ \A l \in 1 .. i - 1 : Open(m, e, l) = Open(m, n + 1, l)
  BY <1>0, EndForIs
<1>1a. e \in 1 .. Len(p) + 1 /\ n \in 1 .. e - 1 /\ i \in 1 .. Depth(m, e)
  BY <1>0, <1>1
<1>2. Open(m, e, i) = f
  <2>1. f.head <= n
    <3>1. f.arm \in f.head .. n
      BY <1>0, FrameIs
    <3>2. f \in Frames
      BY <1>0, Around1
    <3>. QED
      BY <3>1, <3>2 DEF Frames
  <2>2. \A k \in n + 1 .. e - 1 : ~ (p[k].op \in Arms /\ Depth(m, k) = i /\ Open(m, k, i).arm = n)
    BY <1>0, <1>1
  <2>3. n >= Open(m, e, i).head
    BY <1>1, <2>1, <1>0, FrameIs
  <2>. QED
    BY <1>1a, <2>2, <2>3, LastArm
<1>3. i # 1
  BY <1>0, NotAFunction
<1>4. FrameFits(f, b)
  BY <1>0, <1>3 DEF MarkFits
<1>5. Open(m, e, 1).head = Open(m, n + 1, 1).head
  BY <1>0, <1>1, <1>3
<1>6. TrackedAt(p, m[e]) = TrackedAt(p, m[n + 1])
  BY <1>0, <1>1, <1>1a, <1>5, SameTracked
<1>7. f = Open(m, e, Depth(m, e)) /\ f.before.reachable /\ ~ f.suite.always_terminates
  BY <1>1, <1>2, <1>4 DEF FrameFits
<1>8. Keeps(m[e + 1].state, f.before) /\ ~ m[e + 1].exit.always_terminates
  BY <1>1, <1>7, JoinOfNone
<1>9. \A l \in 2 .. Depth(m, e) - 1 : FrameFits(Open(m, e, l), b)
  BY <1>0, <1>1 DEF MarkFits
<1>10. p[Open(m, e, Depth(m, e)).head].op \in {"if", "match"}
  BY <1>7
<1>11. MarkFits(p, m, e + 1, b, j)
  BY <1>1, <1>6, <1>8, <1>9, <1>10, JoinMoves
<1>12. Known(p, m, e) = e + 1
  BY <1>1, <1>10 DEF Known, OfHead
<1>. QED
  BY <1>1, <1>5, <1>11, <1>12

-----------------------------------------------------------------------------
(* Control stands where it should behind ... a match, *)
LEMMA MatchStands ==
    ASSUME NEW p, NEW m, Consistent(p, m), Depth(m, Len(p) + 1) = 0, NEW n \in 1 .. Len(p),
           p[n].op = "match", NEW b, NEW j, Standing(p, m, n, b, j)
    PROVE  n + 1 \in 1 .. Len(p) /\ Depth(m, n + 1) >= 1 /\ Standing(p, m, n + 1, b, j)
<1>0. p[n].op \notin {"branch", "end"} /\ p[n].op \in Heads \ {"func"} /\ p[n].op \in Heads
  BY DEF Heads
<1>0a. Depth(m, n) \in Nat /\ Depth(m, n) >= 1 /\ n \in Nat /\ n # 0
  BY <1>0, InABlock
<1>1. MarkFits(p, m, n, b, j) /\ MembersFit(p, m, n, b)
  BY <1>0, <1>0a, StandsInside
<1>2. /\ MarkFits(p, m, n + 1, b, j) /\ Depth(m, n + 1) >= 1 /\ Depth(m, n + 1) = Depth(m, n) + 1
      /\ Open(m, n + 1, 1) = Open(m, n, 1)
  BY <1>0, <1>0a, <1>1, HeadMoves
<1>4. n + 1 \in 1 .. Len(p) /\ Len(p) \in Nat
  BY <1>2, NotTheLast, LenProperties DEF Consistent
<1>5. p[n + 1].op = "branch"
  <2>1. Depth(m, n + 1) > 0 /\ n < Len(p)
    BY <1>0a, <1>2, <1>4
  <2>. QED
    BY <2>1, HasArm
<1>. DEFINE f == Open(m, n + 1, Depth(m, n + 1))
<1>6. f = Opened(p[n], n, m[n])
  BY <1>0, <1>2, Onward
<1>7. ~ f.catchall /\ f.before = m[n].state
  BY <1>6 DEF Opened
<1>8. m[n + 1].state = m[n].state
  BY <1>0, HeadState
<1>9. StateFits(f.before, TrackedAt(p, m[n + 1]), b, j)
  BY <1>2, <1>7, <1>8 DEF MarkFits
<1>10. \A i \in 2 .. Depth(m, n + 1) : FrameFits(Open(m, n + 1, i), b)
  BY <1>2 DEF MarkFits
<1>11. MarkFits(p, m, n + 1 + 1, b, j)
  BY <1>4, <1>5, <1>7, <1>9, <1>10, ArmMoves DEF Arms
<1>12. Known(p, m, n + 1) = n + 1 + 1
  BY <1>5 DEF Known
<1>13. MembersFit(p, m, n + 1, b)
  BY <1>0a, <1>1, <1>2, <1>4, MembersStay
<1>14. Depth(m, n + 1) # 0
  BY <1>2
<1>. QED
  BY <1>2, <1>4, <1>11, <1>12, <1>13, <1>14 DEF Standing

(* An arm stands in a statement, in a function. *)
LEMMA ArmDepth ==
    ASSUME NEW p, NEW m, Consistent(p, m), NEW n \in 1 .. Len(p), p[n].op \in Arms
    PROVE  /\ Depth(m, n) \in Nat /\ Depth(m, n) >= 2 /\ Depth(m, n + 1) = Depth(m, n)
           /\ Depth(m, n) # 0
           /\ Open(m, n + 1, 1) = Open(m, n, 1)
<1>1. /\ Depth(m, n) \in Nat /\ Depth(m, n) > 0 /\ Depth(m, n + 1) = Depth(m, n)
      /\ \A i \in 1 .. Depth(m, n) - 1 : Open(m, n + 1, i) = Open(m, n, i)
  BY Onward
<1>2. n \in 1 .. Len(p) + 1 /\ Depth(m, n) \in 1 .. Depth(m, n)
  BY <1>1, LenProperties DEF Consistent
<1>3. p[Open(m, n, Depth(m, n)).head].op \in {"if", "match"}
  BY ElseFrame, BranchFrame DEF Arms
<1>4. Depth(m, n) # 1
  BY <1>2, <1>3, NotAFunction
<1>. QED
  BY <1>1, <1>4

(* ... an arm that is taken, *)
LEMMA BranchStands ==
    ASSUME NEW p, NEW m, Consistent(p, m), Depth(m, Len(p) + 1) = 0, NEW n \in 1 .. Len(p),
           p[n].op = "branch",
           NEW b, NEW j, Standing(p, m, n, b, j), NEW q, q = Arrived(p, m, n + 1)
    PROVE  n + 1 \in 1 .. Len(p) /\ Depth(m, n + 1) >= 1 /\ q \in 1 .. Len(p) /\ Standing(p, m, q, b, j)
<1>0. /\ Depth(m, n) \in Nat /\ Depth(m, n) >= 2 /\ Depth(m, n + 1) = Depth(m, n)
      /\ Open(m, n + 1, 1) = Open(m, n, 1)
  BY ArmDepth DEF Arms
<1>1. Depth(m, n) >= 1 /\ Depth(m, n + 1) >= 1 /\ Depth(m, n + 1) > 0
  BY <1>0
<1>2. MarkFits(p, m, n + 1, b, j) /\ MembersFit(p, m, n, b)
  BY <1>0, <1>1, StandsInside DEF Known
<1>3. n + 1 \in 1 .. Len(p)
  BY <1>1, NotTheLast
<1>4. p[n + 1].op \in Arms => Open(m, n + 1, Depth(m, n + 1)).arms >= 1
  BY <1>1, HasArm
<1>5. Open(m, n + 1, 1).head = Open(m, n, 1).head
  BY <1>0
<1>6. \A x \in Members : b[x] # 0 => b[x] # 0
  OBVIOUS
<1>. QED
  BY <1>1, <1>2, <1>3, <1>4, <1>5, <1>6, StandsBehind

(* ... and the end of an if or of a match. *)
LEMMA EndStands ==
    ASSUME NEW p, NEW m, Consistent(p, m), Depth(m, Len(p) + 1) = 0, NEW n \in 1 .. Len(p),
           p[n].op = "end", OfHead(p, m, n).op \in {"if", "match"},
           NEW b, NEW j, Standing(p, m, n, b, j), NEW q, q = Arrived(p, m, n + 1)
    PROVE  n + 1 \in 1 .. Len(p) /\ Depth(m, n + 1) >= 1 /\ q \in 1 .. Len(p) /\ Standing(p, m, q, b, j)
<1>. DEFINE D == Depth(m, n)
<1>0. /\ D \in Nat /\ D > 0 /\ Depth(m, n + 1) = D - 1
      /\ \A i \in 1 .. D - 1 : Open(m, n + 1, i) = Open(m, n, i)
  BY Onward
<1>0a. n \in 1 .. Len(p) + 1 /\ D \in 1 .. D
  BY <1>0, LenProperties DEF Consistent
<1>0b. D # 1
  BY <1>0a, NotAFunction DEF OfHead
<1>1. D >= 1 /\ Depth(m, n + 1) >= 1 /\ Depth(m, n + 1) > 0 /\ Open(m, n + 1, 1).head = Open(m, n, 1).head
  BY <1>0, <1>0b
<1>2. MarkFits(p, m, n + 1, b, j) /\ MembersFit(p, m, n, b)
  BY <1>0, <1>1, StandsInside DEF Known
<1>3. n + 1 \in 1 .. Len(p)
  BY <1>1, NotTheLast
<1>4. p[n + 1].op \in Arms => Open(m, n + 1, Depth(m, n + 1)).arms >= 1
  BY <1>1, HasArm
<1>6. \A x \in Members : b[x] # 0 => b[x] # 0
  OBVIOUS
<1>. QED
  BY <1>1, <1>2, <1>3, <1>4, <1>6, StandsBehind

(* Behind a test that failed: in the else, ...                             *)
LEMMA ElseStands ==
    ASSUME NEW p, NEW m, Consistent(p, m), Depth(m, Len(p) + 1) = 0, NEW n \in 1 .. Len(p),
           p[n].op = "if", NEW b, NEW j, Standing(p, m, n, b, j),
           NEW k \in 1 .. Len(p), p[k].op \in Arms, Open(m, k, Depth(m, k)).arm = n
    PROVE  /\ p[k].op = "else"
           /\ k + 1 \in 1 .. Len(p) /\ Depth(m, k + 1) >= 1 /\ Standing(p, m, k + 1, b, j)
<1>0. p[n].op \notin {"branch", "end", "match"} /\ p[n].op \in Heads \ {"func"} /\ p[n].op \in Heads
  BY DEF Heads
<1>0a. Depth(m, n) \in Nat /\ Depth(m, n) >= 1 /\ n \in Nat /\ n # 0
  BY <1>0, InABlock
<1>1. MarkFits(p, m, n, b, j) /\ MembersFit(p, m, n, b)
  BY <1>0, <1>0a, StandsInside
<1>2. /\ MarkFits(p, m, n + 1, b, j) /\ Depth(m, n + 1) >= 1 /\ Depth(m, n + 1) = Depth(m, n) + 1
      /\ Open(m, n + 1, 1) = Open(m, n, 1)
  BY <1>0, <1>0a, <1>1, HeadMoves
<1>. DEFINE f == Open(m, n + 1, Depth(m, n + 1))
<1>3. f.head = n /\ f.before = m[n].state
  <2>1. f = Opened(p[n], n, m[n])
    BY <1>0, <1>2, Onward
  <2>. QED
    BY <2>1 DEF Opened
<1>4. m[n + 1].state = m[n].state
  BY <1>0, HeadState
<1>5. StateFits(f.before, TrackedAt(p, m[n + 1]), b, j)
  BY <1>2, <1>3, <1>4 DEF MarkFits
<1>6. /\ MarkFits(p, m, k + 1, b, j)
      /\ Depth(m, k + 1) = Depth(m, n + 1)
      /\ Open(m, k + 1, 1).head = Open(m, n + 1, 1).head
      /\ p[k].op = "else"
  BY <1>0, <1>2, <1>3, <1>5, NextMoves
<1>7. k + 1 \in 1 .. Len(p) /\ Depth(m, k + 1) >= 1 /\ Depth(m, k + 1) # 0
  BY <1>2, <1>6, NotTheLast
<1>8. p[k + 1].op \notin Arms
  <2>. DEFINE g == Open(m, k + 1, Depth(m, k + 1))
  <2>1. Depth(m, k) = Depth(m, k + 1)
    BY <1>6, ArmDepth
  <2>2. p[g.head].op = "if" /\ g.arms = 2
    <3>1. g.arms = 2 /\ p[Open(m, k, Depth(m, k)).head].op = "if"
      BY <1>6, <2>1, ElseFrame
    <3>2. g.head = Open(m, k, Depth(m, k)).head
      BY <2>1, Onward DEF NextArm
    <3>. QED
      BY <3>1, <3>2
  <2>3. p[k + 1].op # "else"
    BY <1>7, <2>2, ElseFrame
  <2>4. p[k + 1].op # "branch"
    BY <1>7, <2>2, BranchFrame
  <2>. QED
    BY <2>3, <2>4 DEF Arms
<1>9. Arrived(p, m, k + 1) = k + 1
  BY <1>8 DEF Arrived
<1>10. Open(m, k + 1, 1).head = Open(m, n, 1).head
  BY <1>2, <1>6
<1>11. \A x \in Members : b[x] # 0 => b[x] # 0
  OBVIOUS
<1>12. Standing(p, m, k + 1, b, j)
  BY <1>0a, <1>1, <1>6, <1>7, <1>8, <1>9, <1>10, <1>11, StandsBehind
<1>. QED
  BY <1>6, <1>7, <1>12

(* ... at the next pattern, ...                                            *)
LEMMA NextBranchStands ==
    ASSUME NEW p, NEW m, Consistent(p, m), NEW n \in 1 .. Len(p),
           p[n].op = "branch", p[n].cond # "wild", NEW b, NEW j, Standing(p, m, n, b, j),
           NEW k \in 1 .. Len(p), p[k].op \in Arms, Open(m, k, Depth(m, k)).arm = n
    PROVE  p[k].op = "branch" /\ Depth(m, k) >= 1 /\ Standing(p, m, k, b, j)
<1>0. p[n].op \in Arms /\ p[n].op \in Heads \cup Arms
  BY DEF Arms
<1>1. /\ Depth(m, n) \in Nat /\ Depth(m, n) >= 2 /\ Depth(m, n + 1) = Depth(m, n)
      /\ Open(m, n + 1, 1) = Open(m, n, 1)
  BY <1>0, ArmDepth
<1>2. Depth(m, n) >= 1 /\ Depth(m, n + 1) >= 1 /\ Depth(m, n) # 0
  BY <1>1
<1>3. MarkFits(p, m, n + 1, b, j) /\ MembersFit(p, m, n, b)
  BY <1>1, <1>2, StandsInside DEF Known
<1>. DEFINE e == Open(m, n, Depth(m, n))
            f == Open(m, n + 1, Depth(m, n + 1))
<1>4. f.head = e.head /\ f.before = e.before /\ f \in Frames /\ e \in Frames
  BY <1>0, <1>1, <1>2, Onward DEF NextArm
<1>5. /\ p[e.head].op = "match"
      /\ f.catchall <=> e.catchall
      /\ m[n + 1].state = IF e.catchall THEN Unreachable(e.before) ELSE e.before
  BY <1>1, BranchFrame
<1>6. m[n + 1].state.reachable /\ StateFits(m[n + 1].state, TrackedAt(p, m[n + 1]), b, j)
  BY <1>3 DEF MarkFits, StateFits
<1>7. ~ e.catchall
  <2>1. e.before \in States
    BY <1>4 DEF Frames
  <2>2. ~ Unreachable(e.before).reachable
    BY <2>1 DEF Unreachable, States
  <2>. QED
    BY <1>5, <1>6, <2>2
<1>8. ~ f.catchall /\ StateFits(f.before, TrackedAt(p, m[n + 1]), b, j) /\ p[f.head].op = "match"
  BY <1>4, <1>5, <1>6, <1>7
<1>9. /\ MarkFits(p, m, k + 1, b, j) /\ Depth(m, k) = Depth(m, n + 1)
      /\ Open(m, k, 1).head = Open(m, n + 1, 1).head
      /\ p[k].op = "branch"
  BY <1>0, <1>2, <1>3, <1>8, NextMoves
<1>10. Depth(m, k) >= 1 /\ Depth(m, k) # 0 /\ Open(m, k, 1).head = Open(m, n, 1).head
  BY <1>1, <1>2, <1>9
<1>11. MembersFit(p, m, k, b)
  BY <1>2, <1>3, <1>10, MembersStay
<1>12. Known(p, m, k) = k + 1
  BY <1>9 DEF Known
<1>. QED
  BY <1>9, <1>10, <1>11, <1>12 DEF Standing

(* ... or at the end of the if, ...                                        *)
LEMMA NoElseStands ==
    ASSUME NEW p, NEW m, Consistent(p, m), Depth(m, Len(p) + 1) = 0, NEW n \in 1 .. Len(p),
           p[n].op = "if", NEW b, NEW j, Standing(p, m, n, b, j),
           \A k \in 1 .. Len(p) : ~ (p[k].op \in Arms /\ Open(m, k, Depth(m, k)).arm = n),
           NEW e, e = EndFor(p, m, n)
    PROVE  e \in 1 .. Len(p) /\ Depth(m, e) >= 1 /\ Standing(p, m, e, b, j)
<1>0. p[n].op \notin {"branch", "end", "match"} /\ p[n].op \in Heads \ {"func"} /\ p[n].op \in Heads
  BY DEF Heads
<1>0a. Depth(m, n) \in Nat /\ Depth(m, n) >= 1 /\ n \in Nat /\ n # 0
  BY <1>0, InABlock
<1>1. MarkFits(p, m, n, b, j) /\ MembersFit(p, m, n, b)
  BY <1>0, <1>0a, StandsInside
<1>2. /\ MarkFits(p, m, n + 1, b, j) /\ Depth(m, n + 1) >= 1 /\ Depth(m, n + 1) = Depth(m, n) + 1
      /\ Open(m, n + 1, 1) = Open(m, n, 1)
  BY <1>0, <1>0a, <1>1, HeadMoves
<1>. DEFINE f == Open(m, n + 1, Depth(m, n + 1))
<1>3. f.head = n /\ f.before = m[n].state /\ f.arm = n /\ f.arms = 1
  <2>1. f = Opened(p[n], n, m[n])
    BY <1>0, <1>2, Onward
  <2>. QED
    BY <1>0, <2>1 DEF Opened
<1>4. m[n + 1].state = m[n].state
  BY <1>0, HeadState
<1>5. StateFits(f.before, TrackedAt(p, m[n + 1]), b, j)
  BY <1>2, <1>3, <1>4 DEF MarkFits
<1>6. e = EndFor(p, m, f.head) /\ p[f.head].op = "if"
  BY <1>3
<1>. HIDE DEF f
<1>7. /\ e \in 1 .. Len(p) /\ Depth(m, e) = Depth(m, n + 1)
      /\ Open(m, e, 1).head = Open(m, n + 1, 1).head
      /\ MarkFits(p, m, Known(p, m, e), b, j)
  BY <1>2, <1>3, <1>5, <1>6, LastMoves DEF f
<1>8. Depth(m, e) >= 1 /\ Depth(m, e) # 0 /\ Open(m, e, 1).head = Open(m, n, 1).head
  BY <1>2, <1>7
<1>9. MembersFit(p, m, e, b)
  BY <1>0a, <1>1, <1>7, <1>8, MembersStay
<1>. QED
  BY <1>7, <1>8, <1>9 DEF Standing

(* ... or of the match.                                                    *)
LEMMA NoBranchStands ==
    ASSUME NEW p, NEW m, Consistent(p, m), Depth(m, Len(p) + 1) = 0, NEW n \in 1 .. Len(p),
           p[n].op = "branch", p[n].cond # "wild", NEW b, NEW j, Standing(p, m, n, b, j),
           \A k \in 1 .. Len(p) : ~ (p[k].op \in Arms /\ Open(m, k, Depth(m, k)).arm = n),
           NEW e, e = EndFor(p, m, Open(m, n, Depth(m, n)).head)
    PROVE  e \in 1 .. Len(p) /\ Depth(m, e) >= 1 /\ Standing(p, m, e, b, j)
<1>0. p[n].op \in Arms
  BY DEF Arms
<1>1. /\ Depth(m, n) \in Nat /\ Depth(m, n) >= 2 /\ Depth(m, n + 1) = Depth(m, n)
      /\ Open(m, n + 1, 1) = Open(m, n, 1)
  BY <1>0, ArmDepth
<1>2. Depth(m, n) >= 1 /\ Depth(m, n + 1) >= 1 /\ Depth(m, n) # 0
  BY <1>1
<1>3. MarkFits(p, m, n + 1, b, j) /\ MembersFit(p, m, n, b)
  BY <1>1, <1>2, StandsInside DEF Known
<1>. DEFINE g == Open(m, n, Depth(m, n))
            f == Open(m, n + 1, Depth(m, n + 1))
<1>4. f.head = g.head /\ f.before = g.before /\ f.arm = n /\ g \in Frames
  BY <1>0, <1>1, <1>2, Onward DEF NextArm
<1>5. /\ p[g.head].op = "match"
      /\ f.catchall <=> g.catchall
      /\ m[n + 1].state = IF g.catchall THEN Unreachable(g.before) ELSE g.before
  BY <1>1, BranchFrame
<1>6. m[n + 1].state.reachable /\ StateFits(m[n + 1].state, TrackedAt(p, m[n + 1]), b, j)
  BY <1>3 DEF MarkFits, StateFits
<1>7. ~ g.catchall
  <2>1. g.before \in States
    BY <1>4 DEF Frames
  <2>2. ~ Unreachable(g.before).reachable
    BY <2>1 DEF Unreachable, States
  <2>. QED
    BY <1>5, <1>6, <2>2
<1>8. ~ f.catchall /\ StateFits(f.before, TrackedAt(p, m[n + 1]), b, j) /\ p[f.head].op = "match"
  BY <1>4, <1>5, <1>6, <1>7
<1>8a. e = EndFor(p, m, f.head) /\ f.arm = n
  BY <1>4
<1>. HIDE DEF f
<1>9. /\ e \in 1 .. Len(p) /\ Depth(m, e) = Depth(m, n + 1)
      /\ Open(m, e, 1).head = Open(m, n + 1, 1).head
      /\ MarkFits(p, m, Known(p, m, e), b, j)
  BY <1>2, <1>3, <1>8, <1>8a, LastMoves DEF f
<1>10. Depth(m, e) >= 1 /\ Depth(m, e) # 0 /\ Open(m, e, 1).head = Open(m, n, 1).head
  BY <1>1, <1>2, <1>9
<1>11. MembersFit(p, m, e, b)
  BY <1>2, <1>3, <1>9, <1>10, MembersStay
<1>. QED
  BY <1>9, <1>10, <1>11 DEF Standing

-----------------------------------------------------------------------------
(* Loops *)

(* The i-th statement around token n is a loop whose condition may fail or *)
(* which has a break; its end is e, and j fits behind it.                  *)
LeavesLoop(p, m, n, i, e, b, o, j) ==
    LET f == Open(m, n, i) IN
    /\ Depth(m, Len(p) + 1) = 0
    /\ n \in 1 .. Len(p) /\ i \in 1 .. Depth(m, n) /\ Depth(m, n) >= 1
    /\ p[f.head].op \in Loops /\ e = EndFor(p, m, f.head)
    /\ p[f.head].cond # "true" \/ m[e].exit.has_break
    /\ MembersFit(p, m, n, b) /\ MarkFits(p, m, n, b, o)
    /\ StateFits(f.before, TrackedAt(p, m[n]), b, j)

(* Out of a loop whose condition failed, or by a break.                    *)
LEMMA OutOfLoop ==
    ASSUME NEW p, NEW m, Consistent(p, m), NEW n, NEW i, NEW e, NEW b, NEW o, NEW j,
           LeavesLoop(p, m, n, i, e, b, o, j)
    PROVE  /\ e \in n .. Len(p) /\ e + 1 \in 1 .. Len(p) /\ Depth(m, e) = i /\ Depth(m, e + 1) >= 1
           /\ Arrived(p, m, e + 1) \in 1 .. Len(p)
           /\ Standing(p, m, Arrived(p, m, e + 1), b, j)
<1>. DEFINE q == Arrived(p, m, e + 1)
            f == Open(m, n, i)
<1>a. /\ Depth(m, Len(p) + 1) = 0
      /\ n \in 1 .. Len(p) /\ i \in 1 .. Depth(m, n) /\ Depth(m, n) >= 1
      /\ p[f.head].op \in Loops /\ e = EndFor(p, m, f.head)
      /\ p[f.head].cond # "true" \/ m[e].exit.has_break
      /\ MembersFit(p, m, n, b) /\ MarkFits(p, m, n, b, o)
      /\ StateFits(f.before, TrackedAt(p, m[n]), b, j)
  BY DEF LeavesLoop
<1>b. f = Open(m, n, i)
  OBVIOUS
<1>. USE <1>a, <1>b
<1>. HIDE DEF f
<1>0. /\ Len(p) \in Nat /\ n \in 1 .. Len(p) + 1 /\ i \in Nat /\ m[n] \in Marks /\ f \in Frames
      /\ Depth(m, n) \in Nat
  <2>1. Len(p) \in Nat /\ n \in 1 .. Len(p) + 1
    BY LenProperties DEF Consistent
  <2>2. Depth(m, n) \in Nat /\ m[n] \in Marks /\ f \in Frames
    BY Onward
  <2>3. i \in Nat
    BY <2>2
  <2>. QED
    BY <2>1, <2>2, <2>3
<1>1. i # 1
  BY <1>0, NotAFunction DEF Loops
<1>1a. \A l \in 2 .. i : FrameFits(Open(m, n, l), b)
  BY <1>0 DEF MarkFits
<1>2. FrameFits(f, b)
  BY <1>0, <1>1, <1>1a
<1>. DEFINE g == Open(m, e, i)
<1>3. /\ e \in n .. Len(p) /\ e \in 1 .. Len(p) /\ p[e].op = "end" /\ Depth(m, e) = i
      /\ g.head = f.head /\ g.before = f.before /\ g.suite = f.suite
      /\ \A l \in 1 .. i - 1 : Open(m, e, l) = Open(m, n, l)
  BY <1>0, EndForIs
<1>4. g = Open(m, e, Depth(m, e)) /\ m[e] \in Marks /\ e \in 1 .. Len(p) + 1 /\ g \in Frames
  <2>1. g = Open(m, e, Depth(m, e)) /\ e \in 1 .. Len(p) + 1
    BY <1>0, <1>3
  <2>2. m[e] \in Marks
    BY <1>3, Onward
  <2>3. g \in Frames
    BY <1>0, <1>3, Onward
  <2>. QED
    BY <2>1, <2>2, <2>3
<1>5. p[g.head].op \in Loops /\ p[g.head].op # "func"
  BY <1>3 DEF Loops
<1>6. /\ m[e + 1].state = JoinedState(p, g, m[e].state)
      /\ m[e + 1].exit = InSuite(g.suite, JoinedExit(p, g, m[e].exit))
  <2>1. g.before.reachable
    BY <1>2, <1>3 DEF FrameFits
  <2>. HIDE DEF g
  <2>. QED
    BY <1>3, <1>4, <1>5, <2>1, EndFrame
<1>. HIDE DEF g
<1>7. Keeps(m[e + 1].state, f.before)
  <2>1. m[e + 1].state = [g.before EXCEPT !.maybe_assigned = @ \cup m[e].state.maybe_assigned]
    BY <1>5, <1>6 DEF JoinedState, Loops
  <2>2. g.before \in States /\ g.before.reachable
    BY <1>2, <1>3, <1>4 DEF Frames, FrameFits
  <2>. QED
    BY <1>3, <2>1, <2>2 DEF Keeps, States
<1>8. ~ m[e + 1].exit.always_terminates
  <2>1. JoinedExit(p, g, m[e].exit) = LoopExit(p[g.head].cond, m[e].exit)
    BY <1>5 DEF JoinedExit, Loops
  <2>2. m[e].exit \in ExitStates /\ g.suite \in ExitStates
    BY <1>4 DEF Marks, Frames
  <2>3. ~ LoopExit(p[g.head].cond, m[e].exit).always_terminates
    BY <1>3, <2>2 DEF LoopExit, ExitStates
  <2>4. JoinedExit(p, g, m[e].exit) \in ExitStates
    BY <1>4, <2>2, JoinedExitType
  <2>5. ~ g.suite.always_terminates
    BY <1>2, <1>3 DEF FrameFits
  <2>. QED
    BY <1>6, <2>1, <2>2, <2>3, <2>4, <2>5, InSuiteEnds
<1>9. Open(m, e, 1).head = Open(m, n, 1).head /\ Depth(m, e) >= 1
  BY <1>0, <1>1, <1>3
<1>10. TrackedAt(p, m[e]) = TrackedAt(p, m[n])
  BY <1>0, <1>4, <1>9, SameTracked
<1>11. \A l \in 2 .. Depth(m, e) - 1 : FrameFits(Open(m, e, l), b)
  BY <1>0, <1>1a, <1>3
<1>12. StateFits(f.before, TrackedAt(p, m[e]), b, j)
  BY <1>10
<1>12a. p[Open(m, e, Depth(m, e)).head].op # "func"
  BY <1>4, <1>5
<1>13. /\ MarkFits(p, m, e + 1, b, j)
       /\ Depth(m, e + 1) >= 1 /\ Open(m, e + 1, 1) = Open(m, e, 1)
  BY <1>3, <1>7, <1>8, <1>11, <1>12, <1>12a, JoinMoves
<1>14. e + 1 \in 1 .. Len(p)
  BY <1>3, <1>13, NotTheLast
<1>15. p[e + 1].op \in Arms => Open(m, e + 1, Depth(m, e + 1)).arms >= 1
  <2>1. Depth(m, e + 1) > 0 /\ p[e].op # "match"
    BY <1>3, <1>13, Onward
  <2>. QED
    BY <1>3, <2>1, HasArm
<1>16. Open(m, e + 1, 1).head = Open(m, n, 1).head
  BY <1>9, <1>13
<1>17. \A x \in Members : b[x] # 0 => b[x] # 0
  OBVIOUS
<1>18. q \in 1 .. Len(p) /\ Standing(p, m, q, b, j)
  BY <1>13, <1>14, <1>15, <1>16, <1>17, StandsBehind
<1>. QED
  BY <1>3, <1>13, <1>14, <1>18

(* Control goes on behind a loop whose test failed. *)
LEMMA FailedLoopStands ==
    ASSUME NEW p, NEW m, Consistent(p, m), Depth(m, Len(p) + 1) = 0, NEW n \in 1 .. Len(p),
           p[n].op \in Loops, p[n].cond # "true", NEW b, NEW j, Standing(p, m, n, b, j),
           NEW e, e = EndFor(p, m, n), NEW q, q = Arrived(p, m, e + 1)
    PROVE  /\ e \in 1 .. Len(p) /\ e + 1 \in 1 .. Len(p) /\ Depth(m, e + 1) >= 1
           /\ q \in 1 .. Len(p) /\ Standing(p, m, q, b, j)
<1>0. p[n].op \notin {"branch", "end", "match"} /\ p[n].op \in Heads \ {"func"} /\ p[n].op \in Heads
  BY DEF Heads, Loops
<1>0a. Depth(m, n) \in Nat /\ Depth(m, n) >= 1 /\ n \in Nat /\ n # 0
  BY <1>0, InABlock
<1>1. MarkFits(p, m, n, b, j) /\ MembersFit(p, m, n, b)
  BY <1>0, <1>0a, StandsInside
<1>2. /\ MarkFits(p, m, n + 1, b, j) /\ Depth(m, n + 1) >= 1 /\ Depth(m, n + 1) = Depth(m, n) + 1
      /\ Open(m, n + 1, 1) = Open(m, n, 1)
  BY <1>0, <1>0a, <1>1, HeadMoves
<1>. DEFINE i == Depth(m, n + 1)
            f == Open(m, n + 1, i)
<1>3. f.head = n /\ f.before = m[n].state
  <2>1. f = Opened(p[n], n, m[n])
    BY <1>0, <1>2, Onward
  <2>. QED
    BY <2>1 DEF Opened
<1>4. m[n + 1].state = m[n].state
  BY <1>0, HeadState
<1>5. StateFits(f.before, TrackedAt(p, m[n + 1]), b, j)
  BY <1>2, <1>3, <1>4 DEF MarkFits
<1>6. n + 1 \in 1 .. Len(p) /\ i \in 1 .. Depth(m, n + 1)
  BY <1>0a, <1>2, NotTheLast
<1>7. Open(m, n + 1, 1).head = Open(m, n, 1).head
  BY <1>2
<1>8. MembersFit(p, m, n + 1, b)
  BY <1>0a, <1>1, <1>2, <1>6, <1>7, MembersStay
<1>10. p[f.head].op \in Loops /\ e = EndFor(p, m, f.head) /\ p[f.head].cond # "true"
  BY <1>3
<1>. DEFINE k == n + 1
<1>11. LeavesLoop(p, m, k, i, e, b, j, j)
  BY <1>2, <1>5, <1>6, <1>8, <1>10 DEF LeavesLoop
<1>. HIDE DEF f, i, k
<1>12. /\ e \in k .. Len(p) /\ e + 1 \in 1 .. Len(p) /\ Depth(m, e + 1) >= 1
       /\ Arrived(p, m, e + 1) \in 1 .. Len(p) /\ Standing(p, m, Arrived(p, m, e + 1), b, j)
  BY <1>11, OutOfLoop
<1>. QED
  BY <1>0a, <1>12 DEF k

(* The finals assigned so far, by b, are assigned in front of a jump.      *)
JumpsFrom(b, j) == [x \in Finals |-> j[x] \/ b[x] # 0]

(* Control goes on behind the loop that a break leaves. *)
LEMMA BreakStands ==
    ASSUME NEW p, NEW m, Consistent(p, m), Depth(m, Len(p) + 1) = 0, NEW n \in 1 .. Len(p),
           p[n].op = "break", NEW b, NEW j, Standing(p, m, n, b, j),
           NEW i \in 1 .. Depth(m, n), NEW f, f = Open(m, n, i), p[f.head].op \in Loops,
           \A l \in i + 1 .. Depth(m, n) : p[Open(m, n, l).head].op \notin Loops,
           NEW e, e = EndFor(p, m, f.head), NEW q, q = Arrived(p, m, e + 1)
    PROVE  /\ e \in 1 .. Len(p) /\ e + 1 \in 1 .. Len(p) /\ Depth(m, e + 1) >= 1
           /\ q \in 1 .. Len(p) /\ Standing(p, m, q, b, JumpsFrom(b, j))
<1>0. p[n].op \notin {"branch", "end", "match"} /\ p[n].op \in PlainOps
  BY DEF PlainOps
<1>0a. Depth(m, n) \in Nat /\ Depth(m, n) >= 1 /\ n \in Nat /\ n # 0 /\ Len(p) \in Nat
  BY <1>0, InABlock, LenProperties DEF Consistent
<1>1. MarkFits(p, m, n, b, j) /\ MembersFit(p, m, n, b)
  BY <1>0, <1>0a, StandsInside
<1>2. /\ m[n] \in Marks /\ m[n].exit \in ExitStates /\ ~ m[n].exit.always_terminates
      /\ f \in Frames /\ i \in Nat /\ i >= 1
      /\ Depth(m, n + 1) = Depth(m, n)
  BY <1>0, <1>0a, <1>1, Onward DEF MarkFits, Marks
<1>3. n \in 1 .. Len(p) + 1
  BY <1>0a
<1>4. i # 1
  BY <1>3, NotAFunction DEF Loops
<1>5. /\ e \in n .. Len(p) /\ e \in 1 .. Len(p) /\ p[e].op = "end" /\ Depth(m, e) = i
      /\ \A k \in n .. e : Depth(m, k) >= i
  BY <1>3, EndForIs
<1>6. Has(m[n + 1].exit, "break")
  <2>1. Depth(m, n) > 0
    BY <1>0a
  <2>2. PICK how \in ExitStates : m[n + 1].exit = InSuite(m[n].exit, how) /\ how.has_break
    BY <1>0, <2>1, PlainExit
  <2>3. "break" \in Flags /\ Has(how, "break")
    BY <2>2 DEF Flags, Has
  <2>. QED
    BY <1>2, <2>2, <2>3, HasInSuite
<1>7. \A l \in i + 1 .. Depth(m, n) : ~ Open(m, n, l).suite.always_terminates
  <2>1. \A l \in i + 1 .. Depth(m, n) : FrameFits(Open(m, n, l), b)
    BY <1>1, <1>2 DEF MarkFits
  <2>. QED
    BY <2>1 DEF FrameFits
<1>8. m[e].exit.has_break
  <2>1. "break" \in Flags /\ "break" = "break"
    BY DEF Flags
  <2>2. e \in n + 1 .. Len(p) + 1 /\ \A k \in n + 1 .. e : Depth(m, k) >= i
    BY <1>0, <1>0a, <1>5 DEF PlainOps
  <2>3. p[Open(m, n, i).head].op \notin {"if", "match"}
    BY DEF Loops
  <2>4. Has(m[e].exit, "break")
    BY <1>0, <1>5, <1>6, <1>7, <2>1, <2>2, <2>3, Carried
  <2>. QED
    BY <2>4 DEF Has
<1>9. \A l \in 2 .. i : FrameFits(Open(m, n, l), b)
  BY <1>0a, <1>1, <1>2 DEF MarkFits
<1>10. FrameFits(f, b)
  BY <1>2, <1>4, <1>9
<1>11. StateFits(f.before, TrackedAt(p, m[n]), b, JumpsFrom(b, j))
  <2>1. TrackedAt(p, m[n]) \subseteq Finals
    BY DEF TrackedAt, Finals
  <2>2. \A x \in TrackedAt(p, m[n]) : b[x] # 0 => JumpsFrom(b, j)[x]
    BY <2>1 DEF JumpsFrom
  <2>. QED
    BY <1>10, <2>2 DEF StateFits, FrameFits
<1>12. /\ e \in n .. Len(p) /\ e + 1 \in 1 .. Len(p) /\ Depth(m, e + 1) >= 1
       /\ q \in 1 .. Len(p) /\ Standing(p, m, q, b, JumpsFrom(b, j))
  <2>1. p[f.head].cond # "true" \/ m[e].exit.has_break
    BY <1>8
  <2>. DEFINE l == JumpsFrom(b, j)
  <2>2. StateFits(f.before, TrackedAt(p, m[n]), b, l)
    BY <1>11
  <2>. HIDE DEF l
  <2>2a. LeavesLoop(p, m, n, i, e, b, j, l)
    BY <1>0a, <1>1, <2>1, <2>2 DEF LeavesLoop
  <2>3. /\ e \in n .. Len(p) /\ e + 1 \in 1 .. Len(p) /\ Depth(m, e + 1) >= 1
        /\ q \in 1 .. Len(p) /\ Standing(p, m, q, b, l)
    BY <2>2a, OutOfLoop
  <2>. QED
    BY <2>3 DEF l
<1>. QED
  BY <1>5, <1>12

(* Back to the head of a loop. *)
LEMMA BackStands ==
    ASSUME NEW p, NEW m, Consistent(p, m), NEW n \in 1 .. Len(p),
           Known(p, m, n) = n, NEW b, NEW j, Standing(p, m, n, b, j),
           NEW i \in 1 .. Depth(m, n), NEW f, f = Open(m, n, i), p[f.head].op \in Loops
    PROVE  /\ f.head \in 1 .. Len(p) /\ Depth(m, f.head) >= 1
           /\ Standing(p, m, f.head, b, JumpsFrom(b, j))
<1>0. /\ Len(p) \in Nat /\ n \in Nat /\ n \in 1 .. Len(p) + 1 /\ Depth(m, n) \in Nat
      /\ i \in Nat /\ i >= 1 /\ Depth(m, n) >= 1
  <2>1. Len(p) \in Nat /\ n \in Nat /\ n \in 1 .. Len(p) + 1
    BY LenProperties DEF Consistent
  <2>2. Depth(m, n) \in Nat
    BY Onward
  <2>. QED
    BY <2>1, <2>2
<1>1. MarkFits(p, m, n, b, j) /\ MembersFit(p, m, n, b)
  BY <1>0, StandsInside
<1>2. i # 1
  BY <1>0, NotAFunction DEF Loops
<1>. DEFINE h == f.head
<1>3. /\ h \in 1 .. n - 1 /\ Depth(m, h) = i - 1
      /\ f.before = m[h].state /\ f.suite = m[h].exit
  BY <1>0, FrameIs
<1>4. \A l \in 1 .. i - 1 : Open(m, n, l) = Open(m, h, l)
  <2>1. \A k \in h + 1 .. n : \A l \in 1 .. i - 1 : Open(m, k, l) = Open(m, h, l)
    BY <1>0, FrameIs
  <2>2. n \in h + 1 .. n
    BY <1>0, <1>3
  <2>. QED
    BY <2>1, <2>2
<1>. HIDE DEF h
<1>5. h \in 1 .. Len(p) /\ Depth(m, h) >= 1 /\ Depth(m, h) # 0 /\ Open(m, h, 1).head = Open(m, n, 1).head
      /\ h \in 1 .. Len(p) + 1
  BY <1>0, <1>2, <1>3, <1>4
<1>6. FrameFits(f, b)
  BY <1>0, <1>1, <1>2 DEF MarkFits
<1>7. TrackedAt(p, m[h]) \subseteq Finals
  BY DEF TrackedAt, Finals
<1>8. StateFits(m[h].state, TrackedAt(p, m[h]), b, JumpsFrom(b, j))
  <2>2. \A x \in TrackedAt(p, m[h]) : b[x] # 0 => JumpsFrom(b, j)[x]
    BY <1>7 DEF JumpsFrom
  <2>. QED
    BY <1>3, <1>6, <2>2 DEF StateFits, FrameFits
<1>9. MarkFits(p, m, h, b, JumpsFrom(b, j))
  <2>1. \A l \in 2 .. Depth(m, h) : FrameFits(Open(m, h, l), b)
    BY <1>0, <1>1, <1>3, <1>4 DEF MarkFits
  <2>. QED
    BY <1>3, <1>6, <1>8, <2>1 DEF MarkFits, FrameFits
<1>10. Known(p, m, h) = h
  BY DEF Known, Loops, h
<1>11. MembersFit(p, m, h, b)
  <2>1. \A x \in Members : b[x] # 0 => b[x] # 0
    OBVIOUS
  <2>. QED
    BY <1>0, <1>1, <1>5, <2>1, MembersStay
<1>12. Standing(p, m, h, b, JumpsFrom(b, j))
  BY <1>5, <1>9, <1>10, <1>11 DEF Standing
<1>. QED
  BY <1>5, <1>12 DEF h

-----------------------------------------------------------------------------
(* Functions *)

(* Control goes into a function. *)
LEMMA FuncStands ==
    ASSUME NEW p, NEW m, Consistent(p, m), Depth(m, Len(p) + 1) = 0, NEW n \in 1 .. Len(p),
           p[n].op = "func", NEW b, NEW j, Standing(p, m, n, b, j)
    PROVE  n + 1 \in 1 .. Len(p) /\ Standing(p, m, n + 1, b, j)
<1>0. p[n].op \in Heads
  BY DEF Heads
<1>1. Depth(m, n) = 0
  BY FuncOutside
<1>. DEFINE f == Open(m, n + 1, 1)
<1>2. Depth(m, n + 1) = 1 /\ f = Opened(p[n], n, m[n])
  BY <1>0, <1>1, Onward
<1>3. f.head = n
  BY <1>2 DEF Opened
<1>4. n + 1 \in 1 .. Len(p) /\ Depth(m, n + 1) >= 1 /\ Len(p) \in Nat /\ n \in Nat
  BY <1>2, NotTheLast, LenProperties DEF Consistent
<1>5. AtInit(p, m, n) <=> p[n].of = "_init"
  BY <1>1 DEF AtInit
<1>6. AtInit(p, m, n + 1) <=> p[n].of = "_init"
  BY <1>2, <1>3 DEF AtInit
<1>7. TrackedAt(p, m[n + 1]) = IF p[n].of = "_init" THEN Finals ELSE Locals
  <2>1. m[n + 1].blocks # <<>>
    BY <1>2, <1>4, Around1
  <2>. QED
    BY <1>3, <2>1 DEF TrackedAt, Open
<1>8. StateFits(m[n + 1].state, TrackedAt(p, m[n + 1]), b, j)
  <2>1. CASE p[n].of = "_init"
    <3>1. m[n + 1].state = m[n].state
      BY <1>0, <2>1, HeadState
    <3>2. TrackedAt(p, m[n]) = Finals
      <4>1. m[n].blocks = <<>>
        BY <1>1, <1>4, Around1
      <4>. QED
        BY <4>1 DEF TrackedAt
    <3>3. MarkFits(p, m, n, b, j)
      BY <1>5, <2>1 DEF Standing, Known
    <3>. QED
      BY <1>7, <2>1, <3>1, <3>2, <3>3 DEF MarkFits
  <2>2. CASE p[n].of # "_init"
    <3>1. m[n + 1].state = Unassigned
      BY <1>0, <2>2, HeadState
    <3>2. \A x \in Locals : b[x] = 0
      BY <1>1 DEF Standing
    <3>. QED
      BY <1>7, <2>2, <3>1, <3>2 DEF StateFits, Unassigned
  <2>. QED
    BY <2>1, <2>2
<1>9. ~ m[n + 1].exit.always_terminates
  BY <1>0, HeadState DEF FallsThrough
<1>10. MarkFits(p, m, n + 1, b, j)
  BY <1>2, <1>8, <1>9 DEF MarkFits
<1>11. Known(p, m, n + 1) = n + 1
  <2>1. p[n + 1].op # "branch"
    BY <1>2, <1>3, <1>4, BranchFrame
  <2>2. OfHead(p, m, n + 1).op = "func"
    BY <1>2, <1>3 DEF OfHead
  <2>. QED
    BY <2>1, <2>2 DEF Known
<1>12. MembersFit(p, m, n + 1, b)
  <2>. SUFFICES ASSUME NEW k \in 1 .. Len(p), p[k].op = "member"
                PROVE  /\ p[k].cond # None => b[p[k].on] # 0
                       /\ ~ AtInit(p, m, n + 1) => b[p[k].on] # 0
    BY <1>4, MembersBehind DEF MembersFit
  <2>1. k < n + 1
    BY <1>4, MembersBehind
  <2>2. k < n
    BY <1>4, <2>1
  <2>. QED
    BY <1>5, <1>6, <2>2 DEF Standing, MembersFit
<1>. QED
  BY <1>2, <1>4, <1>10, <1>11, <1>12 DEF Standing

(* A class with blank members has an _init. *)
HasInit(p) ==
    \/ \A k \in 1 .. Len(p) : p[k].op = "member" => p[k].cond # None
    \/ \E k \in 1 .. Len(p) : p[k].op = "func" /\ p[k].of = "_init"

(* Control goes on from the initializer of a member. *)
LEMMA MemberStands ==
    ASSUME NEW p, NEW m, Consistent(p, m), HasInit(p), NEW n \in 1 .. Len(p), n + 1 \in 1 .. Len(p),
           p[n].op = "member", NEW b \in [Finals -> Nat], NEW j, Standing(p, m, n, b, j),
           NEW c \in [Finals -> Nat], \A x \in Finals : x # p[n].on => c[x] = b[x],
           c[p[n].on] = IF p[n].cond = None THEN 0 ELSE n
    PROVE  Standing(p, m, n + 1, c, j)
<1>. DEFINE x == p[n].on
<1>0. Len(p) \in Nat /\ n \in Nat /\ n # 0 /\ n \in 1 .. Len(p) + 1 /\ n + 1 \in 1 .. Len(p) + 1
  BY LenProperties DEF Consistent
<1>1. /\ Depth(m, n) = 0 /\ Depth(m, n + 1) = 0 /\ x \in Members
      /\ \A k \in 1 .. n - 1 : p[k].op = "member" /\ p[k].on # x
  BY MembersFirst
<1>2. x \in Finals /\ x \notin Locals
  BY <1>1 DEF Finals, Members, Locals
<1>3. MarkFits(p, m, n, b, j) /\ MembersFit(p, m, n, b)
  BY DEF Standing, Known
<1>4. b[x] = 0
  BY <1>0, <1>3 DEF MembersFit
<1>5. m[n] \in Marks /\ m[n].state \in States /\ m[n].state.reachable
  BY <1>3, Onward DEF Marks, MarkFits, StateFits
<1>6. m[n + 1].state = IF p[n].cond = None THEN m[n].state ELSE Assigned(m[n].state, x)
  BY <1>5, PlainState
<1>7. TrackedAt(p, m[n]) = Finals /\ TrackedAt(p, m[n + 1]) = Finals
  <2>1. m[n].blocks = <<>> /\ m[n + 1].blocks = <<>>
    BY <1>0, <1>1, Around1
  <2>. QED
    BY <2>1 DEF TrackedAt
<1>8. StateFits(m[n + 1].state, Finals, c, j)
  <2>1. StateFits(m[n].state, Finals, b, j)
    BY <1>3, <1>7 DEF MarkFits
  <2>2. CASE p[n].cond = None
    <3>1. \A y \in Finals : c[y] = b[y]
      BY <1>4, <2>2
    <3>2. m[n + 1].state = m[n].state
      BY <1>6, <2>2
    <3>. QED
      BY <1>5, <2>1, <3>1, <3>2 DEF StateFits, States
  <2>3. CASE p[n].cond # None
    <3>1. m[n + 1].state = Assigned(m[n].state, x) /\ c[x] # 0
      BY <1>0, <1>6, <2>3
    <3>. QED
      BY <1>2, <1>5, <2>1, <3>1 DEF StateFits, States, Assigned
  <2>. QED
    BY <2>2, <2>3
<1>9. m[n + 1].exit = m[n].exit
  <2>1. MemberAt(p, n, m[n], m[n + 1])
    BY Onward, StepOf
  <2>. QED
    BY <1>5, <2>1 DEF MemberAt, Marks
<1>10. MarkFits(p, m, n + 1, c, j)
  BY <1>1, <1>3, <1>7, <1>8, <1>9 DEF MarkFits
<1>11. p[n + 1].op \in {"member", "func"}
  BY <1>1, Outside
<1>12. Known(p, m, n + 1) = n + 1
  BY <1>11 DEF Known
<1>13. MembersFit(p, m, n + 1, c)
  <2>. SUFFICES ASSUME NEW k \in 1 .. Len(p), p[k].op = "member"
                PROVE  /\ p[k].cond # None /\ k < n + 1 => c[p[k].on] # 0
                       /\ p[n + 1].op # "member" /\ ~ AtInit(p, m, n + 1) => c[p[k].on] # 0
                       /\ p[n + 1].op = "member" /\ n + 1 <= k => c[p[k].on] = 0
    BY DEF MembersFit
  <2>1. /\ p[k].on \in Finals
        /\ \A i \in 1 .. k - 1 : p[i].op = "member" /\ p[i].on # p[k].on
    BY MembersFirst DEF Finals
  <2>2. p[k].cond # None /\ k < n + 1 => c[p[k].on] # 0
    <3>1. CASE k = n
      BY <1>0, <3>1
    <3>2. CASE k < n
      <4>1. p[k].on # x
        BY <1>0, <1>1, <3>2
      <4>. QED
        BY <1>3, <2>1, <3>2, <4>1 DEF MembersFit
    <3>. QED
      BY <1>0, <3>1, <3>2
  <2>3. p[n + 1].op = "member" /\ n + 1 <= k => c[p[k].on] = 0
    <3>1. SUFFICES ASSUME n + 1 <= k PROVE c[p[k].on] = 0
      OBVIOUS
    <3>2. n \in 1 .. k - 1
      BY <1>0, <3>1
    <3>3. p[k].on # x
      BY <2>1, <3>2
    <3>4. n <= k
      BY <1>0, <3>1
    <3>. QED
      BY <1>3, <2>1, <3>3, <3>4 DEF MembersFit
  <2>4. p[n + 1].op # "member" /\ ~ AtInit(p, m, n + 1) => c[p[k].on] # 0
    <3>1. SUFFICES ASSUME p[n + 1].op = "func", p[n + 1].of # "_init" PROVE c[p[k].on] # 0
      BY <1>1, <1>11 DEF AtInit
    <3>2. k < n + 1
      <4>1. CASE n + 1 < k
        <5>1. n + 1 \in 1 .. k - 1
          BY <1>0, <4>1
        <5>. QED
          BY <2>1, <3>1, <5>1
      <4>. QED
        BY <1>0, <3>1, <4>1
    <3>3. ~ \E q \in 1 .. Len(p) : p[q].op = "func" /\ p[q].of = "_init"
      <4>1. SUFFICES ASSUME NEW q \in 1 .. Len(p), p[q].op = "func", p[q].of = "_init" PROVE FALSE
        OBVIOUS
      <4>2. q > n + 1
        BY <1>0, <1>1, <3>1, <4>1
      <4>3. FuncAt(p, q, m[q], m[q + 1])
        BY <4>1, Onward, StepOf
      <4>4. n + 1 \in 1 .. q - 1
        BY <1>0, <4>2
      <4>. QED
        BY <3>1, <4>3, <4>4 DEF FuncAt
    <3>4. p[k].cond # None
      BY <3>3 DEF HasInit
    <3>. QED
      BY <2>2, <3>2, <3>4
  <2>. QED
    BY <2>2, <2>3, <2>4
<1>14. \A y \in Locals : c[y] = 0
  BY <1>1, <1>2 DEF Standing, Finals
<1>. QED
  BY <1>1, <1>10, <1>12, <1>13, <1>14 DEF Standing

LeavesAt(p, m, n) == p[n].op = "return" \/ (p[n].op = "end" /\ OfHead(p, m, n).op = "func")

(* Where a function is left, all members are assigned.                     *)
LEMMA LeftWhole ==
    ASSUME NEW p, NEW m, Consistent(p, m), NEW n \in 1 .. Len(p), LeavesAt(p, m, n),
           NEW b, NEW j, Standing(p, m, n, b, j)
    PROVE  /\ Depth(m, n) \in Nat /\ Depth(m, n) >= 1
           /\ \A k \in 1 .. Len(p) : p[k].op = "member" => b[p[k].on] # 0
           /\ MarkFits(p, m, n, b, j)
<1>0. Depth(m, n) \in Nat /\ Depth(m, n) >= 1 /\ Depth(m, n) # 0
  <2>1. CASE p[n].op = "return"
    BY <2>1, InABlock DEF PlainOps
  <2>2. CASE p[n].op = "end"
    BY <2>2, Onward
  <2>. QED
    BY <2>1, <2>2 DEF LeavesAt
<1>1. Known(p, m, n) = n
  BY DEF Known, LeavesAt
<1>2. MarkFits(p, m, n, b, j) /\ MembersFit(p, m, n, b)
  BY <1>0, <1>1, StandsInside
<1>. SUFFICES ASSUME NEW k \in 1 .. Len(p), p[k].op = "member" PROVE b[p[k].on] # 0
  BY <1>0, <1>2
<1>3. k < n /\ p[n].op # "member"
  BY <1>0, MembersBehind
<1>4. CASE ~ AtInit(p, m, n)
  BY <1>2, <1>3, <1>4 DEF MembersFit
<1>5. CASE AtInit(p, m, n)
  <2>1. InInitAt(p, m[n])
    <3>1. m[n].blocks # <<>>
      BY <1>0, Around1, LenProperties DEF Consistent
    <3>. QED
      BY <1>0, <1>5, <3>1 DEF AtInit, InInitAt, Open
  <2>2. m[n].state.reachable /\ \A x \in m[n].state.assigned : b[x] # 0
    BY <1>2 DEF MarkFits, StateFits
  <2>3. k \in MembersBefore(p, n)
    BY <1>3 DEF MembersBefore
  <2>4. CASE p[n].op = "return"
    <3>1. ReturnAt(p, n, m[n], m[n + 1])
      BY <2>4, Onward, StepOf
    <3>2. p[k].on \in m[n].state.assigned
      BY <2>1, <2>2, <2>3, <3>1 DEF ReturnAt
    <3>. QED
      BY <2>2, <3>2
  <2>5. CASE p[n].op = "end"
    <3>1. EndFunctionAt(p, n, m[n], m[n + 1])
      BY <2>5, EndFrame DEF LeavesAt, OfHead
    <3>2. CASE p[k].cond = None
      <4>1. p[k].on \in m[n].state.assigned
        BY <2>1, <2>2, <2>3, <3>1, <3>2 DEF EndFunctionAt
      <4>. QED
        BY <2>2, <4>1
    <3>3. CASE p[k].cond # None
      BY <1>2, <1>3, <3>3 DEF MembersFit
    <3>. QED
      BY <3>2, <3>3
  <2>. QED
    BY <2>4, <2>5 DEF LeavesAt
<1>. QED
  BY <1>4, <1>5

(* _init is the first of the functions. *)
LEMMA InitFirst ==
    ASSUME NEW p, NEW m, Consistent(p, m), NEW n \in 1 .. Len(p), p[n].op = "func",
           NEW k \in 1 .. Len(p), p[k].op = "func", k < n
    PROVE  p[k].of = "_init" /\ p[n].of # "_init"
<1>1. FuncAt(p, n, m[n], m[n + 1])
  BY Onward, StepOf
<1>2. k \in 1 .. n - 1
  BY LenProperties DEF Consistent
<1>. QED
  BY <1>1, <1>2 DEF FuncAt

(* Control goes on behind the function that is left. *)
LEMMA ReturnStands ==
    ASSUME NEW p, NEW m, Consistent(p, m), Depth(m, Len(p) + 1) = 0, NEW n \in 1 .. Len(p),
           LeavesAt(p, m, n), NEW b \in [Finals -> Nat], NEW j, Standing(p, m, n, b, j),
           NEW c, c = [x \in Finals |-> IF x \in Locals THEN 0 ELSE b[x]],
           NEW e, e = EndFor(p, m, Open(m, n, 1).head)
    PROVE  /\ e \in 1 .. Len(p)
           /\ e + 1 \in 1 .. Len(p) => Standing(p, m, e + 1, c, j)
<1>0. /\ Depth(m, n) \in Nat /\ Depth(m, n) >= 1
      /\ \A k \in 1 .. Len(p) : p[k].op = "member" => b[p[k].on] # 0
  BY LeftWhole
<1>1. 1 \in 1 .. Depth(m, n) /\ Len(p) \in Nat /\ n \in 1 .. Len(p) + 1
  BY <1>0, LenProperties DEF Consistent
<1>2. /\ e \in n .. Len(p) /\ e \in 1 .. Len(p) /\ p[e].op = "end" /\ Depth(m, e) = 1
  BY <1>1, EndForIs
<1>3. Depth(m, e + 1) = 0
  BY <1>2, Onward
<1>. DEFINE h == Open(m, n, 1).head
<1>4. h \in 1 .. n - 1 /\ p[h].op = "func"
  BY <1>1, FrameIs, NotAFunction
<1>. SUFFICES ASSUME e + 1 \in 1 .. Len(p) PROVE Standing(p, m, e + 1, c, j)
  BY <1>2
<1>5. p[e + 1].op = "func"
  <2>1. p[e + 1].op \in {"member", "func"}
    BY <1>3, Outside
  <2>2. e \in 1 .. e + 1 - 1
    BY <1>2
  <2>3. p[e + 1].op # "member"
    BY <1>2, <2>2, MembersFirst
  <2>. QED
    BY <2>1, <2>3
<1>6. p[e + 1].of # "_init"
  <2>1. h \in 1 .. Len(p) /\ h < e + 1
    BY <1>1, <1>2, <1>4
  <2>. HIDE DEF h
  <2>. QED
    BY <1>4, <1>5, <2>1, InitFirst
<1>7. ~ AtInit(p, m, e + 1)
  BY <1>3, <1>6 DEF AtInit
<1>8. \A k \in 1 .. Len(p) : p[k].op = "member" => c[p[k].on] # 0
  <2>1. SUFFICES ASSUME NEW k \in 1 .. Len(p), p[k].op = "member" PROVE c[p[k].on] # 0
    OBVIOUS
  <2>2. p[k].on \in Members
    BY <2>1, MembersFirst
  <2>3. p[k].on \in Finals /\ p[k].on \notin Locals
    BY <2>2 DEF Finals, Members, Locals
  <2>. QED
    BY <1>0, <2>1, <2>3
<1>9. MembersFit(p, m, e + 1, c)
  BY <1>5, <1>8 DEF MembersFit
<1>10. \A x \in Locals : c[x] = 0
  BY DEF Finals
<1>. QED
  BY <1>3, <1>5, <1>7, <1>9, <1>10 DEF Standing

-----------------------------------------------------------------------------
(* The run *)

(* A set of naturals with a bound and a member has a greatest one. *)
LEMMA Greatest ==
    ASSUME NEW N \in Nat, NEW T \in SUBSET (1 .. N), T # {}
    PROVE  \E n \in T : \A k \in T : k <= n
<1>. DEFINE U == {N - n : n \in T}
<1>1. U \in SUBSET Nat /\ U # {}
  <2>1. \A n \in T : n \in 1 .. N /\ N - n \in Nat
    OBVIOUS
  <2>2. PICK n \in T : TRUE
    OBVIOUS
  <2>. QED
    BY <2>1, <2>2
<1>2. PICK u \in U : \A v \in U : u <= v
  BY <1>1, Least
<1>3. PICK n \in T : u = N - n
  OBVIOUS
<1>4. \A k \in T : N - n <= N - k
  BY <1>2, <1>3
<1>5. \A k \in T : k <= n
  BY <1>4
<1>. QED
  BY <1>5

(* The class that is run. *)
Ready == IInv /\ accepted /\ blocks = <<>> /\ Len(marks) = Len(prog)

(* A class that is accepted and complete is consistent, and nothing is     *)
(* open behind it.                                                         *)
LEMMA Written ==
    ASSUME Ready
    PROVE  /\ Consistent(prog, Marked) /\ Depth(Marked, Len(prog) + 1) = 0
           /\ Len(prog) \in Nat /\ DOMAIN prog = 1 .. Len(prog)
           /\ \A n \in 1 .. Len(prog) : marks[n] = Marked[n]
<1>1. prog \in Seq(Texts) /\ marks \in Seq(Marks) /\ Now \in Marks /\ Consistent(prog, Marked)
  BY DEF Ready, IInv
<1>2. Len(prog) \in Nat /\ DOMAIN prog = 1 .. Len(prog)
  BY <1>1, LenProperties
<1>3. Marked[Len(prog) + 1] = Now /\ \A n \in 1 .. Len(prog) : marks[n] = Marked[n]
  BY <1>1, <1>2, AppendProperties DEF Ready, Marked
<1>4. Now.blocks = <<>>
  BY DEF Now, Ready
<1>. QED
  BY <1>1, <1>2, <1>3, <1>4 DEF Depth

(* EndOf is the end of an open statement. *)
LEMMA EndOfIs ==
    ASSUME Ready, NEW n \in 1 .. Len(prog) + 1, NEW i \in 1 .. Depth(Marked, n),
           NEW h, h = Open(Marked, n, i).head
    PROVE  EndOf(h) = EndFor(prog, Marked, h)
<1>0. /\ Consistent(prog, Marked) /\ Depth(Marked, Len(prog) + 1) = 0
      /\ DOMAIN prog = 1 .. Len(prog)
      /\ \A k \in 1 .. Len(prog) : marks[k] = Marked[k]
  BY Written
<1>. DEFINE e == EndFor(prog, Marked, h)
            d == EndOf(h)
<1>1. /\ e \in 1 .. Len(prog) /\ prog[e].op = "end" /\ Depth(Marked, e) = i
      /\ Open(Marked, e, i).head = h
  BY <1>0, EndForIs
<1>. HIDE DEF e
<1>2. \A k \in 1 .. Len(prog) : Last(marks[k].blocks) = Open(Marked, k, Depth(Marked, k))
  BY <1>0 DEF Last, Open, Depth
<1>3. e \in DOMAIN prog /\ prog[e].op = "end" /\ Last(marks[e].blocks).head = h
  BY <1>0, <1>1, <1>2
<1>4. d \in DOMAIN prog /\ prog[d].op = "end" /\ Last(marks[d].blocks).head = h
  BY <1>3 DEF EndOf
<1>. HIDE DEF d
<1>5. d \in 1 .. Len(prog) /\ Open(Marked, d, Depth(Marked, d)).head = h
  BY <1>0, <1>2, <1>4
<1>6. d = e
  BY <1>0, <1>1, <1>4, <1>5, ClosedOnce
<1>. QED
  BY <1>6 DEF d, e

(* Behind is where control arrives. *)
LEMMA BehindIs ==
    ASSUME Ready, NEW n \in Nat, n + 1 \in 1 .. Len(prog), Depth(Marked, n + 1) >= 1
    PROVE  Behind(n) = Arrived(prog, Marked, n + 1)
<1>0. /\ Consistent(prog, Marked) /\ Len(prog) \in Nat
      /\ \A k \in 1 .. Len(prog) : marks[k] = Marked[k]
  BY Written
<1>. DEFINE k == n + 1
            D == Depth(Marked, k)
            h == Open(Marked, k, D).head
<1>1. k \in 1 .. Len(prog) /\ k \in 1 .. Len(prog) + 1 /\ D \in 1 .. D
  <2>1. D \in Nat
    BY <1>0, Onward
  <2>. QED
    BY <1>0, <2>1
<1>2. EndOf(h) = EndFor(prog, Marked, h)
  BY <1>1, EndOfIs
<1>3. Last(marks[k].blocks).head = h
  BY <1>0, <1>1 DEF Last, Open, Depth
<1>4. Behind(n) = IF prog[k].op \in Arms THEN EndOf(h) ELSE k
  BY <1>3 DEF Behind
<1>. QED
  BY <1>2, <1>4 DEF Arrived

(* The arms that go on from token n. *)
LEMMA NextArmsAre ==
    ASSUME Ready, NEW n
    PROVE  NextArms(n) = {k \in 1 .. Len(prog) : prog[k].op \in Arms
                                 /\ Open(Marked, k, Depth(Marked, k)).arm = n}
<1>1. DOMAIN prog = 1 .. Len(prog) /\ \A k \in 1 .. Len(prog) : marks[k] = Marked[k]
  BY Written
<1>2. \A k \in 1 .. Len(prog) : OwnArm(k) = Open(Marked, k, Depth(Marked, k)).arm
  BY <1>1 DEF OwnArm, Last, Open, Depth
<1>. QED
  BY <1>1, <1>2 DEF NextArms

(* No arm follows the body of a loop. *)
LEMMA LoopsHaveNoArms ==
    ASSUME NEW p, NEW m, Consistent(p, m), NEW n \in 1 .. Len(p), p[n].op \in Loops,
           NEW k \in 1 .. Len(p), p[k].op \in Arms, Open(m, k, Depth(m, k)).arm = n
    PROVE  FALSE
<1>1. Open(m, k, Depth(m, k)).head = n
  BY NextArmOf DEF Loops, Heads
<1>2. p[n].op \in {"if", "match"}
  BY <1>1, ElseFrame, BranchFrame DEF Arms
<1>. QED
  BY <1>2 DEF Loops

Walks == Ready /\ RunIInv /\ Running

StandsNext ==
    /\ by' \in [Finals -> Nat] /\ jumped' \in [Finals -> BOOLEAN] /\ value' \in Types /\ wrote' \in Nat
    /\ pc' \in Nat /\ pc' # 0
    /\ pc' \in 1 .. Len(prog) => Standing(prog, Marked, pc', by', jumped')

(* What is known while the class is run. *)
LEMMA Walking ==
    ASSUME Walks
    PROVE  /\ Consistent(prog, Marked) /\ Depth(Marked, Len(prog) + 1) = 0
           /\ Len(prog) \in Nat /\ DOMAIN prog = 1 .. Len(prog)
           /\ \A n \in 1 .. Len(prog) : marks[n] = Marked[n]
           /\ pc \in 1 .. Len(prog) /\ pc \in Nat /\ pc # 0
           /\ by \in [Finals -> Nat] /\ jumped \in [Finals -> BOOLEAN] /\ value \in Types /\ wrote \in Nat
           /\ Standing(prog, Marked, pc, by, jumped)
           /\ HasInit(prog)
<1>1. /\ Consistent(prog, Marked) /\ Depth(Marked, Len(prog) + 1) = 0
      /\ Len(prog) \in Nat /\ DOMAIN prog = 1 .. Len(prog)
      /\ \A n \in 1 .. Len(prog) : marks[n] = Marked[n]
  BY Written DEF Walks
<1>2. pc \in 1 .. Len(prog) /\ pc \in Nat /\ pc # 0
  BY <1>1 DEF Walks, Running
<1>3. /\ by \in [Finals -> Nat] /\ jumped \in [Finals -> BOOLEAN] /\ value \in Types /\ wrote \in Nat
      /\ Standing(prog, Marked, pc, by, jumped)
  BY DEF Walks, RunIInv
<1>4. HasInit(prog)
  BY <1>2 DEF Walks, RunIInv, HasInit
<1>. QED
  BY <1>1, <1>2, <1>3, <1>4

(* The run keeps its claims at a member, *)
LEMMA MemberRuns ==
    ASSUME Walks, RunMember
    PROVE  StandsNext
<1>0. /\ Consistent(prog, Marked) /\ Len(prog) \in Nat /\ HasInit(prog)
      /\ pc \in 1 .. Len(prog) /\ pc \in Nat /\ pc # 0
      /\ by \in [Finals -> Nat] /\ jumped \in [Finals -> BOOLEAN] /\ value \in Types /\ wrote \in Nat
      /\ Standing(prog, Marked, pc, by, jumped)
  BY Walking
<1>1. prog[pc].op = "member" /\ pc' = pc + 1 /\ jumped' = jumped /\ value' = value /\ wrote' = wrote
  BY DEF RunMember, At
<1>2. prog[pc].on \in Finals
  BY <1>0, <1>1, MembersFirst DEF Finals
<1>3. by' = [by EXCEPT ![prog[pc].on] = IF prog[pc].cond = None THEN 0 ELSE pc]
  BY DEF RunMember, Here
<1>4. /\ by' \in [Finals -> Nat]
      /\ \A x \in Finals : x # prog[pc].on => by'[x] = by[x]
      /\ by'[prog[pc].on] = IF prog[pc].cond = None THEN 0 ELSE pc
  BY <1>0, <1>2, <1>3
<1>5. pc + 1 \in 1 .. Len(prog) => Standing(prog, Marked, pc + 1, by', jumped')
  BY <1>0, <1>1, <1>4, MemberStands
<1>. QED
  BY <1>0, <1>1, <1>4, <1>5 DEF StandsNext

(* ... a function, *)
LEMMA FuncRuns ==
    ASSUME Walks, RunFunc
    PROVE  StandsNext
<1>0. /\ Consistent(prog, Marked) /\ Depth(Marked, Len(prog) + 1) = 0
      /\ pc \in 1 .. Len(prog) /\ pc \in Nat /\ pc # 0
      /\ by \in [Finals -> Nat] /\ jumped \in [Finals -> BOOLEAN]
      /\ Standing(prog, Marked, pc, by, jumped)
  BY Walking
<1>1. /\ prog[pc].op = "func" /\ pc' = pc + 1 /\ by' = by /\ jumped' = jumped
      /\ value' \in Types /\ wrote' = 0
  BY DEF RunFunc, At
<1>2. Standing(prog, Marked, pc + 1, by, jumped)
  BY <1>0, <1>1, FuncStands
<1>. QED
  BY <1>0, <1>1, <1>2 DEF StandsNext

(* ... an assignment or a declaration, *)
LEMMA AssignmentRuns ==
    ASSUME Walks, RunAssignment
    PROVE  StandsNext
<1>0. /\ Consistent(prog, Marked) /\ Depth(Marked, Len(prog) + 1) = 0
      /\ pc \in 1 .. Len(prog) /\ pc \in Nat /\ pc # 0
      /\ by \in [Finals -> Nat] /\ jumped \in [Finals -> BOOLEAN] /\ value \in Types /\ wrote \in Nat
      /\ Standing(prog, Marked, pc, by, jumped)
  BY Walking
<1>. DEFINE t == prog[pc]
<1>1. t.op \in {"assign", "var"} /\ pc' = Behind(pc)
  BY DEF RunAssignment, At
<1>2. (t.op = "assign" => t.on \in Finals \cup {"s"}) /\ (t.op = "var" => t.on \in Finals)
  BY <1>0, Texted DEF TokenOK, Finals
<1>3. "s" \notin Finals
  BY DEF Finals, Members, Locals
<1>4. /\ by' \in [Finals -> Nat] /\ jumped' \in [Finals -> BOOLEAN] /\ value' \in Types /\ wrote' \in Nat
      /\ t.on \notin Finals => by' = by /\ jumped' = jumped
      /\ t.on \in Finals =>
           /\ \A x \in Finals : x # t.on => by'[x] = by[x] /\ jumped'[x] = jumped[x]
           /\ by'[t.on] = IF t.op = "var" /\ t.cond = None THEN 0 ELSE pc
  <2>1. CASE t.on = "s"
    BY <1>0, <1>3, <2>1 DEF RunAssignment, Here
  <2>2. CASE t.on # "s"
    <3>1. t.on \in Finals
      BY <1>1, <1>2, <2>2
    <3>. DEFINE now == IF t.op = "var" /\ t.cond = None THEN 0 ELSE pc
    <3>2. /\ by' = [by EXCEPT ![t.on] = now]
          /\ jumped' = [jumped EXCEPT ![t.on] = FALSE]
          /\ value' = value /\ wrote' = wrote
      BY <2>2 DEF RunAssignment, Here
    <3>3. now \in Nat
      BY <1>0
    <3>4. /\ by' \in [Finals -> Nat] /\ by'[t.on] = now
          /\ \A x \in Finals : x # t.on => by'[x] = by[x]
      BY <1>0, <3>1, <3>2, <3>3
    <3>5. /\ jumped' \in [Finals -> BOOLEAN]
          /\ \A x \in Finals : x # t.on => jumped'[x] = jumped[x]
      BY <1>0, <3>1, <3>2
    <3>. QED
      BY <1>0, <3>1, <3>2, <3>4, <3>5
  <2>. QED
    BY <2>1, <2>2
<1>5. /\ pc + 1 \in 1 .. Len(prog) /\ Depth(Marked, pc + 1) >= 1
      /\ Arrived(prog, Marked, pc + 1) \in 1 .. Len(prog)
      /\ Standing(prog, Marked, Arrived(prog, Marked, pc + 1), by', jumped')
  <2>1. Assigning(prog[pc], pc, by, jumped, by', jumped')
    BY <1>1, <1>4 DEF Assigning
  <2>. QED
    BY <1>0, <1>1, <2>1, PlainStands
<1>6. Behind(pc) = Arrived(prog, Marked, pc + 1)
  BY <1>0, <1>5, BehindIs DEF Walks
<1>. QED
  BY <1>0, <1>1, <1>4, <1>5, <1>6 DEF StandsNext

(* ... an expression or an assertion, *)
LEMMA UseRuns ==
    ASSUME Walks, RunUse \/ RunAssert
    PROVE  StandsNext
<1>0. /\ Consistent(prog, Marked) /\ Depth(Marked, Len(prog) + 1) = 0
      /\ Len(prog) \in Nat
      /\ pc \in 1 .. Len(prog) /\ pc \in Nat /\ pc # 0
      /\ by \in [Finals -> Nat] /\ jumped \in [Finals -> BOOLEAN] /\ value \in Types /\ wrote \in Nat
      /\ Standing(prog, Marked, pc, by, jumped)
  BY Walking
<1>1. /\ prog[pc].op \in {"use", "assert"} /\ by' = by /\ jumped' = jumped
      /\ value' = value /\ wrote' = wrote /\ pc' \in {Behind(pc), Finished}
  BY DEF RunUse, RunAssert, At
<1>5. /\ pc + 1 \in 1 .. Len(prog) /\ Depth(Marked, pc + 1) >= 1
      /\ Arrived(prog, Marked, pc + 1) \in 1 .. Len(prog)
      /\ Standing(prog, Marked, Arrived(prog, Marked, pc + 1), by, jumped)
  <2>1. Assigning(prog[pc], pc, by, jumped, by, jumped)
    BY <1>0, <1>1 DEF Assigning
  <2>. QED
    BY <1>0, <1>1, <2>1, PlainStands
<1>6. Behind(pc) = Arrived(prog, Marked, pc + 1)
  BY <1>0, <1>5, BehindIs DEF Walks
<1>. QED
  BY <1>0, <1>1, <1>5, <1>6 DEF StandsNext, Finished

(* ... an if whose test failed, *)
LEMMA IfRuns ==
    ASSUME Walks, prog[pc].op = "if"
    PROVE  /\ Otherwise(pc) \in 1 .. Len(prog)
           /\ Standing(prog, Marked, Otherwise(pc), by, jumped)
<1>0. /\ Consistent(prog, Marked) /\ Depth(Marked, Len(prog) + 1) = 0
      /\ Len(prog) \in Nat
      /\ pc \in 1 .. Len(prog) /\ pc \in Nat /\ pc # 0
      /\ Standing(prog, Marked, pc, by, jumped)
  BY Walking
<1>. DEFINE N == NextArms(pc)
<1>1. N = {k \in 1 .. Len(prog) : prog[k].op \in Arms
                 /\ Open(Marked, k, Depth(Marked, k)).arm = pc}
  BY NextArmsAre DEF Walks
<1>2. CASE N # {}
  <2>. DEFINE k == CHOOSE x \in N : TRUE
  <2>1. k \in N
    BY <1>2
  <2>2. Otherwise(pc) = IF prog[k].op = "branch" THEN k ELSE k + 1
    BY <1>2 DEF Otherwise
  <2>. HIDE DEF k
  <2>3. k \in 1 .. Len(prog) /\ prog[k].op \in Arms /\ Open(Marked, k, Depth(Marked, k)).arm = pc
    BY <1>1, <2>1
  <2>4. prog[k].op = "else" /\ k + 1 \in 1 .. Len(prog) /\ Standing(prog, Marked, k + 1, by, jumped)
    BY <1>0, <2>3, ElseStands
  <2>. QED
    BY <2>2, <2>4
<1>3. CASE N = {}
  <2>1. Otherwise(pc) = EndOf(pc)
    BY <1>3 DEF Otherwise, Loops
  <2>2. \A k \in 1 .. Len(prog) : ~ (prog[k].op \in Arms /\ Open(Marked, k, Depth(Marked, k)).arm = pc)
    BY <1>1, <1>3
  <2>3. EndOf(pc) = EndFor(prog, Marked, pc)
    <3>1. /\ Depth(Marked, pc) \in Nat /\ Depth(Marked, pc + 1) = Depth(Marked, pc) + 1
          /\ Open(Marked, pc + 1, Depth(Marked, pc) + 1) = Opened(prog[pc], pc, Marked[pc])
      BY <1>0, Onward DEF Heads
    <3>2. Opened(prog[pc], pc, Marked[pc]).head = pc
      BY DEF Opened
    <3>3. pc + 1 \in 1 .. Len(prog) + 1 /\ Depth(Marked, pc + 1) \in 1 .. Depth(Marked, pc + 1)
      BY <1>0, <3>1
    <3>4. pc = Open(Marked, pc + 1, Depth(Marked, pc + 1)).head
      BY <3>1, <3>2
    <3>. QED
      BY <3>3, <3>4, EndOfIs DEF Walks
  <2>4. EndFor(prog, Marked, pc) \in 1 .. Len(prog)
        /\ Standing(prog, Marked, EndFor(prog, Marked, pc), by, jumped)
    BY <1>0, <2>2, NoElseStands
  <2>. QED
    BY <2>1, <2>3, <2>4
<1>. QED
  BY <1>2, <1>3

(* EndOf is the end of the statement that a head opens. *)
LEMMA EndOfHead ==
    ASSUME Ready, NEW n \in 1 .. Len(prog), prog[n].op \in Heads
    PROVE  EndOf(n) = EndFor(prog, Marked, n)
<1>0. Consistent(prog, Marked) /\ Len(prog) \in Nat
  BY Written
<1>1. /\ Depth(Marked, n) \in Nat /\ Depth(Marked, n + 1) = Depth(Marked, n) + 1
      /\ Open(Marked, n + 1, Depth(Marked, n) + 1) = Opened(prog[n], n, Marked[n])
  BY <1>0, Onward
<1>2. Opened(prog[n], n, Marked[n]).head = n
  BY DEF Opened
<1>3. n + 1 \in 1 .. Len(prog) + 1 /\ Depth(Marked, n + 1) \in 1 .. Depth(Marked, n + 1)
  BY <1>0, <1>1
<1>4. n = Open(Marked, n + 1, Depth(Marked, n + 1)).head
  BY <1>1, <1>2
<1>. QED
  BY <1>3, <1>4, EndOfIs

(* ... a loop whose test failed, *)
LEMMA LoopRuns ==
    ASSUME Walks, prog[pc].op \in Loops, prog[pc].cond # "true"
    PROVE  /\ Otherwise(pc) \in 1 .. Len(prog)
           /\ Standing(prog, Marked, Otherwise(pc), by, jumped)
<1>0. /\ Consistent(prog, Marked) /\ Depth(Marked, Len(prog) + 1) = 0
      /\ Len(prog) \in Nat
      /\ pc \in 1 .. Len(prog) /\ pc \in Nat /\ pc # 0
      /\ Standing(prog, Marked, pc, by, jumped)
  BY Walking
<1>1. NextArms(pc) = {}
  <2>1. \A k \in 1 .. Len(prog) : ~ (prog[k].op \in Arms /\ Open(Marked, k, Depth(Marked, k)).arm = pc)
    BY <1>0, LoopsHaveNoArms
  <2>. QED
    BY <2>1, NextArmsAre DEF Walks
<1>. DEFINE e == EndFor(prog, Marked, pc)
<1>2. EndOf(pc) = e
  BY <1>0, EndOfHead DEF Walks, Loops, Heads
<1>. HIDE DEF e
<1>3. Otherwise(pc) = Behind(e)
  BY <1>1, <1>2 DEF Otherwise, Loops
<1>4. /\ e \in 1 .. Len(prog) /\ e + 1 \in 1 .. Len(prog) /\ Depth(Marked, e + 1) >= 1
      /\ Arrived(prog, Marked, e + 1) \in 1 .. Len(prog)
      /\ Standing(prog, Marked, Arrived(prog, Marked, e + 1), by, jumped)
  BY <1>0, FailedLoopStands DEF e
<1>5. Behind(e) = Arrived(prog, Marked, e + 1)
  BY <1>0, <1>4, BehindIs DEF Walks
<1>. QED
  BY <1>3, <1>4, <1>5

(* A test holds or fails, one of "true" holds. *)
LEMMA OutcomesAre ==
    ASSUME NEW cond
    PROVE  /\ \A holds \in Outcomes(cond) : holds \in BOOLEAN
           /\ cond = "true" => Outcomes(cond) = {TRUE}
<1>1. Outcomes(cond) \in {{TRUE}, {FALSE}, BOOLEAN, {value # "null"}, {value = "null"}, {value = "a"}, {value # "a"}}
  BY DEF Outcomes
<1>2. cond = "true" => Outcomes(cond) = {TRUE}
  BY DEF Outcomes
<1>. QED
  BY <1>1, <1>2

(* A pattern matches or not, a catch-all does. *)
LEMMA MatchesAre ==
    ASSUME NEW n
    PROVE  /\ \A holds \in Matches(n) : holds \in BOOLEAN
           /\ prog[n].cond = "wild" => FALSE \notin Matches(n)
BY DEF Matches

(* ... any test, *)
LEMMA TestRuns ==
    ASSUME Walks, RunTest
    PROVE  StandsNext
<1>0. /\ Consistent(prog, Marked) /\ Depth(Marked, Len(prog) + 1) = 0
      /\ Len(prog) \in Nat
      /\ pc \in 1 .. Len(prog) /\ pc \in Nat /\ pc # 0
      /\ by \in [Finals -> Nat] /\ jumped \in [Finals -> BOOLEAN] /\ value \in Types /\ wrote \in Nat
      /\ Standing(prog, Marked, pc, by, jumped)
  BY Walking
<1>1. /\ prog[pc].op \in {"if", "while", "for"} /\ by' = by /\ jumped' = jumped
      /\ value' = value /\ wrote' = wrote
      /\ pc' = Behind(pc) \/ (FALSE \in Outcomes(prog[pc].cond) /\ pc' = Otherwise(pc))
  <2>1. PICK holds \in Outcomes(prog[pc].cond) : pc' = IF holds THEN Behind(pc) ELSE Otherwise(pc)
    BY DEF RunTest, Here
  <2>2. holds = TRUE \/ holds = FALSE
    BY OutcomesAre
  <2>3. prog[pc].op \in {"if", "while", "for"} /\ by' = by /\ jumped' = jumped
        /\ value' = value /\ wrote' = wrote
    BY DEF RunTest, At
  <2>. QED
    BY <2>1, <2>2, <2>3
<1>2. FALSE \in Outcomes(prog[pc].cond) => prog[pc].cond # "true"
  BY OutcomesAre
<1>3. /\ pc + 1 \in 1 .. Len(prog) /\ Depth(Marked, pc + 1) >= 1
      /\ Arrived(prog, Marked, pc + 1) \in 1 .. Len(prog)
      /\ Standing(prog, Marked, Arrived(prog, Marked, pc + 1), by, jumped)
  BY <1>0, <1>1, HeadStands
<1>4. Behind(pc) = Arrived(prog, Marked, pc + 1)
  BY <1>0, <1>3, BehindIs DEF Walks
<1>5. pc' \in 1 .. Len(prog) /\ Standing(prog, Marked, pc', by, jumped)
  <2>1. CASE pc' = Behind(pc)
    BY <1>3, <1>4, <2>1
  <2>2. CASE pc' = Otherwise(pc) /\ prog[pc].op = "if"
    BY <2>2, IfRuns
  <2>3. CASE pc' = Otherwise(pc) /\ prog[pc].op # "if" /\ prog[pc].cond # "true"
    BY <1>1, <2>3, LoopRuns DEF Loops
  <2>. QED
    BY <1>1, <1>2, <2>1, <2>2, <2>3
<1>. QED
  BY <1>0, <1>1, <1>5 DEF StandsNext

(* ... a match, *)
LEMMA MatchRuns ==
    ASSUME Walks, RunMatch
    PROVE  StandsNext
<1>0. /\ Consistent(prog, Marked) /\ Depth(Marked, Len(prog) + 1) = 0
      /\ pc \in 1 .. Len(prog) /\ pc \in Nat /\ pc # 0
      /\ by \in [Finals -> Nat] /\ jumped \in [Finals -> BOOLEAN] /\ value \in Types /\ wrote \in Nat
      /\ Standing(prog, Marked, pc, by, jumped)
  BY Walking
<1>1. /\ prog[pc].op = "match" /\ pc' = pc + 1 /\ by' = by /\ jumped' = jumped
      /\ value' = value /\ wrote' = wrote
  BY DEF RunMatch, At
<1>2. Standing(prog, Marked, pc + 1, by, jumped)
  BY <1>0, <1>1, MatchStands
<1>. QED
  BY <1>0, <1>1, <1>2 DEF StandsNext

(* ... a pattern, *)
LEMMA BranchRuns ==
    ASSUME Walks, RunBranch
    PROVE  StandsNext
<1>0. /\ Consistent(prog, Marked) /\ Depth(Marked, Len(prog) + 1) = 0
      /\ Len(prog) \in Nat
      /\ \A n \in 1 .. Len(prog) : marks[n] = Marked[n]
      /\ pc \in 1 .. Len(prog) /\ pc \in Nat /\ pc # 0
      /\ by \in [Finals -> Nat] /\ jumped \in [Finals -> BOOLEAN] /\ value \in Types /\ wrote \in Nat
      /\ Standing(prog, Marked, pc, by, jumped)
  BY Walking
<1>1. /\ prog[pc].op = "branch" /\ by' = by /\ jumped' = jumped
      /\ value' = value /\ wrote' = wrote
      /\ pc' = Behind(pc) \/ (FALSE \in Matches(pc) /\ pc' = Otherwise(pc))
  <2>1. PICK holds \in Matches(pc) : pc' = IF holds THEN Behind(pc) ELSE Otherwise(pc)
    BY DEF RunBranch
  <2>2. holds = TRUE \/ holds = FALSE
    BY MatchesAre
  <2>3. prog[pc].op = "branch" /\ by' = by /\ jumped' = jumped
        /\ value' = value /\ wrote' = wrote
    BY DEF RunBranch, At
  <2>. QED
    BY <2>1, <2>2, <2>3
<1>2. FALSE \in Matches(pc) => prog[pc].cond # "wild"
  BY MatchesAre
<1>3. /\ pc + 1 \in 1 .. Len(prog) /\ Depth(Marked, pc + 1) >= 1
      /\ Arrived(prog, Marked, pc + 1) \in 1 .. Len(prog)
      /\ Standing(prog, Marked, Arrived(prog, Marked, pc + 1), by, jumped)
  BY <1>0, <1>1, BranchStands
<1>4. Behind(pc) = Arrived(prog, Marked, pc + 1)
  BY <1>0, <1>3, BehindIs DEF Walks
<1>5. pc' \in 1 .. Len(prog) /\ Standing(prog, Marked, pc', by, jumped)
  <2>1. CASE pc' = Behind(pc)
    BY <1>3, <1>4, <2>1
  <2>2. CASE pc' = Otherwise(pc) /\ prog[pc].cond # "wild"
    <3>. DEFINE N == NextArms(pc)
    <3>1. N = {k \in 1 .. Len(prog) : prog[k].op \in Arms
                     /\ Open(Marked, k, Depth(Marked, k)).arm = pc}
      BY NextArmsAre DEF Walks
    <3>2. CASE N # {}
      <4>. DEFINE k == CHOOSE x \in N : TRUE
      <4>1. k \in N
        BY <3>2
      <4>2. Otherwise(pc) = IF prog[k].op = "branch" THEN k ELSE k + 1
        BY <3>2 DEF Otherwise
      <4>. HIDE DEF k
      <4>3. k \in 1 .. Len(prog) /\ prog[k].op \in Arms /\ Open(Marked, k, Depth(Marked, k)).arm = pc
        BY <3>1, <4>1
      <4>4. prog[k].op = "branch" /\ Standing(prog, Marked, k, by, jumped)
        BY <1>0, <1>1, <2>2, <4>3, NextBranchStands
      <4>. QED
        BY <2>2, <4>2, <4>3, <4>4
    <3>3. CASE N = {}
      <4>. DEFINE D == Depth(Marked, pc)
                  h == Open(Marked, pc, D).head
      <4>1. Last(marks[pc].blocks).head = h
        BY <1>0 DEF Last, Open, Depth
      <4>2. Otherwise(pc) = EndOf(h)
        BY <1>1, <3>3, <4>1 DEF Otherwise, Loops
      <4>3. D \in 1 .. D /\ pc \in 1 .. Len(prog) + 1
        BY <1>0, <1>1, ArmDepth DEF Arms
      <4>4. EndOf(h) = EndFor(prog, Marked, h)
        BY <4>3, EndOfIs DEF Walks
      <4>5. \A k \in 1 .. Len(prog) : ~ (prog[k].op \in Arms /\ Open(Marked, k, Depth(Marked, k)).arm = pc)
        BY <3>1, <3>3
      <4>6. /\ EndFor(prog, Marked, h) \in 1 .. Len(prog)
            /\ Standing(prog, Marked, EndFor(prog, Marked, h), by, jumped)
        BY <1>0, <1>1, <2>2, <4>5, NoBranchStands
      <4>. QED
        BY <2>2, <4>2, <4>4, <4>6
    <3>. QED
      BY <3>2, <3>3
  <2>. QED
    BY <1>1, <1>2, <2>1, <2>2
<1>. QED
  BY <1>0, <1>1, <1>5 DEF StandsNext

(* The loop a jump is in. *)
LEMMA InnerLoopIs ==
    ASSUME Walks, prog[pc].op \in {"break", "continue"}
    PROVE  \E i \in 1 .. Depth(Marked, pc) :
             /\ InnerLoop = Open(Marked, pc, i).head
             /\ prog[Open(Marked, pc, i).head].op \in Loops
             /\ \A j \in i + 1 .. Depth(Marked, pc) : prog[Open(Marked, pc, j).head].op \notin Loops
<1>0. /\ Consistent(prog, Marked)
      /\ \A n \in 1 .. Len(prog) : marks[n] = Marked[n]
      /\ pc \in 1 .. Len(prog) /\ pc \in Nat
  BY Walking
<1>. DEFINE s == marks[pc].blocks
            D == Depth(Marked, pc)
            T == {i \in 1 .. D : prog[Open(Marked, pc, i).head].op \in Loops}
<1>3. D \in Nat /\ DOMAIN s = 1 .. D /\ \A i \in 1 .. D : s[i] = Open(Marked, pc, i)
  <2>1. Marked[pc].blocks \in Seq(Frames)
    BY <1>0, Around1 DEF Marks
  <2>2. s = Marked[pc].blocks
    BY <1>0
  <2>. QED
    BY <2>1, <2>2, LenProperties DEF Depth, Open
<1>4. T # {}
  <2>1. JumpAt(prog, pc, Marked[pc], Marked[pc + 1])
    BY <1>0, Onward, StepOf
  <2>2. PICK i \in 1 .. Len(Marked[pc].blocks) : HeadOf(prog, Marked[pc].blocks[i]).op \in Loops
    BY <2>1 DEF JumpAt
  <2>. QED
    BY <2>2 DEF HeadOf, Open, Depth
<1>. DEFINE inner(i) == Op(s[i]) \in Loops /\ \A j \in DOMAIN s : j > i => Op(s[j]) \notin Loops
            i == CHOOSE i \in DOMAIN s : inner(i)
            f == Open(Marked, pc, i)
<1>5. \E n \in DOMAIN s : inner(n)
  <2>1. T \in SUBSET (1 .. D)
    OBVIOUS
  <2>2. PICK n \in T : \A k \in T : k <= n
    <3>. HIDE DEF T
    <3>. QED
      BY <1>3, <1>4, <2>1, Greatest
  <2>3. n \in 1 .. D /\ Op(s[n]) \in Loops
    BY <1>3, <2>2 DEF Op
  <2>4. ASSUME NEW j \in 1 .. D, j > n, Op(s[j]) \in Loops PROVE FALSE
    <3>1. j \in T
      BY <1>3, <2>4 DEF Op
    <3>. QED
      BY <1>3, <2>2, <2>3, <2>4, <3>1
  <2>. QED
    BY <1>3, <2>3, <2>4
<1>6. i \in DOMAIN s /\ inner(i)
  BY <1>5
<1>7. InnerLoop = s[i].head
  BY DEF InnerLoop
<1>. HIDE DEF i
<1>8. /\ i \in 1 .. D /\ InnerLoop = f.head /\ prog[f.head].op \in Loops
      /\ \A j \in i + 1 .. D : prog[Open(Marked, pc, j).head].op \notin Loops
  BY <1>3, <1>6, <1>7 DEF Op
<1>. QED
  BY <1>8

(* ... a break or continue, *)
LEMMA JumpRuns ==
    ASSUME Walks, RunJump
    PROVE  StandsNext
<1>0. /\ Consistent(prog, Marked) /\ Depth(Marked, Len(prog) + 1) = 0
      /\ Len(prog) \in Nat
      /\ \A n \in 1 .. Len(prog) : marks[n] = Marked[n]
      /\ pc \in 1 .. Len(prog) /\ pc \in Nat /\ pc # 0
      /\ by \in [Finals -> Nat] /\ jumped \in [Finals -> BOOLEAN] /\ value \in Types /\ wrote \in Nat
      /\ Standing(prog, Marked, pc, by, jumped)
  BY Walking
<1>1. /\ prog[pc].op \in {"break", "continue"} /\ by' = by /\ jumped' = JumpsFrom(by, jumped)
      /\ value' = value /\ wrote' = wrote
      /\ prog[pc].op = "break" => pc' = Behind(EndOf(InnerLoop))
      /\ prog[pc].op = "continue" => pc' = InnerLoop
  BY DEF RunJump, At, Here, JumpsBehind, JumpsFrom
<1>2. jumped' \in [Finals -> BOOLEAN]
  BY <1>0, <1>1 DEF JumpsFrom
<1>. DEFINE D == Depth(Marked, pc)
<1>3. PICK i \in 1 .. D : /\ InnerLoop = Open(Marked, pc, i).head
                         /\ prog[Open(Marked, pc, i).head].op \in Loops
                         /\ \A j \in i + 1 .. D : prog[Open(Marked, pc, j).head].op \notin Loops
  BY <1>1, InnerLoopIs
<1>. DEFINE f == Open(Marked, pc, i)
<1>8. /\ i \in 1 .. D /\ InnerLoop = f.head /\ prog[f.head].op \in Loops
      /\ \A j \in i + 1 .. D : prog[Open(Marked, pc, j).head].op \notin Loops
  BY <1>3
<1>9. CASE prog[pc].op = "break"
  <2>. DEFINE e == EndFor(prog, Marked, f.head)
  <2>1. EndOf(InnerLoop) = e
    BY <1>0, <1>8, EndOfIs DEF Walks
  <2>2. /\ e \in 1 .. Len(prog) /\ e + 1 \in 1 .. Len(prog) /\ Depth(Marked, e + 1) >= 1
        /\ Arrived(prog, Marked, e + 1) \in 1 .. Len(prog)
        /\ Standing(prog, Marked, Arrived(prog, Marked, e + 1), by, JumpsFrom(by, jumped))
    BY <1>0, <1>8, <1>9, BreakStands
  <2>. HIDE DEF e
  <2>3. Behind(e) = Arrived(prog, Marked, e + 1)
    BY <1>0, <2>2, BehindIs DEF Walks
  <2>. QED
    BY <1>0, <1>1, <1>2, <1>9, <2>1, <2>2, <2>3 DEF StandsNext
<1>10. CASE prog[pc].op = "continue"
  <2>1. Known(prog, Marked, pc) = pc
    BY <1>10 DEF Known
  <2>2. f.head \in 1 .. Len(prog) /\ Standing(prog, Marked, f.head, by, JumpsFrom(by, jumped))
    BY <1>0, <1>8, <2>1, BackStands
  <2>. QED
    BY <1>0, <1>1, <1>2, <1>8, <1>10, <2>2 DEF StandsNext
<1>. QED
  BY <1>1, <1>9, <1>10

(* The innermost open statement. *)
LEMMA AroundIs ==
    ASSUME Ready, NEW n \in 1 .. Len(prog)
    PROVE  Last(marks[n].blocks) = Open(Marked, n, Depth(Marked, n))
BY Written DEF Last, Open, Depth

(* ... the end of a statement, *)
LEMMA EndRuns ==
    ASSUME Walks, RunEnd
    PROVE  StandsNext
<1>0. /\ Consistent(prog, Marked) /\ Depth(Marked, Len(prog) + 1) = 0
      /\ Len(prog) \in Nat
      /\ pc \in 1 .. Len(prog) /\ pc \in Nat /\ pc # 0
      /\ by \in [Finals -> Nat] /\ jumped \in [Finals -> BOOLEAN] /\ value \in Types /\ wrote \in Nat
      /\ Standing(prog, Marked, pc, by, jumped)
  BY Walking
<1>. DEFINE D == Depth(Marked, pc)
            f == Open(Marked, pc, D)
            loop == prog[f.head].op \in Loops
<1>1. Around = f
  BY <1>0, AroundIs DEF Walks, Around
<1>2. /\ prog[pc].op = "end" /\ by' = by /\ value' = value /\ wrote' = wrote
      /\ loop => pc' = f.head /\ jumped' = JumpsFrom(by, jumped)
      /\ ~ loop => pc' = Behind(pc) /\ jumped' = jumped
      /\ prog[f.head].op # "func"
  BY <1>1 DEF RunEnd, At, Op, JumpsBehind, JumpsFrom, Leaving
<1>3. D \in Nat /\ D \in 1 .. D
  BY <1>0, <1>2, Onward
<1>4. prog[f.head].op \in Heads
  BY <1>0, <1>2, EndFrame
<1>5. CASE loop
  <2>1. Known(prog, Marked, pc) = pc
    BY <1>2, <1>5 DEF Known, OfHead, Loops
  <2>2. f.head \in 1 .. Len(prog) /\ Standing(prog, Marked, f.head, by, JumpsFrom(by, jumped))
    BY <1>0, <1>3, <1>5, <2>1, BackStands
  <2>3. JumpsFrom(by, jumped) \in [Finals -> BOOLEAN]
    BY <1>0 DEF JumpsFrom
  <2>. QED
    BY <1>0, <1>2, <1>5, <2>2, <2>3 DEF StandsNext
<1>6. CASE ~ loop
  <2>1. OfHead(prog, Marked, pc).op \in {"if", "match"}
    BY <1>2, <1>4, <1>6 DEF OfHead, Heads, Loops
  <2>2. /\ pc + 1 \in 1 .. Len(prog) /\ Depth(Marked, pc + 1) >= 1
        /\ Arrived(prog, Marked, pc + 1) \in 1 .. Len(prog)
        /\ Standing(prog, Marked, Arrived(prog, Marked, pc + 1), by, jumped)
    BY <1>0, <1>2, <2>1, EndStands
  <2>3. Behind(pc) = Arrived(prog, Marked, pc + 1)
    BY <1>0, <2>2, BehindIs DEF Walks
  <2>. QED
    BY <1>0, <1>2, <1>6, <2>2, <2>3 DEF StandsNext
<1>. QED
  BY <1>5, <1>6

(* Leaving a function. *)
LEMMA LeavesAtIs ==
    ASSUME Walks, Leaving
    PROVE  /\ LeavesAt(prog, Marked, pc)
           /\ marks[pc].blocks[1] = Open(Marked, pc, 1)
<1>0. pc \in 1 .. Len(prog) /\ marks[pc] = Marked[pc]
  BY Walking
<1>1. Around = Open(Marked, pc, Depth(Marked, pc))
  BY <1>0, AroundIs DEF Walks, Around
<1>. QED
  BY <1>0, <1>1 DEF Leaving, LeavesAt, At, Op, OfHead, Open

(* ... the end of a function, *)
LEMMA ReturnRuns ==
    ASSUME Walks, RunReturn
    PROVE  StandsNext
<1>0. /\ Consistent(prog, Marked) /\ Depth(Marked, Len(prog) + 1) = 0
      /\ Len(prog) \in Nat
      /\ pc \in 1 .. Len(prog) /\ pc \in Nat /\ pc # 0
      /\ by \in [Finals -> Nat] /\ jumped \in [Finals -> BOOLEAN] /\ value \in Types /\ wrote \in Nat
      /\ Standing(prog, Marked, pc, by, jumped)
  BY Walking
<1>1. LeavesAt(prog, Marked, pc) /\ marks[pc].blocks[1] = Open(Marked, pc, 1)
  BY LeavesAtIs DEF RunReturn
<1>2. Depth(Marked, pc) \in Nat /\ Depth(Marked, pc) >= 1
  BY <1>0, <1>1, LeftWhole
<1>3. 1 \in 1 .. Depth(Marked, pc)
  BY <1>2
<1>. DEFINE e == EndFor(prog, Marked, Open(Marked, pc, 1).head)
            c == [x \in Finals |-> IF x \in Locals THEN 0 ELSE by[x]]
<1>4. EndOf(marks[pc].blocks[1].head) = e
  BY <1>0, <1>1, <1>3, EndOfIs DEF Walks
<1>5. pc' = e + 1 /\ by' = c /\ jumped' = jumped /\ value' = value /\ wrote' = wrote
  BY <1>4 DEF RunReturn
<1>6. c \in [Finals -> Nat]
  BY <1>0
<1>7. e \in 1 .. Len(prog) /\ (e + 1 \in 1 .. Len(prog) => Standing(prog, Marked, e + 1, c, jumped))
  BY <1>0, <1>1, ReturnStands
<1>. QED
  BY <1>0, <1>5, <1>6, <1>7 DEF StandsNext

(* ... and a call that does not return. *)
LEMMA NoReturnRuns ==
    ASSUME Walks, RunNoReturn
    PROVE  StandsNext
BY Walking DEF RunNoReturn, StandsNext, Finished

(* Whatever is run, the claims hold where control comes to. *)
LEMMA Runs ==
    ASSUME Ready, RunIInv, Run
    PROVE  StandsNext /\ UNCHANGED <<alphabet, prog, flow>>
<1>1. Walks
  BY DEF Walks, Run, RunMember, RunFunc, RunAssignment, RunUse, RunTest, RunAssert, RunMatch,
         RunBranch, RunJump, RunEnd, RunReturn, RunNoReturn, Leaving, At
<1>. QED
  BY <1>1, MemberRuns, FuncRuns, AssignmentRuns, UseRuns, TestRuns, MatchRuns, BranchRuns,
     JumpRuns, EndRuns, ReturnRuns, NoReturnRuns DEF Run

-----------------------------------------------------------------------------
(* What is written later changes nothing about what was written. *)
LEMMA SameStep ==
    ASSUME NEW p, NEW q, NEW n \in Nat \ {0}, NEW a \in Marks, NEW b,
           \A k \in 1 .. n : q[k] = p[k],
           \A i \in 1 .. Len(a.blocks) : q[a.blocks[i].head] = p[a.blocks[i].head],
           StepAt(p, n, a, b)
    PROVE  StepAt(q, n, a, b)
<1>1. q[n] = p[n] /\ \A k \in 1 .. n - 1 : q[k] = p[k]
  OBVIOUS
<1>2. a.blocks # <<>> => /\ HeadOf(q, Last(a.blocks)) = HeadOf(p, Last(a.blocks))
                         /\ q[a.blocks[1].head] = p[a.blocks[1].head]
  <2>1. a.blocks \in Seq(Frames)
    BY DEF Marks
  <2>2. a.blocks # <<>> => Len(a.blocks) \in Nat \ {0}
    BY <2>1, EmptySeq, LenProperties
  <2>. QED
    BY <2>2 DEF HeadOf, Last
<1>3. TrackedAt(q, a) = TrackedAt(p, a) /\ (InInitAt(q, a) <=> InInitAt(p, a))
  BY <1>2 DEF TrackedAt, InInitAt
<1>4. MembersBefore(q, n) = MembersBefore(p, n) /\ \A k \in MembersBefore(p, n) : q[k] = p[k]
  BY <1>1 DEF MembersBefore
<1>5. \A op, x : Declared(q, n, op, x) <=> Declared(p, n, op, x)
  BY <1>1 DEF Declared
<1>6. \A t, s : Reads(q, a, t, s) <=> Reads(p, a, t, s)
  BY <1>3 DEF Reads
<1>7. InBody(q, a) <=> InBody(p, a)
  BY <1>2 DEF InBody
<1>8. \A s, type, how : PlainAt(q, a, b, s, type, how) <=> PlainAt(p, a, b, s, type, how)
  BY <1>7 DEF PlainAt
<1>9. \A s, type : OpensAt(q, n, a, b, s, type) <=> OpensAt(p, n, a, b, s, type)
  BY <1>1 DEF OpensAt
<1>10. ASSUME MemberAt(p, n, a, b) PROVE MemberAt(q, n, a, b)
  BY <1>1, <1>6, <1>10 DEF MemberAt
<1>11. ASSUME FuncAt(p, n, a, b) PROVE FuncAt(q, n, a, b)
  BY <1>1, <1>9, <1>11 DEF FuncAt
<1>12. ASSUME AssignmentAt(p, n, a, b) PROVE AssignmentAt(q, n, a, b)
  BY <1>1, <1>3, <1>5, <1>6, <1>8, <1>12 DEF AssignmentAt
<1>13. ASSUME VarAt(p, n, a, b) PROVE VarAt(q, n, a, b)
  BY <1>1, <1>6, <1>8, <1>13 DEF VarAt
<1>14. ASSUME UseAt(p, n, a, b) PROVE UseAt(q, n, a, b)
  BY <1>1, <1>6, <1>8, <1>14 DEF UseAt
<1>15. ASSUME AssertAt(p, n, a, b) PROVE AssertAt(q, n, a, b)
  BY <1>1, <1>6, <1>8, <1>15 DEF AssertAt
<1>16. ASSUME NoReturnAt(p, n, a, b) PROVE NoReturnAt(q, n, a, b)
  BY <1>1, <1>8, <1>16 DEF NoReturnAt
<1>17. ASSUME ReturnAt(p, n, a, b) PROVE ReturnAt(q, n, a, b)
  BY <1>1, <1>3, <1>4, <1>6, <1>8, <1>17 DEF ReturnAt
<1>18. ASSUME JumpAt(p, n, a, b) PROVE JumpAt(q, n, a, b)
  BY <1>1, <1>8, <1>18 DEF JumpAt, HeadOf
<1>19. ASSUME HeadAt(p, n, a, b) PROVE HeadAt(q, n, a, b)
  BY <1>1, <1>6, <1>7, <1>9, <1>19 DEF HeadAt
<1>20. ASSUME ElseAt(p, n, a, b) PROVE ElseAt(q, n, a, b)
  BY <1>1, <1>2, <1>20 DEF ElseAt
<1>21. ASSUME BranchAt(p, n, a, b) PROVE BranchAt(q, n, a, b)
  <2>. DEFINE l == Last(a.blocks)
              f == WithArm(l, a.state, a.exit)
  <2>1. a.blocks # <<>>
    BY <1>21 DEF BranchAt
  <2>2. l \in Frames /\ a.state \in States /\ a.exit \in ExitStates
    BY <2>1, TopIs DEF Marks
  <2>3. f.head = l.head
    <3>. HIDE DEF l
    <3>. QED
      BY <2>2, ArmType
  <2>4. HeadOf(q, l) = HeadOf(p, l) /\ HeadOf(q, f) = HeadOf(p, f)
    BY <1>2, <2>1, <2>3 DEF HeadOf
  <2>. HIDE DEF f, l
  <2>. QED
    BY <1>1, <1>6, <1>21, <2>4 DEF BranchAt, f, l
<1>22. ASSUME EndAt(p, n, a, b) PROVE EndAt(q, n, a, b)
  <2>1. a.blocks # <<>> /\ q[n] = EndToken /\ HeadOf(q, Last(a.blocks)) = HeadOf(p, Last(a.blocks))
    BY <1>1, <1>2, <1>22 DEF EndAt
  <2>2. \A s, how : LoopExit(HeadOf(q, Last(a.blocks)).cond, how) = LoopExit(HeadOf(p, Last(a.blocks)).cond, how)
    BY <2>1
  <2>3. ASSUME EndIfAt(p, a, b) PROVE EndIfAt(q, a, b)
    BY <2>1, <2>3 DEF EndIfAt
  <2>4. ASSUME EndLoopAt(p, a, b) PROVE EndLoopAt(q, a, b)
    BY <2>1, <2>4 DEF EndLoopAt
  <2>5. ASSUME EndMatchAt(p, a, b) PROVE EndMatchAt(q, a, b)
    BY <2>1, <2>5 DEF EndMatchAt
  <2>6. ASSUME EndFunctionAt(p, n, a, b) PROVE EndFunctionAt(q, n, a, b)
    BY <1>3, <1>4, <2>1, <2>6 DEF EndFunctionAt
  <2>. QED
    BY <1>22, <2>1, <2>3, <2>4, <2>5, <2>6 DEF EndAt
<1>. QED
  BY <1>1, <1>5, <1>10, <1>11, <1>12, <1>13, <1>14, <1>15, <1>16, <1>17, <1>18, <1>19, <1>20, <1>21,
     <1>22 DEF StepAt

(* A consistent text with one more token is consistent. *)
LEMMA Extended ==
    ASSUME NEW p, NEW m, Consistent(p, m), NEW t \in Texts, NEW b \in Marks,
           NEW q, q = Append(p, t), StepAt(q, Len(p) + 1, m[Len(p) + 1], b)
    PROVE  Consistent(q, Append(m, b))
<1>. DEFINE u == Append(m, b)
            N == Len(p)
<1>1. p \in Seq(Texts) /\ m \in Seq(Marks) /\ N \in Nat /\ Len(m) = N + 1 /\ m[1] = Beginning
  BY LenProperties DEF Consistent
<1>2. q \in Seq(Texts) /\ Len(q) = N + 1 /\ \A k \in 1 .. N : q[k] = p[k]
  BY <1>1, AppendProperties
<1>3. u \in Seq(Marks) /\ Len(u) = N + 2 /\ u[N + 2] = b /\ \A k \in 1 .. N + 1 : u[k] = m[k]
  BY <1>1, AppendProperties
<1>4. u[1] = Beginning
  BY <1>1, <1>3
<1>5. ASSUME NEW n \in 1 .. N PROVE StepAt(q, n, m[n], m[n + 1])
  <2>0. m[n] \in Marks /\ StepAt(p, n, m[n], m[n + 1])
    BY Onward
  <2>1. m[n] \in Marks /\ StepAt(p, n, m[n], m[n + 1]) /\ n \in Nat \ {0} /\ n \in 1 .. N + 1
    BY <1>1, <2>0
  <2>2. \A k \in 1 .. n : q[k] = p[k]
    BY <1>1, <1>2
  <2>3. ASSUME NEW i \in 1 .. Depth(m, n) PROVE Open(m, n, i).head \in 1 .. n - 1
    BY <2>1, FrameIs
  <2>4. ASSUME NEW i \in 1 .. Len(m[n].blocks)
        PROVE  q[m[n].blocks[i].head] = p[m[n].blocks[i].head]
    <3>1. m[n].blocks[i].head \in 1 .. n - 1
      BY <2>3 DEF Depth, Open
    <3>. QED
      BY <1>1, <1>2, <3>1
  <2>. QED
    BY <2>1, <2>2, <2>4, SameStep
<1>6. ASSUME NEW n \in 1 .. N + 1 PROVE StepAt(q, n, u[n], u[n + 1])
  <2>1. CASE n = N + 1
    <3>1. StepAt(q, n, m[n], b) /\ u[n] = m[n] /\ u[n + 1] = b
      BY <1>1, <1>3, <2>1
    <3>. QED
      BY <3>1
  <2>2. CASE n \in 1 .. N
    <3>1. u[n] = m[n] /\ u[n + 1] = m[n + 1]
      BY <1>1, <1>3, <2>2
    <3>. QED
      BY <1>5, <2>2, <3>1
  <2>. QED
    BY <1>1, <2>1, <2>2
<1>. HIDE DEF u
<1>. QED
  BY <1>1, <1>2, <1>3, <1>4, <1>6 DEF Consistent, u

-----------------------------------------------------------------------------
(* The class is written *)

(* The statements that are open have their heads in the text. *)
LEMMA NowHeads ==
    ASSUME IInv, accepted, blocks # <<>>
    PROVE  /\ Top \in Frames /\ Top = blocks[Len(blocks)] /\ Len(blocks) \in Nat \ {0}
           /\ \A i \in 1 .. Len(blocks) : blocks[i].head \in 1 .. Len(prog)
<1>1. /\ prog \in Seq(Texts) /\ marks \in Seq(Marks) /\ Now \in Marks /\ Consistent(prog, Marked)
      /\ Len(prog) \in Nat
  BY LenProperties DEF IInv
<1>2. Len(Marked) = Len(prog) + 1 /\ Len(marks) \in Nat
  BY <1>1, LenProperties DEF Consistent
<1>3. Marked[Len(prog) + 1] = Now
  BY <1>1, <1>2, AppendProperties DEF Marked
<1>4. blocks \in Seq(Frames) /\ Now.blocks = blocks
  BY <1>1 DEF Marks, Now
<1>5. Depth(Marked, Len(prog) + 1) = Len(blocks)
      /\ \A i : Open(Marked, Len(prog) + 1, i) = blocks[i]
  BY <1>3, <1>4 DEF Depth, Open
<1>6. Len(prog) + 1 \in 1 .. Len(prog) + 1
  BY <1>1
<1>7. ASSUME NEW i \in 1 .. Len(blocks) PROVE blocks[i].head \in 1 .. Len(prog)
  <2>1. i \in 1 .. Depth(Marked, Len(prog) + 1)
    BY <1>5
  <2>2. Open(Marked, Len(prog) + 1, i).head \in 1 .. Len(prog) + 1 - 1
    BY <1>1, <1>6, <2>1, FrameIs
  <2>. QED
    BY <1>1, <1>5, <2>2
<1>. QED
  BY <1>4, <1>7, FrontIs DEF Top

(* The token t is written, and the analysis goes on to what it knows then. *)
Goes(t) ==
    /\ IInv /\ accepted /\ t \in Texts
    /\ prog' = Append(prog, t) /\ marks' = Append(marks, Now)
    /\ UNCHANGED <<alphabet, run>> /\ accepted' \in BOOLEAN

Right(t) == Now' \in Marks /\ (accepted' => StepAt(prog', Len(prog) + 1, Now, Now'))

(* A token that is written by a step of the analysis leaves the text       *)
(* consistent.                                                             *)
LEMMA Gone ==
    ASSUME NEW t, Goes(t), Right(t)
    PROVE  IInv'
<1>1. /\ prog \in Seq(Texts) /\ marks \in Seq(Marks) /\ Now \in Marks /\ Consistent(prog, Marked)
      /\ alphabet \in Alphabets /\ pc \in Nat
  BY DEF IInv, Goes
<1>2. prog' \in Seq(Texts) /\ marks' \in Seq(Marks) /\ Now' \in Marks
  BY <1>1, AppendProperties DEF Goes, Right
<1>3. alphabet' \in Alphabets /\ pc' \in Nat /\ accepted' \in BOOLEAN
  BY <1>1 DEF Goes, run
<1>4. accepted' => Consistent(prog', Marked')
  <2>1. Marked' = Append(Marked, Now') /\ Marked = Append(marks, Now)
    BY DEF Marked, Goes
  <2>2. Len(prog) \in Nat /\ Len(marks) \in Nat /\ Len(Marked) = Len(prog) + 1
    BY <1>1, LenProperties DEF Consistent
  <2>3. Marked[Len(prog) + 1] = Now
    BY <1>1, <2>1, <2>2, AppendProperties
  <2>4. prog' = Append(prog, t) /\ t \in Texts
    BY DEF Goes
  <2>5. ASSUME accepted' PROVE StepAt(prog', Len(prog) + 1, Marked[Len(prog) + 1], Now')
    BY <2>3, <2>5 DEF Right
  <2>. QED
    BY <1>1, <1>2, <2>1, <2>4, <2>5, Extended
<1>. QED
  BY <1>2, <1>3, <1>4 DEF IInv

(* What an action asks of the text so far is what the step asks. *)
LEMMA GoesFrom ==
    ASSUME NEW t, Goes(t), NEW N, N = Len(prog) + 1
    PROVE  /\ N \in Nat \ {0} /\ DOMAIN prog = 1 .. N - 1
           /\ prog'[N] = t /\ \A k \in 1 .. N - 1 : prog'[k] = prog[k]
           /\ Now \in Marks /\ Now = [state |-> state, type |-> flow_narrowed_types, exit |-> exit, blocks |-> blocks]
           /\ state \in States /\ flow_narrowed_types \in SUBSET Types /\ exit \in ExitStates
           /\ blocks \in Seq(Frames)
           /\ blocks # <<>> =>
                /\ Top \in Frames /\ HeadOf(prog', Top) = prog[Top.head] /\ Last(Now.blocks) = Top
                /\ prog'[blocks[1].head] = prog[blocks[1].head]
           /\ TrackedAt(prog', Now) = Tracked /\ (InInitAt(prog', Now) <=> InInit)
           /\ \A s : Reads(prog', Now, t, s) <=> ReadsWell(t, s)
           /\ \A x : Declared(prog', N, "member", x) <=> x \in DeclaredMembers
           /\ \A k \in MembersBefore(prog', N) : prog'[k] = prog[k] /\ prog[k].on \in DeclaredMembers
<1>1. /\ prog \in Seq(Texts) /\ Now \in Marks /\ Len(prog) \in Nat
      /\ prog' = Append(prog, t) /\ t \in Texts
  BY LenProperties DEF IInv, Goes
<1>2. /\ N \in Nat \ {0} /\ DOMAIN prog = 1 .. N - 1
      /\ prog'[N] = t /\ \A k \in 1 .. N - 1 : prog'[k] = prog[k]
  BY <1>1, AppendProperties, LenProperties
<1>3. /\ Now = [state |-> state, type |-> flow_narrowed_types, exit |-> exit, blocks |-> blocks]
      /\ Now.blocks = blocks
  BY DEF Now
<1>4. /\ state \in States /\ flow_narrowed_types \in SUBSET Types /\ exit \in ExitStates
      /\ blocks \in Seq(Frames)
  BY <1>1, <1>3 DEF Marks
<1>5. ASSUME blocks # <<>>
      PROVE  /\ Top \in Frames /\ HeadOf(prog', Top) = prog[Top.head] /\ Last(Now.blocks) = Top
             /\ prog'[blocks[1].head] = prog[blocks[1].head]
  <2>1. /\ Top \in Frames /\ Top = blocks[Len(blocks)] /\ Len(blocks) \in Nat \ {0}
        /\ \A i \in 1 .. Len(blocks) : blocks[i].head \in 1 .. Len(prog)
    BY <1>5, NowHeads DEF Goes
  <2>2. Top.head \in 1 .. N - 1 /\ blocks[1].head \in 1 .. N - 1
    BY <1>1, <2>1
  <2>3. Last(Now.blocks) = Top
    BY <1>3 DEF Top
  <2>. QED
    BY <1>2, <2>1, <2>2, <2>3 DEF HeadOf
<1>6. TrackedAt(prog', Now) = Tracked /\ (InInitAt(prog', Now) <=> InInit)
  BY <1>3, <1>5 DEF TrackedAt, Tracked, InInitAt, InInit
<1>7. \A s : Reads(prog', Now, t, s) <=> ReadsWell(t, s)
  BY <1>6 DEF Reads, ReadsWell
<1>8. \A x : Declared(prog', N, "member", x) <=> x \in DeclaredMembers
  BY <1>2 DEF Declared, DeclaredMembers
<1>9. \A k \in MembersBefore(prog', N) : prog'[k] = prog[k] /\ prog[k].on \in DeclaredMembers
  BY <1>2 DEF MembersBefore, DeclaredMembers
<1>. QED
  BY <1>1, <1>2, <1>3, <1>4, <1>5, <1>6, <1>7, <1>8, <1>9

(* A plain statement is written, *)
LEMMA PlainGoes ==
    ASSUME NEW t, Goes(t), NEW s \in States, NEW type \in SUBSET Types, NEW how \in ExitStates,
           Plain(s, type, how)
    PROVE  Now' \in Marks /\ PlainAt(prog', Now, Now', s, type, how)
<1>0. /\ state \in States /\ exit \in ExitStates /\ blocks \in Seq(Frames)
      /\ Now = [state |-> state, type |-> flow_narrowed_types, exit |-> exit, blocks |-> blocks]
      /\ blocks # <<>> => HeadOf(prog', Top) = prog[Top.head] /\ Last(Now.blocks) = Top
  BY GoesFrom
<1>1. /\ state' = IF state.reachable THEN s ELSE state
      /\ flow_narrowed_types' = type /\ exit' = InSuite(exit, how) /\ blocks' = blocks
      /\ blocks # <<>> /\ (prog[Top.head].op = "match" => Top.arms > 0)
  BY DEF Plain, Op
<1>2. Now' = [state |-> state', type |-> flow_narrowed_types', exit |-> exit', blocks |-> blocks']
  BY DEF Now
<1>3. InSuite(exit, how) \in ExitStates
  BY <1>0 DEF InSuite, ExitStates
<1>4. Now' \in Marks
  BY <1>0, <1>1, <1>2, <1>3 DEF Marks
<1>5. InBody(prog', Now)
  BY <1>0, <1>1 DEF InBody
<1>. QED
  BY <1>0, <1>1, <1>2, <1>4, <1>5 DEF PlainAt

(* ... and a head. *)
LEMMA OpensGoes ==
    ASSUME NEW t, Goes(t), NEW s \in States, NEW type \in SUBSET Types, Opens(t, s, type)
    PROVE  /\ Now' \in Marks /\ OpensAt(prog', Len(prog) + 1, Now, Now', s, type)
           /\ t.op # "func" => InBody(prog', Now)
<1>. DEFINE N == Len(prog) + 1
<1>0. /\ state \in States /\ exit \in ExitStates /\ blocks \in Seq(Frames)
      /\ flow_narrowed_types \in SUBSET Types
      /\ Now = [state |-> state, type |-> flow_narrowed_types, exit |-> exit, blocks |-> blocks]
      /\ blocks # <<>> => HeadOf(prog', Top) = prog[Top.head] /\ Last(Now.blocks) = Top
      /\ prog'[N] = t /\ N \in Nat
  BY GoesFrom
<1>. DEFINE f == [head |-> N, arm |-> N, before |-> state, type |-> flow_narrowed_types, suite |-> exit,
                  arms |-> IF t.op = "match" THEN 0 ELSE 1, merged |-> state, exits |-> FallsThrough,
                  catchall |-> FALSE, skipped |-> FALSE]
<1>1. /\ state' = s /\ flow_narrowed_types' = type /\ exit' = FallsThrough
      /\ blocks' = Append(blocks, f)
      /\ t.op # "func" => blocks # <<>> /\ (prog[Top.head].op = "match" => Top.arms > 0)
  BY DEF Opens, Op
<1>2. Now' = [state |-> state', type |-> flow_narrowed_types', exit |-> exit', blocks |-> blocks']
  BY DEF Now
<1>3. f \in Frames /\ FallsThrough \in ExitStates
  BY <1>0 DEF Frames, ExitStates, FallsThrough
<1>4. f = Opened(prog'[N], N, Now)
  BY <1>0 DEF Opened
<1>. HIDE DEF f
<1>5. Append(blocks, f) \in Seq(Frames)
  BY <1>0, <1>3, AppendProperties
<1>6. Now' \in Marks
  BY <1>1, <1>2, <1>3, <1>5 DEF Marks
<1>7. t.op # "func" => InBody(prog', Now)
  BY <1>0, <1>1 DEF InBody
<1>8. OpensAt(prog', N, Now, Now', s, type)
  BY <1>0, <1>1, <1>2, <1>4 DEF OpensAt
<1>. QED
  BY <1>6, <1>7, <1>8

(* What a test leaves of a type is a type. *)
LEMMA NarrowedType ==
    ASSUME NEW type \in SUBSET Types, NEW cond, NEW holds \in BOOLEAN
    PROVE  Narrowed(type, cond, holds) \in SUBSET Types
<1>1. NotNull(type) \in SUBSET Types /\ OtherThan(type) \in SUBSET Types /\ {"a"} \in SUBSET Types
  BY DEF NotNull, OtherThan, Types
<1>. QED
  BY <1>1 DEF Narrowed

(* The ways to leave that statements have. *)
LEMMA ExitTypes ==
    /\ FallsThrough \in ExitStates
    /\ [FallsThrough EXCEPT !.always_terminates = TRUE] \in ExitStates
    /\ [FallsThrough EXCEPT !.always_terminates = TRUE, !.has_return = TRUE] \in ExitStates
    /\ \A b \in BOOLEAN : [FallsThrough EXCEPT !.has_break = b] \in ExitStates
BY DEF FallsThrough, ExitStates

(* The states that statements leave. *)
LEMMA StateTypes ==
    ASSUME NEW s \in States
    PROVE  /\ Unreachable(s) \in States
           /\ \A x \in Finals : Assigned(s, x) \in States
           /\ Unassigned \in States
BY DEF States, Unreachable, Assigned, Unassigned

(* A token of the alphabet is written. *)
LEMMA WritesIs ==
    ASSUME IInv, NEW t \in alphabet.tokens, NEW op, Writes(t, op), NEW ok \in BOOLEAN, Judged(ok)
    PROVE  /\ Goes(t) /\ t.op = op /\ TokenOK(t) /\ accepted' = ok
           /\ t.of \in Members => Declared(prog', Len(prog) + 1, "member", t.of)
<1>1. alphabet \in Alphabets
  BY DEF IInv
<1>2. TokenOK(t) /\ t \in Texts
  BY <1>1, AlphabetsAssumption DEF Texts
<1>3. Goes(t) /\ t.op = op /\ accepted' = ok
  BY <1>2 DEF Goes, Writes, Writing, Judged
<1>4. t.of \in Members => t.of \in DeclaredMembers
  BY DEF Writes, Visible, Members, Locals
<1>5. \A x : Declared(prog', Len(prog) + 1, "member", x) <=> x \in DeclaredMembers
  BY <1>3, GoesFrom
<1>. QED
  BY <1>2, <1>3, <1>4, <1>5

(* The text stays consistent when a member is written, *)
LEMMA MemberWritten ==
    ASSUME IInv, NEW t \in alphabet.tokens, Member(t)
    PROVE  IInv'
<1>. DEFINE N == Len(prog) + 1
<1>1. ReadsWell(t, state) \in BOOLEAN
  BY DEF ReadsWell
<1>2. /\ Goes(t) /\ t.op = "member" /\ TokenOK(t) /\ accepted' = ReadsWell(t, state)
      /\ t.of \in Members => Declared(prog', N, "member", t.of)
  BY <1>1, WritesIs DEF Member
<1>3. /\ N \in Nat \ {0} /\ DOMAIN prog = 1 .. N - 1 /\ prog'[N] = t
      /\ \A k \in 1 .. N - 1 : prog'[k] = prog[k]
      /\ Now = [state |-> state, type |-> flow_narrowed_types, exit |-> exit, blocks |-> blocks]
      /\ Now \in Marks /\ state \in States
      /\ \A s : Reads(prog', Now, t, s) <=> ReadsWell(t, s)
  BY <1>2, GoesFrom
<1>4. Now' = [Now EXCEPT !.state = IF t.cond = None THEN Now.state ELSE Assigned(Now.state, t.on)]
  BY <1>3 DEF Member, Now
<1>5. t.on \in Finals
  BY <1>2 DEF TokenOK, Finals
<1>6. Now' \in Marks
  BY <1>3, <1>4, <1>5, StateTypes DEF Marks
<1>7. \A k \in 1 .. N - 1 : prog'[k].op = "member" /\ prog'[k].on # t.on
  BY <1>3 DEF Member, DeclaredMembers
<1>8. blocks = <<>> /\ Now.blocks = blocks /\ Now.state = state
  BY <1>3 DEF Member
<1>9. accepted' => MemberAt(prog', N, Now, Now')
  BY <1>2, <1>3, <1>4, <1>7, <1>8 DEF MemberAt
<1>10. Right(t)
  BY <1>2, <1>3, <1>6, <1>9 DEF Right, StepAt
<1>. QED
  BY <1>2, <1>10, Gone

(* ... a function, *)
LEMMA FuncWritten ==
    ASSUME IInv, NEW t \in alphabet.tokens, Func(t)
    PROVE  IInv'
<1>. DEFINE N == Len(prog) + 1
            s == IF t.of = "_init" THEN state ELSE Unassigned
<1>2. /\ Goes(t) /\ t.op = "func" /\ TokenOK(t)
      /\ t.of \in Members => Declared(prog', N, "member", t.of)
  <2>1. Writes(t, "func") /\ \E ok \in BOOLEAN : Judged(ok)
    BY DEF Func, Judged
  <2>. QED
    BY <2>1, WritesIs
<1>3. /\ N \in Nat \ {0} /\ DOMAIN prog = 1 .. N - 1 /\ prog'[N] = t
      /\ \A k \in 1 .. N - 1 : prog'[k] = prog[k]
      /\ Now = [state |-> state, type |-> flow_narrowed_types, exit |-> exit, blocks |-> blocks]
      /\ state \in States
  BY <1>2, GoesFrom
<1>4. s \in States /\ Types \in SUBSET Types
  BY <1>3, StateTypes
<1>5. blocks = <<>> /\ Now.blocks = blocks /\ Now.state = state /\ Opens(t, s, Types)
  BY <1>3 DEF Func
<1>6. Now' \in Marks /\ OpensAt(prog', N, Now, Now', s, Types)
  <2>. HIDE DEF s
  <2>. QED
    BY <1>2, <1>4, <1>5, OpensGoes
<1>7. \A k \in 1 .. N - 1 : prog'[k].op = "func" => prog'[k].of = "_init" /\ t.of # "_init"
  BY <1>3 DEF Func
<1>8. FuncAt(prog', N, Now, Now')
  BY <1>2, <1>3, <1>5, <1>6, <1>7 DEF FuncAt
<1>10. Right(t)
  BY <1>2, <1>3, <1>6, <1>8 DEF Right, StepAt
<1>. QED
  BY <1>2, <1>10, Gone

(* ... an assignment, *)
LEMMA AssignmentWritten ==
    ASSUME IInv, NEW t \in alphabet.tokens, Assignment(t)
    PROVE  IInv'
<1>. DEFINE N == Len(prog) + 1
            s == IF t.on \in Tracked THEN Assigned(state, t.on) ELSE state
            type == IF t.on = "s" THEN Types ELSE flow_narrowed_types
<1>1. (AssignmentIsLegal(t) /\ ReadsWell(t, state)) \in BOOLEAN
  OBVIOUS
<1>2. /\ Goes(t) /\ t.op = "assign" /\ TokenOK(t)
      /\ accepted' = (AssignmentIsLegal(t) /\ ReadsWell(t, state))
      /\ t.of \in Members => Declared(prog', N, "member", t.of)
  BY <1>1, WritesIs DEF Assignment
<1>3. /\ N \in Nat \ {0} /\ DOMAIN prog = 1 .. N - 1 /\ prog'[N] = t
      /\ \A k \in 1 .. N - 1 : prog'[k] = prog[k]
      /\ Now = [state |-> state, type |-> flow_narrowed_types, exit |-> exit, blocks |-> blocks]
      /\ state \in States /\ flow_narrowed_types \in SUBSET Types
      /\ TrackedAt(prog', Now) = Tracked /\ (InInitAt(prog', Now) <=> InInit)
      /\ \A r : Reads(prog', Now, t, r) <=> ReadsWell(t, r)
  BY <1>2, GoesFrom
<1>4. s \in States /\ type \in SUBSET Types /\ FallsThrough \in ExitStates
  <2>1. Tracked \in SUBSET Finals
    BY DEF Tracked, Finals
  <2>. QED
    BY <1>3, <2>1, StateTypes, ExitTypes
<1>5. Plain(s, type, FallsThrough)
  BY DEF Assignment
<1>6. Now' \in Marks /\ PlainAt(prog', Now, Now', s, type, FallsThrough)
  <2>. HIDE DEF s, type
  <2>. QED
    BY <1>2, <1>4, <1>5, PlainGoes
<1>7. Now.state = state /\ Now.type = flow_narrowed_types
  BY <1>3
<1>8. t.on \in Locals => Declared(prog', N, "var", t.on)
  <2>1. SUFFICES ASSUME t.on \in Locals PROVE Declared(prog', N, "var", t.on)
    OBVIOUS
  <2>2. t.on \notin Members
    BY <2>1 DEF Locals, Members
  <2>3. \E n \in DOMAIN prog : prog[n].op = "var" /\ prog[n].on = t.on
    BY <2>1, <2>2 DEF Assignment, Visible
  <2>. QED
    BY <1>3, <2>3 DEF Declared
<1>9. accepted' => AssignmentAt(prog', N, Now, Now')
  BY <1>2, <1>3, <1>6, <1>7, <1>8 DEF AssignmentAt, AssignmentIsLegal, IsWritable
<1>10. Right(t)
  BY <1>2, <1>3, <1>6, <1>9 DEF Right, StepAt
<1>. QED
  BY <1>2, <1>10, Gone

(* ... a declaration, *)
LEMMA VarWritten ==
    ASSUME IInv, NEW t \in alphabet.tokens, Var(t)
    PROVE  IInv'
<1>. DEFINE N == Len(prog) + 1
            s == IF t.cond = None THEN state ELSE Assigned(state, t.on)
<1>1. ReadsWell(t, state) \in BOOLEAN
  BY DEF ReadsWell
<1>2. /\ Goes(t) /\ t.op = "var" /\ TokenOK(t) /\ accepted' = ReadsWell(t, state)
      /\ t.of \in Members => Declared(prog', N, "member", t.of)
  BY <1>1, WritesIs DEF Var
<1>3. /\ N \in Nat \ {0} /\ DOMAIN prog = 1 .. N - 1 /\ prog'[N] = t
      /\ \A k \in 1 .. N - 1 : prog'[k] = prog[k]
      /\ Now = [state |-> state, type |-> flow_narrowed_types, exit |-> exit, blocks |-> blocks]
      /\ state \in States /\ flow_narrowed_types \in SUBSET Types
      /\ \A r : Reads(prog', Now, t, r) <=> ReadsWell(t, r)
  BY <1>2, GoesFrom
<1>4. s \in States /\ FallsThrough \in ExitStates
  BY <1>2, <1>3, StateTypes, ExitTypes DEF TokenOK, Finals
<1>5. Plain(s, flow_narrowed_types, FallsThrough)
  BY DEF Var
<1>6. Now' \in Marks /\ PlainAt(prog', Now, Now', s, flow_narrowed_types, FallsThrough)
  <2>. HIDE DEF s
  <2>. QED
    BY <1>2, <1>3, <1>4, <1>5, PlainGoes
<1>7. Now.state = state /\ Now.type = flow_narrowed_types
  BY <1>3
<1>8. \A k \in 1 .. N - 1 : ~ (prog'[k].op = "var" /\ prog'[k].on = t.on)
  BY <1>3 DEF Var
<1>9. accepted' => VarAt(prog', N, Now, Now')
  BY <1>2, <1>3, <1>6, <1>7, <1>8 DEF VarAt
<1>10. Right(t)
  BY <1>2, <1>3, <1>6, <1>9 DEF Right, StepAt
<1>. QED
  BY <1>2, <1>10, Gone

(* ... an expression, *)
LEMMA UseWritten ==
    ASSUME IInv, NEW t \in alphabet.tokens, Use(t)
    PROVE  IInv'
<1>. DEFINE N == Len(prog) + 1
<1>1. ReadsWell(t, state) \in BOOLEAN
  BY DEF ReadsWell
<1>2. /\ Goes(t) /\ t.op = "use" /\ accepted' = ReadsWell(t, state)
      /\ t.of \in Members => Declared(prog', N, "member", t.of)
  BY <1>1, WritesIs DEF Use
<1>3. /\ N \in Nat \ {0} /\ prog'[N] = t
      /\ Now = [state |-> state, type |-> flow_narrowed_types, exit |-> exit, blocks |-> blocks]
      /\ state \in States /\ flow_narrowed_types \in SUBSET Types
      /\ \A r : Reads(prog', Now, t, r) <=> ReadsWell(t, r)
  BY <1>2, GoesFrom
<1>5. Plain(state, flow_narrowed_types, FallsThrough)
  BY DEF Use
<1>6. Now' \in Marks /\ PlainAt(prog', Now, Now', state, flow_narrowed_types, FallsThrough)
  BY <1>2, <1>3, <1>5, ExitTypes, PlainGoes
<1>7. Now.state = state /\ Now.type = flow_narrowed_types
  BY <1>3
<1>9. accepted' => UseAt(prog', N, Now, Now')
  BY <1>2, <1>3, <1>6, <1>7 DEF UseAt
<1>10. Right(t)
  BY <1>2, <1>3, <1>6, <1>9 DEF Right, StepAt
<1>. QED
  BY <1>2, <1>10, Gone

(* ... an assertion, *)
LEMMA AssertWritten ==
    ASSUME IInv, NEW t \in alphabet.tokens, AssertStatement(t)
    PROVE  IInv'
<1>. DEFINE N == Len(prog) + 1
            type == Narrowed(flow_narrowed_types, t.cond, TRUE)
<1>1. ReadsWell(t, state) \in BOOLEAN
  BY DEF ReadsWell
<1>2. /\ Goes(t) /\ t.op = "assert" /\ accepted' = ReadsWell(t, state)
      /\ t.of \in Members => Declared(prog', N, "member", t.of)
  BY <1>1, WritesIs DEF AssertStatement
<1>3. /\ N \in Nat \ {0} /\ prog'[N] = t
      /\ Now = [state |-> state, type |-> flow_narrowed_types, exit |-> exit, blocks |-> blocks]
      /\ state \in States /\ flow_narrowed_types \in SUBSET Types
      /\ \A r : Reads(prog', Now, t, r) <=> ReadsWell(t, r)
  BY <1>2, GoesFrom
<1>4. type \in SUBSET Types
  BY <1>3, NarrowedType
<1>5. Plain(state, type, FallsThrough)
  BY DEF AssertStatement
<1>7. Now.state = state /\ Now.type = flow_narrowed_types
  BY <1>3
<1>8. PlainAt(prog', Now, Now', state, type, FallsThrough) =>
        PlainAt(prog', Now, Now', Now.state, Narrowed(Now.type, prog'[N].cond, TRUE), FallsThrough)
  BY <1>3, <1>7
<1>. HIDE DEF type
<1>6. Now' \in Marks /\ PlainAt(prog', Now, Now', state, type, FallsThrough)
  BY <1>2, <1>3, <1>4, <1>5, ExitTypes, PlainGoes
<1>9. accepted' => AssertAt(prog', N, Now, Now')
  BY <1>2, <1>3, <1>6, <1>7, <1>8, Zenon DEF AssertAt
<1>10. Right(t)
  BY <1>2, <1>3, <1>6, <1>9 DEF Right, StepAt
<1>. QED
  BY <1>2, <1>10, Gone

(* ... a jump or a call that does not return, *)
LEMMA LeaverWritten ==
    ASSUME IInv, NEW t \in alphabet.tokens, NoReturn(t) \/ Jump(t)
    PROVE  IInv'
<1>. DEFINE N == Len(prog) + 1
            ends == [FallsThrough EXCEPT !.always_terminates = TRUE]
            breaks == [FallsThrough EXCEPT !.has_break = t.op = "break"]
            how == IF t.op = "noreturn" THEN ends ELSE breaks
<1>2. /\ Goes(t)
      /\ t.of \in Members => Declared(prog', N, "member", t.of)
  <2>1. \E op : Writes(t, op) /\ \E ok \in BOOLEAN : Judged(ok)
    BY DEF NoReturn, Jump, Judged
  <2>. QED
    BY <2>1, WritesIs
<1>3. /\ N \in Nat \ {0} /\ prog'[N] = t
      /\ Now = [state |-> state, type |-> flow_narrowed_types, exit |-> exit, blocks |-> blocks]
      /\ state \in States /\ flow_narrowed_types \in SUBSET Types
  BY <1>2, GoesFrom
<1>4. Unreachable(state) \in States /\ how \in ExitStates
  BY <1>3, StateTypes, ExitTypes
<1>5. Plain(Unreachable(state), flow_narrowed_types, how)
  BY DEF NoReturn, Jump, Writes
<1>6. Now' \in Marks /\ PlainAt(prog', Now, Now', Unreachable(state), flow_narrowed_types, how)
  <2>. HIDE DEF how
  <2>. QED
    BY <1>2, <1>3, <1>4, <1>5, PlainGoes
<1>7. Now.state = state /\ Now.type = flow_narrowed_types
  BY <1>3
<1>8. CASE NoReturn(t)
  <2>1. t.op = "noreturn"
    BY <1>8 DEF NoReturn, Writes
  <2>2. NoReturnAt(prog', N, Now, Now')
    BY <1>3, <1>6, <1>7, <2>1 DEF NoReturnAt
  <2>3. Right(t)
    BY <1>2, <1>3, <1>6, <2>2 DEF Right, StepAt
  <2>. QED
    BY <1>2, <2>3, Gone
<1>9. CASE Jump(t)
  <2>1. t.op \in {"break", "continue"}
    BY <1>9 DEF Jump
  <2>2. /\ blocks \in Seq(Frames) /\ Len(blocks) \in Nat /\ Now.blocks = blocks
        /\ \A k \in 1 .. N - 1 : prog'[k] = prog[k]
    BY <1>2, <1>3, GoesFrom, LenProperties
  <2>3. PICK f \in ToSet(blocks) : Op(f) \in Loops
    BY <1>9 DEF Jump, Enclosing
  <2>4. PICK i \in 1 .. Len(blocks) : f = blocks[i]
    BY <2>2, <2>3, LenProperties DEF ToSet
  <2>5. blocks # <<>>
    BY <2>2, <2>4
  <2>6. f.head \in 1 .. N - 1
    BY <1>2, <2>4, <2>5, NowHeads DEF Goes
  <2>7. HeadOf(prog', Now.blocks[i]).op \in Loops /\ i \in 1 .. Len(Now.blocks)
    BY <2>2, <2>3, <2>4, <2>6 DEF HeadOf, Op
  <2>8. JumpAt(prog', N, Now, Now')
    BY <1>3, <1>6, <1>7, <2>1, <2>7 DEF JumpAt
  <2>9. Right(t)
    BY <1>2, <1>3, <1>6, <2>8 DEF Right, StepAt
  <2>. QED
    BY <1>2, <2>9, Gone
<1>. QED
  BY <1>8, <1>9

(* ... a return, *)
LEMMA ReturnWritten ==
    ASSUME IInv, NEW t \in alphabet.tokens, Return(t)
    PROVE  IInv'
<1>. DEFINE N == Len(prog) + 1
            how == [FallsThrough EXCEPT !.always_terminates = TRUE, !.has_return = TRUE]
            whole == InInit /\ state.reachable => DeclaredMembers \subseteq state.assigned
<1>1. (ReadsWell(t, state) /\ whole) \in BOOLEAN
  OBVIOUS
<1>2. /\ Goes(t) /\ t.op = "return" /\ accepted' = (ReadsWell(t, state) /\ whole)
      /\ t.of \in Members => Declared(prog', N, "member", t.of)
  BY <1>1, WritesIs DEF Return
<1>3. /\ N \in Nat \ {0} /\ prog'[N] = t
      /\ Now = [state |-> state, type |-> flow_narrowed_types, exit |-> exit, blocks |-> blocks]
      /\ state \in States /\ flow_narrowed_types \in SUBSET Types
      /\ (InInitAt(prog', Now) <=> InInit)
      /\ \A k \in MembersBefore(prog', N) : prog'[k] = prog[k] /\ prog[k].on \in DeclaredMembers
      /\ \A r : Reads(prog', Now, t, r) <=> ReadsWell(t, r)
  BY <1>2, GoesFrom
<1>5. Plain(Unreachable(state), flow_narrowed_types, how)
  BY DEF Return
<1>6. Now' \in Marks /\ PlainAt(prog', Now, Now', Unreachable(state), flow_narrowed_types, how)
  BY <1>2, <1>3, <1>5, StateTypes, ExitTypes, PlainGoes
<1>7. Now.state = state /\ Now.type = flow_narrowed_types
  BY <1>3
<1>8. accepted' => (InInitAt(prog', Now) /\ Now.state.reachable =>
           \A k \in MembersBefore(prog', N) : prog'[k].on \in Now.state.assigned)
  BY <1>2, <1>3, <1>7
<1>9. accepted' => ReturnAt(prog', N, Now, Now')
  BY <1>2, <1>3, <1>6, <1>7, <1>8 DEF ReturnAt
<1>10. Right(t)
  BY <1>2, <1>3, <1>6, <1>9 DEF Right, StepAt
<1>. QED
  BY <1>2, <1>10, Gone

(* ... a head, *)
LEMMA HeadWritten ==
    ASSUME IInv, NEW t \in alphabet.tokens, If(t) \/ While(t) \/ For(t) \/ Match(t)
    PROVE  IInv'
<1>. DEFINE N == Len(prog) + 1
            narrowed == Narrowed(flow_narrowed_types, t.cond, TRUE)
            type == IF t.op \in {"if", "while"} THEN narrowed ELSE flow_narrowed_types
<1>1. ReadsWell(t, state) \in BOOLEAN
  BY DEF ReadsWell
<1>2. /\ Goes(t) /\ t.op \in {"if", "while", "for", "match"} /\ accepted' = ReadsWell(t, state)
      /\ t.of \in Members => Declared(prog', N, "member", t.of)
  <2>1. CASE If(t)
    BY <1>1, <2>1, WritesIs DEF If
  <2>2. CASE While(t)
    BY <1>1, <2>2, WritesIs DEF While
  <2>3. CASE For(t)
    BY <1>1, <2>3, WritesIs DEF For
  <2>4. CASE Match(t)
    BY <1>1, <2>4, WritesIs DEF Match
  <2>. QED
    BY <2>1, <2>2, <2>3, <2>4
<1>3. /\ N \in Nat \ {0} /\ prog'[N] = t
      /\ Now = [state |-> state, type |-> flow_narrowed_types, exit |-> exit, blocks |-> blocks]
      /\ state \in States /\ flow_narrowed_types \in SUBSET Types
      /\ \A r : Reads(prog', Now, t, r) <=> ReadsWell(t, r)
  BY <1>2, GoesFrom
<1>4. type \in SUBSET Types
  <2>1. narrowed \in SUBSET Types
    BY <1>3, NarrowedType
  <2>. HIDE DEF narrowed
  <2>. QED
    BY <1>3, <2>1
<1>7. Now.state = state /\ Now.type = flow_narrowed_types
  BY <1>3
<1>8. narrowed = Narrowed(Now.type, prog'[N].cond, TRUE)
  BY <1>3, <1>7
<1>5. Opens(t, state, type)
  <2>1. If(t) => t.op = "if" /\ Opens(t, state, narrowed)
    BY DEF If, Writes
  <2>2. While(t) => t.op = "while" /\ Opens(t, state, narrowed)
    BY DEF While, Writes
  <2>3. For(t) => t.op = "for" /\ Opens(t, state, flow_narrowed_types)
    BY DEF For, Writes
  <2>4. Match(t) => t.op = "match" /\ Opens(t, state, flow_narrowed_types)
    BY DEF Match, Writes
  <2>. HIDE DEF narrowed
  <2>. QED
    BY <2>1, <2>2, <2>3, <2>4
<1>9. type = IF prog'[N].op \in {"if", "while"} THEN Narrowed(Now.type, prog'[N].cond, TRUE) ELSE Now.type
  <2>. HIDE DEF narrowed
  <2>1. type = IF prog'[N].op \in {"if", "while"} THEN narrowed ELSE Now.type
    BY <1>3, <1>7
  <2>. HIDE DEF type
  <2>. QED
    BY <1>8, <2>1, Zenon
<1>. HIDE DEF type
<1>6. /\ Now' \in Marks /\ OpensAt(prog', N, Now, Now', state, type)
      /\ InBody(prog', Now)
  BY <1>2, <1>3, <1>4, <1>5, OpensGoes
<1>10. OpensAt(prog', N, Now, Now', Now.state,
               IF prog'[N].op \in {"if", "while"} THEN Narrowed(Now.type, prog'[N].cond, TRUE) ELSE Now.type)
  BY <1>6, <1>7, <1>9, Zenon
<1>11. accepted' => Reads(prog', Now, prog'[N], Now.state) /\ prog'[N].op \in {"if", "while", "for", "match"}
  BY <1>2, <1>3, <1>7
<1>12. accepted' => HeadAt(prog', N, Now, Now')
  BY <1>6, <1>10, <1>11, Zenon DEF HeadAt
<1>13. Right(t)
  BY <1>2, <1>3, <1>6, <1>12 DEF Right, StepAt
<1>. QED
  BY <1>2, <1>13, Gone

(* ... an else, *)
LEMMA ElseWritten ==
    ASSUME IInv, NEW t \in alphabet.tokens, Else(t)
    PROVE  IInv'
<1>. DEFINE N == Len(prog) + 1
            f == Top
            narrowed == Narrowed(f.type, prog[f.head].cond, FALSE)
            g == [f EXCEPT !.arm = N, !.arms = 2, !.merged = state, !.exits = exit]
<1>2. /\ Goes(t) /\ t.op = "else"
      /\ t.of \in Members => Declared(prog', N, "member", t.of)
  <2>1. Writes(t, "else") /\ \E ok \in BOOLEAN : Judged(ok)
    BY DEF Else, Judged
  <2>. QED
    BY <2>1, WritesIs
<1>3. /\ blocks # <<>> /\ prog[f.head].op = "if" /\ f.arms = 1
      /\ blocks' = Front(blocks) \o <<g>>
      /\ state' = f.before /\ flow_narrowed_types' = narrowed /\ exit' = FallsThrough
  BY DEF Else, Op
<1>4. /\ N \in Nat \ {0} /\ prog'[N] = t
      /\ Now = [state |-> state, type |-> flow_narrowed_types, exit |-> exit, blocks |-> blocks]
      /\ state \in States /\ exit \in ExitStates /\ blocks \in Seq(Frames)
      /\ f \in Frames /\ HeadOf(prog', f) = prog[f.head] /\ Last(Now.blocks) = f
  BY <1>2, <1>3, GoesFrom
<1>5. Now' = [state |-> state', type |-> flow_narrowed_types', exit |-> exit', blocks |-> blocks']
  BY DEF Now
<1>6. narrowed \in SUBSET Types
  <2>1. f.type \in SUBSET Types
    BY <1>4 DEF Frames
  <2>. QED
    BY <2>1, NarrowedType
<1>7. narrowed = Narrowed(f.type, HeadOf(prog', f).cond, FALSE)
  BY <1>4, Zenon
<1>. HIDE DEF narrowed, f
<1>8. g \in Frames /\ f.before \in States
  BY <1>4 DEF Frames
<1>9. g = [f EXCEPT !.arm = N, !.arms = 2, !.merged = Now.state, !.exits = Now.exit]
      /\ Now.blocks = blocks
  BY <1>4
<1>. HIDE DEF g
<1>10. blocks' \in Seq(Frames)
  BY <1>3, <1>4, <1>8, ReplacedIs
<1>11. Now' \in Marks
  BY <1>3, <1>5, <1>6, <1>8, <1>10, ExitTypes DEF Marks
<1>12. Now' = [state |-> f.before, type |-> Narrowed(f.type, HeadOf(prog', f).cond, FALSE),
               exit |-> FallsThrough, blocks |-> Front(Now.blocks) \o
                <<[f EXCEPT !.arm = N, !.arms = 2, !.merged = Now.state, !.exits = Now.exit]>>]
  BY <1>3, <1>5, <1>7, <1>9, Zenon
<1>13. /\ prog'[N].op = "else" /\ Now.blocks # <<>> /\ HeadOf(prog', f).op = "if" /\ f.arms = 1
  BY <1>2, <1>3, <1>4, <1>9
<1>14. ElseAt(prog', N, Now, Now')
  BY <1>4, <1>12, <1>13, Zenon DEF ElseAt
<1>15. Right(t)
  BY <1>2, <1>4, <1>11, <1>14 DEF Right, StepAt
<1>. QED
  BY <1>2, <1>15, Gone

(* What a pattern leaves of a type is a type. *)
LEMMA InArmType ==
    ASSUME NEW type \in SUBSET Types, NEW pattern
    PROVE  NarrowedInArm(type, pattern) \in SUBSET Types
BY DEF NarrowedInArm, NotNull, Types

(* ... a pattern, *)
LEMMA BranchWritten ==
    ASSUME IInv, NEW t \in alphabet.tokens, Branch(t)
    PROVE  IInv'
<1>. DEFINE N == Len(prog) + 1
            l == Top
            f == WithArm(l, state, exit)
            s == IF f.catchall THEN Unreachable(f.before) ELSE f.before
            g == WithBranch(f, N, t.cond)
            type == IF prog[f.head].on = None THEN f.type ELSE NarrowedInArm(f.type, t.cond)
<1>1. ReadsWell(t, s) \in BOOLEAN
  BY DEF ReadsWell
<1>2. Judged(ReadsWell(t, s)) /\ Writes(t, "branch")
  BY DEF Branch
<1>. DEFINE ok == ReadsWell(t, s)
<1>3. /\ Goes(t) /\ t.op = "branch" /\ accepted' = ok
      /\ t.of \in Members => Declared(prog', N, "member", t.of)
  <2>1. ok \in BOOLEAN /\ Judged(ok)
    BY <1>1, <1>2
  <2>. HIDE DEF ok
  <2>. QED
    BY <1>2, <2>1, WritesIs
<1>4. /\ blocks # <<>> /\ prog[l.head].op = "match"
      /\ blocks' = Front(blocks) \o <<g>>
      /\ state' = s /\ flow_narrowed_types' = type /\ exit' = FallsThrough
  BY DEF Branch, Op, WithBranch
<1>5. /\ N \in Nat \ {0} /\ prog'[N] = t
      /\ Now = [state |-> state, type |-> flow_narrowed_types, exit |-> exit, blocks |-> blocks]
      /\ state \in States /\ exit \in ExitStates /\ blocks \in Seq(Frames)
      /\ l \in Frames /\ HeadOf(prog', l) = prog[l.head] /\ Last(Now.blocks) = l
      /\ \A r : Reads(prog', Now, t, r) <=> ReadsWell(t, r)
  BY <1>3, <1>4, GoesFrom
<1>6. Now' = [state |-> state', type |-> flow_narrowed_types', exit |-> exit', blocks |-> blocks']
  BY DEF Now
<1>7. Now.state = state /\ Now.exit = exit /\ Now.blocks = blocks
  BY <1>5
<1>8. f \in Frames /\ f.head = l.head
  <2>. HIDE DEF l
  <2>. QED
    BY <1>5, ArmType
<1>9. f = WithArm(Last(Now.blocks), Now.state, Now.exit)
  BY <1>5, <1>7
<1>10. HeadOf(prog', f) = prog[f.head]
  BY <1>5, <1>8 DEF HeadOf
<1>. HIDE DEF f, l
<1>11. s \in States /\ type \in SUBSET Types
  <2>1. f.before \in States /\ f.type \in SUBSET Types
    BY <1>8 DEF Frames
  <2>. QED
    BY <2>1, StateTypes, InArmType
<1>12. g \in Frames
  BY <1>5, <1>8, WithBranchIs
<1>13. blocks' \in Seq(Frames)
  <2>. HIDE DEF g
  <2>. QED
    BY <1>4, <1>5, <1>12, ReplacedIs
<1>14. Now' \in Marks
  <2>. HIDE DEF s, type
  <2>. QED
    BY <1>4, <1>6, <1>11, <1>13, ExitTypes DEF Marks
<1>15. Now' = [state |-> s, exit |-> FallsThrough,
               type |-> IF HeadOf(prog', f).on = None THEN f.type ELSE NarrowedInArm(f.type, prog'[N].cond),
               blocks |-> Front(Now.blocks) \o <<WithBranch(f, N, prog'[N].cond)>>]
  <2>1. prog'[N] = t /\ Now.blocks = blocks
    BY <1>5, <1>7
  <2>. HIDE DEF s
  <2>. QED
    BY <1>4, <1>6, <1>10, <2>1, Zenon
<1>16. accepted' => Reads(prog', Now, prog'[N], s)
  <2>. HIDE DEF s
  <2>. QED
    BY <1>3, <1>5
<1>17. prog'[N].op = "branch" /\ Now.blocks # <<>> /\ HeadOf(prog', Last(Now.blocks)).op = "match"
  BY <1>3, <1>4, <1>5, <1>7
<1>18. accepted' => BranchAt(prog', N, Now, Now')
  <2>1. SUFFICES ASSUME accepted' PROVE BranchAt(prog', N, Now, Now')
    OBVIOUS
  <2>. QED
    BY <1>9, <1>15, <1>16, <1>17, <2>1, Zenon DEF BranchAt
<1>19. Right(t)
  BY <1>3, <1>5, <1>14, <1>18 DEF Right, StepAt
<1>. QED
  BY <1>3, <1>19, Gone

(* ... and an end. *)
LEMMA EndWritten ==
    ASSUME IInv, End
    PROVE  IInv'
<1>. DEFINE N == Len(prog) + 1
            t == EndToken
            f == Top
            g == WithArm(f, state, exit)
<1>1. accepted' \in BOOLEAN
  BY DEF End, EndIf, EndLoop, EndMatch, EndFunction, Closes, Judged
<1>2. Goes(t)
  BY <1>1 DEF End, Goes, Writing, Texts, EndToken
<1>3. blocks # <<>> /\ blocks' = Front(blocks)
  BY DEF End
<1>4. /\ N \in Nat \ {0} /\ prog'[N] = t
      /\ Now = [state |-> state, type |-> flow_narrowed_types, exit |-> exit, blocks |-> blocks]
      /\ Now \in Marks /\ state \in States /\ exit \in ExitStates /\ blocks \in Seq(Frames)
      /\ f \in Frames /\ HeadOf(prog', f) = prog[f.head] /\ Last(Now.blocks) = f
      /\ (InInitAt(prog', Now) <=> InInit)
  BY <1>2, <1>3, GoesFrom
<1>5. Now' = [state |-> state', type |-> flow_narrowed_types', exit |-> exit', blocks |-> blocks']
  BY DEF Now
<1>6. Now.state = state /\ Now.exit = exit /\ Now.blocks = blocks
  BY <1>4
<1>7. Front(blocks) \in Seq(Frames)
  BY <1>3, <1>4, FrontIs
<1>8. /\ g \in Frames /\ g.head = f.head /\ g = WithArm(Last(Now.blocks), Now.state, Now.exit)
  <2>1. g = WithArm(Last(Now.blocks), Now.state, Now.exit)
    BY <1>4, <1>6
  <2>. HIDE DEF f
  <2>. QED
    BY <1>4, <2>1, ArmType
<1>. HIDE DEF g, f
<1>9. \A h \in Frames, s \in States, how \in ExitStates : Closes(h, s, how) =>
          ClosesAt(h, Now, Now', s, how) /\ Now' \in Marks
  <2>1. SUFFICES ASSUME NEW h \in Frames, NEW s \in States, NEW how \in ExitStates, Closes(h, s, how)
                 PROVE  ClosesAt(h, Now, Now', s, how) /\ Now' \in Marks
    OBVIOUS
  <2>2. /\ state' = IF h.before.reachable THEN s ELSE h.before
        /\ flow_narrowed_types' = h.type
        /\ exit' = InSuite(h.suite, how)
    BY <2>1 DEF Closes
  <2>3. InSuite(h.suite, how) \in ExitStates /\ h.before \in States /\ h.type \in SUBSET Types
    BY DEF Frames, InSuite, ExitStates
  <2>. QED
    BY <1>3, <1>5, <1>6, <1>7, <2>2, <2>3 DEF ClosesAt, Marks
<1>10. ASSUME EndIf PROVE EndIfAt(prog', Now, Now') /\ Now' \in Marks
  <2>1. f.before \in States /\ f.merged \in States /\ f.exits \in ExitStates /\ FallsThrough \in ExitStates
    BY <1>4, ExitTypes DEF Frames
  <2>2. /\ Merge(state, f.before) \in States /\ Merge(f.merged, state) \in States
        /\ Either(exit, FallsThrough) \in ExitStates /\ Either(f.exits, exit) \in ExitStates
    BY <1>4, <2>1, MergeType, EitherType
  <2>3. /\ prog[f.head].op = "if"
        /\ IF f.arms = 1 THEN Closes(f, Merge(state, f.before), Either(exit, FallsThrough))
           ELSE Closes(f, Merge(f.merged, state), Either(f.exits, exit))
    BY <1>10 DEF EndIf, Op, f
  <2>. QED
    BY <1>4, <1>6, <1>9, <2>2, <2>3 DEF EndIfAt
<1>11. ASSUME EndLoop PROVE EndLoopAt(prog', Now, Now') /\ Now' \in Marks
  <2>. DEFINE s == [f.before EXCEPT !.maybe_assigned = @ \cup state.maybe_assigned]
              how == LoopExit(prog[f.head].cond, exit)
  <2>1. prog[f.head].op \in Loops /\ Closes(f, s, how)
    BY <1>11 DEF EndLoop, Op, f
  <2>2. s \in States
    BY <1>4 DEF Frames, States
  <2>3. how \in ExitStates
    BY <1>4 DEF LoopExit, ExitStates
  <2>4. /\ s = [f.before EXCEPT !.maybe_assigned = @ \cup Now.state.maybe_assigned]
        /\ how = LoopExit(HeadOf(prog', f).cond, Now.exit)
    BY <1>4, <1>6
  <2>. HIDE DEF s, how
  <2>5. ClosesAt(f, Now, Now', s, how) /\ Now' \in Marks
    BY <1>4, <1>9, <2>1, <2>2, <2>3
  <2>. QED
    BY <1>4, <2>1, <2>4, <2>5 DEF EndLoopAt
<1>12. ASSUME EndMatch PROVE EndMatchAt(prog', Now, Now') /\ Now' \in Marks
  <2>. DEFINE s == IF g.catchall THEN g.merged ELSE Merge(g.merged, g.before)
              how == [g.exits EXCEPT !.always_terminates = @ /\ g.catchall]
  <2>1. prog[f.head].op = "match" /\ f.arms > 0 /\ Closes(g, s, how)
    BY <1>12 DEF EndMatch, Op, f, g
  <2>2. s \in States /\ how \in ExitStates
    <3>1. g.before \in States /\ g.merged \in States /\ g.exits \in ExitStates /\ g.catchall \in BOOLEAN
      BY <1>8 DEF Frames
    <3>2. Merge(g.merged, g.before) \in States
      BY <3>1, MergeType
    <3>. QED
      BY <3>1, <3>2 DEF ExitStates
  <2>3. ClosesAt(g, Now, Now', s, how) /\ Now' \in Marks
    <3>. HIDE DEF s, how
    <3>. QED
      BY <1>8, <1>9, <2>1, <2>2
  <2>. QED
    BY <1>4, <1>8, <2>1, <2>3 DEF EndMatchAt
<1>13. ASSUME EndFunction
       PROVE  (accepted' => EndFunctionAt(prog', N, Now, Now')) /\ Now' \in Marks
  <2>1. /\ prog[f.head].op = "func"
        /\ accepted' = (/\ InInit /\ state.reachable => BlankFinals \subseteq state.assigned
                        /\ prog[f.head].cond = "value" => exit.always_terminates
                        /\ prog[f.head].cond = "never" => exit.always_terminates /\ ~ exit.has_return)
        /\ UNCHANGED <<state, flow_narrowed_types, exit>>
    BY <1>13 DEF EndFunction, Op, f, Judged
  <2>2. Now' = [Now EXCEPT !.blocks = Front(Now.blocks)]
    BY <1>3, <1>4, <1>5, <1>6, <2>1
  <2>3. Now' \in Marks
    BY <1>4, <1>6, <1>7, <2>2 DEF Marks
  <2>4. \A k \in MembersBefore(prog', N) : prog'[k].cond = None => prog'[k].on \in BlankFinals
    <3>1. DOMAIN prog = 1 .. N - 1 /\ \A k \in 1 .. N - 1 : prog'[k] = prog[k]
      BY <1>2, GoesFrom
    <3>. QED
      BY <3>1 DEF MembersBefore, BlankFinals
  <2>. QED
    BY <1>4, <1>6, <2>1, <2>2, <2>3, <2>4 DEF EndFunctionAt
<1>14. EndIf \/ EndLoop \/ EndMatch \/ EndFunction
  BY DEF End
<1>15. accepted' => EndAt(prog', N, Now, Now')
  BY <1>3, <1>4, <1>6, <1>10, <1>11, <1>12, <1>13, <1>14 DEF EndAt
<1>16. t.of \notin Members
  BY DEF EndToken, Members, None
<1>17. Right(t)
  BY <1>4, <1>10, <1>11, <1>12, <1>13, <1>14, <1>15, <1>16 DEF Right, StepAt
<1>. QED
  BY <1>2, <1>17, Gone

(* In the beginning the empty text is consistent *)
LEMMA ConsistentFirst == Init => IInv
<1>. SUFFICES ASSUME Init PROVE IInv
  OBVIOUS
<1>1. /\ prog = <<>> /\ marks = <<>> /\ blocks = <<>> /\ state = Unassigned
      /\ flow_narrowed_types = Types /\ exit = FallsThrough /\ pc = 0 /\ accepted = TRUE
      /\ alphabet \in Alphabets
  BY DEF Init
<1>2. Now = Beginning
  BY <1>1 DEF Now, Beginning
<1>3. Beginning \in Marks
  BY ExitTypes DEF Beginning, Marks, States, Unassigned
<1>4. prog \in Seq(Texts) /\ marks \in Seq(Marks) /\ Len(prog) = 0
  BY <1>1
<1>5. Marked \in Seq(Marks) /\ Len(Marked) = 1 /\ Marked[1] = Beginning
  BY <1>1, <1>2, <1>3, AppendProperties DEF Marked
<1>6. Consistent(prog, Marked)
  BY <1>4, <1>5 DEF Consistent
<1>. QED
  BY <1>1, <1>2, <1>3, <1>4, <1>6 DEF IInv

(* ... and nothing runs. *)
LEMMA RunFirst == Init => RunIInv
<1>. SUFFICES ASSUME Init PROVE RunIInv
  OBVIOUS
<1>1. prog = <<>> /\ pc = 0 /\ by = [x \in Finals |-> 0] /\ jumped = [x \in Finals |-> FALSE]
      /\ value = "null" /\ wrote = 0
  BY DEF Init
<1>2. ~ Running
  BY <1>1 DEF Running
<1>. QED
  BY <1>1, <1>2 DEF RunIInv, Types

(* The run begins where the claims hold. *)
LEMMA StartStands ==
    ASSUME IInv, RunIInv, Start
    PROVE  RunIInv'
<1>1. /\ prog \in Seq(Texts) /\ marks \in Seq(Marks) /\ Now \in Marks /\ Consistent(prog, Marked)
      /\ Len(prog) \in Nat /\ DOMAIN prog = 1 .. Len(prog)
  BY LenProperties DEF IInv, Start, Writing
<1>2. /\ by = [x \in Finals |-> 0] /\ jumped = [x \in Finals |-> FALSE] /\ wrote = 0 /\ value \in Types
      /\ accepted /\ blocks = <<>> /\ prog # <<>> /\ pc = 0
  BY DEF Start, Writing, RunIInv
<1>3. /\ pc' = 1 /\ by' = by /\ jumped' = jumped /\ value' = value /\ wrote' = wrote
      /\ prog' = prog /\ marks' = marks /\ accepted' = accepted /\ blocks' = blocks /\ Marked' = Marked
  BY DEF Start, flow, Marked, Now
<1>4. Len(marks) = Len(prog)
  <2>1. Len(Marked) = Len(prog) + 1
    BY <1>1 DEF Consistent
  <2>2. Len(Marked) = Len(marks) + 1 /\ Len(marks) \in Nat
    BY <1>1, AppendProperties, LenProperties DEF Marked
  <2>. QED
    BY <1>1, <2>1, <2>2
<1>5. HasInit(prog)
  BY <1>1 DEF Start, BlankFinals, HasInit
<1>6. 1 \in 1 .. Len(prog)
  BY <1>1, <1>2, EmptySeq
<1>7. Marked[1] = Beginning /\ Depth(Marked, 1) = 0
  BY <1>1 DEF Consistent, Depth, Beginning
<1>8. prog[1].op \in {"member", "func"}
  BY <1>1, <1>6, <1>7, Outside
<1>9. \A k \in 1 .. Len(prog) : prog[k].op = "member" => prog[1].op = "member" /\ by[prog[k].on] = 0
  <2>1. SUFFICES ASSUME NEW k \in 1 .. Len(prog), prog[k].op = "member"
                 PROVE  prog[1].op = "member" /\ by[prog[k].on] = 0
    OBVIOUS
  <2>2. prog[k].on \in Members /\ \A n \in 1 .. k - 1 : prog[n].op = "member"
    BY <1>1, <2>1, MembersFirst
  <2>3. k = 1 \/ 1 \in 1 .. k - 1
    BY <1>1
  <2>. QED
    BY <1>2, <2>1, <2>2, <2>3 DEF Finals
<1>10. MembersFit(prog, Marked, 1, by)
  BY <1>9 DEF MembersFit
<1>11. Known(prog, Marked, 1) = 1
  BY <1>8 DEF Known
<1>12. MarkFits(prog, Marked, 1, by, jumped)
  <2>1. Marked[1].state = Unassigned /\ Marked[1].exit = FallsThrough
    BY <1>7 DEF Beginning
  <2>2. StateFits(Unassigned, TrackedAt(prog, Marked[1]), by, jumped)
    BY <1>2 DEF StateFits, Unassigned, TrackedAt, Finals
  <2>. QED
    BY <1>7, <2>1, <2>2 DEF MarkFits, FallsThrough
<1>13. Standing(prog, Marked, 1, by, jumped)
  BY <1>2, <1>7, <1>10, <1>11, <1>12 DEF Standing, Finals
<1>. QED
  BY <1>2, <1>3, <1>4, <1>5, <1>13 DEF RunIInv, HasInit

(* Together the two are inductive. *)
Inv == IInv /\ RunIInv

(* Every step keeps the invariant. *)
LEMMA Step == Inv /\ [Next]_vars => Inv'
<1>. SUFFICES ASSUME IInv, RunIInv, [Next]_vars PROVE IInv' /\ RunIInv'
  BY DEF Inv
<1>1. ASSUME IInv', pc = 0, UNCHANGED run PROVE RunIInv'
  <2>1. pc' = 0 /\ by' = by /\ jumped' = jumped /\ value' = value /\ wrote' = wrote
    BY <1>1 DEF run
  <2>2. 0 \notin DOMAIN prog'
    BY <1>1, LenProperties DEF IInv
  <2>. QED
    BY <1>1, <2>1, <2>2 DEF RunIInv, Running
<1>2. CASE \E t \in alphabet.tokens :
        \/ Member(t) \/ Func(t) \/ Assignment(t) \/ Var(t) \/ Use(t) \/ AssertStatement(t) \/ NoReturn(t)
        \/ Return(t) \/ Jump(t) \/ If(t) \/ Else(t) \/ While(t) \/ For(t) \/ Match(t) \/ Branch(t)
  <2>1. IInv'
    BY <1>2, MemberWritten, FuncWritten, AssignmentWritten, VarWritten, UseWritten, AssertWritten,
       LeaverWritten, ReturnWritten, HeadWritten, ElseWritten, BranchWritten
  <2>2. \E t, op : Writes(t, op)
    BY <1>2 DEF Member, Func, Assignment, Var, Use, AssertStatement, NoReturn, Return, Jump, If, Else,
                While, For, Match, Branch
  <2>. QED
    BY <1>1, <2>1, <2>2 DEF Writes, Writing
<1>3. CASE End
  BY <1>1, <1>3, EndWritten DEF End, Writing
<1>4. ASSUME UNCHANGED <<alphabet, prog, flow>>, pc' \in Nat PROVE IInv'
  BY <1>4 DEF IInv, Marked, Now, flow
<1>5. CASE Start
  BY <1>4, <1>5, StartStands DEF Start
<1>6. CASE UNCHANGED vars
  BY <1>6 DEF vars, run, flow, IInv, RunIInv, Marked, Now, Running
<1>7. CASE Run
  <2>1. Running
    BY <1>7 DEF Run, RunMember, RunFunc, RunAssignment, RunUse, RunTest, RunAssert, RunMatch,
         RunBranch, RunJump, RunEnd, RunReturn, RunNoReturn, Leaving, At
  <2>2. pc # 0
    BY <2>1, LenProperties DEF Running, IInv
  <2>3. Ready
    BY <2>2 DEF RunIInv, Ready
  <2>4. StandsNext /\ UNCHANGED <<alphabet, prog, flow>>
    BY <1>7, <2>3, Runs
  <2>5. IInv'
    BY <1>4, <2>4 DEF StandsNext
  <2>6. /\ prog' = prog /\ marks' = marks /\ accepted' = accepted /\ blocks' = blocks /\ Marked' = Marked
    BY <2>4 DEF flow, Marked, Now
  <2>7. DOMAIN prog = 1 .. Len(prog)
    BY <2>3, Written
  <2>. QED
    BY <2>2, <2>4, <2>5, <2>6, <2>7 DEF StandsNext, RunIInv, Running
<1>. QED
  BY <1>2, <1>3, <1>5, <1>6, <1>7 DEF Next

(* The invariant: the text is consistent with the analysis of it, and      *)
(* wherever the run stands, what the analysis claims in front of the token *)
(* is true of the finals assigned so far.                                  *)
THEOREM InvariantHolds == Spec => []Inv
<1>1. Init => Inv
  BY ConsistentFirst, RunFirst DEF Inv
<1>. QED
  BY <1>1, Step, PTL DEF Spec

-----------------------------------------------------------------------------
(* The properties *)

(* The class that is run satisfies what the lemmas about the run assume. *)
LEMMA InInv ==
    ASSUME Inv, Running
    PROVE  Walks
<1>1. pc # 0
  BY LenProperties DEF Running, Inv, IInv
<1>. QED
  BY <1>1 DEF Inv, RunIInv, Walks, Ready

(* A final that is read has been assigned. *)
LEMMA ReadsHold ==
    ASSUME Walks, prog[pc].of \in Finals
    PROVE  by[prog[pc].of] # 0
<1>0. /\ Consistent(prog, Marked) /\ pc \in 1 .. Len(prog) /\ pc \in Nat
      /\ Standing(prog, Marked, pc, by, jumped)
  BY Walking
<1>. DEFINE t == prog[pc]
            a == Marked[pc]
<1>1. t.op \notin {"func", "else", "noreturn", "break", "continue"} /\ t.op # "end"
  <2>1. t.op = "end" => t.of = None
    BY <1>0, EndFrame DEF EndToken
  <2>. QED
    BY <1>0, <2>1, Texted DEF TokenOK, None, Finals, Members, Locals
<1>2. StepAt(prog, pc, a, Marked[pc + 1]) /\ Depth(Marked, pc) \in Nat
  BY <1>0, Onward
<1>3. Depth(Marked, pc) > 0 \/ t.op = "member"
  BY <1>0, <1>1, <1>2, Outside
<1>. DEFINE s == Marked[Known(prog, Marked, pc)].state
<1>4. Reads(prog, a, t, s)
  <2>1. CASE t.op = "branch"
    <3>1. Known(prog, Marked, pc) = pc + 1
      BY <2>1 DEF Known
    <3>. QED
      BY <1>0, <2>1, <3>1, BranchFrame
  <2>2. CASE t.op # "branch"
    <3>1. Known(prog, Marked, pc) = pc
      BY <1>1, <2>2 DEF Known
    <3>2. t.op \in PlainOps \cup Heads \cup Arms
      BY <1>0, <1>1, Onward
    <3>3. Reads(prog, a, t, a.state)
      BY <1>1, <1>2, <2>2, <3>2, StepOf DEF PlainOps, Heads, Arms, MemberAt, AssignmentAt, VarAt, UseAt,
         AssertAt, ReturnAt, HeadAt
    <3>. QED
      BY <3>1, <3>3
  <2>. QED
    BY <2>1, <2>2
<1>5. MarkFits(prog, Marked, Known(prog, Marked, pc), by, jumped)
  BY <1>0, <1>3 DEF Standing
<1>6. CASE t.of \in TrackedAt(prog, a)
  BY <1>4, <1>5, <1>6 DEF Reads, MarkFits, StateFits
<1>7. CASE t.of \notin TrackedAt(prog, a)
  <2>1. /\ a.blocks # <<>> /\ prog[a.blocks[1].head].of # "_init" /\ t.of \in Members
    BY <1>7 DEF TrackedAt, Finals
  <2>2. Depth(Marked, pc) # 0 /\ t.op # "member"
    <3>1. Depth(Marked, pc) > 0
      BY <1>0, <2>1, Around1
    <3>. QED
      BY <1>0, <3>1, MembersFirst
  <2>3. ~ AtInit(prog, Marked, pc)
    BY <2>1, <2>2 DEF AtInit, Open
  <2>4. PICK k \in 1 .. pc - 1 : prog[k].op = "member" /\ prog[k].on = t.of
    BY <1>2, <2>1 DEF StepAt, Declared
  <2>5. k \in 1 .. Len(prog)
    BY <1>0
  <2>. QED
    BY <1>0, <2>2, <2>3, <2>4, <2>5 DEF Standing, MembersFit
<1>. QED
  BY <1>6, <1>7

(* A final is read only where a value was assigned to it, on every path:   *)
(* by initializers, by _init, by the other function once the instance is   *)
(* made; and _init, left by a return or at its end, has assigned them all. *)
THEOREM FinalsAssigned == Spec => []FinalsAreAssigned
<1>1. Inv => FinalsAreAssigned
  <2>1. SUFFICES ASSUME Inv, Running PROVE FinalsAreAssigned
    BY DEF FinalsAreAssigned
  <2>2. Walks
    BY <2>1, InInv
  <2>3. Here.of \in Finals => by[Here.of] # 0
    BY <2>2, ReadsHold DEF Here
  <2>4. ASSUME Leaving, NEW x \in DeclaredMembers PROVE by[x] # 0
    <3>1. /\ Consistent(prog, Marked) /\ pc \in 1 .. Len(prog) /\ DOMAIN prog = 1 .. Len(prog)
          /\ Standing(prog, Marked, pc, by, jumped)
      BY <2>2, Walking
    <3>2. LeavesAt(prog, Marked, pc)
      BY <2>2, <2>4, LeavesAtIs
    <3>3. \A k \in 1 .. Len(prog) : prog[k].op = "member" => by[prog[k].on] # 0
      BY <3>1, <3>2, LeftWhole
    <3>4. PICK k \in 1 .. Len(prog) : prog[k].op = "member" /\ x = prog[k].on
      BY <3>1 DEF DeclaredMembers
    <3>. QED
      BY <3>3, <3>4
  <2>. QED
    BY <2>3, <2>4 DEF FinalsAreAssigned
<1>. QED
  BY <1>1, InvariantHolds, PTL

(* A second assignment of a final is let through only if a loop has gone   *)
(* round, or a break or continue was taken, since the one before.          *)
THEOREM AssignedTwiceOnlyRoundLoops == Spec => []TwiceOnlyRoundLoops
<1>1. Inv => TwiceOnlyRoundLoops
  <2>1. SUFFICES ASSUME Inv, At({"assign"}), Here.on \in Finals, by[Here.on] # 0, ~ jumped[Here.on]
                 PROVE  FALSE
    BY DEF TwiceOnlyRoundLoops
  <2>2. Walks
    BY <2>1, InInv DEF At
  <2>3. /\ Consistent(prog, Marked) /\ pc \in 1 .. Len(prog)
        /\ Standing(prog, Marked, pc, by, jumped)
    BY <2>2, Walking
  <2>. DEFINE t == prog[pc]
              a == Marked[pc]
  <2>4. t.op = "assign" /\ t.on \in Finals /\ by[t.on] # 0 /\ ~ jumped[t.on]
    BY <2>1 DEF At, Here
  <2>5. AssignmentAt(prog, pc, a, Marked[pc + 1])
    BY <2>3, <2>4, Onward, StepOf
  <2>6. InBody(prog, a)
    BY <2>3, <2>4, InABody DEF PlainOps
  <2>7. Depth(Marked, pc) \in Nat /\ Depth(Marked, pc) > 0
    BY <2>3, <2>6, Around1 DEF InBody
  <2>8. StateFits(a.state, TrackedAt(prog, a), by, jumped)
    <3>1. Known(prog, Marked, pc) = pc
      BY <2>4 DEF Known
    <3>. QED
      BY <2>3, <2>7, <3>1 DEF Standing, MarkFits
  <2>9. t.on \in TrackedAt(prog, a)
    BY <2>4, <2>5 DEF AssignmentAt, InInitAt, TrackedAt, Finals
  <2>. QED
    BY <2>4, <2>5, <2>8, <2>9 DEF AssignmentAt, StateFits
<1>. QED
  BY <1>1, InvariantHolds, PTL

(* Around a statement there is a function. *)
LEMMA OutermostIsFunction ==
    ASSUME NEW p, NEW m, Consistent(p, m), NEW n \in 1 .. Len(p), Depth(m, n) >= 1
    PROVE  p[Open(m, n, 1).head].op = "func"
<1>0. n \in 1 .. Len(p) + 1 /\ 1 \in 1 .. Depth(m, n)
  BY LenProperties, Onward DEF Consistent
<1>. DEFINE h == Open(m, n, 1).head
<1>1. h \in 1 .. n - 1 /\ p[h].op \in Heads /\ Depth(m, h) = 1 - 1
  BY <1>0, FrameIs
<1>2. h \in 1 .. Len(p) /\ Depth(m, h) = 0
  BY <1>1
<1>3. p[h].op = "func"
  <2>. HIDE DEF h
  <2>. QED
    BY <1>1, <1>2, Outside DEF Heads
<1>. QED
  BY <1>3

(* A function is left only as its declaration has it. *)
LEMMA NeverLeft ==
    ASSUME NEW p, NEW m, Consistent(p, m), Depth(m, Len(p) + 1) = 0, NEW n \in 1 .. Len(p),
           LeavesAt(p, m, n), NEW b, NEW j, Standing(p, m, n, b, j),
           NEW h, h = Open(m, n, 1).head
    PROVE  p[h].cond # "never" /\ (p[h].cond = "value" => p[n].op = "return")
<1>1. Depth(m, n) \in Nat /\ Depth(m, n) >= 1 /\ MarkFits(p, m, n, b, j)
  BY LeftWhole
<1>2. 1 \in 1 .. Depth(m, n) /\ n \in 1 .. Len(p) + 1
  BY <1>1, LenProperties DEF Consistent
<1>. DEFINE e == EndFor(p, m, h)
<1>3. /\ e \in n .. Len(p) /\ e \in 1 .. Len(p) /\ p[e].op = "end" /\ Depth(m, e) = 1
      /\ Open(m, e, 1).head = h
      /\ \A k \in n .. e : Depth(m, k) >= 1
  BY <1>2, EndForIs
<1>. HIDE DEF e
<1>4. p[h].op = "func"
  BY <1>1, OutermostIsFunction
<1>5. EndFunctionAt(p, e, m[e], m[e + 1]) /\ HeadOf(p, Last(m[e].blocks)) = p[h]
  <2>1. p[Open(m, e, Depth(m, e)).head].op = "func"
    BY <1>3, <1>4
  <2>2. e \in 1 .. Len(p) + 1
    BY <1>3, LenProperties DEF Consistent
  <2>3. Last(m[e].blocks) = Open(m, e, Depth(m, e))
    BY <1>3, <2>2, Around1
  <2>. QED
    BY <1>3, <2>1, <2>3, EndFrame DEF HeadOf
<1>6. /\ p[h].cond = "value" => m[e].exit.always_terminates
      /\ p[h].cond = "never" => m[e].exit.always_terminates /\ ~ m[e].exit.has_return
  BY <1>5 DEF EndFunctionAt
<1>7. ~ m[n].exit.always_terminates
  BY <1>1 DEF MarkFits
<1>8. CASE p[n].op = "return"
  <2>1. SUFFICES m[e].exit.has_return
    BY <1>6, <1>8
  <2>2. Has(m[n + 1].exit, "return")
    <3>1. PICK how \in ExitStates : m[n + 1].exit = InSuite(m[n].exit, how) /\ how.has_return
      BY <1>1, <1>8, PlainExit DEF PlainOps
    <3>2. m[n].exit \in ExitStates
      BY Onward DEF Marks
    <3>. QED
      BY <1>7, <3>1, <3>2, HasInSuite DEF Has, Flags
  <2>3. e \in n + 1 .. Len(p) + 1 /\ \A k \in n + 1 .. e : Depth(m, k) >= 1
    BY <1>3, <1>8, LenProperties DEF Consistent
  <2>4. \A i \in 1 + 1 .. Depth(m, n) : ~ Open(m, n, i).suite.always_terminates
    BY <1>1 DEF MarkFits, FrameFits
  <2>5. Has(m[e].exit, "return")
    BY <1>2, <1>3, <1>4, <1>8, <2>2, <2>3, <2>4, Carried DEF PlainOps, Flags
  <2>. QED
    BY <2>5 DEF Has
<1>9. CASE p[n].op # "return"
  <2>1. p[n].op = "end" /\ p[Open(m, n, Depth(m, n)).head].op = "func"
    BY <1>9 DEF LeavesAt, OfHead
  <2>2. Depth(m, n) = 1
    <3>. DEFINE D == Depth(m, n)
                g == Open(m, n, D).head
    <3>1. g \in 1 .. n - 1 /\ Depth(m, g) = D - 1
      BY <1>1, <1>2, FrameIs
    <3>2. g \in 1 .. Len(p) /\ p[g].op = "func"
      BY <2>1, <3>1
    <3>. HIDE DEF g
    <3>3. Depth(m, g) = 0
      BY <3>2, FuncOutside
    <3>. QED
      BY <1>1, <3>1, <3>3
  <2>3. e = n
    BY <1>3, <2>1, <2>2, ClosedOnce
  <2>. QED
    BY <1>6, <1>7, <2>3
<1>. QED
  BY <1>8, <1>9

(* A function that has to return a value is not left at its end, and one   *)
(* that is declared not to return neither there nor by a return.           *)
THEOREM ValuesAreReturned == Spec => []ValueIsReturned
<1>1. Inv => ValueIsReturned
  <2>1. SUFFICES ASSUME Inv, Leaving PROVE ValueIsReturned
    BY DEF ValueIsReturned
  <2>2. Walks
    BY <2>1, InInv DEF Leaving, At
  <2>3. /\ Consistent(prog, Marked) /\ Depth(Marked, Len(prog) + 1) = 0 /\ pc \in 1 .. Len(prog)
        /\ Standing(prog, Marked, pc, by, jumped)
    BY <2>2, Walking
  <2>4. LeavesAt(prog, Marked, pc) /\ marks[pc].blocks[1] = Open(Marked, pc, 1)
    BY <2>1, <2>2, LeavesAtIs
  <2>. QED
    BY <2>3, <2>4, NeverLeft DEF ValueIsReturned, Here
<1>. QED
  BY <1>1, InvariantHolds, PTL

-----------------------------------------------------------------------------
(* What s is known to be *)

(* Where s was last assigned, at w, if it was.                             *)
WroteAt(p, w) == w \in Nat /\ (w # 0 => w \in 1 .. Len(p) /\ p[w].op = "assign")

Own(m, w) == Open(m, w, Depth(m, w)).arm

(* What the analysis does not carry over.                                  *)
Excused(m, n, w) == w >= n \/ (w # 0 /\ \A i \in 1 .. Depth(m, n) : Own(m, w) # Open(m, n, i).arm)

(* The type fits or is excused. *)
LEMMA FitsOrExcused ==
    ASSUME NEW p, NEW m, NEW n, NEW v, NEW w
    PROVE  TypeFits(p, m, n, v, w) <=> v \in m[n].type \/ Excused(m, n, w) \/ NullIn(p, m, n, v)
BY DEF TypeFits, Excused, Own

(* The arm of the token that assigned s last. *)
LEMMA OwnIs ==
    ASSUME NEW p, NEW m, Consistent(p, m), NEW w, WroteAt(p, w), w # 0
    PROVE  Depth(m, w) \in Nat /\ Depth(m, w) >= 1 /\ Own(m, w) \in Open(m, w, Depth(m, w)).head .. w - 1
           /\ Own(m, w) \in Nat /\ w \in 1 .. Len(p) /\ w \in 1 .. Len(p) + 1 /\ w \in Nat
<1>1. w \in 1 .. Len(p) /\ p[w].op \in (PlainOps \ {"member"}) \cup (Heads \ {"func"})
  BY DEF WroteAt, PlainOps
<1>2. Depth(m, w) \in Nat /\ Depth(m, w) >= 1
  BY <1>1, InABlock
<1>3. w \in 1 .. Len(p) + 1 /\ Depth(m, w) \in 1 .. Depth(m, w)
  BY <1>1, <1>2, LenProperties DEF Consistent
<1>4. Own(m, w) \in Open(m, w, Depth(m, w)).head .. w - 1 /\ Open(m, w, Depth(m, w)).head \in 1 .. w - 1
  BY <1>3, FrameIs DEF Own
<1>. QED
  BY <1>1, <1>2, <1>3, <1>4

(* What is assigned inside a statement is assigned in an arm inside it.    *)
LEMMA OwnInside ==
    ASSUME NEW p, NEW m, Consistent(p, m), NEW w, WroteAt(p, w), w # 0,
           NEW h \in 1 .. w - 1, Depth(m, h) \in Nat, Depth(m, w) > Depth(m, h)
    PROVE  Own(m, w) >= h
<1>0. /\ Depth(m, w) \in Nat /\ Depth(m, w) >= 1 /\ Own(m, w) \in Open(m, w, Depth(m, w)).head .. w - 1
      /\ w \in 1 .. Len(p) + 1 /\ w \in Nat
  BY OwnIs
<1>. DEFINE D == Depth(m, w)
            g == Open(m, w, D).head
<1>1. D \in 1 .. D
  BY <1>0
<1>2. g \in 1 .. w - 1 /\ \A k \in g + 1 .. w : Depth(m, k) >= D
  BY <1>0, <1>1, FrameIs
<1>. HIDE DEF g
<1>3. ~ (h \in g + 1 .. w)
  BY <1>0, <1>2
<1>4. g >= h
  BY <1>0, <1>2, <1>3
<1>. QED
  BY <1>0, <1>2, <1>4 DEF g

(* The arms around a token began before it.                                *)
LEMMA ArmsBefore ==
    ASSUME NEW p, NEW m, Consistent(p, m), NEW n \in 1 .. Len(p) + 1, NEW i \in 1 .. Depth(m, n)
    PROVE  Open(m, n, i).arm \in 1 .. n - 1
<1>1. Open(m, n, i).arm \in Open(m, n, i).head .. n - 1 /\ Open(m, n, i).head \in 1 .. n - 1
  BY FrameIs
<1>. QED
  BY <1>1

(* An excuse is good behind a plain statement, too, *)
LEMMA ExcusedPlain ==
    ASSUME NEW p, NEW m, Consistent(p, m), NEW n \in 1 .. Len(p), p[n].op \in PlainOps,
           NEW w, WroteAt(p, w), w # n, Excused(m, n, w)
    PROVE  Excused(m, n + 1, w)
<1>1. /\ Depth(m, n + 1) = Depth(m, n)
      /\ \A i \in 1 .. Depth(m, n) : Open(m, n + 1, i) = Open(m, n, i)
  BY Onward
<1>2. w >= n => w >= n + 1
  BY DEF WroteAt
<1>. QED
  BY <1>1, <1>2 DEF Excused

(* ... in a block, *)
LEMMA ExcusedHead ==
    ASSUME NEW p, NEW m, Consistent(p, m), NEW n \in 1 .. Len(p), p[n].op \in Heads,
           NEW w, WroteAt(p, w), Excused(m, n, w)
    PROVE  Excused(m, n + 1, w)
<1>1. /\ Depth(m, n) \in Nat /\ Depth(m, n + 1) = Depth(m, n) + 1
      /\ Open(m, n + 1, Depth(m, n) + 1) = Opened(p[n], n, m[n])
      /\ \A i \in 1 .. Depth(m, n) : Open(m, n + 1, i) = Open(m, n, i)
  BY Onward
<1>2. Opened(p[n], n, m[n]).arm = n
  BY DEF Opened
<1>3. w # n
  BY DEF WroteAt, Heads
<1>4. SUFFICES ASSUME ~ (w >= n + 1) PROVE Excused(m, n + 1, w)
  BY DEF Excused
<1>5. ~ (w >= n) /\ w \in Nat
  BY <1>3, <1>4 DEF WroteAt
<1>6. w # 0 /\ \A i \in 1 .. Depth(m, n) : Own(m, w) # Open(m, n, i).arm
  BY <1>5 DEF Excused
<1>7. Own(m, w) # n
  <2>1. Own(m, w) \in Nat /\ Own(m, w) \in Open(m, w, Depth(m, w)).head .. w - 1
    BY <1>6, OwnIs
  <2>. QED
    BY <1>5, <2>1
<1>8. \A i \in 1 .. Depth(m, n + 1) : Own(m, w) # Open(m, n + 1, i).arm
  <2>1. SUFFICES ASSUME NEW i \in 1 .. Depth(m, n + 1) PROVE Own(m, w) # Open(m, n + 1, i).arm
    OBVIOUS
  <2>2. CASE i = Depth(m, n) + 1
    BY <1>1, <1>2, <1>7, <2>2
  <2>3. CASE i # Depth(m, n) + 1
    <3>1. i \in 1 .. Depth(m, n)
      BY <1>1, <2>3
    <3>. QED
      BY <1>1, <1>6, <3>1
  <2>. QED
    BY <2>2, <2>3
<1>. QED
  BY <1>6, <1>8 DEF Excused

(* From the head of a statement, to an arm of it ...                       *)
LEMMA ExcusedArm ==
    ASSUME NEW p, NEW m, Consistent(p, m), NEW n \in 1 .. Len(p), p[n].op \in Arms,
           NEW h, h = Open(m, n, Depth(m, n)).head,
           NEW w, WroteAt(p, w), Excused(m, h, w)
    PROVE  Excused(m, n + 1, w)
<1>. DEFINE D == Depth(m, n)
<1>1. /\ D \in Nat /\ D >= 2 /\ Depth(m, n + 1) = D
  BY ArmDepth
<1>2. /\ NextArm(Open(m, n, D), Open(m, n + 1, D), n)
      /\ \A i \in 1 .. D - 1 : Open(m, n + 1, i) = Open(m, n, i)
  BY Onward
<1>3. D \in 1 .. D /\ n \in 1 .. Len(p) + 1 /\ n \in Nat
  BY <1>1, LenProperties DEF Consistent
<1>4. /\ h \in 1 .. n - 1 /\ Depth(m, h) = D - 1
      /\ \A k \in h + 1 .. n : Depth(m, k) >= D /\ \A j \in 1 .. D - 1 : Open(m, k, j) = Open(m, h, j)
  BY <1>3, HeadIs
<1>. HIDE DEF D
<1>5. h \in 1 .. Len(p) + 1 /\ h \in Nat /\ p[h].op \in Heads
  BY <1>3, <1>4, HeadIs DEF D
<1>6. \A j \in 1 .. D - 1 : Open(m, n + 1, j) = Open(m, h, j)
  <2>1. n \in h + 1 .. n
    BY <1>3, <1>4
  <2>. QED
    BY <1>2, <1>4, <2>1
<1>7. Open(m, n + 1, D).arm = n
  BY <1>2 DEF NextArm
<1>8. SUFFICES ASSUME ~ (w >= n + 1) PROVE Excused(m, n + 1, w)
  BY DEF Excused
<1>9. w # n /\ w # h /\ w \in Nat
  BY <1>5 DEF WroteAt, Arms, Heads
<1>10. w < n
  BY <1>3, <1>8, <1>9
<1>11. w # 0 /\ \A j \in 1 .. D - 1 : Own(m, w) # Open(m, h, j).arm
  <2>1. CASE w < h
    BY <1>1, <1>4, <1>5, <1>9, <2>1 DEF Excused
  <2>2. CASE h < w
    <3>1. w # 0 /\ w \in h + 1 .. n /\ h \in 1 .. w - 1
      BY <1>4, <1>5, <1>9, <1>10, <2>2
    <3>2. Depth(m, w) >= D
      BY <1>4, <3>1
    <3>3. Depth(m, w) \in Nat
      BY <3>1, OwnIs
    <3>4. Depth(m, w) > Depth(m, h) /\ Depth(m, h) \in Nat
      BY <1>1, <1>4, <3>2, <3>3
    <3>5. Own(m, w) >= h
      BY <3>1, <3>4, OwnInside
    <3>6. \A j \in 1 .. D - 1 : Open(m, h, j).arm \in 1 .. h - 1
      BY <1>4, <1>5, ArmsBefore
    <3>7. Own(m, w) \in Nat
      BY <3>1, OwnIs
    <3>. QED
      BY <1>5, <3>1, <3>5, <3>6, <3>7
  <2>. QED
    BY <1>5, <1>9, <2>1, <2>2
<1>12. Own(m, w) # n
  <2>1. Own(m, w) \in Nat /\ Own(m, w) \in Open(m, w, Depth(m, w)).head .. w - 1
    BY <1>11, OwnIs
  <2>. QED
    BY <1>9, <1>10, <2>1
<1>13. \A i \in 1 .. D : Own(m, w) # Open(m, n + 1, i).arm
  <2>1. SUFFICES ASSUME NEW i \in 1 .. D PROVE Own(m, w) # Open(m, n + 1, i).arm
    OBVIOUS
  <2>2. CASE i = D
    BY <1>7, <1>12, <2>2
  <2>3. CASE i # D
    <3>1. i \in 1 .. D - 1
      BY <1>1, <2>3
    <3>. QED
      BY <1>6, <1>11, <3>1
  <2>. QED
    BY <2>2, <2>3
<1>. QED
  BY <1>1, <1>11, <1>13 DEF Excused, D

(* ... and behind its end.                                                 *)
LEMMA ExcusedEnd ==
    ASSUME NEW p, NEW m, Consistent(p, m), NEW e \in 1 .. Len(p), p[e].op = "end",
           NEW h, h = Open(m, e, Depth(m, e)).head,
           NEW w, WroteAt(p, w), Excused(m, h, w)
    PROVE  Excused(m, e + 1, w)
<1>. DEFINE D == Depth(m, e)
<1>1. /\ D \in Nat /\ D > 0 /\ Depth(m, e + 1) = D - 1
      /\ \A i \in 1 .. D - 1 : Open(m, e + 1, i) = Open(m, e, i)
  BY Onward
<1>3. D \in 1 .. D /\ e \in 1 .. Len(p) + 1 /\ e \in Nat
  BY <1>1, LenProperties DEF Consistent
<1>4. /\ h \in 1 .. e - 1 /\ Depth(m, h) = D - 1
      /\ \A k \in h + 1 .. e : Depth(m, k) >= D /\ \A j \in 1 .. D - 1 : Open(m, k, j) = Open(m, h, j)
  BY <1>3, FrameIs
<1>. HIDE DEF D
<1>5. h \in 1 .. Len(p) + 1 /\ h \in Nat /\ p[h].op \in Heads
  BY <1>3, <1>4, FrameIs DEF D
<1>6. \A j \in 1 .. D - 1 : Open(m, e + 1, j) = Open(m, h, j)
  <2>1. e \in h + 1 .. e
    BY <1>3, <1>4
  <2>. QED
    BY <1>1, <1>4, <2>1
<1>8. SUFFICES ASSUME ~ (w >= e + 1) PROVE Excused(m, e + 1, w)
  BY DEF Excused
<1>9. w # e /\ w # h /\ w \in Nat
  BY <1>5 DEF WroteAt, Heads
<1>10. w < e
  BY <1>3, <1>8, <1>9
<1>11. w # 0 /\ \A j \in 1 .. D - 1 : Own(m, w) # Open(m, h, j).arm
  <2>1. CASE w < h
    BY <1>1, <1>4, <1>5, <1>9, <2>1 DEF Excused
  <2>2. CASE h < w
    <3>1. w # 0 /\ w \in h + 1 .. e /\ h \in 1 .. w - 1
      BY <1>4, <1>5, <1>9, <1>10, <2>2
    <3>2. Depth(m, w) >= D
      BY <1>4, <3>1
    <3>3. Depth(m, w) \in Nat
      BY <3>1, OwnIs
    <3>4. Depth(m, w) > Depth(m, h) /\ Depth(m, h) \in Nat
      BY <1>1, <1>4, <3>2, <3>3
    <3>5. Own(m, w) >= h
      BY <3>1, <3>4, OwnInside
    <3>6. \A j \in 1 .. D - 1 : Open(m, h, j).arm \in 1 .. h - 1
      BY <1>4, <1>5, ArmsBefore
    <3>7. Own(m, w) \in Nat
      BY <3>1, OwnIs
    <3>. QED
      BY <1>5, <3>1, <3>5, <3>6, <3>7
  <2>. QED
    BY <1>5, <1>9, <2>1, <2>2
<1>13. \A i \in 1 .. D - 1 : Own(m, w) # Open(m, e + 1, i).arm
  BY <1>6, <1>11
<1>. QED
  BY <1>1, <1>11, <1>13 DEF Excused

(* What is inside an arm is inside it, too, wherever the arm is open: in a *)
(* block, behind it ...                                                    *)
LEMMA NullStays ==
    ASSUME NEW p, NEW m, NEW v, NEW n, NEW k, Depth(m, n) \in Nat, Depth(m, k) \in Nat,
           Depth(m, n) <= Depth(m, k),
           \A i \in 1 .. Depth(m, n) : Open(m, k, i) = Open(m, n, i), NullIn(p, m, n, v)
    PROVE  NullIn(p, m, k, v)
<1>1. PICK i \in 1 .. Depth(m, n) : TakesNull(p, Open(m, n, i))
  BY DEF NullIn
<1>2. i \in 1 .. Depth(m, k) /\ Open(m, k, i) = Open(m, n, i)
  OBVIOUS
<1>. QED
  BY <1>1, <1>2 DEF NullIn

(* ... and in an arm of a statement inside it.                             *)
LEMMA NullInArm ==
    ASSUME NEW p, NEW m, Consistent(p, m), NEW n \in 1 .. Len(p), p[n].op \in Arms,
           NEW h, h = Open(m, n, Depth(m, n)).head, NEW v, NullIn(p, m, h, v)
    PROVE  NullIn(p, m, n + 1, v)
<1>. DEFINE D == Depth(m, n)
<1>1. /\ D \in Nat /\ D >= 2 /\ Depth(m, n + 1) = D
  BY ArmDepth
<1>2. \A i \in 1 .. D - 1 : Open(m, n + 1, i) = Open(m, n, i)
  BY Onward
<1>3. D \in 1 .. D /\ n \in 1 .. Len(p) + 1 /\ n \in Nat
  BY <1>1, LenProperties DEF Consistent
<1>4. /\ h \in 1 .. n - 1 /\ Depth(m, h) = D - 1
      /\ \A k \in h + 1 .. n : \A j \in 1 .. D - 1 : Open(m, k, j) = Open(m, h, j)
  BY <1>3, HeadIs
<1>5. n \in h + 1 .. n
  BY <1>3, <1>4
<1>. HIDE DEF D
<1>6. \A j \in 1 .. D - 1 : Open(m, n + 1, j) = Open(m, h, j)
  BY <1>2, <1>4, <1>5
<1>. QED
  BY <1>1, <1>4, <1>6, NullStays

FramesFit(p, m, n, v, w) == \A i \in 2 .. Depth(m, n) : TypeFits(p, m, Open(m, n, i).head, v, w)

(* Behind a statement the type of its head is known again, *)
LEMMA EndTypes ==
    ASSUME NEW p, NEW m, Consistent(p, m), NEW e \in 1 .. Len(p), p[e].op = "end",
           p[Open(m, e, Depth(m, e)).head].op # "func",
           NEW v, NEW w, WroteAt(p, w), FramesFit(p, m, e, v, w)
    PROVE  TypeFits(p, m, e + 1, v, w) /\ FramesFit(p, m, e + 1, v, w) /\ Depth(m, e + 1) >= 1 /\ Depth(m, e) >= 2
<1>. DEFINE D == Depth(m, e)
            f == Open(m, e, D)
            h == f.head
<1>1. /\ D \in Nat /\ D > 0 /\ Depth(m, e + 1) = D - 1
      /\ \A i \in 1 .. D - 1 : Open(m, e + 1, i) = Open(m, e, i)
  BY Onward
<1>2. D \in 1 .. D /\ e \in 1 .. Len(p) + 1
  BY <1>1, LenProperties DEF Consistent
<1>3. D # 1
  BY <1>2, NotAFunction
<1>4. D >= 2 /\ D \in 2 .. D
  BY <1>1, <1>3
<1>5. FramesFit(p, m, e + 1, v, w)
  BY <1>1 DEF FramesFit
<1>6. TypeFits(p, m, h, v, w)
  BY <1>4 DEF FramesFit
<1>7. m[e + 1].type = m[h].type
  <2>1. f.type = m[h].type
    BY <1>2, FrameIs
  <2>2. m[e + 1].type = f.type
    BY EndFrame
  <2>. QED
    BY <2>1, <2>2
<1>8. Excused(m, h, w) => Excused(m, e + 1, w)
  BY ExcusedEnd
<1>10. NullIn(p, m, h, v) => NullIn(p, m, e + 1, v)
  <2>1. /\ Depth(m, h) = D - 1 /\ h \in 1 .. e - 1
        /\ \A k \in h + 1 .. e : \A j \in 1 .. D - 1 : Open(m, k, j) = Open(m, h, j)
    BY <1>2, FrameIs
  <2>2. e \in h + 1 .. e
    BY <2>1
  <2>. HIDE DEF D, h
  <2>3. \A j \in 1 .. D - 1 : Open(m, e + 1, j) = Open(m, h, j)
    BY <1>1, <2>1, <2>2
  <2>. QED
    BY <1>1, <2>1, <2>3, NullStays
<1>9. TypeFits(p, m, e + 1, v, w)
  BY <1>6, <1>7, <1>8, <1>10, FitsOrExcused
<1>. QED
  BY <1>1, <1>4, <1>5, <1>9

(* ... and wherever control arrives from there. *)
LEMMA ArrivesTyped ==
    ASSUME NEW p, NEW m, Consistent(p, m), Depth(m, Len(p) + 1) = 0,
           NEW k \in 1 .. Len(p), Depth(m, k) >= 1,
           NEW v, NEW w, WroteAt(p, w), TypeFits(p, m, k, v, w), FramesFit(p, m, k, v, w)
    PROVE  TypesFit(p, m, Arrived(p, m, k), v, w)
<1>. DEFINE D == Depth(m, k)
            h == Open(m, k, D).head
            e == EndFor(p, m, h)
<1>0. D \in Nat /\ D \in 1 .. D /\ k \in 1 .. Len(p) + 1
  <2>1. D \in Nat
    BY Onward
  <2>. QED
    BY <2>1, LenProperties DEF Consistent
<1>1. CASE p[k].op \in Arms
  <2>1. Arrived(p, m, k) = e
    BY <1>1 DEF Arrived
  <2>2. /\ e \in 1 .. Len(p) /\ p[e].op = "end" /\ Depth(m, e) = D
        /\ Open(m, e, D).head = h
        /\ \A l \in 1 .. D - 1 : Open(m, e, l) = Open(m, k, l)
    BY <1>0, EndForIs
  <2>. HIDE DEF e
  <2>3. p[h].op \in {"if", "match"}
    BY <1>1, ElseFrame, BranchFrame DEF Arms
  <2>4. \A i \in 1 .. D : Open(m, e, i).head = Open(m, k, i).head
    BY <1>0, <2>2
  <2>5. FramesFit(p, m, e, v, w)
    BY <1>0, <2>2, <2>4 DEF FramesFit
  <2>6. TypeFits(p, m, e + 1, v, w)
    BY <2>2, <2>3, <2>5, EndTypes
  <2>7. Known(p, m, e) = e + 1
    BY <2>2, <2>3 DEF Known, OfHead
  <2>. QED
    BY <2>1, <2>5, <2>6, <2>7 DEF TypesFit, FramesFit
<1>2. CASE p[k].op \notin Arms
  <2>1. Arrived(p, m, k) = k
    BY <1>2 DEF Arrived
  <2>2. CASE p[k].op = "end" /\ p[h].op \in {"if", "match"}
    <3>1. TypeFits(p, m, k + 1, v, w)
      BY <2>2, EndTypes
    <3>2. Known(p, m, k) = k + 1
      BY <2>2 DEF Known, OfHead
    <3>. QED
      BY <2>1, <3>1, <3>2 DEF TypesFit, FramesFit
  <2>3. CASE ~ (p[k].op = "end" /\ p[h].op \in {"if", "match"})
    <3>1. Known(p, m, k) = k
      BY <1>2, <2>3 DEF Known, OfHead, Arms
    <3>. QED
      BY <2>1, <3>1 DEF TypesFit, FramesFit
  <2>. QED
    BY <2>2, <2>3
<1>. QED
  BY <1>1, <1>2

(* From a token to the one behind it. *)
LEMMA PlainTypes ==
    ASSUME NEW p, NEW m, Consistent(p, m), Depth(m, Len(p) + 1) = 0, NEW n \in 1 .. Len(p),
           p[n].op \in PlainOps \ {"member"}, n + 1 \in 1 .. Len(p),
           NEW v, NEW w, WroteAt(p, w), w # n, TypesFit(p, m, n, v, w),
           v \in m[n].type => v \in m[n + 1].type
    PROVE  TypesFit(p, m, Arrived(p, m, n + 1), v, w)
<1>. DEFINE k == n + 1
<1>1. Depth(m, n) \in Nat /\ Depth(m, n) >= 1
  BY InABlock
<1>2. /\ Depth(m, k) = Depth(m, n)
      /\ \A i \in 1 .. Depth(m, n) : Open(m, k, i) = Open(m, n, i)
  BY Onward
<1>3. Known(p, m, n) = n /\ p[n].op # "branch"
  BY DEF Known, PlainOps
<1>4. TypeFits(p, m, n, v, w) /\ FramesFit(p, m, n, v, w)
  BY <1>1, <1>3 DEF TypesFit, FramesFit
<1>5. FramesFit(p, m, k, v, w)
  BY <1>1, <1>2, <1>4 DEF FramesFit
<1>6. /\ Excused(m, n, w) => Excused(m, k, w)
      /\ NullIn(p, m, n, v) => NullIn(p, m, k, v)
  BY <1>1, <1>2, ExcusedPlain, NullStays
<1>7. TypeFits(p, m, k, v, w)
  BY <1>4, <1>6, FitsOrExcused
<1>8. Depth(m, k) >= 1 /\ k \in 1 .. Len(p)
  BY <1>1, <1>2
<1>9. Arrived(p, m, k) = Arrived(p, m, n + 1)
  OBVIOUS
<1>. HIDE DEF k
<1>10. TypesFit(p, m, Arrived(p, m, k), v, w)
  BY <1>5, <1>7, <1>8, ArrivesTyped
<1>. QED
  BY <1>9, <1>10

(* s is assigned: nothing is known of it, and nothing claimed.             *)
LEMMA AssignedTypes ==
    ASSUME NEW p, NEW m, Consistent(p, m), Depth(m, Len(p) + 1) = 0, NEW n \in 1 .. Len(p),
           p[n].op = "assign", p[n].on = "s", n + 1 \in 1 .. Len(p), NEW v \in Types
    PROVE  TypesFit(p, m, Arrived(p, m, n + 1), v, n)
<1>. DEFINE k == n + 1
<1>0. n \in Nat /\ WroteAt(p, n) /\ n \in 1 .. Len(p) + 1
  BY LenProperties DEF WroteAt, Consistent
<1>1. Depth(m, n) \in Nat /\ Depth(m, n) >= 1
  BY InABlock DEF PlainOps
<1>2. /\ Depth(m, k) = Depth(m, n)
      /\ \A i \in 1 .. Depth(m, n) : Open(m, k, i) = Open(m, n, i)
  BY Onward DEF PlainOps
<1>3. m[k].type = Types
  <2>1. AssignmentAt(p, n, m[n], m[k])
    BY Onward, StepOf
  <2>2. \A s, type, how : PlainAt(p, m[n], m[k], s, type, how) => m[k].type = type
    BY DEF PlainAt
  <2>. QED
    BY <2>1, <2>2 DEF AssignmentAt
<1>4. TypeFits(p, m, k, v, n)
  BY <1>3 DEF TypeFits
<1>5. FramesFit(p, m, k, v, n)
  <2>1. SUFFICES ASSUME NEW i \in 2 .. Depth(m, n) PROVE TypeFits(p, m, Open(m, n, i).head, v, n)
    BY <1>1, <1>2 DEF FramesFit
  <2>2. i \in 1 .. Depth(m, n)
    BY <1>1
  <2>3. Open(m, n, i).head \in 1 .. n - 1
    BY <1>0, <2>2, FrameIs
  <2>4. n >= Open(m, n, i).head
    BY <1>0, <2>3
  <2>. QED
    BY <2>4 DEF TypeFits
<1>8. Depth(m, k) >= 1 /\ k \in 1 .. Len(p)
  BY <1>1, <1>2
<1>9. Arrived(p, m, k) = Arrived(p, m, n + 1)
  OBVIOUS
<1>. HIDE DEF k
<1>10. TypesFit(p, m, Arrived(p, m, k), v, n)
  BY <1>0, <1>4, <1>5, <1>8, ArrivesTyped
<1>. QED
  BY <1>9, <1>10

(* A statement is entered: what was claimed at its head is claimed of it.  *)
LEMMA FramesOfHead ==
    ASSUME NEW p, NEW m, Consistent(p, m), NEW n \in 1 .. Len(p), p[n].op \in Heads \ {"func"},
           NEW v, NEW w, TypesFit(p, m, n, v, w)
    PROVE  /\ TypeFits(p, m, n, v, w) /\ FramesFit(p, m, n, v, w)
           /\ FramesFit(p, m, n + 1, v, w)
           /\ Depth(m, n) \in Nat /\ Depth(m, n) >= 1 /\ Depth(m, n + 1) = Depth(m, n) + 1
           /\ Open(m, n + 1, Depth(m, n) + 1).head = n
           /\ \A i \in 1 .. Depth(m, n) : Open(m, n + 1, i) = Open(m, n, i)
<1>1. Depth(m, n) \in Nat /\ Depth(m, n) >= 1
  BY InABlock
<1>2. /\ Depth(m, n + 1) = Depth(m, n) + 1
      /\ Open(m, n + 1, Depth(m, n) + 1) = Opened(p[n], n, m[n])
      /\ \A i \in 1 .. Depth(m, n) : Open(m, n + 1, i) = Open(m, n, i)
  BY Onward
<1>3. Open(m, n + 1, Depth(m, n) + 1).head = n
  BY <1>2 DEF Opened
<1>4. Known(p, m, n) = n /\ p[n].op # "branch"
  BY DEF Known, Heads
<1>5. TypeFits(p, m, n, v, w) /\ FramesFit(p, m, n, v, w)
  BY <1>1, <1>4 DEF TypesFit, FramesFit
<1>6. FramesFit(p, m, n + 1, v, w)
  <2>1. SUFFICES ASSUME NEW i \in 2 .. Depth(m, n + 1) PROVE TypeFits(p, m, Open(m, n + 1, i).head, v, w)
    BY DEF FramesFit
  <2>2. CASE i = Depth(m, n) + 1
    BY <1>3, <1>5, <2>2
  <2>3. CASE i # Depth(m, n) + 1
    <3>1. i \in 2 .. Depth(m, n) /\ i \in 1 .. Depth(m, n)
      BY <1>1, <1>2, <2>3
    <3>. QED
      BY <1>2, <1>5, <3>1 DEF FramesFit
  <2>. QED
    BY <2>2, <2>3
<1>. QED
  BY <1>1, <1>2, <1>3, <1>5, <1>6

(* What s holds fits in a block if it fits the type that is known there, *)
LEMMA HeadTypes ==
    ASSUME NEW p, NEW m, Consistent(p, m), Depth(m, Len(p) + 1) = 0, NEW n \in 1 .. Len(p),
           p[n].op \in Heads \ {"func"}, n + 1 \in 1 .. Len(p),
           NEW v, NEW w, WroteAt(p, w), TypesFit(p, m, n, v, w),
           v \in m[n].type => v \in m[n + 1].type
    PROVE  TypesFit(p, m, Arrived(p, m, n + 1), v, w)
<1>. DEFINE k == n + 1
<1>1. /\ TypeFits(p, m, n, v, w) /\ FramesFit(p, m, k, v, w)
      /\ Depth(m, n) \in Nat /\ Depth(m, k) = Depth(m, n) + 1
  BY FramesOfHead
<1>2. /\ Excused(m, n, w) => Excused(m, k, w)
      /\ NullIn(p, m, n, v) => NullIn(p, m, k, v)
  <2>1. \A i \in 1 .. Depth(m, n) : Open(m, k, i) = Open(m, n, i)
    BY FramesOfHead
  <2>2. Depth(m, k) \in Nat /\ Depth(m, n) <= Depth(m, k)
    BY <1>1
  <2>3. NullIn(p, m, n, v) => NullIn(p, m, k, v)
    BY <1>1, <2>1, <2>2, NullStays
  <2>. QED
    BY <2>3, ExcusedHead
<1>3. TypeFits(p, m, k, v, w)
  BY <1>1, <1>2, FitsOrExcused
<1>4. Depth(m, k) >= 1 /\ k \in 1 .. Len(p)
  BY <1>1
<1>5. Arrived(p, m, k) = Arrived(p, m, n + 1)
  OBVIOUS
<1>. HIDE DEF k
<1>6. TypesFit(p, m, Arrived(p, m, k), v, w)
  BY <1>1, <1>3, <1>4, ArrivesTyped
<1>. QED
  BY <1>5, <1>6

(* ... at the first pattern of a match, *)
LEMMA MatchTypes ==
    ASSUME NEW p, NEW m, Consistent(p, m), NEW n \in 1 .. Len(p), p[n].op = "match",
           n + 1 \in 1 .. Len(p), NEW v, NEW w, TypesFit(p, m, n, v, w)
    PROVE  TypesFit(p, m, n + 1, v, w)
<1>0. p[n].op \in Heads \ {"func"}
  BY DEF Heads
<1>1. /\ FramesFit(p, m, n + 1, v, w)
      /\ Depth(m, n) \in Nat /\ Depth(m, n + 1) = Depth(m, n) + 1
  BY <1>0, FramesOfHead
<1>2. Depth(m, n + 1) > 0 /\ n < Len(p)
  BY <1>1, LenProperties DEF Consistent
<1>3. p[n + 1].op = "branch"
  BY <1>2, HasArm
<1>. QED
  BY <1>1, <1>3 DEF TypesFit, FramesFit

(* At the end of a statement around token n, and behind it. *)
LEMMA EndForTypes ==
    ASSUME NEW p, NEW m, Consistent(p, m), Depth(m, Len(p) + 1) = 0, NEW n \in 1 .. Len(p) + 1,
           NEW i \in 2 .. Depth(m, n), NEW h, h = Open(m, n, i).head,
           NEW v, NEW w, WroteAt(p, w), FramesFit(p, m, n, v, w)
    PROVE  /\ p[h].op \in {"if", "match"} => TypesFit(p, m, EndFor(p, m, h), v, w)
           /\ TypesFit(p, m, Arrived(p, m, EndFor(p, m, h) + 1), v, w)
<1>. DEFINE e == EndFor(p, m, h)
<1>0. i \in 1 .. Depth(m, n) /\ i # 1 /\ Depth(m, n) \in Nat
  BY Around1
<1>1. /\ e \in 1 .. Len(p) /\ p[e].op = "end" /\ Depth(m, e) = i
      /\ Open(m, e, i).head = h
      /\ \A l \in 1 .. i - 1 : Open(m, e, l) = Open(m, n, l)
  BY <1>0, EndForIs
<1>. HIDE DEF e
<1>2. p[h].op # "func"
  BY <1>0, NotAFunction
<1>3. FramesFit(p, m, e, v, w)
  <2>1. \A l \in 1 .. i : Open(m, e, l).head = Open(m, n, l).head
    BY <1>1
  <2>. QED
    BY <1>0, <1>1, <2>1 DEF FramesFit
<1>4. TypeFits(p, m, e + 1, v, w) /\ FramesFit(p, m, e + 1, v, w) /\ Depth(m, e + 1) >= 1
  BY <1>1, <1>2, <1>3, EndTypes
<1>5. p[h].op \in {"if", "match"} => TypesFit(p, m, e, v, w)
  <2>1. p[h].op \in {"if", "match"} => Known(p, m, e) = e + 1
    BY <1>1 DEF Known, OfHead
  <2>. QED
    BY <1>1, <1>3, <1>4, <2>1 DEF TypesFit, FramesFit
<1>6. e + 1 \in 1 .. Len(p)
  BY <1>1, <1>4, NotTheLast
<1>7. TypesFit(p, m, Arrived(p, m, e + 1), v, w)
  <2>. DEFINE k == e + 1
  <2>1. TypeFits(p, m, k, v, w) /\ FramesFit(p, m, k, v, w) /\ Depth(m, k) >= 1 /\ k \in 1 .. Len(p)
    BY <1>4, <1>6
  <2>2. Arrived(p, m, k) = Arrived(p, m, e + 1)
    OBVIOUS
  <2>. HIDE DEF k
  <2>3. TypesFit(p, m, Arrived(p, m, k), v, w)
    BY <2>1, ArrivesTyped
  <2>. QED
    BY <2>2, <2>3
<1>. QED
  BY <1>5, <1>7 DEF e

(* Back at the head of a loop around token n. *)
LEMMA BackTypes ==
    ASSUME NEW p, NEW m, Consistent(p, m), NEW n \in 1 .. Len(p) + 1,
           NEW i \in 1 .. Depth(m, n), NEW h, h = Open(m, n, i).head, p[h].op \in Loops,
           NEW v, NEW w, FramesFit(p, m, n, v, w)
    PROVE  TypesFit(p, m, h, v, w)
<1>1. Depth(m, n) \in Nat
  BY Around1
<1>2. i # 1
  BY NotAFunction DEF Loops
<1>3. i \in 2 .. Depth(m, n)
  BY <1>1, <1>2
<1>4. /\ h \in 1 .. n - 1 /\ Depth(m, h) = i - 1
      /\ \A k \in h + 1 .. n : \A j \in 1 .. i - 1 : Open(m, k, j) = Open(m, h, j)
  BY FrameIs
<1>5. n \in h + 1 .. n
  BY <1>4
<1>6. FramesFit(p, m, h, v, w)
  BY <1>1, <1>3, <1>4, <1>5 DEF FramesFit
<1>7. TypeFits(p, m, h, v, w)
  BY <1>3 DEF FramesFit
<1>8. Known(p, m, h) = h
  BY DEF Known, Loops
<1>. QED
  BY <1>6, <1>7, <1>8 DEF TypesFit, FramesFit

(* A branch is taken, ... *)
LEMMA BranchTypes ==
    ASSUME NEW p, NEW m, Consistent(p, m), Depth(m, Len(p) + 1) = 0, NEW n \in 1 .. Len(p),
           p[n].op = "branch", n + 1 \in 1 .. Len(p),
           NEW v, NEW w, WroteAt(p, w), TypesFit(p, m, n, v, w),
           NEW h, h = Open(m, n, Depth(m, n)).head,
           v \in m[h].type => v \in m[n + 1].type \/ NullIn(p, m, n + 1, v)
    PROVE  TypesFit(p, m, Arrived(p, m, n + 1), v, w)
<1>. DEFINE k == n + 1
            D == Depth(m, n)
<1>1. D \in Nat /\ D >= 2 /\ Depth(m, k) = D
  BY ArmDepth DEF Arms
<1>2. /\ NextArm(Open(m, n, D), Open(m, k, D), n)
      /\ \A i \in 1 .. D - 1 : Open(m, k, i) = Open(m, n, i)
  BY Onward DEF Arms
<1>3. \A i \in 1 .. D : Open(m, k, i).head = Open(m, n, i).head
  BY <1>1, <1>2 DEF NextArm
<1>4. FramesFit(p, m, n, v, w)
  BY DEF TypesFit, FramesFit
<1>5. FramesFit(p, m, k, v, w)
  BY <1>1, <1>3, <1>4 DEF FramesFit
<1>6. TypeFits(p, m, h, v, w)
  BY <1>1, <1>4 DEF FramesFit
<1>7. /\ Excused(m, h, w) => Excused(m, k, w)
      /\ NullIn(p, m, h, v) => NullIn(p, m, k, v)
  BY ExcusedArm, NullInArm DEF Arms
<1>8. TypeFits(p, m, k, v, w)
  BY <1>6, <1>7, FitsOrExcused
<1>9. Depth(m, k) >= 1 /\ k \in 1 .. Len(p)
  BY <1>1
<1>10. Arrived(p, m, k) = Arrived(p, m, n + 1)
  OBVIOUS
<1>. HIDE DEF k
<1>11. TypesFit(p, m, Arrived(p, m, k), v, w)
  BY <1>5, <1>8, <1>9, ArrivesTyped
<1>. QED
  BY <1>10, <1>11

(* ... or not. *)
LEMMA NextBranchTypes ==
    ASSUME NEW p, NEW m, Consistent(p, m), NEW n \in 1 .. Len(p), p[n].op = "branch",
           NEW v, NEW w, TypesFit(p, m, n, v, w),
           NEW k \in 1 .. Len(p), p[k].op \in Arms, Open(m, k, Depth(m, k)).arm = n
    PROVE  p[k].op = "branch" /\ TypesFit(p, m, k, v, w)
<1>. DEFINE D == Depth(m, n)
            h == Open(m, n, D).head
<1>1. /\ n < k /\ Depth(m, k) = D /\ Open(m, k, Depth(m, k)).head = h
  BY NextArmOf DEF Arms
<1>2. D \in Nat /\ D >= 2
  BY ArmDepth DEF Arms
<1>3. D \in 1 .. D /\ n \in 1 .. Len(p) + 1 /\ k \in 1 .. Len(p) + 1
  BY <1>2, LenProperties DEF Consistent
<1>4. /\ h \in 1 .. n - 1
      /\ \A j \in h + 1 .. n : \A l \in 1 .. D - 1 : Open(m, j, l) = Open(m, h, l)
  BY <1>3, FrameIs
<1>5. \A j \in h + 1 .. k : \A l \in 1 .. D - 1 : Open(m, j, l) = Open(m, h, l)
  BY <1>1, <1>3, FrameIs
<1>6. n \in h + 1 .. n /\ k \in h + 1 .. k
  BY <1>1, <1>4
<1>7. \A l \in 1 .. D - 1 : Open(m, k, l) = Open(m, n, l)
  BY <1>4, <1>5, <1>6
<1>8. \A l \in 1 .. D : Open(m, k, l).head = Open(m, n, l).head
  BY <1>1, <1>2, <1>7
<1>9. FramesFit(p, m, k, v, w)
  BY <1>1, <1>2, <1>8 DEF TypesFit, FramesFit
<1>10. p[h].op = "match"
  BY BranchFrame
<1>11. p[k].op = "branch"
  BY <1>1, <1>10, ElseFrame DEF Arms
<1>. QED
  BY <1>9, <1>11 DEF TypesFit, FramesFit

(* The test of an if failed. *)
LEMMA ElseTypes ==
    ASSUME NEW p, NEW m, Consistent(p, m), Depth(m, Len(p) + 1) = 0, NEW n \in 1 .. Len(p),
           p[n].op = "if", NEW v, NEW w, WroteAt(p, w), TypesFit(p, m, n, v, w),
           NEW k \in 1 .. Len(p), p[k].op = "else", Open(m, k, Depth(m, k)).arm = n,
           k + 1 \in 1 .. Len(p),
           v \in m[n].type => v \in m[k + 1].type
    PROVE  TypesFit(p, m, k + 1, v, w)
<1>0. p[n].op \in Heads \ {"func"} /\ p[k].op \in Arms
  BY DEF Heads, Arms
<1>1. /\ TypeFits(p, m, n, v, w) /\ FramesFit(p, m, n, v, w)
      /\ Depth(m, n) \in Nat /\ Depth(m, n) >= 1
  BY <1>0, FramesOfHead
<1>. DEFINE D == Depth(m, k)
            q == k + 1
<1>2. /\ n < k /\ Open(m, k, D).head = n /\ D = Depth(m, n) + 1
  BY <1>0, NextArmOf
<1>3. D \in Nat /\ D \in 1 .. D /\ k \in 1 .. Len(p) + 1
  BY <1>1, <1>2, LenProperties DEF Consistent
<1>4. /\ Depth(m, q) = D
      /\ NextArm(Open(m, k, D), Open(m, q, D), k)
      /\ \A i \in 1 .. D - 1 : Open(m, q, i) = Open(m, k, i)
  BY <1>0, Onward
<1>5. \A j \in n + 1 .. k : \A l \in 1 .. D - 1 : Open(m, j, l) = Open(m, n, l)
  BY <1>2, <1>3, FrameIs
<1>6. \A l \in 1 .. D - 1 : Open(m, k, l) = Open(m, n, l)
  <2>1. k \in n + 1 .. k
    BY <1>2
  <2>. QED
    BY <1>5, <2>1
<1>7. FramesFit(p, m, q, v, w)
  <2>1. SUFFICES ASSUME NEW i \in 2 .. D PROVE TypeFits(p, m, Open(m, q, i).head, v, w)
    BY <1>4 DEF FramesFit
  <2>2. CASE i = D
    BY <1>1, <1>2, <1>4, <2>2 DEF NextArm
  <2>3. CASE i # D
    <3>1. i \in 2 .. Depth(m, n) /\ i \in 1 .. D - 1
      BY <1>1, <1>2, <2>3
    <3>. QED
      BY <1>1, <1>4, <1>6, <3>1 DEF FramesFit
  <2>. QED
    BY <2>2, <2>3
<1>8. /\ Excused(m, n, w) => Excused(m, q, w)
      /\ NullIn(p, m, n, v) => NullIn(p, m, q, v)
  BY <1>0, <1>2, ExcusedArm, NullInArm
<1>9. TypeFits(p, m, q, v, w)
  BY <1>1, <1>8, FitsOrExcused
<1>10. Depth(m, q) >= 1 /\ q \in 1 .. Len(p)
  BY <1>1, <1>2, <1>4
<1>11. p[q].op \notin Arms
  <2>1. p[Open(m, q, Depth(m, q)).head].op = "if" /\ Open(m, q, Depth(m, q)).arms = 2
    <3>1. Open(m, q, D).arms = 2
      BY ElseFrame
    <3>. QED
      BY <1>2, <1>4, <3>1 DEF NextArm
  <2>. HIDE DEF q
  <2>2. p[q].op # "else"
    BY <1>10, <2>1, ElseFrame
  <2>3. p[q].op # "branch"
    BY <1>10, <2>1, BranchFrame
  <2>. QED
    BY <2>2, <2>3 DEF Arms
<1>12. Arrived(p, m, q) = q
  BY <1>11 DEF Arrived
<1>13. TypesFit(p, m, Arrived(p, m, q), v, w)
  <2>. HIDE DEF q
  <2>. QED
    BY <1>7, <1>9, <1>10, ArrivesTyped
<1>. QED
  BY <1>12, <1>13

(* What a test lets through is of the type the test narrows to. *)
LEMMA NarrowingHolds ==
    ASSUME NEW type \in SUBSET Types, value \in type, NEW cond
    PROVE  \A holds \in Outcomes(cond) : value \in Narrowed(type, cond, holds)
<1>. SUFFICES ASSUME NEW holds \in Outcomes(cond) PROVE value \in Narrowed(type, cond, holds)
  OBVIOUS
<1>1. value # "null" => value \in NotNull(type)
  BY DEF NotNull
<1>2. value # "a" => value \in OtherThan(type)
  BY DEF OtherThan
<1>3. CASE cond = "not_null"
  BY <1>1, <1>3 DEF Outcomes, Narrowed
<1>4. CASE cond = "is_null"
  BY <1>1, <1>4 DEF Outcomes, Narrowed
<1>5. CASE cond = "not_null_and"
  BY <1>1, <1>5 DEF Outcomes, Narrowed
<1>6. CASE cond = "is"
  BY <1>2, <1>6 DEF Outcomes, Narrowed
<1>7. CASE cond = "is_not"
  BY <1>2, <1>7 DEF Outcomes, Narrowed
<1>8. CASE cond \notin {"not_null", "is_null", "not_null_and", "is", "is_not"}
  BY <1>8 DEF Narrowed
<1>. QED
  BY <1>3, <1>4, <1>5, <1>6, <1>7, <1>8

(* ... and so is what a branch lets through, but for null in some arms.    *)
LEMMA InArmHolds ==
    ASSUME NEW type \in SUBSET Types, value \in type, NEW n,
           prog[Last(marks[n].blocks).head].on = "s", TRUE \in Matches(n)
    PROVE  \/ value \in NarrowedInArm(type, prog[n].cond)
           \/ value = "null" /\ prog[n].cond \in MayMatchNull
<1>. DEFINE c == prog[n].cond
<1>1. /\ c = "null" => value = "null"
      /\ c = "is" => value = "a"
      /\ c \notin {"wild", "null", "is"} \cup MayMatchNull => value # "null"
  BY DEF Matches
<1>. HIDE DEF c
<1>3. value \in NarrowedInArm(type, c) \/ (value = "null" /\ c \in MayMatchNull)
  BY <1>1 DEF NarrowedInArm, NotNull
<1>. QED
  BY <1>3 DEF c

(* The type of s behind a token that does not test or assign it. *)
LEMMA TypeGoesOn ==
    ASSUME NEW p, NEW m, Consistent(p, m), NEW n \in 1 .. Len(p)
    PROVE  /\ m[n].type \in SUBSET Types
           /\ p[n].op \in {"use", "var", "for", "match"} => m[n + 1].type = m[n].type
           /\ p[n].op = "assign" /\ p[n].on # "s" => m[n + 1].type = m[n].type
           /\ p[n].op = "func" => m[n + 1].type = Types
<1>1. m[n] \in Marks /\ StepAt(p, n, m[n], m[n + 1])
  BY Onward
<1>2. \A s, type, how : PlainAt(p, m[n], m[n + 1], s, type, how) => m[n + 1].type = type
  BY DEF PlainAt
<1>3. \A s, type : OpensAt(p, n, m[n], m[n + 1], s, type) => m[n + 1].type = type
  BY DEF OpensAt
<1>4. p[n].op = "use" => m[n + 1].type = m[n].type
  BY <1>1, <1>2, StepOf DEF UseAt
<1>5. p[n].op = "var" => m[n + 1].type = m[n].type
  BY <1>1, <1>2, StepOf DEF VarAt
<1>6. p[n].op = "assign" /\ p[n].on # "s" => m[n + 1].type = m[n].type
  <2>1. ASSUME p[n].op = "assign", p[n].on # "s" PROVE m[n + 1].type = m[n].type
    <3>1. AssignmentAt(p, n, m[n], m[n + 1])
      BY <1>1, <2>1, StepOf
    <3>. DEFINE r == IF p[n].on \in TrackedAt(p, m[n]) THEN Assigned(m[n].state, p[n].on) ELSE m[n].state
    <3>2. PlainAt(p, m[n], m[n + 1], r, IF p[n].on = "s" THEN Types ELSE m[n].type, FallsThrough)
      BY <3>1 DEF AssignmentAt
    <3>3. (IF p[n].on = "s" THEN Types ELSE m[n].type) = m[n].type
      BY <2>1
    <3>. HIDE DEF r
    <3>. QED
      BY <1>2, <3>2, <3>3
  <2>. QED
    BY <2>1
<1>7. p[n].op \in {"for", "match"} => m[n + 1].type = m[n].type
  BY <1>1, <1>3, StepOf DEF HeadAt
<1>8. p[n].op = "func" => m[n + 1].type = Types
  BY <1>1, <1>3, StepOf DEF FuncAt
<1>. QED
  BY <1>1, <1>4, <1>5, <1>6, <1>7, <1>8 DEF Marks

(* The type of s behind a test that held. *)
LEMMA TypeNarrowed ==
    ASSUME NEW p, NEW m, Consistent(p, m), NEW n \in 1 .. Len(p), p[n].op \in {"if", "while", "assert"}
    PROVE  m[n + 1].type = Narrowed(m[n].type, p[n].cond, TRUE)
<1>. DEFINE narrowed == Narrowed(m[n].type, p[n].cond, TRUE)
<1>1. \A s, type, how : PlainAt(p, m[n], m[n + 1], s, type, how) => m[n + 1].type = type
  BY DEF PlainAt
<1>2. \A s, type : OpensAt(p, n, m[n], m[n + 1], s, type) => m[n + 1].type = type
  BY DEF OpensAt
<1>3. p[n].op = "assert" => AssertAt(p, n, m[n], m[n + 1])
  BY Onward, StepOf
<1>4. p[n].op \in {"if", "while"} => HeadAt(p, n, m[n], m[n + 1])
  BY Onward, StepOf
<1>5. p[n].op = "assert" => \E s, how : PlainAt(p, m[n], m[n + 1], s, narrowed, how)
  BY <1>3, Zenon DEF AssertAt
<1>6. p[n].op \in {"if", "while"} => \E s : OpensAt(p, n, m[n], m[n + 1], s, narrowed)
  <2>1. SUFFICES ASSUME p[n].op \in {"if", "while"} PROVE OpensAt(p, n, m[n], m[n + 1], m[n].state, narrowed)
    OBVIOUS
  <2>2. OpensAt(p, n, m[n], m[n + 1], m[n].state,
               IF p[n].op \in {"if", "while"} THEN Narrowed(m[n].type, p[n].cond, TRUE) ELSE m[n].type)
    BY <1>4, <2>1, Zenon DEF HeadAt
  <2>. QED
    BY <2>1, <2>2, Zenon
<1>. HIDE DEF narrowed
<1>7. m[n + 1].type = narrowed
  BY <1>1, <1>2, <1>5, <1>6
<1>. QED
  BY <1>7 DEF narrowed

(* Behind a statement its function goes on. *)
LEMMA GoesOnInside ==
    ASSUME NEW p, NEW m, Consistent(p, m), Depth(m, Len(p) + 1) = 0, NEW n \in 1 .. Len(p),
           p[n].op \in (PlainOps \ {"member"}) \cup Heads \cup Arms
    PROVE  Depth(m, n + 1) \in Nat /\ Depth(m, n + 1) >= 1 /\ n + 1 \in 1 .. Len(p) /\ n \in Nat
<1>1. n \in Nat
  BY LenProperties DEF Consistent
<1>2. Depth(m, n + 1) \in Nat /\ Depth(m, n + 1) >= 1
  <2>1. CASE p[n].op \in PlainOps \ {"member"}
    BY <2>1, InABlock, Onward
  <2>2. CASE p[n].op \in Heads
    BY <2>2, Onward
  <2>3. CASE p[n].op \in Arms
    BY <2>3, Onward
  <2>. QED
    BY <2>1, <2>2, <2>3
<1>3. n + 1 \in 1 .. Len(p)
  BY <1>2, NotTheLast
<1>. QED
  BY <1>1, <1>2, <1>3

(* What is known of s is known behind what is run, too. *)
TypesNext ==
    /\ wrote' # 0 => wrote' \in 1 .. Len(prog) /\ prog[wrote'].op = "assign" /\ prog[wrote'].on = "s"
    /\ pc' \in 1 .. Len(prog) => TypesFit(prog, Marked, pc', value', wrote')

(* What is known of s while the class is run. *)
LEMMA TypeWalking ==
    ASSUME Walks, TypeIInv
    PROVE  /\ Consistent(prog, Marked) /\ Depth(Marked, Len(prog) + 1) = 0
           /\ Len(prog) \in Nat
           /\ \A n \in 1 .. Len(prog) : marks[n] = Marked[n]
           /\ pc \in 1 .. Len(prog) /\ pc \in Nat /\ pc # 0
           /\ value \in Types /\ wrote \in Nat
           /\ wrote # 0 => wrote \in 1 .. Len(prog) /\ prog[wrote].op = "assign" /\ prog[wrote].on = "s"
           /\ WroteAt(prog, wrote)
           /\ TypesFit(prog, Marked, pc, value, wrote)
<1>1. TypesFit(prog, Marked, pc, value, wrote)
  BY DEF Walks, TypeIInv
<1>. QED
  BY <1>1, Walking DEF TypeIInv, WroteAt

(* What is known of s is true behind a member, *)
LEMMA MemberTypes ==
    ASSUME Walks, TypeIInv, RunMember
    PROVE  TypesNext
<1>0. /\ Consistent(prog, Marked) /\ pc \in 1 .. Len(prog)
      /\ wrote # 0 => wrote \in 1 .. Len(prog) /\ prog[wrote].op = "assign" /\ prog[wrote].on = "s"
  BY TypeWalking
<1>1. prog[pc].op = "member" /\ pc' = pc + 1 /\ value' = value /\ wrote' = wrote
  BY DEF RunMember, At
<1>2. Depth(Marked, pc + 1) = 0
  <2>1. Depth(Marked, pc) = 0
    BY <1>0, <1>1, MembersFirst
  <2>. QED
    BY <1>0, <1>1, <2>1, Onward DEF PlainOps
<1>3. TypesFit(prog, Marked, pc + 1, value, wrote)
  BY <1>2 DEF TypesFit
<1>. QED
  BY <1>0, <1>1, <1>3 DEF TypesNext

(* ... a function, *)
LEMMA FuncTypes ==
    ASSUME Walks, TypeIInv, RunFunc
    PROVE  TypesNext
<1>0. /\ Consistent(prog, Marked) /\ Depth(Marked, Len(prog) + 1) = 0
      /\ pc \in 1 .. Len(prog) /\ pc \in Nat
  BY TypeWalking
<1>1. prog[pc].op = "func" /\ pc' = pc + 1 /\ value' \in Types /\ wrote' = 0
  BY DEF RunFunc, At
<1>2. prog[pc].op \in Heads
  BY <1>1 DEF Heads
<1>3. Depth(Marked, pc) = 0
  BY <1>0, <1>1, FuncOutside
<1>. DEFINE q == pc + 1
            f == Open(Marked, q, 1)
<1>4. Depth(Marked, q) = 1 /\ f.head = pc
  <2>1. Depth(Marked, q) = 1 /\ f = Opened(prog[pc], pc, Marked[pc])
    BY <1>0, <1>2, <1>3, Onward
  <2>. QED
    BY <2>1 DEF Opened
<1>5. q \in 1 .. Len(prog) /\ Depth(Marked, q) >= 1
  BY <1>0, <1>2, <1>4, NotTheLast
<1>6. Marked[q].type = Types
  BY <1>0, <1>1, TypeGoesOn
<1>. HIDE DEF q
<1>7. Known(prog, Marked, q) = q
  <2>1. prog[q].op # "branch"
    BY <1>0, <1>1, <1>4, <1>5, BranchFrame
  <2>2. OfHead(prog, Marked, q).op = "func"
    BY <1>1, <1>4 DEF OfHead
  <2>. QED
    BY <2>1, <2>2 DEF Known
<1>8. TypesFit(prog, Marked, q, value', 0)
  BY <1>1, <1>4, <1>6, <1>7 DEF TypesFit, TypeFits
<1>. QED
  BY <1>1, <1>8 DEF TypesNext, q

(* ... an assignment or a declaration, *)
LEMMA AssignmentTypes ==
    ASSUME Walks, TypeIInv, RunAssignment
    PROVE  TypesNext
<1>0. /\ Consistent(prog, Marked) /\ Depth(Marked, Len(prog) + 1) = 0
      /\ pc \in 1 .. Len(prog) /\ pc \in Nat
      /\ wrote # 0 => wrote \in 1 .. Len(prog) /\ prog[wrote].op = "assign" /\ prog[wrote].on = "s"
      /\ WroteAt(prog, wrote)
      /\ TypesFit(prog, Marked, pc, value, wrote)
  BY TypeWalking
<1>. DEFINE t == prog[pc]
<1>1. t.op \in {"assign", "var"} /\ pc' = Behind(pc)
  BY DEF RunAssignment, At
<1>2. /\ t.on = "s" => value' \in Types /\ wrote' = pc
      /\ t.on # "s" => value' = value /\ wrote' = wrote
  BY DEF RunAssignment, Here
<1>3. t.op = "var" => t.on # "s"
  BY <1>0, Texted DEF TokenOK, Locals
<1>4. Depth(Marked, pc + 1) >= 1 /\ pc + 1 \in 1 .. Len(prog)
  BY <1>0, <1>1, GoesOnInside DEF PlainOps
<1>5. Behind(pc) = Arrived(prog, Marked, pc + 1)
  BY <1>0, <1>4, BehindIs DEF Walks
<1>6. CASE t.on = "s"
  <2>1. t.op = "assign"
    BY <1>1, <1>3, <1>6
  <2>2. TypesFit(prog, Marked, Arrived(prog, Marked, pc + 1), value', pc)
    BY <1>0, <1>2, <1>4, <1>6, <2>1, AssignedTypes
  <2>. QED
    BY <1>0, <1>1, <1>2, <1>5, <1>6, <2>1, <2>2 DEF TypesNext
<1>7. CASE t.on # "s"
  <2>1. wrote # pc
    BY <1>0, <1>7
  <2>2. Marked[pc + 1].type = Marked[pc].type
    BY <1>0, <1>1, <1>7, TypeGoesOn
  <2>3. t.op \in PlainOps \ {"member"}
    BY <1>1 DEF PlainOps
  <2>4. TypesFit(prog, Marked, Arrived(prog, Marked, pc + 1), value, wrote)
    BY <1>0, <1>4, <2>1, <2>2, <2>3, PlainTypes
  <2>. QED
    BY <1>0, <1>1, <1>2, <1>5, <1>7, <2>4 DEF TypesNext
<1>. QED
  BY <1>6, <1>7

(* ... an expression or an assertion that held, *)
LEMMA UseTypes ==
    ASSUME Walks, TypeIInv, RunUse \/ RunAssert
    PROVE  TypesNext
<1>0. /\ Consistent(prog, Marked) /\ Depth(Marked, Len(prog) + 1) = 0
      /\ pc \in 1 .. Len(prog) /\ pc \in Nat /\ Len(prog) \in Nat
      /\ wrote # 0 => wrote \in 1 .. Len(prog) /\ prog[wrote].op = "assign" /\ prog[wrote].on = "s"
      /\ WroteAt(prog, wrote)
      /\ TypesFit(prog, Marked, pc, value, wrote)
  BY TypeWalking
<1>1. prog[pc].op \in {"use", "assert"} /\ value' = value /\ wrote' = wrote
  BY DEF RunUse, RunAssert, At
<1>2. /\ Depth(Marked, pc + 1) >= 1 /\ pc + 1 \in 1 .. Len(prog)
      /\ prog[pc].op \in PlainOps \ {"member"}
  BY <1>0, <1>1, GoesOnInside DEF PlainOps
<1>3. Behind(pc) = Arrived(prog, Marked, pc + 1)
  BY <1>0, <1>2, BehindIs DEF Walks
<1>4. wrote # pc
  BY <1>0, <1>1
<1>5. CASE prog[pc].op = "use"
  <2>1. Marked[pc + 1].type = Marked[pc].type
    BY <1>0, <1>5, TypeGoesOn
  <2>2. TypesFit(prog, Marked, Arrived(prog, Marked, pc + 1), value, wrote)
    BY <1>0, <1>2, <1>4, <2>1, PlainTypes
  <2>3. pc' = Behind(pc)
    BY <1>5 DEF RunUse, RunAssert, At
  <2>. QED
    BY <1>0, <1>1, <1>3, <2>2, <2>3 DEF TypesNext
<1>6. CASE prog[pc].op = "assert"
  <2>1. PICK holds \in Outcomes(prog[pc].cond) : pc' = IF holds THEN Behind(pc) ELSE Finished
    BY <1>6 DEF RunUse, RunAssert, At, Here
  <2>2. holds = TRUE \/ holds = FALSE
    BY OutcomesAre
  <2>3. CASE holds = FALSE
    <3>1. pc' \notin 1 .. Len(prog)
      BY <1>0, <2>1, <2>3 DEF Finished
    <3>. QED
      BY <1>0, <1>1, <3>1 DEF TypesNext
  <2>4. CASE holds = TRUE
    <3>0. Marked[pc].type \in SUBSET Types
      BY <1>0, TypeGoesOn
    <3>1. Marked[pc + 1].type = Narrowed(Marked[pc].type, prog[pc].cond, TRUE)
      <4>1. prog[pc].op \in {"if", "while", "assert"}
        BY <1>6
      <4>. QED
        BY <1>0, <4>1, TypeNarrowed, Zenon
    <3>2. value \in Marked[pc].type => value \in Marked[pc + 1].type
      <4>. SUFFICES ASSUME value \in Marked[pc].type PROVE value \in Marked[pc + 1].type
        OBVIOUS
      <4>1. \A how \in Outcomes(prog[pc].cond) : value \in Narrowed(Marked[pc].type, prog[pc].cond, how)
        BY <3>0, NarrowingHolds
      <4>. DEFINE narrowed == Narrowed(Marked[pc].type, prog[pc].cond, TRUE)
      <4>2. TRUE \in Outcomes(prog[pc].cond)
        BY <2>1, <2>4, Zenon
      <4>3. value \in narrowed
        BY <4>1, <4>2, Zenon
      <4>4. Marked[pc + 1].type = narrowed
        BY <3>1, Zenon
      <4>. HIDE DEF narrowed
      <4>. QED
        BY <4>3, <4>4
    <3>3. TypesFit(prog, Marked, Arrived(prog, Marked, pc + 1), value, wrote)
      BY <1>0, <1>2, <1>4, <3>2, PlainTypes
    <3>. QED
      BY <1>0, <1>1, <1>3, <2>1, <2>4, <3>3 DEF TypesNext
  <2>. QED
    BY <2>2, <2>3, <2>4
<1>. QED
  BY <1>1, <1>5, <1>6

(* The arm of an if that control passes to. *)
LEMMA FailedIfTypes ==
    ASSUME Walks, TypeIInv, prog[pc].op = "if", FALSE \in Outcomes(prog[pc].cond)
    PROVE  TypesFit(prog, Marked, Otherwise(pc), value, wrote)
<1>0. /\ Consistent(prog, Marked) /\ Depth(Marked, Len(prog) + 1) = 0
      /\ pc \in 1 .. Len(prog) /\ pc \in Nat /\ Len(prog) \in Nat
      /\ value \in Types
      /\ WroteAt(prog, wrote)
      /\ TypesFit(prog, Marked, pc, value, wrote)
  BY TypeWalking
<1>. DEFINE N == NextArms(pc)
<1>1. N = {k \in 1 .. Len(prog) : prog[k].op \in Arms
                 /\ Open(Marked, k, Depth(Marked, k)).arm = pc}
  BY NextArmsAre DEF Walks
<1>2. CASE N # {}
  <2>. DEFINE k == CHOOSE x \in N : TRUE
  <2>1. k \in N
    BY <1>2
  <2>2. Otherwise(pc) = IF prog[k].op = "branch" THEN k ELSE k + 1
    BY <1>2 DEF Otherwise
  <2>. HIDE DEF k
  <2>3. k \in 1 .. Len(prog) /\ prog[k].op \in Arms /\ Open(Marked, k, Depth(Marked, k)).arm = pc
    BY <1>1, <2>1
  <2>4. prog[k].op = "else" /\ k + 1 \in 1 .. Len(prog)
    <3>1. Standing(prog, Marked, pc, by, jumped)
      BY Walking
    <3>. QED
      BY <1>0, <2>3, <3>1, ElseStands
  <2>5. value \in Marked[pc].type => value \in Marked[k + 1].type
    <3>1. SUFFICES ASSUME value \in Marked[pc].type PROVE value \in Marked[k + 1].type
      OBVIOUS
    <3>. DEFINE f == Open(Marked, k, Depth(Marked, k))
                cond == prog[pc].cond
                narrowed == Narrowed(Marked[pc].type, cond, FALSE)
    <3>2. f.head = pc
      BY <1>0, <2>3, NextArmOf DEF Heads
    <3>3. f.type = Marked[pc].type
      <4>1. k \in 1 .. Len(prog) + 1 /\ Depth(Marked, k) \in 1 .. Depth(Marked, k)
        BY <1>0, <2>3, Onward
      <4>2. f.type = Marked[f.head].type
        BY <1>0, <4>1, FrameIs
      <4>. QED
        BY <3>2, <4>2
    <3>4. \A g : g = f => Marked[k + 1].type = Narrowed(g.type, prog[g.head].cond, FALSE)
      BY <1>0, <2>3, <2>4, ElseType, Zenon
    <3>5. Marked[k + 1].type = narrowed
      BY <3>2, <3>3, <3>4, Zenon
    <3>6. Marked[pc].type \in SUBSET Types
      BY <1>0, TypeGoesOn
    <3>7. \A how \in Outcomes(cond) : value \in Narrowed(Marked[pc].type, cond, how)
      BY <3>1, <3>6, NarrowingHolds
    <3>8. value \in narrowed
      BY <3>7, Zenon
    <3>. HIDE DEF narrowed
    <3>. QED
      BY <3>5, <3>8
  <2>6. TypesFit(prog, Marked, k + 1, value, wrote)
    BY <1>0, <2>3, <2>4, <2>5, ElseTypes
  <2>. QED
    BY <2>2, <2>4, <2>6
<1>3. CASE N = {}
  <2>1. Otherwise(pc) = EndOf(pc)
    BY <1>3 DEF Otherwise, Loops
  <2>2. prog[pc].op \in Heads \ {"func"} /\ prog[pc].op \in Heads
    BY DEF Heads
  <2>3. EndOf(pc) = EndFor(prog, Marked, pc)
    BY <1>0, <2>2, EndOfHead DEF Walks
  <2>. DEFINE i == Depth(Marked, pc) + 1
              q == pc + 1
  <2>4. /\ q \in 1 .. Len(prog) + 1 /\ i \in 2 .. Depth(Marked, q)
        /\ pc = Open(Marked, q, i).head
        /\ FramesFit(prog, Marked, q, value, wrote)
    <3>1. /\ FramesFit(prog, Marked, pc + 1, value, wrote)
          /\ Depth(Marked, pc) \in Nat /\ Depth(Marked, pc) >= 1
          /\ Depth(Marked, pc + 1) = Depth(Marked, pc) + 1
          /\ Open(Marked, pc + 1, Depth(Marked, pc) + 1).head = pc
      BY <1>0, <2>2, FramesOfHead
    <3>. QED
      BY <1>0, <3>1
  <2>. HIDE DEF i, q
  <2>5. TypesFit(prog, Marked, EndFor(prog, Marked, pc), value, wrote)
    BY <1>0, <2>4, EndForTypes
  <2>. QED
    BY <2>1, <2>3, <2>5
<1>. QED
  BY <1>2, <1>3

(* A loop that is left when its test fails. *)
LEMMA FailedLoopTypes ==
    ASSUME Walks, TypeIInv, prog[pc].op \in Loops, prog[pc].cond # "true"
    PROVE  TypesFit(prog, Marked, Otherwise(pc), value, wrote)
<1>0. /\ Consistent(prog, Marked) /\ Depth(Marked, Len(prog) + 1) = 0
      /\ pc \in 1 .. Len(prog) /\ pc \in Nat /\ Len(prog) \in Nat
      /\ WroteAt(prog, wrote)
      /\ TypesFit(prog, Marked, pc, value, wrote)
  BY TypeWalking
<1>1. NextArms(pc) = {}
  <2>1. \A k \in 1 .. Len(prog) : ~ (prog[k].op \in Arms /\ Open(Marked, k, Depth(Marked, k)).arm = pc)
    BY <1>0, LoopsHaveNoArms
  <2>. QED
    BY <2>1, NextArmsAre DEF Walks
<1>2. prog[pc].op \in Heads \ {"func"} /\ prog[pc].op \in Heads
  BY DEF Heads, Loops
<1>. DEFINE e == EndFor(prog, Marked, pc)
            i == Depth(Marked, pc) + 1
            q == pc + 1
<1>3. EndOf(pc) = e
  BY <1>0, <1>2, EndOfHead DEF Walks
<1>4. /\ q \in 1 .. Len(prog) + 1 /\ i \in 2 .. Depth(Marked, q)
      /\ pc = Open(Marked, q, i).head
      /\ FramesFit(prog, Marked, q, value, wrote)
  <2>1. /\ FramesFit(prog, Marked, pc + 1, value, wrote)
        /\ Depth(Marked, pc) \in Nat /\ Depth(Marked, pc) >= 1
        /\ Depth(Marked, pc + 1) = Depth(Marked, pc) + 1
        /\ Open(Marked, pc + 1, Depth(Marked, pc) + 1).head = pc
    BY <1>0, <1>2, FramesOfHead
  <2>. QED
    BY <1>0, <2>1
<1>. HIDE DEF i, q
<1>5. TypesFit(prog, Marked, Arrived(prog, Marked, e + 1), value, wrote)
  BY <1>0, <1>4, EndForTypes
<1>6. e \in 1 .. Len(prog) /\ e + 1 \in 1 .. Len(prog) /\ Depth(Marked, e + 1) >= 1
  <2>1. Standing(prog, Marked, pc, by, jumped)
    BY Walking
  <2>. QED
    BY <1>0, <2>1, FailedLoopStands
<1>. HIDE DEF e
<1>7. Otherwise(pc) = Behind(e)
  BY <1>1, <1>3 DEF Otherwise, Loops
<1>8. Behind(e) = Arrived(prog, Marked, e + 1)
  BY <1>0, <1>6, BehindIs DEF Walks
<1>. QED
  BY <1>5, <1>7, <1>8

(* ... any test, *)
LEMMA TestTypes ==
    ASSUME Walks, TypeIInv, RunTest
    PROVE  TypesNext
<1>0. /\ Consistent(prog, Marked) /\ Depth(Marked, Len(prog) + 1) = 0
      /\ pc \in 1 .. Len(prog) /\ pc \in Nat /\ Len(prog) \in Nat /\ value \in Types
      /\ wrote # 0 => wrote \in 1 .. Len(prog) /\ prog[wrote].op = "assign" /\ prog[wrote].on = "s"
      /\ WroteAt(prog, wrote)
      /\ TypesFit(prog, Marked, pc, value, wrote)
  BY TypeWalking
<1>. DEFINE cond == prog[pc].cond
<1>1. prog[pc].op \in {"if", "while", "for"} /\ value' = value /\ wrote' = wrote
  BY DEF RunTest, At
<1>2. PICK holds \in Outcomes(cond) : pc' = IF holds THEN Behind(pc) ELSE Otherwise(pc)
  BY DEF RunTest, Here
<1>3. holds = TRUE \/ holds = FALSE
  BY OutcomesAre
<1>4. CASE holds = FALSE
  <2>1. FALSE \in Outcomes(cond)
    BY <1>2, <1>4, Zenon
  <2>2. cond # "true"
    BY <2>1, OutcomesAre
  <2>3. TypesFit(prog, Marked, Otherwise(pc), value, wrote)
    BY <1>1, <2>1, <2>2, FailedIfTypes, FailedLoopTypes DEF Loops
  <2>4. pc' = Otherwise(pc)
    BY <1>2, <1>4
  <2>. QED
    BY <1>0, <1>1, <2>3, <2>4 DEF TypesNext
<1>5. CASE holds = TRUE
  <2>1. /\ Depth(Marked, pc + 1) >= 1 /\ pc + 1 \in 1 .. Len(prog)
        /\ prog[pc].op \in Heads \ {"func"}
    BY <1>0, <1>1, GoesOnInside DEF Heads
  <2>2. Behind(pc) = Arrived(prog, Marked, pc + 1)
    BY <1>0, <2>1, BehindIs DEF Walks
  <2>3. value \in Marked[pc].type => value \in Marked[pc + 1].type
    <3>. SUFFICES ASSUME value \in Marked[pc].type PROVE value \in Marked[pc + 1].type
      OBVIOUS
    <3>1. CASE prog[pc].op = "for"
      BY <1>0, <3>1, TypeGoesOn
    <3>2. CASE prog[pc].op \in {"if", "while"}
      <4>1. \A how \in Outcomes(cond) : value \in Narrowed(Marked[pc].type, cond, how)
        <5>1. Marked[pc].type \in SUBSET Types
          BY <1>0, TypeGoesOn
        <5>. QED
          BY <5>1, NarrowingHolds
      <4>. DEFINE narrowed == Narrowed(Marked[pc].type, cond, TRUE)
      <4>2. TRUE \in Outcomes(cond)
        BY <1>2, <1>5, Zenon
      <4>3. value \in narrowed
        BY <4>1, <4>2, Zenon
      <4>4. prog[pc].op \in {"if", "while", "assert"}
        BY <3>2
      <4>5. Marked[pc + 1].type = narrowed
        BY <1>0, <4>4, TypeNarrowed, Zenon
      <4>. HIDE DEF narrowed
      <4>. QED
        BY <4>3, <4>5
    <3>. QED
      BY <1>1, <3>1, <3>2
  <2>4. TypesFit(prog, Marked, Arrived(prog, Marked, pc + 1), value, wrote)
    BY <1>0, <2>1, <2>3, HeadTypes
  <2>. QED
    BY <1>0, <1>1, <1>2, <1>5, <2>2, <2>4 DEF TypesNext
<1>. QED
  BY <1>3, <1>4, <1>5

(* ... a match, *)
LEMMA MatchedTypes ==
    ASSUME Walks, TypeIInv, RunMatch
    PROVE  TypesNext
<1>0. /\ Consistent(prog, Marked) /\ Depth(Marked, Len(prog) + 1) = 0
      /\ pc \in 1 .. Len(prog)
      /\ wrote # 0 => wrote \in 1 .. Len(prog) /\ prog[wrote].op = "assign" /\ prog[wrote].on = "s"
      /\ TypesFit(prog, Marked, pc, value, wrote)
  BY TypeWalking
<1>1. prog[pc].op = "match" /\ pc' = pc + 1 /\ value' = value /\ wrote' = wrote
  BY DEF RunMatch, At
<1>2. pc + 1 \in 1 .. Len(prog)
  BY <1>0, <1>1, GoesOnInside DEF Heads
<1>3. TypesFit(prog, Marked, pc + 1, value, wrote)
  BY <1>0, <1>1, <1>2, MatchTypes
<1>. QED
  BY <1>0, <1>1, <1>3 DEF TypesNext

(* ... a pattern, *)
LEMMA ArmTypes ==
    ASSUME Walks, TypeIInv, RunBranch
    PROVE  TypesNext
<1>0. /\ Consistent(prog, Marked) /\ Depth(Marked, Len(prog) + 1) = 0
      /\ \A n \in 1 .. Len(prog) : marks[n] = Marked[n]
      /\ pc \in 1 .. Len(prog) /\ pc \in Nat /\ Len(prog) \in Nat /\ value \in Types
      /\ wrote # 0 => wrote \in 1 .. Len(prog) /\ prog[wrote].op = "assign" /\ prog[wrote].on = "s"
      /\ WroteAt(prog, wrote)
      /\ TypesFit(prog, Marked, pc, value, wrote)
  BY TypeWalking
<1>1. prog[pc].op = "branch" /\ value' = value /\ wrote' = wrote
  BY DEF RunBranch, At
<1>2. PICK holds \in Matches(pc) : pc' = IF holds THEN Behind(pc) ELSE Otherwise(pc)
  BY DEF RunBranch
<1>3. holds = TRUE \/ holds = FALSE
  BY MatchesAre
<1>. DEFINE D == Depth(Marked, pc)
            f == Open(Marked, pc, D)
            h == f.head
<1>4. /\ D \in Nat /\ D \in 1 .. D /\ D \in 2 .. D /\ pc \in 1 .. Len(prog) + 1
      /\ D >= 2 /\ Depth(Marked, pc + 1) = D
  BY <1>0, <1>1, ArmDepth DEF Arms
<1>5. prog[h].op = "match" /\ h \in 1 .. Len(prog) /\ f.type = Marked[h].type
  <2>1. prog[h].op = "match"
    BY <1>0, <1>1, BranchFrame
  <2>2. h \in 1 .. pc - 1 /\ f.type = Marked[h].type
    BY <1>0, <1>4, FrameIs
  <2>. QED
    BY <1>0, <2>1, <2>2
<1>6. Last(marks[pc].blocks).head = h
  BY <1>0 DEF Last, Open, Depth
<1>7. CASE holds = FALSE
  <2>. DEFINE N == NextArms(pc)
  <2>1. N = {k \in 1 .. Len(prog) : prog[k].op \in Arms
                   /\ Open(Marked, k, Depth(Marked, k)).arm = pc}
    BY NextArmsAre DEF Walks
  <2>2. pc' = Otherwise(pc)
    BY <1>2, <1>7
  <2>3. CASE N # {}
    <3>. DEFINE k == CHOOSE x \in N : TRUE
    <3>1. k \in N
      BY <2>3
    <3>2. Otherwise(pc) = IF prog[k].op = "branch" THEN k ELSE k + 1
      BY <2>3 DEF Otherwise
    <3>. HIDE DEF k
    <3>3. k \in 1 .. Len(prog) /\ prog[k].op \in Arms /\ Open(Marked, k, Depth(Marked, k)).arm = pc
      BY <2>1, <3>1
    <3>4. prog[k].op = "branch" /\ TypesFit(prog, Marked, k, value, wrote)
      BY <1>0, <1>1, <3>3, NextBranchTypes
    <3>. QED
      BY <1>0, <1>1, <2>2, <3>2, <3>4 DEF TypesNext
  <2>4. CASE N = {}
    <3>1. Otherwise(pc) = EndOf(h)
      BY <1>1, <1>6, <2>4 DEF Otherwise, Loops
    <3>2. EndOf(h) = EndFor(prog, Marked, h)
      BY <1>4, EndOfIs DEF Walks
    <3>3. FramesFit(prog, Marked, pc, value, wrote)
      BY <1>0 DEF TypesFit, FramesFit
    <3>4. TypesFit(prog, Marked, EndFor(prog, Marked, h), value, wrote)
      BY <1>0, <1>4, <1>5, <3>3, EndForTypes
    <3>. QED
      BY <1>0, <1>1, <2>2, <3>1, <3>2, <3>4 DEF TypesNext
  <2>. QED
    BY <2>3, <2>4
<1>8. CASE holds = TRUE
  <2>1. Depth(Marked, pc + 1) >= 1 /\ pc + 1 \in 1 .. Len(prog)
    BY <1>0, <1>1, GoesOnInside DEF Arms
  <2>2. Behind(pc) = Arrived(prog, Marked, pc + 1)
    BY <1>0, <2>1, BehindIs DEF Walks
  <2>3. value \in Marked[h].type =>
            value \in Marked[pc + 1].type \/ NullIn(prog, Marked, pc + 1, value)
    <3>1. SUFFICES ASSUME value \in Marked[h].type
                   PROVE  value \in Marked[pc + 1].type \/ NullIn(prog, Marked, pc + 1, value)
      OBVIOUS
    <3>2. \A g : g = f => Marked[pc + 1].type = IF prog[g.head].on = None THEN g.type
                                                ELSE NarrowedInArm(g.type, prog[pc].cond)
      BY <1>0, <1>1, BranchFrame
    <3>3. Marked[pc + 1].type = IF prog[h].on = None THEN Marked[h].type
                                ELSE NarrowedInArm(Marked[h].type, prog[pc].cond)
      BY <1>5, <3>2
    <3>4. CASE prog[h].on = None
      BY <3>1, <3>3, <3>4
    <3>5. CASE prog[h].on # None
      <4>1. prog[h].on = "s"
        BY <1>0, <1>5, <3>5, Texted DEF TokenOK
      <4>3. Marked[h].type \in SUBSET Types
        BY <1>0, <1>5, TypeGoesOn
      <4>4. TRUE \in Matches(pc)
        BY <1>2, <1>8, Zenon
      <4>5. prog[Last(marks[pc].blocks).head].on = "s"
        BY <1>6, <4>1
      <4>6. \/ value \in NarrowedInArm(Marked[h].type, prog[pc].cond)
            \/ value = "null" /\ prog[pc].cond \in MayMatchNull
        BY <3>1, <4>3, <4>4, <4>5, InArmHolds, Zenon
      <4>7. CASE value = "null" /\ prog[pc].cond \in MayMatchNull
        <5>1. NextArm(f, Open(Marked, pc + 1, D), pc)
          BY <1>0, <1>1, Onward DEF Arms
        <5>2. Open(Marked, pc + 1, D).arm = pc /\ Open(Marked, pc + 1, D).head = h
          BY <5>1 DEF NextArm
        <5>3. TakesNull(prog, Open(Marked, pc + 1, D))
          BY <1>1, <4>1, <4>7, <5>2 DEF TakesNull
        <5>4. D \in 1 .. Depth(Marked, pc + 1)
          BY <1>4
        <5>. QED
          BY <4>7, <5>3, <5>4 DEF NullIn
      <4>. QED
        BY <3>3, <3>5, <4>6, <4>7
    <3>. QED
      BY <3>4, <3>5
  <2>4. TypesFit(prog, Marked, Arrived(prog, Marked, pc + 1), value, wrote)
    BY <1>0, <1>1, <2>1, <2>3, BranchTypes
  <2>. QED
    BY <1>0, <1>1, <1>2, <1>8, <2>2, <2>4 DEF TypesNext
<1>. QED
  BY <1>3, <1>7, <1>8

(* ... the end of a function, *)
LEMMA ReturnTypes ==
    ASSUME Walks, TypeIInv, RunReturn
    PROVE  TypesNext
<1>0. /\ Consistent(prog, Marked) /\ Depth(Marked, Len(prog) + 1) = 0
      /\ Len(prog) \in Nat
      /\ pc \in 1 .. Len(prog)
      /\ wrote # 0 => wrote \in 1 .. Len(prog) /\ prog[wrote].op = "assign" /\ prog[wrote].on = "s"
  BY TypeWalking
<1>1. LeavesAt(prog, Marked, pc) /\ marks[pc].blocks[1] = Open(Marked, pc, 1)
  BY LeavesAtIs DEF RunReturn
<1>2. 1 \in 1 .. Depth(Marked, pc) /\ pc \in 1 .. Len(prog) + 1
  <2>1. Standing(prog, Marked, pc, by, jumped)
    BY Walking
  <2>2. Depth(Marked, pc) \in Nat /\ Depth(Marked, pc) >= 1
    BY <1>0, <1>1, <2>1, LeftWhole
  <2>. QED
    BY <1>0, <2>2
<1>. DEFINE h == Open(Marked, pc, 1).head
            e == EndFor(prog, Marked, h)
<1>3. EndOf(marks[pc].blocks[1].head) = e
  BY <1>0, <1>1, <1>2, EndOfIs DEF Walks
<1>4. pc' = e + 1 /\ value' = value /\ wrote' = wrote
  BY <1>3 DEF RunReturn
<1>5. e \in 1 .. Len(prog) /\ prog[e].op = "end" /\ Depth(Marked, e) = 1
  BY <1>0, <1>2, EndForIs
<1>. HIDE DEF e
<1>6. Depth(Marked, e + 1) = 0
  <2>1. Depth(Marked, e + 1) = Depth(Marked, e) - 1
    BY <1>0, <1>5, Onward
  <2>. QED
    BY <1>5, <2>1
<1>7. TypesFit(prog, Marked, e + 1, value, wrote)
  BY <1>6 DEF TypesFit
<1>. QED
  BY <1>0, <1>4, <1>7 DEF TypesNext

(* ... a call that does not return, *)
LEMMA NoReturnTypes ==
    ASSUME Walks, TypeIInv, RunNoReturn
    PROVE  TypesNext
<1>1. Len(prog) \in Nat
      /\ wrote # 0 => wrote \in 1 .. Len(prog) /\ prog[wrote].op = "assign" /\ prog[wrote].on = "s"
  BY TypeWalking
<1>2. pc' \notin 1 .. Len(prog) /\ wrote' = wrote
  BY <1>1 DEF RunNoReturn, Finished
<1>. QED
  BY <1>1, <1>2 DEF TypesNext

(* ... a break or continue, *)
LEMMA JumpTypes ==
    ASSUME Walks, TypeIInv, RunJump
    PROVE  TypesNext
<1>0. /\ Consistent(prog, Marked) /\ Depth(Marked, Len(prog) + 1) = 0
      /\ Len(prog) \in Nat
      /\ pc \in 1 .. Len(prog) /\ pc \in Nat
      /\ wrote # 0 => wrote \in 1 .. Len(prog) /\ prog[wrote].op = "assign" /\ prog[wrote].on = "s"
      /\ WroteAt(prog, wrote)
      /\ TypesFit(prog, Marked, pc, value, wrote)
  BY TypeWalking
<1>1. /\ prog[pc].op \in {"break", "continue"} /\ value' = value /\ wrote' = wrote
      /\ prog[pc].op = "break" => pc' = Behind(EndOf(InnerLoop))
      /\ prog[pc].op = "continue" => pc' = InnerLoop
  BY DEF RunJump, At, Here
<1>. DEFINE D == Depth(Marked, pc)
<1>2. PICK i \in 1 .. D : /\ InnerLoop = Open(Marked, pc, i).head
                         /\ prog[Open(Marked, pc, i).head].op \in Loops
                         /\ \A j \in i + 1 .. D : prog[Open(Marked, pc, j).head].op \notin Loops
  BY <1>1, InnerLoopIs
<1>. DEFINE f == Open(Marked, pc, i)
            h == f.head
<1>3. pc \in 1 .. Len(prog) + 1 /\ FramesFit(prog, Marked, pc, value, wrote)
  BY <1>0 DEF TypesFit, FramesFit
<1>4. CASE prog[pc].op = "break"
  <2>. DEFINE e == EndFor(prog, Marked, h)
  <2>1. i \in 2 .. D
    <3>1. i # 1
      <4>1. D \in Nat /\ D >= 1
        BY <1>0, <1>2, Onward
      <4>2. prog[Open(Marked, pc, 1).head].op = "func"
        BY <1>0, <1>3, <4>1, OutermostIsFunction
      <4>. QED
        BY <1>2, <4>2 DEF Loops
    <3>. QED
      BY <1>2, <3>1
  <2>2. TypesFit(prog, Marked, Arrived(prog, Marked, e + 1), value, wrote)
    BY <1>0, <1>3, <2>1, EndForTypes
  <2>3. e \in 1 .. Len(prog) /\ e + 1 \in 1 .. Len(prog) /\ Depth(Marked, e + 1) >= 1
    <3>1. Standing(prog, Marked, pc, by, jumped)
      BY Walking
    <3>. QED
      BY <1>0, <1>2, <1>4, <3>1, BreakStands
  <2>4. EndOf(InnerLoop) = e
    BY <1>2, <1>3, EndOfIs DEF Walks
  <2>. HIDE DEF e
  <2>5. Behind(e) = Arrived(prog, Marked, e + 1)
    BY <1>0, <2>3, BehindIs DEF Walks
  <2>. QED
    BY <1>0, <1>1, <1>4, <2>2, <2>4, <2>5 DEF TypesNext
<1>5. CASE prog[pc].op = "continue"
  <2>1. TypesFit(prog, Marked, h, value, wrote)
    BY <1>0, <1>2, <1>3, BackTypes
  <2>. QED
    BY <1>0, <1>1, <1>2, <1>5, <2>1 DEF TypesNext
<1>. QED
  BY <1>1, <1>4, <1>5

(* ... and the end of a statement. *)
LEMMA EndedTypes ==
    ASSUME Walks, TypeIInv, RunEnd
    PROVE  TypesNext
<1>0. /\ Consistent(prog, Marked) /\ Depth(Marked, Len(prog) + 1) = 0
      /\ Len(prog) \in Nat
      /\ pc \in 1 .. Len(prog) /\ pc \in Nat /\ pc \in 1 .. Len(prog) + 1
      /\ wrote # 0 => wrote \in 1 .. Len(prog) /\ prog[wrote].op = "assign" /\ prog[wrote].on = "s"
      /\ WroteAt(prog, wrote)
      /\ TypesFit(prog, Marked, pc, value, wrote)
  BY TypeWalking
<1>. DEFINE D == Depth(Marked, pc)
            f == Open(Marked, pc, D)
            h == f.head
            loop == prog[h].op \in Loops
<1>1. Around = f
  BY <1>0, AroundIs DEF Walks, Around
<1>2. /\ prog[pc].op = "end" /\ value' = value /\ wrote' = wrote
      /\ loop => pc' = h
      /\ ~ loop => pc' = Behind(pc)
      /\ prog[h].op # "func"
  BY <1>1 DEF RunEnd, At, Op, Leaving
<1>3. D \in 1 .. D
  BY <1>0, <1>2, Onward
<1>4. FramesFit(prog, Marked, pc, value, wrote)
  BY <1>0 DEF TypesFit, FramesFit
<1>5. CASE loop
  <2>1. TypesFit(prog, Marked, h, value, wrote)
    BY <1>0, <1>3, <1>4, <1>5, BackTypes
  <2>. QED
    BY <1>0, <1>2, <1>5, <2>1 DEF TypesNext
<1>6. CASE ~ loop
  <2>. DEFINE q == pc + 1
  <2>1. /\ TypeFits(prog, Marked, pc + 1, value, wrote) /\ FramesFit(prog, Marked, pc + 1, value, wrote)
        /\ Depth(Marked, pc + 1) >= 1
    BY <1>0, <1>2, <1>4, EndTypes
  <2>2. q \in 1 .. Len(prog)
    BY <1>0, <2>1, NotTheLast
  <2>3. Behind(pc) = Arrived(prog, Marked, q)
    BY <1>0, <2>1, <2>2, BehindIs DEF Walks
  <2>. HIDE DEF q
  <2>4. TypesFit(prog, Marked, Arrived(prog, Marked, q), value, wrote)
    <3>1. TypeFits(prog, Marked, q, value, wrote) /\ FramesFit(prog, Marked, q, value, wrote) /\ Depth(Marked, q) >= 1
      BY <2>1 DEF q
    <3>. QED
      BY <1>0, <2>2, <3>1, ArrivesTyped
  <2>. QED
    BY <1>0, <1>2, <1>6, <2>3, <2>4 DEF TypesNext
<1>. QED
  BY <1>5, <1>6

(* Whatever is run, what is known of s is true where control comes to. *)
LEMMA RunTypes ==
    ASSUME Ready, RunIInv, TypeIInv, Run
    PROVE  TypesNext
<1>1. Walks
  BY DEF Walks, Run, RunMember, RunFunc, RunAssignment, RunUse, RunTest, RunAssert, RunMatch,
         RunBranch, RunJump, RunEnd, RunReturn, RunNoReturn, Leaving, At
<1>. QED
  BY <1>1, MemberTypes, FuncTypes, AssignmentTypes, UseTypes, TestTypes, MatchedTypes, ArmTypes,
     JumpTypes, EndedTypes, ReturnTypes, NoReturnTypes DEF Run

TypeInv == Inv /\ TypeIInv

(* In the beginning nothing is known. *)
LEMMA TypeFirst == Init => TypeIInv
<1>. SUFFICES ASSUME Init PROVE TypeIInv
  OBVIOUS
<1>1. prog = <<>> /\ wrote = 0 /\ pc = 0
  BY DEF Init
<1>2. Len(prog) = 0 /\ DOMAIN prog = {}
  BY <1>1
<1>. QED
  BY <1>1, <1>2 DEF TypeIInv, Running

(* In front of the class nothing is open. *)
LEMMA TypeStarts ==
    ASSUME Inv, TypeIInv, Start
    PROVE  TypeIInv'
<1>1. /\ pc = 0 /\ pc' = 1 /\ prog' = prog /\ marks' = marks /\ wrote' = wrote /\ value' = value
      /\ state' = state /\ flow_narrowed_types' = flow_narrowed_types /\ exit' = exit /\ blocks' = blocks
  BY DEF Start, Writing, flow
<1>2. wrote = 0
  BY <1>1 DEF Inv, RunIInv
<1>3. Marked' = Marked
  BY <1>1 DEF Marked, Now
<1>4. Depth(Marked, 1) = 0
  <2>1. Consistent(prog, Marked)
    BY DEF Inv, IInv, Start, Writing
  <2>2. Marked[1] = Beginning
    BY <2>1 DEF Consistent
  <2>. QED
    BY <2>2 DEF Depth, Beginning
<1>5. TypesFit(prog, Marked, 1, value, wrote)
  BY <1>4 DEF TypesFit
<1>. QED
  BY <1>1, <1>2, <1>3, <1>5 DEF TypeIInv

(* Every step keeps what is known of s true. *)
LEMMA TypeStep ==
    ASSUME TypeInv, [Next]_vars
    PROVE  TypeInv'
<1>0. Inv /\ Inv' /\ IInv /\ RunIInv
  BY Step DEF TypeInv, Inv
<1>1. ASSUME pc = 0, UNCHANGED run PROVE TypeIInv'
  <2>1. pc' = 0 /\ wrote' = wrote /\ wrote = 0
    BY <1>0, <1>1 DEF run, RunIInv
  <2>2. 0 \notin DOMAIN prog'
    BY <1>0, LenProperties DEF Inv, IInv
  <2>. QED
    BY <2>1, <2>2 DEF TypeIInv, Running
<1>2. CASE \E t \in alphabet.tokens :
        \/ Member(t) \/ Func(t) \/ Assignment(t) \/ Var(t) \/ Use(t) \/ AssertStatement(t) \/ NoReturn(t)
        \/ Return(t) \/ Jump(t) \/ If(t) \/ Else(t) \/ While(t) \/ For(t) \/ Match(t) \/ Branch(t)
  <2>1. PICK t \in alphabet.tokens : \E op : Writes(t, op)
    BY <1>2 DEF Member, Func, Assignment, Var, Use, AssertStatement, NoReturn, Return, Jump, If, Else,
                While, For, Match, Branch
  <2>2. pc = 0 /\ UNCHANGED run
    BY <2>1 DEF Writes, Writing
  <2>. QED
    BY <1>0, <1>1, <2>2 DEF TypeInv
<1>3. CASE End
  <2>1. pc = 0 /\ UNCHANGED run
    BY <1>3 DEF End, Writing
  <2>. QED
    BY <1>0, <1>1, <2>1 DEF TypeInv
<1>4. CASE Start
  BY <1>0, <1>4, TypeStarts DEF TypeInv
<1>5. CASE UNCHANGED vars
  BY <1>0, <1>5 DEF TypeInv, vars, run, flow, TypeIInv, Marked, Now, Running
<1>6. CASE Run
  <2>1. Running
    BY <1>6 DEF Run, RunMember, RunFunc, RunAssignment, RunUse, RunTest, RunAssert, RunMatch,
         RunBranch, RunJump, RunEnd, RunReturn, RunNoReturn, Leaving, At
  <2>2. pc # 0
    BY <1>0, <2>1, LenProperties DEF Running, IInv
  <2>3. Ready
    BY <1>0, <2>2 DEF RunIInv, Ready
  <2>4. UNCHANGED <<alphabet, prog, flow>>
    BY <1>6 DEF Run
  <2>5. TypesNext
    BY <1>0, <1>6, <2>3, RunTypes DEF TypeInv
  <2>6. prog' = prog /\ Marked' = Marked
    BY <2>4 DEF flow, Marked, Now
  <2>7. DOMAIN prog = 1 .. Len(prog)
    BY <2>3, Written
  <2>8. TypeIInv'
    BY <2>5, <2>6, <2>7 DEF TypesNext, TypeIInv, Running
  <2>. QED
    BY <1>0, <2>8 DEF TypeInv
<1>. QED
  BY <1>2, <1>3, <1>4, <1>5, <1>6 DEF Next, TypeInv

(* What is known at a use is true there. *)
LEMMA TypeHolds == TypeInv => NarrowedReadsHold
<1>. SUFFICES ASSUME TypeInv, Running, prog[pc].op = "use"
              PROVE  \/ value \in marks[pc].type
                     \/ wrote > pc
                     \/ wrote # 0 /\ OwnArm(wrote) \notin ArmsAround(marks[pc])
                     \/ value = "null" /\ InArmOfNull(pc)
  BY DEF NarrowedReadsHold, At
<1>0. IInv /\ RunIInv /\ TypeIInv
  BY DEF TypeInv, Inv
<1>1. pc # 0
  BY <1>0, LenProperties DEF Running, IInv
<1>2. Ready /\ Walks
  BY <1>0, <1>1 DEF RunIInv, Ready, Walks
<1>3. /\ Consistent(prog, Marked)
      /\ \A n \in 1 .. Len(prog) : marks[n] = Marked[n]
      /\ pc \in 1 .. Len(prog) /\ pc \in Nat /\ wrote \in Nat
      /\ wrote # 0 => wrote \in 1 .. Len(prog) /\ prog[wrote].op = "assign" /\ prog[wrote].on = "s"
      /\ TypesFit(prog, Marked, pc, value, wrote)
  BY <1>0, <1>2, TypeWalking
<1>4. Depth(Marked, pc) \in Nat /\ Depth(Marked, pc) >= 1
  BY <1>3, InABlock DEF PlainOps
<1>5. Known(prog, Marked, pc) = pc
  BY DEF Known
<1>6. TypeFits(prog, Marked, pc, value, wrote)
  BY <1>3, <1>4, <1>5 DEF TypesFit
<1>7. CASE value \in Marked[pc].type
  BY <1>3, <1>7
<1>8. CASE wrote >= pc
  <2>1. wrote # 0 /\ wrote # pc
    BY <1>3, <1>8
  <2>. QED
    BY <1>3, <1>8, <2>1
<1>. DEFINE s == marks[pc].blocks
<1>10. DOMAIN s = 1 .. Depth(Marked, pc) /\ \A i \in 1 .. Depth(Marked, pc) : s[i] = Open(Marked, pc, i)
  <2>1. Marked[pc].blocks \in Seq(Frames)
    BY <1>3, Onward DEF Marks
  <2>2. s = Marked[pc].blocks
    BY <1>3
  <2>. QED
    BY <2>1, <2>2, LenProperties DEF Depth, Open
<1>9. CASE wrote # 0 /\ \A i \in 1 .. Depth(Marked, pc) :
                            Open(Marked, wrote, Depth(Marked, wrote)).arm # Open(Marked, pc, i).arm
  <2>1. OwnArm(wrote) = Open(Marked, wrote, Depth(Marked, wrote)).arm
    BY <1>2, <1>3, <1>9, AroundIs DEF OwnArm
  <2>. HIDE DEF s
  <2>3. \A f \in ToSet(s) : OwnArm(wrote) # f.arm
    BY <1>9, <1>10, <2>1 DEF ToSet
  <2>. QED
    BY <1>9, <2>3 DEF ArmsAround, s
<1>11. CASE NullIn(prog, Marked, pc, value)
  <2>1. PICK i \in 1 .. Depth(Marked, pc) : TakesNull(prog, Open(Marked, pc, i))
    BY <1>11 DEF NullIn
  <2>. HIDE DEF s
  <2>2. s[i] \in ToSet(s) /\ TakesNull(prog, s[i])
    BY <1>10, <2>1 DEF ToSet
  <2>3. \E f \in ToSet(s) : TakesNull(prog, f)
    BY <2>2
  <2>. QED
    BY <1>11, <2>3 DEF InArmOfNull, TakesNull, NullIn, s
<1>. QED
  BY <1>6, <1>7, <1>8, <1>9, <1>11 DEF TypeFits

(* Where s is used, in a class of any size, it has a value of the type it  *)
(* was narrowed to, with the exceptions the property names.                *)
THEOREM NarrowedReads == Spec => []NarrowedReadsHold
<1>1. Init => TypeInv
  BY TypeFirst, ConsistentFirst, RunFirst DEF TypeInv, Inv
<1>2. TypeInv /\ [Next]_vars => TypeInv'
  BY TypeStep
<1>. QED
  BY <1>1, <1>2, TypeHolds, PTL DEF Spec

=============================================================================
