--------------------------- MODULE LoweringProofs ---------------------------
(***************************************************************************)
(* The code of every function is sound, however long its text and however  *)
(* deep its blocks, with any alphabets.                                    *)
(*                                                                         *)
(* What has been written while a function is lowered is instructions one   *)
(* behind the other; each jump leads to the beginning of one, or the place *)
(* of its word is on exactly the stack of the generator from which it will *)
(* be told (SoundCode).  Every operation of the emitter keeps this and     *)
(* pushes or pops its own stacks alone (the lemmas about Stands), so the   *)
(* stacks are always as high as the open blocks make them (Reaches), and   *)
(* the end of a block finds the jumps that are its own (Lowers).  Code     *)
(* with nothing pending that ends in RETURN keeps the machine at the       *)
(* beginning of an instruction (Ready).                                    *)
(*                                                                         *)
(* The loops of the code are recursive functions in the model.  That such  *)
(* a function exists and what it keeps is shown by the least turn at which *)
(* it would not (Least, Loop, Turns).                                      *)
(***************************************************************************)
EXTENDS Lowering, WellFoundedInduction, TLAPS

-----------------------------------------------------------------------------
(* Induction *)

(* A set of numbers that is not empty has a least one. *)
LEMMA Least ==
    ASSUME NEW T \in SUBSET Nat, T # {}
    PROVE  \E n \in T : \A m \in T : n <= m
<1>. DEFINE R == {ss \in Nat \X Nat : ss[1] < ss[2]}
<1>1. IsWellFoundedOn(R, Nat)
  BY NatLessThanWellFounded DEF OpToRel
<1>. HIDE DEF R
<1>2. PICK n \in T : \A m \in T : ~(<<m, n>> \in R)
  BY <1>1, WFMin
<1>3. \A m, k \in Nat : m < k => <<m, k>> \in R
  BY DEF R
<1>4. ASSUME NEW m \in T PROVE n <= m
  <2>1. m \in Nat /\ n \in Nat /\ ~(<<m, n>> \in R)
    BY <1>2
  <2>. QED
    BY <2>1, <1>3
<1>. QED
  BY <1>4

(* What holds before the first turn and is kept by each holds after the    *)
(* last.                                                                   *)
LEMMA Loop ==
    ASSUME NEW n \in Nat, NEW P, P[0], \A i \in 1 .. n : P[i - 1] => P[i]
    PROVE  P[n]
<1>. DEFINE T == {i \in 0 .. n : ~ P[i]}
<1>1. SUFFICES ASSUME T # {} PROVE FALSE
  OBVIOUS
<1>2. T \in SUBSET Nat
  OBVIOUS
<1>. HIDE DEF T
<1>3. PICK k \in T : \A m \in T : k <= m
  BY <1>1, <1>2, Least
<1>. QED
  BY <1>3 DEF T

-----------------------------------------------------------------------------
(* Sequences *)

(* A sequence of whatever it holds. *)
Sequence(s) == s \in Seq(Range(s))

(* A sequence, its length, its elements. *)
LEMMA Elements ==
    ASSUME NEW T, NEW s \in Seq(T)
    PROVE  /\ Sequence(s) /\ Range(s) \subseteq T
           /\ Len(s) \in Nat /\ DOMAIN s = 1 .. Len(s)
           /\ \A i \in 1 .. Len(s) : s[i] \in T
<1>1. Len(s) \in Nat /\ DOMAIN s = 1 .. Len(s) /\ \A i \in 1 .. Len(s) : s[i] \in T
  OBVIOUS
<1>2. s \in [1 .. Len(s) -> Range(s)]
  BY <1>1 DEF Range
<1>. QED
  BY <1>1, <1>2, SMTT(30) DEF Sequence, Range

(* A function on 1 .. n is a sequence. *)
LEMMA Listed ==
    ASSUME NEW n \in Nat, NEW T, NEW s \in [1 .. n -> T]
    PROVE  s \in Seq(T) /\ Len(s) = n
<1>1. s \in Seq(T)
  OBVIOUS
<1>2. Len(s) \in Nat /\ DOMAIN s = 1 .. Len(s) /\ DOMAIN s = 1 .. n
  BY <1>1
<1>. QED
  BY <1>1, <1>2

(* Where the elements of two joined sequences are. *)
LEMMA Joined ==
    ASSUME NEW c, NEW d, Sequence(c), Sequence(d)
    PROVE  /\ Sequence(c \o d)
           /\ Len(c \o d) = Len(c) + Len(d) /\ Len(c) \in Nat /\ Len(d) \in Nat
           /\ \A i \in 1 .. Len(c) : (c \o d)[i] = c[i]
           /\ \A i \in 1 .. Len(d) : (c \o d)[Len(c) + i] = d[i]
<1>1. c \in Seq(Range(c) \cup Range(d)) /\ d \in Seq(Range(c) \cup Range(d))
  BY DEF Sequence
<1>2. /\ Len(c \o d) = Len(c) + Len(d) /\ Len(c) \in Nat /\ Len(d) \in Nat
      /\ c \o d \in Seq(Range(c) \cup Range(d))
  BY <1>1
<1>3. /\ \A i \in 1 .. Len(c) : (c \o d)[i] = c[i]
      /\ \A i \in 1 .. Len(d) : (c \o d)[Len(c) + i] = d[i]
  BY <1>1
<1>4. Sequence(c \o d)
  BY <1>2, Elements
<1>. QED
  BY <1>2, <1>3, <1>4

(* Pushing onto a stack. *)
LEMMA Pushed ==
    ASSUME NEW T, NEW s \in Seq(T), NEW e \in T
    PROVE  /\ Append(s, e) \in Seq(T) /\ Len(Append(s, e)) = Len(s) + 1
           /\ Range(Append(s, e)) = Range(s) \cup {e}
<1>1. /\ Append(s, e) \in Seq(T) /\ Len(Append(s, e)) = Len(s) + 1 /\ Len(s) \in Nat
      /\ DOMAIN s = 1 .. Len(s) /\ DOMAIN Append(s, e) = 1 .. Len(s) + 1
      /\ \A i \in 1 .. Len(s) : Append(s, e)[i] = s[i]
      /\ Append(s, e)[Len(s) + 1] = e
  OBVIOUS
<1>. DEFINE r == Append(s, e)
<1>. HIDE DEF r
<1>2. \A x \in Range(r) : x \in Range(s) \cup {e}
  BY <1>1 DEF Range, r
<1>3. \A x \in Range(s) \cup {e} : x \in Range(r)
  <2>1. \A i \in 1 .. Len(s) + 1 : r[i] \in Range(r)
    BY <1>1 DEF Range, r
  <2>. QED
    BY <1>1, <2>1 DEF Range, r
<1>. QED
  BY <1>1, <1>2, <1>3 DEF r

(* Popping off a stack. *)
LEMMA Popped ==
    ASSUME NEW T, NEW s \in Seq(T), Len(s) > 0
    PROVE  /\ Front(s) \in Seq(T) /\ Len(Front(s)) = Len(s) - 1 /\ Last(s) \in T
           /\ Range(s) = Range(Front(s)) \cup {Last(s)}
<1>1. /\ Len(s) \in Nat /\ DOMAIN s = 1 .. Len(s) /\ Last(s) = s[Len(s)] /\ Last(s) \in T
      /\ \A i \in 1 .. Len(s) : s[i] \in T
  BY DEF Last
<1>1a. /\ Front(s) \in Seq(T) /\ Len(Front(s)) = Len(s) - 1 /\ DOMAIN Front(s) = 1 .. Len(s) - 1
       /\ \A i \in 1 .. Len(s) - 1 : Front(s)[i] = s[i]
  <2>1. Front(s) = SubSeq(s, 1, Len(s) - 1) /\ Len(s) - 1 \in Nat
    BY <1>1 DEF Front
  <2>. QED
    BY <1>1, <2>1
<1>. DEFINE f == Front(s)
            l == Last(s)
<1>. HIDE DEF f, l
<1>2. \A x \in Range(f) \cup {l} : x \in Range(s)
  <2>1. \A i \in 1 .. Len(s) : s[i] \in Range(s)
    BY <1>1 DEF Range
  <2>2. \A x \in Range(f) : x \in Range(s)
    BY <1>1, <1>1a, <2>1, SMTT(30) DEF Range, f
  <2>. QED
    BY <1>1, <2>1, <2>2 DEF l
<1>3. \A x \in Range(s) : x \in Range(f) \cup {l}
  <2>1. \A i \in 1 .. Len(s) - 1 : f[i] \in Range(f)
    BY <1>1, <1>1a DEF Range, f
  <2>. QED
    BY <1>1, <1>1a, <2>1 DEF Range, f, l
<1>. QED
  BY <1>1, <1>1a, <1>2, <1>3 DEF f, l

-----------------------------------------------------------------------------
(* Instructions *)

(* Instructions with a list of operands of any length: the second word is  *)
(* how many.                                                               *)
Working == Calling \cup Operating \cup Accessing

(* Instructions whose last word is a place in the code. *)
Jumping == {Opcode.JUMP, Opcode.JUMP_IF, Opcode.JUMP_IF_NOT} \cup DOMAIN Iteration

(* What may stand where an instruction begins: all but END.                *)
Instructions == {Opcode[o] : o \in DOMAIN Opcode \ {"END"}}

(* The words of the instruction at b, and where the next one is.           *)
Width(c, b) ==
    LET o == c[b + 1] IN
    IF o \in Working THEN 5 + c[b + 2]
    ELSE IF o \in DOMAIN Iteration THEN Iteration[o].operands + 1
    ELSE IF o \in {Opcode.TYPEOF, Opcode.ASSERT, Opcode.ASSIGN, Opcode.JUMP_IF, Opcode.JUMP_IF_NOT} THEN 3
    ELSE IF o = Opcode.JUMP_TO_DEF_ARGUMENT THEN 1
    ELSE 2

(* Where the instruction behind the one at b begins. *)
Behind(c, b) == b + Width(c, b)

(* The numbers of the instructions. *)
LEMMA Opcodes ==
    /\ Opcode.LINE = 801 /\ Opcode.CALL = 802 /\ Opcode.OPERATOR = 803 /\ Opcode.TYPE_TEST = 804
    /\ Opcode.CAST = 805 /\ Opcode.CONSTRUCT = 806 /\ Opcode.GET_KEYED = 807
    /\ Opcode.GET_NAMED = 808 /\ Opcode.GET_MEMBER = 809 /\ Opcode.GET_STATIC_VARIABLE = 810
    /\ Opcode.SET_KEYED = 811 /\ Opcode.SET_NAMED = 812 /\ Opcode.SET_MEMBER = 813
    /\ Opcode.SET_STATIC_VARIABLE = 814 /\ Opcode.ASSIGN_TYPED = 815 /\ Opcode.TYPEOF = 816
    /\ Opcode.ASSERT = 817 /\ Opcode.ASSIGN = 818 /\ Opcode.ASSIGN_NULL = 819
    /\ Opcode.ASSIGN_TRUE = 820 /\ Opcode.ASSIGN_FALSE = 821 /\ Opcode.ADJUST_INT = 822
    /\ Opcode.ADJUST_ARRAY = 823 /\ Opcode.ADJUST_BOOL = 824 /\ Opcode.JUMP = 825
    /\ Opcode.JUMP_IF = 826 /\ Opcode.JUMP_IF_NOT = 827 /\ Opcode.JUMP_TO_DEF_ARGUMENT = 828
    /\ Opcode.ITERATE_BEGIN = 829 /\ Opcode.ITERATE = 830 /\ Opcode.ITERATE_BEGIN_RANGE = 831
    /\ Opcode.ITERATE_RANGE = 832 /\ Opcode.RETURN = 833 /\ Opcode.END = 834
BY DEF Opcode

(* The kinds of instructions, by number. *)
LEMMA OpcodeSets ==
    /\ Working = 802 .. 815
    /\ DOMAIN Stored = 819 .. 824
    /\ DOMAIN Iteration = 829 .. 832
    /\ Jumping = (825 .. 827) \cup (829 .. 832)
    /\ Instructions = 801 .. 833
<1>1. Working = 802 .. 815
  BY Opcodes DEF Working, Calling, Operating, Accessing
<1>2. DOMAIN Stored = 819 .. 824
  BY Opcodes DEF Stored
<1>3. DOMAIN Iteration = 829 .. 832
  BY Opcodes DEF Iteration
<1>4. Jumping = (825 .. 827) \cup (829 .. 832)
  BY <1>3, Opcodes DEF Jumping
<1>5. DOMAIN Opcode \ {"END"} =
        {"LINE", "CALL", "OPERATOR", "TYPE_TEST", "CAST", "CONSTRUCT", "GET_KEYED",
          "GET_NAMED", "GET_MEMBER", "GET_STATIC_VARIABLE", "SET_KEYED",
          "SET_NAMED", "SET_MEMBER", "SET_STATIC_VARIABLE", "ASSIGN_TYPED",
          "TYPEOF", "ASSERT", "ASSIGN", "ASSIGN_NULL", "ASSIGN_TRUE",
          "ASSIGN_FALSE", "ADJUST_INT", "ADJUST_ARRAY", "ADJUST_BOOL", "JUMP",
          "JUMP_IF", "JUMP_IF_NOT", "JUMP_TO_DEF_ARGUMENT", "ITERATE_BEGIN",
          "ITERATE", "ITERATE_BEGIN_RANGE", "ITERATE_RANGE", "RETURN"}
  BY DEF Opcode
<1>6. Instructions = 801 .. 833
  BY <1>5, Opcodes DEF Instructions
<1>. QED
  BY <1>1, <1>2, <1>3, <1>4, <1>6

(* How many operands the instructions of for loops have. *)
LEMMA Iterations ==
    /\ Iteration[829].operands = 4 /\ Iteration[830].operands = 4
    /\ Iteration[831].operands = 6 /\ Iteration[832].operands = 5
BY Opcodes DEF Iteration

(* How long each instruction is. *)
LEMMA Widths ==
    ASSUME NEW c, NEW b, NEW o, o = c[b + 1], o \in Instructions
    PROVE  /\ o \in 802 .. 815 => Width(c, b) = 5 + c[b + 2]
           /\ o \in {801, 825, 833} \cup (819 .. 824) => Width(c, b) = 2
           /\ o \in (816 .. 818) \cup {826, 827} => Width(c, b) = 3
           /\ o = 828 => Width(c, b) = 1
           /\ o \in {829, 830} => Width(c, b) = 5
           /\ o = 831 => Width(c, b) = 7
           /\ o = 832 => Width(c, b) = 6
<1>1. o \in Int
  BY OpcodeSets
<1>. QED
  BY <1>1, Opcodes, OpcodeSets, Iterations DEF Width

(* An instruction has a word at least; a jump has room for its place. *)
LEMMA WidthIs ==
    ASSUME NEW c, NEW b, c[b + 1] \in Instructions, c[b + 1] \in Working => c[b + 2] \in Nat
    PROVE  /\ Width(c, b) \in Nat \ {0}
           /\ c[b + 1] \in Jumping => Width(c, b) > 1
           /\ c[b + 1] \in Working => Width(c, b) > 4
<1>. DEFINE o == c[b + 1]
            w == Width(c, b)
<1>1. /\ o \in 802 .. 815 => w = 5 + c[b + 2]
      /\ o \in {801, 825, 833} \cup (819 .. 824) => w = 2
      /\ o \in (816 .. 818) \cup {826, 827} => w = 3
      /\ o = 828 => w = 1
      /\ o \in {829, 830} => w = 5
      /\ o = 831 => w = 7
      /\ o = 832 => w = 6
  BY Widths
<1>. HIDE DEF w
<1>. QED
  BY <1>1, OpcodeSets DEF w

(* Code that is laid out: S is where instructions begin, the end of the    *)
(* code included, P where the words are that tell a jump where to go.      *)
(* Those not in P already lead to a place in S.                            *)
IsLaid(c, S, P, b) ==
    /\ c[b + 1] \in Instructions
    /\ c[b + 1] \in Working => c[b + 2] \in Nat
    /\ Behind(c, b) \in S
    /\ \A d \in S : b < d => Behind(c, b) <= d
    /\ c[b + 1] \in Jumping => c[Behind(c, b)] \in S \/ Behind(c, b) - 1 \in P

(* c is instructions, which begin at S and end at the end of c; at P are   *)
(* words of jumps that still have to be told where to go.                  *)
Laid(c, S, P) ==
    /\ Sequence(c)
    /\ S \subseteq 0 .. Len(c) /\ 0 \in S /\ Len(c) \in S
    /\ \A b \in S \ {Len(c)} : IsLaid(c, S, P, b)
    /\ \A q \in P : \E b \in S \ {Len(c)} : c[b + 1] \in Jumping /\ q = Behind(c, b) - 1

(* One instruction. *)
IsInstruction(d) ==
    /\ Sequence(d) /\ d[1] \in Instructions
    /\ d[1] \in Working => d[2] \in Nat
    /\ Len(d) = Width(d, 0)

(* An instruction written behind sound code; its jump is pending or leads  *)
(* to an instruction.                                                      *)
LEMMA Appended ==
    ASSUME NEW c, NEW S, NEW P, Laid(c, S, P), NEW d, IsInstruction(d),
           NEW R, P \subseteq R, R \subseteq P \cup {Len(c) + Len(d) - 1},
           d[1] \in Jumping => d[Len(d)] \in S \/ Len(c) + Len(d) - 1 \in R,
           Len(c) + Len(d) - 1 \in R => d[1] \in Jumping \/ Len(c) + Len(d) - 1 \in P
    PROVE  Laid(c \o d, S \cup {Len(c) + Len(d)}, R)
<1>. DEFINE e == c \o d
            n == Len(c)
            k == Len(d)
            T == S \cup {n + k}
<1>1. /\ Sequence(e) /\ Len(e) = n + k /\ n \in Nat /\ k \in Nat \ {0}
      /\ \A i \in 1 .. n : e[i] = c[i]
      /\ \A i \in 1 .. k : e[n + i] = d[i]
      /\ d[1] \in Jumping => k > 1
      /\ d[1] \in Working => k > 4
  <2>1. Width(d, 0) \in Nat \ {0} /\ (d[1] \in Jumping => Width(d, 0) > 1)
        /\ (d[1] \in Working => Width(d, 0) > 4)
    BY WidthIs DEF IsInstruction
  <2>. QED
    BY <2>1, Joined DEF IsInstruction, Laid
<1>2. /\ S \subseteq 0 .. n /\ 0 \in S /\ n \in S
      /\ \A b \in S \ {n} : IsLaid(c, S, P, b)
      /\ \A q \in P : \E b \in S \ {n} : c[b + 1] \in Jumping /\ q = Behind(c, b) - 1
  BY DEF Laid
<1>3. /\ e[n + 1] = d[1] /\ (d[1] \in Working => e[n + 2] = d[2]) /\ e[n + k] = d[k]
  BY <1>1
<1>4. Width(e, n) = k
  <2>1. Width(d, 0) = k
    BY DEF IsInstruction
  <2>. QED
    BY <1>1, <1>3, <2>1 DEF Width
<1>. HIDE DEF e, n, k
<1>5. ASSUME NEW b \in S \ {n}
      PROVE  /\ e[b + 1] = c[b + 1] /\ Behind(e, b) = Behind(c, b)
             /\ Behind(c, b) \in S /\ Behind(c, b) > b
             /\ c[b + 1] \in Jumping => e[Behind(c, b)] = c[Behind(c, b)]
             /\ c[b + 1] \in Working => e[b + 2] = c[b + 2]
  <2>1. b \in Nat /\ b < n /\ e[b + 1] = c[b + 1]
    BY <1>1, <1>2
  <2>2. /\ c[b + 1] \in Instructions /\ (c[b + 1] \in Working => c[b + 2] \in Nat)
        /\ Behind(c, b) \in S
    BY <1>2 DEF IsLaid
  <2>3. Width(c, b) \in Nat \ {0} /\ (c[b + 1] \in Working => Width(c, b) > 4)
    BY <2>2, WidthIs
  <2>4. c[b + 1] \in Working => e[b + 2] = c[b + 2]
    BY <1>1, <1>2, <2>1, <2>2, <2>3 DEF Behind
  <2>5. Width(e, b) = Width(c, b)
    BY <2>1, <2>4 DEF Width
  <2>. QED
    BY <1>1, <1>2, <2>1, <2>2, <2>3, <2>4, <2>5 DEF Behind
<1>6. ASSUME NEW b \in T \ {n + k} PROVE IsLaid(e, T, R, b)
  <2>1. CASE b = n
    BY <1>1, <1>2, <1>3, <1>4, <2>1 DEF IsLaid, Behind, IsInstruction, n, k
  <2>2. CASE b # n
    <3>1. b \in S \ {n}
      BY <2>2
    <3>2. IsLaid(c, S, P, b)
      BY <1>2, <3>1
    <3>3. /\ e[b + 1] = c[b + 1] /\ Behind(e, b) = Behind(c, b)
          /\ c[b + 1] \in Jumping => e[Behind(c, b)] = c[Behind(c, b)]
          /\ c[b + 1] \in Working => e[b + 2] = c[b + 2]
          /\ Behind(c, b) \in S
      BY <1>5, <3>1
    <3>3a. Behind(c, b) \in 0 .. n
      BY <1>2, <3>3
    <3>4. \A m \in T : b < m => Behind(c, b) <= m
      <4>1. \A j \in S : b < j => Behind(c, b) <= j
        BY <3>2 DEF IsLaid
      <4>2. \A m : m \in 0 .. n => m <= n + k
        BY <1>1
      <4>3. Behind(c, b) <= n + k
        BY <3>3a, <4>2
      <4>. QED
        BY <4>1, <4>3
    <3>5. c[b + 1] \in Instructions /\ (c[b + 1] \in Working => c[b + 2] \in Nat)
          /\ (c[b + 1] \in Jumping => c[Behind(c, b)] \in S \/ Behind(c, b) - 1 \in R)
      BY <3>2 DEF IsLaid
    <3>. HIDE DEF T
    <3>6. c[b + 1] \in Jumping => e[Behind(e, b)] \in T \/ Behind(e, b) - 1 \in R
      BY <3>3, <3>5 DEF T
    <3>7. Behind(e, b) \in T
      BY <3>3 DEF T
    <3>. QED
      BY <3>3, <3>4, <3>5, <3>6, <3>7 DEF IsLaid
  <2>. QED
    BY <2>1, <2>2
<1>7. ASSUME NEW q \in R PROVE \E b \in T \ {n + k} : e[b + 1] \in Jumping /\ q = Behind(e, b) - 1
  <2>1. CASE q \in P
    <3>1. PICK b \in S \ {n} : c[b + 1] \in Jumping /\ q = Behind(c, b) - 1
      BY <1>2, <2>1
    <3>. QED
      BY <1>1, <1>2, <1>5, <3>1
  <2>2. CASE q \notin P
    BY <1>1, <1>2, <1>3, <1>4, <2>2 DEF Behind, n, k
  <2>. QED
    BY <2>1, <2>2
<1>8. T \subseteq 0 .. Len(e) /\ 0 \in T /\ Len(e) \in T
  BY <1>1, <1>2
<1>9. Laid(e, T, R)
  BY <1>1, <1>6, <1>7, <1>8 DEF Laid
<1>. QED
  BY <1>9 DEF e, n, k

(* Jumps told to lead to the end of the code are pending no more. *)
LEMMA PatchedCode ==
    ASSUME NEW c, NEW S, NEW P, Laid(c, S, P), NEW Q, Q \subseteq P, NEW R, R \subseteq P, P \subseteq R \cup Q
    PROVE  LET e == [i \in DOMAIN c |-> IF i - 1 \in Q THEN Len(c) ELSE c[i]] IN
           /\ Laid(e, S, R) /\ Len(e) = Len(c)
           /\ \A b \in S \ {Len(c)} : e[b + 1] = c[b + 1]
<1>. DEFINE n == Len(c)
            e == [i \in DOMAIN c |-> IF i - 1 \in Q THEN n ELSE c[i]]
<1>1. /\ n \in Nat /\ DOMAIN c = 1 .. n /\ S \subseteq 0 .. n /\ 0 \in S /\ n \in S
      /\ \A b \in S \ {n} : IsLaid(c, S, P, b)
      /\ \A q \in P : \E b \in S \ {n} : c[b + 1] \in Jumping /\ q = Behind(c, b) - 1
  BY DEF Laid, Sequence
<1>2. e \in Seq(Range(c) \cup {n}) /\ Len(e) = n
  <2>1. \A i \in 1 .. n : c[i] \in Range(c)
    BY <1>1 DEF Range
  <2>2. e \in [1 .. n -> Range(c) \cup {n}] /\ DOMAIN e = 1 .. n
    BY <1>1, <2>1
  <2>3. n \in Nat
    BY <1>1
  <2>. HIDE DEF e, n
  <2>. QED
    BY <2>2, <2>3, Listed
<1>3. Sequence(e)
  BY <1>2, Elements
<1>4. \A i \in 1 .. n : e[i] = IF i - 1 \in Q THEN n ELSE c[i]
  BY <1>1
<1>. HIDE DEF e, n
<1>4a. \A b \in 0 .. n - 1 : e[b + 1] = IF b \in Q THEN n ELSE c[b + 1]
  <2>1. \A b \in 0 .. n - 1 : (b + 1) - 1 = b /\ b + 1 \in 1 .. n
    BY <1>1
  <2>. QED
    BY <1>4, <2>1
<1>5. ASSUME NEW b \in S \ {n}
      PROVE  /\ b \in Nat /\ b < n /\ c[b + 1] \in Instructions
             /\ Width(c, b) \in Nat \ {0} /\ Behind(c, b) \in S /\ Behind(c, b) <= n
             /\ (c[b + 1] \in Working => c[b + 2] \in Nat /\ Width(c, b) > 4)
             /\ (c[b + 1] \in Jumping => Width(c, b) > 1)
             /\ \A d \in S : b < d => Behind(c, b) <= d
  <2>1. /\ c[b + 1] \in Instructions /\ (c[b + 1] \in Working => c[b + 2] \in Nat)
        /\ Behind(c, b) \in S /\ \A d \in S : b < d => Behind(c, b) <= d
    BY <1>1 DEF IsLaid
  <2>. QED
    BY <1>1, <2>1, WidthIs
<1>6. ASSUME NEW b \in S \ {n}
      PROVE  b \notin Q /\ (c[b + 1] \in Working => b + 1 \notin Q)
  <2>1. SUFFICES ASSUME NEW q \in Q, q = b \/ (c[b + 1] \in Working /\ q = b + 1) PROVE FALSE
    OBVIOUS
  <2>2. PICK a \in S \ {n} : c[a + 1] \in Jumping /\ q = Behind(c, a) - 1
    BY <1>1
  <2>3. a # b \/ q # b + 1
    BY <2>1, <2>2, OpcodeSets
  <2>4. b \in Nat /\ b < n /\ (c[b + 1] \in Working => Width(c, b) > 4) /\ Width(c, b) \in Nat
        /\ \A d \in S : b < d => b + Width(c, b) <= d
    BY <1>5 DEF Behind
  <2>5. a \in Nat /\ Width(c, a) > 1 /\ Width(c, a) \in Nat /\ q = a + Width(c, a) - 1
        /\ \A d \in S : a < d => a + Width(c, a) <= d
    BY <1>5, <2>2 DEF Behind
  <2>6. CASE a < b
    BY <2>1, <2>4, <2>5, <2>6
  <2>7. CASE a = b
    BY <2>1, <2>2, <2>4, <2>5, <2>7, OpcodeSets
  <2>8. CASE b < a
    BY <2>1, <2>4, <2>5, <2>8
  <2>. QED
    BY <2>4, <2>5, <2>6, <2>7, <2>8
<1>7. ASSUME NEW b \in S \ {n}
      PROVE  e[b + 1] = c[b + 1] /\ Behind(e, b) = Behind(c, b)
             /\ (c[b + 1] \in Working => e[b + 2] = c[b + 2])
  <2>0. b \in 0 .. n - 1
    BY <1>1, <1>5
  <2>1. e[b + 1] = c[b + 1]
    BY <1>4a, <1>6, <2>0
  <2>2. ASSUME c[b + 1] \in Working PROVE e[b + 2] = c[b + 2]
    <3>1. b + 1 \in 0 .. n - 1 /\ (b + 1) + 1 = b + 2 /\ b + 1 \notin Q
      BY <1>1, <1>5, <1>6, <2>2 DEF Behind
    <3>. QED
      BY <1>4a, <3>1
  <2>. QED
    BY <2>1, <2>2 DEF Behind, Width
<1>8. ASSUME NEW b \in S \ {n} PROVE IsLaid(e, S, R, b)
  <2>1. IsLaid(c, S, P, b)
    BY <1>1
  <2>2. CASE c[b + 1] \in Jumping
    <3>1. Behind(c, b) \in 1 .. n
      BY <1>5 DEF Behind
    <3>2. CASE Behind(c, b) - 1 \in Q
      BY <1>1, <1>4, <1>7, <2>1, <3>1, <3>2 DEF IsLaid
    <3>3. CASE Behind(c, b) - 1 \notin Q
      BY <1>1, <1>4, <1>7, <2>1, <3>1, <3>3 DEF IsLaid
    <3>. QED
      BY <3>2, <3>3
  <2>3. CASE c[b + 1] \notin Jumping
    BY <1>7, <2>1, <2>3 DEF IsLaid
  <2>. QED
    BY <2>2, <2>3
<1>. QED
  BY <1>1, <1>2, <1>3, <1>7, <1>8 DEF Laid, e, n

(* A jump that leads to the right place need not be told. *)
LEMMA Settled ==
    ASSUME NEW c, NEW S, NEW P, Laid(c, S, P), NEW q, c[q + 1] \in S,
           NEW R, R \subseteq P, P \subseteq R \cup {q}
    PROVE  Laid(c, S, R)
<1>1. ASSUME NEW b \in S \ {Len(c)} PROVE IsLaid(c, S, R, b)
  <2>1. IsLaid(c, S, P, b) /\ b \in Nat
    BY DEF Laid, Sequence
  <2>2. Width(c, b) \in Nat
    BY <2>1, WidthIs DEF IsLaid
  <2>3. Behind(c, b) - 1 = q => Behind(c, b) = q + 1
    BY <2>1, <2>2 DEF Behind
  <2>. QED
    BY <2>1, <2>3 DEF IsLaid
<1>. QED
  BY <1>1 DEF Laid

-----------------------------------------------------------------------------
(* The emitter *)

(* Its fields, whatever they hold. *)
IsGenerator(h) ==
    h \in [code : {h.code}, locals : {h.locals}, max_locals : {h.max_locals},
           dirty_locals : {h.dirty_locals}, temporaries : {h.temporaries}, pool : {h.pool},
           used : {h.used}, pending_clear : {h.pending_clear},
           default_arguments : {h.default_arguments}, ifs : {h.ifs}, whiles : {h.whiles},
           fors : {h.fors}, continues : {h.continues}, breaks : {h.breaks},
           logic : {h.logic}, ternary_fail : {h.ternary_fail},
           ternary_skip : {h.ternary_skip}, site : {h.site}, part : {h.part}]

(* The stacks of jumps that are still to be told where to go.              *)
Stacks(h) == <<h.ifs, h.whiles, h.fors, h.breaks, h.logic, h.ternary_fail, h.ternary_skip>>

(* The places in the code that jumps still to be written will lead to. *)
Targets(h) == <<h.continues, h.default_arguments>>

(* The code when the jumps whose words are at Q lead to its end.           *)
ToldWhere(c, Q) == [i \in DOMAIN c |-> IF i - 1 \in Q THEN Len(c) ELSE c[i]]

(* Writing an instruction leaves the stacks alone. *)
LEMMA Emits ==
    ASSUME NEW h, IsGenerator(h), NEW d
    PROVE  /\ IsGenerator(Emit(h, d)) /\ Emit(h, d).code = h.code \o d
           /\ Stacks(Emit(h, d)) = Stacks(h) /\ Targets(Emit(h, d)) = Targets(h)
           /\ Emit(h, d).temporaries = h.temporaries
BY DEF IsGenerator, Stacks, Targets, Emit

(* So does telling jumps where to go. *)
LEMMA Patches ==
    ASSUME NEW h, IsGenerator(h), NEW Q
    PROVE  /\ IsGenerator(PatchAll(h, Q))
           /\ PatchAll(h, Q).code = ToldWhere(h.code, Q)
           /\ Stacks(PatchAll(h, Q)) = Stacks(h) /\ Targets(PatchAll(h, Q)) = Targets(h)
           /\ PatchAll(h, Q).temporaries = h.temporaries
BY DEF IsGenerator, Stacks, Targets, PatchAll, Here, ToldWhere

(* Where the words of all jumps that are still to be told are. *)
Pending(h) ==
    Range(h.ifs) \cup Range(h.whiles) \cup Range(h.fors) \cup (UNION Range(h.breaks))
    \cup Range(h.logic) \cup Range(h.ternary_fail) \cup Range(h.ternary_skip)

(* C and D: where continue and the default values lead.                    *)
SoundCode(c, S, P, C, D) ==
    /\ Laid(c, S, P)
    /\ C \subseteq S /\ D \subseteq S
    /\ \A b \in S \ {Len(c)} : c[b + 1] = 828 => D # {}

(* It is sound for some S. *)
GoodCode(c, P, C, D) == \E S : SoundCode(c, S, P, C, D)

(* The code of a generator is sound, and the pending jumps are exactly     *)
(* those on its stacks.                                                    *)
Sound(h) == GoodCode(h.code, Pending(h), Range(h.continues), Range(h.default_arguments))

(* Its stacks are stacks of places. *)
Typed(h) ==
    /\ IsGenerator(h) /\ Sequence(h.temporaries)
    /\ h.ifs \in Seq(Nat) /\ h.whiles \in Seq(Nat) /\ h.fors \in Seq(Nat)
    /\ h.breaks \in Seq(SUBSET Nat) /\ h.logic \in Seq(Nat)
    /\ h.ternary_fail \in Seq(Nat) /\ h.ternary_skip \in Seq(Nat)
    /\ h.continues \in Seq(Nat) /\ h.default_arguments \in Seq(Nat)

(* How high the stacks are.                                                *)
Heights(i, w, f, b, c, a, s, d) ==
    [ifs |-> i, whiles |-> w, fors |-> f, breaks |-> b, continues |-> c,
     fail |-> a, skip |-> s, defaults |-> d]

(* The heights of the stacks of h. *)
Height(h) ==
    Heights(Len(h.ifs), Len(h.whiles), Len(h.fors), Len(h.breaks), Len(h.continues),
            Len(h.ternary_fail), Len(h.ternary_skip), Len(h.default_arguments))

(* One stack is higher by n. *)
Up(x, field, n) == [x EXCEPT ![field] = @ + n]

(* One field of the heights is changed, the others stay. *)
LEMMA Raised ==
    ASSUME NEW i, NEW w, NEW f, NEW b, NEW c, NEW a, NEW s, NEW d, NEW n
    PROVE  /\ Up(Heights(i, w, f, b, c, a, s, d), "ifs", n) = Heights(i + n, w, f, b, c, a, s, d)
           /\ Up(Heights(i, w, f, b, c, a, s, d), "whiles", n) = Heights(i, w + n, f, b, c, a, s, d)
           /\ Up(Heights(i, w, f, b, c, a, s, d), "fors", n) = Heights(i, w, f + n, b, c, a, s, d)
           /\ Up(Heights(i, w, f, b, c, a, s, d), "breaks", n) = Heights(i, w, f, b + n, c, a, s, d)
           /\ Up(Heights(i, w, f, b, c, a, s, d), "continues", n) = Heights(i, w, f, b, c + n, a, s, d)
           /\ Up(Heights(i, w, f, b, c, a, s, d), "fail", n) = Heights(i, w, f, b, c, a + n, s, d)
           /\ Up(Heights(i, w, f, b, c, a, s, d), "skip", n) = Heights(i, w, f, b, c, a, s + n, d)
<1>1. Up(Heights(i, w, f, b, c, a, s, d), "ifs", n) = Heights(i + n, w, f, b, c, a, s, d)
  BY DEF Heights, Up
<1>2. Up(Heights(i, w, f, b, c, a, s, d), "whiles", n) = Heights(i, w + n, f, b, c, a, s, d)
  BY DEF Heights, Up
<1>3. Up(Heights(i, w, f, b, c, a, s, d), "fors", n) = Heights(i, w, f + n, b, c, a, s, d)
  BY DEF Heights, Up
<1>4. Up(Heights(i, w, f, b, c, a, s, d), "breaks", n) = Heights(i, w, f, b + n, c, a, s, d)
  BY DEF Heights, Up
<1>5. Up(Heights(i, w, f, b, c, a, s, d), "continues", n) = Heights(i, w, f, b, c + n, a, s, d)
  BY DEF Heights, Up
<1>6. Up(Heights(i, w, f, b, c, a, s, d), "fail", n) = Heights(i, w, f, b, c, a + n, s, d)
  BY DEF Heights, Up
<1>7. Up(Heights(i, w, f, b, c, a, s, d), "skip", n) = Heights(i, w, f, b, c, a, s + n, d)
  BY DEF Heights, Up
<1>. QED
  BY <1>1, <1>2, <1>3, <1>4, <1>5, <1>6, <1>7

(* A generator with sound code, the stacks of which are as high as x says, *)
(* with l pending jumps of "and" and "or". Every lemma about the emitter   *)
(* and the lowering says what an operation makes of this.                  *)
Stands(h, x, l) == Typed(h) /\ Sound(h) /\ x = Height(h) /\ l = Len(h.logic)

(* Appended, for code with the places that continue and defaults lead to. *)
LEMMA Continued ==
    ASSUME NEW c, NEW S, NEW P, NEW C, NEW D, SoundCode(c, S, P, C, D),
           NEW d, IsInstruction(d), d[1] # 828,
           NEW R, P \subseteq R, R \subseteq P \cup {Len(c) + Len(d) - 1},
           d[1] \in Jumping => d[Len(d)] \in S \/ Len(c) + Len(d) - 1 \in R,
           Len(c) + Len(d) - 1 \in R => d[1] \in Jumping \/ Len(c) + Len(d) - 1 \in P
    PROVE  /\ SoundCode(c \o d, S \cup {Len(c) + Len(d)}, R, C, D)
           /\ Len(c \o d) = Len(c) + Len(d) /\ Len(c) \in Nat /\ Len(d) \in Nat \ {0}
<1>. DEFINE e == c \o d
            T == S \cup {Len(c) + Len(d)}
<1>1. Laid(e, T, R)
  BY Appended DEF SoundCode
<1>2. /\ Len(e) = Len(c) + Len(d) /\ Len(c) \in Nat /\ Len(d) \in Nat \ {0}
      /\ S \subseteq 0 .. Len(c)
      /\ \A i \in 1 .. Len(c) : e[i] = c[i]
      /\ e[Len(c) + 1] = d[1]
  <2>1. Sequence(c) /\ Sequence(d) /\ S \subseteq 0 .. Len(c)
    BY DEF SoundCode, Laid, IsInstruction
  <2>2. Len(d) \in Nat \ {0}
    BY WidthIs DEF IsInstruction
  <2>. QED
    BY <2>1, <2>2, Joined
<1>. HIDE DEF e
<1>3. ASSUME NEW b \in T \ {Len(e)}, e[b + 1] = 828 PROVE D # {}
  <2>1. CASE b = Len(c)
    BY <1>2, <1>3, <2>1
  <2>2. CASE b # Len(c)
    <3>1. b \in S \ {Len(c)} /\ b + 1 \in 1 .. Len(c)
      BY <1>2, <2>2
    <3>. QED
      BY <1>2, <1>3, <3>1 DEF SoundCode
  <2>. QED
    BY <2>1, <2>2
<1>4. C \subseteq T /\ D \subseteq T
  BY DEF SoundCode
<1>5. SoundCode(e, T, R, C, D)
  BY <1>1, <1>3, <1>4 DEF SoundCode
<1>. QED
  BY <1>2, <1>5 DEF e

(* PatchedCode, for such code. *)
LEMMA Told ==
    ASSUME NEW c, NEW S, NEW P, NEW C, NEW D, SoundCode(c, S, P, C, D),
           NEW Q, Q \subseteq P, NEW R, R \subseteq P, P \subseteq R \cup Q
    PROVE  SoundCode(ToldWhere(c, Q), S, R, C, D) /\ Len(ToldWhere(c, Q)) = Len(c)
<1>. DEFINE e == ToldWhere(c, Q)
<1>0. Laid(c, S, P)
  BY DEF SoundCode
<1>1. Laid(e, S, R) /\ Len(e) = Len(c) /\ \A b \in S \ {Len(c)} : e[b + 1] = c[b + 1]
  BY <1>0, PatchedCode DEF ToldWhere
<1>. HIDE DEF e
<1>2. SoundCode(e, S, R, C, D)
  BY <1>1 DEF SoundCode
<1>. QED
  BY <1>1, <1>2 DEF e

(* An instruction that is no jump and not the one that jumps to a default  *)
(* value.                                                                  *)
IsPlain(d) == IsInstruction(d) /\ d[1] \notin Jumping \cup {828}

(* An instruction that is a jump. *)
IsJump(d) == IsInstruction(d) /\ d[1] \in Jumping

(* An instruction that is no jump leaves everything pending that was. *)
LEMMA GoodPlain ==
    ASSUME NEW c, NEW P, NEW C, NEW D, GoodCode(c, P, C, D), NEW d, IsPlain(d)
    PROVE  GoodCode(c \o d, P, C, D)
<1>1. PICK S : SoundCode(c, S, P, C, D)
  BY DEF GoodCode
<1>2. d[1] # 828 /\ d[1] \notin Jumping /\ IsInstruction(d) /\ P \subseteq P
  BY DEF IsPlain
<1>3. SoundCode(c \o d, S \cup {Len(c) + Len(d)}, P, C, D)
  BY <1>1, <1>2, Continued
<1>. QED
  BY <1>3 DEF GoodCode

(* A jump that is not told yet where to go. *)
LEMMA GoodJump ==
    ASSUME NEW c, NEW P, NEW C, NEW D, GoodCode(c, P, C, D), NEW d, IsJump(d),
           NEW q, q = Len(c \o d) - 1
    PROVE  GoodCode(c \o d, P \cup {q}, C, D) /\ q \in Nat
<1>. DEFINE n == Len(c) + Len(d)
            R == P \cup {n - 1}
<1>0. PICK S : SoundCode(c, S, P, C, D)
  BY DEF GoodCode
<1>1. IsInstruction(d) /\ d[1] # 828 /\ d[1] \in Jumping
  BY OpcodeSets DEF IsJump
<1>2. P \subseteq R /\ R \subseteq P \cup {Len(c) + Len(d) - 1} /\ Len(c) + Len(d) - 1 \in R
  OBVIOUS
<1>. HIDE DEF R
<1>3. /\ SoundCode(c \o d, S \cup {Len(c) + Len(d)}, R, C, D)
      /\ Len(c \o d) = Len(c) + Len(d) /\ Len(c) \in Nat /\ Len(d) \in Nat \ {0}
  BY <1>0, <1>1, <1>2, Continued
<1>4. q \in Nat /\ n - 1 = q
  BY <1>3
<1>5. R = P \cup {q}
  BY <1>4 DEF R
<1>. QED
  BY <1>3, <1>4, <1>5 DEF GoodCode

(* The jumps of Q lead to the end of the code. *)
LEMMA GoodTold ==
    ASSUME NEW c, NEW P, NEW C, NEW D, GoodCode(c, P, C, D), NEW Q, Q \subseteq P,
           NEW R, R \subseteq P, P \subseteq R \cup Q
    PROVE  GoodCode(ToldWhere(c, Q), R, C, D)
BY Told DEF GoodCode

(* The end of the code is a place to go to. *)
LEMMA GoodPlace ==
    ASSUME NEW c, NEW P, NEW C, NEW D, GoodCode(c, P, C, D)
    PROVE  /\ Len(c) \in Nat
           /\ \A X \in SUBSET (C \cup {Len(c)}) : GoodCode(c, P, X, D)
           /\ GoodCode(c, P, C, D \cup {Len(c)})
<1>0. PICK S : SoundCode(c, S, P, C, D)
  BY DEF GoodCode
<1>1. Len(c) \in S /\ Len(c) \in Nat
  BY <1>0 DEF SoundCode, Laid, Sequence
<1>2. \A X \in SUBSET (C \cup {Len(c)}) : SoundCode(c, S, P, X, D)
  BY <1>0, <1>1 DEF SoundCode
<1>3. SoundCode(c, S, P, C, D \cup {Len(c)})
  BY <1>0, <1>1 DEF SoundCode
<1>. QED
  BY <1>1, <1>2, <1>3 DEF GoodCode

(* What leaves the code and its jumps alone.                               *)
LEMMA Quiet ==
    ASSUME NEW h, NEW x, NEW l, Stands(h, x, l),
           NEW k, IsGenerator(k), Sequence(k.temporaries), k.code = h.code,
           Stacks(k) = Stacks(h), Targets(k) = Targets(h)
    PROVE  Stands(k, x, l)
<1>1. /\ k.ifs = h.ifs /\ k.whiles = h.whiles /\ k.fors = h.fors /\ k.breaks = h.breaks
      /\ k.logic = h.logic /\ k.ternary_fail = h.ternary_fail /\ k.ternary_skip = h.ternary_skip
      /\ k.continues = h.continues /\ k.default_arguments = h.default_arguments
  BY DEF Stacks, Targets
<1>2. Typed(k)
  BY <1>1 DEF Stands, Typed
<1>3. Pending(k) = Pending(h) /\ Height(k) = Height(h)
  BY <1>1 DEF Pending, Height
<1>4. Sound(k)
  BY <1>1, <1>3 DEF Stands, Sound
<1>. QED
  BY <1>1, <1>2, <1>3, <1>4 DEF Stands

(* An instruction that is no jump.                                         *)
LEMMA Plain ==
    ASSUME NEW h, NEW x, NEW l, Stands(h, x, l), NEW d, IsPlain(d)
    PROVE  Stands(Emit(h, d), x, l)
<1>. DEFINE k == Emit(h, d)
<1>1. IsGenerator(h) /\ Typed(h)
  BY DEF Stands, Typed
<1>2. /\ IsGenerator(k) /\ Stacks(k) = Stacks(h) /\ Targets(k) = Targets(h)
      /\ k.code = h.code \o d /\ k.temporaries = h.temporaries
  BY <1>1, Emits
<1>. HIDE DEF k
<1>3. /\ k.ifs = h.ifs /\ k.whiles = h.whiles /\ k.fors = h.fors /\ k.breaks = h.breaks
      /\ k.logic = h.logic /\ k.ternary_fail = h.ternary_fail /\ k.ternary_skip = h.ternary_skip
      /\ k.continues = h.continues /\ k.default_arguments = h.default_arguments
  BY <1>2 DEF Stacks, Targets
<1>4. Typed(k)
  BY <1>1, <1>2, <1>3 DEF Typed
<1>5. Pending(k) = Pending(h) /\ Height(k) = Height(h)
  BY <1>3 DEF Pending, Height
<1>6. Sound(k)
  <2>1. GoodCode(h.code \o d, Pending(h), Range(h.continues), Range(h.default_arguments))
    BY GoodPlain DEF Stands, Sound
  <2>. QED
    BY <1>2, <1>3, <1>5, <2>1 DEF Sound
<1>7. Stands(k, x, l)
  BY <1>3, <1>4, <1>5, <1>6 DEF Stands
<1>. QED
  BY <1>7 DEF k

(* Instructions by their length.                                           *)
LEMMA OneWord ==
    ASSUME NEW o, o = 828
    PROVE  IsInstruction(<<o>>) /\ Len(<<o>>) = 1
<1>. DEFINE d == <<o>>
<1>1. d \in Seq({o}) /\ Len(d) = 1 /\ d[1] = o
  OBVIOUS
<1>. HIDE DEF d
<1>2. Sequence(d)
  BY <1>1, Elements
<1>3. d[0 + 1] = o /\ o \in Instructions /\ o \notin Working
  BY <1>1, OpcodeSets
<1>4. Width(d, 0) = 1
  BY <1>3, Widths
<1>. QED
  BY <1>1, <1>2, <1>3, <1>4 DEF IsInstruction, d

(* Instructions of two words. *)
LEMMA TwoWords ==
    ASSUME NEW o, NEW a, o \in {801, 825, 833} \cup (819 .. 824)
    PROVE  /\ Len(<<o, a>>) = 2 /\ <<o, a>>[2] = a
           /\ o = 825 => IsJump(<<o, a>>)
           /\ o # 825 => IsPlain(<<o, a>>)
<1>. DEFINE d == <<o, a>>
<1>1. d \in Seq({o, a}) /\ Len(d) = 2 /\ d[1] = o /\ d[2] = a
  OBVIOUS
<1>. HIDE DEF d
<1>2. Sequence(d)
  BY <1>1, Elements
<1>3. d[0 + 1] = o /\ o \in Instructions /\ o \notin Working /\ o # 828
      /\ (o \in Jumping <=> o = 825)
  BY <1>1, OpcodeSets
<1>4. Width(d, 0) = 2
  BY <1>3, Widths
<1>. QED
  BY <1>1, <1>2, <1>3, <1>4 DEF IsInstruction, IsJump, IsPlain, d

(* Instructions of three words. *)
LEMMA ThreeWords ==
    ASSUME NEW o, NEW a, NEW b, o \in (816 .. 818) \cup {826, 827}
    PROVE  /\ Len(<<o, a, b>>) = 3 /\ <<o, a, b>>[3] = b
           /\ o \in {826, 827} => IsJump(<<o, a, b>>)
           /\ o \notin {826, 827} => IsPlain(<<o, a, b>>)
<1>. DEFINE d == <<o, a, b>>
<1>1. d \in Seq({o, a, b}) /\ Len(d) = 3 /\ d[1] = o /\ d[3] = b
  OBVIOUS
<1>. HIDE DEF d
<1>2. Sequence(d)
  BY <1>1, Elements
<1>3. d[0 + 1] = o /\ o \in Instructions /\ o \notin Working /\ o # 828
      /\ (o \in Jumping <=> o \in {826, 827})
  BY <1>1, OpcodeSets
<1>4. Width(d, 0) = 3
  BY <1>3, Widths
<1>. QED
  BY <1>1, <1>2, <1>3, <1>4 DEF IsInstruction, IsJump, IsPlain, d

(* The instructions that step a for loop over a list. *)
LEMMA FiveWords ==
    ASSUME NEW o, NEW a, NEW b, NEW e, NEW f, o \in {829, 830}
    PROVE  /\ Len(<<o, a, b, e, f>>) = 5 /\ <<o, a, b, e, f>>[5] = f
           /\ IsJump(<<o, a, b, e, f>>)
<1>. DEFINE d == <<o, a, b, e, f>>
<1>1. d \in Seq({o, a, b, e, f}) /\ Len(d) = 5 /\ d[1] = o /\ d[5] = f
  OBVIOUS
<1>. HIDE DEF d
<1>2. Sequence(d)
  BY <1>1, Elements
<1>3. d[0 + 1] = o /\ o \in Instructions /\ o \notin Working /\ o \in Jumping
  BY <1>1, OpcodeSets
<1>4. Width(d, 0) = 5
  BY <1>3, Widths
<1>. QED
  BY <1>1, <1>2, <1>3, <1>4 DEF IsInstruction, IsJump, d

(* The instruction that steps a for loop over a range. *)
LEMMA SixWords ==
    ASSUME NEW o, NEW a, NEW b, NEW e, NEW f, NEW i, o = 832
    PROVE  /\ Len(<<o, a, b, e, f, i>>) = 6 /\ <<o, a, b, e, f, i>>[6] = i
           /\ IsJump(<<o, a, b, e, f, i>>)
<1>. DEFINE d == <<o, a, b, e, f, i>>
<1>1. d \in Seq({o, a, b, e, f, i}) /\ Len(d) = 6 /\ d[1] = o /\ d[6] = i
  OBVIOUS
<1>. HIDE DEF d
<1>2. Sequence(d)
  BY <1>1, Elements
<1>3. d[0 + 1] = o /\ o \in Instructions /\ o \notin Working /\ o \in Jumping
  BY <1>1, OpcodeSets
<1>4. Width(d, 0) = 6
  BY <1>3, Widths
<1>. QED
  BY <1>1, <1>2, <1>3, <1>4 DEF IsInstruction, IsJump, d

(* The instruction that begins a for loop over a range. *)
LEMMA SevenWords ==
    ASSUME NEW o, NEW a, NEW b, NEW e, NEW f, NEW i, NEW j, o = 831
    PROVE  /\ Len(<<o, a, b, e, f, i, j>>) = 7 /\ <<o, a, b, e, f, i, j>>[7] = j
           /\ IsJump(<<o, a, b, e, f, i, j>>)
<1>. DEFINE d == <<o, a, b, e, f, i, j>>
<1>1. d \in Seq({o, a, b, e, f, i, j}) /\ Len(d) = 7 /\ d[1] = o /\ d[7] = j
  OBVIOUS
<1>. HIDE DEF d
<1>2. Sequence(d)
  BY <1>1, Elements
<1>3. d[0 + 1] = o /\ o \in Instructions /\ o \notin Working /\ o \in Jumping
  BY <1>1, OpcodeSets
<1>4. Width(d, 0) = 7
  BY <1>3, Widths
<1>. QED
  BY <1>1, <1>2, <1>3, <1>4 DEF IsInstruction, IsJump, d

(* An instruction with operands.                                           *)
LEMMA WorkingWords ==
    ASSUME NEW o, o \in Working, NEW n \in Nat, NEW a, Sequence(a), Len(a) = n, NEW b, NEW e, NEW f
    PROVE  IsPlain(<<o, n>> \o a \o <<b, e, f>>)
<1>. DEFINE d == <<o, n>> \o a
            j == d \o <<b, e, f>>
<1>1. /\ <<o, n>> \in Seq({o, n}) /\ Len(<<o, n>>) = 2 /\ <<o, n>>[1] = o /\ <<o, n>>[2] = n
      /\ <<b, e, f>> \in Seq({b, e, f}) /\ Len(<<b, e, f>>) = 3
  OBVIOUS
<1>2. Sequence(<<o, n>>) /\ Sequence(<<b, e, f>>)
  BY <1>1, Elements
<1>3. Sequence(d) /\ Len(d) = 2 + n /\ d[1] = o /\ d[2] = n
  BY <1>1, <1>2, Joined
<1>. HIDE DEF d
<1>4. Sequence(j) /\ Len(j) = 5 + n /\ j[1] = o /\ j[2] = n
  BY <1>1, <1>2, <1>3, Joined
<1>. HIDE DEF j
<1>5. j[0 + 1] = o /\ j[0 + 2] = n /\ o \in Instructions /\ o \in 802 .. 815
      /\ o \notin Jumping \cup {828}
  BY <1>4, OpcodeSets
<1>6. Width(j, 0) = 5 + n
  BY <1>5, Widths, SMTT(30)
<1>7. IsPlain(j)
  BY <1>4, <1>5, <1>6 DEF IsInstruction, IsPlain
<1>. QED
  BY <1>7 DEF j, d

-----------------------------------------------------------------------------
(* What writes no jump *)

(* A slot for a local, no code. *)
LEMMA AddsLocal ==
    ASSUME NEW h, NEW x, NEW l, Stands(h, x, l)
    PROVE  Stands(AddLocal(h), x, l)
<1>1. IsGenerator(h) /\ Sequence(h.temporaries)
  BY DEF Stands, Typed
<1>2. /\ IsGenerator(AddLocal(h)) /\ AddLocal(h).code = h.code
      /\ Stacks(AddLocal(h)) = Stacks(h) /\ Targets(AddLocal(h)) = Targets(h)
      /\ AddLocal(h).temporaries = h.temporaries
  BY <1>1 DEF IsGenerator, Stacks, Targets, AddLocal
<1>. QED
  BY <1>1, <1>2, Quiet

(* The locals of a block are given back, no code. *)
LEMMA EndsBlock ==
    ASSUME NEW h, NEW x, NEW l, Stands(h, x, l), NEW n
    PROVE  Stands(EndBlock(h, n), x, l)
<1>1. IsGenerator(h) /\ Sequence(h.temporaries)
  BY DEF Stands, Typed
<1>2. /\ IsGenerator(EndBlock(h, n)) /\ EndBlock(h, n).code = h.code
      /\ Stacks(EndBlock(h, n)) = Stacks(h) /\ Targets(EndBlock(h, n)) = Targets(h)
      /\ EndBlock(h, n).temporaries = h.temporaries
  BY <1>1 DEF IsGenerator, Stacks, Targets, EndBlock
<1>. QED
  BY <1>1, <1>2, Quiet

(* A temporary is taken, a new one or one of the pool; no code. *)
LEMMA AddsTemporary ==
    ASSUME NEW h, NEW x, NEW l, Stands(h, x, l), NEW carrier
    PROVE  Stands(AddTemporary(h, carrier), x, l)
<1>. DEFINE c == PoolOf(carrier)
            k == AddTemporary(h, carrier)
<1>1. IsGenerator(h) /\ Sequence(h.temporaries)
  BY DEF Stands, Typed
<1>2. CASE h.pool[c] # <<>>
  <2>1. k = [h EXCEPT !.pool[c] = Tail(@), !.used = Append(@, Head(h.pool[c]))]
    BY <1>2 DEF AddTemporary
  <2>. HIDE DEF c
  <2>2. /\ IsGenerator(k) /\ k.code = h.code /\ k.temporaries = h.temporaries
        /\ Stacks(k) = Stacks(h) /\ Targets(k) = Targets(h)
    BY <1>1, <2>1 DEF IsGenerator, Stacks, Targets
  <2>. HIDE DEF k
  <2>3. Stands(k, x, l)
    BY <1>1, <2>2, Quiet
  <2>. QED
    BY <2>3 DEF k
<1>3. CASE h.pool[c] = <<>>
  <2>1. k = [h EXCEPT !.temporaries = Append(@, c), !.used = Append(@, Len(h.temporaries) + 1)]
    BY <1>3 DEF AddTemporary
  <2>. HIDE DEF c
  <2>2. /\ IsGenerator(k) /\ k.code = h.code /\ k.temporaries = Append(h.temporaries, c)
        /\ Stacks(k) = Stacks(h) /\ Targets(k) = Targets(h)
    BY <1>1, <2>1 DEF IsGenerator, Stacks, Targets
  <2>. HIDE DEF k
  <2>3. Sequence(k.temporaries)
    <3>1. h.temporaries \in Seq(Range(h.temporaries) \cup {c})
      BY <1>1 DEF Sequence
    <3>2. Append(h.temporaries, c) \in Seq(Range(h.temporaries) \cup {c})
      BY <3>1
    <3>. QED
      BY <2>2, <3>2, Elements
  <2>4. Stands(k, x, l)
    BY <2>2, <2>3, Quiet
  <2>. QED
    BY <2>4 DEF k
<1>. QED
  BY <1>2, <1>3

(* Temporaries are given back, no code. *)
LEMMA PopsTemporaries ==
    ASSUME NEW h, NEW x, NEW l, Stands(h, x, l), NEW n
    PROVE  Stands(PopTemporaries(h, n), x, l)
<1>. DEFINE k == PopTemporaries(h, n)
<1>1. IsGenerator(h) /\ Sequence(h.temporaries)
  BY DEF Stands, Typed
<1>2. PICK u, v, w : k = [h EXCEPT !.used = u, !.pending_clear = v, !.pool = w]
  <2>. DEFINE kept == Len(h.used) - n
              popped == Reverse(SubSeq(h.used, kept + 1, Len(h.used)))
              u == SubSeq(h.used, 1, kept)
              v == h.pending_clear \cup ToSet(popped)
              w == [c \in DOMAIN h.pool |->
                        h.pool[c] \o SelectSeq(popped, LAMBDA slot : h.temporaries[slot] = c)]
  <2>1. k = [h EXCEPT !.used = u, !.pending_clear = v, !.pool = w]
    BY <1>1, Zenon DEF PopTemporaries, IsGenerator
  <2>. HIDE DEF k, u, v, w
  <2>. QED
    BY <2>1
<1>3. /\ IsGenerator(k) /\ k.code = h.code /\ k.temporaries = h.temporaries
      /\ Stacks(k) = Stacks(h) /\ Targets(k) = Targets(h)
  BY <1>1, <1>2 DEF IsGenerator, Stacks, Targets
<1>. HIDE DEF k
<1>4. Stands(k, x, l)
  BY <1>1, <1>3, Quiet
<1>. QED
  BY <1>4 DEF k

(* One temporary is given back. *)
LEMMA PopsTemporary ==
    ASSUME NEW h, NEW x, NEW l, Stands(h, x, l)
    PROVE  Stands(PopTemporary(h), x, l)
BY PopsTemporaries DEF PopTemporary

(* ASSIGN, TYPEOF and ASSERT. *)
LEMMA WritesAssign ==
    ASSUME NEW h, NEW x, NEW l, Stands(h, x, l), NEW a, NEW b
    PROVE  /\ Stands(WriteAssign(h, a, b), x, l) /\ Stands(WriteTypeOf(h, a, b), x, l)
           /\ Stands(WriteAssert(h, a, b), x, l)
<1>1. ASSUME NEW o \in 816 .. 818 PROVE \A u, v : Stands(Emit(h, <<o, u, v>>), x, l)
  <2>1. o \in (816 .. 818) \cup {826, 827} /\ o \notin {826, 827}
    OBVIOUS
  <2>2. \A u, v : IsPlain(<<o, u, v>>)
    BY <2>1, ThreeWords
  <2>. QED
    BY <2>2, Plain
<1>. QED
  BY <1>1, Opcodes DEF WriteAssign, WriteTypeOf, WriteAssert

(* LINE, RETURN, and the instructions that store something fixed. *)
LEMMA Stores ==
    ASSUME NEW h, NEW x, NEW l, Stands(h, x, l), NEW o \in {801, 833} \cup (819 .. 824), NEW a
    PROVE  Stands(Emit(h, <<o, a>>), x, l)
<1>1. IsPlain(<<o, a>>)
  BY TwoWords
<1>. QED
  BY <1>1, Plain

(* write_newline. *)
LEMMA WritesLine ==
    ASSUME NEW h, NEW x, NEW l, Stands(h, x, l), NEW n
    PROVE  Stands(WriteLine(h, n), x, l)
<1>. DEFINE i == Emit(h, <<Opcode.LINE, n>>)
            k == WriteLine(h, n)
<1>1. Stands(i, x, l)
  BY Stores, Opcodes
<1>2. k = [i EXCEPT !.site = n, !.part = 1]
  BY DEF WriteLine
<1>. HIDE DEF i, k
<1>3. IsGenerator(i) /\ Sequence(i.temporaries)
  BY <1>1 DEF Stands, Typed
<1>4. /\ IsGenerator(k) /\ k.code = i.code /\ k.temporaries = i.temporaries
      /\ Stacks(k) = Stacks(i) /\ Targets(k) = Targets(i)
  BY <1>2, <1>3 DEF IsGenerator, Stacks, Targets
<1>5. Stands(k, x, l)
  BY <1>1, <1>3, <1>4, Quiet
<1>. QED
  BY <1>5 DEF k

(* write_return. *)
LEMMA WritesReturn ==
    ASSUME NEW h, NEW x, NEW l, Stands(h, x, l), NEW a
    PROVE  Stands(WriteReturn(h, a), x, l)
<1>1. Stands(Emit(h, <<833, Resolve(h, a)>>), x, l)
  BY Stores
<1>. QED
  BY <1>1, Opcodes DEF WriteReturn

(* A local is told to hold nothing, or an empty value of its type. *)
LEMMA ClearsLocal ==
    ASSUME NEW h, NEW x, NEW l, Stands(h, x, l), NEW local
    PROVE  Stands(ClearLocal(h, local), x, l)
<1>. DEFINE i == Emit(h, <<ClearOf(local.carrier), local.slot>>)
            k == ClearLocal(h, local)
<1>1. Stands(i, x, l)
  <2>1. ClearOf(local.carrier) \in 819 .. 824
    BY Opcodes DEF ClearOf
  <2>. QED
    BY <2>1, Stores
<1>2. k = [i EXCEPT !.dirty_locals = @ \ {local.slot}]
  BY DEF ClearLocal
<1>. HIDE DEF i, k
<1>3. IsGenerator(i) /\ Sequence(i.temporaries)
  BY <1>1 DEF Stands, Typed
<1>4. /\ IsGenerator(k) /\ k.code = i.code /\ k.temporaries = i.temporaries
      /\ Stacks(k) = Stacks(i) /\ Targets(k) = Targets(i)
  BY <1>2, <1>3 DEF IsGenerator, Stacks, Targets
<1>5. Stands(k, x, l)
  BY <1>1, <1>3, <1>4, Quiet
<1>. QED
  BY <1>5 DEF k

(* An instruction with a list of operands. *)
LEMMA Operates ==
    ASSUME NEW h, NEW x, NEW l, Stands(h, x, l), NEW o \in Working,
           NEW operands, Len(operands) \in Nat, NEW a
    PROVE  Stands(Operate(h, o, operands, a), x, l)
<1>. DEFINE n == Len(operands)
            addresses == [j \in 1 .. n |-> Resolve(h, operands[j])]
            d == <<o, n>> \o addresses \o <<Resolve(h, a), h.site, h.part>>
            i == Emit(h, d)
            k == Operate(h, o, operands, a)
<1>1. IsPlain(d)
  <2>1. addresses \in [1 .. n -> {addresses[j] : j \in 1 .. n}]
    OBVIOUS
  <2>. HIDE DEF addresses
  <2>2. n \in Nat
    OBVIOUS
  <2>. HIDE DEF n
  <2>3. Len(addresses) = n /\ Sequence(addresses)
    BY <2>1, <2>2, Listed, Elements
  <2>. QED
    BY <2>2, <2>3, WorkingWords
<1>2. k = [i EXCEPT !.part = @ + 1]
  BY DEF Operate
<1>. HIDE DEF d
<1>3. Stands(i, x, l)
  BY <1>1, Plain
<1>. HIDE DEF i, k
<1>4. IsGenerator(i) /\ Sequence(i.temporaries)
  BY <1>3 DEF Stands, Typed
<1>5. /\ IsGenerator(k) /\ k.code = i.code /\ k.temporaries = i.temporaries
      /\ Stacks(k) = Stacks(i) /\ Targets(k) = Targets(i)
  BY <1>2, <1>4 DEF IsGenerator, Stacks, Targets
<1>6. Stands(k, x, l)
  BY <1>3, <1>4, <1>5, Quiet
<1>. QED
  BY <1>6 DEF k

-----------------------------------------------------------------------------
(* What writes jumps *)

(* write_if: its jump is pending on a stack of its own. *)
LEMMA WritesIf ==
    ASSUME NEW h, NEW x, NEW l, Stands(h, x, l), NEW a
    PROVE  Stands(WriteIf(h, a), Up(x, "ifs", 1), l)
<1>. DEFINE d == <<827, Resolve(h, a), 0>>
            q == Len(h.code \o d) - 1
            k == WriteIf(h, a)
<1>1. IsJump(d) /\ Typed(h) /\ IsGenerator(h) /\ Sound(h)
  BY ThreeWords DEF Stands, Typed
<1>2. k = [Emit(h, d) EXCEPT !.ifs = Append(@, Here(Emit(h, d)) - 1)]
  BY Opcodes DEF WriteIf, JumpIf
<1>. HIDE DEF d, k
<1>3. /\ IsGenerator(k) /\ k.code = h.code \o d /\ k.temporaries = h.temporaries
      /\ Targets(k) = Targets(h)
      /\ Stacks(k) = <<Append(h.ifs, q), h.whiles, h.fors, h.breaks,
                       h.logic, h.ternary_fail, h.ternary_skip>>
  BY <1>1, <1>2 DEF Emit, Here, IsGenerator, Targets, Stacks
<1>4. q = Len(h.code \o d) - 1
  OBVIOUS
<1>. HIDE DEF q
<1>5. /\ k.ifs = Append(h.ifs, q) /\ k.whiles = h.whiles /\ k.fors = h.fors /\ k.breaks = h.breaks
      /\ k.logic = h.logic /\ k.ternary_fail = h.ternary_fail /\ k.ternary_skip = h.ternary_skip
      /\       /\ k.continues = h.continues /\ k.default_arguments = h.default_arguments
  BY <1>3 DEF Targets, Stacks
<1>6. q \in Nat /\ GoodCode(k.code, Pending(h) \cup {q}, Range(h.continues), Range(h.default_arguments))
  <2>1. GoodCode(h.code, Pending(h), Range(h.continues), Range(h.default_arguments))
    BY <1>1 DEF Sound
  <2>2. IsJump(d)
    BY <1>1
  <2>3. q \in Nat /\ GoodCode(h.code \o d, Pending(h) \cup {q}, Range(h.continues), Range(h.default_arguments))
    BY <1>4, <2>1, <2>2, GoodJump
  <2>. QED
    BY <1>3, <2>3
<1>7. k.ifs \in Seq(Nat) /\ Len(k.ifs) = Len(h.ifs) + 1 /\ Range(k.ifs) = Range(h.ifs) \cup {q}
  <2>1. h.ifs \in Seq(Nat)
    BY <1>1 DEF Typed
  <2>. QED
    BY <1>5, <1>6, <2>1, Pushed
<1>8. Pending(k) = Pending(h) \cup {q}
  <2>1. /\ Range(k.ifs) = Range(h.ifs) \cup {q}
        /\ k.whiles = h.whiles /\ k.fors = h.fors /\ k.breaks = h.breaks
        /\ k.logic = h.logic /\ k.ternary_fail = h.ternary_fail /\ k.ternary_skip = h.ternary_skip
    BY <1>5, <1>7
  <2>2. Pending(k) = (Range(h.ifs) \cup {q}) \cup Range(h.whiles) \cup Range(h.fors) \cup (UNION Range(h.breaks))
                   \cup Range(h.logic) \cup Range(h.ternary_fail) \cup Range(h.ternary_skip)
    BY <2>1 DEF Pending
  <2>. QED
    BY <2>2 DEF Pending
<1>9. Sound(k) /\ Typed(k)
  <2>1. Sound(k)
    BY <1>5, <1>6, <1>8 DEF Sound
  <2>2. Typed(k)
    BY <1>1, <1>3, <1>5, <1>7 DEF Typed
  <2>. QED
    BY <2>1, <2>2
<1>10. Height(k) = Up(x, "ifs", 1) /\ l = Len(k.logic)
  <2>1. /\ Len(k.ifs) = Len(h.ifs) + 1
        /\ k.whiles = h.whiles /\ k.fors = h.fors /\ k.breaks = h.breaks
        /\ k.logic = h.logic /\ k.ternary_fail = h.ternary_fail /\ k.ternary_skip = h.ternary_skip
        /\ k.continues = h.continues /\ k.default_arguments = h.default_arguments
    BY <1>5, <1>7
  <2>2. Height(k) = Up(Height(h), "ifs", 1)
    BY <2>1, Raised DEF Height
  <2>3. x = Height(h) /\ l = Len(h.logic)
    BY DEF Stands
  <2>. QED
    BY <2>1, <2>2, <2>3
<1>11. Stands(k, Up(x, "ifs", 1), l)
  BY <1>9, <1>10 DEF Stands
<1>. QED
  BY <1>11 DEF k

(* write_while: the same. *)
LEMMA WritesWhile ==
    ASSUME NEW h, NEW x, NEW l, Stands(h, x, l), NEW a
    PROVE  Stands(WriteWhile(h, a), Up(x, "whiles", 1), l)
<1>. DEFINE d == <<827, Resolve(h, a), 0>>
            q == Len(h.code \o d) - 1
            k == WriteWhile(h, a)
<1>1. IsJump(d) /\ Typed(h) /\ IsGenerator(h) /\ Sound(h)
  BY ThreeWords DEF Stands, Typed
<1>2. k = [Emit(h, d) EXCEPT !.whiles = Append(@, Here(Emit(h, d)) - 1)]
  BY Opcodes DEF WriteWhile, JumpIf
<1>. HIDE DEF d, k
<1>3. /\ IsGenerator(k) /\ k.code = h.code \o d /\ k.temporaries = h.temporaries
      /\ Targets(k) = Targets(h)
      /\ Stacks(k) = <<h.ifs, Append(h.whiles, q), h.fors, h.breaks,
                       h.logic, h.ternary_fail, h.ternary_skip>>
  BY <1>1, <1>2 DEF Emit, Here, IsGenerator, Targets, Stacks
<1>4. q = Len(h.code \o d) - 1
  OBVIOUS
<1>. HIDE DEF q
<1>5. /\ k.ifs = h.ifs /\ k.whiles = Append(h.whiles, q) /\ k.fors = h.fors /\ k.breaks = h.breaks
      /\ k.logic = h.logic /\ k.ternary_fail = h.ternary_fail /\ k.ternary_skip = h.ternary_skip
      /\       /\ k.continues = h.continues /\ k.default_arguments = h.default_arguments
  BY <1>3 DEF Targets, Stacks
<1>6. q \in Nat /\ GoodCode(k.code, Pending(h) \cup {q}, Range(h.continues), Range(h.default_arguments))
  <2>1. GoodCode(h.code, Pending(h), Range(h.continues), Range(h.default_arguments))
    BY <1>1 DEF Sound
  <2>2. IsJump(d)
    BY <1>1
  <2>3. q \in Nat /\ GoodCode(h.code \o d, Pending(h) \cup {q}, Range(h.continues), Range(h.default_arguments))
    BY <1>4, <2>1, <2>2, GoodJump
  <2>. QED
    BY <1>3, <2>3
<1>7. k.whiles \in Seq(Nat) /\ Len(k.whiles) = Len(h.whiles) + 1 /\ Range(k.whiles) = Range(h.whiles) \cup {q}
  <2>1. h.whiles \in Seq(Nat)
    BY <1>1 DEF Typed
  <2>. QED
    BY <1>5, <1>6, <2>1, Pushed
<1>8. Pending(k) = Pending(h) \cup {q}
  <2>1. /\ Range(k.whiles) = Range(h.whiles) \cup {q}
        /\ k.ifs = h.ifs /\ k.fors = h.fors /\ k.breaks = h.breaks
        /\ k.logic = h.logic /\ k.ternary_fail = h.ternary_fail /\ k.ternary_skip = h.ternary_skip
    BY <1>5, <1>7
  <2>2. Pending(k) = Range(h.ifs) \cup (Range(h.whiles) \cup {q}) \cup Range(h.fors) \cup (UNION Range(h.breaks))
                   \cup Range(h.logic) \cup Range(h.ternary_fail) \cup Range(h.ternary_skip)
    BY <2>1 DEF Pending
  <2>. QED
    BY <2>2 DEF Pending
<1>9. Sound(k) /\ Typed(k)
  <2>1. Sound(k)
    BY <1>5, <1>6, <1>8 DEF Sound
  <2>2. Typed(k)
    BY <1>1, <1>3, <1>5, <1>7 DEF Typed
  <2>. QED
    BY <2>1, <2>2
<1>10. Height(k) = Up(x, "whiles", 1) /\ l = Len(k.logic)
  <2>1. /\ Len(k.whiles) = Len(h.whiles) + 1
        /\ k.ifs = h.ifs /\ k.fors = h.fors /\ k.breaks = h.breaks
        /\ k.logic = h.logic /\ k.ternary_fail = h.ternary_fail /\ k.ternary_skip = h.ternary_skip
        /\ k.continues = h.continues /\ k.default_arguments = h.default_arguments
    BY <1>5, <1>7
  <2>2. Height(k) = Up(Height(h), "whiles", 1)
    BY <2>1, Raised DEF Height
  <2>3. x = Height(h) /\ l = Len(h.logic)
    BY DEF Stands
  <2>. QED
    BY <2>1, <2>2, <2>3
<1>11. Stands(k, Up(x, "whiles", 1), l)
  BY <1>9, <1>10 DEF Stands
<1>. QED
  BY <1>11 DEF k

(* The jump of an operand of "and" or "or" is pending. *)
LEMMA WritesOperand ==
    ASSUME NEW h, NEW x, NEW l, Stands(h, x, l), NEW o \in {826, 827}, NEW a
    PROVE  Stands(WriteOperand(h, o, a), x, l + 1)
<1>. DEFINE d == <<o, Resolve(h, a), 0>>
            q == Len(h.code \o d) - 1
            k == WriteOperand(h, o, a)
<1>1. IsJump(d) /\ Typed(h) /\ IsGenerator(h) /\ Sound(h)
  BY ThreeWords DEF Stands, Typed
<1>2. k = [Emit(h, d) EXCEPT !.logic = Append(@, Here(Emit(h, d)) - 1)]
  BY Opcodes DEF WriteOperand, JumpIf
<1>. HIDE DEF d, k
<1>3. /\ IsGenerator(k) /\ k.code = h.code \o d /\ k.temporaries = h.temporaries
      /\ Targets(k) = Targets(h)
      /\ Stacks(k) = <<h.ifs, h.whiles, h.fors, h.breaks,
                       Append(h.logic, q), h.ternary_fail, h.ternary_skip>>
  BY <1>1, <1>2 DEF Emit, Here, IsGenerator, Targets, Stacks
<1>4. q = Len(h.code \o d) - 1
  OBVIOUS
<1>. HIDE DEF q
<1>5. /\ k.ifs = h.ifs /\ k.whiles = h.whiles /\ k.fors = h.fors /\ k.breaks = h.breaks
      /\ k.logic = Append(h.logic, q) /\ k.ternary_fail = h.ternary_fail /\ k.ternary_skip = h.ternary_skip
      /\       /\ k.continues = h.continues /\ k.default_arguments = h.default_arguments
  BY <1>3 DEF Targets, Stacks
<1>6. q \in Nat /\ GoodCode(k.code, Pending(h) \cup {q}, Range(h.continues), Range(h.default_arguments))
  <2>1. GoodCode(h.code, Pending(h), Range(h.continues), Range(h.default_arguments))
    BY <1>1 DEF Sound
  <2>2. IsJump(d)
    BY <1>1
  <2>3. q \in Nat /\ GoodCode(h.code \o d, Pending(h) \cup {q}, Range(h.continues), Range(h.default_arguments))
    BY <1>4, <2>1, <2>2, GoodJump
  <2>. QED
    BY <1>3, <2>3
<1>7. k.logic \in Seq(Nat) /\ Len(k.logic) = Len(h.logic) + 1 /\ Range(k.logic) = Range(h.logic) \cup {q}
  <2>1. h.logic \in Seq(Nat)
    BY <1>1 DEF Typed
  <2>. QED
    BY <1>5, <1>6, <2>1, Pushed
<1>8. Pending(k) = Pending(h) \cup {q}
  <2>1. /\ Range(k.logic) = Range(h.logic) \cup {q}
        /\ k.ifs = h.ifs /\ k.whiles = h.whiles /\ k.fors = h.fors
        /\ k.breaks = h.breaks /\ k.ternary_fail = h.ternary_fail /\ k.ternary_skip = h.ternary_skip
    BY <1>5, <1>7
  <2>2. Pending(k) = Range(h.ifs) \cup Range(h.whiles) \cup Range(h.fors) \cup (UNION Range(h.breaks))
                   \cup (Range(h.logic) \cup {q}) \cup Range(h.ternary_fail) \cup Range(h.ternary_skip)
    BY <2>1 DEF Pending
  <2>. QED
    BY <2>2 DEF Pending
<1>9. Sound(k) /\ Typed(k)
  <2>1. Sound(k)
    BY <1>5, <1>6, <1>8 DEF Sound
  <2>2. Typed(k)
    BY <1>1, <1>3, <1>5, <1>7 DEF Typed
  <2>. QED
    BY <2>1, <2>2
<1>10. Height(k) = x /\ Len(k.logic) = l + 1
  <2>1. /\ x = Height(h) /\ l = Len(h.logic) /\ Len(k.logic) = Len(h.logic) + 1
        /\ k.ifs = h.ifs /\ k.whiles = h.whiles /\ k.fors = h.fors
        /\ k.breaks = h.breaks /\ k.ternary_fail = h.ternary_fail /\ k.ternary_skip = h.ternary_skip
        /\ k.continues = h.continues /\ k.default_arguments = h.default_arguments
    BY <1>5, <1>7 DEF Stands
  <2>. QED
    BY <2>1 DEF Height
<1>11. Stands(k, x, l + 1)
  BY <1>9, <1>10 DEF Stands
<1>. QED
  BY <1>11 DEF k

(* The jump to the other value of a conditional is pending. *)
LEMMA WritesTernaryCondition ==
    ASSUME NEW h, NEW x, NEW l, Stands(h, x, l), NEW a
    PROVE  Stands(WriteTernaryCondition(h, a), Up(x, "fail", 1), l)
<1>. DEFINE d == <<827, Resolve(h, a), 0>>
            q == Len(h.code \o d) - 1
            k == WriteTernaryCondition(h, a)
<1>1. IsJump(d) /\ Typed(h) /\ IsGenerator(h) /\ Sound(h)
  BY ThreeWords DEF Stands, Typed
<1>2. k = [Emit(h, d) EXCEPT !.ternary_fail = Append(@, Here(Emit(h, d)) - 1)]
  BY Opcodes DEF WriteTernaryCondition, JumpIf
<1>. HIDE DEF d, k
<1>3. /\ IsGenerator(k) /\ k.code = h.code \o d /\ k.temporaries = h.temporaries
      /\ Targets(k) = Targets(h)
      /\ Stacks(k) = <<h.ifs, h.whiles, h.fors, h.breaks,
                       h.logic, Append(h.ternary_fail, q), h.ternary_skip>>
  BY <1>1, <1>2 DEF Emit, Here, IsGenerator, Targets, Stacks
<1>4. q = Len(h.code \o d) - 1
  OBVIOUS
<1>. HIDE DEF q
<1>5. /\ k.ifs = h.ifs /\ k.whiles = h.whiles /\ k.fors = h.fors /\ k.breaks = h.breaks
      /\ k.logic = h.logic /\ k.ternary_fail = Append(h.ternary_fail, q) /\ k.ternary_skip = h.ternary_skip
      /\       /\ k.continues = h.continues /\ k.default_arguments = h.default_arguments
  BY <1>3 DEF Targets, Stacks
<1>6. q \in Nat /\ GoodCode(k.code, Pending(h) \cup {q}, Range(h.continues), Range(h.default_arguments))
  <2>1. GoodCode(h.code, Pending(h), Range(h.continues), Range(h.default_arguments))
    BY <1>1 DEF Sound
  <2>2. IsJump(d)
    BY <1>1
  <2>3. q \in Nat /\ GoodCode(h.code \o d, Pending(h) \cup {q}, Range(h.continues), Range(h.default_arguments))
    BY <1>4, <2>1, <2>2, GoodJump
  <2>. QED
    BY <1>3, <2>3
<1>7. k.ternary_fail \in Seq(Nat) /\ Len(k.ternary_fail) = Len(h.ternary_fail) + 1 /\ Range(k.ternary_fail) = Range(h.ternary_fail) \cup {q}
  <2>1. h.ternary_fail \in Seq(Nat)
    BY <1>1 DEF Typed
  <2>. QED
    BY <1>5, <1>6, <2>1, Pushed
<1>8. Pending(k) = Pending(h) \cup {q}
  <2>1. /\ Range(k.ternary_fail) = Range(h.ternary_fail) \cup {q}
        /\ k.ifs = h.ifs /\ k.whiles = h.whiles /\ k.fors = h.fors
        /\ k.breaks = h.breaks /\ k.logic = h.logic /\ k.ternary_skip = h.ternary_skip
    BY <1>5, <1>7
  <2>2. Pending(k) = Range(h.ifs) \cup Range(h.whiles) \cup Range(h.fors) \cup (UNION Range(h.breaks))
                   \cup Range(h.logic) \cup (Range(h.ternary_fail) \cup {q}) \cup Range(h.ternary_skip)
    BY <2>1 DEF Pending
  <2>. QED
    BY <2>2 DEF Pending
<1>9. Sound(k) /\ Typed(k)
  <2>1. Sound(k)
    BY <1>5, <1>6, <1>8 DEF Sound
  <2>2. Typed(k)
    BY <1>1, <1>3, <1>5, <1>7 DEF Typed
  <2>. QED
    BY <2>1, <2>2
<1>10. Height(k) = Up(x, "fail", 1) /\ l = Len(k.logic)
  <2>1. /\ Len(k.ternary_fail) = Len(h.ternary_fail) + 1
        /\ k.ifs = h.ifs /\ k.whiles = h.whiles /\ k.fors = h.fors
        /\ k.breaks = h.breaks /\ k.logic = h.logic /\ k.ternary_skip = h.ternary_skip
        /\ k.continues = h.continues /\ k.default_arguments = h.default_arguments
    BY <1>5, <1>7
  <2>2. Height(k) = Up(Height(h), "fail", 1)
    BY <2>1, Raised DEF Height
  <2>3. x = Height(h) /\ l = Len(h.logic)
    BY DEF Stands
  <2>. QED
    BY <2>1, <2>2, <2>3
<1>11. Stands(k, Up(x, "fail", 1), l)
  BY <1>9, <1>10 DEF Stands
<1>. QED
  BY <1>11 DEF k

(* The fields of the heights, one by one. *)
LEMMA HeightIs ==
    ASSUME NEW h, NEW x, NEW l, Stands(h, x, l)
    PROVE  /\ x.ifs = Len(h.ifs) /\ x.whiles = Len(h.whiles) /\ x.fors = Len(h.fors)
           /\ x.breaks = Len(h.breaks) /\ x.continues = Len(h.continues)
           /\ x.fail = Len(h.ternary_fail) /\ x.skip = Len(h.ternary_skip)
           /\ x.defaults = Len(h.default_arguments) /\ l = Len(h.logic)
BY DEF Stands, Height, Heights

(* The jump on top of a stack lands here. *)
LEMMA WritesEndIf ==
    ASSUME NEW h, NEW x, NEW l, Stands(h, x, l), x.ifs > 0
    PROVE  Stands(WriteEndIf(h), Up(x, "ifs", -1), l)
<1>. DEFINE q == Last(h.ifs)
            k == WriteEndIf(h)
<1>1. Typed(h) /\ IsGenerator(h) /\ Sound(h)
  BY DEF Stands, Typed
<1>2. h.ifs \in Seq(Nat) /\ Len(h.ifs) > 0
  BY <1>1, HeightIs DEF Typed
<1>3. /\ Front(h.ifs) \in Seq(Nat) /\ Len(Front(h.ifs)) = Len(h.ifs) + -1
      /\ Range(h.ifs) = Range(Front(h.ifs)) \cup {q}
  <2>1. /\ Front(h.ifs) \in Seq(Nat) /\ Len(Front(h.ifs)) = Len(h.ifs) - 1
        /\ Range(h.ifs) = Range(Front(h.ifs)) \cup {Last(h.ifs)}
    BY <1>2, Popped
  <2>. QED
    BY <1>2, <2>1
<1>. HIDE DEF q
<1>4. /\ IsGenerator(k) /\ k.code = ToldWhere(h.code, {q}) /\ k.temporaries = h.temporaries
      /\ Targets(k) = Targets(h)
      /\ Stacks(k) = <<Front(h.ifs), h.whiles, h.fors, h.breaks,
                       h.logic, h.ternary_fail, h.ternary_skip>>
  BY <1>1 DEF WriteEndIf, Patched, PatchAll, Here, ToldWhere, IsGenerator, Targets, Stacks, q
<1>. HIDE DEF k
<1>5. /\ k.whiles = h.whiles /\ k.fors = h.fors /\ k.breaks = h.breaks
      /\ k.logic = h.logic /\ k.ternary_fail = h.ternary_fail /\ k.ternary_skip = h.ternary_skip
      /\ k.continues = h.continues /\ k.default_arguments = h.default_arguments
      /\ k.ifs = Front(h.ifs)
  BY <1>4 DEF Targets, Stacks
<1>6. /\ k.ifs \in Seq(Nat) /\ Len(k.ifs) = Len(h.ifs) + -1
      /\ Range(h.ifs) = Range(k.ifs) \cup {q}
  BY <1>3, <1>5
<1>7. {q} \subseteq Pending(h) /\ Pending(k) \subseteq Pending(h) /\ Pending(h) \subseteq Pending(k) \cup {q}
  BY <1>5, <1>6 DEF Pending
<1>8. Sound(k)
  <2>1. GoodCode(h.code, Pending(h), Range(h.continues), Range(h.default_arguments))
    BY <1>1 DEF Sound
  <2>2. GoodCode(ToldWhere(h.code, {q}), Pending(k), Range(h.continues), Range(h.default_arguments))
    BY <1>7, <2>1, GoodTold
  <2>. QED
    BY <1>4, <1>5, <2>2 DEF Sound
<1>9. Typed(k)
  BY <1>1, <1>4, <1>5, <1>6 DEF Typed
<1>10. Height(k) = Up(x, "ifs", -1) /\ l = Len(k.logic)
  <2>1. Height(k) = Up(Height(h), "ifs", -1)
    BY <1>5, <1>6, Raised DEF Height
  <2>. QED
    BY <1>5, <2>1 DEF Stands
<1>11. Stands(k, Up(x, "ifs", -1), l)
  BY <1>8, <1>9, <1>10 DEF Stands
<1>. QED
  BY <1>11 DEF k

(* A jump over what follows, which is where the one on top of a stack lands. *)
LEMMA WritesElse ==
    ASSUME NEW h, NEW x, NEW l, Stands(h, x, l), x.ifs > 0
    PROVE  Stands(WriteElse(h), x, l)
<1>. DEFINE d == <<825, 0>>
            e == h.code \o d
            p == Len(e) - 1
            q == Last(h.ifs)
            k == WriteElse(h)
<1>1. Typed(h) /\ IsGenerator(h) /\ Sound(h) /\ IsJump(d)
  BY TwoWords DEF Stands, Typed
<1>2. h.ifs \in Seq(Nat) /\ Len(h.ifs) > 0
  BY <1>1, HeightIs DEF Typed
<1>3. /\ Front(h.ifs) \in Seq(Nat) /\ Len(Front(h.ifs)) = Len(h.ifs) - 1
      /\ Range(h.ifs) = Range(Front(h.ifs)) \cup {q}
  BY <1>2, Popped
<1>. HIDE DEF q, d
<1>4. /\ IsGenerator(k) /\ k.code = ToldWhere(e, {q}) /\ k.temporaries = h.temporaries
      /\ Targets(k) = Targets(h)
      /\ Stacks(k) = <<Append(Front(h.ifs), p), h.whiles, h.fors, h.breaks,
                       h.logic, h.ternary_fail, h.ternary_skip>>
  <2>. DEFINE i == Emit(h, d)
              j == PatchAll(i, {q})
  <2>1. /\ IsGenerator(i) /\ i.code = e /\ Stacks(i) = Stacks(h) /\ Targets(i) = Targets(h)
        /\ i.temporaries = h.temporaries
    BY <1>1, Emits
  <2>2. i.ifs = h.ifs
    BY <2>1 DEF Stacks
  <2>3. k = [PatchAll(i, {Last(i.ifs)}) EXCEPT !.ifs = Append(Front(@), Here(i) - 1)]
    BY Opcodes DEF WriteElse, Patched, d
  <2>4. Last(i.ifs) = q /\ Here(i) - 1 = p
    BY <2>1, <2>2 DEF q, Here
  <2>. HIDE DEF i, e
  <2>5. /\ IsGenerator(j) /\ j.code = ToldWhere(i.code, {q}) /\ Stacks(j) = Stacks(i)
        /\ Targets(j) = Targets(i) /\ j.temporaries = i.temporaries
    BY <2>1, Patches
  <2>5a. k = [j EXCEPT !.ifs = Append(Front(@), p)]
    BY <2>3, <2>4
  <2>. HIDE DEF j, k, p
  <2>6. /\ IsGenerator(k) /\ k.code = j.code /\ k.temporaries = j.temporaries /\ Targets(k) = Targets(j)
        /\ Stacks(k) = <<Append(Front(j.ifs), p), j.whiles, j.fors, j.breaks,
                         j.logic, j.ternary_fail, j.ternary_skip>>
    BY <2>5, <2>5a DEF IsGenerator, Targets, Stacks
  <2>7. Stacks(j) = Stacks(h)
    BY <2>1, <2>5
  <2>. QED
    BY <2>1, <2>5, <2>6, <2>7 DEF Stacks
<1>5. p = Len(h.code \o d) - 1 /\ e = h.code \o d
  OBVIOUS
<1>. HIDE DEF k, d, e, p
<1>6. /\ k.whiles = h.whiles /\ k.fors = h.fors /\ k.breaks = h.breaks
      /\ k.logic = h.logic /\ k.ternary_fail = h.ternary_fail /\ k.ternary_skip = h.ternary_skip
      /\ k.continues = h.continues /\ k.default_arguments = h.default_arguments
      /\ k.ifs = Append(Front(h.ifs), p)
  BY <1>4 DEF Targets, Stacks
<1>7. p \in Nat /\ GoodCode(e, Pending(h) \cup {p}, Range(h.continues), Range(h.default_arguments))
  <2>1. GoodCode(h.code, Pending(h), Range(h.continues), Range(h.default_arguments)) /\ IsJump(d)
    BY <1>1 DEF Sound
  <2>2. /\ p \in Nat
        /\ GoodCode(h.code \o d, Pending(h) \cup {p}, Range(h.continues), Range(h.default_arguments))
    BY <1>5, <2>1, GoodJump
  <2>. QED
    BY <1>5, <2>2
<1>8. /\ k.ifs \in Seq(Nat) /\ Len(k.ifs) = Len(h.ifs)
      /\ Range(k.ifs) \cup {q} = Range(h.ifs) \cup {p}
  <2>1. /\ Append(Front(h.ifs), p) \in Seq(Nat)
        /\ Len(Append(Front(h.ifs), p)) = Len(Front(h.ifs)) + 1
        /\ Range(Append(Front(h.ifs), p)) = Range(Front(h.ifs)) \cup {p}
    BY <1>3, <1>7, Pushed
  <2>2. Len(h.ifs) \in Nat
    BY <1>2
  <2>. QED
    BY <1>3, <1>6, <2>1, <2>2
<1>8a. Range(k.ifs) \subseteq Range(h.ifs) \cup {p} /\ q \in Range(h.ifs)
  <2>1. q \in Range(h.ifs)
    BY <1>3
  <2>2. Range(k.ifs) \cup {q} = Range(h.ifs) \cup {p}
    BY <1>8
  <2>. QED
    BY <2>1, <2>2
<1>9. /\ {q} \subseteq Pending(h) \cup {p} /\ Pending(k) \subseteq Pending(h) \cup {p}
      /\ Pending(h) \cup {p} \subseteq Pending(k) \cup {q}
  BY <1>6, <1>8, <1>8a DEF Pending
<1>10. Sound(k)
  <2>1. GoodCode(ToldWhere(e, {q}), Pending(k), Range(h.continues), Range(h.default_arguments))
    BY <1>7, <1>9, GoodTold
  <2>. QED
    BY <1>4, <1>6, <2>1 DEF Sound
<1>11. Typed(k)
  BY <1>1, <1>4, <1>6, <1>8 DEF Typed
<1>12. Height(k) = x /\ l = Len(k.logic)
  <2>1. Height(k) = Height(h)
    BY <1>6, <1>8 DEF Height
  <2>. QED
    BY <1>6, <2>1 DEF Stands
<1>13. Stands(k, x, l)
  BY <1>10, <1>11, <1>12 DEF Stands
<1>. QED
  BY <1>13 DEF k

(* What is written behind the two operands of "and" or "or".               *)
LEMMA WritesEndLogic ==
    ASSUME NEW h, NEW x, NEW l, Stands(h, x, l), l >= 2, NEW a,
           NEW o \in 819 .. 824, NEW u \in 819 .. 824
    PROVE  Stands(WriteEndLogic(h, a, o, u), x, l - 2)
<1>. DEFINE d1 == <<o, Resolve(h, a)>>
            d2 == <<825, 0>>
            d3 == <<u, Resolve(h, a)>>
            i1 == Emit(h, d1)
            i2 == Emit(i1, d2)
            p == Here(i2) - 1
            q == Last(h.logic)
            r == Last(Front(h.logic))
            i3 == PatchAll(i2, {q, r})
            i4 == Emit(i3, d3)
            i5 == PatchAll(i4, {p})
            k == WriteEndLogic(h, a, o, u)
            c2 == (h.code \o d1) \o d2
            c4 == ToldWhere(c2, {q, r}) \o d3
<1>1. Typed(h) /\ IsGenerator(h) /\ Sound(h) /\ IsPlain(d1) /\ IsJump(d2) /\ IsPlain(d3)
  <2>1. Typed(h) /\ IsGenerator(h) /\ Sound(h)
    BY DEF Stands, Typed
  <2>2. \A w \in 819 .. 824 : IsPlain(<<w, Resolve(h, a)>>)
    <3>1. SUFFICES ASSUME NEW w \in 819 .. 824 PROVE IsPlain(<<w, Resolve(h, a)>>)
      OBVIOUS
    <3>2. w \in {801, 825, 833} \cup (819 .. 824) /\ w # 825
      OBVIOUS
    <3>. QED
      BY <3>2, TwoWords
  <2>3. IsJump(d2)
    BY TwoWords
  <2>. QED
    BY <2>1, <2>2, <2>3
<1>. HIDE DEF d1, d2, d3
<1>2. h.logic \in Seq(Nat) /\ Len(h.logic) > 0 /\ Len(h.logic) = l /\ Len(h.logic) - 1 > 0
  BY <1>1, HeightIs DEF Typed
<1>3. /\ Front(h.logic) \in Seq(Nat) /\ Len(Front(h.logic)) = Len(h.logic) - 1
      /\ Range(h.logic) = Range(Front(h.logic)) \cup {q}
  BY <1>2, Popped
<1>4. /\ Front(Front(h.logic)) \in Seq(Nat) /\ Len(Front(Front(h.logic))) = Len(Front(h.logic)) - 1
      /\ Range(Front(h.logic)) = Range(Front(Front(h.logic))) \cup {r}
  BY <1>2, <1>3, Popped, ZenonT(60)
<1>. HIDE DEF q, r
<1>5. /\ IsGenerator(i1) /\ i1.code = h.code \o d1 /\ Stacks(i1) = Stacks(h)
      /\ Targets(i1) = Targets(h) /\ i1.temporaries = h.temporaries
  BY <1>1, Emits, ZenonT(60)
<1>. HIDE DEF i1
<1>6. /\ IsGenerator(i2) /\ i2.code = i1.code \o d2 /\ Stacks(i2) = Stacks(i1)
      /\ Targets(i2) = Targets(i1) /\ i2.temporaries = i1.temporaries
  BY <1>5, Emits, ZenonT(60)
<1>7. i2.logic = h.logic
  BY <1>5, <1>6 DEF Stacks
<1>8. k = [i5 EXCEPT !.logic = Front(Front(@))]
  <2>1. k = [PatchAll(Emit(PatchAll(i2, {Last(i2.logic), Last(Front(i2.logic))}), d3), {p})
                EXCEPT !.logic = Front(Front(@))]
    BY Opcodes DEF WriteEndLogic, Patched, i1, d1, d2, d3
  <2>2. Last(i2.logic) = q /\ Last(Front(i2.logic)) = r
    BY <1>7 DEF q, r
  <2>. QED
    BY <2>1, <2>2
<1>9. c2 = i2.code /\ p = Len(c2) - 1 /\ c2 = (h.code \o d1) \o d2
  BY <1>5, <1>6 DEF Here
<1>. HIDE DEF i2, c2, p
<1>10. /\ IsGenerator(i3) /\ i3.code = ToldWhere(i2.code, {q, r}) /\ Stacks(i3) = Stacks(i2)
       /\ Targets(i3) = Targets(i2) /\ i3.temporaries = i2.temporaries
  BY <1>6, Patches, ZenonT(60)
<1>. HIDE DEF i3
<1>11. /\ IsGenerator(i4) /\ i4.code = i3.code \o d3 /\ Stacks(i4) = Stacks(i3)
       /\ Targets(i4) = Targets(i3) /\ i4.temporaries = i3.temporaries
  BY <1>10, Emits, ZenonT(60)
<1>. HIDE DEF i4
<1>12. /\ IsGenerator(i5) /\ i5.code = ToldWhere(i4.code, {p}) /\ Stacks(i5) = Stacks(i4)
       /\ Targets(i5) = Targets(i4) /\ i5.temporaries = i4.temporaries
  BY <1>11, Patches, ZenonT(60)
<1>. HIDE DEF i5, k
<1>13. /\ IsGenerator(k) /\ k.code = i5.code /\ k.temporaries = i5.temporaries /\ Targets(k) = Targets(i5)
       /\ Stacks(k) = <<i5.ifs, i5.whiles, i5.fors, i5.breaks, Front(Front(i5.logic)),
                        i5.ternary_fail, i5.ternary_skip>>
  BY <1>8, <1>12 DEF IsGenerator, Targets, Stacks
<1>14. Stacks(i5) = Stacks(h) /\ Targets(k) = Targets(h) /\ k.temporaries = h.temporaries
       /\ k.code = ToldWhere(c4, {p})
  <2>1. i4.code = c4
    BY <1>9, <1>10, <1>11, ZenonT(60)
  <2>. QED
    BY <1>5, <1>6, <1>10, <1>11, <1>12, <1>13, <2>1, ZenonT(60)
<1>15. /\ k.ifs = h.ifs /\ k.whiles = h.whiles /\ k.fors = h.fors /\ k.breaks = h.breaks
       /\ k.ternary_fail = h.ternary_fail /\ k.ternary_skip = h.ternary_skip
       /\ k.continues = h.continues /\ k.default_arguments = h.default_arguments
       /\ k.logic = Front(Front(h.logic))
  BY <1>13, <1>14 DEF Targets, Stacks
<1>16. /\ k.logic \in Seq(Nat) /\ Len(k.logic) = l - 2
       /\ Range(h.logic) = Range(k.logic) \cup {q, r}
  <2>1. Len(h.logic) \in Nat
    BY <1>2
  <2>2. Len(Front(Front(h.logic))) = l - 2
    BY <1>2, <1>3, <1>4, <2>1
  <2>3. Range(h.logic) = Range(Front(Front(h.logic))) \cup {q, r}
    BY <1>3, <1>4
  <2>. QED
    BY <1>4, <1>15, <2>2, <2>3
<1>17. /\ {q, r} \subseteq Pending(h) /\ Pending(k) \subseteq Pending(h)
       /\ Pending(h) \subseteq Pending(k) \cup {q, r}
  BY <1>15, <1>16 DEF Pending
<1>18. Sound(k)
  <2>. DEFINE C == Range(h.continues)
              D == Range(h.default_arguments)
  <2>1. GoodCode(h.code, Pending(h), C, D)
    BY <1>1 DEF Sound
  <2>. HIDE DEF C, D
  <2>2. GoodCode(h.code \o d1, Pending(h), C, D)
    BY <1>1, <2>1, GoodPlain
  <2>3. GoodCode(c2, Pending(h) \cup {p}, C, D)
    <3>. DEFINE c1 == h.code \o d1
    <3>1. c2 = c1 \o d2 /\ p = Len(c1 \o d2) - 1
      BY <1>9
    <3>. HIDE DEF c1
    <3>2. GoodCode(c1, Pending(h), C, D) /\ IsJump(d2)
      BY <1>1, <2>2 DEF c1
    <3>3. GoodCode(c1 \o d2, Pending(h) \cup {p}, C, D)
      BY <3>1, <3>2, GoodJump
    <3>. QED
      BY <3>1, <3>3
  <2>4. /\ {q, r} \subseteq Pending(h) \cup {p} /\ Pending(k) \cup {p} \subseteq Pending(h) \cup {p}
        /\ Pending(h) \cup {p} \subseteq (Pending(k) \cup {p}) \cup {q, r}
    BY <1>17
  <2>5. GoodCode(ToldWhere(c2, {q, r}), Pending(k) \cup {p}, C, D)
    BY <2>3, <2>4, GoodTold
  <2>6. GoodCode(c4, Pending(k) \cup {p}, C, D)
    BY <1>1, <2>5, GoodPlain
  <2>. HIDE DEF c4
  <2>7. GoodCode(ToldWhere(c4, {p}), Pending(k), C, D)
    <3>1. {p} \subseteq Pending(k) \cup {p} /\ Pending(k) \subseteq Pending(k) \cup {p}
      OBVIOUS
    <3>. QED
      BY <2>6, <3>1, GoodTold
  <2>. QED
    BY <1>14, <1>15, <2>7 DEF Sound, C, D
<1>19. Typed(k)
  BY <1>1, <1>13, <1>14, <1>15, <1>16 DEF Typed
<1>20. Height(k) = x
  <2>1. Height(k) = Height(h)
    BY <1>15 DEF Height
  <2>. QED
    BY <2>1 DEF Stands
<1>21. Stands(k, x, l - 2)
  BY <1>16, <1>18, <1>19, <1>20 DEF Stands
<1>. QED
  BY <1>21 DEF k

(* The two jumps of an "and" or an "or" lead to its end. *)
LEMMA WritesEndAndOr ==
    ASSUME NEW h, NEW x, NEW l, Stands(h, x, l), l >= 2, NEW a
    PROVE  Stands(WriteEndAnd(h, a), x, l - 2) /\ Stands(WriteEndOr(h, a), x, l - 2)
<1>1. 820 \in 819 .. 824 /\ 821 \in 819 .. 824
  OBVIOUS
<1>2. Stands(WriteEndLogic(h, a, 820, 821), x, l - 2) /\ Stands(WriteEndLogic(h, a, 821, 820), x, l - 2)
  BY <1>1, WritesEndLogic
<1>. QED
  BY <1>2, Opcodes DEF WriteEndAnd, WriteEndOr

(* The value where the condition held, a jump over the other, which is     *)
(* where the condition leads if it did not.                                *)
LEMMA WritesTernaryTrue ==
    ASSUME NEW h0, NEW x, NEW l, Stands(h0, x, l), x.fail > 0, NEW a, NEW b
    PROVE  Stands(WriteTernaryTrue(h0, a, b), Up(Up(x, "fail", -1), "skip", 1), l)
<1>. DEFINE h == WriteAssign(h0, a, b)
            d == <<825, 0>>
            i == Emit(h, d)
            p == Here(i) - 1
            q == Last(h.ternary_fail)
            j == PatchAll(i, {q})
            k == WriteTernaryTrue(h0, a, b)
<1>0. Stands(h, x, l)
  BY WritesAssign
<1>1. k = [PatchAll(i, {Last(i.ternary_fail)}) EXCEPT
              !.ternary_fail = Front(@), !.ternary_skip = Append(@, p)]
  BY Opcodes DEF WriteTernaryTrue, Patched
<1>. HIDE DEF h
<1>2. Typed(h) /\ IsGenerator(h) /\ Sound(h) /\ IsJump(d)
  BY <1>0, TwoWords DEF Stands, Typed
<1>. HIDE DEF d
<1>3. h.ternary_fail \in Seq(Nat) /\ Len(h.ternary_fail) > 0 /\ h.ternary_skip \in Seq(Nat)
  BY <1>0, <1>2, HeightIs DEF Typed
<1>4. /\ Front(h.ternary_fail) \in Seq(Nat) /\ Len(Front(h.ternary_fail)) = Len(h.ternary_fail) + -1
      /\ Range(h.ternary_fail) = Range(Front(h.ternary_fail)) \cup {q}
  <2>1. /\ Front(h.ternary_fail) \in Seq(Nat) /\ Len(Front(h.ternary_fail)) = Len(h.ternary_fail) - 1
        /\ Range(h.ternary_fail) = Range(Front(h.ternary_fail)) \cup {q}
    BY <1>3, Popped
  <2>. QED
    BY <1>3, <2>1
<1>5. /\ IsGenerator(i) /\ i.code = h.code \o d /\ Stacks(i) = Stacks(h)
      /\ Targets(i) = Targets(h) /\ i.temporaries = h.temporaries
  BY <1>2, Emits
<1>6. k = [j EXCEPT !.ternary_fail = Front(@), !.ternary_skip = Append(@, p)]
      /\ p = Len(h.code \o d) - 1
  <2>1. i.ternary_fail = h.ternary_fail
    BY <1>5 DEF Stacks
  <2>. QED
    BY <1>1, <1>5, <2>1 DEF Here
<1>. HIDE DEF i, p, q
<1>7. /\ IsGenerator(j) /\ j.code = ToldWhere(i.code, {q}) /\ Stacks(j) = Stacks(i)
      /\ Targets(j) = Targets(i) /\ j.temporaries = i.temporaries
  BY <1>5, Patches
<1>. HIDE DEF j, k
<1>8. /\ IsGenerator(k) /\ k.code = j.code /\ k.temporaries = j.temporaries /\ Targets(k) = Targets(j)
      /\ Stacks(k) = <<j.ifs, j.whiles, j.fors, j.breaks, j.logic,
                       Front(j.ternary_fail), Append(j.ternary_skip, p)>>
  BY <1>6, <1>7 DEF IsGenerator, Targets, Stacks
<1>9. Stacks(j) = Stacks(h) /\ Targets(k) = Targets(h) /\ k.temporaries = h.temporaries
      /\ k.code = ToldWhere(h.code \o d, {q})
  BY <1>5, <1>7, <1>8
<1>10. /\ k.ifs = h.ifs /\ k.whiles = h.whiles /\ k.fors = h.fors /\ k.breaks = h.breaks
       /\ k.logic = h.logic
       /\ k.continues = h.continues /\ k.default_arguments = h.default_arguments
       /\ k.ternary_fail = Front(h.ternary_fail) /\ k.ternary_skip = Append(h.ternary_skip, p)
  BY <1>8, <1>9 DEF Targets, Stacks
<1>11. p \in Nat /\ GoodCode(h.code \o d, Pending(h) \cup {p}, Range(h.continues), Range(h.default_arguments))
  <2>1. GoodCode(h.code, Pending(h), Range(h.continues), Range(h.default_arguments)) /\ IsJump(d)
    BY <1>2 DEF Sound
  <2>. QED
    BY <1>6, <2>1, GoodJump
<1>12. /\ k.ternary_fail \in Seq(Nat) /\ Len(k.ternary_fail) = Len(h.ternary_fail) + -1
       /\ Range(h.ternary_fail) = Range(k.ternary_fail) \cup {q}
  BY <1>4, <1>10
<1>13. /\ k.ternary_skip \in Seq(Nat) /\ Len(k.ternary_skip) = Len(h.ternary_skip) + 1
       /\ Range(k.ternary_skip) = Range(h.ternary_skip) \cup {p}
  BY <1>3, <1>10, <1>11, Pushed
<1>14. /\ {q} \subseteq Pending(h) \cup {p} /\ Pending(k) \subseteq Pending(h) \cup {p}
       /\ Pending(h) \cup {p} \subseteq Pending(k) \cup {q}
  <2>1. /\ k.ifs = h.ifs /\ k.whiles = h.whiles /\ k.fors = h.fors /\ k.breaks = h.breaks
        /\ k.logic = h.logic
        /\ Range(h.ternary_fail) = Range(k.ternary_fail) \cup {q}
        /\ Range(k.ternary_skip) = Range(h.ternary_skip) \cup {p}
    BY <1>10, <1>12, <1>13
  <2>. QED
    BY <2>1 DEF Pending
<1>15. Sound(k)
  <2>1. GoodCode(ToldWhere(h.code \o d, {q}), Pending(k), Range(h.continues), Range(h.default_arguments))
    BY <1>11, <1>14, GoodTold
  <2>. QED
    BY <1>9, <1>10, <2>1 DEF Sound
<1>16. Typed(k)
  BY <1>2, <1>8, <1>9, <1>10, <1>12, <1>13 DEF Typed
<1>17. Height(k) = Up(Up(x, "fail", -1), "skip", 1) /\ l = Len(k.logic)
  <2>1. /\ k.ifs = h.ifs /\ k.whiles = h.whiles /\ k.fors = h.fors /\ k.breaks = h.breaks
        /\ k.continues = h.continues /\ k.default_arguments = h.default_arguments /\ k.logic = h.logic
        /\ Len(k.ternary_fail) = Len(h.ternary_fail) + -1
        /\ Len(k.ternary_skip) = Len(h.ternary_skip) + 1
    BY <1>10, <1>12, <1>13
  <2>2. Height(k) = Up(Up(Height(h), "fail", -1), "skip", 1)
    <3>1. Up(Height(h), "fail", -1) =
            Heights(Len(h.ifs), Len(h.whiles), Len(h.fors), Len(h.breaks), Len(h.continues),
                    Len(h.ternary_fail) + -1, Len(h.ternary_skip), Len(h.default_arguments))
      BY Raised DEF Height
    <3>. QED
      BY <2>1, <3>1, Raised DEF Height
  <2>3. x = Height(h) /\ l = Len(h.logic)
    BY <1>0 DEF Stands
  <2>. QED
    BY <2>1, <2>2, <2>3
<1>18. Stands(k, Up(Up(x, "fail", -1), "skip", 1), l)
  BY <1>15, <1>16, <1>17 DEF Stands
<1>. QED
  BY <1>18 DEF k

(* The jump over the other value leads behind it. *)
LEMMA WritesTernaryFalse ==
    ASSUME NEW h0, NEW x, NEW l, Stands(h0, x, l), x.skip > 0, NEW a, NEW b
    PROVE  Stands(WriteTernaryFalse(h0, a, b), Up(x, "skip", -1), l)
<1>. DEFINE h == WriteAssign(h0, a, b)
            q == Last(h.ternary_skip)
            j == PatchAll(h, {q})
            k == WriteTernaryFalse(h0, a, b)
<1>0. Stands(h, x, l)
  BY WritesAssign
<1>1. k = [j EXCEPT !.ternary_skip = Front(@)]
  BY DEF WriteTernaryFalse, Patched
<1>. HIDE DEF h
<1>2. Typed(h) /\ IsGenerator(h) /\ Sound(h)
  BY <1>0 DEF Stands, Typed
<1>3. h.ternary_skip \in Seq(Nat) /\ Len(h.ternary_skip) > 0
  BY <1>0, <1>2, HeightIs DEF Typed
<1>4. /\ Front(h.ternary_skip) \in Seq(Nat) /\ Len(Front(h.ternary_skip)) = Len(h.ternary_skip) + -1
      /\ Range(h.ternary_skip) = Range(Front(h.ternary_skip)) \cup {q}
  <2>1. /\ Front(h.ternary_skip) \in Seq(Nat) /\ Len(Front(h.ternary_skip)) = Len(h.ternary_skip) - 1
        /\ Range(h.ternary_skip) = Range(Front(h.ternary_skip)) \cup {q}
    BY <1>3, Popped
  <2>. QED
    BY <1>3, <2>1
<1>. HIDE DEF q
<1>5. /\ IsGenerator(j) /\ j.code = ToldWhere(h.code, {q}) /\ Stacks(j) = Stacks(h)
      /\ Targets(j) = Targets(h) /\ j.temporaries = h.temporaries
  BY <1>2, Patches
<1>. HIDE DEF j, k
<1>6. /\ IsGenerator(k) /\ k.code = j.code /\ k.temporaries = j.temporaries /\ Targets(k) = Targets(j)
      /\ Stacks(k) = <<j.ifs, j.whiles, j.fors, j.breaks, j.logic,
                       j.ternary_fail, Front(j.ternary_skip)>>
  BY <1>1, <1>5 DEF IsGenerator, Targets, Stacks
<1>7. /\ k.ifs = h.ifs /\ k.whiles = h.whiles /\ k.fors = h.fors /\ k.breaks = h.breaks
      /\ k.logic = h.logic /\ k.ternary_fail = h.ternary_fail
      /\ k.continues = h.continues /\ k.default_arguments = h.default_arguments
      /\ k.ternary_skip = Front(h.ternary_skip)
  BY <1>5, <1>6 DEF Targets, Stacks
<1>8. /\ k.ternary_skip \in Seq(Nat) /\ Len(k.ternary_skip) = Len(h.ternary_skip) + -1
      /\ Range(h.ternary_skip) = Range(k.ternary_skip) \cup {q}
  BY <1>4, <1>7
<1>9. {q} \subseteq Pending(h) /\ Pending(k) \subseteq Pending(h) /\ Pending(h) \subseteq Pending(k) \cup {q}
  BY <1>7, <1>8 DEF Pending
<1>10. Sound(k)
  <2>1. GoodCode(h.code, Pending(h), Range(h.continues), Range(h.default_arguments))
    BY <1>2 DEF Sound
  <2>2. GoodCode(ToldWhere(h.code, {q}), Pending(k), Range(h.continues), Range(h.default_arguments))
    BY <1>9, <2>1, GoodTold
  <2>. QED
    BY <1>5, <1>6, <1>7, <2>2 DEF Sound
<1>11. Typed(k)
  BY <1>2, <1>5, <1>6, <1>7, <1>8 DEF Typed
<1>12. Height(k) = Up(x, "skip", -1) /\ l = Len(k.logic)
  <2>1. Height(k) = Up(Height(h), "skip", -1)
    BY <1>7, <1>8, Raised DEF Height
  <2>. QED
    BY <1>0, <1>7, <2>1 DEF Stands
<1>13. Stands(k, Up(x, "skip", -1), l)
  BY <1>10, <1>11, <1>12 DEF Stands
<1>. QED
  BY <1>13 DEF k

-----------------------------------------------------------------------------
(* Loops *)

(* A loop begins without breaks. *)
LEMMA NoBreaks ==
    ASSUME NEW s \in Seq(SUBSET Nat)
    PROVE  /\ Append(s, {}) \in Seq(SUBSET Nat) /\ Len(Append(s, {})) = Len(s) + 1
           /\ Range(Append(s, {})) = Range(s) \cup { {} }
<1>. DEFINE T == SUBSET Nat
<1>1. ASSUME NEW e \in T
      PROVE  /\ Append(s, e) \in Seq(T) /\ Len(Append(s, e)) = Len(s) + 1
             /\ Range(Append(s, e)) = Range(s) \cup {e}
  <2>. HIDE DEF T
  <2>1. s \in Seq(T)
    BY DEF T
  <2>. QED
    BY <2>1, Pushed
<1>2. {} \in T
  OBVIOUS
<1>. HIDE DEF T
<1>3. /\ Append(s, {}) \in Seq(T) /\ Len(Append(s, {})) = Len(s) + 1
      /\ Range(Append(s, {})) = Range(s) \cup { {} }
  BY <1>1, <1>2
<1>. QED
  BY <1>3 DEF T

(* A while loop has a place for continue to lead to. *)
LEMMA StartsWhile ==
    ASSUME NEW h, NEW x, NEW l, Stands(h, x, l)
    PROVE  Stands(StartWhile(h), Up(Up(x, "breaks", 1), "continues", 1), l)
<1>. DEFINE n == Len(h.code)
            k == StartWhile(h)
<1>1. Typed(h) /\ IsGenerator(h) /\ Sound(h)
  BY DEF Stands, Typed
<1>2. /\ IsGenerator(k) /\ k.code = h.code /\ k.temporaries = h.temporaries
      /\ Targets(k) = <<Append(h.continues, n), h.default_arguments>>
      /\ Stacks(k) = <<h.ifs, h.whiles, h.fors, Append(h.breaks, {}),
                       h.logic, h.ternary_fail, h.ternary_skip>>
  BY <1>1 DEF StartWhile, Here, IsGenerator, Targets, Stacks
<1>. HIDE DEF k
<1>3. /\ k.ifs = h.ifs /\ k.whiles = h.whiles /\ k.fors = h.fors /\ k.breaks = Append(h.breaks, {})
      /\ k.logic = h.logic /\ k.ternary_fail = h.ternary_fail /\ k.ternary_skip = h.ternary_skip
      /\ k.continues = Append(h.continues, n) /\ k.default_arguments = h.default_arguments
  BY <1>2 DEF Targets, Stacks
<1>4. GoodCode(h.code, Pending(h), Range(h.continues), Range(h.default_arguments))
  BY <1>1 DEF Sound
<1>5. n \in Nat /\ GoodCode(h.code, Pending(h), Range(h.continues) \cup {n}, Range(h.default_arguments))
  <2>1. Range(h.continues) \cup {n} \in SUBSET (Range(h.continues) \cup {Len(h.code)})
    OBVIOUS
  <2>. HIDE DEF n
  <2>2. n = Len(h.code)
    BY DEF n
  <2>. QED
    BY <1>4, <2>1, <2>2, GoodPlace
<1>. HIDE DEF n
<1>6. /\ k.continues \in Seq(Nat) /\ Len(k.continues) = Len(h.continues) + 1
      /\ Range(k.continues) = Range(h.continues) \cup {n}
  <2>1. h.continues \in Seq(Nat)
    BY <1>1 DEF Typed
  <2>. QED
    BY <1>3, <1>5, <2>1, Pushed
<1>7. /\ k.breaks \in Seq(SUBSET Nat) /\ Len(k.breaks) = Len(h.breaks) + 1
      /\ Range(k.breaks) = Range(h.breaks) \cup { {} }
  <2>1. h.breaks \in Seq(SUBSET Nat)
    BY <1>1 DEF Typed
  <2>. QED
    BY <1>3, <2>1, NoBreaks
<1>8. Pending(k) = Pending(h)
  <2>1. /\ k.ifs = h.ifs /\ k.whiles = h.whiles /\ k.fors = h.fors
        /\ k.logic = h.logic /\ k.ternary_fail = h.ternary_fail /\ k.ternary_skip = h.ternary_skip
    BY <1>3
  <2>2. UNION Range(k.breaks) = UNION Range(h.breaks)
    BY <1>7
  <2>. QED
    BY <2>1, <2>2 DEF Pending
<1>9. Sound(k)
  BY <1>2, <1>3, <1>5, <1>6, <1>8 DEF Sound
<1>10. Typed(k)
  BY <1>1, <1>2, <1>3, <1>6, <1>7 DEF Typed
<1>11. Height(k) = Up(Up(x, "breaks", 1), "continues", 1) /\ l = Len(k.logic)
  <2>1. /\ k.ifs = h.ifs /\ k.whiles = h.whiles /\ k.fors = h.fors
        /\ k.ternary_fail = h.ternary_fail /\ k.ternary_skip = h.ternary_skip
        /\ k.default_arguments = h.default_arguments /\ k.logic = h.logic
        /\ Len(k.breaks) = Len(h.breaks) + 1 /\ Len(k.continues) = Len(h.continues) + 1
    BY <1>3, <1>6, <1>7
  <2>2. Up(Height(h), "breaks", 1) =
            Heights(Len(h.ifs), Len(h.whiles), Len(h.fors), Len(h.breaks) + 1, Len(h.continues),
                    Len(h.ternary_fail), Len(h.ternary_skip), Len(h.default_arguments))
    BY Raised DEF Height
  <2>3. Height(k) = Up(Up(Height(h), "breaks", 1), "continues", 1)
    BY <2>1, <2>2, Raised DEF Height
  <2>4. x = Height(h) /\ l = Len(h.logic)
    BY DEF Stands
  <2>. QED
    BY <2>1, <2>3, <2>4
<1>12. Stands(k, Up(Up(x, "breaks", 1), "continues", 1), l)
  BY <1>9, <1>10, <1>11 DEF Stands
<1>. QED
  BY <1>12 DEF k

(* The slots of a for loop, and a stack for its breaks. *)
LEMMA StartsFor ==
    ASSUME NEW h0, NEW x, NEW l, Stands(h0, x, l), NEW r
    PROVE  Stands(StartFor(h0, r), Up(x, "breaks", 1), l)
<1>. DEFINE i == AddLocal(AddLocal(h0))
            h == IF r THEN AddLocal(AddLocal(i)) ELSE i
            k == StartFor(h0, r)
<1>0. Stands(h, x, l)
  <2>1. Stands(i, x, l)
    BY AddsLocal
  <2>. HIDE DEF i
  <2>2. Stands(AddLocal(AddLocal(i)), x, l)
    BY <2>1, AddsLocal
  <2>. QED
    BY <2>1, <2>2
<1>1. k = [h EXCEPT !.breaks = Append(@, {})]
  BY DEF StartFor
<1>. HIDE DEF h
<1>2. Typed(h) /\ IsGenerator(h) /\ Sound(h)
  BY <1>0 DEF Stands, Typed
<1>. HIDE DEF k
<1>3. /\ IsGenerator(k) /\ k.code = h.code /\ k.temporaries = h.temporaries
      /\ Targets(k) = Targets(h)
      /\ Stacks(k) = <<h.ifs, h.whiles, h.fors, Append(h.breaks, {}),
                       h.logic, h.ternary_fail, h.ternary_skip>>
  BY <1>1, <1>2 DEF IsGenerator, Targets, Stacks
<1>4. /\ k.ifs = h.ifs /\ k.whiles = h.whiles /\ k.fors = h.fors /\ k.breaks = Append(h.breaks, {})
      /\ k.logic = h.logic /\ k.ternary_fail = h.ternary_fail /\ k.ternary_skip = h.ternary_skip
      /\ k.continues = h.continues /\ k.default_arguments = h.default_arguments
  BY <1>3 DEF Targets, Stacks
<1>7. /\ k.breaks \in Seq(SUBSET Nat) /\ Len(k.breaks) = Len(h.breaks) + 1
      /\ Range(k.breaks) = Range(h.breaks) \cup { {} }
  <2>1. h.breaks \in Seq(SUBSET Nat)
    BY <1>2 DEF Typed
  <2>. QED
    BY <1>4, <2>1, NoBreaks
<1>8. Pending(k) = Pending(h)
  <2>1. /\ k.ifs = h.ifs /\ k.whiles = h.whiles /\ k.fors = h.fors
        /\ k.logic = h.logic /\ k.ternary_fail = h.ternary_fail /\ k.ternary_skip = h.ternary_skip
    BY <1>4
  <2>2. UNION Range(k.breaks) = UNION Range(h.breaks)
    BY <1>7
  <2>. QED
    BY <2>1, <2>2 DEF Pending
<1>9. Sound(k)
  BY <1>2, <1>3, <1>4, <1>8 DEF Sound
<1>10. Typed(k)
  BY <1>2, <1>3, <1>4, <1>7 DEF Typed
<1>11. Height(k) = Up(x, "breaks", 1) /\ l = Len(k.logic)
  <2>1. /\ k.ifs = h.ifs /\ k.whiles = h.whiles /\ k.fors = h.fors
        /\ k.ternary_fail = h.ternary_fail /\ k.ternary_skip = h.ternary_skip
        /\ k.continues = h.continues
        /\ k.default_arguments = h.default_arguments /\ k.logic = h.logic
        /\ Len(k.breaks) = Len(h.breaks) + 1
    BY <1>4, <1>7
  <2>2. Height(k) = Up(Height(h), "breaks", 1)
    BY <2>1, Raised DEF Height
  <2>3. x = Height(h) /\ l = Len(h.logic)
    BY <1>0 DEF Stands
  <2>. QED
    BY <2>1, <2>2, <2>3
<1>12. Stands(k, Up(x, "breaks", 1), l)
  BY <1>9, <1>10, <1>11 DEF Stands
<1>. QED
  BY <1>12 DEF k

(* A jump to where continue leads. *)
LEMMA GoodBack ==
    ASSUME NEW c, NEW P, NEW C, NEW D, GoodCode(c, P, C, D), NEW d, IsJump(d), d[Len(d)] \in C
    PROVE  GoodCode(c \o d, P, C, D)
<1>1. PICK S : SoundCode(c, S, P, C, D)
  BY DEF GoodCode
<1>2. d[1] # 828 /\ d[1] \in Jumping /\ IsInstruction(d) /\ P \subseteq P /\ d[Len(d)] \in S
  BY <1>1, OpcodeSets DEF IsJump, SoundCode
<1>3. SoundCode(c \o d, S \cup {Len(c) + Len(d)}, P, C, D)
  BY <1>1, <1>2, Continued
<1>. QED
  BY <1>3 DEF GoodCode

(* A jump that leads to the end of the code already.                       *)
LEMMA GoodSettled ==
    ASSUME NEW c, NEW P, NEW C, NEW D, NEW q, GoodCode(c, P \cup {q}, C, D), c[q + 1] = Len(c),
           NEW R, R \subseteq P \cup {q}, P \cup {q} \subseteq R \cup {q}
    PROVE  GoodCode(c, R, C, D)
<1>1. PICK S : SoundCode(c, S, P \cup {q}, C, D)
  BY DEF GoodCode
<1>2. Laid(c, S, P \cup {q}) /\ c[q + 1] \in S
  BY <1>1 DEF SoundCode, Laid
<1>. DEFINE T == P \cup {q}
<1>3. Laid(c, S, T) /\ R \subseteq T /\ T \subseteq R \cup {q}
  BY <1>2
<1>. HIDE DEF T
<1>4. Laid(c, S, R)
  BY <1>2, <1>3, Settled
<1>5. SoundCode(c, S, R, C, D)
  BY <1>1, <1>4 DEF SoundCode
<1>. QED
  BY <1>5 DEF GoodCode

(* A break is pending with those of the innermost loop. *)
LEMMA Joins ==
    ASSUME NEW s \in Seq(SUBSET Nat), Len(s) > 0, NEW p \in Nat
    PROVE  LET t == [s EXCEPT ![Len(s)] = @ \cup {p}] IN
           /\ t \in Seq(SUBSET Nat) /\ Len(t) = Len(s)
           /\ UNION Range(t) = (UNION Range(s)) \cup {p}
<1>. DEFINE t == [s EXCEPT ![Len(s)] = @ \cup {p}]
            n == Len(s)
            T == SUBSET Nat
<1>1. n \in Nat /\ DOMAIN s = 1 .. n /\ \A i \in 1 .. n : s[i] \in T
  <2>. HIDE DEF T
  <2>1. s \in Seq(T)
    BY DEF T
  <2>. QED
    BY <2>1
<1>2. t = [i \in 1 .. n |-> IF i = n THEN s[n] \cup {p} ELSE s[i]]
  BY <1>1
<1>3. t \in [1 .. n -> T]
  BY <1>1, <1>2
<1>. HIDE DEF T, t, n
<1>4. t \in Seq(T) /\ Len(t) = n
  BY <1>1, <1>3, Listed
<1>5. n \in 1 .. n
  BY <1>1 DEF n
<1>6. UNION Range(t) = (UNION Range(s)) \cup {p}
  <2>1. /\ DOMAIN t = 1 .. n /\ DOMAIN s = 1 .. n /\ t[n] = s[n] \cup {p}
        /\ \A i \in 1 .. n : i # n => t[i] = s[i]
    BY <1>1, <1>2, <1>5
  <2>2. ASSUME NEW e PROVE e \in UNION Range(t) <=> \E i \in 1 .. n : e \in t[i]
    BY <2>1, Zenon DEF Range
  <2>3. ASSUME NEW e PROVE e \in UNION Range(s) <=> \E i \in 1 .. n : e \in s[i]
    BY <2>1, Zenon DEF Range
  <2>4. ASSUME NEW e PROVE (\E i \in 1 .. n : e \in t[i]) <=> (\E i \in 1 .. n : e \in s[i]) \/ e = p
    BY <1>5, <2>1
  <2>. QED
    BY <2>2, <2>3, <2>4
<1>. QED
  BY <1>4, <1>6 DEF T, t, n

(* write_break: its jump is pending with the others of the loop. *)
LEMMA WritesBreak ==
    ASSUME NEW h, NEW x, NEW l, Stands(h, x, l), x.breaks > 0
    PROVE  Stands(WriteBreak(h), x, l)
<1>. DEFINE d == <<825, 0>>
            i == Emit(h, d)
            q == Len(h.code \o d) - 1
            b == [h.breaks EXCEPT ![Len(h.breaks)] = @ \cup {q}]
            k == WriteBreak(h)
<1>1. IsJump(d) /\ Typed(h) /\ IsGenerator(h) /\ Sound(h)
  BY TwoWords DEF Stands, Typed
<1>. HIDE DEF d
<1>2. /\ IsGenerator(i) /\ i.code = h.code \o d /\ Stacks(i) = Stacks(h)
      /\ Targets(i) = Targets(h) /\ i.temporaries = h.temporaries
  BY <1>1, Emits
<1>3. i.breaks = h.breaks
  BY <1>2 DEF Stacks
<1>4. k = [i EXCEPT !.breaks = b]
  <2>1. k = [i EXCEPT !.breaks[Len(i.breaks)] = @ \cup {Here(i) - 1}]
    BY Opcodes DEF WriteBreak, d
  <2>2. Here(i) - 1 = q
    BY <1>2 DEF Here
  <2>. HIDE DEF q, k, i
  <2>3. k = [i EXCEPT !.breaks = [i.breaks EXCEPT ![Len(i.breaks)] = @ \cup {q}]]
    BY <1>2, <2>1, <2>2 DEF IsGenerator
  <2>. QED
    BY <1>3, <2>3
<1>5. q = Len(h.code \o d) - 1
  OBVIOUS
<1>. HIDE DEF i, q, k
<1>6. q \in Nat /\ GoodCode(h.code \o d, Pending(h) \cup {q}, Range(h.continues), Range(h.default_arguments))
  <2>1. GoodCode(h.code, Pending(h), Range(h.continues), Range(h.default_arguments))
    BY <1>1 DEF Sound
  <2>2. IsJump(d)
    BY <1>1
  <2>. QED
    BY <1>5, <2>1, <2>2, GoodJump
<1>7. /\ b \in Seq(SUBSET Nat) /\ Len(b) = Len(h.breaks)
      /\ UNION Range(b) = (UNION Range(h.breaks)) \cup {q}
  <2>1. h.breaks \in Seq(SUBSET Nat) /\ Len(h.breaks) > 0
    BY <1>1, HeightIs DEF Typed
  <2>. QED
    BY <1>6, <2>1, Joins
<1>. HIDE DEF b
<1>8. /\ IsGenerator(k) /\ k.code = i.code /\ k.temporaries = i.temporaries
      /\ Targets(k) = Targets(i)
      /\ Stacks(k) = <<i.ifs, i.whiles, i.fors, b, i.logic, i.ternary_fail, i.ternary_skip>>
  BY <1>2, <1>4 DEF IsGenerator, Targets, Stacks
<1>9. /\ k.ifs = h.ifs /\ k.whiles = h.whiles /\ k.fors = h.fors /\ k.breaks = b
      /\ k.logic = h.logic /\ k.ternary_fail = h.ternary_fail /\ k.ternary_skip = h.ternary_skip
      /\ k.continues = h.continues /\ k.default_arguments = h.default_arguments
  BY <1>2, <1>8 DEF Targets, Stacks
<1>10. Pending(k) = Pending(h) \cup {q}
  <2>1. Pending(k) = Range(h.ifs) \cup Range(h.whiles) \cup Range(h.fors) \cup ((UNION Range(h.breaks)) \cup {q})
                   \cup Range(h.logic) \cup Range(h.ternary_fail) \cup Range(h.ternary_skip)
    BY <1>7, <1>9 DEF Pending
  <2>. QED
    BY <2>1 DEF Pending
<1>11. Sound(k)
  BY <1>2, <1>6, <1>8, <1>9, <1>10 DEF Sound
<1>12. Typed(k)
  BY <1>1, <1>2, <1>7, <1>8, <1>9 DEF Typed
<1>13. Height(k) = x /\ l = Len(k.logic)
  <2>1. x = Height(h) /\ l = Len(h.logic)
    BY DEF Stands
  <2>. QED
    BY <1>7, <1>9, <2>1 DEF Height
<1>14. Stands(k, x, l)
  BY <1>11, <1>12, <1>13 DEF Stands
<1>. QED
  BY <1>14 DEF k

(* Back to where continue leads. *)
LEMMA WritesContinue ==
    ASSUME NEW h, NEW x, NEW l, Stands(h, x, l), x.continues > 0
    PROVE  Stands(WriteContinue(h), x, l)
<1>. DEFINE t == Last(h.continues)
            d == <<825, t>>
            k == Emit(h, d)
<1>1. Typed(h) /\ IsGenerator(h) /\ Sound(h)
  BY DEF Stands, Typed
<1>2. t \in Range(h.continues)
  <2>1. h.continues \in Seq(Nat) /\ Len(h.continues) > 0
    BY <1>1, HeightIs DEF Typed
  <2>. QED
    BY <2>1, Popped
<1>3. k = WriteContinue(h)
  BY Opcodes DEF WriteContinue
<1>. HIDE DEF t
<1>4. IsJump(d) /\ d[Len(d)] = t
  BY TwoWords
<1>. HIDE DEF d
<1>5. /\ IsGenerator(k) /\ Stacks(k) = Stacks(h) /\ Targets(k) = Targets(h)
      /\ k.code = h.code \o d /\ k.temporaries = h.temporaries
  BY <1>1, Emits
<1>. HIDE DEF k
<1>6. /\ k.ifs = h.ifs /\ k.whiles = h.whiles /\ k.fors = h.fors /\ k.breaks = h.breaks
      /\ k.logic = h.logic /\ k.ternary_fail = h.ternary_fail /\ k.ternary_skip = h.ternary_skip
      /\ k.continues = h.continues /\ k.default_arguments = h.default_arguments
  BY <1>5 DEF Stacks, Targets
<1>7. Typed(k)
  BY <1>1, <1>5, <1>6 DEF Typed
<1>8. Pending(k) = Pending(h) /\ Height(k) = Height(h)
  BY <1>6 DEF Pending, Height
<1>9. Sound(k)
  <2>1. GoodCode(h.code, Pending(h), Range(h.continues), Range(h.default_arguments))
    BY <1>1 DEF Sound
  <2>2. GoodCode(h.code \o d, Pending(h), Range(h.continues), Range(h.default_arguments))
    BY <1>2, <1>4, <2>1, GoodBack
  <2>. QED
    BY <1>5, <1>6, <1>8, <2>2 DEF Sound
<1>10. Stands(k, x, l)
  BY <1>6, <1>7, <1>8, <1>9 DEF Stands
<1>. QED
  BY <1>3, <1>10

(* The breaks of the innermost loop and those of the rest. *)
LEMMA LastBreaks ==
    ASSUME NEW s \in Seq(SUBSET Nat), Len(s) > 0
    PROVE  /\ Front(s) \in Seq(SUBSET Nat) /\ Len(Front(s)) = Len(s) - 1
           /\ UNION Range(s) = (UNION Range(Front(s))) \cup Last(s)
<1>. DEFINE T == SUBSET Nat
            f == Front(s)
            e == Last(s)
<1>1. f \in Seq(T) /\ Len(f) = Len(s) - 1 /\ Range(s) = Range(f) \cup {e}
  <2>. HIDE DEF T
  <2>1. s \in Seq(T)
    BY DEF T
  <2>. QED
    BY <2>1, Popped
<1>. HIDE DEF f, e
<1>2. UNION Range(s) = (UNION Range(f)) \cup e
  BY <1>1
<1>. QED
  BY <1>1, <1>2 DEF f, e

(* A while loop ends: its test and its breaks lead behind it. *)
LEMMA WritesEndWhile ==
    ASSUME NEW h, NEW x, NEW l, Stands(h, x, l), x.whiles > 0, x.breaks > 0, x.continues > 0
    PROVE  Stands(WriteEndWhile(h), Up(Up(Up(x, "whiles", -1), "breaks", -1), "continues", -1), l)
<1>. DEFINE i == WriteContinue(h)
            q == Last(i.whiles)
            b == Last(i.breaks)
            Q == b \cup {q}
            j == PatchAll(i, Q)
            k == WriteEndWhile(h)
            y == Up(Up(Up(x, "whiles", -1), "breaks", -1), "continues", -1)
<1>1. Stands(i, x, l)
  BY WritesContinue
<1>2. k = [j EXCEPT !.whiles = Front(@), !.breaks = Front(@), !.continues = Front(@)]
  BY DEF WriteEndWhile, WriteContinue
<1>. HIDE DEF i
<1>3. Typed(i) /\ IsGenerator(i) /\ Sound(i)
  BY <1>1 DEF Stands, Typed
<1>4. /\ i.whiles \in Seq(Nat) /\ Len(i.whiles) > 0 /\ i.continues \in Seq(Nat) /\ Len(i.continues) > 0
      /\ i.breaks \in Seq(SUBSET Nat) /\ Len(i.breaks) > 0
  BY <1>1, <1>3, HeightIs DEF Typed
<1>5. /\ Front(i.whiles) \in Seq(Nat) /\ Len(Front(i.whiles)) = Len(i.whiles) + -1
      /\ Range(i.whiles) = Range(Front(i.whiles)) \cup {q}
  <2>1. /\ Front(i.whiles) \in Seq(Nat) /\ Len(Front(i.whiles)) = Len(i.whiles) - 1
        /\ Range(i.whiles) = Range(Front(i.whiles)) \cup {q}
    BY <1>4, Popped
  <2>. QED
    BY <1>4, <2>1
<1>6. /\ Front(i.continues) \in Seq(Nat) /\ Len(Front(i.continues)) = Len(i.continues) + -1
      /\ Range(Front(i.continues)) \subseteq Range(i.continues)
  <2>1. /\ Front(i.continues) \in Seq(Nat) /\ Len(Front(i.continues)) = Len(i.continues) - 1
        /\ Range(i.continues) = Range(Front(i.continues)) \cup {Last(i.continues)}
    BY <1>4, Popped
  <2>. QED
    BY <1>4, <2>1
<1>7. /\ Front(i.breaks) \in Seq(SUBSET Nat) /\ Len(Front(i.breaks)) = Len(i.breaks) + -1
      /\ UNION Range(i.breaks) = (UNION Range(Front(i.breaks))) \cup b
  <2>1. /\ Front(i.breaks) \in Seq(SUBSET Nat) /\ Len(Front(i.breaks)) = Len(i.breaks) - 1
        /\ UNION Range(i.breaks) = (UNION Range(Front(i.breaks))) \cup b
    BY <1>4, LastBreaks
  <2>2. Len(i.breaks) \in Nat
    BY <1>4
  <2>. QED
    BY <2>1, <2>2
<1>. HIDE DEF q, b
<1>8. /\ IsGenerator(j) /\ j.code = ToldWhere(i.code, Q) /\ Stacks(j) = Stacks(i)
      /\ Targets(j) = Targets(i) /\ j.temporaries = i.temporaries
  <2>. HIDE DEF Q
  <2>. QED
    BY <1>3, Patches
<1>. HIDE DEF j, k
<1>9. /\ IsGenerator(k) /\ k.code = j.code /\ k.temporaries = j.temporaries
      /\ Targets(k) = <<Front(j.continues), j.default_arguments>>
      /\ Stacks(k) = <<j.ifs, Front(j.whiles), j.fors, Front(j.breaks), j.logic,
                       j.ternary_fail, j.ternary_skip>>
  BY <1>2, <1>8 DEF IsGenerator, Targets, Stacks
<1>10. /\ k.ifs = i.ifs /\ k.whiles = Front(i.whiles) /\ k.fors = i.fors /\ k.breaks = Front(i.breaks)
       /\ k.logic = i.logic /\ k.ternary_fail = i.ternary_fail /\ k.ternary_skip = i.ternary_skip
       /\ k.continues = Front(i.continues) /\ k.default_arguments = i.default_arguments
  BY <1>8, <1>9 DEF Targets, Stacks
<1>11. /\ k.whiles \in Seq(Nat) /\ Len(k.whiles) = Len(i.whiles) + -1
       /\ Range(i.whiles) = Range(k.whiles) \cup {q}
       /\ k.continues \in Seq(Nat) /\ Len(k.continues) = Len(i.continues) + -1
       /\ Range(k.continues) \subseteq Range(i.continues)
       /\ k.breaks \in Seq(SUBSET Nat) /\ Len(k.breaks) = Len(i.breaks) + -1
       /\ UNION Range(i.breaks) = (UNION Range(k.breaks)) \cup b
  BY <1>5, <1>6, <1>7, <1>10
<1>12. /\ Q \subseteq Pending(i) /\ Pending(k) \subseteq Pending(i) /\ Pending(i) \subseteq Pending(k) \cup Q
  <2>1. /\ k.ifs = i.ifs /\ k.fors = i.fors
        /\ k.logic = i.logic /\ k.ternary_fail = i.ternary_fail /\ k.ternary_skip = i.ternary_skip
        /\ Range(i.whiles) = Range(k.whiles) \cup {q}
        /\ UNION Range(i.breaks) = (UNION Range(k.breaks)) \cup b
    BY <1>10, <1>11
  <2>. QED
    BY <2>1 DEF Pending
<1>. HIDE DEF Q
<1>13. Sound(k)
  <2>1. GoodCode(i.code, Pending(i), Range(i.continues), Range(i.default_arguments))
    BY <1>3 DEF Sound
  <2>2. Range(k.continues) \in SUBSET (Range(i.continues) \cup {Len(i.code)})
    BY <1>11
  <2>3. GoodCode(i.code, Pending(i), Range(k.continues), Range(i.default_arguments))
    BY <2>1, <2>2, GoodPlace
  <2>4. GoodCode(ToldWhere(i.code, Q), Pending(k), Range(k.continues), Range(i.default_arguments))
    BY <1>12, <2>3, GoodTold
  <2>. QED
    BY <1>8, <1>9, <1>10, <2>4 DEF Sound
<1>14. Typed(k)
  BY <1>3, <1>8, <1>9, <1>10, <1>11 DEF Typed
<1>15. Height(k) = y /\ l = Len(k.logic)
  <2>1. /\ k.ifs = i.ifs /\ k.fors = i.fors
        /\ k.ternary_fail = i.ternary_fail /\ k.ternary_skip = i.ternary_skip
        /\ k.default_arguments = i.default_arguments /\ k.logic = i.logic
        /\ Len(k.breaks) = Len(i.breaks) + -1 /\ Len(k.continues) = Len(i.continues) + -1
        /\ Len(k.whiles) = Len(i.whiles) + -1
    BY <1>10, <1>11
  <2>2. x = Heights(Len(i.ifs), Len(i.whiles), Len(i.fors), Len(i.breaks), Len(i.continues),
                    Len(i.ternary_fail), Len(i.ternary_skip), Len(i.default_arguments))
        /\ l = Len(i.logic)
    BY <1>1 DEF Stands, Height
  <2>3. Up(x, "whiles", -1) =
            Heights(Len(i.ifs), Len(i.whiles) + -1, Len(i.fors), Len(i.breaks), Len(i.continues),
                    Len(i.ternary_fail), Len(i.ternary_skip), Len(i.default_arguments))
    BY <2>2, Raised
  <2>4. Up(Up(x, "whiles", -1), "breaks", -1) =
            Heights(Len(i.ifs), Len(i.whiles) + -1, Len(i.fors), Len(i.breaks) + -1, Len(i.continues),
                    Len(i.ternary_fail), Len(i.ternary_skip), Len(i.default_arguments))
    BY <2>3, Raised
  <2>5. y = Heights(Len(i.ifs), Len(i.whiles) + -1, Len(i.fors), Len(i.breaks) + -1, Len(i.continues) + -1,
                    Len(i.ternary_fail), Len(i.ternary_skip), Len(i.default_arguments))
    BY <2>4, Raised
  <2>. QED
    BY <2>1, <2>2, <2>5 DEF Height
<1>. HIDE DEF y
<1>16. Stands(k, y, l)
  BY <1>13, <1>14, <1>15 DEF Stands
<1>. QED
  BY <1>16 DEF k, y

(* A for loop ends: both its tests and its breaks lead behind it. *)
LEMMA WritesEndFor ==
    ASSUME NEW h, NEW x, NEW l, Stands(h, x, l), x.fors > 1, x.breaks > 0, x.continues > 0
    PROVE  Stands(WriteEndFor(h), Up(Up(Up(x, "fors", -2), "breaks", -1), "continues", -1), l)
<1>. DEFINE i == WriteContinue(h)
            q == Last(i.fors)
            r == Last(Front(i.fors))
            b == Last(i.breaks)
            Q == b \cup {q, r}
            j == PatchAll(i, Q)
            k == WriteEndFor(h)
            y == Up(Up(Up(x, "fors", -2), "breaks", -1), "continues", -1)
<1>1. Stands(i, x, l)
  BY WritesContinue
<1>2. k = [j EXCEPT !.fors = Front(Front(@)), !.breaks = Front(@), !.continues = Front(@)]
  BY DEF WriteEndFor, WriteContinue
<1>. HIDE DEF i
<1>3. Typed(i) /\ IsGenerator(i) /\ Sound(i)
  BY <1>1 DEF Stands, Typed
<1>4. /\ i.fors \in Seq(Nat) /\ Len(i.fors) > 0 /\ Len(i.fors) - 1 > 0 /\ i.continues \in Seq(Nat) /\ Len(i.continues) > 0
      /\ i.breaks \in Seq(SUBSET Nat) /\ Len(i.breaks) > 0
  <2>1. /\ i.fors \in Seq(Nat) /\ i.continues \in Seq(Nat) /\ i.breaks \in Seq(SUBSET Nat)
    BY <1>3 DEF Typed
  <2>2. x.fors = Len(i.fors) /\ x.breaks = Len(i.breaks) /\ x.continues = Len(i.continues)
    BY <1>1, HeightIs
  <2>3. Len(i.fors) \in Nat
    BY <2>1
  <2>. QED
    BY <2>1, <2>2, <2>3
<1>5. /\ Front(Front(i.fors)) \in Seq(Nat) /\ Len(Front(Front(i.fors))) = Len(i.fors) + -2
      /\ Range(i.fors) = Range(Front(Front(i.fors))) \cup {q, r}
  <2>1. /\ Front(i.fors) \in Seq(Nat) /\ Len(Front(i.fors)) = Len(i.fors) - 1
        /\ Range(i.fors) = Range(Front(i.fors)) \cup {q}
    BY <1>4, Popped
  <2>. DEFINE s == Front(i.fors)
  <2>. HIDE DEF s, q
  <2>2. s \in Seq(Nat) /\ Len(s) > 0
    BY <1>4, <2>1 DEF s
  <2>3. /\ Front(s) \in Seq(Nat) /\ Len(Front(s)) = Len(s) - 1
        /\ Range(s) = Range(Front(s)) \cup {Last(s)}
    BY <2>2, Popped
  <2>4. Len(i.fors) \in Nat
    BY <1>4
  <2>5. Range(i.fors) = Range(Front(s)) \cup {q, Last(s)}
    BY <2>1, <2>3 DEF s
  <2>6. Len(Front(s)) = Len(i.fors) + -2
    BY <2>1, <2>3, <2>4 DEF s
  <2>. QED
    BY <2>3, <2>5, <2>6 DEF s
<1>6. /\ Front(i.continues) \in Seq(Nat) /\ Len(Front(i.continues)) = Len(i.continues) + -1
      /\ Range(Front(i.continues)) \subseteq Range(i.continues)
  <2>1. /\ Front(i.continues) \in Seq(Nat) /\ Len(Front(i.continues)) = Len(i.continues) - 1
        /\ Range(i.continues) = Range(Front(i.continues)) \cup {Last(i.continues)}
    BY <1>4, Popped
  <2>. QED
    BY <1>4, <2>1
<1>7. /\ Front(i.breaks) \in Seq(SUBSET Nat) /\ Len(Front(i.breaks)) = Len(i.breaks) + -1
      /\ UNION Range(i.breaks) = (UNION Range(Front(i.breaks))) \cup b
  <2>1. /\ Front(i.breaks) \in Seq(SUBSET Nat) /\ Len(Front(i.breaks)) = Len(i.breaks) - 1
        /\ UNION Range(i.breaks) = (UNION Range(Front(i.breaks))) \cup b
    BY <1>4, LastBreaks
  <2>2. Len(i.breaks) \in Nat
    BY <1>4
  <2>. QED
    BY <2>1, <2>2
<1>. HIDE DEF q, r, b
<1>8. /\ IsGenerator(j) /\ j.code = ToldWhere(i.code, Q) /\ Stacks(j) = Stacks(i)
      /\ Targets(j) = Targets(i) /\ j.temporaries = i.temporaries
  <2>. HIDE DEF Q
  <2>. QED
    BY <1>3, Patches
<1>. HIDE DEF j, k
<1>9. /\ IsGenerator(k) /\ k.code = j.code /\ k.temporaries = j.temporaries
      /\ Targets(k) = <<Front(j.continues), j.default_arguments>>
      /\ Stacks(k) = <<j.ifs, j.whiles, Front(Front(j.fors)), Front(j.breaks), j.logic,
                       j.ternary_fail, j.ternary_skip>>
  BY <1>2, <1>8 DEF IsGenerator, Targets, Stacks
<1>10. /\ k.ifs = i.ifs /\ k.whiles = i.whiles /\ k.fors = Front(Front(i.fors)) /\ k.breaks = Front(i.breaks)
       /\ k.logic = i.logic /\ k.ternary_fail = i.ternary_fail /\ k.ternary_skip = i.ternary_skip
       /\ k.continues = Front(i.continues) /\ k.default_arguments = i.default_arguments
  BY <1>8, <1>9 DEF Targets, Stacks
<1>11. /\ k.fors \in Seq(Nat) /\ Len(k.fors) = Len(i.fors) + -2
       /\ Range(i.fors) = Range(k.fors) \cup {q, r}
       /\ k.continues \in Seq(Nat) /\ Len(k.continues) = Len(i.continues) + -1
       /\ Range(k.continues) \subseteq Range(i.continues)
       /\ k.breaks \in Seq(SUBSET Nat) /\ Len(k.breaks) = Len(i.breaks) + -1
       /\ UNION Range(i.breaks) = (UNION Range(k.breaks)) \cup b
  BY <1>5, <1>6, <1>7, <1>10
<1>12. /\ Q \subseteq Pending(i) /\ Pending(k) \subseteq Pending(i) /\ Pending(i) \subseteq Pending(k) \cup Q
  <2>1. /\ k.ifs = i.ifs /\ k.whiles = i.whiles
        /\ k.logic = i.logic /\ k.ternary_fail = i.ternary_fail /\ k.ternary_skip = i.ternary_skip
        /\ Range(i.fors) = Range(k.fors) \cup {q, r}
        /\ UNION Range(i.breaks) = (UNION Range(k.breaks)) \cup b
    BY <1>10, <1>11
  <2>. QED
    BY <2>1 DEF Pending
<1>. HIDE DEF Q
<1>13. Sound(k)
  <2>1. GoodCode(i.code, Pending(i), Range(i.continues), Range(i.default_arguments))
    BY <1>3 DEF Sound
  <2>2. Range(k.continues) \in SUBSET (Range(i.continues) \cup {Len(i.code)})
    BY <1>11
  <2>3. GoodCode(i.code, Pending(i), Range(k.continues), Range(i.default_arguments))
    BY <2>1, <2>2, GoodPlace
  <2>4. GoodCode(ToldWhere(i.code, Q), Pending(k), Range(k.continues), Range(i.default_arguments))
    BY <1>12, <2>3, GoodTold
  <2>. QED
    BY <1>8, <1>9, <1>10, <2>4 DEF Sound
<1>14. Typed(k)
  BY <1>3, <1>8, <1>9, <1>10, <1>11 DEF Typed
<1>15. Height(k) = y /\ l = Len(k.logic)
  <2>1. /\ k.ifs = i.ifs /\ k.whiles = i.whiles
        /\ k.ternary_fail = i.ternary_fail /\ k.ternary_skip = i.ternary_skip
        /\ k.default_arguments = i.default_arguments /\ k.logic = i.logic
        /\ Len(k.breaks) = Len(i.breaks) + -1 /\ Len(k.continues) = Len(i.continues) + -1
        /\ Len(k.fors) = Len(i.fors) + -2
    BY <1>10, <1>11
  <2>2. x = Heights(Len(i.ifs), Len(i.whiles), Len(i.fors), Len(i.breaks), Len(i.continues),
                    Len(i.ternary_fail), Len(i.ternary_skip), Len(i.default_arguments))
        /\ l = Len(i.logic)
    BY <1>1 DEF Stands, Height
  <2>3. Up(x, "fors", -2) =
            Heights(Len(i.ifs), Len(i.whiles), Len(i.fors) + -2, Len(i.breaks), Len(i.continues),
                    Len(i.ternary_fail), Len(i.ternary_skip), Len(i.default_arguments))
    BY <2>2, Raised
  <2>4. Up(Up(x, "fors", -2), "breaks", -1) =
            Heights(Len(i.ifs), Len(i.whiles), Len(i.fors) + -2, Len(i.breaks) + -1, Len(i.continues),
                    Len(i.ternary_fail), Len(i.ternary_skip), Len(i.default_arguments))
    BY <2>3, Raised
  <2>5. y = Heights(Len(i.ifs), Len(i.whiles), Len(i.fors) + -2, Len(i.breaks) + -1, Len(i.continues) + -1,
                    Len(i.ternary_fail), Len(i.ternary_skip), Len(i.default_arguments))
    BY <2>4, Raised
  <2>. QED
    BY <2>1, <2>2, <2>5 DEF Height
<1>. HIDE DEF y
<1>16. Stands(k, y, l)
  BY <1>13, <1>14, <1>15 DEF Stands
<1>. QED
  BY <1>16 DEF k, y

(* Begin, a jump over the advance, the advance: the jump needs not be told *)
(* where to go.                                                            *)
IsForCode(c, d1, d3, v, q1, n, q3) ==
    /\ v = Len(c \o d1) + 2 + Len(d3) /\ q1 = Len(c \o d1) - 1
    /\ n = Len((c \o d1) \o <<825, v>>)
    /\ q3 = Len(((c \o d1) \o <<825, v>>) \o d3) - 1

(* The end of the code is a place where an instruction will begin. *)
LEMMA GoodPlaced ==
    ASSUME NEW c, NEW P, NEW C, NEW D, GoodCode(c, P, C, D), NEW n, n = Len(c)
    PROVE  n \in Nat /\ GoodCode(c, P, C \cup {n}, D)
<1>1. C \cup {n} \in SUBSET (C \cup {Len(c)})
  OBVIOUS
<1>. QED
  BY <1>1, GoodPlace

(* The head of a for loop is sound: the first test jumps, and the jump     *)
(* over the step leads to the body.                                        *)
LEMMA GoodFor ==
    ASSUME NEW c, NEW P, NEW C, NEW D, GoodCode(c, P, C, D),
           NEW d1, IsJump(d1), NEW d3, IsJump(d3), NEW v, NEW q1, NEW n, NEW q3,
           IsForCode(c, d1, d3, v, q1, n, q3)
    PROVE  /\ GoodCode(((c \o d1) \o <<825, v>>) \o d3, P \cup {q1, q3}, C \cup {n}, D)
           /\ q1 \in Nat /\ q3 \in Nat /\ n \in Nat
<1>. DEFINE d2 == <<825, v>>
            c1 == c \o d1
            c2 == c1 \o d2
            c3 == c2 \o d3
            q2 == Len(c2) - 1
<1>1. IsJump(d2) /\ Len(d2) = 2 /\ d2[2] = v
  BY TwoWords
<1>. HIDE DEF d2
<1>2. q1 \in Nat /\ GoodCode(c1, P \cup {q1}, C, D)
  <2>1. q1 = Len(c \o d1) - 1
    BY DEF IsForCode
  <2>. QED
    BY <2>1, GoodJump
<1>3. /\ c2 = c1 \o d2 /\ q2 = Len(c1 \o d2) - 1 /\ n = Len(c2) /\ c3 = c2 \o d3
      /\ q3 = Len(c2 \o d3) - 1 /\ v = Len(c1) + 2 + Len(d3)
  BY DEF d2, IsForCode
<1>. HIDE DEF c1
<1>3a. Sequence(c1) /\ Sequence(d2) /\ Sequence(d3)
  BY <1>1, <1>2 DEF GoodCode, SoundCode, Laid, IsJump, IsInstruction
<1>4. q2 \in Nat /\ GoodCode(c1 \o d2, (P \cup {q1}) \cup {q2}, C, D)
  <2>. DEFINE R == P \cup {q1}
  <2>1. GoodCode(c1, R, C, D) /\ IsJump(d2) /\ q2 = Len(c1 \o d2) - 1
    BY <1>1, <1>2
  <2>. HIDE DEF R, c2, q2
  <2>2. q2 \in Nat /\ GoodCode(c1 \o d2, R \cup {q2}, C, D)
    BY <2>1, GoodJump
  <2>. QED
    BY <2>2 DEF R
<1>5. /\ Len(c2) = Len(c1) + 2 /\ Len(c1) \in Nat /\ c2[Len(c2)] = v /\ Sequence(c2)
  <2>1. /\ Sequence(c2) /\ Len(c2) = Len(c1) + Len(d2) /\ Len(c1) \in Nat
        /\ \A i \in 1 .. Len(d2) : c2[Len(c1) + i] = d2[i]
    BY <1>3a, Joined
  <2>. HIDE DEF c2, c3
  <2>2. c2[Len(c1) + 2] = d2[2] /\ Len(c2) = Len(c1) + 2
    BY <1>1, <2>1
  <2>. QED
    BY <1>1, <2>1, <2>2
<1>. HIDE DEF q2
<1>6. n \in Nat /\ GoodCode(c2, (P \cup {q1}) \cup {q2}, C \cup {n}, D)
  <2>. DEFINE R == (P \cup {q1}) \cup {q2}
  <2>1. GoodCode(c2, R, C, D) /\ n = Len(c2)
    BY <1>3, <1>4
  <2>. HIDE DEF R, c2, c3
  <2>2. n \in Nat /\ GoodCode(c2, R, C \cup {n}, D)
    BY <2>1, GoodPlaced
  <2>. QED
    BY <2>2 DEF R
<1>7. q3 \in Nat /\ GoodCode(c2 \o d3, ((P \cup {q1}) \cup {q2}) \cup {q3}, C \cup {n}, D)
  <2>. DEFINE R == (P \cup {q1}) \cup {q2}
              Z == C \cup {n}
  <2>1. GoodCode(c2, R, Z, D) /\ q3 = Len(c2 \o d3) - 1
    BY <1>3, <1>6
  <2>. HIDE DEF R, Z, c2, c3
  <2>2. q3 \in Nat /\ GoodCode(c2 \o d3, R \cup {q3}, Z, D)
    BY <2>1, GoodJump
  <2>. QED
    BY <2>2 DEF R, Z
<1>. HIDE DEF c2
<1>8. c3[q2 + 1] = Len(c3)
  <2>1. Len(c3) = Len(c2) + Len(d3) /\ Len(d3) \in Nat /\ \A i \in 1 .. Len(c2) : c3[i] = c2[i]
    BY <1>3, <1>3a, <1>5, Joined
  <2>2. q2 + 1 = Len(c2) /\ Len(c2) \in 1 .. Len(c2)
    BY <1>3, <1>5
  <2>. QED
    BY <1>3, <1>5, <2>1, <2>2
<1>. DEFINE R == P \cup {q1, q3}
            Z == C \cup {n}
<1>9. GoodCode(c3, R \cup {q2}, Z, D)
  <2>1. ((P \cup {q1}) \cup {q2}) \cup {q3} = R \cup {q2}
    OBVIOUS
  <2>. QED
    BY <1>3, <1>7, <2>1
<1>10. GoodCode(c3, R, Z, D)
  <2>1. R \subseteq R \cup {q2} /\ R \cup {q2} \subseteq R \cup {q2}
    OBVIOUS
  <2>. HIDE DEF R, Z, c3
  <2>. QED
    BY <1>8, <1>9, <2>1, GoodSettled
<1>. QED
  BY <1>2, <1>6, <1>7, <1>10 DEF c1, c2, c3, d2

(* Two jumps pushed onto a stack. *)
LEMMA PushedTwo ==
    ASSUME NEW s \in Seq(Nat), NEW p \in Nat, NEW q \in Nat
    PROVE  /\ s \o <<p, q>> \in Seq(Nat) /\ Len(s \o <<p, q>>) = Len(s) + 2
           /\ Range(s \o <<p, q>>) = Range(s) \cup {p, q}
<1>. DEFINE u == Append(s, p)
<1>1. s \o <<p, q>> = Append(u, q)
  OBVIOUS
<1>2. u \in Seq(Nat) /\ Len(u) = Len(s) + 1 /\ Range(u) = Range(s) \cup {p} /\ Len(s) \in Nat
  BY Pushed
<1>. HIDE DEF u
<1>3. /\ Append(u, q) \in Seq(Nat) /\ Len(Append(u, q)) = Len(u) + 1
      /\ Range(Append(u, q)) = Range(u) \cup {q}
  BY <1>2, Pushed, SMTT(30)
<1>. DEFINE w == Append(u, q)
<1>. HIDE DEF w
<1>4. w \in Seq(Nat) /\ Len(w) = Len(s) + 2 /\ Range(w) = Range(s) \cup {p, q}
  BY <1>2, <1>3 DEF w
<1>. QED
  BY <1>1, <1>4 DEF w

(* write_for: two jumps are pending, and continue leads to the step. *)
LEMMA WritesFor ==
    ASSUME NEW h, NEW x, NEW l, Stands(h, x, l), NEW is_range, NEW counter, NEW element
    PROVE  Stands(WriteFor(h, is_range, counter, element), Up(Up(x, "fors", 2), "continues", 1), l)
<1>. DEFINE d1 == IF is_range
                  THEN <<Opcode.ITERATE_BEGIN_RANGE, counter, counter + 1, counter + 2,
                         counter + 3, element, 0>>
                  ELSE <<Opcode.ITERATE_BEGIN, counter, counter + 1, element, 0>>
            d3 == IF is_range
                  THEN <<Opcode.ITERATE_RANGE, counter, counter + 2, counter + 3, element, 0>>
                  ELSE <<Opcode.ITERATE, counter, counter + 1, element, 0>>
            i1 == Emit(h, d1)
            t == Here(i1) + 1 + AdvanceLength(is_range)
            d2 == <<Opcode.JUMP, t>>
            i2 == Emit(i1, d2)
            i3 == Emit(i2, d3)
            c1 == h.code \o d1
            c2 == c1 \o d2
            c3 == c2 \o d3
            k == WriteFor(h, is_range, counter, element)
            y == Up(Up(x, "fors", 2), "continues", 1)
<1>1. Typed(h) /\ IsGenerator(h) /\ Sound(h)
  BY DEF Stands, Typed
<1>2. IsJump(d1) /\ IsJump(d3) /\ Len(d3) = AdvanceLength(is_range) - 1
      /\ AdvanceLength(is_range) \in Nat
  <2>1. CASE is_range
    BY <2>1, SixWords, SevenWords, Opcodes DEF AdvanceLength
  <2>2. CASE ~is_range
    BY <2>2, FiveWords, Opcodes DEF AdvanceLength
  <2>. QED
    BY <2>1, <2>2
<1>3. k = [i3 EXCEPT !.continues = Append(@, Here(i2)), !.fors = @ \o <<Here(i1) - 1, Here(i3) - 1>>]
  BY Zenon DEF WriteFor
<1>. HIDE DEF d1, d3, d2, k
<1>4. /\ IsGenerator(i1) /\ i1.code = c1 /\ Stacks(i1) = Stacks(h) /\ Targets(i1) = Targets(h)
      /\ i1.temporaries = h.temporaries
  BY <1>1, Emits
<1>. HIDE DEF i1
<1>5. /\ IsGenerator(i2) /\ i2.code = i1.code \o d2 /\ Stacks(i2) = Stacks(i1)
      /\ Targets(i2) = Targets(i1) /\ i2.temporaries = i1.temporaries
  BY <1>4, Emits
<1>. HIDE DEF i2
<1>6. /\ IsGenerator(i3) /\ i3.code = i2.code \o d3 /\ Stacks(i3) = Stacks(i2)
      /\ Targets(i3) = Targets(i2) /\ i3.temporaries = i2.temporaries
  BY <1>5, Emits
<1>. HIDE DEF i3
<1>. DEFINE q1 == Len(c1) - 1
            q3 == Len(c3) - 1
            n == Len(c2)
            f == h.fors \o <<q1, q3>>
            e == Append(h.continues, n)
<1>7. i3.code = c3 /\ Stacks(i3) = Stacks(h) /\ Targets(i3) = Targets(h) /\ i3.temporaries = h.temporaries
      /\ Here(i1) - 1 = q1 /\ Here(i2) = n /\ Here(i3) - 1 = q3
  BY <1>4, <1>5, <1>6 DEF Here
<1>8. k = [i3 EXCEPT !.continues = e, !.fors = f]
  <2>1. i3.fors = h.fors /\ i3.continues = h.continues
    BY <1>7 DEF Stacks, Targets
  <2>. QED
    BY <1>3, <1>7, <2>1
<1>9. /\ GoodCode(c3, Pending(h) \cup {q1, q3}, Range(h.continues) \cup {n}, Range(h.default_arguments))
      /\ q1 \in Nat /\ q3 \in Nat /\ n \in Nat
  <2>1. GoodCode(h.code, Pending(h), Range(h.continues), Range(h.default_arguments))
    BY <1>1 DEF Sound
  <2>2. t = Len(h.code \o d1) + 2 + Len(d3)
    <3>1. t = Len(c1) + 1 + AdvanceLength(is_range)
      BY <1>4 DEF Here
    <3>2. Sequence(h.code) /\ Sequence(d1)
      BY <1>2, <2>1 DEF GoodCode, SoundCode, Laid, IsJump, IsInstruction
    <3>3. Len(c1) \in Nat
      BY <3>2, Joined
    <3>. QED
      BY <1>2, <3>1, <3>3
  <2>3. c3 = ((h.code \o d1) \o <<825, t>>) \o d3 /\ IsForCode(h.code, d1, d3, t, q1, n, q3)
    BY <2>2, Opcodes DEF d2, IsForCode
  <2>. HIDE DEF c1, c2, c3, q1, q3, n, t, e, f
  <2>4. /\ GoodCode(((h.code \o d1) \o <<825, t>>) \o d3, Pending(h) \cup {q1, q3},
                    Range(h.continues) \cup {n}, Range(h.default_arguments))
        /\ q1 \in Nat /\ q3 \in Nat /\ n \in Nat
    BY <1>2, <2>1, <2>3, GoodFor
  <2>. QED
    BY <2>3, <2>4
<1>. HIDE DEF c3, q1, q3, n, t
<1>10. /\ f \in Seq(Nat) /\ Len(f) = Len(h.fors) + 2 /\ Range(f) = Range(h.fors) \cup {q1, q3}
  <2>1. h.fors \in Seq(Nat)
    BY <1>1 DEF Typed
  <2>. QED
    BY <1>9, <2>1, PushedTwo
<1>11. e \in Seq(Nat) /\ Len(e) = Len(h.continues) + 1 /\ Range(e) = Range(h.continues) \cup {n}
  <2>1. h.continues \in Seq(Nat)
    BY <1>1 DEF Typed
  <2>. QED
    BY <1>9, <2>1, Pushed
<1>. HIDE DEF e, f
<1>12. /\ IsGenerator(k) /\ k.code = i3.code /\ k.temporaries = i3.temporaries
       /\ Targets(k) = <<e, i3.default_arguments>>
       /\ Stacks(k) = <<i3.ifs, i3.whiles, f, i3.breaks, i3.logic, i3.ternary_fail, i3.ternary_skip>>
  BY <1>6, <1>8 DEF IsGenerator, Targets, Stacks
<1>13. /\ k.ifs = h.ifs /\ k.whiles = h.whiles /\ k.fors = f /\ k.breaks = h.breaks
       /\ k.logic = h.logic /\ k.ternary_fail = h.ternary_fail /\ k.ternary_skip = h.ternary_skip
       /\ k.continues = e /\ k.default_arguments = h.default_arguments
  BY <1>7, <1>12 DEF Targets, Stacks
<1>14. Pending(k) = Pending(h) \cup {q1, q3}
  <2>1. Pending(k) = Range(h.ifs) \cup Range(h.whiles) \cup (Range(h.fors) \cup {q1, q3})
                   \cup (UNION Range(h.breaks))
                   \cup Range(h.logic) \cup Range(h.ternary_fail) \cup Range(h.ternary_skip)
    BY <1>10, <1>13 DEF Pending
  <2>. QED
    BY <2>1 DEF Pending
<1>15. Sound(k)
  BY <1>7, <1>9, <1>11, <1>12, <1>13, <1>14 DEF Sound
<1>16. Typed(k)
  BY <1>1, <1>7, <1>10, <1>11, <1>12, <1>13 DEF Typed
<1>17. Height(k) = y /\ l = Len(k.logic)
  <2>1. x = Heights(Len(h.ifs), Len(h.whiles), Len(h.fors), Len(h.breaks), Len(h.continues),
                    Len(h.ternary_fail), Len(h.ternary_skip), Len(h.default_arguments))
        /\ l = Len(h.logic)
    BY DEF Stands, Height
  <2>2. Up(x, "fors", 2) =
            Heights(Len(h.ifs), Len(h.whiles), Len(h.fors) + 2, Len(h.breaks), Len(h.continues),
                    Len(h.ternary_fail), Len(h.ternary_skip), Len(h.default_arguments))
    BY <2>1, Raised
  <2>3. y = Heights(Len(h.ifs), Len(h.whiles), Len(h.fors) + 2, Len(h.breaks), Len(h.continues) + 1,
                    Len(h.ternary_fail), Len(h.ternary_skip), Len(h.default_arguments))
    BY <2>2, Raised
  <2>. QED
    BY <1>10, <1>11, <1>13, <2>1, <2>3 DEF Height
<1>. HIDE DEF y
<1>18. Stands(k, y, l)
  BY <1>15, <1>16, <1>17 DEF Stands
<1>. QED
  BY <1>18 DEF k, y

-----------------------------------------------------------------------------
(* The function *)

(* The same for the places of the defaults. *)
LEMMA RaisedDefaults ==
    ASSUME NEW i, NEW w, NEW f, NEW b, NEW c, NEW a, NEW s, NEW d, NEW n
    PROVE  Up(Heights(i, w, f, b, c, a, s, d), "defaults", n) = Heights(i, w, f, b, c, a, s, d + n)
BY DEF Heights, Up

(* No jump is pending and no block open. *)
Level == Heights(0, 0, 0, 0, 0, 0, 0, 0)

(* No code is sound. *)
LEMMA NoCode == Laid(<<>>, {0}, {})
<1>1. <<>> \in Seq({}) /\ Len(<<>>) = 0
  OBVIOUS
<1>2. Sequence(<<>>)
  BY <1>1, Elements
<1>. QED
  BY <1>1, <1>2 DEF Laid

(* Nothing is pending on empty stacks. *)
LEMMA NoStacks ==
    /\ <<>> \in Seq(Nat) /\ <<>> \in Seq(SUBSET Nat) /\ Len(<<>>) = 0 /\ Range(<<>>) = {}
    /\ Sequence(<<>>)
<1>1. <<>> \in Seq(Nat) /\ Len(<<>>) = 0 /\ Range(<<>>) = {}
  BY DEF Range
<1>2. <<>> \in Seq(SUBSET Nat)
  OBVIOUS
<1>. QED
  BY <1>1, <1>2, NoCode DEF Laid

(* A generator that has written nothing yet.                               *)
IsNew(h) ==
    /\ IsGenerator(h) /\ h.temporaries = <<>> /\ h.code = <<>>
    /\ h.ifs = <<>> /\ h.whiles = <<>> /\ h.fors = <<>> /\ h.breaks = <<>> /\ h.logic = <<>>
    /\ h.ternary_fail = <<>> /\ h.ternary_skip = <<>> /\ h.continues = <<>>

(* The generator a function begins with. *)
LEMMA News ==
    ASSUME NEW n
    PROVE  /\ IsNew([EmptyGenerator EXCEPT !.locals = n, !.max_locals = n])
           /\ [EmptyGenerator EXCEPT !.locals = n, !.max_locals = n].default_arguments = <<>>
BY DEF IsNew, IsGenerator, EmptyGenerator

(* A function begins with nothing pending. *)
LEMMA Begins ==
    ASSUME NEW h, IsNew(h), h.default_arguments = <<>>
    PROVE  Stands(h, Level, 0)
<1>1. Pending(h) = {} /\ Range(h.continues) = {} /\ Range(h.default_arguments) = {}
  <2>1. UNION Range(h.breaks) = {}
    BY NoStacks DEF IsNew
  <2>. QED
    BY <2>1, NoStacks DEF IsNew, Pending
<1>2. Typed(h)
  BY NoStacks DEF IsNew, Typed
<1>3. Sound(h)
  <2>1. SoundCode(<<>>, {0}, {}, {}, {})
    BY NoCode, NoStacks DEF SoundCode
  <2>2. h.code = <<>>
    BY DEF IsNew
  <2>. QED
    BY <1>1, <2>1, <2>2 DEF Sound, GoodCode
<1>4. Height(h) = Level /\ Len(h.logic) = 0
  BY NoStacks DEF Height, Level, IsNew
<1>. QED
  BY <1>2, <1>3, <1>4 DEF Stands

(* The jump to the defaults, and the place of the first. *)
LEMMA StartsParameters ==
    ASSUME NEW h, IsNew(h), h.default_arguments = <<>>, NEW n
    PROVE  /\ n = 0 => Stands(StartParameters(h, n), Level, 0)
           /\ n # 0 => Stands(StartParameters(h, n), Up(Level, "defaults", 1), 0)
<1>. DEFINE d == <<828>>
            i == Emit(h, d)
            k == [i EXCEPT !.default_arguments = <<Here(i)>>]
<1>1. IsNew(h) /\ h.default_arguments = <<>>
  OBVIOUS
<1>2. (n = 0 => StartParameters(h, n) = h) /\ (n # 0 => StartParameters(h, n) = k)
  BY Opcodes DEF StartParameters
<1>3. CASE n = 0
  BY <1>1, <1>2, <1>3, Begins
<1>4. CASE n # 0
  <2>1. IsInstruction(d) /\ Len(d) = 1 /\ d[1] = 828
    BY OneWord
  <2>2. /\ Sequence(<<>> \o d) /\ Len(<<>> \o d) = 1 /\ Len(<<>>) = 0
        /\ (<<>> \o d)[1] = 828
    <3>1. Sequence(<<>>) /\ Sequence(d)
      BY <2>1, NoStacks DEF IsInstruction
    <3>. HIDE DEF d
    <3>2. <<>> \o d = d
      <4>1. d \in Seq(Range(d))
        BY <3>1 DEF Sequence
      <4>. QED
        BY <4>1
    <3>. QED
      BY <2>1, <3>1, <3>2, NoStacks
  <2>. HIDE DEF d
  <2>3. /\ IsGenerator(i) /\ i.code = <<>> \o d /\ Stacks(i) = Stacks(h)
        /\ Targets(i) = Targets(h) /\ i.temporaries = h.temporaries
    <3>1. IsGenerator(h) /\ h.code = <<>>
      BY <1>1 DEF IsNew
    <3>. QED
      BY <3>1, Emits
  <2>4. Here(i) = 1
    BY <2>2, <2>3 DEF Here
  <2>. HIDE DEF i
  <2>5. k = [i EXCEPT !.default_arguments = <<1>>]
    BY <2>4
  <2>. HIDE DEF k
  <2>6. /\ IsGenerator(k) /\ k.code = <<>> \o d /\ k.temporaries = h.temporaries
        /\ Stacks(k) = Stacks(h) /\ k.continues = h.continues /\ k.default_arguments = <<1>>
    BY <2>3, <2>5 DEF IsGenerator, Stacks, Targets
  <2>7. /\ k.ifs = <<>> /\ k.whiles = <<>> /\ k.fors = <<>> /\ k.breaks = <<>> /\ k.logic = <<>>
        /\ k.ternary_fail = <<>> /\ k.ternary_skip = <<>> /\ k.continues = <<>>
        /\ k.temporaries = <<>>
    BY <1>1, <2>6 DEF Stacks, IsNew
  <2>8. <<1>> \in Seq(Nat) /\ Len(<<1>>) = 1 /\ Range(<<1>>) = {1}
    BY DEF Range
  <2>9. Pending(k) = {} /\ Range(k.continues) = {} /\ Range(k.default_arguments) = {1}
    <3>1. UNION Range(k.breaks) = {}
      BY <2>7, NoStacks
    <3>. QED
      BY <2>6, <2>7, <2>8, <3>1, NoStacks DEF Pending
  <2>10. Typed(k)
    BY <2>6, <2>7, <2>8, NoStacks DEF Typed
  <2>11. Sound(k)
    <3>. DEFINE e == <<>> \o d
                S == {0} \cup {Len(<<>>) + Len(d)}
    <3>1. d[1] \notin Jumping /\ Len(<<>>) + Len(d) - 1 \notin {}
      BY <2>1, OpcodeSets
    <3>2. Laid(e, S, {})
      <4>. DEFINE c == <<>>
                  P == {}
      <4>1. /\ Laid(c, {0}, P) /\ IsInstruction(d) /\ d[1] \notin Jumping
            /\ P \subseteq P /\ Len(c) + Len(d) - 1 \notin P
        BY <2>1, <3>1, NoCode
      <4>. HIDE DEF c, P
      <4>2. Laid(c \o d, {0} \cup {Len(c) + Len(d)}, P)
        BY <4>1, Appended
      <4>. QED
        BY <4>2 DEF c, P
    <3>3. 1 \in S /\ Len(e) = 1
      BY <2>1, <2>2
    <3>. HIDE DEF e, S
    <3>4. SoundCode(e, S, {}, {}, {1})
      BY <3>2, <3>3 DEF SoundCode
    <3>. QED
      BY <2>6, <2>9, <3>4 DEF Sound, GoodCode, e
  <2>12. Height(k) = Up(Level, "defaults", 1) /\ Len(k.logic) = 0
    <3>1. Height(k) = Heights(0, 0, 0, 0, 0, 0, 0, 0 + 1) /\ Len(k.logic) = 0
      BY <2>6, <2>7, <2>8, NoStacks DEF Height
    <3>. QED
      BY <3>1, RaisedDefaults DEF Level
  <2>13. Stands(k, Up(Level, "defaults", 1), 0)
    BY <2>10, <2>11, <2>12 DEF Stands
  <2>14. StartParameters(h, n) = k
    BY <1>2, <1>4
  <2>. QED
    BY <1>4, <2>13, <2>14
<1>. QED
  BY <1>3, <1>4

(* Behind each default value is the place of the next. *)
LEMMA AssignsDefault ==
    ASSUME NEW h0, NEW x, NEW l, Stands(h0, x, l), NEW a, NEW b
    PROVE  Stands(AssignDefaultParameter(h0, a, b), Up(x, "defaults", 1), l)
<1>. DEFINE h == WriteAssign(h0, a, b)
            n == Len(h.code)
            k == AssignDefaultParameter(h0, a, b)
<1>0. Stands(h, x, l)
  BY WritesAssign
<1>1. k = [h EXCEPT !.default_arguments = Append(@, n)]
  BY DEF AssignDefaultParameter, Here
<1>. HIDE DEF h
<1>2. Typed(h) /\ IsGenerator(h) /\ Sound(h)
  BY <1>0 DEF Stands, Typed
<1>. HIDE DEF k
<1>3. /\ IsGenerator(k) /\ k.code = h.code /\ k.temporaries = h.temporaries
      /\ Targets(k) = <<h.continues, Append(h.default_arguments, n)>>
      /\ Stacks(k) = Stacks(h)
  BY <1>1, <1>2 DEF IsGenerator, Targets, Stacks
<1>4. /\ k.ifs = h.ifs /\ k.whiles = h.whiles /\ k.fors = h.fors /\ k.breaks = h.breaks
      /\ k.logic = h.logic /\ k.ternary_fail = h.ternary_fail /\ k.ternary_skip = h.ternary_skip
      /\ k.continues = h.continues /\ k.default_arguments = Append(h.default_arguments, n)
  BY <1>3 DEF Targets, Stacks
<1>5. n \in Nat /\ GoodCode(h.code, Pending(h), Range(h.continues), Range(h.default_arguments) \cup {n})
  <2>1. GoodCode(h.code, Pending(h), Range(h.continues), Range(h.default_arguments))
    BY <1>2 DEF Sound
  <2>2. n = Len(h.code)
    OBVIOUS
  <2>. HIDE DEF n
  <2>. QED
    BY <2>1, <2>2, GoodPlace
<1>. HIDE DEF n
<1>6. /\ k.default_arguments \in Seq(Nat) /\ Len(k.default_arguments) = Len(h.default_arguments) + 1
      /\ Range(k.default_arguments) = Range(h.default_arguments) \cup {n}
  <2>1. h.default_arguments \in Seq(Nat)
    BY <1>2 DEF Typed
  <2>. QED
    BY <1>4, <1>5, <2>1, Pushed
<1>7. Pending(k) = Pending(h)
  BY <1>4 DEF Pending
<1>8. Sound(k)
  <2>1. /\ k.code = h.code /\ k.continues = h.continues
        /\ Range(k.default_arguments) = Range(h.default_arguments) \cup {n}
    BY <1>3, <1>4, <1>6
  <2>. QED
    BY <1>5, <1>7, <2>1 DEF Sound
<1>9. Typed(k)
  BY <1>2, <1>3, <1>4, <1>6 DEF Typed
<1>10. Height(k) = Up(x, "defaults", 1) /\ l = Len(k.logic)
  <2>1. /\ k.ifs = h.ifs /\ k.whiles = h.whiles /\ k.fors = h.fors /\ k.breaks = h.breaks
        /\ k.ternary_fail = h.ternary_fail /\ k.ternary_skip = h.ternary_skip
        /\ k.continues = h.continues /\ k.logic = h.logic
        /\ Len(k.default_arguments) = Len(h.default_arguments) + 1
    BY <1>4, <1>6
  <2>2. Height(k) = Up(Height(h), "defaults", 1)
    BY <2>1, RaisedDefaults DEF Height
  <2>3. x = Height(h) /\ l = Len(h.logic)
    BY <1>0 DEF Stands
  <2>. QED
    BY <2>1, <2>2, <2>3
<1>11. Stands(k, Up(x, "defaults", 1), l)
  BY <1>8, <1>9, <1>10 DEF Stands
<1>. QED
  BY <1>11 DEF k

(* A stack turned round has the same elements. *)
LEMMA Turned ==
    ASSUME NEW s \in Seq(Nat)
    PROVE  Reverse(s) \in Seq(Nat) /\ Len(Reverse(s)) = Len(s) /\ Range(Reverse(s)) = Range(s)
<1>. DEFINE n == Len(s)
            u == Reverse(s)
<1>1. n \in Nat /\ DOMAIN s = 1 .. n /\ \A i \in 1 .. n : s[i] \in Nat
  OBVIOUS
<1>2. u = [i \in 1 .. n |-> s[n - i + 1]]
  BY DEF Reverse
<1>. HIDE DEF u, n
<1>3. u \in [1 .. n -> Nat]
  <2>1. \A i \in 1 .. n : n - i + 1 \in 1 .. n
    BY <1>1
  <2>. QED
    BY <1>1, <1>2, <2>1
<1>4. u \in Seq(Nat) /\ Len(u) = n
  BY <1>1, <1>3, Listed
<1>5. DOMAIN u = 1 .. n /\ \A i \in 1 .. n : n - i + 1 \in 1 .. n /\ n - (n - i + 1) + 1 = i
  BY <1>1, <1>2
<1>6. \A i \in 1 .. n : u[i] = s[n - i + 1]
  BY <1>2
<1>7. \A i \in 1 .. n : s[i] = u[n - i + 1]
  BY <1>5, <1>6
<1>8. Range(u) = Range(s)
  <2>1. \A i \in 1 .. n : u[i] \in Range(s)
    BY <1>1, <1>5, <1>6 DEF Range
  <2>2. \A i \in 1 .. n : s[i] \in Range(u)
    BY <1>5, <1>7 DEF Range
  <2>. QED
    BY <1>1, <1>5, <2>1, <2>2 DEF Range
<1>. QED
  BY <1>4, <1>8 DEF u, n

(* The places of the defaults are turned round. *)
LEMMA EndsParameters ==
    ASSUME NEW h, NEW x, NEW l, Stands(h, x, l)
    PROVE  Stands(EndParameters(h), x, l)
<1>. DEFINE k == EndParameters(h)
            e == Reverse(h.default_arguments)
<1>1. Typed(h) /\ IsGenerator(h) /\ Sound(h)
  BY DEF Stands, Typed
<1>2. e \in Seq(Nat) /\ Len(e) = Len(h.default_arguments) /\ Range(e) = Range(h.default_arguments)
  BY <1>1, Turned DEF Typed
<1>3. k = [h EXCEPT !.default_arguments = e]
  BY DEF EndParameters
<1>. HIDE DEF k, e
<1>4. /\ IsGenerator(k) /\ k.code = h.code /\ k.temporaries = h.temporaries
      /\ Targets(k) = <<h.continues, e>> /\ Stacks(k) = Stacks(h)
  BY <1>1, <1>3 DEF IsGenerator, Targets, Stacks
<1>5. /\ k.ifs = h.ifs /\ k.whiles = h.whiles /\ k.fors = h.fors /\ k.breaks = h.breaks
      /\ k.logic = h.logic /\ k.ternary_fail = h.ternary_fail /\ k.ternary_skip = h.ternary_skip
      /\ k.continues = h.continues /\ k.default_arguments = e
  BY <1>4 DEF Targets, Stacks
<1>6. Pending(k) = Pending(h) /\ Height(k) = Height(h)
  BY <1>2, <1>5 DEF Pending, Height
<1>7. Sound(k)
  BY <1>1, <1>2, <1>4, <1>5, <1>6 DEF Sound
<1>8. Typed(k)
  BY <1>1, <1>2, <1>4, <1>5 DEF Typed
<1>9. Stands(k, x, l)
  BY <1>5, <1>6, <1>7, <1>8 DEF Stands
<1>. QED
  BY <1>9 DEF k

(* Finished code: S is where the machine may stand.                        *)
Runnable(c, S, b) ==
    /\ c[b + 1] \in Instructions
    /\ c[b + 1] \in Working => c[b + 2] \in Nat
    /\ c[b + 1] # 833 => Behind(c, b) \in S
    /\ c[b + 1] \in Jumping => c[Behind(c, b)] \in S

(* From every place in S the machine gets to places in S only. *)
Runs(c, S) == 0 \in S /\ S \subseteq Nat /\ \A b \in S : Runnable(c, S, b)

(* n is the number of places where a call may begin.                       *)
IsFunction(f, n) ==
    /\ 1 \in DOMAIN f.code
    /\ f.default_arguments \in Seq(Nat) /\ Len(f.default_arguments) = n
    /\ f.code[1] = 828 => n # 0
    /\ \E S : Runs(f.code, S) /\ Range(f.default_arguments) \subseteq S

(* What write_end makes of the words: only negative ones change.           *)
Placed(c, n) == [i \in DOMAIN c |-> IF c[i] < 0 THEN n - c[i] ELSE c[i]]

(* write_end changes no word that is not negative. *)
LEMMA PlacedIs ==
    ASSUME NEW c, NEW n, NEW i \in DOMAIN c, c[i] \in Nat
    PROVE  Placed(c, n)[i] = c[i]
BY DEF Placed

(* The last instruction, and the END behind it. *)
IsTail(d, z, o) == Sequence(d) /\ Len(d) = 2 /\ d[1] = o /\ Sequence(z) /\ Len(z) = 1

(* The words of code with its tail. *)
LEMMA Tailed ==
    ASSUME NEW c, Sequence(c), NEW d, NEW z, NEW o, IsTail(d, z, o)
    PROVE  /\ DOMAIN ((c \o d) \o z) = 1 .. Len(c) + 3 /\ Len(c) \in Nat
           /\ \A i \in 1 .. Len(c) : ((c \o d) \o z)[i] = c[i]
           /\ ((c \o d) \o z)[Len(c) + 1] = o
<1>. DEFINE f == c \o d
            e == f \o z
<1>1. /\ Sequence(f) /\ Len(f) = Len(c) + Len(d) /\ Len(c) \in Nat
      /\ \A i \in 1 .. Len(c) : f[i] = c[i]
      /\ \A i \in 1 .. Len(d) : f[Len(c) + i] = d[i]
  <2>1. Sequence(d)
    BY DEF IsTail
  <2>. QED
    BY <2>1, Joined
<1>. HIDE DEF f
<1>2. /\ Sequence(e) /\ Len(e) = Len(f) + Len(z) /\ \A i \in 1 .. Len(f) : e[i] = f[i]
  <2>1. Sequence(f) /\ Sequence(z)
    BY <1>1 DEF IsTail
  <2>. QED
    BY <2>1, Joined
<1>. HIDE DEF e
<1>3. Len(f) = Len(c) + 2 /\ Len(e) = Len(c) + 3
  BY <1>1, <1>2 DEF IsTail
<1>4. DOMAIN e = 1 .. Len(c) + 3
  <2>1. DOMAIN e = 1 .. Len(e)
    BY <1>2 DEF Sequence
  <2>. QED
    BY <1>3, <2>1
<1>5. \A i \in 1 .. Len(c) : i \in 1 .. Len(f)
  BY <1>1, <1>3
<1>6. e[Len(c) + 1] = o
  <2>1. f[Len(c) + 1] = o
    BY <1>1 DEF IsTail
  <2>2. Len(c) + 1 \in 1 .. Len(f)
    BY <1>1, <1>3
  <2>. QED
    BY <1>2, <2>1, <2>2
<1>. QED
  BY <1>1, <1>2, <1>4, <1>5, <1>6 DEF e, f

(* The tail of a function: RETURN and END. *)
LEMMA Tails ==
    ASSUME NEW a
    PROVE  /\ Sequence(<<833, a>>) /\ Len(<<833, a>>) = 2 /\ <<833, a>>[1] = 833
           /\ Sequence(<<834>>) /\ Len(<<834>>) = 1
<1>1. Sequence(<<833, a>>) /\ Len(<<833, a>>) = 2 /\ <<833, a>>[1] = 833
  BY TwoWords DEF IsPlain, IsInstruction
<1>2. <<834>> \in Seq({834}) /\ Len(<<834>>) = 1
  OBVIOUS
<1>. DEFINE z == <<834>>
<1>. HIDE DEF z
<1>3. Sequence(z)
  <2>1. z \in Seq({834})
    BY <1>2 DEF z
  <2>. QED
    BY <2>1, Elements
<1>. QED
  BY <1>1, <1>2, <1>3 DEF z

(* Code with nothing pending runs, once it returns at its end. *)
LEMMA Finished ==
    ASSUME NEW c, NEW C, NEW D, NEW S, SoundCode(c, S, {}, C, D), NEW a, NEW n
    PROVE  Runs(Placed((c \o <<833, a>>) \o <<834>>, n), S)
<1>. DEFINE d == <<833, a>>
            z == <<834>>
            e == (c \o d) \o z
            r == Placed(e, n)
<1>1. Sequence(d) /\ Len(d) = 2 /\ d[1] = 833 /\ Sequence(z) /\ Len(z) = 1
  BY Tails
<1>. HIDE DEF d, z
<1>3. /\ Sequence(c) /\ Len(c) \in Nat /\ S \subseteq 0 .. Len(c) /\ 0 \in S
      /\ \A b \in S \ {Len(c)} : IsLaid(c, S, {}, b)
  BY DEF SoundCode, Laid, Sequence
<1>6. /\ DOMAIN e = 1 .. Len(c) + 3 /\ \A i \in 1 .. Len(c) : e[i] = c[i]
      /\ e[Len(c) + 1] = 833
  <2>1. Sequence(c) /\ IsTail(d, z, 833)
    BY <1>1, <1>3 DEF IsTail
  <2>. QED
    BY <2>1, Tailed
<1>. HIDE DEF e, r
<1>7. \A i \in 1 .. Len(c) + 3 : e[i] \in Nat => r[i] = e[i]
  BY <1>6, PlacedIs DEF r
<1>8. ASSUME NEW b \in S, b # Len(c) PROVE Runnable(r, S, b)
  <2>1. IsLaid(c, S, {}, b) /\ b \in Nat /\ b < Len(c)
    BY <1>3, <1>8
  <2>2. /\ c[b + 1] \in Instructions /\ (c[b + 1] \in Working => c[b + 2] \in Nat)
        /\ Behind(c, b) \in S /\ (c[b + 1] \in Jumping => c[Behind(c, b)] \in S)
    BY <2>1 DEF IsLaid
  <2>3. /\ Width(c, b) \in Nat \ {0} /\ (c[b + 1] \in Jumping => Width(c, b) > 1)
        /\ (c[b + 1] \in Working => Width(c, b) > 4)
    BY <2>2, WidthIs
  <2>4. Behind(c, b) = b + Width(c, b) /\ Behind(c, b) \in 1 .. Len(c)
    BY <1>3, <2>1, <2>2, <2>3 DEF Behind
  <2>5. e[b + 1] = c[b + 1] /\ r[b + 1] = c[b + 1]
    <3>1. c[b + 1] \in Nat
      <4>1. \A o \in Instructions : o \in Nat
        BY OpcodeSets
      <4>. QED
        BY <2>2, <4>1
    <3>2. b + 1 \in 1 .. Len(c) /\ b + 1 \in 1 .. Len(c) + 3
      BY <2>1, <1>3
    <3>. QED
      BY <1>6, <1>7, <3>1, <3>2
  <2>6. ASSUME c[b + 1] \in Working PROVE r[b + 2] = c[b + 2]
    <3>1. c[b + 2] \in Nat /\ b + 2 \in 1 .. Len(c) /\ b + 2 \in 1 .. Len(c) + 3
      BY <1>3, <2>1, <2>2, <2>3, <2>4, <2>6
    <3>. QED
      BY <1>6, <1>7, <3>1
  <2>7. Width(r, b) = Width(c, b)
    BY <2>5, <2>6 DEF Width
  <2>8. ASSUME c[b + 1] \in Jumping PROVE r[Behind(c, b)] = c[Behind(c, b)]
    <3>. DEFINE p == Behind(c, b)
    <3>1. c[p] \in S /\ p \in 1 .. Len(c)
      BY <2>2, <2>4, <2>8
    <3>. HIDE DEF p
    <3>2. p \in 1 .. Len(c) + 3 /\ c[p] \in Nat
      <4>1. \A w \in S : w \in Nat
        BY <1>3
      <4>2. c[p] \in Nat
        BY <3>1, <4>1
      <4>. QED
        BY <1>3, <3>1, <4>2
    <3>3. r[p] = c[p]
      BY <1>6, <1>7, <3>1, <3>2
    <3>. QED
      BY <3>3 DEF p
  <2>9. Behind(r, b) = Behind(c, b)
    BY <2>7 DEF Behind
  <2>. QED
    BY <2>2, <2>5, <2>6, <2>8, <2>9 DEF Runnable
<1>9. ASSUME NEW b \in S, b = Len(c) PROVE Runnable(r, S, b)
  <2>1. r[b + 1] = 833
    BY <1>3, <1>6, <1>7, <1>9
  <2>. QED
    BY <2>1, OpcodeSets DEF Runnable
<1>10. Runs(r, S)
  BY <1>3, <1>8, <1>9 DEF Runs
<1>. QED
  BY <1>10 DEF r, e, d, z

(* A function with no block open ends as one that runs. *)
LEMMA Ends ==
    ASSUME NEW h, NEW n, Stands(h, Heights(0, 0, 0, 0, 0, 0, 0, n), 0)
    PROVE  IsFunction(WriteEnd(WriteReturn(h, ConstantNull)), n)
<1>. DEFINE d == <<833, Resolve(h, ConstantNull)>>
            z == <<834>>
            i == Emit(h, d)
            j == Emit(i, z)
            k == WriteEnd(WriteReturn(h, ConstantNull))
            D == Range(h.default_arguments)
<1>1. Typed(h) /\ IsGenerator(h) /\ Sound(h)
  BY DEF Stands, Typed
<1>2. /\ Len(h.ifs) = 0 /\ Len(h.whiles) = 0 /\ Len(h.fors) = 0 /\ Len(h.breaks) = 0
      /\ Len(h.ternary_fail) = 0 /\ Len(h.ternary_skip) = 0 /\ Len(h.logic) = 0
      /\ Len(h.default_arguments) = n
  BY HeightIs DEF Heights
<1>3. Pending(h) = {}
  <2>1. \A s \in Seq(Nat) : Len(s) = 0 => Range(s) = {}
    BY DEF Range
  <2>2. Range(h.breaks) = {}
    <3>1. h.breaks \in Seq(SUBSET Nat)
      BY <1>1 DEF Typed
    <3>2. DOMAIN h.breaks = 1 .. 0
      BY <1>2, <3>1
    <3>. QED
      BY <3>2 DEF Range
  <2>3. /\ Range(h.ifs) = {} /\ Range(h.whiles) = {} /\ Range(h.fors) = {}
        /\ Range(h.ternary_fail) = {} /\ Range(h.ternary_skip) = {} /\ Range(h.logic) = {}
    BY <1>1, <1>2, <2>1 DEF Typed
  <2>. QED
    BY <2>2, <2>3 DEF Pending
<1>4. PICK S : SoundCode(h.code, S, {}, Range(h.continues), D)
  BY <1>1, <1>3 DEF Sound, GoodCode
<1>5. WriteReturn(h, ConstantNull) = i
  BY Opcodes DEF WriteReturn
<1>. HIDE DEF d
<1>6. IsGenerator(i) /\ i.code = h.code \o d /\ Targets(i) = Targets(h)
  BY <1>1, Emits
<1>. HIDE DEF i, z
<1>7. IsGenerator(j) /\ j.code = i.code \o z /\ Targets(j) = Targets(i)
  BY <1>6, Emits
<1>8. j.default_arguments = h.default_arguments /\ j.code = (h.code \o d) \o z
  BY <1>6, <1>7 DEF Targets
<1>9. PICK top : k.code = Placed(j.code, top)
  <2>1. Emit(WriteReturn(h, ConstantNull), <<Opcode.END>>) = j
    BY <1>5, Opcodes DEF z
  <2>. DEFINE u == FirstSlot + j.max_locals
  <2>2. k.code = [m \in DOMAIN j.code |-> IF j.code[m] < 0 THEN u - 1 - j.code[m] ELSE j.code[m]]
    BY <2>1, Zenon DEF WriteEnd
  <2>. HIDE DEF k
  <2>3. k.code = Placed(j.code, u - 1)
    BY <2>2, Zenon DEF Placed
  <2>. HIDE DEF u
  <2>. QED
    BY <2>3
<1>10. k.default_arguments = h.default_arguments
  BY <1>5, <1>8, Opcodes DEF WriteEnd, z
<1>. HIDE DEF k, j
<1>11. Runs(k.code, S)
  BY <1>4, <1>8, <1>9, Finished DEF d, z
<1>12. D \subseteq S
  BY <1>4 DEF SoundCode
<1>13. k.code[1] = 828 => n # 0
  <2>1. SUFFICES ASSUME k.code[1] = 828, n = 0 PROVE FALSE
    OBVIOUS
  <2>2. D = {}
    BY <1>1, <1>2, <2>1 DEF Typed, Range
  <2>3. Sequence(h.code) /\ Len(h.code) \in Nat /\ 0 \in S
    BY <1>4 DEF SoundCode, Laid, Sequence
  <2>4. /\ DOMAIN j.code = 1 .. Len(h.code) + 3
        /\ \A m \in 1 .. Len(h.code) : j.code[m] = h.code[m]
        /\ j.code[Len(h.code) + 1] = 833
    <3>1. IsTail(d, z, 833) /\ Sequence(h.code)
      BY <2>3, Tails DEF d, z, IsTail
    <3>2. /\ DOMAIN ((h.code \o d) \o z) = 1 .. Len(h.code) + 3
          /\ \A m \in 1 .. Len(h.code) : ((h.code \o d) \o z)[m] = h.code[m]
          /\ ((h.code \o d) \o z)[Len(h.code) + 1] = 833
      BY <3>1, Tailed
    <3>. QED
      BY <1>8, <3>2
  <2>8. 1 \in DOMAIN j.code
    BY <2>3, <2>4
  <2>9. CASE Len(h.code) = 0
    <3>1. j.code[1] = 833
      BY <2>4, <2>9
    <3>. QED
      BY <1>9, <2>1, <2>8, <3>1, PlacedIs
  <2>10. CASE Len(h.code) # 0
    <3>1. j.code[1] = h.code[1] /\ 0 \in S \ {Len(h.code)} /\ 0 + 1 = 1
      BY <2>3, <2>4, <2>10
    <3>2. h.code[0 + 1] # 828
      BY <1>4, <2>2, <3>1 DEF SoundCode
    <3>3. h.code[0 + 1] \in Nat
      <4>1. \A o \in Instructions : o \in Nat
        BY OpcodeSets
      <4>2. h.code[0 + 1] \in Instructions
        BY <1>4, <3>1 DEF SoundCode, Laid, IsLaid
      <4>. QED
        BY <4>1, <4>2
    <3>. QED
      BY <1>9, <2>1, <2>8, <3>1, <3>2, <3>3, PlacedIs
  <2>. QED
    BY <2>9, <2>10
<1>14. h.default_arguments \in Seq(Nat)
  BY <1>1 DEF Typed
<1>16. 1 \in DOMAIN k.code
  <2>1. Sequence(h.code) /\ Len(h.code) \in Nat
    BY <1>4 DEF SoundCode, Laid, Sequence
  <2>2. IsTail(d, z, 833)
    BY Tails DEF d, z, IsTail
  <2>3. DOMAIN j.code = 1 .. Len(h.code) + 3
    BY <1>8, <2>1, <2>2, Tailed
  <2>. QED
    BY <1>9, <2>1, <2>3 DEF Placed
<1>15. IsFunction(k, n)
  BY <1>2, <1>16, <1>10, <1>11, <1>12, <1>13, <1>14 DEF IsFunction
<1>. QED
  BY <1>15 DEF k

-----------------------------------------------------------------------------
(* Loops of the lowering: what the k-th turn of each makes of v.           *)

(* What the k-th alternative of an arm is matched as.                      *)
Tried(c, k) == [c EXCEPT !.first = (k = 1)]

(* The loops of the lowering by name: temporaries taken and cleared,       *)
(* locals cleared, calls, default values, elements of containers,          *)
(* alternatives, slots recorded, arms of a match closed, blocks a jump     *)
(* leaves.                                                                 *)
Turn(loop, a, b, c, k, v) ==
    CASE loop = "temporaries" -> AddTemporary(v, a[k])
      [] loop = "clear" ->
            IF k \notin a.pending_clear THEN v ELSE Emit(v, <<ClearOf(a.temporaries[k]), 0 - k>>)
      [] loop = "locals" -> IF ~CanHoldAReference(a[k].carrier) THEN v ELSE ClearLocal(v, a[k])
      [] loop = "calls" -> Call(v, "any")
      [] loop = "defaults" ->
            PopTemporary(AssignDefaultParameter(Call(v, "any"), a[k].slot, Newest(1)))
      [] loop = "leaves" ->
            CloseElement(LeafPattern(OpenElement(v, a.kind, b, c), a.of[k], c), a.kind, c)
      [] loop = "flat" ->
            CloseElement(FlatPattern(OpenElement(v, a.kind, b, c), a.of[k], c), a.kind, c)
      [] loop = "alternatives" -> Pattern(v, Patterns[a][k], Tried(c, k))
      [] loop = "record" ->
            IF \/ ~CanHoldAReference(a[k].carrier)
               \/ \E l \in ToSet(v) : l.slot = a[k].slot
            THEN v ELSE Append(v, a[k])
      [] loop = "arms" -> WriteEndIf(v)
      [] loop = "jump" -> IF k < a THEN v ELSE ClearBlockLocals(v, b[k].locals)

(* A function that goes round n times, and there is one. *)
IsTurning(f, loop, a, b, c, v, n) ==
    f = [k \in 0 .. n |-> IF k = 0 THEN v ELSE Turn(loop, a, b, c, k, f[k - 1])]

(* A function that goes round n times exists. *)
LEMMA Turns ==
    ASSUME NEW loop, NEW a, NEW b, NEW c, NEW v, NEW n \in Nat
    PROVE  \E f : IsTurning(f, loop, a, b, c, v, n)
<1>. DEFINE Is(f, m) == IsTurning(f, loop, a, b, c, v, m)
            P == [m \in 0 .. n |-> \E f : Is(f, m)]
<1>1. P[0]
  <2>. DEFINE f == [k \in 0 .. 0 |-> v]
  <2>1. f = [k \in 0 .. 0 |-> IF k = 0 THEN v ELSE Turn(loop, a, b, c, k, f[k - 1])]
    OBVIOUS
  <2>2. Is(f, 0)
    BY <2>1, Zenon DEF IsTurning
  <2>. HIDE DEF Is, f
  <2>3. \E e : Is(e, 0)
    BY <2>2
  <2>. QED
    BY <2>3
<1>2. ASSUME NEW i \in 1 .. n, P[i - 1] PROVE P[i]
  <2>1. PICK f : Is(f, i - 1)
    <3>. HIDE DEF Is
    <3>1. i - 1 \in 0 .. n
      OBVIOUS
    <3>. QED
      BY <1>2, <3>1
  <2>. DEFINE e == [k \in 0 .. i |-> IF k = i THEN Turn(loop, a, b, c, i, f[i - 1]) ELSE f[k]]
  <2>2. \A k \in 0 .. i - 1 : e[k] = f[k]
    OBVIOUS
  <2>3. \A k \in 0 .. i - 1 : f[k] = IF k = 0 THEN v ELSE Turn(loop, a, b, c, k, f[k - 1])
    BY <2>1 DEF IsTurning
  <2>4. ASSUME NEW k \in 0 .. i
        PROVE  e[k] = IF k = 0 THEN v ELSE Turn(loop, a, b, c, k, e[k - 1])
    <3>1. CASE k = i
      <4>1. e[k - 1] = f[k - 1] /\ k # 0
        BY <2>2, <3>1
      <4>2. e[k] = Turn(loop, a, b, c, k, f[k - 1])
        BY <3>1
      <4>. QED
        BY <4>1, <4>2
    <3>2. CASE k # i /\ k # 0
      <4>1. e[k] = f[k] /\ e[k - 1] = f[k - 1] /\ k \in 0 .. i - 1
        BY <2>2, <3>2
      <4>. QED
        BY <2>3, <3>2, <4>1
    <3>3. CASE k # i /\ k = 0
      <4>1. e[k] = f[k] /\ k \in 0 .. i - 1
        BY <2>2, <3>3
      <4>. QED
        BY <2>3, <3>3, <4>1
    <3>. QED
      BY <3>1, <3>2, <3>3
  <2>5. DOMAIN e = 0 .. i /\ e = [k \in DOMAIN e |-> e[k]]
    OBVIOUS
  <2>. HIDE DEF e
  <2>6. e = [k \in 0 .. i |-> IF k = 0 THEN v ELSE Turn(loop, a, b, c, k, e[k - 1])]
    BY <2>4, <2>5
  <2>7. Is(e, i)
    BY <2>6, Zenon DEF IsTurning
  <2>. HIDE DEF Is
  <2>8. \E q : Is(q, i)
    BY <2>7
  <2>. QED
    BY <2>8
<1>. HIDE DEF Is, P
<1>3. P[n]
  BY <1>1, <1>2, Loop
<1>4. \E f : Is(f, n)
  BY <1>3 DEF P
<1>. QED
  BY <1>4 DEF Is

(* What every turn preserves, the loop does. *)
LEMMA TurnsStand ==
    ASSUME NEW loop, NEW a, NEW b, NEW c, NEW v, NEW n \in Nat, NEW f, IsTurning(f, loop, a, b, c, v, n),
           NEW x, NEW l, Stands(v, x, l),
           \A k \in 1 .. n : \A e : Stands(e, x, l) => Stands(Turn(loop, a, b, c, k, e), x, l)
    PROVE  Stands(f[n], x, l)
<1>. DEFINE P == [k \in 0 .. n |-> Stands(f[k], x, l)]
<1>1. \A k \in 0 .. n : f[k] = IF k = 0 THEN v ELSE Turn(loop, a, b, c, k, f[k - 1])
  BY DEF IsTurning
<1>2. P[0]
  <2>1. f[0] = v
    BY <1>1
  <2>. QED
    BY <2>1
<1>3. ASSUME NEW i \in 1 .. n, P[i - 1] PROVE P[i]
  <2>1. i - 1 \in 0 .. n /\ i \in 0 .. n /\ i # 0
    OBVIOUS
  <2>2. Stands(f[i - 1], x, l)
    BY <1>3, <2>1
  <2>3. f[i] = Turn(loop, a, b, c, i, f[i - 1])
    BY <1>1, <2>1
  <2>4. Stands(f[i], x, l)
    BY <2>2, <2>3
  <2>. QED
    BY <2>1, <2>4
<1>. HIDE DEF P
<1>4. P[n]
  BY <1>2, <1>3, Loop
<1>. QED
  BY <1>4 DEF P

(* A call. *)
LEMMA CallStands ==
    ASSUME NEW h, NEW x, NEW l, Stands(h, x, l), NEW carrier
    PROVE  Stands(Call(h, carrier), x, l)
<1>. DEFINE k == AddTemporary(h, carrier)
            none == <<>>
<1>1. Stands(k, x, l)
  BY AddsTemporary
<1>2. 802 \in Working /\ Len(none) \in Nat
  BY OpcodeSets
<1>3. Call(h, carrier) = Operate(k, 802, none, Newest(1))
  BY Opcodes DEF Call, WriteCall
<1>. HIDE DEF k, none
<1>. QED
  BY <1>1, <1>2, <1>3, Operates

(* Calls one after the other. *)
LEMMA CallsStand ==
    ASSUME NEW h, NEW x, NEW l, Stands(h, x, l), NEW n \in Nat
    PROVE  Stands(Calls(h, n), x, l)
<1>. DEFINE called[k \in 0 .. n] == IF k = 0 THEN h ELSE Call(called[k - 1], "any")
<1>1. \A k, v : Turn("calls", h, h, h, k, v) = Call(v, "any")
  BY DEF Turn
<1>2. IsTurning(called, "calls", h, h, h, h, n)
  <2>1. PICK f : IsTurning(f, "calls", h, h, h, h, n)
    <3>. HIDE DEF called
    <3>. QED
      BY Turns
  <2>2. f = [k \in 0 .. n |-> IF k = 0 THEN h ELSE Call(f[k - 1], "any")]
    <3>. HIDE DEF called
    <3>. QED
      BY <1>1, <2>1 DEF IsTurning
  <2>3. called = [k \in 0 .. n |-> IF k = 0 THEN h ELSE Call(called[k - 1], "any")]
    BY <2>2
  <2>. HIDE DEF called
  <2>. QED
    BY <1>1, <2>3 DEF IsTurning
<1>3. Calls(h, n) = called[n]
  BY DEF Calls
<1>. HIDE DEF called
<1>4. \A k \in 1 .. n : \A e : Stands(e, x, l) => Stands(Turn("calls", h, h, h, k, e), x, l)
  BY <1>1, CallStands
<1>. QED
  BY <1>2, <1>3, <1>4, TurnsStand

-----------------------------------------------------------------------------
(* Expressions: every form leaves the stacks as high as they were.         *)

(* The number of pending jumps of "and" and "or" is one. *)
LEMMA Levels ==
    ASSUME NEW h, NEW x, NEW l, Stands(h, x, l)
    PROVE  l \in Nat
<1>1. h.logic \in Seq(Nat) /\ l = Len(h.logic)
  BY HeightIs DEF Stands, Typed
<1>. QED
  BY <1>1

(* A stack that is pushed and popped is as high as before. *)
LEMMA UpAndDown ==
    ASSUME NEW h, NEW x, NEW l, Stands(h, x, l), NEW n \in Nat
    PROVE  /\ Up(Up(x, "ifs", n), "ifs", -n) = x
           /\ Up(Up(x, "fail", n), "fail", -n) = x
           /\ Up(Up(x, "skip", n), "skip", -n) = x
           /\ Up(x, "ifs", n).ifs \in Nat /\ Up(x, "ifs", n).ifs >= n
           /\ Up(x, "fail", n).fail >= n /\ Up(x, "skip", n).skip >= n
<1>. DEFINE i == Len(h.ifs)
            w == Len(h.whiles)
            f == Len(h.fors)
            b == Len(h.breaks)
            c == Len(h.continues)
            a == Len(h.ternary_fail)
            s == Len(h.ternary_skip)
            d == Len(h.default_arguments)
<1>1. i \in Nat /\ a \in Nat /\ s \in Nat /\ x = Heights(i, w, f, b, c, a, s, d)
  <2>1. i \in Nat /\ a \in Nat /\ s \in Nat
    BY DEF Stands, Typed
  <2>2. x = Height(h)
    BY DEF Stands
  <2>. QED
    BY <2>1, <2>2 DEF Height
<1>. HIDE DEF i, w, f, b, c, a, s, d
<1>2. i + n + (-n) = i /\ a + n + (-n) = a /\ s + n + (-n) = s
      /\ i + n \in Nat /\ i + n >= n /\ a + n >= n /\ s + n >= n
  BY <1>1
<1>3. /\ Up(x, "ifs", n) = Heights(i + n, w, f, b, c, a, s, d)
      /\ Up(x, "fail", n) = Heights(i, w, f, b, c, a + n, s, d)
      /\ Up(x, "skip", n) = Heights(i, w, f, b, c, a, s + n, d)
  BY <1>1, Raised
<1>4. /\ Up(Up(x, "ifs", n), "ifs", -n) = Heights(i + n + (-n), w, f, b, c, a, s, d)
      /\ Up(Up(x, "fail", n), "fail", -n) = Heights(i, w, f, b, c, a + n + (-n), s, d)
      /\ Up(Up(x, "skip", n), "skip", -n) = Heights(i, w, f, b, c, a, s + n + (-n), d)
  BY <1>3, Raised
<1>5. /\ Up(x, "ifs", n).ifs = i + n /\ Up(x, "fail", n).fail = a + n /\ Up(x, "skip", n).skip = s + n
  BY <1>3 DEF Heights
<1>. QED
  BY <1>1, <1>2, <1>4, <1>5

(* An instruction without operands in its list. *)
LEMMA OperatesOnNone ==
    ASSUME NEW h, NEW x, NEW l, Stands(h, x, l), NEW o \in Working, NEW a
    PROVE  Stands(Operate(h, o, <<>>, a), x, l)
<1>. DEFINE none == <<>>
<1>1. Len(none) \in Nat
  OBVIOUS
<1>. HIDE DEF none
<1>2. Stands(Operate(h, o, none, a), x, l)
  BY <1>1, Operates
<1>. QED
  BY <1>2 DEF none

(* With one. *)
LEMMA OperatesOnOne ==
    ASSUME NEW h, NEW x, NEW l, Stands(h, x, l), NEW o \in Working, NEW a, NEW b
    PROVE  Stands(Operate(h, o, <<b>>, a), x, l)
<1>. DEFINE one == <<b>>
<1>1. Len(one) \in Nat
  OBVIOUS
<1>. HIDE DEF one
<1>2. Stands(Operate(h, o, one, a), x, l)
  BY <1>1, Operates
<1>. QED
  BY <1>2 DEF one

(* With two. *)
LEMMA OperatesOnTwo ==
    ASSUME NEW h, NEW x, NEW l, Stands(h, x, l), NEW o \in Working, NEW a, NEW b, NEW c
    PROVE  Stands(Operate(h, o, <<b, c>>, a), x, l)
<1>. DEFINE two == <<b, c>>
<1>1. Len(two) \in Nat
  OBVIOUS
<1>. HIDE DEF two
<1>2. Stands(Operate(h, o, two, a), x, l)
  BY <1>1, Operates
<1>. QED
  BY <1>2 DEF two

(* With three. *)
LEMMA OperatesOnThree ==
    ASSUME NEW h, NEW x, NEW l, Stands(h, x, l), NEW o \in Working, NEW a, NEW b, NEW c, NEW d
    PROVE  Stands(Operate(h, o, <<b, c, d>>, a), x, l)
<1>. DEFINE three == <<b, c, d>>
<1>1. Len(three) \in Nat
  OBVIOUS
<1>. HIDE DEF three
<1>2. Stands(Operate(h, o, three, a), x, l)
  BY <1>1, Operates
<1>. QED
  BY <1>2 DEF three

(* The instructions that read, write and call.                             *)
LEMMA Reads ==
    ASSUME NEW h, NEW x, NEW l, Stands(h, x, l), NEW a, NEW b, NEW c
    PROVE  /\ Stands(WriteCall(h, <<>>, a), x, l) /\ Stands(WriteCall(h, <<b>>, a), x, l)
           /\ Stands(WriteCall(h, <<b, c>>, a), x, l)
           /\ Stands(WriteOperator(h, <<b>>, a), x, l) /\ Stands(WriteOperator(h, <<b, c>>, a), x, l)
           /\ Stands(WriteConvert(h, a, b), x, l) /\ Stands(WriteGet(h, a, b, c), x, l)
           /\ Stands(WriteSet(h, a, b, c), x, l) /\ Stands(WriteGetNamed(h, a, b), x, l)
           /\ Stands(WriteSetNamed(h, a, b), x, l) /\ Stands(WriteGetMember(h, a), x, l)
           /\ Stands(WriteSetMember(h, a), x, l) /\ Stands(WriteGetStatic(h, a), x, l)
           /\ Stands(WriteSetStatic(h, a), x, l)
           /\ Stands(Operate(h, Opcode.TYPE_TEST, <<b>>, a), x, l)
           /\ Stands(Operate(h, Opcode.GET_KEYED, <<b>>, a), x, l)
<1>1. /\ 802 \in Working /\ 803 \in Working /\ 804 \in Working /\ 807 \in Working /\ 808 \in Working
      /\ 809 \in Working /\ 810 \in Working /\ 811 \in Working /\ 812 \in Working
      /\ 813 \in Working /\ 814 \in Working /\ 815 \in Working
  BY OpcodeSets
<1>2. \A o \in Working : Stands(Operate(h, o, <<>>, a), x, l)
  BY OperatesOnNone
<1>2a. \A o \in Working : Stands(Operate(h, o, <<b>>, a), x, l)
  BY OperatesOnOne
<1>3. \A o \in Working : Stands(Operate(h, o, <<b, c>>, a), x, l)
  BY OperatesOnTwo
<1>4. Stands(WriteCall(h, <<>>, a), x, l)
  BY <1>1, <1>2, Opcodes DEF WriteCall
<1>4a. Stands(WriteCall(h, <<b>>, a), x, l)
  BY <1>1, <1>2a, Opcodes DEF WriteCall
<1>5. Stands(WriteCall(h, <<b, c>>, a), x, l) /\ Stands(WriteOperator(h, <<b, c>>, a), x, l)
  BY <1>1, <1>3, Opcodes DEF WriteCall, WriteOperator
<1>6. Stands(WriteOperator(h, <<b>>, a), x, l) /\ Stands(WriteConvert(h, a, b), x, l)
  BY <1>1, <1>2a, Opcodes DEF WriteOperator, WriteConvert
<1>7. Stands(WriteGet(h, a, b, c), x, l)
  BY <1>1, OperatesOnTwo, Opcodes DEF WriteGet
<1>8. Stands(WriteSet(h, a, b, c), x, l)
  BY <1>1, OperatesOnThree, Opcodes DEF WriteSet
<1>9. Stands(WriteGetNamed(h, a, b), x, l)
  BY <1>1, <1>2a, Opcodes DEF WriteGetNamed
<1>9a. Stands(WriteGetMember(h, a), x, l)
  BY <1>1, <1>2, Opcodes DEF WriteGetMember
<1>10. Stands(WriteSetNamed(h, a, b), x, l)
  BY <1>1, OperatesOnTwo, Opcodes DEF WriteSetNamed
<1>11. Stands(WriteSetMember(h, a), x, l) /\ Stands(WriteSetStatic(h, a), x, l)
  BY <1>1, OperatesOnOne, Opcodes DEF WriteSetMember, WriteSetStatic
<1>12. Stands(WriteGetStatic(h, a), x, l)
  BY <1>1, <1>2, Opcodes DEF WriteGetStatic
<1>13. /\ Stands(Operate(h, Opcode.TYPE_TEST, <<b>>, a), x, l)
       /\ Stands(Operate(h, Opcode.GET_KEYED, <<b>>, a), x, l)
  BY <1>1, <1>2a, Opcodes
<1>. QED
  BY <1>4, <1>4a, <1>5, <1>6, <1>7, <1>8, <1>9, <1>9a, <1>10, <1>11, <1>12, <1>13

(* and, or: two jumps are pending behind the second operand.               *)
LEMMA LogicOperandStands ==
    ASSUME NEW h, NEW x, NEW l, Stands(h, x, l), NEW o \in {826, 827}
    PROVE  Stands(LogicOperand(h, o), x, l + 1)
<1>1. Stands(Call(h, "any"), x, l)
  BY CallStands
<1>. QED
  BY <1>1, WritesOperand DEF LogicOperand

(* The end of an "and" or an "or". *)
LEMMA EndsLogic ==
    ASSUME NEW h, NEW x, NEW l \in Nat, Stands(h, x, l + 2), NEW a
    PROVE  Stands(WriteEndAnd(h, a), x, l) /\ Stands(WriteEndOr(h, a), x, l)
<1>1. l + 2 >= 2 /\ l + 2 - 2 = l
  OBVIOUS
<1>. QED
  BY <1>1, WritesEndAndOr

(* "and" and "or": two jumps, both told. *)
LEMMA AndStands ==
    ASSUME NEW h, NEW x, NEW l, Stands(h, x, l)
    PROVE  Stands(And(h), x, l) /\ Stands(Or(h), x, l)
<1>1. l \in Nat /\ l + 1 + 1 = l + 2
  BY Levels
<1>2. ASSUME NEW o \in {826, 827} PROVE Stands(LogicOperand(LogicOperand(h, o), o), x, l + 2)
  <2>1. Stands(LogicOperand(h, o), x, l + 1)
    BY LogicOperandStands
  <2>2. Stands(LogicOperand(LogicOperand(h, o), o), x, l + 1 + 1)
    BY <2>1, LogicOperandStands
  <2>. QED
    BY <1>1, <2>2
<1>3. /\ Stands(WriteEndAnd(LogicOperand(LogicOperand(h, 827), 827), Newest(3)), x, l)
      /\ Stands(WriteEndOr(LogicOperand(LogicOperand(h, 826), 826), Newest(3)), x, l)
  BY <1>1, <1>2, EndsLogic
<1>. QED
  BY <1>3, PopsTemporaries, Opcodes DEF And, Or

(* A conditional expression: two jumps, both told. *)
LEMMA TernaryStands ==
    ASSUME NEW h, NEW x, NEW l, Stands(h, x, l)
    PROVE  Stands(Ternary(h), x, l)
<1>. DEFINE y == Up(x, "fail", 1)
            z == Up(x, "skip", 1)
            i == Call(h, "any")
            j == WriteTernaryCondition(i, Newest(1))
            k == Call(PopTemporary(j), "any")
            m == WriteTernaryTrue(k, Newest(2), Newest(1))
            q == Call(PopTemporary(m), "any")
            r == WriteTernaryFalse(q, Newest(2), Newest(1))
<1>0. Ternary(h) = PopTemporary(r)
  BY DEF Ternary
<1>1. y.fail > 0 /\ z.skip > 0 /\ Up(y, "fail", -1) = x /\ Up(z, "skip", -1) = x
  <2>1. /\ Up(Up(x, "fail", 1), "fail", -1) = x /\ Up(Up(x, "skip", 1), "skip", -1) = x
        /\ Up(x, "fail", 1).fail >= 1 /\ Up(x, "skip", 1).skip >= 1
    BY UpAndDown
  <2>2. y.fail \in Int /\ z.skip \in Int
    <3>1. y.fail = Len(h.ternary_fail) + 1 /\ z.skip = Len(h.ternary_skip) + 1
      <4>1. x = Height(h)
        BY DEF Stands
      <4>. QED
        BY <4>1 DEF Height, Heights, Up
    <3>2. Len(h.ternary_fail) \in Nat /\ Len(h.ternary_skip) \in Nat
      BY DEF Stands, Typed
    <3>. QED
      BY <3>1, <3>2
  <2>. QED
    BY <2>1, <2>2
<1>2. Stands(j, y, l)
  <2>1. Stands(i, x, l)
    BY CallStands
  <2>. HIDE DEF i
  <2>. QED
    BY <2>1, WritesTernaryCondition
<1>. HIDE DEF j
<1>3. Stands(k, y, l)
  <2>1. Stands(PopTemporary(j), y, l)
    BY <1>2, PopsTemporary
  <2>. QED
    BY <2>1, CallStands
<1>. HIDE DEF k
<1>4. Stands(m, z, l)
  <2>. HIDE DEF y
  <2>1. Stands(WriteTernaryTrue(k, Newest(2), Newest(1)), Up(Up(y, "fail", -1), "skip", 1), l)
    BY <1>1, <1>3, WritesTernaryTrue
  <2>. QED
    BY <1>1, <2>1
<1>. HIDE DEF m
<1>5. Stands(q, z, l)
  <2>1. Stands(PopTemporary(m), z, l)
    BY <1>4, PopsTemporary
  <2>. QED
    BY <2>1, CallStands
<1>. HIDE DEF q
<1>6. Stands(r, x, l)
  <2>. HIDE DEF z
  <2>1. Stands(WriteTernaryFalse(q, Newest(2), Newest(1)), Up(z, "skip", -1), l)
    BY <1>1, <1>5, WritesTernaryFalse
  <2>. QED
    BY <1>1, <2>1
<1>. HIDE DEF r
<1>7. Stands(PopTemporary(r), x, l)
  BY <1>6, PopsTemporary
<1>. QED
  BY <1>0, <1>7

(* An operation on values of calls. *)
LEMMA OperationStands ==
    ASSUME NEW h, NEW x, NEW l, Stands(h, x, l), NEW o \in Working, NEW n \in Nat
    PROVE  Stands(Operation(h, o, n), x, l)
<1>. DEFINE operands == [i \in 1 .. n |-> Newest(n + 1 - i)]
            i == Calls(h, n)
            j == Operate(i, o, operands, Newest(n + 1))
<1>1. Stands(i, x, l)
  BY CallsStand
<1>2. Len(operands) \in Nat
  <2>1. operands \in [1 .. n -> {Newest(n + 1 - m) : m \in 1 .. n}]
    OBVIOUS
  <2>. HIDE DEF operands
  <2>. DEFINE T == {Newest(n + 1 - m) : m \in 1 .. n}
  <2>. HIDE DEF T
  <2>2. operands \in [1 .. n -> T]
    BY <2>1 DEF T
  <2>. QED
    BY <2>2, Listed
<1>3. Operation(h, o, n) = PopTemporaries(j, n)
  BY DEF Operation
<1>. HIDE DEF i, operands
<1>4. Stands(j, x, l)
  BY <1>1, <1>2, Operates
<1>. HIDE DEF j
<1>5. Stands(PopTemporaries(j, n), x, l)
  BY <1>4, PopsTemporaries
<1>. QED
  BY <1>3, <1>5

(* The operations, literals and accesses. *)
LEMMA OperationsStand ==
    ASSUME NEW h, NEW x, NEW l, Stands(h, x, l)
    PROVE  /\ Stands(UnaryOperator(h), x, l) /\ Stands(BinaryOperator(h), x, l)
           /\ Stands(ArrayLiteral(h), x, l) /\ Stands(DictionaryLiteral(h), x, l)
           /\ Stands(TypeTest(h), x, l) /\ Stands(CastTo(h), x, l)
           /\ Stands(Attribute(h), x, l) /\ Stands(Subscript(h), x, l)
<1>1. /\ Opcode.OPERATOR \in Working /\ Opcode.CONSTRUCT \in Working /\ Opcode.TYPE_TEST \in Working
      /\ Opcode.CAST \in Working /\ Opcode.GET_NAMED \in Working /\ Opcode.GET_KEYED \in Working
  BY OpcodeSets, Opcodes
<1>2. \A o \in Working : Stands(Operation(h, o, 1), x, l) /\ Stands(Operation(h, o, 2), x, l)
  BY OperationStands
<1>. QED
  BY <1>1, <1>2 DEF UnaryOperator, BinaryOperator, ArrayLiteral, DictionaryLiteral, TypeTest,
                   CastTo, Attribute, Subscript

(* A value converted to the type wanted. *)
LEMMA ConvertedStands ==
    ASSUME NEW h, NEW x, NEW l, Stands(h, x, l)
    PROVE  Stands(Converted(h), x, l)
<1>1. Stands(AddTemporary(h, "any"), x, l)
  BY AddsTemporary
<1>. QED
  BY <1>1, Reads DEF Converted

(* The arguments of a call. *)
LEMMA CallArgumentsStand ==
    ASSUME NEW h, NEW x, NEW l, Stands(h, x, l), NEW expr \in CallForms
    PROVE  /\ Stands(CallArguments(h, expr).g, x, l)
           /\ Len(CallArguments(h, expr).addresses) \in Nat
<1>1. Stands(Calls(h, 2), x, l) /\ Stands(Call(h, "any"), x, l)
  BY CallsStand, CallStands
<1>2. Stands(Converted(Calls(h, 2)), x, l)
  BY <1>1, ConvertedStands
<1>3. \A a, b : Len(<<a, b>>) \in Nat
  OBVIOUS
<1>4. CASE expr \in {"nested", "method"}
  <2>1. CallArguments(h, expr) = [g |-> Calls(h, 2), addresses |-> <<Newest(2), Newest(1)>>]
    BY <1>4 DEF CallArguments
  <2>. QED
    BY <1>1, <1>3, <2>1
<1>5. CASE expr = "named"
  <2>1. CallArguments(h, expr) = [g |-> Calls(h, 2), addresses |-> <<Newest(1), Newest(2)>>]
    BY <1>5 DEF CallArguments
  <2>. QED
    BY <1>1, <1>3, <2>1
<1>6. CASE expr = "checked"
  <2>1. CallArguments(h, expr) = [g |-> Converted(Calls(h, 2)), addresses |-> <<Newest(3), Newest(1)>>]
    BY <1>6 DEF CallArguments
  <2>. QED
    BY <1>2, <1>3, <2>1
<1>7. CASE expr = "early"
  <2>1. CallArguments(h, expr) = [g |-> Call(h, "any"), addresses |-> <<Member, Newest(1)>>]
    BY <1>7 DEF CallArguments
  <2>. QED
    BY <1>1, <1>3, <2>1
<1>8. CASE expr = "late"
  <2>1. CallArguments(h, expr) = [g |-> Call(h, "any"), addresses |-> <<Newest(1), Member>>]
    BY <1>8 DEF CallArguments
  <2>. QED
    BY <1>1, <1>3, <2>1
<1>9. CASE expr = "with_variable"
  <2>1. CallArguments(h, expr) = [g |-> Call(h, "any"), addresses |-> <<VariableSlot, Newest(1)>>]
    BY <1>9 DEF CallArguments
  <2>. QED
    BY <1>1, <1>3, <2>1
<1>. QED
  BY <1>4, <1>5, <1>6, <1>7, <1>8, <1>9 DEF CallForms

(* A call with arguments. *)
LEMMA CallWithStands ==
    ASSUME NEW h, NEW x, NEW l, Stands(h, x, l), NEW expr \in CallForms, NEW discarded
    PROVE  Stands(CallWith(h, CallArguments(h, expr), discarded), x, l)
<1>. DEFINE a == CallArguments(h, expr)
            n == Len(a.g.used) - Len(h.used)
            z == IF discarded THEN NoAddress ELSE Newest(n + 1)
            j == Operate(a.g, 802, a.addresses, z)
<1>1. Stands(a.g, x, l) /\ Len(a.addresses) \in Nat
  BY CallArgumentsStand
<1>. HIDE DEF a
<1>2. CallWith(h, a, discarded) = PopTemporaries(j, n)
  BY Opcodes DEF CallWith, WriteCall
<1>. HIDE DEF n, z
<1>3. 802 \in Working
  BY OpcodeSets
<1>4. Stands(j, x, l)
  BY <1>1, <1>3, Operates
<1>. HIDE DEF j
<1>5. Stands(PopTemporaries(j, n), x, l)
  BY <1>4, PopsTemporaries
<1>6. Stands(CallWith(h, a, discarded), x, l)
  BY <1>2, <1>5
<1>. QED
  BY <1>6 DEF a

(* Every expression. *)
LEMMA ExpressionStands ==
    ASSUME NEW h, NEW x, NEW l, Stands(h, x, l), NEW expr \in ValueForms, NEW carrier
    PROVE  Stands(Expression(h, expr, carrier), x, l)
<1>. DEFINE i == AddTemporary(h, IF expr \in {"and", "or"} THEN "bool" ELSE carrier)
<1>1. Stands(i, x, l)
  BY AddsTemporary
<1>2. Expression(h, expr, carrier) = ValueInNewest(i, expr)
  BY DEF Expression
<1>. HIDE DEF i
<1>3. Stands(ValueInNewest(i, expr), x, l)
  <2>1. CASE expr = "call"
    <3>1. Stands(WriteCall(i, <<>>, Newest(1)), x, l)
      BY <1>1, Reads
    <3>2. ValueInNewest(i, expr) = WriteCall(i, <<>>, Newest(1))
      BY <2>1 DEF ValueInNewest, CallForms
    <3>. QED
      BY <3>1, <3>2
  <2>2. CASE expr \in {"and", "or", "ternary"}
    BY <1>1, <2>2, AndStands, TernaryStands DEF ValueInNewest, CallForms
  <2>3. CASE expr \in {"unary", "binary", "array", "dictionary", "is", "as", "attribute", "subscript"}
    BY <1>1, <2>3, OperationsStand DEF ValueInNewest, CallForms
  <2>4. CASE expr \in CallForms
    <3>1. ValueInNewest(i, expr) = CallWith(i, CallArguments(i, expr), FALSE)
      BY <2>4 DEF ValueInNewest, CallForms
    <3>. QED
      BY <1>1, <2>4, <3>1, CallWithStands
  <2>. QED
    BY <2>1, <2>2, <2>3, <2>4 DEF ValueForms, OneOperand, TwoOperands, CallForms
<1>. QED
  BY <1>2, <1>3

(* Any number of temporaries taken. *)
LEMMA AddsTemporaries ==
    ASSUME NEW h, NEW x, NEW l, Stands(h, x, l), NEW carriers, Len(carriers) \in Nat
    PROVE  Stands(AddTemporaries(h, carriers), x, l)
<1>. DEFINE n == Len(carriers)
            taken[k \in 0 .. n] == IF k = 0 THEN h ELSE AddTemporary(taken[k - 1], carriers[k])
<1>1. \A k, v : Turn("temporaries", carriers, h, h, k, v) = AddTemporary(v, carriers[k])
  BY DEF Turn
<1>2. IsTurning(taken, "temporaries", carriers, h, h, h, n)
  <2>1. PICK f : IsTurning(f, "temporaries", carriers, h, h, h, n)
    <3>. HIDE DEF taken
    <3>. QED
      BY Turns
  <2>2. f = [k \in 0 .. n |-> IF k = 0 THEN h ELSE AddTemporary(f[k - 1], carriers[k])]
    <3>. HIDE DEF taken
    <3>. QED
      BY <1>1, <2>1 DEF IsTurning
  <2>3. taken = [k \in 0 .. n |-> IF k = 0 THEN h ELSE AddTemporary(taken[k - 1], carriers[k])]
    BY <2>2
  <2>. HIDE DEF taken
  <2>. QED
    BY <1>1, <2>3 DEF IsTurning
<1>3. AddTemporaries(h, carriers) = taken[n]
  BY DEF AddTemporaries
<1>. HIDE DEF taken
<1>4. \A k \in 1 .. n : \A e :
        Stands(e, x, l) => Stands(Turn("temporaries", carriers, h, h, k, e), x, l)
  BY <1>1, AddsTemporary
<1>. HIDE DEF n
<1>5. n \in Nat
  BY DEF n
<1>. QED
  BY <1>2, <1>3, <1>4, <1>5, TurnsStand

(* One or two taken. *)
LEMMA AddsTemporariesOf ==
    ASSUME NEW h, NEW x, NEW l, Stands(h, x, l), NEW a, NEW b
    PROVE  Stands(AddTemporaries(h, <<a>>), x, l) /\ Stands(AddTemporaries(h, <<a, b>>), x, l)
<1>. DEFINE one == <<a>>
            two == <<a, b>>
<1>1. Len(one) \in Nat /\ Len(two) \in Nat
  OBVIOUS
<1>. HIDE DEF one, two
<1>2. Stands(AddTemporaries(h, one), x, l) /\ Stands(AddTemporaries(h, two), x, l)
  BY <1>1, AddsTemporaries
<1>. QED
  BY <1>2 DEF one, two

(* Assignments.                                                            *)
LEMMA CombinedStands ==
    ASSUME NEW h, NEW x, NEW l, Stands(h, x, l), NEW a, NEW b
    PROVE  Stands(Combined(h, a, b), x, l) /\ Stands(CombinedInto(h), x, l)
<1>1. Stands(Combined(h, a, b), x, l)
  <2>1. Stands(AddTemporary(h, "any"), x, l)
    BY AddsTemporary
  <2>. QED
    BY <2>1, Reads DEF Combined
<1>2. Stands(CombinedInto(h), x, l)
  <2>1. Stands(WriteOperator(h, <<Newest(1), Newest(3)>>, Newest(2)), x, l)
    BY Reads
  <2>. QED
    BY <2>1, PopsTemporary DEF CombinedInto
<1>. QED
  BY <1>1, <1>2

(* Assignments to a variable. *)
LEMMA AssignsVariable ==
    ASSUME NEW h, NEW x, NEW l, Stands(h, x, l)
    PROVE  Stands(AssignVariable(h), x, l) /\ Stands(AddToVariable(h), x, l)
<1>1. Stands(Call(h, "any"), x, l)
  BY CallStands
<1>2. Stands(WriteAssign(Call(h, "any"), VariableSlot, Newest(1)), x, l)
  BY <1>1, WritesAssign
<1>3. Stands(AssignVariable(h), x, l)
  BY <1>2, PopsTemporary DEF AssignVariable
<1>4. Stands(Combined(Call(h, "any"), VariableSlot, Newest(2)), x, l)
  BY <1>1, CombinedStands
<1>5. Stands(WriteAssign(Combined(Call(h, "any"), VariableSlot, Newest(2)), VariableSlot, Newest(1)), x, l)
  BY <1>4, WritesAssign
<1>6. Stands(AddToVariable(h), x, l)
  BY <1>5, PopsTemporaries DEF AddToVariable
<1>. QED
  BY <1>3, <1>6

(* Assignments to an element. *)
LEMMA AssignsElement ==
    ASSUME NEW h, NEW x, NEW l, Stands(h, x, l)
    PROVE  Stands(AssignElement(h), x, l) /\ Stands(AddToElement(h), x, l)
<1>. DEFINE i == AddTemporaries(Calls(h, 3), <<"any", "any">>)
            j == CombinedInto(WriteGet(i, Newest(1), Newest(4), Newest(5)))
<1>1. Stands(Calls(h, 3), x, l)
  BY CallsStand
<1>2. Stands(WriteSet(Calls(h, 3), Newest(3), Newest(2), Newest(1)), x, l)
  BY <1>1, Reads
<1>3. Stands(AssignElement(h), x, l)
  BY <1>2, PopsTemporaries DEF AssignElement
<1>4. Stands(i, x, l)
  BY <1>1, AddsTemporariesOf
<1>5. AddToElement(h) = PopTemporaries(WriteSet(j, Newest(4), Newest(3), Newest(1)), 4)
  BY DEF AddToElement
<1>. HIDE DEF i
<1>6. Stands(WriteGet(i, Newest(1), Newest(4), Newest(5)), x, l)
  BY <1>4, Reads
<1>7. Stands(j, x, l)
  BY <1>6, CombinedStands
<1>. HIDE DEF j
<1>8. Stands(WriteSet(j, Newest(4), Newest(3), Newest(1)), x, l)
  BY <1>7, Reads
<1>9. Stands(AddToElement(h), x, l)
  BY <1>5, <1>8, PopsTemporaries
<1>. QED
  BY <1>3, <1>9

(* An assignment that is converted first. *)
LEMMA AssignsChecked ==
    ASSUME NEW h, NEW x, NEW l, Stands(h, x, l)
    PROVE  Stands(AssignChecked(h), x, l)
<1>. DEFINE i == Converted(Calls(h, 2))
            j == Converted(Call(i, "any"))
            k == WriteSet(j, Newest(5), Newest(3), Newest(1))
<1>1. Stands(Calls(h, 2), x, l)
  BY CallsStand
<1>2. Stands(i, x, l)
  BY <1>1, ConvertedStands
<1>3. AssignChecked(h) = PopTemporaries(k, 5)
  BY DEF AssignChecked
<1>. HIDE DEF i
<1>4. Stands(Call(i, "any"), x, l)
  BY <1>2, CallStands
<1>5. Stands(j, x, l)
  BY <1>4, ConvertedStands
<1>. HIDE DEF j
<1>6. Stands(k, x, l)
  BY <1>5, Reads
<1>. HIDE DEF k
<1>. QED
  BY <1>3, <1>6, PopsTemporaries

(* Assignments to an attribute. *)
LEMMA AssignsAttribute ==
    ASSUME NEW h, NEW x, NEW l, Stands(h, x, l)
    PROVE  Stands(AssignAttribute(h), x, l) /\ Stands(AddToAttribute(h), x, l)
<1>. DEFINE i == AddTemporaries(Calls(h, 2), <<"any", "any">>)
            j == CombinedInto(WriteGetNamed(i, Newest(1), Newest(4)))
<1>1. Stands(Calls(h, 2), x, l)
  BY CallsStand
<1>2. Stands(WriteSetNamed(Calls(h, 2), Newest(2), Newest(1)), x, l)
  BY <1>1, Reads
<1>3. Stands(AssignAttribute(h), x, l)
  BY <1>2, PopsTemporaries DEF AssignAttribute
<1>4. Stands(i, x, l)
  BY <1>1, AddsTemporariesOf
<1>5. AddToAttribute(h) = PopTemporaries(WriteSetNamed(j, Newest(3), Newest(1)), 3)
  BY DEF AddToAttribute
<1>. HIDE DEF i
<1>6. Stands(WriteGetNamed(i, Newest(1), Newest(4)), x, l)
  BY <1>4, Reads
<1>7. Stands(j, x, l)
  BY <1>6, CombinedStands
<1>. HIDE DEF j
<1>8. Stands(WriteSetNamed(j, Newest(3), Newest(1)), x, l)
  BY <1>7, Reads
<1>9. Stands(AddToAttribute(h), x, l)
  BY <1>5, <1>8, PopsTemporaries
<1>. QED
  BY <1>3, <1>9

(* Assignments to a property. *)
LEMMA AssignsProperty ==
    ASSUME NEW h, NEW x, NEW l, Stands(h, x, l)
    PROVE  Stands(AssignProperty(h), x, l) /\ Stands(AddToProperty(h), x, l)
<1>. DEFINE i == AddTemporaries(Call(h, "any"), <<"any", "any">>)
            j == CombinedInto(WriteGetMember(i, Newest(1)))
<1>1. Stands(Call(h, "any"), x, l)
  BY CallStands
<1>2. Stands(WriteSetMember(Call(h, "any"), Newest(1)), x, l)
  BY <1>1, Reads
<1>3. Stands(AssignProperty(h), x, l)
  BY <1>2, PopsTemporary DEF AssignProperty
<1>4. Stands(i, x, l)
  BY <1>1, AddsTemporariesOf
<1>5. AddToProperty(h) = PopTemporaries(WriteSetMember(j, Newest(1)), 2)
  BY DEF AddToProperty
<1>. HIDE DEF i
<1>6. Stands(WriteGetMember(i, Newest(1)), x, l)
  BY <1>4, Reads
<1>7. Stands(j, x, l)
  BY <1>6, CombinedStands
<1>. HIDE DEF j
<1>8. Stands(WriteSetMember(j, Newest(1)), x, l)
  BY <1>7, Reads
<1>9. Stands(AddToProperty(h), x, l)
  BY <1>5, <1>8, PopsTemporaries
<1>. QED
  BY <1>3, <1>9

(* An assignment to a static variable. *)
LEMMA AddsToStatic ==
    ASSUME NEW h, NEW x, NEW l, Stands(h, x, l)
    PROVE  Stands(AddToStatic(h), x, l)
<1>. DEFINE i == WriteGetStatic(AddTemporary(Call(h, "any"), "any"), Newest(1))
            j == WriteSetStatic(Combined(i, Newest(2), Newest(3)), Newest(1))
<1>1. Stands(Call(h, "any"), x, l)
  BY CallStands
<1>2. Stands(AddTemporary(Call(h, "any"), "any"), x, l)
  BY <1>1, AddsTemporary
<1>3. Stands(i, x, l)
  BY <1>2, Reads
<1>4. AddToStatic(h) = PopTemporaries(j, 3)
  BY DEF AddToStatic
<1>. HIDE DEF i
<1>5. Stands(Combined(i, Newest(2), Newest(3)), x, l)
  BY <1>3, CombinedStands
<1>6. Stands(j, x, l)
  BY <1>5, Reads
<1>. HIDE DEF j
<1>. QED
  BY <1>4, <1>6, PopsTemporaries

(* Assignments by way of a setter. *)
LEMMA AssignsByAccessor ==
    ASSUME NEW h, NEW x, NEW l, Stands(h, x, l)
    PROVE  Stands(AssignByAccessor(h), x, l) /\ Stands(AddByAccessor(h), x, l)
<1>1. Stands(Call(h, "any"), x, l) /\ Stands(Calls(h, 2), x, l)
  BY CallStands, CallsStand
<1>2. Stands(WriteCall(Call(h, "any"), <<Newest(1)>>, NoAddress), x, l)
  BY <1>1, Reads
<1>3. Stands(AssignByAccessor(h), x, l)
  BY <1>2, PopsTemporary DEF AssignByAccessor
<1>4. Stands(Combined(Calls(h, 2), Newest(3), Newest(2)), x, l)
  BY <1>1, CombinedStands
<1>5. Stands(WriteCall(Combined(Calls(h, 2), Newest(3), Newest(2)), <<Newest(1)>>, NoAddress), x, l)
  BY <1>4, Reads
<1>6. Stands(AddByAccessor(h), x, l)
  BY <1>5, PopsTemporaries DEF AddByAccessor
<1>. QED
  BY <1>3, <1>6

(* Every assignment. *)
LEMMA AssignmentStands ==
    ASSUME NEW h, NEW x, NEW l, Stands(h, x, l), NEW expr \in Assignments
    PROVE  Stands(Assignment(h, expr), x, l)
<1>1. CASE expr \in {"assign", "add", "set_element", "add_element"}
  BY <1>1, AssignsVariable, AssignsElement DEF Assignment
<1>2. CASE expr \in {"set_checked", "set_attribute", "add_attribute"}
  BY <1>2, AssignsChecked, AssignsAttribute DEF Assignment
<1>3. CASE expr \in {"set_property", "add_property", "add_static"}
  BY <1>3, AssignsProperty, AddsToStatic DEF Assignment
<1>4. CASE expr \in {"set_accessor", "add_accessor"}
  BY <1>4, AssignsByAccessor DEF Assignment
<1>. QED
  BY <1>1, <1>2, <1>3, <1>4 DEF Assignments

(* An expression whose value nobody wants. *)
LEMMA DiscardedStands ==
    ASSUME NEW h, NEW x, NEW l, Stands(h, x, l), NEW expr \in ValueForms \cup Assignments
    PROVE  Stands(Discarded(h, expr), x, l)
<1>1. CASE expr = "call"
  <2>1. Discarded(h, expr) = WriteCall(h, <<>>, NoAddress)
    BY <1>1 DEF Discarded, CallForms, Assignments
  <2>. QED
    BY <2>1, Reads
<1>2. CASE expr \in CallForms
  <2>1. Discarded(h, expr) = CallWith(h, CallArguments(h, expr), TRUE)
    BY <1>2 DEF Discarded, CallForms, Assignments
  <2>. QED
    BY <1>2, <2>1, CallWithStands
<1>3. CASE expr \in Assignments
  <2>1. Discarded(h, expr) = Assignment(h, expr)
    BY <1>3 DEF Discarded, CallForms, Assignments
  <2>. QED
    BY <1>3, <2>1, AssignmentStands
<1>4. CASE expr # "call" /\ expr \notin CallForms /\ expr \notin Assignments
  <2>1. Discarded(h, expr) = PopTemporary(Expression(h, expr, "any"))
    BY <1>4 DEF Discarded
  <2>2. Stands(Expression(h, expr, "any"), x, l)
    BY <1>4, ExpressionStands
  <2>. QED
    BY <2>1, <2>2, PopsTemporary
<1>. QED
  BY <1>1, <1>2, <1>3, <1>4

-----------------------------------------------------------------------------
(* Patterns: one jump is pending while what an alternative or an element   *)
(* joins is being tested.                                                  *)

(* A test that is joined to an earlier one has a jump pending. *)
Held(c) == IF c.nested THEN 1 ELSE IF ~c.first THEN 1 ELSE 0

(* A test that has to be joined to an earlier one begins behind a jump. *)
LEMMA OpensJoin ==
    ASSUME NEW h, NEW x, NEW l, Stands(h, x, l), NEW c
    PROVE  Stands(OpenJoin(h, c), x, l + Held(c))
<1>1. /\ Stands(WriteOperand(h, 827, c.verdict), x, l + 1)
      /\ Stands(WriteOperand(h, 826, c.verdict), x, l + 1)
  BY WritesOperand
<1>2. l + 0 = l
  BY Levels
<1>3. CASE c.nested
  BY <1>1, <1>3, Opcodes DEF OpenJoin, Held
<1>4. CASE ~c.nested /\ ~c.first
  BY <1>1, <1>4, Opcodes DEF OpenJoin, Held
<1>5. CASE ~c.nested /\ c.first
  BY <1>2, <1>5 DEF OpenJoin, Held
<1>. QED
  BY <1>3, <1>4, <1>5

(* The joined test ends: the jump leads behind it. *)
LEMMA ClosesJoin ==
    ASSUME NEW h, NEW x, NEW l \in Nat, NEW c, Stands(h, x, l + Held(c)), NEW test
    PROVE  Stands(CloseJoin(h, c, test), x, l)
<1>1. ASSUME NEW o \in {826, 827}, Held(c) = 1
      PROVE  /\ Stands(WriteEndAnd(WriteOperand(h, o, test), c.verdict), x, l)
             /\ Stands(WriteEndOr(WriteOperand(h, o, test), c.verdict), x, l)
  <2>1. Stands(WriteOperand(h, o, test), x, l + 1 + 1)
    BY <1>1, WritesOperand
  <2>2. l + 1 + 1 = l + 2
    OBVIOUS
  <2>3. Stands(WriteOperand(h, o, test), x, l + 2)
    BY <2>1, <2>2
  <2>. QED
    BY <2>3, EndsLogic
<1>2. CASE c.nested
  <2>1. Held(c) = 1
    BY <1>2 DEF Held
  <2>. QED
    BY <1>1, <1>2, <2>1, Opcodes DEF CloseJoin
<1>3. CASE ~c.nested /\ ~c.first
  <2>1. Held(c) = 1
    BY <1>3 DEF Held
  <2>. QED
    BY <1>1, <1>3, <2>1, Opcodes DEF CloseJoin
<1>4. CASE ~c.nested /\ c.first
  <2>1. l + Held(c) = l
    BY <1>4 DEF Held
  <2>2. Stands(h, x, l)
    BY <2>1
  <2>. QED
    BY <1>4, <2>2, WritesAssign DEF CloseJoin
<1>. QED
  BY <1>2, <1>3, <1>4

(* A test behind another, both of which must hold. *)
LEMMA AndTestStands ==
    ASSUME NEW h, NEW x, NEW l, Stands(h, x, l), NEW a, NEW carriers, Len(carriers) \in Nat
    PROVE  Stands(AndTest(h, a, carriers), x, l)
<1>. DEFINE i == AddTemporaries(WriteOperand(h, 827, Newest(1)), carriers)
            tested == WriteOperand(WriteOperator(i, <<a>>, Newest(1)), 827, Newest(1))
            k == WriteEndAnd(tested, Newest(Len(carriers) + 1))
<1>1. l \in Nat /\ l + 1 + 1 = l + 2
  BY Levels
<1>2. Stands(WriteOperand(h, 827, Newest(1)), x, l + 1)
  BY WritesOperand
<1>3. Stands(i, x, l + 1)
  BY <1>2, AddsTemporaries
<1>4. AndTest(h, a, carriers) = PopTemporaries(k, Len(carriers))
  BY Opcodes DEF AndTest
<1>. HIDE DEF i
<1>5. Stands(WriteOperator(i, <<a>>, Newest(1)), x, l + 1)
  BY <1>3, Reads
<1>6. Stands(tested, x, l + 1 + 1)
  BY <1>5, WritesOperand
<1>. HIDE DEF tested
<1>7. Stands(tested, x, l + 2)
  BY <1>1, <1>6
<1>8. Stands(k, x, l)
  BY <1>1, <1>7, EndsLogic
<1>. HIDE DEF k
<1>. QED
  BY <1>4, <1>8, PopsTemporaries

(* A test of the type first: what comes behind it may be joined. *)
LEMMA TypedTestStands ==
    ASSUME NEW h, NEW x, NEW l, Stands(h, x, l), NEW c, NEW carriers, Len(carriers) \in Nat
    PROVE  Stands(TypedTest(h, c, carriers), x, l + Held(c))
<1>1. Stands(OpenJoin(h, c), x, l + Held(c))
  BY OpensJoin
<1>2. Stands(AddTemporary(OpenJoin(h, c), "bool"), x, l + Held(c))
  BY <1>1, AddsTemporary
<1>3. Stands(WriteOperator(AddTemporary(OpenJoin(h, c), "bool"), <<c.type>>, Newest(1)), x, l + Held(c))
  BY <1>2, Reads
<1>. QED
  BY <1>3, AndTestStands DEF TypedTest

(* A literal as a pattern. *)
LEMMA LiteralStands ==
    ASSUME NEW h, NEW x, NEW l, Stands(h, x, l), NEW c
    PROVE  Stands(LiteralPattern(h, c), x, l)
<1>. DEFINE carriers == <<"bool">>
            i == TypedTest(h, c, carriers)
<1>1. Len(carriers) \in Nat
  OBVIOUS
<1>2. LiteralPattern(h, c) = PopTemporary(CloseJoin(i, c, Newest(1)))
  BY DEF LiteralPattern
<1>. HIDE DEF carriers
<1>3. Stands(i, x, l + Held(c))
  BY <1>1, TypedTestStands
<1>. HIDE DEF i
<1>4. l \in Nat
  BY Levels
<1>5. Stands(CloseJoin(i, c, Newest(1)), x, l)
  BY <1>3, <1>4, ClosesJoin
<1>. QED
  BY <1>2, <1>5, PopsTemporary

(* A type as a pattern. *)
LEMMA TypeTestStands ==
    ASSUME NEW h, NEW x, NEW l, Stands(h, x, l), NEW c
    PROVE  Stands(TypeTestPattern(h, c), x, l)
<1>. DEFINE i == AddTemporary(OpenJoin(h, c), "bool")
            j == Operate(i, Opcode.TYPE_TEST, <<c.value>>, Newest(1))
<1>1. Stands(OpenJoin(h, c), x, l + Held(c))
  BY OpensJoin
<1>2. Stands(i, x, l + Held(c))
  BY <1>1, AddsTemporary
<1>3. TypeTestPattern(h, c) = PopTemporary(CloseJoin(j, c, Newest(1)))
  BY DEF TypeTestPattern
<1>. HIDE DEF i
<1>4. Stands(j, x, l + Held(c))
  BY <1>2, Reads
<1>. HIDE DEF j
<1>5. l \in Nat
  BY Levels
<1>6. Stands(CloseJoin(j, c, Newest(1)), x, l)
  BY <1>4, <1>5, ClosesJoin
<1>. QED
  BY <1>3, <1>6, PopsTemporary

(* An expression as a pattern. *)
LEMMA ExpressionPatternStands ==
    ASSUME NEW h, NEW x, NEW l, Stands(h, x, l), NEW c
    PROVE  Stands(ExpressionPattern(h, c), x, l)
<1>. DEFINE carriers == <<"bool", "bool", "bool", "bool", "any">>
            m == l + Held(c)
            i == AddTemporaries(OpenJoin(h, c), carriers)
            type == WriteTypeOf(Call(i, "any"), Newest(2), Newest(1))
            compared == WriteOperator(type, <<c.type, Newest(2)>>, Newest(6))
            typed == WriteOperand(compared, 827, Newest(6))
            same == WriteOperator(typed, <<c.value, Newest(1)>>, Newest(5))
            equal == WriteOperand(same, 827, Newest(5))
            k == PopTemporaries(WriteEndAnd(equal, Newest(6)), 5)
<1>1. Stands(OpenJoin(h, c), x, m)
  BY OpensJoin
<1>2. Len(carriers) \in Nat
  OBVIOUS
<1>3. ExpressionPattern(h, c) = PopTemporary(CloseJoin(k, c, Newest(1)))
  BY Opcodes DEF ExpressionPattern
<1>4. m \in Nat /\ l \in Nat /\ m + 1 + 1 = m + 2
  BY <1>1, Levels
<1>. HIDE DEF carriers, m
<1>5. Stands(i, x, m)
  BY <1>1, <1>2, AddsTemporaries
<1>. HIDE DEF i
<1>6. Stands(Call(i, "any"), x, m)
  BY <1>5, CallStands
<1>7. Stands(type, x, m)
  BY <1>6, WritesAssign
<1>. HIDE DEF type
<1>8. Stands(compared, x, m)
  BY <1>7, Reads
<1>. HIDE DEF compared
<1>9. Stands(typed, x, m + 1)
  BY <1>8, WritesOperand
<1>. HIDE DEF typed
<1>10. Stands(same, x, m + 1)
  BY <1>9, Reads
<1>. HIDE DEF same
<1>11. Stands(equal, x, m + 1 + 1)
  BY <1>10, WritesOperand
<1>. HIDE DEF equal
<1>12. Stands(equal, x, m + 2)
  BY <1>4, <1>11
<1>13. Stands(WriteEndAnd(equal, Newest(6)), x, m)
  BY <1>4, <1>12, EndsLogic
<1>14. Stands(k, x, m)
  BY <1>13, PopsTemporaries
<1>. HIDE DEF k
<1>15. Stands(CloseJoin(k, c, Newest(1)), x, l)
  <2>1. Stands(k, x, l + Held(c))
    BY <1>14 DEF m
  <2>. QED
    BY <1>4, <2>1, ClosesJoin
<1>. QED
  BY <1>3, <1>15, PopsTemporary

(* A wildcard or a variable as a pattern. *)
LEMMA BindStands ==
    ASSUME NEW h, NEW x, NEW l, Stands(h, x, l), NEW c, NEW kind
    PROVE  Stands(BindPattern(h, c, kind), x, l)
<1>. DEFINE i == IF kind = "bind" THEN WriteAssign(OpenJoin(h, c), c.bind, c.value) ELSE OpenJoin(h, c)
<1>1. Stands(OpenJoin(h, c), x, l + Held(c)) /\ l \in Nat
  BY OpensJoin, Levels
<1>2. Stands(i, x, l + Held(c))
  <2>1. Stands(WriteAssign(OpenJoin(h, c), c.bind, c.value), x, l + Held(c))
    BY <1>1, WritesAssign
  <2>. QED
    BY <1>1, <2>1
<1>3. BindPattern(h, c, kind) = IF c.nested \/ ~c.first THEN CloseJoin(i, c, ConstantTrue)
                                ELSE Emit(i, <<820, c.verdict>>)
  BY Opcodes DEF BindPattern
<1>. HIDE DEF i
<1>4. CASE c.nested \/ ~c.first
  <2>1. Stands(CloseJoin(i, c, ConstantTrue), x, l)
    BY <1>1, <1>2, ClosesJoin
  <2>. QED
    BY <1>3, <1>4, <2>1
<1>5. CASE ~(c.nested \/ ~c.first)
  <2>1. l + Held(c) = l
    BY <1>1, <1>5 DEF Held
  <2>2. Stands(i, x, l)
    BY <1>2, <2>1
  <2>3. Stands(Emit(i, <<820, c.verdict>>), x, l)
    BY <2>2, Stores
  <2>. QED
    BY <1>3, <1>5, <2>3
<1>. QED
  BY <1>4, <1>5

(* Patterns of depth one, two and three. *)
IsLeaf(p) == p.kind \in {"literal", "test", "expression", "wild", "bind"}

(* A leaf, or a container of leaves. *)
IsFlat(p) ==
    IsLeaf(p) \/ (IsContainer(p) /\ Len(p.of) \in Nat /\ \A k \in 1 .. Len(p.of) : IsLeaf(p.of[k]))

(* A flat one, or a container of flat ones. *)
IsPattern(p) ==
    IsLeaf(p) \/ (IsContainer(p) /\ Len(p.of) \in Nat /\ \A k \in 1 .. Len(p.of) : IsFlat(p.of[k]))

(* Every pattern that holds no other. *)
LEMMA LeafStands ==
    ASSUME NEW h, NEW x, NEW l, Stands(h, x, l), NEW c, NEW p, IsLeaf(p)
    PROVE  Stands(LeafPattern(h, p, c), x, l)
<1>1. CASE p.kind = "literal"
  BY <1>1, LiteralStands DEF LeafPattern
<1>2. CASE p.kind = "test"
  BY <1>2, TypeTestStands DEF LeafPattern
<1>3. CASE p.kind = "expression"
  BY <1>3, ExpressionPatternStands DEF LeafPattern
<1>4. CASE p.kind \in {"wild", "bind"}
  BY <1>4, BindStands DEF LeafPattern
<1>. QED
  BY <1>1, <1>2, <1>3, <1>4 DEF IsLeaf

(* What a container holds is tested behind one jump, or two for an entry.  *)
Guards(kind) == IF kind = "array" THEN 1 ELSE 2

(* An element begins behind the tests of its container. *)
LEMMA OpensElement ==
    ASSUME NEW h, NEW x, NEW l, Stands(h, x, l), NEW kind, NEW c, NEW e
    PROVE  Stands(OpenElement(h, kind, c, e), x, l + Guards(kind))
<1>. DEFINE held == WhileHolds(h, e.verdict)
            there == WhileHolds(WriteCall(held, <<c.value>>, e.verdict), e.verdict)
            i == IF kind = "array" THEN held ELSE there
            read == Operate(i, Opcode.GET_KEYED, <<c.value>>, e.value)
<1>1. l \in Nat /\ l + 1 + 1 = l + 2
  BY Levels
<1>2. Stands(held, x, l + 1)
  BY WritesOperand, Opcodes DEF WhileHolds
<1>3. OpenElement(h, kind, c, e) = WriteTypeOf(read, e.type, e.value)
  BY DEF OpenElement, ReadElement
<1>. HIDE DEF held
<1>4. Stands(there, x, l + 2)
  <2>1. Stands(WriteCall(held, <<c.value>>, e.verdict), x, l + 1)
    BY <1>2, Reads
  <2>2. Stands(there, x, l + 1 + 1)
    BY <2>1, WritesOperand, Opcodes DEF WhileHolds
  <2>. QED
    BY <1>1, <2>2
<1>. HIDE DEF there
<1>5. Stands(i, x, l + Guards(kind))
  BY <1>2, <1>4 DEF Guards
<1>. HIDE DEF i
<1>6. Stands(read, x, l + Guards(kind))
  BY <1>5, Reads
<1>. HIDE DEF read
<1>. QED
  BY <1>3, <1>6, WritesAssign

(* The end of what is tested only while all before it held. *)
LEMMA EndsWhileHolds ==
    ASSUME NEW h, NEW x, NEW l \in Nat, Stands(h, x, l + 1), NEW a
    PROVE  Stands(EndWhileHolds(h, a), x, l)
<1>1. Stands(WriteOperand(h, 827, a), x, l + 1 + 1)
  BY WritesOperand
<1>2. l + 1 + 1 = l + 2
  OBVIOUS
<1>3. Stands(WriteOperand(h, 827, a), x, l + 2)
  BY <1>1, <1>2
<1>. QED
  BY <1>3, EndsLogic, Opcodes DEF EndWhileHolds

(* An element ends: the jumps in front of it lead behind it. *)
LEMMA ClosesElement ==
    ASSUME NEW h, NEW x, NEW l \in Nat, NEW kind, Stands(h, x, l + Guards(kind)), NEW e
    PROVE  Stands(CloseElement(h, kind, e), x, l)
<1>1. CASE kind = "array"
  <2>1. Stands(h, x, l + 1)
    BY <1>1 DEF Guards
  <2>. QED
    BY <1>1, <2>1, EndsWhileHolds DEF CloseElement
<1>2. CASE kind # "array"
  <2>1. Stands(h, x, l + 2) /\ l + 2 = (l + 1) + 1 /\ l + 1 \in Nat
    BY <1>2 DEF Guards
  <2>2. Stands(h, x, (l + 1) + 1)
    BY <2>1
  <2>3. Stands(EndWhileHolds(h, e.verdict), x, l + 1)
    BY <2>1, <2>2, EndsWhileHolds
  <2>4. Stands(EndWhileHolds(EndWhileHolds(h, e.verdict), e.verdict), x, l)
    BY <2>3, EndsWhileHolds
  <2>. QED
    BY <1>2, <2>4 DEF CloseElement
<1>. QED
  BY <1>1, <1>2

(* A container begins with tests of its type and length. *)
LEMMA OpensContainer ==
    ASSUME NEW h, NEW x, NEW l, Stands(h, x, l), NEW c
    PROVE  Stands(OpenContainer(h, c), x, l + Held(c))
<1>. DEFINE carriers == <<"int", "bool">>
<1>1. Len(carriers) \in Nat
  OBVIOUS
<1>2. OpenContainer(h, c) = AddTemporaries(TypedTest(h, c, carriers), <<"any", "any">>)
  BY DEF OpenContainer
<1>. HIDE DEF carriers
<1>3. Stands(TypedTest(h, c, carriers), x, l + Held(c))
  BY <1>1, TypedTestStands
<1>. QED
  BY <1>2, <1>3, AddsTemporariesOf

(* A container ends. *)
LEMMA ClosesContainer ==
    ASSUME NEW h, NEW x, NEW l \in Nat, NEW c, Stands(h, x, l + Held(c))
    PROVE  Stands(CloseContainer(h, c), x, l)
<1>1. Stands(PopTemporaries(h, 2), x, l + Held(c))
  BY PopsTemporaries
<1>2. Stands(CloseJoin(PopTemporaries(h, 2), c, Newest(1)), x, l)
  BY <1>1, ClosesJoin
<1>. QED
  BY <1>2, PopsTemporary DEF CloseContainer

(* A container of leaves. *)
LEMMA FlatStands ==
    ASSUME NEW h, NEW x, NEW l, Stands(h, x, l), NEW c, NEW p, IsFlat(p)
    PROVE  Stands(FlatPattern(h, p, c), x, l)
<1>1. CASE ~IsContainer(p)
  <2>1. IsLeaf(p)
    BY <1>1 DEF IsFlat
  <2>. QED
    BY <1>1, <2>1, LeafStands DEF FlatPattern
<1>2. CASE IsContainer(p)
  <2>. DEFINE i == OpenContainer(h, c)
              e == ElementOf(i, c)
              n == Len(p.of)
              m == l + Held(c)
              matched[k \in 0 .. n] ==
                IF k = 0 THEN i
                ELSE CloseElement(LeafPattern(OpenElement(matched[k - 1], p.kind, c, e), p.of[k], e),
                                  p.kind, e)
  <2>1. n \in Nat /\ \A k \in 1 .. n : IsLeaf(p.of[k])
    BY <1>2 DEF IsFlat, IsLeaf, IsContainer
  <2>2. Stands(i, x, m) /\ m \in Nat /\ l \in Nat
    BY OpensContainer, Levels
  <2>3. FlatPattern(h, p, c) = CloseContainer(matched[n], c)
    BY <1>2 DEF FlatPattern, ContainerPattern
  <2>. HIDE DEF e, i, n, m
  <2>4. \A k, v : Turn("leaves", p, c, e, k, v)
                    = CloseElement(LeafPattern(OpenElement(v, p.kind, c, e), p.of[k], e), p.kind, e)
    BY DEF Turn
  <2>5. IsTurning(matched, "leaves", p, c, e, i, n)
    <3>1. PICK f : IsTurning(f, "leaves", p, c, e, i, n)
      <4>. HIDE DEF matched
      <4>. QED
        BY <2>1, Turns
    <3>2. f = [k \in 0 .. n |->
                IF k = 0 THEN i
                ELSE CloseElement(LeafPattern(OpenElement(f[k - 1], p.kind, c, e), p.of[k], e), p.kind, e)]
      <4>. HIDE DEF matched
      <4>. QED
        BY <2>4, <3>1 DEF IsTurning
    <3>3. matched = [k \in 0 .. n |->
                IF k = 0 THEN i
                ELSE CloseElement(LeafPattern(OpenElement(matched[k - 1], p.kind, c, e), p.of[k], e),
                                  p.kind, e)]
      BY <3>2
    <3>. HIDE DEF matched
    <3>. QED
      BY <2>4, <3>3 DEF IsTurning
  <2>. HIDE DEF matched
  <2>6. ASSUME NEW k \in 1 .. n, NEW v, Stands(v, x, m)
        PROVE  Stands(Turn("leaves", p, c, e, k, v), x, m)
    <3>. DEFINE u == OpenElement(v, p.kind, c, e)
    <3>1. Stands(u, x, m + Guards(p.kind))
      BY <2>6, OpensElement
    <3>. HIDE DEF u
    <3>2. Stands(LeafPattern(u, p.of[k], e), x, m + Guards(p.kind))
      BY <2>1, <3>1, LeafStands
    <3>3. Stands(CloseElement(LeafPattern(u, p.of[k], e), p.kind, e), x, m)
      BY <2>2, <3>2, ClosesElement
    <3>. QED
      BY <2>4, <3>3 DEF u
  <2>7. \A k \in 1 .. n : \A v : Stands(v, x, m) => Stands(Turn("leaves", p, c, e, k, v), x, m)
    BY <2>6
  <2>8. Stands(matched[n], x, m)
    BY <2>1, <2>2, <2>5, <2>7, TurnsStand
  <2>9. Stands(matched[n], x, l + Held(c))
    BY <2>8 DEF m
  <2>10. Stands(CloseContainer(matched[n], c), x, l)
    BY <2>2, <2>9, ClosesContainer
  <2>. QED
    BY <2>3, <2>10
<1>. QED
  BY <1>1, <1>2

(* Every pattern of a text. *)
LEMMA PatternStands ==
    ASSUME NEW h, NEW x, NEW l, Stands(h, x, l), NEW c, NEW p, IsPattern(p)
    PROVE  Stands(Pattern(h, p, c), x, l)
<1>1. CASE ~IsContainer(p)
  <2>1. IsLeaf(p)
    BY <1>1 DEF IsPattern
  <2>. QED
    BY <1>1, <2>1, LeafStands DEF Pattern
<1>2. CASE IsContainer(p)
  <2>. DEFINE i == OpenContainer(h, c)
              e == ElementOf(i, c)
              n == Len(p.of)
              m == l + Held(c)
              matched[k \in 0 .. n] ==
                IF k = 0 THEN i
                ELSE CloseElement(FlatPattern(OpenElement(matched[k - 1], p.kind, c, e), p.of[k], e),
                                  p.kind, e)
  <2>1. n \in Nat /\ \A k \in 1 .. n : IsFlat(p.of[k])
    BY <1>2 DEF IsPattern, IsLeaf, IsContainer
  <2>2. Stands(i, x, m) /\ m \in Nat /\ l \in Nat
    BY OpensContainer, Levels
  <2>3. Pattern(h, p, c) = CloseContainer(matched[n], c)
    BY <1>2 DEF Pattern, ContainerPattern
  <2>. HIDE DEF e, i, n, m
  <2>4. \A k, v : Turn("flat", p, c, e, k, v)
                    = CloseElement(FlatPattern(OpenElement(v, p.kind, c, e), p.of[k], e), p.kind, e)
    BY DEF Turn
  <2>5. IsTurning(matched, "flat", p, c, e, i, n)
    <3>1. PICK f : IsTurning(f, "flat", p, c, e, i, n)
      <4>. HIDE DEF matched
      <4>. QED
        BY <2>1, Turns
    <3>2. f = [k \in 0 .. n |->
                IF k = 0 THEN i
                ELSE CloseElement(FlatPattern(OpenElement(f[k - 1], p.kind, c, e), p.of[k], e), p.kind, e)]
      <4>. HIDE DEF matched
      <4>. QED
        BY <2>4, <3>1 DEF IsTurning
    <3>3. matched = [k \in 0 .. n |->
                IF k = 0 THEN i
                ELSE CloseElement(FlatPattern(OpenElement(matched[k - 1], p.kind, c, e), p.of[k], e),
                                  p.kind, e)]
      BY <3>2
    <3>. HIDE DEF matched
    <3>. QED
      BY <2>4, <3>3 DEF IsTurning
  <2>. HIDE DEF matched
  <2>6. ASSUME NEW k \in 1 .. n, NEW v, Stands(v, x, m)
        PROVE  Stands(Turn("flat", p, c, e, k, v), x, m)
    <3>. DEFINE u == OpenElement(v, p.kind, c, e)
    <3>1. Stands(u, x, m + Guards(p.kind))
      BY <2>6, OpensElement
    <3>. HIDE DEF u
    <3>2. Stands(FlatPattern(u, p.of[k], e), x, m + Guards(p.kind))
      BY <2>1, <3>1, FlatStands
    <3>3. Stands(CloseElement(FlatPattern(u, p.of[k], e), p.kind, e), x, m)
      BY <2>2, <3>2, ClosesElement
    <3>. QED
      BY <2>4, <3>3 DEF u
  <2>7. \A k \in 1 .. n : \A v : Stands(v, x, m) => Stands(Turn("flat", p, c, e, k, v), x, m)
    BY <2>6
  <2>8. Stands(matched[n], x, m)
    BY <2>1, <2>2, <2>5, <2>7, TurnsStand
  <2>9. Stands(matched[n], x, l + Held(c))
    BY <2>8 DEF m
  <2>10. Stands(CloseContainer(matched[n], c), x, l)
    BY <2>2, <2>9, ClosesContainer
  <2>. QED
    BY <2>3, <2>10
<1>. QED
  BY <1>1, <1>2

(* A leaf is flat, and a pattern. *)
LEMMA LeavesAre ==
    ASSUME NEW kind \in {"literal", "test", "expression", "wild", "bind"}
    PROVE  IsLeaf(Leaf(kind)) /\ IsFlat(Leaf(kind)) /\ IsPattern(Leaf(kind))
BY DEF IsLeaf, IsFlat, IsPattern, Leaf

(* A container is as deep as what it holds and one more. *)
LEMMA TreesAre ==
    ASSUME NEW kind \in {"array", "dictionary"}, NEW of, Len(of) \in Nat
    PROVE  /\ (\A k \in 1 .. Len(of) : IsLeaf(of[k])) => IsFlat(Tree(kind, of))
           /\ (\A k \in 1 .. Len(of) : IsFlat(of[k])) => IsPattern(Tree(kind, of))
<1>. DEFINE p == Tree(kind, of)
<1>1. p.kind = kind /\ p.of = of
  BY DEF Tree
<1>. HIDE DEF p
<1>2. IsContainer(p)
  BY <1>1 DEF IsContainer
<1>3. (\A k \in 1 .. Len(of) : IsLeaf(of[k])) => IsFlat(p)
  BY <1>1, <1>2 DEF IsFlat
<1>4. (\A k \in 1 .. Len(of) : IsFlat(of[k])) => IsPattern(p)
  BY <1>1, <1>2 DEF IsPattern
<1>. QED
  BY <1>3, <1>4 DEF p

(* The alternatives of an arm. *)
ArePatterns(s) == Len(s) \in Nat /\ \A k \in 1 .. Len(s) : IsPattern(s[k])

(* An arm with one alternative. *)
LEMMA OnePattern ==
    ASSUME NEW p, IsPattern(p)
    PROVE  ArePatterns(<<p>>)
BY DEF ArePatterns

(* An arm with two. *)
LEMMA TwoPatterns ==
    ASSUME NEW p, IsPattern(p), NEW q, IsPattern(q)
    PROVE  ArePatterns(<<p, q>>)
<1>. DEFINE s == <<p, q>>
<1>1. Len(s) = 2 /\ s[1] = p /\ s[2] = q
  OBVIOUS
<1>. HIDE DEF s
<1>2. ArePatterns(s)
  BY <1>1 DEF ArePatterns
<1>. QED
  BY <1>2 DEF s

(* A container of one element. *)
LEMMA OneElement ==
    ASSUME NEW kind \in {"array", "dictionary"}, NEW p
    PROVE  /\ IsLeaf(p) => IsFlat(Tree(kind, <<p>>))
           /\ IsFlat(p) => IsPattern(Tree(kind, <<p>>))
<1>. DEFINE s == <<p>>
<1>1. Len(s) = 1 /\ s[1] = p
  OBVIOUS
<1>. HIDE DEF s
<1>2. /\ IsLeaf(p) => IsFlat(Tree(kind, s))
      /\ IsFlat(p) => IsPattern(Tree(kind, s))
  BY <1>1, TreesAre
<1>. QED
  BY <1>2 DEF s

(* A container of two. *)
LEMMA TwoElements ==
    ASSUME NEW kind \in {"array", "dictionary"}, NEW p, IsFlat(p), NEW q, IsFlat(q)
    PROVE  IsPattern(Tree(kind, <<p, q>>))
<1>. DEFINE s == <<p, q>>
<1>1. Len(s) = 2 /\ s[1] = p /\ s[2] = q
  OBVIOUS
<1>. HIDE DEF s
<1>2. Len(s) \in Nat /\ \A k \in 1 .. Len(s) : IsFlat(s[k])
  BY <1>1
<1>3. IsPattern(Tree(kind, s))
  BY <1>2, TreesAre
<1>. QED
  BY <1>3 DEF s

(* The patterns of a text are no deeper than that. *)
LEMMA PatternsAre ==
    ASSUME NEW name \in DOMAIN Patterns
    PROVE  ArePatterns(Patterns[name])
<1>1. \A kind \in {"literal", "test", "expression", "wild", "bind"} :
        IsLeaf(Leaf(kind)) /\ IsFlat(Leaf(kind)) /\ IsPattern(Leaf(kind))
  BY LeavesAre
<1>2. \A kind \in {"literal", "test", "expression", "wild", "bind"} : ArePatterns(<<Leaf(kind)>>)
  BY <1>1, OnePattern
<1>3. name \in {"wild", "bind", "bind_if", "literal", "test", "expression", "either", "elements",
                "nested", "entry"}
  BY DEF Patterns
<1>4. CASE name = "wild"
  BY <1>2, <1>4 DEF Patterns
<1>5. CASE name \in {"bind", "bind_if"}
  BY <1>2, <1>5 DEF Patterns
<1>6. CASE name = "literal"
  BY <1>2, <1>6 DEF Patterns
<1>7. CASE name = "test"
  BY <1>2, <1>7 DEF Patterns
<1>8. CASE name = "expression"
  BY <1>2, <1>8 DEF Patterns
<1>9. CASE name = "either"
  <2>1. ArePatterns(<<Leaf("literal"), Leaf("test")>>)
    BY <1>1, TwoPatterns
  <2>. QED
    BY <1>9, <2>1 DEF Patterns
<1>10. CASE name = "elements"
  <2>1. IsPattern(Tree("array", <<Leaf("bind"), Leaf("literal")>>))
    BY <1>1, TwoElements
  <2>2. ArePatterns(<<Tree("array", <<Leaf("bind"), Leaf("literal")>>)>>)
    BY <2>1, OnePattern
  <2>. QED
    BY <1>10, <2>2 DEF Patterns
<1>11. CASE name = "nested"
  <2>1. IsFlat(Tree("array", <<Leaf("bind")>>))
    BY <1>1, OneElement
  <2>2. IsPattern(Tree("array", <<Tree("array", <<Leaf("bind")>>)>>))
    BY <2>1, OneElement
  <2>3. ArePatterns(<<Tree("array", <<Tree("array", <<Leaf("bind")>>)>>)>>)
    BY <2>2, OnePattern
  <2>. QED
    BY <1>11, <2>3 DEF Patterns
<1>12. CASE name = "entry"
  <2>1. IsPattern(Tree("dictionary", <<Leaf("bind")>>))
    BY <1>1, OneElement
  <2>2. ArePatterns(<<Tree("dictionary", <<Leaf("bind")>>)>>)
    BY <2>1, OnePattern
  <2>. QED
    BY <1>12, <2>2 DEF Patterns
<1>. QED
  BY <1>3, <1>4, <1>5, <1>6, <1>7, <1>8, <1>9, <1>10, <1>11, <1>12

(* The alternatives of an arm, each joined to the one in front. *)
LEMMA AlternativesStand ==
    ASSUME NEW h, NEW x, NEW l, Stands(h, x, l), NEW name \in DOMAIN Patterns, NEW c
    PROVE  Stands(Alternatively(h, name, c), x, l)
<1>. DEFINE n == Len(Patterns[name])
            tried[k \in 0 .. n] ==
                IF k = 0 THEN h
                ELSE Pattern(tried[k - 1], Patterns[name][k], Tried(c, k))
<1>1. \A k, v : Turn("alternatives", name, h, c, k, v)
                    = Pattern(v, Patterns[name][k], Tried(c, k))
  BY DEF Turn
<1>2. n \in Nat /\ \A k \in 1 .. n : IsPattern(Patterns[name][k])
  BY PatternsAre DEF ArePatterns
<1>3. Alternatively(h, name, c) = tried[n]
  BY DEF Alternatively, Tried
<1>. HIDE DEF n
<1>4. IsTurning(tried, "alternatives", name, h, c, h, n)
  <2>1. PICK f : IsTurning(f, "alternatives", name, h, c, h, n)
    <3>. HIDE DEF tried
    <3>. QED
      BY <1>2, Turns
  <2>2. f = [k \in 0 .. n |->
                IF k = 0 THEN h ELSE Pattern(f[k - 1], Patterns[name][k], Tried(c, k))]
    <3>. HIDE DEF tried
    <3>. QED
      BY <1>1, <2>1 DEF IsTurning
  <2>3. tried = [k \in 0 .. n |->
                IF k = 0 THEN h
                ELSE Pattern(tried[k - 1], Patterns[name][k], Tried(c, k))]
    BY <2>2
  <2>. HIDE DEF tried
  <2>. QED
    BY <1>1, <2>3 DEF IsTurning
<1>. HIDE DEF tried
<1>5. ASSUME NEW k \in 1 .. n, NEW v, Stands(v, x, l)
      PROVE  Stands(Turn("alternatives", name, h, c, k, v), x, l)
  <2>. DEFINE d == Tried(c, k)
              p == Patterns[name][k]
  <2>1. Turn("alternatives", name, h, c, k, v) = Pattern(v, p, d)
    BY <1>1
  <2>2. IsPattern(p)
    BY <1>2
  <2>. HIDE DEF d, p
  <2>3. Stands(Pattern(v, p, d), x, l)
    BY <1>5, <2>2, PatternStands
  <2>. QED
    BY <2>1, <2>3
<1>6. \A k \in 1 .. n : \A v : Stands(v, x, l) => Stands(Turn("alternatives", name, h, c, k, v), x, l)
  BY <1>5
<1>7. Stands(tried[n], x, l)
  BY <1>2, <1>4, <1>6, TurnsStand
<1>. QED
  BY <1>3, <1>7

(* The guard of an arm. *)
LEMMA GuardStands ==
    ASSUME NEW h, NEW x, NEW l, Stands(h, x, l)
    PROVE  Stands(AndGuard(h), x, l)
<1>. DEFINE guard == Call(WriteOperand(h, 827, Newest(1)), "any")
            both == WriteOperand(guard, 827, Newest(1))
            k == WriteEndAnd(both, Newest(2))
<1>1. l \in Nat /\ l + 1 + 1 = l + 2
  BY Levels
<1>2. Stands(WriteOperand(h, 827, Newest(1)), x, l + 1)
  BY WritesOperand
<1>3. Stands(guard, x, l + 1)
  BY <1>2, CallStands
<1>4. AndGuard(h) = PopTemporary(k)
  BY Opcodes DEF AndGuard
<1>. HIDE DEF guard
<1>5. Stands(both, x, l + 1 + 1)
  BY <1>3, WritesOperand
<1>. HIDE DEF both
<1>6. Stands(both, x, l + 2)
  BY <1>1, <1>5
<1>7. Stands(k, x, l)
  BY <1>1, <1>6, EndsLogic
<1>. HIDE DEF k
<1>. QED
  BY <1>4, <1>7, PopsTemporary

(* All of the test of an arm. *)
LEMMA VerdictStands ==
    ASSUME NEW h, NEW x, NEW l, Stands(h, x, l), NEW name \in DOMAIN Patterns, NEW a, NEW b
    PROVE  Stands(Verdict(h, name, a, b), x, l)
<1>. DEFINE i == AddTemporary(h, "bool")
            c == [value |-> a, type |-> a + 1, bind |-> b,
                  verdict |-> Resolve(i, Newest(1)), first |-> TRUE, nested |-> FALSE]
            j == Alternatively(i, name, c)
<1>1. Stands(i, x, l)
  BY AddsTemporary
<1>2. Verdict(h, name, a, b) = IF Guarded(name) THEN AndGuard(j) ELSE j
  BY DEF Verdict
<1>. HIDE DEF i, c
<1>3. Stands(j, x, l)
  BY <1>1, AlternativesStand
<1>. HIDE DEF j
<1>4. Stands(AndGuard(j), x, l)
  BY <1>3, GuardStands
<1>. QED
  BY <1>2, <1>3, <1>4

-----------------------------------------------------------------------------
(* Clearing                                                                *)

(* The locals of a block are cleared. *)
LEMMA ClearsBlockLocals ==
    ASSUME NEW h, NEW x, NEW l, Stands(h, x, l), NEW locals, Len(locals) \in Nat
    PROVE  Stands(ClearBlockLocals(h, locals), x, l)
<1>. DEFINE n == Len(locals)
            cleared[k \in 0 .. n] ==
                IF k = 0 THEN h
                ELSE IF ~CanHoldAReference(locals[k].carrier) THEN cleared[k - 1]
                ELSE ClearLocal(cleared[k - 1], locals[k])
<1>1. \A k, v : Turn("locals", locals, h, h, k, v)
                    = IF ~CanHoldAReference(locals[k].carrier) THEN v ELSE ClearLocal(v, locals[k])
  BY DEF Turn
<1>2. n \in Nat
  OBVIOUS
<1>3. ClearBlockLocals(h, locals) = cleared[n]
  BY DEF ClearBlockLocals
<1>. HIDE DEF n
<1>4. IsTurning(cleared, "locals", locals, h, h, h, n)
  <2>1. PICK f : IsTurning(f, "locals", locals, h, h, h, n)
    <3>. HIDE DEF cleared
    <3>. QED
      BY <1>2, Turns
  <2>2. f = [k \in 0 .. n |->
                IF k = 0 THEN h
                ELSE IF ~CanHoldAReference(locals[k].carrier) THEN f[k - 1]
                ELSE ClearLocal(f[k - 1], locals[k])]
    <3>. HIDE DEF cleared
    <3>. QED
      BY <1>1, <2>1 DEF IsTurning
  <2>3. cleared = [k \in 0 .. n |->
                IF k = 0 THEN h
                ELSE IF ~CanHoldAReference(locals[k].carrier) THEN cleared[k - 1]
                ELSE ClearLocal(cleared[k - 1], locals[k])]
    BY <2>2
  <2>. HIDE DEF cleared
  <2>. QED
    BY <1>1, <2>3 DEF IsTurning
<1>. HIDE DEF cleared
<1>5. \A k \in 1 .. n : \A v : Stands(v, x, l) => Stands(Turn("locals", locals, h, h, k, v), x, l)
  BY <1>1, ClearsLocal
<1>. QED
  BY <1>2, <1>3, <1>4, <1>5, TurnsStand

(* The temporaries of a statement are cleared. *)
LEMMA ClearsTemporaries ==
    ASSUME NEW h, NEW x, NEW l, Stands(h, x, l)
    PROVE  Stands(ClearTemporaries(h), x, l)
<1>. DEFINE n == Len(h.temporaries)
            cleared[slot \in 0 .. n] ==
                IF slot = 0 THEN h
                ELSE IF slot \notin h.pending_clear THEN cleared[slot - 1]
                ELSE Emit(cleared[slot - 1], <<ClearOf(h.temporaries[slot]), 0 - slot>>)
            k == cleared[n]
            j == ClearTemporaries(h)
<1>1. \A m, v : Turn("clear", h, h, h, m, v)
                    = IF m \notin h.pending_clear THEN v
                      ELSE Emit(v, <<ClearOf(h.temporaries[m]), 0 - m>>)
  BY DEF Turn
<1>2. n \in Nat
  BY DEF Stands, Typed, Sequence
<1>3. j = [k EXCEPT !.pending_clear = {}]
  BY DEF ClearTemporaries
<1>. HIDE DEF n
<1>4. IsTurning(cleared, "clear", h, h, h, h, n)
  <2>1. PICK f : IsTurning(f, "clear", h, h, h, h, n)
    <3>. HIDE DEF cleared
    <3>. QED
      BY <1>2, Turns
  <2>2. f = [slot \in 0 .. n |->
                IF slot = 0 THEN h
                ELSE IF slot \notin h.pending_clear THEN f[slot - 1]
                ELSE Emit(f[slot - 1], <<ClearOf(h.temporaries[slot]), 0 - slot>>)]
    <3>. HIDE DEF cleared
    <3>. QED
      BY <1>1, <2>1 DEF IsTurning
  <2>3. cleared = [slot \in 0 .. n |->
                IF slot = 0 THEN h
                ELSE IF slot \notin h.pending_clear THEN cleared[slot - 1]
                ELSE Emit(cleared[slot - 1], <<ClearOf(h.temporaries[slot]), 0 - slot>>)]
    BY <2>2
  <2>. HIDE DEF cleared
  <2>. QED
    BY <1>1, <2>3 DEF IsTurning
<1>. HIDE DEF cleared, j
<1>5. ASSUME NEW m \in 1 .. n, NEW v, Stands(v, x, l)
      PROVE  Stands(Turn("clear", h, h, h, m, v), x, l)
  <2>. DEFINE o == ClearOf(h.temporaries[m])
              z == 0 - m
  <2>1. o \in {801, 833} \cup (819 .. 824)
    BY Opcodes DEF ClearOf
  <2>2. Turn("clear", h, h, h, m, v) = IF m \notin h.pending_clear THEN v ELSE Emit(v, <<o, z>>)
    BY <1>1
  <2>. HIDE DEF o, z
  <2>3. Stands(Emit(v, <<o, z>>), x, l)
    BY <1>5, <2>1, Stores
  <2>. QED
    BY <1>5, <2>2, <2>3
<1>6. \A m \in 1 .. n : \A v : Stands(v, x, l) => Stands(Turn("clear", h, h, h, m, v), x, l)
  BY <1>5
<1>7. Stands(k, x, l)
  BY <1>2, <1>4, <1>6, TurnsStand
<1>. HIDE DEF k
<1>8. IsGenerator(k) /\ Sequence(k.temporaries)
  BY <1>7 DEF Stands, Typed
<1>9. /\ IsGenerator(j) /\ j.code = k.code /\ j.temporaries = k.temporaries
      /\ Stacks(j) = Stacks(k) /\ Targets(j) = Targets(k)
  BY <1>3, <1>8 DEF IsGenerator, Stacks, Targets
<1>10. Stands(j, x, l)
  BY <1>7, <1>8, <1>9, Quiet
<1>. QED
  BY <1>10 DEF j

-----------------------------------------------------------------------------
(* Blocks: the stacks of jumps are as high as the blocks being lowered     *)
(* make them.                                                              *)

(* What a block may be the body of. *)
BlockKinds == {"func", "if", "while", "for", "match", "branch"}

(* A block being lowered. *)
IsBlock(b) ==
    /\ b \in [token : {b.token}, kind : BlockKinds, surviving : {b.surviving},
              locals : {b.locals}, arms : Nat, bound : {b.bound}, previous : {b.previous}]
    /\ Sequence(b.locals) /\ Sequence(b.bound)

(* An arm stands behind its match, which knows of it.                      *)
IsAt(s, i) ==
    /\ IsBlock(s[i])
    /\ s[i].kind = "func" <=> i = 1
    /\ s[i].kind = "branch" => i > 1 /\ s[i - 1].kind = "match" /\ s[i - 1].arms > 0

(* The blocks that are open, the innermost last. *)
IsBlocks(s) == Sequence(s) /\ Len(s) > 0 /\ \A i \in 1 .. Len(s) : IsAt(s, i)

(* A block that begins. *)
LEMMA BlockIs ==
    ASSUME NEW n, NEW kind \in BlockKinds, NEW surviving, NEW locals, Sequence(locals)
    PROVE  /\ IsBlock(Block(n, kind, surviving, locals)) /\ Block(n, kind, surviving, locals).kind = kind
           /\ Block(n, kind, surviving, locals).locals = locals
           /\ Block(n, kind, surviving, locals).arms = 0
<1>1. Sequence(<<>>)
  BY NoCode DEF Laid
<1>. DEFINE none == <<>>
            b == [token |-> n, kind |-> kind, surviving |-> surviving, locals |-> locals,
                  arms |-> 0, bound |-> none, previous |-> none]
<1>2. Block(n, kind, surviving, locals) = b
  BY DEF Block
<1>. HIDE DEF none
<1>3. Sequence(none)
  BY <1>1 DEF none
<1>4. IsBlock(b) /\ b.kind = kind /\ b.locals = locals /\ b.arms = 0
  BY <1>3 DEF IsBlock
<1>. QED
  BY <1>2, <1>4

(* A sequence with one element more. *)
LEMMA Grown ==
    ASSUME NEW s, Sequence(s), NEW e
    PROVE  /\ Sequence(Append(s, e)) /\ Len(Append(s, e)) = Len(s) + 1 /\ Len(s) \in Nat
           /\ \A i \in 1 .. Len(s) : Append(s, e)[i] = s[i]
           /\ Append(s, e)[Len(s) + 1] = e
<1>. DEFINE T == Range(s) \cup {e}
            r == Append(s, e)
<1>1. s \in Seq(Range(s)) /\ Range(s) \subseteq T /\ e \in T
  BY DEF Sequence
<1>. HIDE DEF T
<1>2. s \in Seq(T)
  BY <1>1
<1>3. /\ r \in Seq(T) /\ Len(r) = Len(s) + 1 /\ Len(s) \in Nat
      /\ \A i \in 1 .. Len(s) : r[i] = s[i]
      /\ r[Len(s) + 1] = e
  BY <1>1, <1>2
<1>. HIDE DEF r
<1>4. Sequence(r)
  BY <1>3, Elements
<1>. QED
  BY <1>3, <1>4 DEF r

(* A sequence with one element less. *)
LEMMA Shrunk ==
    ASSUME NEW s, Sequence(s), Len(s) > 0
    PROVE  /\ Sequence(Front(s)) /\ Len(Front(s)) = Len(s) - 1 /\ Len(s) \in Nat
           /\ \A i \in 1 .. Len(s) - 1 : Front(s)[i] = s[i]
           /\ Last(s) = s[Len(s)]
<1>. DEFINE T == Range(s)
            r == Front(s)
<1>1. s \in Seq(T)
  BY DEF Sequence
<1>. HIDE DEF T
<1>2. /\ Len(s) \in Nat /\ Len(s) - 1 \in Nat /\ Len(s) - 1 <= Len(s) /\ Last(s) = s[Len(s)]
      /\ DOMAIN s = 1 .. Len(s) /\ \A i \in 1 .. Len(s) : s[i] \in T
  BY <1>1 DEF Last
<1>3. r = SubSeq(s, 1, Len(s) - 1)
  BY <1>2 DEF Front
<1>. HIDE DEF r
<1>4. /\ r \in Seq(T) /\ Len(r) = Len(s) - 1
      /\ \A i \in 1 .. Len(s) - 1 : r[i] = s[i]
  BY <1>1, <1>2, <1>3
<1>5. Sequence(r)
  BY <1>4, Elements
<1>. QED
  BY <1>2, <1>4, <1>5 DEF r

(* A block is opened; an arm only in its match. *)
LEMMA BlocksGrow ==
    ASSUME NEW s, IsBlocks(s), NEW b, IsBlock(b), b.kind # "func",
           b.kind = "branch" => Last(s).kind = "match" /\ Last(s).arms > 0
    PROVE  IsBlocks(Append(s, b))
<1>. DEFINE r == Append(s, b)
<1>1. Sequence(s) /\ Len(s) > 0 /\ \A i \in 1 .. Len(s) : IsAt(s, i)
  BY DEF IsBlocks
<1>2. /\ Sequence(r) /\ Len(r) = Len(s) + 1 /\ Len(s) \in Nat
      /\ \A i \in 1 .. Len(s) : r[i] = s[i]
      /\ r[Len(s) + 1] = b
  BY <1>1, Grown
<1>3. Last(s) = s[Len(s)]
  BY <1>1, Shrunk
<1>. HIDE DEF r
<1>4. ASSUME NEW i \in 1 .. Len(s) PROVE IsAt(r, i)
  <2>1. r[i] = s[i] /\ (i > 1 => r[i - 1] = s[i - 1])
    BY <1>2
  <2>. QED
    BY <1>1, <2>1 DEF IsAt
<1>5. IsAt(r, Len(s) + 1)
  <2>1. r[Len(s) + 1 - 1] = Last(s) /\ Len(s) + 1 > 1
    BY <1>1, <1>2, <1>3
  <2>. QED
    BY <1>2, <2>1 DEF IsAt
<1>6. \A i \in 1 .. Len(r) : i \in 1 .. Len(s) \/ i = Len(s) + 1
  BY <1>2
<1>7. \A i \in 1 .. Len(r) : IsAt(r, i)
  BY <1>4, <1>5, <1>6
<1>8. IsBlocks(r)
  BY <1>1, <1>2, <1>7 DEF IsBlocks
<1>. QED
  BY <1>8 DEF r

(* A block is closed; an arm leaves its match behind. *)
LEMMA BlocksShrink ==
    ASSUME NEW s, IsBlocks(s), Last(s).kind # "func"
    PROVE  /\ IsBlocks(Front(s)) /\ IsBlock(Last(s)) /\ Len(s) > 1
           /\ Last(s).kind = "branch" =>
                Last(Front(s)).kind = "match" /\ Last(Front(s)).arms > 0 /\ Last(Front(s)) = s[Len(s) - 1]
<1>. DEFINE r == Front(s)
<1>1. Sequence(s) /\ Len(s) > 0 /\ \A i \in 1 .. Len(s) : IsAt(s, i)
  BY DEF IsBlocks
<1>2. /\ Sequence(r) /\ Len(r) = Len(s) - 1 /\ Len(s) \in Nat
      /\ \A i \in 1 .. Len(s) - 1 : r[i] = s[i]
      /\ Last(s) = s[Len(s)]
  BY <1>1, Shrunk
<1>3. Len(s) > 1 /\ IsBlock(Last(s)) /\ IsAt(s, Len(s))
  <2>1. IsAt(s, Len(s))
    BY <1>1, <1>2
  <2>2. Len(s) # 1 /\ IsBlock(Last(s))
    BY <1>2, <2>1 DEF IsAt
  <2>. QED
    BY <1>1, <1>2, <2>1, <2>2
<1>. HIDE DEF r
<1>4. ASSUME NEW i \in 1 .. Len(r) PROVE IsAt(r, i)
  <2>1. r[i] = s[i] /\ (i > 1 => r[i - 1] = s[i - 1]) /\ i \in 1 .. Len(s)
    BY <1>2
  <2>. QED
    BY <1>1, <2>1 DEF IsAt
<1>5. Len(r) > 0
  BY <1>2, <1>3
<1>6. IsBlocks(r)
  BY <1>2, <1>4, <1>5 DEF IsBlocks
<1>7. Last(r) = s[Len(s) - 1]
  <2>1. Last(r) = r[Len(r)]
    BY <1>2, <1>5, Shrunk
  <2>. QED
    BY <1>2, <1>5, <2>1
<1>8. Last(s).kind = "branch" => Last(r).kind = "match" /\ Last(r).arms > 0 /\ Last(r) = s[Len(s) - 1]
  BY <1>2, <1>3, <1>7 DEF IsAt
<1>. QED
  BY <1>3, <1>6, <1>8 DEF r

(* How high the stacks are inside a block.                                 *)
IsHeight(x) ==
    /\ x = Heights(x.ifs, x.whiles, x.fors, x.breaks, x.continues, x.fail, x.skip, x.defaults)
    /\ x.ifs \in Nat /\ x.whiles \in Nat /\ x.fors \in Nat /\ x.breaks \in Nat /\ x.continues \in Nat

(* What is pending on behalf of a block while it is open. *)
Raise(x, b) ==
    CASE b.kind = "if" -> Up(x, "ifs", 1)
      [] b.kind = "match" -> Up(x, "ifs", b.arms)
      [] b.kind = "while" -> Up(Up(Up(x, "breaks", 1), "continues", 1), "whiles", 1)
      [] b.kind = "for" -> Up(Up(Up(x, "breaks", 1), "fors", 2), "continues", 1)
      [] OTHER -> x

(* The fields of heights. *)
LEMMA HeightsAre ==
    ASSUME NEW i \in Nat, NEW w \in Nat, NEW f \in Nat, NEW b \in Nat, NEW c \in Nat, NEW a, NEW s, NEW d
    PROVE  /\ IsHeight(Heights(i, w, f, b, c, a, s, d))
           /\ Heights(i, w, f, b, c, a, s, d).ifs = i /\ Heights(i, w, f, b, c, a, s, d).whiles = w
           /\ Heights(i, w, f, b, c, a, s, d).fors = f /\ Heights(i, w, f, b, c, a, s, d).breaks = b
           /\ Heights(i, w, f, b, c, a, s, d).continues = c
BY DEF IsHeight, Heights

(* Each stack raised, and what stays. *)
LEMMA UpIs ==
    ASSUME NEW x, IsHeight(x), NEW n \in Nat
    PROVE  /\ IsHeight(Up(x, "ifs", n)) /\ Up(x, "ifs", n).ifs = x.ifs + n
           /\ Up(x, "ifs", n).breaks = x.breaks /\ Up(x, "ifs", n).continues = x.continues
           /\ IsHeight(Up(x, "whiles", n)) /\ Up(x, "whiles", n).whiles = x.whiles + n
           /\ Up(x, "whiles", n).breaks = x.breaks /\ Up(x, "whiles", n).continues = x.continues
           /\ IsHeight(Up(x, "fors", n)) /\ Up(x, "fors", n).fors = x.fors + n
           /\ Up(x, "fors", n).breaks = x.breaks /\ Up(x, "fors", n).continues = x.continues
           /\ IsHeight(Up(x, "breaks", n)) /\ Up(x, "breaks", n).breaks = x.breaks + n
           /\ Up(x, "breaks", n).continues = x.continues
           /\ IsHeight(Up(x, "continues", n)) /\ Up(x, "continues", n).continues = x.continues + n
           /\ Up(x, "continues", n).breaks = x.breaks /\ Up(x, "continues", n).fors = x.fors
<1>. DEFINE i == x.ifs
            w == x.whiles
            f == x.fors
            b == x.breaks
            c == x.continues
            a == x.fail
            s == x.skip
            d == x.defaults
<1>1. x = Heights(i, w, f, b, c, a, s, d) /\ i \in Nat /\ w \in Nat /\ f \in Nat /\ b \in Nat /\ c \in Nat
  BY DEF IsHeight
<1>. HIDE DEF i, w, f, b, c, a, s, d
<1>2. /\ Up(x, "ifs", n) = Heights(i + n, w, f, b, c, a, s, d)
      /\ Up(x, "whiles", n) = Heights(i, w + n, f, b, c, a, s, d)
      /\ Up(x, "fors", n) = Heights(i, w, f + n, b, c, a, s, d)
      /\ Up(x, "breaks", n) = Heights(i, w, f, b + n, c, a, s, d)
      /\ Up(x, "continues", n) = Heights(i, w, f, b, c + n, a, s, d)
  BY <1>1, Raised
<1>4. i + n \in Nat /\ w + n \in Nat /\ f + n \in Nat /\ b + n \in Nat /\ c + n \in Nat
  BY <1>1
<1>5. /\ IsHeight(Up(x, "ifs", n)) /\ Up(x, "ifs", n).ifs = i + n
      /\ Up(x, "ifs", n).breaks = b /\ Up(x, "ifs", n).continues = c
  <2>. DEFINE j == i + n
  <2>1. j \in Nat /\ Up(x, "ifs", n) = Heights(j, w, f, b, c, a, s, d)
    BY <1>2, <1>4
  <2>. HIDE DEF j
  <2>2. IsHeight(Heights(j, w, f, b, c, a, s, d)) /\ Heights(j, w, f, b, c, a, s, d).ifs = j /\ Heights(j, w, f, b, c, a, s, d).whiles = w /\ Heights(j, w, f, b, c, a, s, d).fors = f
        /\ Heights(j, w, f, b, c, a, s, d).breaks = b /\ Heights(j, w, f, b, c, a, s, d).continues = c
    BY <1>1, <2>1, HeightsAre
  <2>. QED
    BY <2>1, <2>2 DEF j
<1>6. /\ IsHeight(Up(x, "whiles", n)) /\ Up(x, "whiles", n).whiles = w + n
      /\ Up(x, "whiles", n).breaks = b /\ Up(x, "whiles", n).continues = c
  <2>. DEFINE j == w + n
  <2>1. j \in Nat /\ Up(x, "whiles", n) = Heights(i, j, f, b, c, a, s, d)
    BY <1>2, <1>4
  <2>. HIDE DEF j
  <2>2. IsHeight(Heights(i, j, f, b, c, a, s, d)) /\ Heights(i, j, f, b, c, a, s, d).ifs = i /\ Heights(i, j, f, b, c, a, s, d).whiles = j /\ Heights(i, j, f, b, c, a, s, d).fors = f
        /\ Heights(i, j, f, b, c, a, s, d).breaks = b /\ Heights(i, j, f, b, c, a, s, d).continues = c
    BY <1>1, <2>1, HeightsAre
  <2>. QED
    BY <2>1, <2>2 DEF j
<1>7. /\ IsHeight(Up(x, "fors", n)) /\ Up(x, "fors", n).fors = f + n
      /\ Up(x, "fors", n).breaks = b /\ Up(x, "fors", n).continues = c
  <2>. DEFINE j == f + n
  <2>1. j \in Nat /\ Up(x, "fors", n) = Heights(i, w, j, b, c, a, s, d)
    BY <1>2, <1>4
  <2>. HIDE DEF j
  <2>2. IsHeight(Heights(i, w, j, b, c, a, s, d)) /\ Heights(i, w, j, b, c, a, s, d).ifs = i /\ Heights(i, w, j, b, c, a, s, d).whiles = w /\ Heights(i, w, j, b, c, a, s, d).fors = j
        /\ Heights(i, w, j, b, c, a, s, d).breaks = b /\ Heights(i, w, j, b, c, a, s, d).continues = c
    BY <1>1, <2>1, HeightsAre
  <2>. QED
    BY <2>1, <2>2 DEF j
<1>8. /\ IsHeight(Up(x, "breaks", n)) /\ Up(x, "breaks", n).breaks = b + n
      /\ Up(x, "breaks", n).continues = c
  <2>. DEFINE j == b + n
  <2>1. j \in Nat /\ Up(x, "breaks", n) = Heights(i, w, f, j, c, a, s, d)
    BY <1>2, <1>4
  <2>. HIDE DEF j
  <2>2. IsHeight(Heights(i, w, f, j, c, a, s, d)) /\ Heights(i, w, f, j, c, a, s, d).ifs = i /\ Heights(i, w, f, j, c, a, s, d).whiles = w /\ Heights(i, w, f, j, c, a, s, d).fors = f
        /\ Heights(i, w, f, j, c, a, s, d).breaks = j /\ Heights(i, w, f, j, c, a, s, d).continues = c
    BY <1>1, <2>1, HeightsAre
  <2>. QED
    BY <2>1, <2>2 DEF j
<1>9. /\ IsHeight(Up(x, "continues", n)) /\ Up(x, "continues", n).continues = c + n
      /\ Up(x, "continues", n).breaks = b /\ Up(x, "continues", n).fors = f
  <2>. DEFINE j == c + n
  <2>1. j \in Nat /\ Up(x, "continues", n) = Heights(i, w, f, b, j, a, s, d)
    BY <1>2, <1>4
  <2>. HIDE DEF j
  <2>2. IsHeight(Heights(i, w, f, b, j, a, s, d)) /\ Heights(i, w, f, b, j, a, s, d).ifs = i /\ Heights(i, w, f, b, j, a, s, d).whiles = w /\ Heights(i, w, f, b, j, a, s, d).fors = f
        /\ Heights(i, w, f, b, j, a, s, d).breaks = b /\ Heights(i, w, f, b, j, a, s, d).continues = j
    BY <1>1, <2>1, HeightsAre
  <2>. QED
    BY <2>1, <2>2 DEF j
<1>. QED
  BY <1>5, <1>6, <1>7, <1>8, <1>9 DEF i, w, f, b, c

(* What a block has pending is there to be told at its end. *)
LEMMA RaiseIs ==
    ASSUME NEW x, IsHeight(x), NEW b, IsBlock(b)
    PROVE  /\ IsHeight(Raise(x, b))
           /\ Raise(x, b).breaks >= x.breaks /\ Raise(x, b).continues >= x.continues
           /\ IsLoop(b) => Raise(x, b).breaks > 0 /\ Raise(x, b).continues > 0
           /\ b.kind = "if" => Raise(x, b).ifs > 0
           /\ b.kind = "match" => Raise(x, b).ifs >= b.arms
           /\ b.kind = "while" => Raise(x, b).whiles > 0
           /\ b.kind = "for" => Raise(x, b).fors > 1
<1>1. b.kind \in BlockKinds /\ b.arms \in Nat
  BY DEF IsBlock
<1>2. CASE b.kind = "if"
  <2>1. Raise(x, b) = Up(x, "ifs", 1) /\ ~IsLoop(b)
    BY <1>2 DEF Raise, IsLoop, Loops
  <2>2. IsHeight(Up(x, "ifs", 1)) /\ Up(x, "ifs", 1).ifs = x.ifs + 1
        /\ Up(x, "ifs", 1).breaks = x.breaks /\ Up(x, "ifs", 1).continues = x.continues
    BY UpIs
  <2>. QED
    BY <1>2, <2>1, <2>2 DEF IsHeight
<1>3. CASE b.kind = "match"
  <2>1. Raise(x, b) = Up(x, "ifs", b.arms) /\ ~IsLoop(b)
    BY <1>3 DEF Raise, IsLoop, Loops
  <2>2. IsHeight(Up(x, "ifs", b.arms)) /\ Up(x, "ifs", b.arms).ifs = x.ifs + b.arms
        /\ Up(x, "ifs", b.arms).breaks = x.breaks /\ Up(x, "ifs", b.arms).continues = x.continues
    BY <1>1, UpIs
  <2>. QED
    BY <1>1, <1>3, <2>1, <2>2 DEF IsHeight
<1>4. CASE IsLoop(b)
  <2>. DEFINE y == Up(x, "breaks", 1)
              z == Up(y, "continues", 1)
              u == Up(z, "whiles", 1)
              p == Up(y, "fors", 2)
              q == Up(p, "continues", 1)
  <2>1. IsHeight(y) /\ y.breaks = x.breaks + 1 /\ y.continues = x.continues
    BY UpIs
  <2>2. (b.kind = "while" => Raise(x, b) = u) /\ (b.kind = "for" => Raise(x, b) = q)
    BY DEF Raise
  <2>. HIDE DEF y
  <2>3. IsHeight(z) /\ z.continues = y.continues + 1 /\ z.breaks = y.breaks
    BY <2>1, UpIs
  <2>4. IsHeight(p) /\ p.fors = y.fors + 2 /\ p.breaks = y.breaks /\ p.continues = y.continues
    <3>1. 2 \in Nat /\ IsHeight(y)
      BY <2>1
    <3>. QED
      BY <3>1, UpIs
  <2>. HIDE DEF z, p
  <2>5. IsHeight(u) /\ u.whiles = z.whiles + 1 /\ u.breaks = z.breaks /\ u.continues = z.continues
    BY <2>3, UpIs
  <2>6. IsHeight(q) /\ q.continues = p.continues + 1 /\ q.breaks = p.breaks /\ q.fors = p.fors
    <3>1. 1 \in Nat /\ IsHeight(p)
      BY <2>4
    <3>. QED
      BY <3>1, UpIs
  <2>. HIDE DEF u, q
  <2>7. x.breaks \in Nat /\ x.continues \in Nat /\ y.fors \in Nat /\ z.whiles \in Nat
    BY <2>1, <2>3 DEF IsHeight
  <2>8. u.breaks > 0 /\ u.continues > 0 /\ u.breaks >= x.breaks /\ u.continues >= x.continues /\ u.whiles > 0
    BY <2>1, <2>3, <2>5, <2>7
  <2>9. q.breaks > 0 /\ q.continues > 0 /\ q.breaks >= x.breaks /\ q.continues >= x.continues /\ q.fors > 1
    BY <2>1, <2>4, <2>6, <2>7
  <2>10. b.kind = "while" \/ b.kind = "for"
    BY <1>4 DEF IsLoop, Loops
  <2>. QED
    BY <1>4, <2>2, <2>5, <2>6, <2>8, <2>9, <2>10
<1>5. CASE b.kind \in {"func", "branch"}
  <2>1. Raise(x, b) = x /\ ~IsLoop(b)
    BY <1>5 DEF Raise, IsLoop, Loops
  <2>. QED
    BY <1>5, <2>1 DEF IsHeight
<1>. QED
  BY <1>1, <1>2, <1>3, <1>4, <1>5 DEF BlockKinds, IsLoop, Loops

(* What the end of a block takes away.                                     *)
LEMMA RaiseAndEnd ==
    ASSUME NEW x, IsHeight(x), NEW b, IsBlock(b)
    PROVE  /\ b.kind = "if" => Up(Raise(x, b), "ifs", -1) = x
           /\ b.kind = "while" =>
                Up(Up(Up(Raise(x, b), "whiles", -1), "breaks", -1), "continues", -1) = x
           /\ b.kind = "for" =>
                Up(Up(Up(Raise(x, b), "fors", -2), "breaks", -1), "continues", -1) = x
<1>. DEFINE i == x.ifs
            w == x.whiles
            f == x.fors
            k == x.breaks
            c == x.continues
            a == x.fail
            s == x.skip
            d == x.defaults
<1>1. x = Heights(i, w, f, k, c, a, s, d) /\ i \in Nat /\ w \in Nat /\ f \in Nat /\ k \in Nat /\ c \in Nat
  BY DEF IsHeight
<1>. HIDE DEF i, w, f, k, c, a, s, d
<1>2. /\ i + 1 + (-1) = i /\ w + 1 + (-1) = w /\ f + 2 + (-2) = f /\ k + 1 + (-1) = k
      /\ c + 1 + (-1) = c
  BY <1>1
<1>3. ASSUME b.kind = "if" PROVE Up(Raise(x, b), "ifs", -1) = x
  <2>1. Raise(x, b) = Up(x, "ifs", 1)
    BY <1>3 DEF Raise
  <2>2. Raise(x, b) = Heights(i + 1, w, f, k, c, a, s, d)
    BY <1>1, <2>1, Raised
  <2>3. Up(Raise(x, b), "ifs", -1) = Heights(i + 1 + (-1), w, f, k, c, a, s, d)
    BY <2>2, Raised
  <2>. QED
    BY <1>1, <1>2, <2>3
<1>4. ASSUME b.kind = "while"
      PROVE  Up(Up(Up(Raise(x, b), "whiles", -1), "breaks", -1), "continues", -1) = x
  <2>1. Raise(x, b) = Up(Up(Up(x, "breaks", 1), "continues", 1), "whiles", 1)
    BY <1>4 DEF Raise
  <2>2. Up(x, "breaks", 1) = Heights(i, w, f, k + 1, c, a, s, d)
    BY <1>1, Raised
  <2>3. Up(Up(x, "breaks", 1), "continues", 1) = Heights(i, w, f, k + 1, c + 1, a, s, d)
    BY <2>2, Raised
  <2>4. Raise(x, b) = Heights(i, w + 1, f, k + 1, c + 1, a, s, d)
    BY <2>1, <2>3, Raised
  <2>5. Up(Raise(x, b), "whiles", -1) = Heights(i, w + 1 + (-1), f, k + 1, c + 1, a, s, d)
    BY <2>4, Raised
  <2>6. Up(Up(Raise(x, b), "whiles", -1), "breaks", -1)
            = Heights(i, w + 1 + (-1), f, k + 1 + (-1), c + 1, a, s, d)
    BY <2>5, Raised
  <2>7. Up(Up(Up(Raise(x, b), "whiles", -1), "breaks", -1), "continues", -1)
            = Heights(i, w + 1 + (-1), f, k + 1 + (-1), c + 1 + (-1), a, s, d)
    BY <2>6, Raised
  <2>. QED
    BY <1>1, <1>2, <2>7
<1>5. ASSUME b.kind = "for"
      PROVE  Up(Up(Up(Raise(x, b), "fors", -2), "breaks", -1), "continues", -1) = x
  <2>1. Raise(x, b) = Up(Up(Up(x, "breaks", 1), "fors", 2), "continues", 1)
    BY <1>5 DEF Raise
  <2>2. Up(x, "breaks", 1) = Heights(i, w, f, k + 1, c, a, s, d)
    BY <1>1, Raised
  <2>3. Up(Up(x, "breaks", 1), "fors", 2) = Heights(i, w, f + 2, k + 1, c, a, s, d)
    BY <2>2, Raised
  <2>4. Raise(x, b) = Heights(i, w, f + 2, k + 1, c + 1, a, s, d)
    BY <2>1, <2>3, Raised
  <2>5. Up(Raise(x, b), "fors", -2) = Heights(i, w, f + 2 + (-2), k + 1, c + 1, a, s, d)
    BY <2>4, Raised
  <2>6. Up(Up(Raise(x, b), "fors", -2), "breaks", -1)
            = Heights(i, w, f + 2 + (-2), k + 1 + (-1), c + 1, a, s, d)
    BY <2>5, Raised
  <2>7. Up(Up(Up(Raise(x, b), "fors", -2), "breaks", -1), "continues", -1)
            = Heights(i, w, f + 2 + (-2), k + 1 + (-1), c + 1 + (-1), a, s, d)
    BY <2>6, Raised
  <2>. QED
    BY <1>1, <1>2, <2>7
<1>. QED
  BY <1>3, <1>4, <1>5

(* Raising a stack twice. *)
LEMMA UpTwice ==
    ASSUME NEW x, IsHeight(x), NEW m \in Int, NEW n \in Int
    PROVE  /\ Up(Up(x, "ifs", m), "ifs", n) = Up(x, "ifs", m + n)
           /\ Up(x, "ifs", 0) = x
<1>. DEFINE i == x.ifs
            w == x.whiles
            f == x.fors
            k == x.breaks
            c == x.continues
            a == x.fail
            s == x.skip
            d == x.defaults
<1>1. x = Heights(i, w, f, k, c, a, s, d) /\ i \in Nat
  BY DEF IsHeight
<1>. HIDE DEF i, w, f, k, c, a, s, d
<1>2. i + m + n = i + (m + n) /\ i + 0 = i
  BY <1>1
<1>3. /\ Up(x, "ifs", m) = Heights(i + m, w, f, k, c, a, s, d)
      /\ Up(x, "ifs", m + n) = Heights(i + (m + n), w, f, k, c, a, s, d)
      /\ Up(x, "ifs", 0) = Heights(i + 0, w, f, k, c, a, s, d)
  BY <1>1, Raised
<1>4. Up(Up(x, "ifs", m), "ifs", n) = Heights(i + m + n, w, f, k, c, a, s, d)
  BY <1>3, Raised
<1>. QED
  BY <1>1, <1>2, <1>3, <1>4

(* The stacks inside the blocks s of a function with n places to begin.    *)
IsTower(t, s, n) ==
    /\ t[0] = Heights(0, 0, 0, 0, 0, 0, 0, n)
    /\ \A i \in 0 .. Len(s) : IsHeight(t[i])
    /\ \A i \in 1 .. Len(s) : t[i] = Raise(t[i - 1], s[i])

(* x is how high the stacks are inside all of the blocks s. *)
Reaches(s, x, n) == \E t : IsTower(t, s, n) /\ x = t[Len(s)]

(* The height outside of every block. *)
LEMMA Ground ==
    ASSUME NEW n
    PROVE  Reaches(<<>>, Heights(0, 0, 0, 0, 0, 0, 0, n), n)
<1>. DEFINE x == Heights(0, 0, 0, 0, 0, 0, 0, n)
            t == [i \in 0 .. 0 |-> x]
            none == <<>>
<1>1. IsHeight(x)
  BY HeightsAre
<1>2. Len(none) = 0
  OBVIOUS
<1>3. t[0] = x
  OBVIOUS
<1>4. x = Heights(0, 0, 0, 0, 0, 0, 0, n)
  OBVIOUS
<1>. HIDE DEF x, t, none
<1>5. IsTower(t, none, n)
  <2>1. \A i \in 0 .. Len(none) : i = 0
    BY <1>2
  <2>2. 1 .. Len(none) = {}
    BY <1>2
  <2>. QED
    BY <1>1, <1>3, <1>4, <2>1, <2>2 DEF IsTower
<1>6. Reaches(none, x, n)
  BY <1>2, <1>3, <1>5 DEF Reaches
<1>. QED
  BY <1>4, <1>6 DEF none

(* Opening a block raises the stacks. *)
LEMMA Climbs ==
    ASSUME NEW s, Sequence(s), NEW x, NEW n, Reaches(s, x, n), NEW b, IsBlock(b)
    PROVE  Reaches(Append(s, b), Raise(x, b), n) /\ IsHeight(Raise(x, b)) /\ IsHeight(x)
<1>1. PICK t : IsTower(t, s, n) /\ x = t[Len(s)]
  BY DEF Reaches
<1>. DEFINE r == Append(s, b)
            m == Len(s) + 1
            u == [i \in 0 .. m |-> IF i = m THEN Raise(x, b) ELSE t[i]]
<1>2. /\ Len(r) = m /\ Len(s) \in Nat /\ r[m] = b
      /\ \A i \in 1 .. Len(s) : r[i] = s[i]
  BY Grown
<1>3. u[m] = Raise(x, b) /\ \A i \in 0 .. Len(s) : u[i] = t[i]
  BY <1>2
<1>4. IsHeight(x) /\ IsHeight(Raise(x, b))
  <2>1. IsHeight(x)
    BY <1>1, <1>2 DEF IsTower
  <2>. QED
    BY <2>1, RaiseIs
<1>5. m \in Nat /\ m - 1 = Len(s) /\ m > 0
  BY <1>2
<1>. HIDE DEF u, r, m
<1>6. u[0] = Heights(0, 0, 0, 0, 0, 0, 0, n)
  BY <1>1, <1>2, <1>3 DEF IsTower
<1>7. ASSUME NEW i \in 0 .. Len(r) PROVE IsHeight(u[i])
  <2>1. i = m \/ i \in 0 .. Len(s)
    BY <1>2, <1>5
  <2>. QED
    BY <1>1, <1>3, <1>4, <2>1 DEF IsTower
<1>8. ASSUME NEW i \in 1 .. Len(r) PROVE u[i] = Raise(u[i - 1], r[i])
  <2>1. CASE i = m
    <3>1. u[i - 1] = x
      BY <1>1, <1>2, <1>3, <1>5, <2>1
    <3>. QED
      BY <1>2, <1>3, <2>1, <3>1
  <2>2. CASE i # m
    <3>1. i \in 1 .. Len(s) /\ i \in 0 .. Len(s) /\ i - 1 \in 0 .. Len(s)
      BY <1>2, <1>5, <2>2
    <3>. QED
      BY <1>1, <1>2, <1>3, <3>1 DEF IsTower
  <2>. QED
    BY <2>1, <2>2
<1>9. IsTower(u, r, n)
  BY <1>6, <1>7, <1>8 DEF IsTower
<1>10. Reaches(r, Raise(x, b), n)
  BY <1>2, <1>3, <1>9 DEF Reaches
<1>. QED
  BY <1>4, <1>10 DEF r

(* Closing it lowers them to where they were. *)
LEMMA Descends ==
    ASSUME NEW s, Sequence(s), Len(s) > 0, NEW y, NEW n, Reaches(s, y, n)
    PROVE  \E x : Reaches(Front(s), x, n) /\ IsHeight(x) /\ IsHeight(y) /\ y = Raise(x, Last(s))
<1>1. PICK t : IsTower(t, s, n) /\ y = t[Len(s)]
  BY DEF Reaches
<1>. DEFINE r == Front(s)
            m == Len(s) - 1
            x == t[m]
<1>2. /\ Len(r) = m /\ Len(s) \in Nat /\ Last(s) = s[Len(s)]
      /\ \A i \in 1 .. m : r[i] = s[i]
  BY Shrunk
<1>3. m \in Nat /\ m \in 0 .. Len(s) /\ Len(s) \in 1 .. Len(s) /\ Len(s) \in 0 .. Len(s)
  BY <1>2
<1>4. IsHeight(x) /\ IsHeight(y) /\ y = Raise(x, Last(s))
  BY <1>1, <1>2, <1>3 DEF IsTower
<1>5. \A i \in 0 .. m : i \in 0 .. Len(s)
  BY <1>2
<1>6. \A i \in 1 .. m : i \in 1 .. Len(s)
  BY <1>2
<1>. HIDE DEF r, m
<1>7. IsTower(t, r, n)
  BY <1>1, <1>2, <1>5, <1>6 DEF IsTower
<1>8. Reaches(r, x, n)
  BY <1>2, <1>7 DEF Reaches
<1>. HIDE DEF x
<1>. QED
  BY <1>4, <1>8 DEF r

(* Behind the first block of a function nothing is pending.                *)
LEMMA LoopsHold ==
    ASSUME NEW s, IsBlocks(s), NEW y, NEW n, Reaches(s, y, n), NEW i \in 1 .. Len(s), IsLoop(s[i])
    PROVE  y.breaks > 0 /\ y.continues > 0
<1>1. PICK t : IsTower(t, s, n) /\ y = t[Len(s)]
  BY DEF Reaches
<1>2. Sequence(s) /\ Len(s) \in Nat /\ \A k \in 1 .. Len(s) : IsBlock(s[k])
  BY DEF IsBlocks, IsAt, Sequence
<1>. DEFINE High(k) == k >= i => t[k].breaks > 0 /\ t[k].continues > 0
            P == [k \in 0 .. Len(s) |-> High(k)]
<1>. HIDE DEF P
<1>3. P[0]
  <2>1. High(0)
    BY <1>2
  <2>. HIDE DEF High
  <2>. QED
    BY <1>2, <2>1 DEF P
<1>4. ASSUME NEW k \in 1 .. Len(s), P[k - 1] PROVE P[k]
  <2>1. k - 1 \in 0 .. Len(s) /\ k \in 0 .. Len(s)
    BY <1>2
  <2>2. High(k - 1)
    <3>. HIDE DEF High
    <3>. QED
      BY <1>4, <2>1 DEF P
  <2>3. IsHeight(t[k - 1]) /\ t[k] = Raise(t[k - 1], s[k]) /\ IsBlock(s[k])
    BY <1>1, <1>2, <2>1 DEF IsTower
  <2>4. /\ IsHeight(t[k]) /\ t[k].breaks >= t[k - 1].breaks /\ t[k].continues >= t[k - 1].continues
        /\ IsLoop(s[k]) => t[k].breaks > 0 /\ t[k].continues > 0
    BY <2>3, RaiseIs
  <2>5. /\ t[k - 1].breaks \in Nat /\ t[k - 1].continues \in Nat
        /\ t[k].breaks \in Nat /\ t[k].continues \in Nat
    BY <2>3, <2>4 DEF IsHeight
  <2>6. CASE k = i
    <3>1. High(k)
      BY <2>4, <2>6
    <3>. HIDE DEF High
    <3>. QED
      BY <2>1, <3>1 DEF P
  <2>7. CASE k # i
    <3>1. k >= i => k - 1 >= i
      BY <1>2, <2>7
    <3>2. High(k)
      BY <2>2, <2>4, <2>5, <3>1
    <3>. HIDE DEF High
    <3>. QED
      BY <2>1, <3>2 DEF P
  <2>. QED
    BY <2>6, <2>7
<1>5. P[Len(s)]
  <2>. HIDE DEF High
  <2>. QED
    BY <1>2, <1>3, <1>4, Loop
<1>6. High(Len(s))
  <2>1. Len(s) \in 0 .. Len(s)
    BY <1>2
  <2>. HIDE DEF High
  <2>. QED
    BY <1>5, <2>1 DEF P
<1>7. Len(s) >= i
  BY <1>2
<1>. QED
  BY <1>1, <1>6, <1>7

-----------------------------------------------------------------------------
(* The statements.  h lowers the blocks s of a function with n places to   *)
(* begin.                                                                  *)

(* h is in the middle of a function: the blocks s are open and its stacks  *)
(* are as high as they make them.                                          *)
Lowers(h, s, n) == IsBlocks(s) /\ \E x : Reaches(s, x, n) /\ Stands(h, x, 0)

(* An operation that leaves the stacks alone goes on with the function. *)
LEMMA LowersOn ==
    ASSUME NEW h, NEW s, NEW n, Lowers(h, s, n), NEW k,
           \A x : Stands(h, x, 0) => Stands(k, x, 0)
    PROVE  Lowers(k, s, n)
BY DEF Lowers

(* A block is opened. *)
LEMMA Opens ==
    ASSUME NEW s, IsBlocks(s), NEW x, NEW n, Reaches(s, x, n), NEW b, IsBlock(b),
           b.kind \notin {"func", "branch"}, NEW h, Stands(h, Raise(x, b), 0)
    PROVE  Lowers(h, Append(s, b), n)
<1>1. Sequence(s)
  BY DEF IsBlocks
<1>2. Reaches(Append(s, b), Raise(x, b), n)
  BY <1>1, Climbs
<1>3. IsBlocks(Append(s, b))
  BY BlocksGrow
<1>. QED
  BY <1>2, <1>3 DEF Lowers

(* The local of a statement. *)
LEMMA AddsOwnLocal ==
    ASSUME NEW h, NEW x, NEW l, Stands(h, x, l), NEW t
    PROVE  Stands(WithLocal(h, t), x, l)
BY AddsLocal DEF WithLocal

(* A list of one local. *)
LEMMA OneLocal ==
    ASSUME NEW e
    PROVE  Sequence(<<e>>) /\ Len(<<e>>) = 1 /\ <<e>>[1] = e
<1>. DEFINE s == <<e>>
<1>1. s \in Seq({e}) /\ Len(s) = 1 /\ s[1] = e
  OBVIOUS
<1>. HIDE DEF s
<1>2. Sequence(s)
  BY <1>1, Elements
<1>. QED
  BY <1>1, <1>2 DEF s

(* The locals of a block are a list. *)
LEMMA LocalIs ==
    ASSUME NEW h, NEW t
    PROVE  Sequence(Local(h, t))
<1>1. Sequence(<<>>)
  BY NoCode DEF Laid
<1>. DEFINE e == [slot |-> h.locals + FirstSlot, carrier |-> t.local]
<1>2. Local(h, t) = IF t.local = "none" THEN <<>> ELSE <<e>>
  BY DEF Local
<1>. HIDE DEF e
<1>3. Sequence(<<e>>)
  BY OneLocal
<1>. QED
  BY <1>1, <1>2, <1>3

(* What a token of each kind carries. *)
LEMMA TokenIs ==
    ASSUME NEW t \in Tokens
    PROVE  /\ t.op = "func" => t.opt \in Nat
           /\ t.op \in {"if", "while", "match"} => t.expr \in ValueForms
           /\ t.op = "branch" => t.expr \in DOMAIN Patterns
           /\ t.op = "expr" => t.expr \in ValueForms \cup Assignments
           /\ t.op \in {"var", "return"} /\ t.expr # "none" => t.expr \in ValueForms
BY DEF Tokens

(* The jumps over the arms of a match land behind its last arm.            *)
LEMMA ArmsEnd ==
    ASSUME NEW x, IsHeight(x), NEW m \in Nat, NEW l, NEW h, Stands(h, Up(x, "ifs", m), l),
           NEW f, IsTurning(f, "arms", h, h, h, h, m)
    PROVE  Stands(f[m], x, l)
<1>. DEFINE P == [k \in 0 .. m |-> Stands(f[k], Up(x, "ifs", m - k), l)]
<1>1. \A k \in 0 .. m : f[k] = IF k = 0 THEN h ELSE WriteEndIf(f[k - 1])
  <2>1. \A k, v : Turn("arms", h, h, h, k, v) = WriteEndIf(v)
    BY DEF Turn
  <2>. QED
    BY <2>1 DEF IsTurning
<1>2. P[0]
  <2>1. f[0] = h /\ m - 0 = m
    BY <1>1
  <2>. QED
    BY <2>1
<1>3. ASSUME NEW k \in 1 .. m, P[k - 1] PROVE P[k]
  <2>. DEFINE j == m - (k - 1)
  <2>1. k - 1 \in 0 .. m /\ k \in 0 .. m /\ j \in Nat /\ j > 0 /\ j + (-1) = m - k /\ -1 \in Int
    OBVIOUS
  <2>2. Stands(f[k - 1], Up(x, "ifs", j), l)
    BY <1>3, <2>1
  <2>3. f[k] = WriteEndIf(f[k - 1])
    BY <1>1, <2>1
  <2>. HIDE DEF j, P
  <2>4. Up(x, "ifs", j).ifs > 0
    <3>1. Up(x, "ifs", j).ifs = x.ifs + j /\ x.ifs \in Nat
      BY <2>1, UpIs DEF IsHeight
    <3>. QED
      BY <2>1, <3>1
  <2>5. Stands(WriteEndIf(f[k - 1]), Up(Up(x, "ifs", j), "ifs", -1), l)
    BY <2>2, <2>4, WritesEndIf
  <2>6. Up(Up(x, "ifs", j), "ifs", -1) = Up(x, "ifs", m - k)
    <3>. DEFINE i == -1
    <3>1. j \in Int /\ i \in Int /\ j + i = m - k
      BY <2>1
    <3>. HIDE DEF i
    <3>2. Up(Up(x, "ifs", j), "ifs", i) = Up(x, "ifs", j + i)
      BY <3>1, UpTwice
    <3>3. Up(Up(x, "ifs", j), "ifs", i) = Up(x, "ifs", m - k)
      BY <3>1, <3>2
    <3>. QED
      BY <3>3 DEF i
  <2>7. Stands(f[k], Up(x, "ifs", m - k), l)
    BY <2>3, <2>5, <2>6
  <2>. QED
    BY <2>1, <2>7 DEF P
<1>. HIDE DEF P
<1>4. P[m]
  BY <1>2, <1>3, Loop
<1>5. Stands(f[m], Up(x, "ifs", m - m), l)
  BY <1>4 DEF P
<1>6. Up(x, "ifs", m - m) = x
  <2>1. m - m = 0
    OBVIOUS
  <2>. QED
    BY <2>1, UpTwice
<1>. QED
  BY <1>5, <1>6

(* The slots of the arms are a list.                                       *)
LEMMA Records ==
    ASSUME NEW bound, Sequence(bound), NEW locals, Len(locals) \in Nat
    PROVE  Sequence(RecordBoundSlots(bound, locals))
<1>. DEFINE n == Len(locals)
            recorded[k \in 0 .. n] ==
                IF k = 0 THEN bound
                ELSE IF \/ ~CanHoldAReference(locals[k].carrier)
                        \/ \E l \in ToSet(recorded[k - 1]) : l.slot = locals[k].slot
                THEN recorded[k - 1]
                ELSE Append(recorded[k - 1], locals[k])
<1>1. \A k, v : Turn("record", locals, bound, bound, k, v)
                    = IF \/ ~CanHoldAReference(locals[k].carrier)
                         \/ \E l \in ToSet(v) : l.slot = locals[k].slot
                      THEN v ELSE Append(v, locals[k])
  BY DEF Turn
<1>2. n \in Nat
  OBVIOUS
<1>3. RecordBoundSlots(bound, locals) = recorded[n]
  BY DEF RecordBoundSlots
<1>. HIDE DEF n
<1>4. recorded = [k \in 0 .. n |->
                IF k = 0 THEN bound
                ELSE IF \/ ~CanHoldAReference(locals[k].carrier)
                        \/ \E l \in ToSet(recorded[k - 1]) : l.slot = locals[k].slot
                THEN recorded[k - 1]
                ELSE Append(recorded[k - 1], locals[k])]
  <2>1. PICK f : IsTurning(f, "record", locals, bound, bound, bound, n)
    <3>. HIDE DEF recorded
    <3>. QED
      BY <1>2, Turns
  <2>2. f = [k \in 0 .. n |->
                IF k = 0 THEN bound
                ELSE IF \/ ~CanHoldAReference(locals[k].carrier)
                        \/ \E l \in ToSet(f[k - 1]) : l.slot = locals[k].slot
                THEN f[k - 1]
                ELSE Append(f[k - 1], locals[k])]
    <3>. HIDE DEF recorded
    <3>. QED
      BY <1>1, <2>1 DEF IsTurning
  <2>. QED
    BY <2>2
<1>. HIDE DEF recorded
<1>5. IsTurning(recorded, "record", locals, bound, bound, bound, n)
  BY <1>1, <1>4, Zenon DEF IsTurning
<1>. DEFINE P == [k \in 0 .. n |-> Sequence(recorded[k])]
<1>6. recorded[0] = bound /\ \A k \in 1 .. n : recorded[k] = Turn("record", locals, bound, bound, k, recorded[k - 1])
  BY <1>2, <1>5 DEF IsTurning
<1>7. P[0]
  BY <1>2, <1>6
<1>8. ASSUME NEW k \in 1 .. n, P[k - 1] PROVE P[k]
  <2>1. k - 1 \in 0 .. n /\ k \in 0 .. n
    BY <1>2
  <2>2. Sequence(recorded[k - 1])
    BY <1>8, <2>1
  <2>3. Sequence(Append(recorded[k - 1], locals[k]))
    BY <2>2, Grown
  <2>. DEFINE v == recorded[k - 1]
  <2>4. Turn("record", locals, bound, bound, k, v) \in {v, Append(v, locals[k])}
    <3>. HIDE DEF v
    <3>. QED
      BY <1>1
  <2>5. recorded[k] = v \/ recorded[k] = Append(v, locals[k])
    BY <1>6, <2>4
  <2>6. Sequence(recorded[k])
    BY <2>2, <2>3, <2>5
  <2>. QED
    BY <2>1, <2>6
<1>. HIDE DEF P
<1>9. P[n]
  BY <1>2, <1>7, <1>8, Loop
<1>. QED
  BY <1>2, <1>3, <1>9 DEF P

(* The default values of the parameters.                                   *)
LEMMA Defaults ==
    ASSUME NEW n \in Nat, NEW a, NEW h,
           n = 0 => Stands(h, Level, 0), n # 0 => Stands(h, Up(Level, "defaults", 1), 0),
           NEW f, IsTurning(f, "defaults", a, h, h, h, n)
    PROVE  Stands(f[n], Heights(0, 0, 0, 0, 0, 0, 0, IF n = 0 THEN 0 ELSE n + 1), 0)
<1>. DEFINE x(k) == Heights(0, 0, 0, 0, 0, 0, 0, k)
<1>1. \A k \in 0 .. n :
        f[k] = IF k = 0 THEN h
               ELSE PopTemporary(AssignDefaultParameter(Call(f[k - 1], "any"), a[k].slot, Newest(1)))
  <2>1. \A k, v : Turn("defaults", a, h, h, k, v)
                    = PopTemporary(AssignDefaultParameter(Call(v, "any"), a[k].slot, Newest(1)))
    BY DEF Turn
  <2>. QED
    BY <2>1 DEF IsTurning
<1>2. \A k : Up(x(k), "defaults", 1) = x(k + 1)
  BY RaisedDefaults
<1>3. f[0] = h
  BY <1>1
<1>4. CASE n = 0
  BY <1>3, <1>4 DEF Level
<1>5. CASE n # 0
  <2>. DEFINE P == [k \in 0 .. n |-> Stands(f[k], x(k + 1), 0)]
  <2>1. Stands(h, x(1), 0)
    <3>1. Level = x(0) /\ 0 + 1 = 1
      BY DEF Level
    <3>2. Stands(h, Up(x(0), "defaults", 1), 0)
      BY <1>5, <3>1
    <3>3. Up(x(0), "defaults", 1) = x(0 + 1)
      BY <1>2
    <3>. HIDE DEF x
    <3>. QED
      BY <3>1, <3>2, <3>3
  <2>. HIDE DEF x
  <2>2. P[0]
    <3>1. 0 + 1 = 1
      OBVIOUS
    <3>. QED
      BY <1>3, <2>1, <3>1
  <2>3. ASSUME NEW k \in 1 .. n, P[k - 1] PROVE P[k]
    <3>1. k - 1 \in 0 .. n /\ k \in 0 .. n /\ k - 1 + 1 = k /\ k # 0
      OBVIOUS
    <3>2. Stands(f[k - 1], x(k), 0)
      BY <2>3, <3>1
    <3>3. Stands(Call(f[k - 1], "any"), x(k), 0)
      BY <3>2, CallStands
    <3>4. Stands(AssignDefaultParameter(Call(f[k - 1], "any"), a[k].slot, Newest(1)), Up(x(k), "defaults", 1), 0)
      BY <3>3, AssignsDefault
    <3>5. Stands(PopTemporary(AssignDefaultParameter(Call(f[k - 1], "any"), a[k].slot, Newest(1))), x(k + 1), 0)
      BY <1>2, <3>4, PopsTemporary
    <3>6. Stands(f[k], x(k + 1), 0)
      BY <1>1, <3>1, <3>5
    <3>. QED
      BY <3>1, <3>6
  <2>. HIDE DEF P
  <2>4. P[n]
    BY <2>2, <2>3, Loop
  <2>5. Stands(f[n], x(n + 1), 0)
    BY <2>4 DEF P
  <2>. QED
    BY <1>5, <2>5 DEF x
<1>. QED
  BY <1>4, <1>5

(* Where a jump out of a loop gives up what the scopes it leaves hold.     *)
LEMMA JumpClears ==
    ASSUME IsBlocks(blocks), NEW h, NEW x, NEW l, Stands(h, x, l)
    PROVE  Stands(ClearLeftByJump(h), x, l)
<1>. DEFINE n == Len(blocks)
            a == InnermostLoop
            s == blocks
            cleared[k \in 0 .. n] ==
                IF k = 0 THEN h
                ELSE IF k < a THEN cleared[k - 1]
                ELSE ClearBlockLocals(cleared[k - 1], s[k].locals)
<1>1. \A k, v : Turn("jump", a, s, s, k, v)
                    = IF k < a THEN v ELSE ClearBlockLocals(v, s[k].locals)
  BY DEF Turn
<1>2. n \in Nat /\ \A k \in 1 .. n : IsBlock(s[k])
  BY DEF IsBlocks, IsAt, Sequence
<1>3. ClearLeftByJump(h) = cleared[n]
  BY DEF ClearLeftByJump
<1>. HIDE DEF n, a, s
<1>4. cleared = [k \in 0 .. n |->
                IF k = 0 THEN h
                ELSE IF k < a THEN cleared[k - 1]
                ELSE ClearBlockLocals(cleared[k - 1], s[k].locals)]
  <2>1. PICK f : IsTurning(f, "jump", a, s, s, h, n)
    <3>. HIDE DEF cleared
    <3>. QED
      BY <1>2, Turns
  <2>2. f = [k \in 0 .. n |->
                IF k = 0 THEN h
                ELSE IF k < a THEN f[k - 1]
                ELSE ClearBlockLocals(f[k - 1], s[k].locals)]
    <3>. HIDE DEF cleared
    <3>. QED
      BY <1>1, <2>1 DEF IsTurning
  <2>. QED
    BY <2>2
<1>. HIDE DEF cleared
<1>5. IsTurning(cleared, "jump", a, s, s, h, n)
  BY <1>1, <1>4, Zenon DEF IsTurning
<1>6. ASSUME NEW k \in 1 .. n, NEW e, Stands(e, x, l)
      PROVE  Stands(Turn("jump", a, s, s, k, e), x, l)
  <2>1. Len(s[k].locals) \in Nat
    BY <1>2 DEF IsBlock, Sequence
  <2>2. Stands(ClearBlockLocals(e, s[k].locals), x, l)
    BY <1>6, <2>1, ClearsBlockLocals
  <2>. QED
    BY <1>1, <1>6, <2>2
<1>7. Stands(cleared[n], x, l)
  BY <1>2, <1>5, <1>6, TurnsStand
<1>. QED
  BY <1>3, <1>7

(* The locals of a block are cleared and given back. *)
LEMMA ClosesScope ==
    ASSUME NEW h, NEW x, NEW l, Stands(h, x, l), NEW b, IsBlock(b)
    PROVE  /\ Stands(ClearBlockLocals(h, b.locals), x, l)
           /\ Stands(EndBlock(ClearBlockLocals(h, b.locals), b.surviving), x, l)
<1>1. Len(b.locals) \in Nat
  BY DEF IsBlock, Sequence
<1>2. Stands(ClearBlockLocals(h, b.locals), x, l)
  BY <1>1, ClearsBlockLocals
<1>. QED
  BY <1>2, EndsBlock

(* What stood when the innermost block was opened.                         *)
LEMMA Within ==
    ASSUME NEW h, NEW s, NEW n, Lowers(h, s, n)
    PROVE  /\ IsBlock(Last(s)) /\ Sequence(s) /\ Len(s) > 0
           /\ \E x : /\ Reaches(Front(s), x, n) /\ IsHeight(x)
                     /\ Reaches(s, Raise(x, Last(s)), n) /\ Stands(h, Raise(x, Last(s)), 0)
<1>1. Sequence(s) /\ Len(s) > 0 /\ IsBlocks(s)
  BY DEF Lowers, IsBlocks
<1>2. PICK y : Reaches(s, y, n) /\ Stands(h, y, 0)
  BY DEF Lowers
<1>3. PICK x : Reaches(Front(s), x, n) /\ IsHeight(x) /\ IsHeight(y) /\ y = Raise(x, Last(s))
  BY <1>1, <1>2, Descends
<1>4. IsBlock(Last(s))
  <2>1. Last(s) = s[Len(s)] /\ Len(s) \in 1 .. Len(s)
    BY <1>1, Shrunk
  <2>. QED
    BY <1>1, <2>1 DEF IsBlocks, IsAt
<1>. QED
  BY <1>1, <1>2, <1>3, <1>4

(* After a statement, with its temporaries cleared. *)
LEMMA Lowered ==
    ASSUME NEW s, IsBlocks(s), NEW x, NEW n, Reaches(s, x, n), NEW h, Stands(h, x, 0)
    PROVE  Lowers(ClearTemporaries(h), s, n)
BY ClearsTemporaries DEF Lowers

-----------------------------------------------------------------------------
(* One token of the text.                                                  *)

(* if. *)
LEMMA IfLowers ==
    ASSUME NEW n, Lowers(g, blocks, n), NEW t \in Tokens, If(t)
    PROVE  Lowers(g', blocks', n)
<1>. DEFINE line == WriteLine(g, Now)
            e == Expression(line, t.expr, "any")
            i == WriteIf(e, Newest(1))
            h == PopTemporary(i)
            b == Block(Now, "if", h.locals, Local(h, t))
<1>1. g' = WithLocal(h, t) /\ blocks' = Append(blocks, b) /\ t.op = "if"
  BY DEF If
<1>2. IsBlocks(blocks)
  BY DEF Lowers
<1>3. PICK x : Reaches(blocks, x, n) /\ Stands(g, x, 0)
  BY DEF Lowers
<1>. HIDE DEF b, h, i, e, line
<1>4. Stands(line, x, 0)
  BY <1>3, WritesLine DEF line
<1>5. Stands(e, x, 0)
  BY <1>1, <1>4, TokenIs, ExpressionStands DEF e
<1>6. Stands(i, Up(x, "ifs", 1), 0)
  BY <1>5, WritesIf DEF i
<1>7. Stands(WithLocal(h, t), Up(x, "ifs", 1), 0)
  BY <1>6, PopsTemporary, AddsOwnLocal DEF h
<1>8. IsBlock(b) /\ b.kind = "if"
  BY BlockIs, LocalIs DEF b, BlockKinds
<1>9. Raise(x, b) = Up(x, "ifs", 1)
  BY <1>8 DEF Raise
<1>. QED
  BY <1>1, <1>2, <1>3, <1>7, <1>8, <1>9, Opens

(* while. *)
LEMMA WhileLowers ==
    ASSUME NEW n, Lowers(g, blocks, n), NEW t \in Tokens, While(t)
    PROVE  Lowers(g', blocks', n)
<1>. DEFINE line == WriteLine(g, Now)
            begun == StartWhile(line)
            e == Expression(begun, t.expr, "any")
            i == WriteWhile(e, Newest(1))
            h == PopTemporary(i)
            b == Block(Now, "while", h.locals, Local(h, t))
<1>1. g' = WithLocal(h, t) /\ blocks' = Append(blocks, b) /\ t.op = "while"
  BY DEF While
<1>2. IsBlocks(blocks)
  BY DEF Lowers
<1>3. PICK x : Reaches(blocks, x, n) /\ Stands(g, x, 0)
  BY DEF Lowers
<1>. HIDE DEF b, h, i, e, begun, line
<1>4. Stands(line, x, 0)
  BY <1>3, WritesLine DEF line
<1>. DEFINE y == Up(Up(x, "breaks", 1), "continues", 1)
<1>5. Stands(begun, y, 0)
  BY <1>4, StartsWhile DEF begun
<1>6. IsBlock(b) /\ b.kind = "while"
  BY BlockIs, LocalIs DEF b, BlockKinds
<1>7. Raise(x, b) = Up(y, "whiles", 1)
  BY <1>6 DEF Raise
<1>. HIDE DEF y
<1>8. Stands(e, y, 0)
  BY <1>1, <1>5, TokenIs, ExpressionStands DEF e
<1>9. Stands(i, Up(y, "whiles", 1), 0)
  BY <1>8, WritesWhile DEF i
<1>10. Stands(WithLocal(h, t), Up(y, "whiles", 1), 0)
  BY <1>9, PopsTemporary, AddsOwnLocal DEF h
<1>. QED
  BY <1>1, <1>2, <1>3, <1>6, <1>7, <1>10, Opens

(* for. *)
LEMMA ForLowers ==
    ASSUME NEW n, Lowers(g, blocks, n), NEW t \in Tokens, For(t)
    PROVE  Lowers(g', blocks', n)
<1>. DEFINE line == AddLocal(WriteLine(g, Now))
            range == t.expr = "range"
            h == StartFor(line, range)
            element == g.locals + FirstSlot
            counter == element + 1
            a1 == WriteAssign(Calls(h, 2), counter + 1, Newest(2))
            a2 == WriteAssign(a1, counter + 2, Newest(1))
            a3 == WriteAssign(a2, counter + 3, ConstantSome)
            a4 == WriteAssign(Call(h, "any"), counter + 1, Newest(1))
            assigned == IF range THEN PopTemporaries(a3, 2) ELSE PopTemporary(a4)
            i == WriteFor(assigned, range, counter, element)
            b == Block(Now, "for", g.locals, Local(i, t))
<1>1. g' = WithLocal(i, t) /\ blocks' = Append(blocks, b)
  BY DEF For
<1>2. IsBlocks(blocks)
  BY DEF Lowers
<1>3. PICK x : Reaches(blocks, x, n) /\ Stands(g, x, 0)
  BY DEF Lowers
<1>4. 2 \in Nat
  OBVIOUS
<1>. DEFINE y == Up(x, "breaks", 1)
<1>. HIDE DEF b, i, assigned, a4, a3, a2, a1, counter, element, h, line, range
<1>5. IsBlock(b) /\ b.kind = "for"
  BY BlockIs, LocalIs DEF b, BlockKinds
<1>6. Raise(x, b) = Up(Up(y, "fors", 2), "continues", 1)
  BY <1>5 DEF Raise
<1>7. Stands(line, x, 0)
  BY <1>3, WritesLine, AddsLocal DEF line
<1>8. Stands(h, y, 0)
  BY <1>7, StartsFor DEF h
<1>. HIDE DEF y
<1>9. Stands(Calls(h, 2), y, 0) /\ Stands(Call(h, "any"), y, 0)
  BY <1>4, <1>8, CallsStand, CallStands
<1>10. Stands(a1, y, 0)
  BY <1>9, WritesAssign DEF a1
<1>11. Stands(a2, y, 0)
  BY <1>10, WritesAssign DEF a2
<1>12. Stands(a3, y, 0)
  BY <1>11, WritesAssign DEF a3
<1>13. Stands(a4, y, 0)
  BY <1>9, WritesAssign DEF a4
<1>14. Stands(PopTemporaries(a3, 2), y, 0) /\ Stands(PopTemporary(a4), y, 0)
  BY <1>12, <1>13, PopsTemporaries, PopsTemporary
<1>15. Stands(assigned, y, 0)
  BY <1>14 DEF assigned
<1>16. Stands(i, Up(Up(y, "fors", 2), "continues", 1), 0)
  BY <1>15, WritesFor DEF i
<1>17. Stands(WithLocal(i, t), Up(Up(y, "fors", 2), "continues", 1), 0)
  BY <1>16, AddsOwnLocal
<1>. QED
  BY <1>1, <1>2, <1>3, <1>5, <1>6, <1>17, Opens

(* match. *)
LEMMA MatchLowers ==
    ASSUME NEW n, Lowers(g, blocks, n), NEW t \in Tokens, Match(t)
    PROVE  Lowers(g', blocks', n)
<1>. DEFINE line == WriteLine(g, Now)
            h == AddLocal(line)
            value == [slot |-> NewestLocal(h), carrier |-> "any"]
            subject == Expression(h, t.expr, "any")
            a == WriteAssign(subject, value.slot, Newest(1))
            i == AddLocal(PopTemporary(a))
            b == Block(Now, "match", g.locals, <<value>>)
<1>1. /\ g' = WriteTypeOf(i, NewestLocal(i), value.slot)
      /\ blocks' = Append(blocks, b) /\ t.op = "match"
  BY DEF Match
<1>2. IsBlocks(blocks)
  BY DEF Lowers
<1>3. PICK x : Reaches(blocks, x, n) /\ Stands(g, x, 0)
  BY DEF Lowers
<1>. HIDE DEF b, i, a, subject, value, h, line
<1>4. IsBlock(b) /\ b.kind = "match" /\ b.arms = 0
  BY BlockIs, OneLocal DEF b, BlockKinds
<1>5. Raise(x, b) = Up(x, "ifs", 0)
  BY <1>4 DEF Raise
<1>6. Up(x, "ifs", 0) = x
  <2>1. IsHeight(x)
    BY <1>2, <1>3, <1>4, Climbs DEF IsBlocks
  <2>. QED
    BY <2>1, UpTwice
<1>7. Stands(line, x, 0)
  BY <1>3, WritesLine DEF line
<1>8. Stands(h, x, 0)
  BY <1>7, AddsLocal DEF h
<1>9. Stands(subject, x, 0)
  BY <1>1, <1>8, TokenIs, ExpressionStands DEF subject
<1>10. Stands(a, x, 0)
  BY <1>9, WritesAssign DEF a
<1>11. Stands(i, x, 0)
  BY <1>10, PopsTemporary, AddsLocal DEF i
<1>12. Stands(g', x, 0)
  BY <1>1, <1>11, WritesAssign
<1>. QED
  BY <1>1, <1>2, <1>3, <1>4, <1>5, <1>6, <1>12, Opens

(* Two elements more are one and one. *)
LEMMA TwoMore ==
    ASSUME NEW s, Sequence(s), NEW a, NEW b
    PROVE  s \o <<a, b>> = Append(Append(s, a), b)
<1>. DEFINE T == Range(s) \cup {a, b}
<1>1. s \in Seq(Range(s)) /\ Range(s) \subseteq T /\ a \in T /\ b \in T
  BY DEF Sequence
<1>. HIDE DEF T
<1>2. s \in Seq(T)
  BY <1>1
<1>. QED
  BY <1>1, <1>2

(* An arm behind the others of its match.                                  *)
LEMMA ArmOpens ==
    ASSUME NEW s, IsBlocks(s), NEW x, NEW n, Reaches(s, x, n), NEW m, IsBlock(m), m.kind = "match",
           NEW locals, Sequence(locals), NEW b, IsBlock(b), b.kind = "branch",
           NEW h, Stands(h, Up(Up(x, "ifs", m.arms), "ifs", 1), 0)
    PROVE  Lowers(h, s \o <<[m EXCEPT !.arms = @ + 1, !.bound = RecordBoundSlots(@, locals)], b>>, n)
<1>. DEFINE bound == RecordBoundSlots(m.bound, locals)
            arm == [m EXCEPT !.arms = m.arms + 1, !.bound = bound]
            r == Append(s, arm)
<1>1. Sequence(bound)
  <2>1. Sequence(m.bound) /\ Len(locals) \in Nat
    BY DEF IsBlock, Sequence
  <2>. QED
    BY <2>1, Records
<1>. HIDE DEF bound
<1>2. IsBlock(arm) /\ arm.kind = "match" /\ arm.arms = m.arms + 1 /\ m.arms \in Nat
  <2>. DEFINE j == m.arms + 1
              k == m.locals
              q == m.kind
  <2>1. m.arms \in Nat /\ j \in Nat /\ Sequence(k) /\ q \in BlockKinds /\ q = "match"
    BY DEF IsBlock
  <2>2. m \in [token : {m.token}, kind : BlockKinds, surviving : {m.surviving}, locals : {k},
               arms : Nat, bound : {m.bound}, previous : {m.previous}]
    BY DEF IsBlock
  <2>3. arm = [m EXCEPT !.arms = j, !.bound = bound]
    OBVIOUS
  <2>. HIDE DEF j, k, arm
  <2>4. /\ arm \in [token : {m.token}, kind : BlockKinds, surviving : {m.surviving}, locals : {k},
                    arms : Nat, bound : {bound}, previous : {m.previous}]
        /\ arm.kind = q /\ arm.arms = j
    BY <2>1, <2>2, <2>3
  <2>5. IsBlock(arm)
    BY <1>1, <2>1, <2>4 DEF IsBlock
  <2>. QED
    BY <2>1, <2>4, <2>5 DEF j
<1>. HIDE DEF arm
<1>3. Sequence(s)
  BY DEF IsBlocks
<1>4. IsBlocks(r) /\ Reaches(r, Raise(x, arm), n) /\ IsHeight(x)
  BY <1>2, <1>3, BlocksGrow, Climbs
<1>5. Raise(x, arm) = Up(x, "ifs", m.arms + 1)
  BY <1>2 DEF Raise
<1>6. Up(Up(x, "ifs", m.arms), "ifs", 1) = Up(x, "ifs", m.arms + 1)
  <2>1. m.arms \in Int /\ 1 \in Int
    BY <1>2
  <2>. QED
    BY <1>4, <2>1, UpTwice
<1>7. Last(r) = arm
  <2>1. Sequence(r) /\ Len(r) = Len(s) + 1 /\ Len(s) \in Nat /\ r[Len(s) + 1] = arm
    BY <1>3, Grown
  <2>2. Len(r) > 0
    BY <2>1
  <2>. HIDE DEF r
  <2>3. Last(r) = r[Len(r)]
    BY <2>1, <2>2, Shrunk
  <2>. QED
    BY <2>1, <2>3
<1>. HIDE DEF r
<1>8. IsBlocks(Append(r, b))
  <2>1. Last(r).kind = "match" /\ Last(r).arms > 0
    BY <1>2, <1>7
  <2>. QED
    BY <1>4, <2>1, BlocksGrow
<1>9. Reaches(Append(r, b), Raise(Raise(x, arm), b), n)
  BY <1>4, Climbs DEF IsBlocks
<1>10. Raise(Raise(x, arm), b) = Raise(x, arm)
  BY DEF Raise
<1>11. Stands(h, Raise(x, arm), 0)
  BY <1>5, <1>6
<1>12. Lowers(h, Append(r, b), n)
  BY <1>8, <1>9, <1>10, <1>11 DEF Lowers
<1>13. s \o <<arm, b>> = Append(r, b)
  BY <1>3, TwoMore DEF r
<1>14. Lowers(h, s \o <<arm, b>>, n)
  BY <1>12, <1>13
<1>15. arm = [m EXCEPT !.arms = @ + 1, !.bound = RecordBoundSlots(@, locals)]
  BY DEF arm, bound
<1>. QED
  BY <1>14, <1>15

(* What an arm writes in front of its body.                                *)
LEMMA ArmStands ==
    ASSUME NEW h, NEW x, Stands(h, x, 0), NEW t \in Tokens, t.op = "branch", NEW n, NEW a, NEW b
    PROVE  /\ Stands(PopTemporary(WriteIf(Verdict(WriteLine(WithLocal(h, t), n), t.expr, a, b),
                                          Newest(1))), Up(x, "ifs", 1), 0)
           /\ Stands(PopTemporary(WriteIf(Verdict(WriteLine(WithLocal(AddLocal(h), t), n), t.expr, a, b),
                                          Newest(1))), Up(x, "ifs", 1), 0)
<1>1. t.expr \in DOMAIN Patterns
  BY TokenIs
<1>2. ASSUME NEW i, Stands(i, x, 0)
      PROVE  Stands(PopTemporary(WriteIf(Verdict(WriteLine(WithLocal(i, t), n), t.expr, a, b),
                                         Newest(1))), Up(x, "ifs", 1), 0)
  <2>1. Stands(WithLocal(i, t), x, 0)
    BY <1>2, AddsOwnLocal
  <2>2. Stands(WriteLine(WithLocal(i, t), n), x, 0)
    BY <2>1, WritesLine
  <2>3. Stands(Verdict(WriteLine(WithLocal(i, t), n), t.expr, a, b), x, 0)
    BY <1>1, <2>2, VerdictStands
  <2>4. Stands(WriteIf(Verdict(WriteLine(WithLocal(i, t), n), t.expr, a, b), Newest(1)),
               Up(x, "ifs", 1), 0)
    BY <2>3, WritesIf
  <2>. QED
    BY <2>4, PopsTemporary
<1>3. Stands(AddLocal(h), x, 0)
  BY AddsLocal
<1>. QED
  BY <1>2, <1>3

(* An arm: one more jump is pending for its match. *)
LEMMA BranchLowers ==
    ASSUME NEW n, Lowers(g, blocks, n), NEW t \in Tokens, Branch(t)
    PROVE  Lowers(g', blocks', n)
<1>. DEFINE more == Top.kind = "branch"
            m == IF more THEN blocks[Len(blocks) - 1] ELSE Top
            closed == EndBlock(ClearBlockLocals(g, Top.locals), Top.surviving)
            opened == IF more THEN ClearBlockLocals(WriteElse(closed), Top.locals) ELSE g
            bind == IF Binds(t.expr)
                    THEN <<[slot |-> opened.locals + FirstSlot, carrier |-> "any"]>> ELSE <<>>
            h == IF bind = <<>> THEN opened ELSE AddLocal(opened)
            i == WithLocal(h, t)
            verdict == Verdict(WriteLine(i, Now), t.expr, m.locals[1].slot, opened.locals + FirstSlot)
            locals == bind \o Local(h, t)
            s == IF more THEN Front(Front(blocks)) ELSE Front(blocks)
            b == Block(Now, "branch", opened.locals, locals)
            k == PopTemporary(WriteIf(verdict, Newest(1)))
<1>1. /\ g' = k /\ t.op = "branch" /\ Top.kind \in {"match", "branch"}
      /\ blocks' = s \o <<[m EXCEPT !.arms = @ + 1, !.bound = RecordBoundSlots(@, locals)], b>>
  BY DEF Branch
<1>2. Sequence(bind)
  <2>1. Sequence(<<>>)
    BY NoCode DEF Laid
  <2>2. Sequence(<<[slot |-> opened.locals + FirstSlot, carrier |-> "any"]>>)
    BY OneLocal
  <2>. QED
    BY <2>1, <2>2
<1>. HIDE DEF k, bind
<1>3. Sequence(locals)
  BY <1>2, LocalIs, Joined
<1>. HIDE DEF locals, s
<1>4. IsBlock(b) /\ b.kind = "branch"
  BY <1>3, BlockIs DEF b, BlockKinds
<1>. HIDE DEF b
<1>5. ASSUME NEW x, Stands(opened, x, 0) PROVE Stands(k, Up(x, "ifs", 1), 0)
  <2>. DEFINE a == m.locals[1].slot
              f == opened.locals + FirstSlot
              j == Now
  <2>1. \/ k = PopTemporary(WriteIf(Verdict(WriteLine(WithLocal(opened, t), j), t.expr, a, f), Newest(1)))
        \/ k = PopTemporary(WriteIf(Verdict(WriteLine(WithLocal(AddLocal(opened), t), j), t.expr, a, f),
                                    Newest(1)))
    BY DEF k
  <2>. HIDE DEF a, f, j, opened
  <2>. QED
    BY <1>1, <1>5, <2>1, ArmStands
<1>6. PICK y : /\ Reaches(Front(blocks), y, n) /\ IsHeight(y) /\ IsBlock(Top)
               /\ Stands(g, Raise(y, Top), 0)
  BY Within DEF Top
<1>7. IsBlocks(blocks) /\ Sequence(blocks) /\ Len(blocks) > 0
  BY Within DEF Lowers
<1>8. /\ IsBlocks(Front(blocks))
      /\ more => /\ Last(Front(blocks)).kind = "match" /\ Last(Front(blocks)).arms > 0
                 /\ Last(Front(blocks)) = blocks[Len(blocks) - 1]
  BY <1>1, <1>7, BlocksShrink DEF Top
<1>9. CASE ~more
  <2>1. m = Top /\ m.kind = "match" /\ s = Front(blocks) /\ opened = g
    BY <1>1, <1>9 DEF s
  <2>2. Raise(y, m) = Up(y, "ifs", m.arms)
    BY <2>1 DEF Raise
  <2>3. Stands(opened, Up(y, "ifs", m.arms), 0)
    BY <1>6, <2>1, <2>2
  <2>. HIDE DEF m, opened, more
  <2>4. Stands(g', Up(Up(y, "ifs", m.arms), "ifs", 1), 0)
    BY <1>1, <1>5, <2>3
  <2>. QED
    BY <1>1, <1>3, <1>4, <1>6, <1>8, <2>1, <2>4, ArmOpens
<1>10. CASE more
  <2>. DEFINE r == Front(blocks)
  <2>1. /\ m = Last(r) /\ m.kind = "match" /\ m.arms > 0 /\ s = Front(r)
        /\ opened = ClearBlockLocals(WriteElse(closed), Top.locals)
    BY <1>1, <1>8, <1>10 DEF s
  <2>2. Raise(y, Top) = y
    BY <1>10 DEF Raise
  <2>. HIDE DEF r, m, opened, closed, more
  <2>3. Sequence(r) /\ Len(r) > 0 /\ IsBlocks(r) /\ Reaches(r, y, n)
    BY <1>6, <1>8 DEF IsBlocks, r
  <2>4. PICK x : Reaches(Front(r), x, n) /\ IsHeight(x) /\ y = Raise(x, Last(r))
    BY <2>3, Descends
  <2>5. IsBlocks(Front(r)) /\ IsBlock(m)
    BY <2>1, <2>3, BlocksShrink
  <2>6. y = Up(x, "ifs", m.arms) /\ y.ifs >= m.arms
    BY <2>1, <2>4, <2>5, RaiseIs DEF Raise
  <2>7. y.ifs > 0
    BY <1>6, <2>1, <2>5, <2>6 DEF IsHeight, IsBlock
  <2>8. Stands(g, y, 0)
    BY <1>6, <2>2
  <2>9. Stands(closed, y, 0)
    BY <1>6, <2>8, ClosesScope DEF closed
  <2>10. Stands(WriteElse(closed), y, 0)
    BY <2>7, <2>9, WritesElse
  <2>11. Stands(opened, y, 0)
    BY <1>6, <2>1, <2>10, ClosesScope
  <2>12. Stands(g', Up(Up(x, "ifs", m.arms), "ifs", 1), 0)
    BY <1>1, <1>5, <2>6, <2>11
  <2>. QED
    BY <1>1, <1>3, <1>4, <2>1, <2>4, <2>5, <2>12, ArmOpens
<1>. QED
  BY <1>9, <1>10

(* else: the jump of its if leads behind the jump over it. *)
LEMMA ElseLowers ==
    ASSUME NEW n, Lowers(g, blocks, n), NEW t \in Tokens, Else(t)
    PROVE  Lowers(g', blocks', n)
<1>. DEFINE closed == EndBlock(ClearBlockLocals(g, Top.locals), Top.surviving)
            h == WriteElse(closed)
            b == Block(Now, "if", h.locals, Local(h, t))
<1>1. g' = WithLocal(h, t) /\ blocks' = Append(Front(blocks), b) /\ Top.kind = "if"
  BY DEF Else
<1>. HIDE DEF b, h, closed
<1>2. PICK x : /\ Reaches(Front(blocks), x, n) /\ IsHeight(x) /\ IsBlock(Top)
               /\ Stands(g, Raise(x, Top), 0)
  BY Within DEF Top
<1>3. IsBlocks(Front(blocks))
  BY <1>1, BlocksShrink DEF Lowers, Top
<1>4. IsBlock(b) /\ b.kind = "if"
  BY BlockIs, LocalIs DEF b, BlockKinds
<1>5. Raise(x, b) = Raise(x, Top) /\ Raise(x, Top).ifs > 0
  <2>1. Raise(x, b) = Up(x, "ifs", 1) /\ Raise(x, Top) = Up(x, "ifs", 1)
    BY <1>1, <1>4 DEF Raise
  <2>. QED
    BY <1>1, <1>2, <2>1, RaiseIs
<1>6. Stands(closed, Raise(x, Top), 0)
  BY <1>2, ClosesScope DEF closed
<1>7. Stands(h, Raise(x, b), 0)
  BY <1>5, <1>6, WritesElse DEF h
<1>8. Stands(WithLocal(h, t), Raise(x, b), 0)
  BY <1>7, AddsOwnLocal
<1>. QED
  BY <1>1, <1>2, <1>3, <1>4, <1>8, Opens

(* break and continue, which clear the blocks they leave. *)
LEMMA JumpLowers ==
    ASSUME NEW n, Lowers(g, blocks, n), NEW t \in Tokens, Jump(t)
    PROVE  Lowers(g', blocks', n)
<1>. DEFINE line == WriteLine(g, Now)
            h == ClearLeftByJump(line)
<1>1. /\ g' = WriteBreak(h) \/ g' = WriteContinue(h)
      /\ blocks' = blocks /\ \E i \in DOMAIN blocks : IsLoop(blocks[i])
  BY DEF Jump
<1>. HIDE DEF line, h
<1>2. IsBlocks(blocks)
  BY DEF Lowers
<1>3. PICK x : Reaches(blocks, x, n) /\ Stands(g, x, 0)
  BY DEF Lowers
<1>4. x.breaks > 0 /\ x.continues > 0
  <2>1. DOMAIN blocks = 1 .. Len(blocks)
    BY <1>2 DEF IsBlocks, Sequence
  <2>. QED
    BY <1>1, <1>2, <1>3, <2>1, LoopsHold
<1>5. Stands(line, x, 0)
  BY <1>3, WritesLine DEF line
<1>6. Stands(h, x, 0)
  BY <1>2, <1>5, JumpClears DEF h
<1>7. Stands(WriteBreak(h), x, 0) /\ Stands(WriteContinue(h), x, 0)
  BY <1>4, <1>6, WritesBreak, WritesContinue
<1>8. Stands(g', x, 0)
  BY <1>1, <1>7
<1>. QED
  BY <1>1, <1>2, <1>3, <1>8 DEF Lowers

(* Statements that open no block.                                          *)
LEMMA ReturnLowers ==
    ASSUME NEW n, Lowers(g, blocks, n), NEW t \in Tokens, Return(t)
    PROVE  Lowers(g', blocks', n)
<1>. DEFINE line == WriteLine(g, Now)
            e == Expression(line, t.expr, "any")
            h == IF t.expr = "none" THEN WriteReturn(line, ConstantNull)
                 ELSE PopTemporary(WriteReturn(e, Newest(1)))
<1>1. g' = ClearTemporaries(h) /\ blocks' = blocks /\ t.op = "return"
  BY DEF Return
<1>2. IsBlocks(blocks)
  BY DEF Lowers
<1>3. PICK x : Reaches(blocks, x, n) /\ Stands(g, x, 0)
  BY DEF Lowers
<1>. HIDE DEF line, e
<1>4. Stands(line, x, 0)
  BY <1>3, WritesLine DEF line
<1>5. Stands(h, x, 0)
  <2>1. CASE t.expr = "none"
    BY <1>4, <2>1, WritesReturn
  <2>2. CASE t.expr # "none"
    <3>1. Stands(e, x, 0)
      BY <1>1, <1>4, <2>2, TokenIs, ExpressionStands DEF e
    <3>2. Stands(PopTemporary(WriteReturn(e, Newest(1))), x, 0)
      BY <3>1, WritesReturn, PopsTemporary
    <3>. QED
      BY <2>2, <3>2
  <2>. QED
    BY <2>1, <2>2
<1>. HIDE DEF h
<1>. QED
  BY <1>1, <1>2, <1>3, <1>5, Lowered

(* An expression as a statement. *)
LEMMA EvaluateLowers ==
    ASSUME NEW n, Lowers(g, blocks, n), NEW t \in Tokens, Evaluate(t)
    PROVE  Lowers(g', blocks', n)
<1>. DEFINE line == WriteLine(g, Now)
            h == Discarded(line, t.expr)
<1>1. g' = ClearTemporaries(h) /\ blocks' = blocks /\ t.op = "expr"
  BY DEF Evaluate
<1>2. IsBlocks(blocks)
  BY DEF Lowers
<1>3. PICK x : Reaches(blocks, x, n) /\ Stands(g, x, 0)
  BY DEF Lowers
<1>. HIDE DEF line, h
<1>4. Stands(line, x, 0)
  BY <1>3, WritesLine DEF line
<1>5. Stands(h, x, 0)
  BY <1>1, <1>4, TokenIs, DiscardedStands DEF h
<1>. QED
  BY <1>1, <1>2, <1>3, <1>5, Lowered

(* assert. *)
LEMMA AssertLowers ==
    ASSUME NEW n, Lowers(g, blocks, n), NEW t \in Tokens, AssertStatement(t)
    PROVE  Lowers(g', blocks', n)
<1>. DEFINE line == WriteLine(g, Now)
            both == Calls(line, 2)
            asserted == WriteAssert(both, Newest(2), Newest(1))
            h == PopTemporaries(asserted, 2)
<1>1. g' = ClearTemporaries(h) /\ blocks' = blocks
  BY DEF AssertStatement
<1>2. IsBlocks(blocks)
  BY DEF Lowers
<1>3. PICK x : Reaches(blocks, x, n) /\ Stands(g, x, 0)
  BY DEF Lowers
<1>. HIDE DEF line, both, asserted, h
<1>4. Stands(line, x, 0)
  BY <1>3, WritesLine DEF line
<1>5. Stands(both, x, 0)
  <2>1. 2 \in Nat
    OBVIOUS
  <2>. QED
    BY <1>4, <2>1, CallsStand DEF both
<1>6. Stands(asserted, x, 0)
  BY <1>5, WritesAssign DEF asserted
<1>7. Stands(h, x, 0)
  BY <1>6, PopsTemporaries DEF h
<1>. QED
  BY <1>1, <1>2, <1>3, <1>7, Lowered

(* var. *)
LEMMA VarLowers ==
    ASSUME NEW n, Lowers(g, blocks, n), NEW t \in Tokens, Var(t)
    PROVE  Lowers(g', blocks', n)
<1>. DEFINE local == slots[<<Top.token, "local">>]
            line == WriteLine(g, Now)
            value == Expression(line, t.expr, local.carrier)
            assigned == PopTemporary(WriteAssign(value, local.slot, Newest(1)))
            cleared == ClearLocal(line, local)
            h == IF t.expr # "none" THEN assigned
                 ELSE IF NeedsClear(local) THEN cleared ELSE line
<1>1. g' = ClearTemporaries(h) /\ blocks' = blocks /\ t.op = "var"
  BY DEF Var
<1>2. IsBlocks(blocks)
  BY DEF Lowers
<1>3. PICK x : Reaches(blocks, x, n) /\ Stands(g, x, 0)
  BY DEF Lowers
<1>. HIDE DEF line, local, value, assigned, cleared
<1>4. Stands(line, x, 0)
  BY <1>3, WritesLine DEF line
<1>5. ASSUME t.expr # "none" PROVE Stands(assigned, x, 0)
  <2>1. Stands(value, x, 0)
    BY <1>1, <1>4, <1>5, TokenIs, ExpressionStands DEF value
  <2>2. Stands(WriteAssign(value, local.slot, Newest(1)), x, 0)
    BY <2>1, WritesAssign
  <2>. QED
    BY <2>2, PopsTemporary DEF assigned
<1>6. Stands(cleared, x, 0)
  BY <1>4, ClearsLocal DEF cleared
<1>7. Stands(h, x, 0)
  BY <1>4, <1>5, <1>6
<1>. HIDE DEF h
<1>. QED
  BY <1>1, <1>2, <1>3, <1>7, Lowered

(* The end of an if: its jump leads there. *)
LEMMA EndIfLowers ==
    ASSUME NEW n, Lowers(g, blocks, n), EndIf
    PROVE  Lowers(g', blocks', n)
<1>. DEFINE closed == EndBlock(ClearBlockLocals(g, Top.locals), Top.surviving)
            h == WriteEndIf(closed)
<1>1. g' = ClearTemporaries(h) /\ blocks' = Front(blocks) /\ Top.kind = "if"
  BY DEF EndIf
<1>. HIDE DEF h, closed
<1>2. PICK x : /\ Reaches(Front(blocks), x, n) /\ IsHeight(x) /\ IsBlock(Top)
               /\ Stands(g, Raise(x, Top), 0)
  BY Within DEF Top
<1>3. IsBlocks(Front(blocks))
  BY <1>1, BlocksShrink DEF Lowers, Top
<1>4. Raise(x, Top).ifs > 0 /\ Up(Raise(x, Top), "ifs", -1) = x
  BY <1>1, <1>2, RaiseIs, RaiseAndEnd
<1>5. Stands(closed, Raise(x, Top), 0)
  BY <1>2, ClosesScope DEF closed
<1>6. Stands(h, Up(Raise(x, Top), "ifs", -1), 0)
  BY <1>4, <1>5, WritesEndIf DEF h
<1>7. Stands(h, x, 0)
  BY <1>4, <1>6
<1>. QED
  BY <1>1, <1>2, <1>3, <1>7, Lowered

(* The end of a loop. *)
LEMMA EndLoopLowers ==
    ASSUME NEW n, Lowers(g, blocks, n), EndLoop
    PROVE  Lowers(g', blocks', n)
<1>. DEFINE cleared == ClearBlockLocals(g, Top.locals)
            h == IF Top.kind = "while" THEN WriteEndWhile(cleared) ELSE WriteEndFor(cleared)
            i == EndBlock(ClearBlockLocals(h, Top.locals), Top.surviving)
<1>1. g' = ClearTemporaries(i) /\ blocks' = Front(blocks) /\ IsLoop(Top)
  BY DEF EndLoop
<1>2. Top.kind = "while" \/ Top.kind = "for"
  BY <1>1 DEF IsLoop, Loops
<1>3. /\ Top.kind = "while" => h = WriteEndWhile(cleared)
      /\ Top.kind = "for" => h = WriteEndFor(cleared)
  OBVIOUS
<1>. HIDE DEF i, h, cleared
<1>4. PICK x : /\ Reaches(Front(blocks), x, n) /\ IsHeight(x) /\ IsBlock(Top)
               /\ Stands(g, Raise(x, Top), 0)
  BY Within DEF Top
<1>5. IsBlocks(Front(blocks))
  BY <1>2, BlocksShrink DEF Lowers, Top
<1>6. Raise(x, Top).breaks > 0 /\ Raise(x, Top).continues > 0
  BY <1>1, <1>4, RaiseIs
<1>7. Stands(cleared, Raise(x, Top), 0)
  BY <1>4, ClosesScope DEF cleared
<1>8. CASE Top.kind = "while"
  <2>1. /\ Raise(x, Top).whiles > 0
        /\ Up(Up(Up(Raise(x, Top), "whiles", -1), "breaks", -1), "continues", -1) = x
    BY <1>4, <1>8, RaiseIs, RaiseAndEnd
  <2>2. Stands(WriteEndWhile(cleared),
               Up(Up(Up(Raise(x, Top), "whiles", -1), "breaks", -1), "continues", -1), 0)
    BY <1>6, <1>7, <2>1, WritesEndWhile
  <2>3. Stands(h, x, 0)
    BY <1>3, <1>8, <2>1, <2>2
  <2>4. Stands(i, x, 0)
    BY <1>4, <2>3, ClosesScope DEF i
  <2>. QED
    BY <1>1, <1>4, <1>5, <2>4, Lowered
<1>9. CASE Top.kind = "for"
  <2>1. /\ Raise(x, Top).fors > 1
        /\ Up(Up(Up(Raise(x, Top), "fors", -2), "breaks", -1), "continues", -1) = x
    BY <1>4, <1>9, RaiseIs, RaiseAndEnd
  <2>2. Stands(WriteEndFor(cleared),
               Up(Up(Up(Raise(x, Top), "fors", -2), "breaks", -1), "continues", -1), 0)
    BY <1>6, <1>7, <2>1, WritesEndFor
  <2>3. Stands(h, x, 0)
    BY <1>3, <1>9, <2>1, <2>2
  <2>4. Stands(i, x, 0)
    BY <1>4, <2>3, ClosesScope DEF i
  <2>. QED
    BY <1>1, <1>4, <1>5, <2>4, Lowered
<1>. QED
  BY <1>2, <1>8, <1>9

(* The end of a match: the jumps of its arms lead there. *)
LEMMA EndMatchLowers ==
    ASSUME NEW n, Lowers(g, blocks, n), EndMatch
    PROVE  Lowers(g', blocks', n)
<1>. DEFINE m == blocks[Len(blocks) - 1]
            last == EndBlock(ClearBlockLocals(g, Top.locals), Top.surviving)
            joined[k \in 0 .. m.arms] == IF k = 0 THEN last ELSE WriteEndIf(joined[k - 1])
            j == joined[m.arms]
            swept == ClearBlockLocals(ClearBlockLocals(j, m.bound), m.locals)
            i == EndBlock(swept, m.surviving)
<1>1. g' = ClearTemporaries(i) /\ blocks' = Front(Front(blocks)) /\ Top.kind = "branch"
  BY DEF EndMatch
<1>. HIDE DEF i, swept, j
<1>2. PICK y : /\ Reaches(Front(blocks), y, n) /\ IsHeight(y) /\ IsBlock(Top)
               /\ Stands(g, Raise(y, Top), 0)
  BY Within DEF Top
<1>. DEFINE r == Front(blocks)
<1>3. IsBlocks(r) /\ m = Last(r) /\ m.kind = "match"
  BY <1>1, BlocksShrink DEF Lowers, Top
<1>. HIDE DEF r, m, last
<1>4. Sequence(r) /\ Len(r) > 0 /\ Reaches(r, y, n)
  BY <1>2, <1>3 DEF IsBlocks, r
<1>5. PICK x : Reaches(Front(r), x, n) /\ IsHeight(x) /\ y = Raise(x, Last(r))
  BY <1>4, Descends
<1>6. IsBlocks(Front(r)) /\ IsBlock(m)
  BY <1>3, BlocksShrink
<1>7. m.arms \in Nat /\ Len(m.bound) \in Nat /\ Len(m.locals) \in Nat
  BY <1>6 DEF IsBlock, Sequence
<1>8. Raise(y, Top) = Up(x, "ifs", m.arms)
  <2>1. Raise(y, Top) = y
    BY <1>1 DEF Raise
  <2>2. Raise(x, m) = Up(x, "ifs", m.arms)
    BY <1>3 DEF Raise
  <2>. QED
    BY <1>3, <1>5, <2>1, <2>2
<1>9. Stands(last, Up(x, "ifs", m.arms), 0)
  BY <1>2, <1>8, ClosesScope DEF last
<1>10. IsTurning(joined, "arms", last, last, last, last, m.arms)
  <2>. DEFINE a == m.arms
  <2>1. a \in Nat
    BY <1>7
  <2>2. \A k, v : Turn("arms", last, last, last, k, v) = WriteEndIf(v)
    BY DEF Turn
  <2>. HIDE DEF a
  <2>3. PICK f : IsTurning(f, "arms", last, last, last, last, a)
    <3>. HIDE DEF joined
    <3>. QED
      BY <2>1, Turns
  <2>4. f = [k \in 0 .. a |-> IF k = 0 THEN last ELSE WriteEndIf(f[k - 1])]
    <3>. HIDE DEF joined
    <3>. QED
      BY <2>2, <2>3 DEF IsTurning
  <2>5. joined = [k \in 0 .. a |-> IF k = 0 THEN last ELSE WriteEndIf(joined[k - 1])]
    BY <2>4 DEF a
  <2>. HIDE DEF joined
  <2>6. IsTurning(joined, "arms", last, last, last, last, a)
    BY <2>2, <2>5 DEF IsTurning
  <2>. QED
    BY <2>6 DEF a
<1>11. j = joined[m.arms]
  BY DEF j
<1>. HIDE DEF joined
<1>12. Stands(j, x, 0)
  BY <1>5, <1>7, <1>9, <1>10, <1>11, ArmsEnd
<1>13. Stands(ClearBlockLocals(j, m.bound), x, 0)
  BY <1>7, <1>12, ClearsBlockLocals
<1>14. Stands(swept, x, 0)
  BY <1>7, <1>13, ClearsBlockLocals DEF swept
<1>15. Stands(i, x, 0)
  BY <1>14, EndsBlock DEF i
<1>16. blocks' = Front(r)
  BY <1>1 DEF r
<1>. QED
  BY <1>1, <1>5, <1>6, <1>15, <1>16, Lowered

(* The end of a function: what has been lowered runs. *)
LEMMA EndFunctionIs ==
    ASSUME NEW n, Lowers(g, blocks, n), EndFunction
    PROVE  IsFunction(function', n)
<1>. DEFINE h == EndBlock(ClearBlockLocals(g, Top.locals), Top.surviving)
<1>1. function' = WriteEnd(WriteReturn(h, ConstantNull)) /\ Top.kind = "func"
  BY DEF EndFunction
<1>. HIDE DEF h
<1>2. PICK x : /\ Reaches(Front(blocks), x, n) /\ IsHeight(x) /\ IsBlock(Top)
               /\ Stands(g, Raise(x, Top), 0)
  BY Within DEF Top
<1>3. Sequence(blocks) /\ Len(blocks) > 0 /\ IsBlocks(blocks)
  BY Within DEF Lowers
<1>4. Len(Front(blocks)) = 0
  <2>1. Top = blocks[Len(blocks)] /\ Len(blocks) \in Nat /\ Len(Front(blocks)) = Len(blocks) - 1
    BY <1>3, Shrunk DEF Top
  <2>2. IsAt(blocks, Len(blocks))
    BY <1>3, <2>1 DEF IsBlocks
  <2>3. Len(blocks) = 1
    BY <1>1, <2>1, <2>2 DEF IsAt
  <2>. QED
    BY <2>1, <2>3
<1>5. x = Heights(0, 0, 0, 0, 0, 0, 0, n)
  BY <1>2, <1>4 DEF Reaches, IsTower
<1>6. Raise(x, Top) = x
  BY <1>1 DEF Raise
<1>7. Stands(h, x, 0)
  BY <1>2, <1>6, ClosesScope DEF h
<1>8. Stands(h, Heights(0, 0, 0, 0, 0, 0, 0, n), 0)
  BY <1>5, <1>7
<1>. QED
  BY <1>1, <1>8, Ends

(* The places where a call of a function with opt defaults may begin.      *)
Places(opt) == IF opt = 0 THEN 0 ELSE opt + 1

(* The beginning of a function, with the code of its defaults. *)
LEMMA FuncLowers ==
    ASSUME NEW t \in Tokens, Func(t)
    PROVE  Lowers(g', blocks', Places(t.opt))
<1>. DEFINE n == t.opt
            a == [k \in 1 .. n |-> [slot |-> FirstSlot + k - 1, carrier |-> "any"]]
            added == [EmptyGenerator EXCEPT !.locals = n, !.max_locals = n]
            u == StartParameters(added, n)
            written[k \in 0 .. n] ==
                IF k = 0 THEN u
                ELSE PopTemporary(AssignDefaultParameter(Call(written[k - 1], "any"),
                                                         a[k].slot, Newest(1)))
            w == written[n]
            ready == EndParameters(w)
            b == Block(1, "func", ready.locals, Local(ready, t))
            x == Heights(0, 0, 0, 0, 0, 0, 0, IF n = 0 THEN 0 ELSE n + 1)
<1>1. g' = WithLocal(ready, t) /\ blocks' = <<b>> /\ t.op = "func"
  BY DEF Func
<1>2. n \in Nat
  BY <1>1, TokenIs
<1>3. x = Heights(0, 0, 0, 0, 0, 0, 0, Places(n))
  BY DEF Places
<1>. HIDE DEF b, ready, w
<1>4. IsNew(added) /\ added.default_arguments = <<>>
  BY News
<1>. HIDE DEF added, n, a
<1>5. (n = 0 => Stands(u, Level, 0)) /\ (n # 0 => Stands(u, Up(Level, "defaults", 1), 0))
  BY <1>4, StartsParameters
<1>. HIDE DEF u
<1>6. IsTurning(written, "defaults", a, u, u, u, n)
  <2>1. \A k, v : Turn("defaults", a, u, u, k, v)
                    = PopTemporary(AssignDefaultParameter(Call(v, "any"), a[k].slot, Newest(1)))
    BY DEF Turn
  <2>2. PICK f : IsTurning(f, "defaults", a, u, u, u, n)
    <3>. HIDE DEF written
    <3>. QED
      BY <1>2, Turns
  <2>3. f = [k \in 0 .. n |->
                IF k = 0 THEN u
                ELSE PopTemporary(AssignDefaultParameter(Call(f[k - 1], "any"),
                                                         a[k].slot, Newest(1)))]
    <3>. HIDE DEF written
    <3>. QED
      BY <2>1, <2>2 DEF IsTurning
  <2>4. written = [k \in 0 .. n |->
                IF k = 0 THEN u
                ELSE PopTemporary(AssignDefaultParameter(Call(written[k - 1], "any"),
                                                         a[k].slot, Newest(1)))]
    BY <2>3
  <2>. HIDE DEF written
  <2>. QED
    BY <2>1, <2>4 DEF IsTurning
<1>7. w = written[n]
  BY DEF w
<1>. HIDE DEF written
<1>8. Stands(w, x, 0)
  BY <1>2, <1>5, <1>6, <1>7, Defaults
<1>. HIDE DEF x
<1>9. Stands(WithLocal(ready, t), x, 0)
  BY <1>8, EndsParameters, AddsOwnLocal DEF ready
<1>10. IsBlock(b) /\ b.kind = "func"
  BY BlockIs, LocalIs DEF b, BlockKinds
<1>11. IsBlocks(<<b>>)
  <2>. DEFINE s == <<b>>
  <2>1. Sequence(s) /\ Len(s) = 1 /\ s[1] = b
    BY OneLocal
  <2>. HIDE DEF s
  <2>2. IsAt(s, 1)
    BY <1>10, <2>1 DEF IsAt
  <2>3. IsBlocks(s)
    BY <2>1, <2>2 DEF IsBlocks
  <2>. QED
    BY <2>3 DEF s
<1>12. Reaches(<<b>>, x, Places(n))
  <2>. DEFINE s == <<>>
              m == Places(n)
  <2>1. Sequence(s)
    BY NoCode DEF Laid
  <2>2. Append(s, b) = <<b>>
    OBVIOUS
  <2>3. x = Heights(0, 0, 0, 0, 0, 0, 0, m)
    BY <1>3
  <2>. HIDE DEF m
  <2>4. Reaches(s, x, m)
    BY <2>3, Ground
  <2>. HIDE DEF s
  <2>5. Reaches(Append(s, b), Raise(x, b), m)
    BY <1>10, <2>1, <2>4, Climbs
  <2>6. Raise(x, b) = x
    BY <1>10 DEF Raise
  <2>. QED
    BY <2>2, <2>5, <2>6 DEF m
<1>13. Lowers(g', blocks', Places(n))
  BY <1>1, <1>9, <1>11, <1>12 DEF Lowers
<1>. QED
  BY <1>13 DEF n

-----------------------------------------------------------------------------
(* The run of a function.  S is where its instructions begin.              *)

(* Finished code: calls begin at instructions, one for each number of      *)
(* arguments left out, and steps lead from instructions to instructions.   *)
Ready(f, n, S) ==
    /\ f.default_arguments \in Seq(Nat) /\ Len(f.default_arguments) = n
    /\ f.code[1] = 828 => n # 0
    /\ Runs(f.code, S) /\ Range(f.default_arguments) \subseteq S

(* The machine stands at an instruction, or has nothing to do.             *)
Standing(S) == ip = -1 \/ ip \in S

(* A function has been begun; its first token says how many defaults it    *)
(* has.                                                                    *)
IsStarted == Sequence(prog) /\ Len(prog) > 0 /\ prog[1].opt \in Nat

(* The invariant. While a function is lowered the code written so far is   *)
(* sound, with the jumps pending that the open blocks need; afterwards the *)
(* machine stands at an instruction of sound code, with nothing pending.   *)
IInv ==
    /\ alphabet \in Alphabets
    /\ Compiling =>
        /\ ip = -1
        /\ prog = <<>> \/ (IsStarted /\ Lowers(g, blocks, Places(prog[1].opt)))
    /\ ~Compiling =>
        /\ IsStarted
        /\ \E S : Ready(function, Places(prog[1].opt), S) /\ Standing(S)

(* The words in front of the machine are those of an instruction. *)
LEMMA WordIs ==
    ASSUME NEW S, Runs(function.code, S), ip \in S
    PROVE  /\ ip \in Nat /\ Word(ip) \in Instructions /\ Runnable(function.code, S, ip)
           /\ Word(ip) = function.code[ip + 1] /\ Word(ip + 1) = function.code[ip + 2]
           /\ Word(ip + 2) = function.code[ip + 3]
           /\ Word(ip) = 801 \/ Word(ip) \in 802 .. 815 \/ Word(ip) \in 816 .. 833
<1>1. ip \in Nat /\ Runnable(function.code, S, ip)
  BY DEF Runs
<1>2. ip + 1 + 1 = ip + 2 /\ ip + 2 + 1 = ip + 3
  BY <1>1
<1>3. /\ Word(ip) = function.code[ip + 1] /\ Word(ip + 1) = function.code[ip + 2]
      /\ Word(ip + 2) = function.code[ip + 3]
  BY <1>2 DEF Word
<1>4. Word(ip) \in Instructions
  BY <1>1, <1>3 DEF Runnable
<1>. QED
  BY <1>1, <1>3, <1>4, OpcodeSets

(* The next instruction, and the one a jump leads to.                      *)
LEMMA NextIs ==
    ASSUME NEW S, Runs(function.code, S), ip \in S
    PROVE  /\ Word(ip) # 833 => ip + Width(function.code, ip) \in S
           /\ Word(ip) \in Jumping =>
                function.code[ip + Width(function.code, ip)] \in S
BY WordIs DEF Runnable, Behind

(* Calls, operations and accesses go on to the next instruction. *)
LEMMA Performs ==
    ASSUME NEW S, Runs(function.code, S), ip \in S, CallFunction \/ Operator \/ Access
    PROVE  ip' \in S
<1>. DEFINE o == Word(ip)
<1>1. ip' = ip + 5 + Word(ip + 1) /\ o \in Working
  BY DEF CallFunction, Operator, Access, Perform, Working
<1>2. /\ ip \in Nat /\ o = function.code[ip + 1] /\ o \in Instructions
      /\ Word(ip + 1) = function.code[ip + 2] /\ Runnable(function.code, S, ip)
  BY WordIs
<1>. HIDE DEF o
<1>3. o \in 802 .. 815
  BY <1>1, OpcodeSets
<1>4. Width(function.code, ip) = 5 + function.code[ip + 2]
  BY <1>2, <1>3, Widths
<1>5. function.code[ip + 2] \in Nat
  BY <1>1, <1>2 DEF Runnable
<1>6. ip + Width(function.code, ip) \in S
  BY <1>2, <1>3, NextIs DEF o
<1>. QED
  BY <1>1, <1>2, <1>4, <1>5, <1>6

(* So do lines, assignments and assertions. *)
LEMMA Proceeds ==
    ASSUME NEW S, Runs(function.code, S), ip \in S, Line \/ Assign \/ Store \/ AssertTrue
    PROVE  ip' \in S
<1>. DEFINE o == Word(ip)
<1>1. \/ o \in {801} \cup (819 .. 824) /\ ip' = ip + 2
      \/ o \in 816 .. 818 /\ ip' = ip + 3
  <2>1. CASE Line
    BY <2>1, Opcodes DEF Line, Fetch
  <2>2. CASE Assign
    <3>1. (o = Opcode.ASSIGN \/ o = Opcode.TYPEOF) /\ ip' = ip + 3
      BY <2>2 DEF Assign, Fetch
    <3>. QED
      BY <3>1, Opcodes
  <2>3. CASE Store
    <3>1. o \in DOMAIN Stored /\ ip' = ip + 2
      BY <2>3 DEF Store
    <3>. QED
      BY <3>1, OpcodeSets
  <2>4. CASE AssertTrue
    BY <2>4, Opcodes DEF AssertTrue, Fetch
  <2>. QED
    BY <2>1, <2>2, <2>3, <2>4
<1>2. ip \in Nat /\ o = function.code[ip + 1] /\ o \in Instructions
  BY WordIs
<1>. HIDE DEF o
<1>3. /\ o \in {801} \cup (819 .. 824) => Width(function.code, ip) = 2
      /\ o \in 816 .. 818 => Width(function.code, ip) = 3
  BY <1>2, Widths
<1>4. ip + Width(function.code, ip) \in S
  <2>1. o # 833
    BY <1>1
  <2>. QED
    BY <2>1, NextIs DEF o
<1>. QED
  BY <1>1, <1>3, <1>4

(* A jump leads to an instruction. *)
LEMMA Jumps ==
    ASSUME NEW S, Runs(function.code, S), ip \in S, Goto \/ Branching
    PROVE  ip' \in S
<1>. DEFINE o == Word(ip)
<1>1. \/ o = 825 /\ ip' = Word(ip + 1)
      \/ o \in {826, 827} /\ (ip' = Word(ip + 2) \/ ip' = ip + 3)
  BY Opcodes DEF Goto, Branching, Fetch
<1>2. /\ ip \in Nat /\ o = function.code[ip + 1] /\ o \in Instructions
      /\ Word(ip + 1) = function.code[ip + 2] /\ Word(ip + 2) = function.code[ip + 3]
  BY WordIs
<1>. HIDE DEF o
<1>3. /\ o = 825 => Width(function.code, ip) = 2
      /\ o \in {826, 827} => Width(function.code, ip) = 3
  BY <1>2, Widths
<1>4. /\ ip + Width(function.code, ip) \in S
      /\ function.code[ip + Width(function.code, ip)] \in S
  <2>1. o # 833 /\ o \in Jumping
    BY <1>1, OpcodeSets
  <2>. QED
    BY <2>1, NextIs DEF o
<1>. QED
  BY <1>1, <1>2, <1>3, <1>4

(* The step of a for loop leads to its body or behind it. *)
LEMMA Iterates ==
    ASSUME NEW S, Runs(function.code, S), ip \in S, Iterate
    PROVE  ip' \in S
<1>. DEFINE o == Word(ip)
            n == Iteration[o].operands
<1>1. o \in DOMAIN Iteration /\ (ip' = ip + n + 1 \/ ip' = Word(ip + n))
  BY DEF Iterate
<1>2. Word(ip + n) = function.code[ip + n + 1]
  BY DEF Word
<1>3. ip \in Nat /\ o = function.code[ip + 1] /\ o \in Instructions
  BY WordIs
<1>4. /\ o \in {829, 830} => n = 4
      /\ o = 831 => n = 6
      /\ o = 832 => n = 5
  BY Iterations
<1>. HIDE DEF o, n
<1>5. o \in 829 .. 832
  BY <1>1, OpcodeSets
<1>6. /\ o \in {829, 830} => Width(function.code, ip) = 5
      /\ o = 831 => Width(function.code, ip) = 7
      /\ o = 832 => Width(function.code, ip) = 6
  BY <1>3, Widths
<1>7. ip + Width(function.code, ip) = ip + n + 1
  BY <1>3, <1>4, <1>5, <1>6
<1>8. /\ ip + Width(function.code, ip) \in S
      /\ function.code[ip + Width(function.code, ip)] \in S
  <2>1. o # 833 /\ o \in Jumping
    BY <1>5, OpcodeSets
  <2>. QED
    BY <2>1, NextIs DEF o
<1>. QED
  BY <1>1, <1>2, <1>7, <1>8

(* A call begins at an instruction, whichever arguments it gives. *)
LEMMA Enters ==
    ASSUME NEW opt \in Nat, opt = prog[1].opt, NEW S, Ready(function, Places(opt), S),
           NEW given \in 0 .. 2, Enter(given)
    PROVE  ip' \in S
<1>. DEFINE d == function.default_arguments
<1>1. /\ given <= opt
      /\ ip' = IF function.code[1] # 828 THEN 0 ELSE d[opt - given + 1]
  BY Opcodes DEF Enter
<1>2. /\ d \in Seq(Nat) /\ Len(d) = Places(opt) /\ 0 \in S /\ Range(d) \subseteq S
      /\ function.code[1] = 828 => Places(opt) # 0
  BY DEF Ready, Runs
<1>. HIDE DEF d
<1>3. CASE function.code[1] # 828
  BY <1>1, <1>2, <1>3
<1>4. CASE function.code[1] = 828
  <2>1. Len(d) = opt + 1
    BY <1>2, <1>4 DEF Places
  <2>2. opt - given + 1 \in 1 .. Len(d)
    BY <1>1, <2>1
  <2>. DEFINE k == opt - given + 1
  <2>3. k \in DOMAIN d
    BY <1>2, <2>2
  <2>. HIDE DEF k
  <2>4. d[k] \in S
    BY <1>2, <2>3 DEF Range
  <2>. QED
    BY <1>1, <1>4, <2>4 DEF k
<1>. QED
  BY <1>3, <1>4

-----------------------------------------------------------------------------
(* The invariant.                                                          *)

(* Nothing has been lowered at first. *)
LEMMA InitInv ==
    ASSUME Init
    PROVE  IInv
BY DEF Init, IInv, Compiling

(* The text grows by one token, and nothing else of what is said of a      *)
(* function being lowered changes.                                         *)
Adds(e) ==
    /\ Compiling /\ prog # <<>> /\ prog' = Append(prog, e)
    /\ alphabet' = alphabet /\ function' = function /\ ip' = ip

(* The first token stays what it is. *)
LEMMA AddsIs ==
    ASSUME IsStarted, NEW e, prog' = Append(prog, e)
    PROVE  IsStarted' /\ prog'[1].opt = prog[1].opt
<1>1. Sequence(prog) /\ Len(prog) > 0
  BY DEF IsStarted
<1>2. /\ Sequence(prog') /\ Len(prog') = Len(prog) + 1 /\ Len(prog) \in Nat
      /\ \A i \in 1 .. Len(prog) : prog'[i] = prog[i]
  BY <1>1, Grown
<1>3. prog'[1] = prog[1] /\ Len(prog') > 0
  BY <1>1, <1>2
<1>. QED
  BY <1>2, <1>3 DEF IsStarted

(* A token that keeps the stacks as high as the blocks keeps IInv. *)
LEMMA Kept ==
    ASSUME IInv, NEW e, Adds(e),
           \A n : Lowers(g, blocks, n) => Lowers(g', blocks', n)
    PROVE  IInv'
<1>1. IsStarted /\ Lowers(g, blocks, Places(prog[1].opt)) /\ ip = -1 /\ alphabet \in Alphabets
  BY DEF IInv, Adds
<1>2. IsStarted' /\ prog'[1].opt = prog[1].opt
  BY <1>1, AddsIs DEF Adds
<1>3. Lowers(g', blocks', Places(prog'[1].opt))
  BY <1>1, <1>2
<1>4. Compiling' /\ ip' = -1 /\ alphabet' \in Alphabets
  BY <1>1 DEF Adds, Compiling
<1>. QED
  BY <1>2, <1>3, <1>4 DEF IInv

(* A token within a function keeps IInv. *)
LEMMA TokenStep ==
    ASSUME IInv, NEW t \in alphabet.tokens,
           \/ If(t) \/ While(t) \/ For(t) \/ Match(t) \/ Branch(t) \/ Else(t)
           \/ Jump(t) \/ Return(t) \/ Evaluate(t) \/ AssertStatement(t) \/ Var(t)
    PROVE  IInv'
<1>1. t \in Tokens
  BY AlphabetsAssumption DEF IInv
<1>2. CASE If(t)
  <2>1. Adds(t)
    BY <1>2 DEF If, NextToken, Adds, vm
  <2>. QED
    BY <1>1, <1>2, <2>1, IfLowers, Kept
<1>3. CASE While(t)
  <2>1. Adds(t)
    BY <1>3 DEF While, NextToken, Adds, vm
  <2>. QED
    BY <1>1, <1>3, <2>1, WhileLowers, Kept
<1>4. CASE For(t)
  <2>1. Adds(t)
    BY <1>4 DEF For, NextToken, Adds, vm
  <2>. QED
    BY <1>1, <1>4, <2>1, ForLowers, Kept
<1>5. CASE Match(t)
  <2>1. Adds(t)
    BY <1>5 DEF Match, NextToken, Adds, vm
  <2>. QED
    BY <1>1, <1>5, <2>1, MatchLowers, Kept
<1>6. CASE Branch(t)
  <2>1. Adds(t)
    BY <1>6 DEF Branch, Adds, vm
  <2>. QED
    BY <1>1, <1>6, <2>1, BranchLowers, Kept
<1>7. CASE Else(t)
  <2>1. Adds(t)
    BY <1>7 DEF Else, Adds, vm
  <2>. QED
    BY <1>1, <1>7, <2>1, ElseLowers, Kept
<1>8. CASE Jump(t)
  <2>1. Adds(t)
    BY <1>8 DEF Jump, NextToken, Adds, vm
  <2>. QED
    BY <1>1, <1>8, <2>1, JumpLowers, Kept
<1>9. CASE Return(t)
  <2>1. Adds(t)
    BY <1>9 DEF Return, NextToken, Adds, vm
  <2>. QED
    BY <1>1, <1>9, <2>1, ReturnLowers, Kept
<1>10. CASE Evaluate(t)
  <2>1. Adds(t)
    BY <1>10 DEF Evaluate, NextToken, Adds, vm
  <2>. QED
    BY <1>1, <1>10, <2>1, EvaluateLowers, Kept
<1>11. CASE AssertStatement(t)
  <2>1. Adds(t)
    BY <1>11 DEF AssertStatement, NextToken, Adds, vm
  <2>. QED
    BY <1>1, <1>11, <2>1, AssertLowers, Kept
<1>12. CASE Var(t)
  <2>1. Adds(t)
    BY <1>12 DEF Var, NextToken, Adds, vm
  <2>. QED
    BY <1>1, <1>12, <2>1, VarLowers, Kept
<1>. QED
  BY <1>2, <1>3, <1>4, <1>5, <1>6, <1>7, <1>8, <1>9, <1>10, <1>11, <1>12

(* The first token keeps it. *)
LEMMA FuncStep ==
    ASSUME IInv, NEW t \in alphabet.tokens, Func(t)
    PROVE  IInv'
<1>1. t \in Tokens
  BY AlphabetsAssumption DEF IInv
<1>2. /\ prog = <<>> /\ prog' = <<t>> /\ t.op = "func"
      /\ alphabet' = alphabet /\ function' = function /\ ip' = ip
  BY DEF Func, vm
<1>3. Compiling
  <2>1. Len(<<>>) = 0
    OBVIOUS
  <2>. QED
    BY <1>2, <2>1 DEF IInv, IsStarted
<1>4. Compiling' /\ ip' = -1 /\ alphabet' \in Alphabets
  BY <1>2, <1>3 DEF IInv, Compiling
<1>5. Sequence(prog') /\ Len(prog') = 1 /\ prog'[1] = t
  BY <1>2, OneLocal
<1>6. t.opt \in Nat
  BY <1>1, <1>2, TokenIs
<1>7. IsStarted'
  BY <1>5, <1>6 DEF IsStarted
<1>8. Lowers(g', blocks', Places(prog'[1].opt))
  BY <1>1, <1>5, FuncLowers
<1>. QED
  BY <1>4, <1>7, <1>8 DEF IInv

(* So does the end of a block or of the function. *)
LEMMA EndStep ==
    ASSUME IInv, End
    PROVE  IInv'
<1>. DEFINE e == [op |-> "end"]
<1>1. /\ Compiling /\ prog # <<>> /\ prog' = Append(prog, e) /\ alphabet' = alphabet /\ ip' = ip
      /\ EndIf \/ EndLoop \/ EndMatch \/ EndFunction
  BY DEF End, vm
<1>. HIDE DEF e
<1>2. CASE EndIf \/ EndLoop \/ EndMatch
  <2>1. function' = function
    BY <1>2 DEF EndIf, EndLoop, EndMatch
  <2>2. Adds(e)
    BY <1>1, <2>1 DEF Adds
  <2>. QED
    BY <1>2, <2>2, EndIfLowers, EndLoopLowers, EndMatchLowers, Kept
<1>3. CASE EndFunction
  <2>1. IsStarted /\ Lowers(g, blocks, Places(prog[1].opt)) /\ ip = -1 /\ alphabet \in Alphabets
    BY <1>1 DEF IInv
  <2>2. IsStarted' /\ prog'[1].opt = prog[1].opt
    BY <1>1, <2>1, AddsIs
  <2>3. IsFunction(function', Places(prog'[1].opt))
    BY <1>3, <2>1, <2>2, EndFunctionIs
  <2>4. \E S : Ready(function', Places(prog'[1].opt), S)
    BY <2>3 DEF IsFunction, Ready
  <2>5. ~(Compiling')
    <3>1. 1 \in DOMAIN function'.code
      BY <2>3 DEF IsFunction
    <3>2. NoFunction.code = <<>> /\ 1 \notin DOMAIN <<>>
      BY DEF NoFunction
    <3>. QED
      BY <3>1, <3>2 DEF Compiling
  <2>6. ip' = -1 /\ alphabet' \in Alphabets
    BY <1>1, <2>1
  <2>7. \E S : Ready(function', Places(prog'[1].opt), S) /\ Standing(S)'
    BY <2>4, <2>6 DEF Standing
  <2>. QED
    BY <2>2, <2>5, <2>6, <2>7 DEF IInv
<1>. QED
  BY <1>1, <1>2, <1>3

(* The machine goes from an instruction to another, or stops.              *)
LEMMA Runs1 ==
    ASSUME IInv, UNCHANGED compiler, ~Compiling,
           \A S : Ready(function, Places(prog[1].opt), S) /\ Standing(S) => ip' = -1 \/ ip' \in S
    PROVE  IInv'
<1>1. IsStarted /\ alphabet \in Alphabets
  BY DEF IInv
<1>2. PICK S : Ready(function, Places(prog[1].opt), S) /\ Standing(S)
  BY DEF IInv
<1>3. alphabet' = alphabet /\ prog' = prog /\ function' = function
  BY DEF compiler
<1>4. ip' = -1 \/ ip' \in S
  BY <1>2
<1>5. IsStarted' /\ alphabet' \in Alphabets /\ ~(Compiling')
  BY <1>1, <1>3 DEF IsStarted, Compiling
<1>6. Ready(function', Places(prog'[1].opt), S) /\ Standing(S)'
  BY <1>2, <1>3, <1>4 DEF Standing
<1>. QED
  BY <1>5, <1>6 DEF IInv

(* So does every instruction of the machine. *)
LEMMA MachineStep ==
    ASSUME IInv,
           \/ Line \/ CallFunction \/ Operator \/ Access \/ Assign \/ Store \/ Goto \/ Branching
           \/ Iterate \/ AssertTrue \/ Fail \/ Leave
    PROVE  IInv'
<1>1. Running /\ UNCHANGED compiler
  <2>1. CASE Line
    BY <2>1 DEF Line, Fetch
  <2>2. CASE CallFunction \/ Operator \/ Access
    BY <2>2 DEF CallFunction, Operator, Access, Perform
  <2>3. CASE Assign \/ Store
    BY <2>3 DEF Assign, Store, Fetch
  <2>4. CASE Goto \/ Branching
    BY <2>4 DEF Goto, Branching, Fetch
  <2>5. CASE Iterate
    BY <2>5 DEF Iterate
  <2>6. CASE AssertTrue
    BY <2>6 DEF AssertTrue, Fetch
  <2>7. CASE Fail \/ Leave
    BY <2>7 DEF Fail, Leave, Left, Fetch
  <2>. QED
    BY <2>1, <2>2, <2>3, <2>4, <2>5, <2>6, <2>7
<1>2. ~Compiling
  BY <1>1 DEF IInv, Running
<1>3. ASSUME NEW S, Ready(function, Places(prog[1].opt), S), Standing(S)
      PROVE  ip' = -1 \/ ip' \in S
  <2>1. Runs(function.code, S) /\ ip \in S
    BY <1>1, <1>3 DEF Ready, Standing, Running
  <2>2. CASE CallFunction \/ Operator \/ Access
    BY <2>1, <2>2, Performs
  <2>3. CASE Line \/ Assign \/ Store \/ AssertTrue
    BY <2>1, <2>3, Proceeds
  <2>4. CASE Goto \/ Branching
    BY <2>1, <2>4, Jumps
  <2>5. CASE Iterate
    BY <2>1, <2>5, Iterates
  <2>6. CASE Fail \/ Leave
    BY <2>6 DEF Fail, Leave, Left
  <2>. QED
    BY <2>2, <2>3, <2>4, <2>5, <2>6
<1>. QED
  BY <1>1, <1>2, <1>3, Runs1

(* And every call. *)
LEMMA EnterStep ==
    ASSUME IInv, NEW given \in 0 .. 2, Enter(given)
    PROVE  IInv'
<1>1. ~Compiling /\ UNCHANGED compiler
  BY DEF Enter
<1>2. prog[1].opt \in Nat
  BY <1>1 DEF IInv, IsStarted
<1>3. ASSUME NEW S, Ready(function, Places(prog[1].opt), S), Standing(S)
      PROVE  ip' = -1 \/ ip' \in S
  BY <1>2, <1>3, Enters
<1>. QED
  BY <1>1, <1>3, Runs1

(* Every step keeps IInv. *)
LEMMA Invariance ==
    ASSUME IInv, [Next]_vars
    PROVE  IInv'
<1>1. CASE \E t \in alphabet.tokens : Func(t)
  BY <1>1, FuncStep
<1>2. CASE \E t \in alphabet.tokens :
        \/ If(t) \/ While(t) \/ For(t) \/ Match(t) \/ Branch(t) \/ Else(t)
        \/ Jump(t) \/ Return(t) \/ Evaluate(t) \/ AssertStatement(t) \/ Var(t)
  BY <1>2, TokenStep
<1>3. CASE End
  BY <1>3, EndStep
<1>4. CASE \E given \in 0 .. 2 : Enter(given)
  BY <1>4, EnterStep
<1>5. CASE \/ Line \/ CallFunction \/ Operator \/ Access \/ Assign \/ Store \/ Goto \/ Branching
           \/ Iterate \/ AssertTrue \/ Fail \/ Leave
  BY <1>5, MachineStep
<1>6. CASE UNCHANGED vars
  <2>1. /\ alphabet' = alphabet /\ prog' = prog /\ g' = g /\ blocks' = blocks
        /\ function' = function /\ ip' = ip
    BY <1>6 DEF vars, compiler, vm
  <2>2. (Compiling' <=> Compiling) /\ (IsStarted' <=> IsStarted) /\ \A S : Standing(S)' <=> Standing(S)
    BY <2>1 DEF Compiling, IsStarted, Standing
  <2>. QED
    BY <2>1, <2>2 DEF IInv
<1>. QED
  BY <1>1, <1>2, <1>3, <1>4, <1>5, <1>6 DEF Next

(* Where the machine stands by IInv is an instruction. *)
LEMMA SoundWhereItStands ==
    ASSUME IInv
    PROVE  CodeIsSound
<1>1. ASSUME Running PROVE \E o \in DOMAIN Opcode : Word(ip) = Opcode[o] /\ o # "END"
  <2>1. ~Compiling
    BY <1>1 DEF IInv, Running
  <2>2. PICK S : Ready(function, Places(prog[1].opt), S) /\ Standing(S)
    BY <2>1 DEF IInv
  <2>3. Runs(function.code, S) /\ ip \in S
    BY <1>1, <2>2 DEF Ready, Standing, Running
  <2>4. Word(ip) \in Instructions
    BY <2>3, WordIs
  <2>. QED
    BY <2>4 DEF Instructions
<1>. QED
  BY <1>1 DEF CodeIsSound

(* No run of compiled code gets past its end, to a word that is no         *)
(* instruction, or into the middle of one.                                 *)
THEOREM CompiledCodeIsSound == Spec => []CodeIsSound
<1>1. Init => IInv
  BY InitInv
<1>2. IInv /\ [Next]_vars => IInv'
  BY Invariance
<1>3. IInv => CodeIsSound
  BY SoundWhereItStands
<1>. QED
  BY <1>1, <1>2, <1>3, PTL DEF Spec

=============================================================================
