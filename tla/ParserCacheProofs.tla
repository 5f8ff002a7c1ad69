------------------------- MODULE ParserCacheProofs -------------------------
(***************************************************************************)
(* Theorems about ParserCache, for any threads, files and texts, whatever  *)
(* the phases ask of each other, and for stacks of any depth.  The         *)
(* invariant is about the stacks: each frame may have called the next, the *)
(* levels asked fall from the bottom to the top, and the threads that hold *)
(* one raise_mutex are one thread.                                         *)
(***************************************************************************)
EXTENDS ParserCache, SequenceTheorems, TLAPS

-----------------------------------------------------------------------------
(* The invariant *)

Holding == {"getraise", "raise", "edges", "run"}
WithRef == Holding \cup {"getlock", "owner", "lock"}
Ops     == WithRef \cup {"get", "remove", "dependents", "refresh"}

Contents == Texts \cup {Missing}

Frames ==
    [op : Ops, path : Paths, ref : Nat, level : Status,
     todo : SUBSET (Asks \cup Paths), ok : BOOLEAN]

Parsers ==
    [path : Paths, status : Status, ok : BOOLEAN, text : Contents,
     abandoned : BOOLEAN, depended : [Paths -> Nat]]

TypeOK ==
    /\ source \in [Paths -> Contents]
    /\ calls \in Nat
    /\ parser_map \in [Paths -> Nat]
    /\ refs \in Seq(Parsers)
    /\ forward \in SUBSET (Paths \X Paths)
    /\ inverse \in SUBSET (Paths \X Paths)
    /\ stack \in [Threads -> Seq(Frames)]
    /\ seen \in [Threads -> SUBSET Contents]

(* A frame with a parser has one of its path; a phase that runs has begun, *)
(* and has a text of which it asks what is left to ask.                    *)
FrameOK(f, rs) ==
    /\ f.op \in WithRef => f.ref \in DOMAIN rs /\ rs[f.ref].path = f.path
    /\ f.op \in {"edges", "run"} => rs[f.ref].text \in Texts /\ rs[f.ref].status # EMPTY
    /\ f.op = "run" => /\ f.level \in Phases
                       /\ f.level <= rs[f.ref].status
                       /\ f.todo \subseteq Requests[<<f.path, rs[f.ref].text, f.level>>]
    /\ f.op = "dependents" => f.todo \subseteq Paths

(* What a frame may have above it: what it has called. *)
CallsFrame(f, g, rs) ==
    /\ g.level <= f.level
    /\ \/ /\ f.op \in {"getraise", "raise"}
          /\ g.op \in {"edges", "run"}
          /\ g.ref = f.ref
       \/ /\ f.op = "run"
          /\ g.op \in {"get", "getlock", "getraise", "owner", "lock", "raise"}
          /\ \E ask \in Requests[<<f.path, rs[f.ref].text, f.level>>] : ask.path = g.path
       \/ /\ f.op = "dependents"
          /\ g.op \in {"remove", "dependents"}

StackOK(s, rs) ==
    /\ \A k \in 1 .. Len(s) : FrameOK(s[k], rs)
    /\ \A k \in 1 .. Len(s) - 1 : CallsFrame(s[k], s[k + 1], rs)
    /\ \A j, k \in 1 .. Len(s) : j < k => s[k].level <= s[j].level
    /\ s # <<>> => s[1].op \in Ops \ {"raise", "lock", "edges", "run"}

StacksOK == \A t \in Threads : StackOK(stack[t], refs)

(* Whoever has frames of a parser that need its raise_mutex is alone.      *)
HoldsIn(s, r) == \E k \in 1 .. Len(s) : s[k].ref = r /\ s[k].op \in Holding

Exclusive ==
    \A t, u \in Threads : \A r \in Nat :
        HoldsIn(stack[t], r) /\ HoldsIn(stack[u], r) => t = u

(* While a phase runs no result of the parser has been latched as failed.  *)
RunsGoodIn(s, rs) == \A k \in 1 .. Len(s) : s[k].op = "run" => rs[s[k].ref].ok

RunsAreGood == \A t \in Threads : RunsGoodIn(stack[t], refs)

(* The phases on one stack are phases of different parsers. *)
RunsApartIn(s) ==
    \A i, j \in 1 .. Len(s) :
        i # j /\ s[i].op = "run" /\ s[j].op = "run" => s[i].ref # s[j].ref

RunsApart == \A t \in Threads : RunsApartIn(stack[t])

(* The map and the depended parsers name parsers of the right path.        *)
Names(r, p, rs) == r # NoRef => r \in DOMAIN rs /\ rs[r].path = p

MapOK == \A p \in Paths : Names(parser_map[p], p, refs)

DependedOK == \A r \in DOMAIN refs : \A p \in Paths : Names(refs[r].depended[p], p, refs)

(* A parser that got past parsing, or into it without failure, has a text. *)
TextsKnown ==
    \A r \in DOMAIN refs :
        refs[r].status # EMPTY /\ (refs[r].ok \/ refs[r].status > PARSED) => refs[r].text \in Texts

(* A call has seen the text its file has now, and the one of the parser it *)
(* is about to return.                                                     *)
FreshIn(s, rs, texts) ==
    s # <<>> => /\ source[s[1].path] \in texts
                /\ s[1].op \in {"getraise", "owner"} /\ rs[s[1].ref].status # EMPTY
                      => rs[s[1].ref].text \in texts

Fresh == \A t \in Threads : FreshIn(stack[t], refs, seen[t])

IInv ==
    /\ TypeOK
    /\ StacksOK /\ Exclusive /\ RunsAreGood /\ RunsApart
    /\ MapOK /\ DependedOK /\ TextsKnown /\ Fresh
    /\ OneLiveGeneration
    /\ EdgesAgree

-----------------------------------------------------------------------------
(* Stacks *)

Same(f, g) ==
    /\ g.op = f.op
    /\ g.path = f.path
    /\ g.ref = f.ref
    /\ g.level = f.level
    /\ g.todo \subseteq f.todo

(* A step of t leaves its first m frames and may put one above them.       *)
Keeps(t, m) ==
    /\ stack' \in [Threads -> Seq(Frames)]
    /\ \A u \in Threads \ {t} : stack'[u] = stack[u]
    /\ m \in 0 .. Depth(t)
    /\ Len(stack'[t]) \in {m, m + 1}
    /\ \A k \in 1 .. m : Same(stack[t][k], stack'[t][k])

LEMMA DepthType ==
    ASSUME TypeOK, NEW t \in Threads
    PROVE  /\ Depth(t) \in Nat
           /\ stack[t] \in Seq(Frames)
           /\ \A k \in 1 .. Depth(t) : stack[t][k] \in Frames
           /\ stack[t] # <<>> => Depth(t) > 0 /\ Top(t) \in Frames
           /\ Depth(t) > 0 => stack[t] # <<>>
           /\ Depth(t) > 1 => Caller(t) \in Frames
<1>1. stack[t] \in Seq(Frames)
  BY DEF TypeOK
<1>2. Depth(t) \in Nat /\ (stack[t] # <<>> <=> Depth(t) > 0)
  BY <1>1, EmptySeq, LenProperties DEF Depth
<1>3. \A k \in 1 .. Depth(t) : stack[t][k] \in Frames
  BY <1>1, ElementOfSeq DEF Depth
<1>. QED
  BY <1>1, <1>2, <1>3 DEF Top, Caller

LEMMA BecomeIs ==
    ASSUME TypeOK, NEW t \in Threads, stack[t] # <<>>, NEW f \in Frames, Become(t, f)
    PROVE  /\ Keeps(t, Depth(t) - 1)
           /\ Len(stack'[t]) = Depth(t)
           /\ stack'[t][Depth(t)] = f
           /\ \A k \in 1 .. Depth(t) - 1 : stack'[t][k] = stack[t][k]
<1>. DEFINE s == stack[t]
            n == Len(s)
            s2 == [s EXCEPT ![n] = f]
<1>1. s \in Seq(Frames) /\ n \in Nat \ {0} /\ \A k \in 1 .. n : s[k] \in Frames
  BY DepthType DEF Depth
<1>2. s2 \in Seq(Frames) /\ Len(s2) = n /\ s2[n] = f /\ \A k \in 1 .. n - 1 : s2[k] = s[k]
  BY <1>1, ExceptSeq
<1>3. stack' = [stack EXCEPT ![t] = s2]
  BY DEF Become, Depth
<1>4. stack' \in [Threads -> Seq(Frames)] /\ stack'[t] = s2
      /\ \A u \in Threads \ {t} : stack'[u] = stack[u]
  BY <1>2, <1>3 DEF TypeOK
<1>5. \A k \in 1 .. n - 1 : Same(s[k], s2[k])
  BY <1>1, <1>2 DEF Same, Frames
<1>. HIDE DEF s2
<1>. QED
  BY <1>1, <1>2, <1>4, <1>5 DEF Keeps, Depth

LEMMA CallIs ==
    ASSUME TypeOK, NEW t \in Threads, NEW f \in Frames, Call(t, f)
    PROVE  /\ Keeps(t, Depth(t))
           /\ Len(stack'[t]) = Depth(t) + 1
           /\ stack'[t][Depth(t) + 1] = f
           /\ \A k \in 1 .. Depth(t) : stack'[t][k] = stack[t][k]
<1>. DEFINE s == stack[t]
            n == Len(s)
            s2 == Append(s, f)
<1>1. s \in Seq(Frames) /\ n \in Nat /\ \A k \in 1 .. n : s[k] \in Frames
  BY DepthType DEF Depth
<1>2. s2 \in Seq(Frames) /\ Len(s2) = n + 1 /\ s2[n + 1] = f /\ \A k \in 1 .. n : s2[k] = s[k]
  BY <1>1, AppendProperties
<1>3. stack' = [stack EXCEPT ![t] = s2]
  BY DEF Call
<1>. HIDE DEF s2
<1>4. stack' \in [Threads -> Seq(Frames)] /\ stack'[t] = s2
      /\ \A u \in Threads \ {t} : stack'[u] = stack[u]
  BY <1>2, <1>3 DEF TypeOK
<1>5. \A k \in 1 .. n : Same(s[k], s2[k])
  BY <1>1, <1>2 DEF Same
<1>. QED
  BY <1>1, <1>2, <1>4, <1>5 DEF Keeps, Depth

(* The call of something that the frame on top had to do still.            *)
LEMMA CallForIs ==
    ASSUME TypeOK, NEW t \in Threads, stack[t] # <<>>, NEW f \in Frames, NEW item,
           CallFor(t, item, f)
    PROVE  /\ Keeps(t, Depth(t))
           /\ Len(stack'[t]) = Depth(t) + 1
           /\ stack'[t][Depth(t) + 1] = f
           /\ \A k \in 1 .. Depth(t) - 1 : stack'[t][k] = stack[t][k]
           /\ stack'[t][Depth(t)] = [Top(t) EXCEPT !.todo = @ \ {item}]
<1>. DEFINE s == stack[t]
            n == Len(s)
            g == [s[n] EXCEPT !.todo = @ \ {item}]
            s1 == [s EXCEPT ![n] = g]
            s2 == Append(s1, f)
<1>1. s \in Seq(Frames) /\ n \in Nat \ {0} /\ \A k \in 1 .. n : s[k] \in Frames
  BY DepthType DEF Depth
<1>2. g \in Frames /\ Same(s[n], g)
  BY <1>1 DEF Frames, Same
<1>3. stack' = [stack EXCEPT ![t] = s2]
  <2>1. s1 = [s EXCEPT ![n].todo = @ \ {item}]
    BY <1>1
  <2>. QED
    BY <2>1 DEF CallFor, Depth
<1>. HIDE DEF g
<1>4. s1 \in Seq(Frames) /\ Len(s1) = n /\ s1[n] = g /\ \A k \in 1 .. n - 1 : s1[k] = s[k]
  BY <1>1, <1>2, ExceptSeq
<1>. HIDE DEF s1
<1>5. s2 \in Seq(Frames) /\ Len(s2) = n + 1 /\ s2[n + 1] = f /\ \A k \in 1 .. n : s2[k] = s1[k]
  BY <1>1, <1>4, AppendProperties
<1>. HIDE DEF s2
<1>6. stack' \in [Threads -> Seq(Frames)] /\ stack'[t] = s2
      /\ \A u \in Threads \ {t} : stack'[u] = stack[u]
  BY <1>3, <1>5 DEF TypeOK
<1>7. \A k \in 1 .. n : Same(s[k], s2[k])
  <2>1. \A k \in 1 .. n - 1 : s2[k] = s[k]
    BY <1>1, <1>4, <1>5
  <2>2. Same(s[n], s2[n])
    BY <1>1, <1>2, <1>4, <1>5
  <2>3. \A k \in 1 .. n - 1 : Same(s[k], s2[k])
    BY <2>1 DEF Same
  <2>. QED
    BY <1>1, <2>2, <2>3
<1>8. Keeps(t, n)
  <2>1. n \in 0 .. Depth(t) /\ n = Depth(t) /\ Len(s2) = n + 1
    BY <1>1, <1>5 DEF Depth
  <2>. HIDE DEF n, s
  <2>. QED
    BY <1>6, <1>7, <2>1 DEF Keeps, s
<1>9. g = [Top(t) EXCEPT !.todo = @ \ {item}] /\ n = Depth(t)
  BY DEF Depth, Top, g
<1>10. n \in 1 .. n /\ \A k \in 1 .. n - 1 : k \in 1 .. n
  BY <1>1
<1>. HIDE DEF n, s
<1>11. s2[n] = g /\ \A k \in 1 .. n - 1 : s2[k] = s[k]
  BY <1>4, <1>5, <1>10
<1>. QED
  BY <1>5, <1>6, <1>8, <1>9, <1>11 DEF s

LEMMA ReturnIs ==
    ASSUME TypeOK, NEW t \in Threads, stack[t] # <<>>, NEW success, Return(t, success)
    PROVE  /\ Keeps(t, Depth(t) - 1)
           /\ Len(stack'[t]) = Depth(t) - 1
           /\ \A k \in 1 .. Depth(t) - 1 :
                 k < Depth(t) - 1 \/ success => stack'[t][k] = stack[t][k]
<1>. DEFINE s == stack[t]
            n == Len(s)
            rest == SubSeq(s, 1, n - 1)
            m == Len(rest)
            g == [rest[m] EXCEPT !.ok = FALSE, !.todo = {ask \in @ : ask.path # s[n].path}]
            cut == [rest EXCEPT ![m] = g]
            s2 == IF rest = <<>> \/ success THEN rest ELSE cut
<1>1. s \in Seq(Frames) /\ n \in Nat \ {0} /\ \A k \in 1 .. n : s[k] \in Frames
  BY DepthType DEF Depth
<1>2. rest \in Seq(Frames) /\ m = n - 1 /\ \A k \in 1 .. m : rest[k] = s[k]
  BY <1>1, SubSeqProperties
<1>3. stack' = [stack EXCEPT ![t] = s2]
  BY DEF Return, Depth, Top
<1>. HIDE DEF rest
<1>4. rest # <<>> => m \in Nat \ {0} /\ rest[m] \in Frames
  BY <1>1, <1>2, EmptySeq
<1>5. rest # <<>> => g \in Frames /\ Same(rest[m], g)
  BY <1>4 DEF Frames, Same
<1>. HIDE DEF g
<1>6. rest # <<>> => cut \in Seq(Frames) /\ Len(cut) = m /\ cut[m] = g
                     /\ \A k \in 1 .. m - 1 : cut[k] = rest[k]
  BY <1>2, <1>4, <1>5, ExceptSeq
<1>. HIDE DEF cut
<1>7. /\ s2 \in Seq(Frames)
      /\ Len(s2) = n - 1
      /\ \A k \in 1 .. n - 1 : k < n - 1 \/ success => s2[k] = s[k]
  BY <1>1, <1>2, <1>6
<1>8. \A k \in 1 .. n - 1 : Same(s[k], s2[k])
  <2>1. CASE rest = <<>> \/ success
    BY <1>1, <1>2, <2>1 DEF Same
  <2>2. CASE ~ (rest = <<>> \/ success)
    <3>1. \A k \in 1 .. n - 2 : cut[k] = s[k]
      BY <1>1, <1>2, <1>6, <2>2
    <3>2. Same(s[n - 1], cut[n - 1])
      BY <1>1, <1>2, <1>4, <1>5, <1>6, <2>2
    <3>3. \A k \in 1 .. n - 2 : Same(s[k], cut[k])
      BY <3>1 DEF Same
    <3>. QED
      BY <1>1, <2>2, <3>2, <3>3
  <2>. QED
    BY <2>1, <2>2
<1>. HIDE DEF s2
<1>9. stack' \in [Threads -> Seq(Frames)] /\ stack'[t] = s2
      /\ \A u \in Threads \ {t} : stack'[u] = stack[u]
  BY <1>3, <1>7 DEF TypeOK
<1>10. Depth(t) = n /\ stack[t] = s
  BY DEF Depth, s
<1>11. Keeps(t, n - 1)
  BY <1>1, <1>7, <1>8, <1>9, <1>10 DEF Keeps
<1>. HIDE DEF s, n
<1>. QED
  BY <1>7, <1>9, <1>10, <1>11

-----------------------------------------------------------------------------
(* What a step of a thread does *)

(* Parsers only advance, keep their text once they have it, and stay as    *)
(* they are after a failure.                                               *)
Grow(rs, rs2) ==
    /\ rs2 \in Seq(Parsers)
    /\ DOMAIN rs \subseteq DOMAIN rs2
    /\ \A r \in DOMAIN rs :
          /\ rs2[r].path = rs[r].path
          /\ rs[r].status <= rs2[r].status
          /\ rs[r].status # EMPTY => rs2[r].text = rs[r].text
          /\ rs[r].status = EMPTY /\ rs2[r].status # EMPTY => rs2[r].text = source[rs[r].path]
          /\ ~ rs[r].ok => ~ rs2[r].ok /\ rs2[r].status = rs[r].status

(* The frame g that a step of t puts above the first m. *)
Puts(t, m, g) ==
    /\ FrameOK(g, refs')
    /\ m = 0 => g.op \in Ops \ {"raise", "lock", "edges", "run"}
    /\ m > 0 => CallsFrame(stack'[t][m], g, refs')
    /\ g.op \in Holding =>
          HoldsIn(stack[t], g.ref) \/ \A u \in Threads \ {t} : ~ HoldsIn(stack[u], g.ref)
    /\ g.op = "run" =>
          /\ refs'[g.ref].ok
          /\ \A k \in 1 .. m : stack[t][k].op = "run" => stack[t][k].ref # g.ref

(* A failure is latched when no phase of the parser runs any more.         *)
Latches ==
    \A r \in DOMAIN refs : refs[r].ok /\ ~ refs'[r].ok =>
        \A u \in Threads : \A k \in 1 .. Len(stack'[u]) :
            stack'[u][k].op = "run" => stack'[u][k].ref # r

Moves(t, m) ==
    /\ Keeps(t, m)
    /\ Grow(refs, refs')
    /\ Len(stack'[t]) = m + 1 => Puts(t, m, stack'[t][m + 1])
    /\ Latches

LEMMA Fields ==
    /\ \A f \in Frames : f.op \in Ops /\ f.path \in Paths /\ f.ref \in Nat /\ f.level \in 0 .. 4
    /\ \A p \in Parsers : p.path \in Paths /\ p.status \in 0 .. 4
BY DEF Frames, Parsers, Status, EMPTY, FULLY_SOLVED

LEMMA RefType ==
    ASSUME TypeOK
    PROVE  /\ Len(refs) \in Nat
           /\ DOMAIN refs = 1 .. Len(refs)
           /\ \A r \in DOMAIN refs : refs[r] \in Parsers /\ refs[r].status \in Int
<1>1. Len(refs) \in Nat /\ DOMAIN refs = 1 .. Len(refs)
  BY LenProperties DEF TypeOK
<1>2. ASSUME NEW r \in DOMAIN refs PROVE refs[r] \in Parsers /\ refs[r].status \in Int
  <2>1. refs[r] \in Parsers
    BY <1>1, ElementOfSeq DEF TypeOK
  <2>2. refs[r].status \in 0 .. 4
    BY <2>1, Fields
  <2>. QED
    BY <2>1, <2>2
<1>. QED
  BY <1>1, <1>2

LEMMA FrameGrows ==
    ASSUME NEW f \in Frames, NEW g \in Frames, Same(f, g),
           NEW rs \in Seq(Parsers), NEW rs2, Grow(rs, rs2), FrameOK(f, rs)
    PROVE  FrameOK(g, rs2)
<1>1. \A r \in DOMAIN rs : rs[r] \in Parsers /\ rs2[r] \in Parsers
  BY ElementOfSeq, LenProperties DEF Grow
<1>2. CASE f.op \in WithRef
  <2>1. /\ f.ref \in DOMAIN rs
        /\ f.ref \in DOMAIN rs2
        /\ rs2[f.ref].path = f.path
        /\ rs[f.ref].status \in Nat
        /\ rs2[f.ref].status \in Nat
        /\ rs[f.ref].status <= rs2[f.ref].status
        /\ rs[f.ref].status # EMPTY => rs2[f.ref].text = rs[f.ref].text
    BY <1>1, <1>2, Fields DEF FrameOK, Grow
  <2>2. f.level \in 0 .. 4
    BY Fields
  <2>3. g.op = f.op /\ g.path = f.path /\ g.ref = f.ref /\ g.level = f.level
        /\ g.todo \subseteq f.todo
    BY DEF Same
  <2>4. f.op \in {"edges", "run"} => /\ rs2[f.ref].status # EMPTY
                                     /\ rs2[f.ref].text = rs[f.ref].text
                                     /\ rs2[f.ref].text \in Texts
    BY <2>1 DEF FrameOK, EMPTY
  <2>5. f.op = "run" => f.level <= rs2[f.ref].status
    BY <2>1, <2>2 DEF FrameOK
  <2>. HIDE DEF FrameOK
  <2>6. g.op = "run" => /\ g.level \in Phases
                        /\ g.level <= rs2[g.ref].status
                        /\ g.todo \subseteq Requests[<<g.path, rs2[g.ref].text, g.level>>]
    BY <2>3, <2>4, <2>5 DEF FrameOK
  <2>7. g.op = "dependents" => g.todo \subseteq Paths
    BY <2>3 DEF FrameOK
  <2>. QED
    BY <2>1, <2>3, <2>4, <2>6, <2>7 DEF FrameOK
<1>3. CASE f.op \notin WithRef
  BY <1>3 DEF FrameOK, Same, WithRef, Holding
<1>. QED
  BY <1>2, <1>3

LEMMA CallsGrow ==
    ASSUME NEW f, NEW f2, NEW g, NEW g2, Same(f, f2), Same(g, g2),
           NEW rs \in Seq(Parsers), NEW rs2, Grow(rs, rs2), FrameOK(f, rs), CallsFrame(f, g, rs)
    PROVE  CallsFrame(f2, g2, rs2)
<1>1. f.op = "run" => rs2[f.ref].text = rs[f.ref].text
  BY DEF FrameOK, Grow, WithRef, Holding
<1>. QED
  BY <1>1 DEF CallsFrame, Same

LEMMA StackGrows ==
    ASSUME NEW s \in Seq(Frames), NEW s2 \in Seq(Frames), NEW m \in 0 .. Len(s),
           Len(s2) \in {m, m + 1}, \A k \in 1 .. m : Same(s[k], s2[k]),
           NEW rs \in Seq(Parsers), NEW rs2, Grow(rs, rs2), StackOK(s, rs),
           Len(s2) = m + 1 =>
              /\ FrameOK(s2[m + 1], rs2)
              /\ m = 0 => s2[m + 1].op \in Ops \ {"raise", "lock", "edges", "run"}
              /\ m > 0 => CallsFrame(s2[m], s2[m + 1], rs2)
    PROVE  StackOK(s2, rs2)
<1>1. Len(s) \in Nat /\ m \in Nat /\ \A k \in 1 .. m : k \in 1 .. Len(s)
  BY LenProperties
<1>2. /\ \A k \in 1 .. Len(s) : s[k] \in Frames
      /\ \A k \in 1 .. Len(s2) : s2[k] \in Frames
  BY ElementOfSeq
<1>3. \A k \in 1 .. Len(s2) : k \in 1 .. m \/ (k = m + 1 /\ Len(s2) = m + 1)
  BY <1>1
<1>4. \A k \in 1 .. m : FrameOK(s[k], rs) /\ FrameOK(s2[k], rs2)
  <2>1. SUFFICES ASSUME NEW k \in 1 .. m PROVE FrameOK(s[k], rs) /\ FrameOK(s2[k], rs2)
    OBVIOUS
  <2>2. k \in 1 .. Len(s) /\ k \in 1 .. Len(s2)
    BY <1>1
  <2>3. FrameOK(s[k], rs)
    BY <2>2 DEF StackOK
  <2>. QED
    BY <1>2, <2>2, <2>3, FrameGrows
<1>5. \A k \in 1 .. Len(s2) : FrameOK(s2[k], rs2)
  BY <1>3, <1>4
<1>6. \A k \in 1 .. Len(s2) - 1 : CallsFrame(s2[k], s2[k + 1], rs2)
  <2>1. SUFFICES ASSUME NEW k \in 1 .. Len(s2) - 1 PROVE CallsFrame(s2[k], s2[k + 1], rs2)
    OBVIOUS
  <2>2. CASE k + 1 \in 1 .. m
    <3>1. k \in 1 .. m /\ k \in 1 .. Len(s) - 1
      BY <1>1, <2>2
    <3>2. CallsFrame(s[k], s[k + 1], rs)
      BY <3>1 DEF StackOK
    <3>. QED
      BY <1>4, <2>2, <3>1, <3>2, CallsGrow
  <2>3. CASE k = m /\ Len(s2) = m + 1
    BY <2>3
  <2>. QED
    BY <1>1, <2>2, <2>3
<1>7. \A j, k \in 1 .. Len(s2) : j < k => s2[k].level <= s2[j].level
  <2>1. \A k \in 1 .. Len(s2) : s2[k].level \in Int
    <3>1. SUFFICES ASSUME NEW k \in 1 .. Len(s2) PROVE s2[k].level \in Int
      OBVIOUS
    <3>2. s2[k].level \in 0 .. 4
      BY <1>2, Fields
    <3>. QED
      BY <3>2
  <2>2. \A j, k \in 1 .. m : j < k => s2[k].level <= s2[j].level
    BY <1>1 DEF Same, StackOK
  <2>3. Len(s2) = m + 1 /\ m > 0 => s2[m + 1].level <= s2[m].level
    BY DEF CallsFrame
  <2>4. \A j \in 1 .. m : Len(s2) = m + 1 => s2[m + 1].level <= s2[j].level
    <3>1. SUFFICES ASSUME NEW j \in 1 .. m, Len(s2) = m + 1
                   PROVE  s2[m + 1].level <= s2[j].level
      OBVIOUS
    <3>2. m \in 1 .. m /\ m \in 1 .. Len(s2) /\ m + 1 \in 1 .. Len(s2) /\ j \in 1 .. Len(s2)
      BY <1>1, <3>1
    <3>3. s2[m].level <= s2[j].level
      BY <1>1, <2>1, <2>2, <3>2
    <3>. QED
      BY <2>1, <2>3, <3>1, <3>2, <3>3
  <2>. QED
    BY <1>1, <1>3, <2>2, <2>4
<1>8. s2 # <<>> => s2[1].op \in Ops \ {"raise", "lock", "edges", "run"}
  <2>1. SUFFICES ASSUME s2 # <<>> PROVE s2[1].op \in Ops \ {"raise", "lock", "edges", "run"}
    OBVIOUS
  <2>2. Len(s2) # 0
    BY <2>1, EmptySeq
  <2>3. CASE m = 0
    BY <2>2, <2>3
  <2>4. CASE m > 0
    <3>1. s # <<>> /\ Same(s[1], s2[1])
      BY <1>1, <2>4, EmptySeq
    <3>. QED
      BY <3>1 DEF Same, StackOK
  <2>. QED
    BY <1>1, <2>3, <2>4
<1>. QED
  BY <1>5, <1>6, <1>7, <1>8 DEF StackOK

LEMMA SameRefl == \A f : Same(f, f)
BY DEF Same

LEMMA MovesKeep ==
    ASSUME TypeOK, StacksOK, Exclusive, RunsAreGood, RunsApart,
           NEW t \in Threads, NEW m, Moves(t, m)
    PROVE  StacksOK' /\ Exclusive' /\ RunsAreGood' /\ RunsApart'
<1>1. /\ stack' \in [Threads -> Seq(Frames)]
      /\ m \in 0 .. Len(stack[t])
      /\ Len(stack'[t]) \in {m, m + 1}
      /\ \A k \in 1 .. m : Same(stack[t][k], stack'[t][k])
      /\ \A u \in Threads \ {t} : stack'[u] = stack[u]
      /\ Grow(refs, refs')
      /\ Len(stack'[t]) = m + 1 => Puts(t, m, stack'[t][m + 1])
  BY DEF Moves, Keeps, Depth
<1>2. refs \in Seq(Parsers) /\ \A u \in Threads : stack[u] \in Seq(Frames) /\ stack'[u] \in Seq(Frames)
  BY <1>1 DEF TypeOK
<1>3. \A u \in Threads : StackOK(stack[u], refs)
  BY DEF StacksOK
<1>4. StackOK(stack'[t], refs')
  <2>1. Len(stack'[t]) = m + 1 =>
          /\ FrameOK(stack'[t][m + 1], refs')
          /\ m = 0 => stack'[t][m + 1].op \in Ops \ {"raise", "lock", "edges", "run"}
          /\ m > 0 => CallsFrame(stack'[t][m], stack'[t][m + 1], refs')
    BY <1>1 DEF Puts
  <2>. QED
    BY <1>1, <1>2, <1>3, <2>1, StackGrows
<1>5. \A u \in Threads \ {t} : StackOK(stack'[u], refs')
  <2>1. SUFFICES ASSUME NEW u \in Threads \ {t} PROVE StackOK(stack[u], refs')
    BY <1>1
  <2>2. Len(stack[u]) \in Nat
    BY <1>2, LenProperties
  <2>3. Len(stack[u]) \in 0 .. Len(stack[u]) /\ Len(stack[u]) # Len(stack[u]) + 1
    BY <2>2
  <2>. QED
    BY <1>1, <1>2, <1>3, <2>3, SameRefl, StackGrows
<1>6. StacksOK'
  BY <1>4, <1>5 DEF StacksOK
<1>7. m \in Nat /\ \A k \in 1 .. Len(stack'[t]) :
        \/ k \in 1 .. m /\ k \in 1 .. Len(stack[t]) /\ Same(stack[t][k], stack'[t][k])
        \/ k = m + 1 /\ Puts(t, m, stack'[t][k])
  <2>1. Len(stack[t]) \in Nat
    BY <1>2, LenProperties
  <2>. QED
    BY <1>1, <2>1
<1>8. Exclusive'
  <2>1. \A r \in Nat : HoldsIn(stack'[t], r) =>
          HoldsIn(stack[t], r) \/ \A u \in Threads \ {t} : ~ HoldsIn(stack[u], r)
    <3>1. SUFFICES ASSUME NEW r \in Nat, NEW k \in 1 .. Len(stack'[t]),
                          stack'[t][k].ref = r, stack'[t][k].op \in Holding
                   PROVE  HoldsIn(stack[t], r) \/ \A u \in Threads \ {t} : ~ HoldsIn(stack[u], r)
      BY DEF HoldsIn
    <3>2. CASE k \in 1 .. Len(stack[t]) /\ Same(stack[t][k], stack'[t][k])
      BY <3>1, <3>2 DEF Same, HoldsIn
    <3>3. CASE Puts(t, m, stack'[t][k])
      BY <3>1, <3>3 DEF Puts
    <3>. QED
      BY <1>7, <3>2, <3>3
  <2>2. SUFFICES ASSUME NEW u \in Threads, NEW v \in Threads, NEW r \in Nat,
                        HoldsIn(stack'[u], r), HoldsIn(stack'[v], r)
                 PROVE  u = v
    BY DEF Exclusive
  <2>. QED
    BY <1>1, <2>1, <2>2 DEF Exclusive
<1>9. RunsAreGood'
  <2>1. SUFFICES ASSUME NEW u \in Threads, NEW k \in 1 .. Len(stack'[u]),
                        stack'[u][k].op = "run"
                 PROVE  refs'[stack'[u][k].ref].ok
    BY DEF RunsAreGood, RunsGoodIn
  <2>2. CASE k \in 1 .. Len(stack[u]) /\ Same(stack[u][k], stack'[u][k])
    <3>1. stack[u][k].op = "run" /\ stack[u][k].ref = stack'[u][k].ref
      BY <2>1, <2>2 DEF Same
    <3>2. FrameOK(stack[u][k], refs)
      BY <1>3, <2>2 DEF StackOK
    <3>3. refs[stack[u][k].ref].ok /\ stack[u][k].ref \in DOMAIN refs
      BY <2>2, <3>1, <3>2 DEF RunsAreGood, RunsGoodIn, FrameOK, WithRef, Holding
    <3>. QED
      BY <2>1, <3>1, <3>3 DEF Moves, Latches
  <2>3. CASE u = t /\ Puts(t, m, stack'[t][k])
    BY <2>1, <2>3 DEF Puts
  <2>. QED
    BY <1>1, <1>7, <2>2, <2>3, SameRefl
<1>10. RunsApart'
  <2>1. SUFFICES ASSUME NEW i \in 1 .. Len(stack'[t]), NEW j \in 1 .. Len(stack'[t]),
                        i < j, stack'[t][i].op = "run", stack'[t][j].op = "run"
                 PROVE  stack'[t][i].ref # stack'[t][j].ref
    <3>1. \A u \in Threads \ {t} : RunsApartIn(stack'[u])
      BY <1>1 DEF RunsApart
    <3>2. RunsApartIn(stack'[t])
      <4>1. SUFFICES ASSUME NEW i \in 1 .. Len(stack'[t]), NEW j \in 1 .. Len(stack'[t]), i # j,
                            stack'[t][i].op = "run", stack'[t][j].op = "run"
                     PROVE  stack'[t][i].ref # stack'[t][j].ref
        BY DEF RunsApartIn
      <4>2. i < j \/ j < i
        BY <1>1, <1>7, <4>1
      <4>. QED
        BY <2>1, <4>1, <4>2
    <3>. QED
      BY <3>1, <3>2 DEF RunsApart
  <2>2. i \in 1 .. m /\ i \in 1 .. Len(stack[t])
        /\ stack[t][i].op = "run" /\ stack[t][i].ref = stack'[t][i].ref
    BY <1>1, <1>7, <2>1 DEF Same
  <2>3. CASE j \in 1 .. m /\ j \in 1 .. Len(stack[t]) /\ Same(stack[t][j], stack'[t][j])
    BY <2>1, <2>2, <2>3 DEF Same, RunsApart, RunsApartIn
  <2>4. CASE j = m + 1 /\ Puts(t, m, stack'[t][j])
    BY <2>1, <2>2, <2>4 DEF Puts
  <2>. QED
    BY <1>7, <2>3, <2>4
<1>. QED
  BY <1>6, <1>8, <1>9, <1>10

(* What the frame at the bottom answers when a step has replaced it by g.  *)
Answers(t, g) ==
    /\ g.path = stack[t][1].path
    /\ g.op \in {"getraise", "owner"} =>
          \/ refs'[g.ref].status = EMPTY
          \/ refs'[g.ref].text = source[g.path]
          \/ stack[t][1].op = "getraise" /\ stack[t][1].ref = g.ref

LEMMA StaysFresh ==
    ASSUME TypeOK, StacksOK, Fresh, NEW t \in Threads, NEW m, Moves(t, m),
           stack[t] # <<>>,
           m = 0 /\ Len(stack'[t]) = 1 => Answers(t, stack'[t][1]),
           UNCHANGED <<source, seen>>
    PROVE  Fresh'
<1>1. ASSUME NEW u \in Threads, stack[u] # <<>>, stack[u][1].op \in {"getraise", "owner"},
             refs'[stack[u][1].ref].status # EMPTY
      PROVE  refs'[stack[u][1].ref].text \in seen[u]
  <2>. DEFINE r == stack[u][1].ref
  <2>1. 1 \in 1 .. Len(stack[u])
    BY <1>1, DepthType DEF Depth
  <2>2. FrameOK(stack[u][1], refs)
    BY <2>1 DEF StacksOK, StackOK
  <2>3. r \in DOMAIN refs /\ refs[r].path = stack[u][1].path
    BY <1>1, <2>2 DEF FrameOK, WithRef, Holding
  <2>4. /\ source[stack[u][1].path] \in seen[u]
        /\ refs[r].status # EMPTY => refs[r].text \in seen[u]
    BY <1>1 DEF Fresh, FreshIn
  <2>5. /\ refs[r].status # EMPTY => refs'[r].text = refs[r].text
        /\ refs[r].status = EMPTY => refs'[r].text = source[refs[r].path]
    BY <1>1, <2>3 DEF Moves, Grow
  <2>. QED
    BY <2>3, <2>4, <2>5
<1>2. ASSUME NEW u \in Threads, stack'[u] # <<>>
      PROVE  /\ source'[stack'[u][1].path] \in seen'[u]
             /\ stack'[u][1].op \in {"getraise", "owner"} /\ refs'[stack'[u][1].ref].status # EMPTY
                   => refs'[stack'[u][1].ref].text \in seen'[u]
  <2>1. CASE stack[u] # <<>> /\ Same(stack[u][1], stack'[u][1])
    <3>1. source[stack[u][1].path] \in seen[u]
      BY <2>1 DEF Fresh, FreshIn
    <3>. QED
      BY <1>1, <2>1, <3>1 DEF Same
  <2>2. CASE u = t /\ m = 0 /\ Len(stack'[t]) = 1
    <3>1. source[stack[t][1].path] \in seen[t]
      BY DEF Fresh, FreshIn
    <3>. QED
      BY <1>1, <2>2, <3>1 DEF Answers
  <2>3. CASE u # t
    BY <1>2, <2>1, <2>3, SameRefl DEF Moves, Keeps
  <2>4. CASE u = t /\ ~ (m = 0 /\ Len(stack'[t]) = 1)
    <3>1. stack'[t] \in Seq(Frames) /\ m \in Nat /\ Len(stack'[t]) \in {m, m + 1}
          /\ \A k \in 1 .. m : Same(stack[t][k], stack'[t][k])
      BY DepthType DEF Moves, Keeps
    <3>2. Len(stack'[t]) # 0
      BY <1>2, <2>4, <3>1, EmptySeq
    <3>3. ASSUME m = 0 PROVE FALSE
      <4>1. Len(stack'[t]) \in {0, 1}
        BY <3>1, <3>3
      <4>. QED
        BY <2>4, <3>2, <3>3, <4>1
    <3>4. 1 \in 1 .. m
      BY <3>1, <3>3
    <3>5. Same(stack[t][1], stack'[t][1])
      BY <3>1, <3>4
    <3>. QED
      BY <2>1, <2>4, <3>5
  <2>. QED
    BY <2>2, <2>3, <2>4
<1>. QED
  BY <1>2 DEF Fresh, FreshIn

(* Removals still to be made, in one stack. *)
PendingIn(s, p) ==
    \E i \in 1 .. Len(s) :
        \/ s[i].op = "remove" /\ s[i].path = p
        \/ s[i].op = "dependents" /\ p \in s[i].todo

LEMMA PendingIs == \A p : Pending(p) <=> \E t \in Threads : PendingIn(stack[t], p)
BY DEF Pending, PendingIn, Depth

LEMMA PendingStays ==
    ASSUME NEW t \in Threads, NEW m, Keeps(t, m), NEW p, Pending(p),
           PendingIn(stack[t], p) => PendingIn(stack'[t], p)
    PROVE  Pending(p)'
<1>1. PICK u \in Threads : PendingIn(stack[u], p)
  BY PendingIs
<1>2. PendingIn(stack'[u], p)
  BY <1>1 DEF Keeps
<1>. QED
  BY <1>2 DEF Pending, PendingIn, Depth

LEMMA PendingInStays ==
    ASSUME NEW s, NEW s2, NEW p, Len(s) \in Nat, Len(s2) \in Nat, PendingIn(s, p),
           \A k \in 1 .. Len(s) : s[k].op \in {"remove", "dependents"} =>
               k <= Len(s2) /\ s2[k] = s[k]
    PROVE  PendingIn(s2, p)
<1>1. PICK k \in 1 .. Len(s) :
         \/ s[k].op = "remove" /\ s[k].path = p
         \/ s[k].op = "dependents" /\ p \in s[k].todo
  BY DEF PendingIn
<1>2. k \in 1 .. Len(s2) /\ s2[k] = s[k]
  BY <1>1
<1>. QED
  BY <1>1, <1>2 DEF PendingIn

(* No other part of the state but the stack of t changes. *)
LEMMA QuietStep ==
    ASSUME IInv, NEW t \in Threads, stack[t] # <<>>, NEW m, Keeps(t, m),
           UNCHANGED <<source, calls, parser_map, refs, edgeVars, seen>>,
           Len(stack'[t]) = m + 1 => Puts(t, m, stack'[t][m + 1]),
           m = 0 /\ Len(stack'[t]) = 1 => Answers(t, stack'[t][1]),
           \A p : PendingIn(stack[t], p) => PendingIn(stack'[t], p)
    PROVE  IInv' /\ Grow(refs, refs')
<1>. USE DEF IInv
<1>1. Grow(refs, refs') /\ Latches
  <2>1. \A r \in DOMAIN refs : refs[r].status \in Int
    BY RefType
  <2>. QED
    BY <2>1 DEF Grow, Latches, TypeOK
<1>2. Moves(t, m)
  BY <1>1 DEF Moves
<1>3. TypeOK'
  BY DEF TypeOK, Keeps, edgeVars
<1>4. StacksOK' /\ Exclusive' /\ RunsAreGood' /\ RunsApart'
  BY <1>2, MovesKeep
<1>5. Fresh'
  BY <1>2, StaysFresh
<1>6. MapOK' /\ DependedOK' /\ TextsKnown' /\ OneLiveGeneration'
  BY DEF MapOK, DependedOK, TextsKnown, OneLiveGeneration
<1>7. EdgesAgree'
  <2>1. \A p : Pending(p) => Pending(p)'
    BY PendingStays
  <2>. QED
    BY <2>1 DEF EdgesAgree, edgeVars
<1>. QED
  BY <1>1, <1>3, <1>4, <1>5, <1>6, <1>7

-----------------------------------------------------------------------------
(* The three ways a step changes a stack *)

(* Steps of one request, and of one removal. *)
Asking == {"get", "getlock", "getraise", "owner", "lock", "raise"}

LEMMA FrameIs ==
    ASSUME NEW op \in Ops, NEW p \in Paths, NEW r \in Nat, NEW level \in Status,
           NEW todo \in SUBSET (Asks \cup Paths)
    PROVE  /\ Frame(op, p, r, level, todo) \in Frames
           /\ Frame(op, p, r, level, todo).op = op
           /\ Frame(op, p, r, level, todo).path = p
           /\ Frame(op, p, r, level, todo).ref = r
           /\ Frame(op, p, r, level, todo).level = level
           /\ Frame(op, p, r, level, todo).todo = todo
BY DEF Frames, Frame

LEMMA FrameGoesOn ==
    ASSUME NEW f \in Frames, NEW op \in Ops
    PROVE  /\ [f EXCEPT !.op = op] \in Frames
           /\ [f EXCEPT !.op = op].op = op
           /\ [f EXCEPT !.op = op].path = f.path
           /\ [f EXCEPT !.op = op].ref = f.ref
           /\ [f EXCEPT !.op = op].level = f.level
           /\ [f EXCEPT !.op = op].todo = f.todo
BY DEF Frames

LEMMA PutsNoPhase ==
    ASSUME NEW t, NEW m, NEW g, FrameOK(g, refs'), g.op # "run",
           m = 0 => g.op \in Ops \ {"raise", "lock", "edges", "run"},
           m > 0 => CallsFrame(stack'[t][m], g, refs'),
           g.op \in Holding =>
              HoldsIn(stack[t], g.ref) \/ \A u \in Threads \ {t} : ~ HoldsIn(stack[u], g.ref)
    PROVE  Puts(t, m, g)
BY Zenon DEF Puts

(* The frame on top goes on as f. *)
LEMMA BecomeStep ==
    ASSUME IInv, NEW t \in Threads, stack[t] # <<>>, NEW f \in Frames, Become(t, f),
           Grow(refs, refs'), FrameOK(f, refs'),
           f.path = Top(t).path, f.level = Top(t).level,
           \/ Top(t).op \in Asking /\ f.op \in Asking
           \/ Top(t).op = "remove" /\ f.op = "dependents",
           f.op \in {"lock", "raise"} => Top(t).op \in {"lock", "raise"},
           f.op \in Holding =>
              HoldsIn(stack[t], f.ref) \/ \A u \in Threads \ {t} : ~ HoldsIn(stack[u], f.ref)
    PROVE  /\ Keeps(t, Depth(t) - 1)
           /\ Len(stack'[t]) = Depth(t)
           /\ stack'[t][Depth(t)] = f
           /\ Puts(t, Depth(t) - 1, f)
           /\ Top(t).op \in Asking => \A p : PendingIn(stack[t], p) => PendingIn(stack'[t], p)
<1>. USE DEF IInv
<1>1. /\ Keeps(t, Depth(t) - 1)
      /\ Len(stack'[t]) = Depth(t)
      /\ stack'[t][Depth(t)] = f
      /\ \A k \in 1 .. Depth(t) - 1 : stack'[t][k] = stack[t][k]
  BY BecomeIs
<1>2. Depth(t) \in Nat \ {0} /\ Top(t) \in Frames /\ Top(t) = stack[t][Depth(t)]
  BY DepthType DEF Top
<1>3. /\ \A k \in 1 .. Depth(t) : FrameOK(stack[t][k], refs)
      /\ \A k \in 1 .. Depth(t) - 1 : CallsFrame(stack[t][k], stack[t][k + 1], refs)
      /\ stack[t][1].op \in Ops \ {"raise", "lock", "edges", "run"}
  BY DEF StacksOK, StackOK, Depth
<1>4. f.op # "run" /\ f.op \in Ops
  BY Fields DEF Asking
<1>5. ASSUME Depth(t) > 1 PROVE Puts(t, Depth(t) - 1, f)
  <2>1. Depth(t) - 1 \in 1 .. Depth(t) - 1 /\ Depth(t) - 1 \in 1 .. Depth(t)
        /\ (Depth(t) - 1) + 1 = Depth(t)
    BY <1>2, <1>5
  <2>2. CallsFrame(stack[t][Depth(t) - 1], Top(t), refs) /\ FrameOK(stack[t][Depth(t) - 1], refs)
    BY <1>2, <1>3, <2>1
  <2>3. CallsFrame(stack[t][Depth(t) - 1], f, refs)
    BY <2>2 DEF CallsFrame, Asking
  <2>4. refs \in Seq(Parsers) /\ stack'[t][Depth(t) - 1] = stack[t][Depth(t) - 1]
    BY <1>1, <2>1 DEF TypeOK
  <2>5. CallsFrame(stack[t][Depth(t) - 1], f, refs')
    BY <2>2, <2>3, <2>4, CallsGrow, SameRefl
  <2>. QED
    BY <1>2, <1>4, <1>5, <2>4, <2>5, PutsNoPhase
<1>6. ASSUME Depth(t) = 1 PROVE Puts(t, Depth(t) - 1, f)
  <2>1. f.op \in Ops \ {"raise", "lock", "edges", "run"}
    BY <1>2, <1>3, <1>4, <1>6 DEF Asking
  <2>2. Depth(t) - 1 = 0 /\ ~ (Depth(t) - 1 > 0)
    BY <1>6
  <2>. QED
    BY <1>4, <2>1, <2>2, PutsNoPhase
<1>7. Puts(t, Depth(t) - 1, f)
  BY <1>2, <1>5, <1>6
<1>8. ASSUME Top(t).op \in Asking, NEW p, PendingIn(stack[t], p)
      PROVE  PendingIn(stack'[t], p)
  <2>1. \A k \in 1 .. Depth(t) : stack[t][k].op \in {"remove", "dependents"} =>
           k <= Depth(t) /\ stack'[t][k] = stack[t][k]
    BY <1>1, <1>2, <1>8 DEF Asking
  <2>. QED
    BY <1>1, <1>2, <1>8, <2>1, PendingInStays DEF Depth
<1>. QED
  BY <1>1, <1>7, <1>8

(* The frame on top returns. *)
LEMMA ReturnStep ==
    ASSUME IInv, NEW t \in Threads, stack[t] # <<>>, NEW success, Return(t, success),
           success \/ Top(t).op \in Asking,
           Top(t).op # "remove", Top(t).op = "dependents" => Top(t).todo = {}
    PROVE  /\ Keeps(t, Depth(t) - 1)
           /\ Len(stack'[t]) = Depth(t) - 1
           /\ \A p : PendingIn(stack[t], p) => PendingIn(stack'[t], p)
<1>. USE DEF IInv
<1>1. /\ Keeps(t, Depth(t) - 1)
      /\ Len(stack'[t]) = Depth(t) - 1
      /\ \A k \in 1 .. Depth(t) - 1 :
            k < Depth(t) - 1 \/ success => stack'[t][k] = stack[t][k]
  BY ReturnIs
<1>2. Depth(t) \in Nat \ {0} /\ Top(t) = stack[t][Depth(t)]
  BY DepthType DEF Top
<1>3. ASSUME NEW k \in 1 .. Depth(t) - 1, stack[t][k].op \in {"remove", "dependents"}
      PROVE  stack'[t][k] = stack[t][k]
  <2>1. CASE k = Depth(t) - 1 /\ Top(t).op \in Asking
    <3>1. CallsFrame(stack[t][k], stack[t][k + 1], refs) /\ k + 1 = Depth(t)
      BY <1>2, <1>3, <2>1 DEF StacksOK, StackOK, Depth
    <3>. QED
      BY <1>2, <1>3, <2>1, <3>1 DEF CallsFrame, Asking
  <2>. QED
    BY <1>1, <1>2, <1>3, <2>1
<1>4. ASSUME NEW p, PendingIn(stack[t], p)
      PROVE  PendingIn(stack'[t], p)
  <2>1. PICK k \in 1 .. Depth(t) :
           \/ stack[t][k].op = "remove" /\ stack[t][k].path = p
           \/ stack[t][k].op = "dependents" /\ p \in stack[t][k].todo
    BY <1>4 DEF PendingIn, Depth
  <2>2. k # Depth(t)
    BY <1>2, <2>1
  <2>3. k \in 1 .. Depth(t) - 1 /\ k \in 1 .. Len(stack'[t])
    BY <1>1, <1>2, <2>2
  <2>. QED
    BY <1>3, <2>1, <2>3 DEF PendingIn
<1>. QED
  BY <1>1, <1>4

(* The frame on top calls f. *)
LEMMA CallPuts ==
    ASSUME IInv, NEW t \in Threads, stack[t] # <<>>, NEW f \in Frames,
           Keeps(t, Depth(t)), Grow(refs, refs'),
           FrameOK(f, refs'), CallsFrame(Top(t), f, refs),
           f.op \in Holding => HoldsIn(stack[t], f.ref),
           f.op = "run" =>
              /\ refs'[f.ref].ok
              /\ \A k \in 1 .. Depth(t) : stack[t][k].op = "run" => stack[t][k].ref # f.ref
    PROVE  Puts(t, Depth(t), f)
<1>. USE DEF IInv
<1>1. Depth(t) \in Nat \ {0} /\ Depth(t) \in 1 .. Depth(t) /\ Top(t) = stack[t][Depth(t)]
  BY DepthType DEF Top
<1>2. Same(Top(t), stack'[t][Depth(t)]) /\ FrameOK(Top(t), refs)
  BY <1>1 DEF Keeps, StacksOK, StackOK, Depth
<1>3. CallsFrame(stack'[t][Depth(t)], f, refs')
  BY <1>2, CallsGrow, SameRefl DEF TypeOK
<1>4. Depth(t) # 0
  BY <1>1
<1>. QED
  BY <1>3, <1>4, Zenon DEF Puts

LEMMA CallStep ==
    ASSUME IInv, NEW t \in Threads, stack[t] # <<>>, NEW f \in Frames, Call(t, f),
           Grow(refs, refs'), FrameOK(f, refs'), CallsFrame(Top(t), f, refs),
           f.op \in Holding => HoldsIn(stack[t], f.ref),
           f.op = "run" =>
              /\ refs'[f.ref].ok
              /\ \A k \in 1 .. Depth(t) : stack[t][k].op = "run" => stack[t][k].ref # f.ref
    PROVE  /\ Keeps(t, Depth(t))
           /\ Len(stack'[t]) = Depth(t) + 1
           /\ stack'[t][Depth(t) + 1] = f
           /\ Puts(t, Depth(t), f)
           /\ \A p : PendingIn(stack[t], p) => PendingIn(stack'[t], p)
<1>. USE DEF IInv
<1>1. /\ Keeps(t, Depth(t))
      /\ Len(stack'[t]) = Depth(t) + 1
      /\ stack'[t][Depth(t) + 1] = f
      /\ \A k \in 1 .. Depth(t) : stack'[t][k] = stack[t][k]
  BY CallIs
<1>2. Puts(t, Depth(t), f)
  BY <1>1, CallPuts
<1>3. Depth(t) \in Nat
  BY DepthType
<1>4. ASSUME NEW p, PendingIn(stack[t], p)
      PROVE  PendingIn(stack'[t], p)
  BY <1>1, <1>3, <1>4, PendingInStays DEF Depth
<1>. QED
  BY <1>1, <1>2, <1>4

LEMMA CallForStep ==
    ASSUME IInv, NEW t \in Threads, stack[t] # <<>>, NEW f \in Frames, NEW item,
           CallFor(t, item, f),
           Grow(refs, refs'), FrameOK(f, refs'), CallsFrame(Top(t), f, refs),
           f.op \notin Holding,
           Top(t).op = "dependents" => f.op = "remove" /\ f.path = item,
           Top(t).op # "remove"
    PROVE  /\ Keeps(t, Depth(t))
           /\ Len(stack'[t]) = Depth(t) + 1
           /\ stack'[t][Depth(t) + 1] = f
           /\ Puts(t, Depth(t), f)
           /\ \A p : PendingIn(stack[t], p) => PendingIn(stack'[t], p)
<1>. USE DEF IInv
<1>1. /\ Keeps(t, Depth(t))
      /\ Len(stack'[t]) = Depth(t) + 1
      /\ stack'[t][Depth(t) + 1] = f
      /\ \A k \in 1 .. Depth(t) - 1 : stack'[t][k] = stack[t][k]
      /\ stack'[t][Depth(t)] = [Top(t) EXCEPT !.todo = @ \ {item}]
  BY CallForIs
<1>2. Puts(t, Depth(t), f)
  BY <1>1, CallPuts DEF Holding
<1>3. Depth(t) \in Nat \ {0} /\ Top(t) \in Frames /\ Top(t) = stack[t][Depth(t)]
  BY DepthType DEF Top
<1>4. stack'[t][Depth(t)].op = Top(t).op /\ stack'[t][Depth(t)].todo = Top(t).todo \ {item}
  BY <1>1, <1>3 DEF Frames
<1>5. ASSUME NEW p, PendingIn(stack[t], p)
      PROVE  PendingIn(stack'[t], p)
  <2>1. PICK k \in 1 .. Depth(t) :
           \/ stack[t][k].op = "remove" /\ stack[t][k].path = p
           \/ stack[t][k].op = "dependents" /\ p \in stack[t][k].todo
    BY <1>5 DEF PendingIn, Depth
  <2>2. k \in 1 .. Len(stack'[t]) /\ Depth(t) \in 1 .. Len(stack'[t])
        /\ Depth(t) + 1 \in 1 .. Len(stack'[t])
    BY <1>1, <1>3
  <2>3. CASE k # Depth(t)
    <3>1. stack'[t][k] = stack[t][k]
      BY <1>1, <1>3, <2>3
    <3>. QED
      BY <2>1, <2>2, <3>1 DEF PendingIn
  <2>4. CASE k = Depth(t) /\ p = item
    <3>1. f.op = "remove" /\ f.path = p
      BY <1>3, <2>1, <2>4
    <3>. QED
      BY <1>1, <2>2, <3>1 DEF PendingIn
  <2>5. CASE k = Depth(t) /\ p # item
    <3>1. stack'[t][k].op = "dependents" /\ p \in stack'[t][k].todo
      BY <1>3, <1>4, <2>1, <2>5
    <3>. QED
      BY <2>2, <3>1 DEF PendingIn
  <2>. QED
    BY <2>3, <2>4, <2>5
<1>. QED
  BY <1>1, <1>2, <1>5

-----------------------------------------------------------------------------
(* Steps that change nothing but a stack *)

LEMMA TopIs ==
    ASSUME IInv, NEW t \in Threads, NEW ops, At(t, ops)
    PROVE  /\ stack[t] # <<>>
           /\ Depth(t) \in Nat \ {0}
           /\ Top(t) \in Frames
           /\ Top(t) = stack[t][Depth(t)]
           /\ Depth(t) \in 1 .. Len(stack[t])
           /\ Top(t).op \in ops
           /\ FrameOK(Top(t), refs)
<1>1. stack[t] # <<>> /\ Top(t).op \in ops
  BY DEF At
<1>2. Depth(t) \in Nat \ {0} /\ Top(t) \in Frames /\ Top(t) = stack[t][Depth(t)]
  BY <1>1, DepthType DEF IInv, Top
<1>3. Depth(t) \in 1 .. Len(stack[t])
  BY <1>2 DEF Depth
<1>4. FrameOK(Top(t), refs)
  BY <1>2, <1>3 DEF IInv, StacksOK, StackOK
<1>. QED
  BY <1>1, <1>2, <1>3, <1>4

LEMMA HoldsIs ==
    /\ \A t, r : Holds(t, r) <=> HoldsIn(stack[t], r)
    /\ \A t, r : CanLock(t, r) <=> \A u \in Threads \ {t} : ~ HoldsIn(stack[u], r)
BY DEF Holds, HoldsIn, Holding, CanLock, Depth

LEMMA GrowRefl ==
    ASSUME TypeOK, refs' = refs
    PROVE  Grow(refs, refs') /\ Latches
<1>1. \A r \in DOMAIN refs : refs[r].status \in Int
  BY RefType
<1>. QED
  BY <1>1 DEF Grow, Latches, TypeOK

(* The frame on top goes on, and nothing else changes. *)
LEMMA QuietBecome ==
    ASSUME IInv, NEW t \in Threads, NEW op \in Ops,
           At(t, Asking), Become(t, [Top(t) EXCEPT !.op = op]),
           op \in Asking, op # "get", Top(t).op # "get",
           op \in {"lock", "raise"} => Top(t).op \in {"lock", "raise"},
           op \in Holding => HoldsIn(stack[t], Top(t).ref) \/ CanLock(t, Top(t).ref),
           op \in {"getraise", "owner"} =>
              \/ refs[Top(t).ref].status = EMPTY
              \/ refs[Top(t).ref].text = source[Top(t).path]
              \/ Top(t).op = "getraise",
           UNCHANGED <<source, calls, parser_map, refs, edgeVars, seen>>
    PROVE  IInv' /\ Grow(refs, refs')
<1>. DEFINE f == [Top(t) EXCEPT !.op = op]
<1>1. /\ stack[t] # <<>>
      /\ Depth(t) \in Nat \ {0}
      /\ Top(t) \in Frames
      /\ Top(t) = stack[t][Depth(t)]
      /\ Top(t).op \in Asking
      /\ FrameOK(Top(t), refs)
  BY TopIs
<1>2. f \in Frames /\ f.op = op /\ f.path = Top(t).path /\ f.ref = Top(t).ref
      /\ f.level = Top(t).level
  BY <1>1, FrameGoesOn
<1>. HIDE DEF f
<1>3. FrameOK(f, refs')
  BY <1>1, <1>2 DEF FrameOK, Asking, WithRef, Holding
<1>4. Grow(refs, refs')
  BY GrowRefl DEF IInv
<1>5. f.op \in Holding =>
         HoldsIn(stack[t], f.ref) \/ \A u \in Threads \ {t} : ~ HoldsIn(stack[u], f.ref)
  BY <1>2, HoldsIs
<1>6. /\ Keeps(t, Depth(t) - 1)
      /\ Len(stack'[t]) = Depth(t)
      /\ stack'[t][Depth(t)] = f
      /\ Puts(t, Depth(t) - 1, f)
      /\ \A p : PendingIn(stack[t], p) => PendingIn(stack'[t], p)
  BY <1>1, <1>2, <1>3, <1>4, <1>5, BecomeStep DEF f
<1>7. Depth(t) = 1 => Answers(t, f)
  BY <1>1, <1>2 DEF Answers
<1>8. Depth(t) - 1 + 1 = Depth(t) /\ (Depth(t) - 1 = 0 => Depth(t) = 1)
  BY <1>1
<1>. QED
  BY <1>1, <1>6, <1>7, <1>8, QuietStep

LEMMA QuietReturn ==
    ASSUME IInv, NEW t \in Threads, stack[t] # <<>>, NEW success, Return(t, success),
           success \/ Top(t).op \in Asking,
           Top(t).op # "remove", Top(t).op = "dependents" => Top(t).todo = {},
           UNCHANGED <<source, calls, parser_map, refs, edgeVars, seen>>
    PROVE  IInv' /\ Grow(refs, refs')
<1>1. /\ Keeps(t, Depth(t) - 1)
      /\ Len(stack'[t]) = Depth(t) - 1
      /\ \A p : PendingIn(stack[t], p) => PendingIn(stack'[t], p)
  BY ReturnStep
<1>2. Depth(t) - 1 # Depth(t) - 1 + 1 /\ ~ (Depth(t) - 1 = 0 /\ Depth(t) - 1 = 1)
  BY DepthType DEF IInv
<1>. QED
  BY <1>1, <1>2, QuietStep

LEMMA QuietCall ==
    ASSUME IInv, NEW t \in Threads, stack[t] # <<>>,
           Keeps(t, Depth(t)), Len(stack'[t]) = Depth(t) + 1,
           Puts(t, Depth(t), stack'[t][Depth(t) + 1]),
           \A p : PendingIn(stack[t], p) => PendingIn(stack'[t], p),
           UNCHANGED <<source, calls, parser_map, refs, edgeVars, seen>>
    PROVE  IInv' /\ Grow(refs, refs')
<1>1. Depth(t) # 0
  BY DepthType DEF IInv
<1>. QED
  BY <1>1, QuietStep

LEMMA CheckFreshStep ==
    ASSUME IInv, NEW t \in Threads, CheckFresh(t)
    PROVE  IInv' /\ Grow(refs, refs')
<1>1. /\ At(t, {"getlock"})
      /\ CanLock(t, Top(t).ref)
      /\ UNCHANGED <<source, calls, parser_map, refs, edgeVars, seen>>
  BY DEF CheckFresh
<1>2. stack[t] # <<>> /\ Top(t).op = "getlock" /\ Top(t).op \in Asking
  BY <1>1, TopIs DEF Asking
<1>3. CASE /\ \/ refs[Top(t).ref].status = EMPTY
              \/ refs[Top(t).ref].text = source[Top(t).path]
           /\ Become(t, [Top(t) EXCEPT !.op = "getraise"])
  <2>1. At(t, Asking)
    BY <1>2 DEF At
  <2>. QED
    BY <1>1, <1>2, <1>3, <2>1, QuietBecome DEF Asking, Ops, WithRef, Holding
<1>4. CASE Return(t, FALSE)
  BY <1>1, <1>2, <1>4, QuietReturn
<1>. QED
  BY <1>3, <1>4 DEF CheckFresh

LEMMA LockStep ==
    ASSUME IInv, NEW t \in Threads, Lock(t)
    PROVE  IInv' /\ Grow(refs, refs')
<1>1. /\ At(t, {"lock"})
      /\ CanLock(t, Top(t).ref)
      /\ Become(t, [Top(t) EXCEPT !.op = "raise"])
      /\ UNCHANGED <<source, calls, parser_map, refs, edgeVars, seen>>
  BY DEF Lock
<1>2. stack[t] # <<>> /\ Top(t).op = "lock" /\ At(t, Asking)
  BY <1>1, TopIs DEF Asking, At
<1>. QED
  BY <1>1, <1>2, QuietBecome DEF Asking, Ops, WithRef, Holding

LEMMA EndRaiseStep ==
    ASSUME IInv, NEW t \in Threads, EndRaise(t)
    PROVE  IInv' /\ Grow(refs, refs')
<1>1. /\ At(t, {"getraise", "raise"})
      /\ UNCHANGED <<source, calls, parser_map, refs, edgeVars, seen>>
  BY DEF EndRaise
<1>2. stack[t] # <<>> /\ Top(t).op \in {"getraise", "raise"} /\ At(t, Asking)
  BY <1>1, TopIs DEF Asking, At
<1>3. CASE Top(t).op = "getraise" /\ Become(t, [Top(t) EXCEPT !.op = "owner"])
  BY <1>1, <1>2, <1>3, QuietBecome DEF Asking, Ops, WithRef, Holding
<1>4. CASE Return(t, ResultFor(refs[Top(t).ref], Top(t).level))
  <2>1. Top(t).op \in Asking /\ Top(t).op # "remove" /\ Top(t).op # "dependents"
    BY <1>2 DEF Asking
  <2>. QED
    BY <1>1, <1>2, <1>4, <2>1, QuietReturn
<1>. QED
  BY <1>3, <1>4 DEF EndRaise

LEMMA AcquireStep ==
    ASSUME IInv, NEW t \in Threads, Acquire(t)
    PROVE  IInv' /\ Grow(refs, refs')
<1>1. PICK ask \in Top(t).todo : Call(t, Frame("get", ask.path, NoRef, EMPTY, {}))
  BY DEF Acquire
<1>2. At(t, {"run"}) /\ UNCHANGED <<source, calls, parser_map, refs, edgeVars, seen>>
  BY DEF Acquire
<1>3. stack[t] # <<>> /\ Top(t) \in Frames /\ Top(t).op = "run" /\ FrameOK(Top(t), refs)
  BY <1>2, TopIs
<1>4. ask \in Requests[<<Top(t).path, refs[Top(t).ref].text, Top(t).level>>]
      /\ Top(t).level \in Phases /\ refs[Top(t).ref].text \in Texts /\ Top(t).path \in Paths
  BY <1>3, Fields DEF FrameOK
<1>5. ask \in Asks
  BY <1>4, RequestsAssumption
<1>. DEFINE f == Frame("get", ask.path, NoRef, EMPTY, {})
<1>6. /\ f \in Frames
      /\ f.op = "get" /\ f.path = ask.path /\ f.level = EMPTY
  <2>1. "get" \in Ops /\ ask.path \in Paths /\ NoRef \in Nat /\ EMPTY \in Status
        /\ {} \in SUBSET (Asks \cup Paths)
    BY <1>5 DEF Ops, Asks, NoRef, EMPTY, Status, FULLY_SOLVED
  <2>. QED
    BY <2>1, FrameIs
<1>. HIDE DEF f
<1>7. Grow(refs, refs')
  BY <1>2, GrowRefl DEF IInv
<1>8. FrameOK(f, refs')
  BY <1>6 DEF FrameOK, WithRef, Holding
<1>9. CallsFrame(Top(t), f, refs)
  <2>1. f.level <= Top(t).level
    BY <1>4, <1>6 DEF EMPTY, Phases, INHERITANCE_SOLVED, FULLY_SOLVED
  <2>. QED
    BY <1>3, <1>4, <1>6, <2>1 DEF CallsFrame
<1>10. /\ Keeps(t, Depth(t))
       /\ Len(stack'[t]) = Depth(t) + 1
       /\ stack'[t][Depth(t) + 1] = f
       /\ Puts(t, Depth(t), f)
       /\ \A p : PendingIn(stack[t], p) => PendingIn(stack'[t], p)
  BY <1>1, <1>3, <1>6, <1>7, <1>8, <1>9, CallStep DEF f, Holding
<1>. QED
  BY <1>2, <1>3, <1>10, QuietCall

LEMMA RaiseDependedStep ==
    ASSUME IInv, NEW t \in Threads, RaiseDepended(t)
    PROVE  IInv' /\ Grow(refs, refs')
<1>. DEFINE r(ask) == refs[Top(t).ref].depended[ask.path]
            f(ask) == Frame("lock", ask.path, r(ask), ask.level, {})
<1>1. PICK ask \in Top(t).todo : r(ask) # NoRef /\ CallFor(t, ask, f(ask))
  BY DEF RaiseDepended
<1>2. At(t, {"run"}) /\ UNCHANGED <<source, calls, parser_map, refs, edgeVars, seen>>
  BY DEF RaiseDepended
<1>3. stack[t] # <<>> /\ Top(t) \in Frames /\ Top(t).op = "run" /\ FrameOK(Top(t), refs)
  BY <1>2, TopIs
<1>4. ask \in Requests[<<Top(t).path, refs[Top(t).ref].text, Top(t).level>>]
      /\ Top(t).level \in Phases /\ refs[Top(t).ref].text \in Texts /\ Top(t).path \in Paths
      /\ Top(t).ref \in DOMAIN refs
  BY <1>3, Fields DEF FrameOK, WithRef, Holding
<1>5. ask \in Asks /\ ask.path \in Paths /\ ask.level \in Status
  BY <1>4, RequestsAssumption DEF Asks
<1>6. r(ask) \in DOMAIN refs /\ refs[r(ask)].path = ask.path /\ r(ask) \in Nat
  BY <1>1, <1>4, <1>5, RefType DEF IInv, DependedOK, Names
<1>7. /\ f(ask) \in Frames
      /\ f(ask).op = "lock" /\ f(ask).path = ask.path
      /\ f(ask).ref = r(ask) /\ f(ask).level = ask.level
  <2>1. "lock" \in Ops /\ {} \in SUBSET (Asks \cup Paths)
    BY DEF Ops, WithRef
  <2>. QED
    BY <1>5, <1>6, <2>1, FrameIs
<1>8. CallFor(t, ask, f(ask))
  BY <1>1
<1>. HIDE DEF f, r
<1>9. Grow(refs, refs')
  BY <1>2, GrowRefl DEF IInv
<1>10. FrameOK(f(ask), refs')
  BY <1>2, <1>6, <1>7 DEF FrameOK
<1>11. CallsFrame(Top(t), f(ask), refs)
  <2>1. f(ask).level <= Top(t).level
    BY <1>4, <1>7, LevelsAssumption
  <2>. QED
    BY <1>3, <1>4, <1>7, <2>1 DEF CallsFrame
<1>12. /\ Keeps(t, Depth(t))
       /\ Len(stack'[t]) = Depth(t) + 1
       /\ stack'[t][Depth(t) + 1] = f(ask)
       /\ Puts(t, Depth(t), f(ask))
       /\ \A p : PendingIn(stack[t], p) => PendingIn(stack'[t], p)
  BY <1>3, <1>7, <1>8, <1>9, <1>10, <1>11, CallForStep DEF Holding
<1>. QED
  BY <1>2, <1>3, <1>12, QuietCall

LEMMA RemoveOwnerStep ==
    ASSUME IInv, NEW t \in Threads, RemoveOwner(t)
    PROVE  IInv' /\ Grow(refs, refs')
<1>. DEFINE f(p) == Frame("remove", p, NoRef, EMPTY, {})
<1>1. PICK p \in Top(t).todo : CallFor(t, p, f(p))
  BY DEF RemoveOwner
<1>2. At(t, {"dependents"}) /\ UNCHANGED <<source, calls, parser_map, refs, edgeVars, seen>>
  BY DEF RemoveOwner
<1>3. stack[t] # <<>> /\ Top(t) \in Frames /\ Top(t).op = "dependents" /\ FrameOK(Top(t), refs)
  BY <1>2, TopIs
<1>4. p \in Paths
  BY <1>3 DEF FrameOK
<1>5. f(p) \in Frames /\ f(p).op = "remove" /\ f(p).path = p /\ f(p).level = EMPTY
  <2>1. "remove" \in Ops /\ NoRef \in Nat /\ EMPTY \in Status /\ {} \in SUBSET (Asks \cup Paths)
    BY DEF Ops, NoRef, EMPTY, Status, FULLY_SOLVED
  <2>. QED
    BY <1>4, <2>1, FrameIs
<1>6. CallFor(t, p, f(p))
  BY <1>1
<1>. HIDE DEF f
<1>7. Grow(refs, refs')
  BY <1>2, GrowRefl DEF IInv
<1>8. FrameOK(f(p), refs')
  BY <1>5 DEF FrameOK, WithRef, Holding
<1>9. CallsFrame(Top(t), f(p), refs)
  <2>1. Top(t).level \in 0 .. 4
    BY <1>3, Fields
  <2>. QED
    BY <1>3, <1>5, <2>1 DEF CallsFrame, EMPTY
<1>10. /\ Keeps(t, Depth(t))
       /\ Len(stack'[t]) = Depth(t) + 1
       /\ stack'[t][Depth(t) + 1] = f(p)
       /\ Puts(t, Depth(t), f(p))
       /\ \A q : PendingIn(stack[t], q) => PendingIn(stack'[t], q)
  BY <1>3, <1>5, <1>6, <1>7, <1>8, <1>9, CallForStep DEF Holding
<1>. QED
  BY <1>2, <1>3, <1>10, QuietCall

LEMMA EndRemoveStep ==
    ASSUME IInv, NEW t \in Threads, EndRemove(t)
    PROVE  IInv' /\ Grow(refs, refs')
<1>1. /\ At(t, {"dependents"})
      /\ Top(t).todo = {}
      /\ Return(t, TRUE)
      /\ UNCHANGED <<source, calls, parser_map, refs, edgeVars, seen>>
  BY DEF EndRemove
<1>2. stack[t] # <<>> /\ Top(t).op = "dependents"
  BY <1>1, TopIs
<1>. QED
  BY <1>1, <1>2, QuietReturn

-----------------------------------------------------------------------------
(* Steps that change parsers or edges *)

LEMMA EdgesStay ==
    ASSUME EdgesAgree, NEW t \in Threads, NEW m, Keeps(t, m), UNCHANGED edgeVars,
           \A p : PendingIn(stack[t], p) => PendingIn(stack'[t], p)
    PROVE  EdgesAgree'
<1>1. \A p : Pending(p) => Pending(p)'
  BY PendingStays
<1>. QED
  BY <1>1 DEF EdgesAgree, edgeVars

LEMMA ChangeStep ==
    ASSUME IInv, NEW t \in Threads, stack[t] # <<>>, NEW m, Moves(t, m),
           m = 0 /\ Len(stack'[t]) = 1 => Answers(t, stack'[t][1]),
           UNCHANGED <<source, calls, seen>>,
           parser_map' \in [Paths -> Nat],
           forward' \subseteq Paths \X Paths, inverse' \subseteq Paths \X Paths,
           MapOK', DependedOK', TextsKnown', OneLiveGeneration', EdgesAgree'
    PROVE  IInv' /\ Grow(refs, refs')
<1>. USE DEF IInv
<1>1. Grow(refs, refs')
  BY DEF Moves
<1>2. TypeOK'
  BY DEF TypeOK, Moves, Keeps, Grow
<1>3. StacksOK' /\ Exclusive' /\ RunsAreGood' /\ RunsApart'
  BY MovesKeep
<1>4. Fresh'
  BY StaysFresh
<1>. QED
  BY <1>1, <1>2, <1>3, <1>4

LEMMA AdmitIs ==
    ASSUME IInv, NEW p \in Paths, parser_map[p] = NoRef, Admit(p)
    PROVE  /\ Grow(refs, refs') /\ Latches
           /\ Len(refs) + 1 \in DOMAIN refs'
           /\ refs'[Len(refs) + 1].path = p
           /\ parser_map' \in [Paths -> Nat]
           /\ MapOK' /\ DependedOK' /\ TextsKnown' /\ OneLiveGeneration'
<1>. USE DEF IInv
<1>. DEFINE n == Len(refs) + 1
<1>1. /\ NewRef(p) \in Parsers
      /\ NewRef(p).path = p
      /\ NewRef(p).status = EMPTY
      /\ ~ NewRef(p).abandoned
      /\ \A q \in Paths : NewRef(p).depended[q] = NoRef
  BY DEF NewRef, Parsers, Contents, Status, EMPTY, FULLY_SOLVED, NoRef
<1>. DEFINE x == NewRef(p)
<1>. HIDE DEF x
<1>2. /\ refs' \in Seq(Parsers)
      /\ DOMAIN refs' = 1 .. n
      /\ refs'[n] = x
      /\ \A r \in DOMAIN refs : refs'[r] = refs[r]
  <2>1. refs' = Append(refs, x) /\ x \in Parsers
    BY <1>1 DEF Admit, x
  <2>2. Len(refs') = n
    BY <2>1, AppendProperties DEF TypeOK
  <2>3. refs' \in Seq(Parsers) /\ refs'[n] = x /\ \A r \in 1 .. Len(refs) : refs'[r] = refs[r]
    BY <2>1, AppendProperties DEF TypeOK
  <2>4. DOMAIN refs' = 1 .. n
    BY <2>2, <2>3, LenProperties
  <2>. QED
    BY <2>3, <2>4, RefType
<1>3. Len(refs) \in Nat /\ DOMAIN refs = 1 .. Len(refs) /\ n \notin DOMAIN refs
      /\ n \in 1 .. n /\ n \in Nat
      /\ \A r \in 1 .. n : r = n \/ r \in DOMAIN refs
  BY RefType
<1>4. x.path = p /\ x.status = EMPTY /\ ~ x.abandoned /\ \A q \in Paths : x.depended[q] = NoRef
  BY <1>1 DEF x
<1>5. parser_map' = [parser_map EXCEPT ![p] = n] /\ parser_map \in [Paths -> Nat]
  BY DEF Admit, TypeOK
<1>. HIDE DEF n
<1>6. Grow(refs, refs') /\ Latches
  <2>1. \A r \in DOMAIN refs : refs[r].status \in Int /\ r \in DOMAIN refs'
    BY <1>2, <1>3, RefType DEF n
  <2>. QED
    BY <1>2, <2>1 DEF Grow, Latches
<1>7. parser_map' \in [Paths -> Nat]
  BY <1>3, <1>5
<1>8. MapOK'
  BY <1>2, <1>3, <1>4, <1>5 DEF MapOK, Names
<1>9. DependedOK'
  BY <1>2, <1>3, <1>4 DEF DependedOK, Names
<1>10. TextsKnown'
  BY <1>2, <1>3, <1>4 DEF TextsKnown
<1>11. OneLiveGeneration'
  <2>1. SUFFICES ASSUME NEW r \in DOMAIN refs'
                 PROVE  ~ refs'[r].abandoned <=> parser_map'[refs'[r].path] = r
    BY DEF OneLiveGeneration
  <2>2. CASE r = n
    BY <1>2, <1>4, <1>5, <2>2
  <2>3. CASE r \in DOMAIN refs
    <3>1. refs'[r] = refs[r] /\ refs[r].path \in Paths /\ r # n /\ r # NoRef
      BY <1>2, <1>3, <2>3, RefType, Fields DEF NoRef
    <3>2. ~ refs[r].abandoned <=> parser_map[refs[r].path] = r
      BY <2>3 DEF OneLiveGeneration
    <3>. QED
      BY <1>5, <3>1, <3>2
  <2>. QED
    BY <1>2, <1>3, <2>2, <2>3
<1>. QED
  BY <1>2, <1>3, <1>4, <1>6, <1>7, <1>8, <1>9, <1>10, <1>11 DEF n

LEMMA GetParserStep ==
    ASSUME IInv, NEW t \in Threads, GetParser(t)
    PROVE  IInv' /\ Grow(refs, refs')
<1>1. At(t, {"get"}) /\ UNCHANGED <<source, calls, edgeVars, seen>>
  BY DEF GetParser
<1>2. /\ stack[t] # <<>> /\ Top(t) \in Frames /\ Top(t).op = "get"
      /\ Depth(t) \in Nat \ {0} /\ Top(t) = stack[t][Depth(t)] /\ Top(t).path \in Paths
  BY <1>1, TopIs, Fields
<1>. DEFINE f(r) == [Top(t) EXCEPT !.op = "getlock", !.ref = r]
<1>3. \A r \in Nat : /\ f(r) \in Frames
                     /\ f(r).op = "getlock" /\ f(r).ref = r
                     /\ f(r).path = Top(t).path /\ f(r).level = Top(t).level
  BY <1>2 DEF Frames, Ops, WithRef
<1>. HIDE DEF f
<1>4. ASSUME NEW r \in DOMAIN refs', refs'[r].path = Top(t).path, r \in Nat,
             Become(t, f(r)), Grow(refs, refs'), Latches
      PROVE  /\ Moves(t, Depth(t) - 1)
             /\ Len(stack'[t]) = Depth(t) - 1 + 1
             /\ Puts(t, Depth(t) - 1, stack'[t][Depth(t) - 1 + 1])
             /\ Depth(t) - 1 = 0 /\ Len(stack'[t]) = 1 => Answers(t, stack'[t][1])
             /\ \A p : PendingIn(stack[t], p) => PendingIn(stack'[t], p)
  <2>1. FrameOK(f(r), refs')
    BY <1>3, <1>4 DEF FrameOK
  <2>2. /\ Keeps(t, Depth(t) - 1)
        /\ Len(stack'[t]) = Depth(t)
        /\ stack'[t][Depth(t)] = f(r)
        /\ Puts(t, Depth(t) - 1, f(r))
        /\ \A p : PendingIn(stack[t], p) => PendingIn(stack'[t], p)
    BY <1>2, <1>3, <1>4, <2>1, BecomeStep DEF Asking, Holding
  <2>3. Depth(t) - 1 + 1 = Depth(t) /\ (Depth(t) - 1 = 0 => Depth(t) = 1)
    BY <1>2
  <2>4. Depth(t) = 1 => Answers(t, f(r))
    BY <1>2, <1>3, <1>4 DEF Answers
  <2>. QED
    BY <1>4, <2>2, <2>3, <2>4 DEF Moves
<1>5. CASE /\ parser_map[Top(t).path] # NoRef
           /\ Become(t, f(parser_map[Top(t).path]))
           /\ UNCHANGED <<parser_map, refs>>
  <2>. DEFINE r == parser_map[Top(t).path]
  <2>1. r \in DOMAIN refs /\ refs[r].path = Top(t).path /\ r \in Nat
    BY <1>2, <1>5, RefType DEF IInv, MapOK, Names
  <2>2. Grow(refs, refs') /\ Latches
    BY <1>5, GrowRefl DEF IInv
  <2>3. r \in DOMAIN refs' /\ refs'[r].path = Top(t).path /\ Become(t, f(r))
    BY <1>5, <2>1
  <2>. HIDE DEF r
  <2>4. /\ Moves(t, Depth(t) - 1)
        /\ Puts(t, Depth(t) - 1, stack'[t][Depth(t) - 1 + 1])
        /\ Depth(t) - 1 = 0 /\ Len(stack'[t]) = 1 => Answers(t, stack'[t][1])
        /\ \A p : PendingIn(stack[t], p) => PendingIn(stack'[t], p)
    BY <1>4, <2>1, <2>2, <2>3
  <2>5. Keeps(t, Depth(t) - 1)
    BY <2>4 DEF Moves
  <2>. QED
    BY <1>1, <1>2, <1>5, <2>4, <2>5, QuietStep
<1>6. CASE /\ parser_map[Top(t).path] = NoRef
           /\ Admit(Top(t).path)
           /\ Become(t, f(Len(refs) + 1))
  <2>1. /\ Grow(refs, refs') /\ Latches
        /\ Len(refs) + 1 \in DOMAIN refs'
        /\ refs'[Len(refs) + 1].path = Top(t).path
        /\ parser_map' \in [Paths -> Nat]
        /\ MapOK' /\ DependedOK' /\ TextsKnown' /\ OneLiveGeneration'
    BY <1>2, <1>6, AdmitIs
  <2>2. Len(refs) + 1 \in Nat
    BY RefType DEF IInv
  <2>3. /\ Moves(t, Depth(t) - 1)
        /\ Depth(t) - 1 = 0 /\ Len(stack'[t]) = 1 => Answers(t, stack'[t][1])
        /\ \A p : PendingIn(stack[t], p) => PendingIn(stack'[t], p)
    BY <1>4, <1>6, <2>1, <2>2
  <2>4. EdgesAgree'
    BY <1>1, <2>3, EdgesStay DEF IInv, Moves
  <2>5. forward' \subseteq Paths \X Paths /\ inverse' \subseteq Paths \X Paths
    BY <1>1 DEF IInv, TypeOK, edgeVars
  <2>. QED
    BY <1>1, <1>2, <2>1, <2>3, <2>4, <2>5, ChangeStep
<1>7. CASE Return(t, FALSE) /\ UNCHANGED <<parser_map, refs>>
  BY <1>1, <1>2, <1>7, QuietReturn DEF Asking
<1>. QED
  BY <1>5, <1>6, <1>7 DEF GetParser, f

(* One parser changes, but not its path or whether it is live. *)
LEMMA OneChanges ==
    ASSUME IInv, NEW r \in DOMAIN refs, NEW x \in Parsers, refs' = [refs EXCEPT ![r] = x],
           UNCHANGED <<source, parser_map>>,
           x.path = refs[r].path,
           x.abandoned = refs[r].abandoned,
           \A p \in Paths : Names(x.depended[p], p, refs),
           x.status # EMPTY /\ (x.ok \/ x.status > PARSED) => x.text \in Texts,
           refs[r].status <= x.status,
           refs[r].status # EMPTY => x.text = refs[r].text,
           refs[r].status = EMPTY /\ x.status # EMPTY => x.text = source[refs[r].path],
           ~ refs[r].ok => ~ x.ok /\ x.status = refs[r].status
    PROVE  /\ Grow(refs, refs')
           /\ DOMAIN refs' = DOMAIN refs
           /\ refs'[r] = x
           /\ \A q \in DOMAIN refs : q # r => refs'[q] = refs[q]
           /\ parser_map' \in [Paths -> Nat]
           /\ MapOK' /\ DependedOK' /\ TextsKnown' /\ OneLiveGeneration'
<1>. USE DEF IInv
<1>1. /\ refs' \in Seq(Parsers)
      /\ DOMAIN refs' = DOMAIN refs
      /\ refs'[r] = x
      /\ \A q \in DOMAIN refs : q # r => refs'[q] = refs[q]
  <2>1. r \in 1 .. Len(refs)
    BY RefType
  <2>. QED
    BY <2>1, ExceptSeq, RefType DEF TypeOK
<1>2. \A q \in DOMAIN refs : refs[q].status \in Int /\ refs'[q].path = refs[q].path
  BY <1>1, RefType
<1>3. Grow(refs, refs')
  BY <1>1, <1>2 DEF Grow
<1>4. parser_map' \in [Paths -> Nat]
  BY DEF TypeOK
<1>5. MapOK'
  BY <1>1, <1>2 DEF MapOK, Names
<1>6. DependedOK'
  <2>1. SUFFICES ASSUME NEW q \in DOMAIN refs, NEW p \in Paths
                 PROVE  Names(refs'[q].depended[p], p, refs')
    BY <1>1 DEF DependedOK, Names
  <2>2. Names(refs'[q].depended[p], p, refs)
    BY <1>1 DEF DependedOK
  <2>. QED
    BY <1>1, <1>2, <2>2 DEF Names
<1>7. TextsKnown'
  BY <1>1 DEF TextsKnown
<1>8. OneLiveGeneration'
  BY <1>1, <1>2 DEF OneLiveGeneration
<1>. QED
  BY <1>1, <1>3, <1>4, <1>5, <1>6, <1>7, <1>8

LEMMA RecordOwnerStep ==
    ASSUME IInv, NEW t \in Threads, RecordOwner(t)
    PROVE  IInv' /\ Grow(refs, refs')
<1>1. /\ At(t, {"owner"})
      /\ Return(t, TRUE)
      /\ UNCHANGED <<source, calls, parser_map, seen>>
  BY DEF RecordOwner
<1>2. /\ stack[t] # <<>> /\ Top(t) \in Frames /\ Top(t).op = "owner"
      /\ Depth(t) \in Nat \ {0} /\ Top(t) = stack[t][Depth(t)] /\ FrameOK(Top(t), refs)
  BY <1>1, TopIs
<1>3. /\ Keeps(t, Depth(t) - 1)
      /\ Len(stack'[t]) = Depth(t) - 1
      /\ \A p : PendingIn(stack[t], p) => PendingIn(stack'[t], p)
  BY <1>1, <1>2, ReturnStep
<1>4. CASE UNCHANGED <<refs, edgeVars>>
  BY <1>1, <1>2, <1>4, QuietReturn
<1>5. CASE /\ Depth(t) # 1
           /\ refs' = [refs EXCEPT ![Caller(t).ref].depended[Top(t).path] = Top(t).ref]
           /\ IF Caller(t).path = Top(t).path
              THEN UNCHANGED edgeVars
              ELSE /\ forward' = forward \cup {<<Caller(t).path, Top(t).path>>}
                   /\ inverse' = inverse \cup {<<Top(t).path, Caller(t).path>>}
  <2>. DEFINE r == Caller(t).ref
              p == Top(t).path
              x == [refs[r] EXCEPT !.depended = [@ EXCEPT ![p] = Top(t).ref]]
  <2>1. /\ Depth(t) - 1 \in 1 .. Len(stack[t]) - 1
        /\ Depth(t) - 1 \in 1 .. Len(stack[t])
        /\ Depth(t) - 1 + 1 = Depth(t)
        /\ Caller(t) = stack[t][Depth(t) - 1]
    <3>1. Depth(t) # 1
      BY <1>5
    <3>2. Caller(t) = stack[t][Depth(t) - 1] /\ Depth(t) = Len(stack[t])
      BY DEF Caller, Depth
    <3>3. Depth(t) - 1 \in 1 .. Depth(t) - 1 /\ Depth(t) - 1 + 1 = Depth(t)
          /\ Depth(t) - 1 \in 1 .. Depth(t)
      BY <1>2, <3>1
    <3>. QED
      BY <3>2, <3>3
  <2>2. Caller(t) \in Frames /\ FrameOK(Caller(t), refs) /\ CallsFrame(Caller(t), Top(t), refs)
    BY <1>2, <2>1, DepthType DEF IInv, StacksOK, StackOK, Depth
  <2>3. Caller(t).op = "run"
    BY <1>2, <2>2 DEF CallsFrame
  <2>4. r \in DOMAIN refs /\ p \in Paths /\ Caller(t).path \in Paths
        /\ Top(t).ref \in DOMAIN refs /\ refs[Top(t).ref].path = p
    BY <1>2, <2>2, <2>3, Fields DEF FrameOK, WithRef, Holding
  <2>5. refs[r] \in Parsers /\ Top(t).ref \in Nat
    BY <1>2, <2>4, RefType, Fields DEF IInv
  <2>6. /\ x \in Parsers
        /\ x.path = refs[r].path /\ x.abandoned = refs[r].abandoned /\ x.text = refs[r].text
        /\ x.status = refs[r].status /\ x.ok = refs[r].ok
        /\ \A q \in Paths : x.depended[q] = IF q = p THEN Top(t).ref ELSE refs[r].depended[q]
    BY <2>4, <2>5 DEF Parsers
  <2>7. refs' = [refs EXCEPT ![r] = x]
    BY <1>5, <2>4, <2>5 DEF Parsers
  <2>. HIDE DEF x
  <2>8. \A q \in Paths : Names(x.depended[q], q, refs)
    <3>1. \A q \in Paths : Names(refs[r].depended[q], q, refs)
      BY <2>4 DEF IInv, DependedOK
    <3>. QED
      BY <2>4, <2>6, <3>1 DEF Names
  <2>9. x.status # EMPTY /\ (x.ok \/ x.status > PARSED) => x.text \in Texts
    BY <2>4, <2>6 DEF IInv, TextsKnown
  <2>10. refs[r].status <= x.status
    BY <2>4, <2>6, RefType DEF IInv
  <2>11. /\ Grow(refs, refs')
         /\ DOMAIN refs' = DOMAIN refs
         /\ refs'[r] = x
         /\ \A q \in DOMAIN refs : q # r => refs'[q] = refs[q]
         /\ parser_map' \in [Paths -> Nat]
         /\ MapOK' /\ DependedOK' /\ TextsKnown' /\ OneLiveGeneration'
    BY <1>1, <2>4, <2>6, <2>7, <2>8, <2>9, <2>10, OneChanges
  <2>12. Latches
    BY <2>6, <2>11 DEF Latches
  <2>13. Depth(t) - 1 # 0 /\ Depth(t) - 1 # Depth(t) - 1 + 1
    BY <1>2, <1>5
  <2>14. Moves(t, Depth(t) - 1)
    BY <1>3, <2>11, <2>12, <2>13 DEF Moves
  <2>15. forward' \subseteq Paths \X Paths /\ inverse' \subseteq Paths \X Paths
    BY <1>5, <2>4 DEF IInv, TypeOK, edgeVars
  <2>16. EdgesAgree'
    <3>1. CASE UNCHANGED edgeVars
      BY <1>3, <3>1, EdgesStay DEF IInv
    <3>2. CASE /\ forward' = forward \cup {<<Caller(t).path, p>>}
               /\ inverse' = inverse \cup {<<p, Caller(t).path>>}
      <4>1. \A q : Pending(q) => Pending(q)'
        BY <1>3, PendingStays
      <4>. QED
        BY <3>2, <4>1 DEF IInv, EdgesAgree
    <3>. QED
      BY <1>5, <3>1, <3>2
  <2>. QED
    BY <1>1, <1>2, <2>11, <2>13, <2>14, <2>15, <2>16, ChangeStep
<1>. QED
  BY <1>4, <1>5 DEF RecordOwner

(* Phases of a parser on a stack have begun. *)
LEMMA RunsHaveBegun ==
    ASSUME IInv, NEW u \in Threads, NEW k \in 1 .. Len(stack[u]), stack[u][k].op = "run"
    PROVE  /\ stack[u][k].ref \in DOMAIN refs
           /\ stack[u][k].level \in 2 .. 4
           /\ stack[u][k].level <= refs[stack[u][k].ref].status
<1>1. FrameOK(stack[u][k], refs)
  BY DEF IInv, StacksOK, StackOK
<1>. QED
  BY <1>1 DEF FrameOK, WithRef, Holding, Phases, INHERITANCE_SOLVED, FULLY_SOLVED

LEMMA ParseStep ==
    ASSUME IInv, NEW t \in Threads, Parse(t)
    PROVE  IInv' /\ Grow(refs, refs')
<1>. DEFINE r == Top(t).ref
            src == source[Top(t).path]
            parsed == src # Missing /\ <<Top(t).path, src, PARSED>> \notin Fails
            x == [refs[r] EXCEPT !.status = PARSED, !.text = src, !.ok = parsed]
            f == Frame("edges", Top(t).path, r, PARSED, {})
<1>1. /\ At(t, {"getraise", "raise"})
      /\ UNCHANGED <<source, calls, parser_map, edgeVars, seen>>
      /\ refs[r].ok
      /\ refs[r].status < Top(t).level
      /\ refs[r].status = EMPTY
  BY DEF Parse, Unfinished
<1>2. /\ refs' = [refs EXCEPT ![r].status = PARSED, ![r].text = src, ![r].ok = parsed]
      /\ IF parsed THEN Call(t, f) ELSE UNCHANGED stack
  BY DEF Parse
<1>3. /\ stack[t] # <<>> /\ Top(t) \in Frames /\ Top(t).op \in {"getraise", "raise"}
      /\ Depth(t) \in Nat \ {0} /\ Top(t) = stack[t][Depth(t)] /\ FrameOK(Top(t), refs)
      /\ Depth(t) \in 1 .. Len(stack[t])
  BY <1>1, TopIs
<1>4. r \in DOMAIN refs /\ refs[r].path = Top(t).path /\ refs[r] \in Parsers /\ Top(t).path \in Paths
  BY <1>3, RefType, Fields DEF IInv, FrameOK, WithRef, Holding
<1>5. src \in Contents
  BY <1>4 DEF IInv, TypeOK
<1>6. parsed \in BOOLEAN
  OBVIOUS
<1>. HIDE DEF parsed
<1>7. /\ x \in Parsers
      /\ x.path = refs[r].path /\ x.abandoned = refs[r].abandoned /\ x.text = src
      /\ x.status = PARSED /\ x.depended = refs[r].depended
      /\ x.ok <=> parsed
  <2>1. PARSED \in Status
    BY DEF PARSED, Status, EMPTY, FULLY_SOLVED
  <2>. QED
    BY <1>4, <1>5, <1>6, <2>1 DEF Parsers
<1>8. refs' = [refs EXCEPT ![r] = x]
  BY <1>2, <1>4
<1>9. parsed => src \in Texts
  BY <1>5 DEF parsed, Contents
<1>. HIDE DEF x
<1>10. \A p \in Paths : Names(x.depended[p], p, refs)
  BY <1>4, <1>7 DEF IInv, DependedOK
<1>11. /\ refs[r].status <= x.status /\ refs[r].status = EMPTY /\ x.status # EMPTY
       /\ ~ (x.status > PARSED)
  BY <1>1, <1>7 DEF EMPTY, PARSED
<1>12. /\ Grow(refs, refs')
       /\ DOMAIN refs' = DOMAIN refs
       /\ refs'[r] = x
       /\ \A q \in DOMAIN refs : q # r => refs'[q] = refs[q]
       /\ parser_map' \in [Paths -> Nat]
       /\ MapOK' /\ DependedOK' /\ TextsKnown' /\ OneLiveGeneration'
  BY <1>1, <1>4, <1>7, <1>8, <1>9, <1>10, <1>11, OneChanges
<1>13. forward' \subseteq Paths \X Paths /\ inverse' \subseteq Paths \X Paths
  BY <1>1 DEF IInv, TypeOK, edgeVars
<1>14. CASE ~ parsed
  <2>1. Keeps(t, Depth(t)) /\ Len(stack'[t]) = Depth(t)
    BY <1>2, <1>3, <1>14, SameRefl DEF Keeps, Depth, IInv, TypeOK
  <2>2. Latches
    <3>1. SUFFICES ASSUME NEW u \in Threads, NEW k \in 1 .. Len(stack[u]),
                          stack[u][k].op = "run"
                   PROVE  stack[u][k].ref # r
      BY <1>2, <1>12, <1>14 DEF Latches
    <3>2. /\ stack[u][k].level \in 2 .. 4
          /\ stack[u][k].level <= refs[stack[u][k].ref].status
      BY <3>1, RunsHaveBegun
    <3>. QED
      BY <1>1, <3>2 DEF EMPTY
  <2>3. Depth(t) # Depth(t) + 1 /\ Depth(t) # 0
    BY <1>3
  <2>4. Moves(t, Depth(t))
    BY <1>12, <2>1, <2>2, <2>3 DEF Moves
  <2>5. EdgesAgree'
    BY <1>1, <1>2, <1>14, <2>1, EdgesStay DEF IInv
  <2>. QED
    BY <1>1, <1>3, <1>12, <1>13, <2>3, <2>4, <2>5, ChangeStep
<1>15. CASE parsed
  <2>1. /\ f \in Frames
        /\ f.op = "edges" /\ f.path = Top(t).path /\ f.ref = r /\ f.level = PARSED
    <3>1. "edges" \in Ops /\ r \in Nat /\ PARSED \in Status /\ {} \in SUBSET (Asks \cup Paths)
      BY <1>3, Fields DEF Ops, WithRef, Holding, PARSED, Status, EMPTY, FULLY_SOLVED
    <3>. QED
      BY <1>4, <3>1, FrameIs
  <2>2. Call(t, f)
    BY <1>2, <1>15
  <2>. HIDE DEF f
  <2>3. FrameOK(f, refs')
    BY <1>4, <1>7, <1>9, <1>11, <1>12, <1>15, <2>1 DEF FrameOK
  <2>4. CallsFrame(Top(t), f, refs)
    <3>1. f.level <= Top(t).level
      BY <1>1, <1>3, <2>1, Fields DEF EMPTY, PARSED
    <3>. QED
      BY <1>3, <2>1, <3>1 DEF CallsFrame
  <2>5. HoldsIn(stack[t], r)
    BY <1>3 DEF HoldsIn, Holding
  <2>6. /\ Keeps(t, Depth(t))
        /\ Len(stack'[t]) = Depth(t) + 1
        /\ stack'[t][Depth(t) + 1] = f
        /\ Puts(t, Depth(t), f)
        /\ \A p : PendingIn(stack[t], p) => PendingIn(stack'[t], p)
    BY <1>3, <1>12, <2>1, <2>2, <2>3, <2>4, <2>5, CallStep
  <2>7. Latches
    BY <1>7, <1>12, <1>15 DEF Latches
  <2>8. Moves(t, Depth(t)) /\ Depth(t) # 0
    BY <1>3, <1>12, <2>6, <2>7 DEF Moves
  <2>9. EdgesAgree'
    BY <1>1, <2>6, EdgesStay DEF IInv
  <2>. QED
    BY <1>1, <1>3, <1>12, <1>13, <2>8, <2>9, ChangeStep
<1>. QED
  BY <1>14, <1>15

LEMMA StartPhaseStep ==
    ASSUME IInv, NEW t \in Threads, StartPhase(t)
    PROVE  IInv' /\ Grow(refs, refs')
<1>. DEFINE r == Top(t).ref
            phase == refs[r].status + 1
            todo == Requests[<<Top(t).path, refs[r].text, phase>>]
            x == [refs[r] EXCEPT !.status = phase]
            f == Frame("run", Top(t).path, r, phase, todo)
<1>1. /\ At(t, {"getraise", "raise"})
      /\ UNCHANGED <<source, calls, parser_map, edgeVars, seen>>
      /\ refs[r].ok
      /\ refs[r].status < Top(t).level
      /\ refs[r].status # EMPTY
      /\ refs' = [refs EXCEPT ![r].status = phase]
      /\ Call(t, f)
  BY DEF StartPhase, Unfinished
<1>2. /\ stack[t] # <<>> /\ Top(t) \in Frames /\ Top(t).op \in {"getraise", "raise"}
      /\ Depth(t) \in Nat \ {0} /\ Top(t) = stack[t][Depth(t)] /\ FrameOK(Top(t), refs)
      /\ Depth(t) \in 1 .. Len(stack[t])
  BY <1>1, TopIs
<1>3. r \in DOMAIN refs /\ r \in Nat /\ refs[r].path = Top(t).path /\ refs[r] \in Parsers
      /\ Top(t).path \in Paths /\ Top(t).level \in 0 .. 4
  BY <1>2, RefType, Fields DEF IInv, FrameOK, WithRef, Holding
<1>4. refs[r].text \in Texts
  BY <1>1, <1>3 DEF IInv, TextsKnown
<1>5. refs[r].status \in 1 .. 3 /\ phase \in 2 .. 4 /\ phase <= Top(t).level
  <2>1. refs[r].status \in 0 .. 4
    BY <1>3, Fields
  <2>. QED
    BY <1>1, <1>3, <2>1 DEF EMPTY
<1>6. phase \in Phases /\ phase \in Status
  BY <1>5 DEF Phases, Status, EMPTY, INHERITANCE_SOLVED, FULLY_SOLVED
<1>7. todo \in SUBSET Asks
  BY <1>3, <1>4, <1>6, RequestsAssumption
<1>. HIDE DEF phase, todo
<1>8. /\ x \in Parsers
      /\ x.path = refs[r].path /\ x.abandoned = refs[r].abandoned /\ x.text = refs[r].text
      /\ x.status = phase /\ x.depended = refs[r].depended /\ x.ok = refs[r].ok
  BY <1>3, <1>6 DEF Parsers
<1>9. refs' = [refs EXCEPT ![r] = x]
  BY <1>1, <1>3
<1>. HIDE DEF x
<1>10. \A p \in Paths : Names(x.depended[p], p, refs)
  BY <1>3, <1>8 DEF IInv, DependedOK
<1>11. refs[r].status <= x.status /\ x.status # EMPTY /\ phase = refs[r].status + 1
  BY <1>5, <1>8 DEF EMPTY, phase
<1>12. /\ Grow(refs, refs')
       /\ DOMAIN refs' = DOMAIN refs
       /\ refs'[r] = x
       /\ \A q \in DOMAIN refs : q # r => refs'[q] = refs[q]
       /\ parser_map' \in [Paths -> Nat]
       /\ MapOK' /\ DependedOK' /\ TextsKnown' /\ OneLiveGeneration'
  BY <1>1, <1>3, <1>4, <1>8, <1>9, <1>10, <1>11, OneChanges
<1>13. forward' \subseteq Paths \X Paths /\ inverse' \subseteq Paths \X Paths
  BY <1>1 DEF IInv, TypeOK, edgeVars
<1>14. /\ f \in Frames
       /\ f.op = "run" /\ f.path = Top(t).path /\ f.ref = r /\ f.level = phase /\ f.todo = todo
  <2>1. "run" \in Ops /\ todo \in SUBSET (Asks \cup Paths)
    BY <1>7 DEF Ops, WithRef, Holding
  <2>. QED
    BY <1>3, <1>6, <2>1, FrameIs
<1>. HIDE DEF f
<1>15. FrameOK(f, refs')
  <2>1. /\ f.ref \in DOMAIN refs' /\ refs'[f.ref].path = f.path
        /\ refs'[f.ref].text \in Texts /\ refs'[f.ref].status # EMPTY
        /\ f.level \in Phases
    BY <1>3, <1>4, <1>6, <1>8, <1>11, <1>12, <1>14
  <2>2. f.level <= refs'[f.ref].status
    BY <1>5, <1>8, <1>12, <1>14
  <2>3. f.todo \subseteq Requests[<<f.path, refs'[f.ref].text, f.level>>]
    BY <1>8, <1>12, <1>14 DEF todo
  <2>. QED
    BY <1>14, <2>1, <2>2, <2>3 DEF FrameOK
<1>16. CallsFrame(Top(t), f, refs)
  BY <1>2, <1>5, <1>14 DEF CallsFrame
<1>17. HoldsIn(stack[t], r)
  BY <1>2 DEF HoldsIn, Holding
<1>18. ASSUME NEW k \in 1 .. Depth(t), stack[t][k].op = "run"
       PROVE  stack[t][k].ref # f.ref
  <2>1. /\ stack[t][k].level \in 2 .. 4
        /\ stack[t][k].level <= refs[stack[t][k].ref].status
    BY <1>18, RunsHaveBegun DEF Depth
  <2>2. k < Depth(t)
    BY <1>2, <1>18
  <2>3. Top(t).level <= stack[t][k].level
    BY <1>2, <2>2 DEF IInv, StacksOK, StackOK, Depth
  <2>. QED
    BY <1>1, <1>3, <1>5, <1>14, <2>1, <2>3
<1>19. refs'[f.ref].ok
  BY <1>1, <1>8, <1>12, <1>14
<1>20. /\ Keeps(t, Depth(t))
       /\ Len(stack'[t]) = Depth(t) + 1
       /\ stack'[t][Depth(t) + 1] = f
       /\ Puts(t, Depth(t), f)
       /\ \A p : PendingIn(stack[t], p) => PendingIn(stack'[t], p)
  BY <1>1, <1>2, <1>12, <1>14, <1>15, <1>16, <1>17, <1>18, <1>19, CallStep
<1>21. Latches
  BY <1>8, <1>12 DEF Latches
<1>22. Moves(t, Depth(t)) /\ Depth(t) # 0
  BY <1>2, <1>12, <1>20, <1>21 DEF Moves
<1>23. EdgesAgree'
  BY <1>1, <1>20, EdgesStay DEF IInv
<1>. QED
  BY <1>1, <1>2, <1>12, <1>13, <1>22, <1>23, ChangeStep

LEMMA EndPhaseStep ==
    ASSUME IInv, NEW t \in Threads, EndPhase(t)
    PROVE  IInv' /\ Grow(refs, refs')
<1>. DEFINE r == Top(t).ref
            good == Top(t).ok /\ <<Top(t).path, refs[r].text, Top(t).level>> \notin Fails
            x == [refs[r] EXCEPT !.ok = good]
<1>1. /\ At(t, {"run"})
      /\ UNCHANGED <<source, calls, parser_map, edgeVars, seen>>
      /\ refs' = [refs EXCEPT ![r].ok = good]
      /\ Return(t, TRUE)
  BY DEF EndPhase
<1>2. /\ stack[t] # <<>> /\ Top(t) \in Frames /\ Top(t).op = "run"
      /\ Depth(t) \in Nat \ {0} /\ Top(t) = stack[t][Depth(t)]
      /\ Depth(t) \in 1 .. Len(stack[t])
  BY <1>1, TopIs
<1>3. r \in DOMAIN refs /\ r \in Nat /\ refs[r] \in Parsers /\ refs[r].status \in 0 .. 4
  BY <1>2, RunsHaveBegun, RefType, Fields DEF IInv
<1>4. refs[r].status # EMPTY
  <2>1. Top(t).level \in 2 .. 4 /\ Top(t).level <= refs[r].status
    BY <1>2, RunsHaveBegun
  <2>. QED
    BY <1>3, <2>1 DEF EMPTY
<1>5. refs[r].ok
  BY <1>2 DEF IInv, RunsAreGood, RunsGoodIn
<1>6. good \in BOOLEAN
  OBVIOUS
<1>. HIDE DEF good
<1>7. /\ x \in Parsers
      /\ x.path = refs[r].path /\ x.abandoned = refs[r].abandoned /\ x.text = refs[r].text
      /\ x.status = refs[r].status /\ x.depended = refs[r].depended
  BY <1>3, <1>6 DEF Parsers
<1>8. refs' = [refs EXCEPT ![r] = x]
  BY <1>1, <1>3
<1>. HIDE DEF x
<1>9. \A p \in Paths : Names(x.depended[p], p, refs)
  BY <1>3, <1>7 DEF IInv, DependedOK
<1>10. x.text \in Texts
  BY <1>3, <1>4, <1>5, <1>7 DEF IInv, TextsKnown
<1>11. refs[r].status <= x.status
  BY <1>3, <1>7
<1>12. /\ Grow(refs, refs')
       /\ DOMAIN refs' = DOMAIN refs
       /\ refs'[r] = x
       /\ \A q \in DOMAIN refs : q # r => refs'[q] = refs[q]
       /\ parser_map' \in [Paths -> Nat]
       /\ MapOK' /\ DependedOK' /\ TextsKnown' /\ OneLiveGeneration'
  BY <1>1, <1>3, <1>4, <1>5, <1>7, <1>8, <1>9, <1>10, <1>11, OneChanges
<1>13. /\ Keeps(t, Depth(t) - 1)
       /\ Len(stack'[t]) = Depth(t) - 1
       /\ \A k \in 1 .. Depth(t) - 1 : stack'[t][k] = stack[t][k]
  BY <1>1, <1>2, ReturnIs DEF IInv
<1>14. \A p : PendingIn(stack[t], p) => PendingIn(stack'[t], p)
  BY <1>1, <1>2, ReturnStep
<1>15. Latches
  <2>1. SUFFICES ASSUME NEW u \in Threads, NEW k \in 1 .. Len(stack'[u]),
                        stack'[u][k].op = "run"
                 PROVE  stack'[u][k].ref # r
    BY <1>12 DEF Latches
  <2>2. CASE u = t
    <3>1. /\ k \in 1 .. Len(stack[t]) /\ k # Depth(t)
          /\ stack'[t][k] = stack[t][k]
      BY <1>2, <1>13, <2>1, <2>2 DEF Depth
    <3>. QED
      BY <1>2, <2>1, <2>2, <3>1 DEF IInv, RunsApart, RunsApartIn
  <2>3. CASE u # t
    <3>1. stack'[u] = stack[u]
      BY <1>13, <2>3 DEF Keeps
    <3>2. HoldsIn(stack[t], r)
      BY <1>2 DEF HoldsIn, Holding
    <3>3. stack[u][k].ref = r => HoldsIn(stack[u], r)
      BY <2>1, <3>1 DEF HoldsIn, Holding
    <3>. QED
      BY <1>3, <2>3, <3>1, <3>2, <3>3 DEF IInv, Exclusive
  <2>. QED
    BY <2>2, <2>3
<1>16. Depth(t) - 1 # Depth(t) - 1 + 1 /\ ~ (Depth(t) - 1 = 0 /\ Depth(t) - 1 = 1)
  BY <1>2
<1>17. Moves(t, Depth(t) - 1)
  BY <1>12, <1>13, <1>15, <1>16 DEF Moves
<1>18. EdgesAgree'
  BY <1>1, <1>13, <1>14, EdgesStay DEF IInv
<1>19. forward' \subseteq Paths \X Paths /\ inverse' \subseteq Paths \X Paths
  BY <1>1 DEF IInv, TypeOK, edgeVars
<1>. QED
  BY <1>1, <1>2, <1>12, <1>13, <1>16, <1>17, <1>18, <1>19, ChangeStep

-----------------------------------------------------------------------------
(* Edges *)

(* What is left when the edges of the owners S go: every inverse edge of   *)
(* another owner, with its forward edge.                                   *)
LEMMA WithoutIs ==
    ASSUME TypeOK, EdgesAgree, NEW S
    PROVE  /\ InverseWithout(S) = {e \in inverse : e[2] \notin S}
           /\ \A e \in InverseWithout(S) : <<e[2], e[1]>> \in ForwardWithout(S)
           /\ ForwardWithout(S) \subseteq Paths \X Paths
           /\ InverseWithout(S) \subseteq Paths \X Paths
<1>1. \A e \in inverse : <<e[2], e[1]>> \in forward
  BY DEF EdgesAgree
<1>2. InverseWithout(S) = {e \in inverse : e[2] \notin S}
  BY <1>1 DEF InverseWithout
<1>3. ASSUME NEW e \in inverse, e[2] \notin S
      PROVE  <<e[2], e[1]>> \in ForwardWithout(S)
  BY <1>1, <1>3 DEF ForwardWithout
<1>. QED
  BY <1>2, <1>3 DEF TypeOK, ForwardWithout

LEMMA RecordEdgesStep ==
    ASSUME IInv, NEW t \in Threads, RecordEdges(t)
    PROVE  IInv' /\ Grow(refs, refs')
<1>. DEFINE p == Top(t).path
            imports == Imports[<<p, refs[Top(t).ref].text>>]
<1>1. /\ At(t, {"edges"})
      /\ UNCHANGED <<source, calls, parser_map, refs, seen>>
      /\ forward' = ForwardWithout({p}) \cup {<<p, q>> : q \in imports}
      /\ inverse' = InverseWithout({p}) \cup {<<q, p>> : q \in imports}
      /\ Return(t, TRUE)
  BY DEF RecordEdges
<1>2. /\ stack[t] # <<>> /\ Top(t) \in Frames /\ Top(t).op = "edges"
      /\ Depth(t) \in Nat \ {0} /\ FrameOK(Top(t), refs)
  BY <1>1, TopIs
<1>3. p \in Paths /\ imports \subseteq Paths
  BY <1>2, Fields, ImportsAssumption DEF FrameOK
<1>. HIDE DEF imports
<1>4. /\ Keeps(t, Depth(t) - 1)
      /\ Len(stack'[t]) = Depth(t) - 1
      /\ \A q : PendingIn(stack[t], q) => PendingIn(stack'[t], q)
  BY <1>1, <1>2, ReturnStep
<1>5. Depth(t) - 1 # Depth(t) - 1 + 1 /\ ~ (Depth(t) - 1 = 0 /\ Depth(t) - 1 = 1)
  BY <1>2
<1>6. Grow(refs, refs') /\ Latches
  BY <1>1, GrowRefl DEF IInv
<1>7. Moves(t, Depth(t) - 1)
  BY <1>4, <1>5, <1>6 DEF Moves
<1>8. /\ InverseWithout({p}) = {e \in inverse : e[2] \notin {p}}
      /\ \A e \in InverseWithout({p}) : <<e[2], e[1]>> \in ForwardWithout({p})
      /\ ForwardWithout({p}) \subseteq Paths \X Paths
      /\ InverseWithout({p}) \subseteq Paths \X Paths
  BY WithoutIs DEF IInv
<1>9. forward' \subseteq Paths \X Paths /\ inverse' \subseteq Paths \X Paths
  <2>1. {<<p, q>> : q \in imports} \subseteq Paths \X Paths
    BY <1>3
  <2>2. {<<q, p>> : q \in imports} \subseteq Paths \X Paths
    BY <1>3
  <2>. QED
    BY <1>1, <1>8, <2>1, <2>2
<1>10. EdgesAgree'
  <2>1. ASSUME NEW e \in inverse' PROVE <<e[2], e[1]>> \in forward'
    <3>1. CASE e \in InverseWithout({p})
      BY <1>1, <1>8, <3>1
    <3>2. CASE e \in {<<q, p>> : q \in imports}
      <4>1. PICK q \in imports : e = <<q, p>>
        BY <3>2
      <4>2. <<e[2], e[1]>> = <<p, q>>
        BY <4>1
      <4>. QED
        BY <1>1, <4>2
    <3>. QED
      BY <1>1, <2>1, <3>1, <3>2
  <2>2. ASSUME NEW e \in forward'
        PROVE  <<e[2], e[1]>> \in inverse' \/ Pending(e[1])'
    <3>1. CASE e \in {<<p, q>> : q \in imports}
      BY <1>1, <3>1
    <3>2. CASE e \in ForwardWithout({p})
      <4>1. e \in forward /\ e[1] # p
        BY <3>2 DEF ForwardWithout
      <4>2. CASE <<e[2], e[1]>> \in inverse
        BY <1>1, <1>8, <4>1, <4>2
      <4>3. CASE Pending(e[1])
        BY <1>4, <4>3, PendingStays
      <4>. QED
        BY <4>1, <4>2, <4>3 DEF IInv, EdgesAgree
    <3>. QED
      BY <1>1, <2>2, <3>1, <3>2
  <2>. QED
    BY <2>1, <2>2 DEF EdgesAgree
<1>11. MapOK' /\ DependedOK' /\ TextsKnown' /\ OneLiveGeneration' /\ parser_map' \in [Paths -> Nat]
  BY <1>1 DEF IInv, TypeOK, MapOK, DependedOK, TextsKnown, OneLiveGeneration
<1>. QED
  BY <1>1, <1>2, <1>4, <1>5, <1>7, <1>9, <1>10, <1>11, ChangeStep

-----------------------------------------------------------------------------
(* Removal and refresh *)

LEMMA DetachIs ==
    ASSUME IInv, NEW S \in SUBSET Paths, Detach(S)
    PROVE  /\ Grow(refs, refs') /\ Latches
           /\ DOMAIN refs' = DOMAIN refs
           /\ \A r \in DOMAIN refs : refs'[r].path = refs[r].path
           /\ parser_map' \in [Paths -> Nat]
           /\ MapOK' /\ DependedOK' /\ TextsKnown' /\ OneLiveGeneration'
<1>. USE DEF IInv
<1>. DEFINE gone(r) == \E p \in S : parser_map[p] = r
            x(r) == IF gone(r) THEN [refs[r] EXCEPT !.abandoned = TRUE] ELSE refs[r]
<1>1. refs' = [r \in DOMAIN refs |-> x(r)]
  BY DEF Detach
<1>2. \A r \in DOMAIN refs :
         /\ x(r) \in Parsers
         /\ x(r).path = refs[r].path /\ x(r).status = refs[r].status /\ x(r).ok = refs[r].ok
         /\ x(r).text = refs[r].text /\ x(r).depended = refs[r].depended
         /\ gone(r) => x(r).abandoned
         /\ ~ gone(r) => x(r).abandoned = refs[r].abandoned
  <2>1. SUFFICES ASSUME NEW r \in DOMAIN refs
                 PROVE  /\ x(r) \in Parsers
                        /\ x(r).path = refs[r].path /\ x(r).status = refs[r].status
                        /\ x(r).ok = refs[r].ok /\ x(r).text = refs[r].text
                        /\ x(r).depended = refs[r].depended
                        /\ gone(r) => x(r).abandoned
                        /\ ~ gone(r) => x(r).abandoned = refs[r].abandoned
    OBVIOUS
  <2>2. refs[r] \in Parsers
    BY RefType
  <2>. HIDE DEF gone
  <2>. QED
    BY <2>2 DEF Parsers
<1>. HIDE DEF x, gone
<1>3. /\ refs' \in Seq(Parsers)
      /\ DOMAIN refs' = DOMAIN refs
      /\ \A r \in DOMAIN refs : refs'[r] = x(r)
  BY <1>1, <1>2, RefType, IsASeq
<1>4. Grow(refs, refs') /\ Latches
  <2>1. \A r \in DOMAIN refs : refs[r].status \in Int
    BY RefType
  <2>. QED
    BY <1>2, <1>3, <2>1 DEF Grow, Latches
<1>5. \A r \in DOMAIN refs : refs'[r].path = refs[r].path
  BY <1>2, <1>3
<1>6. /\ parser_map' \in [Paths -> Nat]
      /\ \A p \in Paths : parser_map'[p] = IF p \in S THEN NoRef ELSE parser_map[p]
  BY DEF Detach, TypeOK, NoRef
<1>7. MapOK'
  BY <1>3, <1>5, <1>6 DEF MapOK, Names
<1>8. DependedOK'
  BY <1>2, <1>3, <1>5 DEF DependedOK, Names
<1>9. TextsKnown'
  BY <1>2, <1>3 DEF TextsKnown
<1>10. OneLiveGeneration'
  <2>1. SUFFICES ASSUME NEW r \in DOMAIN refs
                 PROVE  ~ refs'[r].abandoned <=> parser_map'[refs'[r].path] = r
    BY <1>3 DEF OneLiveGeneration
  <2>2. r # NoRef /\ refs[r].path \in Paths
    BY RefType, Fields DEF NoRef
  <2>3. ~ refs[r].abandoned <=> parser_map[refs[r].path] = r
    BY DEF OneLiveGeneration
  <2>4. CASE gone(r)
    <3>1. PICK p \in S : parser_map[p] = r
      BY <2>4 DEF gone
    <3>2. parser_map'[refs[r].path] # r
      <4>1. CASE refs[r].path \in S
        BY <1>6, <2>2, <4>1
      <4>2. CASE refs[r].path \notin S
        <5>1. refs[r].path = p
          BY <2>2, <3>1 DEF MapOK, Names
        <5>. QED
          BY <3>1, <4>2, <5>1
      <4>. QED
        BY <4>1, <4>2
    <3>. QED
      BY <1>2, <1>3, <1>5, <2>4, <3>2
  <2>5. CASE ~ gone(r)
    <3>1. refs[r].path \in S => parser_map[refs[r].path] # r
      BY <2>5 DEF gone
    <3>. QED
      BY <1>2, <1>3, <1>5, <1>6, <2>2, <2>3, <2>5, <3>1
  <2>. QED
    BY <2>4, <2>5
<1>. QED
  BY <1>3, <1>4, <1>5, <1>6, <1>7, <1>8, <1>9, <1>10

LEMMA RemoveStep ==
    ASSUME IInv, NEW t \in Threads, Remove(t)
    PROVE  IInv' /\ Grow(refs, refs')
<1>. DEFINE p == Top(t).path
            kept == InverseWithout({p})
            owners == {q \in Paths : <<p, q>> \in kept}
            f == [Top(t) EXCEPT !.op = "dependents", !.todo = owners]
<1>1. /\ At(t, {"remove"})
      /\ UNCHANGED <<source, calls, seen>>
      /\ Detach({p})
      /\ forward' = ForwardWithout({p})
      /\ inverse' = {e \in kept : e[1] # p}
      /\ Become(t, f)
  BY DEF Remove
<1>2. /\ stack[t] # <<>> /\ Top(t) \in Frames /\ Top(t).op = "remove"
      /\ Depth(t) \in Nat \ {0} /\ Top(t) = stack[t][Depth(t)] /\ p \in Paths
  BY <1>1, TopIs, Fields
<1>3. /\ f \in Frames
      /\ f.op = "dependents" /\ f.path = p /\ f.level = Top(t).level /\ f.todo = owners
  <2>1. owners \in SUBSET (Asks \cup Paths) /\ "dependents" \in Ops
    BY DEF Ops
  <2>. HIDE DEF owners
  <2>. QED
    BY <1>2, <2>1 DEF Frames
<1>. HIDE DEF f
<1>4. /\ Grow(refs, refs') /\ Latches
      /\ parser_map' \in [Paths -> Nat]
      /\ MapOK' /\ DependedOK' /\ TextsKnown' /\ OneLiveGeneration'
  BY <1>1, <1>2, DetachIs
<1>5. FrameOK(f, refs')
  BY <1>3 DEF FrameOK, WithRef, Holding
<1>6. /\ Keeps(t, Depth(t) - 1)
      /\ Len(stack'[t]) = Depth(t)
      /\ stack'[t][Depth(t)] = f
      /\ Puts(t, Depth(t) - 1, f)
  BY <1>1, <1>2, <1>3, <1>4, <1>5, BecomeStep DEF Holding
<1>7. \A k \in 1 .. Depth(t) - 1 : stack'[t][k] = stack[t][k]
  BY <1>1, <1>2, <1>3, BecomeIs DEF IInv
<1>8. Depth(t) - 1 + 1 = Depth(t) /\ (Depth(t) - 1 = 0 => Depth(t) = 1)
  BY <1>2
<1>9. Moves(t, Depth(t) - 1)
  BY <1>4, <1>6, <1>8 DEF Moves
<1>10. Depth(t) = 1 => Answers(t, f)
  BY <1>2, <1>3 DEF Answers
<1>11. /\ kept = {e \in inverse : e[2] \notin {p}}
       /\ \A e \in kept : <<e[2], e[1]>> \in ForwardWithout({p})
       /\ ForwardWithout({p}) \subseteq Paths \X Paths
       /\ kept \subseteq Paths \X Paths
  BY WithoutIs DEF IInv
<1>12. ASSUME NEW o, o # p, Pending(o)
       PROVE  Pending(o)'
  <2>1. ASSUME PendingIn(stack[t], o)
        PROVE  PendingIn(stack'[t], o)
    <3>1. PICK k \in 1 .. Depth(t) :
             \/ stack[t][k].op = "remove" /\ stack[t][k].path = o
             \/ stack[t][k].op = "dependents" /\ o \in stack[t][k].todo
      BY <2>1 DEF PendingIn, Depth
    <3>2. k # Depth(t)
      BY <1>2, <1>12, <3>1
    <3>3. k \in 1 .. Depth(t) - 1 /\ k \in 1 .. Len(stack'[t])
      BY <1>2, <1>6, <3>2
    <3>. QED
      BY <1>7, <3>1, <3>3 DEF PendingIn
  <2>. QED
    BY <1>6, <1>12, <2>1, PendingStays
<1>13. ASSUME NEW o \in owners
       PROVE  Pending(o)'
  <2>1. Depth(t) \in 1 .. Len(stack'[t])
    BY <1>2, <1>6
  <2>. QED
    BY <1>3, <1>6, <2>1 DEF Pending, Depth
<1>14. EdgesAgree'
  <2>1. \A e \in inverse' : <<e[2], e[1]>> \in forward'
    BY <1>1, <1>11
  <2>2. ASSUME NEW e \in forward'
        PROVE  <<e[2], e[1]>> \in inverse' \/ Pending(e[1])'
    <3>1. e \in forward /\ e[1] # p /\ e[1] \in Paths
      BY <1>1, <1>11 DEF ForwardWithout
    <3>2. CASE <<e[2], e[1]>> \in inverse /\ e[2] = p
      <4>1. <<p, e[1]>> \in kept
        BY <1>11, <3>1, <3>2
      <4>. QED
        BY <1>13, <3>1, <4>1
    <3>3. CASE <<e[2], e[1]>> \in inverse /\ e[2] # p
      <4>1. <<e[2], e[1]>> \in kept
        BY <1>11, <3>1, <3>3
      <4>. QED
        BY <1>1, <3>3, <4>1
    <3>4. CASE Pending(e[1])
      BY <1>12, <3>1, <3>4
    <3>. QED
      BY <3>1, <3>2, <3>3, <3>4 DEF IInv, EdgesAgree
  <2>. QED
    BY <2>1, <2>2 DEF EdgesAgree
<1>15. forward' \subseteq Paths \X Paths /\ inverse' \subseteq Paths \X Paths
  BY <1>1, <1>11
<1>. HIDE DEF kept, owners
<1>. QED
  BY <1>1, <1>2, <1>4, <1>6, <1>8, <1>9, <1>10, <1>14, <1>15, ChangeStep

(* The owners of what a change reaches are reached too. *)
LEMMA ClosureIs ==
    ASSUME TypeOK, NEW S
    PROVE  \A e \in inverse : e[1] \in Closure(S) => e[2] \in Closure(S)
<1>1. \A e \in inverse : e[2] \in Paths
  BY DEF TypeOK
<1>. QED
  BY <1>1, Zenon DEF Closure

LEMMA RefreshStep ==
    ASSUME IInv, NEW t \in Threads, Refresh(t)
    PROVE  IInv' /\ Grow(refs, refs')
<1>. DEFINE affected == Closure({Top(t).path})
<1>1. /\ At(t, {"refresh"})
      /\ UNCHANGED <<source, calls, seen>>
      /\ Detach(affected)
      /\ forward' = ForwardWithout(affected)
      /\ inverse' = {e \in InverseWithout(affected) : e[1] \notin affected}
      /\ Return(t, TRUE)
  BY DEF Refresh
<1>2. \A e \in inverse : e[1] \in affected => e[2] \in affected
  BY ClosureIs DEF IInv
<1>. affected \in SUBSET Paths
  BY DEF Closure
<1>. HIDE DEF affected
<1>3. stack[t] # <<>> /\ Top(t).op = "refresh" /\ Depth(t) \in Nat \ {0}
  BY <1>1, TopIs
<1>4. /\ Keeps(t, Depth(t) - 1)
      /\ Len(stack'[t]) = Depth(t) - 1
      /\ \A q : PendingIn(stack[t], q) => PendingIn(stack'[t], q)
  BY <1>1, <1>3, ReturnStep
<1>5. Depth(t) - 1 # Depth(t) - 1 + 1 /\ ~ (Depth(t) - 1 = 0 /\ Depth(t) - 1 = 1)
  BY <1>3
<1>6. /\ Grow(refs, refs') /\ Latches
      /\ parser_map' \in [Paths -> Nat]
      /\ MapOK' /\ DependedOK' /\ TextsKnown' /\ OneLiveGeneration'
  BY <1>1, DetachIs
<1>7. Moves(t, Depth(t) - 1)
  BY <1>4, <1>5, <1>6 DEF Moves
<1>8. /\ InverseWithout(affected) = {e \in inverse : e[2] \notin affected}
      /\ \A e \in InverseWithout(affected) : <<e[2], e[1]>> \in ForwardWithout(affected)
      /\ ForwardWithout(affected) \subseteq Paths \X Paths
      /\ InverseWithout(affected) \subseteq Paths \X Paths
  BY WithoutIs DEF IInv
<1>9. EdgesAgree'
  <2>1. \A e \in inverse' : <<e[2], e[1]>> \in forward'
    BY <1>1, <1>8
  <2>2. ASSUME NEW e \in forward'
        PROVE  <<e[2], e[1]>> \in inverse' \/ Pending(e[1])'
    <3>1. e \in forward /\ e[1] \notin affected
      BY <1>1 DEF ForwardWithout
    <3>2. CASE <<e[2], e[1]>> \in inverse
      <4>1. e[2] \notin affected
        BY <1>2, <3>1, <3>2
      <4>. QED
        BY <1>1, <1>8, <3>1, <3>2, <4>1
    <3>3. CASE Pending(e[1])
      BY <1>4, <3>3, PendingStays
    <3>. QED
      BY <3>1, <3>2, <3>3 DEF IInv, EdgesAgree
  <2>. QED
    BY <2>1, <2>2 DEF EdgesAgree
<1>10. forward' \subseteq Paths \X Paths /\ inverse' \subseteq Paths \X Paths
  BY <1>1, <1>8
<1>. QED
  BY <1>1, <1>3, <1>4, <1>5, <1>6, <1>7, <1>9, <1>10, ChangeStep

-----------------------------------------------------------------------------
(* Edits and new calls *)

LEMMA EditStep ==
    ASSUME IInv, NEW p \in Paths, NEW text \in Texts \cup {Missing}, Edit(p, text)
    PROVE  IInv' /\ Grow(refs, refs')
<1>. USE DEF IInv
<1>1. /\ source' = [source EXCEPT ![p] = text]
      /\ seen' = [t \in Threads |->
                     IF stack[t] # <<>> /\ stack[t][1].path = p
                     THEN seen[t] \cup {text} ELSE seen[t]]
      /\ calls' = calls + 1
      /\ UNCHANGED <<parser_map, refs, edgeVars, stack>>
  BY DEF Edit, Outside
<1>2. /\ source' \in [Paths -> Contents]
      /\ source'[p] = text
      /\ \A q \in Paths : q # p => source'[q] = source[q]
  BY <1>1 DEF TypeOK, Contents
<1>3. \A t \in Threads : /\ seen[t] \subseteq seen'[t]
                         /\ seen'[t] \subseteq Contents
                         /\ stack[t] # <<>> /\ stack[t][1].path = p => text \in seen'[t]
  BY <1>1 DEF TypeOK, Contents
<1>4. TypeOK'
  BY <1>1, <1>2, <1>3 DEF TypeOK, edgeVars
<1>5. StacksOK' /\ Exclusive' /\ RunsAreGood' /\ RunsApart'
  BY <1>1 DEF StacksOK, Exclusive, RunsAreGood, RunsApart
<1>6. MapOK' /\ DependedOK' /\ TextsKnown' /\ OneLiveGeneration'
  BY <1>1 DEF MapOK, DependedOK, TextsKnown, OneLiveGeneration
<1>7. EdgesAgree'
  BY <1>1 DEF EdgesAgree, Pending, Depth, edgeVars
<1>8. Fresh'
  <2>1. SUFFICES ASSUME NEW t \in Threads, stack[t] # <<>>
                 PROVE  /\ source'[stack[t][1].path] \in seen'[t]
                        /\ /\ stack[t][1].op \in {"getraise", "owner"}
                           /\ refs[stack[t][1].ref].status # EMPTY
                           => refs[stack[t][1].ref].text \in seen'[t]
    BY <1>1 DEF Fresh, FreshIn
  <2>2. stack[t][1].path \in Paths
    BY <2>1, DepthType, Fields
  <2>3. /\ source[stack[t][1].path] \in seen[t]
        /\ /\ stack[t][1].op \in {"getraise", "owner"}
           /\ refs[stack[t][1].ref].status # EMPTY
           => refs[stack[t][1].ref].text \in seen[t]
    BY <2>1 DEF Fresh, FreshIn
  <2>. QED
    BY <1>2, <1>3, <2>1, <2>2, <2>3
<1>9. Grow(refs, refs')
  BY <1>1, GrowRefl
<1>. QED
  BY <1>4, <1>5, <1>6, <1>7, <1>8, <1>9

LEMMA BeginStep ==
    ASSUME IInv, NEW t \in Threads, NEW op \in {"get", "remove", "refresh"},
           NEW p \in Paths, NEW level \in Status, Begin(t, op, p, level)
    PROVE  IInv' /\ Grow(refs, refs')
<1>. USE DEF IInv
<1>. DEFINE f == Frame(op, p, NoRef, level, {})
<1>1. /\ stack[t] = <<>>
      /\ Call(t, f)
      /\ seen' = [seen EXCEPT ![t] = {source[p]}]
      /\ calls' = calls + 1
      /\ UNCHANGED <<source, parser_map, refs, edgeVars>>
  BY DEF Begin, Outside
<1>2. /\ f \in Frames
      /\ f.op = op /\ f.path = p
  <2>1. op \in Ops /\ NoRef \in Nat /\ {} \in SUBSET (Asks \cup Paths)
    BY DEF Ops, NoRef
  <2>. QED
    BY <2>1, FrameIs
<1>. HIDE DEF f
<1>3. Depth(t) = 0
  BY <1>1, DepthType
<1>4. /\ Keeps(t, 0)
      /\ Len(stack'[t]) = 1
      /\ stack'[t][1] = f
  <2>1. /\ Keeps(t, Depth(t))
        /\ Len(stack'[t]) = Depth(t) + 1
        /\ stack'[t][Depth(t) + 1] = f
    BY <1>1, <1>2, CallIs
  <2>. QED
    BY <1>3, <2>1
<1>5. Grow(refs, refs') /\ Latches
  BY <1>1, GrowRefl
<1>6. Puts(t, 0, f)
  <2>1. FrameOK(f, refs') /\ f.op # "run" /\ f.op \notin Holding
        /\ f.op \in Ops \ {"raise", "lock", "edges", "run"}
    BY <1>2 DEF FrameOK, WithRef, Holding, Ops
  <2>2. ~ (0 > 0)
    OBVIOUS
  <2>. QED
    BY <2>1, <2>2, PutsNoPhase
<1>7. Moves(t, 0)
  BY <1>4, <1>5, <1>6 DEF Moves
<1>8. StacksOK' /\ Exclusive' /\ RunsAreGood' /\ RunsApart'
  BY <1>7, MovesKeep
<1>9. TypeOK'
  <2>1. calls' \in Nat /\ seen' \in [Threads -> SUBSET Contents]
    BY <1>1 DEF TypeOK
  <2>. QED
    BY <1>1, <1>4, <2>1 DEF TypeOK, Keeps, edgeVars
<1>10. MapOK' /\ DependedOK' /\ TextsKnown' /\ OneLiveGeneration'
  BY <1>1 DEF MapOK, DependedOK, TextsKnown, OneLiveGeneration
<1>11. EdgesAgree'
  <2>1. \A q : ~ PendingIn(stack[t], q)
    BY <1>3 DEF PendingIn, Depth
  <2>. QED
    BY <1>1, <1>4, <2>1, EdgesStay
<1>12. Fresh'
  <2>1. ASSUME NEW u \in Threads
        PROVE  FreshIn(stack[u], refs, seen[u])'
    <3>1. CASE u = t
      <4>1. seen'[t] = {source[p]}
        BY <1>1 DEF TypeOK
      <4>. QED
        BY <1>1, <1>2, <1>4, <3>1, <4>1 DEF FreshIn
    <3>2. CASE u # t
      <4>1. stack'[u] = stack[u] /\ seen'[u] = seen[u]
        BY <1>1, <1>4, <3>2 DEF Keeps, TypeOK
      <4>. QED
        BY <1>1, <4>1 DEF Fresh, FreshIn
    <3>. QED
      BY <3>1, <3>2
  <2>. QED
    BY <2>1 DEF Fresh
<1>. QED
  BY <1>5, <1>8, <1>9, <1>10, <1>11, <1>12

-----------------------------------------------------------------------------
(* The theorems *)

LEMMA InitInv == Init => IInv
<1>. SUFFICES ASSUME Init PROVE IInv
  OBVIOUS
<1>1. refs = <<>> /\ DOMAIN refs = {} /\ refs \in Seq(Parsers)
  BY EmptySeq DEF Init
<1>2. \A t \in Threads : stack[t] = <<>> /\ Len(stack[t]) = 0
  BY DEF Init
<1>3. TypeOK
  <2>1. <<>> \in Seq(Frames)
    BY EmptySeq
  <2>. QED
    BY <1>1, <2>1 DEF Init, TypeOK, Contents, NoRef
<1>4. StacksOK /\ Exclusive /\ RunsAreGood /\ RunsApart
  BY <1>2 DEF StacksOK, StackOK, Exclusive, HoldsIn, RunsAreGood, RunsGoodIn, RunsApart, RunsApartIn
<1>5. MapOK /\ DependedOK /\ TextsKnown /\ OneLiveGeneration
  BY <1>1 DEF Init, MapOK, Names, DependedOK, TextsKnown, OneLiveGeneration
<1>6. Fresh
  BY <1>2 DEF Fresh, FreshIn
<1>7. EdgesAgree
  BY DEF Init, EdgesAgree
<1>. QED
  BY <1>3, <1>4, <1>5, <1>6, <1>7 DEF IInv

LEMMA StepInv ==
    ASSUME IInv, NEW t \in Threads, Step(t)
    PROVE  IInv' /\ Grow(refs, refs')
<1>1. CASE GetParser(t)
  BY <1>1, GetParserStep
<1>2. CASE CheckFresh(t)
  BY <1>2, CheckFreshStep
<1>3. CASE RecordOwner(t)
  BY <1>3, RecordOwnerStep
<1>4. CASE Lock(t)
  BY <1>4, LockStep
<1>5. CASE Parse(t)
  BY <1>5, ParseStep
<1>6. CASE RecordEdges(t)
  BY <1>6, RecordEdgesStep
<1>7. CASE StartPhase(t)
  BY <1>7, StartPhaseStep
<1>8. CASE Acquire(t)
  BY <1>8, AcquireStep
<1>9. CASE RaiseDepended(t)
  BY <1>9, RaiseDependedStep
<1>10. CASE EndPhase(t)
  BY <1>10, EndPhaseStep
<1>11. CASE EndRaise(t)
  BY <1>11, EndRaiseStep
<1>12. CASE Remove(t)
  BY <1>12, RemoveStep
<1>13. CASE RemoveOwner(t)
  BY <1>13, RemoveOwnerStep
<1>14. CASE EndRemove(t)
  BY <1>14, EndRemoveStep
<1>15. CASE Refresh(t)
  BY <1>15, RefreshStep
<1>. QED
  BY <1>1, <1>2, <1>3, <1>4, <1>5, <1>6, <1>7, <1>8, <1>9, <1>10, <1>11, <1>12, <1>13,
     <1>14, <1>15 DEF Step

LEMMA NextInv ==
    ASSUME IInv, [Next]_vars
    PROVE  IInv' /\ Grow(refs, refs')
<1>1. CASE \E p \in Paths, text \in Texts \cup {Missing} : Edit(p, text)
  BY <1>1, EditStep
<1>2. CASE \E t \in Threads, p \in Paths : \E level \in Wanted : Begin(t, "get", p, level)
  BY <1>2, BeginStep, WantedAssumption
<1>3. CASE \E t \in Threads, p \in Paths : \E op \in {"remove", "refresh"} : Begin(t, op, p, EMPTY)
  <2>1. EMPTY \in Status
    BY DEF EMPTY, Status, FULLY_SOLVED
  <2>. QED
    BY <1>3, <2>1, BeginStep
<1>4. CASE \E t \in Threads : Step(t)
  BY <1>4, StepInv
<1>5. CASE UNCHANGED vars
  <2>1. UNCHANGED <<source, calls, parser_map, refs, forward, inverse, stack, seen>>
    BY <1>5 DEF vars
  <2>2. Grow(refs, refs')
    BY <2>1, GrowRefl DEF IInv
  <2>. QED
    BY <2>1, <2>2 DEF IInv, TypeOK, StacksOK, Exclusive, RunsAreGood, RunsApart, MapOK, DependedOK,
       TextsKnown, Fresh, FreshIn, OneLiveGeneration, EdgesAgree, Pending, Depth
<1>. QED
  BY <1>1, <1>2, <1>3, <1>4, <1>5 DEF Next

LEMMA Invariant == Spec => []IInv
BY InitInv, NextInv, PTL DEF Spec

(* A path has one live generation: a parser is abandoned exactly when the  *)
(* map does not name it, whichever removals, refreshes and admissions have *)
(* been interleaved with the raising of it.                                *)
THEOREM LiveGenerations == Spec => []OneLiveGeneration
BY Invariant, PTL DEF IInv

(* The two maps of dependency edges agree after every step of every        *)
(* interleaving, up to the owners that a removal in progress has still to  *)
(* come to.                                                                *)
THEOREM AgreeingEdges == Spec => []EdgesAgree
BY Invariant, PTL DEF IInv

(* No phase of a parser starts while an earlier phase of it is running     *)
(* below on the stack: the levels asked fall along a stack, and the status *)
(* of the parser is already at the level of the phase that runs.           *)
THEOREM ApartPhases == Spec => []PhasesNeverNest
<1>1. IInv => PhasesNeverNest
  BY DEF IInv, RunsApart, RunsApartIn, PhasesNeverNest, Depth
<1>. QED
  BY <1>1, Invariant, PTL

(* get_parser answers with the analysis of a text that the file had during *)
(* the call.                                                               *)
THEOREM FreshAnswers == Spec => []AnswersAreFresh
<1>1. IInv => AnswersAreFresh
  <2>1. SUFFICES ASSUME IInv, NEW t \in Threads, At(t, {"owner"}), Depth(t) = 1,
                        refs[Top(t).ref].status # EMPTY
                 PROVE  refs[Top(t).ref].text \in seen[t]
    BY DEF AnswersAreFresh
  <2>2. stack[t] # <<>> /\ Top(t).op = "owner" /\ Top(t) = stack[t][1]
    BY <2>1, TopIs
  <2>. QED
    BY <2>1, <2>2 DEF IInv, Fresh, FreshIn
<1>. QED
  BY <1>1, Invariant, PTL

(* raise_status stops at the first failed phase: a failure that is latched *)
(* stays, and the status with it.                                          *)
THEOREM StayingFailures == Spec => FailureStays
<1>1. ASSUME IInv, [Next]_vars
      PROVE  \A r \in DOMAIN refs :
                ~ refs[r].ok => ~ refs'[r].ok /\ refs'[r].status = refs[r].status
  BY <1>1, NextInv DEF Grow
<1>. QED
  BY <1>1, Invariant, PTL DEF Spec, FailureStays

(* Whoever waits for a lock and holds another one runs a phase of that     *)
(* parser: nothing can be above the other frames that need the lock.       *)
LEMMA HoldersRun ==
    ASSUME IInv, NEW t \in Threads, At(t, {"getlock", "lock"}),
           NEW j \in 1 .. Depth(t), stack[t][j].op \in Holding
    PROVE  \E k \in 1 .. Depth(t) :
              stack[t][k].op = "run" /\ stack[t][k].ref = stack[t][j].ref
<1>1. Depth(t) \in Nat \ {0} /\ stack[t][Depth(t)].op \in {"getlock", "lock"}
  BY TopIs
<1>2. \A k \in 1 .. Depth(t) - 1 : CallsFrame(stack[t][k], stack[t][k + 1], refs)
  BY DEF IInv, StacksOK, StackOK, Depth
<1>3. \A k \in 1 .. Depth(t) : stack[t][k].op \in Holding => k \in 1 .. Depth(t) - 1
  BY <1>1 DEF Holding
<1>4. \A k \in 1 .. Depth(t) : stack[t][k].op # "edges"
  BY <1>2, <1>3 DEF CallsFrame, Holding
<1>5. CASE stack[t][j].op = "run"
  BY <1>5
<1>6. CASE stack[t][j].op \in {"getraise", "raise"}
  <2>1. j \in 1 .. Depth(t) - 1 /\ j + 1 \in 1 .. Depth(t)
    BY <1>1, <1>3
  <2>2. stack[t][j + 1].op \in {"edges", "run"} /\ stack[t][j + 1].ref = stack[t][j].ref
    BY <1>2, <1>6, <2>1 DEF CallsFrame
  <2>. QED
    BY <1>4, <2>1, <2>2
<1>. QED
  BY <1>4, <1>5, <1>6 DEF Holding

(* Threads that all wait for the lock of another run phases of files that  *)
(* ask for each other in a cycle: above each such phase is a request for a *)
(* file of which a phase runs, on the same stack or, if the request is the *)
(* one that waits, on the stack of the thread that holds the lock.         *)
THEOREM StuckMeansCycle == Spec => []StuckNeedsCycle
<1>1. ASSUME IInv, Stuck PROVE CyclicFiles
  <2>. DEFINE Runs(t, k, p) == stack[t][k].op = "run" /\ stack[t][k].path = p
              C == {p \in Paths : \E t \in Threads : \E k \in 1 .. Depth(t) : Runs(t, k, p)}
  <2>1. \A t \in Threads : Depth(t) \in Nat
    BY <1>1, DepthType DEF IInv
  <2>2. \A t \in Threads : \A k \in 1 .. Depth(t) :
           /\ stack[t][k] \in Frames
           /\ stack[t][k].path \in Paths
           /\ FrameOK(stack[t][k], refs)
    BY <1>1, DepthType, Fields DEF IInv, StacksOK, StackOK, Depth
  <2>3. \A t \in Threads : \A k \in 1 .. Depth(t) - 1 : CallsFrame(stack[t][k], stack[t][k + 1], refs)
    BY <1>1 DEF IInv, StacksOK, StackOK, Depth
  <2>4. ASSUME NEW t \in Threads, NEW k \in 1 .. Depth(t)
        PROVE  At(t, {"getlock", "lock"}) /\ ~ CanLock(t, Top(t).ref)
    BY <1>1, <2>1, <2>4, DepthType DEF Stuck, IInv
  <2>5. ASSUME NEW t \in Threads, NEW k \in 1 .. Depth(t), stack[t][k].op \in Holding
        PROVE  stack[t][k].path \in C
    <3>1. PICK j \in 1 .. Depth(t) : stack[t][j].op = "run" /\ stack[t][j].ref = stack[t][k].ref
      BY <1>1, <2>4, <2>5, HoldersRun
    <3>2. stack[t][j].path = stack[t][k].path
      BY <2>2, <2>5, <3>1 DEF FrameOK, WithRef, Holding
    <3>. QED
      BY <2>2, <3>1, <3>2
  <2>6. ASSUME NEW t \in Threads, NEW k \in 1 .. Depth(t)
        PROVE  Top(t).path \in C
    <3>1. At(t, {"getlock", "lock"}) /\ ~ CanLock(t, Top(t).ref)
      BY <2>4
    <3>2. Top(t).op \in {"getlock", "lock"} /\ FrameOK(Top(t), refs)
      BY <1>1, <3>1, TopIs
    <3>3. PICK u \in Threads : HoldsIn(stack[u], Top(t).ref)
      BY <3>1, HoldsIs
    <3>4. PICK j \in 1 .. Depth(u) : stack[u][j].ref = Top(t).ref /\ stack[u][j].op \in Holding
      BY <3>3 DEF HoldsIn, Depth
    <3>5. stack[u][j].path = Top(t).path
      BY <2>2, <3>2, <3>4 DEF FrameOK, WithRef
    <3>. QED
      BY <2>5, <3>4, <3>5
  <2>7. C # {}
    <3>1. PICK t \in Threads : stack[t] # <<>>
      BY <1>1 DEF Stuck
    <3>2. 1 \in 1 .. Depth(t)
      BY <1>1, <3>1, DepthType DEF IInv
    <3>. QED
      BY <2>6, <3>2
  <2>8. ASSUME NEW p \in C
        PROVE  \E q \in C : Asked(p, q)
    <3>0. PICK t \in Threads : \E k \in 1 .. Depth(t) : Runs(t, k, p)
      OBVIOUS
    <3>1. PICK k \in 1 .. Depth(t) : Runs(t, k, p)
      BY <3>0
    <3>2. Depth(t) \in Nat \ {0} /\ Top(t) = stack[t][Depth(t)] /\ Top(t).op \in {"getlock", "lock"}
      BY <1>1, <2>4, TopIs
    <3>3. k \in 1 .. Depth(t) - 1 /\ k + 1 \in 1 .. Depth(t)
      BY <3>1, <3>2
    <3>. DEFINE f == stack[t][k]
                g == stack[t][k + 1]
    <3>4. CallsFrame(f, g, refs) /\ FrameOK(f, refs)
      BY <2>2, <2>3, <3>3
    <3>5. Asked(p, g.path)
      <4>1. /\ f.ref \in DOMAIN refs /\ refs[f.ref].path = p
            /\ refs[f.ref].text # Missing
            /\ f.level \in Phases
        BY <3>1, <3>4, MissingAssumption DEF FrameOK, WithRef, Holding
      <4>2. \E ask \in Requests[<<p, refs[f.ref].text, f.level>>] : ask.path = g.path
        BY <3>1, <3>4 DEF CallsFrame
      <4>. QED
        BY <4>1, <4>2 DEF Asked
    <3>6. g.path \in C
      <4>1. CASE k + 1 = Depth(t)
        BY <2>6, <3>2, <4>1
      <4>2. CASE k + 1 # Depth(t)
        <5>1. k + 1 \in 1 .. Depth(t) - 1
          BY <3>2, <3>3, <4>2
        <5>2. CallsFrame(g, stack[t][k + 1 + 1], refs)
          BY <2>3, <5>1
        <5>3. g.op \in Holding
          BY <3>1, <3>4, <5>2 DEF CallsFrame, Holding
        <5>. QED
          BY <2>5, <3>3, <5>3
      <4>. QED
        BY <4>1, <4>2
    <3>. QED
      BY <3>5, <3>6
  <2>. HIDE DEF C
  <2>9. C \in (SUBSET Paths) \ {{}}
    BY <2>7 DEF C
  <2>. QED
    BY <2>8, <2>9 DEF CyclicFiles
<1>2. IInv => StuckNeedsCycle
  BY <1>1 DEF StuckNeedsCycle
<1>. QED
  BY <1>2, Invariant, PTL

=============================================================================
