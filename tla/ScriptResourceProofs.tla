------------------------ MODULE ScriptResourceProofs ------------------------
(***************************************************************************)
(* Theorems about ScriptResource, for any texts and instances, and for     *)
(* stacks and histories of compilations of any length.  The invariant is   *)
(* about the stack: what each kind of frame has above it, and that an      *)
(* object under construction is marked as its frame is.                    *)
(***************************************************************************)
EXTENDS ScriptResource, SequenceTheorems, FiniteSetTheorems, TLAPS

-----------------------------------------------------------------------------
(* The invariant *)

Frames ==
    [op : {"code", "build", "compile"}, class : Classes, gen : Nat,
     self : Instances \cup {NoInstance}, todo : Seq({"outer", "inner"}),
     called : BOOLEAN, faulted : BOOLEAN, refused : BOOLEAN]

Objects ==
    [state : {"free", "building", "attached"}, class : {"outer", "inner"},
     gen : Nat, spoiled : BOOLEAN]

TypeOK ==
    /\ source \in ScriptTexts
    /\ compiled \in Seq(ScriptTexts)
    /\ functions \in Nat
    /\ instances \in [Instances -> Objects]
    /\ call_stack \in Seq(Frames)
    /\ reported \in BOOLEAN

(* Native code that waits has called script code. *)
NativeCallsCode ==
    \A k \in 1 .. Depth - 1 : call_stack[k].op # "code" => call_stack[k + 1].op = "code"

(* A compilation knows that it has called an initializer, and no outermost *)
(* call has forgotten a fault under it.                                    *)
Compiling(f, heard) ==
    /\ f.todo \in {<<>>, <<"inner">>, <<"outer", "inner">>}
    /\ f.called => f.todo # <<"outer", "inner">>
    /\ f.faulted => f.called /\ heard

CompilesKnow ==
    \A k \in 1 .. Depth : call_stack[k].op = "compile" =>
        /\ Compiling(call_stack[k], reported)
        /\ k < Depth => call_stack[k].called

(* An object under construction is marked as its frame is, and no frame of *)
(* it is below that one.                                                   *)
BuildsOwn ==
    \A k \in 1 .. Depth : call_stack[k].op = "build" =>
        /\ call_stack[k].self \in Instances
        /\ instances[call_stack[k].self].state = "building"
        /\ instances[call_stack[k].self].spoiled = call_stack[k].faulted
        /\ \A j \in 1 .. k - 1 : call_stack[j].self # call_stack[k].self

FramesOfLive ==
    \A k \in 1 .. Depth :
        call_stack[k].self # NoInstance => instances[call_stack[k].self].state # "free"

IInv ==
    /\ TypeOK
    /\ NativeCallsCode /\ CompilesKnow /\ BuildsOwn /\ FramesOfLive
    /\ OuterInstancesKeepTheirGeneration
    /\ AttachedInstancesAreWhole
    /\ UsableClassesAreInitialized

-----------------------------------------------------------------------------
(* Stacks *)

(* The frame on top has gone on to its next initializer. *)
Revises(below) ==
    /\ below \in Seq(Frames)
    /\ Len(below) = Depth
    /\ \A k \in 1 .. Depth :
          /\ below[k].op = call_stack[k].op
          /\ below[k].gen = call_stack[k].gen
          /\ below[k].self = call_stack[k].self
          /\ below[k].faulted = call_stack[k].faulted
          /\ k < Depth => below[k] = call_stack[k]
          /\ below[k].op = "compile" => Compiling(below[k], reported)

(* The frame on top calls. *)
Calling(below) ==
    /\ Revises(below)
    /\ \A k \in 1 .. Depth : below[k].op = "compile" =>
          below[k].called /\ (k = Depth => ~ below[k].faulted)

(* A frame of script code that may be entered now. *)
MayRun(f) ==
    /\ f \in Frames
    /\ f.op = "code"
    /\ f.self \in Instances =>
          /\ instances[f.self].state # "free"
          /\ f.self \in Listed => f.gen = instances[f.self].gen

LEMMA DepthType == TypeOK => Depth \in Nat
BY DEF TypeOK, Depth

LEMMA FrameType ==
    ASSUME TypeOK, NEW k \in 1 .. Depth
    PROVE  /\ call_stack[k] \in Frames
           /\ call_stack[k].gen \in Nat
           /\ call_stack[k].self \in Instances \cup {NoInstance}
<1>1. call_stack[k] \in Frames
  BY ElementOfSeq DEF TypeOK, Depth
<1>. QED
  BY <1>1 DEF Frames

LEMMA PoppedIs ==
    ASSUME TypeOK, call_stack # <<>>
    PROVE  /\ Depth \in Nat \ {0}
           /\ TopFrame \in Frames
           /\ Popped \in Seq(Frames)
           /\ Len(Popped) = Depth - 1
           /\ \A k \in 1 .. Depth - 1 : Popped[k] = call_stack[k]
<1>1. Depth \in Nat \ {0} /\ TopFrame \in Frames
  BY EmptySeq, ElementOfSeq DEF TypeOK, Depth, TopFrame
<1>2. \A k \in 1 .. Depth - 1 : call_stack[k] \in Frames
  BY <1>1, ElementOfSeq DEF TypeOK, Depth
<1>. QED
  BY <1>1, <1>2, SubSeqProperties DEF Popped

LEMMA CodeType ==
    ASSUME NEW class \in Classes, NEW gen \in Nat, NEW self \in Instances \cup {NoInstance}
    PROVE  /\ Code(class, gen, self) \in Frames
           /\ Code(class, gen, self).op = "code"
           /\ Code(class, gen, self).self = self
           /\ Code(class, gen, self).gen = gen
<1>1. <<>> \in Seq({"outer", "inner"})
  BY EmptySeq
<1>. QED
  BY <1>1 DEF Code, Frames

(* A stack with code on it has calls. *)
LEMMA CallsPositive ==
    ASSUME NEW frames, Len(frames) \in Nat, NEW k \in 1 .. Len(frames), frames[k].op = "code"
    PROVE  CallsIn(frames) > 0
<1>. DEFINE code == {n \in 1 .. Len(frames) : frames[n].op = "code"}
<1>1. IsFiniteSet(1 .. Len(frames))
  <2>1. 1 \in Int /\ Len(frames) \in Int
    OBVIOUS
  <2>. QED
    BY <2>1, FS_Interval, Zenon
<1>2. IsFiniteSet(code) /\ code # {}
  BY <1>1, FS_Subset
<1>. QED
  BY <1>2, FS_CardinalityType, FS_EmptySet DEF CallsIn

LEMMA Unrevised == IInv /\ Ready => Calling(call_stack)
<1>. SUFFICES ASSUME IInv, Ready PROVE Calling(call_stack)
  OBVIOUS
<1>1. Depth \in Nat
  BY DepthType DEF IInv
<1>2. ASSUME NEW k \in 1 .. Depth, call_stack[k].op = "compile"
      PROVE  k < Depth
  BY <1>1, <1>2, PoppedIs, EmptySeq DEF Ready, IInv, TopFrame, TypeOK, Depth
<1>3. Revises(call_stack)
  BY DEF IInv, TypeOK, Revises, CompilesKnow, Depth
<1>. QED
  BY <1>1, <1>2, <1>3 DEF Calling, IInv, CompilesKnow

-----------------------------------------------------------------------------
(* Calls, faults and returns *)

(* The frames that are left when one raises. *)
Left(frames) ==
    /\ frames \in Seq(Frames)
    /\ Len(frames) <= Depth
    /\ \A k \in 1 .. Len(frames) :
          /\ frames[k].op = call_stack[k].op
          /\ frames[k].gen = call_stack[k].gen
          /\ frames[k].self = call_stack[k].self
          /\ frames[k].op = "compile" => Compiling(frames[k], reported) /\ frames[k].called
    /\ \A k \in 1 .. Depth : k > Len(frames) => call_stack[k].op = "code"

LEMMA RaiseStep ==
    ASSUME IInv, NEW frames, Left(frames), Raise(frames),
           UNCHANGED <<source, compiled, functions, initialized>>
    PROVE  IInv'
<1>. USE DepthType DEF IInv
<1>. DEFINE raised(k) == [frames[k] EXCEPT !.faulted = frames[k].op # "code"]
<1>1. Len(frames) \in Nat /\ \A k \in 1 .. Len(frames) : frames[k] \in Frames
  BY LenProperties, ElementOfSeq DEF Left
<1>2. \A k \in 1 .. Len(frames) :
        /\ raised(k) \in Frames
        /\ raised(k).op = frames[k].op
        /\ raised(k).gen = frames[k].gen
        /\ raised(k).self = frames[k].self
        /\ raised(k).todo = frames[k].todo
        /\ raised(k).called = frames[k].called
        /\ raised(k).faulted = (frames[k].op # "code")
  BY <1>1 DEF Frames
<1>3. call_stack' = [k \in 1 .. Len(frames) |-> raised(k)]
  BY DEF Raise
<1>. HIDE DEF raised
<1>4. call_stack' \in Seq(Frames) /\ Depth' = Len(frames)
  BY <1>1, <1>2, <1>3 DEF Depth
<1>5. \A k \in 1 .. Depth' :
        /\ k \in 1 .. Depth
        /\ call_stack'[k] = raised(k)
        /\ call_stack'[k].op = call_stack[k].op
        /\ call_stack'[k].gen = call_stack[k].gen
        /\ call_stack'[k].self = call_stack[k].self
        /\ call_stack'[k].faulted = (call_stack[k].op # "code")
        /\ call_stack'[k].op = "compile" => call_stack'[k].called /\ Compiling(call_stack'[k], reported')
  <2>1. SUFFICES ASSUME NEW k \in 1 .. Depth'
                 PROVE  /\ k \in 1 .. Depth
                        /\ call_stack'[k] = raised(k)
                        /\ call_stack'[k].op = call_stack[k].op
                        /\ call_stack'[k].gen = call_stack[k].gen
                        /\ call_stack'[k].self = call_stack[k].self
                        /\ call_stack'[k].faulted = (call_stack[k].op # "code")
                        /\ call_stack'[k].op = "compile" =>
                              call_stack'[k].called /\ Compiling(call_stack'[k], reported')
    OBVIOUS
  <2>2. k \in 1 .. Len(frames) /\ k \in 1 .. Depth /\ call_stack'[k] = raised(k)
    BY <1>1, <1>3, <1>4 DEF Left
  <2>3. reported'
    BY DEF Raise
  <2>. QED
    BY <1>2, <2>2, <2>3 DEF Left, Compiling
<1>6. \A i \in Instances :
        /\ instances'[i] \in Objects
        /\ instances'[i].state = instances[i].state
        /\ instances'[i].class = instances[i].class
        /\ instances'[i].gen = instances[i].gen
        /\ instances'[i].spoiled = (instances[i].spoiled \/ instances[i].state = "building")
  BY DEF Raise, TypeOK, Objects
<1>7. TypeOK'
  BY <1>4, <1>6 DEF TypeOK, Raise
<1>8. NativeCallsCode'
  BY <1>1, <1>4, <1>5 DEF NativeCallsCode
<1>9. CompilesKnow'
  BY <1>5 DEF CompilesKnow
<1>10. BuildsOwn'
  BY <1>1, <1>4, <1>5, <1>6 DEF BuildsOwn
<1>11. FramesOfLive'
  <2>1. \A k \in 1 .. Depth' : call_stack[k] \in Frames
    BY <1>5, ElementOfSeq DEF TypeOK, Depth
  <2>. QED
    BY <2>1, <1>5, <1>6 DEF FramesOfLive, Frames
<1>12. OuterInstancesKeepTheirGeneration'
  <2>1. Listed' = Listed
    BY <1>6 DEF Listed
  <2>. QED
    BY <1>5, <1>6, <2>1 DEF OuterInstancesKeepTheirGeneration, Listed
<1>13. AttachedInstancesAreWhole'
  BY <1>6 DEF AttachedInstancesAreWhole
<1>14. UsableClassesAreInitialized'
  BY <1>1, <1>4, <1>5 DEF UsableClassesAreInitialized, Left
<1>. QED
  BY <1>7, <1>8, <1>9, <1>10, <1>11, <1>12, <1>13, <1>14

LEMMA CallStep ==
    ASSUME IInv, NEW below, Calling(below), NEW f, MayRun(f), EnterCode(below, f),
           UNCHANGED <<source, compiled, functions, initialized>>
    PROVE  IInv'
<1>. USE DepthType DEF IInv
<1>1. CASE Raise(below)
  <2>1. Left(below)
    BY DEF Left, Calling, Revises
  <2>. QED
    BY <1>1, <2>1, RaiseStep
<1>2. CASE /\ call_stack' = Append(below, f)
           /\ reported' = (reported /\ CallsIn(below) > 0)
           /\ UNCHANGED instances
  <2>1. /\ call_stack' \in Seq(Frames)
        /\ Depth' = Depth + 1
        /\ call_stack'[Depth + 1] = f
        /\ \A k \in 1 .. Depth : call_stack'[k] = below[k] /\ below[k] \in Frames
    BY <1>2, AppendProperties, ElementOfSeq DEF Calling, Revises, MayRun, Depth
  <2>0. Depth \in Nat /\ \A k \in 1 .. Depth' : k \in 1 .. Depth \/ k = Depth + 1
    BY <2>1
  <2>2. \A k \in 1 .. Depth : below[k].op = "compile" /\ below[k].faulted =>
           reported /\ CallsIn(below) > 0
    <3>1. SUFFICES ASSUME NEW k \in 1 .. Depth, below[k].op = "compile", below[k].faulted
                   PROVE  reported /\ CallsIn(below) > 0
      OBVIOUS
    <3>2. k < Depth
      BY <3>1 DEF Calling
    <3>3. below[k + 1].op = "code" /\ k + 1 \in 1 .. Len(below)
      BY <3>1, <3>2 DEF Calling, Revises, NativeCallsCode
    <3>4. CallsIn(below) > 0
      BY <3>3, CallsPositive DEF Calling, Revises
    <3>. QED
      BY <3>1, <3>4 DEF Calling, Revises, Compiling
  <2>3. TypeOK'
    BY <1>2, <2>1 DEF TypeOK
  <2>4. NativeCallsCode'
    <3>1. SUFFICES ASSUME NEW k \in 1 .. Depth, call_stack'[k].op # "code"
                   PROVE  call_stack'[k + 1].op = "code"
      BY <2>0, <2>1 DEF NativeCallsCode
    <3>2. CASE k = Depth
      BY <2>0, <2>1, <3>2 DEF MayRun
    <3>3. CASE k < Depth
      BY <2>0, <2>1, <3>1, <3>3 DEF NativeCallsCode, Calling, Revises
    <3>. QED
      BY <2>0, <3>2, <3>3
  <2>5. CompilesKnow'
    <3>1. SUFFICES ASSUME NEW k \in 1 .. Depth + 1, call_stack'[k].op = "compile"
                   PROVE  /\ Compiling(call_stack'[k], reported')
                          /\ k < Depth + 1 => call_stack'[k].called
      BY <2>1 DEF CompilesKnow
    <3>2. k \in 1 .. Depth /\ below[k].op = "compile" /\ call_stack'[k] = below[k]
      BY <2>0, <2>1, <3>1 DEF MayRun
    <3>3. reported' = (reported /\ CallsIn(below) > 0)
      BY <1>2
    <3>. QED
      BY <2>2, <3>2, <3>3 DEF Calling, Revises, Compiling
  <2>6. BuildsOwn'
    BY <1>2, <2>1 DEF BuildsOwn, Calling, Revises, MayRun
  <2>7. FramesOfLive'
    <3>1. f.self \in Instances \cup {NoInstance}
      BY DEF MayRun, Frames
    <3>. QED
      BY <1>2, <2>0, <2>1, <3>1 DEF FramesOfLive, Calling, Revises, MayRun
  <2>8. OuterInstancesKeepTheirGeneration'
    BY <1>2, <2>1 DEF OuterInstancesKeepTheirGeneration, Calling, Revises, MayRun, Listed
  <2>9. AttachedInstancesAreWhole'
    BY <1>2 DEF AttachedInstancesAreWhole
  <2>10. UsableClassesAreInitialized'
    BY <2>1 DEF UsableClassesAreInitialized, Calling, Revises
  <2>. QED
    BY <2>3, <2>4, <2>5, <2>6, <2>7, <2>8, <2>9, <2>10
<1>. QED
  BY <1>1, <1>2 DEF EnterCode

(* Functions may run if they are those of the instance, or of none. *)
LEMMA FunctionsMayRun ==
    ASSUME IInv, NEW i \in Instances, instances[i].state # "free",
           NEW f \in FunctionsOf(i) \cup OuterFunctions \cup {[class |-> "inner", gen |-> instances[i].gen]}
    PROVE  MayRun(Code(f.class, f.gen, i))
<1>1. f.class \in Classes /\ f.gen \in Nat
  BY DEF IInv, TypeOK, Objects, FunctionsOf, OuterFunctions, Classes
<1>2. i \in Listed => f.gen = instances[i].gen
  BY DEF IInv, OuterInstancesKeepTheirGeneration, FunctionsOf, OuterFunctions
<1>. QED
  BY <1>1, <1>2, CodeType DEF MayRun

LEMMA StaticMayRun ==
    ASSUME NEW class \in Classes, NEW gen \in Nat
    PROVE  MayRun(Code(class, gen, NoInstance))
BY CodeType, ScriptAssumption DEF MayRun

LEMMA MethodsStep ==
    ASSUME IInv, \/ \E i \in Instances : CallMethod(i)
                 \/ CallStatic
                 \/ CallOther
    PROVE  IInv'
<1>1. Calling(call_stack)
  BY Unrevised DEF CallMethod, CallStatic, CallOther
<1>2. ASSUME NEW i \in Instances, CallMethod(i) PROVE IInv'
  <2>1. PICK f \in FunctionsOf(i) : EnterCode(call_stack, Code(f.class, f.gen, i))
    BY <1>2 DEF CallMethod
  <2>2. MayRun(Code(f.class, f.gen, i))
    BY <1>2, FunctionsMayRun DEF CallMethod
  <2>. QED
    BY <1>1, <1>2, <2>1, <2>2, CallStep DEF CallMethod
<1>3. CASE CallStatic
  <2>1. PICK f \in OuterFunctions \cup {[class |-> "inner", gen |-> g] : g \in InnerClasses} :
           EnterCode(call_stack, Code(f.class, f.gen, NoInstance))
    BY <1>3 DEF CallStatic
  <2>2. InnerClasses \subseteq Nat
    <3>1. \A k \in 1 .. Depth : call_stack[k].gen \in Nat
      BY FrameType DEF IInv
    <3>. QED
      BY <3>1 DEF InnerClasses, IInv, TypeOK, Objects
  <2>3. f.class \in Classes /\ f.gen \in Nat
    BY <2>2 DEF OuterFunctions, IInv, TypeOK, Classes
  <2>. QED
    BY <1>1, <1>3, <2>1, <2>3, StaticMayRun, CallStep DEF CallStatic
<1>4. CASE CallOther
  BY <1>1, <1>4, StaticMayRun, CallStep DEF CallOther, Classes
<1>. QED
  BY <1>2, <1>3, <1>4

(* The frame on top is left. *)
LEMMA PopIs ==
    ASSUME IInv, call_stack # <<>>, call_stack' = Popped, UNCHANGED reported
    PROVE  /\ Depth \in Nat \ {0} /\ TopFrame = call_stack[Depth] /\ TopFrame \in Frames
           /\ call_stack' \in Seq(Frames)
           /\ Depth' = Depth - 1
           /\ \A k \in 1 .. Depth - 1 : call_stack'[k] = call_stack[k] /\ k \in 1 .. Depth
           /\ NativeCallsCode'
           /\ CompilesKnow'
<1>1. /\ Depth \in Nat \ {0} /\ TopFrame = call_stack[Depth] /\ TopFrame \in Frames
      /\ call_stack' \in Seq(Frames)
      /\ Depth' = Depth - 1
      /\ \A k \in 1 .. Depth - 1 : call_stack'[k] = call_stack[k] /\ k \in 1 .. Depth
  BY PoppedIs DEF IInv, Depth, TopFrame
<1>2. NativeCallsCode'
  BY <1>1 DEF NativeCallsCode, IInv
<1>3. CompilesKnow'
  <2>1. SUFFICES ASSUME NEW k \in 1 .. Depth - 1, call_stack[k].op = "compile"
                 PROVE  Compiling(call_stack[k], reported) /\ call_stack[k].called
    BY <1>1 DEF CompilesKnow
  <2>. QED
    BY <1>1, <2>1 DEF CompilesKnow, IInv
<1>. QED
  BY <1>1, <1>2, <1>3

(* ... and nothing else changes for those below it. *)
LEMMA PopStep ==
    ASSUME IInv, call_stack # <<>>, call_stack' = Popped, TopFrame.op # "compile",
           UNCHANGED <<source, compiled, functions, instances, reported, initialized>>
    PROVE  IInv'
<1>. USE PopIs DEF IInv
<1>1. TypeOK'
  BY DEF TypeOK
<1>2. BuildsOwn' /\ FramesOfLive'
  BY DEF BuildsOwn, FramesOfLive
<1>3. OuterInstancesKeepTheirGeneration'
  BY DEF OuterInstancesKeepTheirGeneration, Listed
<1>4. AttachedInstancesAreWhole'
  BY DEF AttachedInstancesAreWhole
<1>5. UsableClassesAreInitialized'
  BY DEF UsableClassesAreInitialized
<1>. QED
  BY <1>1, <1>2, <1>3, <1>4, <1>5

LEMMA ReturnStep ==
    ASSUME IInv, ReturnFrom \/ Fault
    PROVE  IInv'
<1>1. CASE ReturnFrom
  BY <1>1, PopStep DEF ReturnFrom
<1>2. CASE Fault
  <2>1. /\ Depth \in Nat \ {0}
        /\ Popped \in Seq(Frames)
        /\ Len(Popped) = Depth - 1
        /\ \A k \in 1 .. Depth - 1 : Popped[k] = call_stack[k]
    BY <1>2, PoppedIs DEF Fault, IInv
  <2>2. Left(Popped)
    BY <1>2, <2>1 DEF Fault, Left, TopFrame, IInv, CompilesKnow
  <2>. QED
    BY <1>2, <2>2, RaiseStep DEF Fault
<1>. QED
  BY <1>1, <1>2

-----------------------------------------------------------------------------
(* Instances *)

LEMMA InitializersType ==
    ASSUME NEW class \in {"outer", "inner"}, NEW gen
    PROVE  Initializers(class, gen) \in Seq({"outer", "inner"})
<1>1. <<>> \in Seq({"outer", "inner"}) /\ <<"outer">> \in Seq({"outer", "inner"})
      /\ <<class, class>> \in Seq({"outer", "inner"})
  OBVIOUS
<1>. QED
  BY <1>1, ConcatProperties DEF Initializers

Pushes(f) == call_stack' = Append(call_stack, f)

(* Native code starts on top of script code, or of nothing. *)
LEMMA PushIs ==
    ASSUME IInv, Ready, NEW f \in Frames, Pushes(f), UNCHANGED reported,
           f.op = "compile" => Compiling(f, reported)
    PROVE  /\ Depth \in Nat
           /\ call_stack' \in Seq(Frames)
           /\ Depth' = Depth + 1
           /\ call_stack'[Depth + 1] = f
           /\ \A k \in 1 .. Depth : call_stack'[k] = call_stack[k] /\ k \in 1 .. Depth'
           /\ \A k \in 1 .. Depth' : k \in 1 .. Depth \/ k = Depth + 1
           /\ NativeCallsCode'
           /\ CompilesKnow'
<1>1. /\ Depth \in Nat
      /\ call_stack' \in Seq(Frames)
      /\ Depth' = Depth + 1
      /\ call_stack'[Depth + 1] = f
      /\ \A k \in 1 .. Depth : call_stack'[k] = call_stack[k]
  BY AppendProperties, DepthType DEF Depth, IInv, TypeOK, Pushes
<1>1a. /\ \A k \in 1 .. Depth : k \in 1 .. Depth'
       /\ \A k \in 1 .. Depth' : k \in 1 .. Depth \/ k = Depth + 1
  BY <1>1
<1>2. Depth # 0 => call_stack[Depth].op = "code"
  BY EmptySeq DEF Ready, TopFrame, Depth
<1>3. NativeCallsCode'
  <2>1. SUFFICES ASSUME NEW k \in 1 .. Depth, call_stack'[k].op # "code"
                 PROVE  call_stack'[k + 1].op = "code"
    BY <1>1 DEF NativeCallsCode
  <2>2. k # Depth /\ k + 1 \in 1 .. Depth
    BY <1>1, <1>2, <2>1
  <2>. QED
    BY <1>1, <2>1, <2>2 DEF NativeCallsCode, IInv
<1>4. CompilesKnow'
  <2>1. \A k \in 1 .. Depth : call_stack[k].op = "compile" => call_stack[k].called /\ Compiling(call_stack[k], reported)
    BY <1>1, <1>2 DEF CompilesKnow, IInv
  <2>. QED
    <3>1. SUFFICES ASSUME NEW k \in 1 .. Depth + 1, call_stack'[k].op = "compile"
                   PROVE  /\ Compiling(call_stack'[k], reported)
                          /\ k < Depth + 1 => call_stack'[k].called
      BY <1>1 DEF CompilesKnow
    <3>2. CASE k = Depth + 1
      BY <1>1, <3>1, <3>2
    <3>3. CASE k \in 1 .. Depth
      BY <1>1, <2>1, <3>1, <3>3
    <3>. QED
      BY <1>1, <3>2, <3>3
<1>. QED
  BY <1>1, <1>1a, <1>3, <1>4

LEMMA CreateStep ==
    ASSUME IInv, NEW i \in Instances, NEW class \in {"outer", "inner"}, Create(i, class)
    PROVE  IInv'
<1>. USE DEF IInv
<1>1. PICK gen \in (IF class = "outer" THEN {functions} \ {0} ELSE InnerClasses) :
         /\ instances' = [instances EXCEPT ![i] =
              [state |-> "building", class |-> class, gen |-> gen, spoiled |-> FALSE]]
         /\ call_stack' = Append(call_stack,
              [op |-> "build", class |-> class, gen |-> gen, self |-> i,
               todo |-> Initializers(class, gen),
               called |-> FALSE, faulted |-> FALSE, refused |-> FALSE])
  BY DEF Create
<1>. DEFINE f == [op |-> "build", class |-> class, gen |-> gen, self |-> i,
                  todo |-> Initializers(class, gen),
               called |-> FALSE, faulted |-> FALSE, refused |-> FALSE]
<1>2. gen \in Nat /\ (class = "outer" => gen = functions)
  <2>1. \A k \in 1 .. Depth : call_stack[k].gen \in Nat
    BY FrameType
  <2>. QED
    BY <1>1, <2>1 DEF InnerClasses, TypeOK, Objects
<1>3. f \in Frames
  BY <1>2, InitializersType DEF Frames, Classes
<1>4. /\ f.op = "build" /\ f.self = i /\ f.faulted = FALSE /\ f.gen = gen
  OBVIOUS
<1>4a. instances'[i].spoiled = f.faulted
  BY <1>1 DEF TypeOK
<1>. HIDE DEF f
<1>5. /\ Depth \in Nat
      /\ call_stack' \in Seq(Frames)
      /\ Depth' = Depth + 1
      /\ call_stack'[Depth + 1] = f
      /\ \A k \in 1 .. Depth : call_stack'[k] = call_stack[k] /\ k \in 1 .. Depth'
      /\ \A k \in 1 .. Depth' : k \in 1 .. Depth \/ k = Depth + 1
      /\ NativeCallsCode'
      /\ CompilesKnow'
  BY <1>1, <1>3, <1>4, PushIs DEF Create, f, Pushes
<1>5a. instances' = [instances EXCEPT ![i] =
              [state |-> "building", class |-> class, gen |-> gen, spoiled |-> FALSE]]
  BY <1>1
<1>6. \A k \in 1 .. Depth : call_stack[k].self # i
  BY ScriptAssumption DEF FramesOfLive, Create
<1>7. TypeOK'
  BY <1>5a, <1>2, <1>5 DEF TypeOK, Create, Objects
<1>8. BuildsOwn'
  <2>1. SUFFICES ASSUME NEW k \in 1 .. Depth + 1, call_stack'[k].op = "build"
                 PROVE  /\ call_stack'[k].self \in Instances
                        /\ instances'[call_stack'[k].self].state = "building"
                        /\ instances'[call_stack'[k].self].spoiled = call_stack'[k].faulted
                        /\ \A j \in 1 .. k - 1 : call_stack'[j].self # call_stack'[k].self
    BY <1>5 DEF BuildsOwn
  <2>2. CASE k = Depth + 1
    <3>1. call_stack'[k] = f /\ \A j \in 1 .. k - 1 : call_stack'[j] = call_stack[j] /\ call_stack[j].self # i
      BY <1>5, <1>6, <2>2
    <3>2. instances'[i] = [state |-> "building", class |-> class, gen |-> gen, spoiled |-> FALSE]
      BY <1>5a DEF TypeOK
    <3>. QED
      <4>1. call_stack'[k].self = i
        BY <1>4, <3>1
      <4>2. instances'[i].state = "building"
        BY <3>2
      <4>3. instances'[i].spoiled = call_stack'[k].faulted
        BY <1>4a, <3>1
      <4>. QED
        BY <3>1, <4>1, <4>2, <4>3
  <2>3. CASE k \in 1 .. Depth
    <3>1. call_stack'[k] = call_stack[k] /\ \A j \in 1 .. k - 1 : call_stack'[j] = call_stack[j]
      BY <1>5, <2>3
    <3>. QED
      BY <1>5a, <1>6, <2>1, <2>3, <3>1 DEF BuildsOwn, TypeOK
  <2>. QED
    BY <1>5, <2>2, <2>3
<1>9. FramesOfLive'
  <2>1. SUFFICES ASSUME NEW k \in 1 .. Depth + 1, call_stack'[k].self # NoInstance
                 PROVE  instances'[call_stack'[k].self].state # "free"
    BY <1>5 DEF FramesOfLive
  <2>2. instances'[i].state # "free" /\ \A j \in Instances \ {i} : instances'[j] = instances[j]
    BY <1>5a DEF TypeOK
  <2>3. CASE k = Depth + 1
    BY <1>4, <1>5, <2>2, <2>3
  <2>4. CASE k \in 1 .. Depth
    <3>1. call_stack'[k] = call_stack[k] /\ call_stack[k] \in Frames
      BY <1>5, <2>4 DEF TypeOK, Depth
    <3>2. call_stack[k].self \in Instances /\ instances[call_stack[k].self].state # "free"
      BY <2>1, <2>4, <3>1 DEF FramesOfLive, Frames
    <3>. QED
      BY <2>2, <3>1, <3>2
  <2>. QED
    BY <1>5, <2>3, <2>4
<1>10. OuterInstancesKeepTheirGeneration'
  BY <1>5a, <1>2, <1>4, <1>5, <1>6 DEF OuterInstancesKeepTheirGeneration, Listed, TypeOK, Create
<1>11. AttachedInstancesAreWhole'
  BY <1>5a DEF AttachedInstancesAreWhole, TypeOK
<1>12. UsableClassesAreInitialized'
  BY <1>5 DEF UsableClassesAreInitialized, Create
<1>. QED
  BY <1>5, <1>7, <1>8, <1>9, <1>10, <1>11, <1>12

(* The frame on top goes on with what is left of its list. *)
LEMMA RevisedIs ==
    ASSUME IInv, call_stack # <<>>, NEW f \in Frames,
           f.op = TopFrame.op, f.gen = TopFrame.gen, f.self = TopFrame.self, f.faulted = TopFrame.faulted,
           f.op = "compile" => Compiling(f, reported)
    PROVE  /\ Revises(Append(Popped, f))
           /\ Append(Popped, f)[Depth] = f
<1>. DEFINE below == Append(Popped, f)
<1>1. /\ Depth \in Nat \ {0} /\ TopFrame = call_stack[Depth] /\ TopFrame \in Frames
      /\ Popped \in Seq(Frames)
      /\ Len(Popped) = Depth - 1
      /\ \A k \in 1 .. Depth - 1 : Popped[k] = call_stack[k]
  BY PoppedIs DEF IInv, TopFrame
<1>2. /\ below \in Seq(Frames)
      /\ Len(below) = Depth
      /\ below[Depth] = f
      /\ \A k \in 1 .. Depth - 1 : below[k] = call_stack[k]
  BY <1>1, AppendProperties
<1>. HIDE DEF below
<1>3. \A k \in 1 .. Depth : k = Depth \/ k \in 1 .. Depth - 1
  BY <1>1
<1>4. \A k \in 1 .. Depth - 1 : call_stack[k].op = "compile" => Compiling(call_stack[k], reported)
  BY <1>1 DEF IInv, CompilesKnow
<1>5. Revises(below)
  BY <1>1, <1>2, <1>3, <1>4 DEF Revises
<1>. QED
  BY <1>2, <1>5 DEF below

(* The list of one that may go on is shorter, and the stack otherwise as   *)
(* it was.                                                                 *)
LEMMA ReviseStep ==
    ASSUME IInv, NEW below, Revises(below), call_stack' = below,
           \A k \in 1 .. Depth - 1 : call_stack[k].op = "compile" => below[k].called,
           UNCHANGED <<source, compiled, functions, instances, reported, initialized>>
    PROVE  IInv'
<1>. USE DepthType DEF IInv
<1>1. /\ call_stack' \in Seq(Frames) /\ Depth' = Depth
      /\ \A k \in 1 .. Depth :
          /\ call_stack'[k].op = call_stack[k].op
          /\ call_stack'[k].gen = call_stack[k].gen
          /\ call_stack'[k].self = call_stack[k].self
          /\ call_stack'[k].faulted = call_stack[k].faulted
          /\ call_stack'[k].op = "compile" =>
                Compiling(call_stack'[k], reported') /\ (k < Depth => call_stack'[k].called)
  BY DEF Revises, Depth
<1>2. TypeOK'
  BY <1>1 DEF TypeOK
<1>3. NativeCallsCode' /\ CompilesKnow'
  BY <1>1 DEF NativeCallsCode, CompilesKnow
<1>4. BuildsOwn' /\ FramesOfLive'
  BY <1>1 DEF BuildsOwn, FramesOfLive
<1>5. OuterInstancesKeepTheirGeneration'
  BY <1>1 DEF OuterInstancesKeepTheirGeneration, Listed
<1>6. AttachedInstancesAreWhole'
  BY DEF AttachedInstancesAreWhole
<1>7. UsableClassesAreInitialized'
  BY <1>1 DEF UsableClassesAreInitialized
<1>. QED
  BY <1>2, <1>3, <1>4, <1>5, <1>6, <1>7

LEMMA InitializeStep ==
    ASSUME IInv, Initialize
    PROVE  IInv'
<1>. DEFINE f == [TopFrame EXCEPT !.todo = Tail(@)]
            below == Append(Popped, f)
<1>1. TopFrame \in Frames /\ TopFrame.op = "build" /\ Depth \in Nat \ {0} /\ TopFrame = call_stack[Depth]
  BY PoppedIs DEF Initialize, IInv, TopFrame
<1>2. /\ f \in Frames /\ f.op = TopFrame.op /\ f.gen = TopFrame.gen /\ f.self = TopFrame.self
      /\ f.faulted = TopFrame.faulted
  <2>1. TopFrame.todo \in Seq({"outer", "inner"}) /\ TopFrame.todo # <<>>
    BY <1>1 DEF Frames, Initialize
  <2>2. Tail(TopFrame.todo) \in Seq({"outer", "inner"})
    BY <2>1, HeadTailProperties
  <2>. QED
    BY <1>1, <2>2 DEF Frames
<1>. HIDE DEF f
<1>3. Revises(below) /\ below[Depth] = f
  BY <1>1, <1>2, RevisedIs DEF Initialize
<1>4. Calling(below)
  <2>. HIDE DEF below
  <2>1. \A k \in 1 .. Depth - 1 : below[k] = call_stack[k]
    BY <1>3 DEF Revises
  <2>2. \A k \in 1 .. Depth : below[k].op = "compile" => k \in 1 .. Depth - 1
    BY <1>1, <1>2, <1>3
  <2>. QED
    BY <1>1, <1>3, <2>1, <2>2 DEF Calling, IInv, CompilesKnow
<1>5. \/ \E g \in InitializerOf(TopFrame) : EnterCode(below, Code(g.class, g.gen, TopFrame.self))
      \/ call_stack' = below /\ UNCHANGED <<reported, instances>>
  BY DEF Initialize, f
<1>6. UNCHANGED <<source, compiled, functions, initialized>>
  BY DEF Initialize
<1>. HIDE DEF below
<1>7. ASSUME NEW g \in InitializerOf(TopFrame), EnterCode(below, Code(g.class, g.gen, TopFrame.self))
      PROVE  IInv'
  <2>1. TopFrame.self \in Instances /\ instances[TopFrame.self].state = "building"
    BY <1>1 DEF IInv, BuildsOwn
  <2>2. g \in OuterFunctions \cup {[class |-> "inner", gen |-> instances[TopFrame.self].gen]}
    BY DEF InitializerOf
  <2>3. MayRun(Code(g.class, g.gen, TopFrame.self))
    BY <2>1, <2>2, FunctionsMayRun
  <2>. QED
    BY <1>4, <1>6, <1>7, <2>3, CallStep
<1>8. CASE call_stack' = below /\ UNCHANGED <<reported, instances>>
  <2>1. \A k \in 1 .. Depth - 1 : call_stack[k].op = "compile" => below[k].called
    BY <1>1, <1>4 DEF Calling, Revises
  <2>. QED
    BY <1>3, <1>6, <1>8, <2>1, ReviseStep
<1>. QED
  BY <1>5, <1>7, <1>8

(* A refusal marks the frame on top, and may forget what was reported only *)
(* where no script code runs, so that no compilation waits for it.         *)
LEMMA RefuseStep ==
    ASSUME IInv, Refuse
    PROVE  IInv'
<1>. USE DepthType DEF IInv
<1>. DEFINE f == [TopFrame EXCEPT !.refused = TRUE]
<1>1. /\ TopFrame \in Frames /\ TopFrame.op = "build" /\ Depth \in Nat \ {0}
      /\ TopFrame = call_stack[Depth]
      /\ Popped \in Seq(Frames) /\ Len(Popped) = Depth - 1
      /\ \A k \in 1 .. Depth - 1 : Popped[k] = call_stack[k]
  BY PoppedIs DEF Refuse, TopFrame
<1>2. /\ f \in Frames /\ f.op = TopFrame.op /\ f.gen = TopFrame.gen /\ f.self = TopFrame.self
      /\ f.faulted = TopFrame.faulted
  BY <1>1 DEF Frames
<1>3. call_stack' = Append(Popped, f)
  BY DEF Refuse
<1>3a. UNCHANGED <<source, compiled, functions, instances, initialized>>
  BY DEF Refuse
<1>. HIDE DEF f
<1>4. Revises(Append(Popped, f)) /\ Append(Popped, f)[Depth] = f
  BY <1>1, <1>2, RevisedIs DEF Refuse
<1>5. /\ call_stack' \in Seq(Frames) /\ Depth' = Depth /\ call_stack'[Depth] = f
      /\ \A k \in 1 .. Depth :
          /\ call_stack'[k].op = call_stack[k].op
          /\ call_stack'[k].gen = call_stack[k].gen
          /\ call_stack'[k].self = call_stack[k].self
          /\ call_stack'[k].faulted = call_stack[k].faulted
          /\ k < Depth => call_stack'[k] = call_stack[k]
  BY <1>3, <1>4 DEF Revises, Depth
<1>6. reported' \in BOOLEAN /\ (reported' = reported \/ reported' = (reported /\ CallsIn(Popped) > 0))
  BY DEF Refuse, TypeOK
<1>7. ASSUME NEW k \in 1 .. Depth, call_stack'[k].op = "compile"
      PROVE  Compiling(call_stack'[k], reported') /\ (k < Depth => call_stack'[k].called)
  <2>1. k < Depth /\ call_stack'[k] = call_stack[k]
    BY <1>1, <1>2, <1>5, <1>7
  <2>2. Compiling(call_stack[k], reported) /\ call_stack[k].called
    BY <1>7, <2>1 DEF CompilesKnow
  <2>3. call_stack[k + 1].op = "code" /\ k + 1 \in 1 .. Depth - 1
    BY <1>1, <1>7, <2>1 DEF NativeCallsCode
  <2>4. CallsIn(Popped) > 0
    BY <1>1, <2>3, CallsPositive
  <2>. QED
    BY <1>6, <2>1, <2>2, <2>4 DEF Compiling
<1>8. TypeOK'
  BY <1>3a, <1>5, <1>6 DEF TypeOK
<1>9. NativeCallsCode'
  BY <1>5 DEF NativeCallsCode
<1>10. CompilesKnow'
  BY <1>5, <1>7 DEF CompilesKnow
<1>11. BuildsOwn'
  <2>1. SUFFICES ASSUME NEW k \in 1 .. Depth, call_stack'[k].op = "build"
                 PROVE  /\ call_stack'[k].self \in Instances
                        /\ instances[call_stack'[k].self].state = "building"
                        /\ instances[call_stack'[k].self].spoiled = call_stack'[k].faulted
                        /\ \A j \in 1 .. k - 1 : call_stack'[j].self # call_stack'[k].self
    BY <1>3a, <1>5 DEF BuildsOwn
  <2>2. \A j \in 1 .. k - 1 : j \in 1 .. Depth
    BY <1>1
  <2>. QED
    BY <1>5, <2>1, <2>2 DEF BuildsOwn
<1>11a. FramesOfLive'
  BY <1>3a, <1>5 DEF FramesOfLive
<1>12. OuterInstancesKeepTheirGeneration'
  <2>1. Listed' = Listed
    BY <1>3a DEF Listed
  <2>. QED
    BY <1>3a, <1>5, <2>1 DEF OuterInstancesKeepTheirGeneration
<1>13. AttachedInstancesAreWhole'
  BY <1>3a DEF AttachedInstancesAreWhole
<1>14. UsableClassesAreInitialized'
  BY <1>3a, <1>5 DEF UsableClassesAreInitialized
<1>. QED
  BY <1>8, <1>9, <1>10, <1>11, <1>11a, <1>12, <1>13, <1>14

(* The construction on top ends, with the object in the hands of the       *)
(* engine or deleted: nothing else on the stack is about it.               *)
LEMMA AttachStep ==
    ASSUME IInv, Attach
    PROVE  IInv'
<1>. USE DEF IInv
<1>1. /\ Depth \in Nat \ {0} /\ TopFrame = call_stack[Depth] /\ TopFrame \in Frames
      /\ call_stack' \in Seq(Frames)
      /\ Depth' = Depth - 1
      /\ \A k \in 1 .. Depth - 1 : call_stack'[k] = call_stack[k] /\ k \in 1 .. Depth
      /\ NativeCallsCode'
      /\ CompilesKnow'
  BY PopIs DEF Attach
<1>2. /\ TopFrame.self \in Instances
      /\ instances[TopFrame.self].state = "building"
      /\ ~ instances[TopFrame.self].spoiled
      /\ \A k \in 1 .. Depth - 1 : call_stack[k].self # TopFrame.self
  BY <1>1 DEF Attach, InitializerFailed, BuildsOwn
<1>3. \A i \in Instances :
        /\ instances'[i] \in Objects
        /\ instances'[i].class = instances[i].class
        /\ instances'[i].gen = instances[i].gen
        /\ instances'[i].spoiled = instances[i].spoiled
        /\ instances'[i].state = IF i = TopFrame.self THEN "attached" ELSE instances[i].state
  BY <1>2 DEF Attach, TypeOK, Objects
<1>4. TypeOK'
  BY <1>1, <1>3 DEF TypeOK, Attach
<1>5. BuildsOwn'
  BY <1>1, <1>2, <1>3 DEF BuildsOwn
<1>6. FramesOfLive'
  BY <1>1, <1>2, <1>3, FrameType DEF FramesOfLive
<1>7. Listed' = Listed
  BY <1>2, <1>3 DEF Listed
<1>8. OuterInstancesKeepTheirGeneration'
  BY <1>1, <1>3, <1>7 DEF OuterInstancesKeepTheirGeneration, Attach, Listed
<1>9. AttachedInstancesAreWhole'
  BY <1>2, <1>3 DEF AttachedInstancesAreWhole
<1>10. UsableClassesAreInitialized'
  BY <1>1 DEF UsableClassesAreInitialized, Attach
<1>. QED
  BY <1>1, <1>4, <1>5, <1>6, <1>8, <1>9, <1>10

LEMMA DiscardStep ==
    ASSUME IInv, DiscardInstance
    PROVE  IInv'
<1>. USE DEF IInv
<1>1. /\ Depth \in Nat \ {0} /\ TopFrame = call_stack[Depth] /\ TopFrame \in Frames
      /\ call_stack' \in Seq(Frames)
      /\ Depth' = Depth - 1
      /\ \A k \in 1 .. Depth - 1 : call_stack'[k] = call_stack[k] /\ k \in 1 .. Depth
      /\ NativeCallsCode'
      /\ CompilesKnow'
  BY PopIs DEF DiscardInstance
<1>2. /\ TopFrame.self \in Instances
      /\ \A k \in 1 .. Depth - 1 : call_stack[k].self # TopFrame.self
  BY <1>1 DEF DiscardInstance, BuildsOwn
<1>3. \A i \in Instances :
        /\ instances'[i] \in Objects
        /\ i # TopFrame.self => instances'[i] = instances[i]
        /\ i = TopFrame.self => instances'[i].state = "free"
  BY <1>2 DEF DiscardInstance, TypeOK, Objects, Freed
<1>4. TypeOK'
  BY <1>1, <1>3 DEF TypeOK, DiscardInstance
<1>5. BuildsOwn'
  BY <1>1, <1>2, <1>3 DEF BuildsOwn
<1>6. FramesOfLive'
  BY <1>1, <1>2, <1>3, FrameType DEF FramesOfLive
<1>7. OuterInstancesKeepTheirGeneration'
  BY <1>1, <1>3 DEF OuterInstancesKeepTheirGeneration, DiscardInstance, Listed
<1>8. AttachedInstancesAreWhole'
  BY <1>3 DEF AttachedInstancesAreWhole
<1>9. UsableClassesAreInitialized'
  BY <1>1 DEF UsableClassesAreInitialized, DiscardInstance
<1>. QED
  BY <1>1, <1>4, <1>5, <1>6, <1>7, <1>8, <1>9

LEMMA FreeStep ==
    ASSUME IInv, NEW i \in Instances, Free(i)
    PROVE  IInv'
<1>. USE DEF IInv
<1>1. /\ UNCHANGED <<source, compiled, functions, call_stack, reported, initialized>>
      /\ Depth' = Depth
      /\ instances[i].state = "attached"
      /\ \A k \in 1 .. Depth : call_stack[k].self # i
  BY DEF Free, Depth
<1>2. \A j \in Instances :
        /\ instances'[j] \in Objects
        /\ j # i => instances'[j] = instances[j]
        /\ j = i => instances'[j].state = "free"
  BY DEF Free, TypeOK, Objects, Freed
<1>3. TypeOK' /\ NativeCallsCode' /\ CompilesKnow'
  BY <1>1, <1>2 DEF TypeOK, NativeCallsCode, CompilesKnow, Free
<1>4. BuildsOwn'
  BY <1>1, <1>2 DEF BuildsOwn
<1>5. FramesOfLive'
  BY <1>1, <1>2, FrameType DEF FramesOfLive
<1>6. OuterInstancesKeepTheirGeneration'
  BY <1>1, <1>2 DEF OuterInstancesKeepTheirGeneration, Listed
<1>7. AttachedInstancesAreWhole' /\ UsableClassesAreInitialized'
  BY <1>1, <1>2 DEF AttachedInstancesAreWhole, UsableClassesAreInitialized
<1>. QED
  BY <1>3, <1>4, <1>5, <1>6, <1>7

-----------------------------------------------------------------------------
(* Compilations *)

LEMMA SourceStep ==
    ASSUME IInv, \/ \E text \in ScriptTexts : SetSource(text)
                 \/ ReloadFails
    PROVE  IInv'
<1>. USE DEF IInv
<1>1. /\ UNCHANGED <<compiled, instances, call_stack, reported, initialized>>
      /\ Depth' = Depth
      /\ source' \in ScriptTexts
      /\ functions' = functions \/ (functions' = 0 /\ Listed = {})
  BY DEF SetSource, ReloadFails, TypeOK, Depth
<1>2. TypeOK' /\ NativeCallsCode' /\ CompilesKnow' /\ BuildsOwn' /\ FramesOfLive'
  BY <1>1 DEF TypeOK, NativeCallsCode, CompilesKnow, BuildsOwn, FramesOfLive
<1>3. OuterInstancesKeepTheirGeneration'
  BY <1>1 DEF OuterInstancesKeepTheirGeneration, Listed
<1>4. AttachedInstancesAreWhole' /\ UsableClassesAreInitialized'
  BY <1>1 DEF AttachedInstancesAreWhole, UsableClassesAreInitialized
<1>. QED
  BY <1>2, <1>3, <1>4

LEMMA ReloadStep ==
    ASSUME IInv, Reload
    PROVE  IInv'
<1>. USE DEF IInv
<1>. DEFINE f == [op |-> "compile", class |-> "outer", gen |-> functions', self |-> NoInstance,
                  todo |-> IF source \in StaticInit THEN <<"outer", "inner">> ELSE <<>>,
                  called |-> FALSE, faulted |-> FALSE, refused |-> FALSE]
<1>1. compiled' \in Seq(ScriptTexts) /\ functions' \in Nat
  <2>1. source \in ScriptTexts /\ compiled \in Seq(ScriptTexts)
    BY DEF TypeOK
  <2>2. compiled' \in Seq(ScriptTexts)
    BY <2>1, AppendProperties DEF Reload
  <2>. QED
    BY <2>2, LenProperties DEF Reload
<1>2. f \in Frames
  <2>1. <<"outer", "inner">> \in Seq({"outer", "inner"}) /\ <<>> \in Seq({"outer", "inner"})
    OBVIOUS
  <2>. QED
    BY <1>1, <2>1 DEF Frames, Classes
<1>3. /\ f.op = "compile" /\ f.gen = functions' /\ f.self = NoInstance
      /\ Compiling(f, reported)
  BY DEF Compiling
<1>4. Pushes(f) /\ Ready
  BY DEF Pushes, Reload
<1>. HIDE DEF f
<1>5. /\ Depth \in Nat
      /\ call_stack' \in Seq(Frames)
      /\ Depth' = Depth + 1
      /\ call_stack'[Depth + 1] = f
      /\ \A k \in 1 .. Depth : call_stack'[k] = call_stack[k] /\ k \in 1 .. Depth'
      /\ \A k \in 1 .. Depth' : k \in 1 .. Depth \/ k = Depth + 1
      /\ NativeCallsCode'
      /\ CompilesKnow'
  BY <1>2, <1>3, <1>4, PushIs DEF Reload
<1>6. UNCHANGED <<source, instances, reported, initialized>> /\ Listed = {}
  BY DEF Reload
<1>7. TypeOK'
  BY <1>1, <1>5, <1>6 DEF TypeOK
<1>8. BuildsOwn'
  BY <1>3, <1>5, <1>6 DEF BuildsOwn
<1>9. FramesOfLive'
  BY <1>3, <1>5, <1>6 DEF FramesOfLive
<1>10. OuterInstancesKeepTheirGeneration'
  BY <1>6 DEF OuterInstancesKeepTheirGeneration, Listed
<1>11. AttachedInstancesAreWhole'
  BY <1>6 DEF AttachedInstancesAreWhole
<1>12. UsableClassesAreInitialized'
  <2>1. Depth + 1 \in 1 .. Depth'
    BY <1>5
  <2>. QED
    BY <1>3, <1>5, <2>1 DEF UsableClassesAreInitialized
<1>. QED
  BY <1>5, <1>7, <1>8, <1>9, <1>10, <1>11, <1>12

(* Only the first of the list may find nothing to call, so what a          *)
(* compilation has called it does not forget.                              *)
LEMMA InitializeStaticsStep ==
    ASSUME IInv, InitializeStatics
    PROVE  IInv'
<1>. DEFINE f(called) == [TopFrame EXCEPT !.todo = Tail(@), !.called = called]
            more == Append(Popped, f(TRUE))
            none == Append(Popped, f(FALSE))
<1>1. /\ TopFrame \in Frames /\ TopFrame.op = "compile" /\ Depth \in Nat \ {0} /\ TopFrame = call_stack[Depth]
      /\ Compiling(TopFrame, reported)
  BY PoppedIs DEF InitializeStatics, IInv, TopFrame, CompilesKnow
<1>2. ~ TopFrame.faulted
  BY <1>1 DEF Compiling, InitializeStatics, StaticsFailed
<1>3. ASSUME NEW called \in BOOLEAN
      PROVE  /\ f(called) \in Frames /\ f(called).op = TopFrame.op /\ f(called).gen = TopFrame.gen
             /\ f(called).self = TopFrame.self /\ f(called).faulted = TopFrame.faulted
             /\ f(called).called = called
             /\ Compiling(f(called), reported)
  <2>1. Tail(TopFrame.todo) \in {<<>>, <<"inner">>}
    <3>1. TopFrame.todo = <<"inner">> \/ TopFrame.todo = <<"outer", "inner">>
      BY <1>1 DEF Compiling, InitializeStatics
    <3>2. Tail(<<"inner">>) = <<>> /\ Tail(<<"outer", "inner">>) = <<"inner">>
      OBVIOUS
    <3>. QED
      BY <3>1, <3>2
  <2>2. <<>> \in Seq({"outer", "inner"}) /\ <<"inner">> \in Seq({"outer", "inner"})
        /\ <<>> # <<"outer", "inner">> /\ <<"inner">> # <<"outer", "inner">>
    OBVIOUS
  <2>3. /\ f(called) \in Frames /\ f(called).op = TopFrame.op /\ f(called).gen = TopFrame.gen
        /\ f(called).self = TopFrame.self /\ f(called).faulted = TopFrame.faulted
        /\ f(called).called = called /\ f(called).todo = Tail(TopFrame.todo)
    BY <1>1, <2>1, <2>2 DEF Frames
  <2>. QED
    BY <1>2, <2>1, <2>2, <2>3 DEF Compiling
<1>4. \/ \E g \in StaticsOf(TopFrame) : EnterCode(more, Code(g.class, g.gen, NoInstance))
      \/ call_stack' = none /\ UNCHANGED <<reported, instances>>
  BY DEF InitializeStatics
<1>5. UNCHANGED <<source, compiled, functions, initialized>>
  BY DEF InitializeStatics
<1>5a. f(TRUE).called
  BY <1>1 DEF Frames
<1>. HIDE DEF f
<1>6. /\ Revises(more) /\ more[Depth] = f(TRUE)
      /\ Revises(none)
  BY <1>3, RevisedIs DEF InitializeStatics
<1>. HIDE DEF more, none
<1>7. ASSUME NEW g \in StaticsOf(TopFrame), EnterCode(more, Code(g.class, g.gen, NoInstance))
      PROVE  IInv'
  <2>1. g.class \in Classes /\ g.gen \in Nat
    BY <1>1 DEF StaticsOf, OuterFunctions, IInv, TypeOK, Classes, Frames
  <2>2. MayRun(Code(g.class, g.gen, NoInstance))
    BY <2>1, StaticMayRun
  <2>3. Calling(more)
    <3>1. \A k \in 1 .. Depth - 1 : more[k] = call_stack[k]
      BY <1>1, <1>6 DEF Revises
    <3>2. \A k \in 1 .. Depth - 1 : call_stack[k].op = "compile" => call_stack[k].called
      BY <1>1 DEF IInv, CompilesKnow
    <3>. QED
      <4>1. more[Depth].called /\ ~ more[Depth].faulted
        BY <1>2, <1>3, <1>5a, <1>6
      <4>2. \A k \in 1 .. Depth : k = Depth \/ k \in 1 .. Depth - 1
        BY <1>1
      <4>. QED
        BY <1>1, <1>6, <3>1, <3>2, <4>1, <4>2 DEF Calling
  <2>. QED
    BY <1>5, <1>7, <2>2, <2>3, CallStep
<1>8. CASE call_stack' = none /\ UNCHANGED <<reported, instances>>
  <2>1. \A k \in 1 .. Depth - 1 : call_stack[k].op = "compile" => none[k].called
    <3>1. \A k \in 1 .. Depth - 1 : none[k] = call_stack[k]
      BY <1>1, <1>6 DEF Revises
    <3>. QED
      BY <1>1, <3>1 DEF IInv, CompilesKnow
  <2>. QED
    BY <1>5, <1>6, <1>8, <2>1, ReviseStep
<1>. QED
  BY <1>4, <1>7, <1>8

(* A compilation whose initializers all ran did not fault: a fault under   *)
(* it is still reported when it looks.                                     *)
LEMMA CompileEndStep ==
    ASSUME IInv, CompileSucceeds \/ CompileFails
    PROVE  IInv'
<1>. USE DEF IInv
<1>1. /\ Depth \in Nat \ {0} /\ TopFrame = call_stack[Depth] /\ TopFrame \in Frames
      /\ call_stack' \in Seq(Frames)
      /\ Depth' = Depth - 1
      /\ \A k \in 1 .. Depth - 1 : call_stack'[k] = call_stack[k] /\ k \in 1 .. Depth
      /\ NativeCallsCode'
      /\ CompilesKnow'
  BY PopIs DEF CompileSucceeds, CompileFails
<1>2. UNCHANGED <<source, compiled, instances, reported>> /\ functions' \in {functions, 0}
  BY DEF CompileSucceeds, CompileFails
<1>3. TypeOK'
  BY <1>1, <1>2 DEF TypeOK
<1>4. BuildsOwn' /\ FramesOfLive'
  BY <1>1, <1>2 DEF BuildsOwn, FramesOfLive
<1>5. OuterInstancesKeepTheirGeneration'
  BY <1>1, <1>2 DEF OuterInstancesKeepTheirGeneration, Listed
<1>6. AttachedInstancesAreWhole'
  BY <1>2 DEF AttachedInstancesAreWhole
<1>7. UsableClassesAreInitialized'
  <2>1. CASE CompileFails
    BY <2>1 DEF CompileFails, UsableClassesAreInitialized
  <2>2. CASE CompileSucceeds
    <3>1. ~ TopFrame.faulted
      BY <1>1, <2>2 DEF CompileSucceeds, StaticsFailed, CompilesKnow, Compiling
    <3>2. initialized' = initialized \cup {TopFrame.gen} /\ functions' = functions
      BY <2>2, <3>1 DEF CompileSucceeds
    <3>3. \A k \in 1 .. Depth : k \in 1 .. Depth - 1 \/ k = Depth
      BY <1>1
    <3>. QED
      BY <1>1, <3>2, <3>3 DEF UsableClassesAreInitialized
  <2>. QED
    BY <2>1, <2>2
<1>. QED
  BY <1>1, <1>3, <1>4, <1>5, <1>6, <1>7

-----------------------------------------------------------------------------
(* Theorems *)

LEMMA InitHolds == ScriptInit => IInv
<1>. SUFFICES ASSUME ScriptInit PROVE IInv
  OBVIOUS
<1>1. Depth = 0 /\ call_stack \in Seq(Frames) /\ compiled \in Seq(ScriptTexts)
  BY EmptySeq DEF ScriptInit, Depth
<1>2. TypeOK
  BY <1>1 DEF ScriptInit, TypeOK, Objects, Freed
<1>3. NativeCallsCode /\ CompilesKnow /\ BuildsOwn /\ FramesOfLive
  BY <1>1 DEF NativeCallsCode, CompilesKnow, BuildsOwn, FramesOfLive
<1>4. /\ OuterInstancesKeepTheirGeneration
      /\ AttachedInstancesAreWhole
      /\ UsableClassesAreInitialized
  BY DEF ScriptInit, OuterInstancesKeepTheirGeneration, AttachedInstancesAreWhole,
         UsableClassesAreInitialized, Listed, Freed
<1>. QED
  BY <1>2, <1>3, <1>4 DEF IInv

LEMMA NextHolds == IInv /\ [ScriptNext]_scriptVars => IInv'
<1>. SUFFICES ASSUME IInv, [ScriptNext]_scriptVars PROVE IInv'
  OBVIOUS
<1>1. CASE ScriptNext
  BY <1>1, MethodsStep, ReturnStep, CreateStep, InitializeStep, RefuseStep, AttachStep,
     DiscardStep, FreeStep, SourceStep, ReloadStep, InitializeStaticsStep, CompileEndStep DEF ScriptNext
<1>2. CASE UNCHANGED scriptVars
  BY <1>2 DEF scriptVars, IInv, TypeOK, NativeCallsCode, CompilesKnow, Compiling, BuildsOwn,
              FramesOfLive, Depth, OuterInstancesKeepTheirGeneration, Listed,
              AttachedInstancesAreWhole, UsableClassesAreInitialized
<1>. QED
  BY <1>1, <1>2

LEMMA Invariant == ScriptSpec => []IInv
BY InitHolds, NextHolds, PTL DEF ScriptSpec

(* No reload, however deep in the calls it is asked for, changes the       *)
(* functions under an instance of the outer class or under its frames.     *)
THEOREM GenerationsAreKept == ScriptSpec => []OuterInstancesKeepTheirGeneration
<1>1. IInv => OuterInstancesKeepTheirGeneration
  BY DEF IInv
<1>. QED
  BY <1>1, Invariant, PTL

(* The engine is never given an object one of whose initializers faulted,  *)
(* whoever handled the fault.                                              *)
THEOREM WholeInstances == ScriptSpec => []AttachedInstancesAreWhole
<1>1. IInv => AttachedInstancesAreWhole
  BY DEF IInv
<1>. QED
  BY <1>1, Invariant, PTL

(* Functions that outlive their compilation have initialized statics.      *)
THEOREM InitializedClasses == ScriptSpec => []UsableClassesAreInitialized
<1>1. IInv => UsableClassesAreInitialized
  BY DEF IInv
<1>. QED
  BY <1>1, Invariant, PTL

(* An object under construction that was not refused its _init or a handle *)
(* is given up for a fault under its own initializers and for no other.    *)
THEOREM OwnFaults == ScriptSpec => InstancesFailForTheirOwnFault
<1>. DEFINE Own == \A i \in Instances :
         instances[i].state = "building" /\ instances'[i].state = "free" =>
             instances[i].spoiled \/ TopFrame.refused
<1>1. ASSUME IInv, ScriptNext PROVE Own
  <2>1. CASE DiscardInstance
    <3>1. /\ TopFrame = call_stack[Depth] /\ Depth \in 1 .. Depth
          /\ TopFrame.faulted \/ TopFrame.refused
      BY <1>1, <2>1, PoppedIs DEF DiscardInstance, InitializerFailed, IInv, TopFrame
    <3>2. /\ TopFrame.self \in Instances
          /\ instances[TopFrame.self].spoiled \/ TopFrame.refused
      BY <1>1, <2>1, <3>1 DEF IInv, BuildsOwn, DiscardInstance
    <3>. QED
      BY <1>1, <2>1, <3>2 DEF DiscardInstance, IInv, TypeOK
  <2>2. ASSUME NEW frames, Raise(frames) PROVE Own
    BY <1>1, <2>2 DEF Raise, IInv, TypeOK, Objects
  <2>3. ASSUME NEW below, NEW f, EnterCode(below, f) PROVE Own
    BY <2>2, <2>3 DEF EnterCode
  <2>4. ASSUME NEW i \in Instances, NEW class, Create(i, class) PROVE Own
    BY <1>1, <2>4 DEF Create, IInv, TypeOK
  <2>5. ASSUME NEW i \in Instances, Free(i) PROVE Own
    BY <1>1, <2>5 DEF Free, IInv, TypeOK
  <2>6. CASE Attach
    BY <1>1, <2>6 DEF Attach, IInv, TypeOK, Objects
  <2>7. CASE \/ ReturnFrom \/ Refuse \/ ReloadFails \/ Reload \/ CompileSucceeds \/ CompileFails
             \/ \E text \in ScriptTexts : SetSource(text)
    BY <2>7 DEF ReturnFrom, Refuse, ReloadFails, Reload, CompileSucceeds, CompileFails, SetSource
  <2>8. CASE Fault \/ CallStatic \/ CallOther \/ \E i \in Instances : CallMethod(i)
    BY <2>2, <2>3, <2>8 DEF Fault, CallStatic, CallOther, CallMethod
  <2>9. CASE Initialize \/ InitializeStatics
    BY <2>3, <2>9 DEF Initialize, InitializeStatics
  <2>. QED
    BY <1>1, <2>1, <2>4, <2>5, <2>6, <2>7, <2>8, <2>9 DEF ScriptNext
<1>2. ASSUME UNCHANGED scriptVars PROVE Own
  BY <1>2 DEF scriptVars
<1>3. IInv /\ [ScriptNext]_scriptVars => [Own]_scriptVars
  BY <1>1, <1>2
<1>. QED
  BY <1>3, Invariant, PTL DEF ScriptSpec, InstancesFailForTheirOwnFault

=============================================================================
