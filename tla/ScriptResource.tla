--------------------------- MODULE ScriptResource ---------------------------
(***************************************************************************)
(* A compiled script resource, its instances and the calls that run it:    *)
(* barista_script.cpp, the static initialization of bs_compiler.cpp, and   *)
(* the error channel of bs_vm.cpp.                                         *)
(*                                                                         *)
(* One file declares an outer class, which is the script resource itself,  *)
(* and one inner class.  Each compilation replaces the outer class's       *)
(* functions in place and makes a new resource for the inner class; an     *)
(* inner instance keeps the inner class it was made from, and finds        *)
(* inherited functions in whatever the outer class holds at the time.      *)
(*                                                                         *)
(* Everything happens on one thread: what interleaves is the native code   *)
(* and the script code it calls, which may come back into every entry      *)
(* point.  The stack below is that of the thread.  "code" is a frame of    *)
(* BSFunction::call, "build" one of create_instance_handle, "compile" one  *)
(* of compile_class_tree while it runs the static initializers.            *)
(*                                                                         *)
(* A frame whose function is deleted under it goes on, returns or raises,  *)
(* as any frame may: what it then does to other memory is not modelled.    *)
(* The declaration index that SetSource and Reload also publish to is      *)
(* SemanticRefresh.                                                        *)
(***************************************************************************)
EXTENDS Naturals, Sequences, FiniteSets

CONSTANTS
    ScriptTexts,        \* source texts the resource may hold
    Compilable,         \* those that parse, analyze and compile
    Inherits,           \* those whose inner class extends the outer one
    StaticInit,         \* those whose classes have static initializers
    Instances,          \* identities of instances
    NoInstance,         \* the receiver of a static call
    MaxGenerations,     \* bound: compilations that reach their functions
    MaxCallDepth        \* MAX_CALL_DEPTH, small: frames of script code on the stack

ASSUME ScriptAssumption ==
    /\ Compilable \subseteq ScriptTexts
    /\ Inherits \subseteq ScriptTexts
    /\ StaticInit \subseteq ScriptTexts
    /\ NoInstance \notin Instances
    /\ MaxGenerations \in Nat
    /\ MaxCallDepth \in Nat \ {0}

VARIABLES
    source,      \* source_code
    compiled,    \* the text of every generation of functions, oldest first
    functions,   \* the generation the outer class holds, 0 for none
    instances,   \* the BSInstance objects
    call_stack,  \* the frames of the thread, outermost first
    reported,    \* runtime_error_reported
    initialized  \* ghost: generations whose statics all ran without a fault

scriptVars == <<source, compiled, functions, instances, call_stack, reported, initialized>>

Classes == {"outer", "inner", "other"}

\* A frame: code of a function of the class, on the instance or static; or
\* the initializers of an instance ("build") or a file ("compile") with those
\* still to do.
Code(class, gen, self) ==
    [op |-> "code", class |-> class, gen |-> gen, self |-> self,
     todo |-> <<>>, called |-> FALSE, faulted |-> FALSE, refused |-> FALSE]

\* An instance is "free", "building" or "attached".
Freed == [state |-> "free", class |-> "outer", gen |-> 0, spoiled |-> FALSE]

Depth == Len(call_stack)
TopFrame == call_stack[Depth]
Popped == SubSeq(call_stack, 1, Depth - 1)

\* The thread runs script code, or engine code that may call anything.
Ready == call_stack # <<>> => TopFrame.op = "code"

Extends(class, gen) == class = "inner" /\ compiled[gen] \in Inherits

----------------------------------------------------------------------------
(* What the resource answers.                                              *)

\* The functions of the outer class, none once they are released.
OuterFunctions ==
    IF functions = 0 THEN {} ELSE {[class |-> "outer", gen |-> functions]}

\* find_function: those of the instance's class, then those the base holds.
FunctionsOf(i) ==
    LET x == instances[i] IN
    IF x.class = "outer" THEN OuterFunctions
    ELSE {[class |-> "inner", gen |-> x.gen]}
           \cup (IF Extends("inner", x.gen) THEN OuterFunctions ELSE {})

\* Inner classes something still refers to: the outer class, an instance, or
\* the compiler that made them.
InnerClasses ==
    ({functions}
       \cup {instances[i].gen : i \in {j \in Instances : instances[j].class = "inner"}}
       \cup {call_stack[k].gen : k \in {n \in 1 .. Depth : call_stack[n].op = "compile"}}) \ {0}

\* Mutant: an instance is listed when the engine is given it.
ListedWhenAttached ==
    {i \in Instances : instances[i].class = "outer" /\ instances[i].state = "attached"}

\* The `instances` set of the resource that _reload looks at.
Listed == {i \in Instances : instances[i].class = "outer" /\ instances[i].state # "free"}

\* run_initializers and then _init: the base's first.
Initializers(class, gen) ==
    (IF Extends(class, gen) THEN <<"outer">> ELSE <<>>) \o <<class, class>>

\* The initializer an instance is built with: that of its own class, or
\* whatever the outer class holds now.
InitializerOf(f) ==
    IF Head(f.todo) = "outer" THEN OuterFunctions
    ELSE {[class |-> "inner", gen |-> instances[f.self].gen]}

\* The static initializers of a class: the outer class's current ones.
StaticsOf(f) ==
    IF Head(f.todo) = "inner" THEN {[class |-> "inner", gen |-> f.gen]}
    ELSE {g \in OuterFunctions : compiled[g.gen] \in StaticInit}

\* Mutants: only the call error, which a fault leaves at OK; the flag of the
\* outermost call instead of the serial.
CallErrorOnly(f) == f.refused
StickyReport(f) == reported \/ f.refused

\* What the caller of an initializer takes for its failure.
InitializerFailed(f) == f.faulted \/ f.refused

\* Mutant: only the call error.
StaticCallErrorOnly(f) == FALSE

\* What the compiler takes for the failure of the one it has just called.
StaticsFailed(f) == f.called /\ reported

----------------------------------------------------------------------------
(* Calls and faults.                                                       *)

CallsIn(frames) == Cardinality({k \in 1 .. Len(frames) : frames[k].op = "code"})

\* A fault, with these frames left: the flag is set, and the error serial
\* tells every construction and compilation under way.
Raise(frames) ==
    /\ reported' = TRUE
    /\ call_stack' = [k \in 1 .. Len(frames) |->
         [frames[k] EXCEPT !.faulted = frames[k].op # "code"]]
    /\ instances' = [i \in Instances |->
         [instances[i] EXCEPT !.spoiled = @ \/ instances[i].state = "building"]]

\* BSFunction::call: an outermost call forgets what was reported before it,
\* and one too deep raises and returns.
EnterCode(below, frame) ==
    \/ /\ CallsIn(below) < MaxCallDepth
       /\ call_stack' = Append(below, frame)
       /\ reported' = (reported /\ CallsIn(below) > 0)
       /\ UNCHANGED instances
    \/ CallsIn(below) = MaxCallDepth /\ Raise(below)

\* A call of a method of an instance.  One under construction has not been
\* given to the engine yet, but its own initializers may call it.
CallMethod(i) ==
    /\ Ready
    /\ \/ instances[i].state = "attached"
       \/ instances[i].state = "building" /\ call_stack # <<>>
    /\ \E f \in FunctionsOf(i) : EnterCode(call_stack, Code(f.class, f.gen, i))
    /\ UNCHANGED <<source, compiled, functions, initialized>>

\* A call of a static function of either class.
CallStatic ==
    /\ Ready
    /\ \E f \in OuterFunctions \cup {[class |-> "inner", gen |-> g] : g \in InnerClasses} :
         EnterCode(call_stack, Code(f.class, f.gen, NoInstance))
    /\ UNCHANGED <<source, compiled, functions, initialized>>

\* A call of a function of some other script, which may do all the rest.
CallOther ==
    /\ Ready
    /\ EnterCode(call_stack, Code("other", 0, NoInstance))
    /\ UNCHANGED <<source, compiled, functions, initialized>>

ReturnFrom ==
    /\ call_stack # <<>> /\ TopFrame.op = "code"
    /\ call_stack' = Popped
    /\ UNCHANGED <<source, compiled, functions, instances, reported, initialized>>

\* A frame raises: it is abandoned and its caller goes on.
Fault ==
    /\ call_stack # <<>> /\ TopFrame.op = "code"
    /\ Raise(Popped)
    /\ UNCHANGED <<source, compiled, functions, initialized>>

----------------------------------------------------------------------------
(* Instances.                                                              *)

\* create_instance_handle, up to its first initializer.  The instance is
\* listed before anything runs.
Create(i, class) ==
    /\ Ready
    /\ instances[i].state = "free"
    /\ \E gen \in (IF class = "outer" THEN {functions} \ {0} ELSE InnerClasses) :
         /\ instances' = [instances EXCEPT ![i] =
              [state |-> "building", class |-> class, gen |-> gen, spoiled |-> FALSE]]
         /\ call_stack' = Append(call_stack,
              [op |-> "build", class |-> class, gen |-> gen, self |-> i,
               todo |-> Initializers(class, gen),
               called |-> FALSE, faulted |-> FALSE, refused |-> FALSE])
    /\ UNCHANGED <<source, compiled, functions, reported, initialized>>

\* The next initializer; a class that holds none has none to run.
Initialize ==
    /\ call_stack # <<>> /\ TopFrame.op = "build" /\ TopFrame.todo # <<>>
    /\ ~InitializerFailed(TopFrame)
    /\ LET below == Append(Popped, [TopFrame EXCEPT !.todo = Tail(@)]) IN
         \/ \E f \in InitializerOf(TopFrame) : EnterCode(below, Code(f.class, f.gen, TopFrame.self))
         \/ InitializerOf(TopFrame) = {} /\ call_stack' = below /\ UNCHANGED <<reported, instances>>
    /\ UNCHANGED <<source, compiled, functions, initialized>>

\* What no code raises: _init, the last initializer, is called with arguments
\* it does not take, or the engine has no handle for the instance.
Refuse ==
    /\ call_stack # <<>> /\ TopFrame.op = "build"
    /\ ~InitializerFailed(TopFrame)
    /\ \/ /\ Len(TopFrame.todo) = 1 /\ InitializerOf(TopFrame) # {}
          /\ CallsIn(Popped) < MaxCallDepth
          /\ reported' = (reported /\ CallsIn(Popped) > 0)
       \/ TopFrame.todo = <<>> /\ UNCHANGED reported
    /\ call_stack' = Append(Popped, [TopFrame EXCEPT !.refused = TRUE])
    /\ UNCHANGED <<source, compiled, functions, instances, initialized>>

\* Every initializer ran: the engine is given the instance.
Attach ==
    /\ call_stack # <<>> /\ TopFrame.op = "build" /\ TopFrame.todo = <<>>
    /\ ~InitializerFailed(TopFrame)
    /\ instances' = [instances EXCEPT ![TopFrame.self].state = "attached"]
    /\ call_stack' = Popped
    /\ UNCHANGED <<source, compiled, functions, reported, initialized>>

\* An initializer raised, or was not let run: the instance is deleted.
DiscardInstance ==
    /\ call_stack # <<>> /\ TopFrame.op = "build"
    /\ InitializerFailed(TopFrame)
    /\ instances' = [instances EXCEPT ![TopFrame.self] = Freed]
    /\ call_stack' = Popped
    /\ UNCHANGED <<source, compiled, functions, reported, initialized>>

\* The owner of an instance goes away, and the instance with it.
Free(i) ==
    /\ Ready
    /\ instances[i].state = "attached"
    /\ \A k \in 1 .. Depth : call_stack[k].self # i
    /\ instances' = [instances EXCEPT ![i] = Freed]
    /\ UNCHANGED <<source, compiled, functions, call_stack, reported, initialized>>

----------------------------------------------------------------------------
(* Compilation.                                                            *)

SetSource(text) ==
    /\ Ready
    /\ text # source
    /\ source' = text
    /\ UNCHANGED <<compiled, functions, instances, call_stack, reported, initialized>>

\* _reload with nothing listed, of a source that does not compile.
ReloadFails ==
    /\ Ready
    /\ Listed = {}
    /\ source \notin Compilable
    /\ functions' = 0
    /\ UNCHANGED <<source, compiled, instances, call_stack, reported, initialized>>

\* _reload with nothing listed: the old functions are deleted, the new ones
\* and the inner class published, and the static initializers are to run.
Reload ==
    /\ Ready
    /\ Listed = {}
    /\ source \in Compilable
    /\ Len(compiled) < MaxGenerations
    /\ compiled' = Append(compiled, source)
    /\ functions' = Len(compiled')
    /\ call_stack' = Append(call_stack,
         [op |-> "compile", class |-> "outer", gen |-> functions', self |-> NoInstance,
          todo |-> IF source \in StaticInit THEN <<"outer", "inner">> ELSE <<>>,
          called |-> FALSE, faulted |-> FALSE, refused |-> FALSE])
    /\ UNCHANGED <<source, instances, reported, initialized>>

\* The static initializers of the next class, the base's first.
InitializeStatics ==
    /\ call_stack # <<>> /\ TopFrame.op = "compile" /\ TopFrame.todo # <<>>
    /\ ~StaticsFailed(TopFrame)
    /\ LET below(called) == Append(Popped, [TopFrame EXCEPT !.todo = Tail(@), !.called = called]) IN
         \/ \E f \in StaticsOf(TopFrame) : EnterCode(below(TRUE), Code(f.class, f.gen, NoInstance))
         \/ StaticsOf(TopFrame) = {} /\ call_stack' = below(FALSE) /\ UNCHANGED <<reported, instances>>
    /\ UNCHANGED <<source, compiled, functions, initialized>>

CompileSucceeds ==
    /\ call_stack # <<>> /\ TopFrame.op = "compile" /\ TopFrame.todo = <<>>
    /\ ~StaticsFailed(TopFrame)
    /\ initialized' = IF TopFrame.faulted THEN initialized ELSE initialized \cup {TopFrame.gen}
    /\ call_stack' = Popped
    /\ UNCHANGED <<source, compiled, functions, instances, reported>>

\* A static initializer did not run to completion: nothing half-built stays.
CompileFails ==
    /\ call_stack # <<>> /\ TopFrame.op = "compile"
    /\ StaticsFailed(TopFrame)
    /\ functions' = 0
    /\ call_stack' = Popped
    /\ UNCHANGED <<source, compiled, instances, reported, initialized>>

----------------------------------------------------------------------------

ScriptInit ==
    /\ source \in ScriptTexts
    /\ compiled = <<>>
    /\ functions = 0
    /\ instances = [i \in Instances |-> Freed]
    /\ call_stack = <<>>
    /\ reported = FALSE
    /\ initialized = {}

ScriptNext ==
    \/ \E i \in Instances : CallMethod(i)
    \/ CallStatic
    \/ CallOther
    \/ ReturnFrom
    \/ Fault
    \/ \E i \in Instances, class \in {"outer", "inner"} : Create(i, class)
    \/ Initialize
    \/ Refuse
    \/ Attach
    \/ DiscardInstance
    \/ \E i \in Instances : Free(i)
    \/ \E text \in ScriptTexts : SetSource(text)
    \/ ReloadFails
    \/ Reload
    \/ InitializeStatics
    \/ CompileSucceeds
    \/ CompileFails

ScriptSpec == ScriptInit /\ [][ScriptNext]_scriptVars

----------------------------------------------------------------------------
(* Properties.                                                             *)

\* What the refusal of a reload is for (barista_script.cpp:458-465): the
\* functions and the member layout of a class never change under one of its
\* own instances, not even one whose initializers are still running and ask
\* for a reload, nor under one of its frames.  A static initializer that
\* makes an instance and then raises leaves it without functions, not with
\* others.
OuterInstancesKeepTheirGeneration ==
    \A i \in Listed :
      /\ functions \in {0, instances[i].gen}
      /\ \A k \in 1 .. Depth :
           call_stack[k].op = "code" /\ call_stack[k].self = i => call_stack[k].gen = instances[i].gen

\* create_instance_handle hands over no half-built object: an instance the
\* engine holds was built without a fault in anything its initializers
\* called, however deep and whoever handled it there.
AttachedInstancesAreWhole ==
    \A i \in Instances : instances[i].state = "attached" => ~instances[i].spoiled

\* ... and it gives up an instance that was refused neither its _init nor a
\* handle for nothing but a fault under its own initializers: not for one its
\* caller met before (bs_runtime_error_serial).
InstancesFailForTheirOwnFault ==
    [][\A i \in Instances :
         instances[i].state = "building" /\ instances'[i].state = "free" =>
             instances[i].spoiled \/ TopFrame.refused]_scriptVars

\* Functions that stay after the compilation that made them are those of a
\* class whose static initializers ran to completion.
UsableClassesAreInitialized ==
    functions = 0 \/ functions \in initialized
      \/ \E k \in 1 .. Depth : call_stack[k].op = "compile" /\ call_stack[k].gen = functions

\* barista_script.cpp:459-462 of every instance that runs the functions the
\* reload replaces: no instance, of the class or of an inner class that
\* inherits from it, has them replaced by those of another compilation.
LiveInstancesKeepTheirFunctions ==
    \A i \in Instances :
      /\ instances[i].state = "attached"
      /\ instances[i].class = "outer" \/ Extends("inner", instances[i].gen)
      => functions \in {0, instances[i].gen}

=============================================================================
