---------------------------- MODULE ParserCache ----------------------------
(***************************************************************************)
(* BSCache and BSParserRef: the parsers that threads share, raised phase   *)
(* by phase, and the dependency edges that decide which of them a change   *)
(* discards.  A thread is a stack of calls: a request for a parser, the    *)
(* raise it leads to, the analysis phase that raise runs, the requests of  *)
(* that phase, and so on.  The cache mutex is held for one action; the     *)
(* recursive raise_mutex of a parser is held as long as a frame above its  *)
(* "lock" step is on the stack of a thread.                                *)
(*                                                                         *)
(* What analysis computes is left out.  What it asks of other files, and   *)
(* where it fails, is a function of the text analysed.                     *)
(***************************************************************************)
EXTENDS Integers, Sequences, FiniteSets

CONSTANTS
    Threads,
    Paths,
    Texts,          \* contents a file can have
    Missing,        \* there is no file, override or builtin source
    Imports,        \* <<path, text>> -> paths that get_dependencies lists
    Requests,       \* <<path, text, phase>> -> what that phase asks of files
    Fails,          \* <<path, text, phase>> whose own work reports an error
    Wanted,         \* levels asked from outside
    MaxCalls,       \* bound of the model: calls and edits from outside
    MaxRefs         \* bound of the model: parsers ever created

(* BSParserRef::Status *)
EMPTY              == 0
PARSED             == 1
INHERITANCE_SOLVED == 2
INTERFACE_SOLVED   == 3
FULLY_SOLVED       == 4
Status == EMPTY .. FULLY_SOLVED
Phases == INHERITANCE_SOLVED .. FULLY_SOLVED

NoRef == 0
Asks  == [path : Paths, level : Status]

ASSUME MissingAssumption == Missing \notin Texts
ASSUME BoundAssumption == MaxCalls \in Nat /\ MaxRefs \in Nat
ASSUME WantedAssumption == Wanted \subseteq Status
ASSUME ImportsAssumption == Imports \in [Paths \X Texts -> SUBSET Paths]
ASSUME RequestsAssumption == Requests \in [Paths \X Texts \X Phases -> SUBSET Asks]
ASSUME FailsAssumption == Fails \subseteq Paths \X Texts \X (PARSED .. FULLY_SOLVED)
(* No phase asks another file for more than it is itself establishing.     *)
ASSUME LevelsAssumption ==
    \A p \in Paths, x \in Texts, l \in Phases :
        \A ask \in Requests[<<p, x, l>>] : ask.level <= l

VARIABLES
    source,         \* path -> text a read returns now
    calls,          \* number of calls and edits so far
    parser_map,     \* path -> live parser or NoRef
    refs,           \* parsers, in the order of their creation
    forward,        \* parser_dependencies: pairs <<owner, dependency>>
    inverse,        \* parser_inverse_dependencies: <<dependency, owner>>
    stack,          \* thread -> calls in progress, outermost first
    seen            \* history: thread -> texts of the file it asked for

vars == <<source, calls, parser_map, refs, forward, inverse, stack, seen>>

edgeVars == <<forward, inverse>>

-----------------------------------------------------------------------------
(* Parsers, frames and stacks *)

NewRef(p) ==
    [path |-> p, status |-> EMPTY, ok |-> TRUE, text |-> Missing,
     abandoned |-> FALSE, depended |-> [q \in Paths |-> NoRef]]

Frame(op, p, r, level, todo) ==
    [op |-> op, path |-> p, ref |-> r, level |-> level, todo |-> todo, ok |-> TRUE]

Depth(t)  == Len(stack[t])
Top(t)    == stack[t][Depth(t)]
Caller(t) == stack[t][Depth(t) - 1]
At(t, ops) == stack[t] # <<>> /\ Top(t).op \in ops

Become(t, frame) == stack' = [stack EXCEPT ![t][Depth(t)] = frame]
Call(t, frame)   == stack' = [stack EXCEPT ![t] = Append(@, frame)]

(* The call for one of the things the frame on top has to do.              *)
CallFor(t, item, frame) ==
    LET below == [stack[t] EXCEPT ![Depth(t)].todo = @ \ {item}]
    IN  stack' = [stack EXCEPT ![t] = Append(below, frame)]

(* Back to the caller.  An analysis phase to which a call failed notes it, *)
(* and asks nothing more of that file.                                     *)
Return(t, success) ==
    LET rest == SubSeq(stack[t], 1, Depth(t) - 1)
        told == [rest EXCEPT ![Len(rest)].ok = FALSE,
                             ![Len(rest)].todo = {ask \in @ : ask.path # Top(t).path}]
    IN  stack' = [stack EXCEPT ![t] = IF rest = <<>> \/ success THEN rest ELSE told]

(* The recursive raise_mutex of a parser is held from the lock to the end  *)
(* of the call that took it, so by every thread with such a frame.         *)
Holds(t, r) ==
    \E i \in 1 .. Depth(t) :
        /\ stack[t][i].ref = r
        /\ stack[t][i].op \in {"getraise", "raise", "edges", "run"}

(* Mutant: whoever waits lets the others that wait for it go first.        *)
LockAfterOthers(t, r) ==
    \A u \in Threads \ {t} :
        /\ ~Holds(u, r)
        /\ ~(At(u, {"getlock", "lock"}) /\ Top(u).ref = r)

CanLock(t, r) == \A u \in Threads \ {t} : ~Holds(u, r)

(* get_result_for_status *)
ResultFor(ref, level) ==
    \/ ref.status > level
    \/ ref.status = level /\ ref.ok

-----------------------------------------------------------------------------
(* Dependency edges *)

(* clear_parser_dependency_edges, for the owners S. *)
ForwardWithout(S) == {e \in forward : e[1] \notin S}
(* Mutant: only the forward edges go. *)
InverseKept(S) == inverse

InverseWithout(S) ==
    {e \in inverse : e[2] \in S => <<e[2], e[1]>> \notin forward}


(* What a change of S reaches over the inverse edges: what is in every set *)
(* that holds S and the owners of whatever it holds.                       *)
Closure(S) ==
    LET closed == {T \in SUBSET Paths :
                      S \subseteq T /\ \A e \in inverse : e[1] \in T => e[2] \in T}
    IN  {q \in Paths : \A T \in closed : q \in T}

(* Mutant: a parser that another thread is raising is not marked.          *)
DetachIdle(S) ==
    /\ parser_map' = [p \in Paths |-> IF p \in S THEN NoRef ELSE parser_map[p]]
    /\ refs' = [r \in DOMAIN refs |->
                   IF \E p \in S : parser_map[p] = r /\ \A t \in Threads : ~Holds(t, r)
                   THEN [refs[r] EXCEPT !.abandoned = TRUE] ELSE refs[r]]

(* The parsers of S leave the map; whoever holds one may go on with it.    *)
Detach(S) ==
    /\ parser_map' = [p \in Paths |-> IF p \in S THEN NoRef ELSE parser_map[p]]
    /\ refs' = [r \in DOMAIN refs |->
                   IF \E p \in S : parser_map[p] = r
                   THEN [refs[r] EXCEPT !.abandoned = TRUE] ELSE refs[r]]

-----------------------------------------------------------------------------
Init ==
    /\ source \in [Paths -> Texts]
    /\ calls = 0
    /\ parser_map = [p \in Paths |-> NoRef]
    /\ refs = <<>>
    /\ forward = {}
    /\ inverse = {}
    /\ stack = [t \in Threads |-> <<>>]
    /\ seen = [t \in Threads |-> {}]

(* What comes from outside: a file or its override changes, a thread asks  *)
(* for a parser, or discards what was derived from a path.                 *)
Outside == calls < MaxCalls /\ calls' = calls + 1

Edit(p, x) ==
    /\ Outside
    /\ source[p] # x
    /\ source' = [source EXCEPT ![p] = x]
    /\ seen' = [t \in Threads |->
                   IF stack[t] # <<>> /\ stack[t][1].path = p
                   THEN seen[t] \cup {x} ELSE seen[t]]
    /\ UNCHANGED <<parser_map, refs, edgeVars, stack>>

Begin(t, op, p, level) ==
    /\ Outside
    /\ stack[t] = <<>>
    /\ Call(t, Frame(op, p, NoRef, level, {}))
    /\ seen' = [seen EXCEPT ![t] = {source[p]}]
    /\ UNCHANGED <<source, parser_map, refs, edgeVars>>

-----------------------------------------------------------------------------
(* get_parser *)

(* A new parser enters the map. *)
Admit(p) ==
    /\ Len(refs) < MaxRefs
    /\ parser_map' = [parser_map EXCEPT ![p] = Len(refs) + 1]
    /\ refs' = Append(refs, NewRef(p))

(* Mutant: a missing file is looked for again and again. *)
GetParserRetrying(t) ==
    /\ At(t, {"get"})
    /\ LET f == Top(t) IN
       \/ /\ parser_map[f.path] # NoRef
          /\ Become(t, [f EXCEPT !.op = "getlock", !.ref = parser_map[f.path]])
          /\ UNCHANGED <<parser_map, refs>>
       \/ /\ parser_map[f.path] = NoRef
          /\ source[f.path] # Missing
          /\ Admit(f.path)
          /\ Become(t, [f EXCEPT !.op = "getlock", !.ref = Len(refs) + 1])
    /\ UNCHANGED <<source, calls, edgeVars, seen>>

(* Under the cache mutex: the live parser, or a new one if there is source. *)
GetParser(t) ==
    /\ At(t, {"get"})
    /\ LET f == Top(t) IN
       \/ /\ parser_map[f.path] # NoRef
          /\ Become(t, [f EXCEPT !.op = "getlock", !.ref = parser_map[f.path]])
          /\ UNCHANGED <<parser_map, refs>>
       \/ /\ parser_map[f.path] = NoRef
          /\ source[f.path] # Missing
          /\ Admit(f.path)
          /\ Become(t, [f EXCEPT !.op = "getlock", !.ref = Len(refs) + 1])
       \/ /\ parser_map[f.path] = NoRef
          /\ source[f.path] = Missing
          /\ Return(t, FALSE)
          /\ UNCHANGED <<parser_map, refs>>
    /\ UNCHANGED <<source, calls, edgeVars, seen>>

(* Mutant: any parser the map held is returned. *)
CheckNothing(t) ==
    /\ At(t, {"getlock"})
    /\ CanLock(t, Top(t).ref)
    /\ Become(t, [Top(t) EXCEPT !.op = "getraise"])
    /\ UNCHANGED <<source, calls, parser_map, refs, edgeVars, seen>>

(* Under raise_mutex: a parser of another text than the source is refused. *)
CheckFresh(t) ==
    /\ At(t, {"getlock"})
    /\ LET f == Top(t) IN
       /\ CanLock(t, f.ref)
       /\ IF \/ refs[f.ref].status = EMPTY
             \/ source[f.path] # Missing /\ refs[f.ref].text = source[f.path]
          THEN Become(t, [f EXCEPT !.op = "getraise"])
          ELSE Return(t, FALSE)
    /\ UNCHANGED <<source, calls, parser_map, refs, edgeVars, seen>>

(* The raise_mutex was released; the caller is recorded as an owner.  The  *)
(* parser of the caller keeps the new one in depended_parsers.             *)
RecordOwner(t) ==
    /\ At(t, {"owner"})
    /\ LET f == Top(t) IN
       IF Depth(t) = 1
       THEN UNCHANGED <<refs, edgeVars>>
       ELSE LET owner == Caller(t).path IN
            /\ refs' = [refs EXCEPT ![Caller(t).ref].depended[f.path] = f.ref]
            /\ IF owner = f.path
               THEN UNCHANGED edgeVars
               ELSE /\ forward' = forward \cup {<<owner, f.path>>}
                    /\ inverse' = inverse \cup {<<f.path, owner>>}
    /\ Return(t, TRUE)
    /\ UNCHANGED <<source, calls, parser_map, seen>>

-----------------------------------------------------------------------------
(* raise_status *)

Lock(t) ==
    /\ At(t, {"lock"})
    /\ CanLock(t, Top(t).ref)
    /\ Become(t, [Top(t) EXCEPT !.op = "raise"])
    /\ UNCHANGED <<source, calls, parser_map, refs, edgeVars, seen>>

(* Mutant: a failed analysis phase does not stop the raise. *)
UnfinishedAnyway(f) ==
    /\ refs[f.ref].ok \/ refs[f.ref].status > PARSED
    /\ refs[f.ref].status < f.level

Unfinished(f) == refs[f.ref].ok /\ refs[f.ref].status < f.level

(* The loop runs one phase: the status advances before the work starts.    *)
Parse(t) ==
    /\ At(t, {"getraise", "raise"})
    /\ LET f == Top(t)
           x == source[f.path]
           parsed == x # Missing /\ <<f.path, x, PARSED>> \notin Fails
       IN  /\ Unfinished(f)
           /\ refs[f.ref].status = EMPTY
           /\ refs' = [refs EXCEPT ![f.ref].status = PARSED,
                                   ![f.ref].text = x,
                                   ![f.ref].ok = parsed]
           /\ IF parsed
              THEN Call(t, Frame("edges", f.path, f.ref, PARSED, {}))
              ELSE UNCHANGED stack
    /\ UNCHANGED <<source, calls, parser_map, edgeVars, seen>>

(* update_parser_dependencies replaces the edges of the path. *)
RecordEdges(t) ==
    /\ At(t, {"edges"})
    /\ LET f == Top(t)
           imports == Imports[<<f.path, refs[f.ref].text>>]
       IN  /\ forward' = ForwardWithout({f.path}) \cup {<<f.path, q>> : q \in imports}
           /\ inverse' = InverseWithout({f.path}) \cup {<<q, f.path>> : q \in imports}
    /\ Return(t, TRUE)
    /\ UNCHANGED <<source, calls, parser_map, refs, seen>>

(* Mutant: the status stays until the phase is over and is set again then. *)
StartPhaseLate(t) ==
    /\ At(t, {"getraise", "raise"})
    /\ LET f == Top(t)
           phase == refs[f.ref].status + 1
       IN  /\ Unfinished(f)
           /\ refs[f.ref].status # EMPTY
           /\ Call(t, Frame("run", f.path, f.ref, phase,
                            Requests[<<f.path, refs[f.ref].text, phase>>]))
    /\ UNCHANGED <<source, calls, parser_map, refs, edgeVars, seen>>

StartPhase(t) ==
    /\ At(t, {"getraise", "raise"})
    /\ LET f == Top(t)
           phase == refs[f.ref].status + 1
       IN  /\ Unfinished(f)
           /\ refs[f.ref].status # EMPTY
           /\ refs' = [refs EXCEPT ![f.ref].status = phase]
           /\ Call(t, Frame("run", f.path, f.ref, phase,
                            Requests[<<f.path, refs[f.ref].text, phase>>]))
    /\ UNCHANGED <<source, calls, parser_map, edgeVars, seen>>

(* A phase asks for another parser, the first time through get_parser ...  *)
Acquire(t) ==
    /\ At(t, {"run"})
    /\ \E ask \in Top(t).todo :
          /\ refs[Top(t).ref].depended[ask.path] = NoRef
          /\ Call(t, Frame("get", ask.path, NoRef, EMPTY, {}))
    /\ UNCHANGED <<source, calls, parser_map, refs, edgeVars, seen>>

(* ... and raises the one it has, which may be an abandoned one by now.    *)
RaiseDepended(t) ==
    /\ At(t, {"run"})
    /\ \E ask \in Top(t).todo :
          LET r == refs[Top(t).ref].depended[ask.path] IN
          /\ r # NoRef
          /\ CallFor(t, ask, Frame("lock", ask.path, r, ask.level, {}))
    /\ UNCHANGED <<source, calls, parser_map, refs, edgeVars, seen>>

(* The phase ends and its result is latched in the parser.  After a failed *)
(* call it may end at once, or go on to its other requests before.         *)
EndPhase(t) ==
    /\ At(t, {"run"})
    /\ LET f == Top(t) IN
       /\ f.todo = {} \/ ~f.ok
       /\ refs' = [refs EXCEPT ![f.ref].ok =
                       f.ok /\ <<f.path, refs[f.ref].text, f.level>> \notin Fails]
    /\ Return(t, TRUE)
    /\ UNCHANGED <<source, calls, parser_map, edgeVars, seen>>

EndRaise(t) ==
    /\ At(t, {"getraise", "raise"})
    /\ LET f == Top(t) IN
       /\ ~Unfinished(f)
       /\ IF f.op = "getraise"
          THEN Become(t, [f EXCEPT !.op = "owner"])
          ELSE Return(t, ResultFor(refs[f.ref], f.level))
    /\ UNCHANGED <<source, calls, parser_map, refs, edgeVars, seen>>

-----------------------------------------------------------------------------
(* Discarding parsers *)

(* remove_parser, the part under the cache mutex. *)
Remove(t) ==
    /\ At(t, {"remove"})
    /\ LET p == Top(t).path
           kept == InverseWithout({p})
       IN  /\ Detach({p})
           /\ forward' = ForwardWithout({p})
           /\ inverse' = {e \in kept : e[1] # p}
           /\ Become(t, [Top(t) EXCEPT !.op = "dependents",
                                       !.todo = {q \in Paths : <<p, q>> \in kept}])
    /\ UNCHANGED <<source, calls, seen>>

(* Its recursion over the owners it took from the map, each under the      *)
(* mutex again.                                                            *)
RemoveOwner(t) ==
    /\ At(t, {"dependents"})
    /\ \E p \in Top(t).todo :
          CallFor(t, p, Frame("remove", p, NoRef, EMPTY, {}))
    /\ UNCHANGED <<source, calls, parser_map, refs, edgeVars, seen>>

EndRemove(t) ==
    /\ At(t, {"dependents"})
    /\ Top(t).todo = {}
    /\ Return(t, TRUE)
    /\ UNCHANGED <<source, calls, parser_map, refs, edgeVars, seen>>

(* prepare_semantic_refresh, for a path without namespace observers: the   *)
(* whole closure goes at once.  Its claims are modelled in SemanticRefresh. *)
Refresh(t) ==
    /\ At(t, {"refresh"})
    /\ LET affected == Closure({Top(t).path}) IN
       /\ Detach(affected)
       /\ forward' = ForwardWithout(affected)
       /\ inverse' = {e \in InverseWithout(affected) : e[1] \notin affected}
    /\ Return(t, TRUE)
    /\ UNCHANGED <<source, calls, seen>>

Step(t) ==
    \/ GetParser(t)
    \/ CheckFresh(t)
    \/ RecordOwner(t)
    \/ Lock(t)
    \/ Parse(t)
    \/ RecordEdges(t)
    \/ StartPhase(t)
    \/ Acquire(t)
    \/ RaiseDepended(t)
    \/ EndPhase(t)
    \/ EndRaise(t)
    \/ Remove(t)
    \/ RemoveOwner(t)
    \/ EndRemove(t)
    \/ Refresh(t)

Next ==
    \/ \E p \in Paths, x \in Texts \cup {Missing} : Edit(p, x)
    \/ \E t \in Threads, p \in Paths :
          \/ \E level \in Wanted : Begin(t, "get", p, level)
          \/ \E op \in {"remove", "refresh"} : Begin(t, op, p, EMPTY)
    \/ \E t \in Threads : Step(t)

Spec == Init /\ [][Next]_vars

(* A thread that is inside a call and not blocked goes on. *)
FairSpec == Spec /\ \A t \in Threads : WF_vars(Step(t))

-----------------------------------------------------------------------------
(* Properties *)

(* One generation of a path is live: the one the map names and no other is *)
(* without the mark that ~BSParserRef and clear rely on.                   *)
OneLiveGeneration ==
    \A r \in DOMAIN refs : ~refs[r].abandoned <=> parser_map[refs[r].path] = r

(* Owners a removal has taken from the maps and still has to remove.       *)
Pending(p) ==
    \E t \in Threads : \E i \in 1 .. Depth(t) :
        \/ stack[t][i].op = "remove" /\ stack[t][i].path = p
        \/ stack[t][i].op = "dependents" /\ p \in stack[t][i].todo

(* The two maps of edges agree: an inverse edge always has its forward edge *)
(* and so goes when its owner does; a forward edge lacks its inverse only  *)
(* while a removal still has to come to its owner.                         *)
EdgesAgree ==
    /\ \A e \in inverse : <<e[2], e[1]>> \in forward
    /\ \A e \in forward : <<e[2], e[1]>> \in inverse \/ Pending(e[1])

(* No phase of a parser starts while an earlier phase of it is running on  *)
(* the same stack, although cycles of files re-enter it: the outer phase   *)
(* would overwrite the result, and the status, that the inner one latched. *)
PhasesNeverNest ==
    \A t \in Threads : \A i, j \in 1 .. Depth(t) :
        (i # j /\ stack[t][i].op = "run" /\ stack[t][j].op = "run")
            => stack[t][i].ref # stack[t][j].ref

(* The comment of get_result_for_status: raise_status stops at its first   *)
(* failed phase.  A failure is never undone and no later phase is entered. *)
FailureStays ==
    [][\A r \in DOMAIN refs :
          ~refs[r].ok => ~refs'[r].ok /\ refs'[r].status = refs[r].status]_vars

(* The comment of get_parser: a fresh acquisition cannot certify an old    *)
(* AST using replacement bytes.  A request is answered by the analysis of  *)
(* a text that the file had during the request.                            *)
AnswersAreFresh ==
    \A t \in Threads :
        (/\ At(t, {"owner"})
         /\ Depth(t) = 1
         /\ refs[Top(t).ref].status # EMPTY)
        => refs[Top(t).ref].text \in seen[t]

Stuck ==
    /\ \E t \in Threads : stack[t] # <<>>
    /\ \A t \in Threads : stack[t] # <<>> =>
          At(t, {"getlock", "lock"}) /\ ~CanLock(t, Top(t).ref)

(* Some text of p analysed so far asks for q. *)
Asked(p, q) ==
    \E r \in DOMAIN refs, phase \in Phases :
        /\ refs[r].path = p
        /\ refs[r].text # Missing
        /\ \E ask \in Requests[<<p, refs[r].text, phase>>] : ask.path = q

(* They go on asking each other without end. *)
CyclicFiles ==
    \E C \in (SUBSET Paths) \ {{}} : \A p \in C : \E q \in C : Asked(p, q)

(* Threads never all wait for each other's raise_mutex while the files do  *)
(* not ask for each other in a cycle.                                      *)
StuckNeedsCycle == Stuck => CyclicFiles

(* The comment of get_parser: parsing and analysis run after the lock is   *)
(* released so dependency cycles cannot deadlock.                          *)
NeverStuck == ~Stuck

(* Every call returns unless threads got stuck: cycles of files end in the *)
(* recursion and in the removal, and admission decides in two rounds.  The *)
(* third case is the bound of the model.                                   *)
CallsReturn ==
    \/ <>Stuck
    \/ <>(Len(refs) = MaxRefs)
    \/ \A t \in Threads : stack[t] # <<>> ~> stack[t] = <<>>

=============================================================================
