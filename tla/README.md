# BaristaScript: models, runs and proofs

BaristaScript is a scripting language for the Godot engine, written in C++ as a
GDExtension (`src/src/`). This directory holds TLA+ models of the parts of it
that are hard to test: the state that threads, editors, files and re-entrant
script code share, and the way from a function's text to the code that runs. TLC
checks the models on small instances, and TLAPS proves what matters most for
every instance.

Line numbers in the comments and in `PROJECT.json` refer to the commit of
`src/` next to this directory.

## 1. The system

### Components

| Component | State | Operations | What makes it correct |
| --- | --- | --- | --- |
| **Declaration index** `bs_declaration_index.*` | `by_path` and the views by name, annotation and conformance; `generation_counter`, `generation_floor`, `generations`; the store on disk | claim, claim for a rename, invalidate, commit, remove, clear, load, flush | a superseded analysis writes nothing; observers of a namespace hear of every change; a load is all or nothing |
| **Persistent stores** `bs_cache.cpp`, `bs_declaration_index.cpp`, `bs_platform_shims.cpp` | the store file, its temporary siblings | flush, load, a crash anywhere | the real name always has a whole image; failed flushes leave nothing behind |
| **Parse cache** `BSParseCache` | entries and tombstones by key, whether the store can be trusted | lookup, put, evict, load, flush | an entry never answers for other bytes; a miss says why |
| **Parser cache** `BSCache`, `BSParserRef` | `parser_map`, `abandoned_parser_map`, the dependency maps in both directions; per parser its status, result and `raise_mutex` | get_parser, raise_status, remove_parser, refresh | one live parser per path; the edge maps agree; an answer is about current bytes; nobody waits for ever |
| **Semantic refresh** `barista_script_language.cpp`, `bs_cache.cpp` | `source_overrides`, claims, guards on the stacks of threads | set_source_code, synchronize, validate, analyse, remove, move | the last refresh decides; what is superseded is harmless; temporary texts go away |
| **Conformance registry** `bs_conformance_registry.*` | conformances, trait bindings and load edges by file | questions of the analyzer, replace, clear | no two contradicting declarations are registered together |
| **Script resource** `barista_script.*`, `bs_script_instance.*` | compiled functions and layout, inner classes, `instances` | reload, instantiate, call, free | code is not replaced under those who run it; nothing half-built is handed over |
| **Compiler and emitter** `bs_compiler*.cpp`, `bs_byte_codegen.cpp` | functions under construction: words, slots, pools of temporaries, jumps to patch | lowering, static initialization | published classes are initialized; a slot holds one thing at a time; the code does what the text means |
| **Virtual machine** `bs_vm*`, `bs_function.*` | frames, `call_depth`, the error flag and serial | the dispatch loop, call, fault | it stays inside the code it runs; a fault abandons one frame and is seen by those who must see it |
| **Analyzer** `bs_analyzer*.cpp` | the phases of a tree, diagnostics | resolve inheritance, interface, bodies; finalize | phases never nest; its answers follow the grammar and type rules |
| **Tokenizer and parser** `bs_tokenizer*.cpp`, `bs_parser*.cpp` | tokens, indentation, the tree | parse | the tree is that of the grammar |
| **Types** `bs_type.cpp`, `bs_runtime_type.cpp` | none | compatibility, conversion | the relations are what the language says |

### How they interact

An edit reaches `BaristaScript::_set_source_code`, which installs a source
override in `BSCache` and starts a refresh. The refresh takes a claim (a token of
the declaration index) and, under the same cache lock, invalidates the claims,
conformances and parsers of everything that may depend on the script. It then
analyses the text under an override guard, with parsers of other files that
`BSCache` raises, and publishes a record in the index and conformances in the
registry, each under the revision it claimed. Changes of the conformance files of
a namespace are told to the observers of that namespace, which refresh in turn.
A reload compiles the text into the script resource, and instances and calls run
what it compiled. The index and the parse cache are written to disk by the same
flush protocol.

Locks: `BSCache::mutex`; inside it `generation_mutex` and the index's `mutex`;
inside that the registry's; and one recursive `raise_mutex` per parser, held
through whole analyses and outside all others. No file is read under a metadata
lock. Script code runs on one stack and may re-enter every native entry point.

### What is hard

Refreshes that overtake each other; parsers discarded while they work; cyclic
files, which make analysis recursive, removal recursive and lock orders cyclic;
texts that change between a read and its use; several editors on one directory;
crashes between the steps of a flush; judgements under one lock used under
another; stores written by other builds or damaged; reloads and faults inside
initializers; temporaries, slots and jumps that statements of every kind share when
they are written inside one another. `PROJECT.json` lists them as hazards, each at
its line, with the properties that would catch it.

## 2. The modules

| Module | Models | Composes or implements |
| --- | --- | --- |
| `RefreshTokens` | what a refresh is promised: one revision per path that never comes back | abstract |
| `DeclarationIndex` | `BSDeclarationIndex`, one action per critical section | implements `RefreshTokens` |
| `AtomicStore` | a store that changes in one step from one image to another, whole but for those two processes flushed under one name | abstract |
| `StoreFile` | the flush of both stores: open, write, read back, rename; crashes | implements `AtomicStore` |
| `ParserCache` | `BSCache`/`BSParserRef`: each thread a stack of calls, each lock a guard | |
| `SemanticRefresh` | overrides, guards, claims and publication across cache, index and registry | composes the three at the level of their claims |
| `ConformanceRegistry` | the questions of the analyzer and the publication that judges again | |
| `ScriptResource` | reload, construction, calls and faults on one stack | |
| `ParseStore` | `BSParseCache`: entries, tombstones, lookup, put, eviction, load and flush | takes from `AtomicStore` that a flush is one step |
| `StatementTree` | functions as sequences of tokens, their blocks and variables, the parts of expressions and patterns | |
| `Statements` | what such a function means | abstract |
| `ByteCodeGenerator` | `BSByteCodeGenerator`: each `write_...` as a function from generator to generator | |
| `Lowering` | `BSCompiler::compile_function` over it, and the dispatch loop that runs the words | implements `Statements` |
| `FlowFinality` | the flow analysis of `BSAnalyzer`: final variables, exits of functions, narrowed types; and the classes it lets through, run | |

Those that run have an `MC` module with the values of their constants. Four more, `MCSources`,
`MCClasses`, `MCStores` and `MCScripts`, put two of these side by side for one run. They
compose nothing: the variable `part` says which of the two moves, and the other stays as
it began, so such a run checks each part as a run of its own would. Modules that
stand beside others have a word of their own in the names of their initial states, steps and
specifications (`CRSpec`, `RefreshSpec`, `ScriptSpec`, `PSSpec`, `SFSpec`). All that run
have theorems in a `...Proofs` module; `ParseStore` and `StoreFile`, the two halves of
a persistent store, share `PersistentStoreProofs`.

**DeclarationIndex.** A variable for each member of the class; the derived views
are functions of `by_path`, so only the set of conformance files, which is
compared before and after a change, is an operator. `held` is the token a thread
works under. An action is one critical section of `generation_mutex` and `mutex`;
`clear`, `load` and `flush` are several. `written`, `told` are histories: the revision of
the last accepted write, and what the observers of a namespace were last told.

**StoreFile.** Names refer to inodes; opening for writing truncates, renaming
moves a name whoever has the inode open. A writer's steps are `BeginFlush`, `Open`, `Write`
(which may be partial), `Verify` (the read-back), `Promote` (`bs_replace_file`) and
`DiscardTemp`. `Crash` ends a process between any two steps and starts it again with
its counter at zero. A reader opens the store and reads it later. Processes may flush
the same bytes and so have one temporary name; `shared` is the history of the inodes that were
opened under a name two processes had at once, for the properties alone. That opening for writing truncates is what
the comment at `bs_cache.cpp:516` fears; an engine set to save to a backup file first would not
show it.

**ParserCache.** A frame on the stack of a thread is a call: `GetParser`, the
raise, the phase, the removal. The actions follow the code between two points
where another thread may come in: the cache mutex is one action, a `raise_mutex` is
held while a frame of its raise is on a stack. What a phase asks of other files is
a function of the text it analyses, and so is its failure. `refs` keeps every
parser ever made; `abandoned` ones go on working, as in the code.

**SemanticRefresh.** A thread has a job whose `step` is the place between two
critical sections where it is. Files on disk change at any time. The parsers and
their edges are not repeated: a refresh may invalidate any set of files between
its own and all that may depend on it, which covers every state of `ParserCache`.
Notices to observers are the step `observe` of the refresh that sends them.

**ConformanceRegistry.** A declaration names a class, the traits it gives it, the
arguments of a generic one and its witnesses. `AskMembership`, `AskWitnesses` and
`AdmitTrait` are the analyzer's questions, each under its own lock;
`Publish` is `try_replace_file_conformances`. Questions may be answered by a state
long gone, which is why publication judges again.

**ScriptResource.** One thread, its native and script frames on one `call_stack`. A
compilation is a generation: the outer class's functions are replaced in place
(`functions`), the inner class is a new resource per generation, and an instance
has the generation of the class it was made of. `Fault` abandons a frame and lets
its caller go on; what construction and static initialization look at afterwards
(the serial, the flag) decides what becomes of the instance or the class. `Refuse` is how
an instance is given up without a fault: `_init` called with arguments it does not
take, which leaves a call error, or no handle from the engine. That the base class is gone
(`barista_script.cpp:308`) raises, hence is a fault, and does not happen here, where the base is
the resource itself.
A call beyond `MaxCallDepth` raises and returns, as in the code, so the bound cuts
nothing off.

**ParseStore.** An entry is a digest and a payload; the payload is known by what it
was made of, so that a wrong hit shows. A load takes the records one by one, as
`load` does, so that damage behind good records meets what has been read already.
The file keeps, as history, what it was flushed from; `Damage` loses the header, flips
a bit, appends, duplicates a key or deletes the file, and the code has to
notice.

**StatementTree, Statements.** A function is a sequence of tokens: heads open blocks,
`else` and `branch` open arms, `end` closes. What happens in a run is an event: a
statement begins, or the k-th part of its expression is evaluated and gives a value. An
expression is the list of its parts with what each is given: earlier parts, a
variable, a member as it was or is. `Statements` says which event may follow which
(`Following`), what a part is given (`Operands`) and what each variable in scope holds
when a statement begins (`Holds`), straight from the text: no address, slot or
jump occurs in it.

**ByteCodeGenerator, Lowering.** `g` is the generator: `code`, the locals and
temporaries in use, the pools of free temporaries by type, the slots to be cleared, the
stacks of jumps to patch. Statements are added one token at a time; the action of
each (`If`, `While`, `For`, `Match`, `Branch`, `Var`, `Evaluate`, ...) writes what its part of
`bs_compiler_statements.cpp` writes, up to the block it opens, and `End` the rest, with
blocks as the stack of calls of `parse_block`. Nothing is left out between: the
temporaries an expression takes and gives back, what is cleared where, the type
tests of match patterns and their joins, defaults, the constants of `write_end`.
When the function is complete it is run: `Enter` fills the frame, and one action per
instruction (or family of instructions with one shape) reads the operands the word
before names. What an operator or a callee computes is any value it may give;
references are numbered by the evaluation that made them, so that a stale slot is
recognized. `at` and `env` are what an observer sees at `LINE` and at calls, and are
what `Statements` speaks of: `RunsTheText` is `Statements!Spec` of these variables.

**FlowFinality.** A class is written token by token: final members, `_init`, one other
function. `Writes` adds a token and the analysis goes along with it: `state` is
`FinalAssignmentState`, `flow_narrowed_types` the type of the one parameter `s`, a union
`a? | b`, `exit` the `SuiteExitState` of the innermost suite, and `blocks` the recursion over
statements that are open, with the copies of the three that the code keeps in local
variables. `End` joins them. `accepted` is whether there was an error; a class without one
is run (`Run...`, from the initializers of its members to the end of the function, each
test either way), and the run keeps what the analysis cannot know: which token
assigned a final (`by`), whether a loop's next turn, a break or a continue came since
(`jumped`), the value of `s` and who assigned it. Arms of a match of `s` are of every kind, those of
`MayMatchNull` among them: a wildcard with a guard and an expression, which match null and which
the analysis holds to reject it. `marks` keeps, per token, what the analysis
knew in front of it; the run uses only its `blocks`, to find the ends and arms of statements
(`EndOf`, `NextArms`, `Behind`) as the jumps of the compiled code do, and the properties compare
the rest with what is true. The pass over locals and that over members are one here: in `_init`
all finals are tracked, elsewhere the locals.

## 3. The runs

Passing runs check all their properties together; the runs expected to find a
violation check one each.

| Run | Instance | What it shows |
| --- | --- | --- |
| `parser_cache` | two threads, two files whose texts may or may not ask for each other, three calls or edits, four parsers | one live generation, agreeing edges, phases that never nest, fresh answers, failures that stay, no waiting for each other without a cycle of files, and every call returns |
| `sources`, of `SemanticRefresh` | two threads, two scripts, a good and a bad text, three calls | the last refresh decides, superseded work is harmless, conformances belong to the newest claim, nested guards restore |
| `sources`, of `Lowering` | every function of up to two to six statements in eleven vocabularies: `Control` 5, `Iterations` 4, `Expressions` 3, `Operands` 2, `Stores` 2, `Named` 4, `Exits` 3, `Blocks` 5, `Matches` 6, `LoopedMatches` 5, `PatternForms` 5; each compiled and run with every number of arguments and every outcome of every test | the code does what the text means, in its order and with its values (`RunsTheText`); the machine never meets a word that is no instruction (`CodeIsSound`); a reference a block let go of is in no variable's slot (`OnlyVariablesRefer`) |
| `classes`, of `ConformanceRegistry` | two threads, two files with four texts each that contradict each other in every way, four analyses | memberships and witnesses are unique, chains cohere, contradicted bindings are reported |
| `classes`, of `FlowFinality` | classes of three to six statements and arms in nine vocabularies: `Exits` 4, `MembersOfInit` 5, `InInitializers` 3, `InLoops` 5, `InMatches` 6, `OfLocals` 5, `Tests` 4, `Narrowings` 5, `ArmsOfSubject` 5 | what the analysis lets through reads no final before it is assigned and leaves none unassigned (`FinalsAreAssigned`), assigns one twice only round a loop or behind a jump (`TwiceOnlyRoundLoops`), returns a value or never where it is declared to (`ValueIsReturned`), and a narrowed variable is of its type (`NarrowedReadsHold`), but for the exceptions these properties name |
| `stores`, of `DeclarationIndex` | two refreshing threads, one that loads, flushes and clears, two paths, two namespaces, two claims above zero | whatever interleaves, `OlderNeverOverwrites`, the token tables agree (`TokenInv`), a changed conformance view leaves a notice owed (`ObserversAreTold`), and the index implements `RefreshTokens` |
| `stores`, of `StoreFile` | two threads of one process and a second process, two images that any of them may have to write, three flushes, one death | the store is whole for those who open it and those who have it open, unless two processes met under one temporary name, failed flushes leave no files, and the protocol implements `AtomicStore` |
| `scripts`, of `ScriptResource` | two instances, a plain text, one with inheritance and static initializers, one that does not compile; three generations, two nested calls of script code | a class keeps its generation under its own instances and their frames, attached instances and usable classes are whole, and instances fail for their own faults or refusals only |
| `scripts`, of `ParseStore` | two builds of format versions 1 and 2 on one store, two paths, two sources, three events (puts, damages, scripts that come or go) | a hit is for the bytes asked about; cold means never there; a load is all or nothing and is called corrupt when it is nothing |

The bounds are small and chosen so that the hazards the properties speak of happen: two of
a kind meet, a third event comes in between. Where the code fails at one, the passing
run has the case and excepts it by name (two processes under one temporary name, an arm that is
wrongly held to reject null, an assignment in an inner block, a loop's second assignment), or
leaves it to a run that is expected to fail (`StaleSlot`, `EarlyMember`). Which hazards no property
covers is said in `PROJECT.json`. Two threads are enough for each race
here, since every guard compares one thread's state with the shared state and no
queue of waiting threads has an order. Two paths make a cycle and a rename. Two
claims above zero let a claim be superseded and a floor pass it. Two nested
script frames with the native frames between them reach a reload inside an
initializer inside a reload. `CHECK_DEADLOCK FALSE` stands where the bound on calls,
or the end of the one function that is run, ends a behaviour; `scripts` has no such end in either
part and checks deadlock.

The vocabularies of `Lowering` are sets of tokens that share something: jumps and
their patches, slots of loops, pools of temporaries, the places of operands,
defaults, exits from the middle, variables of blocks that follow one another,
the verdicts and joins of patterns. What they do not share they do not disturb, since
the state they leave to the next statement is that of `g`. Every form of
statement, expression, assignment and pattern the model has is in one of them but one: `early`, an
operand that is a member in front of a call, which does not do what the text means and is the
vocabulary of `early_member`. Six
statements make a match of two arms with a variable in each behind another
statement, which is the longest way we know from a cause to its effect here.

`MCSemanticRefresh`, and so `MCSources`, takes out behaviours that add nothing: the threads are alike, so
`t1` makes the first call whenever all are idle; steps that touch only their own
job are not parted from their neighbours; and `MCDrafts` hands over both texts for
one file and the bad one for the other, whose good text comes from disk.

TLC's coverage of the four runs with two parts shows every action of the modules in them taken, in
every alternative but one: `InitializeStatics` passes over a class without static
initializers, and the texts here have them in both classes or in none.

Every property has a mutant in `PROJECT.json`, a plausible bug of a modelled
definition under which TLC finds the property violated.

### What the code does not keep

| Run | Property | What TLC shows |
| --- | --- | --- |
| `parser_deadlock` | `NeverStuck` | two threads raise two mutually dependent files from different ends and wait for each other; the comment of `get_parser` says they cannot |
| `inherited_reload` | `LiveInstancesKeepTheirFunctions` | a live instance of an inner class that extends the outer one does not refuse the outer's reload |
| `stale_slot` | `RunsTheText` | a variable declared without a value in a later arm of a match starts with what the failed arm before it left in the slot the two share |
| `early_member` | `RunsTheText` | in `f(m, g())` the member is read behind `g()`, with what `g` assigned to it |
| `narrowing_put_back` | `AssignmentClearsNarrowing` | `if s != null:` around `if s != null: s = null`, and `s` is taken for not null behind the inner block |
| `guarded_wildcard` | `ArmsNarrowRightly` | `match s:` with the arm `_ when g:`, where `s` is taken for not null and is null |
| `shared_temp` | `SharingIsHarmless` | a process truncates the temporary file another has read back, the other renames it over the store, and the first dies or its write falls short |

Each is quoted with the comment or test it contradicts under `findings`. The passing
runs state what does hold beside it: `StuckNeedsCycle`, `OuterInstancesKeepTheirGeneration`,
`RunsTheText` in vocabularies without that arm and that operand, `NarrowedReadsHold` with its
exceptions, `StoreIsWhole` and `RefinesAtomicStore` but for files two processes shared.

Modelling met more that is no run of its own:

- A final variable is assigned more than once if a loop goes round, since the body is
  analysed once (`bs_analyzer_flow_finality.cpp:1140`), and if the first assignment is followed by a
  break, since a branch that ends is left out of the join and with it what it may have
  assigned (`:123`): `while c: if d: x = 1; break` and then `x = 2` is accepted.
  `docs/GRAMMAR.md:1411` and `bs_parser.h:2128` call such locals write-once. `TwiceOnlyRoundLoops`
  says what holds, and excepts every such path by `jumped`.
- The narrowed type of a variable is the one in front of a loop at the head of its body
  too, though the body may assign it further down; `NarrowedReadsHold` excepts a value from there
  (`wrote > pc`). An arm whose pattern is an expression is held to reject null as the guarded
  wildcard is.
- An abandoned parser that goes on records its dependency edges over those of the
  parser that replaced it (`bs_cache.cpp:1051`).
- Two override guards that close in the order they opened leave a temporary text in
  force (`bs_cache.cpp:755`); `NestedGuardsRestore` says what holds.
- A fault raised before a class is loaded makes its static initializers count as
  failed, since the flag and not the serial is looked at (`bs_compiler.cpp:198`);
  `InstancesFailForTheirOwnFault` says what construction, which looks at the serial, does.
- The temporary of a match's subject stays pinned for the rest of the call when the
  first arm is not taken, though `bs_compiler_statements.cpp:505` and `:582` say it is
  cleared; so do the element temporaries of container patterns. The container and the
  variable of a `for` loop are not cleared behind the loop, and those of an `if` or `while`
  head only by the first statement of the body. `OnlyVariablesRefer` excepts these.
- `bs_byte_codegen.cpp:169` says that reference-counted carriers are never pooled; those
  of type `NIL` are.
- A compound assignment to a member with a setter reads the member in front of the
  right side, all other targets behind it. A write through a value (`a[0].x = 5` for a
  value type) changes a temporary only. The message of an assertion is evaluated
  whether it fails or not. `Statements` says what the code does in all three.
- `bs_cache.h` calls a load report "empty exactly when the load was cold"; a store
  of another version gives none either.

### Fairness

One run checks liveness. `ParserCache!FairSpec` is weak fairness of each thread's next
step, `WF_vars(Step(t))`: a thread that can take its next step takes it, which is
what the scheduler of an operating system gives; nothing is assumed of edits and
requests, nor of who gets a lock. `CallsReturn` then says that every call returns, the
recursion over cyclic files included, unless two threads are stuck on each
other (the finding above) or the bound on parsers is met.

## 4. The proofs

TLAPS proves these for every value of the constants, `MaxGeneration`, `MaxFlushes`
and the other bounds included.

**DeclarationIndexProofs.** `TypeCorrect`; `TokenInvariant`: `TablesAgree` says that the
counter dominates the floor and the table, and that an entry of the table is above the
floor, which is what makes the revision of a path grow when the floor rises and
the table empties; with it no held token and no record is ahead of the revision in
force. `OlderWritesRefused` (the action property) follows from the invariant and from
the lemma that revisions only grow. `Refinement` maps each action to `Supersede`, `Adopt`,
`Write`, `Overrule` or a stutter of `RefreshTokens`. `NoticesAreOwed` needs the lemma that
a write which changes the conformance files of a namespace reports that namespace.

**PersistentStoreProofs, of StoreFile.** For any writers, readers, processes and images, two processes
with the same bytes and number included. The invariant says that flushes of one process have
names of their own (`NumbersAreOwn`); that the inode under a temporary name is neither the store's nor
one a reader has open (`InodesAreOwn`); that what two flushes have opened under one name, which
takes two processes, is known to be shared (`SharedIsKnown`); and that, unless it is, a writer has open
the inode under its own name and promotes a whole one (`WritersOwn`). The exception is needed
at one step, `Open`, which truncates what is under the name: if another flush has the name,
the inode becomes shared there and then. From it follow `StoreWhole`,
`LeavesNoLitter` and `Refinement` into `AtomicStore`.

**ConformanceRegistryProofs.** The invariant says of each thread's analysis that what it
will publish renders the declarations of its text, in order, and of the registry
that each declaration's entries agree. `OneMembership`, `OneWitness`, `Coherence` and `Judged` then
look at one step, `Publish`: what is accepted was judged against everything
registered at that moment. The questions asked before play no part, which is the
point of judging again.

**PersistentStoreProofs, of ParseStore.** The invariant follows an entry from the `Put` that made it through
stores and loads (`EntriesArePut`), says that a cache knows of every path it has had what
became of it (`KnownIsKept`), that a file is what was flushed or shows that it is not
(`FilesAreClear`), and how far a load has come: what is in front of the next record has been
read whole, each key once (`LoadsReadAll`). `HitsCorrect`, `ColdCorrect` and `LoadsCorrect` follow for
any paths, sources, builds and versions; two builds of one version may share a store.

**SemanticRefreshProofs.** For any threads, files, texts, outcomes of analysis and
dependents, without a bound on the calls. `RegistryFollowsClaims` is inductive together with
the types of the state (`IInv`), since a claim takes the conformances of everything it affects
in its own critical section. `LastRefreshWins` says nothing of a refresh under way, so `ClaimInv`
says that only a job with a claim comes to write (`StagesOK`), that no two jobs have the same
claim or override (`ClaimsAreApart`, `OwnersAreApart`), and that the job with the newest claim works
on the text asked for and on the override it installed (`HoldersInForce`); a move claims two files, so the second
counts (`NewestWins`) only while its token is the newest. `SupersededIsHarmless` is read off one step
under these. `NestedGuardsRestore` says nothing of open guards; `GuardInv` unfolds the
override in force into the live guards one by one, each putting back what the next shows,
down to what the editor left (`Nested`).

**ParserCacheProofs.** For any files, texts, threads and requests between files, for stacks of
any depth. The invariant is about the stacks: each frame may have called the next
(`CallsFrame`), and the levels asked fall from the bottom to the top. A phase that runs below has
therefore brought its parser to a level that nothing above it asks to exceed,
which is why a raise above it finds nothing to do (`ApartPhases`): nothing in the code looks
for a phase under way. `Exclusive` says that the frames that hold a `raise_mutex` are one
thread's, `RunsAreGood` that a failure is not latched while a phase of that parser runs, without
which a failed parser could be raised further (`StayingFailures`). `AgreeingEdges` needs
that a refresh takes a set that is closed under the inverse edges, and that a removal in
progress still has the owners it has not come to. `FreshAnswers` follows a call from its
first look at the file. `StuckMeansCycle` constructs the cycle: above each phase that
runs on a stuck thread is a request, and what the thread at the end of the stack waits for is held
by one that runs a phase of it. The closure of a set of files is the least set closed under
the edges, and a cycle a set of files each of which asks for one of the set, so that
neither needs an induction along paths.

**ScriptResourceProofs.** For any texts, for stacks and histories of compilations of any length.
The invariant says what each kind of frame has above it (`NativeCallsCode`, `CompilesKnow`), that an
object under construction is marked as its frame is and has no frame below that one
(`BuildsOwn`), and that frames are of live instances. `GenerationsAreKept` is inductive with it: a
reload that would replace functions under an instance is refused or finds none.
`WholeInstances` and `OwnFaults` need `BuildsOwn`, since a fault marks the innermost frame and it is
the object that is attached, or given up unless its own frame was refused; `InitializedClasses` needs that a compilation which was told of a
fault has called an initializer.

**FlowFinalityProofs.** For classes of any length and depth over any alphabets. The text that was
written and its marks are `Consistent`: the mark behind each token follows from the token and the
mark in front of it, whatever was written around them (`IInv`). All the rest is about
consistent texts, by induction along the text, as a least counterexample: open statements are
nested, and keep what was known at their head (`Nesting`, `FrameIs`); each is closed once
(`ClosedOnce`); what an arm ends with is kept by the join behind its statement (`JoinKeeps`), also
behind arms that end or come after a catch-all; and a `return` or `break` that can be reached is known at
the end of its function or loop (`Carried`), which is why no endless loop is left. `RunIInv`
then says what holds where control stands (`Standing`): the suite is one that goes on; of the
finals that are tracked, those the mark has as assigned are, and one that it has not even as maybe
assigned is not, unless a jump was taken since; and the same of the states saved in the frames
around it. There is a lemma for each kind of transfer of control. `FinalsAssigned`,
`AssignedTwiceOnlyRoundLoops` and `ValuesAreReturned` follow.
`NarrowedReads` has an invariant of its own, `TypesFit`: the value of `s` fits the type at the
token and at the heads around it, or is excused, by where it was assigned or because it is null in
an arm of `MayMatchNull` (`NullIn`). It assumes nothing of the alphabets.
The proof is why the next turn of a loop counts in `jumped`: a final may be assigned twice in a loop without
any break (`while a: if b: x = 1` with `else: x = 2`).

**LoweringProofs.** `CompiledCodeIsSound`: the machine never gets past the end of a function, to a
word that is no instruction or into the middle of one, for functions of any length, with
blocks of any depth, any number of default values, every form of expression, assignment and
pattern the model has, and every outcome of every test; the only assumption is that
alphabets are made of `Tokens`. What has been written is at any time a row of instructions
(`Laid`): each jump leads to where one begins, or the place of its word is on the stack of the
generator that will be used to patch it, and on no other word (`Sound`). Each `write_...` of
`ByteCodeGenerator` keeps this, and there is a lemma that says which stack it pushes or pops
(`Stands(h, x, l)`, with `x` the heights of the stacks). Expressions and patterns leave all stacks as high
as they were, although they push jumps for `and`, `or`, conditionals and joins in between. So
between two tokens the heights are a function of the blocks that are open (`Reaches`,
`Lowers`): two jumps for each `for`, one for each arm of a `match`, and so on; and the end of a
block pops what its beginning pushed, which is what the code relies on and nowhere
checks. The stacks are empty at the end, hence nothing is left to patch, and from each instruction the
machine gets to another (`Runs`), as it does from each place where a call may begin
(`Ready`). The loops of the lowering are recursive functions in the model; that such a
function exists (`Turns`), and what it keeps (`Loop`), follows from the least turn at which it
would fail.

### Only model-checked

Liveness (`CallsReturn`) is out of reach of the prover here. Of `Lowering`, `OnlyVariablesRefer` and
`RunsTheText` are checked for the texts of the vocabularies only: they are about what
the words mean to the variables of the text, slot by slot, and need an invariant that relates every
temporary and every slot of the code to the text it was lowered from; `LoweringProofs`, which
says that the code is sound, is the part of it that speaks of jumps. `IInv` of `LoweringProofs` speaks of
sets of places without a bound and so cannot be evaluated by TLC; the run checks what follows
from it. The type invariants of `ParserCache`, `SemanticRefresh`
and `ScriptResource` are in their proofs (`TypeOK`, for `SemanticRefresh` `StateOK` and `JobsOK`) and in no run: the runs spend
their time on what relates two parts of the state.

## 5. Not modelled

- **Text and types**: tokenizer, parser, type relations and diagnostics are
  sequential computations on data.
- **Of the flow analysis**: members that come from traits, static finals (the same analysis
  with `_static_init`), lambdas and what they capture, matches that cover an enum without a
  wildcard, compound assignments. `_init` may call a method that reads a final it has not assigned
  yet; the analysis does not look, and the model has no such call.
- **Of the compiler and the machine**: the types of operands and the opcodes chosen by
  them, constants and their tables, the packing of an address into a word
  (`bs_compiler_class.cpp:170`), conversions, rest parameters, the initializers of members and the
  class-level part of the compiler beyond publication. `Lowering` knows four types: untyped,
  `int`, `bool` and `Array`, which is what the pools tell apart.
- **Critical sections taken together**, where no property was found to tell them apart.
  `get_parser` lets go of the lock between looking for the file and admitting the parser
  (`bs_cache.cpp:1229`), admits in two rounds and may answer that the cache was cleared (`:1206`);
  `GetParser` reads the text and admits once. A script whose preflight fails is discarded without
  publishing (`bs_analyzer.cpp:11377`); in `SemanticRefresh` a faulty text goes through the
  publication of nothing first. The analyzer asks for each witness under a lock of its own
  (`bs_analyzer_conformance.cpp:1793`); `AskWitnesses` asks for all at once, and publication judges
  again. What a declaration may see is the closure of the files its file loads, in the analyzer
  (`can_see`, `bs_analyzer_conformance.cpp:2220`) and in the registry alike: `InSight` is both.
- **Cyclic parser collection** by reference counts in `BSCache::clear`, and the leak
  when it gives up (`bs_cache.cpp:979`).
- **Power loss** (`bs_cache.cpp:603`), the Windows replacement, path validation: outside
  the promise of the code.
- **Data races**: on a parser's tree between a query under the cache mutex and a parse
  under `raise_mutex`; of an analysis that drives another parser's analyzer without its
  `raise_mutex` (`bs_analyzer.cpp:1112`); at the first use of the conformance registry, which is
  made without a lock (`bs_conformance_registry.cpp:242`).
- **Freed memory a running frame may still read**: a static function whose script is
  reloaded from inside it (`barista_script.cpp:497`).
- **Awaiting and lambda callables**: empty in the code.

## 6. Plan

1. The initializers of members and classes (`bs_compiler_class.cpp`), as a function of
   `Lowering`'s own kind.
2. `Indentation` of the tokenizer, and the type relation, as operators checked
   against reference definitions.
3. Proofs of `OnlyVariablesRefer` and of the refinement of `Statements`, from the soundness of the
   code: which slots and temporaries are taken between two statements.
4. A composition of `ScriptResource` with the index, for the record of a source
   that live instances do not run.
