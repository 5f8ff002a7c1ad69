------------------------ MODULE ConformanceRegistry -------------------------
(***************************************************************************)
(* BSConformanceRegistry and the analysis that publishes into it.  A file  *)
(* declares that classes it does not own conform to traits, with witness   *)
(* methods, and binds arguments of generic traits its own classes use.     *)
(* resolve_conformances first asks the registry about each declaration,    *)
(* each question under a lock of its own, and then replaces all the file   *)
(* published in one critical section that judges everything again.         *)
(*                                                                         *)
(* A trait stands for its own identity (the traits it extends would be     *)
(* further entries of the declaration), a target for the keys that         *)
(* identify it, and OnChain for the ancestries of ClassDB and of scripts.  *)
(* SemanticRefresh has the revision a publication is admitted under; here  *)
(* any version of a file may be analysed at any time.                      *)
(***************************************************************************)
EXTENDS Integers, Sequences, FiniteSets

CONSTANTS
    Threads,
    Files,
    Targets,        \* classes, native ones included
    Natives,        \* the targets that are engine classes
    Traits,
    Methods,
    Arguments,      \* recorded arguments of a generic trait
    NoArguments,
    OnChain,        \* pairs of distinct targets one of which inherits the other
    Versions,       \* file -> what its text may declare
    MaxAnalyses     \* bound of the model: analyses begun

Declarations == [target : Targets, traits : SUBSET Traits,
                 arguments : Arguments \cup {NoArguments}, witnesses : SUBSET Methods]
Bindings == [target : Targets \ Natives, trait : Traits, arguments : Arguments]
Texts == [declarations : Seq(Declarations), bindings : SUBSET Bindings,
          loads : SUBSET Files]

ASSUME ChainAssumption ==
    /\ Natives \subseteq Targets
    /\ OnChain \subseteq Targets \X Targets
    /\ \A a, b \in Targets : <<a, b>> \in OnChain => a # b /\ <<b, a>> \in OnChain
ASSUME VersionAssumption ==
    /\ NoArguments \notin Arguments
    /\ \A f \in Files : Versions[f] \subseteq Texts

VARIABLES
    registry,       \* entries of conformances_by_file
    trait_bindings, \* file -> what its classes bind
    loaded_files,   \* file -> the files it loads, if it published anything
    job,            \* thread -> the analysis it is in
    analyses,       \* analyses begun
    judged,         \* history: file -> bindings reported as contradicted
    newer           \* history: pairs of files the first of which published last

crvars == <<registry, trait_bindings, loaded_files, job, analyses, judged, newer>>
stores == <<registry, trait_bindings, loaded_files>>

-----------------------------------------------------------------------------
(* Data *)

Entries == [file : Files, index : Nat, target : Targets, trait : Traits,
            arguments : Arguments \cup {NoArguments}, witnesses : SUBSET Methods]

Entry(f, i, d, trait) ==
    [file |-> f, index |-> i, target |-> d.target, trait |-> trait,
     arguments |-> d.arguments, witnesses |-> d.witnesses]

NoVersion == [declarations |-> <<>>, bindings |-> {}, loads |-> {}]

(* at: the declaration looked at; todo: its traits still to look at; free: *)
(* the trait just found not taken; unwitnessed: the declaration's          *)
(* witnesses are not looked up yet; valid: the candidates so far.          *)
Idle == [step |-> "idle", file |-> "", version |-> NoVersion, at |-> 0,
         todo |-> {}, free |-> {}, unwitnessed |-> TRUE, valid |-> {}]

Jobs == [step : {"idle", "next", "publish"}, file : Files \cup {""}, version : Texts,
         at : Nat, todo : SUBSET Traits, free : SUBSET Traits, unwitnessed : BOOLEAN,
         valid : SUBSET Entries]

Publisher(f) == {e \in registry : e.file = f}
Foreign(f)   == {e \in registry : e.file # f}

(* recorded_arguments_conflict: an absence of arguments proves nothing. *)
Disagree(a, b) == a # NoArguments /\ b # NoArguments /\ a # b

(* _is_visible: what the file analysed loads; never its own past. *)
InSight(f, v, g) == g \in v.loads

(* _file_loads *)
FileLoads(g, f) == f \in loaded_files[g]

CRInit ==
    /\ registry = {}
    /\ trait_bindings = [f \in Files |-> {}]
    /\ loaded_files = [f \in Files |-> {}]
    /\ job = [t \in Threads |-> Idle]
    /\ analyses = 0
    /\ judged = [f \in Files |-> {}]
    /\ newer = {}

-----------------------------------------------------------------------------
(* The questions asked before publishing *)

(* A file's text is analysed, whatever is published for it. *)
Analyse(t, f, n) ==
    /\ job[t].step = "idle"
    /\ analyses < MaxAnalyses
    /\ analyses' = analyses + 1
    /\ \E v \in Versions[f] :
          /\ Len(v.declarations) = n
          /\ job' = [job EXCEPT ![t] = [Idle EXCEPT !.step = "next", !.file = f,
                                                    !.version = v]]
    /\ UNCHANGED <<stores, judged, newer>>

(* The next declaration, or the publication. *)
NextDeclaration(t) ==
    LET j == job[t] IN
    /\ j.step = "next"
    /\ j.todo = {} /\ j.free = {}
    /\ job' = [job EXCEPT ![t] =
          IF j.at < Len(j.version.declarations)
          THEN [j EXCEPT !.at = @ + 1, !.unwitnessed = TRUE,
                         !.todo = j.version.declarations[j.at + 1].traits]
          ELSE [j EXCEPT !.step = "publish"]]
    /\ UNCHANGED <<stores, analyses, judged, newer>>

(* seen_membership_conformances and get_conformance_source: the target has *)
(* the trait already, from this file or from any other.                    *)
Taken(j, d, trait) ==
    \E e \in j.valid \cup Foreign(j.file) : e.target = d.target /\ e.trait = trait

(* seen_witnesses_by_target and get_witness_source. *)
WitnessTaken(j, d) ==
    \E e \in j.valid \cup Foreign(j.file) :
        /\ e.target = d.target
        /\ e.witnesses \cap d.witnesses # {}

(* A trait the target has already is left out, the rest of the declaration *)
(* is not.                                                                 *)
AskMembership(t, trait) ==
    LET j == job[t] IN
    /\ j.step = "next"
    /\ j.free = {}
    /\ trait \in j.todo
    /\ job' = [job EXCEPT ![t].todo = @ \ {trait},
                          ![t].free = IF Taken(j, j.version.declarations[j.at], trait)
                                      THEN {} ELSE {trait}]
    /\ UNCHANGED <<stores, analyses, judged, newer>>

(* The first trait not taken has the witnesses looked up: a collision      *)
(* leaves out the whole declaration.                                       *)
AskWitnesses(t) ==
    LET j == job[t] IN
    /\ j.free # {}
    /\ j.unwitnessed
    /\ job' = [job EXCEPT ![t] =
          IF WitnessTaken(j, j.version.declarations[j.at])
          THEN [j EXCEPT !.unwitnessed = FALSE, !.todo = {}, !.free = {}]
          ELSE [j EXCEPT !.unwitnessed = FALSE]]
    /\ UNCHANGED <<stores, analyses, judged, newer>>

(* A candidate for the publication. *)
AdmitTrait(t) ==
    LET j == job[t] IN
    /\ j.free # {}
    /\ ~ j.unwitnessed
    /\ job' = [job EXCEPT ![t].free = {},
                          ![t].valid = @ \cup {Entry(j.file, j.at,
                              j.version.declarations[j.at], trait) : trait \in j.free}]
    /\ UNCHANGED <<stores, analyses, judged, newer>>

-----------------------------------------------------------------------------
(* The judgement under the lock *)

(* Mutant: engine classes are compared only when they can be seen. *)
IncoherentWhenSeen(c, e, v) ==
    /\ e.trait = c.trait
    /\ <<c.target, e.target>> \in OnChain
    /\ Disagree(c.arguments, e.arguments)
    /\ e.file = c.file \/ InSight(c.file, v, e.file)

(* _candidate_conflicts, chain coherence: two classes of one inheritance   *)
(* chain take different arguments for a trait.  Engine classes are         *)
(* compared throughout the program, others where the file can see them.    *)
Incoherent(c, e, v) ==
    /\ e.trait = c.trait
    /\ <<c.target, e.target>> \in OnChain
    /\ Disagree(c.arguments, e.arguments)
    /\ \/ c.target \in Natives /\ e.target \in Natives
       \/ e.file = c.file \/ InSight(c.file, v, e.file)

(* Mutant: only the direction the file itself can see. *)
ContradictsSeenBinding(c, v) ==
    \E g \in Files \ {c.file} :
        /\ InSight(c.file, v, g)
        /\ \E b \in trait_bindings[g] :
              /\ b.trait = c.trait
              /\ <<c.target, b.target>> \in OnChain
              /\ Disagree(b.arguments, c.arguments)

(* _candidate_conflicts_with_trait_binding: also where the other file      *)
(* loads this one.                                                         *)
ContradictsBinding(c, v) ==
    \E g \in Files \ {c.file} :
        /\ InSight(c.file, v, g) \/ FileLoads(g, c.file)
        /\ \E b \in trait_bindings[g] :
              /\ b.trait = c.trait
              /\ <<c.target, b.target>> \in OnChain
              /\ Disagree(b.arguments, c.arguments)

(* Duplicate membership is the business of the whole program. *)
Duplicate(c, view) == \E e \in view : e.target = c.target /\ e.trait = c.trait

(* Mutant: only the files in sight are compared. *)
WitnessesCollideInSight(D, view, v) ==
    \E c \in D, e \in view :
        /\ e.target = c.target /\ e.witnesses \cap c.witnesses # {}
        /\ e.file = c.file \/ InSight(c.file, v, e.file)

(* _declaration_witnesses_collide *)
WitnessesCollide(D, view, v) ==
    \E c \in D, e \in view : e.target = c.target /\ e.witnesses \cap c.witnesses # {}

(* Mutant: memberships were asked about before and are not judged again. *)
TrustTheQuestions(D, view, v) ==
    \/ \E c \in D : \/ \E e \in view : Incoherent(c, e, v)
                    \/ ContradictsBinding(c, v)
    \/ WitnessesCollide(D, view, v)

(* A declaration is refused as a whole. *)
Refused(D, view, v) ==
    \/ \E c \in D : \/ \E e \in view : Incoherent(c, e, v)
                    \/ ContradictsBinding(c, v)
                    \/ Duplicate(c, view)
    \/ WitnessesCollide(D, view, v)

(* What a replacement accepts of the candidates: declaration by            *)
(* declaration, judged against the other files and what it accepted before.*)
Accepts(j, accepted) ==
    \A k \in DOMAIN j.version.declarations :
        LET D    == {c \in j.valid : c.index = k}
            view == Foreign(j.file) \cup {c \in accepted : c.index < k}
        IN  IF Refused(D, view, j.version) THEN D \cap accepted = {}
            ELSE D \subseteq accepted

(* _binding_conflicts_with_conformance: reported, never arbitrated. *)
Contradicted(f, v) ==
    {b \in v.bindings :
        \E e \in Foreign(f) :
            /\ e.trait = b.trait
            /\ InSight(f, v, e.file) \/ FileLoads(e.file, f)
            /\ <<e.target, b.target>> \in OnChain
            /\ Disagree(e.arguments, b.arguments)}

(* Mutant: load edges are kept whatever was accepted. *)
RecordAlways(accepted, v) == v.loads

(* The load edges are kept with what they license. *)
Recorded(accepted, v) == IF accepted = {} /\ v.bindings = {} THEN {} ELSE v.loads

(* try_replace_file_conformances *)
Publish(t) ==
    LET j == job[t]
        f == j.file
    IN
    /\ j.step = "publish"
    /\ \E accepted \in SUBSET j.valid :
          /\ Accepts(j, accepted)
          /\ registry' = Foreign(f) \cup accepted
          /\ loaded_files' = [loaded_files EXCEPT ![f] = Recorded(accepted, j.version)]
    /\ trait_bindings' = [trait_bindings EXCEPT ![f] = j.version.bindings]
    /\ judged' = [judged EXCEPT ![f] = Contradicted(f, j.version)]
    /\ newer' = (newer \ {<<g, f>> : g \in Files}) \cup {<<f, g>> : g \in Files \ {f}}
    /\ job' = [job EXCEPT ![t] = Idle]
    /\ UNCHANGED analyses

(* clear_file *)
ClearFile(f) ==
    /\ registry' = Foreign(f)
    /\ trait_bindings' = [trait_bindings EXCEPT ![f] = {}]
    /\ loaded_files' = [loaded_files EXCEPT ![f] = {}]
    /\ judged' = [judged EXCEPT ![f] = {}]
    /\ UNCHANGED <<job, analyses, newer>>

CRNext ==
    \/ \E t \in Threads, f \in Files, n \in 0 .. 2 : Analyse(t, f, n)
    \/ \E t \in Threads :
          \/ NextDeclaration(t)
          \/ AskWitnesses(t)
          \/ AdmitTrait(t)
          \/ Publish(t)
          \/ \E trait \in Traits : AskMembership(t, trait)
    \/ \E f \in Files : ClearFile(f)

CRSpec == CRInit /\ [][CRNext]_crvars

-----------------------------------------------------------------------------
(* Properties *)

(* The values of the state; a file publishes under its own name, and what  *)
(* it loads is known only if it has published.                             *)
TypeOK ==
    /\ registry \in SUBSET Entries
    /\ trait_bindings \in [Files -> SUBSET Bindings]
    /\ loaded_files \in [Files -> SUBSET Files]
    /\ judged \in [Files -> SUBSET Bindings]
    /\ newer \in SUBSET (Files \X Files)
    /\ analyses \in Nat
    /\ job \in [Threads -> Jobs]
    /\ \A f \in Files :
          /\ judged[f] \subseteq trait_bindings[f]
          /\ loaded_files[f] # {} => Publisher(f) # {} \/ trait_bindings[f] # {}

(* DUPLICATE_MEMBERSHIP: whatever the order in which threads asked and     *)
(* published, one declaration in the program makes a class conform to a    *)
(* trait, so the index from (class, trait) to file is well defined.        *)
MembershipIsUnique ==
    \A d, e \in registry :
        d.target = e.target /\ d.trait = e.trait => d.file = e.file /\ d.index = e.index

(* WITNESS_COLLISION: one declaration in the program provides a method for *)
(* a class, whether or not the files can see each other.                   *)
WitnessIsUnique ==
    \A d, e \in registry :
        d.target = e.target /\ d.witnesses \cap e.witnesses # {}
            => d.file = e.file /\ d.index = e.index

(* CHAIN_COHERENCE: engine classes of one chain agree on the arguments of  *)
(* a trait throughout the program; other classes agree whenever the file   *)
(* that published last can see the other one.                              *)
ChainsCohere ==
    \A d, e \in registry :
        (/\ d.trait = e.trait
         /\ <<d.target, e.target>> \in OnChain
         /\ \/ d.target \in Natives /\ e.target \in Natives
            \/ d.file = e.file
            \/ <<d.file, e.file>> \in newer /\ e.file \in loaded_files[d.file])
        => ~ Disagree(d.arguments, e.arguments)

(* loaded_files_by_file: a class that binds a trait's arguments and a      *)
(* conformance that contradicts it never stand side by side unreported     *)
(* when a load edge joins their files, in whichever direction and          *)
(* whichever of the two was published first.                               *)
BindingsAreJudged ==
    \A e \in registry, g \in Files : \A b \in trait_bindings[g] :
        (/\ e.file # g
         /\ e.trait = b.trait
         /\ <<e.target, b.target>> \in OnChain
         /\ Disagree(e.arguments, b.arguments)
         /\ g \in loaded_files[e.file] \/ e.file \in loaded_files[g])
        => b \in judged[g]

=============================================================================
