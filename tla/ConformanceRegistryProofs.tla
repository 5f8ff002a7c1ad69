--------------------- MODULE ConformanceRegistryProofs ----------------------
(***************************************************************************)
(* Theorems about ConformanceRegistry, for any number of threads, any      *)
(* files and any texts.  What a file publishes is judged when it is        *)
(* published, so each theorem compares one entry accepted in the step with *)
(* one entry that stood already, or two entries of the publication.  For   *)
(* the latter the invariant has to say that entries which share a file and *)
(* an index come from one declaration.                                     *)
(***************************************************************************)
EXTENDS ConformanceRegistry, TLAPS

(* An entry says what its declaration says. *)
Renders(c, d) ==
    c.target = d.target /\ c.arguments = d.arguments /\ c.witnesses = d.witnesses

JobCoheres(j) ==
    /\ j.step # "idle" => j.file \in Files
    /\ j.todo # {} \/ j.free # {} => j.step = "next" /\ j.at \in DOMAIN j.version.declarations
    /\ \A c \in j.valid :
          /\ j.step # "idle"
          /\ c.file = j.file
          /\ c.index \in DOMAIN j.version.declarations
          /\ Renders(c, j.version.declarations[c.index])

JobsCohere == \A t \in Threads : JobCoheres(job[t])

DeclarationsCohere ==
    \A d, e \in registry :
        d.file = e.file /\ d.index = e.index
            => d.target = e.target /\ d.arguments = e.arguments

IInv == TypeOK /\ JobsCohere /\ DeclarationsCohere

-----------------------------------------------------------------------------
(* What a publication accepts *)

(* Publish(t), seen through the set it accepts of the candidates. *)
Publishes(t, f, v, accepted) ==
    /\ f = job[t].file /\ f \in Files
    /\ v = job[t].version /\ v \in Texts
    /\ accepted \subseteq job[t].valid
    /\ Accepts(job[t], accepted)
    /\ registry' = Foreign(f) \cup accepted
    /\ loaded_files' = [loaded_files EXCEPT ![f] = Recorded(accepted, v)]
    /\ trait_bindings' = [trait_bindings EXCEPT ![f] = v.bindings]
    /\ judged' = [judged EXCEPT ![f] = Contradicted(f, v)]
    /\ newer' = (newer \ {<<g, f>> : g \in Files}) \cup {<<f, g>> : g \in Files \ {f}}
    /\ job' = [job EXCEPT ![t] = Idle]
    /\ UNCHANGED analyses
    /\ \A c \in accepted :
          /\ c.file = f
          /\ c.index \in DOMAIN v.declarations
          /\ Renders(c, v.declarations[c.index])

(* A publication is one of what its analysis collected. *)
LEMMA PublishAccepts ==
    ASSUME IInv, NEW t \in Threads, Publish(t)
    PROVE  \E f, v, accepted : Publishes(t, f, v, accepted)
<1>1. PICK accepted \in SUBSET job[t].valid :
          /\ Accepts(job[t], accepted)
          /\ registry' = Foreign(job[t].file) \cup accepted
          /\ loaded_files' = [loaded_files EXCEPT ![job[t].file] =
                                  Recorded(accepted, job[t].version)]
  BY DEF Publish
<1>2. job[t] \in Jobs /\ JobCoheres(job[t]) /\ job[t].step = "publish"
  BY DEF IInv, TypeOK, JobsCohere, Publish
<1>3. job[t].file \in Files /\ job[t].version \in Texts
  BY <1>2 DEF JobCoheres, Jobs
<1>4. \A c \in accepted :
          /\ c.file = job[t].file
          /\ c.index \in DOMAIN job[t].version.declarations
          /\ Renders(c, job[t].version.declarations[c.index])
  BY <1>2 DEF JobCoheres
<1>5. Publishes(t, job[t].file, job[t].version, accepted)
  BY <1>1, <1>3, <1>4 DEF Publish, Publishes
<1>. QED
  BY <1>5

(* What was accepted stood the judgement against the other files and the   *)
(* declarations accepted before it.                                        *)
LEMMA AcceptedIsNotRefused ==
    ASSUME NEW t \in Threads, NEW f, NEW v, NEW accepted,
           Publishes(t, f, v, accepted), NEW c \in accepted
    PROVE  \E D, view :
              /\ c \in D
              /\ ~ Refused(D, view, v)
              /\ \A e : e \in view <=> \/ e \in registry /\ e.file # f
                                       \/ e \in accepted /\ e.index < c.index
<1>. DEFINE D == {d \in job[t].valid : d.index = c.index}
            view == Foreign(f) \cup {d \in accepted : d.index < c.index}
<1>1. c \in D /\ D \cap accepted # {}
  BY DEF Publishes
<1>2. IF Refused(D, view, v) THEN D \cap accepted = {} ELSE D \subseteq accepted
  BY DEF Publishes, Accepts
<1>3. \A e : e \in view <=> \/ e \in registry /\ e.file # f
                            \/ e \in accepted /\ e.index < c.index
  BY DEF Foreign
<1>. QED
  BY <1>1, <1>2, <1>3

(* Two entries of one file in different declarations are accepted one      *)
(* after the other.                                                        *)
LEMMA IndexOrder ==
    ASSUME NEW t \in Threads, NEW f, NEW v, NEW accepted,
           Publishes(t, f, v, accepted), NEW c \in accepted, NEW d \in accepted,
           c.index # d.index
    PROVE  c.index < d.index \/ d.index < c.index
<1>1. v.declarations \in Seq(Declarations)
  BY DEF Publishes, Texts
<1>2. c.index \in Nat /\ d.index \in Nat
  BY <1>1 DEF Publishes
<1>. QED
  BY <1>2

-----------------------------------------------------------------------------
(* The invariant *)

(* The entry a candidate becomes has the types of its declaration. *)
LEMMA CandidateType ==
    ASSUME NEW j \in Jobs, JobCoheres(j), j.free # {}
    PROVE  /\ j.at \in Nat
           /\ j.version.declarations[j.at] \in Declarations
           /\ \A trait \in j.free :
                 Entry(j.file, j.at, j.version.declarations[j.at], trait) \in Entries
<1>1. j.version.declarations \in Seq(Declarations) /\ j.at \in Nat
  BY DEF Jobs, Texts
<1>2. j.file \in Files /\ j.at \in DOMAIN j.version.declarations
  BY DEF JobCoheres
<1>3. j.version.declarations[j.at] \in Declarations
  BY <1>1, <1>2
<1>4. ASSUME NEW trait \in j.free
      PROVE  Entry(j.file, j.at, j.version.declarations[j.at], trait) \in Entries
  BY <1>1, <1>2, <1>3 DEF Entry, Entries, Declarations, Jobs
<1>. QED
  BY <1>1, <1>3, <1>4

(* The questions change one job only, to one that is well formed. *)
LEMMA JobStep ==
    ASSUME IInv, NEW t \in Threads, NEW j \in Jobs, JobCoheres(j),
           job' = [job EXCEPT ![t] = j], UNCHANGED <<stores, judged, newer>>,
           analyses' \in Nat
    PROVE  IInv'
<1>. USE DEF IInv, stores
<1>1. TypeOK'
  BY DEF TypeOK, Publisher
<1>2. JobsCohere'
  BY DEF JobsCohere, TypeOK
<1>3. DeclarationsCohere'
  BY DEF DeclarationsCohere
<1>. QED
  BY <1>1, <1>2, <1>3

(* The other part of a step: a publication. *)
LEMMA PublishStep ==
    ASSUME IInv, NEW t \in Threads, Publish(t)
    PROVE  IInv'
<1>1. PICK f, v, accepted : Publishes(t, f, v, accepted)
  BY PublishAccepts
<1>2. job[t] \in Jobs /\ accepted \subseteq Entries
  BY <1>1 DEF IInv, TypeOK, Publishes, Jobs
<1>3. f \in Files /\ v \in Texts
  BY <1>1 DEF Publishes
<1>4. Idle \in Jobs /\ JobCoheres(Idle)
  <2>1. <<>> \in Seq(Declarations)
    OBVIOUS
  <2>2. NoVersion \in Texts
    BY <2>1 DEF NoVersion, Texts
  <2>. QED
    BY <2>2 DEF Idle, Jobs, JobCoheres
<1>5. registry' \in SUBSET Entries
  BY <1>1, <1>2 DEF Publishes, Foreign, IInv, TypeOK
<1>6. trait_bindings' \in [Files -> SUBSET Bindings] /\ judged' \in [Files -> SUBSET Bindings]
  BY <1>1, <1>3 DEF Publishes, Contradicted, IInv, TypeOK, Texts
<1>7. loaded_files' \in [Files -> SUBSET Files]
  BY <1>1, <1>3 DEF Publishes, Recorded, IInv, TypeOK, Texts
<1>8. newer' \in SUBSET (Files \X Files)
  BY <1>1, <1>3 DEF Publishes, IInv, TypeOK
<1>9. job' \in [Threads -> Jobs] /\ JobsCohere'
  BY <1>1, <1>4 DEF Publishes, IInv, TypeOK, JobsCohere
<1>10. ASSUME NEW g \in Files
       PROVE  /\ judged'[g] \subseteq trait_bindings'[g]
              /\ loaded_files'[g] # {} => Publisher(g)' # {} \/ trait_bindings'[g] # {}
  <2>1. CASE g = f
    <3>1. Publisher(f)' = accepted
      BY <1>1 DEF Publishes, Publisher, Foreign
    <3>2. /\ judged'[f] = Contradicted(f, v)
          /\ trait_bindings'[f] = v.bindings
          /\ loaded_files'[f] = Recorded(accepted, v)
      BY <1>1, <1>3 DEF Publishes, IInv, TypeOK
    <3>. QED
      BY <2>1, <3>1, <3>2 DEF Contradicted, Recorded
  <2>2. CASE g # f
    <3>1. Publisher(g)' = Publisher(g)
      BY <1>1, <2>2 DEF Publishes, Publisher, Foreign
    <3>2. /\ judged'[g] = judged[g]
          /\ trait_bindings'[g] = trait_bindings[g]
          /\ loaded_files'[g] = loaded_files[g]
      BY <1>1, <2>2 DEF Publishes, IInv, TypeOK
    <3>. QED
      BY <3>1, <3>2 DEF IInv, TypeOK
  <2>. QED
    BY <2>1, <2>2
<1>11. DeclarationsCohere'
  BY <1>1 DEF Publishes, Foreign, Renders, IInv, DeclarationsCohere
<1>12. analyses' \in Nat
  BY <1>1 DEF Publishes, IInv, TypeOK
<1>13. TypeOK'
  BY <1>5, <1>6, <1>7, <1>8, <1>9, <1>10, <1>12 DEF TypeOK
<1>. QED
  BY <1>9, <1>11, <1>13 DEF IInv

(* Every step, a question as well as a publication, keeps IInv.            *)
LEMMA Invariance ==
    ASSUME IInv, [CRNext]_crvars
    PROVE  IInv'
<1>. USE DEF IInv
<1>1. ASSUME NEW t \in Threads, NEW f \in Files, NEW n \in 0 .. 2, Analyse(t, f, n)
      PROVE  IInv'
  <2>1. PICK v \in Versions[f] :
            job' = [job EXCEPT ![t] = [Idle EXCEPT !.step = "next", !.file = f, !.version = v]]
    BY <1>1 DEF Analyse
  <2>2. v \in Texts
    BY VersionAssumption
  <2>. DEFINE j == [Idle EXCEPT !.step = "next", !.file = f, !.version = v]
  <2>3. j \in Jobs /\ JobCoheres(j)
    BY <2>2 DEF Idle, Jobs, JobCoheres
  <2>4. UNCHANGED <<stores, judged, newer>> /\ analyses' \in Nat
    BY <1>1 DEF Analyse, TypeOK
  <2>. QED
    BY <2>1, <2>3, <2>4, JobStep
<1>2. ASSUME NEW t \in Threads, NextDeclaration(t)
      PROVE  IInv'
  <2>. DEFINE j == job[t]
              at == j.at + 1
              k == IF j.at < Len(j.version.declarations)
                   THEN [j EXCEPT !.at = @ + 1, !.unwitnessed = TRUE,
                                  !.todo = j.version.declarations[j.at + 1].traits]
                   ELSE [j EXCEPT !.step = "publish"]
  <2>1. j \in Jobs /\ JobCoheres(j) /\ j.step = "next" /\ j.todo = {} /\ j.free = {}
    BY <1>2 DEF TypeOK, JobsCohere, NextDeclaration
  <2>2. j.version.declarations \in Seq(Declarations) /\ j.at \in Nat
    BY <2>1 DEF Jobs, Texts
  <2>3. k \in Jobs /\ JobCoheres(k)
    <3>1. CASE j.at < Len(j.version.declarations)
      <4>1. at \in DOMAIN j.version.declarations
        BY <2>2, <3>1
      <4>2. j.version.declarations[at] \in Declarations
        BY <2>2, <4>1
      <4>3. k = [j EXCEPT !.at = at, !.unwitnessed = TRUE,
                          !.todo = j.version.declarations[at].traits]
        BY <2>1, <3>1 DEF Jobs
      <4>4. k \in Jobs
        <5>1. at \in Nat /\ j.version.declarations[at].traits \in SUBSET Traits
          BY <2>2, <4>2 DEF Declarations
        <5>. HIDE DEF k, at
        <5>. QED
          BY <2>1, <4>3, <5>1 DEF Jobs
      <4>. QED
        BY <2>1, <4>1, <4>3, <4>4 DEF Jobs, JobCoheres
    <3>2. CASE ~ j.at < Len(j.version.declarations)
      <4>1. k = [j EXCEPT !.step = "publish"]
        BY <3>2
      <4>. QED
        BY <2>1, <4>1 DEF Jobs, JobCoheres
    <3>. QED
      BY <3>1, <3>2
  <2>4. job' = [job EXCEPT ![t] = k] /\ UNCHANGED <<stores, judged, newer>> /\ analyses' \in Nat
    BY <1>2 DEF NextDeclaration, TypeOK
  <2>. QED
    BY <2>3, <2>4, JobStep
<1>3. ASSUME NEW t \in Threads, NEW trait \in Traits, AskMembership(t, trait)
      PROVE  IInv'
  <2>. DEFINE j == job[t]
              free == IF Taken(j, j.version.declarations[j.at], trait) THEN {} ELSE {trait}
              k == [j EXCEPT !.todo = @ \ {trait}, !.free = free]
  <2>1. j \in Jobs /\ JobCoheres(j) /\ j.step = "next" /\ trait \in j.todo
    BY <1>3 DEF TypeOK, JobsCohere, AskMembership
  <2>2. free \in SUBSET Traits
    OBVIOUS
  <2>3. k \in Jobs /\ JobCoheres(k)
    <3>. HIDE DEF free
    <3>. QED
      BY <2>1, <2>2 DEF Jobs, JobCoheres
  <2>4. job' = [job EXCEPT ![t] = k] /\ UNCHANGED <<stores, judged, newer>> /\ analyses' \in Nat
    <3>1. job' = [job EXCEPT ![t].todo = @ \ {trait}, ![t].free = free]
      BY <1>3 DEF AskMembership
    <3>2. UNCHANGED <<stores, judged, newer>> /\ analyses' \in Nat
      BY <1>3 DEF AskMembership, TypeOK
    <3>. HIDE DEF free
    <3>. QED
      BY <2>1, <3>1, <3>2 DEF TypeOK, Jobs
  <2>. QED
    BY <2>3, <2>4, JobStep
<1>4. ASSUME NEW t \in Threads, AskWitnesses(t)
      PROVE  IInv'
  <2>. DEFINE j == job[t]
              k == IF WitnessTaken(j, j.version.declarations[j.at])
                   THEN [j EXCEPT !.unwitnessed = FALSE, !.todo = {}, !.free = {}]
                   ELSE [j EXCEPT !.unwitnessed = FALSE]
  <2>1. j \in Jobs /\ JobCoheres(j)
    BY DEF TypeOK, JobsCohere
  <2>2. k \in Jobs /\ JobCoheres(k)
    BY <2>1 DEF Jobs, JobCoheres
  <2>3. job' = [job EXCEPT ![t] = k] /\ UNCHANGED <<stores, judged, newer>> /\ analyses' \in Nat
    BY <1>4 DEF AskWitnesses, TypeOK
  <2>. QED
    BY <2>2, <2>3, JobStep
<1>5. ASSUME NEW t \in Threads, AdmitTrait(t)
      PROVE  IInv'
  <2>. DEFINE j == job[t]
              fresh == {Entry(j.file, j.at, j.version.declarations[j.at], trait) :
                           trait \in j.free}
              k == [j EXCEPT !.free = {}, !.valid = @ \cup fresh]
  <2>1. j \in Jobs /\ JobCoheres(j) /\ j.free # {}
    BY <1>5 DEF TypeOK, JobsCohere, AdmitTrait
  <2>2. fresh \subseteq Entries
    BY <2>1, CandidateType
  <2>3. \A c \in fresh : /\ c.file = j.file
                         /\ c.index = j.at
                         /\ Renders(c, j.version.declarations[j.at])
    BY DEF Entry, Renders
  <2>4. k \in Jobs
    <3>. HIDE DEF fresh
    <3>. QED
      BY <2>1, <2>2 DEF Jobs
  <2>5. JobCoheres(k)
    <3>. HIDE DEF fresh
    <3>1. /\ k.step = j.step /\ k.file = j.file /\ k.version = j.version
          /\ k.at = j.at /\ k.todo = j.todo /\ k.free = {}
          /\ k.valid = j.valid \cup fresh
      BY <2>1 DEF Jobs
    <3>. HIDE DEF k
    <3>. QED
      BY <2>1, <2>3, <3>1 DEF JobCoheres
  <2>6. job' = [job EXCEPT ![t] = k] /\ UNCHANGED <<stores, judged, newer>> /\ analyses' \in Nat
    <3>1. job' = [job EXCEPT ![t].free = {}, ![t].valid = @ \cup fresh]
      BY <1>5 DEF AdmitTrait
    <3>2. UNCHANGED <<stores, judged, newer>> /\ analyses' \in Nat
      BY <1>5 DEF AdmitTrait, TypeOK
    <3>. HIDE DEF fresh
    <3>. QED
      BY <2>1, <3>1, <3>2 DEF TypeOK, Jobs
  <2>. QED
    BY <2>4, <2>5, <2>6, JobStep
<1>6. ASSUME NEW f \in Files, ClearFile(f)
      PROVE  IInv'
  <2>1. TypeOK'
    <3>1. ASSUME NEW g \in Files
          PROVE  /\ judged'[g] \subseteq trait_bindings'[g]
                 /\ loaded_files'[g] # {} => Publisher(g)' # {} \/ trait_bindings'[g] # {}
      <4>1. g # f => Publisher(g)' = Publisher(g)
        BY <1>6 DEF ClearFile, Publisher, Foreign
      <4>. QED
        BY <1>6, <4>1 DEF ClearFile, TypeOK
    <3>2. registry' \in SUBSET Entries
      BY <1>6 DEF ClearFile, Foreign, TypeOK
    <3>. QED
      BY <1>6, <3>1, <3>2 DEF ClearFile, TypeOK
  <2>2. JobsCohere' /\ DeclarationsCohere'
    BY <1>6 DEF ClearFile, Foreign, JobsCohere, DeclarationsCohere
  <2>. QED
    BY <2>1, <2>2
<1>7. CASE UNCHANGED crvars
  BY <1>7 DEF crvars, TypeOK, Publisher, JobsCohere, DeclarationsCohere
<1>. QED
  BY <1>1, <1>2, <1>3, <1>4, <1>5, <1>6, <1>7, PublishStep DEF CRNext

(* IInv holds in every state the registry reaches.                         *)
LEMMA Invariant == CRSpec => []IInv
<1>1. ASSUME CRInit PROVE IInv
  <2>1. Idle \in Jobs /\ JobCoheres(Idle)
    <3>1. <<>> \in Seq(Declarations)
      OBVIOUS
    <3>2. NoVersion \in Texts
      BY <3>1 DEF NoVersion, Texts
    <3>. QED
      BY <3>2 DEF Idle, Jobs, JobCoheres
  <2>2. TypeOK
    BY <1>1, <2>1 DEF CRInit, TypeOK, Publisher
  <2>3. JobsCohere /\ DeclarationsCohere
    BY <1>1, <2>1 DEF CRInit, JobsCohere, DeclarationsCohere
  <2>. QED
    BY <2>2, <2>3 DEF IInv
<1>2. IInv /\ [CRNext]_crvars => IInv'
  BY Invariance
<1>. QED
  BY <1>1, <1>2, PTL DEF CRSpec

(* The registry stays well typed, a file publishes under its own name, and *)
(* its load edges are kept only with something they license.               *)
THEOREM TypeCorrect == CRSpec => []TypeOK
<1>1. IInv => TypeOK
  BY DEF IInv
<1>. QED
  BY <1>1, Invariant, PTL

-----------------------------------------------------------------------------
(* What is never registered together *)

(* The steps that publish nothing leave entries, bindings and edges as     *)
(* they are, or drop those of one file.                                    *)
LEMMA OtherSteps ==
    ASSUME IInv, [CRNext]_crvars, ~ \E t \in Threads : Publish(t)
    PROVE  \/ UNCHANGED <<stores, judged, newer>>
           \/ \E f \in Files : ClearFile(f)
<1>1. CASE UNCHANGED crvars
  BY <1>1 DEF crvars, stores
<1>2. CASE CRNext
  BY <1>2 DEF CRNext, Analyse, NextDeclaration, AskMembership, AskWitnesses, AdmitTrait
<1>. QED
  BY <1>1, <1>2

(* One declaration makes a class conform to a trait, whoever asked what    *)
(* before it published: the publication judges it again, under the lock.   *)
THEOREM OneMembership == CRSpec => []MembershipIsUnique
<1>1. CRInit => MembershipIsUnique
  BY DEF CRInit, MembershipIsUnique
<1>2. ASSUME IInv, MembershipIsUnique, [CRNext]_crvars PROVE MembershipIsUnique'
  <2>1. CASE \E t \in Threads : Publish(t)
    <3>1. PICK t, f, v, accepted : t \in Threads /\ Publishes(t, f, v, accepted)
      BY <1>2, <2>1, PublishAccepts
    <3>2. ASSUME NEW d \in accepted, NEW e \in registry', d.target = e.target,
                 d.trait = e.trait, e.file # f \/ e.index < d.index
          PROVE  FALSE
      <4>1. PICK D, view : /\ d \in D
                           /\ ~ Refused(D, view, v)
                           /\ \A c : c \in view <=> \/ c \in registry /\ c.file # f
                                                    \/ c \in accepted /\ c.index < d.index
        BY <3>1, AcceptedIsNotRefused
      <4>2. e \in view
        BY <3>1, <3>2, <4>1 DEF Publishes, Foreign
      <4>. QED
        BY <3>2, <4>1, <4>2 DEF Refused, Duplicate
    <3>3. \A d, e \in accepted : d.index # e.index => d.index < e.index \/ e.index < d.index
      BY <3>1, IndexOrder
    <3>4. registry' = Foreign(f) \cup accepted /\ \A c \in accepted : c.file = f
      BY <3>1 DEF Publishes
    <3>. QED
      BY <1>2, <3>2, <3>3, <3>4 DEF MembershipIsUnique, Foreign
  <2>2. CASE ~ \E t \in Threads : Publish(t)
    BY <1>2, <2>2, OtherSteps DEF MembershipIsUnique, ClearFile, Foreign, stores
  <2>. QED
    BY <2>1, <2>2
<1>. QED
  BY <1>1, <1>2, Invariant, PTL DEF CRSpec

(* One declaration provides a method for a class, whether or not the files *)
(* that declare it know of each other.                                     *)
THEOREM OneWitness == CRSpec => []WitnessIsUnique
<1>1. CRInit => WitnessIsUnique
  BY DEF CRInit, WitnessIsUnique
<1>2. ASSUME IInv, WitnessIsUnique, [CRNext]_crvars PROVE WitnessIsUnique'
  <2>1. CASE \E t \in Threads : Publish(t)
    <3>1. PICK t, f, v, accepted : t \in Threads /\ Publishes(t, f, v, accepted)
      BY <1>2, <2>1, PublishAccepts
    <3>2. ASSUME NEW d \in accepted, NEW e \in registry', d.target = e.target,
                 d.witnesses \cap e.witnesses # {}, e.file # f \/ e.index < d.index
          PROVE  FALSE
      <4>1. PICK D, view : /\ d \in D
                           /\ ~ Refused(D, view, v)
                           /\ \A c : c \in view <=> \/ c \in registry /\ c.file # f
                                                    \/ c \in accepted /\ c.index < d.index
        BY <3>1, AcceptedIsNotRefused
      <4>2. e \in view
        BY <3>1, <3>2, <4>1 DEF Publishes, Foreign
      <4>3. e.witnesses \cap d.witnesses # {}
        BY <3>2
      <4>. QED
        BY <3>2, <4>1, <4>2, <4>3 DEF Refused, WitnessesCollide
    <3>3. \A d, e \in accepted : d.index # e.index => d.index < e.index \/ e.index < d.index
      BY <3>1, IndexOrder
    <3>4. registry' = Foreign(f) \cup accepted /\ \A c \in accepted : c.file = f
      BY <3>1 DEF Publishes
    <3>5. \A d, e : d.witnesses \cap e.witnesses = e.witnesses \cap d.witnesses
      OBVIOUS
    <3>. QED
      BY <1>2, <3>2, <3>3, <3>4, <3>5 DEF WitnessIsUnique, Foreign
  <2>2. CASE ~ \E t \in Threads : Publish(t)
    BY <1>2, <2>2, OtherSteps DEF WitnessIsUnique, ClearFile, Foreign, stores
  <2>. QED
    BY <2>1, <2>2
<1>. QED
  BY <1>1, <1>2, Invariant, PTL DEF CRSpec

(* Engine classes of one chain take the same arguments for a trait         *)
(* throughout the program, and so do other classes where the file that     *)
(* published last loads the other one.                                     *)
THEOREM Coherence == CRSpec => []ChainsCohere
<1>1. CRInit => ChainsCohere
  BY DEF CRInit, ChainsCohere
<1>2. ASSUME IInv, ChainsCohere, [CRNext]_crvars PROVE ChainsCohere'
  <2>1. CASE \E t \in Threads : Publish(t)
    <3>1. PICK t, f, v, accepted : t \in Threads /\ Publishes(t, f, v, accepted)
      BY <1>2, <2>1, PublishAccepts
    <3>2. registry' = Foreign(f) \cup accepted /\ \A c \in accepted : c.file = f
      BY <3>1 DEF Publishes
    <3>3. /\ \A d, e : Disagree(d, e) => Disagree(e, d)
          /\ \A d, e \in registry' : <<d.target, e.target>> \in OnChain
                => d.target # e.target /\ <<e.target, d.target>> \in OnChain
      <4>1. \A d \in registry' : d.target \in Targets
        BY <1>2, Invariance DEF IInv, TypeOK, Entries
      <4>. QED
        BY <4>1, ChainAssumption DEF Disagree
    <3>4. ASSUME NEW d \in accepted, NEW e \in registry',
                 e.file # f \/ e.index < d.index,
                 d.trait = e.trait, <<d.target, e.target>> \in OnChain,
                 \/ d.target \in Natives /\ e.target \in Natives
                 \/ e.file = f \/ e.file \in v.loads
          PROVE  ~ Disagree(d.arguments, e.arguments)
      <4>1. PICK D, view : /\ d \in D
                           /\ ~ Refused(D, view, v)
                           /\ \A c : c \in view <=> \/ c \in registry /\ c.file # f
                                                    \/ c \in accepted /\ c.index < d.index
        BY <3>1, AcceptedIsNotRefused
      <4>2. e \in view
        BY <3>2, <3>4, <4>1 DEF Foreign
      <4>3. ~ Incoherent(d, e, v)
        BY <4>1, <4>2 DEF Refused
      <4>. QED
        BY <3>2, <3>4, <4>3 DEF Incoherent, InSight
    <3>5. /\ f \in Files
          /\ loaded_files'[f] \subseteq v.loads
          /\ \A g : <<g, f>> \notin newer'
          /\ \A d \in Foreign(f) : /\ d.file \in Files
                                   /\ loaded_files'[d.file] = loaded_files[d.file]
          /\ \A g, h : <<g, h>> \in newer' /\ g # f => <<g, h>> \in newer
      <4>1. f \in Files /\ loaded_files' = [loaded_files EXCEPT ![f] = Recorded(accepted, v)]
        BY <3>1 DEF Publishes
      <4>2. \A d \in Foreign(f) : d.file \in Files /\ d.file # f
        BY <1>2 DEF IInv, TypeOK, Entries, Foreign
      <4>3. newer' = (newer \ {<<g, f>> : g \in Files}) \cup {<<f, g>> : g \in Files \ {f}}
        BY <3>1 DEF Publishes
      <4>4. newer \subseteq Files \X Files
        BY <1>2 DEF IInv, TypeOK
      <4>5. \A g : <<g, f>> \notin newer'
        BY <4>3, <4>4
      <4>6. \A g, h : <<g, h>> \in newer' /\ g # f => <<g, h>> \in newer
        BY <4>3
      <4>7. loaded_files'[f] \subseteq v.loads
        BY <1>2, <4>1 DEF IInv, TypeOK, Recorded
      <4>8. \A d \in Foreign(f) : loaded_files'[d.file] = loaded_files[d.file]
        BY <1>2, <4>1, <4>2 DEF IInv, TypeOK
      <4>. QED
        BY <4>1, <4>2, <4>5, <4>6, <4>7, <4>8
    <3>6. SUFFICES ASSUME NEW d \in registry', NEW e \in registry',
                          d.trait = e.trait, <<d.target, e.target>> \in OnChain,
                          \/ d.target \in Natives /\ e.target \in Natives
                          \/ d.file = e.file
                          \/ <<d.file, e.file>> \in newer' /\ e.file \in loaded_files'[d.file]
                   PROVE  ~ Disagree(d.arguments, e.arguments)
      BY DEF ChainsCohere
    <3>7. CASE d \in accepted /\ e \in accepted
      <4>1. d.index # e.index
        <5>1. /\ Renders(d, v.declarations[d.index])
              /\ Renders(e, v.declarations[e.index])
          BY <3>1, <3>7 DEF Publishes
        <5>. QED
          BY <3>3, <3>6, <5>1 DEF Renders
      <4>2. d.index < e.index \/ e.index < d.index
        BY <3>1, <3>7, <4>1, IndexOrder
      <4>3. e.index < d.index => ~ Disagree(d.arguments, e.arguments)
        BY <3>2, <3>4, <3>6, <3>7
      <4>4. d.index < e.index => ~ Disagree(e.arguments, d.arguments)
        BY <3>2, <3>3, <3>4, <3>6, <3>7
      <4>. QED
        BY <3>3, <4>2, <4>3, <4>4
    <3>8. CASE d \in accepted /\ e \in Foreign(f)
      BY <3>2, <3>4, <3>5, <3>6, <3>8 DEF Foreign
    <3>9. CASE d \in Foreign(f) /\ e \in accepted
      <4>1. d.target \in Natives /\ e.target \in Natives
        BY <3>2, <3>5, <3>6, <3>9 DEF Foreign
      <4>2. ~ Disagree(e.arguments, d.arguments)
        BY <3>2, <3>3, <3>4, <3>6, <3>9, <4>1 DEF Foreign
      <4>. QED
        BY <3>3, <4>2
    <3>10. CASE d \in Foreign(f) /\ e \in Foreign(f)
      BY <1>2, <3>5, <3>6, <3>10 DEF Foreign, ChainsCohere
    <3>. QED
      BY <3>2, <3>7, <3>8, <3>9, <3>10
  <2>2. CASE UNCHANGED <<stores, judged, newer>>
    BY <1>2, <2>2 DEF ChainsCohere, stores
  <2>3. CASE \E f \in Files : ClearFile(f)
    <3>1. PICK f \in Files : ClearFile(f)
      BY <2>3
    <3>2. \A d \in registry' : d \in registry /\ loaded_files'[d.file] = loaded_files[d.file]
      BY <1>2, <3>1 DEF ClearFile, Foreign, IInv, TypeOK, Entries
    <3>. QED
      BY <1>2, <3>1, <3>2 DEF ChainsCohere, ClearFile
  <2>. QED
    BY <1>2, <2>1, <2>2, <2>3, OtherSteps
<1>. QED
  BY <1>1, <1>2, Invariant, PTL DEF CRSpec

(* A binding and a conformance that contradicts it do not stand side by    *)
(* side unreported when a load edge joins their files in either direction. *)
THEOREM Judged == CRSpec => []BindingsAreJudged
<1>1. CRInit => BindingsAreJudged
  BY DEF CRInit, BindingsAreJudged
<1>2. ASSUME IInv, BindingsAreJudged, [CRNext]_crvars PROVE BindingsAreJudged'
  <2>0. SUFFICES ASSUME NEW e \in registry', NEW g \in Files, NEW b \in trait_bindings'[g],
                        e.file # g, e.trait = b.trait,
                        <<e.target, b.target>> \in OnChain,
                        Disagree(e.arguments, b.arguments),
                        g \in loaded_files'[e.file] \/ e.file \in loaded_files'[g]
                 PROVE  b \in judged'[g]
    BY DEF BindingsAreJudged
  <2>1. CASE \E t \in Threads : Publish(t)
    <3>1. PICK t, f, v, accepted : t \in Threads /\ Publishes(t, f, v, accepted)
      BY <1>2, <2>1, PublishAccepts
    <3>2. registry' = Foreign(f) \cup accepted /\ \A c \in accepted : c.file = f
      BY <3>1 DEF Publishes
    <3>3. /\ f \in Files
          /\ trait_bindings' = [trait_bindings EXCEPT ![f] = v.bindings]
          /\ judged' = [judged EXCEPT ![f] = Contradicted(f, v)]
          /\ loaded_files' = [loaded_files EXCEPT ![f] = Recorded(accepted, v)]
      BY <3>1 DEF Publishes
    <3>4. loaded_files'[f] \subseteq v.loads
      BY <1>2, <3>3 DEF IInv, TypeOK, Recorded
    <3>5. CASE e \in accepted
      <4>1. e.file = f /\ g # f
        BY <2>0, <3>2, <3>5
      <4>2. b \in trait_bindings[g] /\ loaded_files'[g] = loaded_files[g]
        BY <1>2, <2>0, <3>3, <4>1 DEF IInv, TypeOK
      <4>3. InSight(f, v, g) \/ FileLoads(g, f)
        BY <2>0, <3>4, <4>1, <4>2 DEF InSight, FileLoads
      <4>4. ~ ContradictsBinding(e, v)
        BY <3>1, <3>5, AcceptedIsNotRefused DEF Refused
      <4>5. Disagree(b.arguments, e.arguments)
        BY <2>0 DEF Disagree
      <4>. QED
        BY <2>0, <4>1, <4>2, <4>3, <4>4, <4>5 DEF ContradictsBinding
    <3>6. CASE e \in Foreign(f) /\ g = f
      <4>1. e.file \in Files /\ e.file # f
        BY <1>2, <3>6 DEF Foreign, IInv, TypeOK, Entries
      <4>2. loaded_files'[e.file] = loaded_files[e.file]
        BY <1>2, <3>3, <4>1 DEF IInv, TypeOK
      <4>3. InSight(f, v, e.file) \/ FileLoads(e.file, f)
        BY <2>0, <3>4, <3>6, <4>2 DEF InSight, FileLoads
      <4>4. b \in v.bindings /\ judged'[f] = Contradicted(f, v)
        BY <1>2, <2>0, <3>3, <3>6 DEF IInv, TypeOK
      <4>. QED
        BY <2>0, <3>6, <4>3, <4>4 DEF Contradicted
    <3>7. CASE e \in Foreign(f) /\ g # f
      <4>1. e \in registry /\ e.file \in Files /\ e.file # f
        BY <1>2, <3>7 DEF Foreign, IInv, TypeOK, Entries
      <4>2. /\ loaded_files'[e.file] = loaded_files[e.file]
            /\ loaded_files'[g] = loaded_files[g]
            /\ trait_bindings'[g] = trait_bindings[g]
            /\ judged'[g] = judged[g]
        BY <1>2, <2>0, <3>3, <3>7, <4>1 DEF IInv, TypeOK
      <4>. QED
        BY <1>2, <2>0, <4>1, <4>2 DEF BindingsAreJudged
    <3>. QED
      BY <3>2, <3>5, <3>6, <3>7
  <2>2. CASE UNCHANGED <<stores, judged, newer>>
    BY <1>2, <2>0, <2>2 DEF BindingsAreJudged, stores
  <2>3. CASE \E f \in Files : ClearFile(f)
    <3>1. PICK f \in Files : ClearFile(f)
      BY <2>3
    <3>2. e \in registry /\ e.file # f /\ e.file \in Files
      BY <1>2, <2>0, <3>1 DEF ClearFile, Foreign, IInv, TypeOK, Entries
    <3>3. g # f
      BY <1>2, <2>0, <3>1 DEF ClearFile, IInv, TypeOK
    <3>4. /\ loaded_files'[e.file] = loaded_files[e.file]
          /\ loaded_files'[g] = loaded_files[g]
          /\ trait_bindings'[g] = trait_bindings[g]
          /\ judged'[g] = judged[g]
      BY <1>2, <2>0, <3>1, <3>2, <3>3 DEF ClearFile, IInv, TypeOK
    <3>. QED
      BY <1>2, <2>0, <3>2, <3>4 DEF BindingsAreJudged
  <2>. QED
    BY <1>2, <2>1, <2>2, <2>3, OtherSteps
<1>. QED
  BY <1>1, <1>2, Invariant, PTL DEF CRSpec

=============================================================================
