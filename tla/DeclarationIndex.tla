-------------------------- MODULE DeclarationIndex --------------------------
(***************************************************************************)
(* BSDeclarationIndex: the records of the scripts of a project, guarded by *)
(* generation tokens, and the views derived from them.  Every action is    *)
(* one critical section of the code: generation_mutex and mutex are held   *)
(* from its guard to its last assignment, so threads interleave between    *)
(* actions.  clear(), load() and flush() are several critical sections and *)
(* are several actions here.                                               *)
(*                                                                         *)
(* How bytes reach the disk is the matter of StoreFile; here a store is    *)
(* what decoding its bytes yields.  The name and annotation views are      *)
(* rebuilt with the conformance view and are functions of by_path as it is.*)
(***************************************************************************)
EXTENDS Integers, FiniteSets

CONSTANTS
    Threads,        \* threads that refresh scripts
    Keepers,        \* threads that load, flush or clear the index
    Paths,          \* canonical res:// script paths
    HeadNames,          \* qualified head names
    Namespaces,     \* namespaces
    Global,         \* the empty namespace
    NoName,         \* the qualified name of a file with no head declaration
    NoRecord,       \* by_path has no entry
    Records,        \* the records analysis can produce
    Faults,         \* the load statuses damage to the bytes can cause
    MaxGeneration   \* bound of the model: generation_counter never exceeds it

ASSUME BoundAssumption == MaxGeneration \in Nat
ASSUME RecordsAssumption ==
    /\ NoRecord \notin Records
    /\ Global \in Namespaces
    /\ \A r \in Records :
          /\ r.name \in HeadNames \cup {NoName}
          /\ r.namespace \in Namespaces
          /\ r.conforms \in BOOLEAN

VARIABLES
    by_path,                \* path -> record
    generation_counter,     \* last generation handed out
    generation_floor,       \* every token up to it is dead
    generations,            \* path -> newest generation, 0 for no entry
    held,                   \* thread -> path -> token or revision it holds
    job,                    \* keeper -> the multi-step operation it is in
    changed,                \* thread -> namespaces it has still to report
    store,                  \* what decoding the index file yields
    written,                \* history: path -> token of the last write accepted for it
    told                    \* history: namespace -> view last reported

vars == <<by_path, generation_counter, generation_floor, generations, held,
          job, changed, store, written, told>>

tokenVars == <<generation_counter, generation_floor, generations>>

-----------------------------------------------------------------------------
(* Data *)

IndexImages == [Paths -> Records \cup {NoRecord}]
Empty  == [p \in Paths |-> NoRecord]

Idle == [step |-> "idle", image |-> Empty]

(* A file on disk: the status its bytes decode to before names are         *)
(* compared, and the records in it.                                        *)
Stores == [status : {"COLD", "OK"} \cup Faults, image : IndexImages]

-----------------------------------------------------------------------------
(* Derived views: _rebuild_views_unlocked runs after every change to by_path *)

(* The files that declare the name n. *)
Declaring(image, n) ==
    {p \in Paths : image[p] # NoRecord /\ image[p].name = n}

(* The conformance files of a namespace; the global one has no view. *)
ConformanceFiles(image, ns) ==
    {p \in Paths : /\ ns # Global
                   /\ image[p] # NoRecord
                   /\ image[p].namespace = ns
                   /\ image[p].conforms}

(* Mutant: the head name is reported in place of the namespace. *)
TouchedByName(r) ==
    IF r = NoRecord THEN {} ELSE IF r.conforms THEN {r.name} ELSE {}

(* The namespaces _insert_path and _erase_path report as changed. *)
Touched(r) ==
    IF r = NoRecord THEN {} ELSE IF r.conforms THEN {r.namespace} ELSE {}

-----------------------------------------------------------------------------
(* Tokens *)

Revision(p) ==
    IF generations[p] # 0 THEN generations[p] ELSE generation_floor

(* Mutant: any token above the floor is current. *)
AnyTokenAboveFloor(p, token) == token > generation_floor

IsTokenCurrent(p, token) ==
    /\ token # 0
    /\ token > generation_floor
    /\ generations[p] = token

NextGeneration == generation_counter + 1

RoomFor(n) == generation_counter + n <= MaxGeneration

-----------------------------------------------------------------------------
Init ==
    /\ by_path = Empty
    /\ generation_counter = 0
    /\ generation_floor = 0
    /\ generations = [p \in Paths |-> 0]
    /\ held = [t \in Threads |-> [p \in Paths |-> 0]]
    /\ job = [k \in Keepers |-> Idle]
    /\ changed = [t \in Threads |-> {}]
    /\ store = [status |-> "COLD", image |-> Empty]
    /\ written = [p \in Paths |-> 0]
    /\ told = [ns \in Namespaces |-> {}]

(* claim_refresh *)
ClaimRefresh(t, p) ==
    /\ RoomFor(1)
    /\ generation_counter' = NextGeneration
    /\ generations' = [generations EXCEPT ![p] = NextGeneration]
    /\ held' = [held EXCEPT ![t][p] = NextGeneration]
    /\ UNCHANGED <<by_path, generation_floor, job, changed, store,
                   written, told>>

(* claim_rename_refresh: the target is claimed first. *)
ClaimRenameRefresh(t, from, to) ==
    /\ from # to
    /\ RoomFor(2)
    /\ generation_counter' = generation_counter + 2
    /\ generations' = [generations EXCEPT ![to] = NextGeneration, ![from] = NextGeneration + 1]
    /\ held' = [held EXCEPT ![t] = [@ EXCEPT ![to] = NextGeneration, ![from] = NextGeneration + 1]]
    /\ UNCHANGED <<by_path, generation_floor, job, changed, store,
                   written, told>>

(* get_refresh_revision, which a parse records as its source revision. *)
GetRefreshRevision(t, p) ==
    /\ held' = [held EXCEPT ![t][p] = Revision(p)]
    /\ UNCHANGED <<by_path, tokenVars, job, changed, store,
                   written, told>>

(* invalidate_claims *)
InvalidateClaims(p) ==
    /\ RoomFor(1)
    /\ generation_counter' = NextGeneration
    /\ generations' = [generations EXCEPT ![p] = NextGeneration]
    /\ UNCHANGED <<by_path, generation_floor, held, job, changed,
                   store, written, told>>

(* Mutant: the floor rises but the table of generations is kept. *)
RaiseFloorOnly ==
    /\ RoomFor(1)
    /\ generation_counter' = NextGeneration
    /\ generation_floor' = NextGeneration
    /\ UNCHANGED generations

(* A floor above everything handed out; the table starts afresh. *)
RaiseFloor ==
    /\ RoomFor(1)
    /\ generation_counter' = NextGeneration
    /\ generation_floor' = NextGeneration
    /\ generations' = [p \in Paths |-> 0]

(* invalidate_all_claims *)
InvalidateAllClaims ==
    /\ RaiseFloor
    /\ UNCHANGED <<by_path, held, job, changed, store, written,
                   told>>

(* Mutant: only the namespace of the new record is reported. *)
CommitReportingNew(t, p, r) ==
    /\ IsTokenCurrent(p, held[t][p])
    /\ by_path' = [by_path EXCEPT ![p] = r]
    /\ changed' = [changed EXCEPT ![t] = @ \cup Touched(r)]
    /\ written' = [written EXCEPT ![p] = held[t][p]]
    /\ UNCHANGED <<tokenVars, held, job, store, told>>

(* commit_record; the caller owes the namespaces in changed a notice. *)
CommitRecord(t, p, r) ==
    /\ IsTokenCurrent(p, held[t][p])
    /\ by_path' = [by_path EXCEPT ![p] = r]
    /\ changed' = [changed EXCEPT ![t] = @ \cup Touched(by_path[p]) \cup Touched(r)]
    /\ written' = [written EXCEPT ![p] = held[t][p]]
    /\ UNCHANGED <<tokenVars, held, job, store, told>>

(* remove_path; its cleanup callback is modelled in SemanticRefresh. *)
RemovePath(t, p) ==
    /\ IsTokenCurrent(p, held[t][p])
    /\ by_path' = [by_path EXCEPT ![p] = NoRecord]
    /\ changed' = [changed EXCEPT ![t] = @ \cup Touched(by_path[p])]
    /\ written' = [written EXCEPT ![p] = held[t][p]]
    /\ UNCHANGED <<tokenVars, held, job, store, told>>

(* remove_path_unconditional *)
RemovePathUnconditional(t, p) ==
    /\ RoomFor(1)
    /\ generation_counter' = NextGeneration
    /\ generations' = [generations EXCEPT ![p] = NextGeneration]
    /\ by_path' = [by_path EXCEPT ![p] = NoRecord]
    /\ changed' = [changed EXCEPT ![t] = @ \cup Touched(by_path[p])]
    /\ written' = [written EXCEPT ![p] = NextGeneration]
    /\ UNCHANGED <<generation_floor, held, job, store, told>>

(* notify_conformance_namespaces_changed, outside the locks. *)
Notify(t) ==
    /\ changed[t] # {}
    /\ told' = [ns \in Namespaces |->
                  IF ns \in changed[t] THEN ConformanceFiles(by_path, ns)
                                       ELSE told[ns]]
    /\ changed' = [changed EXCEPT ![t] = {}]
    /\ UNCHANGED <<by_path, tokenVars, held, job, store, written>>

-----------------------------------------------------------------------------
(* clear, load and flush: operations of several critical sections *)

(* clear, first section: the floor kills every token. *)
BeginClear(k) ==
    /\ job[k] = Idle
    /\ RaiseFloor
    /\ job' = [job EXCEPT ![k] = [step |-> "clearing", image |-> Empty]]
    /\ UNCHANGED <<by_path, held, changed, store, written, told>>

(* clear, second section: the maps are emptied.  Nobody is notified: the   *)
(* history of what observers know starts afresh, as it does at a load.     *)
EndClear(k) ==
    /\ job[k].step = "clearing"
    /\ by_path' = Empty
    /\ job' = [job EXCEPT ![k] = Idle]
    /\ told' = [ns \in Namespaces |-> {}]
    /\ UNCHANGED <<tokenVars, held, changed, store, written>>

(* load reads and decodes the whole file before it takes a lock. *)
LoadRead(k) ==
    /\ job[k] = Idle
    /\ job' = [job EXCEPT ![k] = [step |-> store.status,
                               image |-> store.image]]
    /\ UNCHANGED <<by_path, tokenVars, held, changed, store,
                   written, told>>

DuplicateName(image) ==
    \E n \in HeadNames : \E p, q \in Declaring(image, n) : p # q

(* load installs a file that decoded, under both mutexes. *)
LoadInstall(k) ==
    /\ job[k].step = "OK"
    /\ ~DuplicateName(job[k].image)
    /\ RaiseFloor
    /\ by_path' = job[k].image
    /\ written' = [p \in Paths |-> NextGeneration]
    /\ told' = [ns \in Namespaces |-> ConformanceFiles(job[k].image, ns)]
    /\ job' = [job EXCEPT ![k] = Idle]
    /\ UNCHANGED <<held, changed, store>>

(* load rejects an absent, damaged or duplicate-name file by a clear. *)
LoadReject(k) ==
    /\ \/ job[k].step \in {"COLD"} \cup Faults
       \/ job[k].step = "OK" /\ DuplicateName(job[k].image)
    /\ RaiseFloor
    /\ job' = [job EXCEPT ![k] = [step |-> "clearing", image |-> Empty]]
    /\ UNCHANGED <<by_path, held, changed, store, written, told>>

(* flush takes a snapshot of the records under mutex. *)
FlushSnapshot(k) ==
    /\ job[k] = Idle
    /\ job' = [job EXCEPT ![k] = [step |-> "flushing", image |-> by_path]]
    /\ UNCHANGED <<by_path, tokenVars, held, changed, store,
                   written, told>>

(* flush replaces the file in one step, or fails and leaves it alone. *)
FlushPublish(k) ==
    /\ job[k].step = "flushing"
    /\ store' = [status |-> "OK", image |-> job[k].image]
    /\ job' = [job EXCEPT ![k] = Idle]
    /\ UNCHANGED <<by_path, tokenVars, held, changed, written, told>>

FlushFail(k) ==
    /\ job[k].step = "flushing"
    /\ job' = [job EXCEPT ![k] = Idle]
    /\ UNCHANGED <<by_path, tokenVars, held, changed, store,
                   written, told>>

(* The file is damaged, or deleted, by something else. *)
DamageStore(status) ==
    /\ store' = [status |-> status, image |-> Empty]
    /\ UNCHANGED <<by_path, tokenVars, held, job, changed, written,
                   told>>

Next ==
    \/ \E t \in Threads, p \in Paths :
          \/ ClaimRefresh(t, p)
          \/ GetRefreshRevision(t, p)
          \/ RemovePath(t, p)
          \/ RemovePathUnconditional(t, p)
          \/ \E to \in Paths : ClaimRenameRefresh(t, p, to)
          \/ \E r \in Records : CommitRecord(t, p, r)
    \/ \E t \in Threads : Notify(t)
    \/ \E p \in Paths : InvalidateClaims(p)
    \/ InvalidateAllClaims
    \/ \E k \in Keepers :
          \/ BeginClear(k)
          \/ EndClear(k)
          \/ LoadRead(k)
          \/ LoadInstall(k)
          \/ LoadReject(k)
          \/ FlushSnapshot(k)
          \/ FlushPublish(k)
          \/ FlushFail(k)
    \/ \E status \in {"COLD"} \cup Faults : DamageStore(status)

Spec == Init /\ [][Next]_vars

-----------------------------------------------------------------------------
(* Properties *)

(* The type of the index and of the history kept beside it. *)
TypeOK ==
    /\ by_path \in IndexImages
    /\ generation_counter \in Nat
    /\ generation_floor \in Nat
    /\ generations \in [Paths -> Nat]
    /\ held \in [Threads -> [Paths -> Nat]]
    /\ job \in [Keepers -> [step : {"idle", "clearing", "flushing", "COLD", "OK"}
                                      \cup Faults,
                             image : IndexImages]]
    /\ changed \in [Threads -> SUBSET Namespaces]
    /\ store \in Stores
    /\ written \in [Paths -> Nat]
    /\ told \in [Namespaces -> SUBSET Paths]

(* The token tables agree: the counter dominates all, and a generation that *)
(* is in the table was handed out after the last floor.  It is what makes   *)
(* the revision of a path grow when the floor rises and the table empties.  *)
TablesAgree ==
    /\ generation_floor <= generation_counter
    /\ \A p \in Paths :
          /\ generations[p] # 0 => generation_floor < generations[p]
          /\ generations[p] <= generation_counter

(* No thread and no record is ahead of the revision in force for a path.    *)
NoneAhead ==
    \A p \in Paths :
        /\ written[p] <= Revision(p)
        /\ \A t \in Threads : held[t][p] <= Revision(p)

TokenInv == TablesAgree /\ NoneAhead

(* The index keeps the promise of RefreshTokens: a write lands only under  *)
(* the revision in force, whatever claims, clears and loads interleave.    *)
Tokens == INSTANCE RefreshTokens WITH
    revision <- [p \in Paths |-> Revision(p)],
    writer   <- [p \in Paths |-> written[p]]

RefinesTokens == Tokens!Spec

(* An older refresh never overwrites the record, or the removal, of a newer *)
(* one: the revisions of successive accepted writes of a path never fall.   *)
OlderNeverOverwrites ==
    [][\A p \in Paths : written'[p] >= written[p]]_vars

(* When the set of conformance files of a namespace differs from the one   *)
(* its observers were last told of, some thread still owes them a notice:  *)
(* commit and remove report both the old and the new namespace of a path.  *)
(* clear and load notify nobody and are outside this promise.              *)
ObserversAreTold ==
    \A ns \in Namespaces :
        told[ns] # ConformanceFiles(by_path, ns) =>
            \E t \in Threads : ns \in changed[t]

=============================================================================
