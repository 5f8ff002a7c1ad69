-------------------------- MODULE SemanticRefresh ---------------------------
(***************************************************************************)
(* How the edited text of a script becomes the authority for its record    *)
(* and its conformances.  A refresh, a validation, a background analysis,  *)
(* a removal and a move run on any thread and are several critical         *)
(* sections of the cache mutex each; the actions below are those critical  *)
(* sections and the source reads made outside them.                        *)
(*                                                                         *)
(* A path's generation is a counter of its own here, since tokens of       *)
(* different paths are never compared (DeclarationIndex has the one        *)
(* counter, the floor and the records' views); which files depend on which *)
(* is ParserCache's matter, so a refresh may invalidate any set between    *)
(* its own path and Affects.                                               *)
(***************************************************************************)
EXTENDS Integers, FiniteSets

CONSTANTS
    Threads,
    Paths, NoPath,
    Texts,          \* contents of a script
    NoText,         \* a file that is missing, a path with no record
    Drafts,         \* path, text: what a caller may hand over
    Outcome,        \* path, text -> how analysing it ends there
    Affects,        \* path -> the files that may depend on it, itself too
    Observers,      \* path -> the files its namespace may reach
    MaxCalls        \* bound of the model: calls and edits begun

ASSUME TextAssumption ==
    /\ NoText \notin Texts
    /\ NoPath \notin Paths
    /\ Drafts \subseteq Paths \X Texts
    /\ Outcome \in [Paths \X Texts -> {"unparsed", "faulty", "refused", "clean"}]
ASSUME ReachAssumption ==
    /\ Affects \in [Paths -> SUBSET Paths]
    /\ Observers \in [Paths -> SUBSET Paths]
    /\ \A p \in Paths : p \in Affects[p] /\ p \notin Observers[p]

VARIABLES
    disk,                       \* path -> text on disk
    source_overrides,           \* path -> text in memory and its owner
    source_override_counter,    \* last owner handed out
    revision,                   \* path -> newest generation of the index
    records,                    \* path -> text of its record
    registry,                   \* path -> text of its conformances, revision
    job,                        \* thread -> what it is doing
    calls,                      \* calls and edits begun
    edited,                     \* history: what the editor left in memory
    crossed,                    \* history: paths whose guards overlapped
    asked                       \* history: path -> the newest claim on it

refreshVars == <<disk, source_overrides, source_override_counter, revision, records,
                 registry, job, calls, edited, crossed, asked>>

sourceVars == <<source_overrides, source_override_counter>>
history == <<edited, crossed, asked>>

-----------------------------------------------------------------------------
(* Data *)

(* Owner 0: no override. *)
NoOverride == [text |-> NoText, owner |-> 0]

NoConformances == [text |-> NoText, revision |-> 0]

NoClaim == [token |-> 0, text |-> NoText, lost |-> FALSE]

(* A job: claimed jobs may write the index under token; next is the second *)
(* path of a move; view is the source last read; prior what the guard hid. *)
Idle == [step |-> "idle", path |-> NoPath, text |-> NoText, token |-> 0,
         claimed |-> FALSE, next |-> NoPath, next_token |-> 0, owner |-> 0,
         prior |-> NoOverride, view |-> NoOverride, todo |-> {}]

(* read_source_code: the override when there is one, else the disk. *)
Source(p) ==
    IF source_overrides[p].owner # 0 THEN source_overrides[p]
    ELSE [text |-> disk[p], owner |-> 0]

(* with_current_source: the text analysed is still the one in force.  An   *)
(* unreadable file passes unless it is required.                           *)
SourceIsCurrent(p, text, view, required) ==
    /\ view.text = NoText => ~required
    /\ view.text # NoText => view.text = text
    /\ IF source_overrides[p].owner # 0
       THEN source_overrides[p] = [text |-> text, owner |-> view.owner]
       ELSE view.owner = 0

(* What a refresh of this text leaves in the index. *)
Accepted(p, x) == IF x \in Texts /\ Outcome[p, x] = "clean" THEN x ELSE NoText

Closures(seeds) ==
    {S \in SUBSET Paths :
        seeds \subseteq S /\ S \subseteq UNION {Affects[q] : q \in seeds}}

(* The job has nothing left but to close its guard, if it opened one. *)
Finish(j) ==
    IF j.owner = 0 THEN Idle
    ELSE [Idle EXCEPT !.step = "restore", !.path = j.path, !.owner = j.owner,
                      !.prior = j.prior]

(* The observers still to be told; after the last the source is read.      *)
Observing(j, todo) ==
    [j EXCEPT !.todo = todo, !.step = IF todo = {} THEN "read" ELSE "observe"]

Begin(n) == calls < MaxCalls /\ calls' = calls + n

(* The newest claim on p is disturbed when someone else changes the        *)
(* override its refresh installed.                                         *)
Disturbed(t, p) ==
    IF \E u \in Threads \ {t} : /\ job[u].path = p
                                /\ job[u].claimed
                                /\ job[u].owner # 0
                                /\ job[u].token = asked[p].token
    THEN [asked EXCEPT ![p].lost = TRUE]
    ELSE asked

-----------------------------------------------------------------------------
RefreshInit ==
    /\ disk \in [Paths -> Texts \cup {NoText}]
    /\ source_overrides = [p \in Paths |-> NoOverride]
    /\ source_override_counter = 0
    /\ revision = [p \in Paths |-> 0]
    /\ records = [p \in Paths |-> NoText]
    /\ registry = [p \in Paths |-> NoConformances]
    /\ job = [t \in Threads |-> Idle]
    /\ calls = 0
    /\ edited = [p \in Paths |-> NoText]
    /\ crossed = {}
    /\ asked = [p \in Paths |-> NoClaim]

(* A file is saved or deleted behind the program's back. *)
Save(p, x) ==
    /\ Begin(1)
    /\ disk[p] # x
    /\ disk' = [disk EXCEPT ![p] = x]
    /\ UNCHANGED <<sourceVars, revision, records, registry, job, history>>

-----------------------------------------------------------------------------
(* The calls *)

(* synchronize_declaration_path_from_source and _reload. *)
Refresh(t, p, x) ==
    /\ job[t].step = "idle"
    /\ Begin(1)
    /\ job' = [job EXCEPT ![t] = [Idle EXCEPT !.step = "prepare", !.path = p,
                                              !.text = x]]
    /\ UNCHANGED <<disk, sourceVars, revision, records, registry, history>>

(* _set_source_code: a permanent override, then the refresh. *)
SetSourceCode(t, p, x) ==
    /\ job[t].step = "idle"
    /\ Begin(1)
    /\ source_override_counter' = source_override_counter + 1
    /\ source_overrides' = [source_overrides EXCEPT
                              ![p] = [text |-> x, owner |-> source_override_counter + 1]]
    /\ edited' = [edited EXCEPT ![p] = x]
    /\ asked' = Disturbed(t, p)
    /\ job' = [job EXCEPT ![t] = [Idle EXCEPT !.step = "prepare", !.path = p,
                                              !.text = x]]
    /\ UNCHANGED <<disk, revision, records, registry, crossed>>

(* clear_source_override *)
ClearSourceOverride(t, p) ==
    /\ job[t].step = "idle"
    /\ Begin(1)
    /\ source_overrides[p] # NoOverride
    /\ source_overrides' = [source_overrides EXCEPT ![p] = NoOverride]
    /\ edited' = [edited EXCEPT ![p] = NoText]
    /\ asked' = Disturbed(t, p)
    /\ UNCHANGED <<disk, source_override_counter, revision, records, registry,
                   job, crossed>>

(* _validate, compile and _is_valid: analysed under a guard, no claim. *)
Validate(t, p, x) ==
    /\ job[t].step = "idle"
    /\ Begin(1)
    /\ job' = [job EXCEPT ![t] = [Idle EXCEPT !.step = "install", !.path = p,
                                              !.text = x]]
    /\ UNCHANGED <<disk, sourceVars, revision, records, registry, history>>

(* A parser generation raised on behalf of another file: no guard, and no  *)
(* write to the index.                                                     *)
Analyse(t, p) ==
    /\ job[t].step = "idle"
    /\ Begin(1)
    /\ job' = [job EXCEPT ![t] = [Idle EXCEPT !.step = "load", !.path = p]]
    /\ UNCHANGED <<disk, sourceVars, revision, records, registry, history>>

(* Mutant: only the path being refreshed loses its conformances. *)
DetachOnly(affected, seeds) ==
    /\ revision' = [q \in Paths |-> IF q \in affected THEN revision[q] + 1 ELSE revision[q]]
    /\ registry' = [q \in Paths |-> IF q \in seeds THEN NoConformances ELSE registry[q]]

(* prepare_semantic_refresh under the cache mutex: every affected path     *)
(* loses its claims and its conformances, then the seeds are claimed.      *)
Detach(affected, seeds) ==
    /\ revision' = [q \in Paths |-> IF q \in affected THEN revision[q] + 1 ELSE revision[q]]
    /\ registry' = [q \in Paths |-> IF q \in affected THEN NoConformances ELSE registry[q]]

(* The claim a refresh works under. *)
Prepare(t) ==
    LET p == job[t].path IN
    /\ job[t].step = "prepare"
    /\ \E affected \in Closures({p}) : Detach(affected, {p})
    /\ job' = [job EXCEPT ![t].step = "install", ![t].claimed = TRUE,
                          ![t].token = revision'[p]]
    /\ asked' = [asked EXCEPT ![p] = [token |-> revision'[p], text |-> job[t].text,
                                      lost |-> FALSE]]
    /\ UNCHANGED <<disk, sourceVars, records, calls, edited, crossed>>

(* remove_script: the claim, then the removal under it. *)
RemoveScript(t, p) ==
    /\ job[t].step = "idle"
    /\ Begin(1)
    /\ \E affected \in Closures({p}) : Detach(affected, {p})
    /\ job' = [job EXCEPT ![t] = [Idle EXCEPT !.step = "remove", !.path = p,
                                    !.claimed = TRUE, !.token = revision'[p]]]
    /\ asked' = [asked EXCEPT ![p] = [NoClaim EXCEPT !.token = revision'[p]]]
    /\ UNCHANGED <<disk, sourceVars, records, edited, crossed>>

(* move_script claims both paths at once. *)
MoveScript(t, from, to) ==
    /\ job[t].step = "idle"
    /\ from # to
    /\ Begin(1)
    /\ \E affected \in Closures({from, to}) : Detach(affected, {from, to})
    /\ job' = [job EXCEPT ![t] = [Idle EXCEPT !.step = "remove", !.path = from,
                                    !.claimed = TRUE, !.token = revision'[from],
                                    !.next = to, !.next_token = revision'[to]]]
    /\ asked' = [asked EXCEPT ![from] = [NoClaim EXCEPT !.token = revision'[from]],
                              ![to] = [NoClaim EXCEPT !.token = revision'[to]]]
    /\ UNCHANGED <<disk, sourceVars, records, edited, crossed>>

-----------------------------------------------------------------------------
(* The guard *)

(* BSCacheSourceOverrideGuard: install_source_override. *)
Install(t) ==
    LET p == job[t].path IN
    /\ job[t].step = "install"
    /\ source_override_counter' = source_override_counter + 1
    /\ source_overrides' = [source_overrides EXCEPT
                 ![p] = [text |-> job[t].text, owner |-> source_override_counter + 1]]
    /\ job' = [job EXCEPT ![t].step = "parse", ![t].prior = source_overrides[p],
                          ![t].owner = source_override_counter + 1]
    /\ asked' = Disturbed(t, p)
    /\ UNCHANGED <<disk, revision, records, registry, calls, edited, crossed>>

(* Guards on the path of t that another thread opened later. *)
OpenedLater(t) ==
    {u \in Threads : job[u].path = job[t].path /\ job[u].owner > job[t].owner}

(* Mutant: the guard puts back what it hid whatever happened since. *)
RestoreAlways(t) ==
    LET p == job[t].path IN
    /\ job[t].step = "restore"
    /\ source_overrides' = [source_overrides EXCEPT ![p] = job[t].prior]
    /\ crossed' = IF OpenedLater(t) # {} THEN crossed \cup {p} ELSE crossed
    /\ job' = [job EXCEPT ![t] = Idle]
    /\ UNCHANGED <<disk, source_override_counter, revision, records, registry,
                   calls, edited, asked>>

(* restore_source_override with p_preserve_changes: a change made since    *)
(* the guard was installed stays.                                          *)
Restore(t) ==
    LET p == job[t].path IN
    /\ job[t].step = "restore"
    /\ source_overrides' = IF source_overrides[p].owner = job[t].owner
                           THEN [source_overrides EXCEPT ![p] = job[t].prior]
                           ELSE source_overrides
    /\ crossed' = IF OpenedLater(t) # {} THEN crossed \cup {p} ELSE crossed
    /\ job' = [job EXCEPT ![t] = Idle]
    /\ UNCHANGED <<disk, source_override_counter, revision, records, registry,
                   calls, edited, asked>>

-----------------------------------------------------------------------------
(* The analysis *)

(* BSParserRef reads the source it is going to parse. *)
Load(t) ==
    LET source == Source(job[t].path) IN
    /\ job[t].step = "load"
    /\ job' = [job EXCEPT ![t] = IF source.text = NoText THEN Idle
                                 ELSE [@ EXCEPT !.step = "parse", !.text = source.text]]
    /\ UNCHANGED <<disk, sourceVars, revision, records, registry, calls, history>>

(* Mutant: a text that does not parse ends the refresh at once. *)
ParseGivingUp(t) ==
    LET j == job[t] IN
    /\ j.step = "parse"
    /\ job' = [job EXCEPT ![t] =
          LET read == [j EXCEPT !.token = IF j.claimed THEN j.token ELSE revision[j.path]]
          IN  IF Outcome[j.path, j.text] # "unparsed"
              THEN Observing(read, IF j.claimed THEN Observers[j.path] ELSE {})
              ELSE Finish(j)]
    /\ UNCHANGED <<disk, sourceVars, revision, records, registry, calls, history>>

(* parse() captures the revision it works at; a refresh keeps its claim.   *)
(* A text that does not parse goes straight to the final cleanup.          *)
Parse(t) ==
    LET j == job[t] IN
    /\ j.step = "parse"
    /\ job' = [job EXCEPT ![t] =
          LET read == [j EXCEPT !.token = IF j.claimed THEN j.token ELSE revision[j.path]]
          IN  IF Outcome[j.path, j.text] # "unparsed"
              THEN Observing(read, IF j.claimed THEN Observers[j.path] ELSE {})
              ELSE IF j.claimed THEN [read EXCEPT !.step = "reread"]
              ELSE Finish(j)]
    /\ UNCHANGED <<disk, sourceVars, revision, records, registry, calls, history>>

(* A refresh invalidates the files its namespace reaches, one by one; the  *)
(* token of the observer is dropped.                                       *)
Observe(t) ==
    /\ job[t].step = "observe"
    /\ \E q \in job[t].todo : \E affected \in Closures({q}) :
          /\ Detach(affected, {q})
          /\ job' = [job EXCEPT ![t] = Observing(@, @.todo \ {q})]
    /\ UNCHANGED <<disk, sourceVars, records, calls, history>>

(* with_current_source reads the source before it takes the lock. *)
ReadSource(t) ==
    LET clean == Outcome[job[t].path, job[t].text] = "clean" IN
    /\ job[t].step \in {"read", "reread"}
    /\ job' = [job EXCEPT ![t].view = Source(job[t].path),
                          ![t].step = IF @ = "read" THEN "publish"
                                      ELSE IF clean THEN "commit" ELSE "discard"]
    /\ UNCHANGED <<disk, sourceVars, revision, records, registry, calls, history>>

(* publish_conformances: refused when the source or the revision moved on. *)
Publish(t) ==
    LET j == job[t] IN
    /\ j.step = "publish"
    /\ registry' = IF /\ SourceIsCurrent(j.path, j.text, j.view, j.claimed)
                      /\ revision[j.path] = j.token
                   THEN [registry EXCEPT ![j.path] = [text |-> j.text, revision |-> j.token]]
                   ELSE registry
    /\ job' = [job EXCEPT ![t] = IF j.claimed THEN [j EXCEPT !.step = "reread", !.view = NoOverride] ELSE Finish(j)]
    /\ UNCHANGED <<disk, sourceVars, revision, records, calls, history>>

(* commit_or_remove_declaration after a clean analysis. *)
Commit(t) ==
    LET j == job[t] IN
    /\ j.step = "commit"
    /\ records' = IF /\ SourceIsCurrent(j.path, j.text, j.view, TRUE)
                     /\ revision[j.path] = j.token
                  THEN [records EXCEPT ![j.path] = j.text]
                  ELSE records
    /\ job' = [job EXCEPT ![t] = Finish(j)]
    /\ UNCHANGED <<disk, sourceVars, revision, registry, calls, history>>

(* Mutant: the cleanup of a failed refresh ignores its token. *)
DiscardAnyway(t) ==
    LET j == job[t]
        current == SourceIsCurrent(j.path, j.text, j.view, TRUE)
    IN
    /\ j.step = "discard"
    /\ records' = IF current THEN [records EXCEPT ![j.path] = NoText] ELSE records
    /\ registry' = IF current /\ Outcome[j.path, j.text] # "refused"
                   THEN [registry EXCEPT ![j.path] = NoConformances] ELSE registry
    /\ job' = [job EXCEPT ![t] = Finish(j)]
    /\ UNCHANGED <<disk, sourceVars, revision, calls, history>>

(* commit_or_remove_declaration after a failure: the prior record goes,    *)
(* and the conformances too unless only their registration was refused.    *)
Discard(t) ==
    LET j == job[t]
        current == /\ SourceIsCurrent(j.path, j.text, j.view, TRUE)
                   /\ revision[j.path] = j.token
    IN
    /\ j.step = "discard"
    /\ records' = IF current THEN [records EXCEPT ![j.path] = NoText] ELSE records
    /\ registry' = IF current /\ Outcome[j.path, j.text] # "refused"
                   THEN [registry EXCEPT ![j.path] = NoConformances] ELSE registry
    /\ job' = [job EXCEPT ![t] = Finish(j)]
    /\ UNCHANGED <<disk, sourceVars, revision, calls, history>>

(* remove_semantic_path: refused when a newer claim exists.  The second    *)
(* path of a move is looked at next.                                       *)
RemovePath(t) ==
    LET j == job[t]
        p == j.path
        current == revision[p] = j.token
    IN
    /\ j.step = "remove"
    /\ records' = IF current THEN [records EXCEPT ![p] = NoText] ELSE records
    /\ registry' = IF current THEN [registry EXCEPT ![p] = NoConformances] ELSE registry
    /\ source_overrides' = IF current THEN [source_overrides EXCEPT ![p] = NoOverride]
                           ELSE source_overrides
    /\ edited' = IF current THEN [edited EXCEPT ![p] = NoText] ELSE edited
    /\ job' = [job EXCEPT ![t] =
          IF j.next = NoPath THEN Idle
          ELSE [Idle EXCEPT !.step = "arrive", !.path = j.next, !.claimed = TRUE,
                            !.token = j.next_token]]
    /\ UNCHANGED <<disk, source_override_counter, revision, calls, crossed, asked>>

(* move_script reads its target and refreshes it, or removes it. *)
Arrive(t) ==
    LET p == job[t].path
        source == Source(p)
    IN
    /\ job[t].step = "arrive"
    /\ job' = [job EXCEPT ![t].step = IF source.text = NoText THEN "remove" ELSE "install",
                          ![t].text = source.text]
    /\ asked' = IF asked[p].token = job[t].token
                THEN [asked EXCEPT ![p].text = source.text] ELSE asked
    /\ UNCHANGED <<disk, sourceVars, revision, records, registry, calls, edited,
                   crossed>>

-----------------------------------------------------------------------------
RefreshNext ==
    \/ \E p \in Paths, x \in Texts \cup {NoText} : Save(p, x)
    \/ \E t \in Threads, draft \in Drafts :
          \/ Refresh(t, draft[1], draft[2])
          \/ SetSourceCode(t, draft[1], draft[2])
          \/ Validate(t, draft[1], draft[2])
    \/ \E t \in Threads, p \in Paths :
          \/ ClearSourceOverride(t, p)
          \/ Analyse(t, p)
          \/ RemoveScript(t, p)
    \/ \E t \in Threads, from, to \in Paths : MoveScript(t, from, to)
    \/ \E t \in Threads :
          \/ Prepare(t)
          \/ Install(t)
          \/ Restore(t)
          \/ Load(t)
          \/ Parse(t)
          \/ Observe(t)
          \/ ReadSource(t)
          \/ Publish(t)
          \/ Commit(t)
          \/ Discard(t)
          \/ RemovePath(t)
          \/ Arrive(t)

RefreshSpec == RefreshInit /\ [][RefreshNext]_refreshVars

-----------------------------------------------------------------------------
(* Properties *)

(* prepare_semantic_refresh and publish_conformances: the conformances in  *)
(* the registry are those of the path's present generation; none survives  *)
(* a newer claim on the file or on a file it depends on.                   *)
RegistryFollowsClaims ==
    \A p \in Paths :
        registry[p] # NoConformances => registry[p].revision = revision[p]

(* The test superseded_refresh_never_publishes_or_clears_newer_authority:  *)
(* a refresh, removal or move whose claim is no longer the newest leaves   *)
(* the record and the conformances of its path alone.  (Its notices to     *)
(* observers are a claim of their own.)                                    *)
SupersededIsHarmless ==
    [][\A t \in Threads :
          LET p == job[t].path IN
          (/\ job[t].claimed
           /\ job[t].step # "observe"
           /\ job[t].token # revision[p]
           /\ job'[t] # job[t])
          => records'[p] = records[p] /\ registry'[p] = registry[p]]_refreshVars

(* synchronize_declaration_path_from_source: once the newest refresh of a  *)
(* path ends, the index holds exactly what its text declares, and nothing  *)
(* after a failure or a removal, unless another thread replaced the text   *)
(* it had installed while it ran.                                          *)
LastRefreshWins ==
    \A p \in Paths :
        (/\ asked[p].token # 0
         /\ asked[p].token = revision[p]
         /\ ~ asked[p].lost
         /\ \A t \in Threads :
               /\ ~ (job[t].path = p /\ job[t].token = asked[p].token /\ job[t].claimed)
               /\ job[t].next # p)
        => records[p] = Accepted(p, asked[p].text)

Unguarded(p) == \A t \in Threads : job[t].path = p => job[t].owner = 0

(* BSCacheSourceOverrideGuard: when no guard is open on a path the buffer  *)
(* the editor left there is the one in force, provided that guards on it   *)
(* closed in the reverse of the order they opened.                         *)
NestedGuardsRestore ==
    \A p \in Paths :
        (p \notin crossed /\ Unguarded(p)) => source_overrides[p].text = edited[p]

=============================================================================
