----------------------- MODULE SemanticRefreshProofs ------------------------
(***************************************************************************)
(* Theorems about SemanticRefresh, for any threads, files, texts, outcomes *)
(* of analysis and reach, without a bound on the calls.                    *)
(***************************************************************************)
EXTENDS SemanticRefresh, TLAPS

-----------------------------------------------------------------------------
(* The invariant *)

Contents == Texts \cup {NoText}

Overrides == [text : Contents, owner : Nat]

Stepping == {"idle", "prepare", "install", "load", "parse", "observe", "read",
             "publish", "reread", "commit", "discard", "remove", "arrive", "restore"}

Jobs == [step : Stepping, path : Paths \cup {NoPath}, text : Contents, token : Nat,
         claimed : BOOLEAN, next : Paths \cup {NoPath}, next_token : Nat, owner : Nat,
         prior : Overrides, view : Overrides, todo : SUBSET Paths]

(* What the sources and the index hold. *)
StateOK ==
    /\ disk \in [Paths -> Contents]
    /\ source_overrides \in [Paths -> Overrides]
    /\ source_override_counter \in Nat
    /\ revision \in [Paths -> Nat]
    /\ DOMAIN registry = Paths

(* Whoever is at work has a file to work on. *)
JobsOK ==
    /\ job \in [Threads -> Jobs]
    /\ \A t \in Threads : job[t].step # "idle" => job[t].path \in Paths

IInv == StateOK /\ JobsOK /\ RegistryFollowsClaims

-----------------------------------------------------------------------------
(* Jobs *)

LEMMA IdleType == Idle \in Jobs /\ NoOverride \in Overrides
BY DEF Idle, Jobs, NoOverride, Overrides, Stepping, Contents

LEMMA FinishType ==
    ASSUME NEW j \in Jobs, j.path \in Paths
    PROVE  Finish(j) \in Jobs /\ (Finish(j).step # "idle" => Finish(j).path \in Paths)
BY DEF Finish, Idle, Jobs, NoOverride, Overrides, Stepping, Contents

LEMMA ObservingType ==
    ASSUME NEW j \in Jobs, NEW todo \in SUBSET Paths, j.path \in Paths
    PROVE  /\ Observing(j, todo) \in Jobs
           /\ Observing(j, todo).path = j.path /\ Observing(j, todo).text = j.text
           /\ Observing(j, todo).token = j.token /\ Observing(j, todo).claimed = j.claimed
           /\ Observing(j, todo).next = j.next /\ Observing(j, todo).owner = j.owner
           /\ Observing(j, todo).step \in {"read", "observe"}
           /\ todo = {} => Observing(j, todo).step = "read"
BY DEF Observing, Jobs, Stepping

LEMMA SourceType ==
    ASSUME StateOK, NEW p \in Paths
    PROVE  Source(p) \in Overrides
BY DEF StateOK, Source, Overrides

(* One thread moves on to a job with a file. *)
LEMMA JobStep ==
    ASSUME JobsOK, NEW t \in Threads, NEW j \in Jobs,
           job' = [job EXCEPT ![t] = j], j.step # "idle" => j.path \in Paths
    PROVE  JobsOK'
BY DEF JobsOK

(* A claim of any kind: generations only grow, and what is affected loses  *)
(* its conformances in the same critical section.                          *)
LEMMA DetachStep ==
    ASSUME StateOK, RegistryFollowsClaims, NEW affected, NEW seeds,
           Detach(affected, seeds),
           UNCHANGED <<disk, source_overrides, source_override_counter>>
    PROVE  StateOK' /\ RegistryFollowsClaims'
BY DEF StateOK, RegistryFollowsClaims, Detach

-----------------------------------------------------------------------------
(* Steps *)

LEMMA InitHolds == RefreshInit => IInv
<1>. SUFFICES ASSUME RefreshInit PROVE IInv
  OBVIOUS
<1>1. StateOK
  BY IdleType DEF RefreshInit, StateOK, Contents
<1>2. JobsOK
  BY IdleType DEF RefreshInit, JobsOK, Idle
<1>3. RegistryFollowsClaims
  BY DEF RefreshInit, RegistryFollowsClaims
<1>. QED
  BY <1>1, <1>2, <1>3 DEF IInv

(* The calls that leave the index to the steps after them. *)
LEMMA CallStep ==
    ASSUME IInv, NEW t \in Threads, NEW p \in Paths, NEW x \in Texts,
           \/ Refresh(t, p, x)
           \/ SetSourceCode(t, p, x)
           \/ Validate(t, p, x)
    PROVE  IInv'
<1>. USE DEF IInv
<1>1. RegistryFollowsClaims'
  BY DEF RegistryFollowsClaims, Refresh, SetSourceCode, Validate
<1>2. StateOK'
  BY IdleType DEF StateOK, Refresh, SetSourceCode, Validate, sourceVars, Overrides, Contents
<1>3. \E j \in Jobs : j.path = p /\ job' = [job EXCEPT ![t] = j]
  <2>. DEFINE begun(step) == [Idle EXCEPT !.step = step, !.path = p, !.text = x]
  <2>1. \A step \in {"prepare", "install"} : begun(step) \in Jobs /\ begun(step).path = p
    BY DEF Idle, Jobs, NoOverride, Overrides, Stepping, Contents
  <2>. QED
    BY <2>1 DEF Refresh, SetSourceCode, Validate
<1>. QED
  BY <1>1, <1>2, <1>3, JobStep

(* The steps that claim, and revise the registry under the claim. *)
LEMMA ClaimStep ==
    ASSUME IInv, NEW t \in Threads, NEW p \in Paths, NEW to \in Paths,
           \/ Prepare(t)
           \/ Observe(t)
           \/ RemoveScript(t, p)
           \/ MoveScript(t, p, to)
    PROVE  IInv'
<1>. USE DEF IInv
<1>1. StateOK' /\ RegistryFollowsClaims'
  <2>1. /\ \E affected, seeds \in SUBSET Paths : Detach(affected, seeds)
        /\ UNCHANGED <<disk, source_overrides, source_override_counter>>
    <3>1. \A seeds : Closures(seeds) \subseteq SUBSET Paths
      BY DEF Closures
    <3>2. CASE Prepare(t)
      <4>1. job[t].path \in Paths
        BY <3>2 DEF Prepare, JobsOK
      <4>. QED
        BY <3>1, <3>2, <4>1 DEF Prepare, sourceVars
    <3>3. CASE Observe(t)
      <4>1. job[t].todo \subseteq Paths
        BY DEF JobsOK, Jobs
      <4>. QED
        BY <3>1, <3>3, <4>1 DEF Observe, sourceVars
    <3>4. CASE RemoveScript(t, p)
      BY <3>1, <3>4 DEF RemoveScript, sourceVars
    <3>5. CASE MoveScript(t, p, to)
      BY <3>1, <3>5 DEF MoveScript, sourceVars
    <3>. QED
      BY <3>2, <3>3, <3>4, <3>5
  <2>. QED
    BY <2>1, DetachStep
<1>2. JobsOK'
  <2>1. CASE Prepare(t)
    <3>1. job[t] \in Jobs /\ job[t].path \in Paths
      BY <2>1 DEF Prepare, JobsOK
    <3>2. revision'[job[t].path] \in Nat
      BY <1>1, <3>1 DEF StateOK
    <3>. DEFINE j == [job[t] EXCEPT !.step = "install", !.claimed = TRUE,
                                    !.token = revision'[job[t].path]]
    <3>3. j \in Jobs /\ j.path \in Paths
      BY <3>1, <3>2 DEF Jobs, Stepping
    <3>4. job' = [job EXCEPT ![t] = j]
      BY <2>1 DEF Prepare, JobsOK
    <3>. QED
      BY <3>3, <3>4, JobStep
  <2>2. CASE Observe(t)
    <3>1. job[t] \in Jobs /\ job[t].path \in Paths
      BY <2>2 DEF Observe, JobsOK
    <3>2. PICK q \in job[t].todo :
              job' = [job EXCEPT ![t] = Observing(job[t], job[t].todo \ {q})]
      BY <2>2 DEF Observe, JobsOK
    <3>3. job[t].todo \ {q} \in SUBSET Paths
      BY <3>1 DEF Jobs
    <3>. QED
      BY <3>1, <3>2, <3>3, ObservingType, JobStep
  <2>3. CASE RemoveScript(t, p)
    <3>. DEFINE j == [Idle EXCEPT !.step = "remove", !.path = p,
                                  !.claimed = TRUE, !.token = revision'[p]]
    <3>1. revision'[p] \in Nat
      BY <1>1 DEF StateOK
    <3>2. j \in Jobs /\ j.path \in Paths
      BY <3>1 DEF Idle, Jobs, NoOverride, Overrides, Stepping, Contents
    <3>3. job' = [job EXCEPT ![t] = j]
      BY <2>3 DEF RemoveScript
    <3>. QED
      BY <3>2, <3>3, JobStep
  <2>4. CASE MoveScript(t, p, to)
    <3>. DEFINE j == [Idle EXCEPT !.step = "remove", !.path = p,
                                  !.claimed = TRUE, !.token = revision'[p],
                                  !.next = to, !.next_token = revision'[to]]
    <3>1. revision'[p] \in Nat /\ revision'[to] \in Nat
      BY <1>1 DEF StateOK
    <3>2. j \in Jobs /\ j.path \in Paths
      BY <3>1 DEF Idle, Jobs, NoOverride, Overrides, Stepping, Contents
    <3>3. job' = [job EXCEPT ![t] = j]
      BY <2>4 DEF MoveScript
    <3>. QED
      BY <3>2, <3>3, JobStep
  <2>. QED
    BY <2>1, <2>2, <2>3, <2>4
<1>. QED
  BY <1>1, <1>2

(* The guard. *)
LEMMA GuardStep ==
    ASSUME IInv, NEW t \in Threads, Install(t) \/ Restore(t)
    PROVE  IInv'
<1>. USE DEF IInv
<1>1. job[t] \in Jobs /\ job[t].path \in Paths
  BY DEF Install, Restore, JobsOK
<1>2. RegistryFollowsClaims'
  BY DEF RegistryFollowsClaims, Install, Restore
<1>3. CASE Install(t)
  <2>. DEFINE j == [job[t] EXCEPT !.step = "parse", !.prior = source_overrides[job[t].path],
                                  !.owner = source_override_counter + 1]
  <2>1. source_overrides[job[t].path] \in Overrides /\ source_override_counter + 1 \in Nat
    BY <1>1 DEF StateOK
  <2>2. j \in Jobs /\ j.path \in Paths
    BY <1>1, <2>1 DEF Jobs, Stepping
  <2>3. job' = [job EXCEPT ![t] = j]
    BY <1>3 DEF Install, JobsOK
  <2>4. [text |-> job[t].text, owner |-> source_override_counter + 1] \in Overrides
    BY <1>1, <2>1 DEF Jobs, Overrides
  <2>5. StateOK'
    BY <1>3, <2>1, <2>4 DEF Install, StateOK
  <2>. QED
    BY <1>2, <2>2, <2>3, <2>5, JobStep
<1>4. CASE Restore(t)
  <2>1. job[t].prior \in Overrides
    BY <1>1 DEF Jobs
  <2>2. StateOK'
    BY <1>4, <2>1 DEF Restore, StateOK
  <2>3. JobsOK'
    BY <1>4, IdleType, JobStep DEF Restore, Idle
  <2>. QED
    BY <1>2, <2>2, <2>3
<1>. QED
  BY <1>3, <1>4

(* The analysis up to its writes. *)
LEMMA AnalysisStep ==
    ASSUME IInv, NEW t \in Threads,
           Load(t) \/ Parse(t) \/ ReadSource(t) \/ Arrive(t)
    PROVE  IInv'
<1>. USE DEF IInv
<1>. DEFINE source == Source(job[t].path)
<1>1. job[t] \in Jobs /\ job[t].path \in Paths
  BY DEF Load, Parse, ReadSource, Arrive, JobsOK
<1>2. source \in Overrides
  BY <1>1, SourceType
<1>3. StateOK' /\ RegistryFollowsClaims'
  BY DEF StateOK, RegistryFollowsClaims, Load, Parse, ReadSource, Arrive, sourceVars
<1>4. JobsOK'
  <2>1. CASE Load(t)
    <3>. DEFINE j == [job[t] EXCEPT !.step = "parse", !.text = source.text]
    <3>1. j \in Jobs /\ j.path \in Paths
      BY <1>1, <1>2 DEF Jobs, Stepping, Overrides
    <3>2. \/ job' = [job EXCEPT ![t] = Idle]
          \/ job' = [job EXCEPT ![t] = j]
      BY <2>1 DEF Load, JobsOK
    <3>. QED
      BY <3>1, <3>2, IdleType, JobStep DEF Idle
  <2>2. CASE Parse(t)
    <3>. DEFINE read == [job[t] EXCEPT !.token = IF job[t].claimed THEN job[t].token
                                                 ELSE revision[job[t].path]]
                seen == IF job[t].claimed THEN Observers[job[t].path] ELSE {}
                reread == [read EXCEPT !.step = "reread"]
    <3>1. read \in Jobs /\ read.path \in Paths
      BY <1>1 DEF Jobs, StateOK
    <3>2. reread \in Jobs /\ reread.path \in Paths
      BY <3>1 DEF Jobs, Stepping
    <3>3. seen \in SUBSET Paths
      BY <1>1, ReachAssumption
    <3>4. \/ job' = [job EXCEPT ![t] = Observing(read, seen)]
          \/ job' = [job EXCEPT ![t] = reread]
          \/ job' = [job EXCEPT ![t] = Finish(job[t])]
      BY <2>2 DEF Parse
    <3>5. CASE job' = [job EXCEPT ![t] = Observing(read, seen)]
      <4>. HIDE DEF read, seen
      <4>1. Observing(read, seen) \in Jobs /\ Observing(read, seen).path \in Paths
        BY <3>1, <3>3, ObservingType
      <4>. QED
        BY <3>5, <4>1, JobStep
    <3>6. CASE job' = [job EXCEPT ![t] = reread]
      BY <3>2, <3>6, JobStep
    <3>7. CASE job' = [job EXCEPT ![t] = Finish(job[t])]
      BY <1>1, <3>7, FinishType, JobStep
    <3>. QED
      BY <3>4, <3>5, <3>6, <3>7
  <2>3. CASE ReadSource(t)
    <3>1. PICK step \in {"publish", "commit", "discard"} :
              job' = [job EXCEPT ![t] = [job[t] EXCEPT !.view = source, !.step = step]]
      BY <2>3 DEF ReadSource, JobsOK
    <3>2. [job[t] EXCEPT !.view = source, !.step = step] \in Jobs
      BY <1>1, <1>2, <3>1 DEF Jobs, Stepping
    <3>3. [job[t] EXCEPT !.view = source, !.step = step].path \in Paths
      BY <1>1 DEF Jobs
    <3>. QED
      BY <3>1, <3>2, <3>3, JobStep
  <2>4. CASE Arrive(t)
    <3>1. PICK step \in {"remove", "install"} :
              job' = [job EXCEPT ![t] = [job[t] EXCEPT !.step = step, !.text = source.text]]
      BY <2>4 DEF Arrive, JobsOK
    <3>2. [job[t] EXCEPT !.step = step, !.text = source.text] \in Jobs
      BY <1>1, <1>2, <3>1 DEF Jobs, Stepping, Overrides
    <3>3. [job[t] EXCEPT !.step = step, !.text = source.text].path \in Paths
      BY <1>1 DEF Jobs
    <3>. QED
      BY <3>1, <3>2, <3>3, JobStep
  <2>. QED
    BY <2>1, <2>2, <2>3, <2>4
<1>. QED
  BY <1>3, <1>4

(* The writes to the index. *)
LEMMA WriteStep ==
    ASSUME IInv, NEW t \in Threads,
           Publish(t) \/ Commit(t) \/ Discard(t) \/ RemovePath(t)
    PROVE  IInv'
<1>. USE DEF IInv
<1>1. job[t] \in Jobs /\ job[t].path \in Paths
  BY DEF Publish, Commit, Discard, RemovePath, JobsOK
<1>2. StateOK'
  BY IdleType DEF StateOK, Publish, Commit, Discard, RemovePath, sourceVars
<1>3. RegistryFollowsClaims'
  <2>1. CASE Publish(t)
    BY <2>1 DEF Publish, StateOK, RegistryFollowsClaims
  <2>2. CASE Commit(t) \/ Discard(t) \/ RemovePath(t)
    BY <2>2 DEF Commit, Discard, RemovePath, StateOK, RegistryFollowsClaims
  <2>. QED
    BY <2>1, <2>2
<1>4. JobsOK'
  <2>1. CASE Publish(t)
    <3>. DEFINE j == [job[t] EXCEPT !.step = "reread", !.view = NoOverride]
    <3>1. j \in Jobs /\ j.path \in Paths
      BY <1>1, IdleType DEF Jobs, Stepping
    <3>2. \/ job' = [job EXCEPT ![t] = j]
          \/ job' = [job EXCEPT ![t] = Finish(job[t])]
      BY <2>1 DEF Publish
    <3>. QED
      BY <1>1, <3>1, <3>2, FinishType, JobStep
  <2>2. CASE Commit(t) \/ Discard(t)
    BY <1>1, <2>2, FinishType, JobStep DEF Commit, Discard
  <2>3. CASE RemovePath(t)
    <3>. DEFINE j == [Idle EXCEPT !.step = "arrive", !.path = job[t].next, !.claimed = TRUE,
                                  !.token = job[t].next_token]
    <3>1. job[t].next # NoPath => j \in Jobs /\ j.path \in Paths
      BY <1>1 DEF Idle, Jobs, NoOverride, Overrides, Stepping, Contents
    <3>2. \/ job' = [job EXCEPT ![t] = Idle]
          \/ job[t].next # NoPath /\ job' = [job EXCEPT ![t] = j]
      BY <2>3 DEF RemovePath
    <3>. QED
      BY <3>1, <3>2, IdleType, JobStep DEF Idle
  <2>. QED
    BY <2>1, <2>2, <2>3
<1>. QED
  BY <1>2, <1>3, <1>4

LEMMA NextKeeps == IInv /\ [RefreshNext]_refreshVars => IInv'
<1>. SUFFICES ASSUME IInv, [RefreshNext]_refreshVars PROVE IInv'
  OBVIOUS
<1>1. ASSUME NEW p \in Paths, NEW x \in Texts \cup {NoText}, Save(p, x) PROVE IInv'
  BY <1>1 DEF Save, sourceVars, IInv, StateOK, JobsOK, RegistryFollowsClaims, Contents
<1>2. ASSUME NEW t \in Threads, NEW draft \in Drafts,
             \/ Refresh(t, draft[1], draft[2])
             \/ SetSourceCode(t, draft[1], draft[2])
             \/ Validate(t, draft[1], draft[2])
      PROVE  IInv'
  <2>1. draft[1] \in Paths /\ draft[2] \in Texts
    BY TextAssumption
  <2>. QED
    BY <1>2, <2>1, CallStep
<1>3. ASSUME NEW t \in Threads, NEW p \in Paths, ClearSourceOverride(t, p) \/ Analyse(t, p)
      PROVE  IInv'
  <2>1. UNCHANGED <<revision, registry>>
    BY <1>3 DEF ClearSourceOverride, Analyse
  <2>2. StateOK'
    BY <1>3, IdleType
    DEF IInv, StateOK, ClearSourceOverride, Analyse, sourceVars
  <2>3. JobsOK'
    <3>1. CASE ClearSourceOverride(t, p)
      BY <3>1 DEF ClearSourceOverride, IInv, JobsOK
    <3>2. CASE Analyse(t, p)
      <4>. DEFINE j == [Idle EXCEPT !.step = "load", !.path = p]
      <4>1. j \in Jobs /\ j.path \in Paths
        BY DEF Idle, Jobs, NoOverride, Overrides, Stepping, Contents
      <4>. QED
        BY <3>2, <4>1, JobStep DEF Analyse, IInv
    <3>. QED
      BY <1>3, <3>1, <3>2
  <2>. QED
    BY <2>1, <2>2, <2>3 DEF IInv, RegistryFollowsClaims
<1>4. ASSUME NEW t \in Threads, NEW p \in Paths, RemoveScript(t, p) PROVE IInv'
  BY <1>4, ClaimStep
<1>5. ASSUME NEW t \in Threads, NEW from \in Paths, NEW to \in Paths,
             MoveScript(t, from, to)
      PROVE  IInv'
  BY <1>5, ClaimStep
<1>6. ASSUME NEW t \in Threads, Prepare(t) \/ Observe(t) PROVE IInv'
  <2>1. job[t].path \in Paths
    BY <1>6 DEF Prepare, Observe, IInv, JobsOK
  <2>. QED
    BY <1>6, <2>1, ClaimStep
<1>7. ASSUME UNCHANGED refreshVars PROVE IInv'
  BY <1>7 DEF refreshVars, IInv, StateOK, JobsOK, RegistryFollowsClaims
<1>. QED
  BY <1>1, <1>2, <1>3, <1>4, <1>5, <1>6, <1>7, GuardStep, AnalysisStep, WriteStep DEF RefreshNext

-----------------------------------------------------------------------------
(* Who may write: the invariant of LastRefreshWins *)

Writing == {"observe", "reread", "commit", "discard", "remove", "arrive"}

AskedOK ==
    /\ asked \in [Paths -> [token : Nat, text : Contents, lost : BOOLEAN]]
    /\ DOMAIN records = Paths

(* Only a claimed job comes to write the record of its path, and only a    *)
(* removal has a second path to go to.                                     *)
StageOK(j) ==
    /\ j.claimed => j.step \notin {"idle", "prepare", "load", "restore"}
    /\ j.step \in Writing => j.claimed
    /\ j.step = "prepare" => j.text \in Texts
    /\ j.next # NoPath => j.step = "remove" /\ j.next # j.path

StagesOK == \A t \in Threads : StageOK(job[t])

(* No claim is newer than the one asked for last, and no two jobs have the *)
(* same one, held or waiting as the second path of a move.                 *)
ClaimsAreApart ==
    /\ \A p \in Paths : asked[p].token <= revision[p]
    /\ \A t \in Threads :
          /\ job[t].claimed => job[t].token <= asked[job[t].path].token
          /\ job[t].next # NoPath => job[t].next_token <= asked[job[t].next].token
    /\ \A t, u \in Threads : t # u =>
          /\ job[t].claimed /\ job[u].claimed /\ job[t].path = job[u].path
                => job[t].token # job[u].token
          /\ job[t].claimed /\ job[u].next = job[t].path
                => job[t].token # job[u].next_token
          /\ job[t].next # NoPath /\ job[t].next = job[u].next
                => job[t].next_token # job[u].next_token

(* Every guard has an owner of its own. *)
OwnersAreApart ==
    /\ \A t \in Threads : job[t].owner <= source_override_counter
    /\ \A t, u \in Threads : t # u /\ job[t].owner # 0 => job[t].owner # job[u].owner

(* A job with the claim asked for works on the text it was asked for, and  *)
(* unless disturbed the override it installed is the one in force.         *)
InForce(j, claim, override) ==
    (j.claimed /\ j.token = claim.token /\ ~ claim.lost) =>
        /\ j.step # "arrive" => claim.text = j.text
        /\ j.step = "remove" => j.text = NoText
        /\ j.step \notin {"remove", "arrive"} => j.text \in Texts
        /\ j.step \notin {"remove", "arrive", "install"} =>
              /\ j.owner # 0
              /\ override = [text |-> j.text, owner |-> j.owner]
        /\ j.step \in {"publish", "commit", "discard"} =>
              j.view = [text |-> j.text, owner |-> j.owner]
        /\ j.step = "commit" => Outcome[j.path, j.text] = "clean"
        /\ j.step = "discard" => Outcome[j.path, j.text] # "clean"

HoldersInForce ==
    \A t \in Threads :
        job[t].claimed => InForce(job[t], asked[job[t].path], source_overrides[job[t].path])

(* The newest claim on p is at work. *)
Held(p) ==
    \E t \in Threads :
        \/ job[t].path = p /\ job[t].token = asked[p].token /\ job[t].claimed
        \/ job[t].next = p /\ job[t].next_token = asked[p].token

(* LastRefreshWins, of moves whose second claim is out of date as well. *)
NewestWins ==
    \A p \in Paths :
        (/\ asked[p].token # 0
         /\ asked[p].token = revision[p]
         /\ ~ asked[p].lost
         /\ ~ Held(p))
        => records[p] = Accepted(p, asked[p].text)

ClaimInv ==
    AskedOK /\ StagesOK /\ ClaimsAreApart /\ OwnersAreApart /\ HoldersInForce /\ NewestWins

-----------------------------------------------------------------------------
(* What a step of one thread leaves of it *)

LEMMA StagesKept ==
    ASSUME JobsOK, StagesOK, NEW t \in Threads, NEW j, StageOK(j),
           job' = [job EXCEPT ![t] = j]
    PROVE  StagesOK'
BY DEF JobsOK, StagesOK

(* The job goes on under the claims it has, or gives them up. *)
Keeps(j, old) ==
    /\ j.claimed => old.claimed /\ j.path = old.path /\ j.token = old.token
    /\ j.next # NoPath => j.next = old.next /\ j.next_token = old.next_token

LEMMA ClaimsKept ==
    ASSUME JobsOK, StagesOK, ClaimsAreApart, NEW t \in Threads, NEW j \in Jobs, Keeps(j, job[t]),
           job' = [job EXCEPT ![t] = j], AskedOK, AskedOK', StateOK, StateOK',
           \A p \in Paths : asked'[p].token = asked[p].token,
           \A p \in Paths : revision[p] <= revision'[p]
    PROVE  ClaimsAreApart'
<1>1. \A u \in Threads : u # t => job'[u] = job[u]
  BY DEF JobsOK
<1>2. job'[t] = j
  BY DEF JobsOK
<1>3. \A u \in Threads : Keeps(job'[u], job[u])
  BY <1>1, <1>2 DEF Keeps
<1>4. \A u \in Threads :
         /\ job[u].token \in Nat /\ job[u].next_token \in Nat
         /\ job[u].claimed => job[u].path \in Paths
         /\ job[u].next # NoPath => job[u].next \in Paths
  BY DEF JobsOK, Jobs, StagesOK, StageOK
<1>5. \A p \in Paths : /\ asked[p].token \in Nat /\ asked'[p].token \in Nat
                       /\ revision[p] \in Nat /\ revision'[p] \in Nat
  BY DEF AskedOK, StateOK
<1>6. \A p \in Paths : asked'[p].token <= revision'[p]
  BY <1>5 DEF ClaimsAreApart
<1>7. \A u \in Threads :
         /\ job'[u].claimed => job'[u].token <= asked'[job'[u].path].token
         /\ job'[u].next # NoPath => job'[u].next_token <= asked'[job'[u].next].token
  BY <1>3, <1>4 DEF ClaimsAreApart, Keeps
<1>8. \A u, v \in Threads : u # v =>
         /\ job'[u].claimed /\ job'[v].claimed /\ job'[u].path = job'[v].path
               => job'[u].token # job'[v].token
         /\ job'[u].claimed /\ job'[v].next = job'[u].path
               => job'[u].token # job'[v].next_token
         /\ job'[u].next # NoPath /\ job'[u].next = job'[v].next
               => job'[u].next_token # job'[v].next_token
  BY <1>3, <1>4, TextAssumption DEF ClaimsAreApart, Keeps
<1>. QED
  BY <1>6, <1>7, <1>8 DEF ClaimsAreApart

LEMMA OwnersKept ==
    ASSUME JobsOK, OwnersAreApart, StateOK, StateOK', NEW t \in Threads, NEW j \in Jobs,
           job' = [job EXCEPT ![t] = j],
           source_override_counter <= source_override_counter',
           \/ j.owner = 0
           \/ j.owner = job[t].owner
           \/ /\ j.owner = source_override_counter'
              /\ source_override_counter < source_override_counter'
    PROVE  OwnersAreApart'
BY DEF JobsOK, OwnersAreApart, StateOK, Jobs

(* New claims: their tokens are newer than any. *)
LEMMA ClaimsTaken ==
    ASSUME JobsOK, StagesOK, ClaimsAreApart, NEW t \in Threads, NEW j \in Jobs,
           job' = [job EXCEPT ![t] = j], AskedOK, AskedOK', StateOK, StateOK',
           NEW seeds \in SUBSET Paths, j.claimed, j.path \in seeds, j.path # j.next,
           j.token = revision'[j.path],
           j.next # NoPath => j.next \in seeds /\ j.next_token = revision'[j.next],
           \A p \in seeds : asked'[p].token = revision'[p] /\ revision[p] < revision'[p],
           \A p \in Paths \ seeds : asked'[p].token = asked[p].token,
           \A p \in Paths : revision[p] <= revision'[p]
    PROVE  ClaimsAreApart'
<1>1. \A u \in Threads : u # t => job'[u] = job[u]
  BY DEF JobsOK
<1>2. job'[t] = j
  BY DEF JobsOK
<1>3. \A u \in Threads :
         /\ job[u].token \in Nat /\ job[u].next_token \in Nat
         /\ job[u].claimed => job[u].path \in Paths
         /\ job[u].next # NoPath => job[u].next \in Paths
  BY DEF JobsOK, Jobs, StagesOK, StageOK
<1>4. \A p \in Paths : /\ asked[p].token \in Nat /\ asked'[p].token \in Nat
                       /\ revision[p] \in Nat /\ revision'[p] \in Nat
  BY DEF AskedOK, StateOK
<1>5. \A p \in Paths : /\ asked'[p].token <= revision'[p]
                       /\ asked[p].token <= asked'[p].token
                       /\ p \in seeds => asked[p].token < asked'[p].token
  BY <1>4 DEF ClaimsAreApart
<1>6. \A u \in Threads \ {t} :
         /\ job[u].claimed => job[u].token <= asked[job[u].path].token
         /\ job[u].next # NoPath => job[u].next_token <= asked[job[u].next].token
  BY DEF ClaimsAreApart
<1>7. \A u \in Threads :
         /\ job'[u].claimed => job'[u].token <= asked'[job'[u].path].token
         /\ job'[u].next # NoPath => job'[u].next_token <= asked'[job'[u].next].token
  <2>1. j.token <= asked'[j.path].token
    BY <1>4
  <2>2. j.next # NoPath => j.next_token <= asked'[j.next].token
    BY <1>4
  <2>3. \A u \in Threads \ {t} :
           /\ job[u].claimed => job[u].token <= asked'[job[u].path].token
           /\ job[u].next # NoPath => job[u].next_token <= asked'[job[u].next].token
    BY <1>3, <1>4, <1>5, <1>6
  <2>. QED
    BY <1>1, <1>2, <2>1, <2>2, <2>3
<1>8. \A u \in Threads \ {t} : \A p \in seeds, n \in Nat : n = revision'[p] =>
         /\ job[u].claimed /\ job[u].path = p => job[u].token # n
         /\ job[u].next = p => job[u].next_token # n
  BY <1>3, <1>4, <1>5, <1>6, TextAssumption
<1>9. \A u, v \in Threads : u # v =>
         /\ job'[u].claimed /\ job'[v].claimed /\ job'[u].path = job'[v].path
               => job'[u].token # job'[v].token
         /\ job'[u].claimed /\ job'[v].next = job'[u].path
               => job'[u].token # job'[v].next_token
         /\ job'[u].next # NoPath /\ job'[u].next = job'[v].next
               => job'[u].next_token # job'[v].next_token
  <2>. SUFFICES ASSUME NEW u \in Threads, NEW v \in Threads, u # v
                PROVE  /\ job'[u].claimed /\ job'[v].claimed /\ job'[u].path = job'[v].path
                             => job'[u].token # job'[v].token
                       /\ job'[u].claimed /\ job'[v].next = job'[u].path
                             => job'[u].token # job'[v].next_token
                       /\ job'[u].next # NoPath /\ job'[u].next = job'[v].next
                             => job'[u].next_token # job'[v].next_token
    OBVIOUS
  <2>1. revision'[j.path] \in Nat /\ (j.next # NoPath => revision'[j.next] \in Nat)
    BY <1>4
  <2>2. CASE u = t
    BY <1>1, <1>2, <1>8, <2>1, <2>2
  <2>3. CASE v = t
    BY <1>1, <1>2, <1>3, <1>8, <2>1, <2>3, TextAssumption
  <2>4. CASE u # t /\ v # t
    BY <1>1, <2>4 DEF ClaimsAreApart
  <2>. QED
    BY <2>2, <2>3, <2>4
<1>. QED
  BY <1>5, <1>7, <1>9 DEF ClaimsAreApart

(* The holders other than t: what matters to them is that their claim and  *)
(* the override they installed are as before, unless they are told.        *)
LEMMA HoldersKept ==
    ASSUME JobsOK, HoldersInForce, NEW t \in Threads, NEW j,
           job' = [job EXCEPT ![t] = j],
           j.claimed => InForce(j, asked'[j.path], source_overrides'[j.path]),
           \A u \in Threads \ {t} :
              LET q == job[u].path IN
              \/ ~ job[u].claimed
              \/ job[u].token # asked'[q].token
              \/ asked'[q].lost
              \/ /\ asked'[q] = asked[q]
                 /\ \/ job[u].owner = 0
                    \/ job[u].step \in {"remove", "arrive", "install"}
                    \/ source_overrides'[q] = source_overrides[q]
    PROVE  HoldersInForce'
<1>1. job'[t] = j /\ \A u \in Threads \ {t} : job'[u] = job[u]
  BY DEF JobsOK
<1>2. ASSUME NEW u \in Threads \ {t}, job[u].claimed
      PROVE  InForce(job[u], asked'[job[u].path], source_overrides'[job[u].path])
  <2>. DEFINE q == job[u].path
  <2>1. InForce(job[u], asked[q], source_overrides[q])
    BY <1>2 DEF HoldersInForce
  <2>2. \/ job[u].token # asked'[q].token
        \/ asked'[q].lost
        \/ /\ asked'[q] = asked[q]
           /\ \/ job[u].owner = 0
              \/ job[u].step \in {"remove", "arrive", "install"}
              \/ source_overrides'[q] = source_overrides[q]
    BY <1>2
  <2>. HIDE DEF q
  <2>3. InForce(job[u], asked'[q], source_overrides'[q])
    BY <2>1, <2>2 DEF InForce
  <2>. QED
    BY <2>3 DEF q
<1>. QED
  BY <1>1, <1>2 DEF HoldersInForce

LEMMA WinsKept ==
    ASSUME NewestWins,
           \A p \in Paths :
              \/ asked'[p].token # revision'[p]
              \/ asked'[p].lost
              \/ Held(p)'
              \/ records'[p] = Accepted(p, asked'[p].text)
              \/ /\ records'[p] = records[p]
                 /\ asked'[p] = asked[p]
                 /\ revision'[p] = revision[p]
                 /\ ~ Held(p)
    PROVE  NewestWins'
BY DEF NewestWins, Held, Accepted

-----------------------------------------------------------------------------
(* The steps, one after another *)

(* A step that keeps its claims and touches no source and no record. *)
LEMMA QuietStep ==
    ASSUME IInv, IInv', ClaimInv, NEW t \in Threads, NEW j \in Jobs,
           job' = [job EXCEPT ![t] = j], StageOK(j), Keeps(j, job[t]),
           job[t].claimed => j.claimed, j.next = job[t].next,
           j.owner = 0 \/ j.owner = job[t].owner,
           j.claimed => InForce(j, asked[j.path], source_overrides[j.path]),
           UNCHANGED <<source_overrides, source_override_counter, records, asked>>,
           \A p \in Paths : revision[p] <= revision'[p]
    PROVE  ClaimInv'
<1>. USE DEF IInv, ClaimInv
<1>1. job'[t] = j /\ \A u \in Threads \ {t} : job'[u] = job[u]
  BY DEF JobsOK
<1>2. AskedOK'
  BY DEF AskedOK
<1>3. StagesOK'
  BY StagesKept
<1>4. ClaimsAreApart'
  BY <1>2, ClaimsKept
<1>5. OwnersAreApart'
  <2>1. source_override_counter <= source_override_counter'
    BY DEF StateOK
  <2>. QED
    BY <2>1, OwnersKept
<1>6. HoldersInForce'
  BY HoldersKept
<1>7. NewestWins'
  <2>1. \A p \in Paths : Held(p) => Held(p)'
    BY <1>1, TextAssumption DEF Held, Keeps
  <2>2. \A p \in Paths : /\ asked[p].token <= revision[p]
                         /\ asked[p].token \in Nat /\ revision[p] \in Nat /\ revision'[p] \in Nat
    BY DEF ClaimsAreApart, AskedOK, StateOK
  <2>3. \A p \in Paths : asked'[p].token # revision'[p] \/ revision'[p] = revision[p]
    BY <2>2
  <2>. QED
    BY <2>1, <2>3, WinsKept DEF NewestWins, Held
<1>. QED
  BY <1>2, <1>3, <1>4, <1>5, <1>6, <1>7

(* Whoever changes an override tells the holder it belongs to. *)
LEMMA DisturbedFacts ==
    ASSUME AskedOK, JobsOK, NEW t \in Threads, NEW p \in Paths, asked' = Disturbed(t, p),
           DOMAIN records' = Paths
    PROVE  /\ AskedOK'
           /\ \A q \in Paths : /\ asked'[q].token = asked[q].token
                               /\ asked'[q].text = asked[q].text
                               /\ asked[q].lost => asked'[q].lost
                               /\ q # p => asked'[q] = asked[q]
           /\ asked'[p] = asked[p] \/ asked'[p].lost
           /\ \A u \in Threads \ {t} :
                 (/\ job[u].path = p /\ job[u].claimed /\ job[u].owner # 0
                  /\ job[u].token = asked[p].token)
                 => asked'[p].lost
<1>1. asked' = asked \/ asked' = [asked EXCEPT ![p].lost = TRUE]
  BY DEF Disturbed
<1>2. AskedOK'
  BY <1>1 DEF AskedOK
<1>3. \A q \in Paths : /\ asked'[q].token = asked[q].token
                       /\ asked'[q].text = asked[q].text
                       /\ asked[q].lost => asked'[q].lost
                       /\ q # p => asked'[q] = asked[q]
  BY <1>1 DEF AskedOK
<1>4. asked'[p] = asked[p] \/ asked'[p].lost
  BY <1>1 DEF AskedOK
<1>5. [asked EXCEPT ![p].lost = TRUE][p].lost
  BY DEF AskedOK
<1>6. ASSUME NEW u \in Threads \ {t}, job[u].path = p, job[u].claimed, job[u].owner # 0,
             job[u].token = asked[p].token
      PROVE  asked'[p].lost
  BY <1>5, <1>6 DEF Disturbed
<1>. QED
  BY <1>2, <1>3, <1>4, <1>6

(* A step that replaces the override of a file. *)
LEMMA OverrideStep ==
    ASSUME IInv, IInv', ClaimInv, NEW t \in Threads, NEW j \in Jobs, NEW p \in Paths,
           job' = [job EXCEPT ![t] = j], StageOK(j), Keeps(j, job[t]),
           job[t].claimed => j.claimed, j.next = job[t].next,
           asked' = Disturbed(t, p),
           \A q \in Paths \ {p} : source_overrides'[q] = source_overrides[q],
           source_override_counter <= source_override_counter',
           \/ j.owner = 0
           \/ j.owner = job[t].owner
           \/ /\ j.owner = source_override_counter'
              /\ source_override_counter < source_override_counter',
           j.claimed => InForce(j, asked'[j.path], source_overrides'[j.path]),
           UNCHANGED <<revision, records>>
    PROVE  ClaimInv'
<1>. USE DEF IInv, ClaimInv
<1>1. job'[t] = j /\ \A u \in Threads \ {t} : job'[u] = job[u]
  BY DEF JobsOK
<1>2. /\ AskedOK'
      /\ \A q \in Paths : /\ asked'[q].token = asked[q].token
                          /\ q # p => asked'[q] = asked[q]
      /\ asked'[p] = asked[p] \/ asked'[p].lost
      /\ \A u \in Threads \ {t} :
            (/\ job[u].path = p /\ job[u].claimed /\ job[u].owner # 0
             /\ job[u].token = asked[p].token)
            => asked'[p].lost
  BY DisturbedFacts DEF AskedOK
<1>3. StagesOK'
  BY StagesKept
<1>4. ClaimsAreApart'
  <2>1. \A q \in Paths : revision[q] <= revision'[q]
    BY DEF StateOK
  <2>. QED
    BY <1>2, <2>1, ClaimsKept
<1>5. OwnersAreApart'
  BY OwnersKept
<1>6. HoldersInForce'
  <2>1. \A u \in Threads : job[u].claimed => job[u].path \in Paths
    BY DEF JobsOK, StagesOK, StageOK
  <2>2. ASSUME NEW u \in Threads \ {t}
        PROVE  LET q == job[u].path IN
               \/ ~ job[u].claimed
               \/ job[u].token # asked'[q].token
               \/ asked'[q].lost
               \/ /\ asked'[q] = asked[q]
                  /\ \/ job[u].owner = 0
                     \/ job[u].step \in {"remove", "arrive", "install"}
                     \/ source_overrides'[q] = source_overrides[q]
    BY <1>2, <2>1
  <2>. QED
    BY <2>2, HoldersKept
<1>7. NewestWins'
  <2>1. \A q \in Paths : Held(q) => Held(q)'
    BY <1>1, <1>2, TextAssumption DEF Held, Keeps
  <2>2. \A q \in Paths : asked'[q] = asked[q] \/ asked'[q].lost
    BY <1>2
  <2>. QED
    BY <2>1, <2>2, WinsKept DEF NewestWins, Held
<1>. QED
  BY <1>2, <1>3, <1>4, <1>5, <1>6, <1>7

(* The calls that claim nothing yet. *)
LEMMA CallClaims ==
    ASSUME IInv, IInv', ClaimInv, NEW t \in Threads, NEW p \in Paths, NEW x,
           \/ Refresh(t, p, x)
           \/ SetSourceCode(t, p, x)
           \/ Validate(t, p, x)
           \/ ClearSourceOverride(t, p)
           \/ Analyse(t, p),
           x \in Texts \/ ClearSourceOverride(t, p) \/ Analyse(t, p)
    PROVE  ClaimInv'
<1>1. job[t] \in Jobs /\ job[t].step = "idle" /\ StageOK(job[t])
  BY DEF IInv, JobsOK, ClaimInv, StagesOK, Refresh, SetSourceCode, Validate,
         ClearSourceOverride, Analyse
<1>2. ~ job[t].claimed /\ job[t].next = NoPath
  BY <1>1 DEF StageOK
<1>3. /\ \A q \in Paths : revision[q] <= revision'[q]
      /\ source_override_counter \in Nat
  BY DEF IInv, StateOK, Refresh, SetSourceCode, Validate, ClearSourceOverride, Analyse
<1>. DEFINE begun(step) == [Idle EXCEPT !.step = step, !.path = p, !.text = x]
            loading == [Idle EXCEPT !.step = "load", !.path = p]
<1>4. x \in Texts => \A step \in {"prepare", "install"} :
         /\ begun(step) \in Jobs /\ ~ begun(step).claimed /\ begun(step).next = NoPath
         /\ begun(step).owner = 0 /\ begun(step).step = step /\ begun(step).text = x
  BY DEF Idle, Jobs, NoOverride, Overrides, Stepping, Contents
<1>5. /\ loading \in Jobs /\ ~ loading.claimed /\ loading.next = NoPath
      /\ loading.owner = 0 /\ loading.step = "load"
  BY DEF Idle, Jobs, NoOverride, Overrides, Stepping, Contents
<1>6. \E j \in Jobs : /\ ~ j.claimed /\ j.next = NoPath
                      /\ j.owner = 0 \/ j.owner = job[t].owner
                      /\ j.step \notin Writing
                      /\ j.step = "prepare" => j.text \in Texts
                      /\ job' = [job EXCEPT ![t] = j]
  <2>1. CASE ClearSourceOverride(t, p)
    <3>1. job' = [job EXCEPT ![t] = job[t]]
      BY <2>1 DEF ClearSourceOverride, IInv, JobsOK
    <3>. QED
      BY <1>1, <1>2, <3>1 DEF Writing
  <2>2. CASE x \in Texts /\ (Refresh(t, p, x) \/ SetSourceCode(t, p, x))
    BY <1>4, <2>2 DEF Refresh, SetSourceCode, Writing
  <2>3. CASE x \in Texts /\ Validate(t, p, x)
    BY <1>4, <2>3 DEF Validate, Writing
  <2>4. CASE Analyse(t, p)
    BY <1>5, <2>4 DEF Analyse, Writing
  <2>. QED
    BY <2>1, <2>2, <2>3, <2>4
<1>7. PICK j \in Jobs : /\ ~ j.claimed /\ j.next = NoPath
                        /\ j.owner = 0 \/ j.owner = job[t].owner
                        /\ j.step \notin Writing
                        /\ j.step = "prepare" => j.text \in Texts
                        /\ job' = [job EXCEPT ![t] = j]
  BY <1>6
<1>8. StageOK(j) /\ Keeps(j, job[t])
  BY <1>7 DEF StageOK, Keeps
<1>9. CASE Refresh(t, p, x) \/ Validate(t, p, x) \/ Analyse(t, p)
  <2>1. UNCHANGED <<source_overrides, source_override_counter, records, asked>>
    BY <1>9 DEF Refresh, Validate, Analyse, sourceVars, history
  <2>. QED
    BY <1>2, <1>3, <1>7, <1>8, <2>1, QuietStep
<1>10. CASE SetSourceCode(t, p, x) \/ ClearSourceOverride(t, p)
  <2>1. /\ asked' = Disturbed(t, p)
        /\ UNCHANGED <<revision, records>>
        /\ source_override_counter <= source_override_counter'
    BY <1>3, <1>10 DEF SetSourceCode, ClearSourceOverride
  <2>2. \A q \in Paths \ {p} : source_overrides'[q] = source_overrides[q]
    BY <1>10 DEF SetSourceCode, ClearSourceOverride, IInv, StateOK
  <2>. QED
    BY <1>2, <1>7, <1>8, <2>1, <2>2, OverrideStep
<1>. QED
  BY <1>9, <1>10

(* A claim is taken on the seeds, and disturbs whatever it affects. *)
LEMMA NewClaims ==
    ASSUME IInv, IInv', ClaimInv, NEW t \in Threads, NEW j \in Jobs,
           NEW seeds \in SUBSET Paths, NEW affected, seeds \subseteq affected,
           Detach(affected, seeds), job' = [job EXCEPT ![t] = j],
           StageOK(j), j.claimed, j.path \in seeds, j.token = revision'[j.path],
           j.next # NoPath => j.next \in seeds /\ j.next_token = revision'[j.next],
           \A p \in seeds : p = j.path \/ p = j.next,
           j.owner = 0 \/ j.owner = job[t].owner,
           ~ job[t].claimed, job[t].next = NoPath, AskedOK',
           \A p \in seeds : asked'[p].token = revision'[p],
           \A p \in Paths \ seeds : asked'[p] = asked[p],
           InForce(j, asked'[j.path], source_overrides[j.path]),
           UNCHANGED <<source_overrides, source_override_counter, records>>
    PROVE  ClaimInv'
<1>. USE DEF IInv, ClaimInv
<1>1. job'[t] = j /\ \A u \in Threads \ {t} : job'[u] = job[u]
  BY DEF JobsOK
<1>2. \A p \in Paths : /\ revision[p] \in Nat
                       /\ revision'[p] = revision[p] \/ revision'[p] = revision[p] + 1
                       /\ p \in seeds => revision'[p] = revision[p] + 1
  BY DEF StateOK, Detach
<1>3. \A p \in Paths : asked[p].token \in Nat /\ asked[p].token <= revision[p]
  BY DEF AskedOK, ClaimsAreApart
<1>4. StagesOK'
  BY StagesKept
<1>5. ClaimsAreApart'
  <2>1. /\ \A p \in seeds : revision[p] < revision'[p]
        /\ \A p \in Paths : revision[p] <= revision'[p]
    BY <1>2
  <2>2. \A p \in Paths \ seeds : asked'[p].token = asked[p].token
    OBVIOUS
  <2>3. j.path # j.next
    BY TextAssumption DEF StageOK
  <2>. QED
    BY <2>1, <2>2, <2>3, ClaimsTaken
<1>6. OwnersAreApart'
  <2>1. source_override_counter <= source_override_counter'
    BY DEF StateOK
  <2>. QED
    BY <2>1, OwnersKept
<1>7. HoldersInForce'
  <2>1. ASSUME NEW u \in Threads \ {t}, job[u].claimed, job[u].path \in seeds
        PROVE  job[u].token # asked'[job[u].path].token
    <3>1. job[u].token \in Nat /\ job[u].token <= asked[job[u].path].token
      BY <2>1 DEF ClaimsAreApart, JobsOK, Jobs
    <3>. QED
      BY <1>2, <1>3, <2>1, <3>1
  <2>2. ASSUME NEW u \in Threads \ {t}
        PROVE  LET q == job[u].path IN
               \/ ~ job[u].claimed
               \/ job[u].token # asked'[q].token
               \/ asked'[q].lost
               \/ /\ asked'[q] = asked[q]
                  /\ \/ job[u].owner = 0
                     \/ job[u].step \in {"remove", "arrive", "install"}
                     \/ source_overrides'[q] = source_overrides[q]
    <3>1. job[u].claimed => job[u].path \in Paths
      BY DEF JobsOK, StagesOK, StageOK
    <3>. QED
      BY <2>1, <3>1
  <2>3. InForce(j, asked'[j.path], source_overrides'[j.path])
    OBVIOUS
  <2>. QED
    BY <2>2, <2>3, HoldersKept
<1>8. NewestWins'
  <2>1. ASSUME NEW p \in Paths
        PROVE  \/ asked'[p].token # revision'[p]
               \/ asked'[p].lost
               \/ Held(p)'
               \/ records'[p] = Accepted(p, asked'[p].text)
               \/ /\ records'[p] = records[p]
                  /\ asked'[p] = asked[p]
                  /\ revision'[p] = revision[p]
                  /\ ~ Held(p)
    <3>1. CASE p \in seeds
      BY <1>1, <2>1, <3>1, TextAssumption DEF Held
    <3>2. CASE p \notin seeds
      <4>1. Held(p) => Held(p)'
        BY <1>1, <2>1, <3>2, TextAssumption DEF Held
      <4>2. asked'[p].token # revision'[p] \/ revision'[p] = revision[p]
        BY <1>2, <1>3, <3>2
      <4>. QED
        BY <3>2, <4>1, <4>2 DEF NewestWins, Held
    <3>. QED
      BY <3>1, <3>2
  <2>. QED
    BY <2>1, WinsKept
<1>. QED
  BY <1>4, <1>5, <1>6, <1>7, <1>8

(* The steps that claim. *)
LEMMA ClaimClaims ==
    ASSUME IInv, IInv', ClaimInv, NEW t \in Threads, NEW p \in Paths, NEW to \in Paths,
           Prepare(t) \/ RemoveScript(t, p) \/ MoveScript(t, p, to)
    PROVE  ClaimInv'
<1>1. job[t] \in Jobs /\ StageOK(job[t]) /\ job[t].step \in {"idle", "prepare"}
  BY DEF IInv, JobsOK, ClaimInv, StagesOK, Prepare, RemoveScript, MoveScript
<1>2. ~ job[t].claimed /\ job[t].next = NoPath
  BY <1>1 DEF StageOK
<1>3. UNCHANGED <<source_overrides, source_override_counter, records>>
  BY DEF Prepare, RemoveScript, MoveScript, sourceVars
<1>4. \A q \in Paths : revision'[q] \in Nat
  BY DEF IInv, StateOK
<1>5. \A seeds : \A affected \in Closures(seeds) : seeds \subseteq affected
  BY DEF Closures
<1>6. CASE Prepare(t)
  <2>. DEFINE q == job[t].path
              j == [job[t] EXCEPT !.step = "install", !.claimed = TRUE, !.token = revision'[q]]
              claim == [token |-> revision'[q], text |-> job[t].text, lost |-> FALSE]
  <2>1. q \in Paths /\ job[t].text \in Contents
    BY <1>1, <1>6 DEF Prepare, IInv, JobsOK, Jobs
  <2>2. /\ j \in Jobs /\ j.path = q /\ j.claimed /\ j.token = revision'[q]
        /\ j.next = NoPath /\ j.owner = job[t].owner /\ j.step = "install"
        /\ j.text = job[t].text
    BY <1>1, <1>2, <1>4, <2>1 DEF Jobs, Stepping
  <2>3. job' = [job EXCEPT ![t] = j] /\ asked' = [asked EXCEPT ![q] = claim]
    BY <1>6 DEF Prepare, IInv, JobsOK
  <2>4. claim \in [token : Nat, text : Contents, lost : BOOLEAN]
    BY <1>4, <2>1
  <2>5. AskedOK' /\ asked'[q] = claim /\ \A r \in Paths \ {q} : asked'[r] = asked[r]
    BY <1>3, <2>1, <2>3, <2>4 DEF AskedOK, ClaimInv
  <2>6. StageOK(j)
    BY <2>2 DEF StageOK, Writing
  <2>7. job[t].text \in Texts
    BY <1>1, <1>6 DEF Prepare, StageOK
  <2>8. InForce(j, asked'[j.path], source_overrides[j.path])
    BY <2>2, <2>5, <2>7 DEF InForce
  <2>9. PICK affected \in Closures({q}) : Detach(affected, {q})
    BY <1>6 DEF Prepare
  <2>10. claim.token = revision'[q]
    OBVIOUS
  <2>. HIDE DEF q, j, claim
  <2>11. \A r \in {q} : asked'[r].token = revision'[r]
    BY <2>5, <2>10
  <2>12. {q} \in SUBSET Paths /\ {q} \subseteq affected
    BY <1>5, <2>1, <2>9
  <2>. QED
    BY <1>2, <1>3, <2>2, <2>3, <2>5, <2>6, <2>8, <2>9, <2>11, <2>12, TextAssumption, NewClaims
<1>7. CASE RemoveScript(t, p)
  <2>. DEFINE j == [Idle EXCEPT !.step = "remove", !.path = p,
                                !.claimed = TRUE, !.token = revision'[p]]
              claim == [NoClaim EXCEPT !.token = revision'[p]]
  <2>1. /\ j \in Jobs /\ j.path = p /\ j.claimed /\ j.token = revision'[p]
        /\ j.next = NoPath /\ j.owner = 0 /\ j.step = "remove" /\ j.text = NoText
    BY <1>4 DEF Idle, Jobs, NoOverride, Overrides, Stepping, Contents
  <2>2. job' = [job EXCEPT ![t] = j] /\ asked' = [asked EXCEPT ![p] = claim]
    BY <1>7 DEF RemoveScript
  <2>3. /\ claim \in [token : Nat, text : Contents, lost : BOOLEAN]
        /\ claim.token = revision'[p] /\ claim.text = NoText
    BY <1>4 DEF NoClaim, Contents
  <2>4. AskedOK' /\ asked'[p] = claim /\ \A r \in Paths \ {p} : asked'[r] = asked[r]
    BY <1>3, <2>2, <2>3 DEF AskedOK, ClaimInv
  <2>5. StageOK(j)
    BY <2>1 DEF StageOK, Writing
  <2>6. InForce(j, asked'[j.path], source_overrides[j.path])
    BY <2>1, <2>3, <2>4 DEF InForce
  <2>7. PICK affected \in Closures({p}) : Detach(affected, {p})
    BY <1>7 DEF RemoveScript
  <2>. HIDE DEF j, claim
  <2>8. \A q \in {p} : asked'[q].token = revision'[q]
    BY <2>3, <2>4
  <2>9. {p} \in SUBSET Paths /\ {p} \subseteq affected
    BY <1>5, <2>7
  <2>. QED
    BY <1>2, <1>3, <2>1, <2>2, <2>4, <2>5, <2>6, <2>7, <2>8, <2>9, TextAssumption, NewClaims
<1>8. CASE MoveScript(t, p, to)
  <2>. DEFINE j == [Idle EXCEPT !.step = "remove", !.path = p,
                                !.claimed = TRUE, !.token = revision'[p],
                                !.next = to, !.next_token = revision'[to]]
              claim(q) == [NoClaim EXCEPT !.token = revision'[q]]
  <2>1. /\ j \in Jobs /\ j.path = p /\ j.claimed /\ j.token = revision'[p]
        /\ j.next = to /\ j.next_token = revision'[to]
        /\ j.owner = 0 /\ j.step = "remove" /\ j.text = NoText
    BY <1>4 DEF Idle, Jobs, NoOverride, Overrides, Stepping, Contents
  <2>2. /\ p # to /\ job' = [job EXCEPT ![t] = j]
        /\ asked' = [asked EXCEPT ![p] = claim(p), ![to] = claim(to)]
    BY <1>8 DEF MoveScript
  <2>3. \A q \in Paths : /\ claim(q) \in [token : Nat, text : Contents, lost : BOOLEAN]
                         /\ claim(q).token = revision'[q] /\ claim(q).text = NoText
    BY <1>4 DEF NoClaim, Contents
  <2>4. /\ AskedOK' /\ asked'[p] = claim(p) /\ asked'[to] = claim(to)
        /\ \A r \in Paths \ {p, to} : asked'[r] = asked[r]
    <3>. HIDE DEF claim
    <3>. QED
      BY <1>3, <2>2, <2>3 DEF AskedOK, ClaimInv
  <2>5. StageOK(j)
    BY <2>1, <2>2 DEF StageOK, Writing
  <2>6. InForce(j, asked'[j.path], source_overrides[j.path])
    BY <2>1, <2>3, <2>4 DEF InForce
  <2>7. PICK affected \in Closures({p, to}) : Detach(affected, {p, to})
    BY <1>8 DEF MoveScript
  <2>. HIDE DEF j, claim
  <2>8. \A q \in {p, to} : asked'[q].token = revision'[q]
    BY <2>3, <2>4
  <2>9. {p, to} \in SUBSET Paths /\ {p, to} \subseteq affected
    BY <1>5, <2>7
  <2>. QED
    BY <1>2, <1>3, <2>1, <2>2, <2>4, <2>5, <2>6, <2>7, <2>8, <2>9, NewClaims
<1>. QED
  BY <1>6, <1>7, <1>8

(* What a job that works under a claim knows of its holder. *)
LEMMA OwnJob ==
    ASSUME IInv, ClaimInv, NEW t \in Threads, job[t].step \notin {"idle", "remove"}
    PROVE  /\ job[t] \in Jobs /\ job[t].path \in Paths /\ StageOK(job[t])
           /\ job[t].next = NoPath
           /\ job[t].claimed =>
                 InForce(job[t], asked[job[t].path], source_overrides[job[t].path])
BY DEF IInv, JobsOK, ClaimInv, StagesOK, StageOK, HoldersInForce

LEMMA FinishFacts ==
    ASSUME NEW old \in Jobs, StageOK(old), old.path \in Paths
    PROVE  /\ Finish(old) \in Jobs /\ StageOK(Finish(old)) /\ Keeps(Finish(old), old)
           /\ ~ Finish(old).claimed /\ Finish(old).next = NoPath
           /\ Finish(old).owner = old.owner
<1>1. Finish(old) \in Jobs
  BY FinishType
<1>2. /\ ~ Finish(old).claimed /\ Finish(old).next = NoPath
      /\ Finish(old).owner = old.owner /\ Finish(old).step \in {"idle", "restore"}
  BY DEF Finish, Idle, Jobs
<1>. QED
  BY <1>1, <1>2 DEF StageOK, Keeps, Writing

(* The analysis up to its writes, notices to the observers included. *)
LEMMA AnalysisClaims ==
    ASSUME IInv, IInv', ClaimInv, NEW t \in Threads,
           Load(t) \/ Parse(t) \/ Observe(t) \/ ReadSource(t) \/ Publish(t)
    PROVE  ClaimInv'
<1>. DEFINE old == job[t]
            p == old.path
            source == Source(p)
<1>1. /\ old \in Jobs /\ p \in Paths /\ StageOK(old) /\ old.next = NoPath
      /\ old.claimed => InForce(old, asked[p], source_overrides[p])
  BY OwnJob DEF Load, Parse, Observe, ReadSource, Publish
<1>2. UNCHANGED <<source_overrides, source_override_counter, records, asked>>
  BY DEF Load, Parse, Observe, ReadSource, Publish, sourceVars, history
<1>3. \A q \in Paths : revision[q] <= revision'[q]
  <2>1. CASE Observe(t)
    <3>1. \E affected, seeds : Detach(affected, seeds)
      BY <2>1 DEF Observe
    <3>2. \A q \in Paths : revision[q] \in Nat
      BY DEF IInv, StateOK
    <3>. QED
      BY <3>1, <3>2 DEF Detach
  <2>2. CASE ~ Observe(t)
    <3>1. revision' = revision
      BY <2>2 DEF Load, Parse, ReadSource, Publish
    <3>2. \A q \in Paths : revision[q] \in Nat
      BY DEF IInv, StateOK
    <3>. QED
      BY <3>1, <3>2
  <2>. QED
    BY <2>1, <2>2
<1>4. source \in Overrides
  BY <1>1, SourceType DEF IInv
<1>5. \E j \in Jobs : /\ job' = [job EXCEPT ![t] = j]
                      /\ StageOK(j) /\ Keeps(j, old) /\ j.next = NoPath
                      /\ j.claimed = old.claimed
                      /\ j.owner = 0 \/ j.owner = old.owner
                      /\ j.claimed => InForce(j, asked[j.path], source_overrides[j.path])
  <2>1. CASE Load(t)
    <3>. DEFINE j == [old EXCEPT !.step = "parse", !.text = source.text]
    <3>1. old.step = "load" /\ old.claimed = FALSE
      BY <1>1, <2>1 DEF Load, StageOK, Jobs
    <3>2. /\ j \in Jobs /\ j.step = "parse" /\ j.claimed = FALSE /\ j.next = NoPath
          /\ j.owner = old.owner
      BY <1>1, <1>4, <3>1 DEF Jobs, Stepping, Overrides
    <3>3. /\ Idle \in Jobs /\ Idle.step = "idle" /\ Idle.claimed = FALSE
          /\ Idle.next = NoPath /\ Idle.owner = 0
      BY IdleType DEF Idle
    <3>4. StageOK(j) /\ Keeps(j, old) /\ StageOK(Idle) /\ Keeps(Idle, old)
      BY <3>2, <3>3 DEF StageOK, Keeps, Writing
    <3>5. job' = [job EXCEPT ![t] = Idle] \/ job' = [job EXCEPT ![t] = j]
      BY <2>1 DEF Load, IInv, JobsOK
    <3>. HIDE DEF j
    <3>. QED
      BY <3>1, <3>2, <3>3, <3>4, <3>5
  <2>2. CASE Parse(t)
    <3>. DEFINE read == [old EXCEPT !.token = IF old.claimed THEN old.token ELSE revision[p]]
                seen == IF old.claimed THEN Observers[p] ELSE {}
                j == Observing(read, seen)
                reread == [read EXCEPT !.step = "reread"]
    <3>1. old.step = "parse"
      BY <2>2 DEF Parse
    <3>2. /\ read \in Jobs /\ read.path = p /\ read.claimed = old.claimed
          /\ read.next = NoPath /\ read.owner = old.owner /\ read.text = old.text
          /\ read.step = "parse"
          /\ old.claimed => read.token = old.token
      BY <1>1, <3>1 DEF Jobs, IInv, StateOK
    <3>. HIDE DEF read
    <3>3. /\ j \in Jobs /\ j.path = p /\ j.claimed = old.claimed /\ j.next = NoPath
          /\ j.owner = old.owner /\ j.text = old.text
          /\ j.step \in {"read", "observe"} /\ (~ old.claimed => j.step = "read")
          /\ old.claimed => j.token = old.token
      <4>1. seen \in SUBSET Paths /\ (~ old.claimed => seen = {})
        BY <1>1, ReachAssumption
      <4>. QED
        BY <1>1, <3>2, <4>1, ObservingType
    <3>4. /\ reread \in Jobs /\ reread.path = p /\ reread.claimed = old.claimed
          /\ reread.next = NoPath /\ reread.owner = old.owner /\ reread.text = old.text
          /\ reread.step = "reread"
          /\ old.claimed => reread.token = old.token
      BY <3>2 DEF Jobs, Stepping
    <3>5. \/ job' = [job EXCEPT ![t] = j]
          \/ old.claimed /\ job' = [job EXCEPT ![t] = reread]
          \/ ~ old.claimed /\ job' = [job EXCEPT ![t] = Finish(old)]
      BY <2>2 DEF Parse, read
    <3>. HIDE DEF j, reread
    <3>6. CASE job' = [job EXCEPT ![t] = j]
      <4>1. StageOK(j) /\ Keeps(j, old)
        BY <3>3 DEF StageOK, Keeps, Writing
      <4>2. j.claimed => InForce(j, asked[j.path], source_overrides[j.path])
        BY <1>1, <3>1, <3>3 DEF InForce
      <4>. QED
        BY <3>3, <3>6, <4>1, <4>2
    <3>7. CASE old.claimed /\ job' = [job EXCEPT ![t] = reread]
      <4>1. StageOK(reread) /\ Keeps(reread, old)
        BY <3>4, <3>7 DEF StageOK, Keeps, Writing
      <4>2. InForce(reread, asked[reread.path], source_overrides[reread.path])
        BY <1>1, <3>1, <3>4, <3>7 DEF InForce
      <4>. QED
        BY <3>4, <3>7, <4>1, <4>2
    <3>8. CASE ~ old.claimed /\ job' = [job EXCEPT ![t] = Finish(old)]
      BY <1>1, <3>8, FinishFacts DEF Jobs
    <3>. QED
      BY <3>5, <3>6, <3>7, <3>8
  <2>3. CASE Observe(t)
    <3>1. old.step = "observe" /\ old.claimed
      BY <1>1, <2>3 DEF Observe, StageOK, Writing
    <3>2. PICK q \in old.todo : job' = [job EXCEPT ![t] = Observing(old, old.todo \ {q})]
      BY <2>3 DEF Observe, IInv, JobsOK
    <3>. DEFINE j == Observing(old, old.todo \ {q})
    <3>3. /\ j \in Jobs /\ j.path = p /\ j.claimed = old.claimed /\ j.next = NoPath
          /\ j.owner = old.owner /\ j.text = old.text /\ j.token = old.token
          /\ j.step \in {"read", "observe"}
      <4>1. old.todo \ {q} \in SUBSET Paths
        BY <1>1 DEF Jobs
      <4>. QED
        BY <1>1, <4>1, ObservingType
    <3>. HIDE DEF j
    <3>4. StageOK(j) /\ Keeps(j, old)
      BY <3>1, <3>3 DEF StageOK, Keeps, Writing
    <3>5. InForce(j, asked[j.path], source_overrides[j.path])
      BY <1>1, <3>1, <3>3 DEF InForce
    <3>. QED
      BY <3>2, <3>3, <3>4, <3>5 DEF j
  <2>4. CASE ReadSource(t)
    <3>. DEFINE clean == Outcome[p, old.text] = "clean"
                step == IF old.step = "read" THEN "publish"
                        ELSE IF clean THEN "commit" ELSE "discard"
                j == [old EXCEPT !.view = source, !.step = step]
    <3>1. /\ old.step \in {"read", "reread"}
          /\ old.step = "reread" => old.claimed
      BY <1>1, <2>4 DEF ReadSource, StageOK, Writing
    <3>2. job' = [job EXCEPT ![t] = j]
      BY <2>4 DEF ReadSource, IInv, JobsOK
    <3>4. step \in {"publish", "commit", "discard"} /\ (step # "publish" => old.claimed)
      BY <3>1
    <3>5. (step = "commit" => clean) /\ (step = "discard" => ~ clean)
      OBVIOUS
    <3>. HIDE DEF step
    <3>3. /\ j \in Jobs /\ j.path = p /\ j.claimed = old.claimed /\ j.next = NoPath
          /\ j.owner = old.owner /\ j.text = old.text /\ j.token = old.token
          /\ j.step = step /\ j.view = source
      BY <1>1, <1>4, <3>4 DEF Jobs, Stepping
    <3>. HIDE DEF j
    <3>6. StageOK(j) /\ Keeps(j, old)
      BY <3>3, <3>4 DEF StageOK, Keeps, Writing
    <3>7. source_overrides[p].owner # 0 => source = source_overrides[p]
      BY DEF Source
    <3>8. old.claimed => InForce(j, asked[p], source_overrides[p])
      <4>. SUFFICES ASSUME old.claimed, j.token = asked[p].token, ~ asked[p].lost
                    PROVE  InForce(j, asked[p], source_overrides[p])
        BY DEF InForce
      <4>1. /\ asked[p].text = old.text /\ old.text \in Texts /\ old.owner # 0
            /\ source_overrides[p] = [text |-> old.text, owner |-> old.owner]
        BY <1>1, <3>1, <3>3 DEF InForce
      <4>2. source = [text |-> old.text, owner |-> old.owner]
        BY <3>7, <4>1
      <4>. HIDE DEF source, clean
      <4>3. clean <=> Outcome[j.path, j.text] = "clean"
        BY <3>3 DEF clean
      <4>. QED
        BY <3>3, <3>4, <3>5, <4>1, <4>2, <4>3 DEF InForce
    <3>. QED
      BY <3>2, <3>3, <3>6, <3>8
  <2>5. CASE Publish(t)
    <3>. DEFINE j == [old EXCEPT !.step = "reread", !.view = NoOverride]
    <3>1. old.step = "publish"
      BY <2>5 DEF Publish
    <3>2. /\ j \in Jobs /\ j.path = p /\ j.claimed = old.claimed /\ j.next = NoPath
          /\ j.owner = old.owner /\ j.text = old.text /\ j.token = old.token
          /\ j.step = "reread"
      BY <1>1, IdleType DEF Jobs, Stepping
    <3>3. \/ old.claimed /\ job' = [job EXCEPT ![t] = j]
          \/ ~ old.claimed /\ job' = [job EXCEPT ![t] = Finish(old)]
      BY <2>5 DEF Publish
    <3>. HIDE DEF j
    <3>4. CASE old.claimed /\ job' = [job EXCEPT ![t] = j]
      <4>1. StageOK(j) /\ Keeps(j, old)
        BY <3>2, <3>4 DEF StageOK, Keeps, Writing
      <4>2. InForce(j, asked[j.path], source_overrides[j.path])
        BY <1>1, <3>1, <3>2, <3>4 DEF InForce
      <4>. QED
        BY <3>2, <3>4, <4>1, <4>2
    <3>5. CASE ~ old.claimed /\ job' = [job EXCEPT ![t] = Finish(old)]
      BY <1>1, <3>5, FinishFacts DEF Jobs
    <3>. QED
      BY <3>3, <3>4, <3>5
  <2>. QED
    BY <2>1, <2>2, <2>3, <2>4, <2>5
<1>6. PICK j \in Jobs : /\ job' = [job EXCEPT ![t] = j]
                        /\ StageOK(j) /\ Keeps(j, old) /\ j.next = NoPath
                        /\ j.claimed = old.claimed
                        /\ j.owner = 0 \/ j.owner = old.owner
                        /\ j.claimed => InForce(j, asked[j.path], source_overrides[j.path])
  BY <1>5
<1>. QED
  BY <1>1, <1>2, <1>3, <1>6, QuietStep

(* The guard. *)
LEMMA GuardClaims ==
    ASSUME IInv, IInv', ClaimInv, NEW t \in Threads, Install(t) \/ Restore(t)
    PROVE  ClaimInv'
<1>. DEFINE old == job[t]
            p == old.path
<1>1. /\ old \in Jobs /\ p \in Paths /\ StageOK(old) /\ old.next = NoPath
      /\ old.claimed => InForce(old, asked[p], source_overrides[p])
  BY OwnJob DEF Install, Restore
<1>2. source_override_counter \in Nat /\ DOMAIN source_overrides = Paths
  BY DEF IInv, StateOK
<1>3. CASE Install(t)
  <2>. DEFINE n == source_override_counter + 1
              hidden == source_overrides[p]
              j == [old EXCEPT !.step = "parse", !.prior = hidden, !.owner = n]
  <2>1. old.step = "install"
    BY <1>3 DEF Install
  <2>2. hidden \in Overrides /\ n \in Nat
    BY <1>1 DEF IInv, StateOK
  <2>3. /\ j \in Jobs /\ j.path = p /\ j.claimed = old.claimed /\ j.next = NoPath
        /\ j.owner = n /\ j.text = old.text /\ j.token = old.token /\ j.step = "parse"
    <3>. HIDE DEF n, hidden
    <3>. QED
      BY <1>1, <2>2 DEF Jobs, Stepping
  <2>4. /\ job' = [job EXCEPT ![t] = j]
        /\ source_override_counter' = n
        /\ source_overrides' = [source_overrides EXCEPT ![p] = [text |-> old.text, owner |-> n]]
        /\ asked' = Disturbed(t, p)
        /\ UNCHANGED <<revision, records>>
    BY <1>3 DEF Install, IInv, JobsOK
  <2>5. /\ source_overrides'[p] = [text |-> old.text, owner |-> n]
        /\ \A q \in Paths \ {p} : source_overrides'[q] = source_overrides[q]
    BY <1>1, <1>2, <2>4
  <2>6. n # 0 /\ source_override_counter < n
    BY <1>2
  <2>. HIDE DEF j, n
  <2>7. StageOK(j) /\ Keeps(j, old)
    BY <1>1, <2>3 DEF StageOK, Keeps, Writing
  <2>8. asked'[p] = asked[p] \/ asked'[p].lost
    <3>1. AskedOK /\ JobsOK /\ DOMAIN records' = Paths
      BY <2>4 DEF ClaimInv, IInv, AskedOK
    <3>. QED
      BY <1>1, <2>4, <3>1, DisturbedFacts
  <2>9. j.claimed => InForce(j, asked'[j.path], source_overrides'[j.path])
    <3>. SUFFICES ASSUME old.claimed, j.token = asked'[p].token, ~ asked'[p].lost
                  PROVE  InForce(j, asked'[p], source_overrides'[p])
      BY <2>3 DEF InForce
    <3>1. asked[p].text = old.text /\ old.text \in Texts /\ asked'[p] = asked[p]
      BY <1>1, <2>1, <2>3, <2>8 DEF InForce
    <3>. QED
      BY <2>3, <2>5, <2>6, <3>1 DEF InForce
  <2>10. source_override_counter <= source_override_counter'
    BY <1>2, <2>2, <2>4, <2>6
  <2>. QED
    BY <1>1, <2>3, <2>4, <2>5, <2>6, <2>7, <2>9, <2>10, OverrideStep
<1>4. CASE Restore(t)
  <2>. USE DEF IInv, ClaimInv
  <2>1. old.step = "restore" /\ ~ old.claimed
    BY <1>1, <1>4 DEF Restore, StageOK
  <2>2. /\ job' = [job EXCEPT ![t] = Idle]
        /\ UNCHANGED <<source_override_counter, revision, records, asked>>
        /\ source_overrides[p].owner # old.owner => source_overrides' = source_overrides
        /\ \A q \in Paths \ {p} : source_overrides'[q] = source_overrides[q]
    BY <1>1, <1>2, <1>4 DEF Restore
  <2>3. /\ Idle \in Jobs /\ ~ Idle.claimed /\ Idle.step = "idle" /\ Idle.next = NoPath
        /\ Idle.owner = 0
    BY IdleType DEF Idle
  <2>4. StageOK(Idle) /\ Keeps(Idle, old)
    BY <2>3 DEF StageOK, Keeps, Writing
  <2>5. job'[t] = Idle /\ \A u \in Threads \ {t} : job'[u] = job[u]
    BY <2>2 DEF JobsOK
  <2>6. AskedOK'
    BY <2>2 DEF AskedOK
  <2>7. StagesOK'
    BY <2>2, <2>4, StagesKept
  <2>8. ClaimsAreApart'
    <3>1. \A q \in Paths : asked'[q].token = asked[q].token /\ revision[q] <= revision'[q]
      BY <2>2 DEF StateOK
    <3>. QED
      BY <2>2, <2>3, <2>4, <2>6, <3>1, ClaimsKept
  <2>9. OwnersAreApart'
    <3>1. source_override_counter <= source_override_counter'
      BY <1>2, <2>2
    <3>. QED
      BY <2>2, <2>3, <3>1, OwnersKept
  <2>10. HoldersInForce'
    <3>1. ASSUME NEW u \in Threads \ {t}, job[u].claimed, job[u].path = p,
                 job[u].token = asked[p].token, ~ asked[p].lost, job[u].owner # 0,
                 job[u].step \notin {"remove", "arrive", "install"}
          PROVE  source_overrides'[p] = source_overrides[p]
      <4>1. source_overrides[p].owner = job[u].owner
        <5>1. InForce(job[u], asked[p], source_overrides[p])
          BY <3>1 DEF HoldersInForce
        <5>2. source_overrides[p] = [text |-> job[u].text, owner |-> job[u].owner]
          BY <3>1, <5>1 DEF InForce
        <5>. QED
          BY <5>2
      <4>2. job[u].owner # old.owner
        BY <3>1 DEF OwnersAreApart
      <4>. QED
        BY <2>2, <4>1, <4>2
    <3>2. ASSUME NEW u \in Threads \ {t}
          PROVE  LET q == job[u].path IN
                 \/ ~ job[u].claimed
                 \/ job[u].token # asked'[q].token
                 \/ asked'[q].lost
                 \/ /\ asked'[q] = asked[q]
                    /\ \/ job[u].owner = 0
                       \/ job[u].step \in {"remove", "arrive", "install"}
                       \/ source_overrides'[q] = source_overrides[q]
      <4>1. job[u].claimed => job[u].path \in Paths
        BY DEF JobsOK, StagesOK, StageOK
      <4>. QED
        BY <2>2, <3>1, <4>1
    <3>. QED
      BY <2>2, <2>3, <3>2, HoldersKept
  <2>11. NewestWins'
    <3>1. \A q \in Paths : Held(q) => Held(q)'
      BY <1>1, <2>1, <2>2, <2>5, TextAssumption DEF Held
    <3>. QED
      BY <2>2, <3>1, WinsKept DEF NewestWins, Held
  <2>. QED
    BY <2>6, <2>7, <2>8, <2>9, <2>10, <2>11
<1>. QED
  BY <1>3, <1>4

(* A refresh ends.  If its claim is the one asked for and nobody disturbed *)
(* it, the text it worked on is still in force and the record is written;  *)
(* if not, the record is that of another.                                  *)
LEMMA EndClaims ==
    ASSUME IInv, IInv', ClaimInv, NEW t \in Threads, Commit(t) \/ Discard(t)
    PROVE  ClaimInv'
<1>. DEFINE old == job[t]
            p == old.path
            j == Finish(old)
<1>. USE DEF IInv, ClaimInv
<1>1. /\ old \in Jobs /\ p \in Paths /\ StageOK(old) /\ old.next = NoPath /\ old.claimed
      /\ InForce(old, asked[p], source_overrides[p]) /\ old.step \in {"commit", "discard"}
  BY OwnJob DEF Commit, Discard, StageOK, Writing
<1>2. /\ j \in Jobs /\ StageOK(j) /\ Keeps(j, old) /\ ~ j.claimed /\ j.next = NoPath
      /\ j.owner = old.owner
  BY <1>1, FinishFacts
<1>3. /\ job' = [job EXCEPT ![t] = j]
      /\ UNCHANGED <<source_overrides, source_override_counter, revision, asked>>
      /\ DOMAIN records' = Paths
      /\ \A q \in Paths \ {p} : records'[q] = records[q]
      /\ revision[p] # old.token => records' = records
  BY <1>1 DEF Commit, Discard, sourceVars, history, AskedOK
<1>. HIDE DEF j
<1>4. job'[t] = j /\ \A u \in Threads \ {t} : job'[u] = job[u]
  BY <1>3 DEF JobsOK
<1>5. AskedOK'
  BY <1>3 DEF AskedOK
<1>6. StagesOK'
  BY <1>2, <1>3, StagesKept
<1>7. ClaimsAreApart'
  <2>1. \A q \in Paths : asked'[q].token = asked[q].token /\ revision[q] <= revision'[q]
    BY <1>3 DEF StateOK
  <2>. QED
    BY <1>2, <1>3, <1>5, <2>1, ClaimsKept
<1>8. OwnersAreApart'
  <2>1. source_override_counter <= source_override_counter'
    BY <1>3 DEF StateOK
  <2>. QED
    BY <1>2, <1>3, <2>1, OwnersKept
<1>9. HoldersInForce'
  BY <1>2, <1>3, HoldersKept
<1>10. ASSUME old.token = revision[p], old.token = asked[p].token, ~ asked[p].lost
       PROVE  records'[p] = Accepted(p, asked[p].text)
  <2>1. /\ asked[p].text = old.text /\ old.text \in Texts /\ old.owner # 0
        /\ old.step = "commit" => Outcome[p, old.text] = "clean"
        /\ old.step = "discard" => Outcome[p, old.text] # "clean"
    BY <1>1, <1>10 DEF InForce
  <2>. DEFINE installed == [text |-> old.text, owner |-> old.owner]
  <2>5. source_overrides[p] = installed /\ old.view = installed
    BY <1>1, <1>10 DEF InForce
  <2>6. installed.text = old.text /\ installed.owner = old.owner
    OBVIOUS
  <2>2. SourceIsCurrent(p, old.text, old.view, TRUE)
    <3>1. old.text # NoText
      BY <2>1, TextAssumption
    <3>. HIDE DEF installed
    <3>2. /\ old.view.text = old.text /\ old.view.owner = old.owner
          /\ source_overrides[p].owner # 0
      BY <2>1, <2>5, <2>6
    <3>. QED
      BY <2>5, <3>1, <3>2 DEF SourceIsCurrent, installed
  <2>3. CASE Commit(t)
    <3>1. old.step = "commit" /\ records' = [records EXCEPT ![p] = old.text]
      BY <1>10, <2>2, <2>3 DEF Commit
    <3>. QED
      BY <1>1, <2>1, <3>1 DEF Accepted, AskedOK
  <2>4. CASE Discard(t)
    <3>1. old.step = "discard" /\ records' = [records EXCEPT ![p] = NoText]
      BY <1>10, <2>2, <2>4 DEF Discard
    <3>. QED
      BY <1>1, <2>1, <3>1 DEF Accepted, AskedOK
  <2>. QED
    BY <2>3, <2>4
<1>11. NewestWins'
  <2>1. ASSUME NEW q \in Paths
        PROVE  \/ asked'[q].token # revision'[q]
               \/ asked'[q].lost
               \/ Held(q)'
               \/ records'[q] = Accepted(q, asked'[q].text)
               \/ /\ records'[q] = records[q]
                  /\ asked'[q] = asked[q]
                  /\ revision'[q] = revision[q]
                  /\ ~ Held(q)
    <3>1. CASE q # p
      <4>1. Held(q) => Held(q)'
        BY <1>1, <1>3, <1>4, <3>1, TextAssumption DEF Held
      <4>. QED
        BY <1>3, <3>1, <4>1 DEF NewestWins, Held
    <3>2. CASE q = p /\ old.token # asked[p].token
      <4>1. Held(q) => Held(q)'
        BY <1>1, <1>3, <1>4, <3>2, TextAssumption DEF Held
      <4>. QED
        BY <1>3, <3>2, <4>1 DEF NewestWins, Held
    <3>3. CASE q = p /\ old.token = asked[p].token
      BY <1>3, <1>10, <3>3
    <3>. QED
      BY <3>1, <3>2, <3>3
  <2>. QED
    BY <2>1, WinsKept
<1>. QED
  BY <1>5, <1>6, <1>7, <1>8, <1>9, <1>11

(* A file is removed under its claim, and the second path of a move, which *)
(* waited under a claim of its own, is next.                               *)
LEMMA RemoveClaims ==
    ASSUME IInv, IInv', ClaimInv, NEW t \in Threads, RemovePath(t)
    PROVE  ClaimInv'
<1>. DEFINE old == job[t]
            p == old.path
            j == IF old.next = NoPath THEN Idle
                 ELSE [Idle EXCEPT !.step = "arrive", !.path = old.next, !.claimed = TRUE,
                                   !.token = old.next_token]
<1>. USE DEF IInv, ClaimInv
<1>1. /\ old \in Jobs /\ p \in Paths /\ StageOK(old) /\ old.claimed /\ old.step = "remove"
      /\ InForce(old, asked[p], source_overrides[p])
  BY DEF RemovePath, JobsOK, StagesOK, StageOK, Writing, HoldersInForce
<1>2. /\ j \in Jobs /\ j.next = NoPath /\ j.owner = 0 /\ j.step \in {"idle", "arrive"}
      /\ j.claimed <=> old.next # NoPath
      /\ j.step = "arrive" <=> old.next # NoPath
      /\ old.next # NoPath => j.path = old.next /\ j.token = old.next_token
  <2>1. CASE old.next = NoPath
    BY <2>1, IdleType DEF Idle
  <2>2. CASE old.next # NoPath
    BY <1>1, <2>2 DEF Idle, Jobs, NoOverride, Overrides, Stepping, Contents
  <2>. QED
    BY <2>1, <2>2
<1>3. StageOK(j)
  BY <1>2 DEF StageOK, Writing
<1>4. /\ job' = [job EXCEPT ![t] = j]
      /\ UNCHANGED <<source_override_counter, revision, asked>>
      /\ DOMAIN records' = Paths
      /\ revision[p] = old.token => records'[p] = NoText
      /\ revision[p] # old.token => records' = records /\ source_overrides' = source_overrides
      /\ \A q \in Paths \ {p} : /\ records'[q] = records[q]
                                /\ source_overrides'[q] = source_overrides[q]
  BY <1>1 DEF RemovePath, AskedOK, StateOK
<1>. HIDE DEF j
<1>5. job'[t] = j /\ \A u \in Threads \ {t} : job'[u] = job[u]
  BY <1>4 DEF JobsOK
<1>6. AskedOK'
  BY <1>4 DEF AskedOK
<1>7. StagesOK'
  BY <1>3, <1>4, StagesKept
<1>8. ClaimsAreApart'
  <2>1. \A u \in Threads :
           /\ job[u].claimed => job[u].path \in Paths
           /\ job[u].next # NoPath => job[u].next \in Paths
    BY DEF JobsOK, Jobs, StagesOK, StageOK
  <2>2. \A u \in Threads :
           /\ job'[u].claimed => job'[u].token <= asked'[job'[u].path].token
           /\ job'[u].next # NoPath => job'[u].next_token <= asked'[job'[u].next].token
    <3>1. /\ j.claimed => j.token <= asked'[j.path].token
          /\ j.next # NoPath => j.next_token <= asked'[j.next].token
      BY <1>2, <1>4 DEF ClaimsAreApart
    <3>2. \A u \in Threads \ {t} :
             /\ job[u].claimed => job[u].token <= asked'[job[u].path].token
             /\ job[u].next # NoPath => job[u].next_token <= asked'[job[u].next].token
      BY <1>4 DEF ClaimsAreApart
    <3>. QED
      BY <1>5, <3>1, <3>2
  <2>3. ASSUME NEW u \in Threads, NEW v \in Threads, u # v
        PROVE  /\ job'[u].claimed /\ job'[v].claimed /\ job'[u].path = job'[v].path
                     => job'[u].token # job'[v].token
               /\ job'[u].claimed /\ job'[v].next = job'[u].path
                     => job'[u].token # job'[v].next_token
               /\ job'[u].next # NoPath /\ job'[u].next = job'[v].next
                     => job'[u].next_token # job'[v].next_token
    <3>1. CASE u = t
      <4>1. /\ job[v].claimed /\ old.next = job[v].path => job[v].token # old.next_token
            /\ old.next # NoPath /\ old.next = job[v].next
                  => old.next_token # job[v].next_token
        BY <2>3, <3>1 DEF ClaimsAreApart
      <4>2. job'[u] = j /\ job'[v] = job[v]
        BY <1>5, <2>3, <3>1
      <4>. QED
        BY <1>2, <4>1, <4>2
    <3>2. CASE v = t
      BY <1>1, <1>2, <1>5, <2>1, <2>3, <3>2, TextAssumption DEF ClaimsAreApart
    <3>3. CASE u # t /\ v # t
      BY <1>5, <2>3, <3>3 DEF ClaimsAreApart
    <3>. QED
      BY <3>1, <3>2, <3>3
  <2>4. \A q \in Paths : asked'[q].token <= revision'[q]
    BY <1>4 DEF ClaimsAreApart
  <2>. QED
    BY <2>2, <2>3, <2>4 DEF ClaimsAreApart
<1>9. OwnersAreApart'
  <2>1. source_override_counter <= source_override_counter'
    BY <1>4 DEF StateOK
  <2>. QED
    BY <1>2, <1>4, <2>1, OwnersKept
<1>10. HoldersInForce'
  <2>1. ASSUME NEW u \in Threads \ {t}, job[u].claimed, job[u].path = p,
               job[u].token = asked[p].token
        PROVE  revision[p] # old.token
    <3>1. /\ old.token \in Nat /\ asked[p].token \in Nat /\ revision[p] \in Nat
          /\ old.token <= asked[p].token /\ asked[p].token <= revision[p]
          /\ old.token # job[u].token
      BY <1>1, <2>1 DEF ClaimsAreApart, AskedOK, StateOK, Jobs
    <3>. QED
      BY <2>1, <3>1
  <2>2. ASSUME NEW u \in Threads \ {t}
        PROVE  LET q == job[u].path IN
               \/ ~ job[u].claimed
               \/ job[u].token # asked'[q].token
               \/ asked'[q].lost
               \/ /\ asked'[q] = asked[q]
                  /\ \/ job[u].owner = 0
                     \/ job[u].step \in {"remove", "arrive", "install"}
                     \/ source_overrides'[q] = source_overrides[q]
    <3>1. job[u].claimed => job[u].path \in Paths
      BY DEF JobsOK, StagesOK, StageOK
    <3>. QED
      BY <1>4, <2>1, <3>1
  <2>3. j.claimed => InForce(j, asked'[j.path], source_overrides'[j.path])
    BY <1>2 DEF InForce
  <2>. QED
    BY <1>4, <2>2, <2>3, HoldersKept
<1>11. NewestWins'
  <2>1. ASSUME NEW q \in Paths
        PROVE  \/ asked'[q].token # revision'[q]
               \/ asked'[q].lost
               \/ Held(q)'
               \/ records'[q] = Accepted(q, asked'[q].text)
               \/ /\ records'[q] = records[q]
                  /\ asked'[q] = asked[q]
                  /\ revision'[q] = revision[q]
                  /\ ~ Held(q)
    <3>1. CASE q = p /\ old.token = asked[p].token
      <4>1. ~ asked[p].lost => asked[p].text = NoText
        BY <1>1, <3>1 DEF InForce
      <4>2. Accepted(p, NoText) = NoText
        BY DEF Accepted
      <4>. QED
        BY <1>4, <3>1, <4>1, <4>2
    <3>2. CASE ~ (q = p /\ old.token = asked[p].token)
      <4>. SUFFICES ASSUME asked[q].token = revision[q], ~ asked[q].lost, ~ Held(q)'
                    PROVE  ~ Held(q) /\ records'[q] = records[q]
        BY <1>4
      <4>1. records'[q] = records[q]
        BY <1>4, <3>2
      <4>2. ~ Held(q)
        <5>. SUFFICES ASSUME NEW u \in Threads,
                             \/ /\ job[u].path = q /\ job[u].claimed
                                /\ job[u].token = asked[q].token
                             \/ job[u].next = q /\ job[u].next_token = asked[q].token
                      PROVE  FALSE
          BY DEF Held
        <5>1. CASE u # t
          BY <1>4, <1>5, <5>1 DEF Held
        <5>2. CASE u = t
          <6>1. job[t].next = q /\ job[t].next_token = asked[q].token
            BY <3>2, <5>2
          <6>. QED
            BY <1>2, <1>4, <1>5, <2>1, <6>1, TextAssumption DEF Held
        <5>. QED
          BY <5>1, <5>2
      <4>. QED
        BY <4>1, <4>2
    <3>. QED
      BY <3>1, <3>2
  <2>. QED
    BY <2>1, WinsKept
<1>. QED
  BY <1>6, <1>7, <1>8, <1>9, <1>10, <1>11

(* A move reaches its target and takes over the text it finds there. *)
LEMMA ArriveClaims ==
    ASSUME IInv, IInv', ClaimInv, NEW t \in Threads, Arrive(t)
    PROVE  ClaimInv'
<1>. DEFINE old == job[t]
            p == old.path
            found == Source(p).text
            step == IF found = NoText THEN "remove" ELSE "install"
            j == [old EXCEPT !.step = step, !.text = found]
<1>. USE DEF IInv, ClaimInv
<1>1. /\ old \in Jobs /\ p \in Paths /\ StageOK(old) /\ old.next = NoPath /\ old.claimed
      /\ old.step = "arrive"
  BY OwnJob DEF Arrive, StageOK, Writing
<1>2. found \in Contents
  BY <1>1, SourceType DEF Overrides
<1>3. job' = [job EXCEPT ![t] = j]
  BY <1>1 DEF Arrive, JobsOK
<1>4. /\ UNCHANGED <<source_overrides, source_override_counter, revision, records>>
      /\ asked[p].token # old.token => asked' = asked
      /\ asked[p].token = old.token => asked' = [asked EXCEPT ![p].text = found]
  BY DEF Arrive, sourceVars
<1>5. /\ step \in {"remove", "install"} /\ (step = "remove" <=> found = NoText)
  OBVIOUS
<1>. HIDE DEF found, step
<1>6. /\ j \in Jobs /\ j.path = p /\ j.claimed /\ j.token = old.token /\ j.next = NoPath
      /\ j.owner = old.owner /\ j.step = step /\ j.text = found
  BY <1>1, <1>2, <1>5 DEF Jobs, Stepping
<1>. HIDE DEF j
<1>7. StageOK(j) /\ Keeps(j, old)
  BY <1>1, <1>5, <1>6 DEF StageOK, Keeps, Writing
<1>8. job'[t] = j /\ \A u \in Threads \ {t} : job'[u] = job[u]
  BY <1>3 DEF JobsOK
<1>9. /\ AskedOK'
      /\ \A q \in Paths : /\ asked'[q].token = asked[q].token
                          /\ q # p => asked'[q] = asked[q]
      /\ asked[p].token = old.token => asked'[p].text = found
  BY <1>1, <1>2, <1>4 DEF AskedOK
<1>10. StagesOK'
  BY <1>3, <1>7, StagesKept
<1>11. ClaimsAreApart'
  <2>1. \A q \in Paths : revision[q] <= revision'[q]
    BY <1>4 DEF StateOK
  <2>. QED
    BY <1>3, <1>6, <1>7, <1>9, <2>1, ClaimsKept
<1>12. OwnersAreApart'
  <2>1. source_override_counter <= source_override_counter'
    BY <1>4 DEF StateOK
  <2>. QED
    BY <1>3, <1>4, <1>6, <2>1, OwnersKept
<1>13. HoldersInForce'
  <2>1. ASSUME NEW u \in Threads \ {t}
        PROVE  LET q == job[u].path IN
               \/ ~ job[u].claimed
               \/ job[u].token # asked'[q].token
               \/ asked'[q].lost
               \/ /\ asked'[q] = asked[q]
                  /\ \/ job[u].owner = 0
                     \/ job[u].step \in {"remove", "arrive", "install"}
                     \/ source_overrides'[q] = source_overrides[q]
    <3>1. job[u].claimed => job[u].path \in Paths
      BY DEF JobsOK, StagesOK, StageOK
    <3>2. job[u].claimed /\ job[u].path = p => job[u].token # old.token
      BY <1>1 DEF ClaimsAreApart
    <3>. QED
      BY <1>4, <1>9, <3>1, <3>2
  <2>2. InForce(j, asked'[j.path], source_overrides'[j.path])
    <3>1. j.token = asked'[p].token => asked'[p].text = j.text
      BY <1>1, <1>6, <1>9
    <3>2. (j.step = "remove" => j.text = NoText) /\ (j.step = "install" => j.text \in Texts)
      BY <1>2, <1>5, <1>6 DEF Contents
    <3>. QED
      BY <1>5, <1>6, <3>1, <3>2 DEF InForce
  <2>. QED
    BY <1>3, <2>1, <2>2, HoldersKept
<1>14. NewestWins'
  <2>1. ASSUME NEW q \in Paths
        PROVE  \/ Held(q)'
               \/ asked'[q] = asked[q] /\ ~ Held(q)
    <3>1. CASE q = p /\ asked[p].token = old.token
      BY <1>6, <1>8, <1>9, <3>1 DEF Held
    <3>2. CASE ~ (q = p /\ asked[p].token = old.token)
      <4>1. asked'[q] = asked[q]
        BY <1>4, <1>9, <3>2
      <4>2. Held(q) => Held(q)'
        BY <1>1, <1>6, <1>8, <4>1, TextAssumption DEF Held
      <4>. QED
        BY <4>1, <4>2
    <3>. QED
      BY <3>1, <3>2
  <2>. QED
    BY <1>4, <2>1, WinsKept DEF NewestWins, Held
<1>. QED
  BY <1>9, <1>10, <1>11, <1>12, <1>13, <1>14

-----------------------------------------------------------------------------
(* All of Next, for the claims *)

LEMMA InitClaims == RefreshInit => ClaimInv
<1>. SUFFICES ASSUME RefreshInit PROVE ClaimInv
  OBVIOUS
<1>1. \A t \in Threads : job[t] = Idle
  BY DEF RefreshInit
<1>2. /\ Idle.step = "idle" /\ ~ Idle.claimed /\ Idle.next = NoPath /\ Idle.owner = 0
  BY DEF Idle
<1>3. \A p \in Paths : asked[p] = NoClaim /\ revision[p] = 0
  BY DEF RefreshInit
<1>4. NoClaim \in [token : Nat, text : Contents, lost : BOOLEAN] /\ NoClaim.token = 0
  BY DEF NoClaim, Contents
<1>5. AskedOK
  BY <1>4 DEF RefreshInit, AskedOK
<1>6. StagesOK
  BY <1>1, <1>2 DEF StagesOK, StageOK, Writing
<1>7. ClaimsAreApart
  BY <1>1, <1>2, <1>3, <1>4 DEF ClaimsAreApart
<1>8. OwnersAreApart
  BY <1>1, <1>2 DEF RefreshInit, OwnersAreApart
<1>9. HoldersInForce
  BY <1>1, <1>2 DEF HoldersInForce
<1>10. NewestWins
  BY <1>3, <1>4 DEF NewestWins
<1>. QED
  BY <1>5, <1>6, <1>7, <1>8, <1>9, <1>10 DEF ClaimInv

LEMMA ClaimsNext == IInv /\ IInv' /\ ClaimInv /\ [RefreshNext]_refreshVars => ClaimInv'
<1>. SUFFICES ASSUME IInv, IInv', ClaimInv, [RefreshNext]_refreshVars PROVE ClaimInv'
  OBVIOUS
<1>1. ASSUME UNCHANGED <<source_overrides, source_override_counter, revision, records, job,
                         asked>>
      PROVE  ClaimInv'
  BY <1>1 DEF ClaimInv, AskedOK, StagesOK, ClaimsAreApart, OwnersAreApart, HoldersInForce,
              NewestWins, Held, Accepted
<1>2. ASSUME NEW p \in Paths, NEW x \in Texts \cup {NoText}, Save(p, x) PROVE ClaimInv'
  BY <1>1, <1>2 DEF Save, sourceVars, history
<1>3. ASSUME NEW t \in Threads, NEW draft \in Drafts,
             \/ Refresh(t, draft[1], draft[2])
             \/ SetSourceCode(t, draft[1], draft[2])
             \/ Validate(t, draft[1], draft[2])
      PROVE  ClaimInv'
  <2>1. draft[1] \in Paths /\ draft[2] \in Texts
    BY TextAssumption
  <2>. QED
    BY <1>3, <2>1, CallClaims
<1>4. ASSUME NEW t \in Threads, NEW p \in Paths, ClearSourceOverride(t, p) \/ Analyse(t, p)
      PROVE  ClaimInv'
  BY <1>4, CallClaims
<1>5. ASSUME NEW t \in Threads, NEW p \in Paths, RemoveScript(t, p) PROVE ClaimInv'
  BY <1>5, ClaimClaims
<1>6. ASSUME NEW t \in Threads, NEW from \in Paths, NEW to \in Paths,
             MoveScript(t, from, to)
      PROVE  ClaimInv'
  BY <1>6, ClaimClaims
<1>7. ASSUME NEW t \in Threads, Prepare(t) PROVE ClaimInv'
  <2>1. job[t].path \in Paths
    BY <1>7 DEF Prepare, IInv, JobsOK
  <2>. QED
    BY <1>7, <2>1, ClaimClaims
<1>8. ASSUME UNCHANGED refreshVars PROVE ClaimInv'
  BY <1>1, <1>8 DEF refreshVars
<1>. QED
  BY <1>2, <1>3, <1>4, <1>5, <1>6, <1>7, <1>8, GuardClaims, AnalysisClaims, EndClaims,
     RemoveClaims, ArriveClaims DEF RefreshNext

-----------------------------------------------------------------------------
(* The guards: the invariant of NestedGuardsRestore *)

OwnerOK(j) ==
    /\ j.step \in {"idle", "prepare", "install", "load", "remove", "arrive"} => j.owner = 0
    /\ j.step = "restore" => j.owner # 0

(* The guards on p opened after the editor last changed its override.      *)
Live(t, p, edit) == job[t].path = p /\ job[t].owner > edit

(* Up to limit, an override is that of the last of the live guards, and    *)
(* with no live guard it is what the editor left.                          *)
Shows(override, p, edit, limit) ==
    \/ \E t \in Threads :
          /\ Live(t, p, edit) /\ job[t].owner < limit
          /\ override.owner = job[t].owner
          /\ \A u \in Threads :
                Live(u, p, edit) /\ job[u].owner < limit => job[u].owner <= job[t].owner
    \/ /\ \A t \in Threads : ~ (Live(t, p, edit) /\ job[t].owner < limit)
       /\ override.text = edited[p]
       /\ override.owner <= edit
       /\ \A t \in Threads : override.owner # 0 => job[t].owner # override.owner

(* The override in force and what each live guard will put back are the    *)
(* live guards one by one, down to what the editor left.                   *)
Nested(p, edit) ==
    /\ edit \in Nat /\ edit <= source_override_counter
    /\ Shows(source_overrides[p], p, edit, source_override_counter + 1)
    /\ \A t \in Threads : Live(t, p, edit) => Shows(job[t].prior, p, edit, job[t].owner)

GuardInv ==
    /\ DOMAIN edited = Paths
    /\ \A t \in Threads : OwnerOK(job[t])
    /\ \A p \in Paths : p \notin crossed => \E edit \in Nat : Nested(p, edit)

(* What leaves the guards on p alone leaves them nested. *)
LEMMA NestedKept ==
    ASSUME IInv, OwnersAreApart, NEW p \in Paths, NEW edit \in Nat, Nested(p, edit),
           source_overrides'[p] = source_overrides[p], edited'[p] = edited[p],
           source_override_counter' \in Nat,
           source_override_counter <= source_override_counter',
           \A u \in Threads :
              \/ /\ job'[u].owner = job[u].owner
                 /\ job[u].owner # 0 =>
                       job'[u].path = job[u].path /\ job'[u].prior = job[u].prior
              \/ /\ ~ Live(u, p, edit)
                 /\ job'[u].path # p \/ job'[u].owner = 0
                 /\ \/ job'[u].owner = 0
                    \/ /\ job'[u].owner \in Nat
                       /\ job'[u].owner > source_override_counter
    PROVE  Nested(p, edit)'
<1>1. source_override_counter \in Nat /\ edit <= source_override_counter
  BY DEF IInv, StateOK, Nested
<1>2. \A u \in Threads : job[u].owner \in Nat /\ job[u].owner <= source_override_counter
  BY DEF IInv, JobsOK, Jobs, OwnersAreApart
<1>3. \A u \in Threads : Live(u, p, edit)' <=> Live(u, p, edit)
  BY <1>1, <1>2 DEF Live
<1>4. \A u \in Threads : Live(u, p, edit) =>
         job'[u].owner = job[u].owner /\ job'[u].prior = job[u].prior
  BY <1>2 DEF Live
<1>5. ASSUME NEW o, NEW limit \in Nat, NEW more \in Nat, Shows(o, p, edit, limit),
             o.owner \in Nat,
             limit = more \/ (limit = source_override_counter + 1 /\ limit <= more)
      PROVE  Shows(o, p, edit, more)'
  <2>1. \A u \in Threads : Live(u, p, edit) =>
           (job'[u].owner < more <=> job[u].owner < limit)
    BY <1>1, <1>2, <1>4, <1>5
  <2>2. ASSUME NEW t \in Threads,
               /\ Live(t, p, edit) /\ job[t].owner < limit
               /\ o.owner = job[t].owner
               /\ \A u \in Threads :
                     Live(u, p, edit) /\ job[u].owner < limit => job[u].owner <= job[t].owner
        PROVE  Shows(o, p, edit, more)'
    BY <1>3, <1>4, <2>1, <2>2 DEF Shows
  <2>3. ASSUME \A t \in Threads : ~ (Live(t, p, edit) /\ job[t].owner < limit),
               o.text = edited[p],
               o.owner <= edit,
               \A t \in Threads : o.owner # 0 => job[t].owner # o.owner
        PROVE  Shows(o, p, edit, more)'
    <3>1. \A t \in Threads : ~ (Live(t, p, edit)' /\ job'[t].owner < more)
      BY <1>3, <2>1, <2>3
    <3>2. \A t \in Threads : o.owner # 0 => job'[t].owner # o.owner
      BY <1>1, <1>5, <2>3
    <3>. QED
      BY <2>3, <3>1, <3>2 DEF Shows
  <2>. QED
    BY <1>5, <2>2, <2>3 DEF Shows
<1>6. Shows(source_overrides[p], p, edit, source_override_counter + 1)'
  <2>1. source_overrides[p].owner \in Nat
    BY DEF IInv, StateOK, Overrides
  <2>2. Shows(source_overrides[p], p, edit, source_override_counter + 1)
    BY DEF Nested
  <2>3. /\ source_override_counter + 1 \in Nat /\ source_override_counter' + 1 \in Nat
        /\ source_override_counter + 1 <= source_override_counter' + 1
    BY <1>1
  <2>. QED
    BY <1>5, <2>1, <2>2, <2>3
<1>7. ASSUME NEW u \in Threads, Live(u, p, edit)'
      PROVE  Shows(job[u].prior, p, edit, job[u].owner)'
  <2>1. Live(u, p, edit)
    BY <1>3, <1>7
  <2>2. Shows(job[u].prior, p, edit, job[u].owner)
    BY <2>1 DEF Nested
  <2>3. job[u].prior.owner \in Nat /\ job[u].owner \in Nat
    BY DEF IInv, JobsOK, Jobs, Overrides
  <2>. QED
    BY <1>4, <1>5, <2>1, <2>2, <2>3
<1>. QED
  BY <1>1, <1>6, <1>7 DEF Nested

(* A step that neither opens nor closes a guard. *)
LEMMA SameGuards ==
    ASSUME IInv, OwnersAreApart, GuardInv, NEW t \in Threads, NEW j, OwnerOK(j),
           job' = [job EXCEPT ![t] = j], j.owner = job[t].owner,
           job[t].owner # 0 => j.path = job[t].path /\ j.prior = job[t].prior,
           UNCHANGED <<source_overrides, source_override_counter, edited, crossed>>
    PROVE  GuardInv'
<1>1. \A u \in Threads :
         /\ job'[u].owner = job[u].owner
         /\ job[u].owner # 0 => job'[u].path = job[u].path /\ job'[u].prior = job[u].prior
  BY DEF IInv, JobsOK
<1>2. \A u \in Threads : OwnerOK(job'[u])
  BY DEF GuardInv, IInv, JobsOK
<1>3. source_override_counter' \in Nat /\ source_override_counter <= source_override_counter'
  BY DEF IInv, StateOK
<1>4. ASSUME NEW p \in Paths, p \notin crossed'
      PROVE  \E edit \in Nat : Nested(p, edit)'
  <2>1. PICK edit \in Nat : Nested(p, edit)
    BY <1>4 DEF GuardInv
  <2>2. source_overrides'[p] = source_overrides[p] /\ edited'[p] = edited[p]
    OBVIOUS
  <2>3. Nested(p, edit)'
    BY <1>1, <1>3, <2>1, <2>2, NestedKept
  <2>. QED
    BY <2>3
<1>. QED
  BY <1>2, <1>4 DEF GuardInv

(* The editor, or a removal, leaves a new text on p: the guards there are  *)
(* live no more.                                                           *)
LEMMA EditGuards ==
    ASSUME IInv, IInv', OwnersAreApart, GuardInv, NEW t \in Threads, NEW j, NEW p \in Paths,
           OwnerOK(j), job' = [job EXCEPT ![t] = j], j.owner = job[t].owner,
           job[t].owner # 0 => j = job[t],
           UNCHANGED crossed, DOMAIN edited' = Paths,
           source_override_counter <= source_override_counter',
           \A q \in Paths \ {p} : /\ source_overrides'[q] = source_overrides[q]
                                  /\ edited'[q] = edited[q],
           source_overrides'[p].text = edited'[p],
           \/ source_overrides'[p].owner = 0
           \/ /\ source_overrides'[p].owner = source_override_counter'
              /\ source_override_counter < source_override_counter'
    PROVE  GuardInv'
<1>1. \A u \in Threads :
         /\ job'[u].owner = job[u].owner
         /\ job[u].owner # 0 => job'[u].path = job[u].path /\ job'[u].prior = job[u].prior
  BY DEF IInv, JobsOK
<1>2. \A u \in Threads : OwnerOK(job'[u])
  BY DEF GuardInv, IInv, JobsOK
<1>3. source_override_counter \in Nat /\ source_override_counter' \in Nat
  BY DEF IInv, StateOK
<1>4. \A u \in Threads : job[u].owner \in Nat /\ job[u].owner <= source_override_counter
  BY DEF IInv, JobsOK, Jobs, OwnersAreApart
<1>5. ASSUME NEW q \in Paths \ {p}, q \notin crossed'
      PROVE  \E edit \in Nat : Nested(q, edit)'
  <2>1. PICK edit \in Nat : Nested(q, edit)
    BY <1>5 DEF GuardInv
  <2>2. Nested(q, edit)'
    BY <1>1, <1>3, <2>1, NestedKept
  <2>. QED
    BY <2>2
<1>6. \E edit \in Nat : Nested(p, edit)'
  <2>6. PICK edit \in Nat : edit = source_override_counter'
    BY <1>3
  <2>1. \A u \in Threads : ~ Live(u, p, edit)'
    BY <1>1, <1>3, <1>4, <2>6 DEF Live
  <2>2. \A u \in Threads :
           source_overrides'[p].owner # 0 => job'[u].owner # source_overrides'[p].owner
    BY <1>1, <1>3, <1>4
  <2>3. source_overrides'[p].owner <= edit
    BY <1>3, <2>6
  <2>4. Shows(source_overrides[p], p, edit, source_override_counter + 1)'
    BY <2>1, <2>2, <2>3 DEF Shows
  <2>5. Nested(p, edit)'
    BY <1>3, <2>1, <2>4, <2>6 DEF Nested
  <2>. QED
    BY <2>5
<1>. QED
  BY <1>2, <1>5, <1>6 DEF GuardInv

(* A guard opens over whatever is in force. *)
LEMMA InstallGuards ==
    ASSUME IInv, IInv', OwnersAreApart, GuardInv, NEW t \in Threads, Install(t)
    PROVE  GuardInv'
<1>1. PICK old \in Jobs, p \in Paths, n \in Nat, hidden \in Overrides :
         /\ old = job[t] /\ p = old.path /\ old.step = "install" /\ old.owner = 0
         /\ n = source_override_counter + 1 /\ DOMAIN source_overrides = Paths
         /\ hidden = source_overrides[p] /\ hidden.owner \in Nat
         /\ source_override_counter \in Nat
  <2>1. /\ job[t] \in Jobs /\ job[t].path \in Paths
        /\ job[t].step = "install" /\ job[t].owner = 0
    BY DEF Install, IInv, JobsOK, GuardInv, OwnerOK
  <2>2. /\ source_override_counter \in Nat /\ DOMAIN source_overrides = Paths
        /\ source_overrides[job[t].path] \in Overrides
    BY <2>1 DEF IInv, StateOK
  <2>. QED
    BY <2>1, <2>2 DEF Overrides
<1>. DEFINE j == [old EXCEPT !.step = "parse", !.prior = hidden, !.owner = n]
<1>2. /\ job' = [job EXCEPT ![t] = j] /\ source_override_counter' = n
      /\ source_overrides' = [source_overrides EXCEPT ![p] = [text |-> old.text, owner |-> n]]
      /\ UNCHANGED <<edited, crossed>>
  BY <1>1 DEF Install, IInv, JobsOK
<1>3. j.owner = n /\ j.path = p /\ j.prior = hidden /\ j.step = "parse"
  BY <1>1 DEF Jobs
<1>. HIDE DEF j
<1>4. job'[t] = j /\ \A u \in Threads \ {t} : job'[u] = job[u]
  BY <1>2 DEF IInv, JobsOK
<1>5. \A u \in Threads : OwnerOK(job'[u])
  BY <1>3, <1>4 DEF GuardInv, OwnerOK
<1>6. \A u \in Threads : job[u].owner \in Nat /\ job[u].owner <= source_override_counter
  BY DEF IInv, JobsOK, Jobs, OwnersAreApart
<1>7. source_overrides'[p].owner = n
  BY <1>1, <1>2
<1>8. ASSUME NEW q \in Paths \ {p}, q \notin crossed'
      PROVE  \E edit \in Nat : Nested(q, edit)'
  <2>1. PICK edit \in Nat : Nested(q, edit)
    BY <1>2, <1>8 DEF GuardInv
  <2>2. ~ Live(t, q, edit) /\ j.path # q
    BY <1>1, <1>3 DEF Live
  <2>3. source_overrides'[q] = source_overrides[q] /\ edited'[q] = edited[q]
    BY <1>1, <1>2
  <2>4. Nested(q, edit)'
    BY <1>1, <1>2, <1>3, <1>4, <2>1, <2>2, <2>3, NestedKept
  <2>. QED
    BY <2>4
<1>9. ASSUME p \notin crossed'
      PROVE  \E edit \in Nat : Nested(p, edit)'
  <2>1. PICK edit \in Nat : Nested(p, edit)
    BY <1>1, <1>2, <1>9 DEF GuardInv
  <2>2. edit <= source_override_counter
    BY <2>1 DEF Nested
  <2>3. /\ Live(t, p, edit)' /\ ~ Live(t, p, edit)
        /\ \A u \in Threads \ {t} : Live(u, p, edit)' <=> Live(u, p, edit)
    BY <1>1, <1>3, <1>4, <2>2 DEF Live
  <2>4. Shows(source_overrides[p], p, edit, source_override_counter + 1)'
    <3>1. /\ job'[t].owner < source_override_counter' + 1
          /\ \A u \in Threads : job'[u].owner <= n
      BY <1>1, <1>2, <1>3, <1>4, <1>6
    <3>. QED
      BY <1>3, <1>4, <1>7, <2>3, <3>1 DEF Shows
  <2>5. \A o, limit : Shows(o, p, edit, limit) /\ limit \in Nat /\ limit <= n /\ o.owner <= n - 1
           /\ o.owner \in Nat => Shows(o, p, edit, limit)'
    <3>. SUFFICES ASSUME NEW o, NEW limit \in Nat, Shows(o, p, edit, limit), limit <= n,
                         o.owner \in Nat, o.owner <= n - 1
                  PROVE  Shows(o, p, edit, limit)'
      OBVIOUS
    <3>1. \A u \in Threads :
             (Live(u, p, edit)' /\ job'[u].owner < limit)
             <=> (Live(u, p, edit) /\ job[u].owner < limit)
      BY <1>1, <1>3, <1>4, <2>3
    <3>2. \A u \in Threads : Live(u, p, edit) => job'[u] = job[u]
      BY <1>4, <2>3
    <3>3. (\A u \in Threads : o.owner # 0 => job[u].owner # o.owner)
          => (\A u \in Threads : o.owner # 0 => job'[u].owner # o.owner)
      BY <1>1, <1>3, <1>4
    <3>. QED
      BY <1>2, <3>1, <3>2, <3>3 DEF Shows
  <2>6. ASSUME NEW u \in Threads, Live(u, p, edit)'
        PROVE  Shows(job[u].prior, p, edit, job[u].owner)'
    <3>1. CASE u = t
      <4>1. Shows(hidden, p, edit, n)
        BY <1>1, <2>1 DEF Nested
      <4>2. hidden.owner <= n - 1
        BY <1>1, <1>6, <2>1, <2>2, <4>1 DEF Shows
      <4>3. Shows(hidden, p, edit, n)'
        BY <1>1, <2>5, <4>1, <4>2
      <4>. QED
        BY <1>3, <1>4, <3>1, <4>3
    <3>2. CASE u # t
      <4>1. PICK o \in Overrides, limit \in Nat : o = job[u].prior /\ limit = job[u].owner
        BY DEF IInv, JobsOK, Jobs
      <4>2. Shows(o, p, edit, limit)
        BY <2>1, <2>3, <2>6, <3>2, <4>1 DEF Nested
      <4>3. o.owner \in Nat /\ o.owner <= n - 1 /\ limit <= n
        <5>1. o.owner \in Nat
          BY DEF Overrides
        <5>2. limit <= n
          BY <1>1, <1>6, <4>1
        <5>. QED
          BY <1>1, <1>6, <2>2, <4>2, <5>1, <5>2 DEF Shows
      <4>4. Shows(o, p, edit, limit)'
        BY <2>5, <4>2, <4>3
      <4>. QED
        BY <1>4, <3>2, <4>1, <4>4
    <3>. QED
      BY <3>1, <3>2
  <2>7. Nested(p, edit)'
    BY <1>1, <1>2, <2>2, <2>4, <2>6 DEF Nested
  <2>. QED
    BY <2>7
<1>10. DOMAIN edited' = Paths
  BY <1>2 DEF GuardInv
<1>. QED
  BY <1>5, <1>8, <1>9, <1>10 DEF GuardInv

(* A guard closes.  Live and not overtaken it is the one in force, and     *)
(* what it puts back is what the guard before it, or the editor, left.     *)
LEMMA RestoreGuards ==
    ASSUME IInv, IInv', OwnersAreApart, GuardInv, NEW t \in Threads, Restore(t)
    PROVE  GuardInv'
<1>1. PICK old \in Jobs, p \in Paths :
         old = job[t] /\ p = old.path /\ old.step = "restore" /\ old.owner # 0
  BY DEF Restore, IInv, JobsOK, GuardInv, OwnerOK
<1>2. /\ job' = [job EXCEPT ![t] = Idle]
      /\ UNCHANGED <<source_override_counter, edited>>
      /\ crossed' = IF OpenedLater(t) # {} THEN crossed \cup {p} ELSE crossed
      /\ source_overrides' = IF source_overrides[p].owner = old.owner
                             THEN [source_overrides EXCEPT ![p] = old.prior]
                             ELSE source_overrides
  BY <1>1 DEF Restore
<1>3. /\ job'[t] = Idle /\ Idle.owner = 0 /\ Idle.step = "idle"
      /\ \A u \in Threads \ {t} : job'[u] = job[u]
  BY <1>2 DEF IInv, JobsOK, Idle
<1>4. \A u \in Threads : OwnerOK(job'[u])
  BY <1>3 DEF GuardInv, OwnerOK
<1>5. \A u \in Threads : job[u].owner \in Nat /\ job[u].owner <= source_override_counter
  BY DEF IInv, JobsOK, Jobs, OwnersAreApart
<1>6. source_override_counter \in Nat /\ DOMAIN source_overrides = Paths
  BY DEF IInv, StateOK
<1>7. ASSUME NEW q \in Paths, q # p, q \notin crossed'
      PROVE  \E edit \in Nat : Nested(q, edit)'
  <2>1. PICK edit \in Nat : Nested(q, edit)
    BY <1>2, <1>7 DEF GuardInv
  <2>2. ~ Live(t, q, edit)
    BY <1>1, <1>7 DEF Live
  <2>3. source_overrides'[q] = source_overrides[q] /\ edited'[q] = edited[q]
    BY <1>2, <1>6, <1>7
  <2>4. Nested(q, edit)'
    BY <1>2, <1>3, <1>6, <2>1, <2>2, <2>3, NestedKept
  <2>. QED
    BY <2>4
<1>8. ASSUME p \notin crossed'
      PROVE  \E edit \in Nat : Nested(p, edit)'
  <2>1. PICK edit \in Nat : Nested(p, edit)
    BY <1>2, <1>8 DEF GuardInv
  <2>2. \A u \in Threads : job[u].path = p => job[u].owner <= old.owner
    <3>1. OpenedLater(t) = {}
      BY <1>2, <1>8
    <3>. QED
      BY <1>1, <1>5, <3>1 DEF OpenedLater
  <2>3. CASE Live(t, p, edit)
    <3>1. source_overrides[p].owner = old.owner
      <4>1. Shows(source_overrides[p], p, edit, source_override_counter + 1)
        BY <2>1 DEF Nested
      <4>2. old.owner < source_override_counter + 1 /\ old.owner \in Nat
        BY <1>1, <1>5, <1>6
      <4>3. PICK u \in Threads : /\ Live(u, p, edit)
                                 /\ source_overrides[p].owner = job[u].owner
                                 /\ old.owner <= job[u].owner
        BY <1>1, <2>3, <4>1, <4>2 DEF Shows
      <4>4. job[u].owner <= old.owner
        BY <2>2, <4>3 DEF Live
      <4>. QED
        BY <1>5, <4>2, <4>3, <4>4
    <3>2. source_overrides'[p] = old.prior
      BY <1>2, <1>6, <3>1
    <3>3. /\ ~ Live(t, p, edit)'
          /\ \A u \in Threads \ {t} : Live(u, p, edit)' <=> Live(u, p, edit)
      BY <1>3 DEF Live
    <3>4. \A u \in Threads \ {t} : Live(u, p, edit) => job[u].owner < old.owner
      <4>1. \A u \in Threads \ {t} : job[u].owner # old.owner
        BY <1>1 DEF OwnersAreApart
      <4>. QED
        BY <1>1, <1>5, <2>2, <4>1 DEF Live
    <3>5. PICK more \in Nat : more = source_override_counter + 1
      BY <1>6
    <3>6. Shows(old.prior, p, edit, old.owner)
      BY <1>1, <2>1, <2>3 DEF Nested
    <3>7. ASSUME NEW o, NEW limit \in Nat, NEW wider \in Nat, Shows(o, p, edit, limit),
                 limit <= old.owner,
                 \/ wider = limit
                 \/ limit = old.owner /\ old.owner <= wider
          PROVE  Shows(o, p, edit, wider)'
      <4>1. \A u \in Threads :
               (Live(u, p, edit)' /\ job'[u].owner < wider)
               <=> (Live(u, p, edit) /\ job[u].owner < limit)
        BY <1>1, <1>3, <1>5, <3>3, <3>4, <3>7
      <4>2. \A u \in Threads : Live(u, p, edit) /\ job[u].owner < limit => job'[u] = job[u]
        BY <1>1, <1>3, <1>5, <3>7
      <4>3. (\A u \in Threads : o.owner # 0 => job[u].owner # o.owner)
            => (\A u \in Threads : o.owner # 0 => job'[u].owner # o.owner)
        BY <1>3
      <4>. QED
        BY <1>2, <3>7, <4>1, <4>2, <4>3 DEF Shows
    <3>8. Shows(source_overrides[p], p, edit, source_override_counter + 1)'
      <4>1. old.owner \in Nat /\ old.owner <= more
        BY <1>1, <1>5, <1>6, <3>5
      <4>2. PICK prior \in Overrides : prior = old.prior
        BY DEF Jobs
      <4>3. Shows(prior, p, edit, more)'
        BY <3>6, <3>7, <4>1, <4>2
      <4>. QED
        BY <1>2, <3>2, <3>5, <4>2, <4>3
    <3>9. ASSUME NEW u \in Threads, Live(u, p, edit)'
          PROVE  Shows(job[u].prior, p, edit, job[u].owner)'
      <4>1. u # t /\ Live(u, p, edit)
        BY <3>3, <3>9
      <4>2. PICK o \in Overrides, limit \in Nat : o = job[u].prior /\ limit = job[u].owner
        BY DEF IInv, JobsOK, Jobs
      <4>3. Shows(o, p, edit, limit) /\ limit <= old.owner
        BY <1>1, <1>5, <2>1, <3>4, <4>1, <4>2 DEF Nested
      <4>4. Shows(o, p, edit, limit)'
        BY <3>7, <4>3
      <4>. QED
        BY <1>3, <4>1, <4>2, <4>4
    <3>10. Nested(p, edit)'
      BY <1>2, <2>1, <3>8, <3>9 DEF Nested
    <3>. QED
      BY <3>10
  <2>4. CASE ~ Live(t, p, edit)
    <3>1. old.owner \in Nat /\ old.owner <= edit
      BY <1>1, <1>5, <2>4 DEF Live
    <3>2. source_overrides[p].owner # old.owner
      <4>1. Shows(source_overrides[p], p, edit, source_override_counter + 1)
        BY <2>1 DEF Nested
      <4>. QED
        BY <1>1, <1>5, <3>1, <4>1 DEF Shows, Live
    <3>3. source_overrides'[p] = source_overrides[p] /\ edited'[p] = edited[p]
      BY <1>2, <3>2
    <3>4. Nested(p, edit)'
      BY <1>2, <1>3, <1>6, <2>1, <2>4, <3>3, NestedKept
    <3>. QED
      BY <3>4
  <2>. QED
    BY <2>3, <2>4
<1>9. DOMAIN edited' = Paths
  BY <1>2 DEF GuardInv
<1>. QED
  BY <1>4, <1>7, <1>8, <1>9 DEF GuardInv

(* The steps that leave the guards open as they are. *)
LEMMA OtherGuards ==
    ASSUME IInv, OwnersAreApart, StagesOK, GuardInv, NEW t \in Threads, NEW p, NEW x,
           \/ Refresh(t, p, x)
           \/ Validate(t, p, x)
           \/ Analyse(t, p)
           \/ Prepare(t)
           \/ RemoveScript(t, p)
           \/ MoveScript(t, p, x)
           \/ Load(t)
           \/ Parse(t)
           \/ Observe(t)
           \/ ReadSource(t)
           \/ Publish(t)
           \/ Commit(t)
           \/ Discard(t)
           \/ Arrive(t)
    PROVE  GuardInv'
<1>. DEFINE old == job[t]
            source == Source(old.path)
            Goes(j) == /\ job' = [job EXCEPT ![t] = j]
                       /\ OwnerOK(j) /\ j.owner = old.owner
                       /\ old.owner # 0 => j.path = old.path /\ j.prior = old.prior
<1>1. UNCHANGED <<source_overrides, source_override_counter, edited, crossed>>
  BY DEF Refresh, Validate, Analyse, Prepare, RemoveScript, MoveScript, Load, Parse,
         Observe, ReadSource, Publish, Commit, Discard, Arrive, sourceVars, history
<1>2. old \in Jobs /\ OwnerOK(old) /\ StageOK(old) /\ job' = [job EXCEPT ![t] = job'[t]]
  BY DEF IInv, JobsOK, GuardInv, StagesOK, Refresh, Validate, Analyse, Prepare, RemoveScript,
         MoveScript, Load, Parse, Observe, ReadSource, Publish, Commit, Discard, Arrive
<1>3. \A j : Goes(j) => GuardInv'
  BY <1>1, SameGuards
<1>4. /\ Finish(old).owner = old.owner /\ OwnerOK(Finish(old))
      /\ old.owner # 0 => Finish(old).path = old.path /\ Finish(old).prior = old.prior
  BY <1>2 DEF Finish, Idle, OwnerOK, Jobs
<1>5. ASSUME Refresh(t, p, x) \/ Validate(t, p, x) \/ Analyse(t, p) \/ RemoveScript(t, p)
             \/ MoveScript(t, p, x)
      PROVE  GuardInv'
  <2>1. old.owner = 0
    BY <1>2, <1>5 DEF Refresh, Validate, Analyse, RemoveScript, MoveScript, OwnerOK
  <2>. DEFINE begun(step) == [Idle EXCEPT !.step = step, !.path = p, !.text = x]
              loading == [Idle EXCEPT !.step = "load", !.path = p]
              removing == [Idle EXCEPT !.step = "remove", !.path = p,
                                       !.claimed = TRUE, !.token = revision'[p]]
              moving == [Idle EXCEPT !.step = "remove", !.path = p,
                                     !.claimed = TRUE, !.token = revision'[p],
                                     !.next = x, !.next_token = revision'[x]]
  <2>2. /\ \A step : begun(step).owner = 0 /\ begun(step).step = step
        /\ loading.owner = 0 /\ loading.step = "load"
        /\ removing.owner = 0 /\ removing.step = "remove"
        /\ moving.owner = 0 /\ moving.step = "remove"
    BY DEF Idle
  <2>3. \/ job' = [job EXCEPT ![t] = begun("prepare")]
        \/ job' = [job EXCEPT ![t] = begun("install")]
        \/ job' = [job EXCEPT ![t] = loading]
        \/ job' = [job EXCEPT ![t] = removing]
        \/ job' = [job EXCEPT ![t] = moving]
    BY <1>5 DEF Refresh, Validate, Analyse, RemoveScript, MoveScript
  <2>. HIDE DEF begun, loading, removing, moving
  <2>. QED
    BY <1>3, <2>1, <2>2, <2>3 DEF OwnerOK
<1>6. CASE Prepare(t)
  <2>1. old.owner = 0
    BY <1>2, <1>6 DEF Prepare, OwnerOK
  <2>2. \E j : /\ job' = [job EXCEPT ![t] = j] /\ j.owner = 0 /\ j.step = "install"
    <3>. DEFINE j == [old EXCEPT !.step = "install", !.claimed = TRUE, !.token = revision'[old.path]]
    <3>1. job' = [job EXCEPT ![t] = j]
      BY <1>6 DEF Prepare, IInv, JobsOK
    <3>2. old \in Jobs
      BY <1>2 DEF IInv, JobsOK
    <3>3. j.owner = old.owner /\ j.step = "install"
      BY <3>2 DEF Jobs
    <3>. HIDE DEF j
    <3>. QED
      BY <2>1, <3>1, <3>3
  <2>. QED
    BY <1>3, <2>1, <2>2 DEF OwnerOK
<1>7. CASE Load(t)
  <2>1. old.owner = 0
    BY <1>2, <1>7 DEF Load, OwnerOK
  <2>. DEFINE j == [old EXCEPT !.step = "parse", !.text = source.text]
  <2>2. j.owner = 0 /\ j.step = "parse" /\ Idle.owner = 0 /\ Idle.step = "idle"
    BY <1>2, <2>1 DEF Jobs, Idle
  <2>3. job' = [job EXCEPT ![t] = j] \/ job' = [job EXCEPT ![t] = Idle]
    BY <1>7 DEF Load, IInv, JobsOK
  <2>. HIDE DEF j
  <2>. QED
    BY <1>3, <2>1, <2>2, <2>3 DEF OwnerOK
<1>8. CASE Arrive(t)
  <2>1. old.owner = 0
    BY <1>2, <1>8 DEF Arrive, OwnerOK
  <2>2. PICK step \in {"remove", "install"} :
            job' = [job EXCEPT ![t] = [old EXCEPT !.step = step, !.text = source.text]]
    BY <1>8 DEF Arrive, IInv, JobsOK
  <2>. DEFINE j == [old EXCEPT !.step = step, !.text = source.text]
  <2>3. j.owner = 0 /\ j.step = step
    BY <1>2, <2>1 DEF Jobs
  <2>. HIDE DEF j
  <2>. QED
    BY <1>3, <2>1, <2>2, <2>3 DEF OwnerOK, j
<1>9. ASSUME Parse(t) \/ Observe(t) \/ ReadSource(t) \/ Publish(t)
      PROVE  GuardInv'
  <2>1. \/ job' = [job EXCEPT ![t] = Finish(old)]
        \/ \E j : /\ job' = [job EXCEPT ![t] = j] /\ j.owner = old.owner
                  /\ j.path = old.path /\ j.prior = old.prior
                  /\ j.step \in {"observe", "read", "reread", "publish", "commit", "discard"}
    <3>1. CASE Parse(t)
      <4>. DEFINE read == [old EXCEPT !.token = IF old.claimed THEN old.token
                                                ELSE revision[old.path]]
                  seen == IF old.claimed THEN Observers[old.path] ELSE {}
                  reread == [read EXCEPT !.step = "reread"]
                  j == [read EXCEPT !.todo = seen,
                                    !.step = IF seen = {} THEN "read" ELSE "observe"]
      <4>1. \/ job' = [job EXCEPT ![t] = j]
            \/ job' = [job EXCEPT ![t] = reread]
            \/ job' = [job EXCEPT ![t] = Finish(old)]
        BY <3>1 DEF Parse, Observing
      <4>2. /\ j.owner = old.owner /\ j.path = old.path /\ j.prior = old.prior
            /\ j.step \in {"observe", "read"}
        BY <1>2 DEF Jobs
      <4>3. /\ reread.owner = old.owner /\ reread.path = old.path
            /\ reread.prior = old.prior /\ reread.step = "reread"
        BY <1>2 DEF Jobs
      <4>. HIDE DEF j, reread
      <4>. QED
        BY <4>1, <4>2, <4>3
    <3>2. CASE Observe(t)
      <4>1. PICK q : job' = [job EXCEPT ![t] = Observing(old, old.todo \ {q})]
        BY <3>2 DEF Observe, IInv, JobsOK
      <4>. DEFINE j == Observing(old, old.todo \ {q})
      <4>2. /\ j.owner = old.owner /\ j.path = old.path /\ j.prior = old.prior
            /\ j.step \in {"observe", "read"}
        BY <1>2 DEF Jobs, Observing
      <4>. HIDE DEF j
      <4>. QED
        BY <4>1, <4>2 DEF j
    <3>3. CASE ReadSource(t)
      <4>1. PICK step \in {"publish", "commit", "discard"} :
                job' = [job EXCEPT ![t] = [old EXCEPT !.view = source, !.step = step]]
        BY <3>3 DEF ReadSource, IInv, JobsOK
      <4>. DEFINE j == [old EXCEPT !.view = source, !.step = step]
      <4>2. /\ j.owner = old.owner /\ j.path = old.path /\ j.prior = old.prior
            /\ j.step = step
        BY <1>2 DEF Jobs
      <4>. HIDE DEF j
      <4>. QED
        BY <4>1, <4>2 DEF j
    <3>4. CASE Publish(t)
      <4>. DEFINE j == [old EXCEPT !.step = "reread", !.view = NoOverride]
      <4>1. job' = [job EXCEPT ![t] = j] \/ job' = [job EXCEPT ![t] = Finish(old)]
        BY <3>4 DEF Publish
      <4>2. /\ j.owner = old.owner /\ j.path = old.path /\ j.prior = old.prior
            /\ j.step = "reread"
        BY <1>2 DEF Jobs
      <4>. HIDE DEF j
      <4>. QED
        BY <4>1, <4>2
    <3>. QED
      BY <1>9, <3>1, <3>2, <3>3, <3>4
  <2>. QED
    BY <1>3, <1>4, <2>1 DEF OwnerOK
<1>10. CASE Commit(t) \/ Discard(t)
  <2>1. job' = [job EXCEPT ![t] = Finish(old)]
    BY <1>10 DEF Commit, Discard
  <2>. QED
    BY <1>3, <1>4, <2>1
<1>. QED
  BY <1>5, <1>6, <1>7, <1>8, <1>9, <1>10

LEMMA GuardsNext == IInv /\ IInv' /\ ClaimInv /\ GuardInv /\ [RefreshNext]_refreshVars => GuardInv'
<1>. SUFFICES ASSUME IInv, IInv', ClaimInv, GuardInv, [RefreshNext]_refreshVars PROVE GuardInv'
  OBVIOUS
<1>. USE DEF ClaimInv
<1>1. ASSUME UNCHANGED <<source_overrides, source_override_counter, job, edited, crossed>>
      PROVE  GuardInv'
  BY <1>1 DEF GuardInv, Nested, Shows, Live
<1>2. ASSUME NEW p \in Paths, NEW x \in Texts \cup {NoText}, Save(p, x) PROVE GuardInv'
  BY <1>1, <1>2 DEF Save, sourceVars, history
<1>3. ASSUME NEW t \in Threads, NEW p \in Paths, NEW x, SetSourceCode(t, p, x)
      PROVE  GuardInv'
  <2>. DEFINE j == [Idle EXCEPT !.step = "prepare", !.path = p, !.text = x]
  <2>1. j.owner = 0 /\ j.step = "prepare" /\ job[t].owner = 0
    BY <1>3 DEF Idle, SetSourceCode, GuardInv, OwnerOK
  <2>2. /\ job' = [job EXCEPT ![t] = j] /\ UNCHANGED crossed
        /\ DOMAIN edited' = Paths /\ edited'[p] = x
        /\ \A q \in Paths \ {p} : edited'[q] = edited[q]
    BY <1>3 DEF SetSourceCode, GuardInv
  <2>3. /\ source_override_counter' = source_override_counter + 1
        /\ source_overrides'[p].text = x
        /\ source_overrides'[p].owner = source_override_counter + 1
        /\ \A q \in Paths \ {p} : source_overrides'[q] = source_overrides[q]
        /\ source_override_counter \in Nat
    BY <1>3 DEF SetSourceCode, IInv, StateOK
  <2>4. OwnerOK(j)
    BY <2>1 DEF OwnerOK
  <2>. HIDE DEF j
  <2>5. /\ source_override_counter <= source_override_counter'
        /\ source_override_counter < source_override_counter'
    BY <2>3
  <2>. QED
    BY <2>1, <2>2, <2>3, <2>4, <2>5, EditGuards
<1>4. ASSUME NEW t \in Threads, NEW p \in Paths, ClearSourceOverride(t, p)
      PROVE  GuardInv'
  <2>1. OwnerOK(job[t]) /\ job[t].owner = 0
    BY <1>4 DEF ClearSourceOverride, GuardInv, OwnerOK
  <2>2. /\ job' = [job EXCEPT ![t] = job[t]] /\ UNCHANGED crossed
        /\ DOMAIN edited' = Paths /\ edited'[p] = NoText
        /\ \A q \in Paths \ {p} : edited'[q] = edited[q]
    BY <1>4 DEF ClearSourceOverride, GuardInv, IInv, JobsOK
  <2>3. /\ source_overrides'[p].text = NoText /\ source_overrides'[p].owner = 0
        /\ \A q \in Paths \ {p} : source_overrides'[q] = source_overrides[q]
        /\ source_override_counter <= source_override_counter'
    BY <1>4 DEF ClearSourceOverride, IInv, StateOK, NoOverride
  <2>. QED
    BY <2>1, <2>2, <2>3, EditGuards
<1>5. ASSUME NEW t \in Threads, RemovePath(t) PROVE GuardInv'
  <2>. DEFINE j == IF job[t].next = NoPath THEN Idle
                   ELSE [Idle EXCEPT !.step = "arrive", !.path = job[t].next, !.claimed = TRUE,
                                     !.token = job[t].next_token]
  <2>1. j.owner = 0 /\ j.step \in {"idle", "arrive"} /\ job[t].owner = 0
    BY <1>5 DEF Idle, RemovePath, GuardInv, OwnerOK
  <2>2. OwnerOK(j)
    BY <2>1 DEF OwnerOK
  <2>3. PICK p \in Paths : p = job[t].path
    BY <1>5 DEF RemovePath, IInv, JobsOK
  <2>4. /\ job' = [job EXCEPT ![t] = j] /\ UNCHANGED <<crossed, source_override_counter>>
        /\ source_override_counter <= source_override_counter'
    BY <1>5 DEF RemovePath, IInv, StateOK
  <2>. HIDE DEF j
  <2>5. CASE revision[p] = job[t].token
    <3>1. /\ DOMAIN edited' = Paths /\ edited'[p] = NoText
          /\ \A q \in Paths \ {p} : edited'[q] = edited[q]
      BY <1>5, <2>3, <2>5 DEF RemovePath, GuardInv
    <3>2. /\ source_overrides'[p].text = NoText /\ source_overrides'[p].owner = 0
          /\ \A q \in Paths \ {p} : source_overrides'[q] = source_overrides[q]
      BY <1>5, <2>3, <2>5 DEF RemovePath, IInv, StateOK, NoOverride
    <3>. QED
      BY <2>1, <2>2, <2>4, <3>1, <3>2, EditGuards
  <2>6. CASE revision[p] # job[t].token
    <3>1. UNCHANGED <<source_overrides, edited>>
      BY <1>5, <2>3, <2>6 DEF RemovePath
    <3>. QED
      BY <2>1, <2>2, <2>4, <3>1, SameGuards
  <2>. QED
    BY <2>5, <2>6
<1>6. ASSUME UNCHANGED refreshVars PROVE GuardInv'
  BY <1>1, <1>6 DEF refreshVars
<1>7. ASSUME NEW t \in Threads, NEW draft \in Drafts, SetSourceCode(t, draft[1], draft[2])
      PROVE  GuardInv'
  <2>1. draft[1] \in Paths
    BY TextAssumption
  <2>. QED
    BY <1>3, <1>7, <2>1
<1>. QED
  BY <1>2, <1>4, <1>5, <1>6, <1>7, OtherGuards, InstallGuards, RestoreGuards DEF RefreshNext

LEMMA InitGuards == RefreshInit => GuardInv
<1>. SUFFICES ASSUME RefreshInit PROVE GuardInv
  OBVIOUS
<1>1. \A t \in Threads : job[t].step = "idle" /\ job[t].owner = 0
  BY DEF RefreshInit, Idle
<1>2. \A t \in Threads : OwnerOK(job[t])
  BY <1>1 DEF OwnerOK
<1>3. ASSUME NEW p \in Paths PROVE Nested(p, 0)
  <2>1. \A t \in Threads : ~ Live(t, p, 0)
    BY <1>1 DEF Live
  <2>2. source_overrides[p].text = edited[p] /\ source_overrides[p].owner = 0
    BY DEF RefreshInit, NoOverride
  <2>3. Shows(source_overrides[p], p, 0, source_override_counter + 1)
    BY <2>1, <2>2 DEF Shows
  <2>. QED
    BY <2>1, <2>3 DEF Nested, RefreshInit
<1>4. DOMAIN edited = Paths
  BY DEF RefreshInit
<1>. QED
  BY <1>2, <1>3, <1>4 DEF GuardInv

-----------------------------------------------------------------------------
(* The three together *)

LEMMA Invariants == RefreshSpec => [](IInv /\ ClaimInv /\ GuardInv)
<1>1. RefreshInit => IInv /\ ClaimInv /\ GuardInv
  BY InitHolds, InitClaims, InitGuards
<1>2. IInv /\ ClaimInv /\ GuardInv /\ [RefreshNext]_refreshVars => (IInv /\ ClaimInv /\ GuardInv)'
  BY NextKeeps, ClaimsNext, GuardsNext
<1>. QED
  BY <1>1, <1>2, PTL DEF RefreshSpec

-----------------------------------------------------------------------------
(* Theorems *)

(* No conformance in the registry outlives the generation it was published *)
(* for: every claim on a file clears what depends on it in the critical    *)
(* section that takes it.                                                  *)
THEOREM ConformancesFollowClaims == RefreshSpec => []RegistryFollowsClaims
<1>1. IInv => RegistryFollowsClaims
  BY DEF IInv
<1>. QED
  BY <1>1, Invariants, PTL

(* Once the refresh, removal or move that claimed a file last has ended,   *)
(* the index holds what its text declares, whatever older calls of other   *)
(* threads still do, unless one of them replaced the text it installed.    *)
THEOREM NewestRefreshWins == RefreshSpec => []LastRefreshWins
<1>1. ASSUME ClaimInv PROVE LastRefreshWins
  BY <1>1 DEF ClaimInv, NewestWins, LastRefreshWins, Held
<1>. QED
  BY <1>1, Invariants, PTL

(* A call whose claim has been superseded writes nothing for its file. *)
THEOREM SupersededWritesNothing == RefreshSpec => SupersededIsHarmless
<1>. DEFINE Harmless(t) ==
        LET p == job[t].path IN
        (/\ job[t].claimed
         /\ job[t].step # "observe"
         /\ job[t].token # revision[p]
         /\ job'[t] # job[t])
        => records'[p] = records[p] /\ registry'[p] = registry[p]
<1>1. ASSUME IInv, ClaimInv, RefreshNext PROVE \A t \in Threads : Harmless(t)
  <2>. SUFFICES ASSUME NEW t \in Threads, job[t].claimed, job[t].step # "observe",
                       job[t].token # revision[job[t].path], job'[t] # job[t]
                PROVE  /\ records'[job[t].path] = records[job[t].path]
                       /\ registry'[job[t].path] = registry[job[t].path]
    OBVIOUS
  <2>1. job[t].step \notin {"idle", "prepare", "load", "restore"}
    BY <1>1 DEF ClaimInv, StagesOK, StageOK
  <2>2. DOMAIN job = Threads
    BY <1>1 DEF IInv, JobsOK
  <2>3. ASSUME NEW u \in Threads,
               \/ Prepare(u) \/ Install(u) \/ Restore(u) \/ Load(u) \/ Parse(u)
               \/ Observe(u) \/ ReadSource(u) \/ Publish(u) \/ Commit(u) \/ Discard(u)
               \/ RemovePath(u) \/ Arrive(u)
        PROVE  /\ u = t
               /\ Install(t) \/ Parse(t) \/ ReadSource(t) \/ Publish(t) \/ Commit(t)
                  \/ Discard(t) \/ RemovePath(t) \/ Arrive(t)
    <3>1. \E j : job' = [job EXCEPT ![u] = j]
      BY <2>3 DEF Prepare, Install, Restore, Load, Parse, Observe, ReadSource, Publish,
                  Commit, Discard, RemovePath, Arrive
    <3>2. u = t
      BY <2>2, <3>1
    <3>. QED
      BY <2>1, <2>3, <3>2 DEF Prepare, Restore, Load, Observe
  <2>4. ASSUME Install(t) \/ Parse(t) \/ ReadSource(t) \/ Publish(t) \/ Commit(t)
               \/ Discard(t) \/ RemovePath(t) \/ Arrive(t)
        PROVE  /\ records'[job[t].path] = records[job[t].path]
               /\ registry'[job[t].path] = registry[job[t].path]
    BY <2>4 DEF Install, Parse, ReadSource, Publish, Commit, Discard, RemovePath, Arrive
  <2>5. ASSUME NEW u \in Threads, NEW p, NEW x,
               \/ Refresh(u, p, x)
               \/ SetSourceCode(u, p, x)
               \/ Validate(u, p, x)
               \/ ClearSourceOverride(u, p)
               \/ Analyse(u, p)
               \/ RemoveScript(u, p)
               \/ MoveScript(u, p, x)
        PROVE  FALSE
    <3>1. job[u].step = "idle"
      BY <2>5 DEF Refresh, SetSourceCode, Validate, ClearSourceOverride, Analyse,
                  RemoveScript, MoveScript
    <3>2. (\E j : job' = [job EXCEPT ![u] = j]) \/ job' = job
      BY <2>5 DEF Refresh, SetSourceCode, Validate, ClearSourceOverride, Analyse,
                  RemoveScript, MoveScript
    <3>. QED
      BY <2>1, <2>2, <3>1, <3>2
  <2>6. \A p \in Paths, x \in Texts \cup {NoText} : ~ Save(p, x)
    BY DEF Save
  <2>. QED
    BY <1>1, <2>3, <2>4, <2>5, <2>6 DEF RefreshNext
<1>2. ASSUME UNCHANGED refreshVars PROVE \A t \in Threads : Harmless(t)
  BY <1>2 DEF refreshVars
<1>3. IInv /\ ClaimInv /\ [RefreshNext]_refreshVars => [\A t \in Threads : Harmless(t)]_refreshVars
  BY <1>1, <1>2
<1>. QED
  BY <1>3, Invariants, PTL DEF RefreshSpec, SupersededIsHarmless

(* Whatever guards were opened and closed on a file, on any threads: as    *)
(* long as none closed before one opened after it, what the editor left is *)
(* in force again once the last is closed.                                 *)
THEOREM GuardsRestore == RefreshSpec => []NestedGuardsRestore
<1>1. ASSUME IInv, GuardInv PROVE NestedGuardsRestore
  <2>. SUFFICES ASSUME NEW p \in Paths, p \notin crossed, Unguarded(p)
                PROVE  source_overrides[p].text = edited[p]
    BY DEF NestedGuardsRestore
  <2>1. PICK edit \in Nat : Nested(p, edit)
    BY <1>1 DEF GuardInv
  <2>2. \A t \in Threads : ~ Live(t, p, edit)
    BY DEF Unguarded, Live
  <2>. QED
    BY <2>1, <2>2 DEF Nested, Shows
<1>. QED
  BY <1>1, Invariants, PTL

=============================================================================
