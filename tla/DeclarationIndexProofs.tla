----------------------- MODULE DeclarationIndexProofs -----------------------
(***************************************************************************)
(* Theorems about DeclarationIndex, for any threads, paths and records and *)
(* any bound on the generations.                                           *)
(***************************************************************************)
EXTENDS DeclarationIndex, TLAPS

(* The index stays well typed, whatever the threads and the keepers do. *)
THEOREM TypeCorrect == Spec => []TypeOK
<1>. USE RecordsAssumption DEF TypeOK, IndexImages, Stores
<1>1. Init => TypeOK
  BY DEF Init, Empty, Idle
<1>2. ASSUME TypeOK, [Next]_vars PROVE TypeOK'
  <2>. USE <1>2
  <2>1. ASSUME NEW t \in Threads, NEW p \in Paths, ClaimRefresh(t, p)
        PROVE  TypeOK'
    BY <2>1 DEF ClaimRefresh, NextGeneration
  <2>2. ASSUME NEW t \in Threads, NEW p \in Paths, NEW to \in Paths,
               ClaimRenameRefresh(t, p, to)
        PROVE  TypeOK'
    <3>1. ASSUME NEW f \in [Paths -> Nat]
          PROVE  [f EXCEPT ![to] = NextGeneration, ![p] = NextGeneration + 1] \in [Paths -> Nat]
      <4>1. NextGeneration \in Nat /\ NextGeneration + 1 \in Nat
        BY DEF NextGeneration
      <4>2. DEFINE g == [f EXCEPT ![to] = NextGeneration]
      <4>3. g \in [Paths -> Nat]
        BY <4>1
      <4>4. [g EXCEPT ![p] = NextGeneration + 1] \in [Paths -> Nat]
        BY <4>1, <4>3
      <4>. QED
        BY <4>4
    <3>2. generations' \in [Paths -> Nat]
      BY <2>2, <3>1 DEF ClaimRenameRefresh
    <3>3. held[t] \in [Paths -> Nat]
      OBVIOUS
    <3>4. held' \in [Threads -> [Paths -> Nat]]
      BY <2>2, <3>1, <3>3 DEF ClaimRenameRefresh
    <3>5. generation_counter' \in Nat
      BY <2>2 DEF ClaimRenameRefresh
    <3>6. UNCHANGED <<by_path, generation_floor, job, changed, store, written,
                      told>>
      BY <2>2 DEF ClaimRenameRefresh
    <3>. QED
      BY <3>2, <3>4, <3>5, <3>6
  <2>3. ASSUME NEW t \in Threads, NEW p \in Paths, GetRefreshRevision(t, p)
        PROVE  TypeOK'
    BY <2>3 DEF GetRefreshRevision, Revision, tokenVars
  <2>4. ASSUME NEW t \in Threads, NEW p \in Paths, NEW r \in Records,
               CommitRecord(t, p, r)
        PROVE  TypeOK'
    BY <2>4 DEF CommitRecord, Touched, tokenVars
  <2>5. ASSUME NEW t \in Threads, NEW p \in Paths, RemovePath(t, p)
        PROVE  TypeOK'
    BY <2>5 DEF RemovePath, Touched, tokenVars
  <2>6. ASSUME NEW t \in Threads, NEW p \in Paths,
               RemovePathUnconditional(t, p)
        PROVE  TypeOK'
    BY <2>6 DEF RemovePathUnconditional, Touched, NextGeneration
  <2>7. ASSUME NEW p \in Paths, InvalidateClaims(p)
        PROVE  TypeOK'
    BY <2>7 DEF InvalidateClaims, NextGeneration
  <2>8. CASE InvalidateAllClaims
    BY <2>8 DEF InvalidateAllClaims, RaiseFloor, NextGeneration
  <2>9. ASSUME NEW t \in Threads, Notify(t)
        PROVE  TypeOK'
    <3>1. \A ns \in Namespaces : ConformanceFiles(by_path, ns) \in SUBSET Paths
      BY DEF ConformanceFiles
    <3>2. told' \in [Namespaces -> SUBSET Paths]
      BY <2>9, <3>1 DEF Notify
    <3>. QED
      BY <2>9, <3>2 DEF Notify, tokenVars
  <2>10. ASSUME NEW k \in Keepers, BeginClear(k)
         PROVE  TypeOK'
    BY <2>10 DEF BeginClear, RaiseFloor, NextGeneration, Empty
  <2>11. ASSUME NEW k \in Keepers, EndClear(k)
         PROVE  TypeOK'
    BY <2>11 DEF EndClear, Empty, Idle, tokenVars
  <2>12. ASSUME NEW k \in Keepers, LoadRead(k)
         PROVE  TypeOK'
    BY <2>12 DEF LoadRead, tokenVars
  <2>13. ASSUME NEW k \in Keepers, LoadInstall(k)
         PROVE  TypeOK'
    BY <2>13 DEF LoadInstall, RaiseFloor, NextGeneration, Idle, Empty, ConformanceFiles
  <2>14. ASSUME NEW k \in Keepers, LoadReject(k)
         PROVE  TypeOK'
    BY <2>14 DEF LoadReject, RaiseFloor, NextGeneration, Empty
  <2>15. ASSUME NEW k \in Keepers, FlushSnapshot(k)
         PROVE  TypeOK'
    BY <2>15 DEF FlushSnapshot, tokenVars
  <2>16. ASSUME NEW k \in Keepers, FlushPublish(k)
         PROVE  TypeOK'
    BY <2>16 DEF FlushPublish, Idle, Empty, tokenVars
  <2>17. ASSUME NEW k \in Keepers, FlushFail(k)
         PROVE  TypeOK'
    BY <2>17 DEF FlushFail, Idle, Empty, tokenVars
  <2>18. ASSUME NEW status \in {"COLD"} \cup Faults, DamageStore(status)
         PROVE  TypeOK'
    BY <2>18 DEF DamageStore, Empty, tokenVars
  <2>19. CASE UNCHANGED vars
    BY <2>19 DEF vars
  <2>. QED
    BY <2>1, <2>2, <2>3, <2>4, <2>5, <2>6, <2>7, <2>8, <2>9, <2>10, <2>11,
       <2>12, <2>13, <2>14, <2>15, <2>16, <2>17, <2>18, <2>19 DEF Next
<1>. QED
  BY <1>1, <1>2, PTL DEF Spec

-----------------------------------------------------------------------------
(* What a step can do to the token tables: hand out new generations, raise *)
(* the floor above everything handed out, or nothing.                      *)

HandsOut ==
    /\ generation_counter' \in Nat
    /\ generation_counter' > generation_counter
    /\ generation_floor' = generation_floor
    /\ generations' \in [Paths -> Nat]
    /\ \A p \in Paths :
          \/ generations'[p] = generations[p]
          \/ generations'[p] > generation_counter /\ generations'[p] <= generation_counter'

(* Every step of the index treats its token tables in one of three ways.   *)
LEMMA TableSteps ==
    ASSUME TypeOK, [Next]_vars
    PROVE  HandsOut \/ RaiseFloor \/ UNCHANGED tokenVars
<1>. USE DEF TypeOK
<1>1. ASSUME NEW t \in Threads, NEW p \in Paths, ClaimRefresh(t, p)
      PROVE  HandsOut
  BY <1>1 DEF ClaimRefresh, NextGeneration, HandsOut
<1>2. ASSUME NEW t \in Threads, NEW p \in Paths, NEW to \in Paths,
             ClaimRenameRefresh(t, p, to)
      PROVE  HandsOut
  <2>. DEFINE g == [generations EXCEPT ![to] = NextGeneration]
  <2>1. g \in [Paths -> Nat]
    BY DEF NextGeneration
  <2>2. generations' = [g EXCEPT ![p] = NextGeneration + 1]
    BY <1>2 DEF ClaimRenameRefresh
  <2>3. /\ generation_counter' = generation_counter + 2
        /\ generation_floor' = generation_floor
    BY <1>2 DEF ClaimRenameRefresh
  <2>4. generations' \in [Paths -> Nat]
    BY <2>1, <2>2 DEF NextGeneration
  <2>5. ASSUME NEW q \in Paths
        PROVE  \/ generations'[q] = generations[q]
               \/ /\ generations'[q] > generation_counter
                  /\ generations'[q] <= generation_counter + 2
    <3>1. CASE q = p
      BY <2>1, <2>2, <3>1 DEF NextGeneration
    <3>2. CASE q # p /\ q = to
      BY <2>1, <2>2, <3>2 DEF NextGeneration
    <3>3. CASE q # p /\ q # to
      BY <2>1, <2>2, <3>3 DEF NextGeneration
    <3>. QED
      BY <3>1, <3>2, <3>3
  <2>. QED
    BY <2>3, <2>4, <2>5 DEF HandsOut
<1>3. ASSUME NEW t \in Threads, NEW p \in Paths,
             RemovePathUnconditional(t, p)
      PROVE  HandsOut
  BY <1>3 DEF RemovePathUnconditional, NextGeneration, HandsOut
<1>4. ASSUME NEW p \in Paths, InvalidateClaims(p)
      PROVE  HandsOut
  BY <1>4 DEF InvalidateClaims, NextGeneration, HandsOut
<1>5. CASE InvalidateAllClaims
  BY <1>5 DEF InvalidateAllClaims
<1>6. ASSUME NEW k \in Keepers, BeginClear(k) \/ LoadInstall(k) \/ LoadReject(k)
      PROVE  RaiseFloor
  BY <1>6 DEF BeginClear, LoadInstall, LoadReject
<1>7. ASSUME NEW k \in Keepers,
             \/ EndClear(k) \/ LoadRead(k) \/ FlushSnapshot(k)
             \/ FlushPublish(k) \/ FlushFail(k)
      PROVE  UNCHANGED tokenVars
  BY <1>7 DEF EndClear, LoadRead, FlushSnapshot, FlushPublish, FlushFail, tokenVars
<1>8. ASSUME NEW t \in Threads, NEW p \in Paths, NEW r \in Records,
             CommitRecord(t, p, r)
      PROVE  UNCHANGED tokenVars
  BY <1>8 DEF CommitRecord, tokenVars
<1>9. ASSUME NEW t \in Threads, Notify(t)
      PROVE  UNCHANGED tokenVars
  BY <1>9 DEF Notify, tokenVars
<1>10. ASSUME NEW t \in Threads, NEW p \in Paths,
              GetRefreshRevision(t, p) \/ RemovePath(t, p)
       PROVE  UNCHANGED tokenVars
  BY <1>10 DEF GetRefreshRevision, RemovePath, tokenVars
<1>11. ASSUME NEW status \in {"COLD"} \cup Faults, DamageStore(status)
       PROVE  UNCHANGED tokenVars
  BY <1>11 DEF DamageStore, tokenVars
<1>12. CASE UNCHANGED vars
  BY <1>12 DEF vars, tokenVars
<1>. QED
  BY <1>1, <1>2, <1>3, <1>4, <1>5, <1>6, <1>7, <1>8, <1>9, <1>10, <1>11, <1>12
     DEF Next

(* The tables keep agreeing, and the revision of no path ever falls.       *)
LEMMA RevisionsGrow ==
    ASSUME TypeOK, TablesAgree, [Next]_vars
    PROVE  /\ TablesAgree'
           /\ \A p \in Paths : Revision(p)' >= Revision(p)
<1>1. CASE HandsOut
  BY <1>1 DEF HandsOut, TablesAgree, Revision, TypeOK
<1>2. CASE RaiseFloor
  BY <1>2 DEF RaiseFloor, NextGeneration, TablesAgree, Revision, TypeOK
<1>3. CASE UNCHANGED tokenVars
  BY <1>3 DEF tokenVars, TablesAgree, Revision, TypeOK
<1>. QED
  BY <1>1, <1>2, <1>3, TableSteps

-----------------------------------------------------------------------------
(* What a thread holds, and what a path was last written under, changes    *)
(* only to the revision that is in force after the step.                   *)
FollowsRevision ==
    \A p \in Paths :
        /\ written'[p] \in {written[p], Revision(p)'}
        /\ \A t \in Threads : held'[t][p] \in {held[t][p], Revision(p)'}

(* Nobody gets ahead of the revision of a path: a step hands a thread the   *)
(* revision in force or leaves it what it held.                            *)
LEMMA StepsFollow ==
    ASSUME TypeOK, [Next]_vars
    PROVE  FollowsRevision
<1>. USE DEF TypeOK
<1>1. ASSUME NEW t \in Threads, NEW p \in Paths, ClaimRefresh(t, p)
      PROVE  FollowsRevision
  BY <1>1 DEF ClaimRefresh, NextGeneration, Revision, FollowsRevision
<1>2. ASSUME NEW t \in Threads, NEW p \in Paths, NEW to \in Paths,
             ClaimRenameRefresh(t, p, to)
      PROVE  FollowsRevision
  <2>. DEFINE g == [generations EXCEPT ![to] = NextGeneration]
              h == [held[t] EXCEPT ![to] = NextGeneration]
  <2>1. g \in [Paths -> Nat] /\ h \in [Paths -> Nat]
    BY DEF NextGeneration
  <2>2. /\ generations' = [g EXCEPT ![p] = NextGeneration + 1]
        /\ held' = [held EXCEPT ![t] = [h EXCEPT ![p] = NextGeneration + 1]]
        /\ written' = written
        /\ p # to
    BY <1>2 DEF ClaimRenameRefresh
  <2>3. held'[t] = [h EXCEPT ![p] = NextGeneration + 1]
    BY <2>2
  <2>4. ASSUME NEW q \in Paths
        PROVE  held'[t][q] \in {held[t][q], Revision(q)'}
    <3>. DEFINE n == NextGeneration
    <3>0. n \in Nat /\ n # 0 /\ n + 1 # 0
      BY DEF NextGeneration
    <3>. HIDE DEF n
    <3>1. CASE q = p
      <4>1. generations'[q] = n + 1 /\ held'[t][q] = n + 1
        BY <2>1, <2>2, <2>3, <3>1 DEF n
      <4>. QED
        BY <3>0, <4>1 DEF Revision
    <3>2. CASE q = to /\ q # p
      <4>1. generations'[q] = n /\ held'[t][q] = n
        BY <2>1, <2>2, <2>3, <3>2 DEF n
      <4>. QED
        BY <3>0, <4>1 DEF Revision
    <3>3. CASE q # p /\ q # to
      BY <2>1, <2>3, <3>3
    <3>. QED
      BY <3>1, <3>2, <3>3
  <2>5. \A u \in Threads \ {t} : held'[u] = held[u]
    BY <2>2
  <2>. QED
    BY <2>2, <2>4, <2>5 DEF FollowsRevision
<1>3. ASSUME NEW t \in Threads, NEW p \in Paths, GetRefreshRevision(t, p)
      PROVE  FollowsRevision
  BY <1>3 DEF GetRefreshRevision, Revision, FollowsRevision, tokenVars
<1>4. ASSUME NEW t \in Threads, NEW p \in Paths, NEW r \in Records,
             CommitRecord(t, p, r)
      PROVE  FollowsRevision
  BY <1>4 DEF CommitRecord, IsTokenCurrent, Revision, FollowsRevision, tokenVars
<1>5. ASSUME NEW t \in Threads, NEW p \in Paths, RemovePath(t, p)
      PROVE  FollowsRevision
  BY <1>5 DEF RemovePath, IsTokenCurrent, Revision, FollowsRevision, tokenVars
<1>6. ASSUME NEW t \in Threads, NEW p \in Paths,
             RemovePathUnconditional(t, p)
      PROVE  FollowsRevision
  BY <1>6 DEF RemovePathUnconditional, NextGeneration, Revision, FollowsRevision
<1>7. ASSUME NEW k \in Keepers, LoadInstall(k)
      PROVE  FollowsRevision
  BY <1>7 DEF LoadInstall, RaiseFloor, NextGeneration, Revision, FollowsRevision
<1>8. ASSUME UNCHANGED <<held, written>>
      PROVE  FollowsRevision
  BY <1>8 DEF FollowsRevision
<1>9. ASSUME NEW p \in Paths, InvalidateClaims(p)
      PROVE  FollowsRevision
  BY <1>8, <1>9 DEF InvalidateClaims
<1>10. CASE InvalidateAllClaims
  BY <1>8, <1>10 DEF InvalidateAllClaims
<1>11. ASSUME NEW t \in Threads, Notify(t)
       PROVE  FollowsRevision
  BY <1>8, <1>11 DEF Notify
<1>12. ASSUME NEW k \in Keepers,
              \/ BeginClear(k) \/ EndClear(k) \/ LoadRead(k) \/ LoadReject(k)
              \/ FlushSnapshot(k) \/ FlushPublish(k) \/ FlushFail(k)
       PROVE  FollowsRevision
  BY <1>8, <1>12 DEF BeginClear, EndClear, LoadRead, LoadReject, FlushSnapshot,
     FlushPublish, FlushFail
<1>13. ASSUME NEW status \in {"COLD"} \cup Faults, DamageStore(status)
       PROVE  FollowsRevision
  BY <1>8, <1>13 DEF DamageStore
<1>14. CASE UNCHANGED vars
  BY <1>8, <1>14 DEF vars
<1>. QED
  BY <1>1, <1>2, <1>3, <1>4, <1>5, <1>6, <1>7, <1>9, <1>10, <1>11, <1>12,
     <1>13, <1>14 DEF Next

(* The revision of a path is a natural number.                             *)
LEMMA RevisionNat ==
    /\ TypeOK => \A p \in Paths : Revision(p) \in Nat
    /\ TypeOK' => \A p \in Paths : Revision(p)' \in Nat
  BY DEF TypeOK, Revision

(* The token tables agree and nothing is ahead of the revision in force.   *)
THEOREM TokenInvariant == Spec => []TokenInv
<1>1. Init => TokenInv
  BY DEF Init, TokenInv, TablesAgree, NoneAhead, Revision
<1>2. ASSUME TypeOK, TypeOK', TokenInv, [Next]_vars
      PROVE  TokenInv'
  <2>1. TablesAgree' /\ \A p \in Paths : Revision(p)' >= Revision(p)
    BY <1>2, RevisionsGrow DEF TokenInv
  <2>2. FollowsRevision
    BY <1>2, StepsFollow
  <2>3. ASSUME NEW p \in Paths
        PROVE  /\ written'[p] <= Revision(p)'
               /\ \A t \in Threads : held'[t][p] <= Revision(p)'
    <3>1. Revision(p) \in Nat /\ Revision(p)' \in Nat /\ Revision(p)' >= Revision(p)
      BY <1>2, <2>1, RevisionNat
    <3>2. written[p] \in Nat /\ written[p] <= Revision(p)
      BY <1>2 DEF TypeOK, TokenInv, NoneAhead
    <3>3. \A t \in Threads : held[t][p] \in Nat /\ held[t][p] <= Revision(p)
      BY <1>2 DEF TypeOK, TokenInv, NoneAhead
    <3>. QED
      BY <2>2, <3>1, <3>2, <3>3 DEF FollowsRevision
  <2>4. NoneAhead'
    BY <2>3 DEF NoneAhead
  <2>. QED
    BY <2>1, <2>4 DEF TokenInv
<1>. QED
  BY <1>1, <1>2, TypeCorrect, PTL DEF Spec

(* The revisions of successive accepted writes of a path never fall: an    *)
(* analysis that a newer refresh superseded changes nothing.               *)
THEOREM OlderWritesRefused == Spec => OlderNeverOverwrites
<1>1. ASSUME TypeOK, TypeOK', TokenInv, [Next]_vars
      PROVE  \A p \in Paths : written'[p] >= written[p]
  <2>. TAKE p \in Paths
  <2>1. Revision(p) \in Nat /\ Revision(p)' \in Nat /\ Revision(p)' >= Revision(p)
    BY <1>1, RevisionsGrow, RevisionNat DEF TokenInv
  <2>2. written'[p] \in {written[p], Revision(p)'}
    BY <1>1, StepsFollow DEF FollowsRevision
  <2>3. written[p] \in Nat /\ written[p] <= Revision(p)
    BY <1>1 DEF TypeOK, TokenInv, NoneAhead
  <2>. QED
    BY <2>1, <2>2, <2>3
<1>. QED
  BY <1>1, TypeCorrect, TokenInvariant, PTL DEF Spec, OlderNeverOverwrites

-----------------------------------------------------------------------------
(* The refinement: every critical section of the index is a step of        *)
(* RefreshTokens, or leaves what it speaks of alone.                       *)

(* A step that raises revisions is one of the abstract steps that do.      *)
LEMMA NewRevisions ==
    ASSUME TypeOK, TypeOK', TablesAgree, [Next]_vars
    PROVE  Tokens!Supersede
  BY RevisionsGrow, RevisionNat DEF Tokens!Supersede

(* A step that writes no record adopts revisions for one thread at most.   *)
LEMMA Adoption ==
    ASSUME TypeOK, TypeOK', TablesAgree, [Next]_vars, written' = written,
           NEW t \in Threads, \A u \in Threads \ {t} : held'[u] = held[u]
    PROVE  Tokens!Adopt(t)
<1>1. held' \in [Threads -> [Paths -> Nat]]
  BY DEF TypeOK
<1>2. \A p \in Paths : held'[t][p] \in {held[t][p], Revision(p)'}
  BY StepsFollow DEF FollowsRevision
<1>. QED
  BY <1>1, <1>2, NewRevisions DEF Tokens!Adopt

(* A step that leaves what the threads hold alone, and under which a write *)
(* comes with a new revision.                                              *)
LEMMA Overruling ==
    ASSUME TypeOK, TypeOK', TablesAgree, [Next]_vars, held' = held,
           \A p \in Paths : \/ written'[p] = written[p]
                            \/ /\ written'[p] = Revision(p)'
                               /\ Revision(p)' > Revision(p)
    PROVE  Tokens!Overrule
<1>1. \A p \in Paths : written'[p] \in Nat
  BY DEF TypeOK
<1>. QED
  BY <1>1, NewRevisions DEF Tokens!Overrule

(* An accepted conditional write happens under the revision in force.      *)
LEMMA ConditionalWrite ==
    ASSUME TypeOK, NEW t \in Threads, NEW p \in Paths,
           IsTokenCurrent(p, held[t][p]), UNCHANGED <<tokenVars, held>>,
           NEW r \in Records \cup {NoRecord},
           written' = [written EXCEPT ![p] = held[t][p]]
    PROVE  Tokens!Write(t, p)
<1>1. held[t][p] = Revision(p)
  BY DEF IsTokenCurrent, Revision
<1>2. \A q \in Paths : Revision(q)' = Revision(q)
  BY DEF Revision, tokenVars
<1>3. ASSUME NEW q \in Paths
      PROVE  written'[q] = IF q = p THEN Revision(p) ELSE written[q]
  BY <1>1 DEF TypeOK
<1>. QED
  BY <1>1, <1>2, <1>3 DEF Tokens!Write

(* The index implements the abstract promise of its refresh tokens: no     *)
(* interleaving of claims, renames, invalidations, removals, clears and    *)
(* loads lets a superseded refresh write.                                  *)
THEOREM Refinement == Spec => RefinesTokens
<1>1. Init => Tokens!Init
  BY DEF Init, Tokens!Init, Revision
<1>2. ASSUME TypeOK, TypeOK', TokenInv, [Next]_vars
      PROVE  Tokens!Next \/ UNCHANGED Tokens!vars
  <2>. USE <1>2 DEF TokenInv
  <2>1. ASSUME NEW t \in Threads, NEW p \in Paths,
               ClaimRefresh(t, p) \/ GetRefreshRevision(t, p)
        PROVE  Tokens!Adopt(t)
    BY <2>1, Adoption DEF ClaimRefresh, GetRefreshRevision, TypeOK
  <2>2. ASSUME NEW t \in Threads, NEW p \in Paths, NEW to \in Paths,
               ClaimRenameRefresh(t, p, to)
        PROVE  Tokens!Adopt(t)
    BY <2>2, Adoption DEF ClaimRenameRefresh, TypeOK
  <2>3. ASSUME NEW t \in Threads, NEW p \in Paths, NEW r \in Records,
               CommitRecord(t, p, r)
        PROVE  Tokens!Write(t, p)
    BY <2>3, ConditionalWrite DEF CommitRecord
  <2>4. ASSUME NEW t \in Threads, NEW p \in Paths, RemovePath(t, p)
        PROVE  Tokens!Write(t, p)
    BY <2>4, ConditionalWrite DEF RemovePath
  <2>5. ASSUME NEW t \in Threads, NEW p \in Paths,
               RemovePathUnconditional(t, p)
        PROVE  Tokens!Overrule
    <3>1. \A q \in Paths : q # p => written'[q] = written[q]
      BY <2>5 DEF RemovePathUnconditional, TypeOK
    <3>2. /\ written'[p] = NextGeneration
          /\ Revision(p)' = NextGeneration
      BY <2>5 DEF RemovePathUnconditional, TypeOK, NextGeneration, Revision
    <3>3. NextGeneration > Revision(p)
      BY DEF TablesAgree, NextGeneration, Revision, TypeOK
    <3>. QED
      BY <2>5, <3>1, <3>2, <3>3, Overruling DEF RemovePathUnconditional
  <2>6. ASSUME NEW k \in Keepers, LoadInstall(k)
        PROVE  Tokens!Overrule
    <3>1. ASSUME NEW q \in Paths
          PROVE  written'[q] = NextGeneration /\ Revision(q)' = NextGeneration
      BY <2>6 DEF LoadInstall, RaiseFloor, Revision
    <3>2. ASSUME NEW q \in Paths
          PROVE  NextGeneration > Revision(q)
      BY DEF TablesAgree, NextGeneration, Revision, TypeOK
    <3>. QED
      BY <2>6, <3>1, <3>2, Overruling DEF LoadInstall
  <2>7. ASSUME UNCHANGED <<held, written>>
        PROVE  Tokens!Overrule
    BY <2>7, Overruling
  <2>8. ASSUME NEW p \in Paths, InvalidateClaims(p)
        PROVE  Tokens!Overrule
    BY <2>7, <2>8 DEF InvalidateClaims
  <2>9. CASE InvalidateAllClaims
    BY <2>7, <2>9 DEF InvalidateAllClaims, Tokens!Next
  <2>10. ASSUME NEW t \in Threads, Notify(t)
         PROVE  Tokens!Overrule
    BY <2>7, <2>10 DEF Notify
  <2>11. ASSUME NEW k \in Keepers,
                \/ BeginClear(k) \/ EndClear(k) \/ LoadRead(k) \/ LoadReject(k)
                \/ FlushSnapshot(k) \/ FlushPublish(k) \/ FlushFail(k)
         PROVE  Tokens!Overrule
    BY <2>7, <2>11 DEF BeginClear, EndClear, LoadRead, LoadReject,
       FlushSnapshot, FlushPublish, FlushFail
  <2>12. ASSUME NEW status \in {"COLD"} \cup Faults, DamageStore(status)
         PROVE  Tokens!Overrule
    BY <2>7, <2>12 DEF DamageStore
  <2>13. CASE UNCHANGED vars
    BY <2>7, <2>13 DEF vars, Tokens!Next
  <2>. QED
    BY <2>1, <2>2, <2>3, <2>4, <2>5, <2>6, <2>8, <2>9, <2>10, <2>11, <2>12,
       <2>13 DEF Next, Tokens!Next
<1>. QED
  BY <1>1, <1>2, TypeCorrect, TokenInvariant, PTL
     DEF Spec, RefinesTokens, Tokens!Spec

-----------------------------------------------------------------------------
(* Replacing the record of one path changes the conformance files of no    *)
(* namespace but those that the old or the new record declares for.        *)
LEMMA ChangeIsTouched ==
    ASSUME TypeOK, NEW p \in Paths, NEW r \in Records \cup {NoRecord},
           by_path' = [by_path EXCEPT ![p] = r], NEW ns \in Namespaces,
           ns \notin Touched(by_path[p]) \cup Touched(r)
    PROVE  ConformanceFiles(by_path, ns)' = ConformanceFiles(by_path, ns)
<1>1. ASSUME NEW q \in Paths
      PROVE  q \in ConformanceFiles(by_path', ns) <=> q \in ConformanceFiles(by_path, ns)
  <2>1. CASE q = p
    <3>1. by_path'[q] = r
      BY <2>1 DEF TypeOK, IndexImages
    <3>. QED
      BY <2>1, <3>1 DEF ConformanceFiles, Touched
  <2>2. CASE q # p
    <3>1. by_path'[q] = by_path[q]
      BY <2>2 DEF TypeOK, IndexImages
    <3>. QED
      BY <3>1 DEF ConformanceFiles
  <2>. QED
    BY <2>1, <2>2
<1>. QED
  BY <1>1 DEF ConformanceFiles

(* Observers of a namespace never stay behind its conformance files without *)
(* a notice being owed to them.                                            *)
THEOREM NoticesAreOwed == Spec => []ObserversAreTold
<1>1. Init => ObserversAreTold
  BY DEF Init, Empty, ObserversAreTold, ConformanceFiles
<1>2. ASSUME TypeOK, ObserversAreTold, [Next]_vars
      PROVE  ObserversAreTold'
  <2>. USE <1>2
  <2>1. ASSUME NEW t \in Threads, NEW p \in Paths,
               NEW r \in Records \cup {NoRecord},
               by_path' = [by_path EXCEPT ![p] = r],
               changed' = [changed EXCEPT ![t] = @ \cup Touched(by_path[p]) \cup Touched(r)],
               told' = told
        PROVE  ObserversAreTold'
    <3>. SUFFICES ASSUME NEW ns \in Namespaces,
                         told[ns] # ConformanceFiles(by_path, ns)'
                  PROVE  \E u \in Threads : ns \in changed'[u]
      BY <2>1 DEF ObserversAreTold
    <3>1. \A u \in Threads : changed[u] \subseteq changed'[u]
      BY <2>1 DEF TypeOK
    <3>2. CASE ns \in Touched(by_path[p]) \cup Touched(r)
      <4>1. ns \in changed'[t]
        BY <2>1, <3>2 DEF TypeOK
      <4>. QED
        BY <4>1
    <3>3. CASE ns \notin Touched(by_path[p]) \cup Touched(r)
      <4>1. told[ns] # ConformanceFiles(by_path, ns)
        BY <2>1, <3>3, ChangeIsTouched
      <4>. QED
        BY <3>1, <4>1 DEF ObserversAreTold
    <3>. QED
      BY <3>2, <3>3
  <2>2. ASSUME NEW t \in Threads, NEW p \in Paths, NEW r \in Records,
               CommitRecord(t, p, r)
        PROVE  ObserversAreTold'
    BY <2>1, <2>2 DEF CommitRecord
  <2>3. Touched(NoRecord) = {}
    BY DEF Touched
  <2>4. ASSUME NEW t \in Threads, NEW p \in Paths,
               RemovePath(t, p) \/ RemovePathUnconditional(t, p)
        PROVE  ObserversAreTold'
    <3>1. /\ by_path' = [by_path EXCEPT ![p] = NoRecord]
          /\ changed' = [changed EXCEPT ![t] = @ \cup Touched(by_path[p])]
          /\ told' = told
      BY <2>4 DEF RemovePath, RemovePathUnconditional
    <3>2. changed' = [changed EXCEPT ![t] = @ \cup Touched(by_path[p]) \cup Touched(NoRecord)]
      BY <2>3, <3>1
    <3>. QED
      BY <2>1, <3>1, <3>2
  <2>5. ASSUME NEW t \in Threads, Notify(t)
        PROVE  ObserversAreTold'
    <3>. SUFFICES ASSUME NEW ns \in Namespaces,
                         told'[ns] # ConformanceFiles(by_path, ns)'
                  PROVE  \E u \in Threads : ns \in changed'[u]
      BY DEF ObserversAreTold
    <3>1. by_path' = by_path
      BY <2>5 DEF Notify
    <3>2. ConformanceFiles(by_path, ns)' = ConformanceFiles(by_path, ns)
      BY <3>1 DEF ConformanceFiles
    <3>3. ns \notin changed[t] /\ told'[ns] = told[ns]
      BY <2>5, <3>2 DEF Notify
    <3>4. PICK u \in Threads : ns \in changed[u]
      BY <3>2, <3>3 DEF ObserversAreTold
    <3>5. changed'[u] = changed[u]
      BY <2>5, <3>3, <3>4 DEF Notify, TypeOK
    <3>. QED
      BY <3>4, <3>5
  <2>6. ASSUME NEW k \in Keepers, EndClear(k)
        PROVE  ObserversAreTold'
    BY <2>6 DEF EndClear, Empty, ObserversAreTold, ConformanceFiles
  <2>7. ASSUME NEW k \in Keepers, LoadInstall(k)
        PROVE  ObserversAreTold'
    BY <2>7 DEF LoadInstall, ObserversAreTold, ConformanceFiles
  <2>8. ASSUME UNCHANGED <<by_path, changed, told>>
        PROVE  ObserversAreTold'
    BY <2>8 DEF ObserversAreTold, ConformanceFiles
  <2>9. ASSUME NEW t \in Threads, NEW p \in Paths,
               ClaimRefresh(t, p) \/ GetRefreshRevision(t, p)
        PROVE  ObserversAreTold'
    BY <2>8, <2>9 DEF ClaimRefresh, GetRefreshRevision
  <2>10. ASSUME NEW t \in Threads, NEW p \in Paths, NEW to \in Paths,
                ClaimRenameRefresh(t, p, to)
         PROVE  ObserversAreTold'
    BY <2>8, <2>10 DEF ClaimRenameRefresh
  <2>11. ASSUME NEW p \in Paths, InvalidateClaims(p)
         PROVE  ObserversAreTold'
    BY <2>8, <2>11 DEF InvalidateClaims
  <2>12. CASE InvalidateAllClaims
    BY <2>8, <2>12 DEF InvalidateAllClaims
  <2>13. ASSUME NEW k \in Keepers,
                \/ BeginClear(k) \/ LoadRead(k) \/ LoadReject(k)
                \/ FlushSnapshot(k) \/ FlushPublish(k) \/ FlushFail(k)
         PROVE  ObserversAreTold'
    BY <2>8, <2>13 DEF BeginClear, LoadRead, LoadReject, FlushSnapshot,
       FlushPublish, FlushFail
  <2>14. ASSUME NEW status \in {"COLD"} \cup Faults, DamageStore(status)
         PROVE  ObserversAreTold'
    BY <2>8, <2>14 DEF DamageStore
  <2>15. CASE UNCHANGED vars
    BY <2>8, <2>15 DEF vars
  <2>. QED
    BY <2>2, <2>4, <2>5, <2>6, <2>7, <2>9, <2>10, <2>11, <2>12, <2>13, <2>14,
       <2>15 DEF Next
<1>. QED
  BY <1>1, <1>2, TypeCorrect, PTL DEF Spec

=============================================================================
