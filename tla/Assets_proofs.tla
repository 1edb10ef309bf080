---------------------------- MODULE Assets_proofs ----------------------------
(***************************************************************************)
(* What Assets keeps to for any number of blobs, assets, records, items,   *)
(* uploads, timeouts and crashes.                                          *)
(***************************************************************************)
EXTENDS Assets, TLAPS

\* What a naming transaction found is still there, and what the reclaim asked
\* about under the lock is still unnamed: each answer lasts as long as the lock
\* does, while no transaction has lost it.
AnswersLast ==
    timeouts = 0 =>
        /\ stray = {}
        /\ NamedBlobsHeld
        /\ \A t \in Namers : phase[t] = "found" => blobs[carries[t]] # "absent"
        /\ walk \in {"asking", "deleting"} => ~Named(looking)

\* The inductive invariant.
IInv == TypeOK /\ OneWriter /\ AnswersLast /\ ReferencedStored

USE AssetsAssumption DEF Names

-----------------------------------------------------------------------------
LEMMA InitInv == Init => IInv
  BY DEF Init, IInv, TypeOK, Phases, Walks, OneWriter, AnswersLast, NamedBlobsHeld, Named,
     ReferencedStored, Stored, Reclaim

\* One step per action, for each part of the invariant.
LEMMA TypeStep == TypeOK /\ OneWriter /\ [Next]_vars => TypeOK'
<1> SUFFICES ASSUME TypeOK, OneWriter, [Next]_vars PROVE TypeOK'
  OBVIOUS
<1> USE DEF TypeOK, Phases, Walks, vars, storeVars, namerVars, walkVars, faultVars
<1>1. ASSUME NEW i \in Items, NEW named \in SUBSET Assets, Capture(i, named) PROVE TypeOK'
  BY <1>1 DEF Capture, AssetsKnown
<1>2. ASSUME NEW i \in Items, NEW named \in SUBSET Assets, Amend(i, named) PROVE TypeOK'
  BY <1>2 DEF Amend, AssetsKnown
<1>3. ASSUME NEW released \in SUBSET Assets, Sweep(released) PROVE TypeOK'
  BY <1>3 DEF Sweep, Sweepable
<1>4. ASSUME NEW t \in Namers, NEW n \in Names, NEW b \in Blobs, Put(t, n, b) PROVE TypeOK'
  BY <1>4 DEF Put
<1>5. ASSUME NEW t \in Namers, NothingToName(t) PROVE TypeOK'
  BY <1>5 DEF NothingToName, Rest
<1>6. ASSUME NEW t \in Namers, OpenNaming(t) PROVE TypeOK'
  BY <1>6 DEF OpenNaming
<1>7. ASSUME NEW t \in Namers, FindGone(t) PROVE TypeOK'
  BY <1>7 DEF FindGone, Rest, Land
<1>8. ASSUME NEW t \in Namers, Find(t) PROVE TypeOK'
  BY <1>8 DEF Find
<1>9. ASSUME NEW t \in Namers, Name(t) PROVE TypeOK'
  BY <1>9 DEF Name, Rest, Land
<1>10. ASSUME StartWalk PROVE TypeOK'
  BY <1>10 DEF StartWalk
<1>11. ASSUME Age PROVE TypeOK'
  BY <1>11 DEF Age, WalkOn
<1>12. ASSUME Delete PROVE TypeOK'
  BY <1>12 DEF Delete, WalkOn
<1>13. ASSUME EndWalk PROVE TypeOK'
  BY <1>13 DEF EndWalk
<1>14. ASSUME NEW b \in Blobs, PassOver(b) PROVE TypeOK'
  BY <1>14 DEF PassOver
<1>15. ASSUME NEW b \in Blobs, LookAt(b) PROVE TypeOK'
  BY <1>15 DEF LookAt
<1>16. ASSUME Ask PROVE TypeOK'
  BY <1>16 DEF Ask, WalkOn
<1>17. ASSUME NEW b \in Blobs, BlobAges(b) PROVE TypeOK'
  BY <1>17 DEF BlobAges
<1>18. ASSUME NEW b \in Blobs, StrayAges(b) PROVE TypeOK'
  BY <1>18 DEF StrayAges
<1>19. ASSUME NEW b \in Blobs, StrayDeletes(b) PROVE TypeOK'
  BY <1>19 DEF StrayDeletes
<1>20. ASSUME NEW a \in Assets, AssetAges(a) PROVE TypeOK'
  BY <1>20 DEF AssetAges
<1>21. ASSUME Timeout PROVE TypeOK'
  <2>1. CASE lock = Reclaim
    <3>1. walk \in {"asking", "deleting"} /\ looking \in Blobs
      BY <2>1 DEF OneWriter
    <3> QED
      BY <1>21, <2>1, <3>1 DEF Timeout
  <2>2. CASE lock # Reclaim
    BY <1>21, <2>2 DEF Timeout, Rest
  <2> QED
    BY <2>1, <2>2
<1>22. ASSUME Crash PROVE TypeOK'
  BY <1>22 DEF Crash
<1>23. CASE UNCHANGED vars
  BY <1>23
<1> QED
  BY <1>1, <1>2, <1>3, <1>4, <1>5, <1>6, <1>7, <1>8, <1>9, <1>10, <1>11, <1>12, <1>13, <1>14, <1>15, <1>16, <1>17, <1>18, <1>19, <1>20, <1>21, <1>22, <1>23
     DEF Next, Storing, Naming, Walking, Passing

LEMMA WriterStep == TypeOK /\ OneWriter /\ [Next]_vars => OneWriter'
<1> SUFFICES ASSUME TypeOK, OneWriter, [Next]_vars PROVE OneWriter'
  OBVIOUS
<1>a. phase \in [Namers -> Phases]
  BY DEF TypeOK
<1>b. Reclaim \notin Namers /\ Nobody \notin Namers /\ Nobody # Reclaim
  OBVIOUS
<1> USE <1>a, <1>b DEF OneWriter, vars, storeVars, namerVars, walkVars, faultVars
<1>1. ASSUME NEW i \in Items, NEW named \in SUBSET Assets, Capture(i, named) PROVE OneWriter'
  BY <1>1 DEF Capture, AssetsKnown
<1>2. ASSUME NEW i \in Items, NEW named \in SUBSET Assets, Amend(i, named) PROVE OneWriter'
  BY <1>2 DEF Amend, AssetsKnown
<1>3. ASSUME NEW released \in SUBSET Assets, Sweep(released) PROVE OneWriter'
  BY <1>3 DEF Sweep, Sweepable
<1>4. ASSUME NEW t \in Namers, NEW n \in Names, NEW b \in Blobs, Put(t, n, b) PROVE OneWriter'
  BY <1>4 DEF Put
<1>5. ASSUME NEW t \in Namers, NothingToName(t) PROVE OneWriter'
  BY <1>5 DEF NothingToName, Rest
<1>6. ASSUME NEW t \in Namers, OpenNaming(t) PROVE OneWriter'
  BY <1>6 DEF OpenNaming
<1>7. ASSUME NEW t \in Namers, FindGone(t) PROVE OneWriter'
  BY <1>7 DEF FindGone, Rest, Land
<1>8. ASSUME NEW t \in Namers, Find(t) PROVE OneWriter'
  BY <1>8 DEF Find
<1>9. ASSUME NEW t \in Namers, Name(t) PROVE OneWriter'
  BY <1>9 DEF Name, Rest, Land
<1>10. ASSUME StartWalk PROVE OneWriter'
  BY <1>10 DEF StartWalk
<1>11. ASSUME Age PROVE OneWriter'
  BY <1>11 DEF Age, WalkOn
<1>12. ASSUME Delete PROVE OneWriter'
  BY <1>12 DEF Delete, WalkOn
<1>13. ASSUME EndWalk PROVE OneWriter'
  BY <1>13 DEF EndWalk
<1>14. ASSUME NEW b \in Blobs, PassOver(b) PROVE OneWriter'
  BY <1>14 DEF PassOver
<1>15. ASSUME NEW b \in Blobs, LookAt(b) PROVE OneWriter'
  BY <1>15 DEF LookAt
<1>16. ASSUME Ask PROVE OneWriter'
  BY <1>16 DEF Ask, WalkOn
<1>17. ASSUME NEW b \in Blobs, BlobAges(b) PROVE OneWriter'
  BY <1>17 DEF BlobAges
<1>18. ASSUME NEW b \in Blobs, StrayAges(b) PROVE OneWriter'
  BY <1>18 DEF StrayAges
<1>19. ASSUME NEW b \in Blobs, StrayDeletes(b) PROVE OneWriter'
  BY <1>19 DEF StrayDeletes
<1>20. ASSUME NEW a \in Assets, AssetAges(a) PROVE OneWriter'
  BY <1>20 DEF AssetAges
<1>21. ASSUME Timeout PROVE OneWriter'
  BY <1>21 DEF Timeout, Rest
<1>22. ASSUME Crash PROVE OneWriter'
  BY <1>22 DEF Crash
<1>23. CASE UNCHANGED vars
  BY <1>23
<1> QED
  BY <1>1, <1>2, <1>3, <1>4, <1>5, <1>6, <1>7, <1>8, <1>9, <1>10, <1>11, <1>12, <1>13, <1>14, <1>15, <1>16, <1>17, <1>18, <1>19, <1>20, <1>21, <1>22, <1>23
     DEF Next, Storing, Naming, Walking, Passing

LEMMA AnswersStep == TypeOK /\ OneWriter /\ AnswersLast /\ [Next]_vars => AnswersLast'
<1> SUFFICES ASSUME TypeOK, OneWriter, AnswersLast, [Next]_vars PROVE AnswersLast'
  OBVIOUS
<1> USE DEF TypeOK, OneWriter, AnswersLast, NamedBlobsHeld, Named, vars, storeVars, namerVars, walkVars, faultVars
<1>1. ASSUME NEW i \in Items, NEW named \in SUBSET Assets, Capture(i, named) PROVE AnswersLast'
  BY <1>1 DEF Capture, AssetsKnown
<1>2. ASSUME NEW i \in Items, NEW named \in SUBSET Assets, Amend(i, named) PROVE AnswersLast'
  BY <1>2 DEF Amend, AssetsKnown
<1>3. ASSUME NEW released \in SUBSET Assets, Sweep(released) PROVE AnswersLast'
  BY <1>3 DEF Sweep, Sweepable
<1>4. ASSUME NEW t \in Namers, NEW n \in Names, NEW b \in Blobs, Put(t, n, b) PROVE AnswersLast'
  BY <1>4 DEF Put
<1>5. ASSUME NEW t \in Namers, NothingToName(t) PROVE AnswersLast'
  BY <1>5 DEF NothingToName, Rest
<1>6. ASSUME NEW t \in Namers, OpenNaming(t) PROVE AnswersLast'
  BY <1>6 DEF OpenNaming
<1>7. ASSUME NEW t \in Namers, FindGone(t) PROVE AnswersLast'
  BY <1>7 DEF FindGone, Rest, Land
<1>8. ASSUME NEW t \in Namers, Find(t) PROVE AnswersLast'
  BY <1>8 DEF Find
<1>9. ASSUME NEW t \in Namers, Name(t) PROVE AnswersLast'
  BY <1>9 DEF Name, Rest, Land
<1>10. ASSUME StartWalk PROVE AnswersLast'
  BY <1>10 DEF StartWalk
<1>11. ASSUME Age PROVE AnswersLast'
  BY <1>11 DEF Age, WalkOn
<1>12. ASSUME Delete PROVE AnswersLast'
  BY <1>12 DEF Delete, WalkOn
<1>13. ASSUME EndWalk PROVE AnswersLast'
  BY <1>13 DEF EndWalk
<1>14. ASSUME NEW b \in Blobs, PassOver(b) PROVE AnswersLast'
  BY <1>14 DEF PassOver
<1>15. ASSUME NEW b \in Blobs, LookAt(b) PROVE AnswersLast'
  BY <1>15 DEF LookAt
<1>16. ASSUME Ask PROVE AnswersLast'
  BY <1>16 DEF Ask, WalkOn
<1>17. ASSUME NEW b \in Blobs, BlobAges(b) PROVE AnswersLast'
  BY <1>17 DEF BlobAges
<1>18. ASSUME NEW b \in Blobs, StrayAges(b) PROVE AnswersLast'
  BY <1>18 DEF StrayAges
<1>19. ASSUME NEW b \in Blobs, StrayDeletes(b) PROVE AnswersLast'
  BY <1>19 DEF StrayDeletes
<1>20. ASSUME NEW a \in Assets, AssetAges(a) PROVE AnswersLast'
  BY <1>20 DEF AssetAges
<1>21. ASSUME Timeout PROVE AnswersLast'
  BY <1>21 DEF Timeout, Rest
<1>22. ASSUME Crash PROVE AnswersLast'
  BY <1>22 DEF Crash
<1>23. CASE UNCHANGED vars
  BY <1>23
<1> QED
  BY <1>1, <1>2, <1>3, <1>4, <1>5, <1>6, <1>7, <1>8, <1>9, <1>10, <1>11, <1>12, <1>13, <1>14, <1>15, <1>16, <1>17, <1>18, <1>19, <1>20, <1>21, <1>22, <1>23
     DEF Next, Storing, Naming, Walking, Passing

LEMMA ReferencesStep == TypeOK /\ ReferencedStored /\ [Next]_vars => ReferencedStored'
<1> SUFFICES ASSUME TypeOK, ReferencedStored, [Next]_vars PROVE ReferencedStored'
  OBVIOUS
<1> USE DEF TypeOK, ReferencedStored, Stored, Referenced, vars, storeVars, namerVars, walkVars, faultVars
<1>1. ASSUME NEW i \in Items, NEW named \in SUBSET Assets, Capture(i, named) PROVE ReferencedStored'
  BY <1>1 DEF Capture, AssetsKnown
<1>2. ASSUME NEW i \in Items, NEW named \in SUBSET Assets, Amend(i, named) PROVE ReferencedStored'
  BY <1>2 DEF Amend, AssetsKnown
<1>3. ASSUME NEW released \in SUBSET Assets, Sweep(released) PROVE ReferencedStored'
  BY <1>3 DEF Sweep, Sweepable
<1>4. ASSUME NEW t \in Namers, NEW n \in Names, NEW b \in Blobs, Put(t, n, b) PROVE ReferencedStored'
  BY <1>4 DEF Put
<1>5. ASSUME NEW t \in Namers, NothingToName(t) PROVE ReferencedStored'
  BY <1>5 DEF NothingToName, Rest
<1>6. ASSUME NEW t \in Namers, OpenNaming(t) PROVE ReferencedStored'
  BY <1>6 DEF OpenNaming
<1>7. ASSUME NEW t \in Namers, FindGone(t) PROVE ReferencedStored'
  BY <1>7 DEF FindGone, Rest, Land
<1>8. ASSUME NEW t \in Namers, Find(t) PROVE ReferencedStored'
  BY <1>8 DEF Find
<1>9. ASSUME NEW t \in Namers, Name(t) PROVE ReferencedStored'
  BY <1>9 DEF Name, Rest, Land
<1>10. ASSUME StartWalk PROVE ReferencedStored'
  BY <1>10 DEF StartWalk
<1>11. ASSUME Age PROVE ReferencedStored'
  BY <1>11 DEF Age, WalkOn
<1>12. ASSUME Delete PROVE ReferencedStored'
  BY <1>12 DEF Delete, WalkOn
<1>13. ASSUME EndWalk PROVE ReferencedStored'
  BY <1>13 DEF EndWalk
<1>14. ASSUME NEW b \in Blobs, PassOver(b) PROVE ReferencedStored'
  BY <1>14 DEF PassOver
<1>15. ASSUME NEW b \in Blobs, LookAt(b) PROVE ReferencedStored'
  BY <1>15 DEF LookAt
<1>16. ASSUME Ask PROVE ReferencedStored'
  BY <1>16 DEF Ask, WalkOn
<1>17. ASSUME NEW b \in Blobs, BlobAges(b) PROVE ReferencedStored'
  BY <1>17 DEF BlobAges
<1>18. ASSUME NEW b \in Blobs, StrayAges(b) PROVE ReferencedStored'
  BY <1>18 DEF StrayAges
<1>19. ASSUME NEW b \in Blobs, StrayDeletes(b) PROVE ReferencedStored'
  BY <1>19 DEF StrayDeletes
<1>20. ASSUME NEW a \in Assets, AssetAges(a) PROVE ReferencedStored'
  BY <1>20 DEF AssetAges
<1>21. ASSUME Timeout PROVE ReferencedStored'
  BY <1>21 DEF Timeout, Rest
<1>22. ASSUME Crash PROVE ReferencedStored'
  BY <1>22 DEF Crash
<1>23. CASE UNCHANGED vars
  BY <1>23
<1> QED
  BY <1>1, <1>2, <1>3, <1>4, <1>5, <1>6, <1>7, <1>8, <1>9, <1>10, <1>11, <1>12, <1>13, <1>14, <1>15, <1>16, <1>17, <1>18, <1>19, <1>20, <1>21, <1>22, <1>23
     DEF Next, Storing, Naming, Walking, Passing

-----------------------------------------------------------------------------
\* The inductive invariant holds in every reachable state.
THEOREM Safe == Spec => []IInv
<1>1. Init => IInv
  BY InitInv
<1>2. IInv /\ [Next]_vars => IInv'
  BY TypeStep, WriterStep, AnswersStep, ReferencesStep DEF IInv
<1> QED
  BY <1>1, <1>2, PTL DEF Spec

\* Every variable of Assets keeps its kind.
THEOREM TypeCorrect == Spec => []TypeOK
<1>1. IInv => TypeOK
  BY DEF IInv
<1> QED
  BY <1>1, Safe, PTL

\* write-lock.ts lets one transaction at a time wait on the blob store, timed
\* out ones among them.
THEOREM WritesAlone == Spec => []OneWriter
<1>1. IInv => OneWriter
  BY DEF IInv
<1> QED
  BY <1>1, Safe, PTL

\* ADR 58, of a pool whose transactions end in time: nothing named is deleted.
THEOREM NamedBlobsStay == Spec => []NamedWhileInTime
<1>1. IInv => NamedWhileInTime
  BY DEF IInv, AnswersLast, NamedWhileInTime
<1> QED
  BY <1>1, Safe, PTL

\* No sweep takes what an item refers to, whatever times out.
THEOREM ReferencesHold == Spec => []ReferencedStored
<1>1. IInv => ReferencedStored
  BY DEF IInv
<1> QED
  BY <1>1, Safe, PTL

\* Every attachment of a stored item opens: assets.ts finds the asset and its blob.
THEOREM AttachmentsAlwaysOpen == Spec => []AttachmentsOpen
<1>1. IInv => AttachmentsOpen
  <2> SUFFICES ASSUME IInv, timeouts = 0, NEW i \in items, NEW a \in refs[i]
      PROVE Stored(a) /\ blobs[names[a]] # "absent"
    BY DEF AttachmentsOpen
  <2>1. Stored(a)
    BY DEF IInv, ReferencedStored
  <2>2. i \in Items /\ a \in Assets
    BY DEF IInv, TypeOK
  <2>3. names[a] \in Blobs
    BY <2>1, <2>2 DEF IInv, TypeOK, Stored
  <2> QED
    BY <2>1, <2>2, <2>3 DEF IInv, AnswersLast, NamedBlobsHeld
<1> QED
  BY <1>1, Safe, PTL
=============================================================================
