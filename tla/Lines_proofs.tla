---------------------------- MODULE Lines_proofs ----------------------------
(***************************************************************************)
(* What Lines keeps to for any number of items, versions, edits and        *)
(* requests given up on.                                                   *)
(***************************************************************************)
EXTENDS Lines, FiniteSetTheorems, WellFoundedInduction, TLAPS

SubsetsOf(B, S) == B # {} /\ \A x \in B : x \subseteq S

HasSmallest(B) == \E x \in B : \A y \in B : ~(y \subseteq x /\ y # x)

\* Of some subsets of a finite set, one has none of the others within it.
LEMMA SmallestSubset ==
  ASSUME NEW S, IsFiniteSet(S), NEW B, SubsetsOf(B, S)
  PROVE  HasSmallest(B)
<1> DEFINE R == StrictSubsetOrdering(S)
           P == SUBSET S
<1>1. IsWellFoundedOn(R, P)
  BY FS_StrictSubsetOrderingWellFounded, FS_FiniteSubsetsOfFinite
<1>2. B \subseteq P /\ B # {}
  BY DEF SubsetsOf
<1>3. \A x, y \in B : y \subseteq x /\ y # x => <<y, x>> \in R
  BY DEF StrictSubsetOrdering, SubsetsOf
<1> HIDE DEF R, P
<1>4. \E x \in B : \A y \in B : ~(<<y, x>> \in R)
  BY <1>1, <1>2, WFMin
<1> QED
  BY <1>3, <1>4 DEF HasSmallest

\* The last of finitely many numbers.
LEMMA LastOf ==
  ASSUME NEW S \in SUBSET Nat, IsFiniteSet(S), NEW T \in SUBSET S, T # {}
  PROVE  \E m \in T : \A k \in T : k <= m
<1> DEFINE Beyond(i) == {k \in S : k > i}
           B == {Beyond(i) : i \in T}
<1>1. SubsetsOf(B, S)
  BY DEF SubsetsOf
<1>2. \A i \in T : Beyond(i) \in B
  OBVIOUS
<1> HIDE DEF B
<1>3. PICK x \in B : \A y \in B : ~(y \subseteq x /\ y # x)
  BY <1>1, SmallestSubset DEF HasSmallest
<1>4. PICK m \in T : x = Beyond(m)
  BY DEF B
<1>5. ASSUME NEW k \in T, ~(k <= m) PROVE FALSE
  <2>1. k \in Nat /\ m \in Nat /\ m < k /\ k \in S
    BY <1>5
  <2>2. \A l \in S : l > k => l > m
    BY <2>1
  <2>3. k \in Beyond(m) /\ k \notin Beyond(k)
    BY <2>1
  <2>4. Beyond(k) \subseteq Beyond(m)
    BY <2>2
  <2> QED
    BY <1>2, <1>3, <1>4, <2>3, <2>4
<1> QED
  BY <1>5

\* What is asked of the pool is asked of an item, with words and a version.
Proper(r) ==
    /\ r.kind # "none" => r.version \in 1..Versions /\ r.words \in Words
    /\ r.kind \in {"edit", "continue"} => r.item \in Items

Asked ==
    /\ Proper(relay)
    /\ \A r \in late : Proper(r)
    /\ \A e \in Edits : hand[e] # Idle => hand[e].item \in Items /\ hand[e].words \in Words

\* An edit on its way names an item that still says the source's words, unless
\* somebody has written it since the relay was told so.
Told(r) ==
    r.kind = "edit" =>
        /\ Is(r.item)
        /\ r.read <= touches[r.item]
        /\ r.read = touches[r.item] => word[r.item] = Nothing

EditsTold == Told(relay) /\ \A r \in late : Told(r)

NoItemNoWord == \A i \in Items : ~Is(i) => word[i] = Nothing

ItemsSpeak == \A i \in Items : Is(i) => says[i] \in Words

\* Everything there is follows from the first capture, to one head.
Follows ==
    \A i \in Items : \A j \in {from[i], continues[i]} \ {Nothing} : Is(i) /\ Is(j) /\ j < i

OneHead ==
    (\E i \in Items : Is(i)) =>
        /\ Taken(Plain)
        /\ \E h \in Items : IsHead(h) /\ \A i \in Items : IsHead(i) => i = h

OneLine == Follows /\ OneHead

\* The head has these words of the source's.
HeadHolds(words) == \A i \in Items : IsHead(i) => SourceWord(i) = words

\* A version is the same words whenever it is read, and what has been heard is
\* what the head holds.
Heard ==
    /\ heard <= version /\ relay.version <= version
    /\ relay.kind # "none" /\ relay.version = version => relay.words = text
    /\ relay.kind \in {"edit", "continue"} => relay.version # heard
    /\ heard # 0 =>
        /\ \E i \in Items : Is(i)
        /\ heard = version => HeadHolds(text)
        /\ relay.kind = "capture" /\ relay.version = heard => HeadHolds(relay.words)

IInv ==
    /\ TypeOK /\ Asked /\ LineNeverForks /\ NoItemNoWord /\ EditsTold
    /\ ItemsSpeak /\ OneLine /\ Heard

USE LinesAssumption

-----------------------------------------------------------------------------
(* What the pool's operations do to an item.                                *)

LEMMA IdentityIsSomething ==
    /\ Plain \in Identities /\ Plain # NoIdentity
    /\ \A v \in 1..Versions : Edited(v) \in Identities /\ Edited(v) # NoIdentity
    /\ \A v \in 1..Versions : Continued(v) \in Identities /\ Continued(v) # NoIdentity
    /\ \A e \in Edits : ByHand(e) \in Identities /\ ByHand(e) # NoIdentity
  BY DEF Identities, NoIdentity, Plain, Edited, Continued, ByHand

\* The five functions of the pool have their types.
PoolOK ==
    /\ identity \in [Items -> Identities \cup {NoIdentity}]
    /\ says \in [Items -> Words \cup {Nothing}]
    /\ word \in [Items -> Words \cup {Nothing}]
    /\ from \in [Items -> Items \cup {Nothing}]
    /\ continues \in [Items -> Items \cup {Nothing}]

LEMMA KeptTyped ==
  ASSUME PoolOK, NEW i \in Items, NEW w \in Words, NEW b \in BOOLEAN
  PROVE  KeptWord(i, w, b) \in Words \cup {Nothing}
  BY DEF PoolOK, KeptWord, SourceWord

\* An item is inserted past the last, and what was there stands.
Inserted(j, id, w, k, r, c) ==
    /\ Fresh(j) /\ Is(j)'
    /\ identity'[j] = id /\ says'[j] = w /\ word'[j] = k /\ from'[j] = r /\ continues'[j] = c
    /\ \A l \in Items \ {j} :
          /\ identity'[l] = identity[l] /\ says'[l] = says[l] /\ word'[l] = word[l]
          /\ from'[l] = from[l] /\ continues'[l] = continues[l]

LEMMA InsertRows ==
  ASSUME PoolOK, NEW id \in Identities, id # NoIdentity, NEW w \in Words,
         NEW k \in Words \cup {Nothing}, NEW r \in Items \cup {Nothing},
         NEW c \in Items \cup {Nothing}, Insert(id, w, k, r, c)
  PROVE  PoolOK' /\ \E j \in Items : Inserted(j, id, w, k, r, c)
<1>1. PICK j \in Items :
        /\ Fresh(j)
        /\ identity' = [identity EXCEPT ![j] = id]
        /\ says' = [says EXCEPT ![j] = w]
        /\ word' = [word EXCEPT ![j] = k]
        /\ from' = [from EXCEPT ![j] = r]
        /\ continues' = [continues EXCEPT ![j] = c]
  BY DEF Insert
<1>2. PoolOK'
  BY <1>1 DEF PoolOK
<1>3. identity'[j] = id /\ says'[j] = w /\ word'[j] = k /\ from'[j] = r /\ continues'[j] = c
  BY <1>1 DEF PoolOK
<1>4. \A l \in Items \ {j} :
          /\ identity'[l] = identity[l] /\ says'[l] = says[l] /\ word'[l] = word[l]
          /\ from'[l] = from[l] /\ continues'[l] = continues[l]
  BY <1>1 DEF PoolOK
<1>5. Inserted(j, id, w, k, r, c)
  BY <1>1, <1>3, <1>4 DEF Inserted, Is
<1> QED
  BY <1>2, <1>5

LEMMA FreshIsNew == \A j \in Items : Fresh(j) => ~Is(j)
  BY DEF Fresh

\* An amendment changes one item's words, and the source's word it keeps.
LEMMA AmendRows ==
  ASSUME PoolOK, NEW i \in Items, NEW w \in Words, NEW b \in BOOLEAN, Amend(i, w, b)
  PROVE  /\ PoolOK'
         /\ Is(i)
         /\ word'[i] = KeptWord(i, w, b)
         /\ \A j \in Items \ {i} : says'[j] = says[j] /\ word'[j] = word[j]
         /\ UNCHANGED <<identity, from, continues>>
<1>1. KeptWord(i, w, b) \in Words \cup {Nothing}
  BY KeptTyped
<1> QED
  BY <1>1 DEF PoolOK, Amend

-----------------------------------------------------------------------------
(* Whatever happens, the pool stands, grows at a head, or amends an item.   *)

AtHead(id, r, c) ==
    /\ r # Nothing => IsHead(r)
    /\ c # Nothing => IsHead(c)
    /\ r = Nothing /\ c = Nothing => id = Plain /\ ~Taken(Plain)

Grows ==
    \E id \in Identities \ {NoIdentity}, w \in Words, k \in Words \cup {Nothing},
       r \in Items \cup {Nothing}, c \in Items \cup {Nothing} :
        AtHead(id, r, c) /\ Insert(id, w, k, r, c)

Amends == \E i \in Items, w \in Words, b \in BOOLEAN : Amend(i, w, b)

Moves == UNCHANGED pool \/ Grows \/ Amends

LEMMA ReviseMoves ==
  ASSUME PoolOK, NEW i \in Items, NEW id \in Identities \ {NoIdentity}, NEW w \in Words,
         NEW b \in BOOLEAN, Revise(i, id, w, b) \/ EditRefused(i, id)
  PROVE  UNCHANGED pool \/ Grows
<1>1. CASE Revise(i, id, w, b)
  <2>1. KeptWord(i, w, b) \in Words \cup {Nothing}
    BY KeptTyped
  <2>2. IsHead(i) /\ Insert(id, w, KeptWord(i, w, b), i, Nothing)
    BY <1>1 DEF Revise
  <2> QED
    BY <2>1, <2>2 DEF Grows, AtHead
<1>2. CASE EditRefused(i, id)
  BY <1>2 DEF EditRefused
<1> QED
  BY <1>1, <1>2

LEMMA ContinueMoves ==
  ASSUME NEW i \in Items, NEW id \in Identities \ {NoIdentity}, NEW w \in Words,
         Continue(i, id, w) \/ ContinueRefused(i, id)
  PROVE  UNCHANGED pool \/ Grows
<1>1. CASE Continue(i, id, w)
  <2>1. IsHead(i) /\ Insert(id, w, Nothing, Nothing, i)
    BY <1>1 DEF Continue, Continuable
  <2> QED
    BY <2>1 DEF Grows, AtHead
<1>2. CASE ContinueRefused(i, id)
  BY <1>2 DEF ContinueRefused
<1> QED
  BY <1>1, <1>2

LEMMA FirstMoves ==
  ASSUME NEW w \in Words, ~Taken(Plain), Insert(Plain, w, Nothing, Nothing, Nothing)
  PROVE  Grows
  BY IdentityIsSomething DEF Grows, AtHead

\* Only an edit writes over words: a person's, which is counted, or one the
\* relay asked for.
ByAPerson == \E i \in Items, w \in Words : Amend(i, w, FALSE) /\ Touch(i)

ByTheSource ==
    \E r \in {relay} \cup late :
        /\ r.kind = "edit" /\ r.item \in Items /\ r.words \in Words
        /\ Amend(r.item, r.words, TRUE)
        /\ UNCHANGED touches

Quiet == (UNCHANGED pool \/ Grows) /\ UNCHANGED touches

LEMMA LandsMoves ==
  ASSUME PoolOK, NEW e \in Edits, NEW i \in Items, NEW w \in Words, Lands(e, i, w)
  PROVE  Quiet \/ ByAPerson
<1>1. CASE Amend(i, w, FALSE) /\ Touch(i)
  BY <1>1 DEF ByAPerson
<1>2. CASE (Revise(i, ByHand(e), w, FALSE) \/ EditRefused(i, ByHand(e))) /\ UNCHANGED touches
  BY <1>2, ReviseMoves, IdentityIsSomething DEF Quiet
<1> QED
  BY <1>1, <1>2 DEF Lands

LEMMA StepKinds ==
  ASSUME PoolOK, Asked, [Next]_vars
  PROVE  Quiet \/ ByAPerson \/ ByTheSource
<1> USE IdentityIsSomething
<1>1. ASSUME NEW e \in Edits, NEW i \in Items, NEW w \in Ours, EditByHand(e, i, w)
      PROVE  Quiet \/ ByAPerson
  BY <1>1, LandsMoves DEF EditByHand, Words
<1>2. ASSUME NEW e \in Edits, ResendByHand(e) PROVE Quiet \/ ByAPerson
  BY <1>2, LandsMoves DEF ResendByHand, Asked
<1>3. ASSUME Captured PROVE Quiet
  BY <1>3, FirstMoves DEF Captured, Asked, Proper, Quiet, people
<1>4. ASSUME EditLands PROVE Quiet \/ ByTheSource
  <2>1. relay.item \in Items /\ relay.words \in Words /\ relay.version \in 1..Versions
    BY <1>4 DEF EditLands, Asked, Proper
  <2>2. CASE Amend(relay.item, relay.words, TRUE)
    BY <1>4, <2>1, <2>2 DEF EditLands, ByTheSource, people
  <2>3. CASE Revise(relay.item, Edited(relay.version), relay.words, TRUE)
             \/ EditRefused(relay.item, Edited(relay.version))
    BY <1>4, <2>1, <2>3, ReviseMoves DEF EditLands, Quiet, people
  <2> QED
    BY <1>4, <2>2, <2>3 DEF EditLands
<1>5. ASSUME ContinueLands PROVE Quiet
  <2>1. relay.item \in Items /\ relay.words \in Words /\ relay.version \in 1..Versions
    BY <1>5 DEF ContinueLands, Asked, Proper
  <2> QED
    BY <1>5, <2>1, ContinueMoves DEF ContinueLands, Quiet, people
<1>6. ASSUME NEW r \in late, ArrivesLate(r) PROVE Quiet \/ ByTheSource
  <2>1. Proper(r) /\ UNCHANGED touches
    BY <1>6 DEF Asked, ArrivesLate, people
  <2>2. CASE r.kind = "capture" /\ ~Taken(Plain) /\ Insert(Plain, r.words, Nothing, Nothing, Nothing)
    BY <2>1, <2>2, FirstMoves DEF Proper, Quiet
  <2>3. CASE r.kind = "edit" /\ Amend(r.item, r.words, TRUE)
    BY <2>1, <2>3 DEF Proper, ByTheSource
  <2>4. CASE r.kind = "edit" /\ Revise(r.item, Edited(r.version), r.words, TRUE)
    BY <2>1, <2>4, ReviseMoves DEF Proper, Quiet
  <2>5. CASE r.kind = "continue" /\ Continue(r.item, Continued(r.version), r.words)
    BY <2>1, <2>5, ContinueMoves DEF Proper, Quiet
  <2> QED
    BY <1>6, <2>2, <2>3, <2>4, <2>5 DEF ArrivesLate
<1>7. CASE UNCHANGED <<pool, touches>>
  BY <1>7 DEF Quiet
<1> QED
  BY <1>1, <1>2, <1>3, <1>4, <1>5, <1>6, <1>7
     DEF Next, People, Relay, Unanswered, NoteChanges, Seal, Poll, Reread, Unchanged, Changed,
         GiveUp, vars, pool, people

LEMMA StepMoves == PoolOK /\ Asked /\ [Next]_vars => Moves
  BY StepKinds DEF Quiet, ByAPerson, ByTheSource, Moves, Amends

-----------------------------------------------------------------------------
LEMMA PoolStep == PoolOK /\ Moves => PoolOK'
<1> SUFFICES ASSUME PoolOK, Moves PROVE PoolOK'
  OBVIOUS
<1>1. CASE UNCHANGED pool
  BY <1>1 DEF pool, PoolOK
<1>2. CASE Grows
  BY <1>2, InsertRows DEF Grows
<1>3. CASE Amends
  BY <1>3, AmendRows DEF Amends
<1> QED
  BY <1>1, <1>2, <1>3 DEF Moves

LEMMA GrowsRow ==
  ASSUME PoolOK, Grows
  PROVE  \E id \in Identities \ {NoIdentity}, w \in Words, k \in Words \cup {Nothing},
            r \in Items \cup {Nothing}, c \in Items \cup {Nothing}, j \in Items :
             AtHead(id, r, c) /\ Inserted(j, id, w, k, r, c)
<1>1. PICK id \in Identities \ {NoIdentity}, w \in Words, k \in Words \cup {Nothing},
           r \in Items \cup {Nothing}, c \in Items \cup {Nothing} :
        AtHead(id, r, c) /\ Insert(id, w, k, r, c)
  BY DEF Grows
<1>2. \E j \in Items : Inserted(j, id, w, k, r, c)
  BY <1>1, InsertRows
<1> QED
  BY <1>1, <1>2

LEMMA ForksStep == PoolOK /\ LineNeverForks /\ Moves => LineNeverForks'
<1> SUFFICES ASSUME PoolOK, LineNeverForks, Moves PROVE LineNeverForks'
  OBVIOUS
<1>a. \A i, m, n \in Items :
        (from[m] = i \/ continues[m] = i) /\ (from[n] = i \/ continues[n] = i) => m = n
  BY DEF LineNeverForks, Revisions, Continuations
<1>b. SUFFICES ASSUME NEW i \in Items, NEW m \in Items, NEW n \in Items,
                      from'[m] = i \/ continues'[m] = i, from'[n] = i \/ continues'[n] = i
               PROVE  m = n
  BY DEF LineNeverForks, Revisions, Continuations
<1>1. CASE UNCHANGED <<from, continues>>
  BY <1>1, <1>a, <1>b
<1>2. CASE Grows
  <2>1. PICK r \in Items \cup {Nothing}, c \in Items \cup {Nothing}, j \in Items :
          /\ r # Nothing => IsHead(r)
          /\ c # Nothing => IsHead(c)
          /\ from'[j] = r /\ continues'[j] = c
          /\ \A l \in Items \ {j} : from'[l] = from[l] /\ continues'[l] = continues[l]
    BY <1>2, GrowsRow DEF AtHead, Inserted
  <2>3. CASE i \in {r, c}
    <3>1. \A l \in Items : from[l] # i /\ continues[l] # i
      BY <2>1, <2>3 DEF IsHead, Revisions, Continuations
    <3> QED
      BY <2>1, <1>b, <3>1
  <2>4. CASE i \notin {r, c}
    <3>1. m # j /\ n # j
      BY <2>1, <1>b, <2>4
    <3> QED
      BY <2>1, <1>a, <1>b, <3>1
  <2> QED
    BY <2>3, <2>4
<1> QED
  BY <1>1, <1>2, AmendRows DEF Moves, Amends, pool

LEMMA NoWordStep == PoolOK /\ NoItemNoWord /\ Moves => NoItemNoWord'
<1> SUFFICES ASSUME PoolOK, NoItemNoWord, Moves PROVE NoItemNoWord'
  OBVIOUS
<1>1. CASE UNCHANGED pool
  BY <1>1 DEF pool, NoItemNoWord, Is
<1>2. CASE Grows
  <2>1. PICK j \in Items :
          /\ Is(j)'
          /\ \A i \in Items \ {j} : identity'[i] = identity[i] /\ word'[i] = word[i]
    BY <1>2, GrowsRow DEF Inserted
  <2> QED
    BY <2>1 DEF NoItemNoWord, Is
<1>3. CASE Amends
  <2>1. PICK i \in Items :
          /\ Is(i) /\ identity' = identity
          /\ \A j \in Items \ {i} : word'[j] = word[j]
    BY <1>3, AmendRows DEF Amends
  <2> QED
    BY <2>1 DEF NoItemNoWord, Is
<1> QED
  BY <1>1, <1>2, <1>3 DEF Moves

-----------------------------------------------------------------------------
(* What is asked, and what has been asked.                                  *)

RestOK ==
    /\ sealed \subseteq Items
    /\ version \in 1..Versions
    /\ text \in Upstream
    /\ relay \in Requests
    /\ late \subseteq Requests
    /\ hand \in [Edits -> Requests]
    /\ faults \in 0..Faults
    /\ touches \in [Items -> Nat]
    /\ heard \in 0..Versions

LEMMA TypesTogether == TypeOK <=> PoolOK /\ RestOK
  BY DEF TypeOK, PoolOK, RestOK

LEMMA IdleIsARequest == Idle \in Requests /\ Idle.kind = "none" /\ Proper(Idle)
  BY DEF Idle, Written, Requests, Proper

LEMMA RelayStep ==
  ASSUME RestOK, Asked, [Next]_vars
  PROVE  relay' \in Requests /\ Proper(relay')
<1> USE IdleIsARequest DEF RestOK
<1>1. ASSUME Poll PROVE relay' \in Requests /\ Proper(relay')
  <2>1. relay' = [kind |-> "capture", version |-> version, words |-> text,
                  item |-> Nothing, read |-> 0]
    BY <1>1 DEF Poll, Idle, Written
  <2> QED
    BY <2>1 DEF Requests, Proper, Words
<1>2. ASSUME NEW i \in Items, Changed(i), relay.kind = "capture"
      PROVE  relay' \in Requests /\ Proper(relay')
  <2>1. PICK k \in {"edit", "continue"} :
          relay' = [relay EXCEPT !.kind = k, !.item = i, !.read = touches[i]]
    BY <1>2 DEF Changed, Asks
  <2>2. relay.version \in 1..Versions /\ relay.words \in Words
    BY <1>2 DEF Asked, Proper
  <2> QED
    BY <2>1, <2>2 DEF Requests, Proper
<1>3. CASE relay' = relay
  BY <1>3 DEF Asked
<1>4. CASE relay' = Idle
  BY <1>4
<1> QED
  BY <1>1, <1>2, <1>3, <1>4
     DEF Next, People, Relay, Unanswered, NoteChanges, EditByHand, ResendByHand, Seal, Captured,
         Reread, Answers, Unchanged, EditLands, ContinueLands, GiveUp, ArrivesLate, vars, people

LEMMA LateStep ==
  ASSUME RestOK, Asked, [Next]_vars
  PROVE  late' \subseteq Requests /\ \A r \in late' : Proper(r)
<1> USE DEF RestOK, Asked
<1>1. CASE late' = late
  BY <1>1
<1>2. CASE late' = late \cup {relay}
  BY <1>2
<1>3. ASSUME NEW r \in late, late' = late \ {r} PROVE late' \subseteq Requests /\ \A q \in late' : Proper(q)
  BY <1>3
<1> QED
  BY <1>1, <1>2, <1>3
     DEF Next, People, Relay, Unanswered, NoteChanges, EditByHand, ResendByHand, Seal, Poll,
         Captured, Reread, Unchanged, Changed, EditLands, ContinueLands, GiveUp, ArrivesLate, vars, people

LEMMA HandStep ==
  ASSUME RestOK, Asked, [Next]_vars
  PROVE  /\ hand' \in [Edits -> Requests]
         /\ \A e \in Edits : hand'[e] # Idle => hand'[e].item \in Items /\ hand'[e].words \in Words
<1> USE DEF RestOK, Asked
<1>1. ASSUME NEW e \in Edits, NEW i \in Items, NEW w \in Ours, EditByHand(e, i, w)
      PROVE  /\ hand' \in [Edits -> Requests]
             /\ \A f \in Edits : hand'[f] # Idle => hand'[f].item \in Items /\ hand'[f].words \in Words
  <2> DEFINE row == Written(i, w)
  <2>1. row \in Requests /\ row.item = i /\ row.words = w
    BY DEF Written, Requests, Words
  <2>2. hand' = [hand EXCEPT ![e] = row]
    BY <1>1 DEF EditByHand
  <2> HIDE DEF row
  <2>3. hand' \in [Edits -> Requests]
    BY <2>1, <2>2
  <2>4. ASSUME NEW f \in Edits, hand'[f] # Idle
        PROVE  hand'[f].item \in Items /\ hand'[f].words \in Words
    <3>1. CASE f = e
      BY <2>1, <2>2, <3>1 DEF Words
    <3>2. CASE f # e
      BY <2>2, <2>4, <3>2
    <3> QED
      BY <3>1, <3>2
  <2> QED
    BY <2>3, <2>4
<1>2. CASE hand' = hand
  BY <1>2
<1> QED
  BY <1>1, <1>2
     DEF Next, People, Relay, Unanswered, NoteChanges, ResendByHand, Seal, Poll,
         Captured, Reread, Unchanged, Changed, EditLands, ContinueLands, GiveUp, ArrivesLate, vars, people

LEMMA TouchesStep ==
  ASSUME RestOK, Asked, [Next]_vars
  PROVE  touches' \in [Items -> Nat]
<1> USE DEF RestOK, Asked
<1>1. ASSUME NEW i \in Items, Touch(i) PROVE touches' \in [Items -> Nat]
  BY <1>1 DEF Touch
<1>2. CASE touches' = touches
  BY <1>2
<1>3. ASSUME NEW e \in Edits, NEW i \in Items, NEW w \in Ours, EditByHand(e, i, w)
      PROVE  touches' \in [Items -> Nat]
  BY <1>1, <1>3 DEF EditByHand, Lands
<1>4. ASSUME NEW e \in Edits, ResendByHand(e) PROVE touches' \in [Items -> Nat]
  BY <1>1, <1>4 DEF ResendByHand, Lands
<1> QED
  BY <1>2, <1>3, <1>4
     DEF Next, People, Relay, Unanswered, NoteChanges, Seal, Poll,
         Captured, Reread, Unchanged, Changed, EditLands, ContinueLands, GiveUp, ArrivesLate, vars, people

LEMMA CountsStep ==
  ASSUME RestOK, Asked, [Next]_vars
  PROVE  /\ sealed' \subseteq Items
         /\ version' \in 1..Versions
         /\ text' \in Upstream
         /\ faults' \in 0..Faults
         /\ heard' \in 0..Versions
<1> USE DEF RestOK
<1>1. relay.version \in 0..Versions
  BY DEF Requests
<1>2. sealed' = sealed \/ \E i \in Items : Seal(i)
  BY DEF Next, People, Relay, Unanswered, NoteChanges, EditByHand, ResendByHand, Poll,
         Captured, Reread, Unchanged, Changed, EditLands, ContinueLands, GiveUp, ArrivesLate, vars, people
<1>3. UNCHANGED <<version, text>> \/ NoteChanges
  BY DEF Next, People, Relay, Unanswered, EditByHand, ResendByHand, Seal, Poll,
         Captured, Reread, Unchanged, Changed, EditLands, ContinueLands, GiveUp, ArrivesLate, vars, people
<1>4. faults' = faults \/ Fault
  BY DEF Next, People, Relay, Unanswered, NoteChanges, EditByHand, ResendByHand, Seal, Poll,
         Captured, Reread, Unchanged, Changed, EditLands, ContinueLands, GiveUp, ArrivesLate, vars, people
<1>5. heard' \in {heard, 0, relay.version}
  BY DEF Next, People, Relay, Unanswered, NoteChanges, EditByHand, ResendByHand, Seal, Poll,
         Captured, Reread, Unchanged, Changed, EditLands, ContinueLands, GiveUp, ArrivesLate, vars, people
<1>6. sealed' \subseteq Items
  BY <1>2 DEF Seal
<1>7. version' \in 1..Versions /\ text' \in Upstream
  BY <1>3 DEF NoteChanges
<1> QED
  BY <1>1, <1>4, <1>5, <1>6, <1>7 DEF Fault

LEMMA RestStep == RestOK /\ Asked /\ [Next]_vars => RestOK' /\ Asked'
<1> SUFFICES ASSUME RestOK, Asked, [Next]_vars PROVE RestOK' /\ Asked'
  OBVIOUS
<1>1. relay' \in Requests /\ Proper(relay')
  BY RelayStep
<1>2. late' \subseteq Requests /\ \A r \in late' : Proper(r)
  BY LateStep
<1>3. /\ hand' \in [Edits -> Requests]
      /\ \A e \in Edits : hand'[e] # Idle => hand'[e].item \in Items /\ hand'[e].words \in Words
  BY HandStep
<1> QED
  BY <1>1, <1>2, <1>3, TouchesStep, CountsStep DEF RestOK, Asked, Proper

-----------------------------------------------------------------------------
(* What the relay was told of an item lasts until somebody writes it.       *)

LEMMA WordMoves ==
  ASSUME PoolOK, RestOK, Asked, [Next]_vars, NEW i \in Items, Is(i)
  PROVE  /\ Is(i)'
         /\ \/ touches'[i] = touches[i] /\ word'[i] \in {word[i], Nothing}
            \/ touches'[i] = touches[i] + 1
<1>1. CASE UNCHANGED <<pool, touches>>
  BY <1>1 DEF pool, Is
<1>2. CASE Grows /\ UNCHANGED touches
  <2>1. PICK j \in Items :
          /\ ~Is(j)
          /\ \A k \in Items \ {j} : identity'[k] = identity[k] /\ word'[k] = word[k]
    BY <1>2, GrowsRow, FreshIsNew DEF Inserted
  <2> QED
    BY <1>2, <2>1 DEF Is
<1>3. CASE ByAPerson
  <2>1. PICK j \in Items, w \in Words : Amend(j, w, FALSE) /\ Touch(j)
    BY <1>3 DEF ByAPerson
  <2>2. identity' = identity /\ \A k \in Items \ {j} : word'[k] = word[k]
    BY <2>1, AmendRows
  <2>3. touches' = [touches EXCEPT ![j] = @ + 1]
    BY <2>1 DEF Touch
  <2> QED
    BY <2>2, <2>3 DEF Is, RestOK
<1>4. CASE ByTheSource
  <2>1. PICK r \in {relay} \cup late :
          /\ r.item \in Items /\ r.words \in Words
          /\ Amend(r.item, r.words, TRUE)
          /\ UNCHANGED touches
    BY <1>4 DEF ByTheSource
  <2>2. /\ identity' = identity
        /\ word'[r.item] = KeptWord(r.item, r.words, TRUE)
        /\ \A k \in Items \ {r.item} : word'[k] = word[k]
    BY <2>1, AmendRows
  <2> QED
    BY <2>1, <2>2 DEF Is, KeptWord
<1> QED
  BY <1>1, <1>2, <1>3, <1>4, StepKinds DEF Quiet

LEMMA ToldLasts ==
  ASSUME PoolOK, RestOK, Asked, [Next]_vars,
         NEW r \in Requests, Proper(r), Told(r)
  PROVE  Told(r)'
<1> SUFFICES ASSUME r.kind = "edit" PROVE Told(r)'
  BY DEF Told
<1>1. /\ r.item \in Items /\ Is(r.item)
      /\ r.read <= touches[r.item]
      /\ r.read = touches[r.item] => word[r.item] = Nothing
  BY DEF Told, Proper
<1>2. /\ Is(r.item)'
      /\ \/ touches'[r.item] = touches[r.item] /\ word'[r.item] \in {word[r.item], Nothing}
         \/ touches'[r.item] = touches[r.item] + 1
  BY <1>1, WordMoves
<1>3. r.read \in Nat /\ touches[r.item] \in Nat
  BY <1>1 DEF RestOK, Requests
<1> QED
  BY <1>1, <1>2, <1>3 DEF Told

LEMMA RelayTold ==
  ASSUME PoolOK, RestOK, Asked, EditsTold, [Next]_vars
  PROVE  Told(relay)'
<1>1. CASE relay' = relay
  <2>1. Told(relay) /\ relay \in Requests /\ Proper(relay)
    BY DEF EditsTold, RestOK, Asked
  <2> QED
    BY <1>1, <2>1, ToldLasts DEF Told
<1>2. CASE relay' = Idle
  BY <1>2 DEF Told, Idle, Written
<1>3. CASE Poll
  BY <1>3 DEF Poll, Told, Idle, Written
<1>4. ASSUME NEW i \in Items, Is(i), Changed(i) PROVE Told(relay)'
  <2>1. relay'.kind = IF word[i] # Nothing THEN "continue" ELSE "edit"
    BY <1>4 DEF Changed, Asks, Diverges, RestOK, Requests
  <2>2. relay'.item = i /\ relay'.read = touches[i] /\ touches[i] \in Nat
    BY <1>4 DEF Changed, Asks, RestOK, Requests
  <2>3. UNCHANGED <<identity, word, touches>>
    BY <1>4 DEF Changed, pool, people
  <2> QED
    BY <1>4, <2>1, <2>2, <2>3 DEF Told, Is
<1> QED
  BY <1>1, <1>2, <1>3, <1>4
     DEF Next, People, Relay, Unanswered, NoteChanges, EditByHand, ResendByHand, Seal, Captured,
         Reread, Answers, Unchanged, EditLands, ContinueLands, GiveUp, ArrivesLate, vars, people

LEMMA ToldStep == PoolOK /\ RestOK /\ Asked /\ EditsTold /\ [Next]_vars => EditsTold'
<1> SUFFICES ASSUME PoolOK, RestOK, Asked, EditsTold, [Next]_vars PROVE EditsTold'
  OBVIOUS
<1>1. Told(relay)'
  BY RelayTold
<1>2. late' \subseteq late \cup {relay}
  BY DEF Next, People, Relay, Unanswered, NoteChanges, EditByHand, ResendByHand, Seal, Poll,
         Captured, Reread, Unchanged, Changed, EditLands, ContinueLands, GiveUp, ArrivesLate, vars, people
<1>3. ASSUME NEW r \in late \cup {relay} PROVE Told(r)'
  <2>1. r \in Requests /\ Proper(r) /\ Told(r)
    BY DEF RestOK, Asked, EditsTold
  <2> QED
    BY <2>1, ToldLasts
<1> QED
  BY <1>1, <1>2, <1>3 DEF EditsTold, Told

-----------------------------------------------------------------------------
(* There is one line, and the walk along it ends at its head.               *)

LEMMA SpeakStep == PoolOK /\ ItemsSpeak /\ Moves => ItemsSpeak'
<1> SUFFICES ASSUME PoolOK, ItemsSpeak, Moves PROVE ItemsSpeak'
  OBVIOUS
<1>1. CASE UNCHANGED pool
  BY <1>1 DEF pool, ItemsSpeak, Is
<1>2. CASE Grows
  BY <1>2, GrowsRow DEF Inserted, ItemsSpeak, Is
<1>3. CASE Amends
  <2>1. PICK i \in Items, w \in Words, b \in BOOLEAN : Amend(i, w, b)
    BY <1>3 DEF Amends
  <2> QED
    BY <2>1 DEF Amend, ItemsSpeak, Is, PoolOK
<1> QED
  BY <1>1, <1>2, <1>3 DEF Moves

LEMMA FollowsStep == PoolOK /\ Follows /\ Moves => Follows'
<1> SUFFICES ASSUME PoolOK, Follows, Moves PROVE Follows'
  OBVIOUS
<1>1. CASE UNCHANGED <<identity, from, continues>>
  BY <1>1 DEF Follows, Is
<1>2. CASE Grows
  <2>1. PICK id \in Identities \ {NoIdentity}, w \in Words, k \in Words \cup {Nothing},
             r \in Items \cup {Nothing}, c \in Items \cup {Nothing}, j \in Items :
          AtHead(id, r, c) /\ Inserted(j, id, w, k, r, c)
    BY <1>2, GrowsRow
  <2>2. \A l \in Items : Is(l) => Is(l)' /\ l < j
    BY <2>1 DEF Inserted, Fresh, Is
  <2>3. ASSUME NEW i \in Items, NEW l \in {from'[i], continues'[i]} \ {Nothing}
        PROVE  Is(i)' /\ Is(l)' /\ l < i
    <3>1. CASE i = j
      BY <2>1, <2>2, <2>3, <3>1 DEF Inserted, AtHead, IsHead
    <3>2. CASE i # j
      <4>1. Is(i) /\ Is(l) /\ l < i
        BY <2>1, <2>3, <3>2 DEF Inserted, Follows
      <4>2. l \in Items
        BY <2>3, <2>1, <3>2 DEF Inserted, PoolOK
      <4> QED
        BY <4>1, <4>2, <2>2
    <3> QED
      BY <3>1, <3>2
  <2> QED
    BY <2>3 DEF Follows, Is
<1>3. CASE Amends
  BY <1>1, <1>3, AmendRows DEF Amends
<1> QED
  BY <1>1, <1>2, <1>3 DEF Moves, pool

\* What is inserted is the head from then on, and nothing else is.
LEMMA InsertedIsHead ==
  ASSUME PoolOK, OneLine, NEW id \in Identities \ {NoIdentity}, NEW w, NEW k,
         NEW r \in Items \cup {Nothing}, NEW c \in Items \cup {Nothing}, NEW j \in Items,
         AtHead(id, r, c), Inserted(j, id, w, k, r, c)
  PROVE  IsHead(j)' /\ \A i \in Items : IsHead(i)' => i = j
<1>1. \A i \in Items : Is(i)' => i = j \/ Is(i)
  BY DEF Inserted, Is
<1>2. \A i \in Items : from[i] # j /\ continues[i] # j
  BY DEF OneLine, Follows, Inserted, Fresh, PoolOK
<1>3. r # j /\ c # j /\ j # Nothing
  BY FreshIsNew DEF AtHead, Inserted, IsHead
<1>4. IsHead(j)'
  BY <1>2, <1>3 DEF Inserted, IsHead, Revisions, Continuations
<1>5. ASSUME NEW i \in Items, IsHead(i)', i # j PROVE FALSE
  <2>1. Is(i) /\ from'[j] # i /\ continues'[j] # i
    BY <1>1, <1>5 DEF IsHead, Revisions, Continuations
  <2>2. \A l \in Items : from[l] # i /\ continues[l] # i
    BY <1>5, <1>2, FreshIsNew DEF IsHead, Inserted, Revisions, Continuations, OneLine, Follows, PoolOK
  <2>3. IsHead(i)
    BY <2>1, <2>2 DEF IsHead, Revisions, Continuations
  <2>4. Taken(Plain) /\ \A h \in Items : IsHead(h) => h = i
    BY <2>1, <2>3 DEF OneLine, OneHead
  <2> QED
    BY <2>1, <2>4 DEF AtHead, Inserted
<1> QED
  BY <1>4, <1>5

LEMMA OneHeadStep == PoolOK /\ OneLine /\ Moves => OneHead'
<1> SUFFICES ASSUME PoolOK, OneLine, Moves PROVE OneHead'
  OBVIOUS
<1>1. CASE UNCHANGED <<identity, from, continues>>
  BY <1>1 DEF OneLine, OneHead, Is, IsHead, Taken, Holds, Revisions, Continuations
<1>2. CASE Grows
  <2>1. PICK id \in Identities \ {NoIdentity}, w \in Words, k \in Words \cup {Nothing},
             r \in Items \cup {Nothing}, c \in Items \cup {Nothing}, j \in Items :
          AtHead(id, r, c) /\ Inserted(j, id, w, k, r, c)
    BY <1>2, GrowsRow
  <2>2. IsHead(j)' /\ \A i \in Items : IsHead(i)' => i = j
    BY <2>1, InsertedIsHead
  <2>3. CASE r = Nothing /\ c = Nothing
    BY <2>1, <2>2, <2>3 DEF AtHead, Inserted, OneHead, Taken, Holds
  <2>4. CASE r # Nothing \/ c # Nothing
    <3>1. PICK i \in Items : Holds(i, Plain)
      BY <2>1, <2>4 DEF AtHead, IsHead, OneLine, OneHead, Taken
    <3>2. Holds(i, Plain)'
      BY <2>1, <3>1, FreshIsNew, IdentityIsSomething DEF Inserted, Holds, Is
    <3> QED
      BY <2>2, <3>2 DEF OneHead, Taken
  <2> QED
    BY <2>3, <2>4
<1>3. CASE Amends
  BY <1>1, <1>3, AmendRows DEF Amends
<1> QED
  BY <1>1, <1>2, <1>3 DEF Moves, pool

\* The next of the line is further on, and the head's next is itself.
LEMMA NextIsFurther ==
  ASSUME PoolOK, OneLine, NEW i \in Items
  PROVE  /\ NextOf(i) \in Items
         /\ NextOf(i) # i => Is(i) /\ Is(NextOf(i)) /\ i < NextOf(i)
         /\ NextOf(i) = i /\ Is(i) => IsHead(i)
<1>1. CASE Revisions(i) # {}
  <2> DEFINE last == CHOOSE j \in Revisions(i) : \A k \in Revisions(i) : k <= j
  <2>1. \E j \in Revisions(i) : \A k \in Revisions(i) : k <= j
    BY <1>1, LastOf, Revisions(i) \in SUBSET Items DEF Revisions
  <2>2. last \in Revisions(i)
    BY <2>1
  <2>3. NextOf(i) = last
    BY <1>1 DEF NextOf
  <2> HIDE DEF last
  <2> QED
    BY <2>2, <2>3 DEF Revisions, OneLine, Follows, PoolOK
<1>2. CASE Revisions(i) = {} /\ Continuations(i) # {}
  <2> DEFINE next == CHOOSE j \in Continuations(i) \cup {i} : Continuations(i) # {} => j # i
  <2>1. PICK j \in Continuations(i) : TRUE
    BY <1>2
  <2>2. j # i /\ j \in Continuations(i) \cup {i}
    BY <2>1 DEF Continuations, OneLine, Follows, PoolOK
  <2>3. next \in Continuations(i) \cup {i} /\ next # i
    BY <1>2, <2>2
  <2>4. NextOf(i) = next
    BY <1>2 DEF NextOf
  <2> HIDE DEF next
  <2> QED
    BY <2>3, <2>4 DEF Continuations, OneLine, Follows, PoolOK
<1>3. CASE Revisions(i) = {} /\ Continuations(i) = {}
  <2>1. NextOf(i) = i
    BY <1>3 DEF NextOf
  <2> QED
    BY <1>3, <2>1 DEF IsHead
<1> QED
  BY <1>1, <1>2, <1>3

Walk(f) == \A i \in Items : f[i] = IF NextOf(i) = i THEN i ELSE f[NextOf(i)]

\* The walk is defined: from what there is to the head, from elsewhere nowhere.
LEMMA WalkDefined ==
  ASSUME PoolOK, OneLine
  PROVE  Walk(HeadOf)
<1>1. PICK h \in Items \cup {Nothing} :
        \A i \in Items : Is(i) => IsHead(h) /\ \A l \in Items : IsHead(l) => l = h
  BY DEF OneLine, OneHead
<1> DEFINE g == [i \in Items |-> IF Is(i) THEN h ELSE i]
<1>2. ASSUME NEW i \in Items PROVE g[i] = IF NextOf(i) = i THEN i ELSE g[NextOf(i)]
  <2>1. CASE NextOf(i) = i
    BY <1>1, <2>1, NextIsFurther
  <2>2. CASE NextOf(i) # i
    BY <2>2, NextIsFurther
  <2> QED
    BY <2>1, <2>2
<1>3. g = [i \in Items |-> IF NextOf(i) = i THEN i ELSE g[NextOf(i)]]
  BY <1>2
<1>4. HeadOf = CHOOSE f : f = [i \in Items |-> IF NextOf(i) = i THEN i ELSE f[NextOf(i)]]
  BY DEF HeadOf
<1> HIDE DEF g
<1>5. HeadOf = [i \in Items |-> IF NextOf(i) = i THEN i ELSE HeadOf[NextOf(i)]]
  BY <1>3, <1>4
<1> QED
  BY <1>5 DEF Walk

LEMMA WalkEndsAtHead ==
  ASSUME PoolOK, OneLine, NEW f, Walk(f)
  PROVE  \A i \in Items : Is(i) => f[i] \in Items /\ IsHead(f[i])
<1> DEFINE Bad == {i \in Items : Is(i) /\ ~(f[i] \in Items /\ IsHead(f[i]))}
<1>1. SUFFICES ASSUME Bad # {} PROVE FALSE
  OBVIOUS
<1>2. Bad \in SUBSET Items
  OBVIOUS
<1>3. PICK m \in Bad : \A k \in Bad : k <= m
  BY <1>1, <1>2, LastOf
<1>4. m \in Items /\ Is(m) /\ ~(f[m] \in Items /\ IsHead(f[m]))
  OBVIOUS
<1>5. CASE NextOf(m) = m
  BY <1>4, <1>5, NextIsFurther DEF Walk
<1>6. CASE NextOf(m) # m
  <2>1. NextOf(m) \in Items /\ Is(NextOf(m)) /\ m < NextOf(m) /\ f[m] = f[NextOf(m)]
    BY <1>4, <1>6, NextIsFurther DEF Walk
  <2>2. NextOf(m) \in Bad
    BY <2>1, <1>4
  <2>3. m \in Nat /\ NextOf(m) \in Nat
    BY <1>4, <2>1
  <2> QED
    BY <1>3, <2>1, <2>2, <2>3
<1> QED
  BY <1>5, <1>6

\* A re-read is answered by the head.
LEMMA AnswersAreHeads == PoolOK /\ OneLine => \A i \in Answers : i \in Items /\ IsHead(i)
<1> SUFFICES ASSUME PoolOK, OneLine, NEW i \in Answers PROVE i \in Items /\ IsHead(i)
  OBVIOUS
<1>1. PICK h \in Items : Holds(h, Plain) /\ i = HeadOf[h]
  BY DEF Answers
<1>2. Is(h)
  BY <1>1, IdentityIsSomething DEF Holds, Is
<1> QED
  BY <1>1, <1>2, WalkDefined, WalkEndsAtHead

-----------------------------------------------------------------------------
(* What the line has heard, the head holds.                                 *)

LEMMA WordsAreSomething == Nothing \notin Words
  BY DEF Words

\* An amendment leaves the head where it is, and by anybody else leaves it what
\* the source said.
LEMMA AmendedHolds ==
  ASSUME PoolOK, ItemsSpeak, NEW i \in Items, NEW w \in Words, NEW b \in BOOLEAN, Amend(i, w, b)
  PROVE  /\ \A l \in Items : IsHead(l)' <=> IsHead(l)
         /\ \A l \in Items \ {i} : SourceWord(l)' = SourceWord(l)
         /\ SourceWord(i)' = IF b THEN w ELSE SourceWord(i)
<1>1. /\ UNCHANGED <<identity, from, continues>>
      /\ word'[i] = KeptWord(i, w, b)
      /\ \A j \in Items \ {i} : says'[j] = says[j] /\ word'[j] = word[j]
  BY AmendRows
<1>2. says'[i] = w
  BY DEF Amend, PoolOK
<1>3. says[i] # Nothing /\ w # Nothing
  BY WordsAreSomething DEF Amend, ItemsSpeak
<1>4. \A l \in Items : IsHead(l)' <=> IsHead(l)
  BY <1>1 DEF IsHead, Is, Revisions, Continuations
<1>5. \A l \in Items \ {i} : SourceWord(l)' = SourceWord(l)
  BY <1>1 DEF SourceWord
<1>6. SourceWord(i)' = IF b THEN w ELSE SourceWord(i)
  BY <1>1, <1>2, <1>3 DEF SourceWord, KeptWord
<1> QED
  BY <1>4, <1>5, <1>6

\* After the step, these words.
WillHold(words) == \A i \in Items : IsHead(i)' => SourceWord(i)' = words

LEMMA InsertedHolds ==
  ASSUME PoolOK, OneLine, NEW id \in Identities \ {NoIdentity}, NEW w \in Words,
         NEW k \in Words \cup {Nothing}, NEW r \in Items \cup {Nothing},
         NEW c \in Items \cup {Nothing}, AtHead(id, r, c), Insert(id, w, k, r, c)
  PROVE  WillHold(IF k = Nothing THEN w ELSE k)
<1>1. PICK j \in Items : Inserted(j, id, w, k, r, c)
  BY InsertRows
<1>2. \A i \in Items : IsHead(i)' => i = j
  BY <1>1, InsertedIsHead
<1>3. SourceWord(j)' = IF k = Nothing THEN w ELSE k
  BY <1>1 DEF SourceWord, Inserted
<1> QED
  BY <1>2, <1>3 DEF WillHold, WillHold

\* What a revision by somebody else holds is what the head held.
LEMMA RevisedHolds ==
  ASSUME PoolOK, OneLine, ItemsSpeak, NEW i \in Items, NEW id \in Identities \ {NoIdentity},
         NEW w \in Words, NEW b \in BOOLEAN, Revise(i, id, w, b)
  PROVE  WillHold(IF b THEN w ELSE SourceWord(i))
<1>1. IsHead(i) /\ Insert(id, w, KeptWord(i, w, b), i, Nothing) /\ AtHead(id, i, Nothing)
  BY DEF Revise, AtHead
<1>2. KeptWord(i, w, b) \in Words \cup {Nothing}
  BY KeptTyped
<1>3. WillHold(IF KeptWord(i, w, b) = Nothing THEN w ELSE KeptWord(i, w, b))
  BY <1>1, <1>2, InsertedHolds
<1>4. says[i] # Nothing
  BY <1>1, WordsAreSomething DEF IsHead, ItemsSpeak
<1>5. (IF KeptWord(i, w, b) = Nothing THEN w ELSE KeptWord(i, w, b))
        = IF b THEN w ELSE SourceWord(i)
  BY <1>4 DEF KeptWord, SourceWord
<1> QED
  BY <1>3, <1>5

\* People leave what the head holds as it is.
LEMMA PeopleKeep ==
  ASSUME PoolOK, OneLine, ItemsSpeak, NEW e \in Edits, NEW i \in Items, NEW w \in Words,
         Lands(e, i, w), NEW words, HeadHolds(words)
  PROVE  WillHold(words)
<1>1. CASE Amend(i, w, FALSE)
  BY <1>1, AmendedHolds DEF HeadHolds, WillHold
<1>2. CASE Revise(i, ByHand(e), w, FALSE)
  <2>1. WillHold(SourceWord(i))
    BY <1>2, RevisedHolds, IdentityIsSomething
  <2>2. SourceWord(i) = words
    BY <1>2 DEF Revise, HeadHolds
  <2> QED
    BY <2>1, <2>2
<1>3. CASE UNCHANGED pool
  BY <1>3 DEF pool, HeadHolds, WillHold, IsHead, Is, Revisions, Continuations, SourceWord
<1> QED
  BY <1>1, <1>2, <1>3 DEF Lands, EditRefused

LEMMA StillThere ==
  ASSUME PoolOK, Moves, \E i \in Items : Is(i)
  PROVE  \E i \in Items : Is(i)'
<1>1. CASE UNCHANGED identity
  BY <1>1 DEF Is
<1>2. CASE Grows
  BY <1>2, GrowsRow DEF Inserted
<1> QED
  BY <1>1, <1>2, AmendRows DEF Moves, Amends, pool

LEMMA HeardByLanding ==
  ASSUME RestOK, Heard, relay.kind # "none", UNCHANGED <<version, text>>,
         relay' = Idle, heard' = relay.version, WillHold(relay.words), \E i \in Items : Is(i)'
  PROVE  Heard'
<1>1. relay.version \in 0..Versions /\ version \in 1..Versions
  BY DEF RestOK, Requests
<1>2. relay'.kind = "none" /\ relay'.version = 0
  BY DEF Idle, Written
<1>3. relay.version = version => WillHold(text)
  BY DEF Heard
<1>4. version' = version /\ text' = text
  OBVIOUS
<1> QED
  BY <1>1, <1>2, <1>3, <1>4 DEF Heard, HeadHolds, WillHold

LEMMA HeardKept ==
  ASSUME RestOK, Heard, UNCHANGED <<version, text, heard>>, relay' \in {relay, Idle},
         \A words : HeadHolds(words) => WillHold(words),
         (\E i \in Items : Is(i)) => \E i \in Items : Is(i)'
  PROVE  Heard'
<1>1. version \in 1..Versions
  BY DEF RestOK
<1>2. /\ version' = version /\ text' = text /\ heard' = heard
      /\ HeadHolds(text) => WillHold(text)
      /\ HeadHolds(relay.words) => WillHold(relay.words)
  OBVIOUS
<1>3. HeadHolds(text)' <=> WillHold(text)
  BY <1>2 DEF HeadHolds, WillHold
<1>4. CASE relay' = relay
  <2>1. HeadHolds(relay.words)' <=> WillHold(relay.words)
    BY <1>4 DEF HeadHolds, WillHold
  <2> QED
    BY <1>2, <1>3, <1>4, <2>1 DEF Heard
<1>5. CASE relay' = Idle
  <2>1. relay'.kind = "none" /\ relay'.version = 0
    BY <1>5 DEF Idle, Written
  <2> QED
    BY <1>1, <1>2, <1>3, <2>1 DEF Heard
<1> QED
  BY <1>4, <1>5

LEMMA PoolKeeps ==
  ASSUME UNCHANGED pool
  PROVE  /\ \A words : HeadHolds(words) => WillHold(words)
         /\ \A i \in Items : Is(i)' <=> Is(i)
  BY DEF pool, HeadHolds, WillHold, IsHead, Is, Revisions, Continuations, SourceWord

LEMMA HeardAtHead ==
  ASSUME OneLine, NEW i \in Items, IsHead(i), NEW words, SourceWord(i)' = words,
         \A l \in Items : IsHead(l)' => IsHead(l)
  PROVE  WillHold(words)
  BY DEF OneLine, OneHead, IsHead, WillHold

LEMMA HeardStep ==
  ASSUME PoolOK, RestOK, Asked, ItemsSpeak, OneLine, Heard, [Next]_vars
  PROVE  Heard'
<1> USE IdentityIsSomething
<1>0. /\ relay.version \in 0..Versions /\ version \in 1..Versions /\ heard \in 0..Versions
      /\ relay.kind # "none" => relay.version \in 1..Versions /\ relay.words \in Words
      /\ relay.kind \in {"edit", "continue"} => relay.item \in Items
  BY DEF RestOK, Requests, Asked, Proper
<1>1. (\E i \in Items : Is(i)) => \E i \in Items : Is(i)'
  BY StepMoves, StillThere
<1>2. CASE NoteChanges
  <2>1. UNCHANGED <<pool, relay, heard>> /\ version' = version + 1
    BY <1>2 DEF NoteChanges
  <2>2. HeadHolds(relay.words)' <=> WillHold(relay.words)
    BY <2>1 DEF HeadHolds, WillHold
  <2> QED
    BY <1>0, <2>1, <2>2, PoolKeeps DEF Heard
<1>3. ASSUME NEW e \in Edits, NEW i \in Items, NEW w \in Words, Lands(e, i, w),
             UNCHANGED <<version, text, relay, heard>>
      PROVE  Heard'
  BY <1>1, <1>3, PeopleKeep, HeardKept
<1>4. ASSUME UNCHANGED <<pool, version, text, heard>>, relay' \in {relay, Idle} PROVE Heard'
  BY <1>1, <1>4, PoolKeeps, HeardKept
<1>5. CASE Poll
  <2>1. UNCHANGED <<pool, version, text, heard>>
    BY <1>5 DEF Poll
  <2>2. relay'.kind = "capture" /\ relay'.version = version /\ relay'.words = text
    BY <1>5 DEF Poll, Idle, Written
  <2>3. /\ HeadHolds(relay.words)' <=> WillHold(text)
        /\ HeadHolds(text)' <=> WillHold(text)
    BY <2>1, <2>2 DEF HeadHolds, WillHold
  <2> QED
    BY <1>0, <1>1, <2>1, <2>2, <2>3, PoolKeeps DEF Heard
<1>6. CASE Captured
  <2>1. WillHold(relay.words)
    BY <1>0, <1>6, InsertedHolds DEF Captured, AtHead
  <2>2. \E i \in Items : Is(i)'
    BY <1>0, <1>6, InsertRows DEF Captured, Inserted
  <2> QED
    BY <1>6, <2>1, <2>2, HeardByLanding DEF Captured
<1>7. ASSUME relay.kind = "capture", NEW i \in Items, IsHead(i), Unchanged(i) PROVE Heard'
  <2>1. UNCHANGED <<pool, version, text>> /\ relay' = Idle
    BY <1>7 DEF Unchanged
  <2>2. CASE SourceWord(i) = relay.words
    <3>1. heard' = relay.version
      BY <1>7, <2>2 DEF Unchanged
    <3>2. HeadHolds(relay.words)
      BY <1>7, <2>2 DEF OneLine, OneHead, IsHead, HeadHolds
    <3>3. \E j \in Items : Is(j)'
      BY <1>1, <1>7 DEF IsHead
    <3> QED
      BY <1>7, <2>1, <3>1, <3>2, <3>3, PoolKeeps, HeardByLanding
  <2>3. CASE SourceWord(i) # relay.words
    BY <1>4, <1>7, <2>1, <2>3 DEF Unchanged
  <2> QED
    BY <2>2, <2>3
<1>8. ASSUME relay.kind = "capture", NEW i \in Items, IsHead(i), Changed(i) PROVE Heard'
  <2>1. UNCHANGED <<pool, version, text, heard>>
    BY <1>8 DEF Changed
  <2>2. /\ relay'.kind \in {"edit", "continue"}
        /\ relay'.version = relay.version /\ relay'.words = relay.words
    BY <1>8 DEF Changed, Asks, RestOK, Requests
  <2>3. SourceWord(i) # relay.words
    BY <1>8 DEF Changed, Said, SourceWord
  <2>4. relay.version # heard
    BY <1>0, <1>8, <2>3 DEF Heard, HeadHolds
  <2>5. HeadHolds(text)' <=> WillHold(text)
    BY <2>1 DEF HeadHolds, WillHold
  <2> QED
    BY <1>0, <1>1, <1>8, <2>1, <2>2, <2>4, <2>5, PoolKeeps DEF Heard
<1>9. CASE EditLands
  <2> USE <1>0, <1>9
  <2>1. UNCHANGED <<version, text>> /\ relay' = Idle
    BY DEF EditLands
  <2>2. CASE Amend(relay.item, relay.words, TRUE) /\ IsHead(relay.item) /\ heard' = relay.version
    <3>1. PICK i \in Items, w \in Words : i = relay.item /\ w = relay.words
      BY DEF EditLands
    <3>2. (\A l \in Items : IsHead(l)' <=> IsHead(l)) /\ SourceWord(i)' = w
      BY <2>2, <3>1, AmendedHolds
    <3>3. WillHold(w)
      BY <2>2, <3>1, <3>2, HeardAtHead
    <3> QED
      BY <1>1, <2>1, <2>2, <3>1, <3>3, HeardByLanding DEF EditLands, IsHead
  <2>3. CASE Amend(relay.item, relay.words, TRUE) /\ ~IsHead(relay.item) /\ heard' = heard
    <3>1. \A words : HeadHolds(words) => WillHold(words)
      BY <2>3, AmendedHolds DEF EditLands, HeadHolds, WillHold
    <3> QED
      BY <1>1, <2>1, <2>3, <3>1, HeardKept
  <2>4. CASE Revise(relay.item, Edited(relay.version), relay.words, TRUE) /\ heard' = relay.version
    <3>1. WillHold(relay.words)
      BY <2>4, RevisedHolds DEF EditLands
    <3>2. \E i \in Items : Is(i)'
      BY <1>1, <2>4 DEF Revise, IsHead, EditLands
    <3> QED
      BY <2>1, <2>4, <3>1, <3>2, HeardByLanding DEF EditLands
  <2>5. CASE EditRefused(relay.item, Edited(relay.version)) /\ UNCHANGED heard
    BY <1>4, <2>1, <2>5 DEF EditRefused
  <2> QED
    BY <2>2, <2>3, <2>4, <2>5 DEF EditLands
<1>10. CASE ContinueLands
  <2> USE <1>0, <1>10
  <2>1. UNCHANGED <<version, text>> /\ relay' = Idle
    BY DEF ContinueLands
  <2>2. CASE Continue(relay.item, Continued(relay.version), relay.words) /\ heard' = relay.version
    <3>1. /\ Insert(Continued(relay.version), relay.words, Nothing, Nothing, relay.item)
          /\ IsHead(relay.item)
      BY <2>2 DEF Continue, Continuable
    <3>2. WillHold(relay.words)
      BY <3>1, InsertedHolds DEF ContinueLands, AtHead
    <3>3. \E i \in Items : Is(i)'
      BY <1>1, <3>1 DEF IsHead, ContinueLands
    <3> QED
      BY <2>1, <2>2, <3>2, <3>3, HeardByLanding DEF ContinueLands
  <2>3. CASE ContinueRefused(relay.item, Continued(relay.version)) /\ UNCHANGED heard
    BY <1>4, <2>1, <2>3 DEF ContinueRefused
  <2> QED
    BY <2>2, <2>3 DEF ContinueLands
<1>11. ASSUME NEW r \in late, ArrivesLate(r) PROVE Heard'
  BY <1>0, <1>11 DEF Heard, ArrivesLate
<1>12. ASSUME NEW e \in Edits, ResendByHand(e) PROVE Heard'
  <2>1. hand[e].item \in Items /\ hand[e].words \in Words
    BY <1>12 DEF ResendByHand, Asked
  <2> QED
    BY <1>3, <1>12, <2>1 DEF ResendByHand
<1>13. ASSUME NEW e \in Edits, NEW i \in Items, NEW w \in Ours, EditByHand(e, i, w) PROVE Heard'
  BY <1>3, <1>13 DEF EditByHand, Words
<1>14. ASSUME Reread PROVE Heard'
  BY <1>7, <1>8, <1>14, AnswersAreHeads DEF Reread
<1>15. CASE GiveUp \/ (\E i \in Items : Seal(i)) \/ UNCHANGED vars
  BY <1>4, <1>15 DEF GiveUp, Seal, vars, pool
<1> QED
  BY <1>2, <1>5, <1>6, <1>9, <1>10, <1>11, <1>12, <1>13, <1>14, <1>15
     DEF Next, People, Relay, Unanswered

-----------------------------------------------------------------------------
LEMMA InitInv == Init => IInv
<1> SUFFICES ASSUME Init PROVE IInv
  OBVIOUS
<1>1. PoolOK
  BY DEF Init, PoolOK
<1>2. RestOK
  BY IdleIsARequest DEF Init, RestOK
<1>3. Asked
  BY IdleIsARequest DEF Init, Asked
<1>4. \A i \in Items : from[i] = Nothing /\ continues[i] = Nothing
  BY DEF Init
<1>5. LineNeverForks
  BY <1>4 DEF LineNeverForks, Revisions, Continuations
<1>6. NoItemNoWord
  BY DEF Init, NoItemNoWord
<1>7. EditsTold
  BY DEF Init, EditsTold, Told, Idle, Written
<1>8. \A i \in Items : ~Is(i)
  BY DEF Init, Is
<1>9. ItemsSpeak /\ OneLine
  BY <1>4, <1>8 DEF ItemsSpeak, OneLine, Follows, OneHead
<1>10. Heard
  BY DEF Init, Heard, Idle, Written
<1> QED
  BY <1>1, <1>2, <1>3, <1>5, <1>6, <1>7, <1>9, <1>10, TypesTogether DEF IInv

LEMMA StepInv == IInv /\ [Next]_vars => IInv'
<1> SUFFICES ASSUME IInv, [Next]_vars PROVE IInv'
  OBVIOUS
<1>1. /\ PoolOK /\ RestOK /\ Asked /\ LineNeverForks /\ NoItemNoWord /\ EditsTold
      /\ ItemsSpeak /\ OneLine /\ Heard
  BY TypesTogether DEF IInv
<1>2. Moves
  BY <1>1, StepMoves
<1>3. TypeOK' <=> PoolOK' /\ RestOK'
  BY TypesTogether DEF TypeOK, PoolOK, RestOK
<1>4. LineNeverForks' /\ NoItemNoWord' /\ EditsTold'
  BY <1>1, <1>2, ForksStep, NoWordStep, ToldStep
<1>5. ItemsSpeak' /\ OneLine'
  BY <1>1, <1>2, SpeakStep, FollowsStep, OneHeadStep DEF OneLine
<1>6. Heard'
  BY <1>1, HeardStep
<1> QED
  BY <1>1, <1>2, <1>3, <1>4, <1>5, <1>6, PoolStep, RestStep DEF IInv

LEMMA AlwaysInv == Spec => []IInv
  BY InitInv, StepInv, PTL DEF Spec

\* Every variable keeps its type.
THEOREM Types == Spec => []TypeOK
  BY AlwaysInv, PTL DEF IInv

\* A line never forks, however many edits, captures and late requests meet in it.
THEOREM NeverForks == Spec => []LineNeverForks
  BY AlwaysInv, PTL DEF IInv

\* Words of a person's that the relay had read are not overwritten by its edit.
THEOREM ReadWords == Spec => ReadWordsSurvive
<1> DEFINE Overwrites(i) ==
      word[i] # Nothing /\ says'[i] # says[i] /\ touches'[i] = touches[i]
<1>1. ASSUME IInv, [Next]_vars, NEW i \in Items, Overwrites(i)
      PROVE  \E r \in {relay} \cup late : r.kind = "edit" /\ r.item = i /\ r.read < touches[i]
  <2>0. PoolOK /\ RestOK /\ Asked /\ NoItemNoWord /\ EditsTold
    BY <1>1, TypesTogether DEF IInv
  <2>1. Is(i)
    BY <1>1, <2>0 DEF NoItemNoWord
  <2>2. ~Quiet
    <3>1. CASE UNCHANGED pool
      BY <1>1, <3>1 DEF pool
    <3>2. CASE Grows
      <4>1. PICK j \in Items : ~Is(j) /\ \A k \in Items \ {j} : says'[k] = says[k]
        BY <2>0, <3>2, GrowsRow, FreshIsNew DEF Inserted
      <4> QED
        BY <1>1, <2>1, <4>1
    <3> QED
      BY <3>1, <3>2 DEF Quiet
  <2>3. ~ByAPerson
    <3> SUFFICES ASSUME NEW j \in Items, NEW w \in Words, Amend(j, w, FALSE), Touch(j)
                 PROVE  FALSE
      BY DEF ByAPerson
    <3>1. \A k \in Items \ {j} : says'[k] = says[k]
      BY <2>0, AmendRows
    <3>2. touches'[j] = touches[j] + 1 /\ touches[j] \in Nat
      BY <2>0 DEF Touch, RestOK
    <3> QED
      BY <1>1, <3>1, <3>2
  <2>4. PICK r \in {relay} \cup late :
          /\ r.kind = "edit" /\ r.item \in Items /\ r.words \in Words
          /\ Amend(r.item, r.words, TRUE)
    BY <2>0, <2>2, <2>3, <1>1, StepKinds DEF ByTheSource
  <2>5. r.item = i
    BY <1>1, <2>0, <2>4, AmendRows
  <2>6. Told(r) /\ r.read \in Nat /\ touches[i] \in Nat
    BY <2>0 DEF EditsTold, RestOK, Requests
  <2> QED
    BY <1>1, <2>4, <2>5, <2>6 DEF Told
<1>2. IInv /\ [Next]_vars =>
        [\A i \in Items :
          /\ word[i] # Nothing
          /\ says'[i] # says[i]
          /\ touches'[i] = touches[i]
          => \E r \in {relay} \cup late : r.kind = "edit" /\ r.item = i /\ r.read < touches[i]]_vars
  BY <1>1
<1> QED
  BY <1>2, AlwaysInv, PTL DEF Spec, ReadWordsSurvive

\* Once the line has a version's words as the source's, a poll of that version
\* changes nothing, however long the line and whatever people have made of it.
THEOREM RereadStands == Spec => RereadIsNoEdit
<1>1. ASSUME IInv, [Next]_vars, heard # 0, relay.version = heard, relay' = Idle, late' = late
      PROVE  UNCHANGED pool
  <2>0. Heard /\ OneLine
    BY <1>1 DEF IInv
  <2>1. relay # Idle
    BY <1>1 DEF Idle, Written
  <2>2. ~Captured
    BY <1>1, <2>0 DEF Captured, Heard, OneLine, OneHead
  <2>3. ~EditLands /\ ~ContinueLands
    BY <1>1, <2>0 DEF EditLands, ContinueLands, Heard
  <2> QED
    BY <1>1, <2>1, <2>2, <2>3
       DEF Next, People, Relay, Unanswered, NoteChanges, EditByHand, ResendByHand, Seal, Poll,
           Reread, Unchanged, Changed, GiveUp, ArrivesLate, vars
<1>2. IInv /\ [Next]_vars =>
        [heard # 0 /\ relay.version = heard /\ relay' = Idle /\ late' = late
           => UNCHANGED pool]_vars
  BY <1>1
<1> QED
  BY <1>2, AlwaysInv, PTL DEF Spec, RereadIsNoEdit
=============================================================================
