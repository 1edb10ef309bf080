---------------------------- MODULE Outbox_proofs ----------------------------
(***************************************************************************)
(* What the outbox keeps to for any processes, operations and faults.      *)
(***************************************************************************)
EXTENDS Outbox, FiniteSetTheorems, SequenceTheorems, TLAPS

\* A process sends an operation there is, and keeps the tags of it as another.
WorkNames ==
    \A p \in Processes :
        /\ work[p].phase # "idle" => work[p].op \in Operations
        /\ work[p].phase = "carrying" => work[p].next \in Operations

\* Nothing is known of an operation nobody has made.
MadeFirst ==
    \A o \in Operations \ made :
        /\ store[o] = "none"
        /\ o \notin settled \cup gone
        /\ \A p \in Processes : held[p][o] = "none" /\ writing[p][o] = "none" /\ ~Sends(p, o)

\* Until the store has an operation, only the process that made it knows of it.
FirstWrite ==
    \A p \in Processes, o \in Operations :
        writing[p][o] = "pending" =>
            /\ store[o] = "none"
            /\ o \notin settled
            /\ o \in gone => o \in leaving[p]
            /\ \A q \in Processes : ~Sends(q, o)
            /\ \A q \in Processes \ {p} : held[q][o] = "none" /\ writing[q][o] = "none"

\* Only who was sending an operation writes it down again.
LastWrite ==
    \A p \in Processes, o \in Operations :
        writing[p][o] \in {"unreachable", "refused"} =>
            work[p].op = o /\ work[p].phase = "recording"

\* Whoever is sending has the lease, unless somebody took the operation back or
\* the lease ran out.
UnderLease ==
    \A p \in Processes, o \in Operations \ overran :
        Sends(p, o) => store[o] \in {"sending", "none"}

\* Of what has landed in its time, and was taken out, only its tags may be left
\* to see to.
Landed ==
    \A o \in settled \ (overran \cup misfiled) :
        /\ store[o] = "none"
        /\ \A p \in Processes : writing[p][o] = "none" /\ (Sends(p, o) => Carries(p, o))

LeavingGone == \A p \in Processes : leaving[p] \subseteq gone

IInv ==
    /\ TypeOK
    /\ WorkNames
    /\ MadeFirst
    /\ FirstWrite
    /\ LastWrite
    /\ UnderLease
    /\ OneSender
    /\ Landed
    /\ LeavingGone
    /\ NothingLost

SInv ==
    /\ MadeFirst
    /\ FirstWrite
    /\ LastWrite
    /\ UnderLease
    /\ OneSender
    /\ Landed
    /\ LeavingGone
    /\ NothingLost

USE OutboxAssumption DEF fate

-----------------------------------------------------------------------------
(* Types.                                                                   *)

Works == [op : Operations \cup {Nothing}, phase : Phases, next : Operations \cup {Nothing}]

LEMMA IdleTyped == Idle.phase = "idle" /\ Idle \in Works
  BY DEF Idle, Phases, Works

LEMMA FaultTyped == TypeOK /\ Fault => faults' \in 0..Faults
  BY DEF TypeOK, Fault

LEMMA TakesTyped ==
  ASSUME TypeOK, NEW p \in Processes, NEW S \in SUBSET Operations, Takes(p, S)
  PROVE  /\ queue' \in [Processes -> Seq(Operations)]
         /\ attempted' \in [Processes -> SUBSET Operations]
         /\ rejected' \subseteq Processes
<1>1. PICK q \in [1..Cardinality(S) -> S] : queue' = [queue EXCEPT ![p] = @ \o q]
  BY DEF Takes
<1>2. Cardinality(S) \in Nat
  BY FS_Subset, FS_CardinalityType
<1>3. q \in Seq(Operations)
  <2>1. q \in [1..Cardinality(S) -> Operations]
    BY <1>1
  <2> QED
    BY <1>2, <2>1, SeqDef
<1>4. queue[p] \o q \in Seq(Operations)
  BY <1>3 DEF TypeOK
<1> QED
  BY <1>1, <1>4 DEF TypeOK, Takes

LEMMA EnqueueTyped ==
  ASSUME TypeOK, WorkNames, NEW p \in Processes, NEW o \in Operations, Enqueue(p, o)
  PROVE  TypeOK' /\ WorkNames'
  BY IdleTyped, TakesTyped DEF TypeOK, WorkNames, States, Waiting, Phases, Works, Enqueue, Has

LEMMA OpposeTyped ==
  ASSUME TypeOK, WorkNames, NEW p \in Processes, NEW o \in Operations, Oppose(p, o)
  PROVE  TypeOK' /\ WorkNames'
  BY IdleTyped, TakesTyped DEF TypeOK, WorkNames, States, Waiting, Phases, Works, Oppose,
     TakesBack

LEMMA RecallTyped ==
  ASSUME TypeOK, WorkNames, NEW p \in Processes, NEW o \in Operations, Recall(p, o)
  PROVE  TypeOK' /\ WorkNames'
  BY IdleTyped, TakesTyped DEF TypeOK, WorkNames, States, Waiting, Phases, Works, Recall,
     TakesBack, Told

LEMMA DismissTyped ==
  ASSUME TypeOK, WorkNames, NEW p \in Processes, NEW o \in Operations, Dismiss(p, o)
  PROVE  TypeOK' /\ WorkNames'
  BY IdleTyped, TakesTyped DEF TypeOK, WorkNames, States, Waiting, Phases, Works, Dismiss,
     TakesBack

LEMMA RemoveTyped ==
  ASSUME TypeOK, WorkNames, NEW p \in Processes, NEW o \in Operations, Remove(p, o)
  PROVE  TypeOK' /\ WorkNames'
  BY IdleTyped, TakesTyped DEF TypeOK, WorkNames, States, Waiting, Phases, Works, Remove,
     Has, own

LEMMA WriteLandsTyped ==
  ASSUME TypeOK, WorkNames, NEW p \in Processes, NEW o \in Operations, WriteLands(p, o)
  PROVE  TypeOK' /\ WorkNames'
<1>1. work' \in [Processes -> Works] /\ WorkNames' /\ owed' \subseteq Operations
  <2>1. CASE Awaits(p, o)
    <3>1. work' = [work EXCEPT ![p] = Idle] /\ owed' \subseteq owed
      BY <2>1 DEF WriteLands
    <3> QED
      BY <3>1, IdleTyped DEF TypeOK, WorkNames, Works
  <2>2. CASE ~Awaits(p, o)
    BY <2>2 DEF TypeOK, WorkNames, Works, WriteLands
  <2> QED
    BY <2>1, <2>2
<1>2. store' \in [Operations -> States] /\ accepted' \subseteq Operations
  BY DEF TypeOK, States, Waiting, WriteLands
<1>3. writing' \in [Processes -> [Operations -> {"none", "pending", "unreachable", "refused"}]]
  BY DEF TypeOK, WriteLands
<1> QED
  BY <1>1, <1>2, <1>3 DEF TypeOK, Works, WriteLands

LEMMA WriteFailsTyped ==
  ASSUME TypeOK, WorkNames, NEW p \in Processes, NEW o \in Operations, WriteFails(p, o)
  PROVE  TypeOK' /\ WorkNames'
<1>1. /\ store' = store
      /\ writing' \in [Processes -> [Operations -> {"none", "pending", "unreachable", "refused"}]]
  BY DEF TypeOK, WriteFails
<1>2. held' \in [Processes -> [Operations -> States]]
  <2>1. held' = held \/ held' = [held EXCEPT ![p][o] = "none"]
    BY DEF WriteFails, Has
  <2>2. "none" \in States
    BY DEF States
  <2>3. held \in [Processes -> [Operations -> States]]
    BY DEF TypeOK
  <2> QED
    BY <2>1, <2>2, <2>3
<1>3. faults' \in 0..Faults
  BY DEF TypeOK, WriteFails, Fault
<1> QED
  BY <1>1, <1>2, <1>3 DEF TypeOK, WorkNames, WriteFails, own

LEMMA LeaseLapsesTyped ==
  ASSUME TypeOK, WorkNames, NEW o \in Operations, LeaseLapses(o)
  PROVE  TypeOK' /\ WorkNames'
<1>1. store' \in [Operations -> States] /\ held' \in [Processes -> [Operations -> States]]
  BY DEF TypeOK, States, Waiting, LeaseLapses
<1>2. faults' \in 0..Faults /\ overran' \subseteq Operations
  <2>1. CASE \E p \in Processes : Sends(p, o)
    BY <2>1, FaultTyped DEF TypeOK, LeaseLapses
  <2>2. CASE ~\E p \in Processes : Sends(p, o)
    BY <2>2 DEF TypeOK, LeaseLapses
  <2> QED
    BY <2>1, <2>2
<1> QED
  BY <1>1, <1>2 DEF TypeOK, WorkNames, LeaseLapses, own

LEMMA StartDrainTyped ==
  ASSUME TypeOK, WorkNames, NEW p \in Processes, StartDrain(p)
  PROVE  TypeOK' /\ WorkNames'
<1>1. /\ queue' \in [Processes -> Seq(Operations)]
      /\ attempted' \in [Processes -> SUBSET Operations]
      /\ rejected' \subseteq Processes
  <2> DEFINE S == {o \in Untried(p) \ restored[p] : Attemptable(held[p][o])}
  <2>1. S \in SUBSET Operations
    BY DEF Untried
  <2>2. Takes(p, S)
    BY DEF StartDrain
  <2> HIDE DEF S
  <2> QED
    BY <2>1, <2>2, TakesTyped
<1> QED
  BY <1>1 DEF TypeOK, WorkNames, StartDrain, Moves

LEMMA ReconcileTyped ==
  ASSUME TypeOK, WorkNames, NEW p \in Processes, Reconcile(p)
  PROVE  TypeOK' /\ WorkNames'
<1> DEFINE theirs == restored[p] \ HandedOver(p)
           added == {o \in Operations : store[o] # "none"} \ seen[p]
           now == [o \in Operations |-> IF o \in theirs \cup added THEN store[o] ELSE held[p][o]]
           S == {o \in Untried(p) : Attemptable(now[o])}
<1>1. /\ held' = [held EXCEPT ![p] = now]
      /\ restored' = [restored EXCEPT ![p] =
                          {o \in @ : o \in theirs => store[o] # "none"} \cup added]
      /\ seen' = [seen EXCEPT ![p] = @ \cup added]
      /\ Takes(p, S)
  BY DEF Reconcile
<1>2. now \in [Operations -> States]
  BY DEF TypeOK
<1>3. added \in SUBSET Operations
  OBVIOUS
<1>4. S \in SUBSET Operations
  BY DEF Untried
<1> HIDE DEF theirs, added, now, S
<1>5. /\ queue' \in [Processes -> Seq(Operations)]
      /\ attempted' \in [Processes -> SUBSET Operations]
      /\ rejected' \subseteq Processes
  BY <1>1, <1>4, TakesTyped
<1>6. /\ held' \in [Processes -> [Operations -> States]]
      /\ restored' \in [Processes -> SUBSET Operations]
      /\ seen' \in [Processes -> SUBSET Operations]
  BY <1>1, <1>2, <1>3 DEF TypeOK
<1> QED
  BY <1>5, <1>6 DEF TypeOK, WorkNames, Reconcile, Moves

LEMMA RescanTyped ==
  ASSUME TypeOK, WorkNames, NEW p \in Processes, Rescan(p)
  PROVE  TypeOK' /\ WorkNames'
<1>1. /\ queue' \in [Processes -> Seq(Operations)]
      /\ attempted' \in [Processes -> SUBSET Operations]
      /\ rejected' \subseteq Processes
  <2> DEFINE S == {o \in Untried(p) : Attemptable(held[p][o])}
  <2>1. S \in SUBSET Operations
    BY DEF Untried
  <2>2. Takes(p, S)
    BY DEF Rescan
  <2> HIDE DEF S
  <2> QED
    BY <2>1, <2>2, TakesTyped
<1> QED
  BY <1>1 DEF TypeOK, WorkNames, Rescan, Moves

LEMMA ReadFailsTyped ==
  ASSUME TypeOK, WorkNames, NEW p \in Processes, ReadFails(p)
  PROVE  TypeOK' /\ WorkNames'
<1>1. /\ queue' \in [Processes -> Seq(Operations)]
      /\ attempted' \in [Processes -> SUBSET Operations]
      /\ rejected' \subseteq Processes
  <2> DEFINE S == {o \in Untried(p) : Attemptable(held[p][o])}
  <2>1. S \in SUBSET Operations
    BY DEF Untried
  <2>2. Takes(p, S)
    BY DEF ReadFails
  <2> HIDE DEF S
  <2> QED
    BY <2>1, <2>2, TakesTyped
<1>2. faults' \in 0..Faults
  BY FaultTyped DEF ReadFails
<1> QED
  BY <1>1, <1>2 DEF TypeOK, WorkNames, ReadFails, Moves

LEMMA EndDrainTyped ==
  ASSUME TypeOK, WorkNames, NEW p \in Processes, EndDrain(p)
  PROVE  TypeOK' /\ WorkNames'
  BY IdleTyped, TakesTyped DEF TypeOK, WorkNames, States, Waiting, Phases, Works, EndDrain,
     Moves

LEMMA TakeTyped ==
  ASSUME TypeOK, WorkNames, NEW p \in Processes, Take(p)
  PROVE  TypeOK' /\ WorkNames'
<1>1. Head(queue[p]) \in Operations /\ Tail(queue[p]) \in Seq(Operations)
  BY DEF TypeOK, Take
<1>2. work' = work \/ Doing(p, Head(queue[p]), "begun")
  BY DEF Take
<1>3. work' \in [Processes -> Works] /\ WorkNames'
  <2>1. CASE work' = work
    BY <2>1 DEF TypeOK, WorkNames, Works
  <2>2. CASE Doing(p, Head(queue[p]), "begun")
    <3> DEFINE w == [op |-> Head(queue[p]), phase |-> "begun", next |-> Nothing]
    <3>1. w \in Works /\ w.op \in Operations /\ w.phase = "begun"
      BY <1>1 DEF Phases, Works
    <3>2. work' = [work EXCEPT ![p] = w]
      BY <2>2 DEF Doing
    <3> HIDE DEF w
    <3> QED
      BY <3>1, <3>2 DEF TypeOK, WorkNames, Works
  <2> QED
    BY <1>2, <2>1, <2>2
<1> QED
  BY <1>1, <1>3 DEF TypeOK, Works, Take

LEMMA LeaseTyped ==
  ASSUME TypeOK, WorkNames, NEW p \in Processes, Lease(p)
  PROVE  TypeOK' /\ WorkNames'
  BY IdleTyped, TakesTyped DEF TypeOK, WorkNames, States, Waiting, Phases, Works, Lease,
     Has, Doing

LEMMA LoseLeaseTyped ==
  ASSUME TypeOK, WorkNames, NEW p \in Processes, LoseLease(p)
  PROVE  TypeOK' /\ WorkNames'
<1>1. work[p].op \in Operations /\ store[work[p].op] \in States
  BY DEF TypeOK, WorkNames, LoseLease
<1>2. work' \in [Processes -> Works] /\ WorkNames'
  BY IdleTyped DEF TypeOK, WorkNames, Works, LoseLease, Finished
<1>3. restored' \in [Processes -> SUBSET Operations]
  BY <1>1 DEF TypeOK, LoseLease
<1> QED
  BY <1>1, <1>2, <1>3 DEF TypeOK, Works, LoseLease, Has

LEMMA LeaseFailsTyped ==
  ASSUME TypeOK, WorkNames, NEW p \in Processes, LeaseFails(p)
  PROVE  TypeOK' /\ WorkNames'
  BY IdleTyped DEF TypeOK, WorkNames, Works, LeaseFails, Breaks, Finished, Fault

LEMMA RecordFailsTyped ==
  ASSUME TypeOK, WorkNames, NEW p \in Processes, RecordFails(p)
  PROVE  TypeOK' /\ WorkNames'
  BY IdleTyped DEF TypeOK, WorkNames, Works, RecordFails, Breaks, Finished, Fault

\* What a step that leaves the sender at work makes of its work.
LEMMA DoingTyped ==
  ASSUME TypeOK, WorkNames, NEW p \in Processes, NEW o \in Operations,
         NEW phase \in Phases, NEW n \in Operations \cup {Nothing},
         phase = "carrying" => n \in Operations,
         work' = [work EXCEPT ![p] = [op |-> o, phase |-> phase, next |-> n]]
  PROVE  work' \in [Processes -> Works] /\ WorkNames'
<1> DEFINE w == [op |-> o, phase |-> phase, next |-> n]
<1>1. w \in Works /\ w.op = o /\ w.phase = phase /\ w.next = n
  BY DEF Works
<1>2. work' = [work EXCEPT ![p] = w]
  OBVIOUS
<1> HIDE DEF w
<1> QED
  BY <1>1, <1>2 DEF TypeOK, WorkNames, Works

LEMMA SettleTyped ==
  ASSUME TypeOK, WorkNames, NEW p \in Processes, Settle(p)
  PROVE  TypeOK' /\ WorkNames'
<1>1. work[p].op \in Operations
  BY DEF TypeOK, WorkNames, Settle, Lands
<1>2. work' \in [Processes -> Works] /\ WorkNames'
  BY IdleTyped DEF TypeOK, WorkNames, Works, Settle, Finished
<1> QED
  BY <1>1, <1>2 DEF TypeOK, States, Works, Settle, Lands, Has

LEMMA SettleCarryingTyped ==
  ASSUME TypeOK, WorkNames, NEW p \in Processes, NEW n \in Operations, SettleCarrying(p, n)
  PROVE  TypeOK' /\ WorkNames'
<1>1. work[p].op \in Operations
  BY DEF TypeOK, WorkNames, SettleCarrying, Lands
<1>2. work' \in [Processes -> Works] /\ WorkNames'
  BY <1>1, DoingTyped DEF SettleCarrying, Phases
<1>3. held' \in [Processes -> [Operations -> States]]
  BY <1>1 DEF TypeOK, States, Waiting, SettleCarrying
<1>4. writing' \in [Processes -> [Operations -> {"none", "pending", "unreachable", "refused"}]]
  BY DEF TypeOK, SettleCarrying
<1>5. /\ restored' \in [Processes -> SUBSET Operations]
      /\ settled' \subseteq Operations
  BY <1>1 DEF TypeOK, SettleCarrying, Lands
<1>6. /\ store' \in [Operations -> States]
      /\ made' \subseteq Operations /\ owed' \subseteq Operations
      /\ seen' \in [Processes -> SUBSET Operations]
  BY <1>1 DEF TypeOK, States, SettleCarrying
<1> QED
  BY <1>2, <1>3, <1>4, <1>5, <1>6 DEF TypeOK, SettleCarrying, Lands, Works

LEMMA SettleFailsTyped ==
  ASSUME TypeOK, WorkNames, NEW p \in Processes, SettleFails(p)
  PROVE  TypeOK' /\ WorkNames'
<1>1. work[p].op \in Operations
  BY DEF TypeOK, WorkNames, SettleFails, Lands
<1>2. work' \in [Processes -> Works] /\ WorkNames'
  BY <1>1, DoingTyped DEF SettleFails, Doing, Phases
<1>3. store' \in [Operations -> States]
  BY <1>1 DEF TypeOK, States, SettleFails
<1>4. /\ restored' \in [Processes -> SUBSET Operations]
      /\ settled' \subseteq Operations
  BY <1>1 DEF TypeOK, SettleFails, Lands
<1>5. held' \in [Processes -> [Operations -> States]]
  BY <1>1 DEF TypeOK, States, SettleFails, Has
<1>6. /\ writing' \in [Processes -> [Operations -> {"none", "pending", "unreachable", "refused"}]]
      /\ misfiled' \subseteq Operations /\ faults' \in 0..Faults
  BY <1>1, FaultTyped DEF TypeOK, SettleFails
<1> QED
  BY <1>2, <1>3, <1>4, <1>5, <1>6 DEF TypeOK, SettleFails, Lands, Works

LEMMA CarryFailsTyped ==
  ASSUME TypeOK, WorkNames, NEW p \in Processes, CarryFails(p)
  PROVE  TypeOK' /\ WorkNames'
<1>1. work[p].op \in Operations /\ work[p].next \in Operations
  BY DEF TypeOK, WorkNames, CarryFails
<1>2. work' \in [Processes -> Works] /\ WorkNames'
  BY <1>1, DoingTyped DEF CarryFails, Doing, Phases
<1>3. held' \in [Processes -> [Operations -> States]]
  <2>1. /\ held \in [Processes -> [Operations -> States]]
        /\ "none" \in States /\ "refused" \in States
    BY DEF TypeOK, States
  <2>2. PICK left \in States :
           held' = [held EXCEPT ![p][work[p].op] = "refused", ![p][work[p].next] = left]
    BY <1>1, <2>1 DEF CarryFails
  <2> QED
    BY <1>1, <2>1, <2>2
<1>4. writing' \in [Processes -> [Operations -> {"none", "pending", "unreachable", "refused"}]]
  BY <1>1 DEF TypeOK, CarryFails
<1>5. faults' \in 0..Faults /\ misfiled' \subseteq Operations /\ owed' \subseteq Operations
  BY <1>1, FaultTyped DEF TypeOK, CarryFails
<1> QED
  BY <1>1, <1>2, <1>3, <1>4, <1>5 DEF TypeOK, Works, CarryFails

LEMMA RefuseTyped ==
  ASSUME TypeOK, WorkNames, NEW p \in Processes, Refuse(p)
  PROVE  TypeOK' /\ WorkNames'
  BY IdleTyped, TakesTyped DEF TypeOK, WorkNames, States, Waiting, Phases, Works, Refuse,
     Record, Has, Doing

LEMMA NoAnswerTyped ==
  ASSUME TypeOK, WorkNames, NEW p \in Processes, NoAnswer(p)
  PROVE  TypeOK' /\ WorkNames'
<1>1. work[p].op \in Operations
  BY DEF WorkNames, NoAnswer
<1>2. work' \in [Processes -> Works] /\ WorkNames'
  BY <1>1, DoingTyped DEF NoAnswer, Park, Record, Doing, Phases
<1>3. /\ held' \in [Processes -> [Operations -> States]]
      /\ writing' \in [Processes -> [Operations -> {"none", "pending", "unreachable", "refused"}]]
  BY <1>1 DEF TypeOK, States, Waiting, NoAnswer, Park, Record, Has
<1>4. faults' \in 0..Faults
  BY FaultTyped DEF NoAnswer
<1> QED
  BY <1>2, <1>3, <1>4 DEF TypeOK, Works, NoAnswer, Park, Record

LEMMA CrashTyped ==
  ASSUME TypeOK, WorkNames, NEW p \in Processes, Crash(p)
  PROVE  TypeOK' /\ WorkNames'
<1>1. PICK S \in SUBSET {o \in Operations : writing[p][o] # "none"} :
         /\ store' = [o \in Operations |-> IF o \in S THEN writing[p][o] ELSE store[o]]
         /\ accepted' = accepted \cup S
         /\ owed' \subseteq owed
         /\ cutShort' \subseteq cutShort \cup Operations
  BY DEF Crash
<1>2. store' \in [Operations -> States] /\ accepted' \subseteq Operations
  BY <1>1 DEF TypeOK, States, Waiting
<1>3. owed' \subseteq Operations /\ cutShort' \subseteq Operations
  BY <1>1 DEF TypeOK
<1>4. faults' \in 0..Faults
  BY FaultTyped DEF TypeOK, Crash
<1>5. work' \in [Processes -> Works] /\ WorkNames'
  BY IdleTyped DEF TypeOK, WorkNames, Works, Crash, Finished
<1>6. /\ held' \in [Processes -> [Operations -> States]]
      /\ writing' \in [Processes -> [Operations -> {"none", "pending", "unreachable", "refused"}]]
      /\ queue' \in [Processes -> Seq(Operations)]
  BY DEF TypeOK, States, Crash
<1>7. /\ restored' \in [Processes -> SUBSET Operations]
      /\ seen' \in [Processes -> SUBSET Operations]
      /\ recalled' \in [Processes -> SUBSET Operations]
      /\ attempted' \in [Processes -> SUBSET Operations]
      /\ leaving' \in [Processes -> SUBSET Operations]
      /\ drain' \in [Processes -> {"idle", "reading", "looping"}]
  BY DEF TypeOK, Crash, Blank, Moves
<1> QED
  BY <1>2, <1>3, <1>4, <1>5, <1>6, <1>7 DEF TypeOK, Works, Crash

LEMMA StartTyped ==
  ASSUME TypeOK, WorkNames, NEW p \in Processes, Start(p)
  PROVE  TypeOK' /\ WorkNames'
  BY IdleTyped, TakesTyped DEF TypeOK, WorkNames, States, Waiting, Phases, Works, Start

-----------------------------------------------------------------------------
(* Steps.                                                                   *)

\* While a write of it is on its way, nobody but its writer sends an operation.
LEMMA WriterSends ==
  ASSUME IInv, NEW p \in Processes, NEW o \in Operations, writing[p][o] # "none"
  PROVE  /\ o \notin overran => \A q \in Processes : Sends(q, o) => q = p
         /\ writing[p][o] # "pending" => work[p].op = o /\ work[p].phase = "recording"
         /\ writing[p][o] = "pending" => \A q \in Processes : ~Sends(q, o)
<1>1. writing[p][o] \in {"pending", "unreachable", "refused"}
  BY DEF IInv, TypeOK
<1>2. CASE writing[p][o] = "pending"
  BY <1>2 DEF IInv, FirstWrite
<1>3. CASE writing[p][o] \in {"unreachable", "refused"}
  <2>1. work[p].op = o /\ work[p].phase = "recording"
    BY <1>3 DEF IInv, LastWrite
  <2>2. Sends(p, o)
    BY <2>1 DEF Sends
  <2> QED
    BY <1>3, <2>1, <2>2 DEF IInv, OneSender
<1> QED
  BY <1>1, <1>2, <1>3

LEMMA EnqueueStep ==
  ASSUME IInv, TypeOK', NEW p \in Processes, NEW o \in Operations, Enqueue(p, o)
  PROVE  SInv'
<1> USE DEF IInv, TypeOK, States, Waiting, Idle
<1>a. /\ o \notin made
      /\ UNCHANGED <<store, work, leaving, settled, gone, overran, misfiled>>
  BY DEF Enqueue, Fresh
<1>b. /\ \A q \in Processes, n \in Operations : q # p \/ n # o =>
            writing'[q][n] = writing[q][n] /\ held'[q][n] = held[q][n]
      /\ writing'[p][o] = "pending"
  BY DEF Enqueue, Has
<1>c. /\ store[o] = "none" /\ o \notin settled \cup gone
      /\ \A q \in Processes : held[q][o] = "none" /\ writing[q][o] = "none" /\ ~Sends(q, o)
  BY <1>a DEF MadeFirst
<1>d. FirstWrite /\ Landed /\ settled \subseteq Operations
  OBVIOUS
<1>1. MadeFirst'
  BY DEF MadeFirst, Sends, WorkNames, Enqueue, Has
<1>2. FirstWrite'
  <2> HIDE DEF IInv, TypeOK
  <2> QED
    BY <1>a, <1>b, <1>c, <1>d DEF FirstWrite, Sends
<1>3. LastWrite'
  BY DEF LastWrite, Sends, Enqueue, Has
<1>4. UnderLease'
  BY DEF UnderLease, FirstWrite, LastWrite, WorkNames, Sends, Enqueue, Has
<1>5. OneSender'
  BY DEF OneSender, UnderLease, Sends, Enqueue, Has
<1>6. Landed'
  <2>1. \A q \in Processes, n \in Operations :
           (Sends(q, n)' <=> Sends(q, n)) /\ (Carries(q, n)' <=> Carries(q, n))
    BY <1>a DEF Sends, Carries
  <2> HIDE DEF IInv, TypeOK
  <2>2. ASSUME NEW n \in settled' \ (overran' \cup misfiled')
        PROVE  /\ store'[n] = "none"
               /\ \A q \in Processes : writing'[q][n] = "none" /\ (Sends(q, n)' => Carries(q, n)')
    <3>1. n \in settled \ (overran \cup misfiled)
      BY <1>a, <2>2
    <3>2. n \in Operations \ {o}
      BY <1>c, <1>d, <3>1
    <3>3. /\ store[n] = "none"
          /\ \A q \in Processes : writing[q][n] = "none" /\ (Sends(q, n) => Carries(q, n))
      BY <1>d, <3>1 DEF Landed
    <3> QED
      BY <1>a, <1>b, <2>1, <3>2, <3>3
  <2> QED
    BY <2>2 DEF Landed
<1>7. LeavingGone'
  BY DEF LeavingGone, Enqueue, Has
<1>8. NothingLost'
  BY DEF NothingLost, Carries, LeavingGone, WorkNames, Enqueue, Has
<1> QED
  BY <1>1, <1>2, <1>3, <1>4, <1>5, <1>6, <1>7, <1>8 DEF SInv

LEMMA OpposeStep ==
  ASSUME IInv, TypeOK', NEW p \in Processes, NEW o \in Operations, Oppose(p, o)
  PROVE  SInv'
<1> USE DEF IInv, TypeOK, States, Waiting, Idle
<1>1. MadeFirst'
  BY DEF MadeFirst, Sends, WorkNames, Oppose, TakesBack
<1>2. FirstWrite'
  BY DEF FirstWrite, MadeFirst, LastWrite, Sends, WorkNames, LeavingGone, Oppose, TakesBack
<1>3. LastWrite'
  BY DEF LastWrite, Sends, Oppose, TakesBack
<1>4. UnderLease'
  BY DEF UnderLease, FirstWrite, LastWrite, WorkNames, Sends, Oppose, TakesBack
<1>5. OneSender'
  BY DEF OneSender, UnderLease, Sends, Oppose, TakesBack
<1>6. Landed'
  BY DEF Landed, Carries, FirstWrite, LastWrite, OneSender, Sends, WorkNames, Oppose, TakesBack
<1>7. LeavingGone'
  BY DEF LeavingGone, Oppose, TakesBack
<1>8. NothingLost'
  BY DEF NothingLost, Carries, LeavingGone, WorkNames, Oppose, TakesBack
<1> QED
  BY <1>1, <1>2, <1>3, <1>4, <1>5, <1>6, <1>7, <1>8 DEF SInv

LEMMA RecallStep ==
  ASSUME IInv, TypeOK', NEW p \in Processes, NEW o \in Operations, Recall(p, o)
  PROVE  SInv'
<1> USE DEF IInv, TypeOK, States, Waiting, Idle
<1>1. MadeFirst'
  BY DEF MadeFirst, Sends, WorkNames, Recall, TakesBack, Told
<1>2. FirstWrite'
  BY DEF FirstWrite, MadeFirst, LastWrite, Sends, WorkNames, LeavingGone, Recall, TakesBack,
     Told
<1>3. LastWrite'
  BY DEF LastWrite, Sends, Recall, TakesBack, Told
<1>4. UnderLease'
  BY DEF UnderLease, FirstWrite, LastWrite, WorkNames, Sends, Recall, TakesBack, Told
<1>5. OneSender'
  BY DEF OneSender, UnderLease, Sends, Recall, TakesBack, Told
<1>6. Landed'
  BY DEF Landed, Carries, FirstWrite, LastWrite, OneSender, Sends, WorkNames, Recall,
     TakesBack, Told
<1>7. LeavingGone'
  BY DEF LeavingGone, Recall, TakesBack, Told
<1>8. NothingLost'
  BY DEF NothingLost, Carries, LeavingGone, WorkNames, Recall, TakesBack, Told
<1> QED
  BY <1>1, <1>2, <1>3, <1>4, <1>5, <1>6, <1>7, <1>8 DEF SInv

LEMMA DismissStep ==
  ASSUME IInv, TypeOK', NEW p \in Processes, NEW o \in Operations, Dismiss(p, o)
  PROVE  SInv'
<1> USE DEF IInv, TypeOK, States, Waiting, Idle
<1>1. MadeFirst'
  BY DEF MadeFirst, Sends, WorkNames, Dismiss, TakesBack
<1>2. FirstWrite'
  BY DEF FirstWrite, MadeFirst, LastWrite, Sends, WorkNames, LeavingGone, Dismiss, TakesBack
<1>3. LastWrite'
  BY DEF LastWrite, Sends, Dismiss, TakesBack
<1>4. UnderLease'
  BY DEF UnderLease, FirstWrite, LastWrite, WorkNames, Sends, Dismiss, TakesBack
<1>5. OneSender'
  BY DEF OneSender, UnderLease, Sends, Dismiss, TakesBack
<1>6. Landed'
  BY DEF Landed, Carries, FirstWrite, LastWrite, OneSender, Sends, WorkNames, Dismiss, TakesBack
<1>7. LeavingGone'
  BY DEF LeavingGone, Dismiss, TakesBack
<1>8. NothingLost'
  BY DEF NothingLost, Carries, LeavingGone, WorkNames, Dismiss, TakesBack
<1> QED
  BY <1>1, <1>2, <1>3, <1>4, <1>5, <1>6, <1>7, <1>8 DEF SInv

LEMMA RemoveStep ==
  ASSUME IInv, TypeOK', NEW p \in Processes, NEW o \in Operations, Remove(p, o)
  PROVE  SInv'
<1> USE DEF IInv, TypeOK, States, Waiting, Idle
<1>1. MadeFirst'
  BY DEF MadeFirst, Sends, WorkNames, Remove, Has, own, Stored
<1>2. FirstWrite'
  BY DEF FirstWrite, MadeFirst, LastWrite, Sends, WorkNames, LeavingGone, Remove, Has, own,
     Stored
<1>3. LastWrite'
  BY DEF LastWrite, Sends, Remove, Has, own, Stored
<1>4. UnderLease'
  BY DEF UnderLease, FirstWrite, LastWrite, WorkNames, Sends, Remove, Has, own, Stored
<1>5. OneSender'
  BY DEF OneSender, UnderLease, Sends, Remove, Has, own, Stored
<1>6. Landed'
  BY DEF Landed, Carries, FirstWrite, LastWrite, OneSender, Sends, WorkNames, Remove, Has,
     own, Stored
<1>7. LeavingGone'
  BY DEF LeavingGone, Remove, Has, own, Stored
<1>8. NothingLost'
  BY DEF NothingLost, Carries, LeavingGone, WorkNames, Remove, Has, own, Stored
<1> QED
  BY <1>1, <1>2, <1>3, <1>4, <1>5, <1>6, <1>7, <1>8 DEF SInv

LEMMA WriteLandsStep ==
  ASSUME IInv, TypeOK', NEW p \in Processes, NEW o \in Operations, WriteLands(p, o)
  PROVE  SInv'
<1> USE DEF IInv, TypeOK, States, Waiting, Idle
<1>a. /\ writing[p][o] # "none" /\ writing'[p][o] = "none" /\ store'[o] # "none"
      /\ \A q \in Processes, n \in Operations : q # p \/ n # o => writing'[q][n] = writing[q][n]
      /\ \A n \in Operations \ {o} : store'[n] = store[n]
      /\ accepted' = accepted \cup {o}
      /\ UNCHANGED <<held, leaving, made, settled, gone, overran, misfiled, cutShort>>
  BY DEF WriteLands
<1>b. /\ \A q \in Processes \ {p} : work'[q] = work[q]
      /\ \/ ~Awaits(p, o) /\ work'[p] = work[p] /\ owed' = owed
         \/ /\ Awaits(p, o) /\ work'[p] = Idle
            /\ owed' = IF Carries(p, work[p].op) THEN owed \ {work[p].op} ELSE owed
  BY DEF WriteLands
<1>c. Idle.phase = "idle"
  BY DEF Idle
<1>d. \A q \in Processes, n \in Operations :
         /\ Sends(q, n)' => Sends(q, n) /\ work'[q] = work[q]
         /\ Carries(q, n) /\ ~Carries(q, n)' =>
               q = p /\ Awaits(p, o) /\ Carries(p, work[p].op) /\ n = work[p].op
  BY <1>b, <1>c DEF Sends, Carries
<1>e. o \notin overran => \A q \in Processes : ~Sends(q, o)'
  <2>1. o \notin overran => \A q \in Processes : Sends(q, o) => q = p
    BY <1>a, WriterSends
  <2>2. ~Sends(p, o)'
    <3>1. CASE writing[p][o] = "pending"
      <4>1. ~Sends(p, o)
        BY <1>a, <3>1, WriterSends
      <4> QED
        BY <1>d, <4>1
    <3>2. CASE writing[p][o] # "pending"
      <4>1. Awaits(p, o)
        BY <1>a, <3>2, WriterSends DEF Awaits
      <4> QED
        BY <1>b, <1>c, <4>1 DEF Sends
    <3> QED
      BY <3>1, <3>2
  <2> QED
    BY <1>d, <2>1, <2>2
<1>1. MadeFirst'
  BY <1>a, <1>d DEF MadeFirst
<1>2. FirstWrite'
  <2>1. FirstWrite
    OBVIOUS
  <2>2. \A q \in Processes \ {p} : writing[q][o] = "pending" => FALSE
    BY <1>a DEF FirstWrite
  <2> HIDE DEF IInv, TypeOK
  <2> QED
    BY <1>a, <1>d, <2>1, <2>2 DEF FirstWrite
<1>3. LastWrite'
  <2>1. LastWrite
    OBVIOUS
  <2>2. Awaits(p, o) /\ work[p].phase = "recording" => work[p].op = o
    BY DEF Awaits
  <2>3. Awaits(p, o) => work[p].phase \in {"recording", "carrying"}
    BY DEF Awaits
  <2> HIDE DEF IInv, TypeOK
  <2> QED
    BY <1>a, <1>b, <2>1, <2>2, <2>3 DEF LastWrite
<1>4. UnderLease'
  <2>1. UnderLease
    OBVIOUS
  <2> HIDE DEF IInv, TypeOK
  <2> QED
    BY <1>a, <1>d, <1>e, <2>1 DEF UnderLease
<1>5. OneSender'
  <2>1. OneSender
    OBVIOUS
  <2> HIDE DEF IInv, TypeOK
  <2> QED
    BY <1>a, <1>d, <2>1 DEF OneSender
<1>6. Landed'
  <2>1. Landed /\ FirstWrite /\ settled \subseteq Operations
    OBVIOUS
  <2>2. o \in settled => o \in overran \cup misfiled
    BY <1>a, <2>1 DEF Landed
  <2>3. \A q \in Processes, n \in Operations : Sends(q, n)' /\ Carries(q, n) => Carries(q, n)'
    BY <1>d DEF Carries
  <2> HIDE DEF IInv, TypeOK
  <2>4. ASSUME NEW n \in settled' \ (overran' \cup misfiled')
        PROVE  /\ store'[n] = "none"
               /\ \A q \in Processes : writing'[q][n] = "none" /\ (Sends(q, n)' => Carries(q, n)')
    <3>1. n \in settled \ (overran \cup misfiled)
      BY <1>a, <2>4
    <3>2. n \in Operations \ {o}
      BY <2>1, <2>2, <3>1
    <3>3. /\ store[n] = "none"
          /\ \A q \in Processes : writing[q][n] = "none" /\ (Sends(q, n) => Carries(q, n))
      BY <2>1, <3>1 DEF Landed
    <3>4. store'[n] = "none" /\ \A q \in Processes : writing'[q][n] = "none"
      BY <1>a, <3>2, <3>3
    <3>5. \A q \in Processes : Sends(q, n)' => Carries(q, n)'
      BY <1>d, <2>3, <3>2, <3>3
    <3> QED
      BY <3>4, <3>5
  <2> QED
    BY <2>4 DEF Landed
<1>7. LeavingGone'
  BY <1>a DEF LeavingGone
<1>8. NothingLost'
  <2>1. NothingLost /\ owed \subseteq Operations /\ accepted \subseteq Operations
    OBVIOUS
  <2> HIDE DEF IInv, TypeOK
  <2>2. \A n \in owed' : n \in owed /\ \A q \in Processes : Carries(q, n) => Carries(q, n)'
    <3>1. ASSUME NEW n \in owed'
          PROVE  n \in owed /\ \A q \in Processes : Carries(q, n) => Carries(q, n)'
      <4>1. n \in owed /\ n \in Operations
        BY <1>b, <2>1, <3>1
      <4>2. Awaits(p, o) /\ Carries(p, work[p].op) => n # work[p].op
        BY <1>b, <3>1
      <4> QED
        BY <1>d, <4>1, <4>2
    <3> QED
      BY <3>1
  <2>3. \A n \in accepted' \ (settled' \cup gone') : store'[n] # "none"
    BY <1>a, <2>1 DEF NothingLost
  <2>4. \A n \in owed' \ cutShort' : \E q \in Processes : Carries(q, n)'
    BY <1>a, <2>1, <2>2 DEF NothingLost
  <2> QED
    BY <2>3, <2>4 DEF NothingLost
<1> QED
  BY <1>1, <1>2, <1>3, <1>4, <1>5, <1>6, <1>7, <1>8 DEF SInv

LEMMA WriteFailsStep ==
  ASSUME IInv, TypeOK', NEW p \in Processes, NEW o \in Operations, WriteFails(p, o)
  PROVE  SInv'
<1> USE DEF IInv, TypeOK, States, Waiting, Idle
<1>1. MadeFirst'
  BY DEF MadeFirst, Sends, WorkNames, WriteFails, Has, own
<1>2. FirstWrite'
  BY DEF FirstWrite, MadeFirst, LastWrite, Sends, WorkNames, LeavingGone, WriteFails, Has, own
<1>3. LastWrite'
  BY DEF LastWrite, Sends, WriteFails, Has, own
<1>4. UnderLease'
  BY DEF UnderLease, FirstWrite, LastWrite, WorkNames, Sends, WriteFails, Has, own
<1>5. OneSender'
  BY DEF OneSender, UnderLease, Sends, WriteFails, Has, own
<1>6. Landed'
  BY DEF Landed, Carries, FirstWrite, LastWrite, OneSender, Sends, WorkNames, WriteFails,
     Has, own
<1>7. LeavingGone'
  BY DEF LeavingGone, WriteFails, Has, own
<1>8. NothingLost'
  BY DEF NothingLost, Carries, LeavingGone, WorkNames, WriteFails, Has, own
<1> QED
  BY <1>1, <1>2, <1>3, <1>4, <1>5, <1>6, <1>7, <1>8 DEF SInv

LEMMA LeaseLapsesStep ==
  ASSUME IInv, TypeOK', NEW o \in Operations, LeaseLapses(o)
  PROVE  SInv'
<1> USE DEF IInv, TypeOK, States, Waiting, Idle
<1>1. MadeFirst'
  BY DEF MadeFirst, Sends, WorkNames, LeaseLapses, own, Fault
<1>2. FirstWrite'
  BY DEF FirstWrite, MadeFirst, LastWrite, Sends, WorkNames, LeavingGone, LeaseLapses, own,
     Fault
<1>3. LastWrite'
  BY DEF LastWrite, Sends, LeaseLapses, own, Fault
<1>4. UnderLease'
  BY DEF UnderLease, FirstWrite, LastWrite, WorkNames, Sends, LeaseLapses, own, Fault
<1>5. OneSender'
  BY DEF OneSender, UnderLease, Sends, LeaseLapses, own, Fault
<1>6. Landed'
  BY DEF Landed, Carries, FirstWrite, LastWrite, OneSender, Sends, WorkNames, LeaseLapses,
     own, Fault
<1>7. LeavingGone'
  BY DEF LeavingGone, LeaseLapses, own, Fault
<1>8. NothingLost'
  BY DEF NothingLost, Carries, LeavingGone, WorkNames, LeaseLapses, own, Fault
<1> QED
  BY <1>1, <1>2, <1>3, <1>4, <1>5, <1>6, <1>7, <1>8 DEF SInv

LEMMA StartDrainStep ==
  ASSUME IInv, TypeOK', NEW p \in Processes, StartDrain(p)
  PROVE  SInv'
<1> USE DEF IInv, TypeOK, States, Waiting, Idle
<1>0. UNCHANGED <<store, held, work, writing, leaving, made, settled, gone, overran, misfiled>>
  BY DEF StartDrain
<1>1. MadeFirst'
  BY DEF MadeFirst, Sends, WorkNames, StartDrain
<1>2. FirstWrite'
  BY <1>0 DEF FirstWrite, Sends
<1>3. LastWrite'
  BY DEF LastWrite, Sends, StartDrain
<1>4. UnderLease'
  BY DEF UnderLease, FirstWrite, LastWrite, WorkNames, Sends, StartDrain
<1>5. OneSender'
  BY DEF OneSender, UnderLease, Sends, StartDrain
<1>6. Landed'
  BY <1>0 DEF Landed, Carries, Sends
<1>7. LeavingGone'
  BY DEF LeavingGone, StartDrain
<1>8. NothingLost'
  BY DEF NothingLost, Carries, LeavingGone, WorkNames, StartDrain
<1> QED
  BY <1>1, <1>2, <1>3, <1>4, <1>5, <1>6, <1>7, <1>8 DEF SInv

LEMMA ReconcileStep ==
  ASSUME IInv, TypeOK', NEW p \in Processes, Reconcile(p)
  PROVE  SInv'
<1> USE DEF IInv, TypeOK, States, Waiting, Idle
<1>1. MadeFirst'
  BY DEF MadeFirst, Sends, WorkNames, Reconcile
<1>2. FirstWrite'
  BY DEF FirstWrite, MadeFirst, LastWrite, Sends, WorkNames, LeavingGone, Reconcile
<1>3. LastWrite'
  BY DEF LastWrite, Sends, Reconcile
<1>4. UnderLease'
  BY DEF UnderLease, FirstWrite, LastWrite, WorkNames, Sends, Reconcile
<1>5. OneSender'
  BY DEF OneSender, UnderLease, Sends, Reconcile
<1>6. Landed'
  BY DEF Landed, Carries, FirstWrite, LastWrite, OneSender, Sends, WorkNames, Reconcile
<1>7. LeavingGone'
  BY DEF LeavingGone, Reconcile
<1>8. NothingLost'
  BY DEF NothingLost, Carries, LeavingGone, WorkNames, Reconcile
<1> QED
  BY <1>1, <1>2, <1>3, <1>4, <1>5, <1>6, <1>7, <1>8 DEF SInv

LEMMA RescanStep ==
  ASSUME IInv, TypeOK', NEW p \in Processes, Rescan(p)
  PROVE  SInv'
<1> USE DEF IInv, TypeOK, States, Waiting, Idle
<1>0. UNCHANGED <<store, held, work, writing, leaving, made, settled, gone, overran, misfiled>>
  BY DEF Rescan
<1>1. MadeFirst'
  BY DEF MadeFirst, Sends, WorkNames, Rescan
<1>2. FirstWrite'
  BY <1>0 DEF FirstWrite, Sends
<1>3. LastWrite'
  BY DEF LastWrite, Sends, Rescan
<1>4. UnderLease'
  BY DEF UnderLease, FirstWrite, LastWrite, WorkNames, Sends, Rescan
<1>5. OneSender'
  BY DEF OneSender, UnderLease, Sends, Rescan
<1>6. Landed'
  BY <1>0 DEF Landed, Carries, Sends
<1>7. LeavingGone'
  BY DEF LeavingGone, Rescan
<1>8. NothingLost'
  BY DEF NothingLost, Carries, LeavingGone, WorkNames, Rescan
<1> QED
  BY <1>1, <1>2, <1>3, <1>4, <1>5, <1>6, <1>7, <1>8 DEF SInv

LEMMA ReadFailsStep ==
  ASSUME IInv, TypeOK', NEW p \in Processes, ReadFails(p)
  PROVE  SInv'
<1> USE DEF IInv, TypeOK, States, Waiting, Idle
<1>0. UNCHANGED <<store, held, work, writing, leaving, made, settled, gone, overran, misfiled>>
  BY DEF ReadFails
<1>1. MadeFirst'
  BY DEF MadeFirst, Sends, WorkNames, ReadFails
<1>2. FirstWrite'
  BY <1>0 DEF FirstWrite, Sends
<1>3. LastWrite'
  BY DEF LastWrite, Sends, ReadFails
<1>4. UnderLease'
  BY DEF UnderLease, FirstWrite, LastWrite, WorkNames, Sends, ReadFails
<1>5. OneSender'
  BY DEF OneSender, UnderLease, Sends, ReadFails
<1>6. Landed'
  BY <1>0 DEF Landed, Carries, Sends
<1>7. LeavingGone'
  BY DEF LeavingGone, ReadFails
<1>8. NothingLost'
  BY DEF NothingLost, Carries, LeavingGone, WorkNames, ReadFails
<1> QED
  BY <1>1, <1>2, <1>3, <1>4, <1>5, <1>6, <1>7, <1>8 DEF SInv

LEMMA EndDrainStep ==
  ASSUME IInv, TypeOK', NEW p \in Processes, EndDrain(p)
  PROVE  SInv'
<1> USE DEF IInv, TypeOK, States, Waiting, Idle
<1>1. MadeFirst'
  BY DEF MadeFirst, Sends, WorkNames, EndDrain, Moves
<1>2. FirstWrite'
  BY DEF FirstWrite, MadeFirst, LastWrite, Sends, WorkNames, LeavingGone, EndDrain, Moves
<1>3. LastWrite'
  BY DEF LastWrite, Sends, EndDrain, Moves
<1>4. UnderLease'
  BY DEF UnderLease, FirstWrite, LastWrite, WorkNames, Sends, EndDrain, Moves
<1>5. OneSender'
  BY DEF OneSender, UnderLease, Sends, EndDrain, Moves
<1>6. Landed'
  BY DEF Landed, Carries, FirstWrite, LastWrite, OneSender, Sends, WorkNames, EndDrain, Moves
<1>7. LeavingGone'
  BY DEF LeavingGone, EndDrain, Moves
<1>8. NothingLost'
  BY DEF NothingLost, Carries, LeavingGone, WorkNames, EndDrain, Moves
<1> QED
  BY <1>1, <1>2, <1>3, <1>4, <1>5, <1>6, <1>7, <1>8 DEF SInv

LEMMA TakeStep ==
  ASSUME IInv, TypeOK', NEW p \in Processes, Take(p)
  PROVE  SInv'
<1> USE DEF IInv, TypeOK, States, Waiting, Idle
<1>0. /\ work[p].phase = "idle" /\ work'[p].phase \in {"idle", "begun"}
      /\ \A q \in Processes \ {p} : work'[q] = work[q]
      /\ UNCHANGED <<store, writing, accepted, settled, gone, owed, cutShort, overran>>
  BY DEF Take, Doing
<1>1. MadeFirst'
  BY DEF MadeFirst, Sends, WorkNames, Take, Doing
<1>2. FirstWrite'
  BY DEF FirstWrite, MadeFirst, LastWrite, Sends, WorkNames, LeavingGone, Take, Doing
<1>3. LastWrite'
  <2>1. LastWrite
    OBVIOUS
  <2> HIDE DEF IInv, TypeOK
  <2> QED
    BY <1>0, <2>1 DEF LastWrite
<1>4. UnderLease'
  BY DEF UnderLease, FirstWrite, LastWrite, WorkNames, Sends, Take, Doing
<1>5. OneSender'
  <2>1. OneSender
    OBVIOUS
  <2> HIDE DEF IInv, TypeOK
  <2> QED
    BY <1>0, <2>1 DEF OneSender, Sends
<1>6. Landed'
  BY DEF Landed, Carries, FirstWrite, LastWrite, OneSender, Sends, WorkNames, Take, Doing
<1>7. LeavingGone'
  BY DEF LeavingGone, Take, Doing
<1>8. NothingLost'
  <2>1. NothingLost
    OBVIOUS
  <2> HIDE DEF IInv, TypeOK
  <2> QED
    BY <1>0, <2>1 DEF NothingLost, Carries
<1> QED
  BY <1>1, <1>2, <1>3, <1>4, <1>5, <1>6, <1>7, <1>8 DEF SInv

LEMMA LeaseStep ==
  ASSUME IInv, TypeOK', NEW p \in Processes, Lease(p)
  PROVE  SInv'
<1> USE DEF IInv, TypeOK, States, Waiting, Idle
<1>0. /\ work[p].op \in Operations /\ work'[p].op = work[p].op
      /\ store[work[p].op] \in {"pending", "unreachable", "lapsed"}
      /\ \A q \in Processes \ {p} : work'[q] = work[q]
      /\ UNCHANGED overran
  BY DEF WorkNames, Lease, Doing, Leasable, Attemptable
<1>1. MadeFirst'
  BY DEF MadeFirst, Sends, WorkNames, Lease, Has, Doing, Leasable, Attemptable, Stored
<1>2. FirstWrite'
  BY DEF FirstWrite, MadeFirst, LastWrite, Sends, WorkNames, LeavingGone, Lease, Has, Doing,
     Leasable, Attemptable, Stored
<1>3. LastWrite'
  BY DEF LastWrite, Sends, Lease, Has, Doing, Leasable, Attemptable, Stored
<1>4. UnderLease'
  BY DEF UnderLease, FirstWrite, LastWrite, WorkNames, Sends, Lease, Has, Doing, Leasable,
     Attemptable, Stored
<1>5. OneSender'
  <2>1. work[p].op \notin overran => \A q \in Processes : ~Sends(q, work[p].op)
    BY <1>0 DEF UnderLease
  <2>2. OneSender
    OBVIOUS
  <2> HIDE DEF IInv, TypeOK
  <2> QED
    BY <1>0, <2>1, <2>2 DEF OneSender, Sends
<1>6. Landed'
  BY DEF Landed, Carries, FirstWrite, LastWrite, OneSender, Sends, WorkNames, Lease, Has,
     Doing, Leasable, Attemptable, Stored
<1>7. LeavingGone'
  BY DEF LeavingGone, Lease, Has, Doing, Leasable, Attemptable, Stored
<1>8. NothingLost'
  BY DEF NothingLost, Carries, LeavingGone, WorkNames, Lease, Has, Doing, Leasable,
     Attemptable, Stored
<1> QED
  BY <1>1, <1>2, <1>3, <1>4, <1>5, <1>6, <1>7, <1>8 DEF SInv

LEMMA LoseLeaseStep ==
  ASSUME IInv, TypeOK', NEW p \in Processes, LoseLease(p)
  PROVE  SInv'
<1> USE DEF IInv, TypeOK, States, Waiting, Idle
<1>1. MadeFirst'
  BY DEF MadeFirst, Sends, WorkNames, LoseLease, Has, Finished, Stored
<1>2. FirstWrite'
  BY DEF FirstWrite, MadeFirst, LastWrite, Sends, WorkNames, LeavingGone, LoseLease, Has,
     Finished, Stored
<1>3. LastWrite'
  BY DEF LastWrite, Sends, LoseLease, Has, Finished, Stored
<1>4. UnderLease'
  BY DEF UnderLease, FirstWrite, LastWrite, WorkNames, Sends, LoseLease, Has, Finished, Stored
<1>5. OneSender'
  BY DEF OneSender, UnderLease, Sends, LoseLease, Has, Finished, Stored
<1>6. Landed'
  BY DEF Landed, Carries, FirstWrite, LastWrite, OneSender, Sends, WorkNames, LoseLease,
     Has, Finished, Stored
<1>7. LeavingGone'
  BY DEF LeavingGone, LoseLease, Has, Finished, Stored
<1>8. NothingLost'
  BY DEF NothingLost, Carries, LeavingGone, WorkNames, LoseLease, Has, Finished, Stored
<1> QED
  BY <1>1, <1>2, <1>3, <1>4, <1>5, <1>6, <1>7, <1>8 DEF SInv

LEMMA LeaseFailsStep ==
  ASSUME IInv, TypeOK', NEW p \in Processes, LeaseFails(p)
  PROVE  SInv'
<1> USE DEF IInv, TypeOK, States, Waiting, Idle
<1>1. MadeFirst'
  BY DEF MadeFirst, Sends, WorkNames, LeaseFails, Breaks, Finished, Stored
<1>2. FirstWrite'
  BY DEF FirstWrite, MadeFirst, LastWrite, Sends, WorkNames, LeavingGone, LeaseFails,
     Breaks, Finished, Stored
<1>3. LastWrite'
  BY DEF LastWrite, Sends, LeaseFails, Breaks, Finished, Stored
<1>4. UnderLease'
  BY DEF UnderLease, FirstWrite, LastWrite, WorkNames, Sends, LeaseFails, Breaks, Finished,
     Stored
<1>5. OneSender'
  BY DEF OneSender, UnderLease, Sends, LeaseFails, Breaks, Finished, Stored
<1>6. Landed'
  BY DEF Landed, Carries, FirstWrite, LastWrite, OneSender, Sends, WorkNames, LeaseFails,
     Breaks, Finished, Stored
<1>7. LeavingGone'
  BY DEF LeavingGone, LeaseFails, Breaks, Finished, Stored
<1>8. NothingLost'
  BY DEF NothingLost, Carries, LeavingGone, WorkNames, LeaseFails, Breaks, Finished, Stored
<1> QED
  BY <1>1, <1>2, <1>3, <1>4, <1>5, <1>6, <1>7, <1>8 DEF SInv

LEMMA RecordFailsStep ==
  ASSUME IInv, TypeOK', NEW p \in Processes, RecordFails(p)
  PROVE  SInv'
<1> USE DEF IInv, TypeOK, States, Waiting, Idle
<1>1. MadeFirst'
  BY DEF MadeFirst, Sends, WorkNames, RecordFails, Breaks, Finished
<1>2. FirstWrite'
  BY DEF FirstWrite, MadeFirst, LastWrite, Sends, WorkNames, LeavingGone, RecordFails,
     Breaks, Finished
<1>3. LastWrite'
  BY DEF LastWrite, Sends, RecordFails, Breaks, Finished
<1>4. UnderLease'
  BY DEF UnderLease, FirstWrite, LastWrite, WorkNames, Sends, RecordFails, Breaks, Finished
<1>5. OneSender'
  BY DEF OneSender, UnderLease, Sends, RecordFails, Breaks, Finished
<1>6. Landed'
  BY DEF Landed, Carries, FirstWrite, LastWrite, OneSender, Sends, WorkNames, RecordFails,
     Breaks, Finished
<1>7. LeavingGone'
  BY DEF LeavingGone, RecordFails, Breaks, Finished
<1>8. NothingLost'
  BY DEF NothingLost, Carries, LeavingGone, WorkNames, RecordFails, Breaks, Finished
<1> QED
  BY <1>1, <1>2, <1>3, <1>4, <1>5, <1>6, <1>7, <1>8 DEF SInv

\* What an answer that lands an operation finds.
LEMMA LandsFinds ==
  ASSUME IInv, NEW p \in Processes, Lands(p)
  PROVE  /\ work[p].op \in Operations /\ Sends(p, work[p].op)
         /\ work[p].op \in made
         /\ \A q \in Processes : writing[q][work[p].op] # "pending"
         /\ \A q \in Processes, n \in Operations :
               writing[q][n] \in {"unreachable", "refused"} => q # p
         /\ work[p].op \notin overran =>
               \A q \in Processes : /\ writing[q][work[p].op] = "none"
                                    /\ Sends(q, work[p].op) => q = p
<1>1. work[p].op \in Operations /\ Sends(p, work[p].op) /\ work[p].phase = "asked"
  BY DEF IInv, WorkNames, Lands, Sends
<1>2. work[p].op \in made
  BY <1>1 DEF IInv, MadeFirst
<1>3. \A q \in Processes : writing[q][work[p].op] # "pending"
  BY <1>1 DEF IInv, FirstWrite
<1>4. \A q \in Processes, n \in Operations : writing[q][n] \in {"unreachable", "refused"} => q # p
  BY <1>1 DEF IInv, LastWrite
<1>5. ASSUME work[p].op \notin overran, NEW q \in Processes
      PROVE  writing[q][work[p].op] = "none" /\ (Sends(q, work[p].op) => q = p)
  <2>1. Sends(q, work[p].op) => q = p
    BY <1>1, <1>5 DEF IInv, OneSender
  <2>2. writing[q][work[p].op] # "none" => q = p
    <3>1. ASSUME writing[q][work[p].op] # "none" PROVE Sends(p, work[p].op) => p = q
      BY <1>1, <1>5, <3>1, WriterSends
    <3> QED
      BY <1>1, <3>1
  <2>3. PICK o \in Operations : o = work[p].op
    BY <1>1
  <2>4. writing[q][o] \in {"none", "pending", "unreachable", "refused"}
    BY <2>3 DEF IInv, TypeOK
  <2> QED
    BY <1>3, <1>4, <2>1, <2>2, <2>3, <2>4
<1> QED
  BY <1>1, <1>2, <1>3, <1>4, <1>5

LEMMA SettleStep ==
  ASSUME IInv, TypeOK', NEW p \in Processes, Settle(p)
  PROVE  SInv'
<1> DEFINE o == work[p].op
<1>0. /\ o \in Operations /\ o \in made /\ Sends(p, o)
      /\ \A q \in Processes : writing[q][o] # "pending"
      /\ o \notin overran => \A q \in Processes : writing[q][o] = "none" /\ (Sends(q, o) => q = p)
  BY LandsFinds DEF Settle
<1>a. /\ work'[p].phase = "idle"
      /\ \A q \in Processes \ {p} : work'[q] = work[q]
  BY DEF Settle, Finished, Idle, IInv, TypeOK
<1>b. /\ store'[o] = "none"
      /\ \A n \in Operations \ {o} : store'[n] = store[n]
      /\ settled' = settled \cup {o}
      /\ UNCHANGED <<writing, leaving, made, accepted, gone, overran, misfiled, owed, cutShort>>
  BY <1>0 DEF Settle, Lands, IInv, TypeOK
<1>c. \A q \in Processes, n \in Operations : held'[q][n] # held[q][n] => held'[q][n] = "none"
  BY <1>0 DEF Settle, Has, IInv, TypeOK
<1>d. /\ work[p].phase = "asked"
      /\ \A q \in Processes, n \in Operations :
            writing[q][n] \in {"unreachable", "refused"} => q # p
  BY LandsFinds DEF Settle, Lands
<1>e. \A q \in Processes, n \in Operations :
         /\ Sends(q, n)' => Sends(q, n) /\ q # p
         /\ Carries(q, n)' <=> Carries(q, n)
  BY <1>a, <1>d DEF Sends, Carries
<1>f. /\ MadeFirst /\ FirstWrite /\ LastWrite /\ UnderLease /\ OneSender /\ Landed /\ LeavingGone
      /\ NothingLost
      /\ settled \subseteq Operations /\ owed \subseteq Operations /\ accepted \subseteq Operations
  BY DEF IInv, TypeOK
<1> HIDE DEF o
<1>1. MadeFirst'
  BY <1>0, <1>b, <1>c, <1>e, <1>f DEF MadeFirst
<1>2. FirstWrite'
  BY <1>0, <1>b, <1>c, <1>e, <1>f DEF FirstWrite
<1>3. LastWrite'
  BY <1>a, <1>b, <1>d, <1>f DEF LastWrite
<1>4. UnderLease'
  BY <1>b, <1>e, <1>f DEF UnderLease
<1>5. OneSender'
  BY <1>b, <1>e, <1>f DEF OneSender
<1>6. Landed'
  BY <1>0, <1>b, <1>e, <1>f DEF Landed
<1>7. LeavingGone'
  BY <1>b, <1>f DEF LeavingGone
<1>8. NothingLost'
  BY <1>b, <1>e, <1>f DEF NothingLost
<1> QED
  BY <1>1, <1>2, <1>3, <1>4, <1>5, <1>6, <1>7, <1>8 DEF SInv

LEMMA SettleCarryingStep ==
  ASSUME IInv, TypeOK', NEW p \in Processes, NEW n \in Operations, SettleCarrying(p, n)
  PROVE  SInv'
<1>x. work[p].op \in Operations
  BY LandsFinds DEF SettleCarrying
<1>y. PICK o \in Operations : o = work[p].op
  BY <1>x
<1>0. /\ o \in Operations /\ o \in made /\ Sends(p, o)
      /\ \A q \in Processes : writing[q][o] # "pending"
      /\ o \notin overran => \A q \in Processes : writing[q][o] = "none" /\ (Sends(q, o) => q = p)
  BY <1>y, LandsFinds DEF SettleCarrying
<1>a. /\ work'[p] = [op |-> o, phase |-> "carrying", next |-> n]
      /\ \A q \in Processes \ {p} : work'[q] = work[q]
  BY <1>y DEF SettleCarrying, IInv, TypeOK
<1>b. /\ store'[o] = "none"
      /\ \A m \in Operations \ {o} : store'[m] = store[m]
      /\ settled' = settled \cup {o} /\ made' = made \cup {n} /\ owed' = owed \cup {o}
      /\ n \notin made
      /\ UNCHANGED <<leaving, accepted, gone, overran, misfiled, cutShort>>
  BY <1>0, <1>y DEF SettleCarrying, Lands, Fresh, IInv, TypeOK
<1>c. /\ \A q \in Processes, m \in Operations :
            /\ q # p \/ m # n => writing'[q][m] = writing[q][m]
            /\ q # p \/ m \notin {n, o} => held'[q][m] = held[q][m]
      /\ writing'[p][n] = "pending"
  BY <1>0, <1>y DEF SettleCarrying, IInv, TypeOK
<1>d. /\ work[p].phase = "asked"
      /\ \A q \in Processes, m \in Operations :
            writing[q][m] \in {"unreachable", "refused"} => q # p
  BY LandsFinds DEF SettleCarrying, Lands
<1>e. /\ \A q \in Processes, m \in Operations :
            /\ Sends(q, m)' <=> Sends(q, m)
            /\ Carries(q, m) => Carries(q, m)'
      /\ Carries(p, o)'
  BY <1>0, <1>a, <1>d DEF Sends, Carries
<1>f. /\ MadeFirst /\ FirstWrite /\ LastWrite /\ UnderLease /\ OneSender /\ Landed /\ LeavingGone
      /\ NothingLost
      /\ settled \subseteq Operations /\ owed \subseteq Operations /\ accepted \subseteq Operations
      /\ gone \subseteq Operations
  BY DEF IInv, TypeOK
<1>g. /\ n # o /\ store[n] = "none" /\ n \notin settled \cup gone
      /\ \A q \in Processes : held[q][n] = "none" /\ writing[q][n] = "none" /\ ~Sends(q, n)
  BY <1>0, <1>b, <1>f DEF MadeFirst
<1>1. MadeFirst'
  <2>1. ASSUME NEW m \in Operations \ made'
        PROVE  /\ store'[m] = "none" /\ m \notin settled' \cup gone'
               /\ \A q \in Processes : held'[q][m] = "none" /\ writing'[q][m] = "none"
                                    /\ ~Sends(q, m)'
    <3>1. m \notin made /\ m # n /\ m # o
      BY <1>0, <1>b
    <3>2. /\ store[m] = "none" /\ m \notin settled \cup gone
          /\ \A q \in Processes : held[q][m] = "none" /\ writing[q][m] = "none" /\ ~Sends(q, m)
      BY <1>f, <3>1 DEF MadeFirst
    <3>3. \A q \in Processes : held'[q][m] = "none" /\ writing'[q][m] = "none"
      BY <1>c, <3>1, <3>2
    <3>4. \A q \in Processes : ~Sends(q, m)'
      BY <1>e, <3>2
    <3> QED
      BY <1>b, <3>1, <3>2, <3>3, <3>4
  <2> QED
    BY <2>1 DEF MadeFirst
<1>2. FirstWrite'
  <2>1. ASSUME NEW q \in Processes, NEW m \in Operations, writing'[q][m] = "pending", m # n
        PROVE  /\ writing[q][m] = "pending" /\ m # o
               /\ store'[m] = "none" /\ m \notin settled'
               /\ m \in gone' => m \in leaving'[q]
               /\ \A r \in Processes : ~Sends(r, m)'
               /\ \A r \in Processes \ {q} : held'[r][m] = "none" /\ writing'[r][m] = "none"
    <3>1. writing[q][m] = "pending" /\ m # o
      BY <1>0, <1>c, <2>1
    <3> QED
      BY <1>b, <1>c, <1>e, <1>f, <2>1, <3>1 DEF FirstWrite
  <2>2. ASSUME NEW q \in Processes, writing'[q][n] = "pending"
        PROVE  /\ q = p /\ store'[n] = "none" /\ n \notin settled' /\ n \notin gone'
               /\ \A r \in Processes : ~Sends(r, n)'
               /\ \A r \in Processes \ {q} : held'[r][n] = "none" /\ writing'[r][n] = "none"
    <3>1. q = p
      BY <1>c, <1>g, <2>2
    <3>2. \A r \in Processes : ~Sends(r, n)'
      BY <1>e, <1>g
    <3>3. \A r \in Processes \ {p} : held'[r][n] = "none" /\ writing'[r][n] = "none"
      BY <1>c, <1>g
    <3>4. store'[n] = "none" /\ n \notin settled' \cup gone'
      BY <1>b, <1>g
    <3> QED
      BY <3>1, <3>2, <3>3, <3>4
  <2>3. \A q \in Processes, m \in Operations :
           writing'[q][m] = "pending" =>
              /\ store'[m] = "none" /\ m \notin settled'
              /\ m \in gone' => m \in leaving'[q]
              /\ \A r \in Processes : ~Sends(r, m)'
              /\ \A r \in Processes \ {q} : held'[r][m] = "none" /\ writing'[r][m] = "none"
    <3> SUFFICES ASSUME NEW q \in Processes, NEW m \in Operations, writing'[q][m] = "pending"
                 PROVE  /\ store'[m] = "none" /\ m \notin settled'
                        /\ m \in gone' => m \in leaving'[q]
                        /\ \A r \in Processes : ~Sends(r, m)'
                        /\ \A r \in Processes \ {q} :
                              held'[r][m] = "none" /\ writing'[r][m] = "none"
      OBVIOUS
    <3>1. CASE m = n
      <4>1. /\ store'[n] = "none" /\ n \notin settled' /\ n \notin gone'
            /\ \A r \in Processes : ~Sends(r, n)'
            /\ \A r \in Processes \ {q} : held'[r][n] = "none" /\ writing'[r][n] = "none"
        BY <2>2, <3>1
      <4> QED
        BY <3>1, <4>1
    <3>2. CASE m # n
      BY <2>1, <3>2
    <3> QED
      BY <3>1, <3>2
  <2> QED
    BY <2>3 DEF FirstWrite
<1>3. LastWrite'
  <2>1. ASSUME NEW q \in Processes, NEW m \in Operations,
               writing'[q][m] \in {"unreachable", "refused"}
        PROVE  work'[q].op = m /\ work'[q].phase = "recording"
    <3>1. q # p
      BY <1>c, <1>d, <2>1
    <3>2. writing[q][m] \in {"unreachable", "refused"} /\ work'[q] = work[q]
      BY <1>a, <1>c, <2>1, <3>1
    <3> QED
      BY <1>f, <3>2 DEF LastWrite
  <2> QED
    BY <2>1 DEF LastWrite
<1>4. UnderLease'
  BY <1>b, <1>e, <1>f DEF UnderLease
<1>5. OneSender'
  BY <1>b, <1>e, <1>f DEF OneSender
<1>6. Landed'
  <2>1. ASSUME NEW m \in settled' \ (overran' \cup misfiled')
        PROVE  /\ store'[m] = "none"
               /\ \A q \in Processes : writing'[q][m] = "none" /\ (Sends(q, m)' => Carries(q, m)')
    <3>1. CASE m = o
      <4>1. \A q \in Processes : writing'[q][o] = "none"
        BY <1>0, <1>b, <1>c, <1>g, <2>1, <3>1
      <4>2. ASSUME NEW q \in Processes
            PROVE  writing'[q][o] = "none" /\ (Sends(q, o)' => Carries(q, o)')
        <5>1. o \notin overran /\ (Sends(q, o)' <=> Sends(q, o))
          <6>1. o \notin overran
            BY <1>b, <2>1, <3>1
          <6> QED
            BY <1>e, <6>1
        <5>2. Sends(q, o)' => q = p
          BY <1>0, <5>1
        <5>3. Sends(q, o)' => Carries(q, o)'
          BY <1>e, <5>2
        <5> QED
          BY <4>1, <5>3
      <4> QED
        BY <1>b, <3>1, <4>2
    <3>2. CASE m # o
      <4>1. m \in settled \ (overran \cup misfiled) /\ m \in Operations /\ m # n
        BY <1>b, <1>f, <1>g, <2>1, <3>2
      <4>2. /\ store[m] = "none"
            /\ \A q \in Processes : writing[q][m] = "none" /\ (Sends(q, m) => Carries(q, m))
        BY <1>f, <4>1 DEF Landed
      <4>3. \A q \in Processes : writing'[q][m] = "none"
        BY <1>c, <4>1, <4>2
      <4>4. \A q \in Processes : Sends(q, m)' => Carries(q, m)'
        BY <1>e, <4>1, <4>2
      <4> QED
        BY <1>b, <3>2, <4>1, <4>2, <4>3, <4>4
    <3> QED
      BY <3>1, <3>2
  <2> QED
    BY <2>1 DEF Landed
<1>7. LeavingGone'
  BY <1>b, <1>f DEF LeavingGone
<1>8. NothingLost'
  <2>1. \A m \in accepted' \ (settled' \cup gone') : store'[m] # "none"
    BY <1>b, <1>f DEF NothingLost
  <2>2. ASSUME NEW m \in owed' \ cutShort' PROVE \E q \in Processes : Carries(q, m)'
    <3>1. CASE m = o
      <4>1. Carries(p, m)'
        BY <1>e, <3>1
      <4> QED
        BY <4>1
    <3>2. CASE m # o
      <4>1. m \in owed \ cutShort /\ m \in Operations
        BY <1>b, <1>f, <2>2, <3>2
      <4>2. PICK q \in Processes : Carries(q, m)
        BY <1>f, <4>1 DEF NothingLost
      <4>3. Carries(q, m)'
        BY <1>e, <4>1, <4>2
      <4> QED
        BY <4>3
    <3> QED
      BY <3>1, <3>2
  <2> QED
    BY <2>1, <2>2 DEF NothingLost
<1> QED
  BY <1>1, <1>2, <1>3, <1>4, <1>5, <1>6, <1>7, <1>8 DEF SInv

LEMMA SettleFailsStep ==
  ASSUME IInv, TypeOK', NEW p \in Processes, SettleFails(p)
  PROVE  SInv'
<1> DEFINE o == work[p].op
<1>0. /\ o \in Operations /\ o \in made /\ Sends(p, o)
      /\ \A q \in Processes : writing[q][o] # "pending"
  BY LandsFinds DEF SettleFails
<1>a. /\ work'[p] = [op |-> o, phase |-> "recording", next |-> Nothing]
      /\ \A q \in Processes \ {p} : work'[q] = work[q]
  BY DEF SettleFails, Doing, IInv, TypeOK
<1>b. /\ store'[o] \in {store[o], "none"}
      /\ \A n \in Operations \ {o} : store'[n] = store[n]
      /\ settled' = settled \cup {o} /\ misfiled' = misfiled \cup {o}
      /\ UNCHANGED <<made, leaving, accepted, gone, overran, owed, cutShort>>
  BY <1>0 DEF SettleFails, Lands, IInv, TypeOK
<1>c. /\ \A q \in Processes, n \in Operations :
            q # p \/ n # o => writing'[q][n] = writing[q][n] /\ held'[q][n] = held[q][n]
      /\ writing'[p][o] = "refused"
  BY <1>0 DEF SettleFails, Has, IInv, TypeOK
<1>d. /\ work[p].phase = "asked"
      /\ \A q \in Processes, n \in Operations :
            writing[q][n] \in {"unreachable", "refused"} => q # p
  BY LandsFinds DEF SettleFails, Lands
<1>e. \A q \in Processes, n \in Operations :
         /\ Sends(q, n)' <=> Sends(q, n)
         /\ Carries(q, n) <=> Carries(q, n)'
  BY <1>0, <1>a, <1>d DEF Sends, Carries
<1>f. /\ MadeFirst /\ FirstWrite /\ LastWrite /\ UnderLease /\ OneSender /\ Landed /\ LeavingGone
      /\ NothingLost
      /\ settled \subseteq Operations /\ owed \subseteq Operations /\ accepted \subseteq Operations
  BY DEF IInv, TypeOK
<1> HIDE DEF o
<1>1. MadeFirst'
  BY <1>0, <1>b, <1>c, <1>e, <1>f DEF MadeFirst
<1>2. FirstWrite'
  BY <1>0, <1>b, <1>c, <1>e, <1>f DEF FirstWrite
<1>3. LastWrite'
  BY <1>a, <1>c, <1>d, <1>f DEF LastWrite
<1>4. UnderLease'
  BY <1>b, <1>e, <1>f DEF UnderLease
<1>5. OneSender'
  BY <1>b, <1>e, <1>f DEF OneSender
<1>6. Landed'
  BY <1>b, <1>c, <1>e, <1>f DEF Landed
<1>7. LeavingGone'
  BY <1>b, <1>f DEF LeavingGone
<1>8. NothingLost'
  BY <1>b, <1>e, <1>f DEF NothingLost
<1> QED
  BY <1>1, <1>2, <1>3, <1>4, <1>5, <1>6, <1>7, <1>8 DEF SInv

LEMMA CarryFailsStep ==
  ASSUME IInv, TypeOK', NEW p \in Processes, CarryFails(p)
  PROVE  SInv'
<1> DEFINE o == work[p].op
           n == work[p].next
<1>0. /\ o \in Operations /\ n \in Operations /\ Sends(p, o) /\ o \in made
      /\ work[p].phase = "carrying"
      /\ \A q \in Processes : writing[q][o] # "pending"
  <2>1. o \in Operations /\ n \in Operations /\ Sends(p, o) /\ work[p].phase = "carrying"
    BY DEF CarryFails, IInv, WorkNames, Sends
  <2> QED
    BY <2>1 DEF IInv, MadeFirst, FirstWrite
<1>a. /\ work'[p] = [op |-> o, phase |-> "recording", next |-> Nothing]
      /\ \A q \in Processes \ {p} : work'[q] = work[q]
  BY DEF CarryFails, Doing, IInv, TypeOK
<1>b. /\ misfiled' = misfiled \cup {o} /\ owed' = owed \ {o}
      /\ UNCHANGED <<store, made, leaving, accepted, settled, gone, overran, cutShort>>
  BY DEF CarryFails
<1>c. /\ \A q \in Processes, m \in Operations :
            /\ q # p \/ m \notin {n, o} => writing'[q][m] = writing[q][m]
            /\ q # p \/ m \notin {n, o} => held'[q][m] = held[q][m]
      /\ writing'[p][n] \in {"none", "refused"} /\ writing'[p][o] \in {"none", "refused"}
      /\ n # o => writing'[p][n] = "none" /\ held'[p][n] \in {held[p][n], "none"}
  BY <1>0 DEF CarryFails, IInv, TypeOK
<1>d. \A q \in Processes, m \in Operations : writing[q][m] \in {"unreachable", "refused"} => q # p
  BY <1>0 DEF IInv, LastWrite
<1>e. \A q \in Processes, m \in Operations :
         /\ Sends(q, m)' <=> Sends(q, m)
         /\ m # o => (Carries(q, m) <=> Carries(q, m)')
  BY <1>0, <1>a DEF Sends, Carries
<1>f. /\ MadeFirst /\ FirstWrite /\ LastWrite /\ UnderLease /\ OneSender /\ Landed /\ LeavingGone
      /\ NothingLost
      /\ settled \subseteq Operations /\ owed \subseteq Operations /\ accepted \subseteq Operations
  BY DEF IInv, TypeOK
<1> HIDE DEF o, n
<1>1. MadeFirst'
  BY <1>0, <1>b, <1>c, <1>e, <1>f DEF MadeFirst
<1>2. FirstWrite'
  <2>1. ASSUME NEW q \in Processes, NEW m \in Operations, writing'[q][m] = "pending"
        PROVE  writing[q][m] = "pending" /\ m # o /\ (q = p => m # n)
    BY <1>0, <1>c, <2>1
  <2>2. ASSUME NEW q \in Processes, NEW m \in Operations, writing'[q][m] = "pending"
        PROVE  /\ store'[m] = "none" /\ m \notin settled'
               /\ m \in gone' => m \in leaving'[q]
               /\ \A r \in Processes : ~Sends(r, m)'
    BY <1>b, <1>e, <1>f, <2>1, <2>2 DEF FirstWrite
  <2>3. ASSUME NEW q \in Processes, NEW m \in Operations, writing'[q][m] = "pending",
               NEW r \in Processes \ {q}
        PROVE  held'[r][m] = "none" /\ writing'[r][m] = "none"
    <3>1. writing[q][m] = "pending" /\ m # o
      BY <2>1, <2>3
    <3>2. held[r][m] = "none" /\ writing[r][m] = "none"
      BY <1>f, <2>3, <3>1 DEF FirstWrite
    <3> QED
      BY <1>c, <2>3, <3>1, <3>2
  <2> QED
    BY <2>2, <2>3 DEF FirstWrite
<1>3. LastWrite'
  <2>1. ASSUME NEW q \in Processes, NEW m \in Operations,
               writing'[q][m] \in {"unreachable", "refused"}
        PROVE  work'[q].op = m /\ work'[q].phase = "recording"
    <3>1. CASE q = p
      <4>1. m = o
        BY <1>0, <1>c, <1>d, <2>1, <3>1
      <4> QED
        BY <1>a, <3>1, <4>1 DEF o
    <3>2. CASE q # p
      BY <1>a, <1>c, <1>f, <2>1, <3>2 DEF LastWrite
    <3> QED
      BY <3>1, <3>2
  <2> QED
    BY <2>1 DEF LastWrite
<1>4. UnderLease'
  BY <1>b, <1>e, <1>f DEF UnderLease
<1>5. OneSender'
  BY <1>b, <1>e, <1>f DEF OneSender
<1>6. Landed'
  BY <1>b, <1>c, <1>e, <1>f DEF Landed
<1>7. LeavingGone'
  BY <1>b, <1>f DEF LeavingGone
<1>8. NothingLost'
  BY <1>b, <1>e, <1>f DEF NothingLost
<1> QED
  BY <1>1, <1>2, <1>3, <1>4, <1>5, <1>6, <1>7, <1>8 DEF SInv

LEMMA RefuseStep ==
  ASSUME IInv, TypeOK', NEW p \in Processes, Refuse(p)
  PROVE  SInv'
<1> USE DEF IInv, TypeOK, States, Waiting, Idle
<1>1. MadeFirst'
  BY DEF MadeFirst, Sends, WorkNames, Refuse, Record, Has, Doing
<1>2. FirstWrite'
  <2>0. PICK o \in Operations : o = work[p].op /\ work[p].phase = "asked"
    BY DEF WorkNames, Refuse
  <2>1. /\ Sends(p, o) /\ work'[p].op = o /\ \A q \in Processes \ {p} : work'[q] = work[q]
        /\ \A q \in Processes, n \in Operations : q # p \/ n # o =>
              writing'[q][n] = writing[q][n] /\ held'[q][n] = held[q][n]
        /\ writing'[p][o] \in {"refused", "unreachable"}
        /\ UNCHANGED <<store, leaving, settled, gone>>
    BY <2>0 DEF Sends, Refuse, Record, Has, Doing
  <2>2. FirstWrite
    OBVIOUS
  <2> HIDE DEF IInv, TypeOK
  <2> QED
    <3>1. \A q \in Processes, n \in Operations : Sends(q, n)' => Sends(q, n)
      BY <2>1 DEF Sends
    <3> QED
      BY <2>1, <2>2, <3>1 DEF FirstWrite
<1>3. LastWrite'
  BY DEF LastWrite, Sends, Refuse, Record, Has, Doing
<1>4. UnderLease'
  BY DEF UnderLease, FirstWrite, LastWrite, WorkNames, Sends, Refuse, Record, Has, Doing
<1>5. OneSender'
  BY DEF OneSender, UnderLease, Sends, Refuse, Record, Has, Doing
<1>6. Landed'
  BY DEF Landed, Carries, FirstWrite, LastWrite, OneSender, Sends, WorkNames, Refuse,
     Record, Has, Doing
<1>7. LeavingGone'
  BY DEF LeavingGone, Refuse, Record, Has, Doing
<1>8. NothingLost'
  BY DEF NothingLost, Carries, LeavingGone, WorkNames, Refuse, Record, Has, Doing
<1> QED
  BY <1>1, <1>2, <1>3, <1>4, <1>5, <1>6, <1>7, <1>8 DEF SInv

LEMMA NoAnswerStep ==
  ASSUME IInv, TypeOK', NEW p \in Processes, NoAnswer(p)
  PROVE  SInv'
<1> USE DEF IInv, TypeOK, States, Waiting, Idle
<1>1. MadeFirst'
  BY DEF MadeFirst, Sends, WorkNames, NoAnswer, Park, Record, Has, Doing
<1>2. FirstWrite'
  <2>0. PICK o \in Operations : o = work[p].op /\ work[p].phase = "asked"
    BY DEF WorkNames, NoAnswer, Park
  <2>1. /\ Sends(p, o) /\ work'[p].op = o /\ \A q \in Processes \ {p} : work'[q] = work[q]
        /\ \A q \in Processes, n \in Operations : q # p \/ n # o =>
              writing'[q][n] = writing[q][n] /\ held'[q][n] = held[q][n]
        /\ writing'[p][o] \in {"refused", "unreachable"}
        /\ UNCHANGED <<store, leaving, settled, gone>>
    BY <2>0 DEF Sends, NoAnswer, Park, Record, Has, Doing
  <2>2. FirstWrite
    OBVIOUS
  <2> HIDE DEF IInv, TypeOK
  <2> QED
    <3>1. \A q \in Processes, n \in Operations : Sends(q, n)' => Sends(q, n)
      BY <2>1 DEF Sends
    <3> QED
      BY <2>1, <2>2, <3>1 DEF FirstWrite
<1>3. LastWrite'
  BY DEF LastWrite, Sends, NoAnswer, Park, Record, Has, Doing
<1>4. UnderLease'
  BY DEF UnderLease, FirstWrite, LastWrite, WorkNames, Sends, NoAnswer, Park, Record, Has, Doing
<1>5. OneSender'
  BY DEF OneSender, UnderLease, Sends, NoAnswer, Park, Record, Has, Doing
<1>6. Landed'
  BY DEF Landed, Carries, FirstWrite, LastWrite, OneSender, Sends, WorkNames, NoAnswer,
     Park, Record, Has, Doing
<1>7. LeavingGone'
  BY DEF LeavingGone, NoAnswer, Park, Record, Has, Doing
<1>8. NothingLost'
  BY DEF NothingLost, Carries, LeavingGone, WorkNames, NoAnswer, Park, Record, Has, Doing
<1> QED
  BY <1>1, <1>2, <1>3, <1>4, <1>5, <1>6, <1>7, <1>8 DEF SInv

LEMMA CrashStep ==
  ASSUME IInv, TypeOK', NEW p \in Processes, Crash(p)
  PROVE  SInv'
<1> USE DEF IInv, TypeOK, States, Waiting, Idle
<1>0. /\ work'[p].phase = "idle"
      /\ \A q \in Processes \ {p} : work'[q] = work[q]
      /\ \A o \in Operations : store'[o] = store[o] \/ writing[p][o] # "none"
      /\ UNCHANGED overran
  BY DEF Crash, Finished
<1>1. MadeFirst'
  BY DEF MadeFirst, Sends, WorkNames, Crash, Blank, Finished
<1>2. FirstWrite'
  BY DEF FirstWrite, MadeFirst, LastWrite, Sends, WorkNames, LeavingGone, Crash, Blank, Finished
<1>3. LastWrite'
  BY DEF LastWrite, Sends, Crash, Blank, Finished
<1>4. UnderLease'
  <2>1. \A q \in Processes \ {p}, o \in Operations \ overran : Sends(q, o) => writing[p][o] = "none"
    BY WriterSends
  <2>2. UnderLease
    OBVIOUS
  <2> HIDE DEF IInv, TypeOK
  <2> QED
    <3>1. \A q \in Processes, o \in Operations : Sends(q, o)' => q # p /\ Sends(q, o)
      BY <1>0 DEF Sends
    <3>2. ASSUME NEW q \in Processes, NEW o \in Operations \ overran, Sends(q, o)'
          PROVE  store'[o] \in {"sending", "none"}
      <4>1. q # p /\ Sends(q, o)
        BY <3>1, <3>2
      <4>2. store'[o] = store[o]
        BY <1>0, <2>1, <4>1
      <4> QED
        BY <2>2, <4>1, <4>2 DEF UnderLease
    <3> QED
      BY <1>0, <3>2 DEF UnderLease
<1>5. OneSender'
  BY DEF OneSender, UnderLease, Sends, Crash, Blank, Finished
<1>6. Landed'
  BY DEF Landed, Carries, FirstWrite, LastWrite, OneSender, Sends, WorkNames, Crash, Blank,
     Finished
<1>7. LeavingGone'
  BY DEF LeavingGone, Crash, Blank, Finished
<1>8. NothingLost'
  BY DEF NothingLost, Carries, LeavingGone, WorkNames, Crash, Blank, Finished
<1> QED
  BY <1>1, <1>2, <1>3, <1>4, <1>5, <1>6, <1>7, <1>8 DEF SInv

LEMMA StartStep ==
  ASSUME IInv, TypeOK', NEW p \in Processes, Start(p)
  PROVE  SInv'
<1> USE DEF IInv, TypeOK, States, Waiting, Idle
<1>1. MadeFirst'
  BY DEF MadeFirst, Sends, WorkNames, Start
<1>2. FirstWrite'
  BY DEF FirstWrite, MadeFirst, LastWrite, Sends, WorkNames, LeavingGone, Start
<1>3. LastWrite'
  BY DEF LastWrite, Sends, Start
<1>4. UnderLease'
  BY DEF UnderLease, FirstWrite, LastWrite, WorkNames, Sends, Start
<1>5. OneSender'
  BY DEF OneSender, UnderLease, Sends, Start
<1>6. Landed'
  BY DEF Landed, Carries, FirstWrite, LastWrite, OneSender, Sends, WorkNames, Start
<1>7. LeavingGone'
  BY DEF LeavingGone, Start
<1>8. NothingLost'
  BY DEF NothingLost, Carries, LeavingGone, WorkNames, Start
<1> QED
  BY <1>1, <1>2, <1>3, <1>4, <1>5, <1>6, <1>7, <1>8 DEF SInv

-----------------------------------------------------------------------------
LEMMA ActionInv ==
  ASSUME IInv, Next
  PROVE  IInv'
<1> USE DEF IInv, SInv
<1>1. ASSUME NEW p \in Processes, NEW o \in Operations, Enqueue(p, o) PROVE IInv'
  BY <1>1, EnqueueTyped, EnqueueStep
<1>2. ASSUME NEW p \in Processes, NEW o \in Operations, Oppose(p, o) PROVE IInv'
  BY <1>2, OpposeTyped, OpposeStep
<1>3. ASSUME NEW p \in Processes, NEW o \in Operations, Recall(p, o) PROVE IInv'
  BY <1>3, RecallTyped, RecallStep
<1>4. ASSUME NEW p \in Processes, NEW o \in Operations, Dismiss(p, o) PROVE IInv'
  BY <1>4, DismissTyped, DismissStep
<1>5. ASSUME NEW p \in Processes, NEW o \in Operations, Remove(p, o) PROVE IInv'
  BY <1>5, RemoveTyped, RemoveStep
<1>6. ASSUME NEW p \in Processes, NEW o \in Operations, WriteLands(p, o) PROVE IInv'
  BY <1>6, WriteLandsTyped, WriteLandsStep
<1>7. ASSUME NEW p \in Processes, NEW o \in Operations, WriteFails(p, o) PROVE IInv'
  BY <1>7, WriteFailsTyped, WriteFailsStep
<1>8. ASSUME NEW o \in Operations, LeaseLapses(o) PROVE IInv'
  BY <1>8, LeaseLapsesTyped, LeaseLapsesStep
<1>9. ASSUME NEW p \in Processes, StartDrain(p) PROVE IInv'
  BY <1>9, StartDrainTyped, StartDrainStep
<1>10. ASSUME NEW p \in Processes, Reconcile(p) PROVE IInv'
  BY <1>10, ReconcileTyped, ReconcileStep
<1>11. ASSUME NEW p \in Processes, Rescan(p) PROVE IInv'
  BY <1>11, RescanTyped, RescanStep
<1>12. ASSUME NEW p \in Processes, EndDrain(p) PROVE IInv'
  BY <1>12, EndDrainTyped, EndDrainStep
<1>13. ASSUME NEW p \in Processes, Take(p) PROVE IInv'
  BY <1>13, TakeTyped, TakeStep
<1>14. ASSUME NEW p \in Processes, Lease(p) PROVE IInv'
  BY <1>14, LeaseTyped, LeaseStep
<1>15. ASSUME NEW p \in Processes, LoseLease(p) PROVE IInv'
  BY <1>15, LoseLeaseTyped, LoseLeaseStep
<1>16. ASSUME NEW p \in Processes, Settle(p) PROVE IInv'
  BY <1>16, SettleTyped, SettleStep
<1>17. ASSUME NEW p \in Processes, Refuse(p) PROVE IInv'
  BY <1>17, RefuseTyped, RefuseStep
<1>18. ASSUME NEW p \in Processes, NoAnswer(p) PROVE IInv'
  BY <1>18, NoAnswerTyped, NoAnswerStep
<1>19. ASSUME NEW p \in Processes, Crash(p) PROVE IInv'
  BY <1>19, CrashTyped, CrashStep
<1>20. ASSUME NEW p \in Processes, Start(p) PROVE IInv'
  BY <1>20, StartTyped, StartStep
<1>21. ASSUME NEW p \in Processes, ReadFails(p) PROVE IInv'
  BY <1>21, ReadFailsTyped, ReadFailsStep
<1>22. ASSUME NEW p \in Processes, LeaseFails(p) PROVE IInv'
  BY <1>22, LeaseFailsTyped, LeaseFailsStep
<1>23. ASSUME NEW p \in Processes, NEW n \in Operations, SettleCarrying(p, n) PROVE IInv'
  BY <1>23, SettleCarryingTyped, SettleCarryingStep
<1>24. ASSUME NEW p \in Processes, SettleFails(p) PROVE IInv'
  BY <1>24, SettleFailsTyped, SettleFailsStep
<1>25. ASSUME NEW p \in Processes, CarryFails(p) PROVE IInv'
  BY <1>25, CarryFailsTyped, CarryFailsStep
<1>26. ASSUME NEW p \in Processes, RecordFails(p) PROVE IInv'
  BY <1>26, RecordFailsTyped, RecordFailsStep
<1> HIDE DEF IInv, SInv
<1> QED
  BY <1>1, <1>2, <1>3, <1>4, <1>5, <1>6, <1>7, <1>8, <1>9, <1>10,
     <1>11, <1>12, <1>13, <1>14, <1>15, <1>16, <1>17, <1>18, <1>19, <1>20,
     <1>21, <1>22, <1>23, <1>24, <1>25, <1>26
     DEF Next, Persons, Stores, Drains, Sending, Lives

LEMMA StandInv ==
  ASSUME IInv, UNCHANGED vars
  PROVE  IInv'
<1> USE DEF vars, own
<1>1. TypeOK' /\ WorkNames'
  BY DEF IInv, TypeOK, WorkNames
<1>2. MadeFirst' /\ FirstWrite' /\ LastWrite'
  BY DEF IInv, MadeFirst, FirstWrite, LastWrite, Sends
<1>3. UnderLease' /\ OneSender' /\ Landed'
  BY DEF IInv, UnderLease, OneSender, Landed, Sends, Carries
<1>4. LeavingGone' /\ NothingLost'
  BY DEF IInv, LeavingGone, NothingLost, Carries
<1> QED
  BY <1>1, <1>2, <1>3, <1>4 DEF IInv

LEMMA InitInv == Init => IInv
<1> SUFFICES ASSUME Init PROVE IInv
  OBVIOUS
<1> USE DEF Init
<1>1. TypeOK
  <2>1. <<>> \in Seq(Operations)
    OBVIOUS
  <2>2. work \in [Processes -> Works]
    BY IdleTyped
  <2> QED
    BY <2>1, <2>2 DEF TypeOK, States, Waiting, Works
<1>2. \A p \in Processes, o \in Operations : ~Sends(p, o)
  BY IdleTyped DEF Sends
<1>3. WorkNames
  BY IdleTyped DEF WorkNames
<1>4. MadeFirst /\ FirstWrite /\ LastWrite
  BY <1>2 DEF MadeFirst, FirstWrite, LastWrite
<1>5. UnderLease /\ OneSender /\ Landed
  BY <1>2 DEF UnderLease, OneSender, Landed
<1>6. LeavingGone /\ NothingLost
  BY DEF LeavingGone, NothingLost
<1> QED
  BY <1>1, <1>3, <1>4, <1>5, <1>6 DEF IInv

LEMMA AlwaysInv == Spec => []IInv
<1>1. IInv /\ [Next]_vars => IInv'
  BY ActionInv, StandInv
<1> QED
  BY InitInv, <1>1, PTL DEF Spec

\* Every variable keeps its type.
THEOREM Types == Spec => []TypeOK
  BY AlwaysInv, PTL DEF IInv

\* An operation the store has taken is in it until it has landed or somebody has
\* taken it back, whoever dies, whatever answer is lost or late and whichever
\* write the store fails; and whoever landed an edit is at the tags it carried
\* until they are kept or the edit is put down as refused, unless it dies first.
THEOREM NoneLost == Spec => []NothingLost
  BY AlwaysInv, PTL DEF IInv

\* However many processes share the store, one at a time sends an operation, as
\* long as its lease has not run out under a process that was sending it.
THEOREM SentByOne == Spec => []OneSender
  BY AlwaysInv, PTL DEF IInv

\* What has landed, before its lease ran out and in a store that let it go, is
\* out of the store for good.
THEOREM LandedIsOut == Spec => []LandedStaysOut
<1>1. IInv => LandedStaysOut
  BY DEF IInv, Landed, LandedStaysOut
<1> QED
  BY AlwaysInv, <1>1, PTL

\* The store gains an operation only by a write of it that was on its way.
LEMMA StoreGains ==
  ASSUME IInv, Next, NEW o \in Operations, store[o] = "none", store'[o] # "none"
  PROVE  \E p \in Processes : writing[p][o] # "none"
<1>0. store \in [Operations -> States]
  BY DEF IInv, TypeOK
<1>1. ASSUME NEW p \in Processes, NEW n \in Operations, WriteLands(p, n)
      PROVE  writing[p][o] # "none"
  BY <1>0, <1>1 DEF WriteLands
<1>2. ASSUME NEW p \in Processes, Crash(p) PROVE writing[p][o] # "none"
  BY <1>0, <1>2 DEF Crash
<1>3. ASSUME NEW n \in Operations, LeaseLapses(n) PROVE FALSE
  BY <1>0, <1>3 DEF LeaseLapses
<1>4. ASSUME NEW p \in Processes, Lease(p) PROVE FALSE
  BY <1>0, <1>4 DEF Lease, Leasable, Attemptable, Waiting
<1>5. ASSUME NEW p \in Processes,
             Settle(p) \/ SettleFails(p) \/ (\E n \in Operations : SettleCarrying(p, n))
      PROVE  FALSE
  BY <1>0, <1>5 DEF Settle, SettleFails, SettleCarrying
<1>6. ASSUME NEW p \in Processes, NEW n \in Operations, Remove(p, n) PROVE FALSE
  BY <1>0, <1>6 DEF Remove
<1>7. store' # store
  OBVIOUS
<1>8. CASE Persons
  BY <1>7, <1>8 DEF Persons, Enqueue, Oppose, Recall, Dismiss, TakesBack
<1>9. CASE Stores
  BY <1>1, <1>3, <1>6, <1>7, <1>9 DEF Stores, WriteFails
<1>10. CASE Drains
  BY <1>7, <1>10 DEF Drains, StartDrain, Reconcile, ReadFails, Rescan, EndDrain
<1>11. CASE Sending
  <2>1. ASSUME NEW p \in Processes, Take(p) \/ LoseLease(p) \/ LeaseFails(p) PROVE FALSE
    BY <1>7, <2>1 DEF Take, LoseLease, LeaseFails
  <2>2. ASSUME NEW p \in Processes, CarryFails(p) \/ Refuse(p) \/ NoAnswer(p) \/ RecordFails(p)
        PROVE  FALSE
    BY <1>7, <2>2 DEF CarryFails, Refuse, NoAnswer, Park, Record, RecordFails
  <2> QED
    BY <1>4, <1>5, <1>11, <2>1, <2>2 DEF Sending
<1>12. CASE Lives
  BY <1>2, <1>7, <1>12 DEF Lives, Start
<1> QED
  BY <1>8, <1>9, <1>10, <1>11, <1>12 DEF Next

\* What a session took back comes into the store again only by the write of a
\* process that was sending it.
THEOREM RetractedIsOut == Spec => RetractedStaysOut
<1>1. ASSUME IInv, Next, NEW o \in gone, \A p \in Processes : o \notin leaving[p],
             store[o] = "none", store'[o] # "none"
      PROVE  \E q \in Processes : Sends(q, o)
  <2>1. o \in Operations
    BY <1>1 DEF IInv, TypeOK
  <2>2. PICK p \in Processes : writing[p][o] # "none"
    BY <1>1, <2>1, StoreGains
  <2>3. writing[p][o] # "pending"
    BY <1>1, <2>1 DEF IInv, FirstWrite
  <2>4. work[p].op = o /\ work[p].phase = "recording"
    BY <1>1, <2>1, <2>2, <2>3, WriterSends
  <2> QED
    BY <2>4 DEF Sends
<1>2. IInv /\ [Next]_vars =>
      [\A o \in gone :
          /\ \A p \in Processes : o \notin leaving[p]
          /\ store[o] = "none" /\ store'[o] # "none"
          => \E q \in Processes : Sends(q, o)]_vars
  BY <1>1
<1> QED
  BY <1>2, AlwaysInv, PTL DEF Spec, RetractedStaysOut

-----------------------------------------------------------------------------
(* The order of a session's operations.                                     *)

\* Made in this session, waiting its first turn, and nobody takes it back.
Waits(p, o) ==
    /\ o \in seen[p] \ restored[p]
    /\ held[p][o] = "pending"
    /\ o \notin leaving[p]

\* Those whose turn is over for this drain.
Passed(p) == attempted[p] \ HandedOver(p)

\* It may still have its turn in this drain.
Open(p, o) == Waits(p, o) /\ o \notin Passed(p)

\* What a process has in hand has been made.
HandMade(p) ==
    /\ attempted[p] \cup recalled[p] \subseteq made
    /\ \A n \in 1..Len(queue[p]) : queue[p][n] \in made
    /\ work[p].phase = "begun" => work[p].op \in made

\* A drain takes up nothing twice, and only what waits in it can be let go of.
Once(p) ==
    /\ \A n \in 1..Len(queue[p]) : queue[p][n] \in attempted[p] /\ queue[p][n] # work[p].op
    /\ work[p].phase # "idle" => work[p].op \in attempted[p]
    /\ \A m, n \in 1..Len(queue[p]) : queue[p][m] = queue[p][n] => m = n
    /\ \A o \in recalled[p] : \E n \in 1..Len(queue[p]) : queue[p][n] = o

\* Operations are made in order, and none is in hand before it is made, or twice.
HandsMade ==
    /\ \A later \in made, earlier \in Operations : earlier < later => earlier \in made
    /\ \A p \in Processes : HandMade(p) /\ Once(p)

\* What comes before the n-th of the queue.
Before(p, o, n) == work[p].op = o \/ \E m \in 1..n - 1 : queue[p][m] = o

\* Nothing later than an open operation is in hand, or in front of it.
First(p, o) ==
    /\ o \notin recalled[p]
    /\ ~Sends(p, o)
    /\ work[p].phase = "begun" => work[p].op <= o
    /\ \A n \in 1..Len(queue[p]) : queue[p][n] > o => Before(p, o, n)

OpenFirst == \A p \in Processes, o \in Operations : Open(p, o) => First(p, o)

OInv == HandsMade /\ OpenFirst

(* What a step does to what a process has in hand.                          *)

Queued(p) == queue'[p] = queue[p] /\ attempted'[p] = attempted[p]

Stays(p) == Queued(p) /\ work'[p] = work[p] /\ recalled'[p] = recalled[p]

LetsGo(p) ==
    /\ Queued(p) /\ work'[p] = work[p]
    /\ \E o \in Operations :
          /\ \E n \in 1..Len(queue[p]) : queue[p][n] = o
          /\ ~Waits(p, o)' /\ recalled'[p] = recalled[p] \cup {o}

Hands(p) ==
    /\ work'[p] = work[p] /\ recalled'[p] = recalled[p]
    /\ \E S \in SUBSET (made \cap Untried(p)) :
          /\ Takes(p, S)
          /\ \A o \in Untried(p) : Waits(p, o)' => o \in S

Clears(p) ==
    /\ Rest(p)
    /\ queue'[p] = queue[p] /\ work'[p] = work[p] /\ recalled'[p] = recalled[p]
    /\ attempted'[p] = {}

Ends(p) ==
    /\ Queued(p) /\ recalled'[p] = recalled[p]
    /\ work[p].phase # "idle"
    /\ \A o \in Operations : o = work[p].op => ~Open(p, o)'
    /\ work'[p].phase # "begun"
    /\ work'[p] = Idle \/ work'[p].op = work[p].op

Dies(p) ==
    /\ \A o \in Operations : ~Waits(p, o)'
    /\ queue'[p] = <<>> /\ attempted'[p] = {} /\ recalled'[p] = {} /\ work'[p] = Idle

Kinds(p) == Stays(p) \/ LetsGo(p) \/ Hands(p) \/ Clears(p) \/ Take(p) \/ Ends(p) \/ Dies(p)

\* A read of the store leaves alone what the session made.
LEMMA ReconcileKeeps ==
  ASSUME IInv, NEW p \in Processes, NEW o \in Operations, Reconcile(p), Waits(p, o)'
  PROVE  Waits(p, o)
<1> DEFINE theirs == restored[p] \ HandedOver(p)
           added == {n \in Operations : store[n] # "none"} \ seen[p]
           now == [n \in Operations |-> IF n \in theirs \cup added THEN store[n] ELSE held[p][n]]
<1>1. /\ held' = [held EXCEPT ![p] = now]
      /\ restored' = [restored EXCEPT ![p] =
                          {n \in @ : n \in theirs => store[n] # "none"} \cup added]
      /\ seen' = [seen EXCEPT ![p] = @ \cup added]
      /\ leaving' = leaving
  BY DEF Reconcile
<1>2. /\ held'[p][o] = now[o]
      /\ restored'[p] = {n \in restored[p] : n \in theirs => store[n] # "none"} \cup added
      /\ seen'[p] = seen[p] \cup added
  BY <1>1 DEF IInv, TypeOK
<1>3. o \in seen'[p] /\ o \notin restored'[p] /\ now[o] = "pending" /\ o \notin leaving[p]
  BY <1>1, <1>2 DEF Waits
<1>4. o \notin added /\ o \in seen[p]
  BY <1>2, <1>3
<1>5. o \notin restored[p]
  BY <1>2, <1>3, <1>4
<1> QED
  BY <1>3, <1>4, <1>5 DEF Waits

\* An operation waits its first turn from when it is made, and never again.
LEMMA WaitsLasts ==
  ASSUME IInv, Next, NEW p \in Processes, NEW o \in Operations, Waits(p, o)',
         ~Enqueue(p, o), ~SettleCarrying(p, o)
  PROVE  Waits(p, o)
<1> USE DEF Waits
<1>0. /\ seen \in [Processes -> SUBSET Operations] /\ restored \in [Processes -> SUBSET Operations]
      /\ leaving \in [Processes -> SUBSET Operations]
      /\ held \in [Processes -> [Operations -> States]] /\ store \in [Operations -> States]
  BY DEF IInv, TypeOK
<1>1. ASSUME NEW q \in Processes, NEW n \in Operations, Enqueue(q, n) PROVE Waits(p, o)
  BY <1>0, <1>1 DEF Enqueue, Has
<1>2. ASSUME NEW q \in Processes, NEW n \in Operations, TakesBack(q, n) PROVE Waits(p, o)
  BY <1>0, <1>2 DEF TakesBack
<1>3. ASSUME NEW q \in Processes, NEW n \in Operations, Remove(q, n) PROVE Waits(p, o)
  BY <1>0, <1>3 DEF Remove, Has, own
<1>4. ASSUME NEW q \in Processes, NEW n \in Operations, WriteLands(q, n) PROVE Waits(p, o)
  BY <1>0, <1>4 DEF WriteLands
<1>5. ASSUME NEW q \in Processes, NEW n \in Operations, WriteFails(q, n) PROVE Waits(p, o)
  BY <1>0, <1>5 DEF WriteFails, Has, own
<1>6. ASSUME NEW n \in Operations, LeaseLapses(n) PROVE Waits(p, o)
  BY <1>0, <1>6 DEF LeaseLapses, own
<1>7. ASSUME NEW q \in Processes,
             \/ StartDrain(q) \/ ReadFails(q) \/ Rescan(q) \/ EndDrain(q) \/ Take(q)
             \/ LeaseFails(q) \/ RecordFails(q)
      PROVE  Waits(p, o)
  BY <1>7 DEF StartDrain, ReadFails, Rescan, EndDrain, Take, LeaseFails, RecordFails
<1>8. ASSUME NEW q \in Processes, Reconcile(q) PROVE Waits(p, o)
  <2>1. CASE q = p
    BY <1>8, <2>1, ReconcileKeeps
  <2>2. CASE q # p
    BY <1>0, <1>8, <2>2 DEF Reconcile
  <2> QED
    BY <2>1, <2>2
<1>9. ASSUME NEW q \in Processes, Lease(q) PROVE Waits(p, o)
  BY <1>0, <1>9 DEF Lease, Has
<1>10. ASSUME NEW q \in Processes, LoseLease(q) PROVE Waits(p, o)
  BY <1>0, <1>10 DEF LoseLease, Has
<1>11. ASSUME NEW q \in Processes, Settle(q) PROVE Waits(p, o)
  BY <1>0, <1>11 DEF Settle, Lands, Has
<1>12. ASSUME NEW q \in Processes, Record(q, "refused") \/ Record(q, "unreachable")
       PROVE  Waits(p, o)
  BY <1>0, <1>12 DEF Record, Has
<1>13. ASSUME NEW q \in Processes, Crash(q) PROVE Waits(p, o)
  BY <1>0, <1>13 DEF Crash, Blank
<1>14. ASSUME NEW q \in Processes, Start(q) PROVE Waits(p, o)
  BY <1>0, <1>14 DEF Start
<1>15. ASSUME NEW q \in Processes, NEW n \in Operations, SettleCarrying(q, n) PROVE Waits(p, o)
  BY <1>0, <1>15 DEF SettleCarrying, Lands
<1>16. ASSUME NEW q \in Processes, SettleFails(q) PROVE Waits(p, o)
  BY <1>0, <1>16 DEF SettleFails, Lands, Has
<1>17. ASSUME NEW q \in Processes, CarryFails(q) PROVE Waits(p, o)
  BY <1>0, <1>17 DEF CarryFails
<1> HIDE DEF Waits
<1>18. CASE Persons
  BY <1>1, <1>2, <1>18 DEF Persons, Oppose, Recall, Dismiss
<1>19. CASE Sending
  BY <1>7, <1>9, <1>10, <1>11, <1>12, <1>15, <1>16, <1>17, <1>19
     DEF Sending, Refuse, NoAnswer, Park
<1> QED
  BY <1>3, <1>4, <1>5, <1>6, <1>7, <1>8, <1>13, <1>14, <1>18, <1>19
     DEF Next, Stores, Drains, Lives

LEMMA KindsOfRecall ==
  ASSUME IInv, NEW p \in Processes, NEW q \in Processes, NEW o \in Operations, Recall(q, o)
  PROVE  Stays(p) \/ LetsGo(p)
<1>0. recalled \in [Processes -> SUBSET Operations] /\ leaving \in [Processes -> SUBSET Operations]
  BY DEF IInv, TypeOK
<1>1. Queued(p) /\ work'[p] = work[p]
  BY DEF Queued, Recall, TakesBack
<1>2. \/ recalled'[p] = recalled[p]
      \/ q = p /\ o \in HandedOver(p) /\ recalled'[p] = recalled[p] \cup {o}
  BY <1>0 DEF Recall, Told
<1>3. ~Waits(q, o)'
  BY <1>0 DEF Waits, Recall, TakesBack
<1>4. q = p /\ o \in HandedOver(p) => \E n \in 1..Len(queue[p]) : queue[p][n] = o
  BY DEF HandedOver, Recall
<1> QED
  BY <1>1, <1>2, <1>3, <1>4 DEF Stays, LetsGo

\* What is taken up has been made.
LEMMA UntriedMade ==
  ASSUME IInv, NEW p \in Processes
  PROVE  /\ {o \in Untried(p) : Attemptable(held[p][o])} \in SUBSET (made \cap Untried(p))
         /\ \A f \in [Operations -> States] :
               (\A o \in Operations : f[o] \in {store[o], held[p][o]})
               => {o \in Untried(p) : Attemptable(f[o])} \in SUBSET (made \cap Untried(p))
<1>1. \A o \in Operations \ made : store[o] = "none" /\ held[p][o] = "none"
  BY DEF IInv, MadeFirst
<1>2. Untried(p) \subseteq Operations
  BY DEF Untried
<1> QED
  BY <1>1, <1>2 DEF Attemptable, Waiting

LEMMA KindsOfReconcile ==
  ASSUME IInv, NEW p \in Processes, Reconcile(p)
  PROVE  Hands(p)
<1> DEFINE theirs == restored[p] \ HandedOver(p)
           added == {n \in Operations : store[n] # "none"} \ seen[p]
           now == [n \in Operations |-> IF n \in theirs \cup added THEN store[n] ELSE held[p][n]]
           S == {o \in Untried(p) : Attemptable(now[o])}
<1>1. /\ held' = [held EXCEPT ![p] = now]
      /\ Takes(p, S)
      /\ UNCHANGED <<work, recalled>>
  BY DEF Reconcile
<1>2. held'[p] = now /\ now \in [Operations -> States]
  BY <1>1 DEF IInv, TypeOK
<1>3. \A o \in Operations : now[o] \in {store[o], held[p][o]}
  OBVIOUS
<1> HIDE DEF now
<1>4. S \in SUBSET (made \cap Untried(p))
  BY <1>2, <1>3, UntriedMade
<1>5. \A o \in Untried(p) : Waits(p, o)' => o \in S
  BY <1>2 DEF Waits, Attemptable, Waiting
<1> HIDE DEF S
<1> QED
  BY <1>1, <1>4, <1>5 DEF Hands

LEMMA KindsOfTakes ==
  ASSUME IInv, NEW p \in Processes, StartDrain(p) \/ ReadFails(p) \/ Rescan(p)
  PROVE  Hands(p)
<1>0. UNCHANGED <<held, restored, seen, leaving, work, recalled>>
  BY DEF StartDrain, ReadFails, Rescan
<1>1. PICK S : /\ Takes(p, S)
               /\ \/ S = {o \in Untried(p) : Attemptable(held[p][o])}
                  \/ S = {o \in Untried(p) \ restored[p] : Attemptable(held[p][o])}
  BY DEF StartDrain, ReadFails, Rescan
<1>2. S \in SUBSET (made \cap Untried(p))
  BY <1>1, UntriedMade
<1>3. \A o \in Untried(p) : Waits(p, o)' => o \in S
  BY <1>0, <1>1 DEF Waits, Attemptable, Waiting
<1> QED
  BY <1>0, <1>1, <1>2, <1>3 DEF Hands

\* What becomes of the one being sent, or about to be.
Sent(q) ==
    \/ Lease(q) \/ LoseLease(q) \/ Settle(q) \/ (\E n \in Operations : SettleCarrying(q, n))
    \/ SettleFails(q) \/ CarryFails(q) \/ Record(q, "refused") \/ Record(q, "unreachable")

LEMMA SentWork ==
  ASSUME IInv, NEW q \in Processes, work[q].phase # "idle", Sent(q)
  PROVE  /\ UNCHANGED <<queue, attempted, recalled>>
         /\ \A n \in Processes \ {q} : work'[n] = work[n]
         /\ work'[q].phase # "begun"
         /\ work'[q] = Idle \/ work'[q].op = work[q].op
<1>1. work \in [Processes -> Works]
  BY DEF IInv, TypeOK, Works
<1>2. UNCHANGED <<queue, attempted, recalled>>
  BY DEF Sent, Lease, LoseLease, Settle, SettleCarrying, SettleFails, CarryFails, Lands, Record
<1>3. \/ Finished(q) \/ Doing(q, work[q].op, "asked") \/ Doing(q, work[q].op, "recording")
      \/ \E n \in Operations :
            work' = [work EXCEPT ![q] = [op |-> work[q].op, phase |-> "carrying", next |-> n]]
  BY DEF Sent, Lease, LoseLease, Settle, SettleCarrying, SettleFails, CarryFails, Record
<1>4. CASE Finished(q)
  BY <1>1, <1>2, <1>4, IdleTyped DEF Finished
<1>5. ASSUME NEW phase \in {"asked", "recording"}, Doing(q, work[q].op, phase)
      PROVE  /\ \A n \in Processes \ {q} : work'[n] = work[n]
             /\ work'[q].phase = phase /\ work'[q].op = work[q].op
  BY <1>1, <1>5 DEF Doing
<1>6. ASSUME NEW n \in Operations,
             work' = [work EXCEPT ![q] = [op |-> work[q].op, phase |-> "carrying", next |-> n]]
      PROVE  /\ \A m \in Processes \ {q} : work'[m] = work[m]
             /\ work'[q].phase = "carrying" /\ work'[q].op = work[q].op
  BY <1>1, <1>6
<1> QED
  BY <1>2, <1>3, <1>4, <1>5, <1>6

LEMMA KindsOfSends ==
  ASSUME IInv, OInv, NEW p \in Processes, NEW q \in Processes, work[q].phase # "idle", Sent(q)
  PROVE  Stays(p) \/ Ends(p)
<1>1. ASSUME NEW o \in Operations, o = work[q].op PROVE ~Open(q, o)'
  <2>0. /\ held \in [Processes -> [Operations -> States]]
        /\ restored \in [Processes -> SUBSET Operations]
    BY DEF IInv, TypeOK
  <2>1. CASE LoseLease(q)
    BY <1>1, <2>0, <2>1 DEF Open, Waits, LoseLease, Has
  <2>2. CASE Lease(q) \/ Settle(q) \/ Record(q, "refused") \/ Record(q, "unreachable")
    <3>1. held'[q][o] \in {"sending", "none", "refused", "unreachable"}
      BY <1>1, <2>0, <2>2 DEF Lease, Settle, Record, Has
    <3> QED
      BY <3>1 DEF Open, Waits
  <2>3. CASE SettleFails(q)
    <3>1. held'[q][o] = "refused"
      BY <1>1, <2>0, <2>3 DEF SettleFails, Has
    <3> QED
      BY <3>1 DEF Open, Waits
  <2>4. ASSUME NEW n \in Operations, SettleCarrying(q, n) PROVE ~Open(q, o)'
    <3>1. restored'[q] = restored[q] \ {o} /\ n # o
      <4>1. Sends(q, o)
        BY <1>1, <2>4 DEF SettleCarrying, Lands, Sends
      <4>2. o \in made
        BY <4>1 DEF IInv, MadeFirst
      <4> QED
        BY <1>1, <2>0, <2>4, <4>2 DEF SettleCarrying, Lands, Fresh
    <3>2. held'[q][o] = "none"
      BY <1>1, <2>0, <2>4, <3>1 DEF SettleCarrying
    <3> QED
      BY <3>2 DEF Open, Waits
  <2>5. CASE CarryFails(q)
    <3>1. held'[q][o] \in {"refused", "none", held[q][o]}
      BY <1>1, <2>0, <2>5 DEF CarryFails
    <3>2. ~Waits(q, o)
      <4>1. Sends(q, o) /\ o \in HandedOver(q)
        BY <1>1, <2>5 DEF CarryFails, Sends, HandedOver
      <4> QED
        BY <4>1 DEF OInv, OpenFirst, First, Open, Passed
    <3> QED
      BY <2>5, <3>1, <3>2 DEF Open, Waits, CarryFails
  <2> QED
    BY <2>1, <2>2, <2>3, <2>4, <2>5 DEF Sent
<1> QED
  BY <1>1, SentWork DEF Stays, Ends, Queued

\* A send the store fails is over: its turn has passed, or nothing waits for it.
LEMMA KindsOfBreaks ==
  ASSUME IInv, OInv, NEW p \in Processes, NEW q \in Processes, LeaseFails(q) \/ RecordFails(q)
  PROVE  Stays(p) \/ Ends(p)
<1>0. work \in [Processes -> Works]
  BY DEF IInv, TypeOK, Works
<1>1. /\ UNCHANGED <<queue, attempted, recalled, held, seen, restored, leaving>>
      /\ \A n \in Processes \ {q} : work'[n] = work[n]
      /\ work'[q] = Idle /\ work[q].phase \in {"begun", "recording"}
  BY <1>0 DEF LeaseFails, RecordFails, Breaks, Finished
<1>2. ASSUME NEW o \in Operations, o = work[q].op PROVE o \in Passed(q)'
  <2>1. o \in attempted[q] /\ \A n \in 1..Len(queue[q]) : queue[q][n] # o
    BY <1>1, <1>2 DEF OInv, HandsMade, Once
  <2>2. o # Idle.op
    BY DEF Idle
  <2> QED
    BY <1>1, <2>1, <2>2 DEF Passed, HandedOver
<1> QED
  BY <1>1, <1>2, IdleTyped DEF Stays, Ends, Queued, Open

\* A write that lands ends the send that waited for it.
LEMMA KindsOfWriteLands ==
  ASSUME IInv, OInv, NEW p \in Processes, NEW q \in Processes, NEW o \in Operations,
         WriteLands(q, o)
  PROVE  Stays(p) \/ Ends(p)
<1>0. work \in [Processes -> Works]
  BY DEF IInv, TypeOK, Works
<1>1. UNCHANGED <<queue, attempted, recalled, held, seen, restored, leaving>>
  BY DEF WriteLands
<1>2. CASE Awaits(q, o) /\ q = p
  <2>1. work'[p] = Idle /\ work[p].phase \in {"recording", "carrying"}
    BY <1>0, <1>2 DEF WriteLands, Awaits
  <2>2. ASSUME NEW n \in Operations, n = work[p].op PROVE ~Waits(p, n)
    <3>1. Sends(p, n) /\ n \in HandedOver(p)
      BY <2>1, <2>2 DEF Sends, HandedOver
    <3> QED
      BY <3>1 DEF OInv, OpenFirst, First, Open, Passed
  <2>3. \A n \in Operations : Waits(p, n)' <=> Waits(p, n)
    BY <1>1 DEF Waits
  <2> QED
    BY <1>1, <2>1, <2>2, <2>3, IdleTyped DEF Ends, Queued, Open
<1>3. CASE ~Awaits(q, o) \/ q # p
  <2>1. work'[p] = work[p]
    BY <1>0, <1>3 DEF WriteLands
  <2> QED
    BY <1>1, <2>1 DEF Stays, Queued
<1> QED
  BY <1>2, <1>3

LEMMA KindsOfCrash ==
  ASSUME IInv, NEW p \in Processes, NEW q \in Processes, Crash(q)
  PROVE  Stays(p) \/ Dies(p)
<1>1. CASE q = p
  <2>1. /\ seen'[p] = {} /\ attempted'[p] = {} /\ recalled'[p] = {}
        /\ queue'[p] = <<>> /\ work'[p] = Idle
    BY <1>1 DEF IInv, TypeOK, Crash, Blank, Finished
  <2> QED
    BY <2>1 DEF Dies, Waits
<1>2. CASE q # p
  BY <1>2 DEF IInv, TypeOK, Crash, Blank, Finished, Stays, Queued
<1> QED
  BY <1>1, <1>2

LEMMA KindsOfNext ==
  ASSUME IInv, OInv, Next, NEW p \in Processes
  PROVE  Kinds(p)
<1> DEFINE Same == UNCHANGED <<queue, work, attempted, recalled>>
<1>1. Same => Stays(p)
  BY DEF Stays, Queued
<1>2. ASSUME NEW q \in Processes, NEW o \in Operations,
             \/ Enqueue(q, o) \/ Oppose(q, o) \/ Recall(q, o) \/ Dismiss(q, o)
             \/ Remove(q, o) \/ WriteLands(q, o) \/ WriteFails(q, o)
      PROVE  Kinds(p)
  <2>1. CASE Recall(q, o)
    BY <2>1, KindsOfRecall DEF Kinds
  <2>2. CASE WriteLands(q, o)
    BY <2>2, KindsOfWriteLands DEF Kinds
  <2>3. CASE \/ Enqueue(q, o) \/ Oppose(q, o) \/ Dismiss(q, o) \/ Remove(q, o) \/ WriteFails(q, o)
    BY <1>1, <2>3 DEF Kinds, Enqueue, Oppose, Dismiss, TakesBack, Remove, WriteFails, own
  <2> QED
    BY <1>2, <2>1, <2>2, <2>3
<1>3. ASSUME NEW o \in Operations, LeaseLapses(o) PROVE Kinds(p)
  BY <1>1, <1>3 DEF Kinds, LeaseLapses, own
<1>4. ASSUME NEW q \in Processes,
             q # p,
             StartDrain(q) \/ Reconcile(q) \/ ReadFails(q) \/ Rescan(q) \/ EndDrain(q) \/ Take(q)
      PROVE  Stays(p)
  <2>1. /\ queue \in [Processes -> Seq(Operations)]
        /\ attempted \in [Processes -> SUBSET Operations]
        /\ recalled \in [Processes -> SUBSET Operations]
        /\ work \in [Processes -> Works]
    BY DEF IInv, TypeOK, Works
  <2>2. queue'[p] = queue[p] /\ attempted'[p] = attempted[p]
    <3>1. CASE EndDrain(q) \/ Take(q)
      BY <1>4, <2>1, <3>1 DEF EndDrain, Take
    <3>2. CASE StartDrain(q) \/ Reconcile(q) \/ ReadFails(q) \/ Rescan(q)
      <4>1. PICK S : Takes(q, S)
        BY <3>2 DEF StartDrain, Reconcile, ReadFails, Rescan
      <4> QED
        BY <1>4, <2>1, <4>1 DEF Takes
    <3> QED
      BY <1>4, <3>1, <3>2
  <2>3. work'[p] = work[p] /\ recalled'[p] = recalled[p]
    BY <1>4, <2>1 DEF StartDrain, Reconcile, ReadFails, Rescan, EndDrain, Take, Doing
  <2> QED
    BY <2>2, <2>3 DEF Stays, Queued
<1>5. ASSUME NEW q \in Processes,
             StartDrain(q) \/ Reconcile(q) \/ ReadFails(q) \/ Rescan(q) \/ EndDrain(q) \/ Take(q)
      PROVE  Kinds(p)
  <2>1. CASE q = p /\ (StartDrain(p) \/ Reconcile(p) \/ ReadFails(p) \/ Rescan(p))
    BY <2>1, KindsOfTakes, KindsOfReconcile DEF Kinds
  <2>2. CASE q = p /\ EndDrain(p)
    BY <2>2 DEF Kinds, Clears, EndDrain, IInv, TypeOK
  <2>3. CASE q = p /\ Take(p)
    BY <2>3 DEF Kinds
  <2> QED
    BY <1>4, <1>5, <2>1, <2>2, <2>3 DEF Kinds
<1>6. ASSUME NEW q \in Processes,
             \/ Lease(q) \/ LoseLease(q)
             \/ Settle(q) \/ (\E n \in Operations : SettleCarrying(q, n))
             \/ SettleFails(q) \/ CarryFails(q) \/ Refuse(q) \/ NoAnswer(q)
      PROVE  Kinds(p)
  <2>1. work[q].phase \in {"begun", "asked", "carrying"}
    BY <1>6 DEF Lease, LoseLease, Settle, SettleCarrying, SettleFails, Lands, CarryFails,
       Refuse, NoAnswer
  <2>2. Sent(q)
    BY <1>6 DEF Sent, Refuse, NoAnswer, Park
  <2> QED
    BY <2>1, <2>2, KindsOfSends DEF Kinds
<1>9. ASSUME NEW q \in Processes, LeaseFails(q) \/ RecordFails(q) PROVE Kinds(p)
  BY <1>9, KindsOfBreaks DEF Kinds
<1>7. ASSUME NEW q \in Processes, Crash(q) PROVE Kinds(p)
  BY <1>7, KindsOfCrash DEF Kinds
<1>8. ASSUME NEW q \in Processes, Start(q) PROVE Kinds(p)
  BY <1>1, <1>8 DEF Kinds, Start
<1> HIDE DEF Same
<1> QED
  BY <1>2, <1>3, <1>5, <1>6, <1>7, <1>8, <1>9 DEF Next, Persons, Stores, Drains, Sending, Lives

\* What is taken up goes to the end of the queue, all of it and in order.
Appended(p, S) ==
    /\ attempted'[p] = attempted[p] \cup S
    /\ Len(queue[p]) \in Nat /\ Len(queue'[p]) \in Nat /\ Len(queue[p]) <= Len(queue'[p])
    /\ \A n \in 1..Len(queue[p]) : queue'[p][n] = queue[p][n]
    /\ \A o \in S : \E n \in 1..Len(queue'[p]) : queue'[p][n] = o
    /\ \A n \in 1..Len(queue'[p]) :
          n > Len(queue[p]) =>
             /\ queue'[p][n] \in S
             /\ \A o \in S : o < queue'[p][n] => \E m \in 1..n - 1 : queue'[p][m] = o
             /\ \A m \in 1..Len(queue'[p]) :
                   m > Len(queue[p]) /\ queue'[p][m] = queue'[p][n] => m = n

\* What is taken from the front of it is either sent or let go of.
Popped(p) ==
    /\ Len(queue[p]) \in Nat \ {0} /\ Len(queue'[p]) = Len(queue[p]) - 1
    /\ \A n \in 1..Len(queue'[p]) : queue'[p][n] = queue[p][n + 1]
    /\ recalled'[p] = recalled[p] \ {queue[p][1]}
    /\ attempted'[p] = attempted[p]
    /\ work[p] = Idle
    /\ IF queue[p][1] \in recalled[p] THEN work'[p] = Idle
       ELSE work'[p] = [op |-> queue[p][1], phase |-> "begun", next |-> Nothing]

LEMMA TakesQueue ==
  ASSUME IInv, NEW p \in Processes, NEW S \in SUBSET Operations, Takes(p, S)
  PROVE  Appended(p, S)
<1> DEFINE c == Cardinality(S)
           l == Len(queue[p])
<1>1. PICK q \in [1..c -> S] : InOrder(q) /\ queue' = [queue EXCEPT ![p] = @ \o q]
  BY DEF Takes
<1>2. IsFiniteSet(S) /\ c \in Nat
  BY FS_Subset, FS_CardinalityType
<1> HIDE DEF c
<1>3. q \in Seq(Operations) /\ Len(q) = c /\ DOMAIN q = 1..c
  <2>1. q \in [1..c -> Operations]
    BY <1>1
  <2> QED
    BY <1>1, <1>2, <2>1, SeqDef
<1>4. queue[p] \in Seq(Operations) /\ queue'[p] = queue[p] \o q
  BY <1>1 DEF IInv, TypeOK
<1>5. /\ l \in Nat
      /\ Len(queue'[p]) = l + c
      /\ \A i \in 1..l + c : queue'[p][i] = IF i <= l THEN queue[p][i] ELSE q[i - l]
  <2>1. queue[p] \in Seq(Operations) /\ q \in Seq(Operations)
    BY <1>3, <1>4
  <2>2. l \in Nat
    BY <2>1
  <2>3. /\ Len(queue[p] \o q) = Len(queue[p]) + Len(q)
        /\ \A i \in 1..Len(queue[p]) + Len(q) :
              (queue[p] \o q)[i] = IF i <= Len(queue[p]) THEN queue[p][i] ELSE q[i - Len(queue[p])]
    BY <2>1, ConcatProperties
  <2> QED
    BY <1>3, <1>4, <2>2, <2>3
<1> HIDE DEF l
<1>6. \A m, n \in 1..c : m < n => q[m] < q[n]
  BY <1>1, <1>3 DEF InOrder
<1>11. \A m, n \in 1..c : q[m] = q[n] => m = n
  <2> SUFFICES ASSUME NEW m \in 1..c, NEW n \in 1..c, q[m] = q[n], m # n PROVE FALSE
    OBVIOUS
  <2>1. q[m] \in Nat /\ q[n] \in Nat
    BY <1>1
  <2>2. m < n \/ n < m
    BY <1>2
  <2> QED
    BY <1>6, <2>1, <2>2
<1>7. \A o \in S : \E n \in 1..c : q[n] = o
  <2>2. q \in Injection(1..c, S)
    BY <1>1, <1>11 DEF Injection, IsInjective
  <2>3. Cardinality(1..c) = c
    BY <1>2, FS_Interval
  <2>4. q \in Surjection(1..c, S)
    BY <1>2, <2>2, <2>3, FS_Injection DEF c
  <2> QED
    BY <2>4 DEF Surjection
<1>8. ASSUME NEW o \in S PROVE \E n \in 1..Len(queue'[p]) : queue'[p][n] = o
  <2>1. PICK k \in 1..c : q[k] = o
    BY <1>7
  <2>2. l + k \in 1..l + c /\ queue'[p][l + k] = o
    <3>1. l + k \in 1..l + c /\ ~(l + k <= l) /\ l + k - l = k
      BY <1>2, <1>5
    <3> QED
      BY <1>5, <2>1, <3>1
  <2> QED
    BY <1>5, <2>2
<1>9. ASSUME NEW n \in 1..Len(queue'[p]), n > l
      PROVE  /\ queue'[p][n] \in S
             /\ \A o \in S : o < queue'[p][n] => \E m \in 1..n - 1 : queue'[p][m] = o
             /\ \A m \in 1..Len(queue'[p]) : m > l /\ queue'[p][m] = queue'[p][n] => m = n
  <2>1. n - l \in 1..c /\ queue'[p][n] = q[n - l]
    <3>1. n \in 1..l + c /\ ~(n <= l) /\ n - l \in 1..c
      BY <1>2, <1>5, <1>9
    <3> QED
      BY <1>5, <3>1
  <2>2. ASSUME NEW o \in S, o < q[n - l] PROVE \E m \in 1..n - 1 : queue'[p][m] = o
    <3>1. PICK k \in 1..c : q[k] = o
      BY <1>7
    <3>2. k < n - l
      <4>1. o \in Nat /\ q[n - l] \in Nat
        BY <1>1, <2>1
      <4>2. k = n - l => FALSE
        BY <2>2, <3>1, <4>1
      <4>3. n - l < k => FALSE
        <5>1. n - l < k => q[n - l] < q[k]
          BY <1>6, <2>1
        <5> QED
          BY <2>2, <3>1, <4>1, <5>1
      <4>4. k \in Nat /\ n - l \in Nat
        BY <1>2, <2>1
      <4> QED
        BY <4>2, <4>3, <4>4
    <3>3. l + k \in 1..n - 1 /\ l + k \in 1..l + c /\ ~(l + k <= l) /\ l + k - l = k
      BY <1>2, <1>5, <3>2
    <3>4. queue'[p][l + k] = o
      BY <1>5, <3>1, <3>3
    <3> QED
      BY <3>3, <3>4
  <2>3. ASSUME NEW m \in 1..Len(queue'[p]), m > l, queue'[p][m] = queue'[p][n] PROVE m = n
    <3>1. m - l \in 1..c /\ queue'[p][m] = q[m - l]
      <4>1. m \in 1..l + c /\ ~(m <= l) /\ m - l \in 1..c
        BY <1>2, <1>5, <2>3
      <4> QED
        BY <1>5, <4>1
    <3>2. m - l = n - l
      BY <1>11, <2>1, <2>3, <3>1
    <3> QED
      BY <1>2, <1>5, <3>2
  <2> QED
    BY <1>1, <2>1, <2>2, <2>3
<1>10. attempted'[p] = attempted[p] \cup S
  BY DEF Takes, IInv, TypeOK
<1> QED
  <2>1. l + c \in Nat /\ l <= l + c /\ \A i \in 1..l : i \in 1..l + c /\ i <= l
    BY <1>2, <1>5
  <2>2. l \in Nat /\ Len(queue'[p]) \in Nat /\ l <= Len(queue'[p])
    BY <1>5, <2>1
  <2>3. \A n \in 1..l : queue'[p][n] = queue[p][n]
    BY <1>5, <2>1
  <2> QED
    BY ONLY <1>8, <1>9, <1>10, <2>2, <2>3 DEF l, Appended

LEMMA TakeQueue ==
  ASSUME IInv, NEW p \in Processes, Take(p)
  PROVE  Popped(p)
<1>1. queue[p] \in Seq(Operations) /\ queue[p] # <<>> /\ queue'[p] = Tail(queue[p])
  BY DEF IInv, TypeOK, Take
<1>2. Head(queue[p]) = queue[p][1] /\ Len(queue[p]) \in Nat \ {0}
  BY <1>1
<1>3. /\ Len(queue'[p]) = Len(queue[p]) - 1
      /\ \A n \in 1..Len(queue'[p]) : queue'[p][n] = queue[p][n + 1]
  BY <1>1, HeadTailProperties
<1>4. recalled'[p] = recalled[p] \ {queue[p][1]} /\ attempted'[p] = attempted[p]
  BY <1>2 DEF IInv, TypeOK, Take
<1>5. /\ work[p] = Idle
      /\ IF queue[p][1] \in recalled[p] THEN work'[p] = Idle
         ELSE work'[p] = [op |-> queue[p][1], phase |-> "begun", next |-> Nothing]
  BY <1>2 DEF IInv, TypeOK, Take, Doing
<1> QED
  BY <1>2, <1>3, <1>4, <1>5 DEF Popped

LEMMA HandMadeStep ==
  ASSUME IInv, NEW p \in Processes, HandMade(p), made \subseteq made', Kinds(p)
  PROVE  HandMade(p)'
<1> USE DEF HandMade
<1>1. CASE Stays(p) \/ LetsGo(p) \/ Clears(p) \/ Ends(p)
  BY <1>1, IdleTyped DEF Stays, LetsGo, Clears, Ends, Queued
<1>2. CASE Hands(p)
  <2>1. PICK S \in SUBSET (made \cap Untried(p)) : Appended(p, S)
    BY <1>2, TakesQueue DEF Hands, IInv, TypeOK
  <2>2. attempted'[p] \cup recalled'[p] \subseteq made'
    BY <1>2, <2>1 DEF Hands, Appended
  <2>3. ASSUME NEW n \in 1..Len(queue'[p]) PROVE queue'[p][n] \in made
    <3>1. n <= Len(queue[p]) => queue'[p][n] \in made
      BY <2>1 DEF Appended
    <3>2. n > Len(queue[p]) => queue'[p][n] \in made
      BY <2>1 DEF Appended
    <3> QED
      BY <2>1, <3>1, <3>2 DEF Appended
  <2> QED
    BY <1>2, <2>2, <2>3 DEF Hands
<1>3. CASE Take(p)
  <2>1. Popped(p)
    BY <1>3, TakeQueue
  <2>2. 1 \in 1..Len(queue[p]) /\ \A n \in 1..Len(queue'[p]) : n + 1 \in 1..Len(queue[p])
    BY <2>1 DEF Popped
  <2>3. \A n \in 1..Len(queue'[p]) : queue'[p][n] \in made
    BY <2>1, <2>2 DEF Popped
  <2>4. attempted'[p] \cup recalled'[p] \subseteq made
    BY <2>1 DEF Popped
  <2>5. work'[p].phase = "begun" => work'[p].op \in made
    BY <2>1, <2>2, IdleTyped DEF Popped
  <2> QED
    BY <2>3, <2>4, <2>5
<1>4. CASE Dies(p)
  <2>1. Len(queue'[p]) = 0
    BY <1>4 DEF Dies
  <2> QED
    BY <1>4, <2>1, IdleTyped DEF Dies
<1> QED
  BY <1>1, <1>2, <1>3, <1>4 DEF Kinds

LEMMA OnceStep ==
  ASSUME IInv, NEW p \in Processes, Once(p), Kinds(p)
  PROVE  Once(p)'
<1> USE DEF Once
<1>0. /\ queue[p] \in Seq(Operations) /\ Len(queue[p]) \in Nat
      /\ \A n \in 1..Len(queue[p]) : queue[p][n] \in Operations /\ queue[p][n] # Nothing
  BY DEF IInv, TypeOK
<1>1. CASE Stays(p) \/ LetsGo(p)
  BY <1>1 DEF Stays, LetsGo, Queued
<1>2. CASE Clears(p)
  <2>1. Len(queue'[p]) = 0 /\ Len(queue[p]) = 0
    BY <1>2 DEF Clears, Rest
  <2> QED
    BY <1>2, <2>1, IdleTyped DEF Clears, Rest
<1>3. CASE Ends(p)
  <2>1. Idle.op = Nothing
    BY DEF Idle
  <2> QED
    BY <1>0, <1>3, <2>1, IdleTyped DEF Ends, Queued
<1>4. CASE Hands(p)
  <2>1. PICK S \in SUBSET (made \cap Untried(p)) : Appended(p, S)
    BY <1>4, TakesQueue DEF Hands, IInv, TypeOK
  <2>2. /\ S \cap attempted[p] = {} /\ work[p].op \notin S
        /\ work'[p] = work[p] /\ recalled'[p] = recalled[p]
    BY <1>4 DEF Hands, Untried, HandedOver
  <2>3. ASSUME NEW n \in 1..Len(queue'[p])
        PROVE  /\ n <= Len(queue[p]) => n \in 1..Len(queue[p]) /\ queue'[p][n] = queue[p][n]
               /\ ~(n <= Len(queue[p])) => n > Len(queue[p]) /\ queue'[p][n] \in S
    BY <1>0, <2>1 DEF Appended
  <2>4. \A n \in 1..Len(queue'[p]) : queue'[p][n] \in attempted'[p] /\ queue'[p][n] # work'[p].op
    BY <2>1, <2>2, <2>3 DEF Appended
  <2>5. ASSUME NEW m \in 1..Len(queue'[p]), NEW n \in 1..Len(queue'[p]), queue'[p][m] = queue'[p][n]
        PROVE  m = n
    <3>1. CASE m <= Len(queue[p]) /\ n <= Len(queue[p])
      BY <2>3, <2>5, <3>1
    <3>2. CASE m <= Len(queue[p]) /\ ~(n <= Len(queue[p]))
      BY <2>2, <2>3, <2>5, <3>2
    <3>3. CASE ~(m <= Len(queue[p])) /\ n <= Len(queue[p])
      BY <2>2, <2>3, <2>5, <3>3
    <3>4. CASE ~(m <= Len(queue[p])) /\ ~(n <= Len(queue[p]))
      <4>1. m > Len(queue[p]) /\ n > Len(queue[p])
        BY <2>3, <3>4
      <4> QED
        BY <2>1, <2>5, <4>1 DEF Appended
    <3> QED
      BY <3>1, <3>2, <3>3, <3>4
  <2>6. \A n \in 1..Len(queue[p]) : n \in 1..Len(queue'[p]) /\ queue'[p][n] = queue[p][n]
    BY <2>1 DEF Appended
  <2>7. \A o \in recalled'[p] : \E n \in 1..Len(queue'[p]) : queue'[p][n] = o
    BY <2>2, <2>6
  <2>8. work'[p].phase # "idle" => work'[p].op \in attempted'[p]
    BY <2>1, <2>2 DEF Appended
  <2> QED
    BY <2>4, <2>5, <2>7, <2>8
<1>5. CASE Take(p)
  <2>1. Popped(p)
    BY <1>5, TakeQueue
  <2>2. /\ 1 \in 1..Len(queue[p])
        /\ \A n \in 1..Len(queue'[p]) :
              n \in Nat /\ n + 1 \in 1..Len(queue[p]) /\ n + 1 # 1 /\ queue'[p][n] = queue[p][n + 1]
    BY <2>1 DEF Popped
  <2>3. work'[p].op \in {queue[p][1], Nothing}
    BY <2>1 DEF Popped, Idle
  <2>4. \A n \in 1..Len(queue'[p]) : queue'[p][n] \in attempted'[p] /\ queue'[p][n] # work'[p].op
    BY <1>0, <2>1, <2>2, <2>3 DEF Popped
  <2>5. work'[p].phase # "idle" => work'[p].op \in attempted'[p]
    BY <2>1, <2>2, IdleTyped DEF Popped
  <2>6. \A m, n \in 1..Len(queue'[p]) : queue'[p][m] = queue'[p][n] => m = n
    <3> SUFFICES ASSUME NEW m \in 1..Len(queue'[p]), NEW n \in 1..Len(queue'[p]),
                        queue'[p][m] = queue'[p][n]
                 PROVE  m = n
      OBVIOUS
    <3>1. m + 1 = n + 1
      BY <2>2
    <3> QED
      BY <2>2, <3>1
  <2>7. ASSUME NEW o \in recalled'[p] PROVE \E n \in 1..Len(queue'[p]) : queue'[p][n] = o
    <3>1. o \in recalled[p] /\ o # queue[p][1]
      BY <2>1 DEF Popped
    <3>2. PICK k \in 1..Len(queue[p]) : queue[p][k] = o
      BY <3>1
    <3>3. k # 1
      BY <3>1, <3>2
    <3>4. k - 1 \in 1..Len(queue'[p]) /\ k - 1 + 1 = k
      BY <2>1, <3>3 DEF Popped
    <3>5. queue'[p][k - 1] = o
      BY <2>2, <3>2, <3>4
    <3> QED
      BY <3>4, <3>5
  <2> QED
    BY <2>4, <2>5, <2>6, <2>7
<1>6. CASE Dies(p)
  <2>1. Len(queue'[p]) = 0
    BY <1>6 DEF Dies
  <2> QED
    BY <1>6, <2>1, IdleTyped DEF Dies
<1> QED
  BY <1>1, <1>2, <1>3, <1>4, <1>5, <1>6 DEF Kinds

LEMMA HandsMadeStep == IInv /\ OInv /\ Next => HandsMade'
<1> SUFFICES ASSUME IInv, OInv, Next PROVE HandsMade'
  OBVIOUS
<1>1. \/ made' = made
      \/ \E o \in Operations : Fresh(o) /\ made' = made \cup {o}
  <2>1. CASE Persons
    BY <2>1 DEF Persons, Enqueue, Oppose, Recall, Dismiss, TakesBack
  <2>2. CASE Stores
    BY <2>2 DEF Stores, Remove, WriteLands, WriteFails, LeaseLapses
  <2>3. CASE Drains
    BY <2>3 DEF Drains, StartDrain, Reconcile, ReadFails, Rescan, EndDrain
  <2>4. CASE Sending
    <3>1. ASSUME NEW p \in Processes, NEW n \in Operations, SettleCarrying(p, n)
          PROVE  Fresh(n) /\ made' = made \cup {n}
      BY <3>1 DEF SettleCarrying
    <3>2. ASSUME NEW p \in Processes,
                 Take(p) \/ Lease(p) \/ LoseLease(p) \/ LeaseFails(p) \/ RecordFails(p)
          PROVE  made' = made
      BY <3>2 DEF Take, Lease, LoseLease, LeaseFails, RecordFails
    <3>3. ASSUME NEW p \in Processes,
                 Settle(p) \/ SettleFails(p) \/ CarryFails(p) \/ Refuse(p) \/ NoAnswer(p)
          PROVE  made' = made
      BY <3>3 DEF Settle, SettleFails, CarryFails, Refuse, NoAnswer, Park, Record
    <3> QED
      BY <2>4, <3>1, <3>2, <3>3 DEF Sending
  <2>5. CASE Lives
    BY <2>5 DEF Lives, Crash, Start
  <2> QED
    BY <2>1, <2>2, <2>3, <2>4, <2>5 DEF Next
<1>2. made \subseteq made'
  BY <1>1
<1>3. \A later \in made', earlier \in Operations : earlier < later => earlier \in made'
  BY <1>1 DEF OInv, HandsMade, Fresh
<1>4. ASSUME NEW p \in Processes PROVE HandMade(p)' /\ Once(p)'
  <2>1. HandMade(p) /\ Once(p)
    BY DEF OInv, HandsMade
  <2> QED
    BY <1>2, <2>1, KindsOfNext, HandMadeStep, OnceStep
<1> QED
  BY <1>3, <1>4 DEF HandsMade

\* An operation just made has nothing later in front of it.
LEMMA EnqueueFirst ==
  ASSUME IInv, OInv, NEW p \in Processes, NEW o \in Operations,
         Enqueue(p, o) \/ SettleCarrying(p, o)
  PROVE  First(p, o)'
<1>1. UNCHANGED <<recalled, queue>> /\ o \notin made
  BY DEF Enqueue, SettleCarrying, Lands, Fresh
<1>2. o \notin recalled[p] /\ ~Sends(p, o)
  BY <1>1 DEF OInv, HandsMade, HandMade, IInv, MadeFirst
<1>3. \A later \in made : later <= o /\ ~(later > o)
  <2>1. \A later \in made : ~(o < later)
    BY <1>1 DEF OInv, HandsMade
  <2>2. made \subseteq Nat /\ o \in Nat
    BY DEF IInv, TypeOK
  <2> QED
    BY <2>1, <2>2
<1>4. \A n \in 1..Len(queue[p]) : ~(queue[p][n] > o)
  BY <1>3 DEF OInv, HandsMade, HandMade
<1>5. /\ work'[p].phase = "begun" => work'[p].op <= o
      /\ ~Sends(p, o)'
  <2>1. CASE Enqueue(p, o)
    <3>1. work' = work
      BY <2>1 DEF Enqueue
    <3> QED
      BY <1>2, <1>3, <3>1 DEF OInv, HandsMade, HandMade, Sends
  <2>2. CASE SettleCarrying(p, o)
    <3>1. work'[p].phase = "carrying" /\ work'[p].op = work[p].op /\ work[p].phase = "asked"
      BY <2>2 DEF SettleCarrying, Lands, IInv, TypeOK
    <3> QED
      BY <1>2, <3>1 DEF Sends
  <2> QED
    BY <2>1, <2>2
<1> QED
  BY <1>1, <1>2, <1>4, <1>5 DEF First

\* A drain that ends leaves nothing in hand.
LEMMA ClearsFirst ==
  ASSUME OInv, NEW p \in Processes, NEW o \in Operations, Clears(p)
  PROVE  First(p, o)'
<1>1. /\ queue'[p] = queue[p] /\ work'[p] = work[p] /\ recalled'[p] = recalled[p]
      /\ queue[p] = <<>> /\ work[p].phase = "idle"
  BY IdleTyped DEF Clears, Rest
<1>2. Len(queue[p]) = 0
  BY <1>1
<1>3. recalled[p] = {}
  BY <1>2 DEF OInv, HandsMade, Once
<1> QED
  BY <1>1, <1>2, <1>3 DEF First, Sends

\* What has had its turn in a drain has had it until that drain ends.
LEMMA PassedLasts ==
  ASSUME IInv, NEW p \in Processes, Kinds(p), ~Clears(p), ~Dies(p)
  PROVE  Passed(p) \cap Operations \subseteq Passed(p)'
<1>1. CASE Stays(p) \/ LetsGo(p)
  BY <1>1 DEF Stays, LetsGo, Queued, Passed, HandedOver
<1>2. CASE Hands(p)
  <2>1. PICK S \in SUBSET (made \cap Untried(p)) : Appended(p, S)
    BY <1>2, TakesQueue DEF Hands, IInv, TypeOK
  <2>2. \A n \in 1..Len(queue'[p]) : queue'[p][n] \in HandedOver(p) \cup S
    <3>1. \A n \in 1..Len(queue'[p]) : ~(n > Len(queue[p])) => n \in 1..Len(queue[p])
      BY <2>1 DEF Appended
    <3> QED
      BY <2>1, <3>1 DEF Appended, HandedOver
  <2>3. HandedOver(p)' \subseteq HandedOver(p) \cup S
    BY <1>2, <2>2 DEF Hands, HandedOver
  <2>4. S \cap attempted[p] = {}
    BY DEF Untried
  <2> QED
    BY <2>1, <2>3, <2>4 DEF Passed, Appended
<1>3. CASE Take(p)
  <2>1. Popped(p)
    BY <1>3, TakeQueue
  <2>2. work'[p].op \in {queue[p][1], Nothing}
    BY <2>1 DEF Popped, Idle
  <2>3. /\ 1 \in 1..Len(queue[p])
        /\ \A n \in 1..Len(queue'[p]) :
              n + 1 \in 1..Len(queue[p]) /\ queue'[p][n] = queue[p][n + 1]
    BY <2>1 DEF Popped
  <2>4. HandedOver(p)' \subseteq HandedOver(p) \cup {Nothing}
    BY <2>2, <2>3 DEF HandedOver
  <2> QED
    BY <2>1, <2>4 DEF Passed, Popped
<1>4. CASE Ends(p)
  <2>1. work'[p].op \in {work[p].op, Nothing}
    BY <1>4 DEF Ends, Idle
  <2>2. HandedOver(p)' \subseteq HandedOver(p) \cup {Nothing}
    BY <1>4, <2>1 DEF Ends, Queued, HandedOver
  <2> QED
    BY <1>4, <2>2 DEF Passed, Ends, Queued
<1> QED
  BY <1>1, <1>2, <1>3, <1>4 DEF Kinds

\* What is taken up goes behind every open operation that is not taken up with it.
LEMMA HandsFirst ==
  ASSUME IInv, NEW p \in Processes, NEW o \in Operations, First(p, o), Open(p, o), Open(p, o)',
         Hands(p)
  PROVE  First(p, o)'
<1>1. PICK S \in SUBSET (made \cap Untried(p)) : Appended(p, S) /\ (o \in Untried(p) => o \in S)
  BY TakesQueue DEF Hands, Open, IInv, TypeOK
<1>2. work'[p] = work[p] /\ recalled'[p] = recalled[p]
  BY DEF Hands
<1>3. \A n \in 1..Len(queue[p]) : n \in 1..Len(queue'[p]) /\ queue'[p][n] = queue[p][n]
  BY <1>1 DEF Appended
<1>5. o \in HandedOver(p) \cup S
  BY <1>1 DEF Untried, Open, Passed
<1>6. ASSUME NEW n \in 1..Len(queue'[p]), queue'[p][n] > o PROVE Before(p, o, n)'
  <2>1. CASE n <= Len(queue[p])
    <3>1. n \in 1..Len(queue[p]) /\ queue[p][n] > o
      BY <1>1, <1>3, <1>6, <2>1 DEF Appended
    <3>2. Before(p, o, n)
      BY <3>1 DEF First
    <3>3. \A m \in 1..n - 1 : m \in 1..Len(queue[p])
      BY <1>1, <2>1 DEF Appended
    <3> QED
      BY <1>2, <1>3, <3>2, <3>3 DEF Before
  <2>2. CASE n > Len(queue[p]) /\ o \in S
    <3>1. o < queue'[p][n]
      BY <1>1, <1>6, <2>2 DEF Appended, IInv, TypeOK
    <3>2. \E m \in 1..n - 1 : queue'[p][m] = o
      BY <1>1, <2>2, <3>1 DEF Appended
    <3> QED
      BY <3>2 DEF Before
  <2>3. CASE n > Len(queue[p]) /\ o \in HandedOver(p)
    <3>1. work[p].op = o \/ \E m \in 1..Len(queue[p]) : queue[p][m] = o
      BY <2>3 DEF HandedOver
    <3>2. \A m \in 1..Len(queue[p]) : m \in 1..n - 1
      BY <1>1, <2>3 DEF Appended
    <3> QED
      BY <1>2, <1>3, <3>1, <3>2 DEF Before
  <2> QED
    BY <1>1, <1>5, <2>1, <2>2, <2>3 DEF Appended
<1> QED
  BY <1>2, <1>6 DEF First, Sends

LEMMA TakeFirst ==
  ASSUME IInv, OInv, NEW p \in Processes, NEW o \in Operations, First(p, o), Take(p)
  PROVE  First(p, o)'
<1>1. Popped(p)
  BY TakeQueue
<1>2. work[p].op # o /\ work[p].phase = "idle"
  BY <1>1 DEF Popped, Idle
<1>3. /\ 1 \in 1..Len(queue[p])
      /\ \A n \in 1..Len(queue'[p]) : n \in Nat /\ n + 1 \in 1..Len(queue[p])
  BY <1>1 DEF Popped
<1>4. o = queue[p][1] => work'[p].op = o
  BY <1>1 DEF Popped, First
<1>5. work'[p].phase = "begun" => work'[p].op = queue[p][1]
  BY <1>1, IdleTyped DEF Popped
<1>6. ~(queue[p][1] > o)
  <2>1. queue[p][1] > o => Before(p, o, 1)
    BY <1>3 DEF First
  <2>2. ~Before(p, o, 1)
    BY <1>2 DEF Before
  <2> QED
    BY <2>1, <2>2
<1>7. work'[p].phase = "begun" => work'[p].op <= o
  <2>1. queue[p][1] \in Nat
    <3>1. queue[p][1] \in made
      BY <1>3 DEF OInv, HandsMade, HandMade
    <3> QED
      BY <3>1 DEF IInv, TypeOK
  <2> QED
    BY <1>5, <1>6, <2>1
<1>8. ~Sends(p, o)'
  BY <1>1, IdleTyped DEF Popped, Sends
<1>9. ASSUME NEW n \in 1..Len(queue'[p]), queue'[p][n] > o PROVE Before(p, o, n)'
  <2>1. Before(p, o, n + 1)
    BY <1>1, <1>3, <1>9 DEF First, Popped
  <2>2. PICK m \in 1..n : queue[p][m] = o
    BY <1>2, <1>3, <2>1 DEF Before
  <2>3. CASE m = 1
    BY <1>4, <2>2, <2>3 DEF Before
  <2>4. CASE m # 1
    <3>1. m - 1 \in 1..n - 1 /\ m - 1 \in 1..Len(queue'[p]) /\ m - 1 + 1 = m
      BY <1>1, <1>3, <2>4 DEF Popped
    <3>2. queue'[p][m - 1] = o
      BY <1>1, <2>2, <3>1 DEF Popped
    <3> QED
      BY <3>1, <3>2 DEF Before
  <2> QED
    BY <2>3, <2>4
<1> QED
  BY <1>1, <1>7, <1>8, <1>9 DEF First, Popped

LEMMA FirstStep ==
  ASSUME IInv, OInv, NEW p \in Processes, NEW o \in Operations, First(p, o),
         Open(p, o), Open(p, o)', Kinds(p)
  PROVE  First(p, o)'
<1>1. CASE Stays(p) \/ LetsGo(p) \/ Clears(p)
  <2>1. queue'[p] = queue[p] /\ work'[p] = work[p]
    BY <1>1 DEF Stays, LetsGo, Clears, Queued
  <2>2. o \notin recalled'[p]
    BY <1>1 DEF Stays, LetsGo, Clears, First, Open
  <2> QED
    BY <2>1, <2>2 DEF First, Sends, Before
<1>2. CASE Hands(p)
  BY <1>2, HandsFirst
<1>3. CASE Take(p)
  BY <1>3, TakeFirst
<1>4. CASE Ends(p)
  <2>1. o # work[p].op
    BY <1>4 DEF Ends
  <2> QED
    BY <1>4, <2>1, IdleTyped DEF Ends, Queued, First, Sends, Before
<1>5. CASE Dies(p)
  BY <1>5 DEF Dies, Open
<1> QED
  BY <1>1, <1>2, <1>3, <1>4, <1>5 DEF Kinds

LEMMA OrderStep == IInv /\ OInv /\ [Next]_vars => OInv'
<1> SUFFICES ASSUME IInv, OInv, [Next]_vars PROVE OInv'
  OBVIOUS
<1>1. CASE Next
  <2>1. ASSUME NEW p \in Processes, NEW o \in Operations, Open(p, o)' PROVE First(p, o)'
    <3>1. CASE Enqueue(p, o) \/ SettleCarrying(p, o)
      BY <3>1, EnqueueFirst
    <3>2. CASE ~(Enqueue(p, o) \/ SettleCarrying(p, o))
      <4>1. Waits(p, o) /\ Kinds(p) /\ ~Dies(p)
        BY <1>1, <2>1, <3>2, WaitsLasts, KindsOfNext DEF Open, Dies
      <4>2. ~Clears(p) => Open(p, o)
        BY <2>1, <4>1, PassedLasts DEF Open
      <4>3. Clears(p) => First(p, o)'
        BY <4>1, ClearsFirst
      <4> QED
        BY <2>1, <4>1, <4>2, <4>3, FirstStep DEF OInv, OpenFirst
    <3> QED
      BY <3>1, <3>2
  <2> QED
    BY <1>1, <2>1, HandsMadeStep DEF OInv, OpenFirst
<1>2. CASE UNCHANGED vars
  <2>1. UNCHANGED <<seen, restored, held, leaving, recalled, queue, work, attempted, made>>
    BY <1>2 DEF vars, own
  <2>2. HandsMade'
    BY <2>1 DEF OInv, HandsMade, HandMade, Once
  <2>3. ASSUME NEW p \in Processes, NEW o \in Operations
        PROVE  (Open(p, o)' <=> Open(p, o)) /\ (First(p, o)' <=> First(p, o))
    <3>1. Open(p, o)' <=> Open(p, o)
      BY <2>1 DEF Open, Waits, Passed, HandedOver
    <3>2. First(p, o)' <=> First(p, o)
      BY <2>1 DEF First, Sends, Before
    <3> QED
      BY <3>1, <3>2
  <2> QED
    BY <2>2, <2>3 DEF OInv, OpenFirst
<1> QED
  BY <1>1, <1>2

LEMMA OrderInit == Init => OInv
<1> SUFFICES ASSUME Init PROVE OInv
  OBVIOUS
<1>1. ASSUME NEW p \in Processes PROVE HandMade(p) /\ Once(p)
  BY IdleTyped DEF Init, HandMade, Once
<1>2. ASSUME NEW p \in Processes, NEW o \in Operations PROVE ~Open(p, o)
  BY DEF Init, Open, Waits
<1>3. made = {}
  BY DEF Init
<1> QED
  BY <1>1, <1>2, <1>3 DEF OInv, HandsMade, OpenFirst

LEMMA AlwaysOrder == Spec => []OInv
<1>1. IInv /\ OInv /\ [Next]_vars => OInv'
  BY OrderStep
<1> QED
  BY OrderInit, <1>1, AlwaysInv, PTL DEF Spec

\* Only a lease begins a send.
LEMMA SendsByLease ==
  ASSUME IInv, Next, NEW p \in Processes, NEW o \in Operations, Sends(p, o)', ~Sends(p, o)
  PROVE  work[p].phase = "begun" /\ work[p].op = o
<1>0. work \in [Processes -> Works]
  BY DEF IInv, TypeOK, Works
<1>1. ASSUME NEW q \in Processes, Take(q) PROVE FALSE
  BY <1>0, <1>1 DEF Take, Doing, Sends
<1>2. ASSUME NEW q \in Processes, Lease(q) PROVE work[p].phase = "begun" /\ work[p].op = o
  BY <1>0, <1>2 DEF Lease, Doing, Sends
<1>3. ASSUME NEW q \in Processes, Doing(q, work[q].op, "recording"),
             work[q].phase \in {"asked", "carrying"}
      PROVE  FALSE
  BY <1>0, <1>3 DEF Doing, Sends
<1>4. ASSUME NEW q \in Processes, Finished(q) PROVE FALSE
  BY <1>0, <1>4, IdleTyped DEF Finished, Sends
<1>5. ASSUME NEW q \in Processes, NEW n \in Operations, WriteLands(q, n) PROVE FALSE
  BY <1>0, <1>5, IdleTyped DEF WriteLands, Sends
<1>6. ASSUME NEW q \in Processes, NEW n \in Operations, SettleCarrying(q, n) PROVE FALSE
  BY <1>0, <1>6 DEF SettleCarrying, Lands, Sends
<1>7. work' # work
  BY DEF Sends
<1>8. CASE Persons
  BY <1>7, <1>8 DEF Persons, Enqueue, Oppose, Recall, Dismiss, TakesBack
<1>9. CASE Stores
  BY <1>5, <1>7, <1>9 DEF Stores, Remove, WriteFails, LeaseLapses, own
<1>10. CASE Drains
  BY <1>7, <1>10 DEF Drains, StartDrain, Reconcile, ReadFails, Rescan, EndDrain
<1>11. CASE Sending
  <2>1. ASSUME NEW q \in Processes, LoseLease(q) \/ LeaseFails(q) \/ Settle(q) \/ RecordFails(q)
        PROVE  FALSE
    BY <1>4, <2>1 DEF LoseLease, LeaseFails, Settle, RecordFails, Breaks
  <2>2. ASSUME NEW q \in Processes,
               SettleFails(q) \/ CarryFails(q) \/ Refuse(q) \/ NoAnswer(q)
        PROVE  FALSE
    BY <1>3, <2>2 DEF SettleFails, Lands, CarryFails, Refuse, NoAnswer, Park, Record
  <2> QED
    BY <1>1, <1>2, <1>6, <1>11, <2>1, <2>2 DEF Sending
<1>12. CASE Lives
  BY <1>4, <1>7, <1>12 DEF Lives, Crash, Start
<1> QED
  BY <1>8, <1>9, <1>10, <1>11, <1>12 DEF Next

\* While an operation waits its first turn, nothing made after it goes to the
\* pool: the queue it stands in is in order, however often it was filled and
\* whatever was taken out of it. Its turn is over when the store fails it.
THEOREM InTheirOrder == Spec => OrderKept
<1>1. ASSUME IInv, OInv, Next,
             NEW p \in Processes, NEW later \in Operations, NEW earlier \in Operations,
             Sends(p, later)', ~Sends(p, later), earlier < later,
             {earlier, later} \subseteq seen[p] \ restored[p], held[p][earlier] = "pending"
      PROVE  earlier \in leaving[p] \cup (attempted[p] \ HandedOver(p))
  <2>1. work[p].phase = "begun" /\ work[p].op = later
    BY <1>1, SendsByLease
  <2>2. Open(p, earlier) => later <= earlier
    BY <1>1, <2>1 DEF OInv, OpenFirst, First
  <2>3. ~Open(p, earlier)
    BY <1>1, <2>2
  <2> QED
    BY <1>1, <2>3 DEF Open, Waits, Passed
<1>2. IInv /\ OInv /\ [Next]_vars =>
      [\A p \in Processes, later, earlier \in Operations :
          /\ Sends(p, later)' /\ ~Sends(p, later)
          /\ earlier < later
          /\ {earlier, later} \subseteq seen[p] \ restored[p]
          /\ held[p][earlier] = "pending"
          => earlier \in leaving[p] \cup (attempted[p] \ HandedOver(p))]_vars
  BY <1>1
<1> QED
  BY <1>2, AlwaysInv, AlwaysOrder, PTL DEF Spec, OrderKept
=============================================================================
