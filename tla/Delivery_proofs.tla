-------------------------- MODULE Delivery_proofs ---------------------------
(***************************************************************************)
(* The safety of Delivery for every number of items, records and runners,  *)
(* every batch size and every number of faults.                            *)
(***************************************************************************)
EXTENDS Delivery, TLAPS

-----------------------------------------------------------------------------
(* The inductive invariant, one idea a conjunct.                            *)

\* Only a queued job is leased, and one still queued has an attempt left.
JobsWellFormed ==
    \A r \in Records :
        /\ job[r].lease # Nowhere => job[r].status = "queued"
        /\ job[r].status = "queued" => job[r].attempt < MaxAttempts

\* A stored record says what was decided of a stored item; only a decision for
\* a destination is reserved or withdrawn.
RecordsWellFormed ==
    \A r \in Records :
        /\ Stored(r) => decision[r] \in Decision /\ decision[r].item \in items
        /\ state[r] = "pending" => decision[r].target = "destination"
        /\ r \in withdrawn => /\ state[r] = "delivered"
                              /\ decision[r].target = "destination"

\* What a runner has claimed and not reported is its alone: no other claimed it
\* on a free row, and nobody landed it or called it off meanwhile.
ClaimsExclusive ==
    \A k \in Workers : \A r \in fresh[k] :
        /\ \A l \in Workers : r \in fresh[l] => l = k
        /\ state[r] \in {"pending", "abandoned"}
        /\ job[r].status = "queued" => job[r].lease # Nowhere
        /\ \A l \in Workers : job[r].lease = <<l, "first">> => l = k

\* A runner sends and reports only what it claimed, and reports what it knows.
AttemptsKnown ==
    \A k \in Workers :
        /\ at[k] # Nowhere <=> phase[k] \in {"sending", "arrived", "reporting"}
        /\ at[k] # Nowhere => at[k] \in fresh[k]
        /\ phase[k] = "arrived" => copies[at[k]] > 0
        /\ phase[k] = "reporting" =>
            /\ outcome[k] = "delivered" => copies[at[k]] > 0
            /\ outcome[k] = "retryable" /\ job[at[k]].status = "queued"
               /\ at[k] \in Confirmed => copies[at[k]] = 0
            /\ outcome[k] = "succeeded" => state[at[k]] # "pending"

\* What is under way has room to arrive, is one more than was counted, and says
\* what its record carries.
UnderWay ==
    \A k \in Workers : phase[k] = "sending" =>
        /\ ~Taken(at[k]) => copies[at[k]] < CopiesAllowed(at[k])
        /\ job[at[k]].status = "queued" => copies[at[k]] <= CopiesCounted(at[k])
        /\ Stored(at[k]) => sent[at[k]] = Carried(at[k])

\* Where there can be a copy, and where there must be one.
CopiesKnown ==
    \A r \in Records :
        /\ copies[r] \in 0..CopiesAllowed(r)
        /\ state[r] = "none" => copies[r] = 0
        /\ state[r] = "cancelled" /\ r \in Confirmed => copies[r] = 0
        /\ job[r].status = "queued" /\ job[r].lease = Nowhere
           => copies[r] <= CopiesCounted(r)
        /\ \A k \in Workers : r \in fresh[k] /\ job[r].status = "queued" =>
            /\ at[k] # r => copies[r] <= CopiesCounted(r)
            /\ at[k] = r => copies[r] <= CopiesCounted(r) + 1
        /\ state[r] = "delivered" =>
            IF decision[r].target = "user" THEN copies[r] = 0 ELSE copies[r] > 0

\* What arrived still reads, until the item is amended under a withdrawal.
WordsKnown ==
    \A r \in Records :
        /\ Stored(r)
        /\ copies[r] > 0
        /\ ~(r \in withdrawn /\ r \in edited)
        => sent[r] = Carried(r)

IInv ==
    /\ TypeOK
    /\ JobsWellFormed
    /\ PendingIsOwed
    /\ RecordsWellFormed
    /\ ClaimsExclusive
    /\ AttemptsKnown
    /\ UnderWay
    /\ CopiesKnown
    /\ WordsKnown

-----------------------------------------------------------------------------
(* What the rows a job goes through say.                                    *)

\* A row that was deleted, and one just enqueued.
LEMMA NewRows ==
    /\ NoJob \in Job
    /\ NoJob.status = "none" /\ NoJob.lease = Nowhere
    /\ Enqueued \in Job
    /\ Enqueued.status = "queued" /\ Enqueued.lease = Nowhere /\ Enqueued.attempt = 0
<1>1. NoJob \in Job /\ Enqueued \in Job
  BY ConstantsAssumption DEF Job, NoJob, Enqueued
<1> QED
  BY <1>1 DEF NoJob, Enqueued

\* Freeing a row takes only its lease.
LEMMA ChangedRows ==
    ASSUME NEW r \in Records, job[r] \in Job
    PROVE  /\ FreedJob(r) \in Job
           /\ FreedJob(r).status = job[r].status
           /\ FreedJob(r).attempt = job[r].attempt
           /\ FreedJob(r).lease = Nowhere
BY DEF Job, FreedJob

\* A row that has an attempt left can count one more.
LEMMA CountedRows ==
    ASSUME NEW r \in Records, job[r] \in Job, job[r].attempt < MaxAttempts
    PROVE  /\ RetriedJob(r) \in Job
           /\ RetriedJob(r).status = job[r].status
           /\ RetriedJob(r).attempt = job[r].attempt + 1
           /\ RetriedJob(r).lease = Nowhere
           /\ AbandonedJob(r) \in Job
           /\ AbandonedJob(r).status = "abandoned"
           /\ AbandonedJob(r).lease = Nowhere
<1>1. job[r].attempt + 1 \in 0..MaxAttempts
  BY ConstantsAssumption DEF Job
<1>2. RetriedJob(r) \in Job /\ AbandonedJob(r) \in Job
  BY <1>1 DEF Job, FreedJob, RetriedJob, AbandonedJob
<1> QED
  BY <1>2 DEF Job, FreedJob, RetriedJob, AbandonedJob

\* How many copies are counted changes only with the attempts.
LEMMA CountIsRead ==
    ASSUME NEW r \in Records, job'[r].attempt = job[r].attempt
    PROVE  CopiesCounted(r)' = CopiesCounted(r)
BY DEF CopiesCounted

LEMMA CountsAreRead ==
    ASSUME UNCHANGED job
    PROVE  \A r \in Records : CopiesCounted(r)' = CopiesCounted(r)
BY CountIsRead

\* One counted attempt more leaves room for one copy more, of a queued job for
\* as many as are allowed.
LEMMA CountedCopies ==
    ASSUME NEW r \in Records, job[r] \in Job
    PROVE  /\ CopiesCounted(r) \in Nat
           /\ CopiesAllowed(r) \in Nat
           /\ job[r].attempt = 0 => CopiesCounted(r) = 0
           /\ r \in Confirmed => CopiesCounted(r) = 0
           /\ r \in Repeatable => CopiesCounted(r) <= 1
           /\ job[r].attempt < MaxAttempts =>
                 IF r \in Repeatable \ Confirmed THEN CopiesCounted(r) <= CopiesAllowed(r)
                 ELSE CopiesCounted(r) + 1 <= CopiesAllowed(r)
BY ConstantsAssumption DEF CopiesCounted, CopiesAllowed, Job

\* What is under way stays so while a step leaves its row, its words and its
\* copies alone, or ends its reservation.
LEMMA UnderWayStays ==
    ASSUME IInv,
           \A k \in Workers : phase'[k] = "sending" =>
              /\ phase[k] = "sending"
              /\ at'[k] = at[k],
           \A k \in Workers : phase[k] = "sending" /\ phase'[k] = "sending" =>
              /\ copies'[at[k]] = copies[at[k]]
              /\ job'[at[k]].status = "queued" =>
                    /\ job[at[k]].status = "queued"
                    /\ job'[at[k]].attempt = job[at[k]].attempt
              /\ Stored(at[k])' => /\ Stored(at[k])
                                  /\ sent'[at[k]] = sent[at[k]]
                                  /\ Carried(at[k])' = Carried(at[k])
    PROVE  UnderWay'
<1> SUFFICES ASSUME NEW k \in Workers, phase'[k] = "sending"
             PROVE  /\ ~Taken(at[k])' => copies'[at[k]] < CopiesAllowed(at[k])
                    /\ job'[at[k]].status = "queued"
                          => copies'[at[k]] <= CopiesCounted(at[k])'
                    /\ Stored(at[k])' => sent'[at[k]] = Carried(at[k])'
  BY DEF UnderWay, CopiesAllowed, Taken, CopiesCounted, Stored, Carried
<1>1. /\ phase[k] = "sending" /\ at[k] \in Records
      /\ copies'[at[k]] = copies[at[k]]
  BY ConstantsAssumption DEF IInv, TypeOK, AttemptsKnown
<1>2. Taken(at[k])' <=> Taken(at[k])
  BY <1>1 DEF Taken
<1>3. job'[at[k]].status = "queued" => CopiesCounted(at[k])' = CopiesCounted(at[k])
  BY <1>1, CountIsRead
<1> QED
  BY <1>1, <1>2, <1>3 DEF IInv, UnderWay

\* What a runner sends, nobody else does.
LEMMA SendsAlone ==
    ASSUME IInv, NEW k \in Workers, NEW r \in fresh[k], NEW l \in Workers \ {k}
    PROVE  r \notin fresh[l] /\ at[l] # r
BY ConstantsAssumption DEF IInv, TypeOK, AttemptsKnown, ClaimsExclusive

\* No lease is the absence of one.
LEMMA LeaseIsSomewhere ==
    \A l \in Workers : <<l, "first">> # Nowhere /\ <<l, "again">> # Nowhere
BY ConstantsAssumption DEF Lease

\* A lease still on its row is on a job that is owed.
LEMMA HeldJobIsOwed ==
    ASSUME IInv, NEW r \in Records, job[r].lease # Nowhere
    PROVE  /\ job[r] \in Job
           /\ job[r].status = "queued"
           /\ job[r].attempt < MaxAttempts
           /\ state[r] = "pending"
           /\ Stored(r)
           /\ decision[r].target = "destination"
<1>1. job[r] \in Job /\ job[r].status = "queued" /\ job[r].attempt < MaxAttempts
  BY DEF IInv, TypeOK, JobsWellFormed
<1>2. state[r] = "pending"
  BY <1>1 DEF IInv, PendingIsOwed
<1> QED
  BY <1>1, <1>2 DEF IInv, RecordsWellFormed, Stored

\* A runner performs what it claimed.
LEMMA PerformsItsOwn ==
    ASSUME IInv, NEW k \in Workers, NEW r \in Records, at[k] = r
    PROVE  r \in fresh[k]
BY ConstantsAssumption DEF IInv, AttemptsKnown

\* Giving up on such a job ends its reservation, and touches no other row.
LEMMA GiveUpEnds ==
    ASSUME IInv, NEW r \in Records, job[r].lease # Nowhere, GiveUp(r)
    PROVE  /\ job' \in [Records -> Job]
           /\ state' = [state EXCEPT ![r] = "abandoned"]
           /\ job'[r].status = "abandoned"
           /\ job'[r].lease = Nowhere
           /\ \A q \in Records \ {r} : job'[q] = job[q]
<1>1. job \in [Records -> Job]
  BY DEF IInv, TypeOK
<1>2. AbandonedJob(r) \in Job /\ AbandonedJob(r).status = "abandoned"
                              /\ AbandonedJob(r).lease = Nowhere
  BY HeldJobIsOwed, CountedRows
<1> QED
  BY <1>1, <1>2, HeldJobIsOwed DEF GiveUp

-----------------------------------------------------------------------------
(* The person, and the passing of time.                                     *)

\* A decision is reserved with its job, where nothing was before.
LEMMA RouteKeeps ==
    ASSUME IInv, NEW i \in Items, NEW c \in Words \cup {NoWords}, NEW r \in Records,
           Route(i, c, r)
    PROVE  IInv'
<1> USE DEF Route, IInv, poolVars, outsideVars, workerVars
<1>1. \A k \in Workers : r \notin fresh[k]
  BY DEF ClaimsExclusive
<1>2. copies[r] = 0 /\ CopiesCounted(r)' = 0
  BY NewRows DEF CopiesKnown, CopiesCounted, TypeOK
<1>3. TypeOK'
  BY NewRows DEF TypeOK, Decision
<1>4. JobsWellFormed' /\ PendingIsOwed'
  BY NewRows, ConstantsAssumption DEF TypeOK, JobsWellFormed, PendingIsOwed
<1>5. RecordsWellFormed'
  BY DEF TypeOK, RecordsWellFormed, Stored, Decision
<1>6. ClaimsExclusive' /\ AttemptsKnown'
  BY <1>1 DEF TypeOK, ClaimsExclusive, AttemptsKnown
<1>7. UnderWay'
  <2>1. \A k \in Workers : phase[k] = "sending" => at[k] # r /\ at[k] \in Records
    BY <1>1, ConstantsAssumption DEF TypeOK, AttemptsKnown
  <2> QED
    BY <2>1, UnderWayStays DEF TypeOK, Stored, Carried
<1>8. CopiesKnown'
  <2>1. \A q \in Records \ {r} : job'[q] = job[q] /\ state'[q] = state[q]
                                /\ decision'[q] = decision[q]
    BY DEF TypeOK
  <2>2. \A q \in Records \ {r} : CopiesCounted(q)' = CopiesCounted(q)
    BY <2>1, CountIsRead
  <2> QED
    BY <1>1, <1>2, <2>1, <2>2 DEF TypeOK, CopiesKnown
<1>9. WordsKnown'
  BY <1>2 DEF TypeOK, WordsKnown, Stored, Carried
<1> QED
  BY <1>3, <1>4, <1>5, <1>6, <1>7, <1>8, <1>9

\* Marking an item processed stores a decision nothing will be sent for.
LEMMA MarkProcessedKeeps ==
    ASSUME IInv, NEW i \in Items, NEW r \in Records, MarkProcessed(i, r)
    PROVE  IInv'
<1> USE DEF MarkProcessed, IInv, poolVars, outsideVars, workerVars
<1>1. \A k \in Workers : r \notin fresh[k]
  BY DEF ClaimsExclusive
<1>2. copies[r] = 0
  BY DEF CopiesKnown
<1>3. TypeOK'
  BY DEF TypeOK, Decision
<1>4. JobsWellFormed' /\ PendingIsOwed'
  BY DEF TypeOK, JobsWellFormed, PendingIsOwed
<1>5. RecordsWellFormed'
  BY DEF TypeOK, RecordsWellFormed, Stored, Decision
<1>6. ClaimsExclusive' /\ AttemptsKnown'
  BY <1>1 DEF TypeOK, ClaimsExclusive, AttemptsKnown
<1>7. UnderWay'
  <2>1. \A k \in Workers : phase[k] = "sending" => at[k] # r /\ at[k] \in Records
    BY <1>1, ConstantsAssumption DEF TypeOK, AttemptsKnown
  <2> QED
    BY <2>1, UnderWayStays DEF TypeOK, Stored, Carried
<1>8. CopiesKnown'
  <2>1. \A q \in Records : CopiesCounted(q)' = CopiesCounted(q)
    BY CountIsRead
  <2> QED
    BY <1>2, <2>1 DEF TypeOK, CopiesKnown
<1>9. WordsKnown'
  BY <1>2 DEF TypeOK, WordsKnown, Stored, Carried
<1> QED
  BY <1>3, <1>4, <1>5, <1>6, <1>7, <1>8, <1>9

\* What is called off nobody holds, so nothing of it has left or will.
LEMMA CancelDeliveryKeeps ==
    ASSUME IInv, NEW r \in Records, CancelDelivery(r)
    PROVE  IInv'
<1> USE DEF CancelDelivery, Cancellable, Held, IInv, poolVars, outsideVars, workerVars
<1>1. \A k \in Workers : r \notin fresh[k]
  BY DEF TypeOK, ClaimsExclusive, PendingIsOwed, RecordsWellFormed, Stored
<1>2. r \in Confirmed => copies[r] = 0
  BY CountedCopies DEF TypeOK, CopiesKnown, PendingIsOwed, RecordsWellFormed, Stored
<1>3. TypeOK'
  BY NewRows DEF TypeOK
<1>4. JobsWellFormed' /\ PendingIsOwed'
  BY NewRows DEF TypeOK, JobsWellFormed, PendingIsOwed
<1>5. RecordsWellFormed'
  BY DEF TypeOK, RecordsWellFormed, Stored
<1>6. ClaimsExclusive' /\ AttemptsKnown'
  BY <1>1 DEF TypeOK, ClaimsExclusive, AttemptsKnown
<1>7. UnderWay'
  <2>1. \A k \in Workers : phase[k] = "sending" => at[k] # r /\ at[k] \in Records
    BY <1>1, ConstantsAssumption DEF TypeOK, AttemptsKnown
  <2> QED
    BY <2>1, UnderWayStays DEF TypeOK, Stored, Carried
<1>8. CopiesKnown'
  <2>1. \A q \in Records \ {r} : job'[q] = job[q] /\ state'[q] = state[q]
    BY DEF TypeOK
  <2>2. \A q \in Records \ {r} : CopiesCounted(q)' = CopiesCounted(q)
    BY <2>1, CountIsRead
  <2>3. job'[r].status = "none" /\ state'[r] = "cancelled"
    BY NewRows DEF TypeOK
  <2> QED
    BY <1>1, <1>2, <2>1, <2>2, <2>3 DEF CopiesKnown
<1>9. WordsKnown'
  BY DEF TypeOK, WordsKnown, Stored, Carried
<1> QED
  BY <1>3, <1>4, <1>5, <1>6, <1>7, <1>8, <1>9

\* Withdrawing and putting back touch neither a job nor what was sent.
LEMMA WithdrawalKeeps ==
    ASSUME IInv, NEW r \in Records, Withdraw(r) \/ Reinstate(r)
    PROVE  IInv'
<1> USE DEF Withdraw, Reinstate, IInv, poolVars, outsideVars, workerVars
<1>1. UNCHANGED <<poolVars, decision, state, job, outsideVars, workerVars, faults>>
  OBVIOUS
<1>2. TypeOK' /\ JobsWellFormed' /\ PendingIsOwed' /\ ClaimsExclusive' /\ AttemptsKnown'
  <2>1. TypeOK'
    BY DEF TypeOK
  <2> HIDE DEF Withdraw, Reinstate
  <2> QED
    BY <1>1, <2>1 DEF JobsWellFormed, PendingIsOwed, ClaimsExclusive, AttemptsKnown
<1>3. RecordsWellFormed'
  BY DEF RecordsWellFormed, Stored
<1>4. UnderWay'
  BY <1>1, UnderWayStays DEF Stored, Carried
<1>5. CopiesKnown'
  BY <1>1, CountsAreRead DEF CopiesKnown
<1>6. WordsKnown'
  <2> SUFFICES ASSUME NEW q \in Records, Stored(q), copies[q] > 0,
                      ~(q \in withdrawn' /\ q \in edited')
               PROVE  sent[q] = Carried(q)
    BY <1>1 DEF WordsKnown, Stored, Carried
  <2>1. q \in withdrawn /\ q \in edited => q = r /\ Withdraw(r)
    OBVIOUS
  <2>2. Withdraw(r) => r \notin withdrawn
    OBVIOUS
  <2> HIDE DEF Withdraw, Reinstate
  <2> QED
    BY <2>1, <2>2 DEF WordsKnown
<1> QED
  BY <1>2, <1>3, <1>4, <1>5, <1>6

\* No operation of the person breaks the invariant.
LEMMA PersonKeeps ==
    ASSUME IInv, Person
    PROVE  IInv'
<1> USE ConstantsAssumption
    DEF Decision, poolVars, recordVars, outsideVars, workerVars, IInv, TypeOK,
        JobsWellFormed, PendingIsOwed, RecordsWellFormed, ClaimsExclusive,
        AttemptsKnown, UnderWay, Taken, CopiesKnown, CopiesCounted, WordsKnown, Stored,
        Carried
<1>1. ASSUME NEW i \in Items, NEW w \in Words, Capture(i, w)
      PROVE  IInv'
  BY <1>1 DEF Capture
<1>2. ASSUME NEW i \in Items, NEW w \in Words, Amend(i, w)
      PROVE  IInv'
  BY <1>2 DEF Amend, Sealed, RecordsOf, Untried
<1>3. ASSUME NEW i \in Items, NEW w \in Words, NEW j \in Items, Revise(i, w, j)
      PROVE  IInv'
  BY <1>3 DEF Revise
<1>4. ASSUME NEW i \in Items, Archive(i) \/ Unarchive(i)
      PROVE  IInv'
  BY <1>4 DEF Archive, Unarchive
<1>5. ASSUME NEW i \in Items, NEW c \in Words \cup {NoWords}, NEW r \in Records,
             Route(i, c, r)
      PROVE  IInv'
  BY <1>5, RouteKeeps
<1>6. ASSUME NEW i \in Items, NEW r \in Records, MarkProcessed(i, r)
      PROVE  IInv'
  BY <1>6, MarkProcessedKeeps
<1>7. ASSUME NEW r \in Records, CancelDelivery(r)
      PROVE  IInv'
  BY <1>7, CancelDeliveryKeeps
<1>8. ASSUME NEW r \in Records, Withdraw(r) \/ Reinstate(r)
      PROVE  IInv'
  BY <1>8, WithdrawalKeeps
<1> QED
  BY <1>1, <1>2, <1>3, <1>4, <1>5, <1>6, <1>7, <1>8 DEF Person

\* Nothing the invariant says is about a clock.
LEMMA ClockKeeps ==
    ASSUME IInv,
           job' \in [Records -> Job],
           \A r \in Records : /\ job'[r].status = job[r].status
                              /\ job'[r].attempt = job[r].attempt
                              /\ job'[r].lease = job[r].lease,
           UNCHANGED <<poolVars, recordVars, outsideVars, workerVars, faults>>
    PROVE  IInv'
<1> USE DEF IInv, poolVars, recordVars, outsideVars, workerVars
<1>1. TypeOK' /\ PendingIsOwed' /\ JobsWellFormed'
  BY DEF TypeOK, JobsWellFormed, PendingIsOwed
<1>2. RecordsWellFormed' /\ AttemptsKnown' /\ WordsKnown'
  BY ConstantsAssumption
     DEF TypeOK, RecordsWellFormed, AttemptsKnown, WordsKnown, Stored, Carried
<1>3. ClaimsExclusive'
  BY DEF TypeOK, ClaimsExclusive
<1>4. CopiesKnown'
  BY CountIsRead DEF CopiesKnown
<1>5. UnderWay'
  BY UnderWayStays, ConstantsAssumption DEF TypeOK, AttemptsKnown, Stored, Carried
<1> QED
  BY <1>1, <1>2, <1>3, <1>4, <1>5

\* A job that falls due keeps it,
LEMMA ComesDueKeeps ==
    ASSUME IInv, NEW r \in Records, ComesDue(r)
    PROVE  IInv'
<1>1. job' = [job EXCEPT ![r] = [job[r] EXCEPT !.due = TRUE]]
  BY DEF ComesDue
<1>2. job \in [Records -> Job]
  BY DEF IInv, TypeOK
<1>3. job' \in [Records -> Job]
  BY <1>1, <1>2 DEF Job
<1>4. \A q \in Records : /\ job'[q].status = job[q].status
                         /\ job'[q].attempt = job[q].attempt
                         /\ job'[q].lease = job[q].lease
  BY <1>1, <1>2 DEF Job
<1> QED
  BY <1>3, <1>4, ClockKeeps DEF ComesDue

\* and so does a lease that lapses.
LEMMA LeaseLapsesKeeps ==
    ASSUME IInv, NEW r \in Records, LeaseLapses(r)
    PROVE  IInv'
<1>1. job' = [job EXCEPT ![r] = [job[r] EXCEPT !.lapsed = TRUE]]
  BY DEF LeaseLapses
<1>2. job \in [Records -> Job]
  BY DEF IInv, TypeOK
<1>3. job' \in [Records -> Job]
  BY <1>1, <1>2 DEF Job
<1>4. \A q \in Records : /\ job'[q].status = job[q].status
                         /\ job'[q].attempt = job[q].attempt
                         /\ job'[q].lease = job[q].lease
  BY <1>1, <1>2 DEF Job
<1> QED
  BY <1>3, <1>4, ClockKeeps DEF LeaseLapses

-----------------------------------------------------------------------------
(* The runner.                                                              *)

\* One claim hands out what nobody else holds, or what a silent holder left.
LEMMA ClaimKeeps ==
    ASSUME IInv, NEW k \in Workers, Claim(k)
    PROVE  IInv'
<1> USE DEF IInv, poolVars, recordVars, outsideVars
<1>1. PICK taken \in SUBSET Claimable :
        /\ job' = [r \in Records |->
                     IF r \in taken
                     THEN [job[r] EXCEPT
                             !.lease = <<k, IF r \in Reclaimed(taken) THEN "again" ELSE "first">>,
                             !.lapsed = FALSE]
                     ELSE job[r]]
        /\ fresh' = [fresh EXCEPT ![k] = @ \cup (taken \ Reclaimed(taken))]
        /\ vanished' = [vanished EXCEPT ![k] = @ \cup Reclaimed(taken)]
        /\ \/ phase' = [phase EXCEPT ![k] = "claiming"]
           \/ phase' = [phase EXCEPT ![k] = "sorting"]
  BY DEF Claim
<1>2. /\ UNCHANGED <<poolVars, recordVars, outsideVars, attempted, at, outcome, faults>>
      /\ phase[k] = "claiming"
  BY DEF Claim
<1> DEFINE again == Reclaimed(taken)
           first == taken \ again
<1>3. taken \in SUBSET Records /\ again \in SUBSET taken /\ first \in SUBSET taken
  BY DEF Claimable, Reclaimed
<1>4. \A r \in taken : job[r].status = "queued" /\ (r \in again <=> job[r].lease # Nowhere)
  BY DEF Claimable, Reclaimed
<1>5. \A r \in taken : /\ job'[r] \in Job
                       /\ job'[r].status = job[r].status
                       /\ job'[r].attempt = job[r].attempt
                       /\ job'[r].lease = <<k, IF r \in again THEN "again" ELSE "first">>
  <2> TAKE r \in taken
  <2> DEFINE l == <<k, IF r \in again THEN "again" ELSE "first">>
  <2>1. job'[r] = [job[r] EXCEPT !.lease = l, !.lapsed = FALSE]
    BY <1>1, <1>3
  <2>2. job[r] \in Job
    BY <1>3 DEF TypeOK
  <2>3. l \in Lease
    BY DEF Lease
  <2> HIDE DEF l
  <2>4. /\ job'[r] \in Job
        /\ job'[r].status = job[r].status
        /\ job'[r].attempt = job[r].attempt
        /\ job'[r].lease = l
    BY <2>1, <2>2, <2>3 DEF Job
  <2> QED
    BY <2>4 DEF l
<1>6. \A r \in Records \ taken : job'[r] = job[r]
  BY <1>1
<1>7. /\ \A r \in again : job'[r].lease = <<k, "again">>
      /\ \A r \in first : job'[r].lease = <<k, "first">>
      /\ \A r \in taken : job'[r].lease # Nowhere
  BY <1>3, <1>5, LeaseIsSomewhere
<1>8. /\ fresh'[k] = fresh[k] \cup first
      /\ \A l \in Workers \ {k} : fresh'[l] = fresh[l]
  BY <1>1 DEF TypeOK
<1>9. \A r \in first : \A l \in Workers : r \notin fresh[l]
  BY <1>3, <1>4 DEF ClaimsExclusive
<1>10. job' \in [Records -> Job]
  BY <1>1, <1>3, <1>5, <1>6 DEF TypeOK
<1> HIDE DEF again, first
<1>11. TypeOK'
  <2>1. fresh' \in [Workers -> SUBSET Records] /\ vanished' \in [Workers -> SUBSET Records]
    BY <1>1, <1>3 DEF TypeOK, again, first
  <2> QED
    BY <1>1, <1>2, <1>10, <2>1 DEF TypeOK
<1>12. JobsWellFormed' /\ PendingIsOwed'
  BY <1>2, <1>3, <1>4, <1>5, <1>6 DEF JobsWellFormed, PendingIsOwed
<1>13. RecordsWellFormed' /\ WordsKnown'
  BY <1>2 DEF RecordsWellFormed, WordsKnown, Stored, Carried
<1>14. ClaimsExclusive'
  <2>1. SUFFICES ASSUME NEW x \in Workers, NEW q \in fresh'[x]
                 PROVE  /\ \A l \in Workers : q \in fresh'[l] => l = x
                        /\ state'[q] \in {"pending", "abandoned"}
                        /\ job'[q].status = "queued" => job'[q].lease # Nowhere
                        /\ \A l \in Workers : job'[q].lease = <<l, "first">> => l = x
    BY DEF ClaimsExclusive
  <2>2. CASE q \in first
    <3>1. x = k /\ \A l \in Workers : q \in fresh'[l] => l = k
      BY <1>8, <1>9, <2>2
    <3>2. state[q] = "pending"
      BY <1>3, <1>4, <2>2 DEF PendingIsOwed
    <3> QED
      BY <1>2, <1>3, <1>7, <2>2, <3>1, <3>2
  <2>3. CASE q \in again
    <3>1. q \in fresh[x] /\ \A l \in Workers : q \in fresh'[l] => q \in fresh[l]
      BY <1>8, <2>3 DEF first
    <3> QED
      BY <1>2, <1>3, <1>7, <2>3, <3>1 DEF ClaimsExclusive
  <2>4. CASE q \notin taken
    <3>1. q \in fresh[x] /\ \A l \in Workers : q \in fresh'[l] => q \in fresh[l]
      BY <1>3, <1>8, <2>4
    <3>2. job'[q] = job[q]
      BY <1>6, <2>4, <3>1 DEF TypeOK
    <3> QED
      BY <1>2, <3>1, <3>2 DEF ClaimsExclusive
  <2> QED
    BY <2>2, <2>3, <2>4 DEF first
<1>15. AttemptsKnown'
  <2>1. at'[k] = Nowhere /\ phase'[k] \in {"claiming", "sorting"}
    BY <1>1, <1>2 DEF TypeOK, AttemptsKnown
  <2>2. \A l \in Workers \ {k} : phase'[l] = phase[l] /\ fresh'[l] = fresh[l]
    BY <1>1 DEF TypeOK
  <2>3. \A l \in Workers : at[l] # Nowhere => job'[at[l]].status = job[at[l]].status
    BY <1>5, <1>6 DEF TypeOK
  <2> QED
    BY <1>2, <2>1, <2>2, <2>3, <1>8, ConstantsAssumption DEF AttemptsKnown
<1>16. UnderWay'
  <2>1. phase'[k] # "sending" /\ \A l \in Workers \ {k} : phase'[l] = phase[l]
    BY <1>1 DEF TypeOK
  <2>2. \A l \in Workers : phase[l] = "sending" => at[l] \in Records
    BY ConstantsAssumption DEF TypeOK, AttemptsKnown
  <2>3. \A r \in Records : job'[r].status = job[r].status /\ job'[r].attempt = job[r].attempt
    BY <1>5, <1>6
  <2> QED
    BY <1>2, <2>1, <2>2, <2>3, UnderWayStays DEF Stored, Carried
<1>17. CopiesKnown'
  <2>1. \A r \in first : copies[r] <= CopiesCounted(r)
    BY <1>3, <1>4 DEF CopiesKnown, first
  <2>2. \A r \in Records : \A l \in Workers :
            r \in fresh'[l] => r \in fresh[l] \/ (r \in first /\ at[l] # r)
    <3>1. \A r \in Records : \A l \in Workers : at[l] = r => r \in fresh[l]
      BY PerformsItsOwn
    <3> TAKE r \in Records
    <3> TAKE l \in Workers
    <3>2. r \in fresh'[l] => r \in fresh[l] \/ r \in first
      BY <1>8
    <3>3. r \in first /\ r \notin fresh[l] => at[l] # r
      BY <3>1
    <3> QED
      BY <3>2, <3>3
  <2>3. \A r \in Records : /\ job'[r].status = job[r].status
                           /\ CopiesCounted(r)' = CopiesCounted(r)
    BY <1>5, <1>6, CountIsRead
  <2>4. \A r \in Records : job'[r].lease = Nowhere => job[r].lease = Nowhere
    BY <1>6, <1>7
  <2>5. \A r \in Records : \A l \in Workers : r \in fresh'[l] /\ job'[r].status = "queued" =>
            /\ at[l] # r => copies[r] <= CopiesCounted(r)
            /\ at[l] = r => copies[r] <= CopiesCounted(r) + 1
    <3> TAKE r \in Records
    <3> TAKE l \in Workers
    <3>1. CASE r \in fresh[l]
      BY <2>3, <3>1 DEF CopiesKnown
    <3>2. CASE r \in first
      BY <2>1, <2>2, <3>2, <1>9
    <3> QED
      BY <2>2, <3>1, <3>2
  <2>6. UNCHANGED <<copies, state, decision, at>>
    BY <1>2
  <2> QED
    BY <2>3, <2>4, <2>5, <2>6 DEF CopiesKnown
<1> QED
  BY <1>11, <1>12, <1>13, <1>14, <1>15, <1>16, <1>17

\* What a step does to the one row it reports on: it lands or is given up on,
\* or is freed of a lease under which no more can have arrived than is counted.
SettlesRow(r) ==
    /\ job' \in [Records -> Job]
    /\ \A q \in Records \ {r} : job'[q] = job[q] /\ state'[q] = state[q]
    /\ job'[r].lease # Nowhere => job'[r].status = "queued"
    /\ job'[r].lease \in {Nowhere, job[r].lease}
    /\ job'[r].status = "queued" => job'[r].attempt < MaxAttempts
    /\ state'[r] = "pending" <=> job'[r].status = "queued"
    /\ job'[r].status = "queued" /\ job'[r].lease = Nowhere
       => copies[r] <= CopiesCounted(r)'
    /\ \/ state' = state
       \/ /\ state[r] = "pending"
          /\ state' = [state EXCEPT ![r] = "abandoned"]
       \/ /\ state[r] = "pending"
          /\ state' = [state EXCEPT ![r] = "delivered"]
          /\ copies[r] > 0

\* And to the claims: at most the claim on that row is let go of.
LetsGo(r) ==
    /\ fresh' \in [Workers -> SUBSET Records]
    /\ \A k \in Workers : fresh'[k] \subseteq fresh[k]
    /\ \A k \in Workers : r \in fresh'[k] =>
          /\ job'[r].status # "queued" /\ state'[r] \in {"pending", "abandoned"}
          /\ at' = at
    /\ \/ at' = at
       \/ \E k \in Workers : at' = [at EXCEPT ![k] = Nowhere] /\ at[k] = r

\* Such a step keeps all the invariant says of rows, records and claims.
LEMMA SettledRowKeeps ==
    ASSUME IInv, NEW r \in Records, SettlesRow(r), LetsGo(r),
           UNCHANGED <<poolVars, decision, withdrawn, edited, outsideVars>>
    PROVE  /\ JobsWellFormed' /\ PendingIsOwed' /\ RecordsWellFormed'
           /\ ClaimsExclusive' /\ CopiesKnown' /\ WordsKnown'
<1> USE DEF IInv, poolVars, outsideVars
<1>1. JobsWellFormed' /\ PendingIsOwed'
  BY DEF SettlesRow, TypeOK, JobsWellFormed, PendingIsOwed
<1>2. RecordsWellFormed' /\ WordsKnown'
  BY DEF SettlesRow, TypeOK, RecordsWellFormed, WordsKnown, Stored, Carried
<1>3. ClaimsExclusive'
  <2>1. SUFFICES ASSUME NEW x \in Workers, NEW q \in fresh'[x]
                 PROVE  /\ \A l \in Workers : q \in fresh'[l] => l = x
                        /\ state'[q] \in {"pending", "abandoned"}
                        /\ job'[q].status = "queued" => job'[q].lease # Nowhere
                        /\ \A l \in Workers : job'[q].lease = <<l, "first">> => l = x
    BY DEF ClaimsExclusive
  <2>2. q \in fresh[x] /\ q \in Records
    BY DEF TypeOK, LetsGo
  <2>3. \A l \in Workers : q \in fresh'[l] => l = x
    BY <2>2 DEF LetsGo, ClaimsExclusive
  <2>4. CASE q = r
    BY <2>2, <2>3, <2>4, LeaseIsSomewhere DEF LetsGo, SettlesRow, ClaimsExclusive
  <2>5. CASE q # r
    BY <2>2, <2>3, <2>5 DEF SettlesRow, ClaimsExclusive
  <2> QED
    BY <2>4, <2>5
<1>4. CopiesKnown'
  <2>1. SUFFICES ASSUME NEW q \in Records
                 PROVE
                    /\ copies[q] \in 0..CopiesAllowed(q)
                    /\ state'[q] = "none" => copies[q] = 0
                    /\ state'[q] = "cancelled" /\ q \in Confirmed => copies[q] = 0
                    /\ job'[q].status = "queued" /\ job'[q].lease = Nowhere
                       => copies[q] <= CopiesCounted(q)'
                    /\ \A k \in Workers : q \in fresh'[k] /\ job'[q].status = "queued" =>
                        /\ at'[k] # q => copies[q] <= CopiesCounted(q)'
                        /\ at'[k] = q => copies[q] <= CopiesCounted(q)' + 1
                    /\ state'[q] = "delivered" =>
                        IF decision[q].target = "user" THEN copies[q] = 0 ELSE copies[q] > 0
    BY DEF CopiesKnown
  <2>2. copies[q] \in 0..CopiesAllowed(q)
    BY DEF CopiesKnown
  <2>3. CASE q = r
    <3>1. \A k \in Workers : q \in fresh'[k] => job'[q].status # "queued"
      BY <2>3 DEF LetsGo
    <3>2. /\ state'[q] = "none" => copies[q] = 0
          /\ state'[q] = "cancelled" /\ q \in Confirmed => copies[q] = 0
          /\ state'[q] = "delivered" =>
                IF decision[q].target = "user" THEN copies[q] = 0 ELSE copies[q] > 0
      BY <2>3 DEF SettlesRow, TypeOK, CopiesKnown, RecordsWellFormed
    <3> QED
      BY <2>2, <2>3, <3>1, <3>2 DEF SettlesRow
  <2>4. CASE q # r
    <3>1. job'[q] = job[q] /\ state'[q] = state[q] /\ CopiesCounted(q)' = CopiesCounted(q)
      BY <2>4, CountIsRead DEF SettlesRow
    <3>2. \A k \in Workers : q \in fresh'[k] => q \in fresh[k] /\ (at'[k] = q <=> at[k] = q)
      BY <2>4, ConstantsAssumption DEF LetsGo, TypeOK
    <3> QED
      BY <2>2, <3>1, <3>2 DEF CopiesKnown
  <2> QED
    BY <2>3, <2>4
<1> QED
  BY <1>1, <1>2, <1>3, <1>4

\* A release is such a step: what is released was not being attempted;
LEMMA ReleaseKeeps ==
    ASSUME IInv, NEW k \in Workers, NEW r \in Records, Release(k, r)
    PROVE  IInv'
<1> USE DEF IInv, poolVars, recordVars, outsideVars
<1>1. /\ UNCHANGED <<poolVars, recordVars, outsideVars, phase, vanished, attempted,
                     at, outcome, faults>>
      /\ fresh' = [fresh EXCEPT ![k] = @ \ {r}]
      /\ r \in fresh[k]
      /\ job' = [job EXCEPT ![r] = IF job[r].lease = <<k, "first">> THEN FreedJob(r) ELSE job[r]]
      /\ phase[k] \in {"sorting", "unwinding"}
  BY DEF Release
<1>2. /\ FreedJob(r) \in Job
      /\ FreedJob(r).status = job[r].status
      /\ FreedJob(r).attempt = job[r].attempt
      /\ FreedJob(r).lease = Nowhere
  BY ChangedRows DEF TypeOK
<1>3. /\ at[k] = Nowhere
      /\ job[r].status = "queued" => copies[r] <= CopiesCounted(r)
  BY <1>1, ConstantsAssumption DEF TypeOK, AttemptsKnown, CopiesKnown
<1>4. SettlesRow(r)
  <2>1. job'[r].attempt = job[r].attempt /\ job'[r].status = job[r].status
    BY <1>1, <1>2 DEF TypeOK
  <2>2. CopiesCounted(r)' = CopiesCounted(r)
    BY <1>1, <2>1, CountIsRead DEF TypeOK
  <2> QED
    BY <1>1, <1>2, <1>3, <2>1, <2>2 DEF SettlesRow, TypeOK, JobsWellFormed, PendingIsOwed
<1>5. LetsGo(r)
  BY <1>1 DEF LetsGo, TypeOK, ClaimsExclusive
<1>6. TypeOK'
  BY <1>1, <1>4 DEF TypeOK, SettlesRow
<1>7. AttemptsKnown'
  BY <1>1, <1>3 DEF TypeOK, AttemptsKnown, ClaimsExclusive
<1>8. UnderWay'
  <2>1. \A l \in Workers : phase[l] = "sending" => at[l] # r /\ at[l] \in Records
    BY <1>1, SendsAlone, ConstantsAssumption DEF TypeOK, AttemptsKnown
  <2> QED
    BY <1>1, <2>1, UnderWayStays DEF TypeOK, Stored, Carried
<1> QED
  BY <1>1, <1>4, <1>5, <1>6, <1>7, <1>8, SettledRowKeeps

\* so is ending the delivery of a silent holder, if it still holds it;
LEMMA AbandonUnknownSettles ==
    ASSUME IInv, NEW k \in Workers, NEW r \in Records, AbandonUnknown(k, r)
    PROVE  /\ SettlesRow(r)
           /\ \/ job' = job /\ state' = state
              \/ job'[r].status = "abandoned" /\ state'[r] = "abandoned"
<1>1. CASE job[r].lease # <<k, "again">>
  <2>1. job' = job /\ state' = state
    BY <1>1 DEF AbandonUnknown
  <2>2. CopiesCounted(r)' = CopiesCounted(r)
    BY <2>1, CountIsRead
  <2> QED
    BY <2>1, <2>2 DEF SettlesRow, IInv, TypeOK, JobsWellFormed, PendingIsOwed, CopiesKnown
<1>2. CASE job[r].lease = <<k, "again">>
  <2>1. job[r].lease # Nowhere /\ GiveUp(r)
    BY <1>2, LeaseIsSomewhere DEF AbandonUnknown
  <2> QED
    BY <2>1, GiveUpEnds, HeldJobIsOwed DEF SettlesRow, IInv, TypeOK
<1> QED
  BY <1>1, <1>2

\* which keeps the invariant,
LEMMA AbandonUnknownKeeps ==
    ASSUME IInv, NEW k \in Workers, NEW r \in Records, AbandonUnknown(k, r)
    PROVE  IInv'
<1> USE DEF IInv, poolVars, outsideVars
<1>1. /\ UNCHANGED <<poolVars, decision, withdrawn, edited, outsideVars, phase, fresh,
                     attempted, at, outcome, faults>>
      /\ vanished' = [vanished EXCEPT ![k] = @ \ {r}]
  BY DEF AbandonUnknown
<1>2. SettlesRow(r)
  BY AbandonUnknownSettles
<1>3. CASE job' = job /\ state' = state
  <2>1. CopiesKnown'
    BY <1>1, <1>3, CountIsRead DEF CopiesKnown
  <2>2. UnderWay'
    BY <1>1, <1>3, UnderWayStays DEF Stored, Carried
  <2> QED
    BY <1>1, <1>3, <2>1, <2>2 DEF TypeOK, JobsWellFormed, PendingIsOwed, RecordsWellFormed,
       ClaimsExclusive, AttemptsKnown, WordsKnown, Stored, Carried
<1>4. CASE job'[r].status = "abandoned" /\ state'[r] = "abandoned"
  <2>1. LetsGo(r)
    BY <1>1, <1>4 DEF LetsGo, TypeOK
  <2>2. TypeOK'
    BY <1>1, <1>2 DEF SettlesRow, TypeOK
  <2>3. AttemptsKnown'
    <3>1. \A q \in Records \ {r} : job'[q] = job[q] /\ state'[q] = state[q]
      BY <1>2 DEF SettlesRow
    <3>2. \A l \in Workers : at[l] # Nowhere => at[l] \in Records
      BY DEF TypeOK
    <3> QED
      BY <1>1, <1>4, <3>1, <3>2 DEF AttemptsKnown
  <2>4. UnderWay'
    <3>1. \A q \in Records \ {r} : job'[q] = job[q] /\ state'[q] = state[q]
      BY <1>2 DEF SettlesRow
    <3>2. \A l \in Workers : phase[l] = "sending" => at[l] \in Records
      BY ConstantsAssumption DEF TypeOK, AttemptsKnown
    <3>3. ~Stored(r)' /\ job'[r].status # "queued"
      BY <1>4 DEF Stored
    <3>4. \A q \in Records \ {r} : (Stored(q)' <=> Stored(q)) /\ Carried(q)' = Carried(q)
      BY <1>1, <3>1 DEF Stored, Carried
    <3> QED
      BY <1>1, <3>1, <3>2, <3>3, <3>4, UnderWayStays
  <2> QED
    BY <1>1, <1>2, <2>1, <2>2, <2>3, <2>4, SettledRowKeeps
<1> QED
  BY <1>3, <1>4, AbandonUnknownSettles

\* What a runner reports is of a record.
LEMMA CompletesARecord ==
    ASSUME IInv, NEW k \in Workers, Complete(k)
    PROVE  at[k] \in Records
BY DEF Complete, IInv, TypeOK, AttemptsKnown

\* Reporting an attempt is such a step too,
LEMMA CompleteSettles ==
    ASSUME IInv, NEW k \in Workers, NEW r \in Records, at[k] = r, Complete(k)
    PROVE  SettlesRow(r)
<1> USE DEF IInv
<1>1. /\ phase[k] = "reporting"
      /\ UNCHANGED copies
      /\ IF job[r].lease = <<k, "first">> THEN Resolve(r, outcome[k])
                                          ELSE UNCHANGED <<job, state>>
  BY DEF Complete, outsideVars
<1>2. /\ r \in fresh[k]
      /\ outcome[k] = "delivered" => copies[r] > 0
      /\ outcome[k] = "retryable" /\ job[r].status = "queued" /\ r \in Confirmed
         => copies[r] = 0
      /\ outcome[k] = "succeeded" => state[r] # "pending"
  BY <1>1, PerformsItsOwn DEF AttemptsKnown
<1>3. SettlesRow(r)
  <2>1. CASE job[r].lease # <<k, "first">>
    <3>1. job' = job /\ state' = state
      BY <1>1, <2>1
    <3>2. CopiesCounted(r)' = CopiesCounted(r)
      BY <1>2, <3>1, CountIsRead
    <3> QED
      BY <1>2, <3>1, <3>2 DEF SettlesRow, TypeOK, JobsWellFormed, PendingIsOwed, CopiesKnown
  <2>2. CASE job[r].lease = <<k, "first">>
    <3>1. /\ Resolve(r, outcome[k])
          /\ job[r].lease # Nowhere
      BY <1>1, <2>2, LeaseIsSomewhere
    <3>2. /\ job[r] \in Job
          /\ job[r].status = "queued"
          /\ job[r].attempt < MaxAttempts
          /\ state[r] = "pending"
          /\ Stored(r)
      BY <1>2, <3>1, HeldJobIsOwed
    <3>3. CASE Land(r) /\ outcome[k] = "delivered"
      BY <1>2, <3>2, <3>3, NewRows DEF SettlesRow, Land, TypeOK
    <3>4. CASE Retry(r) /\ outcome[k] = "retryable" /\ job[r].attempt + 1 < MaxAttempts
      <4>1. /\ RetriedJob(r) \in Job
            /\ RetriedJob(r).status = "queued"
            /\ RetriedJob(r).attempt = job[r].attempt + 1
            /\ RetriedJob(r).lease = Nowhere
        BY <1>2, <3>2, CountedRows
      <4>2. copies[r] <= CopiesCounted(r) + 1
        BY <1>2, <3>2 DEF CopiesKnown
      <4>3. job'[r] = RetriedJob(r)
        BY <3>4 DEF Retry, TypeOK
      <4>4. copies[r] <= CopiesCounted(r)'
        <5>1. copies[r] \in Int /\ copies[r] <= CopiesAllowed(r)
          BY DEF TypeOK, CopiesKnown
        <5>2. job[r].attempt \in Nat
          BY <3>2 DEF Job
        <5> QED
          BY <1>2, <3>2, <3>4, <4>1, <4>2, <4>3, <5>1, <5>2, ConstantsAssumption
             DEF CopiesCounted, CopiesAllowed
      <4> QED
        BY <3>2, <3>4, <4>1, <4>4 DEF SettlesRow, Retry, TypeOK
    <3>5. CASE GiveUp(r)
      BY <1>2, <3>1, <3>2, <3>5, GiveUpEnds DEF SettlesRow, TypeOK
    <3> QED
      BY <1>2, <3>1, <3>2, <3>3, <3>4, <3>5 DEF Resolve
  <2> QED
    BY <2>1, <2>2
<1> QED
  BY <1>2, <1>3

\* which keeps it as well.
LEMMA CompleteKeeps ==
    ASSUME IInv, NEW k \in Workers, Complete(k)
    PROVE  IInv'
<1> USE DEF IInv, poolVars, outsideVars
<1>0. PICK r \in Records : at[k] = r
  BY CompletesARecord
<1>1. /\ phase[k] = "reporting"
      /\ UNCHANGED <<poolVars, decision, withdrawn, edited, outsideVars, vanished, faults>>
      /\ fresh' = [fresh EXCEPT ![k] = @ \ {r}]
      /\ attempted' = [attempted EXCEPT ![k] = @ \cup {r}]
      /\ phase' = [phase EXCEPT ![k] = IF fresh[k] = {r} THEN "claiming" ELSE "performing"]
      /\ at' = [at EXCEPT ![k] = Nowhere]
      /\ outcome' = [outcome EXCEPT ![k] = "none"]
  BY <1>0 DEF Complete
<1>2. r \in fresh[k]
  BY <1>0, PerformsItsOwn
<1>3. SettlesRow(r)
  BY <1>0, CompleteSettles
<1>4. LetsGo(r)
  BY <1>0, <1>1, <1>2 DEF LetsGo, TypeOK, ClaimsExclusive
<1>5. TypeOK'
  BY <1>1, <1>2, <1>3 DEF TypeOK, SettlesRow
<1>6. AttemptsKnown'
  <2>1. \A l \in Workers \ {k} : /\ at'[l] = at[l] /\ at[l] # r
                               /\ phase'[l] = phase[l] /\ outcome'[l] = outcome[l]
                               /\ fresh'[l] = fresh[l]
    BY <1>1, <1>2, ConstantsAssumption DEF TypeOK, AttemptsKnown, ClaimsExclusive
  <2>2. \A l \in Workers \ {k} : at[l] # Nowhere =>
            state'[at[l]] = state[at[l]] /\ job'[at[l]] = job[at[l]]
    BY <1>3, <2>1 DEF TypeOK, SettlesRow
  <2>3. at'[k] = Nowhere /\ phase'[k] \in {"claiming", "performing"}
    BY <1>1 DEF TypeOK
  <2> QED
    BY <1>1, <2>1, <2>2, <2>3 DEF AttemptsKnown
<1>7. UnderWay'
  <2>1. phase'[k] # "sending" /\ \A l \in Workers \ {k} : phase'[l] = phase[l] /\ at'[l] = at[l]
    BY <1>1 DEF TypeOK
  <2>2. \A l \in Workers \ {k} : phase[l] = "sending" => at[l] \in Records \ {r}
    BY <1>2, SendsAlone, ConstantsAssumption DEF TypeOK, AttemptsKnown
  <2>3. \A q \in Records \ {r} : /\ job'[q] = job[q]
                                 /\ Stored(q)' <=> Stored(q)
                                 /\ Carried(q)' = Carried(q)
    BY <1>1, <1>3 DEF SettlesRow, Stored, Carried
  <2> QED
    BY <1>1, <2>1, <2>2, <2>3, UnderWayStays
<1> QED
  BY <1>1, <1>3, <1>4, <1>5, <1>6, <1>7, SettledRowKeeps

\* The steps of a pass that touch no row.
LEMMA PassKeeps ==
    ASSUME IInv, NEW k \in Workers,
           \/ StartPass(k) \/ ClaimNothing(k) \/ PerformBatch(k) \/ EndPass(k)
           \/ AbandonThrows(k) \/ Crash(k)
    PROVE  IInv'
<1> USE ConstantsAssumption
    DEF poolVars, recordVars, outsideVars, IInv, TypeOK,
        JobsWellFormed, PendingIsOwed, RecordsWellFormed, ClaimsExclusive,
        AttemptsKnown, UnderWay, Taken, CopiesKnown, WordsKnown, Stored, Carried
<1>1. UNCHANGED job
  BY DEF StartPass, ClaimNothing, PerformBatch, EndPass, AbandonThrows, Crash
<1>2. \A r \in Records : CopiesCounted(r)' = CopiesCounted(r)
  BY <1>1, CountsAreRead
<1>3. CASE StartPass(k)
  BY <1>2, <1>3 DEF StartPass
<1>4. CASE ClaimNothing(k)
  BY <1>2, <1>4 DEF ClaimNothing
<1>5. CASE PerformBatch(k)
  BY <1>2, <1>5 DEF PerformBatch
<1>6. CASE EndPass(k)
  BY <1>2, <1>6 DEF EndPass
<1>7. CASE AbandonThrows(k)
  BY <1>2, <1>7 DEF AbandonThrows
<1>8. CASE Crash(k)
  BY <1>2, <1>8 DEF Crash
<1> QED
  BY <1>3, <1>4, <1>5, <1>6, <1>7, <1>8

\* What is sent is the runner's alone to send, and what was sent before of it is
\* counted.
LEMMA SendKeeps ==
    ASSUME IInv, NEW k \in Workers, NEW r \in Records, Send(k, r)
    PROVE  IInv'
<1> USE DEF Send, IInv, poolVars, recordVars
<1>1. /\ at[k] = Nowhere
      /\ copies[r] \in Int
      /\ CopiesCounted(r) \in Nat
      /\ copies[r] <= CopiesCounted(r)
      /\ ~Taken(r) => copies[r] < CopiesAllowed(r)
  <2>1. at[k] = Nowhere /\ at[k] # r
    BY ConstantsAssumption DEF AttemptsKnown
  <2>2. job[r] \in Job /\ job[r].status = "queued" /\ job[r].attempt < MaxAttempts
    BY DEF TypeOK, PendingIsOwed, JobsWellFormed
  <2>3. copies[r] <= CopiesCounted(r) /\ copies[r] \in Int
    BY <2>1, <2>2 DEF CopiesKnown, TypeOK
  <2>4. CopiesCounted(r) \in Nat /\ CopiesAllowed(r) \in Nat
    BY <2>2, CountedCopies
  <2>5. CASE r \in Repeatable \ Confirmed
    BY <2>1, <2>3, <2>4, <2>5 DEF Taken, CopiesAllowed
  <2>6. CASE r \notin Repeatable \ Confirmed
    <3>1. CopiesCounted(r) + 1 <= CopiesAllowed(r)
      BY <2>2, <2>6, CountedCopies
    <3> QED
      BY <2>1, <2>3, <2>4, <3>1
  <2> QED
    BY <2>5, <2>6
<1>2. Carried(r) \in Words \cup {NoWords}
  BY DEF TypeOK, RecordsWellFormed, Stored, Carried, Decision
<1>3. TypeOK'
  BY <1>2 DEF TypeOK
<1>4. JobsWellFormed' /\ PendingIsOwed' /\ RecordsWellFormed' /\ ClaimsExclusive'
  BY DEF JobsWellFormed, PendingIsOwed, RecordsWellFormed, ClaimsExclusive, Stored
<1>5. AttemptsKnown'
  BY <1>1, ConstantsAssumption DEF TypeOK, AttemptsKnown, ClaimsExclusive
<1>6. \A q \in Records : CopiesCounted(q)' = CopiesCounted(q) /\ Carried(q)' = Carried(q)
  BY CountsAreRead DEF Carried
<1>7. UnderWay'
  <2> SUFFICES ASSUME NEW l \in Workers, phase'[l] = "sending"
               PROVE  /\ ~Taken(at'[l]) => copies[at'[l]] < CopiesAllowed(at'[l])
                      /\ job[at'[l]].status = "queued"
                            => copies[at'[l]] <= CopiesCounted(at'[l])
                      /\ Stored(at'[l]) => sent'[at'[l]] = Carried(at'[l])
    BY DEF UnderWay, Taken, CopiesAllowed, CopiesCounted, Stored, Carried
  <2>1. CASE l = k
    BY <1>1, <2>1 DEF TypeOK
  <2>2. CASE l # k
    <3>1. phase[l] = "sending" /\ at'[l] = at[l] /\ at[l] # r
      BY <2>2, SendsAlone DEF TypeOK
    <3> QED
      BY <3>1 DEF UnderWay, TypeOK
  <2> QED
    BY <2>1, <2>2
<1>8. CopiesKnown'
  <2>1. \A q \in Records : \A l \in Workers : at'[l] # q => at[l] # q
    BY <1>1, ConstantsAssumption DEF TypeOK
  <2>2. \A q \in Records : CopiesCounted(q) \in Nat /\ copies[q] \in Int
    BY CountedCopies DEF TypeOK
  <2>3. UNCHANGED <<copies, state, decision, job, fresh>>
    OBVIOUS
  <2> HIDE DEF Send
  <2> QED
    BY <1>6, <2>1, <2>2, <2>3 DEF CopiesKnown, CopiesAllowed
<1>9. WordsKnown'
  <2> SUFFICES ASSUME NEW q \in Records, Stored(q), copies[q] > 0,
                      ~(q \in withdrawn /\ q \in edited)
               PROVE  sent'[q] = Carried(q)
    BY <1>6 DEF WordsKnown, Stored
  <2> QED
    BY DEF WordsKnown, TypeOK
<1> QED
  BY <1>3, <1>4, <1>5, <1>7, <1>8, <1>9

\* What arrives is the one thing of it that was under way.
LEMMA ArrivesKeeps ==
    ASSUME IInv, NEW k \in Workers, Arrives(k)
    PROVE  IInv'
<1> USE DEF IInv, poolVars, recordVars
<1>1. PICK r \in Records : at[k] = r
  BY DEF Arrives, TypeOK, AttemptsKnown
<1>2. /\ phase[k] = "sending"
      /\ phase' = [phase EXCEPT ![k] = "arrived"]
      /\ copies' = [copies EXCEPT ![r] = @ + 1]
      /\ ~Taken(r)
      /\ UNCHANGED <<poolVars, recordVars, job, sent, fresh, vanished, attempted, at,
                     outcome, faults>>
  BY <1>1 DEF Arrives
<1>3. /\ r \in fresh[k]
      /\ \A l \in Workers \ {k} : r \notin fresh[l] /\ at[l] # r
      /\ state[r] \in {"pending", "abandoned"}
      /\ job[r].status = "queued" => job[r].lease # Nowhere
  BY <1>1, PerformsItsOwn, SendsAlone DEF ClaimsExclusive
<1>4. /\ copies[r] + 1 \in 0..CopiesAllowed(r)
      /\ copies[r] + 1 > 0
      /\ job[r].status = "queued" => copies[r] + 1 <= CopiesCounted(r) + 1
      /\ Stored(r) => sent[r] = Carried(r)
  <2>1. /\ copies[r] < CopiesAllowed(r)
        /\ job[r].status = "queued" => copies[r] <= CopiesCounted(r)
        /\ Stored(r) => sent[r] = Carried(r)
    BY <1>1, <1>2 DEF UnderWay
  <2>2. copies[r] \in Nat /\ CopiesCounted(r) \in Nat /\ CopiesAllowed(r) \in Nat
    BY CountedCopies DEF TypeOK, CopiesKnown
  <2> QED
    BY <2>1, <2>2
<1>5. /\ copies'[r] = copies[r] + 1
      /\ \A q \in Records \ {r} : copies'[q] = copies[q]
      /\ phase'[k] = "arrived"
      /\ \A l \in Workers \ {k} : phase'[l] = phase[l]
  BY <1>2 DEF TypeOK
<1>6. \A q \in Records : CopiesCounted(q)' = CopiesCounted(q)
  BY <1>2, CountsAreRead
<1>7. TypeOK'
  BY <1>2, <1>4 DEF TypeOK
<1>8. JobsWellFormed' /\ PendingIsOwed' /\ RecordsWellFormed' /\ ClaimsExclusive'
  BY <1>2 DEF JobsWellFormed, PendingIsOwed, RecordsWellFormed, ClaimsExclusive, Stored
<1>9. AttemptsKnown'
  <2>1. \A l \in Workers \ {k} : at[l] # Nowhere => copies'[at[l]] = copies[at[l]]
    BY <1>3, <1>5 DEF TypeOK
  <2>2. r # Nowhere
    BY ConstantsAssumption
  <2> QED
    BY <1>1, <1>2, <1>3, <1>4, <1>5, <2>1, <2>2 DEF AttemptsKnown
<1>10. UnderWay'
  <2>1. \A l \in Workers : phase'[l] = "sending" =>
            phase[l] = "sending" /\ at[l] \in Records \ {r}
    BY <1>3, <1>5, ConstantsAssumption DEF TypeOK, AttemptsKnown
  <2> QED
    BY <1>2, <1>5, <2>1, UnderWayStays DEF Stored, Carried
<1>11. CopiesKnown'
  <2> SUFFICES ASSUME NEW q \in Records
               PROVE
                    /\ copies'[q] \in 0..CopiesAllowed(q)
                    /\ state[q] = "none" => copies'[q] = 0
                    /\ state[q] = "cancelled" /\ q \in Confirmed => copies'[q] = 0
                    /\ job[q].status = "queued" /\ job[q].lease = Nowhere
                       => copies'[q] <= CopiesCounted(q)
                    /\ \A l \in Workers : q \in fresh[l] /\ job[q].status = "queued" =>
                        /\ at[l] # q => copies'[q] <= CopiesCounted(q)
                        /\ at[l] = q => copies'[q] <= CopiesCounted(q) + 1
                    /\ state[q] = "delivered" =>
                        IF decision[q].target = "user" THEN copies'[q] = 0
                                                       ELSE copies'[q] > 0
    BY <1>2, <1>6 DEF CopiesKnown, CopiesAllowed
  <2>1. CASE q = r
    BY <1>1, <1>3, <1>4, <1>5, <2>1
  <2>2. CASE q # r
    BY <1>5, <2>2 DEF CopiesKnown
  <2> QED
    BY <2>1, <2>2
<1>12. WordsKnown'
  <2> SUFFICES ASSUME NEW q \in Records, Stored(q), copies'[q] > 0,
                      ~(q \in withdrawn /\ q \in edited)
               PROVE  sent[q] = Carried(q)
    BY <1>2 DEF WordsKnown, Stored, Carried
  <2>1. CASE q = r
    BY <1>4, <2>1
  <2>2. CASE q # r
    BY <1>5, <2>2 DEF WordsKnown
  <2> QED
    BY <2>1, <2>2
<1> QED
  BY <1>7, <1>8, <1>9, <1>10, <1>11, <1>12

\* A runner that says no more than it knows of what it claimed.
LEMMA ReportingKeeps ==
    ASSUME IInv, NEW k \in Workers, NEW r \in fresh[k], at[k] \in {Nowhere, r},
           NEW said \in {"succeeded", "delivered", "retryable", "final"},
           Reporting(k, r, said),
           UNCHANGED <<poolVars, recordVars, job, outsideVars, fresh, vanished,
                       attempted, faults>>,
           said = "delivered" => copies[r] > 0,
           said = "retryable" /\ job[r].status = "queued" /\ r \in Confirmed
               => copies[r] = 0,
           said = "succeeded" => state[r] # "pending"
    PROVE  IInv'
<1> USE DEF Reporting, IInv, poolVars, recordVars, outsideVars
<1>1. r \in Records
  BY DEF TypeOK
<1>2. TypeOK'
  BY <1>1 DEF TypeOK
<1>3. /\ JobsWellFormed' /\ PendingIsOwed' /\ RecordsWellFormed' /\ ClaimsExclusive'
      /\ WordsKnown'
  BY DEF JobsWellFormed, PendingIsOwed, RecordsWellFormed, ClaimsExclusive, WordsKnown,
     Stored, Carried
<1>4. AttemptsKnown'
  BY <1>1, ConstantsAssumption DEF TypeOK, AttemptsKnown
<1>5. CopiesKnown'
  <2>1. \A q \in Records : CopiesCounted(q)' = CopiesCounted(q)
    BY CountsAreRead
  <2>2. \A q \in Records : \A l \in Workers : at'[l] # q => at[l] # q
    BY ConstantsAssumption DEF TypeOK
  <2>3. \A q \in Records : CopiesCounted(q) \in Nat /\ copies[q] \in Int
    BY CountedCopies DEF TypeOK
  <2> QED
    BY <2>1, <2>2, <2>3 DEF CopiesKnown
<1>6. UnderWay'
  <2>1. phase'[k] # "sending" /\ \A l \in Workers \ {k} : phase'[l] = phase[l] /\ at'[l] = at[l]
    BY DEF TypeOK
  <2> QED
    BY <2>1, UnderWayStays DEF Stored, Carried
<1> QED
  BY <1>2, <1>3, <1>4, <1>5, <1>6

\* An attempt: sent, or found to have nothing to send, and answered.
LEMMA AttemptKeeps ==
    ASSUME IInv, NEW k \in Workers, Attempt(k)
    PROVE  IInv'
<1>1. ASSUME NEW r \in Records, PrepareSettled(k, r)
      PROVE  IInv'
  <2>1. at[k] = Nowhere
    BY <1>1 DEF PrepareSettled, IInv, AttemptsKnown
  <2> QED
    BY <1>1, <2>1, ReportingKeeps DEF PrepareSettled
<1>2. ASSUME NEW r \in Records, PrepareFails(k, r)
      PROVE  IInv'
  <2>1. at[k] = Nowhere /\ at[k] # r
    BY <1>2, ConstantsAssumption DEF PrepareFails, IInv, AttemptsKnown
  <2>2. job[r].status = "queued" /\ r \in Confirmed => copies[r] = 0
    BY <1>2, <2>1, CountedCopies DEF PrepareFails, IInv, TypeOK, CopiesKnown
  <2> QED
    BY <1>2, <2>1, <2>2, ReportingKeeps DEF PrepareFails
<1>3. ASSUME NEW r \in Records, Send(k, r)
      PROVE  IInv'
  BY <1>3, SendKeeps
<1>4. CASE Arrives(k)
  BY <1>4, ArrivesKeeps
<1>5. CASE phase[k] \in {"sending", "arrived"}
  <2>1. PICK r \in Records : at[k] = r /\ r \in fresh[k]
    BY <1>5 DEF IInv, TypeOK, AttemptsKnown
  <2>2. CASE AnswersDelivered(k)
    <3>1. copies[r] > 0
      BY <2>1, <2>2 DEF AnswersDelivered, IInv, AttemptsKnown
    <3> QED
      BY <2>1, <2>2, <3>1, ReportingKeeps DEF AnswersDelivered
  <2>3. CASE AnswersUnknown(k)
    BY <2>1, <2>3, ReportingKeeps DEF AnswersUnknown
  <2>4. CASE AnswersUnconfirmed(k)
    BY <2>1, <2>4, ReportingKeeps DEF AnswersUnconfirmed
  <2>5. CASE AnswersNothingArrived(k)
    <3>1. job[r].status = "queued" /\ r \in Confirmed => copies[r] = 0
      BY <2>1, <2>5, CountedCopies
         DEF AnswersNothingArrived, IInv, TypeOK, UnderWay, CopiesKnown
    <3> QED
      BY <2>1, <2>5, <3>1, ReportingKeeps DEF AnswersNothingArrived
  <2> QED
    BY <1>1, <1>2, <1>3, <1>4, <2>2, <2>3, <2>4, <2>5 DEF Attempt
<1> QED
  BY <1>1, <1>2, <1>3, <1>4, <1>5 DEF Attempt, AnswersDelivered, AnswersUnknown,
     AnswersUnconfirmed, AnswersNothingArrived

-----------------------------------------------------------------------------
(* The invariant, and what follows from it.                                 *)

\* The empty pool is safe.
LEMMA InitSafe == Init => IInv
BY ConstantsAssumption
   DEF Init, IInv, TypeOK, NoJob, Job, JobsWellFormed, PendingIsOwed, RecordsWellFormed,
       ClaimsExclusive, AttemptsKnown, UnderWay, CopiesKnown, CopiesAllowed,
       CopiesCounted, WordsKnown, Stored

\* No step of anybody leads out of the invariant.
LEMMA NextSafe ==
    ASSUME IInv, [Next]_vars
    PROVE  IInv'
<1>1. CASE Person
  BY <1>1, PersonKeeps
<1>2. ASSUME NEW r \in Records, ComesDue(r) \/ LeaseLapses(r)
      PROVE  IInv'
  BY <1>2, ComesDueKeeps, LeaseLapsesKeeps
<1>3. ASSUME NEW k \in Workers, Runner(k) \/ AbandonThrows(k) \/ Crash(k)
      PROVE  IInv'
  <2>1. CASE \/ StartPass(k) \/ ClaimNothing(k) \/ PerformBatch(k) \/ EndPass(k)
             \/ AbandonThrows(k) \/ Crash(k)
    BY <2>1, PassKeeps
  <2>2. CASE Claim(k) \/ Attempt(k) \/ Complete(k)
    BY <2>2, ClaimKeeps, AttemptKeeps, CompleteKeeps
  <2>3. CASE \E r \in Records : AbandonUnknown(k, r) \/ Release(k, r)
    BY <2>3, AbandonUnknownKeeps, ReleaseKeeps
  <2> QED
    BY <1>3, <2>1, <2>2, <2>3 DEF Runner
<1>4. CASE UNCHANGED vars
  <2>1. \A r \in Records : CopiesCounted(r)' = CopiesCounted(r)
    BY <1>4, CountsAreRead DEF vars
  <2> QED
    BY <1>4, <2>1 DEF vars, poolVars, recordVars, outsideVars, workerVars, IInv, TypeOK,
       JobsWellFormed, PendingIsOwed, RecordsWellFormed, ClaimsExclusive,
       AttemptsKnown, UnderWay, Taken, CopiesKnown, CopiesAllowed, WordsKnown, Stored,
       Carried
<1> QED
  BY <1>1, <1>2, <1>3, <1>4 DEF Next

\* The invariant holds for ever.
THEOREM Safe == Spec => []IInv
<1>1. Init => IInv
  BY InitSafe
<1>2. IInv /\ [Next]_vars => IInv'
  BY NextSafe
<1> QED
  BY <1>1, <1>2, PTL DEF Spec

\* Type correctness.
THEOREM TypeCorrect == Spec => []TypeOK
<1>1. IInv => TypeOK
  BY DEF IInv
<1> QED
  BY <1>1, Safe, PTL

\* No decision leaves two copies at its destination, whatever crashes, lapses
\* and races come between its attempts, or more than it has attempts where its
\* kind writes again what it could not confirm.
THEOREM DeliveredAtMostOnce == Spec => []AtMostOneCopy
<1>1. ASSUME IInv, NEW r \in Records
      PROVE  copies[r] <= CopiesAllowed(r)
  BY <1>1 DEF IInv, CopiesKnown
<1>2. IInv => AtMostOneCopy
  BY <1>1 DEF AtMostOneCopy
<1> QED
  BY <1>2, Safe, PTL

\* A delivery called off has left nothing and will leave nothing, where its kind
\* confirms what it says.
THEOREM CalledOffForGood == Spec => []CancelledLeftNothing
<1>1. IInv => CancelledLeftNothing
  BY ConstantsAssumption DEF IInv, CopiesKnown, CancelledLeftNothing
<1> QED
  BY <1>1, Safe, PTL

\* What is put back among the jobs to attempt has left nothing where its kind
\* confirms what it says, and no more than was counted elsewhere.
THEOREM RetriedOnlyIfNothingLeft == Spec => []FreeJobLeftNothing
<1>1. IInv => FreeJobLeftNothing
  BY DEF IInv, CopiesKnown, FreeJobLeftNothing
<1> QED
  BY <1>1, Safe, PTL

\* A reservation is stored exactly while a job owes its delivery.
THEOREM ReservedWhileOwed == Spec => []PendingIsOwed
<1>1. IInv => PendingIsOwed
  BY DEF IInv
<1> QED
  BY <1>1, Safe, PTL

\* What arrived under a standing record is what its item reads now.
THEOREM ArrivedAsItReads == Spec => []SentStillReads
<1>1. ASSUME IInv, NEW r \in Records, Stored(r), decision[r].target = "destination",
             r \notin withdrawn, state[r] = "delivered" \/ copies[r] > 0
      PROVE  copies[r] > 0 /\ sent[r] = Carried(r)
  <2>1. copies[r] > 0
    BY <1>1 DEF IInv, CopiesKnown
  <2> QED
    BY <1>1, <2>1 DEF IInv, WordsKnown
<1>2. IInv => SentStillReads
  BY <1>1 DEF SentStillReads
<1> QED
  BY <1>2, Safe, PTL

-----------------------------------------------------------------------------
(* A pass attempts a job at most once.                                      *)

\* Nothing a pass is performing was attempted in it before.
Unattempted ==
    \A k \in Workers : phase[k] \in {"performing", "sending", "arrived", "reporting"} =>
        fresh[k] \cap attempted[k] = {}

\* No step performs what the pass has attempted.
LEMMA UnattemptedKept ==
    ASSUME IInv, Unattempted, [Next]_vars
    PROVE  Unattempted'
<1> USE DEF Unattempted
<1>1. CASE Person
  BY <1>1 DEF Person, Capture, Amend, Revise, Archive, Unarchive, Route,
     MarkProcessed, CancelDelivery, Withdraw, Reinstate, workerVars
<1>2. ASSUME NEW r \in Records, ComesDue(r) \/ LeaseLapses(r)
      PROVE  Unattempted'
  BY <1>2 DEF ComesDue, LeaseLapses, workerVars
<1>3. ASSUME NEW k \in Workers,
             \/ StartPass(k) \/ ClaimNothing(k) \/ PerformBatch(k) \/ EndPass(k)
             \/ AbandonThrows(k) \/ Crash(k)
      PROVE  Unattempted'
  BY <1>3 DEF StartPass, ClaimNothing, PerformBatch, EndPass, AbandonThrows, Crash,
     IInv, TypeOK
<1>4. ASSUME NEW k \in Workers, Attempt(k)
      PROVE  Unattempted'
  BY <1>4 DEF Attempt, PrepareSettled, PrepareFails, Send, Arrives, AnswersDelivered,
     AnswersUnknown, AnswersNothingArrived, AnswersUnconfirmed, Reporting, IInv, TypeOK
<1>5. ASSUME NEW k \in Workers, Claim(k)
      PROVE  Unattempted'
  <2>1. /\ phase'[k] \in {"claiming", "sorting"}
        /\ attempted' = attempted
        /\ \A l \in Workers \ {k} : phase'[l] = phase[l] /\ fresh'[l] = fresh[l]
    BY <1>5 DEF Claim, IInv, TypeOK
  <2> QED
    BY <2>1
<1>6. ASSUME NEW k \in Workers, NEW r \in Records, AbandonUnknown(k, r) \/ Release(k, r)
      PROVE  Unattempted'
  BY <1>6 DEF AbandonUnknown, Release, IInv, TypeOK
<1>7. ASSUME NEW k \in Workers, Complete(k)
      PROVE  Unattempted'
  BY <1>7 DEF Complete, IInv, TypeOK
<1>8. CASE UNCHANGED vars
  BY <1>8 DEF vars, workerVars
<1> QED
  BY <1>1, <1>2, <1>3, <1>4, <1>5, <1>6, <1>7, <1>8 DEF Next, Runner

\* A pass attempts a job at most once.
THEOREM AttemptedOncePerPass == Spec => []OneAttemptPerPass
<1>1. Init => Unattempted
  BY DEF Init, Unattempted
<1>2. IInv /\ Unattempted /\ [Next]_vars => Unattempted'
  BY UnattemptedKept
<1>3. IInv /\ Unattempted => OneAttemptPerPass
  BY ConstantsAssumption DEF IInv, TypeOK, AttemptsKnown, Unattempted, OneAttemptPerPass
<1> QED
  BY <1>1, <1>2, <1>3, Safe, PTL DEF Spec

-----------------------------------------------------------------------------
(* What was delivered stays delivered.                                      *)

\* No step takes back a delivery.
LEMMA DeliveredKept ==
    ASSUME IInv, [Next]_vars, NEW r \in Records,
           state[r] = "delivered", decision[r].target = "destination"
    PROVE  state'[r] = "delivered"
<1>1. ASSUME NEW q \in Records, SettlesRow(q)
      PROVE  state'[r] = "delivered"
  BY <1>1 DEF SettlesRow
<1>2. CASE Person
  BY <1>2 DEF Person, Capture, Amend, Revise, Archive, Unarchive, Route, MarkProcessed,
     CancelDelivery, Cancellable, Withdraw, Reinstate, recordVars, IInv, TypeOK
<1>3. ASSUME NEW q \in Records, ComesDue(q) \/ LeaseLapses(q)
      PROVE  state'[r] = "delivered"
  BY <1>3 DEF ComesDue, LeaseLapses, recordVars
<1>4. ASSUME NEW k \in Workers, Runner(k) \/ AbandonThrows(k) \/ Crash(k)
      PROVE  state'[r] = "delivered"
  <2>1. CASE UNCHANGED state
    BY <2>1
  <2>2. ASSUME NEW q \in Records, AbandonUnknown(k, q)
        PROVE  state'[r] = "delivered"
    BY <1>1, <2>2, AbandonUnknownSettles
  <2>3. CASE Complete(k)
    BY <1>1, <2>3, CompleteSettles, CompletesARecord
  <2> QED
    BY <1>4, <2>1, <2>2, <2>3 DEF Runner, StartPass, Claim, ClaimNothing, PerformBatch,
       EndPass, AbandonThrows, Crash, Release, Attempt, PrepareSettled, PrepareFails,
       Send, Arrives, AnswersDelivered, AnswersUnknown, AnswersNothingArrived,
       AnswersUnconfirmed, recordVars
<1>5. CASE UNCHANGED vars
  BY <1>5 DEF vars, recordVars
<1> QED
  BY <1>2, <1>3, <1>4, <1>5 DEF Next

\* What a destination received is never denied.
THEOREM DeliveredForGood == Spec => DeliveredStays
<1>1. IInv /\ [Next]_vars =>
        [\A r \in Records : state[r] = "delivered" /\ decision[r].target = "destination"
                                => state'[r] = "delivered"]_vars
  BY DeliveredKept
<1> QED
  BY <1>1, Safe, PTL DEF Spec, DeliveredStays

-----------------------------------------------------------------------------
(***************************************************************************)
(* The queue, its leases and its runners keep the promises RoutingDecision *)
(* makes: every step of Delivery is, seen from outside, one of its steps   *)
(* or nothing.  What it looks at is the decisions a retry cannot           *)
(* duplicate, so a step on any other is nothing to it.                     *)
(***************************************************************************)

\* One row moving from one stage to another is a move of its decision, and not
\* seen where a retry may duplicate.
LEMMA StageMoves ==
    ASSUME NEW r \in Records, NEW from, NEW to,
           Stage(r) = from, Stage(r)' = to,
           \A q \in Records \ {r} : Stage(q)' = Stage(q),
           UNCHANGED copies
    PROVE  IF r \in Repeatable THEN Promised!Moves(r, from, to)
                               ELSE UNCHANGED Promised!decisionVars
<1>1. CASE r \in Repeatable
  BY <1>1, ConstantsAssumption DEF Promised!Moves
<1>2. CASE r \notin Repeatable
  BY <1>2, ConstantsAssumption DEF Promised!decisionVars
<1> QED
  BY <1>1, <1>2

\* Where every row stays at its stage, nothing is seen to happen.
LEMMA StagesStay ==
    ASSUME \A r \in Records : Stage(r)' = Stage(r)
    PROVE  UNCHANGED [r \in Repeatable |-> Stage(r)]
BY ConstantsAssumption

\* The stage of a row is read from its state, its decision and its withdrawal.
LEMMA StageIsRead ==
    ASSUME NEW r \in Records, state'[r] = state[r], decision'[r] = decision[r],
           r \in withdrawn' <=> r \in withdrawn
    PROVE  Stage(r)' = Stage(r)
BY DEF Stage

\* A step that leaves the records alone, and what was sent of the decisions
\* looked at, is not seen.
LEMMA Unseen ==
    ASSUME UNCHANGED <<state, decision, withdrawn>>,
           \A r \in Repeatable : copies'[r] = copies[r]
    PROVE  UNCHANGED Promised!decisionVars
BY StageIsRead, StagesStay DEF Promised!decisionVars

\* A step of the person is decided, called off, withdrawn or put back.
LEMMA PersonIsSeen ==
    ASSUME IInv, Person
    PROVE  [Promised!Next]_(Promised!decisionVars)
<1>1. ASSUME NEW i \in Items,
             \/ Archive(i) \/ Unarchive(i)
             \/ \E w \in Words : Capture(i, w) \/ Amend(i, w)
      PROVE  UNCHANGED Promised!decisionVars
  BY <1>1, Unseen DEF Capture, Amend, Archive, Unarchive, recordVars, outsideVars
<1>2. ASSUME NEW i \in Items, NEW j \in Items, NEW w \in Words, Revise(i, w, j)
      PROVE  UNCHANGED Promised!decisionVars
  BY <1>2, Unseen DEF Revise, recordVars, outsideVars
<1>3. ASSUME NEW i \in Items, NEW c \in Words \cup {NoWords}, NEW r \in Records,
             Route(i, c, r)
      PROVE  [Promised!Next]_(Promised!decisionVars)
  <2>1. /\ Stage(r) = "none"
        /\ Stage(r)' = "pending"
    BY <1>3 DEF Route, Stage, IInv, TypeOK
  <2>2. \A q \in Records \ {r} : Stage(q)' = Stage(q)
    BY <1>3, StageIsRead DEF Route, IInv, TypeOK
  <2> QED
    BY <1>3, <2>1, <2>2, StageMoves DEF Route, outsideVars, Promised!Next, Promised!Decide
<1>4. ASSUME NEW i \in Items, NEW r \in Records, MarkProcessed(i, r)
      PROVE  [Promised!Next]_(Promised!decisionVars)
  <2>0. decision'[r].target = "user" /\ state'[r] = "delivered"
    BY <1>4 DEF MarkProcessed, IInv, TypeOK
  <2>1. Stage(r) = "none" /\ Stage(r)' = "marked"
    BY <1>4, <2>0 DEF MarkProcessed, Stage
  <2>2. \A q \in Records \ {r} : Stage(q)' = Stage(q)
    BY <1>4, StageIsRead DEF MarkProcessed, IInv, TypeOK
  <2> QED
    BY <1>4, <2>1, <2>2, StageMoves DEF MarkProcessed, outsideVars, Promised!Next,
       Promised!MarkByHand
<1>5. ASSUME NEW r \in Records, CancelDelivery(r)
      PROVE  [Promised!Next]_(Promised!decisionVars)
  <2>1. Stage(r)' = "cancelled"
    BY <1>5 DEF CancelDelivery, Stage, IInv, TypeOK
  <2>2. \A q \in Records \ {r} : Stage(q)' = Stage(q)
    BY <1>5, StageIsRead DEF CancelDelivery, IInv, TypeOK
  <2>3. CASE state[r] = "pending"
    <3>1. Stage(r) = "pending"
      BY <2>3 DEF Stage
    <3>2. r \in Confirmed => copies[r] = 0
      BY <1>5, <2>3, CountedCopies
         DEF CancelDelivery, Held, IInv, TypeOK, PendingIsOwed, CopiesKnown
    <3> QED
      BY <1>5, <2>1, <2>2, <3>1, <3>2, StageMoves DEF CancelDelivery, outsideVars,
         Promised!Next, Promised!CallOff
  <2>4. CASE state[r] = "delivered"
    <3>1. decision[r].target = "user"
      BY <1>5, <2>4 DEF CancelDelivery, Cancellable
    <3>2. Stage(r) = "marked"
      BY <2>4, <3>1 DEF Stage
    <3> QED
      BY <1>5, <2>1, <2>2, <3>2, StageMoves DEF CancelDelivery, outsideVars,
         Promised!Next, Promised!Unmark
  <2> QED
    BY <1>5, <2>3, <2>4 DEF CancelDelivery, Stored
<1>6. ASSUME NEW r \in Records, Withdraw(r)
      PROVE  [Promised!Next]_(Promised!decisionVars)
  <2>1. Stage(r) = "delivered" /\ Stage(r)' = "withdrawn"
    BY <1>6 DEF Withdraw, Stage
  <2>2. \A q \in Records \ {r} : Stage(q)' = Stage(q)
    BY <1>6, StageIsRead DEF Withdraw
  <2> QED
    BY <1>6, <2>1, <2>2, StageMoves DEF Withdraw, outsideVars, Promised!Next,
       Promised!Withdraw
<1>7. ASSUME NEW r \in Records, Reinstate(r)
      PROVE  [Promised!Next]_(Promised!decisionVars)
  <2>1. Stage(r) = "withdrawn" /\ Stage(r)' = "delivered"
    BY <1>7 DEF Reinstate, Stage, IInv, RecordsWellFormed
  <2>2. \A q \in Records \ {r} : Stage(q)' = Stage(q)
    BY <1>7, StageIsRead DEF Reinstate
  <2> QED
    BY <1>7, <2>1, <2>2, StageMoves DEF Reinstate, outsideVars, Promised!Next,
       Promised!Reinstate
<1> QED
  BY <1>1, <1>2, <1>3, <1>4, <1>5, <1>6, <1>7 DEF Person

\* Where a retry lands on what the last attempt left, there is a copy or none.
LEMMA CopiesRange ==
    ASSUME IInv, NEW r \in Repeatable
    PROVE  r \in Records /\ copies[r] \in 0..1
BY ConstantsAssumption DEF IInv, CopiesKnown, CopiesAllowed

\* What a step does to one row's copies is all that is seen of them.
LEMMA CopiesSeen ==
    ASSUME IInv, NEW r \in Repeatable, NEW n, copies' = [copies EXCEPT ![r] = n]
    PROVE  [q \in Repeatable |-> copies'[q]]
             = [[q \in Repeatable |-> copies[q]] EXCEPT ![r] = n]
<1>1. copies \in [Records -> Int]
  BY DEF IInv, TypeOK
<1>2. copies'[r] = n /\ \A q \in Repeatable \ {r} : copies'[q] = copies[q]
  BY <1>1, ConstantsAssumption
<1> QED
  BY <1>2

\* Reporting on a row lands it, gives up on it, or is not seen.
LEMMA SettlingIsSeen ==
    ASSUME IInv, NEW r \in Records, SettlesRow(r), UNCHANGED <<decision, withdrawn, copies>>
    PROVE  [Promised!Next]_(Promised!decisionVars)
<1>1. \A q \in Records \ {r} : Stage(q)' = Stage(q)
  BY StageIsRead DEF SettlesRow
<1>2. CASE state' = state
  BY <1>2, Unseen
<1>3. CASE state[r] = "pending"
  <2>1. Stage(r) = "pending" /\ r \notin withdrawn /\ decision[r].target = "destination"
    BY <1>3 DEF Stage, IInv, RecordsWellFormed
  <2>2. CASE state' = [state EXCEPT ![r] = "abandoned"]
    <3>1. Stage(r)' = "abandoned"
      BY <2>2 DEF Stage, IInv, TypeOK
    <3> QED
      BY <1>1, <2>1, <3>1, StageMoves DEF Promised!Next, Promised!GiveUp
  <2>3. CASE state' = [state EXCEPT ![r] = "delivered"] /\ copies[r] > 0
    <3>1. Stage(r)' = "delivered"
      BY <2>1, <2>3 DEF Stage, IInv, TypeOK
    <3>2. r \in Repeatable => copies[r] = 1
      BY <2>3, CopiesRange
    <3> QED
      BY <1>1, <2>1, <2>3, <3>1, <3>2, StageMoves DEF Promised!Next, Promised!Land
  <2> QED
    BY <1>2, <1>3, <2>2, <2>3 DEF SettlesRow
<1> QED
  BY <1>2, <1>3 DEF SettlesRow

\* A runner's pass is seen only in what arrives and in how a decision ends.
LEMMA RunnerIsSeen ==
    ASSUME IInv, NEW k \in Workers, Runner(k) \/ AbandonThrows(k) \/ Crash(k)
    PROVE  [Promised!Next]_(Promised!decisionVars)
<1>1. CASE \/ StartPass(k) \/ Claim(k) \/ ClaimNothing(k) \/ PerformBatch(k)
           \/ EndPass(k) \/ AbandonThrows(k) \/ Crash(k)
  BY <1>1, Unseen DEF StartPass, Claim, ClaimNothing, PerformBatch, EndPass,
     AbandonThrows, Crash, recordVars, outsideVars
<1>2. ASSUME NEW r \in Records,
             \/ Release(k, r) \/ PrepareSettled(k, r) \/ PrepareFails(k, r) \/ Send(k, r)
      PROVE  UNCHANGED Promised!decisionVars
  BY <1>2, Unseen DEF Release, PrepareSettled, PrepareFails, Send, recordVars, outsideVars
<1>3. CASE \/ AnswersDelivered(k) \/ AnswersUnknown(k)
           \/ AnswersNothingArrived(k) \/ AnswersUnconfirmed(k)
  BY <1>3, Unseen DEF AnswersDelivered, AnswersUnknown, AnswersNothingArrived,
     AnswersUnconfirmed, recordVars, outsideVars
<1>4. ASSUME NEW r \in Records, AbandonUnknown(k, r)
      PROVE  [Promised!Next]_(Promised!decisionVars)
  BY <1>4, AbandonUnknownSettles, SettlingIsSeen DEF AbandonUnknown, outsideVars
<1>5. CASE Complete(k)
  <2>1. PICK r \in Records : at[k] = r
    BY <1>5, CompletesARecord
  <2> QED
    BY <1>5, <2>1, CompleteSettles, SettlingIsSeen DEF Complete, outsideVars
<1>6. CASE Arrives(k)
  <2>1. PICK r \in Records : at[k] = r /\ r \in fresh[k] /\ phase[k] = "sending"
    BY <1>6 DEF Arrives, IInv, TypeOK, AttemptsKnown
  <2>2. copies' = [copies EXCEPT ![r] = @ + 1] /\ ~Taken(r)
    BY <1>6, <2>1 DEF Arrives
  <2>3. UNCHANGED [q \in Repeatable |-> Stage(q)]
    BY <1>6, StageIsRead, StagesStay DEF Arrives, recordVars
  <2>4. CASE r \in Repeatable
    <3>1. copies[r] = 0
      BY <2>1, <2>2, <2>4, CopiesRange DEF IInv, UnderWay, CopiesAllowed
    <3>2. Stage(r) \in {"pending", "abandoned"}
      BY <2>1 DEF Stage, IInv, ClaimsExclusive
    <3>3. [q \in Repeatable |-> copies'[q]]
            = [[q \in Repeatable |-> copies[q]] EXCEPT ![r] = 1]
      <4>1. copies' = [copies EXCEPT ![r] = 1]
        BY <2>2, <3>1
      <4> QED
        BY <2>4, <4>1, CopiesSeen
    <3>4. Promised!Arrives(r)
      BY <2>3, <2>4, <3>1, <3>2, <3>3 DEF Promised!Arrives
    <3> QED
      BY <2>4, <3>4 DEF Promised!Next
  <2>5. CASE r \notin Repeatable
    BY <1>6, <2>2, <2>5, Unseen, ConstantsAssumption DEF Arrives, IInv, TypeOK, recordVars
  <2> QED
    BY <2>4, <2>5
<1> QED
  BY <1>1, <1>2, <1>3, <1>4, <1>5, <1>6 DEF Runner, Attempt

\* Seen from outside, Delivery does what RoutingDecision says and nothing else,
\* to every decision whose kind promises that a retry cannot duplicate.
THEOREM PromisesKept == Spec => KeepsItsPromises
<1>1. Init => Promised!Init
  BY ConstantsAssumption DEF Init, Promised!Init, Stage
<1>2. IInv /\ [Next]_vars => [Promised!Next]_(Promised!decisionVars)
  <2>1. SUFFICES ASSUME IInv, [Next]_vars
                 PROVE  [Promised!Next]_(Promised!decisionVars)
    OBVIOUS
  <2>2. ASSUME NEW r \in Records, ComesDue(r) \/ LeaseLapses(r)
        PROVE  UNCHANGED Promised!decisionVars
    BY <2>2, Unseen DEF ComesDue, LeaseLapses, recordVars, outsideVars
  <2>3. CASE UNCHANGED vars
    BY <2>3, Unseen DEF vars, recordVars, outsideVars
  <2> QED
    BY <2>1, <2>2, <2>3, PersonIsSeen, RunnerIsSeen DEF Next
<1> QED
  BY <1>1, <1>2, Safe, PTL DEF Spec, KeepsItsPromises, Promised!Spec
=============================================================================
