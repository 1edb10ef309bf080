------------------------------ MODULE Delivery ------------------------------
(***************************************************************************)
(* The delivery of routing decisions: packages/core/src/pool/{work,edit,   *)
(* archive}.ts and pool/routing/*, the job queue of                        *)
(* packages/adapters/store-sqlite/src/jobs.ts, and the daemon's delivery   *)
(* runner (apps/daemon/src/work/runner.ts, destinations/runner.ts).        *)
(*                                                                         *)
(* One action is one store transaction, one read outside a transaction, or *)
(* one answer of a destination.  Every record here was routed by hand      *)
(* (`applied` is undefined) in a pool with no mirror, the two cases        *)
(* modules Filing and Mirror add.  Times are kept only as the comparisons  *)
(* the code makes with them: a job is due or not, a lease lapsed or not,   *)
(* the item edited since a withdrawal or not.                              *)
(***************************************************************************)
EXTENDS Integers, FiniteSets

CONSTANTS
    Items,        \* ids of captured items
    Words,        \* what an item can say
    Records,      \* ids of routing records, each naming its one delivery job
    Repeatable,   \* the records a retry cannot duplicate: what arrived is
                  \* confirmed, or holds the one name a retry could take
    Confirmed,    \* of those, the ones whose destination's kind never answers
                  \* `unreachable` of what may have arrived
    Workers,      \* delivery runners sharing the store
    Batch,        \* how many leases one claim asks for
    MaxAttempts,  \* config.retry.maxAttempts
    MaxFaults,    \* bound: passes that end without reporting
    NoWords,      \* nothing said: a decision that sends the item as it reads
    Nowhere       \* no record, no lease, no decision

Decision == [item: Items,
             target: {"destination", "user"},
             content: Words \cup {NoWords}]

Lease == Workers \X {"first", "again"}

ASSUME ConstantsAssumption ==
    /\ Batch \in Nat \ {0}
    /\ MaxAttempts \in Nat \ {0}
    /\ MaxFaults \in Nat
    /\ NoWords \notin Words
    /\ Nowhere \notin Records
    /\ Nowhere \notin Decision
    /\ Nowhere \notin Lease
    /\ IsFiniteSet(Records)
    /\ Confirmed \subseteq Repeatable
    /\ Repeatable \subseteq Records

VARIABLES
    items,      \* the items stored
    words,      \* what each one says
    archived,   \* the items archived
    revised,    \* the items with a revision
    decision,   \* what each record was minted with
    state,      \* each record's row, and why the row has gone
    withdrawn,  \* the records withdrawn
    edited,     \* of those, the ones whose item was amended since
    job,        \* the delivery job of each record
    copies,     \* what the destination holds of each decision
    sent,       \* the words the last attempt carried
    phase,      \* where each runner's pass stands
    fresh,      \* the leases a pass has claimed and not reported
    vanished,   \* the leases it claimed from a holder that never reported
    attempted,  \* the jobs the pass has attempted
    at,         \* the job it is performing
    outcome,    \* what it will report of that job
    faults      \* passes that ended without reporting, so far

poolVars   == <<items, words, archived, revised>>
recordVars == <<decision, state, withdrawn, edited>>
outsideVars == <<copies, sent>>
workerVars == <<phase, fresh, vanished, attempted, at, outcome>>
vars == <<poolVars, recordVars, job, outsideVars, workerVars, faults>>

-----------------------------------------------------------------------------
(* Job rows.  The lease a claim takes over from a silent holder is another  *)
(* lease than one taken on a free row, even of the same worker.             *)

NoJob == [status |-> "none", attempt |-> 0, due |-> FALSE,
          lease |-> Nowhere, lapsed |-> FALSE]

Enqueued == [status |-> "queued", attempt |-> 0, due |-> FALSE,
             lease |-> Nowhere, lapsed |-> FALSE]

Job == [status: {"none", "queued", "abandoned"}, attempt: 0..MaxAttempts,
        due: BOOLEAN, lease: Lease \cup {Nowhere}, lapsed: BOOLEAN]

\* (Faulty.) A lapsed lease is never taken over.
ClaimableOnlyFree == {r \in Records : /\ job[r].status = "queued"
                                      /\ job[r].due
                                      /\ job[r].lease = Nowhere}

Claimable == {r \in Records : /\ job[r].status = "queued"
                              /\ job[r].due
                              /\ job[r].lease = Nowhere \/ job[r].lapsed}

\* (Faulty.) A job whose holder went silent is handed out like any other.
HandsOutVanished(taken) == {}

\* Those of the jobs claimed that another lease was still on.
Reclaimed(taken) == {r \in taken : job[r].lease # Nowhere}

\* (Faulty.) A lapsed lease does not hold the work.
HeldUntilItLapses(r) == job[r].lease # Nowhere /\ ~job[r].lapsed

Held(r) == job[r].lease # Nowhere

\* (Faulty.) A delivery under way has not been tried.
UntriedUntilReported(r) == job[r].status = "queued" /\ job[r].attempt = 0

Untried(r) ==
    /\ job[r].status = "queued"
    /\ job[r].attempt = 0
    /\ job[r].lease = Nowhere

FreedJob(r) == [job[r] EXCEPT !.lease = Nowhere, !.lapsed = FALSE]

RetriedJob(r) == [FreedJob(r) EXCEPT !.attempt = @ + 1, !.due = FALSE]

\* (Faulty.) An abandoned row keeps its lease.
AbandonedHoldingLease(r) ==
    [job[r] EXCEPT !.status = "abandoned", !.attempt = @ + 1, !.due = FALSE]

AbandonedJob(r) ==
    [FreedJob(r) EXCEPT !.status = "abandoned", !.attempt = @ + 1, !.due = FALSE]

-----------------------------------------------------------------------------
(* Records.  A row that was removed keeps, as its state, the action log's   *)
(* word for why.                                                            *)

Stored(r) == state[r] \in {"pending", "delivered"}

RecordsOf(i) == {r \in Records : Stored(r) /\ decision[r].item = i}

Sealed(i) ==
    \/ i \in archived
    \/ i \in revised
    \/ \E r \in RecordsOf(i) \ withdrawn : state[r] = "delivered" \/ ~Untried(r)

\* What a delivery of the record carries: the item as it reads now, unless the
\* decision holds words of its own.
Carried(r) == IF decision[r].content = NoWords THEN words[decision[r].item]
                                            ELSE decision[r].content

-----------------------------------------------------------------------------
Init ==
    /\ items = {}
    /\ words = [i \in Items |-> NoWords]
    /\ archived = {}
    /\ revised = {}
    /\ decision = [r \in Records |-> Nowhere]
    /\ state = [r \in Records |-> "none"]
    /\ withdrawn = {}
    /\ edited = {}
    /\ job = [r \in Records |-> NoJob]
    /\ copies = [r \in Records |-> 0]
    /\ sent = [r \in Records |-> NoWords]
    /\ phase = [k \in Workers |-> "idle"]
    /\ fresh = [k \in Workers |-> {}]
    /\ vanished = [k \in Workers |-> {}]
    /\ attempted = [k \in Workers |-> {}]
    /\ at = [k \in Workers |-> Nowhere]
    /\ outcome = [k \in Workers |-> "none"]
    /\ faults = 0

-----------------------------------------------------------------------------
(* The person.                                                              *)

Capture(i, w) ==
    /\ i \notin items
    /\ items' = items \cup {i}
    /\ words' = [words EXCEPT ![i] = w]
    /\ UNCHANGED <<archived, revised, recordVars, job, outsideVars, workerVars, faults>>

Amend(i, w) ==
    /\ i \in items
    /\ ~Sealed(i)
    /\ words' = [words EXCEPT ![i] = w]
    /\ edited' = edited \cup (RecordsOf(i) \cap withdrawn)
    /\ UNCHANGED <<items, archived, revised, decision, state, withdrawn, job,
                   outsideVars, workerVars, faults>>

\* An edit of a sealed item is a new item; only the head of a line takes one.
Revise(i, w, revision) ==
    /\ i \in items
    /\ Sealed(i)
    /\ i \notin revised
    /\ revision \notin items
    /\ items' = items \cup {revision}
    /\ words' = [words EXCEPT ![revision] = w]
    /\ revised' = revised \cup {i}
    /\ UNCHANGED <<archived, recordVars, job, outsideVars, workerVars, faults>>

Archive(i) ==
    /\ i \in items \ archived
    /\ archived' = archived \cup {i}
    /\ UNCHANGED <<items, words, revised, recordVars, job, outsideVars, workerVars, faults>>

Unarchive(i) ==
    /\ i \in archived
    /\ archived' = archived \ {i}
    /\ UNCHANGED <<items, words, revised, recordVars, job, outsideVars, workerVars, faults>>

\* The decision and its job in one transaction; the job falls due when the
\* undo window has passed.
Route(i, content, r) ==
    /\ i \in items
    /\ state[r] = "none"
    /\ decision' = [decision EXCEPT ![r] =
                       [item |-> i, target |-> "destination", content |-> content]]
    /\ state' = [state EXCEPT ![r] = "pending"]
    /\ job' = [job EXCEPT ![r] = Enqueued]
    /\ UNCHANGED <<poolVars, withdrawn, edited, outsideVars, workerVars, faults>>

MarkProcessed(i, r) ==
    /\ i \in items
    /\ state[r] = "none"
    /\ decision' = [decision EXCEPT ![r] =
                       [item |-> i, target |-> "user", content |-> NoWords]]
    /\ state' = [state EXCEPT ![r] = "delivered"]
    /\ UNCHANGED <<poolVars, withdrawn, edited, job, outsideVars, workerVars, faults>>

\* (Faulty.) A delivery that landed can be cancelled.
CancellableOnceDelivered(r) == TRUE

Cancellable(r) == decision[r].target = "user" \/ state[r] = "pending"

\* withdrawWork refuses while any lease is on the row, lapsed or not.
CancelDelivery(r) ==
    /\ Stored(r)
    /\ Cancellable(r)
    /\ ~Held(r)
    /\ job' = [job EXCEPT ![r] = NoJob]
    /\ state' = [state EXCEPT ![r] = "cancelled"]
    /\ UNCHANGED <<poolVars, decision, withdrawn, edited, outsideVars, workerVars, faults>>

Withdraw(r) ==
    /\ state[r] = "delivered"
    /\ decision[r].target = "destination"
    /\ r \notin withdrawn
    /\ withdrawn' = withdrawn \cup {r}
    /\ edited' = edited \ {r}
    /\ UNCHANGED <<poolVars, decision, state, job, outsideVars, workerVars, faults>>

\* The code also refuses when the item was amended in the very millisecond of
\* the withdrawal, before it; here that reinstatement is allowed.
Reinstate(r) ==
    /\ r \in withdrawn
    /\ r \notin edited
    /\ withdrawn' = withdrawn \ {r}
    /\ UNCHANGED <<poolVars, decision, state, edited, job, outsideVars, workerVars, faults>>

-----------------------------------------------------------------------------
(* The passing of time.                                                     *)

\* The undo window or a backoff runs out.
ComesDue(r) ==
    /\ job[r].status = "queued"
    /\ ~job[r].due
    /\ job' = [job EXCEPT ![r].due = TRUE]
    /\ UNCHANGED <<poolVars, recordVars, outsideVars, workerVars, faults>>

LeaseLapses(r) ==
    /\ job[r].lease # Nowhere
    /\ ~job[r].lapsed
    /\ job' = [job EXCEPT ![r].lapsed = TRUE]
    /\ UNCHANGED <<poolVars, recordVars, outsideVars, workerVars, faults>>

-----------------------------------------------------------------------------
(* The runner.                                                              *)

StartPass(k) ==
    /\ phase[k] = "idle"
    /\ phase' = [phase EXCEPT ![k] = "claiming"]
    /\ UNCHANGED <<poolVars, recordVars, job, outsideVars, fresh, vanished, attempted,
                   at, outcome, faults>>

\* One claim of the store: as many claimable jobs as there are slots left.  The
\* ones another lease was still on are ended, and cost no slot.
Claim(k) ==
    /\ phase[k] = "claiming"
    /\ \E taken \in SUBSET Claimable :
        LET slots == Batch - Cardinality(fresh[k])
            again == Reclaimed(taken)
            first == taken \ again
            held  == fresh[k] \cup first
        IN  /\ taken # {}
            /\ \/ Cardinality(taken) = slots
               \/ Cardinality(taken) < slots /\ taken = Claimable
            /\ job' = [r \in Records |->
                         IF r \in taken
                         THEN [job[r] EXCEPT
                                 !.lease = <<k, IF r \in again THEN "again" ELSE "first">>,
                                 !.lapsed = FALSE]
                         ELSE job[r]]
            /\ fresh' = [fresh EXCEPT ![k] = held]
            /\ vanished' = [vanished EXCEPT ![k] = @ \cup again]
            /\ phase' = [phase EXCEPT ![k] = IF Cardinality(held) < Batch
                                             THEN "claiming" ELSE "sorting"]
    /\ UNCHANGED <<poolVars, recordVars, outsideVars, attempted, at, outcome, faults>>

ClaimNothing(k) ==
    /\ phase[k] = "claiming"
    /\ Claimable = {}
    /\ phase' = [phase EXCEPT ![k] = "sorting"]
    /\ UNCHANGED <<poolVars, recordVars, job, outsideVars, fresh, vanished, attempted,
                   at, outcome, faults>>

\* (Faulty.) The job is abandoned and its reservation left standing.
GiveUpKeepingTheRecord(r) ==
    /\ job' = [job EXCEPT ![r] = AbandonedJob(r)]
    /\ UNCHANGED state

\* Giving up on a delivery removes its record, in the transaction that
\* abandons the job.
GiveUp(r) ==
    /\ job' = [job EXCEPT ![r] = AbandonedJob(r)]
    /\ state' = [state EXCEPT ![r] = IF Stored(r) THEN "abandoned" ELSE @]

\* (Faulty.) What may have been attempted is put back to be attempted.
RetryUnknown(k, r) ==
    /\ phase[k] = "sorting"
    /\ r \in vanished[k]
    /\ job' = [job EXCEPT ![r] = IF @.lease = <<k, "again">> THEN FreedJob(r) ELSE @]
    /\ vanished' = [vanished EXCEPT ![k] = @ \ {r}]
    /\ UNCHANGED <<poolVars, recordVars, outsideVars, phase, fresh, attempted, at,
                   outcome, faults>>

AbandonUnknown(k, r) ==
    /\ phase[k] = "sorting"
    /\ r \in vanished[k]
    /\ IF job[r].lease = <<k, "again">> THEN GiveUp(r) ELSE UNCHANGED <<job, state>>
    /\ vanished' = [vanished EXCEPT ![k] = @ \ {r}]
    /\ UNCHANGED <<poolVars, decision, withdrawn, edited, outsideVars, phase, fresh,
                   attempted, at, outcome, faults>>

\* Ending a vanished delivery throws: what was claimed is released, and the
\* leases not ended stay on their rows.
AbandonThrows(k) ==
    /\ phase[k] = "sorting"
    /\ vanished[k] # {}
    /\ faults < MaxFaults
    /\ faults' = faults + 1
    /\ phase' = [phase EXCEPT ![k] = "unwinding"]
    /\ vanished' = [vanished EXCEPT ![k] = {}]
    /\ UNCHANGED <<poolVars, recordVars, job, outsideVars, fresh, attempted, at, outcome>>

\* Released: what an unwinding claim had taken, and what this pass has already
\* attempted once.
Release(k, r) ==
    /\ r \in fresh[k]
    /\ \/ phase[k] = "unwinding"
       \/ phase[k] = "sorting" /\ vanished[k] = {} /\ r \in attempted[k]
    /\ job' = [job EXCEPT ![r] = IF @.lease = <<k, "first">> THEN FreedJob(r) ELSE @]
    /\ fresh' = [fresh EXCEPT ![k] = @ \ {r}]
    /\ UNCHANGED <<poolVars, recordVars, outsideVars, phase, vanished, attempted, at,
                   outcome, faults>>

\* (Faulty.) A pass performs again what it has attempted.
PerformAnyBatch(k) ==
    /\ phase[k] = "sorting"
    /\ vanished[k] = {}
    /\ fresh[k] # {}
    /\ phase' = [phase EXCEPT ![k] = "performing"]
    /\ UNCHANGED <<poolVars, recordVars, job, outsideVars, fresh, vanished, attempted,
                   at, outcome, faults>>

PerformBatch(k) ==
    /\ phase[k] = "sorting"
    /\ vanished[k] = {}
    /\ fresh[k] # {}
    /\ fresh[k] \cap attempted[k] = {}
    /\ phase' = [phase EXCEPT ![k] = "performing"]
    /\ UNCHANGED <<poolVars, recordVars, job, outsideVars, fresh, vanished, attempted,
                   at, outcome, faults>>

EndPass(k) ==
    /\ phase[k] \in {"sorting", "unwinding"}
    /\ vanished[k] = {}
    /\ fresh[k] = {}
    /\ phase' = [phase EXCEPT ![k] = "idle"]
    /\ attempted' = [attempted EXCEPT ![k] = {}]
    /\ UNCHANGED <<poolVars, recordVars, job, outsideVars, fresh, vanished, at,
                   outcome, faults>>

Reporting(k, r, said) ==
    /\ phase' = [phase EXCEPT ![k] = "reporting"]
    /\ at' = [at EXCEPT ![k] = r]
    /\ outcome' = [outcome EXCEPT ![k] = said]

\* Nothing left to carry out: the record was cancelled or ended, or has landed.
PrepareSettled(k, r) ==
    /\ phase[k] = "performing"
    /\ r \in fresh[k]
    /\ state[r] # "pending"
    /\ Reporting(k, r, "succeeded")
    /\ UNCHANGED <<poolVars, recordVars, job, outsideVars, fresh, vanished, attempted, faults>>

\* The destination is unusable as configured, or reading the pool threw.
PrepareFails(k, r) ==
    /\ phase[k] = "performing"
    /\ r \in fresh[k]
    /\ Reporting(k, r, "retryable")
    /\ UNCHANGED <<poolVars, recordVars, job, outsideVars, fresh, vanished, attempted, faults>>

Send(k, r) ==
    /\ phase[k] = "performing"
    /\ r \in fresh[k]
    /\ state[r] = "pending"
    /\ phase' = [phase EXCEPT ![k] = "sending"]
    /\ at' = [at EXCEPT ![k] = r]
    /\ sent' = [sent EXCEPT ![r] = Carried(r)]
    /\ UNCHANGED <<poolVars, recordVars, job, copies, fresh, vanished, attempted, outcome,
                   faults>>

\* What an earlier attempt wrote holds the name a conditional create asks for.
Taken(r) == r \in Repeatable \ Confirmed /\ copies[r] > 0

\* What was sent reaches the destination.
Arrives(k) ==
    /\ phase[k] = "sending"
    /\ ~Taken(at[k])
    /\ phase' = [phase EXCEPT ![k] = "arrived"]
    /\ copies' = [copies EXCEPT ![at[k]] = @ + 1]
    /\ UNCHANGED <<poolVars, recordVars, job, sent, fresh, vanished, attempted, at, outcome,
                   faults>>

\* The destination says the delivery arrived.
AnswersDelivered(k) ==
    /\ phase[k] = "arrived"
    /\ Reporting(k, at[k], "delivered")
    /\ UNCHANGED <<poolVars, recordVars, job, outsideVars, fresh, vanished, attempted, faults>>

\* (Faulty.) An answer that says nothing is taken to say that nothing arrived.
RetriesUnknown(k) ==
    /\ phase[k] \in {"sending", "arrived"}
    /\ Reporting(k, at[k], "retryable")
    /\ UNCHANGED <<poolVars, recordVars, job, outsideVars, fresh, vanished, attempted, faults>>

\* The adapter threw or ran out of time, which says nothing.
AnswersUnknown(k) ==
    /\ phase[k] \in {"sending", "arrived"}
    /\ Reporting(k, at[k], "final")
    /\ UNCHANGED <<poolVars, recordVars, job, outsideVars, fresh, vanished, attempted, faults>>

\* Nothing arrived, and the answer is unreachable or rejected.
AnswersNothingArrived(k) ==
    /\ phase[k] = "sending"
    /\ \E said \in {"retryable", "final"} : Reporting(k, at[k], said)
    /\ UNCHANGED <<poolVars, recordVars, job, outsideVars, fresh, vanished, attempted, faults>>

\* A request whose answer was lost is unreachable as well, though it arrived,
\* and so are blocks posted before one that was not.
AnswersUnconfirmed(k) ==
    /\ phase[k] = "arrived"
    /\ at[k] \notin Confirmed
    /\ Reporting(k, at[k], "retryable")
    /\ UNCHANGED <<poolVars, recordVars, job, outsideVars, fresh, vanished, attempted, faults>>

\* What `complete` does of a lease still on the row.
Land(r) ==
    /\ job' = [job EXCEPT ![r] = NoJob]
    /\ state' = [state EXCEPT ![r] = IF Stored(r) THEN "delivered" ELSE @]

Retry(r) ==
    /\ job' = [job EXCEPT ![r] = RetriedJob(r)]
    /\ UNCHANGED state

\* (Faulty.) Retries are not counted.
ResolveWithoutCeiling(r, said) ==
    CASE said \in {"succeeded", "delivered"} -> Land(r)
      [] said = "retryable" -> Retry(r)
      [] OTHER -> GiveUp(r)

Resolve(r, said) ==
    CASE said \in {"succeeded", "delivered"} -> Land(r)
      [] said = "retryable" /\ job[r].attempt + 1 < MaxAttempts -> Retry(r)
      [] OTHER -> GiveUp(r)

Complete(k) ==
    /\ phase[k] = "reporting"
    /\ IF job[at[k]].lease = <<k, "first">>
       THEN Resolve(at[k], outcome[k])
       ELSE UNCHANGED <<job, state>>
    /\ fresh' = [fresh EXCEPT ![k] = @ \ {at[k]}]
    /\ attempted' = [attempted EXCEPT ![k] = @ \cup {at[k]}]
    /\ phase' = [phase EXCEPT ![k] = IF fresh[k] = {at[k]} THEN "claiming" ELSE "performing"]
    /\ at' = [at EXCEPT ![k] = Nowhere]
    /\ outcome' = [outcome EXCEPT ![k] = "none"]
    /\ UNCHANGED <<poolVars, decision, withdrawn, edited, outsideVars, vanished, faults>>

\* The host dies, or the pass throws: nothing is reported, every lease stays.
Crash(k) ==
    /\ phase[k] # "idle"
    /\ faults < MaxFaults
    /\ faults' = faults + 1
    /\ phase' = [phase EXCEPT ![k] = "idle"]
    /\ fresh' = [fresh EXCEPT ![k] = {}]
    /\ vanished' = [vanished EXCEPT ![k] = {}]
    /\ attempted' = [attempted EXCEPT ![k] = {}]
    /\ at' = [at EXCEPT ![k] = Nowhere]
    /\ outcome' = [outcome EXCEPT ![k] = "none"]
    /\ UNCHANGED <<poolVars, recordVars, job, outsideVars>>

-----------------------------------------------------------------------------
Person ==
    \/ \E i \in Items, w \in Words : Capture(i, w) \/ Amend(i, w)
    \/ \E i, j \in Items, w \in Words : Revise(i, w, j)
    \/ \E i \in Items : Archive(i) \/ Unarchive(i)
    \/ \E i \in Items, c \in Words \cup {NoWords}, r \in Records : Route(i, c, r)
    \/ \E i \in Items, r \in Records : MarkProcessed(i, r)
    \/ \E r \in Records : CancelDelivery(r) \/ Withdraw(r) \/ Reinstate(r)

Attempt(k) ==
    \/ \E r \in Records : PrepareSettled(k, r) \/ PrepareFails(k, r) \/ Send(k, r)
    \/ Arrives(k)
    \/ AnswersDelivered(k) \/ AnswersUnknown(k)
    \/ AnswersNothingArrived(k) \/ AnswersUnconfirmed(k)

Runner(k) ==
    \/ StartPass(k) \/ Claim(k) \/ ClaimNothing(k) \/ PerformBatch(k) \/ EndPass(k)
    \/ \E r \in Records : AbandonUnknown(k, r) \/ Release(k, r)
    \/ Attempt(k)
    \/ Complete(k)

Next ==
    \/ Person
    \/ \E r \in Records : ComesDue(r) \/ LeaseLapses(r)
    \/ \E k \in Workers : Runner(k) \/ AbandonThrows(k) \/ Crash(k)

Spec == Init /\ [][Next]_vars

\* A lease is minutes long and a claim is a few statements of the store, so a
\* lease does not lapse before the claim that took it has sorted what it took.
LapsesInTime(r) ==
    /\ \A k \in Workers :
          phase[k] \in {"claiming", "sorting"} => r \notin fresh[k] \cup vanished[k]
    /\ LeaseLapses(r)

FairNext ==
    \/ Person
    \/ \E r \in Records : ComesDue(r) \/ LapsesInTime(r)
    \/ \E k \in Workers : Runner(k) \/ AbandonThrows(k) \/ Crash(k)

\* The host polls on a timer and awaits each step, so a pass that has begun goes
\* on, a destination answers within the attempt's timeout, and time passes.
Fairness ==
    /\ \A k \in Workers : WF_vars(Runner(k))
    /\ \A r \in Records : WF_vars(ComesDue(r)) /\ WF_vars(LapsesInTime(r))

FairSpec == Init /\ [][FairNext]_vars /\ Fairness

-----------------------------------------------------------------------------
TypeOK ==
    /\ items \in SUBSET Items
    /\ words \in [Items -> Words \cup {NoWords}]
    /\ archived \in SUBSET Items
    /\ revised \in SUBSET Items
    /\ decision \in [Records -> Decision \cup {Nowhere}]
    /\ state \in [Records -> {"none", "pending", "delivered", "cancelled", "abandoned"}]
    /\ withdrawn \in SUBSET Records
    /\ edited \in SUBSET Records
    /\ job \in [Records -> Job]
    /\ copies \in [Records -> Int]
    /\ sent \in [Records -> Words \cup {NoWords}]
    /\ phase \in [Workers -> {"idle", "claiming", "sorting", "unwinding",
                              "performing", "sending", "arrived", "reporting"}]
    /\ fresh \in [Workers -> SUBSET Records]
    /\ vanished \in [Workers -> SUBSET Records]
    /\ attempted \in [Workers -> SUBSET Records]
    /\ at \in [Workers -> Records \cup {Nowhere}]
    /\ outcome \in [Workers -> {"none", "succeeded", "delivered", "retryable", "final"}]
    /\ faults \in 0..MaxFaults

\* How many copies one decision may ever leave, and how many may be there while
\* nobody is delivering it: an attempt that was counted may have arrived, unless
\* the kind would have said so.
CopiesAllowed(r) == IF r \in Repeatable THEN 1 ELSE MaxAttempts

CopiesCounted(r) ==
    CASE r \in Confirmed -> 0
      [] r \in Repeatable \ Confirmed -> IF job[r].attempt = 0 THEN 0 ELSE 1
      [] OTHER -> job[r].attempt

(* One decision never leaves two copies at its destination, whatever        *)
(* crashes, lapses and races come between its attempts, unless its kind     *)
(* writes again what it could not confirm; and then never more than the     *)
(* attempts a job is allowed.                                               *)
AtMostOneCopy == \A r \in Records : copies[r] <= CopiesAllowed(r)

(* A delivery called off is called off: where the kind confirms what it     *)
(* says, cancelDelivery answers only once nothing has arrived and nothing   *)
(* ever will.  Where it does not, a cancel during a backoff may leave a     *)
(* copy behind.                                                             *)
CancelledLeftNothing ==
    \A r \in Confirmed : state[r] = "cancelled" => copies[r] = 0

(* Nothing that may have arrived unknown to its kind is put back among the  *)
(* jobs to attempt: a queued job nobody holds has left nothing anywhere     *)
(* where the kind confirms what it says, nothing of any kind before a first *)
(* counted attempt, and no more than the attempts counted after.            *)
FreeJobLeftNothing ==
    \A r \in Records :
        /\ job[r].status = "queued"
        /\ job[r].lease = Nowhere
        => copies[r] <= CopiesCounted(r)

(* A reservation is stored exactly while a job that is not given up on owes *)
(* its delivery: none is stranded and none is delivered by nobody's leave.  *)
PendingIsOwed ==
    \A r \in Records : state[r] = "pending" <=> job[r].status = "queued"

(* What arrived under a standing record is what its item reads now: editing *)
(* is sealed from the first attempt, and a withdrawal that was edited under *)
(* is not put back.                                                         *)
SentStillReads ==
    \A r \in Records :
        /\ Stored(r)
        /\ decision[r].target = "destination"
        /\ r \notin withdrawn
        /\ state[r] = "delivered" \/ copies[r] > 0
        => copies[r] > 0 /\ sent[r] = Carried(r)

(* A pass attempts a job at most once, however soon its backoff runs out.   *)
OneAttemptPerPass == \A k \in Workers : at[k] \notin attempted[k]

(* What a destination received is never denied: a delivered record is       *)
(* withdrawn and reinstated, never cancelled, removed or reserved again.    *)
DeliveredStays ==
    [][\A r \in Records :
        state[r] = "delivered" /\ decision[r].target = "destination"
        => state'[r] = "delivered"]_vars

(* Seen from outside, the queue, its leases and its runners keep the        *)
(* promises RoutingDecision makes of every decision a retry cannot          *)
(* duplicate.                                                               *)
Stage(r) ==
    CASE state[r] = "delivered" /\ decision[r].target = "user" -> "marked"
      [] state[r] = "delivered" /\ decision[r].target # "user" /\ r \in withdrawn -> "withdrawn"
      [] OTHER -> state[r]

Promised == INSTANCE RoutingDecision
    WITH Records <- Repeatable,
         stage <- [r \in Repeatable |-> Stage(r)],
         copies <- [r \in Repeatable |-> copies[r]]

KeepsItsPromises == Promised!Spec

(* Every reservation comes to an end: it lands, is called off, or is given  *)
(* up on, though hosts crash with it in hand.                               *)
EveryDeliveryEnds ==
    \A r \in Records : state[r] = "pending" ~> state[r] # "pending"

(* No lease is left on a row for ever, which would refuse a cancel for ever.*)
EveryLeaseEnds ==
    \A r \in Records : job[r].lease # Nowhere ~> job[r].lease = Nowhere
=============================================================================
