------------------------------- MODULE Mirror -------------------------------
(***************************************************************************)
(* The mirror: packages/core/src/pool/mirror.ts, the mirror rows of        *)
(* packages/adapters/store-sqlite/src/jobs.ts, the runner of               *)
(* apps/daemon/src/mirror/runner.ts and the files of                       *)
(* packages/adapters/mirror-fs.                                            *)
(*                                                                         *)
(* A job carries no snapshot: what is written is read when it is written,  *)
(* an item's row and its routing one after the other, outside every        *)
(* transaction.  One host runs one pass at a time over these jobs.         *)
(***************************************************************************)
EXTENDS FiniteSets, Integers

CONSTANTS
    Items,       \* captures, each mirrored as a record and a rendering
    Others,      \* destinations and templates: a record, and they can be removed
    Contents,    \* what either half of a subject may say
    Jobs,        \* bound: job rows at a time
    Batch,       \* jobs claimed at a time
    MaxChanges,  \* bound: changes to the pool
    MaxFaults,   \* bound: failed writes, passes that throw, deaths of the host
    Nothing      \* no subject, no job, no file

Subjects == Items \cup Others

ASSUME MirrorAssumption ==
    /\ Items \cap Others = {}
    /\ Batch \in Nat \ {0}
    /\ MaxChanges \in Nat
    /\ MaxFaults \in Nat
    /\ Nothing \notin Subjects
    /\ Nothing \notin Contents
    /\ Nothing \notin Jobs
    /\ IsFiniteSet(Jobs)

VARIABLES
    stage,      \* whether each subject is yet to be, is, or has gone
    pool,       \* what the pool says of it
    held,       \* history: what it has said since a change of it last owed a write
    record,     \* its record in the mirror
    rendering,  \* its rendering
    job,        \* the job rows
    phase,      \* where the runner stands
    fresh,      \* the jobs claimed that it is to perform
    back,       \* the ones it performed already this pass, to release
    attempted,  \* the jobs it has performed this pass
    at,         \* the one it is performing
    seen,       \* what it has read of its subject
    outcome,    \* what it is to report
    changes,
    faults

mirrorVars == <<record, rendering>>
passVars   == <<phase, fresh, back, attempted, at, seen, outcome>>
vars == <<stage, pool, held, mirrorVars, job, passVars, changes, faults>>

\* recordFor asks for an item before its artifacts and its routing.
Halves == {"item", "routing"}
Saying == [Halves -> Contents]

\* What is not an item is read, and changes, as one.
Says(s) ==
    IF s \in Items THEN Saying ELSE {says \in Saying : says["item"] = says["routing"]}

Nowhere == [h \in Halves |-> Nothing]

Kinds == {"mirror", "mirror-remove"}
Statuses == {"due", "waiting", "leased", "lapsed", "abandoned"}

Rows == [subject : Subjects, kind : Kinds, status : Statuses]

Row(s, k, status) == [subject |-> s, kind |-> k, status |-> status]

NoRow == Row(Nothing, "none", "none")

Init ==
    /\ stage = [s \in Subjects |-> "unborn"]
    /\ pool = [s \in Subjects |-> Nowhere]
    /\ held = [s \in Subjects |-> {Nowhere}]
    /\ record = [s \in Subjects |-> Nowhere]
    /\ rendering = [s \in Subjects |-> Nowhere]
    /\ job = [j \in Jobs |-> NoRow]
    /\ phase = "idle"
    /\ fresh = {}
    /\ back = {}
    /\ attempted = {}
    /\ at = Nothing
    /\ seen = Nowhere
    /\ outcome = "none"
    /\ changes = 0
    /\ faults = 0

-----------------------------------------------------------------------------
(* The queue.                                                               *)

About(j, s, k) == job[j].subject = s /\ job[j].kind = k

\* (Faulty.) A row its runner has in hand takes the place of a new one.
PendingTillDone(j) == job[j].status \in {"due", "waiting", "leased", "lapsed"}

Pending(j) == job[j].status \in {"due", "waiting"}

\* One pending row of a subject and kind says everything another would.  A new
\* row's id is new to the pass.
Enqueue(s, k) ==
    IF \E j \in Jobs : About(j, s, k) /\ Pending(j)
    THEN UNCHANGED <<job, attempted>>
    ELSE \E j \in Jobs :
            /\ job[j] = NoRow
            /\ job' = [job EXCEPT ![j] = Row(s, k, "due")]
            /\ attempted' = attempted \ {j}

\* (Faulty.) A write in flight holds up nothing.
ClaimableAnyway(j) == job[j].status \in {"due", "lapsed"}

\* (Faulty.) A lapsed lease is never taken over.
ClaimableOnlyFree(j) ==
    /\ job[j].status = "due"
    /\ \A i \in Jobs \ {j} : job[i].subject = job[j].subject => job[i].status # "leased"

Claimable(j) ==
    /\ job[j].status \in {"due", "lapsed"}
    /\ \A i \in Jobs \ {j} : job[i].subject = job[j].subject => job[i].status # "leased"

\* (Faulty.) A job put back is put back whatever waits behind it.
NeverSuperseded(j) == FALSE

\* Another pending row of its subject and kind forbids putting this one back.
Superseded(j) ==
    \E i \in Jobs \ {j} : About(i, job[j].subject, job[j].kind) /\ Pending(i)

-----------------------------------------------------------------------------
(* The pool.  A transaction that changes what the mirror carries enqueues   *)
(* the write it owes, but for two that do not.                              *)

Change(s, says) ==
    /\ changes < MaxChanges
    /\ stage[s] # "gone"
    /\ stage' = [stage EXCEPT ![s] = "live"]
    /\ pool' = [pool EXCEPT ![s] = says]
    /\ held' = [held EXCEPT ![s] = {says}]
    /\ Enqueue(s, "mirror")
    /\ changes' = changes + 1
    /\ UNCHANGED <<mirrorVars, phase, fresh, back, at, seen, outcome, faults>>

Unowed(s, says) ==
    /\ changes < MaxChanges
    /\ stage[s] = "live"
    /\ pool' = [pool EXCEPT ![s] = says]
    /\ held' = [held EXCEPT ![s] = @ \cup {says}]
    /\ changes' = changes + 1
    /\ UNCHANGED <<stage, mirrorVars, job, passVars, faults>>

\* A delivery called off or given up on takes back the tag that decided it.
ReleasesTag(i, says) == says["routing"] = pool[i]["routing"] /\ Unowed(i, says)

\* The first landing by a template establishes it; the item alone is owed a
\* write, in a change of its own.
Establishes(o, says) == Unowed(o, says)

Remove(s) ==
    /\ stage[s] = "live"
    /\ stage' = [stage EXCEPT ![s] = "gone"]
    /\ pool' = [pool EXCEPT ![s] = Nowhere]
    /\ held' = [held EXCEPT ![s] = {Nowhere}]
    /\ Enqueue(s, "mirror-remove")
    /\ UNCHANGED <<mirrorVars, phase, fresh, back, at, seen, outcome, changes, faults>>

-----------------------------------------------------------------------------
(* Time.                                                                    *)

Becomes(j, from, to) ==
    /\ job[j].status = from
    /\ job' = [job EXCEPT ![j].status = to]
    /\ UNCHANGED <<stage, pool, held, mirrorVars, passVars, changes, faults>>

ComesDue(j) == Becomes(j, "waiting", "due")

LeaseLapses(j) == Becomes(j, "leased", "lapsed")

-----------------------------------------------------------------------------
(* The runner.                                                              *)

StartPass ==
    /\ phase = "idle"
    /\ phase' = "claiming"
    /\ attempted' = {}
    /\ UNCHANGED <<stage, pool, held, mirrorVars, job, fresh, back, at, seen, outcome, changes, faults>>

\* Leased one by one until the batch is full or nothing claimable is left: the
\* lease just taken makes the subject's other rows unclaimable.
Claim(taken) ==
    /\ phase = "claiming"
    /\ taken # {}
    /\ \A j \in taken : Claimable(j)
    /\ \A i, j \in taken : job[i].subject = job[j].subject => i = j
    /\ Cardinality(taken) <= Batch
    /\ \/ Cardinality(taken) = Batch
       \/ \A j \in Jobs : Claimable(j) => \E i \in taken : job[i].subject = job[j].subject
    /\ job' = [j \in Jobs |-> IF j \in taken THEN [job[j] EXCEPT !.status = "leased"] ELSE job[j]]
    /\ fresh' = taken \ attempted
    /\ back' = taken \cap attempted
    /\ phase' = IF taken \subseteq attempted THEN "unwinding" ELSE "working"
    /\ UNCHANGED <<stage, pool, held, mirrorVars, attempted, at, seen, outcome, changes, faults>>

ClaimNothing ==
    /\ phase = "claiming"
    /\ \A j \in Jobs : ~Claimable(j)
    /\ phase' = "idle"
    /\ UNCHANGED <<stage, pool, held, mirrorVars, job, fresh, back, attempted, at, seen, outcome,
                   changes, faults>>

\* Released: deleted where another row says the same, or else pending again.
Release(j) ==
    /\ j \in back
    /\ back' = back \ {j}
    /\ job' = [job EXCEPT ![j] = IF Superseded(j) THEN NoRow
                                 ELSE Row(job[j].subject, job[j].kind, "due")]
    /\ UNCHANGED <<stage, pool, held, mirrorVars, phase, fresh, attempted, at, seen, outcome,
                   changes, faults>>

Perform(j) ==
    /\ phase = "working"
    /\ back = {}
    /\ j \in fresh
    /\ fresh' = fresh \ {j}
    /\ attempted' = attempted \cup {j}
    /\ at' = j
    /\ phase' = IF job[j].kind = "mirror" THEN "reading" ELSE "removing"
    /\ UNCHANGED <<stage, pool, held, mirrorVars, job, back, seen, outcome, changes, faults>>

\* The batch is done and another is claimed, or nothing of it was new.
EndBatch ==
    /\ back = {}
    /\ \/ phase = "working" /\ fresh = {} /\ phase' = "claiming"
       \/ phase = "unwinding" /\ phase' = "idle"
    /\ UNCHANGED <<stage, pool, held, mirrorVars, job, fresh, back, attempted, at, seen, outcome,
                   changes, faults>>

-----------------------------------------------------------------------------
(* One attempt.                                                             *)

Subject == job[at].subject

Reports(what) == phase' = "reporting" /\ outcome' = what

\* A subject that has gone leaves nothing to write.
Read ==
    /\ phase = "reading"
    /\ IF stage[Subject] = "live"
       THEN /\ seen' = pool[Subject]
            /\ phase' = IF Subject \in Items THEN "joining" ELSE "recording"
            /\ UNCHANGED outcome
       ELSE Reports("done") /\ UNCHANGED seen
    /\ UNCHANGED <<stage, pool, held, mirrorVars, job, fresh, back, attempted, at, changes, faults>>

ReadRouting ==
    /\ phase = "joining"
    /\ seen' = [seen EXCEPT !["routing"] = pool[Subject]["routing"]]
    /\ phase' = "recording"
    /\ UNCHANGED <<stage, pool, held, mirrorVars, job, fresh, back, attempted, at, outcome,
                   changes, faults>>

\* Material before presentation.
WriteRecord ==
    /\ phase = "recording"
    /\ record' = [record EXCEPT ![Subject] = seen]
    /\ IF Subject \in Items
       THEN phase' = "rendering" /\ UNCHANGED outcome
       ELSE Reports("done")
    /\ UNCHANGED <<stage, pool, held, rendering, job, fresh, back, attempted, at, seen,
                   changes, faults>>

WriteRendering ==
    /\ phase = "rendering"
    /\ rendering' = [rendering EXCEPT ![Subject] = seen]
    /\ Reports("done")
    /\ UNCHANGED <<stage, pool, held, record, job, fresh, back, attempted, at, seen, changes, faults>>

\* The one failure not worth another attempt: it will throw identically.
RendererThrows ==
    /\ phase = "rendering"
    /\ Reports("final")
    /\ UNCHANGED <<stage, pool, held, mirrorVars, job, fresh, back, attempted, at, seen,
                   changes, faults>>

RemoveRecord ==
    /\ phase = "removing"
    /\ record' = [record EXCEPT ![Subject] = Nowhere]
    /\ Reports("done")
    /\ UNCHANGED <<stage, pool, held, rendering, job, fresh, back, attempted, at, seen,
                   changes, faults>>

Fails ==
    /\ phase \in {"reading", "joining", "recording", "rendering", "removing"}
    /\ faults < MaxFaults
    /\ faults' = faults + 1
    /\ Reports("retryable")
    /\ UNCHANGED <<stage, pool, held, mirrorVars, job, fresh, back, attempted, at, seen, changes>>

\* What a later write of the subject succeeding settles.
Settles(j) == j = at \/ (About(j, Subject, job[at].kind) /\ job[j].status = "abandoned")

Resolved ==
    CASE outcome = "done" ->
            [j \in Jobs |-> IF Settles(j) THEN NoRow ELSE job[j]]
      [] outcome = "retryable" ->
            [job EXCEPT ![at] = IF Superseded(at) THEN NoRow
                                ELSE Row(Subject, job[at].kind, "waiting")]
      [] OTHER -> [job EXCEPT ![at].status = "abandoned"]

Complete ==
    /\ phase = "reporting"
    /\ job' = Resolved
    /\ phase' = "working"
    /\ at' = Nothing
    /\ seen' = Nowhere
    /\ outcome' = "none"
    /\ UNCHANGED <<stage, pool, held, mirrorVars, fresh, back, attempted, changes, faults>>

\* The host dies, or the pass throws: every lease stays on its row.
Crash ==
    /\ phase # "idle"
    /\ faults < MaxFaults
    /\ faults' = faults + 1
    /\ phase' = "idle"
    /\ fresh' = {}
    /\ back' = {}
    /\ at' = Nothing
    /\ seen' = Nowhere
    /\ outcome' = "none"
    /\ UNCHANGED <<stage, pool, held, mirrorVars, job, attempted, changes>>

-----------------------------------------------------------------------------
Attempt ==
    \/ Read \/ ReadRouting
    \/ WriteRecord \/ WriteRendering \/ RendererThrows
    \/ RemoveRecord
    \/ Complete

Pass ==
    \/ StartPass \/ ClaimNothing \/ EndBatch
    \/ \E taken \in SUBSET Jobs : Claim(taken)
    \/ \E j \in Jobs : Release(j) \/ Perform(j)

Next ==
    \/ \E s \in Subjects : \E says \in Says(s) : Change(s, says)
    \/ \E i \in Items : \E says \in Says(i) : ReleasesTag(i, says)
    \/ \E o \in Others : \E says \in Says(o) : Establishes(o, says)
    \/ \E s \in Others : Remove(s)
    \/ \E j \in Jobs : ComesDue(j) \/ LeaseLapses(j)
    \/ Pass
    \/ Attempt
    \/ Fails
    \/ Crash

Spec == Init /\ [][Next]_vars

\* The host polls, each step of a pass returns, and time passes.  The oldest row
\* is claimed first, so each is claimed in the end.
Fairness ==
    /\ WF_vars(Pass \/ Attempt)
    /\ \A j \in Jobs :
        /\ WF_vars(ComesDue(j))
        /\ WF_vars(LeaseLapses(j))
        /\ SF_vars(\E taken \in SUBSET Jobs : j \in taken /\ Claim(taken))

FairSpec == Spec /\ Fairness

-----------------------------------------------------------------------------
PoolTyped ==
    /\ stage \in [Subjects -> {"unborn", "live", "gone"}]
    /\ pool \in [Subjects -> Saying \cup {Nowhere}]
    /\ \A s \in Subjects : IF stage[s] = "live" THEN pool[s] \in Says(s) ELSE pool[s] = Nowhere
    /\ held \in [Subjects -> SUBSET (Saying \cup {Nowhere})]

TypeOK ==
    /\ PoolTyped
    /\ job \in [Jobs -> {NoRow} \cup Rows]
    /\ record \in [Subjects -> Saying \cup {Nowhere}]
    /\ rendering \in [Subjects -> Saying \cup {Nowhere}]
    /\ phase \in {"idle", "claiming", "working", "unwinding", "reading", "joining",
                  "recording", "rendering", "removing", "reporting"}
    /\ fresh \subseteq Jobs
    /\ back \subseteq Jobs
    /\ attempted \subseteq Jobs
    /\ at \in Jobs \cup {Nothing}
    /\ seen \in Saying \cup {Nowhere}
    /\ outcome \in {"none", "done", "retryable", "final"}
    /\ changes \in 0..MaxChanges
    /\ faults \in 0..MaxFaults

\* Whether the mirror says of a subject nothing the pool has said since a change
\* of it last owed a write: every change does but ReleasesTag and Establishes.
Stale(s) == record[s] \notin held[s] \/ (s \in Items /\ rendering[s] \notin held[s])

Owed(s) ==
    \E j \in Jobs : About(j, s, IF stage[s] = "gone" THEN "mirror-remove" ELSE "mirror")

\* mirror.md's debt rule, for the changes that owe a write: a subject of which the
\* mirror says what the pool said before the last of these is owed a write, or a
\* removal once it has gone, though writes are read late, torn by a change
\* between two reads, failed, given up on, superseded or lost with a host.
OwedWhileStale == \A s \in Subjects : Stale(s) => Owed(s)

\* jobs.ts's partial unique index: putting a job back never meets another
\* pending row of its subject and kind, which would throw out of the pass.
OnePendingRow ==
    \A i, j \in Jobs :
        Pending(i) /\ Pending(j) /\ About(i, job[j].subject, job[j].kind) => i = j

\* mirror.md: a job is claimable only when its subject has no write in flight,
\* so no write and removal of one subject are ever held together.
OneWritePerSubject ==
    \A i, j \in Jobs :
        job[i].status = "leased" /\ job[j].status = "leased"
        /\ job[i].subject = job[j].subject => i = j

\* What the mirror says comes to be what the pool has said since the last change
\* that owed a write, or is given up on and reported.
MirrorCatchesUp ==
    \A s \in Subjects :
        Stale(s) ~> (~Stale(s) \/ \E j \in Jobs : job[j].subject = s /\ job[j].status = "abandoned")
=============================================================================
