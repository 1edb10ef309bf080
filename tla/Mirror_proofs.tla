---------------------------- MODULE Mirror_proofs ----------------------------
(***************************************************************************)
(* What Mirror keeps to for any number of subjects, contents, job rows,    *)
(* changes and faults, and any size of batch.                              *)
(***************************************************************************)
EXTENDS Mirror, TLAPS

Attempting == {"reading", "joining", "recording", "rendering", "removing", "reporting"}

\* What the pool holds is mirrored from its first change, only what can be
\* removed goes, and only what has gone is owed a removal.
RowsRight ==
    /\ \A s \in Items : stage[s] # "gone"
    /\ \A j \in Jobs : job[j] # NoRow => stage[job[j].subject] # "unborn"
    /\ \A j \in Jobs : job[j].kind = "mirror-remove" => stage[job[j].subject] = "gone"

\* What the runner has in hand is leased to it and nobody else's.
InHand ==
    /\ at \in Jobs <=> phase \in Attempting
    /\ phase \in {"idle", "claiming"} => fresh = {} /\ back = {}
    /\ phase = "unwinding" => fresh = {}
    /\ at \in Jobs => back = {}
    /\ at \notin fresh
    /\ fresh \cap back = {}
    /\ \A j \in Jobs : j \in fresh \cup back \cup {at} => job[j].status \in {"leased", "lapsed"}

\* Each kind of job goes its own way, and an item's alone is read twice.
OnItsWay ==
    /\ phase = "removing" => job[at].kind = "mirror-remove"
    /\ phase \in {"reading", "joining", "recording", "rendering"} => job[at].kind = "mirror"
    /\ phase = "joining" => Subject \in Items
    /\ phase \in {"joining", "recording", "rendering"} => seen \in Saying

Wanted(s) == IF stage[s] = "gone" THEN "mirror-remove" ELSE "mirror"

\* A row that outlives the attempt under way owes its subject what it is owed.
Renewed == \E j \in Jobs : ~Settles(j) /\ About(j, Subject, Wanted(Subject))

\* What the pool says is among what it has held, and only an owed change of an
\* item moves more than its own row.
HeldRight ==
    \A s \in Subjects :
        /\ pool[s] \in held[s]
        /\ stage[s] = "live" => held[s] \subseteq Saying
        /\ stage[s] # "live" => held[s] = {Nowhere}
        /\ s \in Items => \A says \in held[s] : says["routing"] = pool[s]["routing"]

\* What was read and written is what the pool has held, or another row says so.
ReadIsOwed ==
    /\ phase = "joining"
        => (\E says \in held[Subject] : seen["item"] = says["item"]) \/ Renewed
    /\ phase = "recording" => seen \in held[Subject] \/ Renewed
    /\ phase = "rendering" => (seen \in held[Subject] /\ record[Subject] = seen) \/ Renewed
    /\ phase = "reporting" /\ outcome = "done" => ~Stale(Subject) \/ Renewed

\* The inductive invariant.
IInv ==
    /\ TypeOK /\ HeldRight /\ RowsRight /\ InHand /\ OnItsWay
    /\ OnePendingRow /\ OneWritePerSubject
    /\ ReadIsOwed /\ OwedWhileStale

USE MirrorAssumption DEF Subjects

-----------------------------------------------------------------------------
(* How each step changes the rows.                                          *)

LEMMA RowFields ==
    ASSUME NEW s, NEW k, NEW status
    PROVE  /\ Row(s, k, status).subject = s
           /\ Row(s, k, status).kind = k
           /\ Row(s, k, status).status = status
           /\ s \in Subjects /\ k \in Kinds /\ status \in Statuses => Row(s, k, status) \in Rows
  BY DEF Row, Rows

LEMMA NoRowFields ==
    NoRow.subject = Nothing /\ NoRow.kind = "none" /\ NoRow.status = "none"
  BY RowFields DEF NoRow

LEMMA RestatedRow ==
    ASSUME NEW row \in Rows, NEW status \in Statuses
    PROVE  /\ [row EXCEPT !.status = status] \in Rows
           /\ [row EXCEPT !.status = status].subject = row.subject
           /\ [row EXCEPT !.status = status].kind = row.kind
           /\ [row EXCEPT !.status = status].status = status
  BY DEF Rows

LEMMA FilledRow ==
    ASSUME TypeOK, NEW j \in Jobs, job[j] # NoRow
    PROVE  /\ job[j] \in Rows
           /\ job[j].subject \in Subjects /\ job[j].kind \in Kinds /\ job[j].status \in Statuses
  BY DEF TypeOK, Rows

\* A row put in is the first of its subject and kind to wait.
LEMMA EnqueueRows ==
    ASSUME TypeOK, NEW s \in Subjects, NEW k \in Kinds, Enqueue(s, k)
    PROVE  /\ job' \in [Jobs -> {NoRow} \cup Rows]
           /\ attempted' \subseteq attempted
           /\ \A j \in Jobs : \/ job'[j] = job[j]
                              \/ /\ job[j] = NoRow
                                 /\ job'[j] = Row(s, k, "due")
                                 /\ \A i \in Jobs : About(i, s, k) => ~Pending(i)
           /\ \A i, j \in Jobs : job'[i] = job[i] \/ job'[j] = job[j] \/ i = j
           /\ \E j \in Jobs : About(j, s, k)' /\ Pending(j)'
<1> USE DEF TypeOK
<1>1. CASE \E j \in Jobs : About(j, s, k) /\ Pending(j)
  BY <1>1 DEF Enqueue, About, Pending
<1>2. CASE ~ \E j \in Jobs : About(j, s, k) /\ Pending(j)
  <2>1. PICK j \in Jobs : /\ job[j] = NoRow /\ job' = [job EXCEPT ![j] = Row(s, k, "due")]
                          /\ attempted' = attempted \ {j}
    BY <1>2 DEF Enqueue
  <2>2. /\ job'[j] = Row(s, k, "due")
        /\ \A i \in Jobs \ {j} : job'[i] = job[i]
    BY <2>1
  <2>3. About(j, s, k)' /\ Pending(j)'
    BY <2>2, RowFields DEF About, Pending
  <2>4. Row(s, k, "due") \in Rows
    BY RowFields DEF Statuses
  <2>5. job' \in [Jobs -> {NoRow} \cup Rows]
    BY <2>1, <2>4
  <2> QED
    BY <1>2, <2>1, <2>2, <2>3, <2>5
<1> QED
  BY <1>1, <1>2

\* Time moves a row's status and nothing else.
LEMMA BecomesRows ==
    ASSUME TypeOK, NEW j \in Jobs, NEW from, NEW to \in Statuses, Becomes(j, from, to), from # "none"
    PROVE  /\ job' \in [Jobs -> {NoRow} \cup Rows]
           /\ \A i \in Jobs \ {j} : job'[i] = job[i]
           /\ job'[j].subject = job[j].subject /\ job'[j].kind = job[j].kind
           /\ job[j].status = from /\ job'[j].status = to
           /\ job[j] # NoRow /\ job'[j] \in Rows
<1>1. job[j] \in Rows /\ job[j] # NoRow
  BY NoRowFields, FilledRow DEF Becomes
<1>2. job'[j] = [job[j] EXCEPT !.status = to] /\ \A i \in Jobs \ {j} : job'[i] = job[i]
  BY DEF TypeOK, Becomes
<1>3. job'[j] \in Rows /\ job'[j].subject = job[j].subject /\ job'[j].kind = job[j].kind
      /\ job'[j].status = to
  BY <1>1, <1>2, RestatedRow
<1>4. job' \in [Jobs -> {NoRow} \cup Rows]
  <2>1. job' = [job EXCEPT ![j] = job'[j]]
    BY <1>2 DEF TypeOK, Becomes
  <2> QED
    BY <2>1, <1>3 DEF TypeOK
<1> QED
  BY <1>1, <1>2, <1>3, <1>4 DEF Becomes

LEMMA ClaimRows ==
    ASSUME TypeOK, NEW taken \in SUBSET Jobs, Claim(taken)
    PROVE  /\ job' \in [Jobs -> {NoRow} \cup Rows]
           /\ \A i \in Jobs \ taken : job'[i] = job[i]
           /\ \A i \in taken :
                /\ job'[i].subject = job[i].subject /\ job'[i].kind = job[i].kind
                /\ job[i].status \in {"due", "lapsed"} /\ job'[i].status = "leased"
                /\ job[i] # NoRow /\ job'[i] \in Rows
<1>1. \A i \in taken : job[i].status \in {"due", "lapsed"} /\ job[i] # NoRow
  BY NoRowFields DEF Claim, Claimable
<1>2. job' = [i \in Jobs |-> IF i \in taken THEN [job[i] EXCEPT !.status = "leased"] ELSE job[i]]
  BY DEF Claim
<1>3. ASSUME NEW i \in taken
      PROVE  /\ job'[i].subject = job[i].subject /\ job'[i].kind = job[i].kind
             /\ job'[i].status = "leased" /\ job'[i] \in Rows
  BY <1>1, <1>2, FilledRow, RestatedRow DEF Statuses
<1>4. \A i \in Jobs \ taken : job'[i] = job[i]
  BY <1>2
<1>5. job' \in [Jobs -> {NoRow} \cup Rows]
  <2>1. job' = [i \in Jobs |-> job'[i]]
    BY <1>2
  <2>2. \A i \in Jobs : job'[i] \in {NoRow} \cup Rows
    BY <1>3, <1>4 DEF TypeOK
  <2> QED
    BY <2>1, <2>2
<1> QED
  BY <1>1, <1>3, <1>4, <1>5

LEMMA ReleaseRows ==
    ASSUME TypeOK, InHand, NEW j \in Jobs, Release(j)
    PROVE  /\ job' \in [Jobs -> {NoRow} \cup Rows]
           /\ \A i \in Jobs \ {j} : job'[i] = job[i]
           /\ job[j].status \in {"leased", "lapsed"} /\ job[j] # NoRow
           /\ \/ job'[j] = NoRow /\ Superseded(j)
              \/ /\ ~Superseded(j)
                 /\ job'[j].subject = job[j].subject /\ job'[j].kind = job[j].kind
                 /\ job'[j].status = "due"
                 /\ job'[j] \in Rows
<1>1. j \in back
  BY DEF Release
<1>2. job[j].status \in {"leased", "lapsed"} /\ job[j] # NoRow
  BY <1>1, NoRowFields DEF InHand
<1>3. Row(job[j].subject, job[j].kind, "due") \in Rows
  BY <1>2, FilledRow, RowFields DEF Statuses
<1>4. /\ job' = [job EXCEPT ![j] = job'[j]]
      /\ job'[j] = IF Superseded(j) THEN NoRow ELSE Row(job[j].subject, job[j].kind, "due")
  BY DEF Release, TypeOK
<1>5. \A i \in Jobs \ {j} : job'[i] = job[i]
  BY <1>4 DEF TypeOK
<1>6. job' \in [Jobs -> {NoRow} \cup Rows]
  BY <1>3, <1>4 DEF TypeOK
<1> QED
  BY <1>2, <1>3, <1>4, <1>5, <1>6, RowFields

\* Only the attempt's own row and, where it succeeded, what that settles.
LEMMA CompleteRows ==
    ASSUME TypeOK, InHand, Complete
    PROVE  /\ job' \in [Jobs -> {NoRow} \cup Rows]
           /\ at \in Jobs /\ job[at].status \in {"leased", "lapsed"}
           /\ \A j \in Jobs :
                \/ job'[j] = job[j] /\ j # at
                \/ job'[j] = NoRow /\ outcome = "done" /\ Settles(j)
                \/ job'[j] = NoRow /\ j = at /\ Superseded(j)
                \/ /\ j = at
                   /\ job'[j].subject = job[j].subject /\ job'[j].kind = job[j].kind
                   /\ \/ job'[j].status = "abandoned"
                      \/ job'[j].status = "waiting" /\ ~Superseded(j)
                   /\ job'[j] \in Rows
<1>1. at \in Jobs /\ job[at].status \in {"leased", "lapsed"} /\ job[at] # NoRow
  BY NoRowFields DEF InHand, Complete, Attempting
<1>2. job[at] \in Rows /\ Row(Subject, job[at].kind, "waiting") \in Rows
  BY <1>1, FilledRow, RowFields DEF Statuses, Subject
<1>3. CASE outcome = "done"
  <2>1. job' = [j \in Jobs |-> IF Settles(j) THEN NoRow ELSE job[j]]
    BY <1>3 DEF Complete, Resolved
  <2>2. Settles(at)
    BY DEF Settles
  <2>3. job' \in [Jobs -> {NoRow} \cup Rows]
    BY <2>1 DEF TypeOK
  <2> QED
    BY <1>1, <1>3, <2>1, <2>2, <2>3
<1>4. CASE outcome = "retryable"
  <2>1. job' = [job EXCEPT ![at] = IF Superseded(at) THEN NoRow
                                   ELSE Row(Subject, job[at].kind, "waiting")]
    BY <1>4 DEF Complete, Resolved
  <2>2. job'[at] = IF Superseded(at) THEN NoRow ELSE Row(Subject, job[at].kind, "waiting")
    BY <1>1, <2>1 DEF TypeOK
  <2>3. \A j \in Jobs \ {at} : job'[j] = job[j]
    BY <1>1, <2>1 DEF TypeOK
  <2>4. job' \in [Jobs -> {NoRow} \cup Rows]
    BY <1>2, <2>1 DEF TypeOK
  <2> QED
    BY <1>1, <1>2, <2>2, <2>3, <2>4, RowFields DEF Subject
<1>5. CASE outcome \notin {"done", "retryable"}
  <2>1. job' = [job EXCEPT ![at].status = "abandoned"]
    BY <1>5 DEF Complete, Resolved
  <2>2. \A j \in Jobs \ {at} : job'[j] = job[j]
    BY <1>1, <2>1 DEF TypeOK
  <2>3. job'[at] = [job[at] EXCEPT !.status = "abandoned"]
    BY <1>1, <2>1 DEF TypeOK
  <2> "abandoned" \in Statuses
    BY DEF Statuses
  <2>4. job'[at] \in Rows /\ job'[at].subject = job[at].subject /\ job'[at].kind = job[at].kind
        /\ job'[at].status = "abandoned"
    BY <1>2, <2>3, RestatedRow
  <2>5. job' \in [Jobs -> {NoRow} \cup Rows]
    <3>1. job' = [job EXCEPT ![at] = job'[at]]
      BY <1>1, <2>1 DEF TypeOK
    <3> QED
      BY <2>4, <3>1 DEF TypeOK
  <2> QED
    BY <1>1, <2>2, <2>4, <2>5
<1> QED
  BY <1>1, <1>3, <1>4, <1>5

-----------------------------------------------------------------------------
(* The inductive step.                                                      *)

LEMMA InitInv == Init => IInv
<1> SUFFICES ASSUME Init PROVE IInv
  OBVIOUS
<1>1. \A j \in Jobs : job[j] = NoRow
  BY DEF Init
<1>2. TypeOK
  BY DEF Init, TypeOK, PoolTyped
<1> QED
  BY <1>1, <1>2, NoRowFields
  DEF Init, IInv, HeldRight, RowsRight, InHand, OnItsWay, OnePendingRow, OneWritePerSubject,
      ReadIsOwed, OwedWhileStale, Stale, Pending, About, Attempting

\* An attempt has a row in hand, of a subject that is or has been there.
LEMMA AtRow ==
    ASSUME TypeOK, RowsRight, InHand, phase \in Attempting
    PROVE  /\ at \in Jobs /\ job[at] \in Rows /\ job[at] # NoRow /\ job[at].kind \in Kinds
           /\ job[at].status \in {"leased", "lapsed"}
           /\ Subject \in Subjects /\ stage[Subject] \in {"live", "gone"}
           /\ back = {} /\ at \notin fresh
<1>1. at \in Jobs /\ job[at].status \in {"leased", "lapsed"} /\ job[at] # NoRow
  BY NoRowFields DEF InHand
<1>2. Subject \in Subjects /\ job[at] \in Rows /\ job[at].kind \in Kinds
  BY <1>1, FilledRow DEF Subject
<1> QED
  BY <1>1, <1>2 DEF InHand, RowsRight, Subject, TypeOK, PoolTyped

LEMMA SaysSaying == ASSUME NEW s PROVE Says(s) \subseteq Saying
  BY DEF Says

\* What an item is read to say in two halves is something an item may say.
LEMMA JoinedSaying ==
    ASSUME NEW a \in Saying, NEW b \in Saying
    PROVE  [a EXCEPT !["routing"] = b["routing"]] \in Saying
  BY DEF Saying, Halves

LEMMA PoolTypedStep == IInv /\ [Next]_vars => PoolTyped'
<1> SUFFICES ASSUME IInv, [Next]_vars PROVE PoolTyped'
  OBVIOUS
<1>1. PoolTyped
  BY DEF IInv, TypeOK
<1>2. ASSUME NEW s \in Subjects, NEW says \in Says(s), Change(s, says) PROVE PoolTyped'
  <2>1. stage' = [stage EXCEPT ![s] = "live"] /\ pool' = [pool EXCEPT ![s] = says]
    BY <1>2 DEF Change
  <2>2. stage' \in [Subjects -> {"unborn", "live", "gone"}]
    BY <1>1, <2>1 DEF PoolTyped
  <2>3. pool' \in [Subjects -> Saying \cup {Nowhere}]
    BY <1>1, <2>1, SaysSaying DEF PoolTyped
  <2>4. \A i \in Subjects \ {s} : pool'[i] = pool[i] /\ stage'[i] = stage[i]
    BY <1>1, <2>1 DEF PoolTyped
  <2>5. stage'[s] = "live" /\ pool'[s] = says
    BY <1>1, <2>1 DEF PoolTyped
  <2>6. held' \in [Subjects -> SUBSET (Saying \cup {Nowhere})]
    BY <1>1, <1>2, SaysSaying DEF Change, PoolTyped
  <2> QED
    BY <1>1, <2>2, <2>3, <2>4, <2>5, <2>6 DEF PoolTyped
<1>3. ASSUME NEW s \in Others, Remove(s) PROVE PoolTyped'
  <2>1. stage' = [stage EXCEPT ![s] = "gone"] /\ pool' = [pool EXCEPT ![s] = Nowhere]
    BY <1>3 DEF Remove
  <2>2. stage' \in [Subjects -> {"unborn", "live", "gone"}]
    BY <1>1, <2>1 DEF PoolTyped
  <2>3. pool' \in [Subjects -> Saying \cup {Nowhere}]
    BY <1>1, <2>1 DEF PoolTyped
  <2>4. \A i \in Subjects \ {s} : pool'[i] = pool[i] /\ stage'[i] = stage[i]
    BY <1>1, <2>1 DEF PoolTyped
  <2>5. stage'[s] = "gone" /\ pool'[s] = Nowhere
    BY <1>1, <2>1 DEF PoolTyped
  <2>6. held' \in [Subjects -> SUBSET (Saying \cup {Nowhere})]
    BY <1>1, <1>3, SaysSaying DEF Remove, PoolTyped
  <2> QED
    BY <1>1, <2>2, <2>3, <2>4, <2>5, <2>6 DEF PoolTyped
<1>4. ASSUME NEW s \in Subjects, NEW says \in Says(s), Unowed(s, says) PROVE PoolTyped'
  <2>1. pool' = [pool EXCEPT ![s] = says] /\ UNCHANGED stage /\ stage[s] = "live"
    BY <1>4 DEF Unowed
  <2>2. pool' \in [Subjects -> Saying \cup {Nowhere}]
    BY <1>1, <2>1, SaysSaying DEF PoolTyped
  <2>3. \A i \in Subjects \ {s} : pool'[i] = pool[i]
    BY <1>1, <2>1 DEF PoolTyped
  <2>4. pool'[s] = says
    BY <1>1, <2>1 DEF PoolTyped
  <2>5. held' \in [Subjects -> SUBSET (Saying \cup {Nowhere})]
    BY <1>1, <1>4, SaysSaying DEF Unowed, PoolTyped
  <2> QED
    BY <1>1, <2>1, <2>2, <2>3, <2>4, <2>5 DEF PoolTyped
<1>5. CASE UNCHANGED <<stage, pool, held>>
  BY <1>1, <1>5 DEF PoolTyped
<1> QED
  BY <1>2, <1>3, <1>4, <1>5
  DEF Next, ReleasesTag, Establishes, Pass, Attempt, vars, ComesDue, LeaseLapses, Becomes,
      StartPass, ClaimNothing, EndBatch, Claim, Release, Perform, Read, ReadRouting,
      WriteRecord, WriteRendering, RendererThrows, RemoveRecord, Complete, Fails, Crash

\* How a step changes what the pool says of each subject and has held of it.
LEMMA HeldSteps ==
    ASSUME PoolTyped, NEW s \in Subjects, NEW says \in Says(s)
    PROVE  /\ Change(s, says) =>
                /\ stage'[s] = "live" /\ pool'[s] = says /\ held'[s] = {says}
                /\ \A i \in Subjects \ {s} : /\ stage'[i] = stage[i] /\ pool'[i] = pool[i]
                                              /\ held'[i] = held[i]
           /\ Remove(s) =>
                /\ stage'[s] = "gone" /\ pool'[s] = Nowhere /\ held'[s] = {Nowhere}
                /\ \A i \in Subjects \ {s} : /\ stage'[i] = stage[i] /\ pool'[i] = pool[i]
                                              /\ held'[i] = held[i]
           /\ Unowed(s, says) =>
                /\ stage[s] = "live" /\ pool'[s] = says /\ held'[s] = held[s] \cup {says}
                /\ UNCHANGED <<stage, record, rendering, job, phase, fresh, back, attempted,
                               at, seen, outcome, faults>>
                /\ \A i \in Subjects \ {s} : pool'[i] = pool[i] /\ held'[i] = held[i]
  BY DEF PoolTyped, Change, Remove, Unowed, mirrorVars, passVars

LEMMA HeldRightStep == IInv /\ [Next]_vars => HeldRight'
<1> SUFFICES ASSUME IInv, [Next]_vars PROVE HeldRight'
  OBVIOUS
<1>0. PoolTyped /\ HeldRight /\ RowsRight
  BY DEF IInv, TypeOK
<1>1. ASSUME NEW s \in Subjects, NEW says \in Says(s), Change(s, says) PROVE HeldRight'
  <2>1. says \in Saying
    BY SaysSaying
  <2> QED
    BY <1>0, <1>1, <2>1, HeldSteps DEF HeldRight
<1>2. ASSUME NEW s \in Others, Remove(s) PROVE HeldRight'
  <2>1. \E says : says \in Says(s)
    <3>1. pool[s] \in Says(s)
      BY <1>0, <1>2 DEF Remove, PoolTyped
    <3> QED
      BY <3>1
  <2>2. s \notin Items
    BY <1>2
  <2> QED
    BY <1>0, <1>2, <2>1, <2>2, HeldSteps DEF HeldRight
<1>3. ASSUME NEW s \in Subjects, NEW says \in Says(s), Unowed(s, says),
             s \in Items => says["routing"] = pool[s]["routing"]
      PROVE  HeldRight'
  <2>1. says \in Saying
    BY SaysSaying
  <2> QED
    BY <1>0, <1>3, <2>1, HeldSteps DEF HeldRight
<1>4. CASE UNCHANGED <<stage, pool, held>>
  BY <1>0, <1>4 DEF HeldRight
<1>5. ASSUME NEW i \in Items, NEW says \in Says(i), ReleasesTag(i, says) PROVE HeldRight'
  BY <1>3, <1>5 DEF ReleasesTag
<1>6. ASSUME NEW o \in Others, NEW says \in Says(o), Establishes(o, says) PROVE HeldRight'
  BY <1>3, <1>6 DEF Establishes
<1> QED
  BY <1>1, <1>2, <1>4, <1>5, <1>6
  DEF Next, Pass, Attempt, vars, ComesDue, LeaseLapses, Becomes, StartPass, ClaimNothing,
      EndBatch, Claim, Release, Perform, Read, ReadRouting, WriteRecord, WriteRendering,
      RendererThrows, RemoveRecord, Complete, Fails, Crash

LEMMA RowsTypedStep == IInv /\ [Next]_vars => job' \in [Jobs -> {NoRow} \cup Rows]
<1> DEFINE RowsTyped == job \in [Jobs -> {NoRow} \cup Rows]
<1> SUFFICES ASSUME IInv, [Next]_vars PROVE RowsTyped'
  OBVIOUS
<1>0. TypeOK /\ InHand /\ RowsTyped
  BY DEF IInv, TypeOK
<1>1. ASSUME NEW s \in Subjects, NEW k \in Kinds, Enqueue(s, k) PROVE RowsTyped'
  BY <1>0, <1>1, EnqueueRows
<1>2. ASSUME NEW j \in Jobs, ComesDue(j) \/ LeaseLapses(j) PROVE RowsTyped'
  BY <1>0, <1>2, BecomesRows DEF ComesDue, LeaseLapses, Statuses
<1>3. ASSUME NEW taken \in SUBSET Jobs, Claim(taken) PROVE RowsTyped'
  BY <1>0, <1>3, ClaimRows
<1>4. ASSUME NEW j \in Jobs, Release(j) PROVE RowsTyped'
  BY <1>0, <1>4, ReleaseRows
<1>5. CASE Complete
  BY <1>0, <1>5, CompleteRows
<1>6. CASE UNCHANGED job
  BY <1>0, <1>6
<1>7. "mirror" \in Kinds /\ "mirror-remove" \in Kinds
  BY DEF Kinds
<1>8. ASSUME NEW s \in Subjects, NEW says \in Says(s), Change(s, says) PROVE RowsTyped'
  BY <1>1, <1>7, <1>8 DEF Change
<1>9. ASSUME NEW s \in Others, Remove(s) PROVE RowsTyped'
  BY <1>1, <1>7, <1>9 DEF Remove
<1> HIDE DEF RowsTyped
<1> QED
  BY <1>2, <1>3, <1>4, <1>5, <1>6, <1>8, <1>9
  DEF Next, ReleasesTag, Establishes, Unowed, Pass, Attempt, vars, passVars, StartPass,
      ClaimNothing, EndBatch, Perform, Read, ReadRouting, WriteRecord, WriteRendering,
      RendererThrows, RemoveRecord, Fails, Crash

MirrorTyped ==
    /\ record \in [Subjects -> Saying \cup {Nowhere}]
    /\ rendering \in [Subjects -> Saying \cup {Nowhere}]

SeenTyped == seen \in Saying \cup {Nowhere}

PassTyped ==
    /\ fresh \subseteq Jobs /\ back \subseteq Jobs /\ attempted \subseteq Jobs
    /\ at \in Jobs \cup {Nothing}

PhaseTyped ==
    /\ phase \in {"idle", "claiming", "working", "unwinding", "reading", "joining",
                  "recording", "rendering", "removing", "reporting"}
    /\ outcome \in {"none", "done", "retryable", "final"}

CountsTyped == changes \in 0..MaxChanges /\ faults \in 0..MaxFaults

LEMMA MirrorTypedStep == IInv /\ [Next]_vars => MirrorTyped'
<1> SUFFICES ASSUME IInv, [Next]_vars PROVE MirrorTyped'
  OBVIOUS
<1>1. MirrorTyped /\ SeenTyped
  BY DEF IInv, TypeOK, MirrorTyped, SeenTyped
<1>2. CASE WriteRecord
  BY <1>1, <1>2 DEF WriteRecord, MirrorTyped, SeenTyped
<1>3. CASE WriteRendering
  BY <1>1, <1>3 DEF WriteRendering, MirrorTyped, SeenTyped
<1>4. CASE RemoveRecord
  BY <1>1, <1>4 DEF RemoveRecord, MirrorTyped
<1>5. CASE UNCHANGED mirrorVars
  BY <1>1, <1>5 DEF mirrorVars, MirrorTyped
<1> QED
  BY <1>2, <1>3, <1>4, <1>5
  DEF Next, ReleasesTag, Establishes, Unowed, Pass, Attempt, vars, passVars, Change, Remove,
      ComesDue, LeaseLapses, Becomes, StartPass, ClaimNothing, EndBatch, Claim, Release,
      Perform, Read, ReadRouting, RendererThrows, Complete, Fails, Crash

LEMMA SeenTypedStep == IInv /\ [Next]_vars => SeenTyped'
<1> SUFFICES ASSUME IInv, [Next]_vars PROVE SeenTyped'
  OBVIOUS
<1>0. TypeOK /\ RowsRight /\ InHand /\ OnItsWay
  BY DEF IInv
<1>1. SeenTyped
  BY <1>0 DEF TypeOK, SeenTyped
<1>2. CASE Read
  <2>1. pool[Subject] \in Saying \cup {Nowhere}
    BY <1>0, <1>2, AtRow DEF Read, Attempting, TypeOK, PoolTyped
  <2> QED
    BY <1>1, <1>2, <2>1 DEF Read, SeenTyped
<1>3. CASE ReadRouting
  <2>1. pool[Subject] \in Saying
    BY <1>0, <1>3, AtRow, SaysSaying
    DEF ReadRouting, Attempting, TypeOK, PoolTyped, OnItsWay, RowsRight
  <2>2. seen' \in Saying
    BY <1>0, <1>3, <2>1, JoinedSaying DEF ReadRouting, OnItsWay
  <2> QED
    BY <2>2 DEF SeenTyped
<1>4. CASE seen' = Nowhere
  BY <1>4 DEF SeenTyped
<1>5. CASE UNCHANGED seen
  BY <1>1, <1>5 DEF SeenTyped
<1> QED
  BY <1>2, <1>3, <1>4, <1>5
  DEF Next, ReleasesTag, Establishes, Unowed, Pass, Attempt, vars, passVars, Change, Remove,
      ComesDue, LeaseLapses, Becomes, StartPass, ClaimNothing, EndBatch, Claim, Release,
      Perform, WriteRecord, WriteRendering, RendererThrows, RemoveRecord, Complete, Fails,
      Crash

LEMMA PassTypedStep == IInv /\ [Next]_vars => PassTyped'
<1> SUFFICES ASSUME IInv, [Next]_vars PROVE PassTyped'
  OBVIOUS
<1>0. TypeOK /\ PassTyped
  BY DEF IInv, TypeOK, PassTyped
<1>1. ASSUME NEW s \in Subjects, NEW k \in Kinds, Enqueue(s, k), UNCHANGED <<fresh, back, at>>
      PROVE  PassTyped'
  BY <1>0, <1>1, EnqueueRows DEF PassTyped
<1>2. ASSUME NEW s \in Subjects, NEW says \in Says(s), Change(s, says) PROVE PassTyped'
  BY <1>1, <1>2 DEF Change, Kinds
<1>3. ASSUME NEW s \in Others, Remove(s) PROVE PassTyped'
  BY <1>1, <1>3 DEF Remove, Kinds
<1>4. CASE StartPass
  BY <1>0, <1>4 DEF StartPass, PassTyped
<1>5. ASSUME NEW taken \in SUBSET Jobs, Claim(taken) PROVE PassTyped'
  BY <1>0, <1>5 DEF Claim, PassTyped
<1>6. ASSUME NEW j \in Jobs, Release(j) PROVE PassTyped'
  BY <1>0, <1>6 DEF Release, PassTyped
<1>7. ASSUME NEW j \in Jobs, Perform(j) PROVE PassTyped'
  BY <1>0, <1>7 DEF Perform, PassTyped
<1>8. CASE Complete \/ Crash
  BY <1>0, <1>8 DEF Complete, Crash, PassTyped
<1>9. CASE UNCHANGED <<fresh, back, attempted, at>>
  BY <1>0, <1>9 DEF PassTyped
<1> QED
  BY <1>2, <1>3, <1>4, <1>5, <1>6, <1>7, <1>8, <1>9
  DEF Next, ReleasesTag, Establishes, Unowed, Pass, Attempt, vars, passVars, ComesDue,
      LeaseLapses, Becomes, ClaimNothing, EndBatch, Read, ReadRouting, WriteRecord,
      WriteRendering, RendererThrows, RemoveRecord, Fails

LEMMA PhaseTypedStep == IInv /\ [Next]_vars => PhaseTyped'
<1> SUFFICES ASSUME IInv, [Next]_vars PROVE PhaseTyped'
  OBVIOUS
<1>1. PhaseTyped
  BY DEF IInv, TypeOK, PhaseTyped
<1>2. ASSUME NEW j \in Jobs, Perform(j) PROVE PhaseTyped'
  BY <1>1, <1>2 DEF Perform, PhaseTyped
<1>3. ASSUME NEW taken \in SUBSET Jobs, Claim(taken) PROVE PhaseTyped'
  BY <1>1, <1>3 DEF Claim, PhaseTyped
<1>4. CASE StartPass \/ ClaimNothing \/ EndBatch
  BY <1>1, <1>4 DEF StartPass, ClaimNothing, EndBatch, PhaseTyped
<1>5. CASE Read \/ ReadRouting \/ WriteRecord
  BY <1>1, <1>5 DEF Read, ReadRouting, WriteRecord, Reports, PhaseTyped
<1>6. CASE WriteRendering \/ RendererThrows \/ RemoveRecord \/ Fails
  BY <1>1, <1>6 DEF WriteRendering, RendererThrows, RemoveRecord, Fails, Reports, PhaseTyped
<1>7. CASE Complete \/ Crash
  BY <1>1, <1>7 DEF Complete, Crash, PhaseTyped
<1>8. CASE UNCHANGED <<phase, outcome>>
  BY <1>1, <1>8 DEF PhaseTyped
<1> QED
  BY <1>2, <1>3, <1>4, <1>5, <1>6, <1>7, <1>8
  DEF Next, ReleasesTag, Establishes, Unowed, Pass, Attempt, vars, passVars, Change, Remove,
      ComesDue, LeaseLapses, Becomes, Release

LEMMA CountsTypedStep == IInv /\ [Next]_vars => CountsTyped'
<1> SUFFICES ASSUME IInv, [Next]_vars PROVE CountsTyped'
  OBVIOUS
<1>1. CountsTyped
  BY DEF IInv, TypeOK, CountsTyped
<1>2. CASE changes < MaxChanges /\ changes' = changes + 1 /\ UNCHANGED faults
  BY <1>1, <1>2 DEF CountsTyped
<1>3. CASE faults < MaxFaults /\ faults' = faults + 1 /\ UNCHANGED changes
  BY <1>1, <1>3 DEF CountsTyped
<1>4. CASE UNCHANGED <<changes, faults>>
  BY <1>1, <1>4 DEF CountsTyped
<1> QED
  BY <1>2, <1>3, <1>4
  DEF Next, ReleasesTag, Establishes, Unowed, Pass, Attempt, vars, passVars, Change, Remove,
      ComesDue, LeaseLapses, Becomes, StartPass, ClaimNothing, EndBatch, Claim, Release,
      Perform, Read, ReadRouting, WriteRecord, WriteRendering, RendererThrows, RemoveRecord,
      Complete, Fails, Crash

LEMMA TypeStep == IInv /\ [Next]_vars => TypeOK'
<1> SUFFICES ASSUME IInv, [Next]_vars PROVE TypeOK'
  OBVIOUS
<1> QED
  BY PoolTypedStep, RowsTypedStep, MirrorTypedStep, SeenTypedStep, PassTypedStep,
     PhaseTypedStep, CountsTypedStep
  DEF TypeOK, MirrorTyped, SeenTyped, PassTyped, PhaseTyped, CountsTyped

\* Rows in hand are not free for a new one.
LEMMA HandFilled ==
    ASSUME TypeOK, InHand, NEW j \in Jobs, j \in fresh \cup back \cup {at}
    PROVE  job[j] # NoRow /\ job[j].status \in {"leased", "lapsed"}
  BY NoRowFields DEF InHand

\* Outside a change or a removal no row comes about and none is of another subject.
KeptRows ==
    \A j \in Jobs :
        \/ job'[j] = NoRow
        \/ job'[j] = job[j]
        \/ job[j] # NoRow /\ job'[j].subject = job[j].subject /\ job'[j].kind = job[j].kind

Changed == \E s \in Subjects : \E says \in Says(s) : Change(s, says)

Removed == \E s \in Others : Remove(s)

LEMMA StepRows ==
    ASSUME TypeOK, InHand, [Next]_vars
    PROVE  Changed \/ Removed \/ (KeptRows /\ UNCHANGED stage)
<1>1. ASSUME NEW j \in Jobs, ComesDue(j) \/ LeaseLapses(j) PROVE KeptRows
  BY <1>1, BecomesRows DEF ComesDue, LeaseLapses, Statuses, KeptRows
<1>2. ASSUME NEW taken \in SUBSET Jobs, Claim(taken) PROVE KeptRows
  BY <1>2, ClaimRows DEF KeptRows
<1>3. ASSUME NEW j \in Jobs, Release(j) PROVE KeptRows
  BY <1>3, ReleaseRows DEF KeptRows
<1>4. ASSUME Complete PROVE KeptRows
  BY <1>4, CompleteRows, HandFilled DEF KeptRows
<1>5. ASSUME UNCHANGED job PROVE KeptRows
  BY <1>5 DEF KeptRows
<1> QED
  BY <1>1, <1>2, <1>3, <1>4, <1>5
  DEF Changed, Removed, Next, ReleasesTag, Establishes, Unowed, Pass, Attempt, vars,
      ComesDue, LeaseLapses, Becomes, StartPass, ClaimNothing, EndBatch, Claim, Release,
      Perform, Read, ReadRouting, WriteRecord, WriteRendering, RendererThrows, RemoveRecord,
      Complete, Fails, Crash

LEMMA RowsRightStep == IInv /\ [Next]_vars => RowsRight'
<1> SUFFICES ASSUME IInv, [Next]_vars PROVE RowsRight'
  OBVIOUS
<1>0. TypeOK /\ RowsRight /\ InHand /\ PoolTyped
  BY DEF IInv, TypeOK
<1>1. ASSUME NEW s \in Subjects, NEW k \in Kinds, Enqueue(s, k),
             NEW now, stage' = [stage EXCEPT ![s] = now], now \in {"live", "gone"},
             stage[s] # "gone", now = "gone" => k = "mirror-remove" /\ s \notin Items,
             now = "live" => k = "mirror"
      PROVE  RowsRight'
  <2>1. \A i \in Subjects : stage'[i] = IF i = s THEN now ELSE stage[i]
    BY <1>0, <1>1 DEF PoolTyped
  <2>2. \A i \in Items : stage'[i] # "gone"
    BY <1>0, <1>1, <2>1 DEF RowsRight
  <2>3. ASSUME NEW j \in Jobs
        PROVE  /\ job'[j] # NoRow => stage'[job'[j].subject] # "unborn"
               /\ job'[j].kind = "mirror-remove" => stage'[job'[j].subject] = "gone"
    <3>1. CASE job'[j] = job[j]
      BY <1>0, <1>1, <2>1, <3>1, FilledRow, NoRowFields DEF RowsRight
    <3>2. CASE job'[j] = Row(s, k, "due")
      BY <1>1, <2>1, <3>2, RowFields DEF Kinds
    <3> QED
      BY <1>0, <1>1, <3>1, <3>2, EnqueueRows
  <2> QED
    BY <2>2, <2>3 DEF RowsRight
<1>2. CASE Changed
  BY <1>1, <1>2 DEF Changed, Change, Kinds
<1>3. CASE Removed
  BY <1>1, <1>3 DEF Removed, Remove, Kinds
<1>4. CASE KeptRows /\ UNCHANGED stage
  BY <1>0, <1>4, NoRowFields DEF RowsRight, KeptRows
<1> QED
  BY <1>0, <1>2, <1>3, <1>4, StepRows

LEMMA InHandStep == IInv /\ [Next]_vars => InHand'
<1> SUFFICES ASSUME IInv, [Next]_vars PROVE InHand'
  OBVIOUS
<1>0. TypeOK /\ InHand /\ at \in Jobs \cup {Nothing} /\ fresh \subseteq Jobs
  BY DEF IInv, TypeOK
<1>1. ASSUME NEW s \in Subjects, NEW k \in Kinds, Enqueue(s, k), UNCHANGED <<phase, fresh, back, at>>
      PROVE  InHand'
  <2>1. \A j \in Jobs : j \in fresh \cup back \cup {at} => job'[j] = job[j]
    BY <1>0, <1>1, EnqueueRows, HandFilled
  <2> QED
    BY <1>0, <1>1, <2>1 DEF InHand
<1>2. ASSUME NEW s \in Subjects, NEW says \in Says(s), Change(s, says) PROVE InHand'
  BY <1>1, <1>2 DEF Change, Kinds
<1>3. ASSUME NEW s \in Others, Remove(s) PROVE InHand'
  BY <1>1, <1>3 DEF Remove, Kinds
<1>4. ASSUME NEW j \in Jobs, ComesDue(j) PROVE InHand'
  <2>1. job[j].status = "waiting" /\ \A i \in Jobs \ {j} : job'[i] = job[i]
    BY <1>0, <1>4, BecomesRows DEF ComesDue, Statuses
  <2> QED
    BY <1>0, <1>4, <2>1, HandFilled DEF InHand, ComesDue, Becomes, passVars
<1>5. ASSUME NEW j \in Jobs, LeaseLapses(j) PROVE InHand'
  <2>1. job'[j].status = "lapsed" /\ \A i \in Jobs \ {j} : job'[i] = job[i]
    BY <1>0, <1>5, BecomesRows DEF LeaseLapses, Statuses
  <2> QED
    BY <1>0, <1>5, <2>1 DEF InHand, LeaseLapses, Becomes, passVars
<1>6. CASE StartPass \/ ClaimNothing
  BY <1>0, <1>6 DEF InHand, StartPass, ClaimNothing, Attempting
<1>7. CASE EndBatch
  BY <1>0, <1>7 DEF InHand, EndBatch, Attempting
<1>8. ASSUME NEW taken \in SUBSET Jobs, Claim(taken) PROVE InHand'
  <2>1. \A j \in taken : job'[j].status = "leased"
    BY <1>0, <1>8, ClaimRows
  <2>2. at \notin Jobs /\ UNCHANGED at /\ phase' \notin Attempting
    BY <1>0, <1>8 DEF Claim, InHand, Attempting
  <2> QED
    BY <1>0, <1>8, <2>1, <2>2 DEF Claim, InHand
<1>9. ASSUME NEW j \in Jobs, Release(j) PROVE InHand'
  <2>1. \A i \in Jobs \ {j} : job'[i] = job[i]
    BY <1>0, <1>9, ReleaseRows
  <2>2. at \notin Jobs /\ j \in back /\ back' = back \ {j} /\ UNCHANGED <<phase, fresh, at>>
    BY <1>0, <1>9 DEF Release, InHand
  <2> QED
    BY <1>0, <2>1, <2>2 DEF InHand
<1>10. ASSUME NEW j \in Jobs, Perform(j) PROVE InHand'
  BY <1>0, <1>10 DEF Perform, InHand, Attempting
<1>11. CASE Read \/ ReadRouting
  BY <1>0, <1>11 DEF Read, ReadRouting, Reports, InHand, Attempting
<1>12. CASE WriteRecord \/ WriteRendering \/ RendererThrows \/ RemoveRecord \/ Fails
  BY <1>0, <1>12
  DEF WriteRecord, WriteRendering, RendererThrows, RemoveRecord, Fails, Reports, InHand,
      Attempting
<1>13. CASE Complete
  <2>1. \A j \in Jobs : j \in fresh => job'[j] = job[j]
    <3>1. \A j \in fresh : j \in Jobs => ~Settles(j) /\ j # at
      BY <1>0, HandFilled DEF InHand, Settles
    <3> QED
      BY <1>0, <1>13, <3>1, CompleteRows
  <2>2. at \in Jobs /\ back = {} /\ at' = Nothing /\ phase' = "working" /\ UNCHANGED <<fresh, back>>
    BY <1>0, <1>13 DEF Complete, InHand, Attempting
  <2> QED
    BY <1>0, <2>1, <2>2 DEF InHand, Attempting
<1>14. CASE Crash
  BY <1>0, <1>14 DEF Crash, InHand, Attempting
<1>15. CASE UNCHANGED vars
  BY <1>0, <1>15 DEF InHand, vars, passVars
<1>16. ASSUME NEW s \in Subjects, NEW says \in Says(s), Unowed(s, says) PROVE InHand'
  BY <1>0, <1>16 DEF InHand, Unowed, passVars
<1> QED
  BY <1>2, <1>3, <1>4, <1>5, <1>6, <1>7, <1>8, <1>9, <1>10, <1>11, <1>12, <1>13, <1>14, <1>15,
     <1>16
  DEF Next, ReleasesTag, Establishes, Pass, Attempt

\* While an attempt is under way, all but its report leave its row its own.
LEMMA HandKept ==
    ASSUME IInv, [Next]_vars, phase \in Attempting, phase' \in Attempting
    PROVE  /\ UNCHANGED at /\ job[at].kind \in Kinds
           /\ job'[at].subject = job[at].subject /\ job'[at].kind = job[at].kind
           /\ UNCHANGED Subject /\ Subject \in Subjects /\ stage[Subject] \in {"live", "gone"}
<1>0. TypeOK /\ RowsRight /\ InHand /\ InHand' /\ TypeOK'
  BY InHandStep, TypeStep DEF IInv
<1>1. UNCHANGED at
  BY DEF Next, ReleasesTag, Establishes, Unowed, Pass, Attempt, vars, passVars, Change,
     Remove, ComesDue, LeaseLapses, Becomes, StartPass, ClaimNothing, EndBatch, Claim,
     Release, Perform, Read, ReadRouting, WriteRecord, WriteRendering, RendererThrows,
     RemoveRecord, Complete, Fails, Crash, Attempting
<1>2. at \in Jobs /\ job[at] # NoRow /\ job[at].kind \in Kinds /\ Subject \in Subjects
      /\ stage[Subject] \in {"live", "gone"}
  BY <1>0, AtRow
<1>3. job'[at] # NoRow
  BY <1>0, <1>1, NoRowFields DEF InHand
<1>4. job'[at].subject = job[at].subject /\ job'[at].kind = job[at].kind
  <2>1. ASSUME NEW s \in Subjects, NEW k \in Kinds, Enqueue(s, k) PROVE job'[at] = job[at]
    BY <1>0, <1>2, <2>1, EnqueueRows
  <2>2. CASE Changed \/ Removed
    BY <2>1, <2>2 DEF Changed, Removed, Change, Remove, Kinds
  <2>3. CASE KeptRows
    BY <1>2, <1>3, <2>3 DEF KeptRows
  <2> QED
    BY <1>0, <2>2, <2>3, StepRows
<1> QED
  BY <1>1, <1>2, <1>4 DEF Subject

LEMMA OnItsWayStep == IInv /\ [Next]_vars => OnItsWay'
<1> SUFFICES ASSUME IInv, [Next]_vars PROVE OnItsWay'
  OBVIOUS
<1>0. TypeOK /\ RowsRight /\ InHand /\ OnItsWay
  BY DEF IInv
<1>1. ASSUME phase \in Attempting, phase' \in Attempting
      PROVE  /\ UNCHANGED at /\ job'[at].kind = job[at].kind /\ UNCHANGED Subject
  BY <1>1, HandKept
<1>2. CASE UNCHANGED <<phase, seen>>
  BY <1>0, <1>1, <1>2 DEF OnItsWay, Attempting
<1>3. ASSUME NEW j \in Jobs, Perform(j) PROVE OnItsWay'
  <2>1. job[j] # NoRow
    BY <1>0, <1>3, HandFilled DEF Perform
  <2> QED
    BY <1>0, <1>3, <2>1, FilledRow DEF Perform, OnItsWay, Kinds
<1>4. CASE Read
  <2>1. stage[Subject] = "live" => pool[Subject] \in Saying
    BY <1>0, <1>4, AtRow, SaysSaying DEF Read, Attempting, TypeOK, PoolTyped
  <2>2. phase \in Attempting /\ phase' \in Attempting
    BY <1>4 DEF Read, Reports, Attempting
  <2> QED
    BY <1>0, <1>1, <1>4, <2>1, <2>2 DEF Read, Reports, OnItsWay
<1>5. CASE ReadRouting
  <2>1. pool[Subject] \in Saying
    BY <1>0, <1>5, AtRow, SaysSaying
    DEF ReadRouting, Attempting, TypeOK, PoolTyped, OnItsWay, RowsRight
  <2>2. seen' \in Saying
    BY <1>0, <1>5, <2>1, JoinedSaying DEF ReadRouting, OnItsWay
  <2> QED
    BY <1>0, <1>1, <1>5, <2>2 DEF ReadRouting, OnItsWay, Attempting
<1>6. CASE WriteRecord
  BY <1>0, <1>1, <1>6 DEF WriteRecord, Reports, OnItsWay, Attempting
<1>7. CASE phase' \notin {"removing", "reading", "joining", "recording", "rendering"}
  BY <1>7 DEF OnItsWay
<1> QED
  BY <1>2, <1>3, <1>4, <1>5, <1>6, <1>7
  DEF Next, ReleasesTag, Establishes, Unowed, Pass, Attempt, vars, passVars, Change, Remove,
      ComesDue, LeaseLapses, Becomes, StartPass, ClaimNothing, EndBatch, Claim, Release,
      WriteRendering, RendererThrows, RemoveRecord, Reports, Complete, Fails, Crash

LEMMA OnePendingStep == IInv /\ [Next]_vars => OnePendingRow'
<1> SUFFICES ASSUME IInv, [Next]_vars PROVE OnePendingRow'
  OBVIOUS
<1>0. TypeOK /\ InHand /\ OnePendingRow
  BY DEF IInv
<1>1. ASSUME NEW s \in Subjects, NEW k \in Kinds, Enqueue(s, k) PROVE OnePendingRow'
  BY <1>0, <1>1, EnqueueRows, RowFields DEF OnePendingRow, About, Pending
<1>2. ASSUME \A j \in Jobs : /\ job'[j].subject = job[j].subject /\ job'[j].kind = job[j].kind
                             /\ Pending(j)' => Pending(j)
      PROVE  OnePendingRow'
  BY <1>0, <1>2 DEF OnePendingRow, About
<1>3. ASSUME NEW j \in Jobs, ComesDue(j) \/ LeaseLapses(j) PROVE OnePendingRow'
  BY <1>0, <1>2, <1>3, BecomesRows DEF ComesDue, LeaseLapses, Statuses, Pending
<1>4. ASSUME NEW taken \in SUBSET Jobs, Claim(taken) PROVE OnePendingRow'
  BY <1>0, <1>4, ClaimRows DEF OnePendingRow, About, Pending
<1>5. ASSUME NEW j \in Jobs, Release(j) PROVE OnePendingRow'
  BY <1>0, <1>5, ReleaseRows, NoRowFields DEF OnePendingRow, About, Pending, Superseded
<1>6. CASE Complete
  BY <1>0, <1>6, CompleteRows, NoRowFields DEF OnePendingRow, About, Pending, Superseded
<1>7. CASE UNCHANGED job
  BY <1>0, <1>7 DEF OnePendingRow, About, Pending
<1>8. CASE Changed \/ Removed
  BY <1>1, <1>8 DEF Changed, Removed, Change, Remove, Kinds
<1> QED
  BY <1>3, <1>4, <1>5, <1>6, <1>7, <1>8
  DEF Changed, Removed, Next, ReleasesTag, Establishes, Unowed, Pass, Attempt, vars,
      StartPass, ClaimNothing, EndBatch, Perform, Read, ReadRouting, WriteRecord,
      WriteRendering, RendererThrows, RemoveRecord, Fails, Crash

LEMMA OneWriteStep == IInv /\ [Next]_vars => OneWritePerSubject'
<1> SUFFICES ASSUME IInv, [Next]_vars PROVE OneWritePerSubject'
  OBVIOUS
<1>0. TypeOK /\ InHand /\ OneWritePerSubject
  BY DEF IInv
<1>1. ASSUME \A j \in Jobs : job'[j].status = "leased" =>
                 job[j].status = "leased" /\ job'[j].subject = job[j].subject
      PROVE  OneWritePerSubject'
  BY <1>0, <1>1 DEF OneWritePerSubject
<1>2. ASSUME NEW s \in Subjects, NEW k \in Kinds, Enqueue(s, k) PROVE OneWritePerSubject'
  BY <1>0, <1>1, <1>2, EnqueueRows, RowFields
<1>3. ASSUME NEW j \in Jobs, ComesDue(j) \/ LeaseLapses(j) PROVE OneWritePerSubject'
  BY <1>0, <1>1, <1>3, BecomesRows DEF ComesDue, LeaseLapses, Statuses
<1>4. ASSUME NEW taken \in SUBSET Jobs, Claim(taken) PROVE OneWritePerSubject'
  BY <1>0, <1>4, ClaimRows DEF Claim, Claimable, OneWritePerSubject
<1>5. ASSUME NEW j \in Jobs, Release(j) PROVE OneWritePerSubject'
  BY <1>0, <1>1, <1>5, ReleaseRows, NoRowFields
<1>6. CASE Complete
  BY <1>0, <1>1, <1>6, CompleteRows, NoRowFields
<1>7. CASE UNCHANGED job
  BY <1>1, <1>7
<1>8. CASE Changed \/ Removed
  BY <1>2, <1>8 DEF Changed, Removed, Change, Remove, Kinds
<1> QED
  BY <1>3, <1>4, <1>5, <1>6, <1>7, <1>8
  DEF Changed, Removed, Next, ReleasesTag, Establishes, Unowed, Pass, Attempt, vars,
      StartPass, ClaimNothing, EndBatch, Perform, Read, ReadRouting, WriteRecord,
      WriteRendering, RendererThrows, RemoveRecord, Fails, Crash

\* What a row asks for, a change or a removal of another subject still asks for,
\* and of this one asks for anew.
LEMMA EnqueueOwes ==
    ASSUME IInv, NEW s \in Subjects, NEW k \in Kinds, Enqueue(s, k)
    PROVE  /\ \A j \in Jobs : job[j].subject \in Subjects => job'[j] = job[j]
           /\ \E j \in Jobs : About(j, s, k)' /\ Pending(j)'
  BY EnqueueRows, NoRowFields DEF IInv

LEMMA StageSteps ==
    ASSUME IInv, Changed \/ Removed
    PROVE  \E s \in Subjects, k \in Kinds :
              /\ Enqueue(s, k)
              /\ Wanted(s)' = k
              /\ \A i \in Subjects \ {s} : /\ stage'[i] = stage[i] /\ pool'[i] = pool[i]
                                           /\ held'[i] = held[i]
              /\ UNCHANGED <<record, rendering, phase, at, seen, outcome>>
<1>0. PoolTyped
  BY DEF IInv, TypeOK
<1>1. ASSUME NEW s \in Subjects, NEW says \in Says(s), Change(s, says)
      PROVE  /\ Enqueue(s, "mirror") /\ Wanted(s)' = "mirror"
             /\ \A i \in Subjects \ {s} : /\ stage'[i] = stage[i] /\ pool'[i] = pool[i]
                                          /\ held'[i] = held[i]
             /\ UNCHANGED <<record, rendering, phase, at, seen, outcome>>
  BY <1>0, <1>1 DEF Change, PoolTyped, Wanted, mirrorVars
<1>2. ASSUME NEW s \in Others, Remove(s)
      PROVE  /\ Enqueue(s, "mirror-remove") /\ Wanted(s)' = "mirror-remove"
             /\ \A i \in Subjects \ {s} : /\ stage'[i] = stage[i] /\ pool'[i] = pool[i]
                                          /\ held'[i] = held[i]
             /\ UNCHANGED <<record, rendering, phase, at, seen, outcome>>
  BY <1>0, <1>2 DEF Remove, PoolTyped, Wanted, mirrorVars
<1> QED
  BY <1>1, <1>2 DEF Changed, Removed, Kinds

LEMMA ReadIsOwedStep == IInv /\ [Next]_vars => ReadIsOwed'
<1> SUFFICES ASSUME IInv, [Next]_vars, phase' \in Attempting PROVE ReadIsOwed'
  BY DEF ReadIsOwed, Attempting
<1>0. TypeOK /\ RowsRight /\ InHand /\ InHand' /\ OnItsWay /\ ReadIsOwed /\ OwedWhileStale
      /\ PoolTyped /\ HeldRight
  BY InHandStep DEF IInv, TypeOK
<1>1. CASE phase \notin Attempting
  <2>1. phase' \in {"reading", "removing"}
    BY <1>1 DEF Next, ReleasesTag, Establishes, Unowed, Pass, Attempt, vars, passVars,
       Change, Remove, ComesDue, LeaseLapses, Becomes, StartPass, ClaimNothing, EndBatch,
       Claim, Release, Perform, Read, ReadRouting, WriteRecord, WriteRendering,
       RendererThrows, RemoveRecord, Complete, Fails, Crash, Attempting
  <2> QED
    BY <2>1 DEF ReadIsOwed
<1>2. CASE phase \in Attempting
  <2>0. /\ UNCHANGED at /\ at \in Jobs /\ job'[at].kind = job[at].kind
        /\ UNCHANGED Subject /\ Subject \in Subjects /\ stage[Subject] \in {"live", "gone"}
    BY <1>0, <1>2, HandKept DEF InHand
  <2>1. ASSUME UNCHANGED <<job, stage>> PROVE Renewed' <=> Renewed
    BY <2>0, <2>1 DEF Renewed, Settles, About, Wanted
  <2>2. CASE Changed \/ Removed
    <3>1. PICK s \in Subjects, k \in Kinds :
              /\ Enqueue(s, k)
              /\ Wanted(s)' = k
              /\ \A i \in Subjects \ {s} : /\ stage'[i] = stage[i] /\ pool'[i] = pool[i]
                                           /\ held'[i] = held[i]
              /\ UNCHANGED <<record, rendering, phase, at, seen, outcome>>
      BY <2>2, StageSteps
    <3>2. CASE s = Subject
      <4>1. PICK j \in Jobs : About(j, s, k)' /\ Pending(j)'
        BY <3>1, EnqueueOwes
      <4>2. job'[at].status \in {"leased", "lapsed"}
        BY <1>0, <2>0 DEF InHand
      <4>3. ~Settles(j)'
        BY <4>1, <4>2, <3>1 DEF Settles, Pending
      <4>4. Renewed'
        BY <2>0, <3>1, <3>2, <4>1, <4>3 DEF Renewed
      <4> QED
        BY <4>4 DEF ReadIsOwed
    <3>3. CASE s # Subject
      <4>1. \A j \in Jobs : job[j].subject \in Subjects => job'[j] = job[j]
        BY <3>1, EnqueueOwes
      <4>2. ASSUME Renewed PROVE Renewed'
        <5>1. PICK j \in Jobs : ~Settles(j) /\ About(j, Subject, Wanted(Subject))
          BY <4>2 DEF Renewed
        <5>2. job'[j] = job[j] /\ Wanted(Subject)' = Wanted(Subject)
          BY <2>0, <3>1, <3>3, <4>1, <5>1 DEF About, Wanted
        <5>3. ~Settles(j)' /\ About(j, Subject, Wanted(Subject))'
          BY <2>0, <5>1, <5>2 DEF Settles, About
        <5> QED
          BY <5>3 DEF Renewed
      <4>3. held'[Subject] = held[Subject] /\ (Stale(Subject)' <=> Stale(Subject))
        BY <2>0, <3>1, <3>3 DEF Stale
      <4> QED
        BY <1>0, <2>0, <3>1, <4>2, <4>3 DEF ReadIsOwed
    <3> QED
      BY <3>2, <3>3
  <2>3. ASSUME NEW j \in Jobs, ComesDue(j) \/ LeaseLapses(j) PROVE ReadIsOwed'
    <3>1. \A i \in Jobs : /\ job'[i].subject = job[i].subject /\ job'[i].kind = job[i].kind
                          /\ job'[i].status = "abandoned" => job[i].status = "abandoned"
      BY <1>0, <2>3, BecomesRows DEF ComesDue, LeaseLapses, Statuses
    <3>2. UNCHANGED <<stage, pool, held, record, rendering, phase, seen, outcome>>
      BY <2>3 DEF ComesDue, LeaseLapses, Becomes, mirrorVars, passVars
    <3>3. Renewed => Renewed'
      BY <2>0, <3>1, <3>2 DEF Renewed, Settles, About, Wanted
    <3>4. Stale(Subject)' <=> Stale(Subject)
      BY <2>0, <3>2 DEF Stale
    <3> QED
      BY <1>0, <2>0, <3>2, <3>3, <3>4 DEF ReadIsOwed
  <2>4. CASE Read
    <3>1. CASE stage[Subject] = "live"
      BY <1>0, <2>0, <2>4, <3>1 DEF Read, ReadIsOwed, HeldRight
    <3>2. CASE stage[Subject] = "gone"
      <4>1. ASSUME Stale(Subject) PROVE Renewed
        <5>1. PICK j \in Jobs : About(j, Subject, "mirror-remove")
          BY <1>0, <2>0, <3>2, <4>1 DEF OwedWhileStale, Owed
        <5>2. ~Settles(j)
          BY <1>0, <2>4, <5>1 DEF Settles, About, OnItsWay, Read
        <5> QED
          BY <3>2, <5>1, <5>2 DEF Renewed, Wanted
      <4>2. UNCHANGED <<stage, pool, held, record, rendering, job>> /\ phase' = "reporting"
        BY <2>4, <3>2 DEF Read, Reports, mirrorVars
      <4> QED
        BY <2>0, <2>1, <4>1, <4>2 DEF ReadIsOwed, Stale
    <3> QED
      BY <2>0, <3>1, <3>2
  <2>5. CASE ReadRouting
    <3>1. pool[Subject] \in Saying /\ seen \in Saying
      BY <1>0, <2>5, AtRow, SaysSaying
      DEF ReadRouting, Attempting, PoolTyped, OnItsWay, RowsRight
    <3>2. ASSUME NEW says \in held[Subject], seen["item"] = says["item"]
          PROVE  seen' \in held[Subject]
      <4>1. says \in Saying /\ says["routing"] = pool[Subject]["routing"]
        BY <1>0, <2>0, <2>5, <3>1, AtRow DEF ReadRouting, HeldRight, OnItsWay, RowsRight
      <4>2. seen' = says
        BY <2>5, <3>1, <3>2, <4>1 DEF ReadRouting, Saying, Halves
      <4> QED
        BY <4>2
    <3>3. phase = "joining" /\ phase' = "recording" /\ UNCHANGED <<stage, pool, held, job>>
      BY <2>5 DEF ReadRouting
    <3> QED
      BY <1>0, <2>0, <2>1, <3>2, <3>3 DEF ReadIsOwed
  <2>6. CASE WriteRecord
    <3>1. record'[Subject] = seen
      BY <1>0, <2>0, <2>6 DEF WriteRecord, TypeOK
    <3>2. phase = "recording" /\ UNCHANGED <<stage, pool, held, job, seen>>
          /\ (phase' = "rendering" \/ (phase' = "reporting" /\ Subject \notin Items))
      BY <2>6 DEF WriteRecord, Reports
    <3> QED
      BY <1>0, <2>0, <2>1, <3>1, <3>2 DEF ReadIsOwed, Stale
  <2>7. CASE WriteRendering
    <3>1. rendering'[Subject] = seen
      BY <1>0, <2>0, <2>7 DEF WriteRendering, TypeOK
    <3>2. phase = "rendering" /\ phase' = "reporting" /\ UNCHANGED <<stage, pool, held, job, record>>
      BY <2>7 DEF WriteRendering, Reports
    <3> QED
      BY <1>0, <2>0, <2>1, <3>1, <3>2 DEF ReadIsOwed, Stale
  <2>8. CASE RemoveRecord
    <3>1. record'[Subject] = Nowhere
      BY <1>0, <2>0, <2>8 DEF RemoveRecord, TypeOK
    <3>2. stage[Subject] = "gone"
      BY <1>0, <2>0, <2>8 DEF RemoveRecord, OnItsWay, RowsRight, Subject
    <3>3. pool[Subject] = Nowhere /\ Subject \notin Items
      BY <1>0, <2>0, <3>2 DEF PoolTyped, RowsRight
    <3>4. phase' = "reporting" /\ UNCHANGED held /\ held[Subject] = {Nowhere}
      BY <1>0, <2>0, <2>8, <3>2 DEF RemoveRecord, Reports, HeldRight
    <3> QED
      BY <2>0, <3>1, <3>3, <3>4 DEF ReadIsOwed, Stale
  <2>9. CASE RendererThrows \/ Fails
    BY <2>9 DEF RendererThrows, Fails, Reports, ReadIsOwed
  <2>10. CASE UNCHANGED vars
    <3>1. UNCHANGED <<stage, pool, held, record, rendering, job, phase, at, seen, outcome>>
      BY <2>10 DEF vars, mirrorVars, passVars
    <3> QED
      BY <1>0, <2>0, <2>1, <3>1 DEF ReadIsOwed, Stale
  <2>15. ASSUME NEW s \in Subjects, NEW says \in Says(s), Unowed(s, says) PROVE ReadIsOwed'
    <3>1. /\ UNCHANGED <<stage, record, rendering, job, phase, at, seen, outcome>>
          /\ held[Subject] \subseteq held'[Subject]
      BY <1>0, <2>0, <2>15, HeldSteps
    <3>2. Stale(Subject)' => Stale(Subject)
      BY <2>0, <3>1 DEF Stale
    <3> QED
      BY <1>0, <2>0, <2>1, <3>1, <3>2 DEF ReadIsOwed
  <2>11. ASSUME NEW j \in Jobs PROVE ~Release(j)
    BY <1>0, <1>2, <2>0 DEF Release, InHand
  <2>12. phase \notin {"idle", "claiming", "working", "unwinding"}
         /\ phase' \notin {"idle", "claiming", "working", "unwinding"}
    BY <1>2 DEF Attempting
  <2>13. ~Complete /\ ~Crash /\ ~StartPass /\ ~ClaimNothing /\ ~EndBatch
    BY <2>12 DEF Complete, Crash, StartPass, ClaimNothing, EndBatch
  <2>14. /\ \A taken \in SUBSET Jobs : ~Claim(taken)
         /\ \A j \in Jobs : ~Perform(j)
    BY <2>12 DEF Claim, Perform
  <2> QED
    BY <2>2, <2>3, <2>4, <2>5, <2>6, <2>7, <2>8, <2>9, <2>10, <2>11, <2>13, <2>14, <2>15
    DEF Next, ReleasesTag, Establishes, Pass, Attempt, Changed, Removed
<1> QED
  BY <1>1, <1>2

LEMMA OwedStep == IInv /\ [Next]_vars => OwedWhileStale'
<1> SUFFICES ASSUME IInv, [Next]_vars, NEW s \in Subjects, Stale(s)' PROVE Owed(s)'
  BY DEF OwedWhileStale
<1>0. TypeOK /\ HeldRight /\ RowsRight /\ InHand /\ OnItsWay /\ ReadIsOwed /\ PoolTyped
      /\ (Stale(s) => \E j \in Jobs : About(j, s, Wanted(s)))
  BY DEF IInv, TypeOK, OwedWhileStale, Owed, Wanted
<1> SUFFICES \E j \in Jobs : About(j, s, Wanted(s))'
  BY DEF Owed, Wanted
<1>1. CASE Changed \/ Removed
  <2>1. PICK i \in Subjects, k \in Kinds :
            /\ Enqueue(i, k)
            /\ Wanted(i)' = k
            /\ \A n \in Subjects \ {i} : /\ stage'[n] = stage[n] /\ pool'[n] = pool[n]
                                         /\ held'[n] = held[n]
            /\ UNCHANGED <<record, rendering, phase, at, seen, outcome>>
    BY <1>1, StageSteps
  <2>2. CASE s = i
    BY <2>1, <2>2, EnqueueOwes DEF About
  <2>3. CASE s # i
    <3>1. Stale(s) /\ Wanted(s)' = Wanted(s)
      BY <2>1, <2>3 DEF Stale, Wanted
    <3> QED
      BY <1>0, <2>1, <3>1, EnqueueOwes DEF About
  <2> QED
    BY <2>2, <2>3
<1>2. ASSUME \A j \in Jobs : job'[j].subject = job[j].subject /\ job'[j].kind = job[j].kind,
             UNCHANGED <<stage, pool, held, record, rendering>>
      PROVE  \E j \in Jobs : About(j, s, Wanted(s))'
  BY <1>0, <1>2 DEF Stale, About, Wanted
<1>3. ASSUME NEW j \in Jobs, ComesDue(j) \/ LeaseLapses(j)
      PROVE  \E i \in Jobs : About(i, s, Wanted(s))'
  <2>1. \A i \in Jobs : job'[i].subject = job[i].subject /\ job'[i].kind = job[i].kind
    BY <1>0, <1>3, BecomesRows DEF ComesDue, LeaseLapses, Statuses
  <2> QED
    BY <1>2, <1>3, <2>1 DEF ComesDue, LeaseLapses, Becomes, mirrorVars
<1>4. ASSUME NEW taken \in SUBSET Jobs, Claim(taken)
      PROVE  \E i \in Jobs : About(i, s, Wanted(s))'
  <2>1. \A i \in Jobs : job'[i].subject = job[i].subject /\ job'[i].kind = job[i].kind
    BY <1>0, <1>4, ClaimRows
  <2> QED
    BY <1>2, <1>4, <2>1 DEF Claim, mirrorVars
<1>5. ASSUME NEW j \in Jobs, Release(j)
      PROVE  \E i \in Jobs : About(i, s, Wanted(s))'
  <2>1. Stale(s) /\ Wanted(s)' = Wanted(s)
    BY <1>5 DEF Release, mirrorVars, Stale, Wanted
  <2>2. PICK i \in Jobs : About(i, s, Wanted(s))
    BY <1>0, <2>1
  <2> QED
    BY <1>0, <1>5, <2>1, <2>2, ReleaseRows DEF About, Superseded
<1>6. CASE Complete
  <2>1. UNCHANGED <<stage, pool, held, record, rendering>> /\ phase = "reporting"
    BY <1>6 DEF Complete, mirrorVars
  <2>2. Stale(s) /\ Wanted(s)' = Wanted(s)
    BY <2>1 DEF Stale, Wanted
  <2>3. CASE outcome = "done" /\ s = Subject
    <3>1. PICK i \in Jobs : ~Settles(i) /\ About(i, s, Wanted(s))
      BY <1>0, <2>1, <2>2, <2>3 DEF ReadIsOwed, Renewed
    <3>2. job'[i] = job[i]
      BY <1>0, <1>6, <3>1, CompleteRows DEF Settles
    <3> QED
      BY <2>2, <3>1, <3>2 DEF About
  <2>4. CASE ~(outcome = "done" /\ s = Subject)
    <3>1. PICK i \in Jobs : About(i, s, Wanted(s))
      BY <1>0, <2>2
    <3>2. outcome = "done" => ~Settles(i)
      BY <2>4, <3>1 DEF Settles, About, Subject
    <3>3. \/ job'[i].subject = job[i].subject /\ job'[i].kind = job[i].kind
          \/ i = at /\ Superseded(at)
      BY <1>0, <1>6, <3>2, CompleteRows
    <3>4. CASE i = at /\ Superseded(at)
      <4>1. PICK n \in Jobs \ {at} : About(n, s, Wanted(s)) /\ Pending(n)
        BY <3>1, <3>4 DEF Superseded, About
      <4>2. job'[n] = job[n]
        BY <1>0, <1>6, <4>1, CompleteRows DEF Settles, Pending
      <4> QED
        BY <2>2, <4>1, <4>2 DEF About
    <3> QED
      BY <2>2, <3>1, <3>3, <3>4 DEF About
  <2> QED
    BY <2>3, <2>4
<1>7. CASE WriteRecord \/ WriteRendering \/ RemoveRecord
  <2>0. phase \in Attempting
    BY <1>7 DEF WriteRecord, WriteRendering, RemoveRecord, Attempting
  <2>1. /\ UNCHANGED <<stage, pool, held, job>> /\ Subject \in Subjects
        /\ \A i \in Subjects \ {Subject} : record'[i] = record[i] /\ rendering'[i] = rendering[i]
    BY <1>0, <1>7, <2>0, AtRow DEF WriteRecord, WriteRendering, RemoveRecord, TypeOK
  <2>2. CASE s # Subject
    BY <1>0, <2>1, <2>2 DEF Stale, About, Wanted
  <2>3. CASE s = Subject /\ Renewed
    BY <2>1, <2>3 DEF Renewed, About, Wanted
  <2>4. CASE s = Subject /\ ~Renewed
    <3>1. CASE WriteRecord
      <4>1. record'[s] \in held[s] /\ UNCHANGED <<held, rendering>>
        BY <1>0, <2>1, <2>4, <3>1 DEF WriteRecord, ReadIsOwed, TypeOK
      <4> QED
        BY <1>0, <2>1, <4>1 DEF Stale, About, Wanted
    <3>2. CASE WriteRendering
      <4>1. record'[s] \in held[s] /\ rendering'[s] \in held[s] /\ UNCHANGED held
        BY <1>0, <2>1, <2>4, <3>2 DEF WriteRendering, ReadIsOwed, TypeOK
      <4> QED
        BY <2>1, <4>1 DEF Stale
    <3>3. CASE RemoveRecord
      <4>1. record'[s] = Nowhere
        BY <1>0, <2>1, <2>4, <3>3 DEF RemoveRecord, TypeOK
      <4>2. stage[s] = "gone"
        BY <1>0, <2>0, <2>4, <3>3, AtRow DEF RemoveRecord, OnItsWay, RowsRight, Subject
      <4>3. held[s] = {Nowhere} /\ UNCHANGED held /\ s \notin Items
        BY <1>0, <3>3, <4>2 DEF RemoveRecord, HeldRight, RowsRight
      <4> QED
        BY <2>1, <4>1, <4>3 DEF Stale
    <3> QED
      BY <1>7, <3>1, <3>2, <3>3
  <2> QED
    BY <2>2, <2>3, <2>4
<1>8. CASE UNCHANGED <<stage, pool, held, record, rendering, job>>
  BY <1>2, <1>8
<1>9. ASSUME NEW i \in Subjects, NEW says \in Says(i), Unowed(i, says)
      PROVE  \E j \in Jobs : About(j, s, Wanted(s))'
  <2>1. UNCHANGED <<stage, record, rendering, job>> /\ held[s] \subseteq held'[s]
    BY <1>0, <1>9, HeldSteps
  <2>2. Stale(s) /\ Wanted(s)' = Wanted(s)
    BY <2>1 DEF Stale, Wanted
  <2> QED
    BY <1>0, <2>1, <2>2 DEF About
<1> QED
  BY <1>1, <1>3, <1>4, <1>5, <1>6, <1>7, <1>8, <1>9
  DEF Changed, Removed, Next, ReleasesTag, Establishes, Pass, Attempt, vars, mirrorVars,
      StartPass, ClaimNothing, EndBatch, Perform, Read, ReadRouting, RendererThrows, Fails,
      Crash

-----------------------------------------------------------------------------
\* The inductive invariant holds of every behaviour.
THEOREM Safe == Spec => []IInv
<1>1. IInv /\ [Next]_vars => IInv'
  <2> SUFFICES ASSUME IInv, [Next]_vars PROVE IInv'
    OBVIOUS
  <2>1. TypeOK' /\ HeldRight' /\ RowsRight' /\ InHand' /\ OnItsWay'
    BY TypeStep, HeldRightStep, RowsRightStep, InHandStep, OnItsWayStep
  <2>2. OnePendingRow' /\ OneWritePerSubject' /\ ReadIsOwed' /\ OwedWhileStale'
    BY OnePendingStep, OneWriteStep, ReadIsOwedStep, OwedStep
  <2> QED
    BY <2>1, <2>2 DEF IInv
<1> QED
  BY InitInv, <1>1, PTL DEF Spec

\* Every variable keeps to its type.
THEOREM TypeCorrect == Spec => []TypeOK
<1>1. IInv => TypeOK
  BY DEF IInv
<1> QED
  BY Safe, <1>1, PTL

\* However a write is read, torn, failed, put back, given up on or lost, a
\* subject of which its mirror says nothing the pool has said since a change that
\* owed a write is owed the job that would put it right.
THEOREM DebtKept == Spec => []OwedWhileStale
<1>1. IInv => OwedWhileStale
  BY DEF IInv
<1> QED
  BY Safe, <1>1, PTL

\* Putting a job back never collides with the index on pending rows.
THEOREM NoRivalRow == Spec => []OnePendingRow
<1>1. IInv => OnePendingRow
  BY DEF IInv
<1> QED
  BY Safe, <1>1, PTL

\* No two writes of one subject are ever leased together.
THEOREM WritesApart == Spec => []OneWritePerSubject
<1>1. IInv => OneWritePerSubject
  BY DEF IInv
<1> QED
  BY Safe, <1>1, PTL
=============================================================================
