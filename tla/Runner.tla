------------------------------- MODULE Runner -------------------------------
(***************************************************************************)
(* When the host looks for work: apps/daemon/src/work/runner.ts over the   *)
(* queue of store-sqlite/src/jobs.ts. A poll, a timer set for what comes   *)
(* due before it, and drains somebody asked for all start a pass, and one  *)
(* pass runs at a time.                                                    *)
(*                                                                         *)
(* Every time is kept as how long it is until then. Jobs are numbered as   *)
(* they were enqueued.                                                     *)
(***************************************************************************)
EXTENDS Naturals, FiniteSets

CONSTANTS
    Jobs,      \* bound: jobs ever enqueued
    Batch,     \* how many a claim takes
    Poll,      \* between one poll and the next
    Windows,   \* how long a job may be held before it is due
    Backoffs,  \* how long one that failed may wait
    Early,     \* how much too early a timer may fire
    Callers,   \* those who ask for a drain
    Faults     \* bound: attempts that fail and passes that throw

ASSUME RunnerAssumption ==
    /\ Jobs \subseteq Nat
    /\ IsFiniteSet(Jobs)
    /\ Batch \in Nat \ {0}
    /\ Poll \in Nat \ {0}
    /\ Windows \subseteq Nat
    /\ Backoffs \subseteq Nat
    /\ Early \in Nat
    /\ Faults \in Nat

VARIABLES
    status,     \* where each job is
    due,        \* how long until it is
    passed,     \* those due by the time the runner last looked
    moved,      \* whether time has passed since
    phase,      \* where the pass is
    leased,     \* what it has claimed and has not attempted
    attempted,  \* what it has
    poll,       \* until the poll
    waking,     \* until the timer fires; as long as a poll where none is set
    asking,     \* what it has been told of the next job due, and not heard yet
    stopped,
    caller,     \* the drains: queued behind the pass under way, or joined to it
    owed,       \* history: what was owed when each asked, and has not been done
    unheard,    \* history: jobs due as they were made, or made before it started
    faults      \* faults left

queue == <<status, due>>
looks == <<passed, moved>>
pass == <<phase, leased, attempted>>
timers == <<poll, waking, asking>>
drains == <<caller, owed>>
vars == <<queue, looks, pass, timers, stopped, drains, unheard, faults>>

Stages == {"unmade", "free", "leased", "left", "lapsed", "gone"}

Init ==
    /\ \E made \in SUBSET Jobs :
          /\ \A j \in made, k \in Jobs : k < j => k \in made
          /\ status = [j \in Jobs |-> IF j \in made THEN "free" ELSE "unmade"]
          /\ due \in [Jobs -> {0} \cup Windows]
          /\ \A j \in Jobs \ made : due[j] = 0
          /\ unheard = made
    /\ passed = {}
    /\ moved = FALSE
    /\ phase = "idle"
    /\ leased = {}
    /\ attempted = {}
    /\ poll = Poll
    /\ waking = Poll
    /\ asking = {}
    /\ stopped = FALSE
    /\ caller = [c \in Callers |-> "none"]
    /\ owed = [c \in Callers |-> {}]
    /\ faults = Faults

-----------------------------------------------------------------------------
(* The queue.                                                               *)

Free(s) == {j \in Jobs : s[j] = "free"}

\* (Faulty.) A lease nobody ended is left alone for good.
OwedWhenFree == {j \in Jobs : status[j] = "free" /\ due[j] = 0}

\* What a claim would take up: free, or its lease lapsed.
Owed == {j \in Jobs : status[j] \in {"free", "lapsed"} /\ due[j] = 0}

\* All that is due, whoever has it.
Outstanding == {j \in Jobs : status[j] \notin {"unmade", "gone"} /\ due[j] = 0}

\* Oldest first, as many as the batch.
Oldest(S, all) ==
    /\ Cardinality(S) <= Batch
    /\ S # all => Cardinality(S) = Batch
    /\ \A j \in S, k \in all \ S : j < k

Fault == faults > 0 /\ faults' = faults - 1

Done(j) == owed' = [c \in Callers |-> owed[c] \ {j}]

-----------------------------------------------------------------------------
(* Waking.                                                                  *)

\* How long until the first of these is due, where that is before any poll.
Soonest(S, d) ==
    {d[j] : j \in {j \in S : d[j] < Poll /\ \A k \in S : d[j] <= d[k]}}

Asks(S, d) == asking' = IF stopped THEN asking ELSE asking \cup Soonest(S, d)

\* For a host that has made work: what is not due yet.
Wake(s, d) == Asks({j \in Free(s) : d[j] > 0}, d)

\* (Faulty.) What came due during the pass is left to the poll.
SinceNow(s, d) == {j \in Free(s) : d[j] > 0}

\* What became due since the pass last looked, or will.
SinceLook(s, d) == Free(s) \ passed

Sooner(w) == w < waking

\* (Faulty.) Whether it was stopped meanwhile is not asked again.
Regardless == TRUE

Runs == ~stopped

\* The store answers before the event loop turns, but stop may be called first.
Answered(w) ==
    /\ w \in asking
    /\ asking' = asking \ {w}
    /\ waking' = IF Runs /\ Sooner(w) THEN w ELSE waking
    /\ UNCHANGED <<queue, looks, pass, poll, stopped, drains, unheard, faults>>

-----------------------------------------------------------------------------
(* Those who make work and take it back.                                    *)

\* Whatever is due by now was due at the last look only if no time has passed.
Waits(j, w) ==
    /\ due' = [due EXCEPT ![j] = w]
    /\ passed' = IF w = 0 /\ ~moved THEN passed \cup {j} ELSE passed \ {j}

Make(j, w) ==
    /\ status[j] = "unmade"
    /\ \A k \in Jobs : k < j => status[k] # "unmade"
    /\ status' = [status EXCEPT ![j] = "free"]
    /\ Waits(j, w)
    /\ unheard' = IF w = 0 THEN unheard \cup {j} ELSE unheard
    /\ Wake(status', due')
    /\ UNCHANGED <<moved, pass, poll, waking, stopped, drains, faults>>

Cancel(j) ==
    /\ status[j] = "free"
    /\ status' = [status EXCEPT ![j] = "gone"]
    /\ Done(j)
    /\ UNCHANGED <<due, looks, pass, timers, stopped, caller, unheard, faults>>

-----------------------------------------------------------------------------
(* A pass.                                                                  *)

Looks(d) ==
    /\ passed' = {j \in Jobs : d[j] = 0}
    /\ moved' = FALSE

Begins ==
    /\ phase' = "claiming"
    /\ attempted' = {}
    /\ Looks(due)

\* (Faulty.) The pass under way will do.
JoinsAtOnce == "joined"

\* The pass under way may have looked too soon: a drain waits for another.
Joins == IF phase = "idle" THEN "joined" ELSE "queued"

AskToDrain(c) ==
    /\ caller[c] = "none"
    /\ caller' = [caller EXCEPT ![c] = Joins]
    /\ owed' = [owed EXCEPT ![c] = Outstanding]
    /\ IF phase = "idle" THEN Begins ELSE UNCHANGED <<phase, attempted, looks>>
    /\ UNCHANGED <<queue, leased, timers, stopped, unheard, faults>>

Ticks == IF phase = "idle" /\ ~stopped THEN Begins
         ELSE UNCHANGED <<phase, attempted, looks>>

\* Timers fire when nothing is left to be heard.
Turns == asking = {}

PollFires ==
    /\ Turns
    /\ ~stopped
    /\ poll = 0
    /\ poll' = Poll
    /\ Ticks
    /\ UNCHANGED <<queue, leased, waking, asking, stopped, drains, unheard, faults>>

WakeFires ==
    /\ Turns
    /\ waking < Poll
    /\ waking <= Early
    /\ waking' = Poll
    /\ Ticks
    /\ UNCHANGED <<queue, leased, poll, asking, stopped, drains, unheard, faults>>

\* One transaction, which also ends the deliveries whose holder vanished, as far
\* as it comes upon them.
Claim ==
    /\ phase = "claiming"
    /\ \E taken \in SUBSET {j \in Free(status) : due[j] = 0} :
          LET ended == {j \in Owed \ Free(status) :
                           Cardinality(taken) < Batch \/ \E k \in taken : j < k}
          IN  /\ Oldest(taken, {j \in Free(status) : due[j] = 0})
              /\ status' = [j \in Jobs |-> IF j \in taken THEN "leased"
                                           ELSE IF j \in ended THEN "gone" ELSE status[j]]
              /\ leased' = taken
              /\ owed' = [c \in Callers |-> owed[c] \ ended]
    /\ phase' = "sorting"
    /\ UNCHANGED <<due, looks, attempted, timers, stopped, caller, unheard, faults>>

\* The pass is over: whoever waited for it is answered, and whoever waits for
\* another starts it.
Ends(s) ==
    /\ Asks(SinceLook(s, due), due)
    /\ leased' = {}
    /\ caller' = [c \in Callers |-> IF caller[c] = "queued" THEN "joined" ELSE "none"]
    /\ IF \E c \in Callers : caller[c] = "queued" THEN Begins
       ELSE phase' = "idle" /\ attempted' = {} /\ UNCHANGED looks

Again == leased \cap attempted

Released == [j \in Jobs |-> IF j \in Again THEN "free" ELSE status[j]]

\* What this pass has attempted already is put back.
Sort ==
    /\ phase = "sorting"
    /\ leased # Again
    /\ status' = Released
    /\ leased' = leased \ attempted
    /\ phase' = "performing"
    /\ UNCHANGED <<due, looks, attempted, timers, stopped, drains, unheard, faults>>

EndPass ==
    /\ phase = "sorting"
    /\ leased = Again
    /\ status' = Released
    /\ Ends(Released)
    /\ UNCHANGED <<due, poll, waking, stopped, owed, unheard, faults>>

\* The oldest of the batch; after the last of it, the runner looks again.
Performs(j) ==
    /\ phase = "performing"
    /\ j \in leased
    /\ \A k \in leased : j <= k
    /\ leased' = leased \ {j}
    /\ attempted' = attempted \cup {j}
    /\ phase' = IF leased' = {} THEN "claiming" ELSE phase
    /\ Done(j)
    /\ UNCHANGED <<timers, stopped, caller>>

\* It succeeds, or is given up on.
Concludes(j) ==
    /\ Performs(j)
    /\ status' = [status EXCEPT ![j] = "gone"]
    /\ IF leased' = {} THEN Looks(due) ELSE UNCHANGED looks
    /\ UNCHANGED <<due, unheard, faults>>

Fails(j, b) ==
    /\ Performs(j)
    /\ Fault
    /\ status' = [status EXCEPT ![j] = "free"]
    /\ due' = [due EXCEPT ![j] = b]
    /\ IF leased' = {} THEN Looks(due')
       ELSE Waits(j, b) /\ UNCHANGED moved
    /\ unheard' = unheard \ {j}

\* Its leases are left to lapse, and whoever waited for it is refused.
Throws ==
    /\ phase # "idle"
    /\ Fault
    /\ status' = [j \in Jobs |-> IF j \in leased THEN "left" ELSE status[j]]
    /\ Ends(status')
    /\ UNCHANGED <<due, poll, waking, stopped, owed, unheard>>

-----------------------------------------------------------------------------
\* It may be taken up again, but not by a claim made before.
LeaseLapses(j) ==
    /\ status[j] = "left"
    /\ status' = [status EXCEPT ![j] = "lapsed"]
    /\ passed' = passed \ {j}
    /\ UNCHANGED <<due, moved, pass, timers, stopped, drains, unheard, faults>>

Less(n) == IF n = 0 THEN 0 ELSE n - 1

Tick ==
    /\ Turns
    /\ due' = [j \in Jobs |-> Less(due[j])]
    /\ poll' = Less(poll)
    /\ waking' = IF waking = Poll THEN waking ELSE Less(waking)
    /\ moved' = TRUE
    /\ UNCHANGED <<status, passed, pass, asking, stopped, drains, unheard, faults>>

\* The pass under way goes on.
Stop ==
    /\ ~stopped
    /\ stopped' = TRUE
    /\ waking' = Poll
    /\ UNCHANGED <<queue, looks, pass, poll, asking, drains, unheard, faults>>

-----------------------------------------------------------------------------
Others ==
    \/ \E j \in Jobs, w \in Windows : Make(j, w)
    \/ \E j \in Jobs : Cancel(j)
    \/ \E c \in Callers : AskToDrain(c)
    \/ Stop

Passes ==
    \/ Claim \/ Sort \/ EndPass
    \/ \E j \in Jobs : Concludes(j) \/ \E b \in Backoffs : Fails(j, b)
    \/ Throws

Timers == PollFires \/ WakeFires \/ \E w \in asking : Answered(w)

Time == Tick \/ \E j \in Jobs : LeaseLapses(j)

Next == Others \/ Passes \/ Timers \/ Time

Spec == Init /\ [][Next]_vars

\* Time passes, however often a timer fires a moment early; the poll is an
\* interval's; a pass that has begun goes on; a lease lapses.
Fairness ==
    /\ SF_vars(Tick)
    /\ WF_vars(PollFires)
    /\ WF_vars(Claim \/ Sort \/ EndPass \/ \E j \in Jobs : Concludes(j))
    /\ \A w \in 0..Poll : WF_vars(Answered(w))
    /\ \A j \in Jobs : WF_vars(LeaseLapses(j))

FairSpec == Spec /\ Fairness

-----------------------------------------------------------------------------
TypeOK ==
    /\ status \in [Jobs -> Stages]
    /\ due \in [Jobs -> Nat]
    /\ passed \subseteq Jobs
    /\ moved \in BOOLEAN
    /\ phase \in {"idle", "claiming", "sorting", "performing"}
    /\ leased \subseteq Jobs
    /\ attempted \subseteq Jobs
    /\ poll \in 0..Poll
    /\ waking \in 0..Poll
    /\ asking \subseteq 0..Poll
    /\ stopped \in BOOLEAN
    /\ caller \in [Callers -> {"none", "queued", "joined"}]
    /\ owed \in [Callers -> SUBSET Jobs]
    /\ unheard \subseteq Jobs
    /\ faults \in 0..Faults

\* runner.ts, wake: a job waiting on a time is claimed when it comes due rather
\* than on whichever poll follows. Between passes some timer fires no later than
\* any such job is due, whatever came due, failed or was put back during a pass,
\* and however timers replaced one another or fired early. A job already due as
\* it is made has to wait for the poll.
Awaited ==
    phase = "idle" /\ asking = {} /\ ~stopped
        => \A j \in Free(status) \ (passed \cup unheard) :
              waking <= due[j] \/ poll <= due[j]

Blocked(j, S) == Cardinality({k \in S : k < j}) >= Batch

\* runner.ts, drain: whatever was due when it was asked, in hand or not, is done
\* when it is answered, asked in the middle of a pass or not. Two kinds of job
\* are left: one that a pass which threw left leased, until that lease lapses (a
\* fresh pass cannot claim it, and the drain is answered all the same), and one
\* behind as many older jobs as a batch holds, which failed in the pass and were
\* due again before its last look.
DrainDoes ==
    [][\A c \in Callers :
          caller[c] = "joined" /\ caller'[c] = "none" /\ faults' = faults
            => \A j \in owed[c] :
                  \/ status[j] = "left"
                  \/ status[j] = "lapsed" /\ j \notin passed
                  \/ Blocked(j, attempted)]_vars

\* runner.ts, stop: once it has been stopped and its pass has ended, nothing it
\* was waiting to hear sets a timer or starts another; only a drain starts one.
StoppedStays ==
    [][stopped /\ phase = "idle" /\ drains' = drains
        => phase' = "idle" /\ waking' = Poll]_vars

\* runner.ts: every job is attempted and ends, whatever threw, lapsed, failed or
\* came due at an awkward moment, while the runner runs.
EveryJobEnds ==
    \A j \in Jobs : status[j] = "free" ~> (status[j] = "gone" \/ stopped)
=============================================================================
