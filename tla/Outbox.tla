------------------------------- MODULE Outbox -------------------------------
(***************************************************************************)
(* What a client keeps of the changes it has not yet sent:                 *)
(* packages/client/src/outbox, over one store that several processes share *)
(* (two tabs, a shell and a command line), and the drains of client.ts.    *)
(*                                                                         *)
(* Every operation here is about one item. Those about others wait in      *)
(* chains of their own.                                                    *)
(***************************************************************************)
EXTENDS Naturals, Sequences, FiniteSets

CONSTANTS
    Processes,   \* the processes over one store
    Authors,     \* those a person acts in; the others only drain
    Operations,  \* bound: operations ever made, numbered as their ids sort
    Regretted,   \* bound: those a person may take back
    Carrying,    \* edits that may have tags to be added once they have landed
    Faults,      \* bound: answers lost or later than the lease, failures of the
                 \* store, and processes that died
    Nothing      \* no operation

ASSUME OutboxAssumption ==
    /\ Authors \subseteq Processes
    /\ Operations \subseteq Nat
    /\ IsFiniteSet(Operations)
    /\ Regretted \subseteq Operations
    /\ Carrying \subseteq Operations
    /\ Nothing \notin Operations
    /\ Faults \in Nat

VARIABLES
    store,      \* what the store holds of each operation
    held,       \* what each process holds of it
    restored,   \* those a process read out of the store
    seen,       \* those a process has ever held
    writing,    \* a process's write of an entry on its way to the store
    leaving,    \* those a process is dropping
    recalled,   \* those taken back while handed over
    queue,      \* those handed over to be sent, in order
    work,       \* the one being sent, and how far that is
    drain,      \* where each process's drain is
    attempted,  \* those this drain has taken up
    rejected,   \* the processes whose chain ended in a failure of the store
    up,         \* the processes that run
    faults,     \* faults left
    made,       \* history: operations made
    accepted,   \* history: those whose enqueue could be answered
    settled,    \* history: those whose landing a process was told of
    gone,       \* history: those a person took back or dismissed
    overran,    \* history: those whose lease ran out under a process sending them
    misfiled,   \* history: those landed, and put down as refused
    owed,       \* history: edits landed whose tags are not yet kept
    cutShort    \* history: those among them whose process died

own == <<restored, seen, recalled, queue, work, drain, attempted, rejected>>
fate == <<settled, gone, overran, misfiled, owed, cutShort>>
vars == <<store, held, own, writing, leaving, up, faults, made, accepted, fate>>

Waiting == {"pending", "unreachable", "lapsed"}

States == Waiting \cup {"none", "sending", "refused"}

Phases == {"idle", "begun", "asked", "recording", "carrying"}

Idle == [op |-> Nothing, phase |-> "idle", next |-> Nothing]

Init ==
    /\ store = [o \in Operations |-> "none"]
    /\ held = [p \in Processes |-> [o \in Operations |-> "none"]]
    /\ restored = [p \in Processes |-> {}]
    /\ seen = [p \in Processes |-> {}]
    /\ writing = [p \in Processes |-> [o \in Operations |-> "none"]]
    /\ leaving = [p \in Processes |-> {}]
    /\ recalled = [p \in Processes |-> {}]
    /\ queue = [p \in Processes |-> <<>>]
    /\ work = [p \in Processes |-> Idle]
    /\ drain = [p \in Processes |-> "idle"]
    /\ attempted = [p \in Processes |-> {}]
    /\ rejected = {}
    /\ up = Processes
    /\ faults = Faults
    /\ made = {}
    /\ accepted = {}
    /\ settled = {}
    /\ gone = {}
    /\ overran = {}
    /\ misfiled = {}
    /\ owed = {}
    /\ cutShort = {}

-----------------------------------------------------------------------------
(* What is asked of an entry.                                               *)

HandedOver(p) == {queue[p][n] : n \in 1..Len(queue[p])} \cup {work[p].op}

\* (Faulty.) A lease nobody ended is left alone for good.
AttemptableWhenFree(state) == state \in {"pending", "unreachable"}

\* (Faulty.) A lease is no reason to wait.
AttemptableAtOnce(state) == state \in Waiting \cup {"sending"}

\* Pending, unreachable, or being sent under a lease that has lapsed.
Attemptable(state) == state \in Waiting

\* (Faulty.) Latest first.
LatestFirst(q) == \A m, n \in DOMAIN q : m < n => q[m] > q[n]

\* As the outbox lists them.
InOrder(q) == \A m, n \in DOMAIN q : m < n => q[m] < q[n]

\* Past the lease, and not yet done with.
Sends(p, o) == work[p].op = o /\ work[p].phase \notin {"idle", "begun"}

\* It has landed, and the tags of it are on their way into the store.
Carries(p, o) == work[p].op = o /\ work[p].phase = "carrying"

Has(p, o, state) == held' = [held EXCEPT ![p][o] = state]

\* Ids sort as operations were made.
Fresh(o) == o \notin made /\ \A earlier \in Operations : earlier < o => earlier \in made

Untried(p) == {o \in Operations : o \notin HandedOver(p) \cup attempted[p]}

Rest(p) == queue[p] = <<>> /\ work[p] = Idle

\* A drain waits for its chains until none is left. One that a failure of the
\* store ended stays, and answers every wait at once: nothing else gets a turn.
Hung(p) ==
    /\ p \in rejected
    /\ drain[p] = "looping"
    /\ Rest(p)
    /\ \A o \in Untried(p) : ~Attemptable(held[p][o])

Fault == faults > 0 /\ faults' = faults - 1

-----------------------------------------------------------------------------
(* Making an operation, and taking one back.                                *)

\* Held at once, before the store has it.
Enqueue(p, o) ==
    /\ p \in up
    /\ ~Hung(p)
    /\ Fresh(o)
    /\ made' = made \cup {o}
    /\ Has(p, o, "pending")
    /\ seen' = [seen EXCEPT ![p] = @ \cup {o}]
    /\ writing' = [writing EXCEPT ![p][o] = "pending"]
    /\ UNCHANGED <<store, restored, recalled, queue, work, drain, attempted, rejected,
                   leaving, up, faults, accepted, fate>>

TakesBack(p, o) ==
    /\ p \in up
    /\ ~Hung(p)
    /\ o \in Regretted
    /\ o \notin leaving[p]
    /\ leaving' = [leaving EXCEPT ![p] = @ \cup {o}]
    /\ restored' = [restored EXCEPT ![p] = @ \ {o}]
    /\ gone' = gone \cup {o}
    /\ UNCHANGED <<store, held, seen, queue, work, drain, attempted, rejected, writing, up,
                   faults, made, accepted, settled, overran, misfiled, owed, cutShort>>

\* An operation that undoes this one replaces it, and neither is sent.
Oppose(p, o) ==
    /\ held[p][o] \in {"pending", "unreachable", "refused"}
    /\ o \notin HandedOver(p)
    /\ TakesBack(p, o)
    /\ UNCHANGED recalled

\* One that waits its turn is let go of when it comes.
Told(p, o) ==
    recalled' = IF o \in HandedOver(p) THEN [recalled EXCEPT ![p] = @ \cup {o}] ELSE recalled

Recall(p, o) ==
    /\ held[p][o] \in {"pending", "unreachable"}
    /\ work[p].op # o
    /\ TakesBack(p, o)
    /\ Told(p, o)

\* A person has read what the pool said.
Dismiss(p, o) ==
    /\ held[p][o] = "refused"
    /\ TakesBack(p, o)
    /\ UNCHANGED recalled

\* (Faulty.) The removal does not wait for a write of the entry.
Anyhow(p, o) == TRUE

\* Every write of the entry has reached the store, or failed to.
Stored(p, o) == writing[p][o] = "none"

\* Behind every write of it, so that none brings it back.
Remove(p, o) ==
    /\ o \in leaving[p]
    /\ ~Hung(p)
    /\ Stored(p, o)
    /\ store' = [store EXCEPT ![o] = "none"]
    /\ Has(p, o, "none")
    /\ leaving' = [leaving EXCEPT ![p] = @ \ {o}]
    /\ UNCHANGED <<own, writing, up, faults, made, accepted, fate>>

-----------------------------------------------------------------------------
(* The store's half.                                                        *)

\* What a send waits for: the write of what has become of its operation, or of
\* the tags that operation carried.
Awaits(p, o) ==
    \/ work[p].phase = "recording" /\ work[p].op = o
    \/ work[p].phase = "carrying" /\ work[p].next = o

WriteLands(p, o) ==
    /\ writing[p][o] # "none"
    /\ store' = [store EXCEPT ![o] = writing[p][o]]
    /\ writing' = [writing EXCEPT ![p][o] = "none"]
    /\ accepted' = accepted \cup {o}
    /\ IF Awaits(p, o) THEN /\ work' = [work EXCEPT ![p] = Idle]
                            /\ owed' = IF Carries(p, work[p].op) THEN owed \ {work[p].op} ELSE owed
                       ELSE UNCHANGED <<work, owed>>
    /\ UNCHANGED <<held, restored, seen, recalled, queue, drain, attempted, rejected, leaving,
                   up, faults, made, settled, gone, overran, misfiled, cutShort>>

\* An operation the store could not hold was never made.
WriteFails(p, o) ==
    /\ writing[p][o] = "pending"
    /\ ~Awaits(p, o)
    /\ ~Hung(p)
    /\ Fault
    /\ writing' = [writing EXCEPT ![p][o] = "none"]
    /\ IF o \in leaving[p] THEN UNCHANGED held ELSE Has(p, o, "none")
    /\ UNCHANGED <<store, own, leaving, up, made, accepted, fate>>

\* Nothing holds a process to its lease: one send is several requests, of up to
\* half a lease each.
LeaseLapses(o) ==
    /\ store[o] = "sending"
    /\ IF \E p \in Processes : Sends(p, o)
       THEN Fault /\ overran' = overran \cup {o}
       ELSE UNCHANGED <<faults, overran>>
    /\ store' = [store EXCEPT ![o] = "lapsed"]
    /\ held' = [p \in Processes |->
                   [held[p] EXCEPT ![o] = IF @ = "sending" THEN "lapsed" ELSE @]]
    /\ UNCHANGED <<own, writing, leaving, up, made, accepted, settled, gone, misfiled, owed,
                   cutShort>>

-----------------------------------------------------------------------------
(* A drain.                                                                 *)

Takes(p, S) ==
    /\ \E q \in [1..Cardinality(S) -> S] : InOrder(q) /\ queue' = [queue EXCEPT ![p] = @ \o q]
    /\ attempted' = [attempted EXCEPT ![p] = @ \cup S]
    /\ rejected' = IF S = {} THEN rejected ELSE rejected \ {p}

Moves(p, phase) == drain' = [drain EXCEPT ![p] = phase]

\* What this process made is handed over before anything yields. A drain of
\* nothing, which changes nothing, is left out.
StartDrain(p) ==
    /\ p \in up
    /\ drain[p] = "idle"
    /\ \E o \in Operations : Attemptable(held[p][o]) \/ store[o] \notin {"none", held[p][o]}
    /\ Takes(p, {o \in Untried(p) \ restored[p] : Attemptable(held[p][o])})
    /\ Moves(p, "reading")
    /\ UNCHANGED <<store, held, restored, seen, recalled, work, writing, leaving, up, faults,
                   made, accepted, fate>>

\* Of what was read from the store, what it says now; what another process has
\* made since is taken up.
Reconcile(p) ==
    /\ drain[p] = "reading"
    /\ LET theirs == restored[p] \ HandedOver(p)
           added == {o \in Operations : store[o] # "none"} \ seen[p]
           now == [o \in Operations |-> IF o \in theirs \cup added THEN store[o] ELSE held[p][o]]
       IN  /\ held' = [held EXCEPT ![p] = now]
           /\ restored' = [restored EXCEPT ![p] =
                              {o \in @ : o \in theirs => store[o] # "none"} \cup added]
           /\ seen' = [seen EXCEPT ![p] = @ \cup added]
           /\ Takes(p, {o \in Untried(p) : Attemptable(now[o])})
    /\ Moves(p, "looping")
    /\ UNCHANGED <<store, recalled, work, writing, leaving, up, faults, made, accepted, fate>>

\* The store did not say: the drain goes by what the process holds.
ReadFails(p) ==
    /\ drain[p] = "reading"
    /\ Fault
    /\ Takes(p, {o \in Untried(p) : Attemptable(held[p][o])})
    /\ Moves(p, "looping")
    /\ UNCHANGED <<store, held, restored, seen, recalled, work, writing, leaving, up,
                   made, accepted, fate>>

\* What was made while the drain ran still goes.
Rescan(p) ==
    /\ drain[p] = "looping"
    /\ Rest(p)
    /\ \E o \in Untried(p) : Attemptable(held[p][o])
    /\ Takes(p, {o \in Untried(p) : Attemptable(held[p][o])})
    /\ UNCHANGED <<store, held, restored, seen, recalled, work, drain, writing, leaving, up,
                   faults, made, accepted, fate>>

EndDrain(p) ==
    /\ drain[p] = "looping"
    /\ Rest(p)
    /\ p \notin rejected
    /\ \A o \in Untried(p) : ~Attemptable(held[p][o])
    /\ Moves(p, "idle")
    /\ attempted' = [attempted EXCEPT ![p] = {}]
    /\ UNCHANGED <<store, held, restored, seen, recalled, queue, work, rejected, writing,
                   leaving, up, faults, made, accepted, fate>>

-----------------------------------------------------------------------------
(* Sending, one after another.                                              *)

Doing(p, o, phase) ==
    work' = [work EXCEPT ![p] = [op |-> o, phase |-> phase, next |-> Nothing]]

Finished(p) == work' = [work EXCEPT ![p] = Idle]

\* The store failed a send: what is queued behind it goes all the same, and what
\* nothing is queued behind leaves its chain as it ended.
Breaks(p) ==
    /\ Finished(p)
    /\ rejected' = IF queue[p] = <<>> THEN rejected \cup {p} ELSE rejected

Take(p) ==
    /\ queue[p] # <<>>
    /\ work[p] = Idle
    /\ queue' = [queue EXCEPT ![p] = Tail(@)]
    /\ LET o == Head(queue[p])
       IN  /\ recalled' = [recalled EXCEPT ![p] = @ \ {o}]
           /\ IF o \in recalled[p] THEN UNCHANGED work ELSE Doing(p, o, "begun")
    /\ UNCHANGED <<store, held, restored, seen, drain, attempted, rejected, writing, leaving,
                   up, faults, made, accepted, fate>>

\* (Faulty.) The lease is written whatever the store says.
LeasableAnyway(o) == store[o] # "none"

\* One transaction: of two processes that ask at once, one is answered.
Leasable(o) == Attemptable(store[o])

Lease(p) ==
    LET o == work[p].op
    IN  /\ work[p].phase = "begun"
        /\ Stored(p, o)
        /\ o \notin leaving[p]
        /\ Leasable(o)
        /\ store' = [store EXCEPT ![o] = "sending"]
        /\ Has(p, o, "sending")
        /\ Doing(p, o, "asked")
        /\ UNCHANGED <<restored, seen, recalled, queue, drain, attempted, rejected, writing,
                       leaving, up, faults, made, accepted, fate>>

\* Another process has it, or has landed it: the store's word is taken.
LoseLease(p) ==
    LET o == work[p].op
    IN  /\ work[p].phase = "begun"
        /\ Stored(p, o)
        /\ o \notin leaving[p]
        /\ ~Leasable(o)
        /\ Has(p, o, store[o])
        /\ restored' = [restored EXCEPT ![p] =
                           IF store[o] = "none" THEN @ \ {o} ELSE @ \cup {o}]
        /\ Finished(p)
        /\ UNCHANGED <<store, seen, recalled, queue, drain, attempted, rejected, writing,
                       leaving, up, faults, made, accepted, fate>>

\* The store does not lease it, or does not say who has. It keeps its entry.
LeaseFails(p) ==
    LET o == work[p].op
    IN  /\ work[p].phase = "begun"
        /\ Stored(p, o)
        /\ o \notin leaving[p]
        /\ Fault
        /\ Breaks(p)
        /\ UNCHANGED <<store, held, restored, seen, recalled, queue, drain, attempted, writing,
                       leaving, up, made, accepted, fate>>

Lands(p) ==
    LET o == work[p].op
    IN  /\ work[p].phase = "asked"
        /\ restored' = [restored EXCEPT ![p] = @ \ {o}]
        /\ settled' = settled \cup {o}
        /\ UNCHANGED <<recalled, queue, drain, attempted, rejected, leaving, up, accepted, gone,
                       overran, cutShort>>

\* The pool has carried it out, or had before.
Settle(p) ==
    LET o == work[p].op
    IN  /\ Lands(p)
        /\ store' = [store EXCEPT ![o] = "none"]
        /\ Has(p, o, "none")
        /\ Finished(p)
        /\ UNCHANGED <<seen, writing, faults, made, misfiled, owed>>

\* What it leaves to be sent next, one operation for all its tags, is enqueued
\* when its own entry is out.
SettleCarrying(p, n) ==
    LET o == work[p].op
    IN  /\ Lands(p)
        /\ o \in Carrying
        /\ Fresh(n)
        /\ store' = [store EXCEPT ![o] = "none"]
        /\ held' = [held EXCEPT ![p][o] = "none", ![p][n] = "pending"]
        /\ made' = made \cup {n}
        /\ seen' = [seen EXCEPT ![p] = @ \cup {n}]
        /\ writing' = [writing EXCEPT ![p][n] = "pending"]
        /\ work' = [work EXCEPT ![p] = [op |-> o, phase |-> "carrying", next |-> n]]
        /\ owed' = owed \cup {o}
        /\ UNCHANGED <<faults, misfiled>>

\* Its entry does not leave the store, or the bytes it claimed do not. That is
\* put down as the pool's refusal would be.
SettleFails(p) ==
    LET o == work[p].op
    IN  /\ Lands(p)
        /\ Fault
        /\ \E left \in {store[o], "none"} : store' = [store EXCEPT ![o] = left]
        /\ Has(p, o, "refused")
        /\ writing' = [writing EXCEPT ![p][o] = "refused"]
        /\ Doing(p, o, "recording")
        /\ misfiled' = misfiled \cup {o}
        /\ UNCHANGED <<seen, made, owed>>

\* So is a failure to keep the tags.
CarryFails(p) ==
    LET o == work[p].op
        n == work[p].next
    IN  /\ work[p].phase = "carrying"
        /\ Fault
        /\ held' = [held EXCEPT ![p][o] = "refused",
                                ![p][n] = IF n \in leaving[p] THEN @ ELSE "none"]
        /\ writing' = [writing EXCEPT ![p][o] = "refused", ![p][n] = "none"]
        /\ Doing(p, o, "recording")
        /\ misfiled' = misfiled \cup {o}
        /\ owed' = owed \ {o}
        /\ UNCHANGED <<store, restored, seen, recalled, queue, drain, attempted, rejected,
                       leaving, up, made, accepted, settled, gone, overran, cutShort>>

Record(p, state) ==
    LET o == work[p].op
    IN  /\ Has(p, o, state)
        /\ writing' = [writing EXCEPT ![p][o] = state]
        /\ Doing(p, o, "recording")
        /\ UNCHANGED <<store, restored, seen, recalled, queue, drain, attempted, rejected,
                       leaving, up, made, accepted, fate>>

\* What became of it could not be written down: the store has it as being sent.
RecordFails(p) ==
    LET o == work[p].op
    IN  /\ work[p].phase = "recording"
        /\ Fault
        /\ writing' = [writing EXCEPT ![p][o] = "none"]
        /\ Breaks(p)
        /\ UNCHANGED <<store, held, restored, seen, recalled, queue, drain, attempted,
                       leaving, up, made, accepted, fate>>

\* The pool will not have it, which a person has to hear.
Refuse(p) ==
    /\ work[p].phase = "asked"
    /\ Record(p, "refused")
    /\ UNCHANGED faults

\* (Faulty.) Silence is read as a refusal nobody needs to hear of.
Discard(p) ==
    LET o == work[p].op
    IN  /\ store' = [store EXCEPT ![o] = "none"]
        /\ Has(p, o, "none")
        /\ Finished(p)
        /\ UNCHANGED <<restored, seen, recalled, queue, drain, attempted, rejected, writing,
                       leaving, up, made, accepted, fate>>

\* What the pool has said or done of it is not known.
Park(p) == Record(p, "unreachable")

NoAnswer(p) ==
    /\ work[p].phase = "asked"
    /\ Fault
    /\ Park(p)

-----------------------------------------------------------------------------
(* A process dies, its writes landed or not, and is started again.          *)

Blank(f, p) == [f EXCEPT ![p] = {}]

\* One whose chain was rejected is ended by a runtime that ends a process for
\* that, or by whoever finds it frozen.
Crash(p) ==
    /\ p \in up
    /\ Fault \/ (p \in rejected /\ UNCHANGED faults)
    /\ up' = up \ {p}
    /\ \E S \in SUBSET {o \in Operations : writing[p][o] # "none"} :
          LET cut == {o \in Operations : Carries(p, o)}
          IN  /\ store' = [o \in Operations |-> IF o \in S THEN writing[p][o] ELSE store[o]]
              /\ accepted' = accepted \cup S
              /\ IF work[p].next \in S
                 THEN owed' = owed \ cut /\ UNCHANGED cutShort
                 ELSE cutShort' = cutShort \cup cut /\ UNCHANGED owed
    /\ writing' = [writing EXCEPT ![p] = [o \in Operations |-> "none"]]
    /\ held' = [held EXCEPT ![p] = [o \in Operations |-> "none"]]
    /\ restored' = Blank(restored, p)
    /\ seen' = Blank(seen, p)
    /\ recalled' = Blank(recalled, p)
    /\ attempted' = Blank(attempted, p)
    /\ leaving' = Blank(leaving, p)
    /\ queue' = [queue EXCEPT ![p] = <<>>]
    /\ rejected' = rejected \ {p}
    /\ Finished(p)
    /\ Moves(p, "idle")
    /\ UNCHANGED <<made, settled, gone, overran, misfiled>>

\* The outbox is read back before anything else is done.
Start(p) ==
    LET stored == {o \in Operations : store[o] # "none"}
    IN  /\ p \notin up
        /\ up' = up \cup {p}
        /\ held' = [held EXCEPT ![p] = store]
        /\ restored' = [restored EXCEPT ![p] = stored]
        /\ seen' = [seen EXCEPT ![p] = stored]
        /\ UNCHANGED <<store, recalled, queue, work, drain, attempted, rejected, writing,
                       leaving, faults, made, accepted, fate>>

-----------------------------------------------------------------------------
Persons ==
    \E p \in Authors, o \in Operations :
        Enqueue(p, o) \/ Oppose(p, o) \/ Recall(p, o) \/ Dismiss(p, o)

Stores ==
    \/ \E p \in Processes, o \in Operations : Remove(p, o) \/ WriteLands(p, o) \/ WriteFails(p, o)
    \/ \E o \in Operations : LeaseLapses(o)

Drains ==
    \E p \in Processes :
        StartDrain(p) \/ Reconcile(p) \/ ReadFails(p) \/ Rescan(p) \/ EndDrain(p)

Sending ==
    \E p \in Processes :
        \/ Take(p) \/ Lease(p) \/ LoseLease(p) \/ LeaseFails(p)
        \/ Settle(p) \/ (\E n \in Operations : SettleCarrying(p, n))
        \/ SettleFails(p) \/ CarryFails(p)
        \/ Refuse(p) \/ NoAnswer(p) \/ RecordFails(p)

Lives == \E p \in Processes : Crash(p) \/ Start(p)

Next == Persons \/ Stores \/ Drains \/ Sending \/ Lives

Spec == Init /\ [][Next]_vars

\* A drain runs on every change, on the pool's return and when a lease lapses;
\* a request ends within its timeout; and the client is opened again.
Fairness ==
    /\ \A p \in Processes :
          /\ WF_vars(Start(p))
          /\ WF_vars(StartDrain(p))
          /\ WF_vars(Reconcile(p))
          /\ WF_vars(Rescan(p) \/ EndDrain(p))
          /\ WF_vars(Take(p))
          /\ WF_vars(Lease(p) \/ LoseLease(p))
          /\ WF_vars(Settle(p) \/ Refuse(p))
          /\ \A o \in Operations : WF_vars(Remove(p, o)) /\ WF_vars(WriteLands(p, o))
    /\ \A o \in Operations : WF_vars(LeaseLapses(o))

FairSpec == Spec /\ Fairness

-----------------------------------------------------------------------------
TypeOK ==
    /\ store \in [Operations -> States]
    /\ held \in [Processes -> [Operations -> States]]
    /\ restored \in [Processes -> SUBSET Operations]
    /\ seen \in [Processes -> SUBSET Operations]
    /\ writing \in [Processes -> [Operations -> {"none", "pending", "unreachable", "refused"}]]
    /\ leaving \in [Processes -> SUBSET Operations]
    /\ recalled \in [Processes -> SUBSET Operations]
    /\ queue \in [Processes -> Seq(Operations)]
    /\ work \in [Processes -> [op : Operations \cup {Nothing}, phase : Phases,
                               next : Operations \cup {Nothing}]]
    /\ drain \in [Processes -> {"idle", "reading", "looping"}]
    /\ attempted \in [Processes -> SUBSET Operations]
    /\ rejected \subseteq Processes
    /\ up \subseteq Processes
    /\ faults \in 0..Faults
    /\ made \subseteq Operations
    /\ accepted \subseteq Operations
    /\ settled \subseteq Operations
    /\ gone \subseteq Operations
    /\ overran \subseteq Operations
    /\ misfiled \subseteq Operations
    /\ owed \subseteq Operations
    /\ cutShort \subseteq Operations

\* client.md: work a person was told is kept is never lost. The store holds it
\* until the pool has carried it out or somebody has taken it back, through
\* deaths, lost and late answers, a store that fails and processes that reach
\* for it together. Of an edit that carried tags, its process is at them until
\* they are kept too, or the edit is put down as refused, unless it dies first.
NothingLost ==
    /\ \A o \in accepted \ (settled \cup gone) : store[o] # "none"
    /\ \A o \in owed \ cutShort : \E p \in Processes : Carries(p, o)

\* operations.ts, until: while the lease on an operation runs, no process but
\* the one that has it asks the pool, writes it down or follows it up. Two do
\* only with an operation whose lease ran out under its sender.
OneSender ==
    \A p, q \in Processes, o \in Operations \ overran :
        Sends(p, o) /\ Sends(q, o) => p = q

\* client.md: a write of it still on its way cannot bring back what a session has
\* taken back. Only a process that was sending it then writes it down again.
RetractedStaysOut ==
    [][\A o \in gone :
          /\ \A p \in Processes : o \notin leaving[p]
          /\ store[o] = "none" /\ store'[o] # "none"
          => \E q \in Processes : Sends(q, o)]_vars

\* outbox.ts, chain: while an operation still waits its first turn, none that
\* the same session made after it goes to the pool. Its turn is over, for this
\* drain, when the store fails it then.
OrderKept ==
    [][\A p \in Processes, later, earlier \in Operations :
          /\ Sends(p, later)' /\ ~Sends(p, later)
          /\ earlier < later
          /\ {earlier, later} \subseteq seen[p] \ restored[p]
          /\ held[p][earlier] = "pending"
          => earlier \in leaving[p] \cup (attempted[p] \ HandedOver(p))]_vars

\* client.md: an operation whose landing a process was told of has left the
\* outbox for good: no write on its way, and no other process, brings it back.
\* Left out are one whose lease ran out under its sender, which whoever is told
\* less may write down again, and one whose own process failed to take it out.
LandedStaysOut == \A o \in settled \ (overran \cup misfiled) : store[o] = "none"

\* client.md: every operation the store took is in the end sent and answered, or
\* taken back: no process's death, stale copy, lost answer or failing store
\* leaves it there, while a process is left that neither a rejected chain has
\* frozen nor holds it as refused.
EveryOperationEnds ==
    \A o \in Operations :
        (store[o] \in Waiting \cup {"sending"})
        ~> (\/ store[o] \in {"none", "refused"}
           \/ \A p \in Processes : Hung(p) \/ held[p][o] = "refused")
=============================================================================
