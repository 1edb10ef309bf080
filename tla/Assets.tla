------------------------------- MODULE Assets -------------------------------
(***************************************************************************)
(* Attachments: packages/core/src/pool/{assets,maintenance,payload}.ts and *)
(* routing/output.ts over the blob store of packages/adapters/blob-fs and  *)
(* the write lock of packages/adapters/store-sqlite.                       *)
(*                                                                         *)
(* Bytes are put outside every transaction, and named inside one.  A       *)
(* transaction that only touches the database is one action, for the lock  *)
(* lets nothing in between; one that waits on the blob store is a step for *)
(* each wait.  A time is kept as whether the grace window has passed it.   *)
(***************************************************************************)
EXTENDS Integers

CONSTANTS
    Blobs,        \* contents, and so the hashes they are stored under
    Assets,       \* ids of assets, minted by whoever uploads
    Records,      \* routing records, each of which may keep one output
    Items,        \* ids of captured items
    Namers,       \* uploads and landings under way
    MaxTimeouts,  \* bound: transactions that outlast the write lock's timeout
    MaxCrashes,   \* bound: times the host dies
    NoBlob,       \* names nothing
    Nobody        \* the lock is free

Names == Assets \cup Records

\* What runs a transaction that waits on the blob store.
Reclaim == "reclaim"

ASSUME AssetsAssumption ==
    /\ MaxTimeouts \in Nat
    /\ MaxCrashes \in Nat
    /\ NoBlob \notin Blobs
    /\ Assets \cap Records = {}
    /\ NoBlob \notin Names
    /\ Nobody \notin Namers
    /\ Reclaim \notin Namers
    /\ Nobody # Reclaim

VARIABLES
    blobs,     \* each blob's file: when it was last put, if it is there
    names,     \* the blob each asset and each record's output names
    aged,      \* the assets stored longer than the grace window ago
    landed,    \* the records whose delivery has landed
    items,     \* the items stored
    refs,      \* the assets each one refers to
    lock,      \* whose transaction is running
    phase,     \* where each upload or landing stands
    naming,    \* what it is to name a blob for
    carries,   \* the blob it put
    walk,      \* where the reclaim stands
    looking,   \* the blob it is asking about
    left,      \* the blobs it has yet to look at
    stray,     \* reclaim callbacks still running after their transaction ended
    timeouts,
    crashes

storeVars == <<names, aged, landed, items, refs>>
namerVars == <<phase, naming, carries>>
walkVars  == <<walk, looking, left>>
faultVars == <<stray, timeouts, crashes>>
vars == <<blobs, storeVars, lock, namerVars, walkVars, faultVars>>

Named(b) == \E n \in Names : names[n] = b

Stored(a) == names[a] # NoBlob

Referenced(a) == \E i \in items : a \in refs[i]

Init ==
    /\ blobs = [b \in Blobs |-> "absent"]
    /\ names = [n \in Names |-> NoBlob]
    /\ aged = {}
    /\ landed = {}
    /\ items = {}
    /\ refs = [i \in Items |-> {}]
    /\ lock = Nobody
    /\ phase = [t \in Namers |-> "idle"]
    /\ naming = [t \in Namers |-> NoBlob]
    /\ carries = [t \in Namers |-> NoBlob]
    /\ walk = "idle"
    /\ looking = NoBlob
    /\ left = {}
    /\ stray = {}
    /\ timeouts = 0
    /\ crashes = 0

-----------------------------------------------------------------------------
(* Items.  Whether an edit amends or revises is Delivery's; a revision is    *)
(* stored as a capture is.                                                  *)

\* (Faulty.) What a payload names is taken on its word.
AnyAssets(named) == TRUE

\* Every asset a payload names is stored, asked in the transaction that keeps it.
AssetsKnown(named) == \A a \in named : Stored(a)

Capture(i, named) ==
    /\ lock = Nobody
    /\ i \notin items
    /\ AssetsKnown(named)
    /\ items' = items \cup {i}
    /\ refs' = [refs EXCEPT ![i] = named]
    /\ UNCHANGED <<blobs, names, aged, landed, lock, namerVars, walkVars, faultVars>>

Amend(i, named) ==
    /\ lock = Nobody
    /\ i \in items
    /\ AssetsKnown(named)
    /\ refs' = [refs EXCEPT ![i] = named]
    /\ UNCHANGED <<blobs, names, aged, landed, items, lock, namerVars, walkVars, faultVars>>

-----------------------------------------------------------------------------
(* Naming a blob: an upload, and a landing that keeps an output.            *)

Rest(t) ==
    /\ phase' = [phase EXCEPT ![t] = "idle"]
    /\ naming' = [naming EXCEPT ![t] = NoBlob]
    /\ carries' = [carries EXCEPT ![t] = NoBlob]

\* Bytes already held are left where they are, and only their time moves.  No
\* transaction is open, so this may come between any two steps of one.
Put(t, n, b) ==
    /\ phase[t] = "idle"
    /\ blobs' = [blobs EXCEPT ![b] = "recent"]
    /\ phase' = [phase EXCEPT ![t] = "put"]
    /\ naming' = [naming EXCEPT ![t] = n]
    /\ carries' = [carries EXCEPT ![t] = b]
    /\ UNCHANGED <<storeVars, lock, walkVars, faultVars>>

\* Already stored, an id that names other bytes, or a lease that was lost.
NothingToName(t) ==
    /\ phase[t] = "put"
    /\ lock = Nobody
    /\ naming[t] \in Assets => Stored(naming[t])
    /\ Rest(t)
    /\ UNCHANGED <<blobs, storeVars, lock, walkVars, faultVars>>

OpenNaming(t) ==
    /\ phase[t] = "put"
    /\ lock = Nobody
    /\ IF naming[t] \in Assets THEN ~Stored(naming[t]) ELSE naming[t] \notin landed
    /\ lock' = t
    /\ phase' = [phase EXCEPT ![t] = "checking"]
    /\ UNCHANGED <<blobs, storeVars, naming, carries, walkVars, faultVars>>

Land(n) == landed' = IF n \in Records THEN landed \cup {n} ELSE landed

\* A reclaim took the bytes: an upload is refused, a landing is recorded
\* without its output.
FindGone(t) ==
    /\ phase[t] = "checking"
    /\ blobs[carries[t]] = "absent"
    /\ Land(naming[t])
    /\ Rest(t)
    /\ lock' = Nobody
    /\ UNCHANGED <<blobs, names, aged, items, refs, walkVars, faultVars>>

\* (Faulty.) That the bytes were put is taken for their being there.
FindPut(t) ==
    /\ phase[t] = "checking"
    /\ phase' = [phase EXCEPT ![t] = "found"]
    /\ UNCHANGED <<blobs, storeVars, lock, naming, carries, walkVars, faultVars>>

Find(t) ==
    /\ phase[t] = "checking"
    /\ blobs[carries[t]] # "absent"
    /\ phase' = [phase EXCEPT ![t] = "found"]
    /\ UNCHANGED <<blobs, storeVars, lock, naming, carries, walkVars, faultVars>>

Name(t) ==
    /\ phase[t] = "found"
    /\ names' = [names EXCEPT ![naming[t]] = carries[t]]
    /\ aged' = aged \ {naming[t]}
    /\ Land(naming[t])
    /\ Rest(t)
    /\ lock' = Nobody
    /\ UNCHANGED <<blobs, items, refs, walkVars, faultVars>>

-----------------------------------------------------------------------------
(* Maintenance.                                                             *)

\* (Faulty.) An asset is swept for its age alone.
SweepableByAge == {a \in Assets : Stored(a) /\ a \in aged}

Sweepable == {a \in Assets : Stored(a) /\ a \in aged /\ ~Referenced(a)}

\* One run takes no more than it has room for: any part of what it may take,
\* for which are the oldest is not kept.
Sweep(released) ==
    /\ lock = Nobody
    /\ released # {}
    /\ released \subseteq Sweepable
    /\ names' = [n \in Names |-> IF n \in released THEN NoBlob ELSE names[n]]
    /\ aged' = aged \ released
    /\ UNCHANGED <<blobs, landed, items, refs, lock, namerVars, walkVars, faultVars>>

\* What the grace window had not passed when a walk began it never takes.
StartWalk ==
    /\ walk = "idle"
    /\ walk' = "walking"
    /\ left' = {b \in Blobs : blobs[b] = "old"}
    /\ UNCHANGED <<blobs, storeVars, lock, namerVars, looking, faultVars>>

\* Asked without the lock, of what is committed.
PassOver(b) ==
    /\ walk = "walking"
    /\ b \in left
    /\ blobs[b] # "old" \/ Named(b)
    /\ left' = left \ {b}
    /\ UNCHANGED <<blobs, storeVars, lock, namerVars, walk, looking, faultVars>>

LookAt(b) ==
    /\ walk = "walking"
    /\ b \in left
    /\ blobs[b] = "old"
    /\ ~Named(b)
    /\ walk' = "waiting"
    /\ looking' = b
    /\ left' = left \ {b}
    /\ UNCHANGED <<blobs, storeVars, lock, namerVars, faultVars>>

\* (Faulty.) The walk goes on without letting go of the blob.
WalkOnStill ==
    /\ walk' = "walking"
    /\ UNCHANGED <<looking, left>>

WalkOn ==
    /\ walk' = "walking"
    /\ looking' = NoBlob
    /\ UNCHANGED left

\* (Faulty.) Whether anything names the blob is not asked again.
AskNothing ==
    /\ walk = "waiting"
    /\ lock = Nobody
    /\ walk' = "asking"
    /\ lock' = Reclaim
    /\ UNCHANGED <<blobs, storeVars, namerVars, looking, left, faultVars>>

\* (Faulty.) A transaction begins without waiting for the one under way.
AskAtOnce ==
    /\ walk = "waiting"
    /\ ~Named(looking)
    /\ walk' = "asking"
    /\ lock' = Reclaim
    /\ UNCHANGED <<blobs, storeVars, namerVars, looking, left, faultVars>>

\* Asked again under the lock, and then when it was last put.
Ask ==
    /\ walk = "waiting"
    /\ lock = Nobody
    /\ IF Named(looking)
       THEN WalkOn /\ UNCHANGED lock
       ELSE walk' = "asking" /\ lock' = Reclaim /\ UNCHANGED <<looking, left>>
    /\ UNCHANGED <<blobs, storeVars, namerVars, faultVars>>

\* (Faulty.) The grace window is read the wrong way round.
AgeBackwards ==
    /\ walk = "asking"
    /\ IF blobs[looking] = "recent"
       THEN walk' = "deleting" /\ UNCHANGED <<looking, left, lock>>
       ELSE WalkOn /\ lock' = Nobody
    /\ UNCHANGED <<blobs, storeVars, namerVars, faultVars>>

Age ==
    /\ walk = "asking"
    /\ IF blobs[looking] = "old"
       THEN walk' = "deleting" /\ UNCHANGED <<looking, left, lock>>
       ELSE WalkOn /\ lock' = Nobody
    /\ UNCHANGED <<blobs, storeVars, namerVars, faultVars>>

\* (Faulty.) A blob goes once it is old.
DeleteAfterwards ==
    /\ walk = "deleting"
    /\ lock' = Nobody
    /\ WalkOn
    /\ stray' = stray \cup {<<looking, "deleting">>}
    /\ UNCHANGED <<blobs, storeVars, namerVars, timeouts, crashes>>

Delete ==
    /\ walk = "deleting"
    /\ blobs' = [blobs EXCEPT ![looking] = "absent"]
    /\ lock' = Nobody
    /\ WalkOn
    /\ UNCHANGED <<storeVars, namerVars, faultVars>>

EndWalk ==
    /\ walk = "walking"
    /\ left = {}
    /\ walk' = "idle"
    /\ UNCHANGED <<blobs, storeVars, lock, namerVars, looking, left, faultVars>>

-----------------------------------------------------------------------------
(* Time, the lock's timeout and the end of the host.                        *)

\* The grace window passes.  A walk measures it from when the walk began, so
\* what was put since is recent to it however long it takes.
BlobAges(b) ==
    /\ blobs[b] = "recent"
    /\ b \notin left
    /\ b # looking
    /\ \A s \in stray : s[1] # b
    /\ blobs' = [blobs EXCEPT ![b] = "old"]
    /\ UNCHANGED <<storeVars, lock, namerVars, walkVars, faultVars>>

AssetAges(a) ==
    /\ Stored(a)
    /\ a \notin aged
    /\ aged' = aged \cup {a}
    /\ UNCHANGED <<blobs, names, landed, items, refs, lock, namerVars, walkVars, faultVars>>

\* Rolled back and the lock given to the next, while what it waited on goes on:
\* a namer's next call meets the fence and throws, but the reclaim's next calls
\* are to the blob store, which has none.
Timeout ==
    /\ timeouts < MaxTimeouts
    /\ lock # Nobody
    /\ timeouts' = timeouts + 1
    /\ lock' = Nobody
    /\ \/ /\ lock \in Namers
          /\ Rest(lock)
          /\ UNCHANGED <<walkVars, stray>>
       \/ /\ lock = Reclaim
          /\ stray' = stray \cup {<<looking, walk>>}
          /\ walk' = "idle"
          /\ looking' = NoBlob
          /\ left' = {}
          /\ UNCHANGED namerVars
    /\ UNCHANGED <<blobs, storeVars, crashes>>

StrayAges(b) ==
    /\ <<b, "asking">> \in stray
    /\ stray' = (stray \ {<<b, "asking">>})
                 \cup (IF blobs[b] = "old" THEN {<<b, "deleting">>} ELSE {})
    /\ UNCHANGED <<blobs, storeVars, lock, namerVars, walkVars, timeouts, crashes>>

StrayDeletes(b) ==
    /\ <<b, "deleting">> \in stray
    /\ stray' = stray \ {<<b, "deleting">>}
    /\ blobs' = [blobs EXCEPT ![b] = "absent"]
    /\ UNCHANGED <<storeVars, lock, namerVars, walkVars, timeouts, crashes>>

\* The host dies or is closed, and comes back to what was committed.
Crash ==
    /\ crashes < MaxCrashes
    /\ crashes' = crashes + 1
    /\ lock' = Nobody
    /\ phase' = [t \in Namers |-> "idle"]
    /\ naming' = [t \in Namers |-> NoBlob]
    /\ carries' = [t \in Namers |-> NoBlob]
    /\ walk' = "idle"
    /\ looking' = NoBlob
    /\ left' = {}
    /\ stray' = {}
    /\ UNCHANGED <<blobs, storeVars, timeouts>>

-----------------------------------------------------------------------------
Storing ==
    \/ \E i \in Items, named \in SUBSET Assets : Capture(i, named) \/ Amend(i, named)
    \/ \E released \in SUBSET Assets : Sweep(released)

Naming(t) ==
    \/ \E n \in Names, b \in Blobs : Put(t, n, b)
    \/ NothingToName(t) \/ OpenNaming(t) \/ FindGone(t) \/ Find(t) \/ Name(t)

\* The walk's steps but the one that waits for the lock.
Walking ==
    \/ StartWalk \/ Age \/ Delete \/ EndWalk
    \/ \E b \in Blobs : PassOver(b) \/ LookAt(b)

Passing ==
    \/ \E b \in Blobs : BlobAges(b) \/ StrayAges(b) \/ StrayDeletes(b)
    \/ \E a \in Assets : AssetAges(a)
    \/ Timeout
    \/ Crash

Next ==
    \/ Storing
    \/ \E t \in Namers : Naming(t)
    \/ Walking
    \/ Ask
    \/ Passing

Spec == Init /\ [][Next]_vars

\* The interval begins a walk and its calls return.  The lock is a queue, so
\* whoever waits for it gets it however many come after: strong, for Ask.  A
\* transaction that has the lock ends.
Fairness ==
    /\ WF_vars(Walking)
    /\ SF_vars(Ask)
    /\ \A t \in Namers : WF_vars(FindGone(t) \/ Find(t) \/ Name(t))

FairSpec == Spec /\ Fairness

-----------------------------------------------------------------------------
Phases == {"idle", "put", "checking", "found"}
Walks == {"idle", "walking", "waiting", "asking", "deleting"}

\* Every variable keeps its kind; a walk looks at a blob exactly from the time
\* it singles it out until it moves on.
TypeOK ==
    /\ blobs \in [Blobs -> {"absent", "recent", "old"}]
    /\ names \in [Names -> Blobs \cup {NoBlob}]
    /\ aged \subseteq Assets
    /\ landed \subseteq Records
    /\ items \subseteq Items
    /\ refs \in [Items -> SUBSET Assets]
    /\ lock \in Namers \cup {Reclaim, Nobody}
    /\ phase \in [Namers -> Phases]
    /\ naming \in [Namers -> Names \cup {NoBlob}]
    /\ carries \in [Namers -> Blobs \cup {NoBlob}]
    /\ \A t \in Namers : phase[t] # "idle" => naming[t] \in Names /\ carries[t] \in Blobs
    /\ walk \in Walks
    /\ looking \in Blobs \cup {NoBlob}
    /\ walk \in {"waiting", "asking", "deleting"} <=> looking \in Blobs
    /\ left \subseteq Blobs
    /\ stray \subseteq Blobs \X {"asking", "deleting"}
    /\ timeouts \in 0..MaxTimeouts
    /\ crashes \in 0..MaxCrashes

\* Of the transactions that wait on the blob store, at most one is open, and it
\* is the one that has the write lock: write-lock.ts's single writer.
OneWriter ==
    /\ \A t \in Namers : phase[t] \in {"checking", "found"} <=> lock = t
    /\ walk \in {"asking", "deleting"} <=> lock = Reclaim

\* ADR 58: no blob anything names is deleted, by any interleaving of a write, a
\* reclaim and an insert.
NamedBlobsHeld == \A n \in Names : names[n] \in Blobs => blobs[names[n]] # "absent"

\* The same, of a pool whose transactions all end before the write lock's
\* timeout: what assets.ts, output.ts and maintenance.ts do about it suffices.
NamedWhileInTime == timeouts = 0 => NamedBlobsHeld

\* An item refers to no asset that has been swept: both ask in the transaction
\* that acts on the answer, payload.ts and maintenance.ts alike.
ReferencedStored == \A i \in items : \A a \in refs[i] : Stored(a)

\* assets.ts open never answers no-such-asset or blob-missing of an attachment a
\* captured item refers to: neither the sweep nor the reclaim, nor one after the
\* other, takes what a capture or an amendment has come to rely on.
AttachmentsOpen ==
    timeouts = 0 =>
        \A i \in items : \A a \in refs[i] : Stored(a) /\ blobs[names[a]] # "absent"

\* A blob nothing names, once the grace window has passed it, is taken, or is
\* put or named again first: no debris outlives every reclaim.
EveryOrphanGoes ==
    \A b \in Blobs : (blobs[b] = "old" /\ ~Named(b)) ~> (blobs[b] # "old" \/ Named(b))
=============================================================================
