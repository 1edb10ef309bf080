# notemap, specified

A TLA+ development kept beside notemap's source. It models the parts of the pool whose correctness
depends on *when* things happen: deliveries that must not arrive twice, reservations that must not
be stranded, bytes that must not be deleted under what names them, a mirror that must not fall
behind unnoticed, tags that must file once, lines of revisions that must not fork, operations a
client must not lose, and a queue drawn from news that comes late. TLC checks the models on small
instances; TLAPS proves their main safety properties for every size.

`PROJECT.json` maps every definition to the lines it models and lists the runs, mutants, findings,
hazards and theorems. Paths below are relative to `src/`.

## 1. The system

notemap is one pool of captured items: a core library (`packages/core`) over ports, a SQLite store
and a blob store beneath it, destination and mirror adapters beside it, a daemon that hosts it and
serves HTTP, and clients with an outbox of their own.

| Component | State | Operations | Meets | Hard because | Correct when |
|---|---|---|---|---|---|
| Routing and delivery (`core/src/pool/routing`, `work.ts`) | routing records | route, markProcessed, cancel, withdraw, reinstate, claim, complete | job queue, items, destinations, templates | the outside world is written to between two transactions | one decision, at most one copy; what was called off never arrives where the kind confirms what it says; what arrived is never denied |
| Job queue (`store-sqlite/src/jobs.ts`) | job rows: status, attempt, lease, due time | enqueue, claim, release, resolve, withdraw | delivery and mirror | leases lapse, holders go silent and come back | nothing is attempted by two; every lease ends |
| Host runner (`daemon/src/work/runner.ts`) | the pass under way, a poll, a timer, drains | tick, wake, drain, stop | claim, complete, adapters | a pass throws or dies halfway through a batch; timers fire early, or while a pass runs | each job once per pass; no due job is waited for in vain |
| Items, editing, archive (`capture.ts`, `edit.ts`, `archive.ts`, `lines.ts`) | items, lines of revisions, sources | capture, amend, revise, archive | deliveries (an item is sealed once tried), sources, tags | a source and a person edit one item | a line never forks; a replay is absorbed |
| Trigger tags and templates (`tags.ts`, `templates/`) | templates, tags, the records they applied | tag, untag, define, edit, retire | routing, capture, withdraw | what a tag fires is worked out before the transaction | tagged means filed; filed twice by hand, or by a capture that met one template twice |
| Assets and blobs (`assets.ts`, `maintenance.ts`, `routing/output.ts`, `blob-fs`) | assets, blobs, what refers to what | store, sweep, reclaim, keep an output | captures, landings, the write lock | bytes are written outside every transaction | what is named is there; debris goes |
| Store transactions (`store-sqlite/src/write-lock.ts`) | the queue of writers, one open transaction | transact, time out, roll back | everything that writes | a timed out callback runs on | one writer; no write after the end |
| Mirror (`mirror.ts`, `daemon/src/mirror`, `mirror-fs`) | mirror jobs, files | enqueue, write, remove | every write of an item | changes arrive while a write is in flight | a file older than the last change that owed a write is owed one |
| Client outbox (`client/src/outbox`) | operations and their leases, across processes | enqueue, oppose, recall, dismiss, drain | the HTTP surface, the client's store | sends are lost, duplicated and answered late, and outlast their leases; tabs share one store, and it fails | nothing is lost; one process sends while its lease runs; what was taken back stays out |
| Client surfaces and watcher (`client/src/state`, `surfaces`, `actions`) | copies of items, the pages drawn, a mark in the log | load, turn, enter, hear, read again, archive, return, tag | the pool's queue and log, the outbox | reads, news and answers land in any order | what is drawn comes to be what is work |
| Relays (`packages/relay`, `apps/relay-*`) | none kept: what a poll is asking | poll, capture, edit, continue | capture, edit | requests are given up on and land late | what the source says comes to the head, and a re-read changes nothing |
| Destination adapters (`adapters/destination-*`) | none of the pool's | deliver | delivery | outcomes nobody can know | a retry never duplicates, or the kind says that it may |
| HTTP routes and sessions, user interface, schema migrations, search, configuration, rendering | sessions, files, views | — | — | input, output and presentation | not modelled: §8 |

The core's rule is *one operation, one transaction*. The write lock runs transactions one at a
time, and `node:sqlite` is synchronous, so a transaction that only touches the database never
yields to the event loop: nothing comes between its statements and its timeout cannot fire within
it. The models therefore make such a transaction one action. Whatever happens *outside* one is a
step of its own: a read before it, a stream into the blob store, a destination's answer. The two
transactions that wait on the blob store are modelled wait by wait.

## 2. Modules

| Module | Models |
|---|---|
| `Delivery` | decisions, their jobs, the runners that carry them out, and the items they carry |
| `RoutingDecision` | what routing promises of one decision, with no queue in sight |
| `Delivery_proofs` | the inductive invariant of `Delivery`, the theorems it gives, and that `Delivery` implements `RoutingDecision` |
| `MCDelivery` | instances of `Delivery` for TLC |
| `Assets` | uploads, landings, captures, the sweep and the reclaim over the blob store and the lock |
| `Assets_proofs` | the inductive invariant of `Assets` and the theorems it gives |
| `MCAssets` | instances of `Assets` for TLC |
| `Mirror` | what owes the mirror a write, its job rows, the runner and the two files of an item |
| `Mirror_proofs` | the inductive invariant of `Mirror` and the theorems it gives |
| `MCMirror` | instances of `Mirror` for TLC |
| `Filing` | templates, trigger tags, the records they file and the tag that says so |
| `Filing_proofs` | the inductive invariant of `Filing` and the theorems it gives |
| `MCFiling` | instances of `Filing` for TLC |
| `Lines` | one note of another system, the relay that reads it, and the line of items that follows it |
| `Lines_proofs` | the inductive invariant of `Lines` and the theorems it gives |
| `MCLines` | an instance of `Lines` for TLC |
| `Outbox` | the operations of one item, in one store that several client processes share |
| `Outbox_proofs` | the inductive invariant of `Outbox` and the theorems it gives |
| `MCOutbox` | an instance of `Outbox` for TLC |
| `Runner` | when the host looks for work: polls, timers, drains and a stop, with times |
| `Runner_proofs` | the inductive invariant of `Runner` and the theorems it gives |
| `MCRunner` | an instance of `Runner` for TLC |
| `Surfaces` | a client's queue against the pool it shows, and the log it hears |
| `Surfaces_proofs` | what the pages' operators do to rows, the invariants of `Surfaces` and the theorems they give |
| `MCSurfaces` | instances of `Surfaces` for TLC |

How they meet: `Delivery` is the life of one decision and its job. `Runner` is when a pass of it
starts, `Filing` is where a decision comes from and what its end does to a tag, `Mirror` is what any
change owes, `Assets` is what an attachment or an output needs under it, `Lines` is how an item comes
to be and changes, `Outbox` is how a person's operation reaches any of these, and `Surfaces` is how
their effects come back. Each states the part of its neighbours it depends on as actions of its own
(a delivery that fails in `Filing`, an item that is sealed in `Lines`) rather than including them.

Some operators stand just before the definition they distort, marked *(Faulty.)* or under a name
that says how (`NeverGoesRound`, `JoinsAtOnce`, `StandsHoweverOld`). No specification uses them: they
are the bugs each property is known to catch (`mutants` in `PROJECT.json`).

### Delivery

*State.* `items`, `words`, `archived`, `revised` are the items as deliveries meet them. `decision`
and `state` are the rows of `routing_records`; a removed row keeps the action log's word for why
(`cancelled`, `abandoned`). `withdrawn` and `edited` are a record's `withdrawnAt`, and whether the
item was amended since. `job` is the row of `jobs` that delivers a record. `copies` and `sent` are
the destination's side, which the code cannot read; a copy is the note or the blocks, not the
attachments put beside a note. `phase`, `fresh`, `vanished`, `attempted`,
`at`, `outcome` are a runner's locals. `faults` counts crashes and throws.

*Actions.* Each operation of the pool is one action (`Capture`, `Amend`, `Revise`, `Archive`,
`Unarchive`, `Route`, `MarkProcessed`, `CancelDelivery`, `Withdraw`, `Reinstate`). A runner's pass
is a loop of steps: `Claim` is the store's transaction, `AbandonUnknown` one transaction for each
delivery whose holder vanished, `Release` and `PerformBatch` sort what is left, `Send` reads what
the delivery carries and begins to write it, `Arrives` is the write reaching the destination, one of
four answers ends the attempt whether it did or not, and `Complete` reports it. `ComesDue` and `LeaseLapses` are time. `Crash` is the host dying, or a pass that throws.

*Abstractions.* Times are kept as the comparisons the code makes with them: a job is due or not, a
lease lapsed or not, an item edited since a withdrawal or not. `Send` joins the read in
`delivery.ts` to the start of the write: an item whose record a runner holds is sealed and its
record cannot be called off, so nothing it reads can change between the two. `Reinstate` allows one
case the code refuses (an amendment in the same millisecond as the withdrawal, and before it).
Records are routed by hand, and the pool has no mirror: `Filing` and `Mirror` are about those.

*Kinds of destination.* An attempt answered `unreachable` is tried again, and what that answer knows
differs (ADR 41). `Confirmed` are the records of fs, which says so only of what did not arrive. Over
WebDAV a request whose answer was lost is `unreachable` as well (`dav.ts:93`), though it may have
arrived. A create under one name then finds the name taken (`If-None-Match`), so a retry cannot
duplicate it: with the first these are `Repeatable`. What is left, a WebDAV append or a create that
takes the next free name, and are.na's posts, is held to the number of attempts it is allowed
(`AnswersUnconfirmed`). A request that outlives its sender is taken to arrive before the attempt's
report or never.

### Assets

*State.* `blobs` is each content's file: absent, put within the grace window, or old. `names` is the
blob each asset row and each record's output names, `aged` the assets past the window, `landed` the
records whose landing was recorded. `items` and `refs` are items and their `item_assets`. `lock` is
whose transaction is open. `phase`, `naming`, `carries` belong to an upload or a landing under way;
`walk`, `looking`, `left` to the reclaim. `stray` holds callbacks of the reclaim that run on after
their transaction was timed out and rolled back.

*Actions.* `Capture`, `Amend` and `Sweep` are transactions. An upload is `Put` (outside any
transaction), then `NothingToName`, or `OpenNaming` and what `lastPut` finds: `FindGone`, or `Find`
and `Name`. A landing that keeps an output takes the same steps (`landingFor`, `stillHeld`,
`resolveRoutingRecord`); all that differs is that without its blob it is still recorded. The reclaim
is `StartWalk`; for each blob `PassOver`, or `LookAt`, `Ask`, `Age`, `Delete`; then `EndWalk`.
`Timeout` is the write lock giving up on whoever has it: a naming transaction's next statement meets
the fence, but the reclaim's next calls are to the blob store, which has none (`StrayAges`,
`StrayDeletes`). `Crash` is the host dying or closing.

*Abstractions.* A reclaim measures the grace window from when it began, so a blob put since cannot
turn old for it (`BlobAges`). A put is one step, for its rename is what makes the blob there. Which
assets are oldest is not kept, so a sweep takes any part of what it may take. One reclaim runs at a
time, as `reclaiming.ts` joins a second call to the first.

### Mirror

*State.* `stage` and `pool` are what the pool holds of each subject, an item in two halves: its own
row, and what is read after it (artifacts and routing). `record` and `rendering` are its files in
the mirror. `job` is the mirror's rows of `jobs`. `phase`, `fresh`, `back`, `attempted` are a pass;
`at`, `seen`, `outcome` the attempt under way. `held` is a history: what the pool has said of a subject
since a change of it last owed a write.

*Actions.* `Change` stands for the transactions that change what is mirrored and owe a write of it:
capture, amendment, revision, tags, archiving, a landing's own item, a withdrawal, a destination,
template or setting written. Two kinds of change owe none (`Unowed`): a trigger tag taken off by a
cancel or by giving up (`ReleasesTag`), and a template established by a landing (`Establishes`); §7.
`Change` calls `enqueueMirrorWrite`, and the row's insert does nothing when a pending row of the subject and
kind is there (`Enqueue`). `Remove` deletes a destination or template, and owes a removal. A pass is
`StartPass`, `Claim` of a batch, `Release` of what it has performed already, `Perform` of the rest
one by one, `EndBatch`. An attempt is `Read`, `ReadRouting`, `WriteRecord`, `WriteRendering`, or
`RemoveRecord`; `Fails` and `RendererThrows` cut it short, and `Complete` reports it. `Crash` is the
host dying or the pass throwing.

*Abstractions.* A file is written by a rename, so a write is one step. Items are never removed by
any code yet, so only the rest are. A batch is any the rules of `candidate` allow, where the code
takes the oldest first. Both kinds of row retry for ever (`exhausted`), so attempts are not counted.

### Filing

*State.* `captured` and `tags` are items and the trigger tags they wear; `stage`, `claim`, `place`
and `founded` are a template's row, the tag it declares, where it files and whether it counts its
folder as made; `record` the routing records; `call` what each call under way has read. `shown` is a
history: the tag that fired each record, while the template keeps it.

*Actions.* A template is written, edited and deleted (`CreateTemplate`, `EditTemplate`,
`DeleteTemplate`). A tagging is `AskToTag`, the reads outside the transaction (`LookUp`, `Weigh`) and
one transaction, `TagNothing`, `TagAgain`, `TagPlain` or `TagFires`, which decides again what the
reads decided and goes round where they no longer agree (`GoesRound`, `tags.ts:126`). A capture
carries any set of trigger tags and looks them up and weighs them one by one (`LookUpNext`,
`WeighCapture`): each is ordinary, or spent and dropped, or a firing. Its transaction is
`CaptureAnswered` or `CaptureLands`, which files every firing without asking what the one before it
filed (`capture.ts:245`). `Compose` applies a template a person chose. `Attempt`, `Deliver`, `Fail`, `Cancel`, `Withdraw` and `Reinstate` are a record's life,
with what each does to the tag (`fire.ts`).

*Abstractions.* `Weigh` joins the reads of an item's tags and of its records. The order of a capture's
tags is any; a continuation, all of whose claimed tags are spent, is a capture whose tags are all
found so. A reinstatement refused because the item was edited since is a step
not taken. Arguments, a place's own shape and ordinary tags are left out.

### Lines

*State.* For each item, `identity` (plain capture, edit of a version, continuation of one, edit by
hand), `says`, `word` (what the source last said where the item says otherwise), `from`, `continues`;
`sealed`; the note's `version` and `text`; `relay`, what the poll is asking; `late`, requests it gave
up on that may arrive yet; `hand`, the edits people have made.

*Actions.* `NoteChanges`, `EditByHand`, `ResendByHand`, `Seal` (archiving and returning, routing and
withdrawing) are people's. A poll is `Poll` (the capture, sent), and the answers of `capture.ts`:
`Captured`, `Unchanged`, `Changed`, `Diverges`, each read of the head of the line as the code finds it
(`Reread`), then `EditLands` or `ContinueLands`. `GiveUp` is a request that timed out, `ArrivesLate`
its landing afterwards; an answer nobody heard is a `GiveUp` whose request lands at once.

*Abstractions.* One note, one relay, polls one at a time. A version is never used twice, as memos'
update times are not; the are.na relay's digests can repeat (§7). Tags, attachments, payload kinds and
capture times are left out.

### Outbox

*State.* `store` is the shared store, `held` each process's copy of it, with `restored`, `seen`,
`writing` (writes on their way), `leaving` (drops under way), `recalled`; `queue`, `work`, `drain`,
`attempted` are the chain of one item and the drain over it, `rejected` whether a failure of the store
ended it; `up` the processes that run. Histories are `made`, `accepted`, `settled` and `gone`;
`overran`, whose lease ran out under a sender; `misfiled`, what landed and was put down as refused; and
`owed` and `cutShort`, the edits whose tags are not kept yet, and those whose process died so.

*Actions.* `Enqueue`, `Oppose`, `Recall`, `Dismiss` are a person's, each with the store's write or
removal as a later step (`WriteLands`, `WriteFails`, `Remove`). A drain is `StartDrain`, `Reconcile`
with the store or `ReadFails`, waves of `Take`, `Lease` or `LoseLease`, then `Settle`, `Refuse` or
`NoAnswer` (which `Park`s it), with `Rescan` after each wave and `EndDrain`. An edit that lands and
leaves tags to be added is `SettleCarrying`: the tags are enqueued when its own entry is out, and the
send waits for their write (`outbox.ts:280`). The store may fail a send at each of its calls:
`LeaseFails`; `SettleFails` and `CarryFails`, after which what landed is put down as refused
(`outbox.ts:310`); `RecordFails`. The first and the last reject the chain: with another send queued
behind, that one goes; with none, the entry stays and the drain is `Hung` on it. `LeaseLapses`, `Crash`
and `Start` are time and the tab.

*Abstractions.* The operations of one item, since others wait in chains of their own; no batch over
several. Requests of one process reach the store in order, which IndexedDB and the memory store give
and the file store does not promise. A lease may lapse under a live sender, for one send can be several
requests of up to half a lease each; that costs a fault. The clock does not go back. What a request does
to the pool after its client gave up on it is not followed. Tags that follow an edit are one operation,
of this item and in its chain, which no waiting operation opposes: a follow-on that one does is a
`Settle` and an `Oppose`. A removal the store rejects outside a send (dismissing, recalling, opposing)
is left out, as is the rejection of an enqueue that nobody awaits.

### Runner

*State.* Every time is kept as how long it is until then. `status` and `due` are the jobs; `passed`
and `moved` what had come due when the runner last looked and whether time has passed since; `phase`,
`leased`, `attempted` a pass; `poll` and `waking` the interval and the timer (as long as a poll where
there is none); `asking` what `wake` was told is due next and has not heard; `caller` the drains.
`owed` and `unheard` are histories.

*Actions.* `Make` and `Cancel` are the pool's. `PollFires`, `WakeFires` and `AskToDrain` begin a pass
or join the one under way; `Claim`, `Sort`, `Performs` with `Concludes` or `Fails`, `EndPass` and
`Throws` are the pass; `Turns` is the event loop turning after the answer to `wake`, `Ticks` the drain
behind a pass, which it does not where the host was stopped. `Tick` is time, `LeaseLapses` a lease (its
job was passed over, and is looked for again), `Stop` the end. What a drain is `owed` is every job due
when it joined, whoever held it.

*Abstractions.* The delivery runner; mirror jobs are due at once and nothing wakes for them. The
answer to `wake` is a synchronous read, so it is there before the event loop turns, but a stop may
come first. A claim ends vanished deliveries as it comes on them, and the releases of a pass are one
step. A job due when it is made, or made before the host started, waits for the poll (`unheard`).

### Surfaces

*State.* The pool is `captured`, `done` (why each item is work no longer), `modified` and `log`. The
client is `copies`, `queue` (the page: its order, rows, position, and what it claims), `walks` and
`rereads` (reads out), `mark` and `asked` (how far it has heard the log, and the read that is out),
`own` (the operations of each item still to send or be answered), `away`. `left`, `astray` and
`straight` are histories.

*Actions.* `Captured` and `ChangedElsewhere` are others. `LoadMore`, `Turn`, `Enter` and `Returns` ask
for a page, which the pool answers as it is then, and `Lands` or `WalkFails` is its coming back.
`Ask`, `AskLands` and `AskFails` are the watcher; what it hears takes rows off at once and asks for
items (`Heard`), which `RereadLands` or `RereadFails` ends. `Decide`, `Oppose`, `Send`, `Settles`,
`Refused` and `Unanswered` are what the person archives, returns and tags, each item's operations one at
a time in the order they were made, past one that was not answered (`Due`).

*Abstractions.* One unfiltered queue, ranked by capture. Items a page held are the only ones cached
but by a reread: a feed page or an item opened by itself caches too, and an item first seen so before
its capture is heard is never placed (`heard`). An operation is archiving,
returning or adding a tag, any number of them of one item. Whether one is handed over already, so that
its opposite goes after it and not instead, is left open (`handedOver`, `outbox.ts:207`); a tag taken
off is left out, and a refused operation is dismissed at once. `astray` collects the items whose news the code crosses or
loses, one clause a way (`Remembered`); what is promised of the rest is exact, and what is promised of
all is what arriving again puts right. `straight` says that no row stands where an undone decision put
it back by an index, or a tail was joined from a page of the other order; an emptied page is straight
again. Order is promised while it holds, for rows placed by a binary search among misplaced ones are
misplaced too. How far a page has been walked (`Walked`) is its own position and not its rows, which a
row put back on a page turned since can be beyond.

## 3. What the runs check

| Run | Instance | Checks |
|---|---|---|
| `race` | 2 items, 2 words, 1 confirmed decision, 2 runners, 2 faults, 2 attempts | `AtMostOneCopy`, `CancelledLeftNothing`, `SentStillReads`, `DeliveredStays`, `KeepsItsPromises` |
| `batch` | 1 item, 1 word, 2 decisions (unconfirmed, one repeatable and one not), 1 runner with 2 slots, 1 fault | `FreeJobLeftNothing`, `PendingIsOwed`, `OneAttemptPerPass`, `EveryDeliveryEnds`, `EveryLeaseEnds` |
| `assets` | 2 blobs, 1 asset, 1 record, 1 item, 1 upload or landing at a time, 1 timeout, 1 crash | `OneWriter`, `NamedWhileInTime`, `AttachmentsOpen`, `EveryOrphanGoes` |
| `assets_late` | 1 blob, 1 asset, 1 record, 1 upload or landing, 1 timeout | `NamedBlobsHeld`, which fails |
| `mirror_race` | 1 item, 1 destination, 2 contents, 3 rows, a batch of 2, 2 changes, 1 fault | `OwedWhileStale`, `OnePendingRow`, `OneWritePerSubject`, `MirrorCatchesUp` |
| `filing_race` | 1 item, 2 templates, 2 tags, 1 place, 2 records, 3 calls, 1 edit or deletion | `OneClaimant`, `TagStaysWithRecord`, `NoSecondFiling`, `NeverSpent` |
| `filing_moved` | 1 template, 1 tag, 2 places, 2 records, 2 calls, 1 edit | `FoundedWhereItFiles`, which fails |
| `outbox` | 2 processes, one of them a person's, 2 operations, the first an edit that may carry the second as its tags, the second one regretted, 1 fault | `NothingLost`, `OneSender`, `LandedStaysOut`, `RetractedStaysOut`, `OrderKept`, `EveryOperationEnds` |
| `lines` | 6 items, 2 words upstream, 2 of people's (one in common), 2 edits by hand, 3 versions, 1 fault | `LineNeverForks`, `ReadWordsSurvive`, `RereadIsNoEdit`, `FollowsUpstream` |
| `runner` | 2 jobs, a batch of 1, a poll of 2 ticks, windows of 0 to 2, backoffs of 0 and 1, timers 1 early, 1 caller, 2 faults | `Awaited`, `DrainDoes`, `StoppedStays`, `EveryJobEnds` |
| `surfaces` | 2 items and 1 to come, pages of 1 row, pages of 3 log entries, 2 events | `RestRight`, `InOrder`, `DecisionStands`, `ArrivingRights` |
| `surfaces_gone` | the same | `GoneStaysGone`, which fails |

Together they show, of deliveries:

- one decision never leaves two copies where a retry cannot duplicate, though runners die, stall past
  their lease and report late; elsewhere never more than its attempts;
- where the kind confirms what it says, a cancel is answered only when nothing has arrived and nothing
  will, and a job free to be attempted has left nothing; where it does not, a backoff may hide a copy,
  which a cancel then leaves behind;
- a delivered record is never denied; a reservation stands exactly while a job owes it;
- what arrived under a standing record is what its item still reads, through editing, withdrawal
  and reinstatement;
- seen from outside, all of it is `RoutingDecision`;
- every reservation ends and every lease is given up.

Of the host that carries them out: no order of polls, early timers, passes and jobs coming due leaves
a job waiting without a timer; a drain does what it was asked to, but for jobs behind a batch of older
ones that failed under it and those a pass that threw had leased; a stop stays; every job ends while the host runs.

Of attachments: while transactions end in time no interleaving of uploads, landings, captures,
sweeps and a reclaim deletes what is named or sweeps what is referred to; and debris always goes.

Of the mirror: whatever is torn, failed, put back, given up on or lost, a subject of which the mirror
says what the pool has not said since a write was last owed is owed the job that would put it right,
no job put back collides with another, and in the end the mirror says nothing older than that, or says
it gave up. What the pool changes without owing a write is beyond it (§7).

Of tags: however calls' reads race with each other, with templates that change and with records that
end and come back, a template files an item once, the tag stays while what it filed stands, and no
tag is spent on nothing. Two ways out are the code's own: a person may compose what a tag has filed,
and one capture may read a template under two of its tags and file by both (§7).

Of lines: people, a relay, resends and late arrivals never fork one; words a relay had read are not
overwritten by it; a poll of what the line has already taken changes nothing; and the head comes to
say what the source says, or notes that it said it.

Of a client: what it told a person is kept is never lost, though the store fails and processes die;
while its lease runs one process sends it, and in order but after a failure of the store; what was
taken back stays out of the outbox, and so does what landed but where its lease ran out under its
sender or its process could not take it out; every operation ends unless every process is frozen by a
rejected chain or holds it as refused. What its queue
shows at rest is what is work, but for the items whose news is crossed or lost in one of the ways of §7; what
the person archived and the pool has not answered is put back on the screen by nothing but a read of
the queue or the answer to an earlier operation of the same item (§7); and arriving again puts the
head right whatever was lost.

*Why the bounds are enough.* The races are between two actors over one thing: two runners over one
row, a runner and a person over one record, a reclaim and a second upload of the same bytes, two calls
over one item, two processes over one operation. Two runners and one decision give every order of the
first two; two decisions and a batch of two give every way a pass can stop halfway. Two attempts reach
the ceiling. A fault is needed to lose a lease and a second to lose it again during recovery. Two blobs
let a walk be caught between one and the next. Two uploads at once are left to the proofs, which hold
for any number. Two changes let a write be read before one and finished after it, or torn between its
halves; three rows let one wait behind one in hand beside another subject's. In `Filing` two records of
one template are what must not stand together; two templates let a tag move between them, and two
tags a template between them, while a call is under way; three calls are a capture and two that race. In `Outbox` two operations oppose one another or wait in order, with one process
that made them and one that only drains; the one fault may be a lost answer, a lease that runs out under
its sender, a failure of the store at any call or a death. With two faults the safety properties were
also checked: 1.92 million states, no error. In `Lines` three versions and two edits make every sequence of
source, person, source; six items are as many as those can make. In `Runner` two jobs and a batch of
one put one behind the other, and two faults fail a job twice or fail one and throw. In `Surfaces` a
page of one row gives a loaded part, an edge and a rest with three items; the budget of events (what
others do, what the person decides, turns and losses) was also raised to three, with two items
and the safety properties alone: 22 million states, no error. Two events are two operations of one
item, or one and what crosses it.

*Bounds.* `MaxFaults`, `MaxTimeouts`, `MaxCrashes` and `Faults` bound faults; `MaxChanges` and `Jobs`
the pool's changes and rows; `Records`, `Calls`, `Changes`, `Items`, `Edits`, `Versions`, `Operations`,
`Captures` and `Events` what is ever made. The proofs leave every one of these open. `MaxAttempts`,
`Batch`, `Poll`, `Page` and `LogPage` are the code's own parameters made small.

`race` and `filing_race` use symmetry over sets whose members no definition tells apart; no liveness
run uses it. *Deadlock* is checked in the runs of `Delivery`, `Assets` and `Mirror`. In the others what
is bounded runs out, people may do nothing more, and a host may be stopped: their cfgs say
`CHECK_DEADLOCK FALSE`, and what has to go on is stated as liveness where there is any.

## 4. Fairness

`Delivery`'s `Fairness` is weak: a pass that has begun goes on, a destination answers (every attempt
has a timeout), the poll timer fires, due times come, leases lapse. The person is never obliged to
act, and no fault is ever fair. `LapsesInTime`, which `FairNext` takes for `LeaseLapses`, says that a
lease, which lasts minutes, does not lapse while the claim that took it is sorting it, a few
statements. Without it a claim could be robbed for ever by the next, and no reservation need end.

`Assets`' `Fairness` is weak for the reclaim's steps (its interval fires, its calls return) and for
a naming transaction that has the lock. It is strong for `Ask`, the step that waits for the lock:
`write-lock.ts` chains transactions in the order they came, so a waiter is reached however many come
after it. The bound on timeouts matters to liveness: a blob store that hung every time would never
let a reclaim through.

`Mirror`'s `Fairness` is weak for the pass and the attempt (the timer fires, calls return) and for
time. It is strong for the claim of each row, for `candidate` takes the oldest first: a row is passed
over only for older ones, and those are finite. A write that failed for ever would never be mirrored;
the code says as much and tries for ever, so faults are bounded and the promise is about after them.

`Outbox`'s is weak throughout: the client is opened again, drains begin on every change, on coming back
into reach and as a lease lapses, a request ends within its timeout, the store's calls return. Their failing
is not fair, nor is a lease running out under its sender anything but a fault; a process frozen by a
rejected chain is under no obligation to die.
`Lines`' is weak for the relay, one of whose steps is enabled at a time: a poll is a timer's, and an
answer comes or the request is given up on. `Runner`'s is weak for the interval, the pass, each answer
and each lease, and strong for `Tick`: time passes, however often a timer that fires a moment early
sets another. `Surfaces` has none: that a person goes on arriving, and is answered, is the premise of
`ArrivingRights`. `Filing` has none: it has nothing that must happen.

## 5. What is proved

TLAPS checks these for every value of the constants that the modules' `ASSUME`s allow.

`Delivery_proofs`, from `ConstantsAssumption`:

- `Safe`: the inductive invariant `IInv` holds in every reachable state.
- `TypeCorrect`, `DeliveredAtMostOnce`, `CalledOffForGood`, `RetriedOnlyIfNothingLeft`,
  `ReservedWhileOwed`, `ArrivedAsItReads`, `AttemptedOncePerPass`, `DeliveredForGood`: each safety
  property of the runs above for the three kinds at once, so that attempts where the kind can neither
  confirm nor be refused a second copy leave no more copies than were counted.

*The invariant.* `AtMostOneCopy` is not inductive: a state with one copy and a free queued job
satisfies it, and the next attempt breaks it. `IInv` says why that state is never reached.
`ClaimsExclusive`: what a runner claimed and has not reported no other claimed on a free row, and
nobody landed or called it off. `AttemptsKnown`: what a runner is sending or reporting is among what
it claimed, and where the kind confirms what it says an outcome to try again means that nothing
arrived. `UnderWay`: what is sent and has not arrived has room, and is not among the copies counted.
`CopiesKnown`: for each state of a row and each runner that has it, how many copies there can be. `PendingIsOwed` and `JobsWellFormed` tie
rows to records, and `WordsKnown` ties what was sent to what the item reads. Each action's step then
needs only the parts it disturbs.

*Refinement.* `PromisesKept`: every step of `Delivery` is a step of `RoutingDecision` or a stutter, by
the same invariant, for every decision a retry cannot duplicate. `RoutingDecision` asks that nothing
arrived before a decision is called off only of those confirmed. `Stage` maps a record's row to where
a person finds it.

`Assets_proofs`, from `AssetsAssumption`:

- `Safe`, `TypeCorrect`, `WritesAlone`, `NamedBlobsStay`, `ReferencesHold`, `AttachmentsAlwaysOpen`.

*The invariant.* `NamedWhileInTime` alone is not inductive: a `Name` of a blob that a reclaim is
about to delete breaks it. `AnswersLast` is ADR 58's argument: what a naming transaction found is
there, and what the reclaim asked about is unnamed, for as long as the lock is held (`OneWriter`).
All of it is conditional on no timeout; `OneWriter` and `ReferencedStored` hold regardless.

`Mirror_proofs`, from `MirrorAssumption`:

- `Safe`, `TypeCorrect`, `DebtKept`, `NoRivalRow`, `WritesApart`.

*The invariant.* `OwedWhileStale` alone is not inductive: a write about to report success gives up
its row whatever it wrote. `ReadIsOwed` is mirror.md's argument for coalescing with pending rows
only: at every point of an attempt, what it has read and written is what the pool has said since a
write was last owed (`held`, which `HeldRight` says holds what the pool says now), or a row that
outlives the attempt says so (`Renewed`). `InHand` says the rows the runner holds are leased and so
never what a change is folded into; `RowsRight`, that a removal is owed of what has gone.

`Filing_proofs`, from `FilingAssumption`:

- `Types`, `ClaimedOnce`, `TagStays`, `NoSecond`, `NoneSpent`.

*The invariant.* `TagStaysWithRecord` is not inductive: of two records of one template on an item,
the end of one sheds the tag the other stands by. `OneStands` says there are never two but where a
person composed one or the item's capture made both; it rests on `CallsOK` (what a call has read is of
one of the states its transaction tells apart, and a capture looks each tag up once) and `RecordsOK`. `ShownIsClaimed` is that a record's remembered tag is its
template's still, and needs `OneClaimant` and `UnwrittenClaimsNothing`: no second template has taken
it meanwhile.

`Lines_proofs`, from `LinesAssumption`:

- `Types`, `NeverForks`, `ReadWords`, `RereadStands`.

*The invariant.* An edit or a continuation lands only on an item nothing follows, whatever was read
before it was asked for, so `LineNeverForks` needs little beside the types. `ReadWordsSurvive` needs
`EditsTold`: an edit on its way, or late, names an item that still says the source's words unless
somebody has written it since the relay was told so; with `Asked` and `NoItemNoWord`, that what is
asked names items that are there.

`RereadStands` needs what the line is: `OneLine`, that what follows an item is further along
(`Follows`) and that all of it follows from the first capture to one head (`OneHead`). `HeadOf` is then
reached from every item, though it is recursive: its defining equation can be used
(`WalkDefined`), and of the finitely many items from which a walk could fail to end at the head one
would be the last (`LastOf`, by the library's `WFMin`, which stands for the induction:
`WalkEndsAtHead`). `Heard` is the invariant: the head says the version the line heard last, or holds it
as the source's, and a landing is the only thing that changes which that is. It showed a mistake in
the history: an edit that lands behind the head, on an item continued since, tells the line nothing.

`Outbox_proofs`, from `OutboxAssumption`:

- `Types`, `NoneLost`, `SentByOne`, `LandedIsOut`, `RetractedIsOut`, `InTheirOrder`.

*The invariant.* `NothingLost` and `LandedStaysOut` fail in one step from a state where a stale write
of an entry is still on its way. `FirstWrite` says that until the store has an operation only the
process that made it knows of it; `LastWrite`, that later only a process that was sending it writes it
down again; `UnderLease` and `OneSender`, that whoever sends has the lease the store gave unless
somebody took the operation back, while the lease runs; `Landed`, that of what landed in its time no
write is left and only its tags may be to see to; and `LeavingGone`, that only what a person took back
is dropped.

`OrderKept` has an invariant of its own, `OInv`, proved on top of that one. `OpenFirst`: while an
operation made in the session waits its first turn, nothing later is in hand, and everything later in
the queue has it in front. It lasts because what is handed over is sorted (`InOrder`), complete (an
open operation that is not already handed over is among what is taken up, which is why `First` says
that one attempted is still in hand), and made (`HandsMade`: a new operation is later than whatever
waits). A turn the store fails is over, which is why `Waits` leaves out what was tried and is no longer
in hand (`Passed`). `KindsOfNext` reduces the actions to the seven things a step can do to a queue.

`Runner_proofs`, from `RunnerAssumption`:

- `Types`, `AwaitedAlways`, `DrainsDo`, `StaysStopped`.

*The invariant.* `Awaited` speaks of the state between passes; `Heard` carries it through one:
whatever comes due later than the last look has a timer, or an answer to come that will set one, and
`PassedDue` says the rest was due by that look. For a drain, `Outstanding` is what it was asked for and has not been tried,
whoever holds it: while a pass is under way that is free, in hand (`InHand`) or left leased by a pass
that threw, and what is free is behind a whole batch or within what will be claimed (`Behind`,
`Within`, `NotYetTried`). `StoppedQuiet` is that a stopped runner has no timers left.

`Surfaces_proofs`, from `SurfacesAssumption` and `NothingIsNoCopy`:

- `Types`, `ArchivedStaysOut`, `RowsInOrder`, `RestIsRight`.

*The operators.* A page is a sequence filtered, searched, spliced and joined. Lemmas say of each
operator which items its rows are and that it keeps them in order (`PickedIs`, `PutIn`, `PutInPlace`,
`IntoPageIs`, `ReconciledIs`, `QueueIs`, `HeadIs`, `LandedIs`, `RejoinedIs`), and of the two loops that
what each turn keeps the whole keeps (`CaughtAlong`, `PlacedAlong`): the last turn up to which it was kept is
the loop's last (`Along`).

*The invariant.* `Base` is that what the client holds is in the pool and that marks stay within the
log, and that an operation sent and not refused has its answer (`Answered`); with it, and with every
operation older than the next decision (`Dated`), `DecisionStands` is an action property. `Straight` says of the page and of every page a
read was asked for that it is `Tidy`: rows sorted and no further than its position.

`RestRight` speaks of one state, and the invariant has to carry it through all that may be out. It is
held item by item, of those not astray (`ItemRight`), over what the log tells (`LogCounts`, that an
item's entries count its changes; `LogTells`, that what was told done is done unless told undone
later). `NewsRight` is what the client knows of the item. `AnswersRight`: each copy it holds, is being
read or was answered is right unless something other than a tag happened since. `HeardIsRead`: what
was heard and makes a difference is in the copy, or in an answer on its way. `AnswerUnheard`: nothing
newer than an operation's own answer was heard while that is out. `UnderRead`: nothing the client has
heard by taking the row off happened behind a read of the item. `TagsOnWork`: no tag between an archive
and a return. `WalksRight`: a read of the queue that is out is the only one, answers the item as it is,
and was asked for at the page drawn. `CalmShown` is the property itself, of an item that is `Calm`: no
operation of it, nothing but tags unheard, and no newer answer out. At rest every item is calm. Each
clause of `astray` is used, and is used where a step would break one of these: the proof is also the
argument that the list of §7 is complete.

## 6. Only model-checked

Liveness under fairness is TLC's alone: `EveryDeliveryEnds`, `EveryLeaseEnds`, `EveryOrphanGoes`,
`MirrorCatchesUp`, `EveryOperationEnds`, `FollowsUpstream`, `EveryJobEnds`, `ArrivingRights`. Every
safety property of a passing run is a theorem. The three runs that expect a violation show one; there
is nothing of theirs to prove but what `NamedBlobsStay` says of the first.

## 7. Findings

### With a run

**A timed out reclaim deletes a named blob.** `maintenance.ts:68` says that nothing can name a blob
between the reclaim's question and its delete, and ADR 58 that no interleaving deletes a named blob.
The delete is a call to the blob store inside a transaction the write lock gives up on after 30 s
(`write-lock.ts:75`). The callback goes on; the fence guards only the store's statements. A blob
store that stalls that long on `stat` or `unlink`, as a network file system can, then deletes the
blob after an upload has found it there under the lock and named it. Run `assets_late` finds it with
one timeout and one upload. Theorem `NamedBlobsStay` shows the timeout is the only way.

**A delivery to a template's old place establishes its new one.** Moving a template makes it establish
again (`lifecycle.ts:156`), but a record decided before the move and delivered after it marks the
template established all the same (`establish.ts:22`), for `established` does not ask where the record
went. Later decisions then require a folder nothing has made. Run `filing_moved` finds it with one edit.

**A row comes back by a read that began before it left.** `stillHeld` (`reads.ts:114`) keeps rows that
left during a read from being carried back by it, and does for pages; the read made on arriving is
asked from an empty page and its whole answer becomes the head (`rejoined`). A row archived while that
read is out is on the queue again when it lands, until the operation's answer takes it off; one that
news took off stays. Run `surfaces_gone` finds it in six states.

### Met on the way, without a run

*Delivery.* "Both file kinds do promise a retry cannot duplicate" (`docs/running.md:486`, and
`core.md:1179`, ADR 41). Over WebDAV a lost answer is retried, and an append that had landed is then
inserted again (`notes.ts:270`). A create that takes the next free name recognises its own earlier copy
only while it would write the very same note (`notes.ts:157`); tags are in it and may change during the
backoff. A cancel in that backoff is answered though a note is there. The model counts these kinds
outside `Repeatable` or `Confirmed`.

*Mirror.* `docs/specs/mirror.md:300` has every change that the mirror shows enqueue a write. Establishing
a template (`establish.ts:25`, from `work.ts:205`) and taking a trigger tag off on a cancel or a
give-up (`fire.ts:192`, from `route.ts:139` and `work.ts:248`) enqueue none: the template's record
misses `establishedAt`, and the item's keeps a tag it no longer wears, until something else of them
changes. `OwedWhileStale` and `MirrorCatchesUp` are stated of what owed a write. `mirror.md:329` says that at most two mirror jobs exist for an item at any time. A
write given up on keeps its row until a later one succeeds, is no obstacle to a new row, and nothing
counts it: an item whose renderer always throws gains a row with every change.

*Runner.* "`drain()` means everything owed when I asked is done" (`runner.ts:89`) fails where a batch's
worth of older jobs failed and came due again before the pass looked again: what it claims is then only
what it has attempted, and the pass ends with younger jobs untried. It takes a backoff that runs out
under slow attempts, or none. `DrainDoes` states what holds. The same delays younger jobs to the next
poll; only tests call `drain`. It fails as well of a job the pass under way had claimed when the drain
joined, and left leased when it threw (`runner.ts:72-76`): the fresh pass cannot claim it, and the
drain is answered with it undone.

*Filing.* A template declared, or an item captured, between `triggerFor`'s read and the transaction
leaves a tag without a record, which `templates/fire.ts:27` says cannot exist. A decision composed by
hand and cancelled takes the tag off though the one the tag fired still stands. A capture that arrives
with two trigger tags files twice by one template that an edit moves from one to the other between the
reads of the loop (`capture.ts:102`, `:245`), against "The same rule keeps a second firing off an item"
(`core.md:758`); `NoSecondFiling` names that case and no other.

*Lines.*
- A person may type the words the source changes to next. The poll then finds nothing to do and leaves
  the source's word behind; when the person writes others, polls of an unchanged note answer a
  divergence and continue the line, against ADR 64's "Polling must cost nothing when nothing upstream
  changed". `RereadIsNoEdit` is stated of versions the line has taken.
- A person's edit between the relay's capture and its edit is overwritten: the window
  `ReadWordsSurvive` leaves open, against ADR 64's "a person's edit to a relayed item survives every
  poll".
- An are.na block that returns to earlier words has an identity taken already by another revision, and
  every poll is refused. A person's edit sent again after its item was sealed becomes a second revision
  (`operations.ts:27` says the identity makes a retry one); sent again late, it overwrites a newer one.

*Outbox.*
- A tag overtakes its capture where the capture is parked unreachable and the tag is tried in the same
  drain, or in the wave before a restored capture's; the pool refuses it for good. `outbox.ts:315` says
  a tag never does. `OrderKept` states what holds, of one session's pending operations.
- Opposing an operation whose answer was lost, or that another process is sending, sends nothing, and
  the pool keeps the first ("Neither reached the pool", `outbox.ts:223`). So does opposing one that was
  refused and not yet dismissed: an unarchive is swallowed where an archive was refused because others
  had archived the item.
- The file store's lease can be taken by two at once when it has lapsed; a removal and a lease are not
  ordered there.
- A capture with attachments is one request for each and one more (`assets.ts:31`), each given 30 s,
  under a lease of 60 s nothing extends: it can run out under its sender. Another process then sends
  the operation too, and the slower, told nothing or refused, writes back what the other landed.
- The tags that follow an edit are enqueued after the edit has left the store (`outbox.ts:280`), so a
  death between loses them.
- A `drop` or an `enqueue` that rejects after the pool said yes is caught with the pool's refusals
  (`outbox.ts:310`): the person is told that what landed was refused.
- A `leaseOperation`, `readOutbox` or `record` that rejects ends the chain rejected. What is queued
  behind goes all the same, though `outbox.ts:315` says nothing overtakes; where nothing is, the entry
  stays in `chains` and the drain waits on it for ever, each wait answered at once (`outbox.ts:381`), so
  no timer or answer gets a turn. `EveryOperationEnds` excepts the frozen process.

*Surfaces.* An operation in flight settles whatever was decided of its item since (`handler.ts:24`,
`state.ts:1003`): the answer to a tag or a return puts the row back under an archive still to send, which
`outbox.ts:207` lets follow it (`outbox.test.ts:350` tests the pair), until that is answered too.
`DecisionStands` excepts it. The clauses of `astray`, each a way a queue at rest stays wrong until the person arrives
again: a row placed, changed or decided on while a page is out is dropped or put back by its landing
(`Crossed`), and two pages can be out at once, for `readAfterReturn` does not look at `loading`; one
archived, or routed before it was ever held, while a reread of it is out is put back (`LeftUnderRead`:
client.md has the answer applied only where nothing moved on); one archived elsewhere and then tagged
elsewhere is put back by its stale copy (`TaggedArchived`); an own archive refused because others had
archived the item puts it back, by an index others have left since (`RefusedNow`); news heard while an
own operation's older answer is out is settled by that answer (`HeardUnderAnswer`); opposing an unsent
operation after others did the same leaves the row as it was drawn (`OpposedStale`); the first read of
the log, and a page of it too short, tell nothing (`Untold`); a lost reread is not asked again
(`Unread`). Beside these: an action that commits later than one with a later time is above no
mark; and a page read to its end before keeps saying so when its head is read again.

## 8. Not modelled

- HTTP routes, schemas, tokens and sessions: each handler calls one operation of the pool and keeps
  nothing between requests that others act on.
- User interface, command line, configuration, Markdown and mirror rendering, unfurl: input, output
  and presentation, with no ordering to check.
- Schema migrations: a straight line of SQL run once, before anything else touches the store.
- Filters, search, counts and delta reads: SQL over states the modules have, with none of its own.
- Adapters' wire formats: what a destination may answer is in `Delivery`; how it is said is not.
- The client's feed, its filtered pages, the order by when an item was processed, and its store of
  held copies.
- Pictures' dimensions and storage measurement: derived values nothing decides by.

## 9. Plan

1. `Delivery`, `RoutingDecision`, `Assets`, `Mirror`, `Filing`, `Lines`, `Outbox`, `Runner` and their
   proofs; `Surfaces`. **Done.**
2. Of `Surfaces`: the feed and filtered pages, whose `reconciled` is the same; the order by when an
   item was processed, where a row moves.
3. Abstract specifications: of `Mirror`, a copy that lags and converges; of `Outbox`, operations
   applied once each; and what each module shows to implement them.
4. Composition: `Filing` over `Delivery`'s records, to show that a firing keeps `RoutingDecision` too.
5. A clock over two hosts: a batch leased at once and attempted one by one, against the lease.
