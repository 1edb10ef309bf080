------------------------------ MODULE Surfaces ------------------------------
(***************************************************************************)
(* A client's queue against the pool it shows: pages walked, read again on *)
(* arriving or on coming back into reach; the log of what the pool did,    *)
(* heard on a tempo of its own; and what the person archives, returns and  *)
(* tags, drawn at once and sent later.  packages/client/src/{state/state,  *)
(* surfaces/reads,actions/watching,client}.ts and outbox.                  *)
(*                                                                         *)
(* Items are numbered as they were captured, which is what a queue is read *)
(* by.  Where the pool answers a read is where the read is asked: its      *)
(* landing is a later step, and others come between.                       *)
(***************************************************************************)
EXTENDS Integers, Sequences, FiniteSets, SequencesExt

CONSTANTS
    Captures,    \* bound: items there will ever be
    Begin,       \* those captured when the client starts
    Page,        \* rows a read of the queue answers
    LogPage,     \* entries a read of the log answers
    Events,      \* bound: what others do in the pool, what the person decides
                 \* here, turns of the queue, and requests that are lost, in all
    Nothing      \* no item, no read, no copy

ASSUME SurfacesAssumption ==
    /\ Captures \in Nat /\ Begin \in 0..Captures
    /\ Page \in Nat \ {0} /\ LogPage \in Nat \ {0}
    /\ Events \in Nat
    /\ Nothing \notin Int

VARIABLES
    captured,   \* the pool: how many items it holds
    done,       \* ... why each is work no longer
    modified,   \* ... how often each was changed
    log,        \* ... what it did
    copies,     \* the client: the copy it holds of each item
    queue,      \* ... the page it draws
    walks,      \* ... reads of the queue that are out
    rereads,    \* ... reads of items that are out
    mark,       \* ... as far as it has heard of the log
    asked,      \* ... as far as the read of the log that is out reaches
    own,        \* ... the operations of each item still to send or be answered
    away,       \* ... whether the pool did not answer when last asked
    events,     \* events left
    left,       \* history: by read of the queue that is out, what left the queue since
    astray,     \* history: items whose news was crossed or lost
    straight    \* history: no row stands where an undone decision put it back

pool == <<captured, done, modified, log>>
reads == <<walks, rereads, mark, asked>>
client == <<copies, queue, reads, own, away>>
history == <<left, astray, straight>>
vars == <<pool, client, events, history>>

Items == 1..Captures
Orders == {"oldest-first", "newest-first"}
Reasons == {"archived", "routed"}
Decisions == {"archived", "unarchived", "tagged"}
Kinds == {"captured", "archived", "unarchived", "routed", "delivery-withdrawn", "tagged"}

Copy == [done : SUBSET Reasons, modified : Nat]
Unprocessed(copy) == copy.done = {}

ASSUME NothingIsNoCopy == Nothing \notin Copy

(***************************************************************************)
(* Pages.                                                                  *)
(***************************************************************************)
EmptyPage(order) ==
    [order |-> order, ids |-> <<>>, after |-> Nothing, exhausted |-> FALSE,
     loading |-> FALSE, answered |-> FALSE, failed |-> FALSE]

Behind(order, one, other) == IF order = "oldest-first" THEN one > other ELSE one < other

\* Those of a sequence that are in a set, as they stand.
Picked(ids, set) ==
    LET upTo[n \in 0..Len(ids)] ==
            IF n = 0 THEN <<>>
            ELSE IF ids[n] \in set THEN Append(upTo[n - 1], ids[n]) ELSE upTo[n - 1]
    IN  upTo[Len(ids)]

Unpositioned(page) == page.ids = <<>> /\ page.after = Nothing /\ ~page.exhausted

\* Whether an item falls inside what a page has read.
Loaded(page, i) ==
    \/ page.exhausted
    \/ page.after = Nothing /\ page.order = "newest-first"
    \/ page.after # Nothing /\ ~Behind(page.order, i, page.after)

Without(page, i) == [page EXCEPT !.ids = Picked(@, Items \ {i})]

IntoPageAtTheEnd(page, i) ==
    IF Unpositioned(page) \/ i \in ToSet(page.ids) \/ ~Loaded(page, i)
    THEN page
    ELSE [page EXCEPT !.ids = Append(@, i)]

IntoPage(page, i) ==
    LET at == SelectInSeq(page.ids, LAMBDA held : Behind(page.order, held, i))
    IN  IF Unpositioned(page) \/ i \in ToSet(page.ids) \/ ~Loaded(page, i)
        THEN page
        ELSE [page EXCEPT !.ids = InsertAt(@, IF at = 0 THEN Len(@) + 1 ELSE at, i)]

Reconciled(page, copy, i) ==
    IF Unprocessed(copy) THEN IntoPage(page, i) ELSE Without(page, i)

(***************************************************************************)
(* The pool: what it answers, and what others do in it.                    *)
(***************************************************************************)
Answer(i) == [done |-> done[i], modified |-> modified[i]]

\* Its queue past a position, as an order reads it.
Queue(order, after) ==
    Picked([n \in 1..captured |-> IF order = "oldest-first" THEN n ELSE captured + 1 - n],
           {i \in Items : done[i] = {} /\ (after = Nothing \/ Behind(order, i, after))})

Becomes(kind, why) ==
    CASE kind = "archived"           -> why \cup {"archived"}
      [] kind = "unarchived"         -> why \ {"archived"}
      [] kind = "routed"             -> why \cup {"routed"}
      [] kind = "delivery-withdrawn" -> why \ {"routed"}
      [] OTHER                       -> why

Happens(kind, i) ==
    /\ done' = [done EXCEPT ![i] = Becomes(kind, @)]
    /\ modified' = [modified EXCEPT ![i] = @ + 1]
    /\ log' = Append(log, [kind |-> kind, item |-> i, modified |-> modified[i] + 1])

Refuses(kind, i) == kind # "tagged" /\ Becomes(kind, done[i]) = done[i]

Spent == events > 0 /\ events' = events - 1

Captured ==
    /\ Spent /\ captured < Captures
    /\ captured' = captured + 1
    /\ Happens("captured", captured + 1)
    /\ UNCHANGED client

ChangedElsewhere(kind, i) ==
    /\ Spent /\ i <= captured
    /\ kind # "captured" /\ ~Refuses(kind, i)
    /\ Happens(kind, i)
    /\ UNCHANGED <<captured, client>>

(***************************************************************************)
(* Walking the queue.                                                      *)
(***************************************************************************)
\* A read is told where to start by the page it is asked for.
Walk(page, rejoining) ==
    LET rest == Queue(page.order, page.after)
        values == SubSeq(rest, 1, IF Len(rest) < Page THEN Len(rest) ELSE Page)
    IN  /\ walks' = walks \cup {[page |-> page, rejoining |-> rejoining, values |-> values,
                                 more |-> Len(rest) > Page,
                                 items |-> [i \in ToSet(values) |-> Answer(i)]]}
        /\ queue' = [(IF page.order = queue.order THEN queue ELSE page)
                         EXCEPT !.loading = TRUE, !.failed = FALSE]

LoadMore ==
    /\ ~queue.loading /\ ~queue.exhausted
    /\ Walk(queue, FALSE)
    /\ UNCHANGED <<pool, copies, rereads, mark, asked, own, away, events>>

\* Turning the queue around gives up the position, and claims no other.
Turn(order) ==
    /\ Spent
    /\ ~queue.loading /\ order # queue.order
    /\ Walk([EmptyPage(order) EXCEPT !.answered = queue.answered], FALSE)
    /\ UNCHANGED <<pool, copies, rereads, mark, asked, own, away>>

\* Arriving at a queue nobody has read yet is reading it for the first time.
Enter ==
    /\ ~queue.loading /\ ~Unpositioned(queue)
    /\ Walk(EmptyPage(queue.order), TRUE)
    /\ UNCHANGED <<pool, copies, rereads, mark, asked, own, away, events>>

\* What the answer holds, less what left the page while it was out.
Landed(walk) ==
    LET kept == Picked(walk.page.ids, ToSet(queue.ids))
    IN  [walk.page EXCEPT
            !.ids = kept \o Picked(walk.values, Items \ ToSet(kept)),
            !.after = IF walk.more THEN Last(walk.values) ELSE Nothing,
            !.exhausted = ~walk.more, !.loading = FALSE, !.answered = TRUE,
            !.failed = FALSE]

\* What a page holds past the end of another.
PastEnd(fresh, held) ==
    Picked(held.ids, {i \in Items : /\ fresh.ids # <<>>
                                    /\ Behind(fresh.order, i, Last(fresh.ids))
                                    /\ i \notin ToSet(fresh.ids)})

RejoinedThoughExhausted(fresh, held) ==
    LET tail == PastEnd(fresh, held)
    IN  IF tail = <<>>
        THEN fresh
        ELSE [fresh EXCEPT !.ids = @ \o tail, !.exhausted = held.exhausted,
                           !.after = IF held.after = Nothing THEN @ ELSE held.after]

\* A fresh head joined to the tail already walked.
Rejoined(fresh, held) ==
    LET tail == PastEnd(fresh, held)
    IN  IF fresh.exhausted \/ tail = <<>>
        THEN fresh
        ELSE [fresh EXCEPT !.ids = @ \o tail, !.exhausted = held.exhausted,
                           !.after = IF held.after = Nothing THEN @ ELSE held.after]

Lands(walk) ==
    /\ walks' = walks \ {walk}
    /\ copies' = [i \in Items |-> IF i \in DOMAIN walk.items THEN walk.items[i] ELSE copies[i]]
    /\ queue' = IF walk.rejoining THEN Rejoined(Landed(walk), queue) ELSE Landed(walk)
    /\ UNCHANGED <<pool, rereads, mark, asked, own, away, events>>

\* The pool did not answer: somewhere, a request was lost.
Lost == Spent /\ away' = TRUE

WalkFails(walk) ==
    /\ Lost
    /\ walks' = walks \ {walk}
    /\ queue' = [queue EXCEPT !.loading = FALSE, !.answered = queue.ids # <<>>, !.failed = TRUE]
    /\ UNCHANGED <<pool, copies, rereads, mark, asked, own>>

\* The pool answers again: a surface it never answered is read from its start.
Returns ==
    /\ away /\ away' = FALSE
    /\ \/ /\ Unpositioned(queue) /\ ~queue.failed
          /\ UNCHANGED <<walks, queue>>
       \/ /\ ~Unpositioned(queue) \/ queue.failed
          /\ ~queue.answered
          /\ Walk(EmptyPage(queue.order), FALSE)
       \/ /\ ~Unpositioned(queue) \/ queue.failed
          /\ queue.answered
          /\ queue' = [queue EXCEPT !.failed = FALSE]
          /\ UNCHANGED walks
    /\ UNCHANGED <<pool, copies, rereads, mark, asked, own, events>>

(***************************************************************************)
(* What the person decides here.                                           *)
(***************************************************************************)
\* An item a page held goes back to where it stood on it.
Replaced(page, i, at) ==
    IF at = 0 \/ i \in ToSet(page.ids)
    THEN page
    ELSE [page EXCEPT !.ids = InsertAt(@, IF at > Len(@) THEN Len(@) + 1 ELSE at, i)]

Drawn(kind, i) == [copies[i] EXCEPT !.done = Becomes(kind, @)]

Applied(kind, i) ==
    /\ copies' = [copies EXCEPT ![i] = Drawn(kind, i)]
    /\ queue' = IF kind = "archived" THEN Without(queue, i)
                                     ELSE Reconciled(queue, Drawn(kind, i), i)

\* Archiving what is held as not archived, returning what is held as archived, or
\* adding a tag. What it would undo has been handed over to be sent, or it is
\* opposed instead.
Decide(kind, i) ==
    /\ Spent
    /\ copies[i] # Nothing /\ (kind = "tagged" \/ Drawn(kind, i) # copies[i])
    /\ Applied(kind, i)
    /\ own' = [own EXCEPT ![i] = @ \cup
           {[kind |-> kind, at |-> events, tried |-> FALSE, sent |-> FALSE, refused |-> FALSE,
             answer |-> Nothing, before |-> copies[i],
             was |-> SelectInSeq(queue.ids, LAMBDA held : held = i)]}]
    /\ UNCHANGED <<pool, reads, away>>

\* The opposite of what is still to send: neither is sent.
Oppose(kind, i) ==
    /\ copies[i] # Nothing
    /\ Applied(kind, i)
    /\ \E opposed \in SUBSET {o \in own[i] : o.kind \notin {kind, "tagged"} /\ ~o.sent} :
          opposed # {} /\ own' = [own EXCEPT ![i] = @ \ opposed]
    /\ UNCHANGED <<pool, reads, away, events>>

\* One of an item's operations goes at a time, in the order they were made, which
\* is that of fewer and fewer events left; past one that was not answered.
Due(i, o) == \A p \in own[i] : ~p.sent /\ (p.at > o.at => p.tried)

Now(i, o, op) == own' = [own EXCEPT ![i] = (@ \ {o}) \cup {op}]

\* The pool refuses an item archived already, or not archived.
Send(i, o) ==
    /\ Due(i, o)
    /\ \/ /\ Refuses(o.kind, i)
          /\ Now(i, o, [o EXCEPT !.sent = TRUE, !.refused = TRUE])
          /\ UNCHANGED pool
       \/ /\ ~Refuses(o.kind, i)
          /\ Happens(o.kind, i)
          /\ Now(i, o, [o EXCEPT !.sent = TRUE,
                            !.answer = [done |-> done'[i], modified |-> modified'[i]]])
          /\ UNCHANGED captured
    /\ UNCHANGED <<copies, queue, reads, away, events>>

\* The answer is taken whatever was decided of the item since.
Settles(i, o) ==
    /\ o.sent /\ ~o.refused
    /\ copies' = [copies EXCEPT ![i] = o.answer]
    /\ queue' = Reconciled(queue, o.answer, i)
    /\ own' = [own EXCEPT ![i] = @ \ {o}]
    /\ UNCHANGED <<pool, reads, away, events>>

\* A refusal takes back what was drawn.
Refused(i, o) ==
    /\ o.sent /\ o.refused
    /\ copies' = [copies EXCEPT ![i] = o.before]
    /\ queue' = IF o.kind = "archived" THEN Replaced(queue, i, o.was)
                                       ELSE Reconciled(queue, o.before, i)
    /\ own' = [own EXCEPT ![i] = @ \ {o}]
    /\ UNCHANGED <<pool, reads, away, events>>

\* A request or an answer that never came: what was drawn stands, and it is sent
\* again.
Unanswered(i, o) ==
    /\ o.sent \/ Due(i, o)
    /\ Lost
    /\ Now(i, o, [o EXCEPT !.tried = TRUE, !.sent = FALSE, !.refused = FALSE,
                          !.answer = Nothing])
    /\ UNCHANGED <<pool, copies, queue, reads>>

(***************************************************************************)
(* Hearing what the pool did.                                              *)
(***************************************************************************)
Ask ==
    /\ asked = Nothing /\ asked' = Len(log)
    /\ mark # asked'
    /\ UNCHANGED <<pool, copies, queue, walks, rereads, mark, own, away, events>>

\* The entries above the mark, or a whole page where the mark is not on it.
Oldest == IF asked > LogPage THEN asked - LogPage + 1 ELSE 1
News ==
    IF mark = Nothing THEN <<>>
    ELSE SubSeq(log, IF mark >= Oldest THEN mark + 1 ELSE Oldest, asked)

Processing == {"archived", "routed"}
Returning == {"unarchived", "delivery-withdrawn"}
Rerouting == {"routed"}

\* A processed item leaves. A tag its copy lacks puts the item where the copy belongs.
CaughtUp(page, entry) ==
    LET i == entry.item
    IN  IF entry.kind \in Processing THEN Without(page, i)
        ELSE IF entry.kind = "tagged" /\ copies[i] # Nothing
             THEN IF copies[i].modified < entry.modified
                  THEN Reconciled(page, copies[i], i) ELSE page
             ELSE page

\* A page once it has heard the news, oldest first.
Caught(page, news) ==
    LET upTo[n \in 0..Len(news)] ==
            IF n = 0 THEN page ELSE CaughtUp(upTo[n - 1], news[n])
    IN  upTo[Len(news)]

\* What the news leaves to read, where no operation is still to be answered.
Heard ==
    {entry.item : entry \in {e \in ToSet(News) :
        /\ own[e.item] = {}
        /\ \/ e.kind = "captured" /\ copies[e.item] = Nothing
           \/ e.kind \in Returning
           \/ e.kind \in Rerouting /\ copies[e.item] # Nothing}}

AskLands ==
    /\ asked # Nothing /\ asked' = Nothing
    /\ mark' = IF asked = 0 THEN mark ELSE asked
    /\ queue' = Caught(queue, News)
    /\ rereads' = IF Heard = {} THEN rereads
                  ELSE rereads \cup {[i \in Heard |-> Answer(i)]}
    /\ UNCHANGED <<pool, copies, walks, own, away, events>>

AskFails ==
    /\ asked # Nothing /\ asked' = Nothing /\ Lost
    /\ UNCHANGED <<pool, copies, queue, walks, rereads, mark, own>>

StandsWhateverIsUnsent(answer, i) ==
    /\ i \in DOMAIN answer
    /\ copies[i] # Nothing => copies[i].modified <= answer[i].modified

StandsHoweverOld(answer, i) ==
    /\ i \in DOMAIN answer
    /\ own[i] = {}

\* The answer holds where nothing is still to send and the copy is no newer.
Stands(answer, i) ==
    /\ i \in DOMAIN answer
    /\ own[i] = {}
    /\ copies[i] # Nothing => copies[i].modified <= answer[i].modified

\* A page once the items of an answer that stand are where they belong.
Placed(page, answer, standing) ==
    LET upTo[n \in 0..Captures] ==
            IF n = 0 THEN page
            ELSE IF n \in standing THEN Reconciled(upTo[n - 1], answer[n], n)
                                   ELSE upTo[n - 1]
    IN  upTo[Captures]

RereadLands(answer) ==
    LET standing == {i \in Items : Stands(answer, i)}
    IN  /\ rereads' = rereads \ {answer}
        /\ copies' = [i \in Items |-> IF i \in standing THEN answer[i] ELSE copies[i]]
        /\ queue' = Placed(queue, answer, standing)
        /\ UNCHANGED <<pool, walks, mark, asked, own, away, events>>

RereadFails(answer) ==
    /\ Lost
    /\ rereads' = rereads \ {answer}
    /\ UNCHANGED <<pool, copies, queue, walks, mark, asked, own>>

(***************************************************************************)
(* What the properties remember.                                           *)
(***************************************************************************)
Rows == ToSet(queue.ids)
Stirs == {i \in Items : modified'[i] # modified[i] \/ own'[i] # own[i]}

\* News told by nothing later: an item changed, decided on or placed while a
\* read of the queue was out, or any where two were; one archived while a read of it was, or tagged
\* after that; an operation refused; entries older than a page of the log or
\* the mark; and a read of items that was lost.
Crossed ==
    IF \E one, other \in walks' : one # other THEN Items
    ELSE IF walks \cap walks' = {} THEN {} ELSE Stirs \cup (ToSet(queue'.ids) \ Rows)

LeftUnderRead ==
    {i \in UNION {DOMAIN answer : answer \in rereads} :
        /\ log' # log /\ Last(log').item = i
        /\ \/ Last(log').kind = "archived"
           \/ Last(log').kind = "routed" /\ copies[i] = Nothing}

TaggedArchived ==
    {i \in Items : /\ log' # log /\ Last(log').item = i /\ Last(log').kind = "tagged"
                   /\ "archived" \in done[i]}

RefusedNow == {i \in Items : \E o \in own[i] : o.refused /\ o \notin own'[i]}

HeardUnderAnswer ==
    IF asked = Nothing \/ asked' # Nothing \/ mark' # asked THEN {}
    ELSE {e.item : e \in {n \in ToSet(News) : \E o \in own[n.item] :
             o.sent /\ ~o.refused /\ n.modified > o.answer.modified}}

OpposedStale ==
    {i \in Items : /\ own[i] # {} /\ own'[i] = {} /\ \A o \in own[i] : ~o.sent
                   /\ copies'[i] # Answer(i)}

Untold ==
    IF asked = Nothing \/ mark' = mark THEN {}
    ELSE {log[n].item : n \in (IF mark = Nothing THEN Begin + 1..asked ELSE mark + 1..Oldest - 1)}

Unread ==
    UNION {DOMAIN answer : answer \in IF events' < events THEN rereads \ rereads' ELSE {}}

\* A row put back by the index it had stands in no order, and a tail joined to
\* a page that was turned in the meantime in another's.
Tilts ==
    \/ RefusedNow \cap (ToSet(queue'.ids) \ Rows) # {}
    \/ \E walk \in walks \ walks' : walk.rejoining /\ walk.page.order # queue.order

Remembered ==
    /\ left' = [walk \in walks' |->
           IF walk \in walks THEN left[walk] \cup (Rows \ ToSet(queue'.ids)) ELSE {}]
    /\ astray' = astray \cup Crossed \cup LeftUnderRead \cup TaggedArchived
                        \cup RefusedNow \cup HeardUnderAnswer \cup OpposedStale \cup Untold \cup Unread
    /\ straight' = (~Tilts /\ (straight \/ (walks' = {} /\ queue'.ids = <<>>)))

-----------------------------------------------------------------------------

Init ==
    /\ captured = Begin
    /\ done = [i \in Items |-> {}]
    /\ modified = [i \in Items |-> 0]
    /\ log = [i \in 1..Begin |-> [kind |-> "captured", item |-> i, modified |-> 0]]
    /\ copies = [i \in Items |-> Nothing]
    /\ queue \in {EmptyPage(order) : order \in Orders}
    /\ walks = {} /\ rereads = {} /\ mark = Nothing /\ asked = Nothing
    /\ own = [i \in Items |-> {}]
    /\ away = FALSE
    /\ events = Events
    /\ left = <<>> /\ astray = {} /\ straight = TRUE

Others == Captured \/ \E kind \in Kinds, i \in Items : ChangedElsewhere(kind, i)

Reader ==
    \/ LoadMore \/ Enter \/ Returns
    \/ \E order \in Orders : Turn(order)
    \/ \E walk \in walks : Lands(walk) \/ WalkFails(walk)

Person ==
    \E i \in Items :
        \/ \E kind \in Decisions : Decide(kind, i)
        \/ \E kind \in {"archived", "unarchived"} : Oppose(kind, i)
        \/ \E o \in own[i] : Send(i, o) \/ Settles(i, o) \/ Refused(i, o) \/ Unanswered(i, o)

Watcher ==
    \/ Ask \/ AskLands \/ AskFails
    \/ \E answer \in rereads : RereadLands(answer) \/ RereadFails(answer)

Next == (Others \/ Reader \/ Person \/ Watcher) /\ Remembered

Spec == Init /\ [][Next]_vars

-----------------------------------------------------------------------------

AtRest ==
    /\ walks = {} /\ rereads = {} /\ asked = Nothing /\ mark = Len(log)
    /\ \A i \in Items : own[i] = {}

\* An item no further than the position a page has been read to.
Walked(page, i) ==
    \/ page.exhausted
    \/ page.after # Nothing /\ ~Behind(page.order, i, page.after)

\* A page holds an item only where it is work, and all that is as far as it goes.
Shows(page, i) ==
    /\ i \in ToSet(page.ids) => done[i] = {}
    /\ done[i] = {} /\ Walked(page, i) => i \in ToSet(page.ids)

\* Where nothing is out or still to send and all of the log is heard, every row
\* of the queue is work in the pool, and all work as far as the queue has been
\* walked is a row, in whatever order pages, news, answers and undone decisions
\* landed: of all items but the ones whose news the code itself crosses or
\* loses, which Remembered lists (walk, reconciled, caughtUp, heard, rejoined).
RestRight == AtRest => \A i \in 1..captured \ astray : Shows(queue, i)

\* Rows stand in the order the queue is read by, whether a page, a joined tail
\* or news put them there (extended, rejoined, intoPage), until a row whose
\* decision was refused is put back by the index it had, which others have left
\* since, and again once the page has been emptied (replaced).
InOrder ==
    straight =>
        \A one, other \in 1..Len(queue.ids) :
            one < other => Behind(queue.order, queue.ids[other], queue.ids[one])

\* What the person archived here and the pool has not answered yet comes back
\* onto the queue by a read of the queue or by what becomes of an operation of
\* the same item, which may be one made before it: not by news, not by a read
\* the news asked for, not by what is decided or answered of another item
\* (heard, unsent).
DecisionStands ==
    [][\A i \in Items :
          (\E o \in own[i] : o.kind = "archived") /\ "archived" \in copies[i].done /\ i \notin Rows
              => own'[i] # own[i] \/ walks' # walks \/ i \notin ToSet(queue'.ids)]_vars

\* A row that left the queue while a read of it was out is not carried back by
\* that read's landing (stillHeld: "a read that started before they left does
\* not carry them back").
GoneStaysGone ==
    [][\A walk \in walks \ walks' : ToSet(queue'.ids) \cap left[walk] \subseteq Rows]_vars

HeadRight ==
    LET work == Queue(queue.order, Nothing)
        shown == IF Len(queue.ids) < Page THEN Len(queue.ids) ELSE Page
    IN  Unpositioned(queue)
        \/ IF Len(work) <= Page THEN queue.ids = work
                                ELSE SubSeq(queue.ids, 1, shown) = SubSeq(work, 1, Page)

Arrived == \E walk \in walks : walk.rejoining /\ Lands(walk)

\* A person who goes on arriving at the queue, once the pool has stopped
\* changing, comes to see the first page of what is work and no more where that
\* is all, whatever was crossed or lost before (enter, rejoined).
ArrivingRights == []<><<Arrived>>_vars => <>[]HeadRight

=============================================================================
