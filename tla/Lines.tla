------------------------------- MODULE Lines --------------------------------
(***************************************************************************)
(* What follows from one note in another system: a relay reads it over and *)
(* over and captures it, people edit what it became, and the pool keeps    *)
(* one line of items. core/src/pool/{capture,edit,lines,archive}.ts and    *)
(* relay/src/relay.ts with the poll of relay-memos.                        *)
(*                                                                         *)
(* Items are numbered as their ids sort. A version is never used twice.    *)
(***************************************************************************)
EXTENDS Naturals, FiniteSets

CONSTANTS
    Items,       \* bound: items of the line, numbered from 1
    Upstream,    \* the words the note may have where it lives
    First,       \* those it has to begin with
    Ours,        \* the words people may write
    Edits,       \* bound: edits by hand, numbered, each with its own identity
    Versions,    \* bound: how often the note changes where it lives
    Faults,      \* bound: requests given up on, and answers nobody heard
    Nothing      \* no words, no item, nothing asked

ASSUME LinesAssumption ==
    /\ Items \subseteq Nat \ {0}
    /\ IsFiniteSet(Items)
    /\ Edits \subseteq Nat
    /\ First \in Upstream
    /\ Nothing \notin Upstream \cup Ours \cup Items
    /\ Versions \in Nat \ {0}
    /\ Faults \in Nat

VARIABLES
    identity,   \* the identity each item claims: none, and there is no such item
    says,       \* what it says
    word,       \* what the source last said, where the item says otherwise
    from,       \* what it is a revision of
    continues,  \* what it continues
    sealed,     \* those archived, or perhaps sent somewhere
    version,    \* the note where it lives: how often it has changed
    text,       \* ... and what it says
    relay,      \* what the relay is asking of the pool
    late,       \* what it gave up on, which may arrive yet
    hand,       \* the edits people have made
    faults,     \* faults left
    touches,    \* history: how often each item was written by hand
    heard       \* history: the version whose words the line took as the source's

pool == <<identity, says, word, from, continues>>
people == <<sealed, hand, touches>>
vars == <<pool, people, version, text, relay, late, faults, heard>>

Words == Upstream \cup Ours

\* What an item is known by: its source's own id, or that of the edit it came of.
NoIdentity == [of |-> "nothing", n |-> 0]
Plain == [of |-> "note", n |-> 0]
Edited(v) == [of |-> "edit", n |-> v]
Continued(v) == [of |-> "continued", n |-> v]
ByHand(e) == [of |-> "hand", n |-> e]

Identities ==
    {Plain} \cup {Edited(v) : v \in 1..Versions} \cup {Continued(v) : v \in 1..Versions}
            \cup {ByHand(e) : e \in Edits}

\* Where an edit came of what the pool said, how often the item it names had
\* been written by hand by then.
Requests ==
    [kind : {"none", "capture", "edit", "continue"}, version : 0..Versions,
     words : Words \cup {Nothing}, item : Items \cup {Nothing}, read : Nat]

Written(i, words) == [kind |-> "none", version |-> 0, words |-> words, item |-> i, read |-> 0]

Idle == Written(Nothing, Nothing)

Init ==
    /\ identity = [i \in Items |-> NoIdentity]
    /\ says = [i \in Items |-> Nothing]
    /\ word = [i \in Items |-> Nothing]
    /\ from = [i \in Items |-> Nothing]
    /\ continues = [i \in Items |-> Nothing]
    /\ sealed = {}
    /\ version = 1
    /\ text = First
    /\ relay = Idle
    /\ late = {}
    /\ hand = [e \in Edits |-> Idle]
    /\ faults = Faults
    /\ touches = [i \in Items |-> 0]
    /\ heard = 0

-----------------------------------------------------------------------------
(* A line and its head.                                                     *)

Is(i) == identity[i] # NoIdentity

Holds(i, id) == identity[i] = id

Taken(id) == \E i \in Items : Holds(i, id)

Revisions(i) == {j \in Items : from[j] = i}

Continuations(i) == {j \in Items : continues[j] = i}

\* (Faulty.) The latest revision only.
LatestRevision(i) ==
    CHOOSE j \in Revisions(i) \cup {i} : \A k \in Revisions(i) \cup {i} : k <= j

\* The latest revision, or else the continuation.
NextOf(i) ==
    IF Revisions(i) # {}
    THEN CHOOSE j \in Revisions(i) : \A k \in Revisions(i) : k <= j
    ELSE CHOOSE j \in Continuations(i) \cup {i} : Continuations(i) # {} => j # i

HeadOf[i \in Items] == IF NextOf(i) = i THEN i ELSE HeadOf[NextOf(i)]

\* (Faulty.) Whichever item is named.
AnyItem(i) == Is(i)

\* The walk from it ends where it starts.
IsHead(i) == Is(i) /\ Revisions(i) = {} /\ Continuations(i) = {}

SourceWord(i) == IF word[i] = Nothing THEN says[i] ELSE word[i]

\* (Faulty.) What the source said is forgotten.
ForgetsWord(i, words, bySource) == Nothing

KeptWord(i, words, bySource) ==
    IF bySource \/ words = SourceWord(i) THEN Nothing ELSE SourceWord(i)

-----------------------------------------------------------------------------
(* What the pool does with an edit or a capture, each in one transaction.   *)

Sealed(i) == i \in sealed \/ Revisions(i) # {}

\* Ids grow.
Fresh(j) == ~Is(j) /\ \A k \in Items : Is(k) <=> k < j

Insert(id, words, kept, revised, continued) ==
    \E j \in Items :
        /\ Fresh(j)
        /\ identity' = [identity EXCEPT ![j] = id]
        /\ says' = [says EXCEPT ![j] = words]
        /\ word' = [word EXCEPT ![j] = kept]
        /\ from' = [from EXCEPT ![j] = revised]
        /\ continues' = [continues EXCEPT ![j] = continued]

Amend(i, words, bySource) ==
    /\ Is(i)
    /\ ~Sealed(i)
    /\ says' = [says EXCEPT ![i] = words]
    /\ word' = [word EXCEPT ![i] = KeptWord(i, words, bySource)]
    /\ UNCHANGED <<identity, from, continues>>

Revise(i, id, words, bySource) ==
    /\ Sealed(i)
    /\ ~Taken(id)
    /\ IsHead(i)
    /\ Insert(id, words, KeptWord(i, words, bySource), i, Nothing)

\* Made before, the identity taken by something else, or behind the head.
EditRefused(i, id) == Sealed(i) /\ (Taken(id) \/ ~IsHead(i)) /\ UNCHANGED pool

\* Only a head that somebody else has changed is continued.
Continuable(i) == word[i] # Nothing /\ IsHead(i)

Continue(i, id, words) ==
    /\ ~Taken(id)
    /\ Continuable(i)
    /\ Insert(id, words, Nothing, Nothing, i)

ContinueRefused(i, id) == (Taken(id) \/ ~Continuable(i)) /\ UNCHANGED pool

-----------------------------------------------------------------------------
(* The note where it lives, and people.                                     *)

NoteChanges ==
    /\ version < Versions
    /\ version' = version + 1
    /\ text' \in Upstream \ {text}
    /\ UNCHANGED <<pool, people, relay, late, faults, heard>>

Fault == faults > 0 /\ faults' = faults - 1

Touch(i) == touches' = [touches EXCEPT ![i] = @ + 1]

\* As it reaches the pool, whatever the person had before them.
Lands(e, i, words) ==
    \/ Amend(i, words, FALSE) /\ Touch(i)
    \/ Revise(i, ByHand(e), words, FALSE) /\ UNCHANGED touches
    \/ EditRefused(i, ByHand(e)) /\ UNCHANGED touches

EditByHand(e, i, words) ==
    /\ hand[e] = Idle
    /\ \A earlier \in Edits : earlier < e => hand[earlier] # Idle
    /\ Is(i)
    /\ hand' = [hand EXCEPT ![e] = Written(i, words)]
    /\ Lands(e, i, words)
    /\ UNCHANGED <<sealed, version, text, relay, late, faults, heard>>

\* Nobody heard the answer.
ResendByHand(e) ==
    /\ hand[e] # Idle
    /\ Fault
    /\ Lands(e, hand[e].item, hand[e].words)
    /\ UNCHANGED <<sealed, hand, version, text, relay, late, heard>>

\* Archived, or handed to a destination; and taken back, or withdrawn.
Seal(i) ==
    /\ Is(i)
    /\ sealed' = IF i \in sealed THEN sealed \ {i} ELSE sealed \cup {i}
    /\ UNCHANGED <<pool, hand, touches, version, text, relay, late, faults, heard>>

-----------------------------------------------------------------------------
(* The relay.                                                               *)

Asks(kind, item, read) ==
    relay' = [relay EXCEPT !.kind = kind, !.item = item, !.read = read]

Poll ==
    /\ relay = Idle
    /\ relay' = [Idle EXCEPT !.kind = "capture", !.version = version, !.words = text]
    /\ UNCHANGED <<pool, people, version, text, late, faults, heard>>

\* The identity is new to the pool.
Captured ==
    /\ relay.kind = "capture"
    /\ ~Taken(Plain)
    /\ Insert(Plain, relay.words, Nothing, Nothing, Nothing)
    /\ relay' = Idle
    /\ heard' = relay.version
    /\ UNCHANGED <<people, version, text, late, faults>>

\* The item a re-read is answered by.
Answers == {HeadOf[h] : h \in {h \in Items : Holds(h, Plain)}} \cap {i \in Items : Is(i)}

Said(i) == relay.words \in {says[i], word[i]}

Unchanged(i) ==
    /\ Said(i)
    /\ relay' = Idle
    /\ heard' = IF SourceWord(i) = relay.words THEN relay.version ELSE heard
    /\ UNCHANGED <<pool, people, version, text, late, faults>>

\* (Faulty.) Nothing is a divergence.
NeverDiverges(i) == FALSE

\* Somebody else has changed it too.
Diverges(i) == word[i] # Nothing

Changed(i) ==
    /\ ~Said(i)
    /\ Asks(IF Diverges(i) THEN "continue" ELSE "edit", i, touches[i])
    /\ UNCHANGED <<pool, people, version, text, late, faults, heard>>

Reread == relay.kind = "capture" /\ \E i \in Answers : Unchanged(i) \/ Changed(i)

\* Words written over an item behind the head are nothing the line has heard.
EditLands ==
    /\ relay.kind = "edit"
    /\ \/ /\ Amend(relay.item, relay.words, TRUE)
          /\ heard' = IF IsHead(relay.item) THEN relay.version ELSE heard
       \/ /\ Revise(relay.item, Edited(relay.version), relay.words, TRUE)
          /\ heard' = relay.version
       \/ EditRefused(relay.item, Edited(relay.version)) /\ UNCHANGED heard
    /\ relay' = Idle
    /\ UNCHANGED <<people, version, text, late, faults>>

ContinueLands ==
    /\ relay.kind = "continue"
    /\ \/ /\ Continue(relay.item, Continued(relay.version), relay.words)
          /\ heard' = relay.version
       \/ ContinueRefused(relay.item, Continued(relay.version)) /\ UNCHANGED heard
    /\ relay' = Idle
    /\ UNCHANGED <<people, version, text, late, faults>>

\* The relay or the way to the pool is gone; the next poll reads it all again.
GiveUp ==
    /\ relay # Idle
    /\ Fault
    /\ late' = late \cup {relay}
    /\ relay' = Idle
    /\ UNCHANGED <<pool, people, version, text, heard>>

\* What nobody waits for any more arrives. Of a capture, only the first changes
\* anything.
ArrivesLate(r) ==
    /\ late' = late \ {r}
    /\ \/ r.kind = "capture" /\ ~Taken(Plain) /\ Insert(Plain, r.words, Nothing, Nothing, Nothing)
       \/ r.kind = "edit" /\ Amend(r.item, r.words, TRUE)
       \/ r.kind = "edit" /\ Revise(r.item, Edited(r.version), r.words, TRUE)
       \/ r.kind = "continue" /\ Continue(r.item, Continued(r.version), r.words)
    /\ heard' = 0
    /\ UNCHANGED <<people, version, text, relay, faults>>

-----------------------------------------------------------------------------
People ==
    \/ \E e \in Edits, i \in Items, words \in Ours : EditByHand(e, i, words)
    \/ \E e \in Edits : ResendByHand(e)
    \/ \E i \in Items : Seal(i)

Relay == Poll \/ Captured \/ Reread \/ EditLands \/ ContinueLands

Unanswered == GiveUp \/ \E r \in late : ArrivesLate(r)

Next == NoteChanges \/ People \/ Relay \/ Unanswered

Spec == Init /\ [][Next]_vars

\* The relay polls for ever, and the pool answers what is asked of it: at any
\* moment there is one thing for it to do next.
Fairness == WF_vars(Relay)

FairSpec == Spec /\ Fairness

-----------------------------------------------------------------------------
TypeOK ==
    /\ identity \in [Items -> Identities \cup {NoIdentity}]
    /\ says \in [Items -> Words \cup {Nothing}]
    /\ word \in [Items -> Words \cup {Nothing}]
    /\ from \in [Items -> Items \cup {Nothing}]
    /\ continues \in [Items -> Items \cup {Nothing}]
    /\ sealed \subseteq Items
    /\ version \in 1..Versions
    /\ text \in Upstream
    /\ relay \in Requests
    /\ late \subseteq Requests
    /\ hand \in [Edits -> Requests]
    /\ faults \in 0..Faults
    /\ touches \in [Items -> Nat]
    /\ heard \in 0..Versions

\* core.md: revisions form a chain and a line never forks, whoever edits it, from
\* whatever they had read, and however often an edit or a capture is sent.
LineNeverForks ==
    \A i, j, k \in Items :
        {j, k} \subseteq Revisions(i) \cup Continuations(i) => j = k

\* relay.ts: words a person wrote are not overwritten by an edit of the source's
\* that had read them. One they wrote after that read is, which is the window
\* the pool leaves open.
ReadWordsSurvive ==
    [][\A i \in Items :
          /\ word[i] # Nothing
          /\ says'[i] # says[i]
          /\ touches'[i] = touches[i]
          => \E r \in {relay} \cup late : r.kind = "edit" /\ r.item = i /\ r.read < touches[i]]_vars

\* ADR 64: a re-read is not an edit. Once the line has a version's words as the
\* source's, no poll of that version changes anything, whatever people have done
\* to the line since.
RereadIsNoEdit ==
    [][heard # 0 /\ relay.version = heard /\ relay' = Idle /\ late' = late
       => UNCHANGED pool]_vars

\* relay.ts: once the note is left alone, the head of the line comes to say its
\* words or to hold them as the source's, and does from then on, however late,
\* lost or refused a request was.
FollowsUpstream ==
    <>[](\E i \in Answers : text \in {says[i], word[i]})
=============================================================================
