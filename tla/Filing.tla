------------------------------- MODULE Filing -------------------------------
(***************************************************************************)
(* Trigger tags: packages/core/src/pool/tags.ts, templates/fire.ts,        *)
(* templates/apply.ts, templates/lifecycle.ts, and what capture.ts,        *)
(* routing/withdraw.ts, routing/route.ts and work.ts do to a record a      *)
(* template made and to the tag that says so.                              *)
(*                                                                         *)
(* What a call would file is worked out before its transaction opens, from *)
(* reads that other calls' transactions fall between.                      *)
(***************************************************************************)
EXTENDS Functions

CONSTANTS
    Items,      \* captures
    Templates,  \* saved decisions
    Tags,       \* tags under route/
    Places,     \* a destination, a capability and arguments: where a template files
    Records,    \* bound: routing records ever made
    Calls,      \* bound: calls ever made
    Changes,    \* bound: edits and deletions of templates, each made once
    Nothing     \* no template, no tag, no item

ASSUME FilingAssumption ==
    /\ Nothing \notin Templates
    /\ Nothing \notin Tags
    /\ Nothing \notin Places
    /\ Nothing \notin Items

VARIABLES
    captured,  \* the items the pool holds
    tags,      \* the trigger tags each wears
    stage,     \* whether each template is yet to be written, is, or was deleted
    claim,     \* the tag each declares
    place,     \* where each files
    founded,   \* those that count their folder as made
    record,    \* the routing records
    shown,     \* history: the tag that fired each, while its template keeps it
    call,      \* what each call has read
    made       \* the edits and deletions made

templateVars == <<stage, claim, place, founded>>
vars == <<captured, tags, templateVars, record, shown, call, made>>

States == {"none", "pending", "held", "delivered", "withdrawn", "gone"}

RecordRows ==
    [item : Items \cup {Nothing}, template : Templates \cup {Nothing},
     place : Places \cup {Nothing}, by : {"none", "tag", "capture", "composer"}, state : States]

NoRecord ==
    [item |-> Nothing, template |-> Nothing, place |-> Nothing, by |-> "none", state |-> "none"]

\* What a capture has found it is to file.
Firings == [tag : Tags, template : Templates, place : Places \cup {Nothing}]

CallRows ==
    [kind : {"none", "tag", "capture", "compose"},
     phase : {"idle", "answered", "looking", "weighing", "writing"},
     item : Items \cup {Nothing}, tag : Tags \cup {Nothing},
     template : Templates \cup {Nothing}, place : Places \cup {Nothing},
     firing : {"none", "skipped", "fires", "refused"}, required : BOOLEAN,
     left : SUBSET Tags, keeps : SUBSET Tags, firings : SUBSET Firings]

NoCall ==
    [kind |-> "none", phase |-> "idle", item |-> Nothing, tag |-> Nothing,
     template |-> Nothing, place |-> Nothing, firing |-> "none", required |-> FALSE,
     left |-> {}, keeps |-> {}, firings |-> {}]

Init ==
    /\ captured = {}
    /\ tags = [i \in Items |-> {}]
    /\ stage = [t \in Templates |-> "unwritten"]
    /\ claim = [t \in Templates |-> Nothing]
    /\ place = [t \in Templates |-> Nothing]
    /\ founded = {}
    /\ record = [r \in Records |-> NoRecord]
    /\ shown = [r \in Records |-> Nothing]
    /\ call = [c \in Calls |-> NoCall]
    /\ made = {}

-----------------------------------------------------------------------------
(* What the code asks of the store.                                         *)

\* A tag is claimed by one template at most.
Claimant(g) ==
    IF \E t \in Templates : claim[t] = g THEN CHOOSE t \in Templates : claim[t] = g
    ELSE Nothing

Pending(r) == record[r].state \in {"pending", "held"}

Standing(r) == Pending(r) \/ record[r].state = "delivered"

About(r, i, t) == record[r].item = i /\ record[r].template = t

AlreadyApplied(i, t) == \E r \in Records : About(r, i, t) /\ Standing(r)

-----------------------------------------------------------------------------
(* Templates.                                                               *)

\* (Faulty.) An edit does not look for another claim.
MayClaimUnlooked(t, g) == g = Nothing \/ stage[t] = "live" \/ Claimant(g) = Nothing

\* The tag is free, or this template's own.
MayClaim(t, g) == g = Nothing \/ Claimant(g) \in {Nothing, t}

\* What the history shows of a record ends when its template's tag changes.
Unshown(t) == [r \in Records |-> IF record[r].template = t THEN Nothing ELSE shown[r]]

CreateTemplate(t, g, p) ==
    /\ stage[t] = "unwritten"
    /\ MayClaim(t, g)
    /\ stage' = [stage EXCEPT ![t] = "live"]
    /\ claim' = [claim EXCEPT ![t] = g]
    /\ place' = [place EXCEPT ![t] = p]
    /\ UNCHANGED <<captured, tags, founded, record, shown, call, made>>

\* A changed place is a different place, whose folder is not made yet.
EditTemplate(t, g, p, n) ==
    /\ stage[t] = "live"
    /\ n \notin made
    /\ claim[t] # g \/ place[t] # p
    /\ MayClaim(t, g)
    /\ claim' = [claim EXCEPT ![t] = g]
    /\ place' = [place EXCEPT ![t] = p]
    /\ founded' = IF place[t] = p THEN founded ELSE founded \ {t}
    /\ shown' = IF claim[t] = g THEN shown ELSE Unshown(t)
    /\ made' = made \cup {n}
    /\ UNCHANGED <<captured, tags, stage, record, call>>

\* Records go on naming a template that is gone.
DeleteTemplate(t, n) ==
    /\ stage[t] = "live"
    /\ n \notin made
    /\ stage' = [stage EXCEPT ![t] = "deleted"]
    /\ claim' = [claim EXCEPT ![t] = Nothing]
    /\ place' = [place EXCEPT ![t] = Nothing]
    /\ founded' = founded \ {t}
    /\ shown' = Unshown(t)
    /\ made' = made \cup {n}
    /\ UNCHANGED <<captured, tags, record, call>>

-----------------------------------------------------------------------------
(* Tagging.                                                                 *)

AskToTag(c, i, g) ==
    /\ call[c] = NoCall
    /\ call' = [call EXCEPT ![c] = [NoCall EXCEPT !.kind = "tag", !.phase = "looking",
                                                  !.item = i, !.tag = g]]
    /\ UNCHANGED <<captured, tags, templateVars, record, shown, made>>

\* What the tag would apply.
LookUp(c) ==
    /\ call[c].phase = "looking"
    /\ call[c].kind = "tag"
    /\ LET t == Claimant(call[c].tag)
       IN  call' = [call EXCEPT ![c].template = t,
                                ![c].place = IF t = Nothing THEN Nothing ELSE place[t],
                                ![c].phase = IF t = Nothing THEN "writing" ELSE "weighing"]
    /\ UNCHANGED <<captured, tags, templateVars, record, shown, made>>

\* A template is nothing to an item that is not there; one the item wears the
\* tag of, or that has decided it, fires nothing; any other asks the destination.
Weigh(c) ==
    /\ call[c].phase = "weighing"
    /\ call[c].kind = "tag"
    /\ LET i == call[c].item
           t == call[c].template
       IN  \/ /\ i \notin captured
              /\ call' = [call EXCEPT ![c].template = Nothing, ![c].place = Nothing,
                                      ![c].phase = "writing"]
           \/ /\ i \in captured
              /\ ~call[c].required
              /\ call[c].tag \in tags[i] \/ AlreadyApplied(i, t)
              /\ call' = [call EXCEPT ![c].firing = "skipped", ![c].phase = "writing"]
           \/ /\ i \in captured
              /\ call[c].required \/ ~(call[c].tag \in tags[i] \/ AlreadyApplied(i, t))
              /\ \E firing \in {"fires", "refused"} :
                    call' = [call EXCEPT ![c].firing = firing, ![c].phase = "writing"]
    /\ UNCHANGED <<captured, tags, templateVars, record, shown, made>>

\* (Faulty.) What was read before the transaction decides.
DecidedWhenRead(c) == call[c].firing = "skipped"

\* A decision this template made already stands on the item.
Decided(c) == call[c].template # Nothing /\ AlreadyApplied(call[c].item, call[c].template)

\* (Faulty.) The firing was skipped, and the tag is written all the same.
NeverGoesRound(c) == FALSE

\* The firing was skipped on a reading that no longer holds.
GoesRound(c) == call[c].firing = "skipped" /\ ~Decided(c)

Done == [NoCall EXCEPT !.phase = "answered"]

Answered(c) == call' = [call EXCEPT ![c] = Done]

Reservation(i, f, by) ==
    [item |-> i, template |-> f.template, place |-> f.place, by |-> by, state |-> "pending"]

\* The tag that fires, while the template it was read under keeps it.
ShownBy(f) == IF f.template = Claimant(f.tag) THEN f.tag ELSE Nothing

Reserve(r, c, by) ==
    /\ record[r] = NoRecord
    /\ record' = [record EXCEPT ![r] = Reservation(call[c].item, call[c], by)]
    /\ shown' = [shown EXCEPT ![r] = ShownBy(call[c])]

Wear(i, g) == tags' = [tags EXCEPT ![i] = @ \cup {g}]

Shed(i, g) == tags' = [tags EXCEPT ![i] = @ \ {g}]

\* Not there, worn already, or refused: nothing is written.
TagNothing(c) ==
    /\ call[c].phase = "writing"
    /\ call[c].kind = "tag"
    /\ \/ call[c].item \notin captured
       \/ call[c].tag \in tags[call[c].item]
       \/ ~GoesRound(c) /\ call[c].firing = "refused" /\ ~Decided(c)
    /\ Answered(c)
    /\ UNCHANGED <<captured, tags, templateVars, record, shown, made>>

Writes(c) ==
    /\ call[c].phase = "writing"
    /\ call[c].kind = "tag"
    /\ call[c].item \in captured
    /\ call[c].tag \notin tags[call[c].item]

TagAgain(c) ==
    /\ Writes(c)
    /\ GoesRound(c)
    /\ call' = [call EXCEPT ![c] = [@ EXCEPT !.phase = "looking", !.template = Nothing,
                                             !.place = Nothing, !.firing = "none",
                                             !.required = TRUE]]
    /\ UNCHANGED <<captured, tags, templateVars, record, shown, made>>

\* The tag alone: nothing claims it, or what it would file is filed.
TagPlain(c) ==
    /\ Writes(c)
    /\ ~GoesRound(c)
    /\ call[c].firing \notin {"fires", "refused"} \/ Decided(c)
    /\ Wear(call[c].item, call[c].tag)
    /\ Answered(c)
    /\ UNCHANGED <<captured, templateVars, record, shown, made>>

\* The tag, the reservation and its job in one transaction.
TagFires(c, r) ==
    /\ Writes(c)
    /\ call[c].firing = "fires"
    /\ ~Decided(c)
    /\ Wear(call[c].item, call[c].tag)
    /\ Reserve(r, c, "tag")
    /\ Answered(c)
    /\ UNCHANGED <<captured, templateVars, made>>

\* What a tag filed that has not been called off.
Filed(i, g) == Claimant(g) # Nothing /\ AlreadyApplied(i, Claimant(g))

Untag(i, g) ==
    /\ i \in captured
    /\ g \in tags[i]
    /\ ~Filed(i, g)
    /\ Shed(i, g)
    /\ UNCHANGED <<captured, templateVars, record, shown, call, made>>

-----------------------------------------------------------------------------
(* A capture that arrives tagged, and a template taken in the composer.     *)

\* Each trigger tag it arrives with is looked up and weighed in turn.
AskToCapture(c, i, arriving) ==
    /\ call[c] = NoCall
    /\ call' = [call EXCEPT ![c] = [NoCall EXCEPT
                    !.kind = "capture", !.item = i, !.left = arriving, !.keeps = arriving,
                    !.phase = IF arriving = {} THEN "writing" ELSE "looking"]]
    /\ UNCHANGED <<captured, tags, templateVars, record, shown, made>>

\* Where no template is read under one, it is an ordinary tag.
LookUpNext(c, g) ==
    /\ call[c].phase = "looking"
    /\ call[c].kind = "capture"
    /\ g \in call[c].left
    /\ LET left == call[c].left \ {g}
           t == Claimant(g)
       IN  \/ /\ t = Nothing
              /\ call' = [call EXCEPT ![c].left = left,
                                      ![c].phase = IF left = {} THEN "writing" ELSE "looking"]
           \/ /\ t # Nothing
              /\ call' = [call EXCEPT ![c].left = left, ![c].phase = "weighing", ![c].tag = g,
                                      ![c].template = t, ![c].place = place[t]]
    /\ UNCHANGED <<captured, tags, templateVars, record, shown, made>>

InHand(c) ==
    [tag |-> call[c].tag, template |-> call[c].template, place |-> call[c].place]

\* The destination is asked: the tag is to fire, or is spent and dropped, as
\* every one of a continuation is.
WeighCapture(c) ==
    /\ call[c].phase = "weighing"
    /\ call[c].kind = "capture"
    /\ LET weighed(keeps, firings) ==
               [call[c] EXCEPT !.keeps = keeps, !.firings = firings,
                   !.tag = Nothing, !.template = Nothing, !.place = Nothing,
                   !.phase = IF call[c].left = {} THEN "writing" ELSE "looking"]
       IN  \/ call' = [call EXCEPT ![c] =
                          weighed(call[c].keeps, call[c].firings \cup {InHand(c)})]
           \/ call' = [call EXCEPT ![c] =
                          weighed(call[c].keeps \ {call[c].tag}, call[c].firings)]
    /\ UNCHANGED <<captured, tags, templateVars, record, shown, made>>

\* A replay is answered with what is there; a continuation of no head, or a
\* capture of an asset nobody uploaded, is refused.
CaptureAnswered(c) ==
    /\ call[c].phase = "writing"
    /\ call[c].kind = "capture"
    /\ Answered(c)
    /\ UNCHANGED <<captured, tags, templateVars, record, shown, made>>

\* The item, the tags it keeps, and a reservation for every firing, whatever the
\* one before it filed.
CaptureLands(c, new) ==
    /\ call[c].phase = "writing"
    /\ call[c].kind = "capture"
    /\ call[c].item \notin captured
    /\ \A r \in new : record[r] = NoRecord
    /\ \E files \in Bijection(new, call[c].firings) :
          /\ record' = [r \in Records |->
                           IF r \in new THEN Reservation(call[c].item, files[r], "capture")
                           ELSE record[r]]
          /\ shown' = [r \in Records |-> IF r \in new THEN ShownBy(files[r]) ELSE shown[r]]
    /\ captured' = captured \cup {call[c].item}
    /\ tags' = [tags EXCEPT ![call[c].item] = @ \cup call[c].keeps]
    /\ Answered(c)
    /\ UNCHANGED <<templateVars, made>>

\* The item and the template are read, and the destination asked.
AskToCompose(c, i, t) ==
    /\ call[c] = NoCall
    /\ i \in captured
    /\ stage[t] = "live"
    /\ call' = [call EXCEPT ![c] = [NoCall EXCEPT !.kind = "compose", !.phase = "writing",
                                        !.item = i, !.template = t, !.place = place[t]]]
    /\ UNCHANGED <<captured, tags, templateVars, record, shown, made>>

\* A person may decide the same thing twice.
Compose(c, r) ==
    /\ call[c].phase = "writing"
    /\ call[c].kind = "compose"
    /\ Reserve(r, c, "composer")
    /\ Answered(c)
    /\ UNCHANGED <<captured, tags, templateVars, made>>

-----------------------------------------------------------------------------
(* What becomes of a record.                                                *)

Becomes(r, state) == record' = [record EXCEPT ![r].state = state]

TagOf(r) == claim[record[r].template]

\* The tag of the record's template, if it has one now and the item wears it.
ReleaseTriggerTag(r) ==
    IF TagOf(r) = Nothing THEN UNCHANGED tags ELSE Shed(record[r].item, TagOf(r))

\* (Faulty.) The record comes back, and its tag does not.
KeepTriggerTag(r) == UNCHANGED tags

\* Put back without tagging, which would fire.
ReturnTriggerTag(r) ==
    IF TagOf(r) = Nothing THEN UNCHANGED tags ELSE Wear(record[r].item, TagOf(r))

\* A runner leases its job and attempts it.
Attempt(r) ==
    /\ record[r].state = "pending"
    /\ Becomes(r, "held")
    /\ UNCHANGED <<captured, tags, templateVars, shown, call, made>>

\* The first delivery that lands is what makes the folder, while the template
\* is there to say so.
Established(r) ==
    LET t == record[r].template
    IN  founded' = IF stage[t] = "live" THEN founded \cup {t} ELSE founded

Deliver(r) ==
    /\ record[r].state = "held"
    /\ Becomes(r, "delivered")
    /\ Established(r)
    /\ UNCHANGED <<captured, tags, stage, claim, place, shown, call, made>>

Fail(r) ==
    /\ record[r].state = "held"
    /\ \/ Becomes(r, "pending") /\ UNCHANGED tags
       \/ Becomes(r, "gone") /\ ReleaseTriggerTag(r)
    /\ UNCHANGED <<captured, templateVars, shown, call, made>>

Cancel(r) ==
    /\ record[r].state = "pending"
    /\ Becomes(r, "gone")
    /\ ReleaseTriggerTag(r)
    /\ UNCHANGED <<captured, templateVars, shown, call, made>>

Withdraw(r) ==
    /\ record[r].state = "delivered"
    /\ Becomes(r, "withdrawn")
    /\ ReleaseTriggerTag(r)
    /\ UNCHANGED <<captured, templateVars, shown, call, made>>

\* Refused where the template has decided the item since; an item edited since
\* refuses it too, which is this step not taken.
Reinstate(r) ==
    /\ record[r].state = "withdrawn"
    /\ ~AlreadyApplied(record[r].item, record[r].template)
    /\ Becomes(r, "delivered")
    /\ ReturnTriggerTag(r)
    /\ UNCHANGED <<captured, templateVars, shown, call, made>>

-----------------------------------------------------------------------------
Templating ==
    \/ \E t \in Templates, g \in Tags \cup {Nothing}, p \in Places :
          \/ CreateTemplate(t, g, p)
          \/ \E n \in Changes : EditTemplate(t, g, p, n)
    \/ \E t \in Templates, n \in Changes : DeleteTemplate(t, n)

Tagging ==
    \/ \E c \in Calls, i \in Items, g \in Tags : AskToTag(c, i, g)
    \/ \E c \in Calls : LookUp(c) \/ Weigh(c) \/ TagNothing(c) \/ TagAgain(c) \/ TagPlain(c)
    \/ \E c \in Calls, r \in Records : TagFires(c, r)
    \/ \E i \in Items, g \in Tags : Untag(i, g)

Capturing ==
    \/ \E c \in Calls, i \in Items, arriving \in SUBSET Tags : AskToCapture(c, i, arriving)
    \/ \E c \in Calls, g \in Tags : LookUpNext(c, g)
    \/ \E c \in Calls : WeighCapture(c) \/ CaptureAnswered(c)
    \/ \E c \in Calls, new \in SUBSET Records : CaptureLands(c, new)

Composing ==
    \/ \E c \in Calls, i \in Items, t \in Templates : AskToCompose(c, i, t)
    \/ \E c \in Calls, r \in Records : Compose(c, r)

Recording ==
    \E r \in Records :
        \/ Attempt(r) \/ Deliver(r) \/ Fail(r)
        \/ Cancel(r) \/ Withdraw(r) \/ Reinstate(r)

Next == Templating \/ Tagging \/ Capturing \/ Composing \/ Recording

Spec == Init /\ [][Next]_vars

-----------------------------------------------------------------------------
TypeOK ==
    /\ captured \subseteq Items
    /\ tags \in [Items -> SUBSET Tags]
    /\ stage \in [Templates -> {"unwritten", "live", "deleted"}]
    /\ claim \in [Templates -> Tags \cup {Nothing}]
    /\ place \in [Templates -> Places \cup {Nothing}]
    /\ founded \subseteq Templates
    /\ record \in [Records -> RecordRows]
    /\ shown \in [Records -> Tags \cup {Nothing}]
    /\ call \in [Calls -> CallRows]
    /\ made \subseteq Changes

\* core.md: a trigger tag is unique across templates, through every edit and
\* deletion, so what a tag means on an item can be read off it.
OneClaimant ==
    \A t, u \in Templates : claim[t] = claim[u] /\ claim[t] # Nothing => t = u

Together(p, q) ==
    /\ p # q
    /\ Standing(p) /\ Standing(q)
    /\ About(q, record[p].item, record[p].template)

\* One capture read the template under two of its tags.
ReadTwice(t) ==
    \E c \in Calls : \E f, g \in call[c].firings :
        f.template = t /\ g.template = t /\ f.tag # g.tag

\* core.md, Classification: the rule that keeps a second firing off an item.
\* Two decisions of one template come to stand together only where a person
\* took the template in the composer, or where one capture files both, having
\* read the template under two of its tags (capture.ts:102, :245): no tagging,
\* however its reads raced, no reinstatement, and no two calls make the second.
NoSecondFiling ==
    [][\A p, q \in Records :
          Together(p, q)' /\ ~Together(p, q)
            => \/ \E r \in {p, q} : record[r] = NoRecord /\ record'[r].by = "composer"
               \/ /\ \A r \in {p, q} : record[r] = NoRecord /\ record'[r].by = "capture"
                  /\ ReadTwice(record'[p].template)]_vars

\* core.md: a tag whose call found a template is never written without a
\* standing record of that template, whatever was withdrawn, cancelled or
\* untagged between its reads and its transaction.
NeverSpent ==
    [][\A c \in Calls :
          /\ call[c].kind = "tag" /\ call[c].template # Nothing
          /\ call[c].tag \in tags'[call[c].item] \ tags[call[c].item]
          /\ call'[c] = Done
          => \E r \in Records :
                /\ Standing(r)'
                /\ record'[r].item = call[c].item
                /\ record'[r].template = call[c].template]_vars

Composed(i, t) == \E r \in Records : About(r, i, t) /\ record[r].by = "composer"

\* The capture filed the item twice by the template.
FiledTwice(i, t) ==
    \E p, q \in Records :
        /\ p # q
        /\ About(p, i, t) /\ record[p].by = "capture"
        /\ About(q, i, t) /\ record[q].by = "capture"

\* core.md: a trigger tag that filed an item stays on it while what it filed
\* stands, through cancelling, withdrawing and reinstating the records before
\* and after, for as long as its template declares it, nobody takes that
\* template in the composer as well, and the item's capture did not file by it
\* twice: ending either of two decisions takes off the one tag there is.
TagStaysWithRecord ==
    \A r \in Records :
        /\ Standing(r)
        /\ shown[r] # Nothing
        /\ ~Composed(record[r].item, record[r].template)
        /\ ~FiledTwice(record[r].item, record[r].template)
        => shown[r] \in tags[record[r].item]

\* core.md: editing a template's place makes it establish again, so one that
\* counts its folder as made has delivered to where it now files.
FoundedWhereItFiles ==
    \A t \in founded :
        \E r \in Records :
            /\ record[r].template = t
            /\ record[r].place = place[t]
            /\ record[r].state \in {"delivered", "withdrawn"}
=============================================================================
