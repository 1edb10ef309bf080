---------------------------- MODULE Filing_proofs ----------------------------
(***************************************************************************)
(* What trigger tags keep to for any items, templates, tags, calls and     *)
(* records.                                                                *)
(***************************************************************************)
EXTENDS Filing, TLAPS

\* A tag of a capture is looked up once, and one that fires is kept.
CaptureOK(w) ==
    /\ w.left \subseteq w.keeps
    /\ w.phase = "weighing" => w.tag \in w.keeps \ w.left /\ \A f \in w.firings : f.tag # w.tag
    /\ \A f \in w.firings : f.tag \in w.keeps \ w.left
    /\ \A f, g \in w.firings : f.tag = g.tag => f = g

\* What a call has read is of its kind, and what would be filed is known where
\* something would.
RowOK(w) ==
    /\ w.phase \notin {"idle", "answered"} => w.item \in Items
    /\ w.kind = "tag" => w.tag \in Tags
    /\ w.kind = "compose" =>
          w.phase = "writing" /\ w.template \in Templates /\ w.item \in captured /\ w.tag = Nothing
    /\ w.phase = "weighing" => w.tag \in Tags /\ w.template \in Templates
    /\ w.phase \in {"looking", "weighing"} => w.firing = "none"
    /\ w.firing # "none" => w.kind = "tag" /\ w.template \in Templates
    /\ w.kind = "tag" /\ w.phase = "writing" /\ w.template # Nothing => w.firing # "none"
    /\ w.kind = "capture" => CaptureOK(w)

CallsOK == \A c \in Calls : RowOK(call[c])

\* A record is of an item the pool holds and of a template.
RecordsOK ==
    \A r \in Records :
        record[r].state # "none" => record[r].item \in captured /\ record[r].template \in Templates

\* What is shown of a record is what its template declares.
ShownIsClaimed ==
    \A r \in Records :
        shown[r] # Nothing =>
            record[r].template \in Templates /\ claim[record[r].template] = shown[r]

UnwrittenClaimsNothing == \A t \in Templates : stage[t] = "unwritten" => claim[t] = Nothing

\* Two decisions of one template on one item stand together only where a person
\* composed one of them, or the item's capture made both.
OneStands ==
    \A p, q \in Records :
        Together(p, q) => \/ Composed(record[p].item, record[p].template)
                          \/ FiledTwice(record[p].item, record[p].template)

IInv ==
    /\ TypeOK
    /\ CallsOK
    /\ RecordsOK
    /\ OneClaimant
    /\ ShownIsClaimed
    /\ UnwrittenClaimsNothing
    /\ OneStands
    /\ TagStaysWithRecord

USE FilingAssumption

-----------------------------------------------------------------------------
(* What the code asks of the store.                                         *)

LEMMA ClaimantTyped ==
  ASSUME NEW g
  PROVE  /\ Claimant(g) \in Templates \cup {Nothing}
         /\ Claimant(g) # Nothing => claim[Claimant(g)] = g
  BY DEF Claimant

LEMMA ClaimantFound ==
  ASSUME OneClaimant, NEW t \in Templates, claim[t] # Nothing
  PROVE  Claimant(claim[t]) = t
  BY DEF Claimant, OneClaimant

LEMMA NoCallIsARow == NoCall \in CallRows /\ NoCall.kind = "none" /\ RowOK(NoCall)
  BY DEF NoCall, CallRows, RowOK

LEMMA DoneIsARow == Done \in CallRows /\ Done.kind = "none" /\ RowOK(Done)
  BY DEF Done, NoCall, CallRows, RowOK

-----------------------------------------------------------------------------
(* What each step makes of a call.                                          *)

\* One call is given a row, which is as it should be.
LEMMA CallGiven ==
  ASSUME TypeOK, CallsOK, NEW c \in Calls, NEW w \in CallRows, RowOK(w)',
         call' = [call EXCEPT ![c] = w], captured \subseteq captured'
  PROVE  call' \in [Calls -> CallRows] /\ CallsOK'
<1>1. call' \in [Calls -> CallRows]
  BY DEF TypeOK
<1>2. ASSUME NEW d \in Calls PROVE RowOK(call[d])'
  <2>1. CASE d = c
    BY <2>1 DEF TypeOK
  <2>2. CASE d # c
    BY <2>2 DEF TypeOK, CallsOK, RowOK
  <2> QED
    BY <2>1, <2>2
<1> QED
  BY <1>1, <1>2 DEF CallsOK

LEMMA AskToTagCall ==
  ASSUME TypeOK, CallsOK, NEW c \in Calls, NEW i \in Items, NEW g \in Tags, AskToTag(c, i, g)
  PROVE  call' \in [Calls -> CallRows] /\ CallsOK'
<1> DEFINE w == [NoCall EXCEPT !.kind = "tag", !.phase = "looking", !.item = i, !.tag = g]
<1>1. call' = [call EXCEPT ![c] = w] /\ captured' = captured
  BY DEF AskToTag, TypeOK
<1>2. w \in CallRows /\ RowOK(w)
  BY DEF AskToTag, TypeOK, CallsOK, CallRows, NoCall, RowOK
<1> HIDE DEF w
<1> QED
  BY <1>1, <1>2, CallGiven DEF RowOK

LEMMA AskToCaptureCall ==
  ASSUME TypeOK, CallsOK, NEW c \in Calls, NEW i \in Items, NEW arriving \in SUBSET Tags, AskToCapture(c, i, arriving)
  PROVE  call' \in [Calls -> CallRows] /\ CallsOK'
<1> DEFINE w == [NoCall EXCEPT
                    !.kind = "capture", !.item = i, !.left = arriving, !.keeps = arriving,
                    !.phase = IF arriving = {} THEN "writing" ELSE "looking"]
<1>1. call' = [call EXCEPT ![c] = w] /\ captured' = captured
  BY DEF AskToCapture, TypeOK
<1>2. w \in CallRows /\ RowOK(w)
  BY DEF CallRows, NoCall, RowOK, CaptureOK
<1> HIDE DEF w
<1> QED
  BY <1>1, <1>2, CallGiven DEF RowOK

LEMMA LookUpNextCall ==
  ASSUME TypeOK, CallsOK, NEW c \in Calls, NEW g \in Tags, LookUpNext(c, g)
  PROVE  call' \in [Calls -> CallRows] /\ CallsOK'
<1> DEFINE left == call[c].left \ {g}
           t == Claimant(g)
<1>0. /\ t \in Templates \cup {Nothing} /\ call[c] \in CallRows /\ captured' = captured
      /\ call[c].item \in Items /\ call[c].kind = "capture" /\ call[c].firing = "none"
      /\ CaptureOK(call[c]) /\ g \in call[c].left
  BY ClaimantTyped DEF LookUpNext, TypeOK, CallsOK, RowOK
<1>1. CASE call' = [call EXCEPT ![c].left = left,
                                ![c].phase = IF left = {} THEN "writing" ELSE "looking"]
  <2> DEFINE w == [call[c] EXCEPT !.left = left,
                                  !.phase = IF left = {} THEN "writing" ELSE "looking"]
  <2>1. call' = [call EXCEPT ![c] = w]
    BY <1>1 DEF TypeOK
  <2>2. w \in CallRows
    BY <1>0 DEF CallRows
  <2>3. RowOK(w)
    BY <1>0 DEF CallRows, RowOK, CaptureOK
  <2> HIDE DEF w
  <2> QED
    BY <1>0, <2>1, <2>2, <2>3, CallGiven DEF RowOK
<1>2. CASE /\ t # Nothing
           /\ call' = [call EXCEPT ![c].left = left, ![c].phase = "weighing", ![c].tag = g,
                                   ![c].template = t, ![c].place = place[t]]
  <2> DEFINE w == [call[c] EXCEPT !.left = left, !.phase = "weighing", !.tag = g,
                                  !.template = t, !.place = place[t]]
  <2>1. call' = [call EXCEPT ![c] = w]
    BY <1>2 DEF TypeOK
  <2>4. t \in Templates /\ place[t] \in Places \cup {Nothing}
    BY <1>0, <1>2 DEF TypeOK
  <2> HIDE DEF t
  <2>2. w \in CallRows
    BY <1>0, <2>4 DEF CallRows
  <2>3. RowOK(w)
    BY <1>0, <2>4 DEF CallRows, RowOK, CaptureOK
  <2> HIDE DEF w
  <2> QED
    BY <1>0, <2>1, <2>2, <2>3, CallGiven DEF RowOK
<1> QED
  BY <1>1, <1>2 DEF LookUpNext

LEMMA InHandIsAFiring ==
  ASSUME TypeOK, CallsOK, NEW c \in Calls, call[c].phase = "weighing"
  PROVE  InHand(c) \in Firings /\ InHand(c).tag = call[c].tag
  BY DEF InHand, Firings, TypeOK, CallRows, CallsOK, RowOK

LEMMA WeighCaptureCall ==
  ASSUME TypeOK, CallsOK, NEW c \in Calls, WeighCapture(c)
  PROVE  call' \in [Calls -> CallRows] /\ CallsOK'
<1> DEFINE w(keeps, firings) ==
               [call[c] EXCEPT !.keeps = keeps, !.firings = firings,
                   !.tag = Nothing, !.template = Nothing, !.place = Nothing,
                   !.phase = IF call[c].left = {} THEN "writing" ELSE "looking"]
           f == InHand(c)
<1>0. /\ call[c] \in CallRows /\ captured' = captured /\ call[c].phase = "weighing"
      /\ call[c].item \in Items /\ call[c].kind = "capture" /\ call[c].firing = "none"
      /\ CaptureOK(call[c])
  BY DEF WeighCapture, TypeOK, CallsOK, RowOK
<1>1. f \in Firings /\ f.tag = call[c].tag
  BY <1>0, InHandIsAFiring
<1>2. \/ call' = [call EXCEPT ![c] = w(call[c].keeps, call[c].firings \cup {f})]
      \/ call' = [call EXCEPT ![c] = w(call[c].keeps \ {call[c].tag}, call[c].firings)]
  BY DEF WeighCapture
<1> HIDE DEF f
<1>3. w(call[c].keeps, call[c].firings \cup {f}) \in CallRows
  BY <1>0, <1>1 DEF CallRows
<1>4. RowOK(w(call[c].keeps, call[c].firings \cup {f}))
  BY <1>0, <1>1 DEF CallRows, RowOK, CaptureOK
<1>5. w(call[c].keeps \ {call[c].tag}, call[c].firings) \in CallRows
  BY <1>0 DEF CallRows
<1>6. RowOK(w(call[c].keeps \ {call[c].tag}, call[c].firings))
  BY <1>0 DEF CallRows, RowOK, CaptureOK
<1> HIDE DEF w
<1>7. ASSUME NEW row \in CallRows, RowOK(row), call' = [call EXCEPT ![c] = row]
      PROVE  call' \in [Calls -> CallRows] /\ CallsOK'
  BY <1>0, <1>7, CallGiven DEF RowOK
<1> QED
  BY <1>2, <1>3, <1>4, <1>5, <1>6, <1>7

LEMMA AskToComposeCall ==
  ASSUME TypeOK, CallsOK, NEW c \in Calls, NEW i \in Items, NEW t \in Templates, AskToCompose(c, i, t)
  PROVE  call' \in [Calls -> CallRows] /\ CallsOK'
<1> DEFINE w == [NoCall EXCEPT !.kind = "compose", !.phase = "writing", !.item = i, !.template = t, !.place = place[t]]
<1>1. call' = [call EXCEPT ![c] = w] /\ captured' = captured
  BY DEF AskToCompose, TypeOK
<1>2. w \in CallRows /\ RowOK(w)
  BY DEF AskToCompose, TypeOK, CallsOK, CallRows, NoCall, RowOK
<1> HIDE DEF w
<1> QED
  BY <1>1, <1>2, CallGiven DEF RowOK

LEMMA TagAgainCall ==
  ASSUME TypeOK, CallsOK, NEW c \in Calls, TagAgain(c)
  PROVE  call' \in [Calls -> CallRows] /\ CallsOK'
<1> DEFINE w == [call[c] EXCEPT !.phase = "looking", !.template = Nothing, !.place = Nothing, !.firing = "none", !.required = TRUE]
<1>1. call' = [call EXCEPT ![c] = w] /\ captured' = captured
  BY DEF TagAgain, TypeOK
<1>0. /\ call[c] \in CallRows /\ call[c].item \in Items /\ call[c].tag \in Tags
      /\ call[c].kind = "tag"
  BY DEF TagAgain, Writes, TypeOK, CallsOK, RowOK
<1>2. w \in CallRows /\ RowOK(w)
  BY <1>0 DEF CallRows, RowOK
<1> HIDE DEF w
<1> QED
  BY <1>1, <1>2, CallGiven DEF RowOK

LEMMA LookUpCall ==
  ASSUME TypeOK, CallsOK, NEW c \in Calls, LookUp(c)
  PROVE  call' \in [Calls -> CallRows] /\ CallsOK'
<1> DEFINE t == Claimant(call[c].tag)
           w == [call[c] EXCEPT !.template = t,
                                !.place = IF t = Nothing THEN Nothing ELSE place[t],
                                !.phase = IF t = Nothing THEN "writing" ELSE "weighing"]
<1>0. t \in Templates \cup {Nothing}
  BY ClaimantTyped
<1>1. call' = [call EXCEPT ![c] = w] /\ captured' = captured
  BY DEF LookUp, TypeOK
<1> HIDE DEF t
<1>2. w \in CallRows /\ RowOK(w)
  BY <1>0 DEF LookUp, TypeOK, CallsOK, CallRows, RowOK
<1> HIDE DEF w
<1> QED
  BY <1>1, <1>2, CallGiven DEF RowOK

LEMMA WeighCall ==
  ASSUME TypeOK, CallsOK, NEW c \in Calls, Weigh(c)
  PROVE  call' \in [Calls -> CallRows] /\ CallsOK'
<1>1. captured' = captured /\ call[c].phase = "weighing" /\ call[c].firing = "none"
  BY DEF Weigh, CallsOK, RowOK
<1>2. CASE call' = [call EXCEPT ![c].template = Nothing, ![c].place = Nothing, ![c].phase = "writing"]
  <2> DEFINE w == [call[c] EXCEPT !.template = Nothing, !.place = Nothing, !.phase = "writing"]
  <2>1. call' = [call EXCEPT ![c] = w]
    BY <1>2 DEF TypeOK
  <2>2. w \in CallRows /\ RowOK(w)
    BY <1>1, <1>2 DEF TypeOK, CallsOK, CallRows, RowOK
  <2> HIDE DEF w
  <2> QED
    BY <1>1, <2>1, <2>2, CallGiven DEF RowOK
<1>3. ASSUME NEW f \in {"fires", "refused", "skipped"},
             call' = [call EXCEPT ![c].firing = f, ![c].phase = "writing"]
      PROVE  call' \in [Calls -> CallRows] /\ CallsOK'
  <2> DEFINE w == [call[c] EXCEPT !.firing = f, !.phase = "writing"]
  <2>1. call' = [call EXCEPT ![c] = w]
    BY <1>3 DEF TypeOK
  <2>2. w \in CallRows /\ RowOK(w)
    BY <1>1, <1>3 DEF TypeOK, CallsOK, CallRows, RowOK
  <2> HIDE DEF w
  <2> QED
    BY <1>1, <2>1, <2>2, CallGiven DEF RowOK
<1> QED
  BY <1>2, <1>3 DEF Weigh

LEMMA AnsweredCall ==
  ASSUME TypeOK, CallsOK, NEW c \in Calls, Answered(c), captured \subseteq captured'
  PROVE  call' \in [Calls -> CallRows] /\ CallsOK'
<1>1. RowOK(Done)'
  BY DoneIsARow DEF RowOK, Done, NoCall
<1> QED
  BY <1>1, DoneIsARow, CallGiven DEF Answered

LEMMA CallStep ==
  ASSUME TypeOK, CallsOK, [Next]_vars
  PROVE  call' \in [Calls -> CallRows] /\ CallsOK' /\ captured \subseteq captured' /\ captured' \subseteq Items
<1>1. ASSUME NEW c \in Calls, NEW i \in Items, NEW g \in Tags, AskToTag(c, i, g)
      PROVE  call' \in [Calls -> CallRows] /\ CallsOK'
  BY <1>1, AskToTagCall
<1>2. ASSUME NEW c \in Calls, NEW i \in Items, NEW arriving \in SUBSET Tags,
             AskToCapture(c, i, arriving)
      PROVE  call' \in [Calls -> CallRows] /\ CallsOK'
  BY <1>2, AskToCaptureCall
<1>3. ASSUME NEW c \in Calls, NEW i \in Items, NEW t \in Templates, AskToCompose(c, i, t)
      PROVE  call' \in [Calls -> CallRows] /\ CallsOK'
  BY <1>3, AskToComposeCall
<1>4. ASSUME NEW c \in Calls, LookUp(c) \/ Weigh(c) \/ WeighCapture(c) \/ TagAgain(c)
      PROVE  call' \in [Calls -> CallRows] /\ CallsOK'
  BY <1>4, LookUpCall, WeighCall, WeighCaptureCall, TagAgainCall
<1>8. ASSUME NEW c \in Calls, NEW g \in Tags, LookUpNext(c, g)
      PROVE  call' \in [Calls -> CallRows] /\ CallsOK'
  BY <1>8, LookUpNextCall
<1>5. captured \subseteq captured' /\ captured' \subseteq Items
  <2>1. captured' = captured \/ \E c \in Calls, new \in SUBSET Records : CaptureLands(c, new)
    BY DEF Next, Templating, Tagging, Capturing, Composing, Recording, CreateTemplate,
       EditTemplate, DeleteTemplate, AskToTag, LookUp, Weigh, TagNothing, TagAgain,
       TagPlain, TagFires, Untag, AskToCapture, LookUpNext, WeighCapture, CaptureAnswered,
       CaptureLands, AskToCompose, Compose, Attempt, Deliver, Fail, Cancel, Withdraw,
       Reinstate, vars
  <2> QED
    BY <2>1 DEF CaptureLands, TypeOK, CallsOK, RowOK
<1>6. ASSUME NEW c \in Calls, Answered(c) PROVE call' \in [Calls -> CallRows] /\ CallsOK'
  BY <1>5, <1>6, AnsweredCall
<1>7. CASE UNCHANGED <<call, captured>>
  BY <1>7 DEF TypeOK, CallsOK, RowOK
<1> QED
  BY <1>1, <1>2, <1>3, <1>4, <1>5, <1>6, <1>7, <1>8
     DEF Next, Templating, Tagging, Capturing, Composing, Recording, CreateTemplate,
         EditTemplate, DeleteTemplate, TagNothing, TagPlain, TagFires, Untag,
         CaptureAnswered, CaptureLands, Compose, Attempt, Deliver, Fail, Cancel, Withdraw,
         Reinstate, vars

-----------------------------------------------------------------------------
(* What each step makes of the templates.                                   *)

TemplatesOK ==
    /\ stage \in [Templates -> {"unwritten", "live", "deleted"}]
    /\ claim \in [Templates -> Tags \cup {Nothing}]
    /\ place \in [Templates -> Places \cup {Nothing}]
    /\ founded \subseteq Templates
    /\ made \subseteq Changes

\* One template's tag changes, to one no other declares.
LEMMA ClaimChanges ==
  ASSUME TypeOK, OneClaimant, NEW t \in Templates, NEW g \in Tags \cup {Nothing}, MayClaim(t, g),
         claim' = [claim EXCEPT ![t] = g]
  PROVE  OneClaimant'
<1>1. ASSUME NEW u \in Templates, u # t, claim[u] = g, g # Nothing PROVE FALSE
  <2>1. Claimant(g) = u
    BY <1>1, ClaimantFound
  <2> QED
    BY <1>1, <2>1 DEF MayClaim
<1> QED
  BY <1>1 DEF TypeOK, OneClaimant

LEMMA TemplateStep ==
  ASSUME TypeOK, CallsOK, RecordsOK, OneClaimant, UnwrittenClaimsNothing, [Next]_vars
  PROVE  TemplatesOK' /\ OneClaimant' /\ UnwrittenClaimsNothing'
<1>1. ASSUME NEW t \in Templates, NEW g \in Tags \cup {Nothing}, NEW p \in Places,
             CreateTemplate(t, g, p)
      PROVE  TemplatesOK' /\ OneClaimant' /\ UnwrittenClaimsNothing'
  <2>1. OneClaimant'
    BY <1>1, ClaimChanges DEF CreateTemplate
  <2> QED
    BY <1>1, <2>1 DEF CreateTemplate, TypeOK, TemplatesOK, UnwrittenClaimsNothing
<1>2. ASSUME NEW t \in Templates, NEW g \in Tags \cup {Nothing}, NEW p \in Places, NEW n \in Changes,
             EditTemplate(t, g, p, n)
      PROVE  TemplatesOK' /\ OneClaimant' /\ UnwrittenClaimsNothing'
  <2>1. OneClaimant'
    BY <1>2, ClaimChanges DEF EditTemplate
  <2> QED
    BY <1>2, <2>1 DEF EditTemplate, TypeOK, TemplatesOK, UnwrittenClaimsNothing
<1>3. ASSUME NEW t \in Templates, NEW n \in Changes, DeleteTemplate(t, n)
      PROVE  TemplatesOK' /\ OneClaimant' /\ UnwrittenClaimsNothing'
  <2>1. OneClaimant'
    BY <1>3, ClaimChanges DEF DeleteTemplate, MayClaim
  <2> QED
    BY <1>3, <2>1 DEF DeleteTemplate, TypeOK, TemplatesOK, UnwrittenClaimsNothing
<1>4. ASSUME NEW r \in Records, Deliver(r)
      PROVE  TemplatesOK' /\ OneClaimant' /\ UnwrittenClaimsNothing'
  <2>1. record[r].template \in Templates
    BY <1>4 DEF Deliver, RecordsOK
  <2> QED
    BY <1>4, <2>1 DEF Deliver, Established, TypeOK, TemplatesOK, OneClaimant,
       UnwrittenClaimsNothing
<1>5. CASE UNCHANGED <<templateVars, made>>
  BY <1>5 DEF templateVars, TypeOK, TemplatesOK, OneClaimant, UnwrittenClaimsNothing
<1> QED
  BY <1>1, <1>2, <1>3, <1>4, <1>5
     DEF Next, Templating, Tagging, Capturing, Composing, Recording, AskToTag, LookUp, Weigh,
         TagNothing, TagAgain, TagPlain, TagFires, Untag, AskToCapture, LookUpNext, WeighCapture,
         CaptureAnswered, CaptureLands, AskToCompose, Compose, Attempt,
         Fail, Cancel, Withdraw, Reinstate, vars

-----------------------------------------------------------------------------
(* What each step makes of a record, and of the tags.                       *)

Reserves(r, c) == TagFires(c, r) \/ Compose(c, r)

Turns(r) == Attempt(r) \/ Deliver(r) \/ Fail(r) \/ Cancel(r) \/ Withdraw(r) \/ Reinstate(r)

\* A reservation is of an item and a template, and a second of the two is a
\* person's.
LEMMA ReserveAsked ==
  ASSUME TypeOK, CallsOK, RecordsOK, NEW r \in Records, NEW c \in Calls, Reserves(r, c)
  PROVE  \E by \in {"tag", "composer"} :
            /\ Reserve(r, c, by)
            /\ call[c].item \in captured' /\ call[c].template \in Templates
            /\ by = "composer" \/ ~AlreadyApplied(call[c].item, call[c].template)
            /\ \/ by = "composer" /\ call[c].tag = Nothing /\ UNCHANGED tags
               \/ call[c].tag \in Tags /\ Wear(call[c].item, call[c].tag)
            /\ UNCHANGED templateVars
<1>1. CASE TagFires(c, r)
  <2>1. call[c].template \in Templates /\ call[c].tag \in Tags
    BY <1>1 DEF TagFires, CallsOK, RowOK
  <2> QED
    BY <1>1, <2>1 DEF TagFires, Writes, Decided
<1>2. CASE Compose(c, r)
  <2>1. call[c].item \in captured /\ call[c].template \in Templates /\ call[c].tag = Nothing
    BY <1>2 DEF Compose, CallsOK, RowOK
  <2>2. Reserve(r, c, "composer") /\ UNCHANGED tags /\ UNCHANGED templateVars
    BY <1>2 DEF Compose
  <2>3. call[c].item \in captured'
    BY <1>2, <2>1 DEF Compose
  <2> WITNESS "composer" \in {"tag", "composer"}
  <2> QED
    BY <2>1, <2>2, <2>3
<1> QED
  BY <1>1, <1>2 DEF Reserves

LEMMA ReserveRows ==
  ASSUME TypeOK, CallsOK, RecordsOK, NEW r \in Records, NEW c \in Calls, Reserves(r, c)
  PROVE  /\ record' \in [Records -> RecordRows]
         /\ shown' \in [Records -> Tags \cup {Nothing}]
         /\ \A q \in Records \ {r} : record'[q] = record[q] /\ shown'[q] = shown[q]
         /\ record[r] = NoRecord
         /\ record'[r].state = "pending" /\ record'[r].item \in captured'
         /\ record'[r].template \in Templates
         /\ record'[r].by = "composer" \/ ~AlreadyApplied(record'[r].item, record'[r].template)
         /\ shown'[r] # Nothing =>
               claim[record'[r].template] = shown'[r] /\ shown'[r] \in tags'[record'[r].item]
<1>1. PICK by \in {"tag", "composer"} :
            /\ Reserve(r, c, by)
            /\ call[c].item \in captured' /\ call[c].template \in Templates
            /\ by = "composer" \/ ~AlreadyApplied(call[c].item, call[c].template)
            /\ \/ by = "composer" /\ call[c].tag = Nothing /\ UNCHANGED tags
               \/ call[c].tag \in Tags /\ Wear(call[c].item, call[c].tag)
  BY ReserveAsked
<1> DEFINE w == Reservation(call[c].item, call[c], by)
           g == ShownBy(call[c])
<1>2. record' = [record EXCEPT ![r] = w] /\ shown' = [shown EXCEPT ![r] = g]
  BY <1>1 DEF Reserve
<1>3. call[c] \in CallRows
  BY DEF TypeOK
<1>4. w \in RecordRows
  BY <1>1, <1>3 DEF CallRows, RecordRows, States, Reservation
<1>5. w.item = call[c].item /\ w.template = call[c].template /\ w.by = by /\ w.state = "pending"
  BY DEF Reservation
<1>6. g \in Tags \cup {Nothing}
  BY <1>1 DEF ShownBy
<1>7. g # Nothing => g = call[c].tag /\ claim[call[c].template] = g
  BY <1>1, ClaimantTyped DEF ShownBy
<1>8. g # Nothing => g \in tags'[call[c].item]
  <2>1. CASE call[c].tag = Nothing
    BY <1>7, <2>1
  <2>2. CASE Wear(call[c].item, call[c].tag)
    <3>1. call[c].item \in Items
      BY <1>1, CallStep, <1>3 DEF CallRows, Reserves, TagFires, Writes, Compose,
            CallsOK, RowOK
    <3> QED
      BY <1>7, <2>2, <3>1 DEF Wear, TypeOK
  <2> QED
    BY <1>1, <2>1, <2>2
<1>9. record[r] = NoRecord
  BY <1>1 DEF Reserve
<1> HIDE DEF w, g
<1> QED
  BY <1>1, <1>2, <1>4, <1>5, <1>6, <1>7, <1>8, <1>9 DEF TypeOK

\* A capture that lands files what it found, of an item there was none of.
LEMMA LandsRows ==
  ASSUME TypeOK, CallsOK, NEW c \in Calls, NEW new \in SUBSET Records, CaptureLands(c, new)
  PROVE  /\ record' \in [Records -> RecordRows]
         /\ shown' \in [Records -> Tags \cup {Nothing}]
         /\ tags' \in [Items -> SUBSET Tags] /\ \A i \in Items : tags[i] \subseteq tags'[i]
         /\ call[c].item \notin captured /\ captured' = captured \cup {call[c].item}
         /\ UNCHANGED claim
         /\ \A q \in Records \ new : record'[q] = record[q] /\ shown'[q] = shown[q]
         /\ \A r \in new :
               /\ record[r] = NoRecord
               /\ record'[r].state = "pending" /\ record'[r].item = call[c].item
               /\ record'[r].template \in Templates /\ record'[r].by = "capture"
               /\ shown'[r] # Nothing =>
                     claim[record'[r].template] = shown'[r] /\ shown'[r] \in tags'[record'[r].item]
         /\ \A p, q \in new :
               p # q /\ record'[p].template = record'[q].template => ReadTwice(record'[p].template)
<1>0. /\ call[c] \in CallRows /\ call[c].item \in Items /\ CaptureOK(call[c])
      /\ call[c].item \notin captured /\ captured' = captured \cup {call[c].item}
      /\ \A r \in new : record[r] = NoRecord
      /\ tags' = [tags EXCEPT ![call[c].item] = @ \cup call[c].keeps]
      /\ UNCHANGED claim
  BY DEF CaptureLands, TypeOK, CallsOK, RowOK, templateVars
<1>1. PICK files \in Bijection(new, call[c].firings) :
        /\ record' = [r \in Records |->
                         IF r \in new THEN Reservation(call[c].item, files[r], "capture")
                         ELSE record[r]]
        /\ shown' = [r \in Records |-> IF r \in new THEN ShownBy(files[r]) ELSE shown[r]]
  BY DEF CaptureLands
<1>2. /\ \A r \in new : files[r] \in call[c].firings
      /\ \A p, q \in new : files[p] = files[q] => p = q
  BY <1>1 DEF Bijection, Injection, Surjection, IsInjective
<1>3. \A r \in new : files[r] \in Firings /\ files[r].tag \in call[c].keeps
  BY <1>0, <1>2 DEF CallRows, CaptureOK
<1>4. \A r \in new :
        /\ record'[r] = Reservation(call[c].item, files[r], "capture")
        /\ shown'[r] = ShownBy(files[r])
  BY <1>1
<1>5. \A r \in new :
        /\ Reservation(call[c].item, files[r], "capture") \in RecordRows
        /\ record'[r].state = "pending" /\ record'[r].item = call[c].item
        /\ record'[r].template = files[r].template /\ record'[r].by = "capture"
        /\ files[r].template \in Templates
  <2> SUFFICES ASSUME NEW r \in new
               PROVE  /\ Reservation(call[c].item, files[r], "capture") \in RecordRows
                      /\ record'[r].state = "pending" /\ record'[r].item = call[c].item
                      /\ record'[r].template = files[r].template /\ record'[r].by = "capture"
                      /\ files[r].template \in Templates
    OBVIOUS
  <2>1. files[r].template \in Templates /\ files[r].place \in Places \cup {Nothing}
    BY <1>3 DEF Firings
  <2>2. record'[r] = Reservation(call[c].item, files[r], "capture")
    BY <1>4
  <2> QED
    BY <1>0, <2>1, <2>2 DEF Reservation, RecordRows, States
<1>6. \A r \in new :
        /\ ShownBy(files[r]) \in Tags \cup {Nothing}
        /\ ShownBy(files[r]) # Nothing =>
              ShownBy(files[r]) = files[r].tag /\ claim[files[r].template] = files[r].tag
  BY <1>3, <1>5, ClaimantTyped DEF ShownBy, Firings
<1>7. record' \in [Records -> RecordRows] /\ shown' \in [Records -> Tags \cup {Nothing}]
  BY <1>1, <1>5, <1>6 DEF TypeOK
<1>8. /\ tags' \in [Items -> SUBSET Tags] /\ \A i \in Items : tags[i] \subseteq tags'[i]
      /\ call[c].keeps \subseteq tags'[call[c].item]
  BY <1>0 DEF TypeOK, CallRows
<1>9. ASSUME NEW p \in new, NEW q \in new, p # q, record'[p].template = record'[q].template
      PROVE  ReadTwice(record'[p].template)
  <2>1. files[p] # files[q] /\ files[p] \in call[c].firings /\ files[q] \in call[c].firings
    BY <1>2, <1>9
  <2>2. files[p].tag # files[q].tag
    BY <1>0, <2>1 DEF CaptureOK
  <2> QED
    BY <1>5, <1>9, <2>1, <2>2 DEF ReadTwice
<1>10. \A q \in Records \ new : record'[q] = record[q] /\ shown'[q] = shown[q]
  BY <1>1
<1> QED
  BY <1>0, <1>3, <1>4, <1>5, <1>6, <1>7, <1>8, <1>9, <1>10

\* A record turns from one state to another, and comes to stand only where
\* nothing of its template did.
LEMMA TurnRows ==
  ASSUME TypeOK, RecordsOK, NEW r \in Records, Turns(r)
  PROVE  /\ record' \in [Records -> RecordRows]
         /\ \A q \in Records \ {r} : record'[q] = record[q]
         /\ record[r].state # "none"
         /\ record'[r].item = record[r].item /\ record'[r].template = record[r].template
         /\ record'[r].by = record[r].by
         /\ Standing(r)' => Standing(r) \/ ~AlreadyApplied(record[r].item, record[r].template)
         /\ \/ UNCHANGED tags /\ Standing(r)
            \/ ~Standing(r)' /\ Standing(r) /\ ReleaseTriggerTag(r)
            \/ ~Standing(r) /\ ReturnTriggerTag(r)
         /\ UNCHANGED <<shown, stage, claim, captured>>
<1>1. PICK s \in States :
        /\ Becomes(r, s)
        /\ s \in {"pending", "held", "delivered"} =>
               Standing(r) \/ ~AlreadyApplied(record[r].item, record[r].template)
        /\ record[r].state # "none"
        /\ \/ UNCHANGED tags /\ Standing(r)
           \/ s \notin {"pending", "held", "delivered"} /\ Standing(r) /\ ReleaseTriggerTag(r)
           \/ ~Standing(r) /\ ReturnTriggerTag(r)
  BY DEF Turns, Attempt, Deliver, Fail, Cancel, Withdraw, Reinstate, Standing, Pending, States
<1> DEFINE w == [record[r] EXCEPT !.state = s]
<1>2. record' = [record EXCEPT ![r] = w]
  BY <1>1 DEF Becomes, TypeOK
<1>3. /\ w \in RecordRows
      /\ w.state = s /\ w.item = record[r].item /\ w.template = record[r].template
      /\ w.by = record[r].by
  BY DEF TypeOK, RecordRows
<1>4. UNCHANGED <<shown, stage, claim, captured>>
  BY DEF Turns, Attempt, Deliver, Fail, Cancel, Withdraw, Reinstate, templateVars
<1> HIDE DEF w
<1>5. record' \in [Records -> RecordRows] /\ record'[r] = w
      /\ \A q \in Records \ {r} : record'[q] = record[q]
  BY <1>2, <1>3 DEF TypeOK
<1> QED
  BY <1>1, <1>3, <1>4, <1>5 DEF Standing, Pending

-----------------------------------------------------------------------------
(* Every step reserves, turns a record, changes a template, or leaves the   *)
(* records alone.                                                           *)

Kept == UNCHANGED record /\ \A r \in Records : shown'[r] # Nothing =>
            /\ shown'[r] = shown[r]
            /\ record[r].template \in Templates => claim'[record[r].template] = claim[record[r].template]

\* The tags an item wears that a record standing on it filed stay.
Tagged(i, g) == g \in tags[i] => g \in tags'[i]

LEMMA TagsTyped ==
  ASSUME TypeOK, NEW i \in Items, NEW g \in Tags, Wear(i, g) \/ Shed(i, g)
  PROVE  /\ tags' \in [Items -> SUBSET Tags]
         /\ \A j \in Items, h \in Tags : h \in tags[j] /\ (j # i \/ h # g) => h \in tags'[j]
         /\ Wear(i, g) => g \in tags'[i] /\ \A j \in Items : tags[j] \subseteq tags'[j]
  BY DEF TypeOK, Wear, Shed

LEMMA TemplatingKeeps ==
  ASSUME TypeOK, RecordsOK, ShownIsClaimed, UnwrittenClaimsNothing, Templating
  PROVE  /\ Kept /\ UNCHANGED <<tags, captured>>
         /\ shown' \in [Records -> Tags \cup {Nothing}]
<1>1. ASSUME NEW t \in Templates, NEW g \in Tags \cup {Nothing}, NEW p \in Places,
             CreateTemplate(t, g, p)
      PROVE  /\ Kept /\ UNCHANGED <<tags, captured>>
             /\ shown' \in [Records -> Tags \cup {Nothing}]
  <2>1. \A r \in Records : shown[r] # Nothing => record[r].template # t
    BY <1>1 DEF CreateTemplate, ShownIsClaimed, UnwrittenClaimsNothing
  <2> QED
    BY <1>1, <2>1 DEF CreateTemplate, Kept, TypeOK
<1>2. ASSUME NEW t \in Templates, NEW g \in Tags \cup {Nothing}, NEW p \in Places, NEW n \in Changes,
             EditTemplate(t, g, p, n)
      PROVE  /\ Kept /\ UNCHANGED <<tags, captured>>
             /\ shown' \in [Records -> Tags \cup {Nothing}]
  BY <1>2 DEF EditTemplate, Unshown, Kept, TypeOK
<1>3. ASSUME NEW t \in Templates, NEW n \in Changes, DeleteTemplate(t, n)
      PROVE  /\ Kept /\ UNCHANGED <<tags, captured>>
             /\ shown' \in [Records -> Tags \cup {Nothing}]
  BY <1>3 DEF DeleteTemplate, Unshown, Kept, TypeOK
<1> QED
  BY <1>1, <1>2, <1>3 DEF Templating

\* A tag comes off an item by hand only where nothing it filed stands there.
LEMMA UntagKeeps ==
  ASSUME TypeOK, OneClaimant, ShownIsClaimed,
         NEW i \in Items, NEW g \in Tags, Untag(i, g),
         NEW r \in Records, Standing(r), shown[r] # Nothing
  PROVE  record[r].item = i => shown[r] # g
<1> SUFFICES ASSUME record[r].item = i, shown[r] = g PROVE FALSE
  OBVIOUS
<1>1. record[r].template \in Templates /\ claim[record[r].template] = g
  BY DEF ShownIsClaimed
<1>2. Claimant(g) = record[r].template /\ Claimant(g) # Nothing
  BY <1>1, ClaimantFound
<1>3. AlreadyApplied(i, Claimant(g))
  BY <1>2 DEF AlreadyApplied, About
<1> QED
  BY <1>2, <1>3 DEF Untag, Filed

LEMMA StepKinds ==
  ASSUME TypeOK, CallsOK, RecordsOK, OneClaimant, ShownIsClaimed, UnwrittenClaimsNothing, [Next]_vars
  PROVE  \/ \E r \in Records, c \in Calls : Reserves(r, c)
         \/ \E c \in Calls, new \in SUBSET Records : CaptureLands(c, new)
         \/ \E r \in Records : Turns(r)
         \/ Templating
         \/ \E i \in Items, g \in Tags : Untag(i, g)
         \/ /\ UNCHANGED <<record, shown, claim>>
            /\ UNCHANGED tags \/ \E i \in Items, g \in Tags : Wear(i, g)
<1>1. ASSUME NEW c \in Calls, TagPlain(c) PROVE \E i \in Items, g \in Tags : Wear(i, g)
  <2>1. call[c].item \in Items /\ call[c].tag \in Tags
    BY <1>1 DEF TagPlain, Writes, CallsOK, RowOK
  <2> QED
    BY <1>1, <2>1 DEF TagPlain
<1> DEFINE Quiet == /\ UNCHANGED <<record, shown, claim>>
                    /\ UNCHANGED tags \/ \E i \in Items, g \in Tags : Wear(i, g)
<1>2. CASE Tagging
  <2>1. ASSUME NEW c \in Calls, LookUp(c) \/ Weigh(c) \/ TagNothing(c) \/ TagAgain(c) \/ TagPlain(c)
        PROVE  Quiet
    BY <1>1, <2>1 DEF LookUp, Weigh, TagNothing, TagAgain, TagPlain, templateVars
  <2>2. ASSUME NEW c \in Calls, NEW i \in Items, NEW g \in Tags, AskToTag(c, i, g) PROVE Quiet
    BY <2>2 DEF AskToTag, templateVars
  <2> HIDE DEF Quiet
  <2>3. \/ \E r \in Records, c \in Calls : Reserves(r, c)
        \/ \E i \in Items, g \in Tags : Untag(i, g)
        \/ Quiet
    BY <1>2, <2>1, <2>2 DEF Tagging, Reserves
  <2> QED
    BY <2>3 DEF Quiet
<1>3. CASE Capturing
  <2>1. ASSUME NEW c \in Calls, WeighCapture(c) \/ CaptureAnswered(c) PROVE Quiet
    BY <2>1 DEF WeighCapture, CaptureAnswered, templateVars
  <2>2. ASSUME NEW c \in Calls, NEW g \in Tags, LookUpNext(c, g) PROVE Quiet
    BY <2>2 DEF LookUpNext, templateVars
  <2>3. ASSUME NEW c \in Calls, NEW i \in Items, NEW a \in SUBSET Tags, AskToCapture(c, i, a) PROVE Quiet
    BY <2>3 DEF AskToCapture, templateVars
  <2> HIDE DEF Quiet
  <2>4. Quiet \/ \E c \in Calls, new \in SUBSET Records : CaptureLands(c, new)
    BY <1>3, <2>1, <2>2, <2>3 DEF Capturing
  <2> QED
    BY <2>4 DEF Quiet
<1>4. CASE Composing
  BY <1>4 DEF Composing, Reserves, AskToCompose, templateVars
<1>5. CASE Recording
  BY <1>5 DEF Recording, Turns
<1>6. CASE UNCHANGED vars
  BY <1>6 DEF vars, templateVars
<1> QED
  BY <1>2, <1>3, <1>4, <1>5, <1>6 DEF Next

-----------------------------------------------------------------------------
RowsOK ==
    /\ tags \in [Items -> SUBSET Tags]
    /\ record \in [Records -> RecordRows]
    /\ shown \in [Records -> Tags \cup {Nothing}]

\* A reservation.
LEMMA ReservesInv ==
  ASSUME IInv, NEW r \in Records, NEW c \in Calls, Reserves(r, c)
  PROVE  RowsOK' /\ RecordsOK' /\ ShownIsClaimed' /\ OneStands' /\ TagStaysWithRecord'
<1>0. TypeOK /\ CallsOK /\ RecordsOK /\ ShownIsClaimed /\ OneStands /\ TagStaysWithRecord
  BY DEF IInv
<1>1. /\ record' \in [Records -> RecordRows]
      /\ shown' \in [Records -> Tags \cup {Nothing}]
      /\ \A q \in Records \ {r} : record'[q] = record[q] /\ shown'[q] = shown[q]
      /\ record[r] = NoRecord
      /\ record'[r].state = "pending" /\ record'[r].item \in captured'
      /\ record'[r].template \in Templates
      /\ record'[r].by = "composer" \/ ~AlreadyApplied(record'[r].item, record'[r].template)
      /\ shown'[r] # Nothing =>
            claim[record'[r].template] = shown'[r] /\ shown'[r] \in tags'[record'[r].item]
  BY <1>0, ReserveRows
<1>2. claim' = claim /\ captured \subseteq captured'
  BY DEF Reserves, TagFires, Compose, templateVars
<1>3. tags' \in [Items -> SUBSET Tags] /\ \A i \in Items : tags[i] \subseteq tags'[i]
  <2>1. CASE UNCHANGED tags
    BY <1>0, <2>1 DEF TypeOK
  <2>2. CASE ~UNCHANGED tags
    <3>1. PICK by \in {"tag", "composer"} :
            Reserve(r, c, by) /\ call[c].tag \in Tags /\ Wear(call[c].item, call[c].tag)
      BY <1>0, <2>2, ReserveAsked
    <3>2. call[c].item \in Items
      BY <1>0 DEF Reserves, TagFires, Writes, Compose, CallsOK, RowOK
    <3> QED
      BY <1>0, <3>1, <3>2, TagsTyped
  <2> QED
    BY <2>1, <2>2
<1>4. RecordsOK'
  BY <1>0, <1>1, <1>2 DEF RecordsOK
<1>5. ShownIsClaimed'
  BY <1>0, <1>1, <1>2 DEF ShownIsClaimed
<1>6. ASSUME NEW i, NEW t
      PROVE  /\ Composed(i, t) => Composed(i, t)'
             /\ FiledTwice(i, t) => FiledTwice(i, t)'
  BY <1>1 DEF Composed, FiledTwice, About, NoRecord
<1>7. ASSUME NEW p \in Records, NEW q \in Records, Together(p, q)'
      PROVE  \/ Composed(record[p].item, record[p].template)'
             \/ FiledTwice(record[p].item, record[p].template)'
  <2>1. CASE p # r /\ q # r
    <3>1. Together(p, q)
      BY <1>1, <1>7, <2>1 DEF Together, Standing, Pending, About
    <3> QED
      BY <1>0, <1>1, <1>6, <2>1, <3>1 DEF OneStands
  <2>2. CASE p = r \/ q = r
    <3>1. PICK n \in Records : n # r /\ n \in {p, q}
      BY <1>7 DEF Together
    <3>2. /\ record'[n].item = record'[r].item /\ record'[n].template = record'[r].template
          /\ Standing(n)
      BY <1>1, <1>7, <2>2, <3>1 DEF Together, Standing, Pending, About
    <3>3. AlreadyApplied(record'[r].item, record'[r].template)
      BY <1>1, <3>1, <3>2 DEF AlreadyApplied, About
    <3>4. record'[r].by = "composer"
      BY <1>1, <3>3
    <3> QED
      BY <2>2, <3>1, <3>2, <3>4, <1>7 DEF Composed, About, Together
  <2> QED
    BY <2>1, <2>2
<1>8. OneStands'
  BY <1>7 DEF OneStands
<1>9. ASSUME NEW q \in Records, Standing(q)', shown'[q] # Nothing,
             ~Composed(record[q].item, record[q].template)',
             ~FiledTwice(record[q].item, record[q].template)'
      PROVE  shown'[q] \in tags'[record'[q].item]
  <2>1. CASE q = r
    BY <1>1, <1>9, <2>1
  <2>2. CASE q # r
    <3>1. /\ Standing(q) /\ ~Composed(record[q].item, record[q].template)
          /\ ~FiledTwice(record[q].item, record[q].template)
      BY <1>1, <1>6, <1>9, <2>2 DEF Standing, Pending
    <3>2. shown[q] \in tags[record[q].item]
      BY <1>0, <1>1, <1>9, <2>2, <3>1 DEF TagStaysWithRecord
    <3>3. record[q].item \in Items
      BY <1>0, <3>1 DEF RecordsOK, Standing, Pending, TypeOK
    <3> QED
      BY <1>1, <1>3, <2>2, <3>2, <3>3
  <2> QED
    BY <2>1, <2>2
<1>10. TagStaysWithRecord'
  BY <1>9 DEF TagStaysWithRecord
<1> QED
  BY <1>1, <1>3, <1>4, <1>5, <1>8, <1>10 DEF RowsOK

\* A capture that lands.
LEMMA LandsInv ==
  ASSUME IInv, NEW c \in Calls, NEW new \in SUBSET Records, CaptureLands(c, new)
  PROVE  RowsOK' /\ RecordsOK' /\ ShownIsClaimed' /\ OneStands' /\ TagStaysWithRecord'
<1>0. TypeOK /\ CallsOK /\ RecordsOK /\ ShownIsClaimed /\ OneStands /\ TagStaysWithRecord
  BY DEF IInv
<1>1. /\ record' \in [Records -> RecordRows]
      /\ shown' \in [Records -> Tags \cup {Nothing}]
      /\ tags' \in [Items -> SUBSET Tags] /\ \A i \in Items : tags[i] \subseteq tags'[i]
      /\ call[c].item \notin captured /\ captured' = captured \cup {call[c].item}
      /\ UNCHANGED claim
      /\ \A q \in Records \ new : record'[q] = record[q] /\ shown'[q] = shown[q]
      /\ \A r \in new :
            /\ record[r] = NoRecord
            /\ record'[r].state = "pending" /\ record'[r].item = call[c].item
            /\ record'[r].template \in Templates /\ record'[r].by = "capture"
            /\ shown'[r] # Nothing =>
                  claim[record'[r].template] = shown'[r] /\ shown'[r] \in tags'[record'[r].item]
  BY <1>0, LandsRows
<1>2. RecordsOK'
  BY <1>0, <1>1 DEF RecordsOK
<1>3. ShownIsClaimed'
  BY <1>0, <1>1 DEF ShownIsClaimed
<1>4. \A q \in Records : record[q].state # "none" => q \notin new
  BY <1>1 DEF NoRecord
<1>5. \A q \in Records : record[q].by \in {"capture", "composer"} => q \notin new
  BY <1>1 DEF NoRecord
<1>6. ASSUME NEW i, NEW t, Composed(i, t) \/ FiledTwice(i, t)
      PROVE  Composed(i, t)' \/ FiledTwice(i, t)'
  <2>1. ASSUME Composed(i, t) PROVE Composed(i, t)'
    <3>1. PICK q \in Records : About(q, i, t) /\ record[q].by = "composer"
      BY <2>1 DEF Composed
    <3>2. record'[q] = record[q]
      BY <1>1, <1>5, <3>1
    <3> QED
      BY <3>1, <3>2 DEF Composed, About
  <2>2. ASSUME FiledTwice(i, t) PROVE FiledTwice(i, t)'
    <3>1. PICK p \in Records, q \in Records :
             p # q /\ About(p, i, t) /\ record[p].by = "capture" /\ About(q, i, t) /\ record[q].by = "capture"
      BY <2>2 DEF FiledTwice
    <3>2. record'[p] = record[p] /\ record'[q] = record[q]
      BY <1>1, <1>5, <3>1
    <3> QED
      BY <3>1, <3>2 DEF FiledTwice, About
  <2> QED
    BY <1>6, <2>1, <2>2
<1>7. ASSUME NEW p \in Records, NEW q \in Records, Together(p, q)'
      PROVE  \/ Composed(record[p].item, record[p].template)'
             \/ FiledTwice(record[p].item, record[p].template)'
  <2>0. p # q /\ record'[q].item = record'[p].item /\ record'[q].template = record'[p].template
        /\ Standing(p)' /\ Standing(q)'
    BY <1>7 DEF Together, About
  <2>1. CASE p \notin new /\ q \notin new
    <3>1. record'[p] = record[p] /\ record'[q] = record[q]
      BY <1>1, <2>1
    <3>2. Together(p, q)
      BY <2>0, <3>1 DEF Together, Standing, Pending, About
    <3>3. \/ Composed(record[p].item, record[p].template)
          \/ FiledTwice(record[p].item, record[p].template)
      BY <1>0, <3>2 DEF OneStands
    <3>4. \/ Composed(record[p].item, record[p].template)'
          \/ FiledTwice(record[p].item, record[p].template)'
      BY <1>6, <3>1, <3>3 DEF Composed, FiledTwice, About
    <3> QED
      BY <3>4
  <2>2. CASE p \in new /\ q \in new
    BY <1>1, <2>0, <2>2 DEF FiledTwice, About
  <2>3. ASSUME NEW n \in {p, q}, n \notin new, NEW m \in {p, q}, m \in new PROVE FALSE
    <3>1. record'[n] = record[n] /\ record[n].state # "none"
      BY <1>1, <2>0, <2>3 DEF Standing, Pending
    <3>2. record[n].item \in captured
      BY <1>0, <2>3, <3>1 DEF RecordsOK
    <3> QED
      BY <1>1, <2>0, <2>3, <3>1, <3>2
  <2> QED
    BY <2>1, <2>2, <2>3
<1>8. OneStands'
  BY <1>7 DEF OneStands
<1>9. ASSUME NEW q \in Records, Standing(q)', shown'[q] # Nothing,
             ~Composed(record[q].item, record[q].template)',
             ~FiledTwice(record[q].item, record[q].template)'
      PROVE  shown'[q] \in tags'[record'[q].item]
  <2>1. CASE q \in new
    BY <1>1, <1>9, <2>1
  <2>2. CASE q \notin new
    <3>0. record'[q] = record[q] /\ shown'[q] = shown[q]
      BY <1>1, <2>2
    <3>1. /\ ~Composed(record[q].item, record[q].template)
          /\ ~FiledTwice(record[q].item, record[q].template)
      <4>1. ~(\/ Composed(record[q].item, record[q].template)'
              \/ FiledTwice(record[q].item, record[q].template)')
        BY <1>9
      <4> QED
        BY <1>6, <3>0, <4>1 DEF Composed, FiledTwice, About
    <3>2. Standing(q)
      BY <1>9, <3>0 DEF Standing, Pending
    <3>3. shown[q] \in tags[record[q].item]
      BY <1>0, <1>9, <3>0, <3>1, <3>2 DEF TagStaysWithRecord
    <3>4. record[q].item \in Items
      BY <1>0, <3>2 DEF RecordsOK, Standing, Pending, TypeOK
    <3> QED
      BY <1>1, <3>0, <3>3, <3>4
  <2> QED
    BY <2>1, <2>2
<1>10. TagStaysWithRecord'
  BY <1>9 DEF TagStaysWithRecord
<1> QED
  BY <1>1, <1>2, <1>3, <1>8, <1>10 DEF RowsOK

\* A record that turns.
LEMMA TurnsInv ==
  ASSUME IInv, NEW r \in Records, Turns(r)
  PROVE  RowsOK' /\ RecordsOK' /\ ShownIsClaimed' /\ OneStands' /\ TagStaysWithRecord'
<1>0. TypeOK /\ CallsOK /\ RecordsOK /\ OneClaimant /\ ShownIsClaimed /\ OneStands
      /\ TagStaysWithRecord
  BY DEF IInv
<1>1. /\ record' \in [Records -> RecordRows]
      /\ \A q \in Records \ {r} : record'[q] = record[q]
      /\ record[r].state # "none"
      /\ record'[r].item = record[r].item /\ record'[r].template = record[r].template
      /\ record'[r].by = record[r].by
      /\ Standing(r)' => Standing(r) \/ ~AlreadyApplied(record[r].item, record[r].template)
      /\ \/ UNCHANGED tags /\ Standing(r)
         \/ ~Standing(r)' /\ Standing(r) /\ ReleaseTriggerTag(r)
         \/ ~Standing(r) /\ ReturnTriggerTag(r)
      /\ UNCHANGED <<shown, stage, claim, captured>>
  BY <1>0, TurnRows
<1>2. record[r].item \in Items /\ record[r].template \in Templates
  BY <1>0, <1>1 DEF RecordsOK, TypeOK
<1>3. TagOf(r) \in Tags \cup {Nothing}
  BY <1>0, <1>2 DEF TagOf, TypeOK
<1>4. /\ tags' \in [Items -> SUBSET Tags]
      /\ \A i \in Items, g \in Tags : g \in tags[i] /\ g \notin tags'[i] =>
            i = record[r].item /\ g = TagOf(r) /\ Standing(r) /\ ~Standing(r)'
      /\ ~Standing(r) /\ TagOf(r) # Nothing => TagOf(r) \in tags'[record[r].item]
  <2>1. CASE UNCHANGED tags /\ Standing(r)
    BY <1>0, <2>1 DEF TypeOK
  <2>2. CASE ~Standing(r)' /\ Standing(r) /\ ReleaseTriggerTag(r)
    <3>1. CASE TagOf(r) = Nothing
      BY <1>0, <2>2, <3>1 DEF TypeOK, ReleaseTriggerTag
    <3>2. CASE TagOf(r) # Nothing
      <4>1. TagOf(r) \in Tags /\ Shed(record[r].item, TagOf(r))
        BY <1>3, <2>2, <3>2 DEF ReleaseTriggerTag
      <4> QED
        BY <1>0, <1>2, <2>2, <4>1, TagsTyped
    <3> QED
      BY <3>1, <3>2
  <2>3. CASE ~Standing(r) /\ ReturnTriggerTag(r)
    <3>1. CASE TagOf(r) = Nothing
      BY <1>0, <2>3, <3>1 DEF TypeOK, ReturnTriggerTag
    <3>2. CASE TagOf(r) # Nothing
      <4>1. TagOf(r) \in Tags /\ Wear(record[r].item, TagOf(r))
        BY <1>3, <2>3, <3>2 DEF ReturnTriggerTag
      <4> QED
        BY <1>0, <1>2, <2>3, <4>1, TagsTyped
    <3> QED
      BY <3>1, <3>2
  <2> QED
    BY <1>1, <2>1, <2>2, <2>3
<1>5. RecordsOK'
  BY <1>0, <1>1, <1>2 DEF RecordsOK
<1>6. ShownIsClaimed'
  BY <1>0, <1>1, <1>2 DEF ShownIsClaimed
<1>7. \A q \in Records : record'[q].item = record[q].item /\ record'[q].template = record[q].template
                         /\ record'[q].by = record[q].by
  BY <1>1
<1>8. \A i, t : /\ Composed(i, t)' <=> Composed(i, t)
                /\ FiledTwice(i, t)' <=> FiledTwice(i, t)
  BY <1>7 DEF Composed, FiledTwice, About
<1>9. \A q \in Records : q # r => (Standing(q)' <=> Standing(q))
  BY <1>1 DEF Standing, Pending
<1>10. ASSUME NEW p \in Records, NEW q \in Records, Together(p, q)'
       PROVE  Together(p, q)
  <2>1. p # q /\ record[q].item = record[p].item /\ record[q].template = record[p].template
        /\ Standing(p)' /\ Standing(q)'
    BY <1>7, <1>10 DEF Together, About
  <2>2. \A n \in {p, q} : n # r => Standing(n)
    BY <1>9, <2>1
  <2>3. Standing(r) \/ r \notin {p, q}
    <3> SUFFICES ASSUME r \in {p, q}, ~Standing(r) PROVE FALSE
      OBVIOUS
    <3>1. PICK n \in {p, q} : n # r
      BY <2>1
    <3>2. Standing(n) /\ n \in Records /\ About(n, record[r].item, record[r].template)
      BY <2>1, <2>2, <3>1 DEF About
    <3>3. AlreadyApplied(record[r].item, record[r].template)
      BY <3>2 DEF AlreadyApplied
    <3> QED
      BY <1>1, <2>1, <3>3
  <2> QED
    BY <2>1, <2>2, <2>3 DEF Together, About
<1>11. OneStands'
  BY <1>0, <1>7, <1>8, <1>10 DEF OneStands
<1>12. ASSUME NEW q \in Records, Standing(q)', shown'[q] # Nothing,
              ~Composed(record[q].item, record[q].template)',
              ~FiledTwice(record[q].item, record[q].template)'
       PROVE  shown'[q] \in tags'[record'[q].item]
  <2>0. /\ shown[q] # Nothing /\ ~Composed(record[q].item, record[q].template)
        /\ ~FiledTwice(record[q].item, record[q].template)
        /\ claim[record[q].template] = shown[q] /\ record[q].template \in Templates
    BY <1>0, <1>1, <1>7, <1>8, <1>12 DEF ShownIsClaimed
  <2>1. shown[q] \in Tags /\ shown'[q] = shown[q] /\ record'[q].item = record[q].item
    BY <1>0, <1>1, <1>7, <2>0 DEF TypeOK
  <2>2. CASE Standing(q)
    <3>1. shown[q] \in tags[record[q].item]
      BY <1>0, <2>0, <2>2 DEF TagStaysWithRecord
    <3>2. record[q].item \in Items
      BY <1>0, <2>2 DEF RecordsOK, Standing, Pending, TypeOK
    <3>3. ASSUME shown[q] \notin tags'[record[q].item] PROVE FALSE
      <4>1. record[q].item = record[r].item /\ shown[q] = TagOf(r) /\ Standing(r) /\ ~Standing(r)'
        BY <1>4, <2>1, <3>1, <3>2, <3>3
      <4>2. q # r
        BY <1>12, <4>1
      <4>3. record[q].template = record[r].template
        BY <1>0, <1>2, <2>0, <4>1 DEF OneClaimant, TagOf
      <4>4. Together(q, r)
        BY <2>2, <4>1, <4>2, <4>3 DEF Together, About
      <4> QED
        BY <1>0, <2>0, <4>4 DEF OneStands
    <3> QED
      BY <2>1, <3>3
  <2>3. CASE ~Standing(q)
    <3>1. q = r
      BY <1>9, <1>12, <2>3
    <3> QED
      BY <1>4, <2>0, <2>1, <2>3, <3>1 DEF TagOf
  <2> QED
    BY <2>2, <2>3
<1>13. TagStaysWithRecord'
  BY <1>12 DEF TagStaysWithRecord
<1> QED
  BY <1>0, <1>1, <1>4, <1>5, <1>6, <1>11, <1>13 DEF RowsOK, TypeOK

\* Every other step.
LEMMA OthersInv ==
  ASSUME IInv, Kept, shown' \in [Records -> Tags \cup {Nothing}], captured \subseteq captured',
         tags' \in [Items -> SUBSET Tags],
         \A r \in Records : Standing(r) /\ shown[r] # Nothing /\ shown[r] \in tags[record[r].item]
            => shown[r] \in tags'[record[r].item]
  PROVE  RowsOK' /\ RecordsOK' /\ ShownIsClaimed' /\ OneStands' /\ TagStaysWithRecord'
<1>0. TypeOK /\ RecordsOK /\ ShownIsClaimed /\ OneStands /\ TagStaysWithRecord
  BY DEF IInv
<1>1. record' = record
  BY DEF Kept
<1>2. RowsOK' /\ RecordsOK'
  BY <1>0, <1>1 DEF RowsOK, RecordsOK, TypeOK
<1>3. ShownIsClaimed'
  BY <1>0, <1>1 DEF ShownIsClaimed, Kept
<1>4. OneStands'
  BY <1>0, <1>1 DEF OneStands, Together, Composed, FiledTwice, Standing, Pending, About
<1>5. \A r \in Records : Standing(r)' <=> Standing(r)
  BY <1>1 DEF Standing, Pending
<1>6. \A i, t : /\ Composed(i, t)' <=> Composed(i, t)
                /\ FiledTwice(i, t)' <=> FiledTwice(i, t)
  BY <1>1 DEF Composed, FiledTwice, About
<1>7. \A r \in Records : shown'[r] # Nothing => shown'[r] = shown[r]
  BY DEF Kept
<1>8. TagStaysWithRecord'
  BY <1>0, <1>1, <1>5, <1>6, <1>7 DEF TagStaysWithRecord
<1> QED
  BY <1>2, <1>3, <1>4, <1>8

LEMMA RowsStep ==
  ASSUME IInv, [Next]_vars
  PROVE  RowsOK' /\ RecordsOK' /\ ShownIsClaimed' /\ OneStands' /\ TagStaysWithRecord'
<1>0. /\ TypeOK /\ CallsOK /\ RecordsOK /\ OneClaimant /\ ShownIsClaimed
      /\ UnwrittenClaimsNothing
  BY DEF IInv
<1>1. captured \subseteq captured'
  BY <1>0, CallStep
<1>2. \A r \in Records : shown[r] # Nothing => shown[r] \in Tags
  BY <1>0 DEF TypeOK
<1>3. \A r \in Records : Standing(r) => record[r].item \in Items
  BY <1>0 DEF RecordsOK, Standing, Pending, TypeOK
<1>4. CASE Templating
  <2>1. Kept /\ UNCHANGED tags /\ shown' \in [Records -> Tags \cup {Nothing}]
    BY <1>0, <1>4, TemplatingKeeps
  <2> QED
    BY <1>0, <1>1, <2>1, OthersInv DEF TypeOK
<1>5. ASSUME NEW i \in Items, NEW g \in Tags, Untag(i, g)
      PROVE  RowsOK' /\ RecordsOK' /\ ShownIsClaimed' /\ OneStands' /\ TagStaysWithRecord'
  <2>1. Kept /\ shown' = shown
    BY <1>5 DEF Untag, Kept, templateVars
  <2>2. /\ tags' \in [Items -> SUBSET Tags]
        /\ \A j \in Items, h \in Tags : h \in tags[j] /\ (j # i \/ h # g) => h \in tags'[j]
    BY <1>0, <1>5, TagsTyped DEF Untag
  <2>3. \A r \in Records : Standing(r) /\ shown[r] # Nothing => record[r].item # i \/ shown[r] # g
    BY <1>0, <1>5, UntagKeeps
  <2> QED
    BY <1>0, <1>1, <1>2, <1>3, <2>1, <2>2, <2>3, OthersInv DEF TypeOK
<1>6. CASE /\ UNCHANGED <<record, shown, claim>>
           /\ UNCHANGED tags \/ \E i \in Items, g \in Tags : Wear(i, g)
  <2>1. Kept
    BY <1>6 DEF Kept
  <2>2. tags' \in [Items -> SUBSET Tags] /\ \A j \in Items : tags[j] \subseteq tags'[j]
    BY <1>0, <1>6, TagsTyped DEF TypeOK
  <2> QED
    BY <1>0, <1>1, <1>3, <1>6, <2>1, <2>2, OthersInv DEF TypeOK
<1> QED
  BY <1>0, <1>4, <1>5, <1>6, StepKinds, ReservesInv, LandsInv, TurnsInv

-----------------------------------------------------------------------------
LEMMA InitInv == Init => IInv
<1> SUFFICES ASSUME Init PROVE IInv
  OBVIOUS
<1> USE DEF Init
<1>1. NoRecord \in RecordRows /\ NoRecord.state = "none"
  BY DEF NoRecord, RecordRows, States
<1>2. TypeOK
  BY <1>1, NoCallIsARow DEF TypeOK
<1>3. CallsOK
  BY NoCallIsARow DEF CallsOK
<1>4. \A r \in Records : ~Standing(r) /\ record[r].state = "none"
  BY <1>1 DEF Standing, Pending
<1>5. RecordsOK /\ OneStands /\ TagStaysWithRecord
  BY <1>4 DEF RecordsOK, OneStands, Together, TagStaysWithRecord
<1>6. OneClaimant /\ ShownIsClaimed /\ UnwrittenClaimsNothing
  BY DEF OneClaimant, ShownIsClaimed, UnwrittenClaimsNothing
<1> QED
  BY <1>2, <1>3, <1>5, <1>6 DEF IInv

LEMMA StepInv == IInv /\ [Next]_vars => IInv'
<1> SUFFICES ASSUME IInv, [Next]_vars PROVE IInv'
  OBVIOUS
<1>1. TypeOK /\ CallsOK /\ RecordsOK /\ OneClaimant /\ UnwrittenClaimsNothing
  BY DEF IInv
<1>2. TemplatesOK' /\ OneClaimant' /\ UnwrittenClaimsNothing'
  BY <1>1, TemplateStep
<1>3. call' \in [Calls -> CallRows] /\ CallsOK' /\ captured' \subseteq Items
  BY <1>1, CallStep
<1>4. RowsOK' /\ RecordsOK' /\ ShownIsClaimed' /\ OneStands' /\ TagStaysWithRecord'
  BY RowsStep
<1>5. TypeOK'
  BY <1>2, <1>3, <1>4 DEF TypeOK, TemplatesOK, RowsOK
<1> QED
  BY <1>2, <1>3, <1>4, <1>5 DEF IInv

LEMMA AlwaysInv == Spec => []IInv
  BY InitInv, StepInv, PTL DEF Spec

\* Every variable keeps its type.
THEOREM Types == Spec => []TypeOK
  BY AlwaysInv, PTL DEF IInv

\* However templates are written, edited and deleted, one at most declares a tag.
THEOREM ClaimedOnce == Spec => []OneClaimant
  BY AlwaysInv, PTL DEF IInv

\* A tag that fired a record is on its item while the record stands, where
\* nobody composed another and its capture did not file twice.
THEOREM TagStays == Spec => []TagStaysWithRecord
  BY AlwaysInv, PTL DEF IInv

\* No tagging or reinstatement makes a second decision of one template stand on
\* an item: a person does, or one capture that read the template twice.
THEOREM NoSecond == Spec => NoSecondFiling
<1>1. ASSUME IInv, [Next]_vars, NEW p \in Records, NEW q \in Records,
             Together(p, q)', ~Together(p, q)
      PROVE  \/ \E r \in {p, q} : record[r] = NoRecord /\ record'[r].by = "composer"
             \/ /\ \A r \in {p, q} : record[r] = NoRecord /\ record'[r].by = "capture"
                /\ ReadTwice(record'[p].template)
  <2>0. /\ TypeOK /\ CallsOK /\ RecordsOK /\ OneClaimant /\ ShownIsClaimed
        /\ UnwrittenClaimsNothing
    BY <1>1 DEF IInv
  <2>1. ASSUME NEW r \in Records, NEW c \in Calls, Reserves(r, c)
        PROVE  r \in {p, q} /\ record[r] = NoRecord /\ record'[r].by = "composer"
    <3>1. /\ \A n \in Records \ {r} : record'[n] = record[n]
          /\ record[r] = NoRecord
          /\ record'[r].by = "composer" \/ ~AlreadyApplied(record'[r].item, record'[r].template)
      BY <2>0, <2>1, ReserveRows
    <3>2. r \in {p, q}
      BY <1>1, <3>1 DEF Together, Standing, Pending, About
    <3>3. PICK n \in {p, q} : n # r
      BY <1>1 DEF Together
    <3>4. n \in Records /\ Standing(n) /\ About(n, record'[r].item, record'[r].template)
      BY <1>1, <3>1, <3>2, <3>3 DEF Together, Standing, Pending, About
    <3>5. AlreadyApplied(record'[r].item, record'[r].template)
      BY <3>4 DEF AlreadyApplied
    <3> QED
      BY <3>1, <3>2, <3>5
  <2>2. ASSUME NEW r \in Records, Turns(r) PROVE FALSE
    <3>1. /\ \A n \in Records \ {r} : record'[n] = record[n]
          /\ record'[r].item = record[r].item /\ record'[r].template = record[r].template
          /\ Standing(r)' => Standing(r) \/ ~AlreadyApplied(record[r].item, record[r].template)
      BY <2>0, <2>2, TurnRows
    <3>2. \A n \in Records : record'[n].item = record[n].item /\ record'[n].template = record[n].template
      BY <3>1
    <3>3. \A n \in Records : n # r => (Standing(n)' <=> Standing(n))
      BY <3>1 DEF Standing, Pending
    <3>4. r \in {p, q} /\ Standing(r)' /\ ~Standing(r)
      BY <1>1, <3>2, <3>3 DEF Together, About
    <3>5. PICK n \in {p, q} : n # r
      BY <1>1 DEF Together
    <3>6. n \in Records /\ Standing(n) /\ About(n, record[r].item, record[r].template)
      BY <1>1, <3>2, <3>3, <3>4, <3>5 DEF Together, About
    <3>7. AlreadyApplied(record[r].item, record[r].template)
      BY <3>6 DEF AlreadyApplied
    <3> QED
      BY <3>1, <3>4, <3>7
  <2>3. CASE UNCHANGED record
    BY <1>1, <2>3 DEF Together, Standing, Pending, About
  <2>4. CASE Templating
    BY <2>0, <2>3, <2>4, TemplatingKeeps DEF Kept
  <2>5. ASSUME NEW c \in Calls, NEW new \in SUBSET Records, CaptureLands(c, new)
        PROVE  /\ \A r \in {p, q} : record[r] = NoRecord /\ record'[r].by = "capture"
               /\ ReadTwice(record'[p].template)
    <3>1. /\ call[c].item \notin captured
          /\ \A n \in Records \ new : record'[n] = record[n]
          /\ \A r \in new :
                /\ record[r] = NoRecord
                /\ record'[r].item = call[c].item /\ record'[r].by = "capture"
          /\ \A m, n \in new :
                m # n /\ record'[m].template = record'[n].template => ReadTwice(record'[m].template)
      BY <2>0, <2>5, LandsRows
    <3>2. /\ p # q /\ record'[q].item = record'[p].item /\ record'[q].template = record'[p].template
          /\ Standing(p)' /\ Standing(q)'
      BY <1>1 DEF Together, About
    <3>3. ASSUME NEW n \in {p, q}, n \notin new, NEW m \in {p, q}, m \in new PROVE FALSE
      <4>1. record'[n] = record[n] /\ record[n].state # "none"
        BY <3>1, <3>2, <3>3 DEF Standing, Pending
      <4>2. record[n].item \in captured
        BY <2>0, <3>3, <4>1 DEF RecordsOK
      <4> QED
        BY <3>1, <3>2, <3>3, <4>1, <4>2
    <3>4. ~(p \notin new /\ q \notin new)
      BY <1>1, <3>1, <3>2 DEF Together, Standing, Pending, About
    <3>5. p \in new /\ q \in new
      BY <3>3, <3>4
    <3> QED
      BY <3>1, <3>2, <3>5
  <2> QED
    BY <1>1, <2>0, <2>1, <2>2, <2>3, <2>4, <2>5, StepKinds DEF Untag
<1>2. IInv /\ [Next]_vars =>
      [\A p, q \in Records :
          Together(p, q)' /\ ~Together(p, q)
            => \/ \E r \in {p, q} : record[r] = NoRecord /\ record'[r].by = "composer"
               \/ /\ \A r \in {p, q} : record[r] = NoRecord /\ record'[r].by = "capture"
                  /\ ReadTwice(record'[p].template)]_vars
  BY <1>1
<1> QED
  BY <1>2, AlwaysInv, PTL DEF Spec, NoSecondFiling

\* A tag whose call found a template is written with a record of it standing.
THEOREM NoneSpent == Spec => NeverSpent
<1>1. ASSUME IInv, [Next]_vars, NEW c \in Calls, call[c].kind = "tag", call[c].template # Nothing,
             call[c].tag \in tags'[call[c].item] \ tags[call[c].item], call'[c] = Done
      PROVE  \E r \in Records :
                /\ Standing(r)'
                /\ record'[r].item = call[c].item
                /\ record'[r].template = call[c].template
  <2>0. TypeOK /\ CallsOK /\ RecordsOK
    BY <1>1 DEF IInv
  <2>1. call'[c] # call[c]
    BY <1>1 DEF Done, NoCall
  <2>2. ASSUME NEW r \in Records, TagFires(c, r)
        PROVE  \E q \in Records :
                /\ Standing(q)'
                /\ record'[q].item = call[c].item
                /\ record'[q].template = call[c].template
    <3>1. record' = [record EXCEPT ![r] =
                    [item |-> call[c].item, template |-> call[c].template,
                     place |-> call[c].place, by |-> "tag", state |-> "pending"]]
      BY <2>2 DEF TagFires, Reserve, Reservation
    <3>2. record'[r] = [item |-> call[c].item, template |-> call[c].template,
                     place |-> call[c].place, by |-> "tag", state |-> "pending"]
      BY <2>0, <3>1 DEF TypeOK
    <3> QED
      BY <3>2 DEF Standing, Pending
  <2>3. ASSUME TagPlain(c)
        PROVE  \E q \in Records :
                /\ Standing(q)'
                /\ record'[q].item = call[c].item
                /\ record'[q].template = call[c].template
    <3>1. call[c].firing \in {"none", "skipped", "fires", "refused"} /\ call[c].firing # "none"
      BY <1>1, <2>0, <2>3 DEF TypeOK, CallRows, CallsOK, RowOK, TagPlain, Writes
    <3>2. AlreadyApplied(call[c].item, call[c].template)
      BY <2>3, <3>1 DEF TagPlain, GoesRound, Decided
    <3>3. record' = record
      BY <2>3 DEF TagPlain
    <3> QED
      BY <3>2, <3>3 DEF AlreadyApplied, About, Standing, Pending
  <2>4. ASSUME NEW d \in Calls, call' = [call EXCEPT ![d] = Done] PROVE d = c
    BY <2>0, <2>1, <2>4 DEF TypeOK
  <2>5. tags' # tags
    BY <1>1
  <2>6. ASSUME NEW d \in Calls, NEW r \in Records, TagFires(d, r) PROVE TagFires(c, r)
    BY <2>4, <2>6 DEF TagFires, Answered
  <2>7. ASSUME NEW d \in Calls, TagPlain(d) PROVE TagPlain(c)
    BY <2>4, <2>7 DEF TagPlain, Answered
  <2>8. ASSUME NEW d \in Calls, NEW new \in SUBSET Records, CaptureLands(d, new) PROVE FALSE
    <3>1. call[d].kind = "capture" /\ call' = [call EXCEPT ![d] = Done]
      BY <2>8 DEF CaptureLands, Answered
    <3> QED
      BY <1>1, <2>4, <3>1
  <2> QED
    BY <1>1, <2>1, <2>2, <2>3, <2>5, <2>6, <2>7, <2>8
       DEF Next, Templating, Tagging, Capturing, Composing, Recording, CreateTemplate,
           EditTemplate, DeleteTemplate, AskToTag, LookUp, Weigh, TagNothing, TagAgain,
           Untag, AskToCapture, LookUpNext, WeighCapture, CaptureAnswered, CaptureLands,
           AskToCompose, Compose, Attempt, Deliver, Fail, Cancel, Withdraw, Reinstate, vars
<1>2. IInv /\ [Next]_vars =>
      [\A c \in Calls :
          /\ call[c].kind = "tag" /\ call[c].template # Nothing
          /\ call[c].tag \in tags'[call[c].item] \ tags[call[c].item]
          /\ call'[c] = Done
          => \E r \in Records :
                /\ Standing(r)'
                /\ record'[r].item = call[c].item
                /\ record'[r].template = call[c].template]_vars
  BY <1>1
<1> QED
  BY <1>2, AlwaysInv, PTL DEF Spec, NeverSpent
=============================================================================
