------------------------- MODULE FormValidationProofs -------------------------
(***************************************************************************)
(* Proofs about FormValidation: what the boxes of a form say is about what *)
(* its fields hold, where the two validators differ, and who is refused    *)
(* sees why, for every form, field and content.                            *)
(***************************************************************************)
EXTENDS FormValidation, TLAPS

(* The rule of an attribute and what the server asks of it are the same,   *)
(* for content that is not blank, but for e-mail addresses: of those the   *)
(* browser takes fewer.                                                    *)
LEMMA OneRule ==
  ASSUME NEW a \in Annotation, NEW v \in Contents, ~v.blank
  PROVE  /\ (\A r \in Adapt(a) : Passes(r, v)) => Meets(a, v)
         /\ Meets(a, v) => \/ \A r \in Adapt(a) : Passes(r, v)
                           \/ a.adapter = "email" /\ v.address /\ ~v.matches
<1>1. /\ v.len \in Nat /\ v.len > 0
      /\ v.address \in BOOLEAN /\ v.matches \in BOOLEAN /\ (v.matches => v.address)
  <2>1. v.len \in Nat /\ v.address \in BOOLEAN /\ v.matches \in BOOLEAN
    BY FormValidationAssumption
  <2>2. v.len # 0
    BY FormValidationAssumption
  <2> QED
    BY <2>1, <2>2, FormValidationAssumption
<1>2. /\ a.adapter \in Adapters /\ a.min \in Nat /\ a.max \in Nat
      /\ a.adapter # "length" => a.min = 0
      /\ a.adapter \in {"required", "email"} => a.max = 0
  BY DEF Annotation, None
<1>3. CASE a.adapter = "required"
  <2>1. Adapt(a) = {Rule(a, "required", None, None)}
    BY <1>3 DEF Adapt, addBool
  <2> QED
    BY <1>1, <1>2, <1>3, <2>1 DEF Passes, Meets, Rule, None
<1>4. CASE a.adapter = "email"
  <2>1. Adapt(a) = {Rule(a, "email", None, None)}
    BY <1>4 DEF Adapt, addBool
  <2> QED
    BY <1>1, <1>2, <1>4, <2>1 DEF Passes, Meets, Rule, None
<1>5. CASE a.adapter = "maxlength"
  <2>1. Adapt(a) = addMinMax(a, "minlength", "maxlength", "maxlength") /\ a.min = None
    BY <1>2, <1>5 DEF Adapt, None
  <2>2. CASE a.max # None
    <3>1. Adapt(a) = {Rule(a, "maxlength", None, a.max)}
      BY <2>1, <2>2 DEF addMinMax
    <3> QED
      BY <1>1, <1>2, <1>5, <2>2, <3>1 DEF Passes, Meets, Rule, None
  <2>3. CASE a.max = None
    <3>1. Adapt(a) = {}
      BY <2>1, <2>3 DEF addMinMax
    <3> QED
      BY <1>1, <1>2, <1>5, <2>3, <3>1 DEF Meets, None
  <2> QED
    BY <2>2, <2>3
<1>6. CASE a.adapter = "length"
  <2>1. Adapt(a) = addMinMax(a, "minlength", "maxlength", "rangelength")
    BY <1>6 DEF Adapt
  <2>2. CASE a.min # None /\ a.max # None
    <3>1. Adapt(a) = {Rule(a, "rangelength", a.min, a.max)}
      BY <2>1, <2>2 DEF addMinMax
    <3> QED
      BY <1>1, <1>2, <1>6, <2>2, <3>1 DEF Passes, Meets, Rule, None
  <2>3. CASE a.min # None /\ a.max = None
    <3>1. Adapt(a) = {Rule(a, "minlength", a.min, None)}
      BY <2>1, <2>3 DEF addMinMax
    <3> QED
      BY <1>1, <1>2, <1>6, <2>3, <3>1 DEF Passes, Meets, Rule, None
  <2>4. CASE a.min = None /\ a.max # None
    <3>1. Adapt(a) = {Rule(a, "maxlength", None, a.max)}
      BY <2>1, <2>4 DEF addMinMax
    <3> QED
      BY <1>1, <1>2, <1>6, <2>4, <3>1 DEF Passes, Meets, Rule, None
  <2>5. CASE a.min = None /\ a.max = None
    <3>1. Adapt(a) = {}
      BY <2>1, <2>5 DEF addMinMax
    <3> QED
      BY <1>1, <1>2, <1>6, <2>5, <3>1 DEF Meets, None
  <2> QED
    BY <2>2, <2>3, <2>4, <2>5
<1> QED
  BY <1>2, <1>3, <1>4, <1>5, <1>6 DEF Adapters

(* Every adapter's message is its own.                                     *)
LEMMA OwnMessage ==
  ASSUME NEW a \in Annotation, NEW r \in Adapt(a)
  PROVE  r.message = a.adapter /\ a.adapter \in Adapters
<1>1. a.adapter \in Adapters
  BY DEF Annotation
<1>2. \E method, lo, hi : r = Rule(a, method, lo, hi)
  BY <1>1 DEF Adapt, addBool, addMinMax, Adapters
<1> QED
  BY <1>1, <1>2 DEF Rule

LEMMA OfAPage ==
  ASSUME form \in Forms, NEW f \in Fields
  PROVE  form.annotations[f] \subseteq Annotation /\ Kept(f) \subseteq form.annotations[f] /\ form.box[f] \in {"none", "keep", "replace"}
         /\ form.summary \in BOOLEAN
  BY FormValidationAssumption DEF Form, OneEach, Kept

LEMMA FailingMessages ==
  ASSUME form \in Forms, NEW f \in Fields, NEW v
  PROVE  Failing(f, v) \subseteq Messages /\ NoText \notin Failing(f, v)
<1>1. ASSUME NEW message \in Failing(f, v) PROVE message \in Adapters
  <2>1. PICK a \in Kept(f) : \E r \in Adapt(a) : message = r.message
    BY <1>1 DEF Failing, Rules
  <2> QED
    BY <2>1, OfAPage, OwnMessage
<1> QED
  BY <1>1, FormValidationAssumption DEF Messages

LEMMA FailingKept ==
  ASSUME NEW f, NEW v
  PROVE  Failing(f, v) = {} <=> \A a \in Kept(f) : \A r \in Adapt(a) : Passes(r, v)
  BY DEF Failing, Rules

(* No rule fails that the server would not mind, but for blanks and e-mail *)
(* addresses.                                                              *)
LEMMA FailingUnmet ==
  ASSUME form \in Forms, NEW f \in Fields, NEW v \in Contents, ~v.blank,
         Failing(f, v) # {}, Unmet(f, v) = {}
  PROVE  v.address /\ ~v.matches /\ \E a \in Kept(f) : a.adapter = "email"
<1>1. PICK a \in Kept(f) : \E r \in Adapt(a) : ~Passes(r, v)
  BY FailingKept
<1>2. a \in Annotation /\ a \in form.annotations[f]
  BY OfAPage
<1>3. Meets(a, v)
  BY <1>2 DEF Unmet
<1> QED
  BY <1>1, <1>2, <1>3, OneRule

(* Nor is a rule missing of what the server minds, but for those that      *)
(* another took the place of.                                              *)
LEMMA KeptMeets ==
  ASSUME form \in Forms, NEW f \in Fields, NEW v \in Contents, ~v.blank,
         Failing(f, v) = {}, NEW a \in Kept(f)
  PROVE  Meets(a, v)
<1>1. a \in Annotation /\ \A r \in Adapt(a) : Passes(r, v)
  BY FailingKept, OfAPage
<1> QED
  BY <1>1, OneRule

LEMMA BlankMeets ==
  ASSUME NEW a, NEW v, v.blank, a.adapter # "required"
  PROVE  Meets(a, v)
  BY DEF Meets

-----------------------------------------------------------------------------
(* The inductive invariant.                                                *)

(* A verdict comes from a validator; an error is remembered; a field that  *)
(* was found right has an empty box, even while it has the focus.          *)
Judged ==
  /\ ~attached => \A f \in Fields : invalid[f] = "unknown"
  /\ \A f \in Fields : invalid[f] = "yes" => f \in submitted
  /\ \A f \in Fields : form.box[f] = "replace" /\ invalid[f] = "no" => box[f] = EmptyBox

(* As long as nothing is edited, what a refusal found is shown.            *)
Shown ==
  outcome = "refused" =>
    /\ attached /\ Failed # {}
    /\ \A f \in Failed : form.box[f] # "none" => box[f].class = "error"
    /\ form.summary => summary.class = "error" /\ summary.items # {}

(* What was sent by a validator passed it.                                 *)
Passed == attached /\ outcome = "sent" => Failed = {}

IInv == TypeOK /\ Judged /\ FeedbackIsCurrent /\ Shown /\ Passed

-----------------------------------------------------------------------------
(* The boxes.                                                              *)

LEMMA Boxes ==
  ASSUME form \in Forms, NEW f \in Fields, NEW b \in Box, NEW message \in Messages
  PROVE  /\ onError(f, b, message) \in Box /\ onSuccess(f, b) \in Box
         /\ form.box[f] # "none" => onError(f, b, message).class = "error"
         /\ form.box[f] = "replace" => /\ onError(f, b, message).text = message
                                       /\ onSuccess(f, b) = EmptyBox
<1>1. form.box[f] \in {"none", "keep", "replace"}
  BY OfAPage
<1>2. EmptyBox \in Box
  BY DEF EmptyBox, Box
<1> QED
  BY <1>1, <1>2 DEF onError, onSuccess, Box

(* The verdict on one field.                                               *)
LEMMA Verdict ==
  ASSUME TypeOK, NEW f \in Fields, NEW v \in Contents, element(f, v), attached' = attached, attached,
         form' = form, Judged
  PROVE  /\ invalid' \in [Fields -> {"unknown", "no", "yes"}] /\ submitted' \subseteq Fields
         /\ box' \in [Fields -> Box]
         /\ Judged'
         /\ \A g \in Fields \ {f} : invalid'[g] = invalid[g] /\ box'[g] = box[g]
         /\ invalid'[f] # "unknown"
         /\ form.box[f] = "replace" /\ invalid'[f] = "yes" =>
              box'[f].class = "error" /\ box'[f].text \in Failing(f, v)
         /\ Failing(f, v) # {} /\ form.box[f] # "none" => box'[f].class = "error"
<1>1. /\ invalid \in [Fields -> {"unknown", "no", "yes"}] /\ submitted \subseteq Fields
      /\ box \in [Fields -> Box] /\ form \in Forms
  BY DEF TypeOK
<1>2. CASE /\ Failing(f, v) = {}
           /\ invalid' = [invalid EXCEPT ![f] = "no"]
           /\ box' = [box EXCEPT ![f] = onSuccess(f, @)]
           /\ UNCHANGED submitted
  <2>1. onSuccess(f, box[f]) \in Box
        /\ (form.box[f] = "replace" => onSuccess(f, box[f]) = EmptyBox)
    BY <1>1, Boxes DEF Messages, Adapters
  <2> QED
    BY <1>1, <1>2, <2>1 DEF Judged
<1>3. ASSUME NEW message \in Failing(f, v),
             invalid' = [invalid EXCEPT ![f] = "yes"],
             submitted' = submitted \cup {f},
             box' = [box EXCEPT ![f] = onError(f, @, message)]
      PROVE  /\ invalid' \in [Fields -> {"unknown", "no", "yes"}] /\ submitted' \subseteq Fields
             /\ box' \in [Fields -> Box]
             /\ Judged'
             /\ \A g \in Fields \ {f} : invalid'[g] = invalid[g] /\ box'[g] = box[g]
             /\ invalid'[f] # "unknown"
             /\ form.box[f] = "replace" =>
                  box'[f].class = "error" /\ box'[f].text \in Failing(f, v)
             /\ form.box[f] # "none" => box'[f].class = "error"
  <2>1. message \in Messages
    BY <1>1, <1>3, FailingMessages
  <2>2. /\ onError(f, box[f], message) \in Box
        /\ form.box[f] # "none" => onError(f, box[f], message).class = "error"
        /\ form.box[f] = "replace" => onError(f, box[f], message).text = message
    BY <1>1, <2>1, Boxes
  <2>3. box'[f] = onError(f, box[f], message)
    BY <1>1, <1>3
  <2> QED
    BY <1>1, <1>3, <2>2, <2>3 DEF Judged
<1> QED
  BY <1>2, <1>3 DEF element

-----------------------------------------------------------------------------
(* The steps.                                                              *)

LEMMA InitIInv == Init => IInv
<1> SUFFICES ASSUME Init PROVE IInv
  OBVIOUS
<1>1. TypeOK
  BY FormValidationAssumption DEF Init, TypeOK, Box, EmptyBox
<1>2. Judged /\ FeedbackIsCurrent /\ Shown /\ Passed
  BY DEF Init, Judged, FeedbackIsCurrent, Shown, Passed, EmptyBox
<1> QED
  BY <1>1, <1>2 DEF IInv

LEMMA ParseKeeps == ASSUME IInv, parse PROVE IInv'
<1>1. TypeOK'
  BY DEF IInv, TypeOK, parse, verdicts
<1>2. Judged'
  BY DEF IInv, Judged, parse, verdicts
<1>3. FeedbackIsCurrent'
  BY DEF IInv, Judged, FeedbackIsCurrent, parse, verdicts
<1>4. Shown' /\ Passed'
  BY DEF IInv, Shown, Passed, parse, verdicts
<1> QED
  BY <1>1, <1>2, <1>3, <1>4 DEF IInv

(* A field is edited while it has the focus, so its box may be out of date *)
(* for now.                                                                *)
LEMMA EditKeeps ==
  ASSUME IInv, NEW f \in Fields, NEW v \in Contents, Type(f, v) \/ Paste(f, v)
  PROVE  IInv'
<1>1. /\ focus = f /\ content' = [content EXCEPT ![f] = v] /\ outcome' = "editing"
      /\ UNCHANGED <<form, focus, attached, summary, found>>
      /\ (attached /\ element(f, v)) \/ UNCHANGED verdicts
  BY DEF Type, Paste, Edit
<1>2. TypeOK /\ Judged /\ FeedbackIsCurrent /\ content \in [Fields -> Contents]
  BY DEF IInv, TypeOK
<1>3. \A g \in Fields \ {f} : content'[g] = content[g]
  BY <1>1, <1>2
<1>4. content' \in [Fields -> Contents]
  BY <1>1, <1>2
<1>5. /\ invalid' \in [Fields -> {"unknown", "no", "yes"}] /\ submitted' \subseteq Fields
      /\ box' \in [Fields -> Box]
      /\ Judged'
      /\ \A g \in Fields \ {f} : invalid'[g] = invalid[g] /\ box'[g] = box[g]
  <2>1. CASE UNCHANGED verdicts
    BY <1>1, <1>2, <2>1 DEF verdicts, TypeOK, Judged
  <2>2. CASE attached /\ element(f, v)
    BY <1>1, <1>2, <2>2, Verdict
  <2> QED
    BY <1>1, <2>1, <2>2
<1>6. TypeOK'
  BY <1>1, <1>2, <1>4, <1>5 DEF TypeOK
<1>7. FeedbackIsCurrent'
  <2>1. ASSUME NEW g \in Fields \ {f}, form.box[g] = "replace"
        PROVE  /\ invalid'[g] = "yes" => box'[g].class = "error" /\ box'[g].text \in Failing(g, content[g])
               /\ invalid'[g] = "no" => box'[g] = EmptyBox
               /\ (attached /\ invalid'[g] = "unknown" /\ box'[g].class = "error")
                    => content[g] \in {found[g], Empty}
    BY <1>1, <1>2, <1>5, <2>1 DEF FeedbackIsCurrent
  <2>2. \A g \in Fields \ {f} : Failing(g, content[g])' = Failing(g, content[g])
    BY <1>1, <1>3 DEF Failing, Rules, Kept
  <2> QED
    BY <1>1, <1>3, <2>1, <2>2 DEF FeedbackIsCurrent
<1>8. Shown' /\ Passed'
  BY <1>1 DEF Shown, Passed
<1> QED
  BY <1>5, <1>6, <1>7, <1>8 DEF IInv

(* A field that has, or had, the focus is judged as it is now.             *)
LEMMA JudgedKeeps ==
  ASSUME IInv, focus' \in Fields \cup {NoField}, outcome # "sent",
         UNCHANGED <<form, content, attached, summary, outcome, found>>,
         attached, focus \in Fields, element(focus, content[focus])
  PROVE  IInv'
<1>1. UNCHANGED <<form, content, attached, summary, outcome, found>> /\ outcome # "sent"
  OBVIOUS
<1>2. TypeOK /\ Judged /\ FeedbackIsCurrent /\ Shown /\ Passed
      /\ content \in [Fields -> Contents] /\ form \in Forms
  BY DEF IInv, TypeOK
<1>3. \A f \in Fields : \A v : Failing(f, v)' = Failing(f, v)
  BY <1>1 DEF Failing, Rules, Kept
<1>4. content[focus] \in Contents
  BY <1>2
<1>5. /\ invalid' \in [Fields -> {"unknown", "no", "yes"}] /\ submitted' \subseteq Fields
      /\ box' \in [Fields -> Box]
      /\ Judged'
      /\ \A f \in Fields \ {focus} : invalid'[f] = invalid[f] /\ box'[f] = box[f]
      /\ invalid'[focus] # "unknown"
      /\ form.box[focus] = "replace" /\ invalid'[focus] = "yes" =>
           box'[focus].class = "error" /\ box'[focus].text \in Failing(focus, content[focus])
      /\ Failing(focus, content[focus]) # {} /\ form.box[focus] # "none"
           => box'[focus].class = "error"
  BY <1>1, <1>2, <1>4, Verdict
<1>6. TypeOK'
  BY <1>1, <1>2, <1>5 DEF TypeOK
<1>7. FeedbackIsCurrent'
  <2>1. ASSUME NEW f \in Fields, form.box[f] = "replace"
        PROVE  /\ invalid'[f] = "yes" => box'[f].class = "error" /\ box'[f].text \in Failing(f, content[f])
               /\ invalid'[f] = "no" => box'[f] = EmptyBox
               /\ (attached /\ invalid'[f] = "unknown" /\ box'[f].class = "error")
                    => content[f] \in {found[f], Empty}
    <3>1. CASE f = focus
      BY <1>1, <1>5, <2>1, <3>1 DEF Judged
    <3>2. CASE f # focus
      BY <1>2, <1>5, <2>1, <3>2 DEF FeedbackIsCurrent
    <3> QED
      BY <3>1, <3>2
  <2> QED
    BY <1>1, <1>3, <2>1 DEF FeedbackIsCurrent
<1>8. Shown'
  <2>1. Failed' = Failed
    BY <1>1, <1>3 DEF Failed
  <2>2. SUFFICES ASSUME outcome = "refused", NEW f \in Failed, form.box[f] # "none"
                 PROVE  box'[f].class = "error"
    BY <1>1, <1>2, <2>1 DEF Shown
  <2>3. f \in Fields /\ Failing(f, content[f]) # {}
    BY DEF Failed
  <2> QED
    BY <1>2, <1>5, <2>2, <2>3 DEF Shown
<1>9. Passed'
  BY <1>1 DEF Passed
<1> QED
  BY <1>5, <1>6, <1>7, <1>8, <1>9 DEF IInv

(* A field that loses the focus is judged, or it is empty and had no error *)
(* yet.                                                                    *)
LEMMA MoveKeeps ==
  ASSUME IInv, NEW g \in Fields \cup {NoField}, MoveTo(g)
  PROVE  IInv'
<1>1. /\ focus' = g /\ UNCHANGED <<form, content, attached, summary, outcome, found>>
      /\ outcome # "sent"
  BY DEF MoveTo
<1>2. TypeOK /\ Judged /\ FeedbackIsCurrent /\ Shown /\ Passed
      /\ content \in [Fields -> Contents] /\ form \in Forms
  BY DEF IInv, TypeOK
<1>3. \A f \in Fields : \A v : Failing(f, v)' = Failing(f, v)
  BY <1>1 DEF Failing, Rules, Kept
<1>4. CASE /\ attached /\ focus \in Fields /\ element(focus, content[focus])
  BY <1>1, <1>4, JudgedKeeps
<1>5. CASE UNCHANGED verdicts /\ (attached /\ focus \in Fields => focus \notin submitted /\ content[focus].len = 0)
  <2>1. TypeOK'
    BY <1>1, <1>2, <1>5 DEF TypeOK, verdicts
  <2>2. Judged'
    BY <1>1, <1>2, <1>5 DEF Judged, verdicts
  <2>3. FeedbackIsCurrent'
    <3>1. ASSUME NEW f \in Fields, form.box[f] = "replace"
          PROVE  /\ invalid[f] = "yes" => box[f].class = "error" /\ box[f].text \in Failing(f, content[f])
                 /\ invalid[f] = "no" => box[f] = EmptyBox
                 /\ (attached /\ invalid[f] = "unknown" /\ box[f].class = "error")
                      => content[f] \in {found[f], Empty}
      <4>1. CASE f = focus
        <5>1. attached => content[f] = Empty
          BY <1>2, <1>5, <4>1, FormValidationAssumption
        <5>2. invalid[f] # "yes"
          BY <1>2, <1>5, <4>1 DEF Judged
        <5> QED
          BY <1>2, <3>1, <5>1, <5>2 DEF Judged
      <4>2. CASE f # focus
        BY <1>2, <3>1, <4>2 DEF FeedbackIsCurrent
      <4> QED
        BY <4>1, <4>2
    <3> QED
      BY <1>1, <1>3, <1>5, <3>1 DEF FeedbackIsCurrent, verdicts
  <2>4. Failed' = Failed
    BY <1>1, <1>3 DEF Failed
  <2>5. Shown' /\ Passed'
    BY <1>1, <1>2, <1>5, <2>4 DEF Shown, Passed, verdicts
  <2> QED
    BY <2>1, <2>2, <2>3, <2>5 DEF IInv
<1>6. \/ attached /\ focus \in Fields /\ element(focus, content[focus])
      \/ UNCHANGED verdicts /\ (attached /\ focus \in Fields => focus \notin submitted /\ content[focus].len = 0)
  <2>1. focus \in Fields => content[focus].len \in Nat
    BY <1>2, FormValidationAssumption
  <2> QED
    BY <2>1 DEF MoveTo
<1> QED
  BY <1>4, <1>5, <1>6

LEMMA RejudgeKeeps ==
  ASSUME IInv, NEW f \in Fields, Rejudge(f)
  PROVE  IInv'
<1>1. /\ focus = f /\ outcome # "sent" /\ attached /\ element(focus, content[focus])
      /\ UNCHANGED <<form, content, focus, attached, summary, outcome, found>>
  BY DEF Rejudge
<1> QED
  BY <1>1, JudgedKeeps

LEMMA SubmitKeeps ==
  ASSUME IInv, SubmitUnchecked \/ SubmitValid
  PROVE  IInv'
<1>1. TypeOK /\ Judged /\ FeedbackIsCurrent /\ Shown /\ Passed /\ form \in Forms
      /\ box \in [Fields -> Box]
  BY DEF IInv, TypeOK
<1>2. \A f \in Fields : \A v : form' = form => Failing(f, v)' = Failing(f, v)
  BY DEF Failing, Rules, Kept
<1>3. CASE SubmitUnchecked
  <2>1. TypeOK' /\ Judged' /\ Shown' /\ Passed'
    BY <1>1, <1>3 DEF SubmitUnchecked, TypeOK, Judged, Shown, Passed, verdicts
  <2>2. FeedbackIsCurrent'
    BY <1>1, <1>3 DEF SubmitUnchecked, Judged, FeedbackIsCurrent, verdicts
  <2> QED
    BY <2>1, <2>2 DEF IInv
<1>4. CASE SubmitValid
  <2>1. /\ outcome' = "sent" /\ invalid' = [f \in Fields |-> "unknown"]
        /\ box' = [f \in Fields |-> onSuccess(f, box[f])]
        /\ UNCHANGED <<form, content, focus, attached, submitted, summary, found>>
        /\ Failed = {}
    BY <1>4 DEF SubmitValid
  <2>2. \A f \in Fields : /\ onSuccess(f, box[f]) \in Box
                          /\ form.box[f] = "replace" => onSuccess(f, box[f]) = EmptyBox
    BY <1>1, Boxes DEF Messages, Adapters
  <2>3. TypeOK'
    BY <1>1, <2>1, <2>2 DEF TypeOK
  <2>4. Judged' /\ FeedbackIsCurrent'
    BY <2>1, <2>2 DEF Judged, FeedbackIsCurrent, EmptyBox
  <2>5. Failed' = Failed
    BY <1>2, <2>1 DEF Failed
  <2>6. Shown' /\ Passed'
    BY <2>1, <2>5 DEF Shown, Passed
  <2> QED
    BY <2>3, <2>4, <2>6 DEF IInv
<1> QED
  BY <1>3, <1>4

LEMMA RefusedKeeps ==
  ASSUME IInv, SubmitRefused
  PROVE  IInv'
<1>1. TypeOK /\ form \in Forms /\ box \in [Fields -> Box] /\ submitted \subseteq Fields
  BY DEF IInv, TypeOK
<1>2. PICK message \in [Failed -> Messages] :
        /\ \A f \in Failed : message[f] \in Failing(f, content[f])
        /\ box' = [f \in Fields |-> IF f \in Failed THEN onError(f, box[f], message[f])
                                    ELSE onSuccess(f, box[f])]
        /\ summary' = onErrors(Range(message))
  BY DEF SubmitRefused
<1>3. /\ attached /\ Failed # {} /\ focus' \in Failed /\ outcome' = "refused"
      /\ invalid' = [f \in Fields |-> IF f \in Failed THEN "yes" ELSE "unknown"]
      /\ submitted' = submitted \cup Failed
      /\ UNCHANGED <<form, content, attached, found>>
  BY DEF SubmitRefused
<1>4. Failed \subseteq Fields
  BY DEF Failed
<1>5. Range(message) \subseteq Messages /\ Range(message) # {}
  BY <1>2, <1>3 DEF Range
<1>6. /\ summary' \in [class : {"valid", "error"}, items : SUBSET Messages]
      /\ form.summary => summary'.class = "error" /\ summary'.items # {}
  <2>1. form.summary => summary' = [class |-> "error", items |-> Range(message)]
    BY <1>2 DEF onErrors
  <2>2. ~form.summary => summary' = summary
    BY <1>2 DEF onErrors
  <2> QED
    BY <1>1, <1>5, <2>1, <2>2 DEF TypeOK
<1>7. ASSUME NEW f \in Failed
      PROVE  /\ box'[f] \in Box /\ (form.box[f] # "none" => box'[f].class = "error")
             /\ form.box[f] = "replace" => box'[f].text \in Failing(f, content[f])
  <2>1. message[f] \in Messages /\ message[f] \in Failing(f, content[f]) /\ f \in Fields /\ box[f] \in Box
    BY <1>1, <1>2, <1>4
  <2>2. box'[f] = onError(f, box[f], message[f])
    BY <1>2, <1>4
  <2>3. /\ onError(f, box[f], message[f]) \in Box
        /\ form.box[f] # "none" => onError(f, box[f], message[f]).class = "error"
        /\ form.box[f] = "replace" => onError(f, box[f], message[f]).text = message[f]
    BY <1>1, <2>1, Boxes
  <2> QED
    BY <2>1, <2>2, <2>3
<1>8. ASSUME NEW f \in Fields \ Failed
      PROVE  box'[f] \in Box /\ (form.box[f] = "replace" => box'[f] = EmptyBox)
  <2>1. box'[f] = onSuccess(f, box[f]) /\ box[f] \in Box
    BY <1>1, <1>2
  <2> QED
    BY <1>1, <2>1, Boxes DEF Messages, Adapters
<1>9. TypeOK'
  <2>1. box' \in [Fields -> Box]
    BY <1>2, <1>7, <1>8
  <2>2. invalid' \in [Fields -> {"unknown", "no", "yes"}]
    BY <1>3
  <2> QED
    BY <1>1, <1>3, <1>4, <1>6, <2>1, <2>2 DEF TypeOK
<1>10. Judged'
  BY <1>3, <1>4 DEF Judged
<1>11. \A f \in Fields : Failing(f, content[f])' = Failing(f, content[f])
  BY <1>3 DEF Failing, Rules, Kept
<1>12. FeedbackIsCurrent'
  <2>1. ASSUME NEW f \in Fields, form.box[f] = "replace"
        PROVE  /\ invalid'[f] = "yes" => box'[f].class = "error" /\ box'[f].text \in Failing(f, content[f])
               /\ invalid'[f] # "no"
               /\ invalid'[f] = "unknown" => box'[f].class # "error"
    BY <1>3, <1>7, <1>8, <2>1 DEF EmptyBox
  <2> QED
    BY <1>3, <1>11, <2>1 DEF FeedbackIsCurrent
<1>13. Shown'
  <2>1. Failed' = Failed
    BY <1>3, <1>11 DEF Failed
  <2> QED
    BY <1>3, <1>6, <1>7, <2>1 DEF Shown
<1>14. Passed'
  BY <1>3 DEF Passed
<1> QED
  BY <1>9, <1>10, <1>12, <1>13, <1>14 DEF IInv

LEMMA ServerKeeps ==
  ASSUME IInv, ServerAccepts \/ ServerRejects
  PROVE  IInv'
<1>1. TypeOK /\ form \in Forms /\ content \in [Fields -> Contents]
  BY DEF IInv, TypeOK
<1>2. PICK boxes, sum :
        /\ Pristine(boxes, sum)
        /\ boxes \in [Fields -> Box]
        /\ sum \in [class : {"valid", "error"}, items : SUBSET Messages]
        /\ form' \in Forms /\ content' \in [Fields -> Contents]
  <2>1. CASE ServerAccepts
    BY <1>1, <2>1, FormValidationAssumption DEF ServerAccepts, Box, EmptyBox
  <2>2. CASE ServerRejects
    <3>1. PICK message \in [Fields -> Messages \cup {NoText}] :
            Pristine([f \in Fields |-> IF message[f] = NoText THEN EmptyBox
                                       ELSE onError(f, EmptyBox, message[f])],
                     [class |-> IF form.summary THEN "error" ELSE "valid",
                      items |-> IF form.summary THEN Range(message) \ {NoText} ELSE {}])
      BY <2>2 DEF ServerRejects
    <3>2. Range(message) \ {NoText} \subseteq Messages
      BY DEF Range
    <3>3. \A f \in Fields : message[f] # NoText => onError(f, EmptyBox, message[f]) \in Box
      BY <1>1, Boxes DEF EmptyBox, Box
    <3>4. EmptyBox \in Box
      BY DEF EmptyBox, Box
    <3> QED
      BY <1>1, <2>2, <3>1, <3>2, <3>3, <3>4 DEF ServerRejects
  <2> QED
    BY <2>1, <2>2
<1>3. TypeOK'
  BY <1>2, FormValidationAssumption DEF Pristine, TypeOK
<1>4. Judged' /\ FeedbackIsCurrent' /\ Shown' /\ Passed'
  BY <1>2 DEF Pristine, Judged, FeedbackIsCurrent, Shown, Passed
<1> QED
  BY <1>3, <1>4 DEF IInv

LEMMA NextIInv == IInv /\ [Next]_vars => IInv'
<1> SUFFICES ASSUME IInv, [Next]_vars PROVE IInv'
  OBVIOUS
<1>1. CASE UNCHANGED vars
  <2>1. \A f \in Fields : Failing(f, content[f])' = Failing(f, content[f])
    BY <1>1 DEF vars, Failing, Rules, Kept
  <2>2. Failed' = Failed
    BY <2>1 DEF Failed
  <2>3. TypeOK' /\ Judged' /\ Shown' /\ Passed'
    BY <1>1, <2>2 DEF IInv, TypeOK, Judged, Shown, Passed, vars
  <2>4. FeedbackIsCurrent'
    BY <1>1, <2>1 DEF IInv, FeedbackIsCurrent, vars
  <2> QED
    BY <2>3, <2>4 DEF IInv
<1> QED
  BY <1>1, ParseKeeps, EditKeeps, RejudgeKeeps, MoveKeeps, SubmitKeeps, RefusedKeeps, ServerKeeps DEF Next

(* The inductive invariant holds in every reachable state.                 *)
THEOREM FormValidationInvariant == Spec => []IInv
  BY InitIInv, NextIInv, PTL DEF Spec

(* Every variable keeps its type.                                          *)
THEOREM FormValidationTypeOK == Spec => []TypeOK
<1>1. IInv => TypeOK
  BY DEF IInv
<1> QED
  BY <1>1, FormValidationInvariant, PTL

(* What a box says is about what its field holds, whatever the form asks   *)
(* and whatever the user types, pastes, leaves and submits.                *)
THEOREM FormValidationFeedbackIsCurrent == Spec => []FeedbackIsCurrent
<1>1. IInv => FeedbackIsCurrent
  BY DEF IInv
<1> QED
  BY <1>1, FormValidationInvariant, PTL

(* What passes the browser meets the server's attributes, but for required *)
(* fields of spaces and rules overwritten; what is refused the server      *)
(* would refuse, but for fields of spaces and e-mail addresses.            *)
THEOREM FormValidationSentPasses == Spec => []SentPasses
<1>1. ASSUME IInv PROVE SentPasses
  <2>1. form \in Forms /\ content \in [Fields -> Contents]
    BY <1>1 DEF IInv, TypeOK
  <2>2. ASSUME attached, outcome = "sent", NEW f \in Fields, NEW a \in form.annotations[f]
        PROVE  \/ Meets(a, content[f]) \/ a \notin Kept(f)
               \/ a.adapter = "required" /\ content[f].blank
    <3>1. Failing(f, content[f]) = {} /\ content[f] \in Contents
      BY <1>1, <2>1, <2>2 DEF IInv, Passed, Failed
    <3>2. CASE content[f].blank
      BY <3>2, BlankMeets
    <3>3. CASE ~content[f].blank
      BY <2>1, <3>1, <3>3, KeptMeets
    <3> QED
      BY <3>2, <3>3
  <2>3. ASSUME outcome = "refused"
        PROVE  \E f \in Fields : Unmet(f, content[f]) # {} \/ content[f].blank \/ Misliked(f)
    <3>1. PICK f \in Fields : Failing(f, content[f]) # {} /\ content[f] \in Contents
      BY <1>1, <2>1, <2>3 DEF IInv, Shown, Failed
    <3>2. Unmet(f, content[f]) # {} \/ content[f].blank \/ Misliked(f)
      BY <2>1, <3>1, FailingUnmet DEF Misliked
    <3> QED
      BY <3>2
  <2> QED
    BY <2>2, <2>3 DEF SentPasses
<1> QED
  BY <1>1, FormValidationInvariant, PTL

(* Who is refused sees why, as long as nothing is edited.                  *)
THEOREM FormValidationRefusalIsExplained == Spec => []RefusalIsExplained
<1>1. ASSUME IInv PROVE RefusalIsExplained
  BY <1>1 DEF IInv, Shown, RefusalIsExplained, Explains, Failed
<1> QED
  BY <1>1, FormValidationInvariant, PTL
=============================================================================
