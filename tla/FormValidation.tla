---------------------------- MODULE FormValidation ----------------------------
(***************************************************************************)
(* The forms of the DKS portal in the browser: jquery.validate.unobtrusive *)
(* turns the data-val attributes a page was rendered with into rules of    *)
(* jquery.validate and shows its verdicts in the page's message boxes.     *)
(* The user types, pastes with the mouse, moves between fields, submits,   *)
(* perhaps before the scripts ran; the server validates again and answers  *)
(* with the next page, or the same one with its own messages.              *)
(***************************************************************************)
EXTENDS Integers, FiniteSets, Functions

CONSTANTS
  Fields,    \* the inputs of a form that have data-val attributes
  NoField,
  Forms,     \* the pages: attributes of the fields, their boxes, the summary
  Contents,  \* what an input may hold: len, blank (only spaces), and whether it
             \* is an e-mail address to the server and matches the browser's
  Empty,     \* the one of length 0
  NoText

(* min and max of an attribute: at least 1, or this where it is missing.   *)
None == 0

(* The attributes a page is rendered with: only those of lengths have      *)
(* parameters, maxlength a maximum alone.                                  *)
Adapters == {"required", "length", "maxlength", "email"}
Annotation ==
  {a \in [adapter : Adapters, min : Nat, max : Nat] :
     /\ a.adapter # "length" => a.min = None
     /\ a.adapter \in {"required", "email"} => a.max = None}
OneEach == {A \in SUBSET Annotation : \A a, b \in A : a.adapter = b.adapter => a = b}
Form == [annotations : [Fields -> OneEach],
         box : [Fields -> {"none", "keep", "replace"}],
         summary : BOOLEAN]

ASSUME FormValidationAssumption ==
  /\ NoField \notin Fields /\ NoText \notin Adapters
  /\ Contents \subseteq [len : Nat, blank : BOOLEAN, address : BOOLEAN, matches : BOOLEAN]
  /\ Empty \in Contents /\ Empty.len = 0 /\ Empty.blank
  /\ \A v \in Contents : v.len = 0 => v = Empty
  \* the expression takes one @, with something on either side of it
  /\ \A v \in Contents : v.matches => v.address
  /\ \A form \in Forms : form \in Form

VARIABLES
  form,       \* the page's form
  content,    \* [Fields -> what they hold]
  focus,      \* the field that has the focus
  attached,   \* the form has a validator
  invalid,    \* validator.invalid: "yes", "no", or no entry
  submitted,  \* validator.submitted: fields that once had an error
  box,        \* [Fields -> class and text of the field's message box]
  summary,    \* class and list of the summary box
  outcome,    \* what the last submit came to
  found       \* observer: what the fields held when the scripts ran

vars == <<form, content, focus, attached, invalid, submitted, box, summary, outcome, found>>
verdicts == <<invalid, submitted, box>>

Messages == Adapters
Box == [class : {"valid", "error"}, text : Messages \cup {NoText}]
EmptyBox == [class |-> "valid", text |-> NoText]

TypeOK ==
  /\ form \in Forms /\ attached \in BOOLEAN
  /\ content \in [Fields -> Contents] /\ found \in [Fields -> Contents]
  /\ focus \in Fields \cup {NoField}
  /\ invalid \in [Fields -> {"unknown", "no", "yes"}] /\ submitted \subseteq Fields
  /\ box \in [Fields -> Box]
  /\ summary \in [class : {"valid", "error"}, items : SUBSET Messages]
  /\ outcome \in {"editing", "refused", "sent"}

-----------------------------------------------------------------------------
(* The adapters: from an attribute to the rules of its field.  A rule's    *)
(* message is the attribute's text, one for each adapter.                  *)

(* Mutant: the message is not handed on, jquery.validate has its own.       *)
RuleNoMessage(a, method, lo, hi) == [method |-> method, lo |-> lo, hi |-> hi, message |-> method]

(* setValidationValues: one more rule of the field, with its message.      *)
Rule(a, method, lo, hi) == [method |-> method, lo |-> lo, hi |-> hi, message |-> a.adapter]

addBool(a, method) == {Rule(a, method, None, None)}

(* Mutant: a maximum counts only together with a minimum.                  *)
addMinMaxNoMax(a, minRule, maxRule, bothRule) ==
  {r \in {Rule(a, bothRule, a.min, a.max)} : a.min # None /\ a.max # None}
    \cup {r \in {Rule(a, minRule, a.min, None)} : a.min # None /\ a.max = None}

addMinMax(a, minRule, maxRule, bothRule) ==
  {r \in {Rule(a, bothRule, a.min, a.max)} : a.min # None /\ a.max # None}
    \cup {r \in {Rule(a, minRule, a.min, None)} : a.min # None /\ a.max = None}
    \cup {r \in {Rule(a, maxRule, None, a.max)} : a.min = None /\ a.max # None}

(* The registrations of the adapters whose rules look at one field only.   *)
Adapt(a) ==
  CASE a.adapter = "required" -> addBool(a, "required")
    [] a.adapter = "email" -> addBool(a, "email")
    [] a.adapter = "length" -> addMinMax(a, "minlength", "maxlength", "rangelength")
    [] a.adapter = "maxlength" -> addMinMax(a, "minlength", "maxlength", "maxlength")

(* The order in which the adapters are registered.                         *)
Order == [email |-> 1, length |-> 2, maxlength |-> 3, required |-> 4]

(* setValidationValues keeps one rule to a method: a later adapter's takes *)
(* the place of an earlier one's.                                          *)
Overwrites(b, a) ==
  /\ Order[b.adapter] > Order[a.adapter]
  /\ \E r \in Adapt(a), s \in Adapt(b) : r.method = s.method
Kept(f) ==
  {a \in form.annotations[f] : ~\E b \in form.annotations[f] : Overwrites(b, a)}

(* parseElement: the rules of a field are those of its attributes.         *)
Rules(f) == UNION {Adapt(a) : a \in Kept(f)}

(* The methods of jquery.validate; all but required pass on empty input.   *)
Passes(r, v) ==
  IF r.method = "required" THEN v.len > 0
  ELSE \/ v.len = 0
       \/ r.method = "email" /\ v.matches
       \/ r.method = "minlength" /\ v.len >= r.lo
       \/ r.method = "maxlength" /\ v.len <= r.hi
       \/ r.method = "rangelength" /\ v.len \in r.lo .. r.hi

Failing(f, v) == {r.message : r \in {r \in Rules(f) : ~Passes(r, v)}}

(* The same attributes as the server reads them: spaces are no value, and  *)
(* only required minds that there is none.                                 *)
Meets(a, v) ==
  IF v.blank THEN a.adapter # "required"
  ELSE /\ a.adapter = "email" => v.address
       /\ a.min # None => v.len >= a.min
       /\ a.max # None => v.len <= a.max

Unmet(f, v) == {a.adapter : a \in {a \in form.annotations[f] : ~Meets(a, v)}}

-----------------------------------------------------------------------------
(* The page.                                                               *)

Pristine(boxes, sum) ==
  /\ focus' = NoField /\ attached' = FALSE /\ found' = content'
  /\ invalid' = [f \in Fields |-> "unknown"] /\ submitted' = {}
  /\ box' = boxes /\ summary' = sum /\ outcome' = "editing"

Init ==
  /\ form \in Forms
  /\ content = [f \in Fields |-> Empty] /\ found = content
  /\ focus = NoField /\ attached = FALSE
  /\ invalid = [f \in Fields |-> "unknown"] /\ submitted = {}
  /\ box = [f \in Fields |-> EmptyBox]
  /\ summary = [class |-> "valid", items |-> {}]
  /\ outcome = "editing"

(* parse, when the document is ready: the validator gets the rules once.   *)
parse ==
  /\ ~attached /\ outcome # "sent"
  /\ attached' = (\E f \in Fields : form.annotations[f] # {})
  /\ found' = content
  /\ UNCHANGED <<form, content, focus, verdicts, summary, outcome>>

(* onError: the box of a field shows an error.  A field without one shows  *)
(* nothing, a box that keeps its own text changes its class only.          *)
onError(f, b, message) ==
  CASE form.box[f] = "none" -> b
    [] form.box[f] = "keep" -> [b EXCEPT !.class = "error"]
    [] form.box[f] = "replace" -> [class |-> "error", text |-> message]

(* Mutant: the message is not taken out of the box.                        *)
onSuccessKeepText(f, b) ==
  IF form.box[f] = "none" THEN b ELSE [b EXCEPT !.class = "valid"]

(* onSuccess, after jquery.validate placed an empty error.                 *)
onSuccess(f, b) ==
  CASE form.box[f] = "none" -> b
    [] form.box[f] = "keep" -> [b EXCEPT !.class = "valid"]
    [] form.box[f] = "replace" -> EmptyBox

(* validator.element: one field is judged as it is now.                    *)
element(f, v) ==
  \/ /\ Failing(f, v) = {}
     /\ invalid' = [invalid EXCEPT ![f] = "no"]
     /\ box' = [box EXCEPT ![f] = onSuccess(f, @)]
     /\ UNCHANGED submitted
  \/ \E message \in Failing(f, v) :
       /\ invalid' = [invalid EXCEPT ![f] = "yes"]
       /\ submitted' = submitted \cup {f}
       /\ box' = [box EXCEPT ![f] = onError(f, @, message)]

Edit(f, v) ==
  /\ focus = f /\ outcome # "sent" /\ v # content[f]
  /\ content' = [content EXCEPT ![f] = v]
  /\ outcome' = "editing"

(* A key changes the field: onkeyup judges it if it was judged before.     *)
Type(f, v) ==
  /\ Edit(f, v)
  /\ IF attached /\ (f \in submitted \/ invalid[f] # "unknown")
       THEN element(f, v) ELSE UNCHANGED verdicts
  /\ UNCHANGED <<form, focus, attached, summary, found>>

(* The mouse changes it: there is no keyup.                                *)
Paste(f, v) ==
  /\ Edit(f, v)
  /\ UNCHANGED <<form, focus, attached, verdicts, summary, found>>

(* A key that changes nothing, the Tab that led here among them, or a      *)
(* click on a select, perhaps after a choice: onkeyup or onclick.          *)
Rejudge(f) ==
  /\ focus = f /\ outcome # "sent"
  /\ attached /\ (f \in submitted \/ invalid[f] # "unknown")
  /\ element(f, content[f])
  /\ UNCHANGED <<form, content, focus, attached, summary, outcome, found>>

(* The focus moves: onfocusout judges the field that loses it, unless it   *)
(* is empty and never had an error.                                        *)
MoveTo(g) ==
  /\ g # focus /\ outcome # "sent"
  /\ focus' = g
  /\ IF attached /\ focus \in Fields /\ (focus \in submitted \/ content[focus].len > 0)
       THEN element(focus, content[focus]) ELSE UNCHANGED verdicts
  /\ UNCHANGED <<form, content, attached, summary, outcome, found>>

-----------------------------------------------------------------------------
(* Submit.                                                                 *)

Failed == {f \in Fields : Failing(f, content[f]) # {}}

(* The scripts have not run: nothing holds the form back.                  *)
SubmitUnchecked ==
  /\ ~attached /\ outcome # "sent"
  /\ outcome' = "sent"
  /\ UNCHANGED <<form, content, focus, attached, verdicts, summary, found>>

(* validator.form finds nothing.                                           *)
SubmitValid ==
  /\ attached /\ outcome # "sent" /\ Failed = {}
  /\ outcome' = "sent"
  /\ invalid' = [f \in Fields |-> "unknown"]
  /\ box' = [f \in Fields |-> onSuccess(f, box[f])]
  /\ UNCHANGED <<form, content, focus, attached, submitted, summary, found>>

(* Mutant: the handler of invalid-form is not given to the validator.      *)
onErrorsUnbound(messages) == summary

(* onErrors: the summary, if the page has one, lists the messages.         *)
onErrors(messages) ==
  IF form.summary THEN [class |-> "error", items |-> messages] ELSE summary

(* validator.form finds errors, at most one to a field; focusInvalid then  *)
(* moves to a field that has one.                                          *)
SubmitRefused ==
  /\ attached /\ outcome # "sent"
  /\ Failed # {}
  /\ \E message \in [Failed -> Messages] :
       /\ \A f \in Failed : message[f] \in Failing(f, content[f])
       /\ box' = [f \in Fields |-> IF f \in Failed THEN onError(f, box[f], message[f])
                                   ELSE onSuccess(f, box[f])]
       /\ summary' = onErrors(Range(message))
  /\ invalid' = [f \in Fields |-> IF f \in Failed THEN "yes" ELSE "unknown"]
  /\ submitted' = submitted \cup Failed
  /\ focus' \in Failed
  /\ outcome' = "refused"
  /\ UNCHANGED <<form, content, attached, found>>

Accepted == \A f \in Fields : Unmet(f, content[f]) = {}

(* ModelState is valid: the record is saved, and the user goes on to some  *)
(* other page with a form.                                                 *)
ServerAccepts ==
  /\ outcome = "sent" /\ Accepted
  /\ form' \in Forms
  /\ content' = [f \in Fields |-> Empty]
  /\ Pristine([f \in Fields |-> EmptyBox], [class |-> "valid", items |-> {}])

(* ModelState is not: the same page again, with what was sent.             *)
ServerRejects ==
  /\ outcome = "sent" /\ ~Accepted
  /\ UNCHANGED <<form, content>>
  /\ \E message \in [Fields -> Messages \cup {NoText}] :
       /\ \A f \in Fields : IF Unmet(f, content[f]) = {} THEN message[f] = NoText
                            ELSE message[f] \in Unmet(f, content[f])
       /\ Pristine([f \in Fields |-> IF message[f] = NoText THEN EmptyBox
                                     ELSE onError(f, EmptyBox, message[f])],
                   [class |-> IF form.summary THEN "error" ELSE "valid",
                    items |-> IF form.summary THEN Range(message) \ {NoText} ELSE {}])

Next ==
  \/ parse
  \/ \E f \in Fields, v \in Contents : Type(f, v) \/ Paste(f, v)
  \/ \E f \in Fields : Rejudge(f)
  \/ \E g \in Fields \cup {NoField} : MoveTo(g)
  \/ SubmitUnchecked \/ SubmitValid \/ SubmitRefused
  \/ ServerAccepts \/ ServerRejects

Spec == Init /\ [][Next]_vars

-----------------------------------------------------------------------------
(* Properties.                                                             *)

(* What a box says is about what its field holds: a field that was judged  *)
(* and left shows a message its content calls for, or none if it is right, *)
(* and a message of the server goes when the field is changed and left.    *)
(* Only a field emptied before it ever had an error of its own keeps it.   *)
FeedbackIsCurrent ==
  \A f \in Fields \ {focus} : form.box[f] = "replace" =>
    /\ invalid[f] = "yes" => box[f].class = "error" /\ box[f].text \in Failing(f, content[f])
    /\ invalid[f] = "no" => box[f] = EmptyBox
    /\ (attached /\ invalid[f] = "unknown" /\ box[f].class = "error")
         => content[f] \in {found[f], Empty}

(* A form that passed the validator meets every attribute as the server    *)
(* reads it, but for required fields with spaces and attributes whose rule *)
(* another took the place of.  One that is refused the server would not    *)
(* take either, but for fields with spaces and for e-mail addresses: those *)
(* of the browser are fewer.                                               *)
Misliked(f) ==
  content[f].address /\ ~content[f].matches /\ \E a \in Kept(f) : a.adapter = "email"
SentPasses ==
  attached =>
    /\ outcome = "sent" =>
         \A f \in Fields : \A a \in form.annotations[f] :
           \/ Meets(a, content[f])
           \/ a \notin Kept(f)
           \/ a.adapter = "required" /\ content[f].blank
    /\ outcome = "refused" =>
         \E f \in Fields : Unmet(f, content[f]) # {} \/ content[f].blank \/ Misliked(f)

(* Who is refused sees why, on a page that has a box for each field or a   *)
(* summary.                                                                *)
Explains == form.summary \/ \A f \in Fields : form.box[f] # "none"
RefusalIsExplained ==
  outcome = "refused" /\ Explains =>
    \/ \E f \in Fields : box[f].class = "error"
    \/ summary.class = "error" /\ summary.items # {}
=============================================================================
