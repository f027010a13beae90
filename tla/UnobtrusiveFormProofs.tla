------------------------ MODULE UnobtrusiveFormProofs ------------------------
(***************************************************************************)
(* Proofs about UnobtrusiveForm for any form: whatever is typed, checked,  *)
(* answered, lost or reset, in whatever order, no error is hidden, no box  *)
(* shows a verdict that the validator does not give, no form is sent that  *)
(* it refuses, and no submission ends in silence.  What each function of   *)
(* the library does to a page is proved once, for any page; a step of the  *)
(* form only calls them.                                                   *)
(***************************************************************************)
EXTENDS UnobtrusiveForm, UnobtrusiveAdaptersProofs

-----------------------------------------------------------------------------
(* The page.                                                               *)

\* The parts of a page.
Shaped(p) ==
  /\ DOMAIN p = {"attached", "settings", "errors", "submitted", "invalid", "previous",
                 "asked", "pending", "formSubmitted", "box", "summary", "judged"}
  /\ DOMAIN p.previous = Fields /\ DOMAIN p.asked = Fields
  /\ DOMAIN p.box = Fields /\ DOMAIN p.judged = Fields
  /\ \A f \in Fields : DOMAIN p.box[f] = {"error", "text"}
  /\ DOMAIN p.summary = {"error", "list"}

Verdicts == {"error", "pending", "none", "valid"}

\* check() returns one of four verdicts, and asks the server only for a field
\* with a remote rule.
LEMMA CheckGivesVerdict ==
  ASSUME NEW p, NEW f
  PROVE  /\ check(p, f).is \in Verdicts
         /\ check(p, f).is = "pending" => HasRemote(p, f)
BY DEF check, Verdicts

\* A page before any validator has all parts of a page.
LEMMA NoPageShaped == Shaped(NoPage)
BY DEF NoPage, Shaped

\* So has a page after a check.
LEMMA CheckedShaped ==
  ASSUME NEW p, Shaped(p), NEW S
  PROVE  Shaped(checked(p, S))
BY DEF Shaped, checked, onError, onSuccess

\* The errors that the list keeps can be seen.
Visible(p) ==
  \A f \in DOMAIN p.errors :
    /\ p.box[f].error
    /\ Replace[f] = "true" => p.box[f].text = p.errors[f]

Flags(p) ==
  /\ p.attached \in BOOLEAN /\ p.formSubmitted \in BOOLEAN
  /\ p.summary.error \in BOOLEAN /\ \A f \in Fields : p.box[f].error \in BOOLEAN

OfFields(p) ==
  /\ DOMAIN p.settings \subseteq Fields /\ DOMAIN p.errors \subseteq Fields
  /\ p.submitted \subseteq Fields /\ p.invalid \subseteq Fields

\* Only fields with a remote rule are pending, and every request on its way
\* is of one of them.
Counted(p) ==
  /\ p.pending \subseteq Fields
  /\ ~p.attached => p.pending = {}
  /\ \A f \in p.pending : HasRemote(p, f)
  /\ \A f \in Fields : p.asked[f] # Undefined => f \in p.pending

PageInv(p) == Shaped(p) /\ Flags(p) /\ OfFields(p) /\ Counted(p) /\ Visible(p)

\* There is nothing wrong with a page before any validator.
LEMMA NoPageInv == PageInv(NoPage)
<1>1. /\ NoPage.attached = FALSE /\ NoPage.formSubmitted = FALSE
      /\ NoPage.summary.error = FALSE
      /\ \A f \in Fields : NoPage.box[f].error = FALSE /\ NoPage.asked[f] = Undefined
  BY DEF NoPage
<1>2. /\ NoPage.settings = <<>> /\ NoPage.errors = <<>>
      /\ NoPage.submitted = {} /\ NoPage.invalid = {} /\ NoPage.pending = {}
  BY DEF NoPage
<1>3. DOMAIN <<>> = {}
  OBVIOUS
<1>4. Flags(NoPage)
  BY <1>1 DEF Flags
<1>5. OfFields(NoPage)
  BY <1>2, <1>3 DEF OfFields
<1>6. Counted(NoPage)
  BY <1>1, <1>2 DEF Counted
<1>7. Visible(NoPage)
  BY <1>2, <1>3 DEF Visible
<1> QED
  BY <1>4, <1>5, <1>6, <1>7, NoPageShaped DEF PageInv

\* The fields of S that a check gives some verdict.
Found(p, S, verdict) == {f \in S : check(p, f).is = verdict}

\* What a check does to each part of the page, and for each field.
LEMMA CheckedParts ==
  ASSUME NEW p, Shaped(p), NEW S
  PROVE  /\ checked(p, S).attached = p.attached
         /\ checked(p, S).settings = p.settings
         /\ DOMAIN checked(p, S).errors = Found(p, S, "error")
         /\ checked(p, S).submitted = p.submitted \cup Found(p, S, "error")
         /\ checked(p, S).invalid = p.invalid
         /\ checked(p, S).pending = p.pending \cup Found(p, S, "pending")
         /\ checked(p, S).formSubmitted = p.formSubmitted
         /\ checked(p, S).summary = p.summary
<1>1. /\ checked(p, S).attached = p.attached
      /\ checked(p, S).settings = p.settings
      /\ checked(p, S).invalid = p.invalid
      /\ checked(p, S).formSubmitted = p.formSubmitted
      /\ checked(p, S).summary = p.summary
  BY DEF Shaped, checked
<1>2. DOMAIN checked(p, S).errors = Found(p, S, "error")
  BY DEF Shaped, checked, Found
<1>3. checked(p, S).submitted = p.submitted \cup Found(p, S, "error")
  BY DEF Shaped, checked, Found
<1>4. checked(p, S).pending = p.pending \cup Found(p, S, "pending")
  BY DEF Shaped, checked, Found
<1> QED
  BY <1>1, <1>2, <1>3, <1>4, Zenon

\* showErrors: the box of a field that fails is marked with the message of its
\* error, that of a valid field is cleared, and no other one is touched.
LEMMA CheckedBox ==
  ASSUME NEW p, Shaped(p), NEW S
  PROVE  \A f \in Fields :
           /\ f \in Found(p, S, "error") =>
                checked(p, S).box[f] = onError(p.box[f], f, checked(p, S).errors[f])
           /\ f \in Found(p, S, "valid") =>
                checked(p, S).box[f] = onSuccess(p.box[f], f)
           /\ f \notin Found(p, S, "error") \cup Found(p, S, "valid") =>
                checked(p, S).box[f] = p.box[f]
BY DEF Shaped, checked, Found

\* startRequest: exactly the fields that wait for the server send what is
\* checked now.
LEMMA CheckedAsked ==
  ASSUME NEW p, Shaped(p), NEW S
  PROVE  \A f \in Fields :
           /\ f \in Found(p, S, "pending") =>
                checked(p, S).asked[f] = [payload |-> Payload(p, f), current |-> TRUE]
           /\ f \notin Found(p, S, "pending") => checked(p, S).asked[f] = p.asked[f]
BY DEF Shaped, checked, Found

\* What is remembered of a remote check that begins.
Recalled(p, f) ==
  [old |-> Payload(p, f), valid |-> p.previous[f] = Undefined \/ p.previous[f].valid]

\* previousValue: for them alone it is remembered what was sent.
LEMMA CheckedPrevious ==
  ASSUME NEW p, Shaped(p), NEW S
  PROVE  \A f \in Fields :
           /\ f \in Found(p, S, "pending") => checked(p, S).previous[f] = Recalled(p, f)
           /\ f \notin Found(p, S, "pending") =>
                checked(p, S).previous[f] = p.previous[f]
BY DEF Shaped, checked, Found, Recalled

\* A verdict is about the values at the time of the check.
LEMMA CheckedJudged ==
  ASSUME NEW p, Shaped(p), NEW S
  PROVE  \A f \in Fields :
           checked(p, S).judged[f] =
             IF f \in S \ Found(p, S, "pending") THEN Payload(p, f) ELSE p.judged[f]
BY DEF Shaped, checked, Found

\* A box is marked as an error by onError and not by onSuccess; if it takes the
\* text, it has the message and nothing.
LEMMA Boxes ==
  \A box, f, message :
    /\ onError(box, f, message).error /\ onError(box, f, message).error \in BOOLEAN
    /\ Replace[f] = "true" => onError(box, f, message).text = message
    /\ DOMAIN onError(box, f, message) = {"error", "text"}
    /\ ~onSuccess(box, f).error /\ onSuccess(box, f).error \in BOOLEAN
    /\ DOMAIN onSuccess(box, f) = {"error", "text"}
BY DEF onError, onSuccess

\* A check of any fields hides no error and counts every request that it sends.
LEMMA CheckedInv ==
  ASSUME NEW p, PageInv(p), p.attached, NEW S \in SUBSET Fields
  PROVE  PageInv(checked(p, S))
<1> DEFINE c == checked(p, S)
<1>1. Shaped(p) /\ Flags(p) /\ OfFields(p) /\ Counted(p)
  BY DEF PageInv
<1>2. /\ c.attached = p.attached /\ c.settings = p.settings
      /\ DOMAIN c.errors = Found(p, S, "error")
      /\ c.submitted = p.submitted \cup Found(p, S, "error")
      /\ c.invalid = p.invalid
      /\ c.pending = p.pending \cup Found(p, S, "pending")
      /\ c.formSubmitted = p.formSubmitted /\ c.summary = p.summary
  BY <1>1, CheckedParts, Zenon
<1>3. \A f \in Fields :
        /\ f \in Found(p, S, "error") => c.box[f] = onError(p.box[f], f, c.errors[f])
        /\ f \in Found(p, S, "valid") => c.box[f] = onSuccess(p.box[f], f)
        /\ f \notin Found(p, S, "error") \cup Found(p, S, "valid") => c.box[f] = p.box[f]
  BY <1>1, CheckedBox, Zenon
<1>4. \A f \in Fields :
        /\ f \in Found(p, S, "pending") =>
             c.asked[f] = [payload |-> Payload(p, f), current |-> TRUE]
        /\ f \notin Found(p, S, "pending") => c.asked[f] = p.asked[f]
  BY <1>1, CheckedAsked, Zenon
<1>5. Shaped(c)
  BY <1>1, CheckedShaped
<1>6. /\ Found(p, S, "error") \subseteq Fields
      /\ Found(p, S, "pending") \subseteq Fields
      /\ \A f \in Found(p, S, "pending") : HasRemote(p, f)
  BY CheckGivesVerdict DEF Found
<1> HIDE DEF c
<1>7. Flags(c)
  <2>1. ASSUME NEW f \in Fields
        PROVE  c.box[f].error \in BOOLEAN
    <3>1. CASE f \in Found(p, S, "error")
      <4>1. c.box[f] = onError(p.box[f], f, c.errors[f])
        BY <1>3, <3>1, Zenon
      <4>2. onError(p.box[f], f, c.errors[f]).error \in BOOLEAN
        BY Boxes, Zenon
      <4> QED
        BY <4>1, <4>2, Zenon
    <3>2. CASE f \in Found(p, S, "valid")
      <4>1. c.box[f] = onSuccess(p.box[f], f)
        BY <1>3, <3>2, Zenon
      <4>2. onSuccess(p.box[f], f).error \in BOOLEAN
        BY Boxes, Zenon
      <4> QED
        BY <4>1, <4>2, Zenon
    <3>3. CASE f \notin Found(p, S, "error") \cup Found(p, S, "valid")
      BY <1>1, <1>3, <3>3 DEF Flags
    <3> QED
      BY <3>1, <3>2, <3>3
  <2>2. c.attached \in BOOLEAN /\ c.formSubmitted \in BOOLEAN /\ c.summary.error \in BOOLEAN
    BY <1>1, <1>2, Zenon DEF Flags
  <2> QED
    BY <2>1, <2>2, Zenon DEF Flags
<1>8. OfFields(c)
  BY <1>1, <1>2, <1>6 DEF OfFields
<1>9. Counted(c)
  BY <1>1, <1>2, <1>4, <1>6 DEF Counted, HasRemote, rules
<1>10. Visible(c)
  <2>1. ASSUME NEW f \in DOMAIN c.errors
        PROVE  c.box[f] = onError(p.box[f], f, c.errors[f])
    <3>1. f \in Found(p, S, "error") /\ f \in Fields
      BY <1>2, <1>6
    <3> QED
      BY <1>3, <3>1, Zenon
  <2>2. ASSUME NEW f \in DOMAIN c.errors
        PROVE  c.box[f].error /\ (Replace[f] = "true" => c.box[f].text = c.errors[f])
    <3>1. c.box[f] = onError(p.box[f], f, c.errors[f])
      BY <2>1
    <3>2. c.box[f].error
      BY <3>1 DEF onError
    <3>3. Replace[f] = "true" => c.box[f].text = c.errors[f]
      BY <3>1 DEF onError
    <3> QED
      BY <3>2, <3>3, Zenon
  <2> QED
    BY <2>2, Zenon DEF Visible
<1> QED
  BY <1>5, <1>7, <1>8, <1>9, <1>10 DEF PageInv, c

-----------------------------------------------------------------------------
(* The functions from page to page.                                        *)

\* The summary of the errors, and the table of invalid fields, are all that
\* onErrors and a check of the whole form change beyond checked.
LEMMA OnErrorsInv ==
  ASSUME NEW p, PageInv(p)
  PROVE  /\ PageInv(onErrors(p))
         /\ onErrors(p).errors = p.errors /\ onErrors(p).pending = p.pending
         /\ onErrors(p).formSubmitted = p.formSubmitted
         /\ onErrors(p).attached = p.attached
         /\ onErrors(p).settings = p.settings
         /\ p.errors # <<>> =>
              onErrors(p).summary = [error |-> TRUE, list |-> onErrors(p).errors]
<1> DEFINE q == [p EXCEPT !.summary = [error |-> TRUE, list |-> p.errors]]
<1>1. CASE p.errors = <<>>
  BY <1>1 DEF onErrors
<1>2. CASE p.errors # <<>>
  <2>1. onErrors(p) = q
    BY <1>2 DEF onErrors
  <2>2. Shaped(p) /\ Flags(p) /\ OfFields(p) /\ Counted(p) /\ Visible(p)
    BY DEF PageInv
  <2>3. /\ q.attached = p.attached /\ q.settings = p.settings /\ q.errors = p.errors
        /\ q.submitted = p.submitted /\ q.invalid = p.invalid
        /\ q.pending = p.pending /\ q.asked = p.asked /\ q.box = p.box
        /\ q.formSubmitted = p.formSubmitted
        /\ q.summary = [error |-> TRUE, list |-> p.errors]
    BY <2>2 DEF Shaped
  <2>4. Shaped(q)
    BY <2>2 DEF Shaped
  <2> HIDE DEF q
  <2>5. Flags(q)
    BY <2>2, <2>3 DEF Flags
  <2>6. OfFields(q) /\ Visible(q)
    BY <2>2, <2>3 DEF OfFields, Visible
  <2>7. Counted(q)
    BY <2>2, <2>3 DEF Counted, HasRemote, rules
  <2> QED
    BY <2>1, <2>3, <2>4, <2>5, <2>6, <2>7 DEF PageInv
<1> QED
  BY <1>1, <1>2

\* A change of the table of invalid fields.
LEMMA InvalidInv ==
  ASSUME NEW p, PageInv(p), NEW S, S \subseteq Fields
  PROVE  /\ PageInv([p EXCEPT !.invalid = S])
         /\ [p EXCEPT !.invalid = S].errors = p.errors
         /\ [p EXCEPT !.invalid = S].pending = p.pending
         /\ [p EXCEPT !.invalid = S].formSubmitted = p.formSubmitted
         /\ [p EXCEPT !.invalid = S].attached = p.attached
         /\ [p EXCEPT !.invalid = S].settings = p.settings
<1> DEFINE q == [p EXCEPT !.invalid = S]
<1>1. Shaped(p) /\ Flags(p) /\ OfFields(p) /\ Counted(p) /\ Visible(p)
  BY DEF PageInv
<1>2. /\ q.attached = p.attached /\ q.settings = p.settings /\ q.errors = p.errors
      /\ q.submitted = p.submitted /\ q.invalid = S
      /\ q.pending = p.pending /\ q.asked = p.asked /\ q.box = p.box
      /\ q.formSubmitted = p.formSubmitted /\ q.summary = p.summary
  BY <1>1 DEF Shaped
<1>3. Shaped(q)
  BY <1>1 DEF Shaped
<1> HIDE DEF q
<1>4. Flags(q)
  BY <1>1, <1>2 DEF Flags
<1>5. OfFields(q) /\ Visible(q)
  BY <1>1, <1>2 DEF OfFields, Visible
<1>6. Counted(q)
  BY <1>1, <1>2 DEF Counted, HasRemote, rules
<1>7. PageInv(q)
  BY <1>3, <1>4, <1>5, <1>6 DEF PageInv
<1> QED
  BY <1>2, <1>7 DEF q

\* Validator.form().
LEMMA WholeFormInv ==
  ASSUME NEW p, PageInv(p), p.attached
  PROVE  /\ PageInv(form(p))
         /\ form(p).attached /\ form(p).formSubmitted = p.formSubmitted
         /\ form(p).pending = p.pending \cup Found(p, Ruled(p), "pending")
         /\ DOMAIN form(p).errors = Found(p, Ruled(p), "error")
         /\ form(p).errors # <<>> =>
              form(p).summary = [error |-> TRUE, list |-> form(p).errors]
<1> DEFINE c == checked(p, Ruled(p))
           d == [c EXCEPT !.invalid = DOMAIN c.errors]
<1>1. Ruled(p) \in SUBSET Fields
  BY DEF Ruled
<1>2. PageInv(c)
  BY <1>1, CheckedInv
<1>3. /\ c.attached = p.attached /\ c.formSubmitted = p.formSubmitted
      /\ c.pending = p.pending \cup Found(p, Ruled(p), "pending")
      /\ DOMAIN c.errors = Found(p, Ruled(p), "error")
  BY CheckedParts DEF PageInv
<1>4. DOMAIN c.errors \subseteq Fields
  BY <1>2 DEF PageInv, OfFields
<1>5. form(p) = onErrors(d)
  BY DEF form
<1> HIDE DEF c
<1>6. /\ PageInv(d) /\ d.errors = c.errors /\ d.pending = c.pending
      /\ d.formSubmitted = c.formSubmitted /\ d.attached = c.attached
  BY <1>2, <1>4, InvalidInv
<1> HIDE DEF d
<1>7. /\ PageInv(onErrors(d))
      /\ onErrors(d).errors = d.errors /\ onErrors(d).pending = d.pending
      /\ onErrors(d).formSubmitted = d.formSubmitted
      /\ onErrors(d).attached = d.attached
      /\ d.errors # <<>> =>
           onErrors(d).summary = [error |-> TRUE, list |-> onErrors(d).errors]
  BY <1>6, OnErrorsInv, Zenon
<1> QED
  BY <1>3, <1>5, <1>6, <1>7

\* Validator.element().
LEMMA ElementInv ==
  ASSUME NEW p, PageInv(p), p.attached, NEW f \in Fields
  PROVE  /\ PageInv(element(p, f))
         /\ element(p, f).formSubmitted = p.formSubmitted
         /\ p.pending \subseteq element(p, f).pending
<1> DEFINE c == checked(p, {f})
           S == c.invalid \cup {f}
<1>1. {f} \in SUBSET Fields
  OBVIOUS
<1>2. PageInv(c)
  BY <1>1, CheckedInv
<1>3. c.formSubmitted = p.formSubmitted /\ p.pending \subseteq c.pending
  BY CheckedParts DEF PageInv
<1>4. S \subseteq Fields
  BY <1>2 DEF PageInv, OfFields
<1>5. element(p, f) = [c EXCEPT !.invalid = S]
  BY DEF element
<1> HIDE DEF c, S
<1> QED
  BY <1>2, <1>3, <1>4, <1>5, InvalidInv

\* attachValidation: the settings are of fields, as the options are.
LEMMA AttachInv ==
  ASSUME NEW p, PageInv(p), NEW parsed, DOMAIN parsed \subseteq Fields
  PROVE  /\ PageInv(attachValidation(p, parsed))
         /\ attachValidation(p, parsed).formSubmitted = p.formSubmitted
         /\ attachValidation(p, parsed).pending = p.pending
<1> DEFINE settings == [f \in DOMAIN parsed |-> Copied(parsed[f])]
           q == [p EXCEPT !.attached = TRUE, !.settings = settings]
<1>0. Shaped(p) /\ Flags(p) /\ OfFields(p) /\ Counted(p) /\ Visible(p)
  BY DEF PageInv
<1>1. CASE p.attached
  BY <1>1 DEF attachValidation
<1>2. CASE ~p.attached
  <2>1. attachValidation(p, parsed) = q
    BY <1>2 DEF attachValidation
  <2>2. /\ q.attached = TRUE /\ q.settings = settings /\ q.errors = p.errors
        /\ q.submitted = p.submitted /\ q.invalid = p.invalid
        /\ q.pending = p.pending /\ q.asked = p.asked /\ q.box = p.box
        /\ q.formSubmitted = p.formSubmitted /\ q.summary = p.summary
    BY <1>0 DEF Shaped
  <2>3. Shaped(q)
    BY <1>0 DEF Shaped
  <2>4. DOMAIN settings \subseteq Fields
    OBVIOUS
  <2> HIDE DEF q, settings
  <2>5. Flags(q)
    BY <1>0, <2>2 DEF Flags
  <2>6. OfFields(q) /\ Visible(q)
    BY <1>0, <2>2, <2>4 DEF OfFields, Visible
  <2>7. Counted(q)
    BY <1>0, <1>2, <2>2 DEF Counted
  <2> QED
    BY <2>1, <2>2, <2>3, <2>5, <2>6, <2>7 DEF PageInv
<1> QED
  BY <1>1, <1>2

\* An answer: the request is no longer on its way, and a refusal becomes an
\* error that can be seen.
LEMMA AnsweredInv ==
  ASSUME NEW p, PageInv(p), NEW f \in Fields, NEW valid \in BOOLEAN
  PROVE  /\ PageInv(answered(p, f, valid))
         /\ answered(p, f, valid).formSubmitted = p.formSubmitted
         /\ answered(p, f, valid).attached = p.attached
         /\ ~valid => answered(p, f, valid).errors # <<>>
<1> DEFINE q == answered(p, f, valid)
           m == Message(p, f, "remote")
<1>1. Shaped(p) /\ Flags(p) /\ OfFields(p) /\ Counted(p) /\ Visible(p)
  BY DEF PageInv
<1>2. /\ q.attached = p.attached /\ q.settings = p.settings
      /\ q.submitted = p.submitted /\ q.invalid = p.invalid \cup {f}
      /\ q.pending = p.pending \ {f}
      /\ q.formSubmitted = p.formSubmitted /\ q.summary = p.summary
  BY <1>1 DEF Shaped, answered, stopRequest
<1>3. q.errors = IF valid THEN <<>> ELSE Put(p.errors, f, m)
  BY <1>1 DEF Shaped, answered, stopRequest
<1>4. /\ q.asked[f] = Undefined
      /\ \A g \in Fields \ {f} : q.asked[g] = p.asked[g]
  BY <1>1 DEF Shaped, answered, stopRequest
<1>5. /\ q.box[f] = IF valid THEN onSuccess(p.box[f], f) ELSE onError(p.box[f], f, m)
      /\ \A g \in Fields \ {f} : q.box[g] = p.box[g]
  BY <1>1 DEF Shaped, answered, stopRequest
<1>6. Shaped(q)
  <2>1. /\ DOMAIN q = DOMAIN p /\ DOMAIN q.previous = Fields /\ DOMAIN q.asked = Fields
        /\ DOMAIN q.box = Fields /\ DOMAIN q.judged = Fields
    BY <1>1 DEF Shaped, answered, stopRequest
  <2> HIDE DEF q
  <2>2. \A g \in Fields : DOMAIN q.box[g] = {"error", "text"}
    BY <1>1, <1>5 DEF Shaped, onError, onSuccess
  <2> QED
    BY <1>1, <1>2, <2>1, <2>2 DEF Shaped
<1> HIDE DEF q, m
<1>7. ~valid => q.box[f].error /\ (Replace[f] = "true" => q.box[f].text = m)
  BY <1>5 DEF onError
<1>8. q.box[f].error \in BOOLEAN
  BY <1>5 DEF onError, onSuccess
<1>9. Flags(q)
  BY <1>1, <1>2, <1>5, <1>8 DEF Flags
<1>10. DOMAIN q.errors \subseteq Fields /\ (~valid => q.errors # <<>>)
  <2>1. CASE valid
    <3>1. DOMAIN <<>> = {}
      OBVIOUS
    <3> QED
      BY <1>3, <2>1, <3>1
  <2>2. CASE ~valid
    <3>1. DOMAIN q.errors = DOMAIN p.errors \cup {f}
      BY <1>3, <2>2 DEF Put
    <3> QED
      BY <1>1, <3>1 DEF OfFields
  <2> QED
    BY <2>1, <2>2
<1>11. OfFields(q)
  BY <1>1, <1>2, <1>10 DEF OfFields
<1>12. Counted(q)
  BY <1>1, <1>2, <1>4 DEF Counted, HasRemote, rules
<1>13. Visible(q)
  <2>1. CASE valid
    <3>1. DOMAIN q.errors = {}
      BY <1>3, <2>1
    <3> QED
      BY <3>1 DEF Visible
  <2>2. CASE ~valid
    <3>1. /\ DOMAIN q.errors = DOMAIN p.errors \cup {f} /\ q.errors[f] = m
          /\ \A g \in DOMAIN p.errors \ {f} : q.errors[g] = p.errors[g]
      BY <1>3, <2>2 DEF Put
    <3>2. ASSUME NEW g \in DOMAIN q.errors, g # f
          PROVE  /\ q.box[g].error
                 /\ Replace[g] = "true" => q.box[g].text = q.errors[g]
      <4>1. g \in DOMAIN p.errors /\ g \in Fields
        BY <1>1, <3>1, <3>2 DEF OfFields
      <4>2. q.box[g] = p.box[g] /\ q.errors[g] = p.errors[g]
        BY <1>5, <3>1, <3>2, <4>1
      <4> QED
        BY <1>1, <4>1, <4>2 DEF Visible
    <3> QED
      BY <1>7, <2>2, <3>1, <3>2 DEF Visible
  <2> QED
    BY <2>1, <2>2
<1> QED
  BY <1>2, <1>6, <1>9, <1>10, <1>11, <1>12, <1>13 DEF PageInv, q

\* The flag of a submission that waits.
LEMMA FormSubmittedInv ==
  ASSUME NEW p, PageInv(p), NEW b \in BOOLEAN
  PROVE  /\ PageInv([p EXCEPT !.formSubmitted = b])
         /\ [p EXCEPT !.formSubmitted = b].errors = p.errors
         /\ [p EXCEPT !.formSubmitted = b].pending = p.pending
         /\ [p EXCEPT !.formSubmitted = b].summary = p.summary
         /\ [p EXCEPT !.formSubmitted = b].formSubmitted = b
<1> DEFINE q == [p EXCEPT !.formSubmitted = b]
<1>1. Shaped(p) /\ Flags(p) /\ OfFields(p) /\ Counted(p) /\ Visible(p)
  BY DEF PageInv
<1>2. /\ q.attached = p.attached /\ q.settings = p.settings /\ q.errors = p.errors
      /\ q.submitted = p.submitted /\ q.invalid = p.invalid
      /\ q.pending = p.pending /\ q.asked = p.asked /\ q.box = p.box
      /\ q.formSubmitted = b /\ q.summary = p.summary
  BY <1>1 DEF Shaped
<1>3. Shaped(q)
  BY <1>1 DEF Shaped
<1> HIDE DEF q
<1>4. Flags(q)
  BY <1>1, <1>2 DEF Flags
<1>5. OfFields(q) /\ Visible(q)
  BY <1>1, <1>2 DEF OfFields, Visible
<1>6. Counted(q)
  BY <1>1, <1>2 DEF Counted, HasRemote, rules
<1>7. PageInv(q)
  BY <1>3, <1>4, <1>5, <1>6 DEF PageInv
<1> QED
  BY <1>2, <1>7 DEF q

\* The page says what is wrong: the summary lists the errors.
Explains(p) == p.errors # <<>> /\ p.summary = [error |-> TRUE, list |-> p.errors]

Waits(p) == p.formSubmitted /\ p.pending # {}

\* The rest of stopRequest after true: a waiting submission is sent, waits on,
\* or is explained.
LEMMA ResumedInv ==
  ASSUME NEW p, PageInv(p), p.attached
  PROVE  /\ PageInv(Resumed(p))
         /\ p.formSubmitted /\ Resumed(p).formSubmitted =>
              Waits(Resumed(p)) \/ Explains(Resumed(p))
<1> DEFINE c == form(p)
           b == ~Submittable(c)
<1>1. CASE p.pending # {} \/ ~p.formSubmitted
  BY <1>1 DEF Resumed, Waits
<1>2. CASE ~(p.pending # {} \/ ~p.formSubmitted)
  <2>1. Resumed(p) = [c EXCEPT !.formSubmitted = b]
    BY <1>2 DEF Resumed
  <2>2. /\ PageInv(c)
        /\ c.errors # <<>> => c.summary = [error |-> TRUE, list |-> c.errors]
    BY WholeFormInv
  <2>3. b <=> (c.errors # <<>> \/ c.pending # {})
    BY DEF Submittable
  <2>4. b \in BOOLEAN
    OBVIOUS
  <2> HIDE DEF c, b
  <2> DEFINE q == [c EXCEPT !.formSubmitted = b]
  <2>5. /\ PageInv(q) /\ q.errors = c.errors /\ q.pending = c.pending
        /\ q.summary = c.summary /\ q.formSubmitted = b
    BY <2>2, <2>4, FormSubmittedInv
  <2> HIDE DEF q
  <2>6. q.formSubmitted => Waits(q) \/ Explains(q)
    BY <2>2, <2>3, <2>5 DEF Waits, Explains
  <2> QED
    BY <2>1, <2>5, <2>6 DEF q
<1> QED
  BY <1>1, <1>2

\* The rest of stopRequest after false: a submission that no longer waits is
\* explained, as there is an error.
LEMMA RefusingInv ==
  ASSUME NEW p, PageInv(p), p.errors # <<>>
  PROVE  /\ PageInv(Refusing(p))
         /\ p.formSubmitted => Waits(Refusing(p)) \/ Explains(Refusing(p))
<1> DEFINE d == onErrors(p)
<1>1. CASE p.pending # {} \/ ~p.formSubmitted
  BY <1>1 DEF Refusing, Waits
<1>2. CASE ~(p.pending # {} \/ ~p.formSubmitted)
  <2>1. Refusing(p) = [d EXCEPT !.formSubmitted = FALSE]
    BY <1>2 DEF Refusing
  <2>2. /\ PageInv(d) /\ d.errors = p.errors
        /\ d.summary = [error |-> TRUE, list |-> d.errors]
    BY OnErrorsInv
  <2> HIDE DEF d
  <2> DEFINE q == [d EXCEPT !.formSubmitted = FALSE]
  <2>3. /\ PageInv(q) /\ q.errors = d.errors /\ q.summary = d.summary
    BY <2>2, FormSubmittedInv
  <2> HIDE DEF q
  <2>4. Explains(q)
    BY <2>2, <2>3 DEF Explains
  <2> QED
    BY <2>1, <2>3, <2>4 DEF q
<1> QED
  BY <1>1, <1>2

\* A reset clears the errors, and drops no request and no waiting submission.
LEMMA ResetInv ==
  ASSUME NEW p, PageInv(p)
  PROVE  /\ PageInv(onReset(p))
         /\ onReset(p).formSubmitted = p.formSubmitted
         /\ onReset(p).pending = p.pending
<1> DEFINE q == onReset(p)
<1>1. Shaped(p) /\ Flags(p) /\ OfFields(p) /\ Counted(p) /\ Visible(p)
  BY DEF PageInv
<1>2. /\ q.attached = p.attached /\ q.settings = p.settings /\ q.errors = <<>>
      /\ q.submitted = {} /\ q.invalid = {} /\ q.pending = p.pending
      /\ q.formSubmitted = p.formSubmitted
  BY <1>1 DEF Shaped, onReset, resetForm
<1>3. q.summary.error = FALSE /\ DOMAIN q.summary = {"error", "list"}
  BY <1>1 DEF Shaped, onReset, resetForm
<1>4. \A f \in Fields : p.asked[f] = Undefined => q.asked[f] = Undefined
  BY <1>1 DEF Shaped, onReset, resetForm
<1>5. \A f \in Fields : q.box[f].error = FALSE /\ DOMAIN q.box[f] = {"error", "text"}
  BY <1>1 DEF Shaped, onReset, resetForm
<1>6. /\ DOMAIN q = DOMAIN p /\ DOMAIN q.previous = Fields /\ DOMAIN q.asked = Fields
      /\ DOMAIN q.box = Fields /\ DOMAIN q.judged = Fields
  BY <1>1 DEF Shaped, onReset, resetForm
<1>7. DOMAIN <<>> = {}
  OBVIOUS
<1> HIDE DEF q
<1>8. Shaped(q)
  BY <1>1, <1>3, <1>5, <1>6 DEF Shaped
<1>9. Flags(q)
  BY <1>1, <1>2, <1>3, <1>5 DEF Flags
<1>10. OfFields(q) /\ Visible(q)
  BY <1>1, <1>2, <1>7 DEF OfFields, Visible
<1>11. Counted(q)
  BY <1>1, <1>2, <1>4 DEF Counted, HasRemote, rules
<1> QED
  BY <1>2, <1>8, <1>9, <1>10, <1>11 DEF PageInv, q

-----------------------------------------------------------------------------
(* The steps.                                                              *)

\* The state beside the page.
InputsInv ==
  /\ DOMAIN markup = Fields /\ DOMAIN value = Fields
  /\ \A f \in Fields : markup[f] \in Markups[f] /\ value[f] \in Typed[f] \cup {Default[f]}
  /\ DOMAIN options \subseteq Fields
  /\ sent \in BOOLEAN /\ lost \in BOOLEAN
  /\ typing \in 0..MaxTyping /\ rewrites \in 0..MaxMarkups

FormInv == InputsInv /\ PageInv(page)

\* The steps that leave the page alone.
LEMMA InputsStep ==
  ASSUME FormInv, NEW f \in Fields, Rewrite(f) \/ Type(f)
  PROVE  FormInv'
<1>1. CASE Rewrite(f)
  <2>1. /\ DOMAIN markup' = Fields
        /\ \A g \in Fields : markup'[g] \in Markups[g]
    BY <1>1 DEF FormInv, InputsInv, Rewrite
  <2>2. rewrites' \in 0..MaxMarkups
    BY <1>1, BoundsAssumption DEF FormInv, InputsInv, Rewrite
  <2>3. UNCHANGED <<value, options, page, sent, lost, typing>>
    BY <1>1 DEF Rewrite
  <2> QED
    BY <2>1, <2>2, <2>3 DEF FormInv, InputsInv
<1>2. CASE Type(f)
  <2>1. /\ DOMAIN value' = Fields
        /\ \A g \in Fields : value'[g] \in Typed[g] \cup {Default[g]}
    BY <1>2 DEF FormInv, InputsInv, Type
  <2>2. typing' \in 0..MaxTyping
    BY <1>2, BoundsAssumption DEF FormInv, InputsInv, Type
  <2>3. UNCHANGED <<markup, options, page, sent, lost, rewrites>>
    BY <1>2 DEF Type
  <2> QED
    BY <2>1, <2>2, <2>3 DEF FormInv, InputsInv
<1> QED
  BY <1>1, <1>2

\* A step that leaves what it does not name alone.
LEMMA PageStep ==
  ASSUME FormInv, UNCHANGED <<markup, typing, rewrites>>,
         DOMAIN options' \subseteq Fields, value' = value \/ value' = Default,
         sent' \in BOOLEAN, lost' \in BOOLEAN, PageInv(page')
  PROVE  FormInv'
BY FormAssumption DEF FormInv, InputsInv

\* Parsing may attach a validator, and leaves what waits for the server alone.
LEMMA ParseStep ==
  ASSUME FormInv,
         \/ \E S \in SUBSET Fields : parse(S)
         \/ \E f \in Fields, skipAttach \in BOOLEAN : parseField(f, skipAttach)
  PROVE  /\ FormInv'
         /\ page'.formSubmitted = page.formSubmitted /\ page'.pending = page.pending
<1>1. PageInv(page) /\ InputsInv
  BY DEF FormInv
<1> DEFINE Parses == /\ DOMAIN options' \subseteq Fields
                     /\ page' = page \/ page' = attachValidation(page, options')
                     /\ UNCHANGED <<markup, value, sent, lost, typing, rewrites>>
<1>2. Parses
  <2>1. ASSUME NEW S \in SUBSET Fields, parse(S)
        PROVE  Parses
    BY <1>1, <2>1 DEF parse, InputsInv
  <2>2. ASSUME NEW f \in Fields, NEW skipAttach \in BOOLEAN, parseField(f, skipAttach)
        PROVE  Parses
    BY <1>1, <2>2 DEF parseField, InputsInv, Put
  <2> QED
    BY <2>1, <2>2
<1>3. /\ PageInv(page')
      /\ page'.formSubmitted = page.formSubmitted /\ page'.pending = page.pending
  BY <1>1, <1>2, AttachInv
<1> QED
  BY <1>1, <1>2, <1>3, PageStep DEF InputsInv

\* A check of one field may send a request; it ends no waiting.
LEMMA RecheckStep ==
  ASSUME FormInv, NEW f \in Fields, Recheck(f)
  PROVE  /\ FormInv'
         /\ page'.formSubmitted = page.formSubmitted /\ page.pending \subseteq page'.pending
<1>1. PageInv(page) /\ InputsInv
  BY DEF FormInv
<1>2. /\ PageInv(page')
      /\ page'.formSubmitted = page.formSubmitted /\ page.pending \subseteq page'.pending
  BY <1>1, ElementInv DEF Recheck
<1> QED
  BY <1>1, <1>2, PageStep DEF Recheck, InputsInv

\* A submission is sent, waits, or is explained.
LEMMA SubmitStep ==
  ASSUME FormInv, Submit
  PROVE  FormInv' /\ (sent' \/ Waits(page') \/ Explains(page'))
<1> DEFINE c == form(page)
           b == page.formSubmitted \/ (c.errors = <<>> /\ c.pending # {})
<1>1. PageInv(page) /\ InputsInv
  BY DEF FormInv
<1>2. UNCHANGED <<markup, value, options, lost, typing, rewrites>>
  BY DEF Submit
<1>3. CASE ~page.attached
  <2>1. sent' = TRUE /\ page' = page
    BY <1>3 DEF Submit
  <2> QED
    BY <1>1, <1>2, <2>1, PageStep DEF InputsInv
<1>4. CASE page.attached
  <2>1. /\ sent' = Submittable(c)
        /\ page' = [c EXCEPT !.formSubmitted = b]
    <3>1. Shaped(c)
      BY <1>1, <1>4, WholeFormInv DEF PageInv
    <3>2. c.formSubmitted = page.formSubmitted
      BY <1>1, <1>4, WholeFormInv
    <3> QED
      BY <1>4, <3>2 DEF Submit
  <2>2. /\ PageInv(c)
        /\ c.errors # <<>> => c.summary = [error |-> TRUE, list |-> c.errors]
    BY <1>1, <1>4, WholeFormInv
  <2>3. sent' \in BOOLEAN /\ (sent' <=> c.errors = <<>> /\ c.pending = {})
    BY <2>1 DEF Submittable
  <2>4. b \in BOOLEAN
    BY <1>1 DEF PageInv, Flags
  <2>5. c.errors = <<>> /\ c.pending # {} => b
    OBVIOUS
  <2> HIDE DEF c, b
  <2>6. /\ PageInv(page') /\ page'.errors = c.errors /\ page'.pending = c.pending
        /\ page'.summary = c.summary /\ page'.formSubmitted = b
    BY <2>1, <2>2, <2>4, FormSubmittedInv
  <2>7. sent' \/ Waits(page') \/ Explains(page')
    BY <2>2, <2>3, <2>5, <2>6 DEF Waits, Explains
  <2> QED
    BY <1>1, <1>2, <2>3, <2>6, <2>7, PageStep DEF InputsInv
<1> QED
  BY <1>3, <1>4

\* An answer that ends a waiting sends the form or explains the refusal.
LEMMA AnswerStep ==
  ASSUME FormInv, NEW f \in Fields, Answer(f)
  PROVE  /\ FormInv'
         /\ page.formSubmitted => sent' \/ Waits(page') \/ Explains(page')
<1>1. PageInv(page) /\ InputsInv
  BY DEF FormInv
<1>2. UNCHANGED <<markup, value, options, lost, typing, rewrites>>
  BY DEF Answer
<1>3. page.attached
  BY <1>1 DEF Answer, PageInv, Counted, Flags
<1>4. CASE page.asked[f].payload \in Refused
  <2> DEFINE p == answered(page, f, FALSE)
  <2>1. page' = Refusing(p) /\ sent' = sent
    BY <1>4 DEF Answer
  <2>2. PageInv(p) /\ p.errors # <<>> /\ p.formSubmitted = page.formSubmitted
    BY <1>1, AnsweredInv
  <2> HIDE DEF p
  <2>3. /\ PageInv(page')
        /\ p.formSubmitted => Waits(page') \/ Explains(page')
    BY <2>1, <2>2, RefusingInv
  <2> QED
    BY <1>1, <1>2, <2>1, <2>2, <2>3, PageStep DEF InputsInv
<1>5. CASE page.asked[f].payload \notin Refused
  <2> DEFINE p == answered(page, f, TRUE)
  <2>1. page' = Resumed(p) /\ sent' = (p.formSubmitted /\ ~page'.formSubmitted)
    BY <1>5 DEF Answer
  <2>2. PageInv(p) /\ p.attached /\ p.formSubmitted = page.formSubmitted
    BY <1>1, <1>3, AnsweredInv
  <2> HIDE DEF p
  <2>3. /\ PageInv(page')
        /\ p.formSubmitted /\ page'.formSubmitted => Waits(page') \/ Explains(page')
    BY <2>1, <2>2, ResumedInv
  <2>4. sent' \in BOOLEAN /\ (sent' <=> p.formSubmitted /\ ~page'.formSubmitted)
    BY <2>1
  <2> QED
    BY <1>1, <1>2, <2>2, <2>3, <2>4, PageStep DEF InputsInv
<1> QED
  BY <1>4, <1>5

\* A failed request stays counted.
LEMMA AnswerLostStep ==
  ASSUME FormInv, NEW f \in Fields, AnswerLost(f)
  PROVE  /\ FormInv'
         /\ page'.formSubmitted = page.formSubmitted /\ page'.pending = page.pending
<1> DEFINE p == page
           q == [p EXCEPT !.asked[f] = Undefined]
<1>1. PageInv(p) /\ InputsInv
  BY DEF FormInv
<1>2. page' = q /\ lost' = TRUE
      /\ UNCHANGED <<markup, value, options, sent, typing, rewrites>>
  BY DEF AnswerLost
<1> HIDE DEF p
<1>3. Shaped(p) /\ Flags(p) /\ OfFields(p) /\ Counted(p) /\ Visible(p)
  BY <1>1 DEF PageInv
<1>4. /\ q.attached = p.attached /\ q.settings = p.settings /\ q.errors = p.errors
      /\ q.submitted = p.submitted /\ q.invalid = p.invalid
      /\ q.pending = p.pending /\ q.box = p.box
      /\ q.formSubmitted = p.formSubmitted /\ q.summary = p.summary
  BY <1>3 DEF Shaped
<1>5. /\ q.asked[f] = Undefined
      /\ \A g \in Fields \ {f} : q.asked[g] = p.asked[g]
  BY <1>3 DEF Shaped
<1>6. Shaped(q)
  BY <1>3 DEF Shaped
<1> HIDE DEF q
<1>7. Flags(q)
  BY <1>3, <1>4 DEF Flags
<1>8. OfFields(q) /\ Visible(q)
  BY <1>3, <1>4 DEF OfFields, Visible
<1>9. Counted(q)
  BY <1>3, <1>4, <1>5 DEF Counted, HasRemote, rules
<1>10. PageInv(q)
  BY <1>6, <1>7, <1>8, <1>9 DEF PageInv
<1> QED
  BY <1>1, <1>2, <1>4, <1>10, PageStep DEF InputsInv, p

\* A reset ends no waiting either.
LEMMA ResetStep ==
  ASSUME FormInv, Reset
  PROVE  /\ FormInv'
         /\ page'.formSubmitted = page.formSubmitted /\ page'.pending = page.pending
<1>1. PageInv(page) /\ InputsInv
  BY DEF FormInv
<1>2. /\ PageInv(page')
      /\ page'.formSubmitted = page.formSubmitted /\ page'.pending = page.pending
  BY <1>1, ResetInv DEF Reset
<1> QED
  BY <1>1, <1>2, PageStep DEF Reset, InputsInv

\* Each step keeps the invariant and explains what it refuses.
LEMMA FormStep ==
  ASSUME FormInv, [Next]_vars
  PROVE  /\ FormInv'
         /\ (Submit \/ (Waiting /\ ~Waiting')) => sent' \/ Waiting' \/ Explained'
<1>1. /\ Waiting <=> Waits(page)
      /\ Waiting' <=> Waits(page')
      /\ Explained' <=> Explains(page')
  BY DEF Waiting, Explained, Waits, Explains
<1>2. PageInv(page)
  BY DEF FormInv
<1>3. CASE Submit
  BY <1>1, <1>3, SubmitStep
<1>4. ASSUME NEW f \in Fields, Answer(f)
      PROVE  FormInv' /\ (Waiting => sent' \/ Waiting' \/ Explained')
  BY <1>1, <1>4, AnswerStep DEF Waits
<1>5. ASSUME NEW f \in Fields, Recheck(f) \/ AnswerLost(f)
      PROVE  FormInv' /\ (Waiting => Waiting')
  BY <1>1, <1>5, RecheckStep, AnswerLostStep DEF Waits
<1>6. ASSUME NEW f \in Fields, Rewrite(f) \/ Type(f)
      PROVE  FormInv' /\ (Waiting => Waiting')
  BY <1>1, <1>6, InputsStep DEF Rewrite, Type, Waits
<1>7. ASSUME \/ \E S \in SUBSET Fields : parse(S)
             \/ \E f \in Fields, skipAttach \in BOOLEAN : parseField(f, skipAttach)
      PROVE  FormInv' /\ (Waiting => Waiting')
  BY <1>1, <1>7, ParseStep DEF Waits
<1>8. ASSUME Reset
      PROVE  FormInv' /\ (Waiting => Waiting')
  BY <1>1, <1>8, ResetStep DEF Waits
<1>9. ASSUME UNCHANGED vars
      PROVE  FormInv' /\ (Waiting => Waiting')
  BY <1>9 DEF vars, FormInv, InputsInv, Waiting
<1>10. \/ Submit \/ Reset \/ UNCHANGED vars
       \/ \E f \in Fields : Answer(f)
       \/ \E f \in Fields : Recheck(f) \/ AnswerLost(f)
       \/ \E f \in Fields : Rewrite(f) \/ Type(f)
       \/ \E S \in SUBSET Fields : parse(S)
       \/ \E f \in Fields, skipAttach \in BOOLEAN : parseField(f, skipAttach)
  BY Zenon DEF Next
<1> QED
  BY <1>3, <1>4, <1>5, <1>6, <1>7, <1>8, <1>9, <1>10, Zenon

\* The invariant holds of every state of the form.
LEMMA FormInvHolds == Spec => []FormInv
<1>1. Init => FormInv
  <2> SUFFICES ASSUME Init PROVE FormInv
    OBVIOUS
  <2>1. InputsInv
    <3>1. DOMAIN value = Fields /\ \A f \in Fields : value[f] = Default[f]
      BY FormAssumption DEF Init
    <3>2. DOMAIN options = {}
      BY DEF Init
    <3>3. typing \in 0..MaxTyping /\ rewrites \in 0..MaxMarkups
      BY BoundsAssumption DEF Init
    <3>4. DOMAIN markup = Fields /\ \A f \in Fields : markup[f] \in Markups[f]
      BY DEF Init
    <3> QED
      BY <3>1, <3>2, <3>3, <3>4 DEF Init, InputsInv
  <2> QED
    BY <2>1, NoPageInv DEF Init, FormInv
<1>2. FormInv /\ [Next]_vars => FormInv'
  BY FormStep
<1> QED
  BY <1>1, <1>2, PTL DEF Spec

\* The validator's tables are of the form's fields, the fields that it counts as
\* waiting for the server have a remote rule and include every request on its
\* way, whatever is typed, checked, answered, lost or reset, in whatever order.
THEOREM FormTypes == Spec => []TypeOK
<1>1. FormInv => TypeOK
  BY DEF FormInv, InputsInv, PageInv, Flags, OfFields, Counted, TypeOK
<1> QED
  BY <1>1, FormInvHolds, PTL

\* No error is in the validator's list without being marked, and told, at its
\* field.
THEOREM NoHiddenErrors == Spec => []ErrorsAreVisible
<1>1. FormInv => ErrorsAreVisible
  BY DEF FormInv, PageInv, Visible, ErrorsAreVisible
<1> QED
  BY <1>1, FormInvHolds, PTL

\* No submission ends in silence: it is sent, or waits for the server, or the
\* summary says what is wrong; and one that has waited ends likewise.
THEOREM NoSilentRefusal == Spec => RefusalIsExplained
<1>1. FormInv /\ [Next]_vars =>
        [Submit \/ (Waiting /\ ~Waiting') => sent' \/ Waiting' \/ Explained']_vars
  BY FormStep
<1> QED
  BY <1>1, FormInvHolds, PTL DEF Spec, RefusalIsExplained

-----------------------------------------------------------------------------
(* The verdicts.                                                           *)

\* What a validator refuses of field f, given the values that it looks at.
RefusedBy(p, f, payload) ==
  \/ \E rule \in rules(p, f) : ~Accepts(rule, Bound(p, f, rule), payload[f], Undefined)
  \/ HasRemote(p, f) /\ payload[f] # <<>> /\ payload \in Refused

\* A request on its way is for a value without an error, and what is remembered
\* of the remote check is about the same values, unless a reset dropped it.
Requested(p, f) ==
  LET payload == p.asked[f].payload IN
  /\ DOMAIN p.asked[f] = {"payload", "current"}
  /\ payload # Undefined /\ payload[f] # <<>>
  /\ \A rule \in rules(p, f) : Accepts(rule, Bound(p, f, rule), payload[f], Undefined)
  /\ IF p.asked[f].current
       THEN DOMAIN p.previous[f] = {"old", "valid"} /\ p.previous[f].old = payload
       ELSE p.previous[f] = Undefined

\* The remembered verdict is the one that the server gave.
Remembered(p, f) ==
  p.previous[f] # Undefined => (p.previous[f].valid <=> p.previous[f].old \notin Refused)

RemoteInv(p) ==
  \A f \in Fields : /\ p.asked[f] # Undefined => Requested(p, f)
                    /\ f \notin p.pending => Remembered(p, f)

\* Every field that was parsed has the rule that always holds, so that a check
\* of it ends in a verdict that its box shows.
NeverSkipped(p) == \A f \in DOMAIN p.settings : "__dummy__" \in DOMAIN p.settings[f].rules

BoxInv(p) ==
  /\ ~p.attached => \A f \in Fields : ~p.box[f].error /\ p.judged[f] = Undefined
  /\ \A f \in Fields \ p.pending :
       p.box[f].error <=> (p.judged[f] # Undefined /\ RefusedBy(p, f, p.judged[f]))

VerdictInv(p) == RemoteInv(p) /\ NeverSkipped(p) /\ BoxInv(p)

\* The payload of a field has the field's value, and is not undefined.
LEMMA PayloadOfField ==
  ASSUME InputsInv, NEW p, NEW f \in Fields
  PROVE  Payload(p, f)[f] = value[f] /\ Payload(p, f) # Undefined
<1> DEFINE V == UNION {Typed[g] : g \in Fields}
           named == IF HasRemote(p, f) THEN Range(Bound(p, f, "remote")) ELSE {}
           S == (named \cup {f}) \cap Fields
<1>1. \A g \in Fields : value[g] \in V
  BY FormAssumption DEF InputsInv
<1>2. Payload(p, f) = [g \in S |-> value[g]]
  BY DEF Payload
<1>3. S \in SUBSET Fields /\ f \in S
  OBVIOUS
<1> HIDE DEF S
<1>4. Payload(p, f) \in [S -> V]
  BY <1>1, <1>2, <1>3
<1>5. Undefined \notin [S -> V]
  BY <1>3, UndefinedAssumption
<1> QED
  BY <1>2, <1>3, <1>4, <1>5

\* What each verdict of check() means for the values that are checked.
LEMMA VerdictMeaning ==
  ASSUME InputsInv, NEW p, NEW f \in Fields
  PROVE  /\ check(p, f).is = "pending" =>
              /\ value[f] # <<>>
              /\ \A rule \in rules(p, f) :
                   Accepts(rule, Bound(p, f, rule), value[f], Undefined)
         /\ check(p, f).is = "error" /\ Remembered(p, f) => RefusedBy(p, f, Payload(p, f))
         /\ check(p, f).is \in {"none", "valid"} /\ Remembered(p, f) =>
              ~RefusedBy(p, f, Payload(p, f))
         /\ check(p, f).is = "none" => "__dummy__" \notin rules(p, f)
<1>1. Payload(p, f)[f] = value[f]
  BY PayloadOfField
<1>2. failing(p, f) # {} <=>
        \E rule \in rules(p, f) : ~Accepts(rule, Bound(p, f, rule), value[f], Undefined)
  BY DEF failing
<1>3. RefusedBy(p, f, Payload(p, f)) <=>
        \/ failing(p, f) # {}
        \/ HasRemote(p, f) /\ value[f] # <<>> /\ Payload(p, f) \in Refused
  BY <1>1, <1>2 DEF RefusedBy
<1> DEFINE asks == HasRemote(p, f) /\ value[f] # <<>>
           known == p.previous[f] # Undefined /\ p.previous[f].old = Payload(p, f)
<1>4. /\ check(p, f).is = "pending" => failing(p, f) = {} /\ asks /\ ~known
      /\ check(p, f).is = "error" =>
           failing(p, f) # {} \/ (asks /\ known /\ ~p.previous[f].valid)
      /\ check(p, f).is \in {"none", "valid"} =>
           failing(p, f) = {} /\ (asks => known /\ p.previous[f].valid)
  BY DEF check
<1>5. check(p, f).is = "none" => "__dummy__" \notin rules(p, f)
  BY DEF check
<1>6. known /\ Remembered(p, f) => (p.previous[f].valid <=> Payload(p, f) \notin Refused)
  BY DEF Remembered
<1> HIDE DEF known
<1> QED
  BY <1>2, <1>3, <1>4, <1>5, <1>6

\* The parts of a page that the verdicts depend on.
LEMMA VerdictSame ==
  ASSUME NEW p, VerdictInv(p), NEW q,
         q.attached = p.attached, q.settings = p.settings, q.pending = p.pending,
         q.asked = p.asked, q.previous = p.previous, q.box = p.box, q.judged = p.judged
  PROVE  VerdictInv(q)
<1>1. \A f : rules(q, f) = rules(p, f) /\ \A rule : Bound(q, f, rule) = Bound(p, f, rule)
  BY DEF rules, Bound
<1>2. \A f : HasRemote(q, f) = HasRemote(p, f)
  BY <1>1 DEF HasRemote
<1>3. RemoteInv(q)
  BY <1>1 DEF VerdictInv, RemoteInv, Requested, Remembered
<1>4. NeverSkipped(q)
  BY DEF VerdictInv, NeverSkipped
<1>5. BoxInv(q)
  BY <1>1, <1>2 DEF VerdictInv, BoxInv, RefusedBy
<1> QED
  BY <1>3, <1>4, <1>5 DEF VerdictInv

\* A check keeps the verdicts: a field whose verdict waits becomes pending, the
\* box of any other one shows what was found.
LEMMA CheckedVerdicts ==
  ASSUME InputsInv, NEW p, PageInv(p), VerdictInv(p), p.attached,
         NEW S \in SUBSET Fields
  PROVE  VerdictInv(checked(p, S))
<1> DEFINE c == checked(p, S)
<1>1. Shaped(p) /\ Counted(p) /\ OfFields(p) /\ Flags(p)
  BY DEF PageInv
<1>2. /\ c.attached = p.attached /\ c.settings = p.settings
      /\ c.pending = p.pending \cup Found(p, S, "pending")
  BY <1>1, CheckedParts, Zenon
<1>3. \A f \in Fields :
        /\ f \in Found(p, S, "error") => c.box[f] = onError(p.box[f], f, c.errors[f])
        /\ f \in Found(p, S, "valid") => c.box[f] = onSuccess(p.box[f], f)
        /\ f \notin Found(p, S, "error") \cup Found(p, S, "valid") => c.box[f] = p.box[f]
  BY <1>1, CheckedBox, Zenon
<1>4. \A f \in Fields :
        /\ f \in Found(p, S, "pending") =>
             c.asked[f] = [payload |-> Payload(p, f), current |-> TRUE]
        /\ f \notin Found(p, S, "pending") => c.asked[f] = p.asked[f]
  BY <1>1, CheckedAsked, Zenon
<1>5. \A f \in Fields :
        /\ f \in Found(p, S, "pending") =>
             c.previous[f] = Recalled(p, f)
        /\ f \notin Found(p, S, "pending") => c.previous[f] = p.previous[f]
  BY <1>1, CheckedPrevious, Zenon
<1>6. \A f \in Fields :
        c.judged[f] = IF f \in S \ Found(p, S, "pending") THEN Payload(p, f) ELSE p.judged[f]
  BY <1>1, CheckedJudged, Zenon
<1> HIDE DEF c
<1>7. \A f : /\ rules(c, f) = rules(p, f) /\ HasRemote(c, f) = HasRemote(p, f)
             /\ \A rule : Bound(c, f, rule) = Bound(p, f, rule)
  BY <1>2 DEF rules, Bound, HasRemote
<1>8. \A f, payload : RefusedBy(c, f, payload) <=> RefusedBy(p, f, payload)
  BY <1>7 DEF RefusedBy
<1>9. RemoteInv(c)
  <2> SUFFICES ASSUME NEW f \in Fields
               PROVE  /\ c.asked[f] # Undefined => Requested(c, f)
                      /\ f \notin c.pending => Remembered(c, f)
    BY DEF RemoteInv
  <2>1. CASE f \in Found(p, S, "pending")
    <3>1. /\ c.asked[f].payload = Payload(p, f) /\ c.asked[f].current
          /\ DOMAIN c.asked[f] = {"payload", "current"}
      <4>1. c.asked[f] = [payload |-> Payload(p, f), current |-> TRUE]
        BY <1>4, <2>1, Zenon
      <4> QED
        BY <4>1
    <3>2. c.previous[f].old = Payload(p, f) /\ DOMAIN c.previous[f] = {"old", "valid"}
      <4> DEFINE valid == p.previous[f] = Undefined \/ p.previous[f].valid
      <4>1. c.previous[f] = [old |-> Payload(p, f), valid |-> valid]
        BY <1>5, <2>1, Zenon DEF Recalled
      <4> HIDE DEF valid
      <4> QED
        BY <4>1
    <3>3. /\ value[f] # <<>>
          /\ \A rule \in rules(p, f) : Accepts(rule, Bound(p, f, rule), value[f], Undefined)
      BY <2>1, VerdictMeaning DEF Found
    <3>4. Payload(p, f)[f] = value[f] /\ Payload(p, f) # Undefined
      BY PayloadOfField
    <3>5. Requested(c, f)
      BY <1>7, <3>1, <3>2, <3>3, <3>4 DEF Requested
    <3> QED
      BY <1>2, <2>1, <3>5
  <2>2. CASE f \notin Found(p, S, "pending")
    <3>1. c.asked[f] = p.asked[f] /\ c.previous[f] = p.previous[f]
      BY <1>4, <1>5, <2>2
    <3>2. /\ p.asked[f] # Undefined => Requested(p, f)
          /\ f \notin p.pending => Remembered(p, f)
      BY DEF VerdictInv, RemoteInv
    <3>3. p.asked[f] # Undefined => Requested(c, f)
      BY <1>7, <3>1, <3>2 DEF Requested
    <3>4. f \notin p.pending => Remembered(c, f)
      BY <3>1, <3>2 DEF Remembered
    <3> QED
      BY <1>2, <2>2, <3>1, <3>3, <3>4
  <2> QED
    BY <2>1, <2>2
<1>10. NeverSkipped(c)
  BY <1>2 DEF VerdictInv, NeverSkipped
<1>11. BoxInv(c)
  <2> SUFFICES ASSUME NEW f \in Fields, f \notin c.pending
               PROVE  c.box[f].error <=>
                        (c.judged[f] # Undefined /\ RefusedBy(p, f, c.judged[f]))
    BY <1>2, <1>8 DEF BoxInv
  <2>1. f \notin p.pending /\ f \notin Found(p, S, "pending")
    BY <1>2
  <2>2. p.box[f].error <=> (p.judged[f] # Undefined /\ RefusedBy(p, f, p.judged[f]))
    BY <2>1 DEF VerdictInv, BoxInv
  <2>3. Remembered(p, f)
    BY <2>1 DEF VerdictInv, RemoteInv
  <2>4. CASE f \notin S
    BY <1>3, <1>6, <2>2, <2>4 DEF Found
  <2>5. CASE f \in S
    <3>1. c.judged[f] = Payload(p, f) /\ Payload(p, f) # Undefined
      BY <1>6, <2>1, <2>5, PayloadOfField
    <3>2. CASE check(p, f).is = "error"
      <4>1. RefusedBy(p, f, Payload(p, f))
        BY <2>3, <3>2, VerdictMeaning
      <4>2. c.box[f].error
        <5>1. c.box[f] = onError(p.box[f], f, c.errors[f])
          BY <1>3, <2>5, <3>2 DEF Found
        <5> QED
          BY <5>1, Boxes
      <4> QED
        BY <3>1, <4>1, <4>2
    <3>3. CASE check(p, f).is = "valid"
      <4>1. ~RefusedBy(p, f, Payload(p, f))
        BY <2>3, <3>3, VerdictMeaning
      <4>2. ~c.box[f].error
        <5>1. c.box[f] = onSuccess(p.box[f], f)
          BY <1>3, <2>5, <3>3 DEF Found
        <5> QED
          BY <5>1, Boxes
      <4> QED
        BY <3>1, <4>1, <4>2
    <3>4. CASE check(p, f).is = "none"
      <4>1. ~RefusedBy(p, f, Payload(p, f))
        BY <2>3, <3>4, VerdictMeaning
      <4>2. c.box[f] = p.box[f]
        BY <1>3, <3>4 DEF Found
      <4>3. "__dummy__" \notin rules(p, f)
        BY <3>4, VerdictMeaning
      <4>4. rules(p, f) = {}
        BY <4>3 DEF rules, VerdictInv, NeverSkipped
      <4>5. ~RefusedBy(p, f, p.judged[f])
        BY <4>4 DEF RefusedBy, HasRemote
      <4> QED
        BY <2>2, <3>1, <4>1, <4>2, <4>5
    <3> QED
      BY <2>1, <2>5, <3>2, <3>3, <3>4, CheckGivesVerdict DEF Found, Verdicts
  <2> QED
    BY <2>4, <2>5
<1> QED
  BY <1>9, <1>10, <1>11 DEF VerdictInv, c

\* The summary, the table of invalid fields and the flag of a waiting submission
\* say nothing of the verdicts.
LEMMA BesideVerdicts ==
  ASSUME NEW p, PageInv(p), VerdictInv(p), NEW S, NEW b
  PROVE  /\ VerdictInv(onErrors(p))
         /\ VerdictInv([p EXCEPT !.invalid = S])
         /\ VerdictInv([p EXCEPT !.formSubmitted = b])
         /\ [p EXCEPT !.formSubmitted = b].settings = p.settings
         /\ [p EXCEPT !.formSubmitted = b].attached = p.attached
<1>1. Shaped(p)
  BY DEF PageInv
<1>2. \A q : /\ q.attached = p.attached /\ q.settings = p.settings
             /\ q.pending = p.pending /\ q.asked = p.asked /\ q.previous = p.previous
             /\ q.box = p.box /\ q.judged = p.judged
             => VerdictInv(q)
  BY VerdictSame
<1> DEFINE q1 == onErrors(p)
           q2 == [p EXCEPT !.invalid = S]
           q3 == [p EXCEPT !.formSubmitted = b]
<1>3. /\ q1.attached = p.attached /\ q1.settings = p.settings
      /\ q1.pending = p.pending /\ q1.asked = p.asked /\ q1.previous = p.previous
      /\ q1.box = p.box /\ q1.judged = p.judged
  BY <1>1 DEF onErrors, Shaped
<1>4. /\ q2.attached = p.attached /\ q2.settings = p.settings
      /\ q2.pending = p.pending /\ q2.asked = p.asked /\ q2.previous = p.previous
      /\ q2.box = p.box /\ q2.judged = p.judged
  BY <1>1 DEF Shaped
<1>5. /\ q3.attached = p.attached /\ q3.settings = p.settings
      /\ q3.pending = p.pending /\ q3.asked = p.asked /\ q3.previous = p.previous
      /\ q3.box = p.box /\ q3.judged = p.judged
  BY <1>1 DEF Shaped
<1> HIDE DEF q1, q2, q3
<1>6. VerdictInv(q1) /\ VerdictInv(q2) /\ VerdictInv(q3)
  BY <1>2, <1>3, <1>4, <1>5
<1> QED
  BY <1>5, <1>6 DEF q1, q2, q3

\* The validator, or the server, refuses none of the values that the form has.
Passes(p) == \A f \in Fields : ~RefusedBy(p, f, Payload(p, f))

\* Validator.form() keeps the verdicts; a form that may be sent then passes.
LEMMA WholeFormVerdicts ==
  ASSUME InputsInv, NEW p, PageInv(p), VerdictInv(p), p.attached
  PROVE  /\ VerdictInv(form(p)) /\ form(p).settings = p.settings
         /\ Submittable(form(p)) => Passes(p)
<1> DEFINE c == checked(p, Ruled(p))
           d == [c EXCEPT !.invalid = DOMAIN c.errors]
<1>1. Ruled(p) \in SUBSET Fields
  BY DEF Ruled
<1>2. PageInv(c) /\ VerdictInv(c)
  BY <1>1, CheckedInv, CheckedVerdicts
<1>3. c.settings = p.settings
  BY CheckedParts DEF PageInv
<1>4. DOMAIN c.errors \subseteq Fields
  BY <1>2 DEF PageInv, OfFields
<1>5. form(p) = onErrors(d)
  BY DEF form
<1> HIDE DEF c
<1>6. PageInv(d) /\ VerdictInv(d) /\ d.settings = c.settings
  BY <1>2, <1>4, InvalidInv, BesideVerdicts
<1> HIDE DEF d
<1>7. VerdictInv(form(p)) /\ form(p).settings = p.settings
  BY <1>3, <1>5, <1>6, OnErrorsInv, BesideVerdicts
<1>8. ASSUME Submittable(form(p)), NEW f \in Fields
      PROVE  ~RefusedBy(p, f, Payload(p, f))
  <2>1. form(p).errors = <<>> /\ form(p).pending = {}
    BY <1>8 DEF Submittable
  <2>2. /\ form(p).pending = p.pending \cup Found(p, Ruled(p), "pending")
        /\ DOMAIN form(p).errors = Found(p, Ruled(p), "error")
    BY WholeFormInv
  <2>3. /\ f \notin p.pending /\ f \notin Found(p, Ruled(p), "pending")
        /\ f \notin Found(p, Ruled(p), "error")
    BY <2>1, <2>2
  <2>4. Remembered(p, f)
    BY <2>3 DEF VerdictInv, RemoteInv
  <2>5. CASE f \in Ruled(p)
    <3>1. check(p, f).is \in {"none", "valid"}
      BY <2>3, <2>5, CheckGivesVerdict DEF Found, Verdicts
    <3> QED
      BY <2>4, <3>1, VerdictMeaning
  <2>6. CASE f \notin Ruled(p)
    BY <2>6 DEF Ruled, RefusedBy, HasRemote
  <2> QED
    BY <2>5, <2>6
<1> QED
  BY <1>7, <1>8 DEF Passes

\* Validator.element().
LEMMA ElementVerdicts ==
  ASSUME InputsInv, NEW p, PageInv(p), VerdictInv(p), p.attached, NEW f \in Fields
  PROVE  VerdictInv(element(p, f))
<1> DEFINE c == checked(p, {f})
           S == c.invalid \cup {f}
<1>1. PageInv(c) /\ VerdictInv(c)
  BY CheckedInv, CheckedVerdicts
<1>2. element(p, f) = [c EXCEPT !.invalid = S]
  BY DEF element
<1> HIDE DEF c, S
<1> QED
  BY <1>1, <1>2, BesideVerdicts

\* parseElement ends with the rule that always holds, and the copy keeps it.
LEMMA ParsedIsNeverSkipped ==
  ASSUME NEW input, NEW inputs
  PROVE  "__dummy__" \in DOMAIN Copied(parseElement(input, inputs)).rules
<1> DEFINE parsed == parseElement(input, inputs)
<1>1. /\ DOMAIN parsed = {"order", "rules", "messages"}
      /\ "__dummy__" \in DOMAIN parsed.rules /\ parsed.rules["__dummy__"] = True
  BY DEF parseElement, setValidationValues, Put
<1> HIDE DEF parsed
<1>2. "__dummy__" \in DOMAIN Copied(parsed).rules
  BY <1>1, UndefinedIsNoBound DEF Copied
<1> QED
  BY <1>2 DEF parsed

\* A validator begins without a verdict.
LEMMA AttachVerdicts ==
  ASSUME NEW p, PageInv(p), VerdictInv(p), NEW parsed,
         \A f \in DOMAIN parsed : "__dummy__" \in DOMAIN Copied(parsed[f]).rules
  PROVE  VerdictInv(attachValidation(p, parsed))
<1> DEFINE settings == [f \in DOMAIN parsed |-> Copied(parsed[f])]
           q == [p EXCEPT !.attached = TRUE, !.settings = settings]
<1>1. CASE p.attached
  BY <1>1 DEF attachValidation
<1>2. CASE ~p.attached
  <2>1. attachValidation(p, parsed) = q
    BY <1>2 DEF attachValidation
  <2>2. /\ q.attached = TRUE /\ q.settings = settings
        /\ q.pending = p.pending /\ q.asked = p.asked /\ q.previous = p.previous
        /\ q.box = p.box /\ q.judged = p.judged
    BY DEF PageInv, Shaped
  <2>3. \A f \in DOMAIN settings : "__dummy__" \in DOMAIN settings[f].rules
    OBVIOUS
  <2> HIDE DEF q, settings
  <2>4. \A f \in Fields : q.asked[f] = Undefined
    BY <1>2, <2>2 DEF PageInv, Counted
  <2>5. RemoteInv(q)
    BY <2>2, <2>4 DEF VerdictInv, RemoteInv, Remembered
  <2>6. NeverSkipped(q)
    BY <2>2, <2>3 DEF NeverSkipped
  <2>7. BoxInv(q)
    BY <1>2, <2>2 DEF VerdictInv, BoxInv
  <2> QED
    BY <2>1, <2>5, <2>6, <2>7 DEF VerdictInv
<1> QED
  BY <1>1, <1>2

\* The server's answer becomes the verdict on the values that it was asked about.
LEMMA AnsweredVerdicts ==
  ASSUME NEW p, PageInv(p), VerdictInv(p), NEW f \in Fields, NEW valid \in BOOLEAN,
         p.asked[f] # Undefined, valid <=> p.asked[f].payload \notin Refused
  PROVE  VerdictInv(answered(p, f, valid)) /\ answered(p, f, valid).settings = p.settings
<1> DEFINE q == answered(p, f, valid)
           m == Message(p, f, "remote")
           payload == p.asked[f].payload
           current == p.asked[f].current
           r == [p.previous[f] EXCEPT !.valid = valid]
<1>1. Shaped(p) /\ Counted(p) /\ Flags(p)
  BY DEF PageInv
<1>2. /\ q.attached = p.attached /\ q.settings = p.settings /\ q.pending = p.pending \ {f}
  BY <1>1 DEF Shaped, answered, stopRequest
<1>3. /\ q.asked[f] = Undefined
      /\ \A g \in Fields \ {f} : q.asked[g] = p.asked[g]
  BY <1>1 DEF Shaped, answered, stopRequest
<1>4. /\ q.box[f] = IF valid THEN onSuccess(p.box[f], f) ELSE onError(p.box[f], f, m)
      /\ \A g \in Fields \ {f} : q.box[g] = p.box[g]
  BY <1>1 DEF Shaped, answered, stopRequest
<1>5. /\ q.previous[f] = IF current THEN r ELSE p.previous[f]
      /\ \A g \in Fields \ {f} : q.previous[g] = p.previous[g]
  BY <1>1 DEF Shaped, answered, stopRequest
<1>6. /\ q.judged[f] = payload
      /\ \A g \in Fields \ {f} : q.judged[g] = p.judged[g]
  BY <1>1 DEF Shaped, answered, stopRequest
<1>7. Requested(p, f) /\ f \in p.pending /\ HasRemote(p, f) /\ p.attached
  BY <1>1 DEF VerdictInv, RemoteInv, Counted, Flags
<1>8. /\ payload # Undefined /\ payload[f] # <<>>
      /\ \A rule \in rules(p, f) : Accepts(rule, Bound(p, f, rule), payload[f], Undefined)
      /\ current => DOMAIN p.previous[f] = {"old", "valid"} /\ p.previous[f].old = payload
      /\ ~current => p.previous[f] = Undefined
  BY <1>7 DEF Requested
<1>9. current => r.old = payload /\ r.valid = valid
  BY <1>8
<1> HIDE DEF q, m, payload, current, r
<1>10. \A g : /\ rules(q, g) = rules(p, g) /\ HasRemote(q, g) = HasRemote(p, g)
              /\ \A rule : Bound(q, g, rule) = Bound(p, g, rule)
  BY <1>2 DEF rules, Bound, HasRemote
<1>11. \A g, w : RefusedBy(q, g, w) <=> RefusedBy(p, g, w)
  BY <1>10 DEF RefusedBy
<1>12. valid <=> payload \notin Refused
  BY DEF payload
<1>13. RemoteInv(q)
  <2> SUFFICES ASSUME NEW g \in Fields
               PROVE  /\ q.asked[g] # Undefined => Requested(q, g)
                      /\ g \notin q.pending => Remembered(q, g)
    BY DEF RemoteInv
  <2>1. CASE g = f
    <3>1. Remembered(q, f)
      BY <1>5, <1>8, <1>9, <1>12 DEF Remembered
    <3> QED
      BY <1>3, <2>1, <3>1
  <2>2. CASE g # f
    <3>1. q.asked[g] = p.asked[g] /\ q.previous[g] = p.previous[g]
      BY <1>3, <1>5, <2>2
    <3>2. /\ p.asked[g] # Undefined => Requested(p, g)
          /\ g \notin p.pending => Remembered(p, g)
      BY DEF VerdictInv, RemoteInv
    <3>3. p.asked[g] # Undefined => Requested(q, g)
      BY <1>10, <3>1, <3>2 DEF Requested
    <3> QED
      BY <1>2, <2>2, <3>1, <3>2, <3>3 DEF Remembered
  <2> QED
    BY <2>1, <2>2
<1>14. BoxInv(q)
  <2> SUFFICES ASSUME NEW g \in Fields, g \notin q.pending
               PROVE  q.box[g].error <=>
                        (q.judged[g] # Undefined /\ RefusedBy(p, g, q.judged[g]))
    BY <1>2, <1>7, <1>11 DEF BoxInv
  <2>1. CASE g = f
    <3>1. q.box[f].error <=> ~valid
      BY <1>4, Boxes
    <3>2. RefusedBy(p, f, payload) <=> payload \in Refused
      BY <1>7, <1>8 DEF RefusedBy
    <3> QED
      BY <1>6, <1>8, <1>12, <2>1, <3>1, <3>2
  <2>2. CASE g # f
    BY <1>2, <1>4, <1>6, <2>2 DEF VerdictInv, BoxInv
  <2> QED
    BY <2>1, <2>2
<1>15. NeverSkipped(q)
  BY <1>2 DEF VerdictInv, NeverSkipped
<1> QED
  BY <1>2, <1>13, <1>14, <1>15 DEF VerdictInv, q

\* What is left of stopRequest.  The form is sent only if it passes.
LEMMA ResumedVerdicts ==
  ASSUME InputsInv, NEW p, PageInv(p), VerdictInv(p), p.attached
  PROVE  /\ VerdictInv(Resumed(p)) /\ Resumed(p).settings = p.settings
         /\ p.formSubmitted /\ ~Resumed(p).formSubmitted => Passes(p)
<1> DEFINE c == form(p)
           b == ~Submittable(c)
           q == [c EXCEPT !.formSubmitted = b]
<1>1. CASE p.pending # {} \/ ~p.formSubmitted
  BY <1>1 DEF Resumed
<1>2. CASE ~(p.pending # {} \/ ~p.formSubmitted)
  <2>1. Resumed(p) = q
    BY <1>2 DEF Resumed
  <2>2. PageInv(c) /\ VerdictInv(c) /\ c.settings = p.settings
    BY WholeFormInv, WholeFormVerdicts
  <2>3. b \/ Passes(p)
    BY WholeFormVerdicts
  <2>4. b \in BOOLEAN
    OBVIOUS
  <2> HIDE DEF c, b
  <2>5. VerdictInv(q) /\ q.settings = c.settings
    BY <2>2, BesideVerdicts
  <2>6. q.formSubmitted = b
    BY <2>2, <2>4, FormSubmittedInv
  <2> HIDE DEF q
  <2> QED
    BY <2>1, <2>2, <2>3, <2>5, <2>6
<1> QED
  BY <1>1, <1>2

\* A refused submission only adds to the summary.
LEMMA RefusingVerdicts ==
  ASSUME NEW p, PageInv(p), VerdictInv(p)
  PROVE  VerdictInv(Refusing(p))
<1> DEFINE d == onErrors(p)
<1>1. PageInv(d) /\ VerdictInv(d)
  BY OnErrorsInv, BesideVerdicts
<1> HIDE DEF d
<1>2. VerdictInv([d EXCEPT !.formSubmitted = FALSE])
  BY <1>1, BesideVerdicts
<1> QED
  BY <1>2 DEF Refusing, d

\* A reset forgets all verdicts, and what is remembered of those on their way.
LEMMA ResetVerdicts ==
  ASSUME NEW p, PageInv(p), VerdictInv(p)
  PROVE  VerdictInv(onReset(p))
<1> DEFINE q == onReset(p)
<1>1. Shaped(p) /\ Counted(p)
  BY DEF PageInv
<1>2. q.attached = p.attached /\ q.settings = p.settings /\ q.pending = p.pending
  BY <1>1 DEF Shaped, onReset, resetForm
<1>3. \A f \in Fields : q.box[f].error = FALSE /\ q.judged[f] = Undefined
  BY <1>1 DEF Shaped, onReset, resetForm
<1>4. \A f \in Fields :
        q.previous[f] = IF f \in Ruled(p) THEN Undefined ELSE p.previous[f]
  BY <1>1 DEF Shaped, onReset, resetForm
<1>5. \A f \in Fields :
        q.asked[f] = IF p.asked[f] = Undefined THEN Undefined
                     ELSE [p.asked[f] EXCEPT !.current = FALSE]
  BY <1>1 DEF Shaped, onReset, resetForm
<1> HIDE DEF q
<1>6. \A f : /\ rules(q, f) = rules(p, f)
             /\ \A rule : Bound(q, f, rule) = Bound(p, f, rule)
  BY <1>2 DEF rules, Bound
<1>7. RemoteInv(q)
  <2> SUFFICES ASSUME NEW f \in Fields
               PROVE  /\ q.asked[f] # Undefined => Requested(q, f)
                      /\ f \notin q.pending => Remembered(q, f)
    BY DEF RemoteInv
  <2>1. ASSUME q.asked[f] # Undefined
        PROVE  Requested(q, f)
    <3>1. p.asked[f] # Undefined /\ q.asked[f] = [p.asked[f] EXCEPT !.current = FALSE]
      BY <1>5, <2>1
    <3>2. f \in p.pending /\ HasRemote(p, f) /\ Requested(p, f)
      BY <1>1, <3>1 DEF Counted, VerdictInv, RemoteInv
    <3>3. /\ DOMAIN q.asked[f] = {"payload", "current"}
          /\ q.asked[f].payload = p.asked[f].payload
          /\ ~q.asked[f].current
      BY <3>1, <3>2 DEF Requested
    <3>4. q.previous[f] = Undefined
      BY <1>4, <3>2 DEF Ruled, HasRemote
    <3> QED
      BY <1>6, <3>2, <3>3, <3>4 DEF Requested
  <2>2. f \notin p.pending => Remembered(q, f)
    BY <1>4 DEF VerdictInv, RemoteInv, Remembered
  <2> QED
    BY <1>2, <2>1, <2>2
<1>8. NeverSkipped(q)
  BY <1>2 DEF VerdictInv, NeverSkipped
<1>9. BoxInv(q)
  BY <1>3 DEF BoxInv
<1> QED
  BY <1>7, <1>8, <1>9 DEF VerdictInv, q

\* A request that fails leaves its field pending.
LEMMA LostVerdicts ==
  ASSUME NEW p, PageInv(p), VerdictInv(p), NEW f \in Fields
  PROVE  VerdictInv([p EXCEPT !.asked[f] = Undefined])
<1> DEFINE q == [p EXCEPT !.asked[f] = Undefined]
<1>1. Shaped(p)
  BY DEF PageInv
<1>2. /\ q.attached = p.attached /\ q.settings = p.settings /\ q.pending = p.pending
      /\ q.previous = p.previous /\ q.box = p.box /\ q.judged = p.judged
  BY <1>1 DEF Shaped
<1>3. q.asked[f] = Undefined /\ \A g \in Fields \ {f} : q.asked[g] = p.asked[g]
  BY <1>1 DEF Shaped
<1> HIDE DEF q
<1>4. \A g : /\ rules(q, g) = rules(p, g) /\ HasRemote(q, g) = HasRemote(p, g)
             /\ \A rule : Bound(q, g, rule) = Bound(p, g, rule)
  BY <1>2 DEF rules, Bound, HasRemote
<1>5. RemoteInv(q)
  <2> SUFFICES ASSUME NEW g \in Fields
               PROVE  /\ q.asked[g] # Undefined => Requested(q, g)
                      /\ g \notin q.pending => Remembered(q, g)
    BY DEF RemoteInv
  <2>1. /\ p.asked[g] # Undefined => Requested(p, g)
        /\ g \notin p.pending => Remembered(p, g)
    BY DEF VerdictInv, RemoteInv
  <2>2. Requested(p, g) /\ q.asked[g] = p.asked[g] => Requested(q, g)
    BY <1>2, <1>4 DEF Requested
  <2> QED
    BY <1>2, <1>3, <2>1, <2>2 DEF Remembered
<1>6. NeverSkipped(q)
  BY <1>2 DEF VerdictInv, NeverSkipped
<1>7. BoxInv(q)
  BY <1>2, <1>4 DEF VerdictInv, BoxInv, RefusedBy
<1> QED
  BY <1>5, <1>6, <1>7 DEF VerdictInv, q

-----------------------------------------------------------------------------
(* The verdicts of a form, step by step.                                   *)

\* The verdicts with the state beside the page.  What is parsed includes the
\* rule that always holds; a form that was sent passes.
FormVerdicts ==
  /\ VerdictInv(page)
  /\ \A f \in DOMAIN options : "__dummy__" \in DOMAIN Copied(options[f]).rules
  /\ sent /\ page.attached => Passes(page)

\* Values and settings are all that passing depends on.
LEMMA PassesSame ==
  ASSUME NEW p, NEW q, q.settings = p.settings, Passes(p)
  PROVE  Passes(q)
<1>1. \A f : /\ rules(q, f) = rules(p, f) /\ HasRemote(q, f) = HasRemote(p, f)
             /\ \A rule : Bound(q, f, rule) = Bound(p, f, rule)
  BY DEF rules, Bound, HasRemote
<1>2. \A f : Payload(q, f) = Payload(p, f)
  BY <1>1 DEF Payload
<1>3. \A f, w : RefusedBy(q, f, w) <=> RefusedBy(p, f, w)
  BY <1>1 DEF RefusedBy
<1> QED
  BY <1>2, <1>3 DEF Passes

\* What is parsed always has the rule that always holds, so a validator that is
\* made of it never skips a field without a verdict.
LEMMA ParseVerdicts ==
  ASSUME FormInv, FormVerdicts,
         \/ \E S \in SUBSET Fields : parse(S)
         \/ \E f \in Fields, skipAttach \in BOOLEAN : parseField(f, skipAttach)
  PROVE  FormVerdicts'
<1>1. \A f \in Fields : Parsed[f][markup[f]] = parseElement(markup[f], Fields)
  BY DEF FormInv, InputsInv, Parsed
<1>2. \A f \in Fields : "__dummy__" \in DOMAIN Copied(Parsed[f][markup[f]]).rules
  BY <1>1, ParsedIsNeverSkipped
<1> DEFINE Parses ==
      /\ ~sent' /\ DOMAIN options' \subseteq Fields
      /\ \A f \in DOMAIN options' : "__dummy__" \in DOMAIN Copied(options'[f]).rules
      /\ page' = page \/ page' = attachValidation(page, options')
<1>3. Parses
  <2>1. ASSUME NEW S \in SUBSET Fields, parse(S)
        PROVE  Parses
    BY <1>2, <2>1 DEF parse, FormInv, InputsInv, FormVerdicts
  <2>2. ASSUME NEW f \in Fields, NEW skipAttach \in BOOLEAN, parseField(f, skipAttach)
        PROVE  Parses
    BY <1>2, <2>2 DEF parseField, FormInv, InputsInv, FormVerdicts, Put
  <2> QED
    BY <2>1, <2>2
<1>4. VerdictInv(page')
  BY <1>3, AttachVerdicts DEF FormInv, FormVerdicts
<1> QED
  BY <1>3, <1>4 DEF FormVerdicts

\* A step that changes no value and no settings does not change what passes.
LEMMA PassesNext ==
  ASSUME value' = value, page'.settings = page.settings, Passes(page)
  PROVE  Passes(page)'
<1>1. \A f : /\ rules(page', f) = rules(page, f) /\ HasRemote(page', f) = HasRemote(page, f)
             /\ \A rule : Bound(page', f, rule) = Bound(page, f, rule)
  BY DEF rules, Bound, HasRemote
<1>2. \A f : Payload(page, f)' = Payload(page, f)
  BY <1>1 DEF Payload
<1>3. \A f, w : RefusedBy(page', f, w) <=> RefusedBy(page, f, w)
  BY <1>1 DEF RefusedBy
<1> QED
  BY <1>2, <1>3 DEF Passes

\* The submit handler sends the form only when it passes.
LEMMA SubmitVerdicts ==
  ASSUME FormInv, FormVerdicts, Submit
  PROVE  FormVerdicts'
<1> DEFINE c == form(page)
           b == page.formSubmitted \/ (c.errors = <<>> /\ c.pending # {})
<1>1. /\ PageInv(page) /\ InputsInv /\ VerdictInv(page)
      /\ \A f \in DOMAIN options : "__dummy__" \in DOMAIN Copied(options[f]).rules
  BY DEF FormInv, FormVerdicts
<1>2. value' = value /\ options' = options
  BY DEF Submit
<1>3. CASE ~page.attached
  <2>1. page' = page
    BY <1>3 DEF Submit
  <2> QED
    BY <1>1, <1>2, <1>3, <2>1 DEF FormVerdicts
<1>4. CASE page.attached
  <2>1. PageInv(c) /\ c.formSubmitted = page.formSubmitted
    BY <1>1, <1>4, WholeFormInv
  <2>2. sent' = Submittable(c) /\ page' = [c EXCEPT !.formSubmitted = b]
    BY <1>4, <2>1 DEF Submit, PageInv, Shaped
  <2>3. /\ VerdictInv(c) /\ c.settings = page.settings
        /\ Submittable(c) => Passes(page)
    BY <1>1, <1>4, WholeFormVerdicts
  <2> HIDE DEF c, b
  <2>4. VerdictInv(page') /\ page'.settings = page.settings
    BY <2>1, <2>2, <2>3, BesideVerdicts
  <2>5. sent' => Passes(page)'
    BY <1>2, <2>2, <2>3, <2>4, PassesNext
  <2> QED
    BY <1>1, <1>2, <2>4, <2>5 DEF FormVerdicts
<1> QED
  BY <1>3, <1>4

\* So does the answer that resumes a submission, and it is shown for what it is.
LEMMA AnswerVerdicts ==
  ASSUME FormInv, FormVerdicts, NEW f \in Fields, Answer(f)
  PROVE  FormVerdicts'
<1>1. /\ PageInv(page) /\ InputsInv /\ VerdictInv(page)
      /\ \A g \in DOMAIN options : "__dummy__" \in DOMAIN Copied(options[g]).rules
  BY DEF FormInv, FormVerdicts
<1>2. value' = value /\ options' = options /\ ~sent /\ page.asked[f] # Undefined
  BY DEF Answer
<1>3. page.attached
  BY <1>1, <1>2 DEF PageInv, Counted, Flags
<1>4. CASE page.asked[f].payload \in Refused
  <2> DEFINE p == answered(page, f, FALSE)
  <2>1. page' = Refusing(p) /\ sent' = sent
    BY <1>4 DEF Answer
  <2>2. PageInv(p) /\ VerdictInv(p)
    BY <1>1, <1>2, <1>4, AnsweredInv, AnsweredVerdicts
  <2> HIDE DEF p
  <2>3. VerdictInv(page')
    BY <2>1, <2>2, RefusingVerdicts
  <2> QED
    BY <1>1, <1>2, <2>1, <2>3 DEF FormVerdicts
<1>5. CASE page.asked[f].payload \notin Refused
  <2> DEFINE p == answered(page, f, TRUE)
  <2>1. page' = Resumed(p) /\ sent' = (p.formSubmitted /\ ~page'.formSubmitted)
    BY <1>5 DEF Answer
  <2>2. PageInv(p) /\ VerdictInv(p) /\ p.attached /\ p.settings = page.settings
    BY <1>1, <1>2, <1>3, <1>5, AnsweredInv, AnsweredVerdicts
  <2> HIDE DEF p
  <2>3. /\ VerdictInv(page') /\ page'.settings = p.settings
        /\ p.formSubmitted /\ ~page'.formSubmitted => Passes(p)
    BY <1>1, <2>1, <2>2, ResumedVerdicts
  <2>4. Passes(p) => Passes(page)
    BY <2>2, PassesSame
  <2>5. sent' => Passes(page)'
    BY <1>2, <2>1, <2>2, <2>3, <2>4, PassesNext
  <2> QED
    BY <1>1, <1>2, <2>3, <2>5 DEF FormVerdicts
<1> QED
  BY <1>4, <1>5

\* Each step shows the verdicts as they are, and sends only what passes.
LEMMA VerdictStep ==
  ASSUME FormInv, FormVerdicts, [Next]_vars
  PROVE  FormVerdicts'
<1>1. /\ PageInv(page) /\ InputsInv /\ VerdictInv(page)
      /\ \A g \in DOMAIN options : "__dummy__" \in DOMAIN Copied(options[g]).rules
  BY DEF FormInv, FormVerdicts
<1>2. ASSUME NEW f \in Fields, Recheck(f) PROVE FormVerdicts'
  <2>1. page' = element(page, f) /\ page.attached /\ ~sent' /\ options' = options
    BY <1>2 DEF Recheck
  <2>2. VerdictInv(page')
    BY <1>1, <2>1, ElementVerdicts
  <2> QED
    BY <1>1, <2>1, <2>2 DEF FormVerdicts
<1>3. ASSUME NEW f \in Fields, AnswerLost(f) PROVE FormVerdicts'
  <2>1. /\ page' = [page EXCEPT !.asked[f] = Undefined]
        /\ ~sent' /\ options' = options
    BY <1>3 DEF AnswerLost
  <2>2. VerdictInv(page')
    BY <1>1, <2>1, LostVerdicts
  <2> QED
    BY <1>1, <2>1, <2>2 DEF FormVerdicts
<1>4. ASSUME Reset PROVE FormVerdicts'
  <2>1. ~sent' /\ options' = options /\ (page' = page \/ page' = onReset(page))
    BY <1>4 DEF Reset
  <2>2. VerdictInv(page')
    BY <1>1, <2>1, ResetVerdicts
  <2> QED
    BY <1>1, <2>1, <2>2 DEF FormVerdicts
<1>5. ASSUME NEW f \in Fields, Rewrite(f) \/ Type(f) PROVE FormVerdicts'
  <2>1. ~sent' /\ options' = options /\ page' = page
    BY <1>5 DEF Rewrite, Type
  <2> QED
    BY <1>1, <2>1 DEF FormVerdicts
<1>6. ASSUME UNCHANGED vars PROVE FormVerdicts'
  <2>1. UNCHANGED <<value, options, page, sent>>
    BY <1>6 DEF vars
  <2>2. Passes(page) => Passes(page)'
    BY <2>1, PassesNext
  <2> QED
    BY <2>1, <2>2 DEF FormVerdicts
<1>7. \/ Submit \/ Reset \/ UNCHANGED vars
      \/ \E f \in Fields : Answer(f)
      \/ \E f \in Fields : Recheck(f)
      \/ \E f \in Fields : AnswerLost(f)
      \/ \E f \in Fields : Rewrite(f) \/ Type(f)
      \/ \E S \in SUBSET Fields : parse(S)
      \/ \E f \in Fields, skipAttach \in BOOLEAN : parseField(f, skipAttach)
  BY Zenon DEF Next
<1> QED
  BY <1>2, <1>3, <1>4, <1>5, <1>6, <1>7, SubmitVerdicts, AnswerVerdicts, ParseVerdicts, Zenon

\* The verdicts are in order in every state of the form.
LEMMA FormVerdictsHold == Spec => []FormVerdicts
<1>1. Init => FormVerdicts
  <2> SUFFICES ASSUME Init PROVE FormVerdicts
    OBVIOUS
  <2>1. page = NoPage /\ DOMAIN options = {} /\ sent = FALSE
    BY DEF Init
  <2>2. /\ NoPage.settings = <<>> /\ DOMAIN NoPage.settings = {} /\ NoPage.pending = {}
        /\ \A f \in Fields :
             /\ NoPage.asked[f] = Undefined /\ NoPage.previous[f] = Undefined
             /\ NoPage.box[f].error = FALSE /\ NoPage.judged[f] = Undefined
    BY DEF NoPage
  <2>3. VerdictInv(NoPage)
    BY <2>2 DEF VerdictInv, RemoteInv, Remembered, NeverSkipped, BoxInv
  <2> QED
    BY <2>1, <2>3 DEF FormVerdicts
<1> QED
  BY <1>1, VerdictStep, FormInvHolds, PTL DEF Spec

\* Whatever has been typed, checked, answered late or never, and reset, the box of
\* a field that no answer is awaited for is in error exactly if the verdict in it
\* was a refusal.
THEOREM BoxesNeverLie == Spec => []BoxesShowVerdicts
<1>1. FormVerdicts => BoxesShowVerdicts
  BY DEF FormVerdicts, VerdictInv, BoxInv, RefusedBy, BoxesShowVerdicts, Refuses
<1> QED
  BY <1>1, FormVerdictsHold, PTL

\* The validator's copy has no rules that were not parsed.
LEMMA CopiedHasNoOtherRules ==
  ASSUME NEW input, NEW inputs
  PROVE  DOMAIN Copied(parseElement(input, inputs)).rules
           \subseteq DOMAIN parseElement(input, inputs).rules
<1> DEFINE parsed == parseElement(input, inputs)
<1>1. DOMAIN parsed = {"order", "rules", "messages"}
  BY DEF parseElement, setValidationValues
<1> HIDE DEF parsed
<1>2. DOMAIN Copied(parsed).rules \subseteq DOMAIN parsed.rules
  BY <1>1 DEF Copied
<1> QED
  BY <1>2 DEF parsed

\* What each input of the form, and each sample, is parsed into accepts exactly
\* what its attributes ask for, whatever has been typed and rewritten.
THEOREM TranslationHolds == Spec => []TranslationIsExact
<1>1. SamplesAreExact
  BY SamplesAssumption, ElementsAreExact DEF SamplesAreExact
<1>2. FormInv => TranslationIsExact
  <2> SUFFICES ASSUME FormInv, NEW f \in Fields, UpToDate(f)
               PROVE  Exact(markup[f], page.settings[f], value)
    BY <1>1 DEF TranslationIsExact
  <2>1. /\ markup[f] \in Markups[f] /\ value[f] \in Typed[f] \cup {Default[f]}
        /\ DOMAIN value = Fields
    BY DEF FormInv, InputsInv
  <2>2. /\ markup[f].name = f /\ Unambiguous(markup[f], Fields)
        /\ WellPosed(markup[f], value[f], Fields) /\ OrderedAlike(markup[f], value[f])
    BY <2>1, FormAssumption
  <2>3. Exact(markup[f], Copied(parseElement(markup[f], Fields)), value)
    BY <2>1, <2>2, ElementsAreExact
  <2>4. page.settings[f] = Copied(parseElement(markup[f], Fields))
    BY <2>1 DEF UpToDate, Parsed
  <2> QED
    BY <2>3, <2>4
<1> QED
  BY <1>2, FormInvHolds, PTL

\* A form is sent from under a validator only when the validator and the server
\* accept every value in it; so it satisfies the attributes that the validator
\* knows.
THEOREM SentFormsAreValid == Spec => []SentIsValid
<1>1. FormInv /\ FormVerdicts /\ TranslationIsExact => SentIsValid
  <2> SUFFICES ASSUME FormInv, FormVerdicts, TranslationIsExact, sent, page.attached,
                      NEW f \in Fields, UpToDate(f)
               PROVE  /\ Satisfies(markup[f], value[f], value)
                      /\ HasRemote(page, f) /\ value[f] # <<>> => Payload(page, f) \notin Refused
    BY DEF SentIsValid
  <2>1. Payload(page, f)[f] = value[f]
    BY PayloadOfField DEF FormInv
  <2>2. ~RefusedBy(page, f, Payload(page, f))
    BY DEF FormVerdicts, Passes
  <2>3. /\ \A rule \in rules(page, f) :
             Accepts(rule, Bound(page, f, rule), value[f], Undefined)
        /\ HasRemote(page, f) /\ value[f] # <<>> => Payload(page, f) \notin Refused
    BY <2>1, <2>2 DEF RefusedBy
  <2> DEFINE parsed == page.settings[f]
  <2>4. markup[f] \in Markups[f] /\ markup[f].name = f
    BY FormAssumption DEF FormInv, InputsInv
  <2>5. parsed = Copied(parseElement(markup[f], Fields)) /\ f \in DOMAIN page.settings
    BY <2>4 DEF UpToDate, Parsed
  <2>6. DOMAIN parsed.rules \subseteq DOMAIN parseElement(markup[f], Fields).rules
    BY <2>5, CopiedHasNoOtherRules, Zenon
  <2>7. "equalTo" \notin DOMAIN parsed.rules
    BY <2>4, <2>6, FormAssumption
  <2>8. \A rule \in DOMAIN parsed.rules : Accepts(rule, parsed.rules[rule], value[f], Undefined)
    BY <2>3, <2>5 DEF rules, Bound
  <2>9. Exact(markup[f], parsed, value)
    BY DEF TranslationIsExact
  <2> HIDE DEF parsed
  <2>10. \A rule \in DOMAIN parsed.rules : \A other :
           Accepts(rule, parsed.rules[rule], value[f], other)
    BY <2>7, <2>8, OtherFields
  <2>11. Satisfies(markup[f], value[f], value)
    BY <2>4, <2>9, <2>10 DEF Exact
  <2> QED
    BY <2>3, <2>11
<1> QED
  BY <1>1, FormInvHolds, FormVerdictsHold, TranslationHolds, PTL

=============================================================================
