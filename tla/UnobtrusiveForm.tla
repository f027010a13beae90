--------------------------- MODULE UnobtrusiveForm ---------------------------
(***************************************************************************)
(* A form under jquery.validate.unobtrusive.js: its inputs are parsed, a   *)
(* validator of jQuery Validate is attached, and the user types, leaves    *)
(* fields, submits and resets while answers of the server to remote rules  *)
(* are on their way.                                                       *)
(*                                                                         *)
(* page is what the library keeps: the state of the validator object and   *)
(* the message boxes and the summary that it writes to.  A handler of the  *)
(* browser runs to its end, so it is one action, and what it does to the   *)
(* page is a function from page to page named after the library's own.     *)
(***************************************************************************)
EXTENDS UnobtrusiveAdapters

CONSTANTS Fields,     \* the names of the form's inputs
          Markups,      \* the elements that each input may be rendered as
          Typed,        \* the values that a user may give each input
          Default,      \* the values that the form was rendered with
          Replace,      \* data-valmsg-replace of each input's message box
          Refused,      \* the payloads that the server answers with false
          MaxTyping,    \* how often the user changes a value
          MaxMarkups    \* how often a script changes the markup

\* The inputs have only rules whose methods are loaded: check() throws at a
\* rule without a method.  What their attributes ask for is well defined.  The
\* blur handler that equalTo binds is left out.
ASSUME FormAssumption ==
  /\ Default \in [Fields -> UNION {Typed[f] : f \in Fields}]
  /\ Replace \in [Fields -> {"true", "false", Undefined}]
  /\ \A f \in Fields : \A element \in Markups[f] :
       /\ element.name = f
       /\ DOMAIN parseElement(element, Fields).rules \subseteq Methods \ {"equalTo"}
       /\ Unambiguous(element, Fields)
       /\ \A string \in Typed[f] \cup {Default[f]} :
            WellPosed(element, string, Fields) /\ OrderedAlike(element, string)

\* undefined is not what a check depends on.
ASSUME UndefinedAssumption ==
  \A S \in SUBSET Fields : Undefined \notin [S -> UNION {Typed[f] : f \in Fields}]

ASSUME BoundsAssumption == MaxTyping \in Nat /\ MaxMarkups \in Nat

VARIABLES
  markup,    \* the element that each input is rendered as
  value,     \* the value of each input
  options,   \* validationInfo(form).options: what was parsed, by field
  page,      \* the validator object and the parts of the page that it changes
  sent,      \* the browser has sent the form and leaves the page
  lost,      \* history: a remote request ended without an answer
  typing,    \* history: how often a value was changed
  rewrites   \* history: how often the markup was changed

vars == <<markup, value, options, page, sent, lost, typing, rewrites>>

Marked(f) == DOMAIN markup[f].data # {}

\* What each input parses to, for each element that it may be rendered as.
Parsed == [f \in Fields |-> [m \in Markups[f] |-> parseElement(m, Fields)]]

-----------------------------------------------------------------------------
(* The validator.  attached says whether there is one yet; errors is the   *)
(* error list of the last check; submitted and invalid are the fields in   *)
(* the tables of these names; previous and asked are, by field, the last   *)
(* remote check and the request on its way; pending has the fields that    *)
(* count in pendingRequest.  judged is a history: the values that the      *)
(* verdict in a field's box is about.                                      *)

NoPage ==
  [attached |-> FALSE, settings |-> <<>>, errors |-> <<>>, submitted |-> {}, invalid |-> {},
   previous |-> [f \in Fields |-> Undefined], asked |-> [f \in Fields |-> Undefined],
   pending |-> {}, formSubmitted |-> FALSE,
   box |-> [f \in Fields |-> [error |-> FALSE, text |-> <<>>]],
   summary |-> [error |-> FALSE, list |-> <<>>],
   judged |-> [f \in Fields |-> Undefined]]

\* Only the first call makes a validator, from the options as they are then.
attachValidation(p, parsedSoFar) ==
  IF p.attached THEN p
  ELSE [p EXCEPT !.attached = TRUE,
                 !.settings = [f \in DOMAIN parsedSoFar |-> Copied(parsedSoFar[f])]]

rules(p, f) == IF f \in DOMAIN p.settings THEN DOMAIN p.settings[f].rules ELSE {}

Ruled(p) == {f \in Fields : rules(p, f) # {}}

Bound(p, f, rule) == p.settings[f].rules[rule]

\* The message of a rule, or the rule's name for its default message.
Message(p, f, rule) ==
  IF rule \in DOMAIN p.settings[f].messages THEN p.settings[f].messages[rule]
                                            ELSE <<rule>>

HasRemote(p, f) == "remote" \in rules(p, f)

\* What a check of the field depends on and the server is sent: its value and
\* those of the fields that its remote rule names.
Payload(p, f) ==
  LET named == IF HasRemote(p, f) THEN Range(Bound(p, f, "remote")) ELSE {}
  IN  [g \in (named \cup {f}) \cap Fields |-> value[g]]

\* The box of a field whose label is placed, and is then found to be a success.
\* Only data-valmsg-replace=true puts the text of the label into the box.
onError(box, f, message) ==
  [error |-> TRUE, text |-> IF Replace[f] = "true" THEN message ELSE box.text]

onSuccess(box, f) ==
  [error |-> FALSE, text |-> IF Replace[f] = "true" THEN <<>> ELSE box.text]

onErrors(p) ==
  IF p.errors = <<>> THEN p ELSE [p EXCEPT !.summary = [error |-> TRUE, list |-> p.errors]]

\* The rules that the value of a field breaks, remote aside.
failing(p, f) ==
  {rule \in rules(p, f) : ~Accepts(rule, Bound(p, f, rule), value[f], Undefined)}

\* The one of them that is checked first: required, wherever it was set.
First(p, f, broken) ==
  LET order == p.settings[f].order
  IN  IF "required" \in broken THEN "required"
      ELSE order[Min({i \in DOMAIN order : order[i] \in broken})]

\* One of: a rule fails; the server is to be asked, last of all; the field is
\* valid; or the one rule that it has does not apply to an empty value.
check(p, f) ==
  LET asks == HasRemote(p, f) /\ value[f] # <<>>
      previous == p.previous[f]
      known == previous # Undefined /\ previous.old = Payload(p, f)
      skipped == \/ rules(p, f) = {}
                 \/ /\ Cardinality(rules(p, f)) = 1 /\ value[f] = <<>>
                    /\ rules(p, f) \cap {"__dummy__", "regex", "nonalphamin"} = {}
      Is(verdict, rule) == [is |-> verdict, rule |-> rule]
  IN IF failing(p, f) # {} THEN Is("error", First(p, f, failing(p, f)))
     ELSE IF asks /\ ~known THEN Is("pending", "remote")
     ELSE IF asks /\ ~previous.valid THEN Is("error", "remote")
     ELSE Is(IF skipped THEN "none" ELSE "valid", Undefined)

\* Fields S are checked and the verdicts shown.  A request that is sent
\* aborts the one of the same field that was on its way.
checked(p, S) ==
  LET verdict == [f \in S |-> check(p, f)]
      With(is) == {f \in S : verdict[f].is = is}
      text == [f \in With("error") |-> Message(p, f, verdict[f].rule)]
  IN [p EXCEPT
       !.errors = text,
       !.submitted = @ \cup With("error"),
       !.pending = @ \cup With("pending"),
       !.previous = [f \in Fields |-> IF f \notin With("pending") THEN @[f]
                      ELSE [old |-> Payload(p, f),
                            valid |-> @[f] = Undefined \/ @[f].valid]],
       !.asked = [f \in Fields |-> IF f \notin With("pending") THEN @[f]
                   ELSE [payload |-> Payload(p, f), current |-> TRUE]],
       !.box = [f \in Fields |->
                  IF f \in With("error") THEN onError(@[f], f, text[f])
                  ELSE IF f \in With("valid") THEN onSuccess(@[f], f) ELSE @[f]],
       !.judged = [f \in Fields |-> IF f \in S \ With("pending") THEN Payload(p, f) ELSE @[f]]]

\* Validator.form(): every field that has rules.
form(p) ==
  LET c == checked(p, Ruled(p)) IN onErrors([c EXCEPT !.invalid = DOMAIN c.errors])

\* Validator.element(): one field.
element(p, f) == [checked(p, {f}) EXCEPT !.invalid = @ \cup {f}]

\* Mutant of Submittable: a request on its way does not count.
Errorless(p) == p.errors = <<>>

\* The form may be sent: its check found no error and no request is pending.
Submittable(p) == p.errors = <<>> /\ p.pending = {}

\* Mutants of stopRequest: the request stays pending, or may be answered again.
neverStopped(p, f) == [p EXCEPT !.asked[f] = Undefined]
stoppedOnly(p, f) == [p EXCEPT !.pending = @ \ {f}]

\* The request of field f has ended.
stopRequest(p, f) == [p EXCEPT !.asked[f] = Undefined, !.pending = @ \ {f}]

\* The rest of stopRequest after the answer true: a submission that waited for
\* the last request starts over, and keeps waiting if there are errors now.
Resumed(p) ==
  IF p.pending # {} \/ ~p.formSubmitted THEN p
  ELSE LET c == form(p) IN [c EXCEPT !.formSubmitted = ~Submittable(c)]

\* Mutant of Refusing: the submission ends without a word.
Dropping(p) == IF p.pending # {} THEN p ELSE [p EXCEPT !.formSubmitted = FALSE]

\* The same after the answer false.
Refusing(p) ==
  IF p.pending # {} \/ ~p.formSubmitted THEN p
  ELSE [onErrors(p) EXCEPT !.formSubmitted = FALSE]

\* The answer to the request of field f.  A reset since the request was sent
\* has dropped the record of the remote check that the answer belongs to.
answered(p, f, valid) ==
  LET request == p.asked[f] IN
  [stopRequest(p, f) EXCEPT
     !.invalid = @ \cup {f},
     !.errors = IF valid THEN <<>> ELSE Put(@, f, Message(p, f, "remote")),
     !.box[f] = IF valid THEN onSuccess(@, f) ELSE onError(@, f, Message(p, f, "remote")),
     !.previous[f] = IF request.current THEN [@ EXCEPT !.valid = valid] ELSE @,
     !.judged[f] = request.payload]

\* Mutant of resetForm: the errors of the last check stay in the list.
resetFields(p) == [p EXCEPT !.submitted = {}, !.invalid = {}]

\* A request on its way, and a submission that waits for it, stay.
resetForm(p) ==
  [p EXCEPT !.errors = <<>>, !.submitted = {}, !.invalid = {},
            !.previous = [f \in Fields |-> IF f \in Ruled(p) THEN Undefined ELSE @[f]],
            !.asked = [f \in Fields |-> IF @[f] = Undefined THEN Undefined
                                        ELSE [@[f] EXCEPT !.current = FALSE]]]

onReset(p) ==
  [resetForm(p) EXCEPT
     !.summary.error = FALSE,
     !.box = [f \in Fields |-> [@[f] EXCEPT !.error = FALSE]],
     !.judged = [f \in Fields |-> Undefined]]

-----------------------------------------------------------------------------
(* The events of the page.                                                 *)

Init ==
  /\ markup \in [Fields -> UNION {Markups[f] : f \in Fields}]
  /\ \A f \in Fields : markup[f] \in Markups[f]
  /\ value = Default
  /\ options = <<>>
  /\ page = NoPage
  /\ sent = FALSE /\ lost = FALSE
  /\ typing = 0 /\ rewrites = 0

\* parse(selector) for a part of the page around the inputs S; the library
\* itself calls it for the whole document when that is ready.
parse(S) ==
  /\ ~sent
  /\ options' = [f \in DOMAIN options \cup {g \in S : Marked(g)} |->
                   IF f \in S /\ Marked(f) THEN Parsed[f][markup[f]] ELSE options[f]]
  /\ page' = IF \E f \in Fields : Marked(f) THEN attachValidation(page, options') ELSE page
  /\ UNCHANGED <<markup, value, sent, lost, typing, rewrites>>

\* parseElement(element, skipAttach), with or without attaching.
parseField(f, skipAttach) ==
  /\ ~sent
  /\ options' = Put(options, f, Parsed[f][markup[f]])
  /\ page' = IF skipAttach THEN page ELSE attachValidation(page, options')
  /\ UNCHANGED <<markup, value, sent, lost, typing, rewrites>>

\* A script of the page gives an input other data-val-* attributes.
Rewrite(f) ==
  /\ ~sent /\ rewrites < MaxMarkups
  /\ \E m \in Markups[f] \ {markup[f]} : markup' = [markup EXCEPT ![f] = m]
  /\ rewrites' = rewrites + 1
  /\ UNCHANGED <<value, options, page, sent, lost, typing>>

Type(f) ==
  /\ ~sent /\ typing < MaxTyping
  /\ \E v \in Typed[f] \ {value[f]} : value' = [value EXCEPT ![f] = v]
  /\ typing' = typing + 1
  /\ UNCHANGED <<markup, options, page, sent, lost, rewrites>>

\* onfocusout, onkeyup and onclick: the user leaves a field, or presses a key
\* or the mouse button in it.
Recheck(f) ==
  /\ ~sent /\ page.attached
  /\ \/ f \in page.submitted \cup page.invalid
     \/ ~markup[f].checkbox /\ value[f] # <<>>
  /\ page' = element(page, f)
  /\ UNCHANGED <<markup, value, options, sent, lost, typing, rewrites>>

\* The submit event of the form.
Submit ==
  /\ ~sent
  /\ UNCHANGED <<markup, value, options, lost, typing, rewrites>>
  /\ IF ~page.attached
       THEN sent' = TRUE /\ UNCHANGED page
       ELSE LET c == form(page)
            IN  /\ sent' = Submittable(c)
                /\ page' = [c EXCEPT !.formSubmitted =
                              @ \/ (c.errors = <<>> /\ c.pending # {})]

\* The success callback of a remote request.
Answer(f) ==
  /\ ~sent /\ page.asked[f] # Undefined
  /\ IF page.asked[f].payload \in Refused
       THEN page' = Refusing(answered(page, f, FALSE)) /\ UNCHANGED sent
       ELSE LET p == answered(page, f, TRUE) IN
            /\ page' = Resumed(p)
            /\ sent' = (p.formSubmitted /\ ~page'.formSubmitted)
  /\ UNCHANGED <<markup, value, options, lost, typing, rewrites>>

\* A remote request fails.  Nobody handles that, and the field stays pending.
AnswerLost(f) ==
  /\ ~sent /\ page.asked[f] # Undefined
  /\ page' = [page EXCEPT !.asked[f] = Undefined]
  /\ lost' = TRUE
  /\ UNCHANGED <<markup, value, options, sent, typing, rewrites>>

Reset ==
  /\ ~sent
  /\ value' = Default
  /\ page' = IF ~page.attached THEN page ELSE onReset(page)
  /\ UNCHANGED <<markup, options, sent, lost, typing, rewrites>>

Next ==
  \/ \E S \in SUBSET Fields : parse(S)
  \/ \E f \in Fields :
       \/ \E skipAttach \in BOOLEAN : parseField(f, skipAttach)
       \/ Rewrite(f) \/ Type(f) \/ Recheck(f) \/ Answer(f) \/ AnswerLost(f)
  \/ Submit
  \/ Reset

Spec == Init /\ [][Next]_vars

\* Every request ends, one way or the other.  The user need not do anything.
FairSpec == Spec /\ \A f \in Fields : WF_vars(AnswerLost(f) \/ Answer(f))

-----------------------------------------------------------------------------
(* Properties.                                                             *)

TypeOK ==
  /\ \A f \in Fields : markup[f] \in Markups[f] /\ value[f] \in Typed[f] \cup {Default[f]}
  /\ DOMAIN options \subseteq Fields
  /\ DOMAIN page.settings \subseteq Fields
  /\ DOMAIN page.errors \subseteq Fields
  /\ page.submitted \subseteq Fields /\ page.invalid \subseteq Fields
  /\ {f \in Fields : page.asked[f] # Undefined} \subseteq page.pending
  /\ page.pending \subseteq {f \in Fields : HasRemote(page, f)}
  /\ \A f \in Fields : page.box[f].error \in BOOLEAN /\ page.summary.error \in BOOLEAN
  /\ {page.formSubmitted, sent, lost} \subseteq BOOLEAN
  /\ typing \in 0..MaxTyping /\ rewrites \in 0..MaxMarkups

\* What the validator refuses of field f, given the values that it looks at.
Refuses(f, payload) ==
  \/ \E rule \in rules(page, f) :
       ~Accepts(rule, Bound(page, f, rule), payload[f], Undefined)
  \/ HasRemote(page, f) /\ payload[f] # <<>> /\ payload \in Refused

\* The attributes that the validator knows of field f are those it has now.
UpToDate(f) ==
  f \in DOMAIN page.settings /\ page.settings[f] = Copied(Parsed[f][markup[f]])

\* The rules that the adapters make of attributes accept exactly the values
\* that satisfy these attributes: for any combination of attributes and any
\* place of the name in the model, and for the rules that the validator works
\* with and the values that the form has, after any history of both.
TranslationIsExact ==
  /\ SamplesAreExact
  /\ \A f \in Fields : UpToDate(f) => Exact(markup[f], page.settings[f], value)

\* A form that is sent from under a validator satisfies the attributes of all
\* its inputs that were parsed before the validator was made and have not
\* changed since, and the server has refused none of them; answers may have
\* come late, or for values and submissions that were overtaken.
SentIsValid ==
  sent /\ page.attached =>
    \A f \in Fields : UpToDate(f) =>
      /\ Satisfies(markup[f], value[f], value)
      /\ HasRemote(page, f) /\ value[f] # <<>> => Payload(page, f) \notin Refused

\* The box of a field that no answer is awaited for is in error exactly when
\* the verdict it shows was a refusal, and never when there is no verdict,
\* in particular after a reset.
BoxesShowVerdicts ==
  page.attached =>
    \A f \in Fields \ page.pending :
      page.box[f].error <=> (page.judged[f] # Undefined /\ Refuses(f, page.judged[f]))

\* Every error in the validator's list can be seen at its field, with its own
\* text where the box takes the text.  The list is what showErrors shows
\* again when an answer adds to it.
ErrorsAreVisible ==
  \A f \in DOMAIN page.errors :
    /\ page.box[f].error
    /\ Replace[f] = "true" => page.box[f].text = page.errors[f]

Waiting == page.formSubmitted /\ page.pending # {}

Explained == page.errors # <<>> /\ page.summary = [error |-> TRUE, list |-> page.errors]

\* A submission that is not sent either waits for the server or is explained
\* by a summary of all the errors, and one that waited ends in the same way.
RefusalIsExplained ==
  [][Submit \/ (Waiting /\ ~Waiting') => sent' \/ Waiting' \/ Explained']_vars

\* A submission that waits for answers of the server does not wait forever,
\* unless a request failed.
SubmitIsAnswered == Waiting ~> (~Waiting \/ lost)

=============================================================================
