-------------------------- MODULE MCUnobtrusiveForm --------------------------
(***************************************************************************)
(* Values for model checking UnobtrusiveForm: a form with an input whose   *)
(* value must have a length, and perhaps be there, and an input that the   *)
(* server is asked about, together with the first.                         *)
(*                                                                         *)
(* And values for TranslationIsExact: an input of a form of three with     *)
(* every combination of up to two attributes, out of each adapter's with   *)
(* its parameters there and not there.                                     *)
(***************************************************************************)
EXTENDS UnobtrusiveForm

Attribute(message, params) == [message |-> message, params |-> params]

Input(name, data) == [name |-> name, checkbox |-> FALSE, data |-> data]

a == <<"a">>
b == <<"b">>

Length == "length" :> Attribute(<<"length">>, "min" :> <<2>>)
Required == "required" :> Attribute(<<>>, <<>>)
Remote == "remote" :> Attribute(<<"taken">>, "url" :> <<"/check">> @@ "additionalfields" :> <<a, b>>)

MCFields == {a, b}
MCMarkups == a :> {Input(a, Length), Input(a, Length @@ Required)} @@ b :> {Input(b, Remote)}
MCTyped == a :> {<<>>, <<"1">>, <<"1", "1">>} @@ b :> {<<>>, <<"1">>, <<"3">>}
MCDefault == a :> <<"1", "1">> @@ b :> <<>>
MCReplace == a :> "true" @@ b :> "false"

\* Of the values of b the server refuses "1".
MCRefused == {a :> v @@ b :> <<"1">> : v \in MCTyped[a]}

-----------------------------------------------------------------------------

\* The input "m.p", its sibling "m.q" and a field "q" outside of the model m.
sample == <<"m", "p">>
sibling == <<"m", "q">>
outsider == <<"q">>

Values == {<<>>, <<"1">>, <<"3">>, <<"+", "1">>, <<"1", "1">>}

MCForms ==
  {sample :> v @@ sibling :> w @@ outsider :> <<"3">> : v \in Values, w \in {<<>>, <<"1">>}}

MinMax(min, max) ==
  {<<>>, "min" :> min, "max" :> max, "min" :> min @@ "max" :> max, "min" :> <<>> @@ "max" :> max}

\* The parameters that an adapter's attribute may come with.
Params ==
  "regex" :> {"pattern" :> <<"1">>}
  @@ "digits" :> {<<>>}
  @@ "number" :> {<<>>}
  @@ "length" :> MinMax(<<1>>, <<1>>)
  @@ "range" :> MinMax(<<2>>, <<3>>)
  @@ "minlength" :> {<<>>, "min" :> <<2>>}
  @@ "maxlength" :> {<<>>, "max" :> <<1>>}
  @@ "equalto" :> {"other" :> <<"*", "q">>, "other" :> <<"q">>, "other" :> <<"r">>}
  @@ "required" :> {<<>>}
  @@ "remote" :> {"url" :> <<"/check">>}
  @@ "password" :> {"min" :> <<2>> @@ "nonalphamin" :> <<1>>, "nonalphamin" :> <<0>>,
                    "regex" :> <<"1">>}

Attributes == UNION {{<<name, params>> : params \in Params[name]} : name \in DOMAIN Params}

MCElements ==
  {[name |-> sample, checkbox |-> checkbox,
    data |-> x[1] :> Attribute(<<>>, x[2]) @@ y[1] :> Attribute(<<>>, y[2])]
     : x \in Attributes, y \in Attributes, checkbox \in BOOLEAN}

MCNumberOf == <<"1">> :> 1 @@ <<"3">> :> 3 @@ <<"+", "1">> :> 1 @@ <<"1", "1">> :> 11

\* Character by character "2" comes after the values "+1", "1" and "11", and "3" is
\* the last.
MCNotBefore == <<2>> :> {<<"3">>}
MCNotAfter == <<3>> :> Values

MCSymbols == {"+"}

\* The pattern "1" matches a character 1, wherever it is.
MCFirstMatch ==
  [pattern \in {<<"1">>}, v \in Values |->
     IF \A i \in DOMAIN v : v[i] # "1" THEN Undefined
     ELSE [index |-> IF v[1] = "1" THEN 0 ELSE 1, length |-> 1]]

MCWellFormed ==
  "digits" :> Values \ {<<>>, <<"+", "1">>} @@ "number" :> Values \ {<<>>}

=============================================================================
