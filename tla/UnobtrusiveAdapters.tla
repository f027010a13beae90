------------------------- MODULE UnobtrusiveAdapters -------------------------
(***************************************************************************)
(* jquery.validate.unobtrusive.js: how the data-val-* attributes of an     *)
(* input become rules of jQuery Validate.  Each adapter looks for one      *)
(* attribute, reads its parameters and sets rules; the adapters are tried  *)
(* in the order in which they were registered, and a later one overwrites  *)
(* the rule of an earlier one.                                             *)
(*                                                                         *)
(* A string of the program is a sequence here: the string of an input is    *)
(* the sequence of its characters, a number in an attribute is <<n>>, a    *)
(* field name is the sequence of its parts, and <<>> is the empty string.  *)
(***************************************************************************)
EXTENDS Integers, FiniteSets, SequencesExt

CONSTANTS Undefined,     \* JavaScript's undefined
          Symbols,       \* the characters that \W matches
          NumberOf,      \* the numbers that values of inputs denote
          NotBefore,     \* by bound, the values not before it and not after it as
          NotAfter,      \*   JavaScript compares two strings
          FirstMatch,    \* what RegExp.exec finds: by pattern and string
          WellFormed,    \* the values that the method of a format rule accepts
          Elements,      \* elements and filled-in forms (values by name) to
          Forms          \*   try the translation of attributes on

True == <<TRUE>>

\* undefined is neither the rule value true nor a list of numbers.
ASSUME UndefinedIsNoBound == Undefined # True /\ Undefined \notin Seq(Int)

Truthy(string) == string # Undefined /\ string # <<>>

Lookup(f, x) == IF x \in DOMAIN f THEN f[x] ELSE Undefined

\* The object f after the assignment f[x] = y.
Put(f, x, y) == [z \in DOMAIN f \cup {x} |-> IF z = x THEN y ELSE f[z]]

-----------------------------------------------------------------------------
(* Names.  "a.b.c" is <<"a", "b", "c">>, and "*.c" is <<"*", "c">>.        *)

getModelPrefix(name) == SubSeq(name, 1, Len(name) - 1)

appendModelPrefix(name, prefix) ==
  IF name # <<>> /\ Head(name) = "*" THEN prefix \o Tail(name) ELSE name

\* The other inputs that a name in an attribute stands for: an escaped
\* attribute selector finds exactly the input of that name.
InputNamed(inputs, name) == IF name \in inputs THEN name ELSE Undefined

-----------------------------------------------------------------------------
(* The adapters.                                                           *)

add(name, params) ==
  [name |-> name, params |-> params, kind |-> name, rules |-> <<>>]

addBool(name) ==
  [name |-> name, params |-> {}, kind |-> "bool", rules |-> <<name>>]

\* A rule name that a registration leaves out is undefined.
addMinMax(name, minRule, maxRule, minMaxRule) ==
  [name |-> name, params |-> {"min", "max"}, kind |-> "minmax",
   rules |-> <<minRule, maxRule, minMaxRule>>]

addSingleVal(name, attribute) ==
  [name |-> name, params |-> {attribute}, kind |-> "single", rules |-> <<name>>]

\* The registrations, with additional-methods.js not loaded (no `extension'
\* method: the extension adapter sets the rule `accept').
adapters ==
  << [addSingleVal("extension", "extension") EXCEPT !.rules = <<"accept">>],
     addSingleVal("regex", "pattern"),
     addBool("creditcard"), addBool("date"), addBool("digits"),
     addBool("email"), addBool("number"), addBool("url"),
     addMinMax("length", "minlength", "maxlength", "rangelength"),
     addMinMax("range", "min", "max", "range"),
     addMinMax("minlength", "minlength", "undefined", "undefined"),
     addMinMax("maxlength", "minlength", "maxlength", "undefined"),
     add("equalto", {"other"}),
     add("required", {}),
     add("remote", {"url", "type", "additionalfields"}),
     add("password", {"min", "nonalphamin", "regex"}),
     add("fileextensions", {"extensions"}) >>

BoolRule(a) == << <<a.rules[1], True>> >>

SingleValRule(a, param) == << <<a.rules[1], param[CHOOSE p \in a.params : TRUE]>> >>

\* Mutant of MinMaxRule: the maximum is forgotten when there is a minimum.
MinOrMaxRule(a, param) ==
  LET min == param["min"] max == param["max"] IN
  CASE Truthy(min) -> << <<a.rules[1], min>> >>
    [] ~Truthy(min) /\ Truthy(max) -> << <<a.rules[2], max>> >>
    [] OTHER -> <<>>

MinMaxRule(a, param) ==
  LET min == param["min"] max == param["max"] IN
  CASE Truthy(min) /\ Truthy(max)  -> << <<a.rules[3], min \o max>> >>
    [] Truthy(min) /\ ~Truthy(max) -> << <<a.rules[1], min>> >>
    [] ~Truthy(min) /\ Truthy(max) -> << <<a.rules[2], max>> >>
    [] OTHER -> <<>>

\* The rule's value is the input to compare with, if the form has it.
EqualToRule(element, param, inputs) ==
  LET other == appendModelPrefix(param["other"], getModelPrefix(element.name))
  IN  << <<"equalTo", InputNamed(inputs, other)>> >>

\* A required checkbox need not be checked.
RequiredRule(element) == IF element.checkbox THEN <<>> ELSE << <<"required", True>> >>

\* The rule's value names the fields whose values go to the server: those
\* that the attribute lists, or else the field itself.
RemoteRule(element, param) ==
  LET names == IF Truthy(param["additionalfields"])
                 THEN param["additionalfields"] ELSE <<element.name>>
      prefix == getModelPrefix(element.name)
  IN  << <<"remote", [i \in DOMAIN names |-> appendModelPrefix(names[i], prefix)]>> >>

PasswordRules(param) ==
  LET Given(rule, bound) == IF Truthy(bound) THEN << <<rule, bound>> >> ELSE <<>>
  IN  Given("minlength", param["min"]) \o Given("nonalphamin", param["nonalphamin"])
        \o Given("regex", param["regex"])

FileExtensionsRule(param) == << <<"extension", param["extensions"]>> >>

\* The rules that adapter a sets for an element, in order, with their values.
AdaptedRules(a, element, param, inputs) ==
  CASE a.kind = "bool"           -> BoolRule(a)
    [] a.kind = "minmax"         -> MinMaxRule(a, param)
    [] a.kind = "single"         -> SingleValRule(a, param)
    [] a.kind = "equalto"        -> EqualToRule(element, param, inputs)
    [] a.kind = "required"       -> RequiredRule(element)
    [] a.kind = "remote"         -> RemoteRule(element, param)
    [] a.kind = "password"       -> PasswordRules(param)
    [] a.kind = "fileextensions" -> FileExtensionsRule(param)

-----------------------------------------------------------------------------
(* parseElement.  element.data maps the adapters whose data-val-* attribute *)
(* the element has to the message and the parameters.  The rules of a field *)
(* keep the order in which they were first set.                             *)

NoRules == [order |-> <<>>, rules |-> <<>>, messages |-> <<>>]

\* An empty message is legal: the rule is set and keeps its other message.
setValidationValues(parsed, rule, bound, message) ==
  [order    |-> IF rule \in DOMAIN parsed.rules THEN parsed.order
                                                ELSE Append(parsed.order, rule),
   rules    |-> Put(parsed.rules, rule, bound),
   messages |-> IF Truthy(message) THEN Put(parsed.messages, rule, message)
                                   ELSE parsed.messages]

\* The parameters of attribute a as the element has them.
Param(a, element) == [p \in a.params |-> Lookup(element.data[a.name].params, p)]

\* One turn of the loop over the adapters: the rules of adapter a, one by one.
adapt(parsed, a, element, inputs) ==
  LET settings == AdaptedRules(a, element, Param(a, element), inputs)
      set[n \in 0..Len(settings)] ==
        IF n = 0 THEN parsed
        ELSE setValidationValues(set[n - 1], settings[n][1], settings[n][2],
                                 element.data[a.name].message)
  IN  set[Len(settings)]

\* What the loop makes of an element; parseElement without its last statement.
Adapted(element, inputs) ==
  LET turn[n \in 0..Len(adapters)] ==
        IF n = 0 THEN NoRules
        ELSE IF adapters[n].name \in DOMAIN element.data
               THEN adapt(turn[n - 1], adapters[n], element, inputs)
               ELSE turn[n - 1]
  IN  turn[Len(adapters)]

\* The rules and messages of an element, and the rule that always holds.
parseElement(element, inputs) ==
  setValidationValues(Adapted(element, inputs), "__dummy__", True, Undefined)

\* The deep copy of parsed rules that the validator keeps: jQuery.extend
\* skips what is undefined.
Copied(parsed) ==
  LET kept == {rule \in DOMAIN parsed.rules : parsed.rules[rule] # Undefined}
  IN  [parsed EXCEPT !.rules = [rule \in kept |-> parsed.rules[rule]]]

-----------------------------------------------------------------------------
(* The methods that jQuery Validate calls for the rules.                   *)

\* What is in the scripts of _ValidationScriptsPartial.cshtml: there are no
\* methods for the rules that creditcard, extension and fileextensions set.
Formats == {"date", "digits", "email", "number", "url"}

Methods ==
  Formats \cup {"__dummy__", "regex", "nonalphamin", "required", "minlength",
    "maxlength", "rangelength", "min", "max", "range", "equalTo", "remote"}

\* The whole value has to match, from its first character to its last.
regexMatches(string, pattern) ==
  LET match == FirstMatch[pattern, string] IN
  /\ match # Undefined
  /\ match.index = 0
  /\ match.length = Len(string)

\* At least one symbol, whatever the least number; an empty value has none.
nonalphamin(string, least) ==
  LET symbols == {i \in DOMAIN string : string[i] \in Symbols}
  IN  symbols # {} /\ Cardinality(symbols) >= least

\* Whether a value that is not empty meets a rule that an empty one may skip.
\* The validator makes numbers of the bounds of the others (normalizeRules), but
\* leaves those of min and max as they are, and compares strings.
Meets(rule, bound, string) ==
  CASE rule = "minlength"   -> Len(string) >= bound[1]
    [] rule = "maxlength"   -> Len(string) <= bound[1]
    [] rule = "rangelength" -> Len(string) \in bound[1]..bound[2]
    [] rule = "min"         -> string \in NotBefore[bound]
    [] rule = "max"         -> string \in NotAfter[bound]
    [] rule = "range"       -> NumberOf[string] \in bound[1]..bound[2]
    [] rule = "regex"       -> regexMatches(string, bound[1])
    [] rule \in Formats     -> string \in WellFormed[rule]

\* What the method of a rule, other than remote, says of a value; other is
\* the value of the field that equalTo names.
Accepts(rule, bound, string, other) ==
  CASE rule \in {"__dummy__", "remote"} -> TRUE
    [] rule = "required"    -> string # <<>>
    [] rule = "equalTo"     -> string = other
    [] rule = "nonalphamin" -> nonalphamin(string, bound[1])
    [] OTHER                -> string = <<>> \/ Meets(rule, bound, string)

-----------------------------------------------------------------------------
(* What the attributes mean, adapter by adapter and without rules.         *)

Within(n, param) ==
  /\ Truthy(param["min"]) => n >= param["min"][1]
  /\ Truthy(param["max"]) => n <= param["max"][1]

\* Whether a value that is not empty meets attribute a of an element.
AttributeMet(a, param, string) ==
  CASE a.name \in {"length", "minlength", "maxlength"} -> Within(Len(string), param)
    [] a.name = "range"    -> Within(NumberOf[string], param)
    [] a.name = "regex"    -> regexMatches(string, param["pattern"][1])
    [] a.name \in Formats  -> string \in WellFormed[a.name]
    [] a.name = "password" ->
         /\ Truthy(param["min"]) => Len(string) >= param["min"][1]
         /\ Truthy(param["regex"]) => regexMatches(string, param["regex"][1])
    [] OTHER -> TRUE

\* What attribute a of the element asks of its value, as far as a browser can
\* tell; an empty one need only be there if it is required, equal to the other
\* field's, and have its symbols.  values are those of the form's inputs.
Asked(a, element, string, values) ==
  LET param == Param(a, element)
      other == appendModelPrefix(param["other"], getModelPrefix(element.name))
  IN /\ string # <<>> => AttributeMet(a, param, string)
     /\ a.name = "required" => element.checkbox \/ string # <<>>
     /\ (a.name = "equalto" /\ other \in DOMAIN values) => string = values[other]
     /\ (a.name = "password" /\ Truthy(param["nonalphamin"])) =>
          nonalphamin(string, param["nonalphamin"][1])

\* The value satisfies all the attributes of the element.
Satisfies(element, string, values) ==
  \A i \in DOMAIN adapters :
    adapters[i].name \in DOMAIN element.data => Asked(adapters[i], element, string, values)

\* The parameters of attribute a are as the HTML helpers write them: where there
\* are two bounds they are numbers, a pattern is there, and the rules that come
\* of them have methods.
WellGiven(a, element, inputs) ==
  LET param == Param(a, element)
      IsNumber(string) == string[1] \in Int /\ string = <<string[1]>>
  IN
  /\ (a.kind = "minmax" /\ Truthy(param["min"]) /\ Truthy(param["max"])) =>
       IsNumber(param["min"]) /\ IsNumber(param["max"])
  /\ a.name = "regex" => param["pattern"] # Undefined
  /\ \A i \in DOMAIN AdaptedRules(a, element, param, inputs) :
       AdaptedRules(a, element, param, inputs)[i][1] \in Methods

\* So are all attributes of the element, and its value is a string, and denotes a
\* number where there is a range.
WellPosed(element, string, inputs) ==
  /\ element.checkbox \in BOOLEAN /\ Len(string) \in Nat /\ Undefined \notin inputs
  /\ \A i \in DOMAIN adapters : adapters[i].name \in DOMAIN element.data =>
       /\ WellGiven(adapters[i], element, inputs)
       /\ (adapters[i].name = "range" /\ string # <<>>) => NumberOf[string] \in Int

\* No two attributes of the element set the same rule; where they do, the
\* adapter that was registered last decides.
Unambiguous(element, inputs) ==
  \A i, j \in DOMAIN adapters :
    LET Names(a) == {s[1] : s \in Range(AdaptedRules(a, element, Param(a, element), inputs))}
    IN (i # j /\ {adapters[i].name, adapters[j].name} \subseteq DOMAIN element.data)
         => Names(adapters[i]) \cap Names(adapters[j]) = {}

\* A range with a single bound is compared as strings: whether that makes no
\* difference for the value.
SameOrder(param, string) ==
  string # <<>> =>
    /\ (Truthy(param["min"]) /\ ~Truthy(param["max"])) =>
         (string \in NotBefore[param["min"]] <=> Within(NumberOf[string], param))
    /\ (~Truthy(param["min"]) /\ Truthy(param["max"])) =>
         (string \in NotAfter[param["max"]] <=> Within(NumberOf[string], param))

OrderedAlike(element, string) ==
  \A i \in DOMAIN adapters :
    (adapters[i].name = "range" /\ adapters[i].name \in DOMAIN element.data) =>
      SameOrder(Param(adapters[i], element), string)

\* What the attributes of the elements to try ask for is well defined.
ASSUME SamplesAssumption ==
  \A element \in Elements, values \in Forms :
    WellPosed(element, values[element.name], DOMAIN values)

\* Rules parsed from an element accept its value exactly when the value
\* satisfies the element's attributes.
Exact(element, parsed, values) ==
  LET string == values[element.name]
      Other(bound) == IF bound \in DOMAIN values THEN values[bound] ELSE Undefined
  IN (\A rule \in DOMAIN parsed.rules :
        LET bound == parsed.rules[rule]
        IN  Accepts(rule, bound, string, Other(bound)))
     <=> Satisfies(element, string, values)

SamplesAreExact ==
  \A element \in Elements, values \in Forms :
    (Unambiguous(element, DOMAIN values) /\ OrderedAlike(element, values[element.name])) =>
      Exact(element, Copied(parseElement(element, DOMAIN values)), values)

=============================================================================
