---------------------- MODULE UnobtrusiveAdaptersProofs ----------------------
(***************************************************************************)
(* Proofs about UnobtrusiveAdapters for any element, parameters and values *)
(* of inputs: each adapter sets rules that accept what its attribute asks  *)
(* for, and parseElement puts the rules of all adapters together.          *)
(***************************************************************************)
EXTENDS UnobtrusiveAdapters, WellFoundedInduction, TLAPS

-----------------------------------------------------------------------------
(* The adapters.                                                           *)

\* Whether the rules that an adapter sets accept a value; those without a bound
\* do not reach the validator.
Accepted(settings, string, values) ==
  \A i \in DOMAIN settings :
    LET bound == settings[i][2]
    IN  bound # Undefined =>
          Accepts(settings[i][1], bound, string,
                  IF bound \in DOMAIN values THEN values[bound] ELSE Undefined)

\* The rules of an input, other than remote, look at its own value only.
LEMMA OtherFields ==
  ASSUME NEW rule, NEW bound, NEW string, NEW other, rule # "equalTo"
  PROVE  Accepts(rule, bound, string, other) <=> Accepts(rule, bound, string, Undefined)
BY DEF Accepts

\* A rule, other than equalTo, that is set alone decides by the value alone.
LEMMA OneRule ==
  ASSUME NEW rule, NEW bound, NEW string, NEW values, bound # Undefined, rule # "equalTo"
  PROVE  Accepted(<< <<rule, bound>> >>, string, values)
           <=> Accepts(rule, bound, string, Undefined)
<1>1. Accepted(<< <<rule, bound>> >>, string, values) <=>
        Accepts(rule, bound, string, IF bound \in DOMAIN values THEN values[bound] ELSE Undefined)
  BY DEF Accepted
<1>2. \A other : Accepts(rule, bound, string, other) <=> Accepts(rule, bound, string, Undefined)
  BY OtherFields
<1> QED
  BY <1>1, <1>2

\* No rules accept every value.
LEMMA NoRule ==
  ASSUME NEW string, NEW values
  PROVE  Accepted(<<>>, string, values)
BY DEF Accepted

\* date, digits, email, number and url: the rule of an addBool adapter accepts
\* what has the format, and the empty value.
LEMMA FormatsAreExact ==
  ASSUME NEW name \in Formats, NEW element, NEW string, NEW values
  PROVE  Accepted(AdaptedRules(addBool(name), element, Param(addBool(name), element), DOMAIN values),
                  string, values)
           <=> Asked(addBool(name), element, string, values)
<1> DEFINE a == addBool(name)
           param == Param(a, element)
<1>1. a.name = name /\ a.kind = "bool" /\ a.rules = <<name>>
  BY DEF addBool
<1> HIDE DEF a, param
<1>2. AdaptedRules(a, element, param, DOMAIN values) = << <<name, True>> >>
  BY <1>1 DEF AdaptedRules, BoolRule
<1>3. Accepted(<< <<name, True>> >>, string, values) <=> Accepts(name, True, string, Undefined)
  BY OneRule, UndefinedIsNoBound DEF Formats
<1>4. Accepts(name, True, string, Undefined) <=> string = <<>> \/ string \in WellFormed[name]
  BY DEF Accepts, Meets, Formats
<1>5. Asked(a, element, string, values) <=> (string # <<>> => string \in WellFormed[name])
  BY <1>1 DEF Asked, AttributeMet, Formats
<1> QED
  BY <1>2, <1>3, <1>4, <1>5 DEF a, param

\* The bound of a rule with a minimum and a maximum.
LEMMA TwoNumbers ==
  ASSUME NEW i \in Int, NEW j \in Int
  PROVE  <<i>> \o <<j>> = <<i, j>> /\ <<i, j>> \in Seq(Int)
<1> DEFINE s == <<i>> \o <<j>>
<1>1. <<i>> \in Seq(Int) /\ <<j>> \in Seq(Int) /\ Len(<<i>>) = 1 /\ Len(<<j>>) = 1
  OBVIOUS
<1>2. s \in Seq(Int) /\ Len(s) = 2 /\ s[1] = i /\ s[2] = j
  BY <1>1
<1> HIDE DEF s
<1>3. s = <<i, j>>
  BY <1>2
<1> QED
  BY <1>3 DEF s

\* A minimum, a maximum or both: the rules of an addMinMax adapter bound number n
\* of the value as the parameters do, if these are numbers where both are given.
LEMMA MinMaxIsExact ==
  ASSUME NEW a, NEW param, NEW string, NEW values, NEW n \in Int,
         "equalTo" \notin {a.rules[1], a.rules[2], a.rules[3]},
         (Truthy(param["min"]) /\ ~Truthy(param["max"])) =>
           \A bound : Accepts(a.rules[1], bound, string, Undefined)
                        <=> (string = <<>> \/ n >= bound[1]),
         (~Truthy(param["min"]) /\ Truthy(param["max"])) =>
           \A bound : Accepts(a.rules[2], bound, string, Undefined)
                        <=> (string = <<>> \/ n <= bound[1]),
         (Truthy(param["min"]) /\ Truthy(param["max"])) =>
           /\ \A bound : Accepts(a.rules[3], bound, string, Undefined)
                           <=> (string = <<>> \/ n \in bound[1]..bound[2])
           /\ \E i, j \in Int : param["min"] = <<i>> /\ param["max"] = <<j>>
  PROVE  Accepted(MinMaxRule(a, param), string, values)
           <=> (string # <<>> => Within(n, param))
<1> DEFINE min == param["min"]
           max == param["max"]
<1>1. CASE Truthy(min) /\ ~Truthy(max)
  <2>1. MinMaxRule(a, param) = << <<a.rules[1], min>> >> /\ min # Undefined
    BY <1>1 DEF MinMaxRule, Truthy
  <2>2. Within(n, param) <=> n >= min[1]
    BY <1>1 DEF Within
  <2> QED
    BY <1>1, <2>1, <2>2, OneRule
<1>2. CASE ~Truthy(min) /\ Truthy(max)
  <2>1. MinMaxRule(a, param) = << <<a.rules[2], max>> >> /\ max # Undefined
    BY <1>2 DEF MinMaxRule, Truthy
  <2>2. Within(n, param) <=> n <= max[1]
    BY <1>2 DEF Within
  <2> QED
    BY <1>2, <2>1, <2>2, OneRule
<1>3. CASE Truthy(min) /\ Truthy(max)
  <2>1. PICK i, j \in Int : min = <<i>> /\ max = <<j>>
    BY <1>3
  <2>2. <<i>> \o <<j>> = <<i, j>> /\ <<i, j>> \in Seq(Int)
    BY TwoNumbers
  <2>3. MinMaxRule(a, param) = << <<a.rules[3], <<i, j>> >> >>
    BY <1>3, <2>1, <2>2 DEF MinMaxRule
  <2>4. <<i, j>> # Undefined
    BY <2>2, UndefinedIsNoBound
  <2>5. Accepted(MinMaxRule(a, param), string, values)
          <=> Accepts(a.rules[3], <<i, j>>, string, Undefined)
    BY <2>3, <2>4, OneRule
  <2>6. Accepts(a.rules[3], <<i, j>>, string, Undefined) <=> (string = <<>> \/ n \in i..j)
    BY <1>3
  <2>7. Within(n, param) <=> n \in i..j
    BY <1>3, <2>1 DEF Within
  <2> QED
    BY <2>5, <2>6, <2>7
<1>4. CASE ~Truthy(min) /\ ~Truthy(max)
  <2>1. MinMaxRule(a, param) = <<>>
    BY <1>4 DEF MinMaxRule
  <2>2. Within(n, param)
    BY <1>4 DEF Within
  <2> QED
    BY <2>1, <2>2, NoRule
<1> QED
  BY <1>1, <1>2, <1>3, <1>4

\* The rules that adapter a sets for an element say what its attribute asks.
AdapterIsExact(a, element, string, values) ==
  Accepted(AdaptedRules(a, element, Param(a, element), DOMAIN values), string, values)
    <=> Asked(a, element, string, values)

\* length, minlength and maxlength bound the length of a value that is not empty.
LEMMA LengthIsExact ==
  ASSUME NEW a, a.name \in {"length", "minlength", "maxlength"}, a.kind = "minmax",
         \/ a.rules = <<"minlength", "maxlength", "rangelength">>
         \/ a.rules = <<"minlength", "undefined", "undefined">>
         \/ a.rules = <<"minlength", "maxlength", "undefined">>,
         NEW element, NEW string, NEW values, Len(string) \in Nat,
         WellGiven(a, element, DOMAIN values)
  PROVE  AdapterIsExact(a, element, string, values)
<1> DEFINE param == Param(a, element)
           set == AdaptedRules(a, element, param, DOMAIN values)
<1>1. set = MinMaxRule(a, param)
  BY DEF AdaptedRules
<1> HIDE DEF set, param
<1>2. \A rule, bound : rule \in {"minlength", "maxlength", "rangelength"} =>
        (Accepts(rule, bound, string, Undefined)
           <=> (string = <<>> \/ Meets(rule, bound, string)))
  BY DEF Accepts
<1>3. \A bound : /\ Meets("minlength", bound, string) <=> Len(string) >= bound[1]
                 /\ Meets("maxlength", bound, string) <=> Len(string) <= bound[1]
                 /\ Meets("rangelength", bound, string) <=> Len(string) \in bound[1]..bound[2]
  BY DEF Meets, Formats
<1>4. \A i \in DOMAIN set : set[i][1] # "undefined"
  BY DEF WellGiven, Methods, Formats, set, param
<1>5. /\ (Truthy(param["min"]) /\ Truthy(param["max"])) => a.rules[3] # "undefined"
      /\ (~Truthy(param["min"]) /\ Truthy(param["max"])) => a.rules[2] # "undefined"
  BY <1>1, <1>4 DEF MinMaxRule
<1>6. (Truthy(param["min"]) /\ Truthy(param["max"])) =>
        \E i, j \in Int : param["min"] = <<i>> /\ param["max"] = <<j>>
  BY DEF WellGiven, param
<1>7. Accepted(set, string, values) <=> (string # <<>> => Within(Len(string), param))
  <2>1. /\ a.rules[1] = "minlength" /\ a.rules[2] \in {"maxlength", "undefined"}
        /\ a.rules[3] \in {"rangelength", "undefined"}
    OBVIOUS
  <2>2. "equalTo" \notin {a.rules[1], a.rules[2], a.rules[3]}
    BY <2>1
  <2>3. Len(string) \in Int
    OBVIOUS
  <2>4. /\ (~Truthy(param["min"]) /\ Truthy(param["max"])) => a.rules[2] = "maxlength"
        /\ (Truthy(param["min"]) /\ Truthy(param["max"])) => a.rules[3] = "rangelength"
    BY <1>5, <2>1
  <2>5. (Truthy(param["min"]) /\ ~Truthy(param["max"])) =>
          \A bound : Accepts(a.rules[1], bound, string, Undefined)
                       <=> (string = <<>> \/ Len(string) >= bound[1])
    BY <1>2, <1>3, <2>1, <2>4
  <2>6. (~Truthy(param["min"]) /\ Truthy(param["max"])) =>
          \A bound : Accepts(a.rules[2], bound, string, Undefined)
                       <=> (string = <<>> \/ Len(string) <= bound[1])
    BY <1>2, <1>3, <2>1, <2>4
  <2>7. (Truthy(param["min"]) /\ Truthy(param["max"])) =>
          \A bound : Accepts(a.rules[3], bound, string, Undefined)
                       <=> (string = <<>> \/ Len(string) \in bound[1]..bound[2])
    BY <1>2, <1>3, <2>1, <2>4
  <2> QED
    BY <1>1, <1>6, <2>2, <2>3, <2>5, <2>6, <2>7, MinMaxIsExact
<1>8. Asked(a, element, string, values) <=> (string # <<>> => Within(Len(string), param))
  BY DEF Asked, AttributeMet, Formats, param
<1> QED
  BY <1>7, <1>8 DEF AdapterIsExact, set, param

\* range bounds the number that a value denotes, and does so exactly where there
\* are two bounds, or where strings and numbers are in the same order.
LEMMA RangeIsExact ==
  ASSUME NEW a, a.name = "range", a.kind = "minmax", a.rules = <<"min", "max", "range">>,
         NEW element, NEW string, NEW values,
         string # <<>> => NumberOf[string] \in Int,
         WellGiven(a, element, DOMAIN values)
  PROVE  AdapterIsExact(a, element, string, values) <=> SameOrder(Param(a, element), string)
<1> DEFINE param == Param(a, element)
           min == param["min"]
           max == param["max"]
           set == MinMaxRule(a, param)
           n == NumberOf[string]
<1>1. AdaptedRules(a, element, param, DOMAIN values) = set
  BY DEF AdaptedRules
<1>2. (Truthy(min) /\ Truthy(max)) => \E i, j \in Int : min = <<i>> /\ max = <<j>>
  BY DEF WellGiven
<1>3. Asked(a, element, string, values) <=> (string # <<>> => Within(n, param))
  BY DEF Asked, AttributeMet, Formats
<1> HIDE DEF param
<1>4. \A rule, bound : rule \in {"min", "max", "range"} =>
        (Accepts(rule, bound, string, Undefined)
           <=> (string = <<>> \/ Meets(rule, bound, string)))
  BY DEF Accepts
<1>5. \A bound : /\ Meets("min", bound, string) <=> string \in NotBefore[bound]
                 /\ Meets("max", bound, string) <=> string \in NotAfter[bound]
                 /\ Meets("range", bound, string) <=> n \in bound[1]..bound[2]
  BY DEF Meets, Formats
<1>6. CASE string = <<>>
  <2>1. SameOrder(param, string)
    BY <1>6 DEF SameOrder
  <2>2. \A rule, bound : rule \in {"min", "max", "range"} => Accepts(rule, bound, string, Undefined)
    BY <1>4, <1>6
  <2>3. Accepted(set, string, values)
    <3>1. CASE Truthy(min) /\ Truthy(max)
      <4>1. PICK i, j \in Int : min = <<i>> /\ max = <<j>>
        BY <1>2, <3>1
      <4>2. <<i>> \o <<j>> = <<i, j>> /\ <<i, j>> # Undefined
        BY TwoNumbers, UndefinedIsNoBound
      <4>3. set = << <<"range", <<i, j>> >> >>
        BY <3>1, <4>1, <4>2 DEF MinMaxRule
      <4> QED
        BY <2>2, <4>2, <4>3, OneRule
    <3>2. CASE Truthy(min) /\ ~Truthy(max)
      <4>1. set = << <<"min", min>> >> /\ min # Undefined
        BY <3>2 DEF MinMaxRule, Truthy
      <4> QED
        BY <2>2, <4>1, OneRule
    <3>3. CASE ~Truthy(min) /\ Truthy(max)
      <4>1. set = << <<"max", max>> >> /\ max # Undefined
        BY <3>3 DEF MinMaxRule, Truthy
      <4> QED
        BY <2>2, <4>1, OneRule
    <3>4. CASE ~Truthy(min) /\ ~Truthy(max)
      BY <3>4, NoRule DEF MinMaxRule
    <3> QED
      BY <3>1, <3>2, <3>3, <3>4
  <2> QED
    BY <1>1, <1>3, <1>6, <2>1, <2>3 DEF AdapterIsExact, param
<1>7. CASE string # <<>> /\ Truthy(min) /\ Truthy(max)
  <2>1. n \in Int /\ SameOrder(param, string)
    BY <1>7 DEF SameOrder
  <2>2. "equalTo" \notin {a.rules[1], a.rules[2], a.rules[3]}
    OBVIOUS
  <2>3. \A bound : Accepts(a.rules[3], bound, string, Undefined)
                     <=> (string = <<>> \/ n \in bound[1]..bound[2])
    BY <1>4, <1>5
  <2> HIDE DEF n
  <2>4. Accepted(set, string, values) <=> (string # <<>> => Within(n, param))
    BY <1>2, <1>7, <2>1, <2>2, <2>3, MinMaxIsExact
  <2> QED
    BY <1>1, <1>3, <2>1, <2>4 DEF AdapterIsExact, param, n
<1>8. CASE string # <<>> /\ Truthy(min) /\ ~Truthy(max)
  <2>1. set = << <<"min", min>> >> /\ min # Undefined
    BY <1>8 DEF MinMaxRule, Truthy
  <2>2. Accepted(set, string, values) <=> string \in NotBefore[min]
    BY <1>4, <1>5, <1>8, <2>1, OneRule
  <2>3. SameOrder(param, string) <=> (string \in NotBefore[min] <=> Within(n, param))
    BY <1>8 DEF SameOrder
  <2> QED
    BY <1>1, <1>3, <1>8, <2>2, <2>3 DEF AdapterIsExact, param
<1>9. CASE string # <<>> /\ ~Truthy(min) /\ Truthy(max)
  <2>1. set = << <<"max", max>> >> /\ max # Undefined
    BY <1>9 DEF MinMaxRule, Truthy
  <2>2. Accepted(set, string, values) <=> string \in NotAfter[max]
    BY <1>4, <1>5, <1>9, <2>1, OneRule
  <2>3. SameOrder(param, string) <=> (string \in NotAfter[max] <=> Within(n, param))
    BY <1>9 DEF SameOrder
  <2> QED
    BY <1>1, <1>3, <1>9, <2>2, <2>3 DEF AdapterIsExact, param
<1>10. CASE string # <<>> /\ ~Truthy(min) /\ ~Truthy(max)
  <2>1. set = <<>> /\ Within(n, param) /\ SameOrder(param, string)
    BY <1>10 DEF MinMaxRule, Within, SameOrder
  <2> QED
    BY <1>1, <1>3, <2>1, NoRule DEF AdapterIsExact, param
<1> QED
  BY <1>6, <1>7, <1>8, <1>9, <1>10 DEF param

\* regex: the pattern has to match the whole value.
LEMMA RegexIsExact ==
  ASSUME NEW element, NEW string, NEW values,
         WellGiven(addSingleVal("regex", "pattern"), element, DOMAIN values)
  PROVE  AdapterIsExact(addSingleVal("regex", "pattern"), element, string, values)
<1> DEFINE a == addSingleVal("regex", "pattern")
           param == Param(a, element)
<1>1. a.name = "regex" /\ a.kind = "single" /\ a.rules[1] = "regex" /\ a.params = {"pattern"}
  BY DEF addSingleVal
<1> HIDE DEF a, param
<1>2. AdaptedRules(a, element, param, DOMAIN values) = << <<"regex", param["pattern"]>> >>
  <2>1. AdaptedRules(a, element, param, DOMAIN values) = SingleValRule(a, param)
    BY <1>1 DEF AdaptedRules
  <2>2. (CHOOSE p \in a.params : TRUE) = "pattern"
    BY <1>1
  <2> QED
    BY <1>1, <2>1, <2>2 DEF SingleValRule
<1>3. param["pattern"] # Undefined
  BY <1>1 DEF WellGiven, a, param
<1>4. Accepts("regex", param["pattern"], string, Undefined)
        <=> string = <<>> \/ regexMatches(string, param["pattern"][1])
  BY DEF Accepts, Meets, Formats
<1>5. Asked(a, element, string, values)
        <=> (string # <<>> => regexMatches(string, param["pattern"][1]))
  BY <1>1 DEF Asked, AttributeMet, Formats, param
<1> QED
  BY <1>2, <1>3, <1>4, <1>5, OneRule DEF AdapterIsExact, a, param

\* required: the value must be there, except a checkbox's.
LEMMA RequiredIsExact ==
  ASSUME NEW element, NEW string, NEW values, element.checkbox \in BOOLEAN
  PROVE  AdapterIsExact(add("required", {}), element, string, values)
<1> DEFINE a == add("required", {})
           param == Param(a, element)
<1>1. a.name = "required" /\ a.kind = "required"
  BY DEF add
<1> HIDE DEF a, param
<1>2. AdaptedRules(a, element, param, DOMAIN values) = RequiredRule(element)
  BY <1>1 DEF AdaptedRules
<1>3. Asked(a, element, string, values) <=> (element.checkbox \/ string # <<>>)
  BY <1>1 DEF Asked, AttributeMet, Formats
<1>4. CASE element.checkbox
  BY <1>2, <1>3, <1>4, NoRule DEF RequiredRule, AdapterIsExact, a, param
<1>5. CASE ~element.checkbox
  <2>1. RequiredRule(element) = << <<"required", True>> >>
    BY <1>5 DEF RequiredRule
  <2>2. Accepts("required", True, string, Undefined) <=> string # <<>>
    BY DEF Accepts
  <2> QED
    BY <1>2, <1>3, <1>5, <2>1, <2>2, OneRule, UndefinedIsNoBound DEF AdapterIsExact, a, param
<1> QED
  BY <1>4, <1>5

\* remote: what the server says is not the browser's to tell.
LEMMA RemoteIsExact ==
  ASSUME NEW a, a.name = "remote", a.kind = "remote", NEW element, NEW string, NEW values
  PROVE  AdapterIsExact(a, element, string, values)
<1> DEFINE param == Param(a, element)
           set == AdaptedRules(a, element, param, DOMAIN values)
<1>1. DOMAIN set = {1} /\ set[1][1] = "remote"
  BY DEF AdaptedRules, RemoteRule
<1> HIDE DEF set
<1>2. \A bound, other : Accepts("remote", bound, string, other)
  BY DEF Accepts
<1>3. Accepted(set, string, values)
  BY <1>1, <1>2 DEF Accepted
<1>4. Asked(a, element, string, values)
  BY DEF Asked, AttributeMet, Formats
<1> QED
  BY <1>3, <1>4 DEF AdapterIsExact, set

\* equalto: the value must be that of the other element, if the form has it.
LEMMA EqualToIsExact ==
  ASSUME NEW a, a.name = "equalto", a.kind = "equalto",
         NEW element, NEW string, NEW values, Undefined \notin DOMAIN values
  PROVE  AdapterIsExact(a, element, string, values)
<1> DEFINE param == Param(a, element)
           other == appendModelPrefix(param["other"], getModelPrefix(element.name))
           set == AdaptedRules(a, element, param, DOMAIN values)
<1>1. set = << <<"equalTo", InputNamed(DOMAIN values, other)>> >>
  BY DEF AdaptedRules, EqualToRule
<1>2. Asked(a, element, string, values) <=> (other \in DOMAIN values => string = values[other])
  BY DEF Asked, AttributeMet, Formats
<1> HIDE DEF set, other
<1>3. \A bound, w : Accepts("equalTo", bound, string, w) <=> string = w
  BY DEF Accepts
<1>4. CASE other \in DOMAIN values
  <2>1. set = << <<"equalTo", other>> >> /\ other # Undefined
    BY <1>1, <1>4 DEF InputNamed
  <2>2. Accepted(set, string, values) <=> string = values[other]
    BY <1>3, <1>4, <2>1 DEF Accepted
  <2> QED
    BY <1>2, <1>4, <2>2 DEF AdapterIsExact, set
<1>5. CASE other \notin DOMAIN values
  <2>1. set = << <<"equalTo", Undefined>> >>
    BY <1>1, <1>5 DEF InputNamed
  <2>2. Accepted(set, string, values)
    BY <2>1 DEF Accepted
  <2> QED
    BY <1>2, <1>5, <2>2 DEF AdapterIsExact, set
<1> QED
  BY <1>4, <1>5

\* Two lists of rules one after the other accept what both accept.
LEMMA ConcatAccepted ==
  ASSUME NEW S, NEW s \in Seq(S), NEW t \in Seq(S), NEW string, NEW values
  PROVE  Accepted(s \o t, string, values)
           <=> Accepted(s, string, values) /\ Accepted(t, string, values)
<1> DEFINE Met(x) == x[2] # Undefined =>
             Accepts(x[1], x[2], string,
                     IF x[2] \in DOMAIN values THEN values[x[2]] ELSE Undefined)
<1>1. \A q : Accepted(q, string, values) <=> \A i \in DOMAIN q : Met(q[i])
  BY DEF Accepted
<1>2. /\ s \o t \in Seq(S) /\ Len(s \o t) = Len(s) + Len(t)
      /\ \A i \in 1..Len(s) : (s \o t)[i] = s[i]
      /\ \A i \in 1..Len(t) : (s \o t)[Len(s) + i] = t[i]
  OBVIOUS
<1> HIDE DEF Met
<1>3. ASSUME \A i \in DOMAIN (s \o t) : Met((s \o t)[i])
      PROVE  (\A i \in DOMAIN s : Met(s[i])) /\ (\A i \in DOMAIN t : Met(t[i]))
  <2>1. ASSUME NEW i \in DOMAIN s PROVE Met(s[i])
    <3>1. i \in DOMAIN (s \o t) /\ (s \o t)[i] = s[i]
      BY <1>2
    <3> QED
      BY <1>3, <3>1
  <2>2. ASSUME NEW i \in DOMAIN t PROVE Met(t[i])
    <3>1. Len(s) + i \in DOMAIN (s \o t) /\ (s \o t)[Len(s) + i] = t[i]
      BY <1>2
    <3> QED
      BY <1>3, <3>1
  <2> QED
    BY <2>1, <2>2
<1>4. ASSUME \A i \in DOMAIN s : Met(s[i]), \A i \in DOMAIN t : Met(t[i]),
             NEW i \in DOMAIN (s \o t)
      PROVE  Met((s \o t)[i])
  <2>1. CASE i <= Len(s)
    <3>1. i \in DOMAIN s /\ (s \o t)[i] = s[i]
      BY <1>2, <2>1
    <3> QED
      BY <1>4, <3>1
  <2>2. CASE i > Len(s)
    <3>1. i - Len(s) \in DOMAIN t /\ (s \o t)[i] = t[i - Len(s)]
      BY <1>2, <2>2
    <3> QED
      BY <1>4, <3>1
  <2> QED
    BY <1>2, <2>1, <2>2
<1> QED
  BY <1>1, <1>3, <1>4

\* password: each of its three parameters, where it is there, sets its own rule.
LEMMA PasswordIsExact ==
  ASSUME NEW element, NEW string, NEW values,
         NEW a, a.name = "password", a.kind = "password",
         a.params = {"min", "nonalphamin", "regex"}
  PROVE  AdapterIsExact(a, element, string, values)
<1> DEFINE param == Param(a, element)
           Given(rule, bound) == IF Truthy(bound) THEN << <<rule, bound>> >> ELSE <<>>
           one == Given("minlength", param["min"])
           two == Given("nonalphamin", param["nonalphamin"])
           three == Given("regex", param["regex"])
           S == {<<"minlength", param["min"]>>, <<"nonalphamin", param["nonalphamin"]>>,
                 <<"regex", param["regex"]>>}
<1>1. AdaptedRules(a, element, param, DOMAIN values) = (one \o two) \o three
  BY DEF AdaptedRules, PasswordRules
<1> HIDE DEF param
<1>2. one \in Seq(S) /\ two \in Seq(S) /\ three \in Seq(S)
  <2>1. \A x \in S : <<x>> \in Seq(S)
    OBVIOUS
  <2>2. <<>> \in Seq(S)
    OBVIOUS
  <2>3. \A rule, bound : <<rule, bound>> \in S => Given(rule, bound) \in Seq(S)
    BY <2>1, <2>2
  <2>4. /\ <<"minlength", param["min"]>> \in S
        /\ <<"nonalphamin", param["nonalphamin"]>> \in S
        /\ <<"regex", param["regex"]>> \in S
    OBVIOUS
  <2> HIDE DEF Given, S
  <2> QED
    BY <2>3, <2>4
<1>3. \A rule, bound : rule # "equalTo" =>
        (Accepted(Given(rule, bound), string, values)
           <=> (Truthy(bound) => Accepts(rule, bound, string, Undefined)))
  BY OneRule, NoRule DEF Truthy
<1> HIDE DEF Given, S
<1>4. one \o two \in Seq(S)
  BY <1>2
<1>5. Accepted((one \o two) \o three, string, values)
        <=> /\ Accepted(one, string, values) /\ Accepted(two, string, values)
            /\ Accepted(three, string, values)
  <2> HIDE DEF one, two, three
  <2>1. Accepted((one \o two) \o three, string, values)
          <=> Accepted(one \o two, string, values) /\ Accepted(three, string, values)
    BY <1>2, <1>4, ConcatAccepted, Zenon
  <2>2. Accepted(one \o two, string, values)
          <=> Accepted(one, string, values) /\ Accepted(two, string, values)
    BY <1>2, ConcatAccepted, Zenon
  <2> QED
    BY <2>1, <2>2
<1>6. Accepted((one \o two) \o three, string, values) <=>
        /\ Truthy(param["min"]) => Accepts("minlength", param["min"], string, Undefined)
        /\ Truthy(param["nonalphamin"]) =>
             Accepts("nonalphamin", param["nonalphamin"], string, Undefined)
        /\ Truthy(param["regex"]) => Accepts("regex", param["regex"], string, Undefined)
  <2>1. Accepted(one, string, values)
          <=> (Truthy(param["min"]) => Accepts("minlength", param["min"], string, Undefined))
    BY <1>3
  <2>2. Accepted(two, string, values)
          <=> (Truthy(param["nonalphamin"]) =>
                 Accepts("nonalphamin", param["nonalphamin"], string, Undefined))
    BY <1>3
  <2>3. Accepted(three, string, values)
          <=> (Truthy(param["regex"]) => Accepts("regex", param["regex"], string, Undefined))
    BY <1>3
  <2> QED
    BY <1>5, <2>1, <2>2, <2>3
<1>7. \A bound :
        /\ Accepts("minlength", bound, string, Undefined)
             <=> (string = <<>> \/ Len(string) >= bound[1])
        /\ Accepts("nonalphamin", bound, string, Undefined)
             <=> nonalphamin(string, bound[1])
        /\ Accepts("regex", bound, string, Undefined)
             <=> (string = <<>> \/ regexMatches(string, bound[1]))
  BY DEF Accepts, Meets, Formats
<1>8. Asked(a, element, string, values) <=>
        /\ Truthy(param["min"]) => (string = <<>> \/ Len(string) >= param["min"][1])
        /\ Truthy(param["nonalphamin"]) => nonalphamin(string, param["nonalphamin"][1])
        /\ Truthy(param["regex"]) => (string = <<>> \/ regexMatches(string, param["regex"][1]))
  BY DEF Asked, AttributeMet, Formats, param
<1> QED
  BY <1>1, <1>6, <1>7, <1>8 DEF AdapterIsExact, param

\* The registrations, by number.
LEMMA Registrations ==
  /\ DOMAIN adapters = 1..17
  /\ adapters[2] = addSingleVal("regex", "pattern")
  /\ adapters[4] = addBool("date") /\ adapters[5] = addBool("digits")
  /\ adapters[6] = addBool("email") /\ adapters[7] = addBool("number")
  /\ adapters[8] = addBool("url")
  /\ adapters[9] = addMinMax("length", "minlength", "maxlength", "rangelength")
  /\ adapters[10] = addMinMax("range", "min", "max", "range")
  /\ adapters[11] = addMinMax("minlength", "minlength", "undefined", "undefined")
  /\ adapters[12] = addMinMax("maxlength", "minlength", "maxlength", "undefined")
  /\ adapters[13] = add("equalto", {"other"})
  /\ adapters[14] = add("required", {})
  /\ adapters[15] = add("remote", {"url", "type", "additionalfields"})
  /\ adapters[16] = add("password", {"min", "nonalphamin", "regex"})
BY DEF adapters

\* The three that are left (extension, creditcard, fileextensions) set rules
\* without methods.
LEMMA WithoutMethods ==
  ASSUME NEW i \in {1, 3, 17}, NEW element, NEW inputs
  PROVE  ~WellGiven(adapters[i], element, inputs)
<1> DEFINE a == adapters[i]
           set == AdaptedRules(a, element, Param(a, element), inputs)
<1>1. /\ adapters[1].kind = "single" /\ adapters[1].rules = <<"accept">>
      /\ adapters[3].kind = "bool" /\ adapters[3].rules = <<"creditcard">>
      /\ adapters[17].kind = "fileextensions"
  BY DEF adapters, addSingleVal, addBool, add
<1>2. DOMAIN set = {1} /\ set[1][1] \in {"accept", "creditcard", "extension"}
  <2>1. CASE i = 1
    BY <1>1, <2>1 DEF AdaptedRules, SingleValRule
  <2>2. CASE i = 3
    BY <1>1, <2>2 DEF AdaptedRules, BoolRule
  <2>3. CASE i = 17
    BY <1>1, <2>3 DEF AdaptedRules, FileExtensionsRule
  <2> QED
    BY <2>1, <2>2, <2>3
<1> HIDE DEF set, a
<1>3. set[1][1] \notin Methods
  BY <1>2 DEF Methods, Formats
<1> QED
  BY <1>2, <1>3 DEF WellGiven, set, a

\* For every adapter of the library, whatever parameters its attribute comes with
\* and whatever the value is: the rules that it sets accept exactly the values
\* that the attribute asks for, unless it is a range with one bound, which is
\* compared as strings: that is exact for just the values on whose place strings
\* and numbers agree.
THEOREM AdaptersAreExact ==
  ASSUME NEW i \in DOMAIN adapters, NEW element, NEW string, NEW values,
         WellGiven(adapters[i], element, DOMAIN values),
         Len(string) \in Nat,
         (adapters[i].name = "range" /\ string # <<>>) => NumberOf[string] \in Int,
         element.checkbox \in BOOLEAN, Undefined \notin DOMAIN values
  PROVE  AdapterIsExact(adapters[i], element, string, values) <=>
           (adapters[i].name = "range" => SameOrder(Param(adapters[i], element), string))
<1> DEFINE exact == AdapterIsExact(adapters[i], element, string, values)
<1>1. CASE i \in {1, 3, 17}
  BY <1>1, WithoutMethods
<1>2. i = 2 => exact
  BY Registrations, RegexIsExact
<1>3. ASSUME i \in 4..8 PROVE exact
  <2>1. \E name \in Formats : adapters[i] = addBool(name)
    BY <1>3, Registrations DEF Formats
  <2> QED
    BY <2>1, FormatsAreExact DEF AdapterIsExact
<1>4. ASSUME i \in {9, 11, 12} PROVE exact
  <2>1. /\ adapters[i].name \in {"length", "minlength", "maxlength"}
        /\ adapters[i].kind = "minmax"
        /\ \/ adapters[i].rules = <<"minlength", "maxlength", "rangelength">>
           \/ adapters[i].rules = <<"minlength", "undefined", "undefined">>
           \/ adapters[i].rules = <<"minlength", "maxlength", "undefined">>
    BY <1>4, Registrations DEF addMinMax
  <2> QED
    BY <2>1, LengthIsExact
<1>5. CASE i = 10
  <2>1. /\ adapters[i].name = "range" /\ adapters[i].kind = "minmax"
        /\ adapters[i].rules = <<"min", "max", "range">>
    BY <1>5, Registrations DEF addMinMax
  <2> QED
    BY <2>1, RangeIsExact
<1>6. ASSUME i \in {13, 14, 15, 16} PROVE exact
  <2>1. /\ i \in {13, 15, 16} => adapters[i].name = adapters[i].kind
        /\ i = 13 => adapters[i].name = "equalto"
        /\ i = 15 => adapters[i].name = "remote"
        /\ i = 16 => /\ adapters[i].name = "password"
                     /\ adapters[i].params = {"min", "nonalphamin", "regex"}
    BY <1>6, Registrations DEF add
  <2>2. CASE i = 13
    BY <2>1, <2>2, EqualToIsExact
  <2>3. CASE i = 14
    BY <2>3, Registrations, RequiredIsExact
  <2>4. CASE i = 15
    BY <2>1, <2>4, RemoteIsExact
  <2>5. CASE i = 16
    BY <2>1, <2>5, PasswordIsExact
  <2> QED
    BY <1>6, <2>2, <2>3, <2>4, <2>5
<1>7. i \notin {1, 3, 10, 17} => adapters[i].name # "range"
  BY Registrations DEF addSingleVal, addBool, addMinMax, add
<1> HIDE DEF exact
<1>8. CASE i \notin {1, 3, 10, 17}
  <2>1. exact
    BY <1>2, <1>3, <1>4, <1>6, <1>8, Registrations
  <2> QED
    BY <1>7, <1>8, <2>1 DEF exact
<1> QED
  BY <1>1, <1>5, <1>8, Registrations

-----------------------------------------------------------------------------
(* Induction.                                                              *)

\* A set of naturals that is not empty has a least member.
LEMMA LeastNumber ==
  ASSUME NEW T, T \subseteq Nat, T # {}
  PROVE  \E m \in T : \A k \in T : m <= k
<1> DEFINE R == OpToRel(<, Nat)
<1>1. IsWellFoundedOn(R, Nat)
  BY NatLessThanWellFounded
<1>2. \A m, k \in Nat : k < m => <<k, m>> \in R
  BY DEF OpToRel
<1> HIDE DEF R
<1>3. PICK m \in T : \A k \in T : <<k, m>> \notin R
  BY <1>1, WFMin, Zenon
<1>4. ASSUME NEW k \in T PROVE m <= k
  <2>1. m \in Nat /\ k \in Nat
    OBVIOUS
  <2>2. ~(k < m)
    BY <1>2, <1>3, <2>1, Zenon
  <2> QED
    BY <2>1, <2>2
<1> QED
  BY <1>4

\* What holds of 0, and of n + 1 if of n, holds of every natural.
LEMMA Induction ==
  ASSUME NEW Good, 0 \in Good, \A n \in Nat : n \in Good => n + 1 \in Good
  PROVE  Nat \subseteq Good
<1> DEFINE bad == Nat \ Good
<1> SUFFICES ASSUME bad # {} PROVE FALSE
  OBVIOUS
<1>1. PICK m \in bad : \A k \in bad : m <= k
  BY LeastNumber
<1>2. m - 1 \in Nat /\ m - 1 \notin bad
  BY <1>1
<1> QED
  BY <1>1, <1>2

-----------------------------------------------------------------------------
(* The rules that adapt and Adapted set, one after the other.              *)

\* f[n] is what is parsed after the first n settings.
Sets(f, parsed, settings, message) ==
  f = [n \in 0..Len(settings) |->
        IF n = 0 THEN parsed
        ELSE setValidationValues(f[n - 1], settings[n][1], settings[n][2], message)]

\* The recursive function of adapt exists, for any list of settings.
LEMMA SetsExist ==
  ASSUME NEW parsed, NEW settings, NEW message, Len(settings) \in Nat
  PROVE  \E f : Sets(f, parsed, settings, message)
<1> DEFINE UpTo(f, m) ==
             f = [n \in 0..m |->
                   IF n = 0 THEN parsed
                   ELSE setValidationValues(f[n - 1], settings[n][1], settings[n][2], message)]
           Good == {m \in Nat : \E f : UpTo(f, m)}
<1>1. 0 \in Good
  <2>1. UpTo([n \in 0..0 |-> parsed], 0)
    OBVIOUS
  <2> HIDE DEF UpTo
  <2> QED
    BY <2>1
<1>2. ASSUME NEW m \in Nat, m \in Good
      PROVE  m + 1 \in Good
  <2>1. PICK f : UpTo(f, m)
    BY <1>2
  <2> DEFINE h == [n \in 0..m + 1 |->
                    IF n <= m THEN f[n]
                    ELSE setValidationValues(f[m], settings[n][1], settings[n][2], message)]
             next == [n \in 0..m + 1 |->
                       IF n = 0 THEN parsed
                       ELSE setValidationValues(h[n - 1], settings[n][1], settings[n][2], message)]
  <2>2. ASSUME NEW n \in 0..m + 1
        PROVE  h[n] = next[n]
    <3>1. CASE n = 0
      BY <2>1, <3>1
    <3>2. CASE n # 0 /\ n <= m
      <4>1. n \in 0..m /\ n - 1 \in 0..m /\ n - 1 \in 0..m + 1 /\ n - 1 <= m
        BY <3>2
      <4>2. f[n] = setValidationValues(f[n - 1], settings[n][1], settings[n][2], message)
        BY <2>1, <3>2, <4>1
      <4> QED
        BY <3>2, <4>1, <4>2
    <3>3. CASE n = m + 1
      <4>1. n - 1 = m /\ m \in 0..m + 1 /\ ~(n <= m) /\ n # 0
        BY <3>3
      <4>2. h[m] = f[m]
        BY <4>1
      <4> QED
        BY <4>1, <4>2
    <3> QED
      BY <3>1, <3>2, <3>3
  <2>3. h = next
    BY <2>2
  <2>4. UpTo(h, m + 1)
    BY <2>3
  <2> HIDE DEF UpTo
  <2> QED
    BY <2>4
<1> HIDE DEF Good
<1>3. Len(settings) \in Good
  BY <1>1, <1>2, Induction
<1> QED
  BY <1>3 DEF Good, Sets

\* The names of the first n settings.
Named(settings, n) == {settings[k][1] : k \in 1..n}

\* The rules of parsed and then the first n settings.
HasSet(p, parsed, settings, n) ==
  /\ DOMAIN p.rules = DOMAIN parsed.rules \cup Named(settings, n)
  /\ \A k \in 1..n : p.rules[settings[k][1]] = settings[k][2]
  /\ \A rule \in DOMAIN parsed.rules :
       rule \notin Named(settings, n) => p.rules[rule] = parsed.rules[rule]

\* No name is set twice.
Once(settings) ==
  /\ Len(settings) \in Nat /\ DOMAIN settings = 1..Len(settings)
  /\ \A k, l \in DOMAIN settings : settings[k][1] = settings[l][1] => k = l

\* If no name is set twice, every setting is there at the end.
LEMMA SettingsAreSet ==
  ASSUME NEW f, NEW parsed, NEW settings, NEW message, Once(settings),
         Sets(f, parsed, settings, message)
  PROVE  HasSet(f[Len(settings)], parsed, settings, Len(settings))
<1> DEFINE Good == {n \in Nat : n <= Len(settings) => HasSet(f[n], parsed, settings, n)}
<1>0. Len(settings) \in Nat /\ DOMAIN settings = 1..Len(settings)
  BY DEF Once
<1>1. 0 \in Good
  <2>1. f[0] = parsed
    BY <1>0 DEF Sets
  <2> QED
    BY <2>1 DEF HasSet, Named
<1>2. ASSUME NEW n \in Nat, n \in Good
      PROVE  n + 1 \in Good
  <2> SUFFICES ASSUME n + 1 <= Len(settings)
               PROVE  HasSet(f[n + 1], parsed, settings, n + 1)
    OBVIOUS
  <2> DEFINE rule == settings[n + 1][1]
             bound == settings[n + 1][2]
  <2>1. HasSet(f[n], parsed, settings, n)
    BY <1>0, <1>2
  <2>2. f[n + 1] = setValidationValues(f[n], rule, bound, message)
    BY <1>0 DEF Sets
  <2>3. f[n + 1].rules = Put(f[n].rules, rule, bound)
    BY <2>2 DEF setValidationValues
  <2>4. Named(settings, n + 1) = Named(settings, n) \cup {rule}
    BY DEF Named
  <2>5. \A k \in 1..n : settings[k][1] # rule
    BY <1>0 DEF Once
  <2>6. \A k \in 1..n + 1 : k \in 1..n \/ k = n + 1
    OBVIOUS
  <2>7. DOMAIN f[n + 1].rules = DOMAIN parsed.rules \cup Named(settings, n + 1)
    BY <2>1, <2>3, <2>4 DEF HasSet, Put
  <2>8. \A k \in 1..n : settings[k][1] \in Named(settings, n)
    BY DEF Named
  <2>9. \A r \in DOMAIN f[n].rules : f[n + 1].rules[r] = IF r = rule THEN bound ELSE f[n].rules[r]
    BY <2>3 DEF Put
  <2>10. f[n + 1].rules[rule] = bound
    BY <2>3 DEF Put
  <2>11. \A k \in 1..n + 1 : f[n + 1].rules[settings[k][1]] = settings[k][2]
    BY <2>1, <2>5, <2>6, <2>8, <2>9, <2>10 DEF HasSet
  <2>12. \A r \in DOMAIN parsed.rules :
           r \notin Named(settings, n + 1) => f[n + 1].rules[r] = parsed.rules[r]
    BY <2>1, <2>4, <2>9 DEF HasSet
  <2> QED
    BY <2>7, <2>11, <2>12 DEF HasSet
<1> HIDE DEF Good
<1>3. Len(settings) \in Good
  BY <1>0, <1>1, <1>2, Induction
<1> QED
  BY <1>3 DEF Good

\* One turn of the loop sets the rules of the adapter and leaves the others.
LEMMA AdaptSets ==
  ASSUME NEW parsed, NEW a, NEW element, NEW inputs,
         Once(AdaptedRules(a, element, Param(a, element), inputs))
  PROVE  LET settings == AdaptedRules(a, element, Param(a, element), inputs)
         IN  HasSet(adapt(parsed, a, element, inputs), parsed, settings, Len(settings))
<1> DEFINE settings == AdaptedRules(a, element, Param(a, element), inputs)
           message == element.data[a.name].message
           f == CHOOSE g : Sets(g, parsed, settings, message)
<1>1. adapt(parsed, a, element, inputs) = f[Len(settings)]
  BY DEF adapt, Sets
<1>2. Sets(f, parsed, settings, message)
  <2> HIDE DEF settings, message
  <2>1. \E g : Sets(g, parsed, settings, message)
    BY SetsExist DEF Once, settings
  <2> QED
    BY <2>1
<1> HIDE DEF settings, message, f
<1>3. HasSet(f[Len(settings)], parsed, settings, Len(settings))
  BY <1>2, SettingsAreSet DEF settings
<1> QED
  BY <1>1, <1>3 DEF settings

\* What adapter i makes of an element.
RulesOf(i, element, inputs) ==
  AdaptedRules(adapters[i], element, Param(adapters[i], element), inputs)

\* The adapters that find their attribute.
Applied(element) == {i \in DOMAIN adapters : adapters[i].name \in DOMAIN element.data}

\* t[n] is what is parsed after the first n adapters.
Turns(t, element, inputs) ==
  t = [n \in 0..Len(adapters) |->
        IF n = 0 THEN NoRules
        ELSE IF adapters[n].name \in DOMAIN element.data
               THEN adapt(t[n - 1], adapters[n], element, inputs)
               ELSE t[n - 1]]

\* The recursive function of Adapted exists.
LEMMA TurnsExist ==
  ASSUME NEW element, NEW inputs, Len(adapters) \in Nat
  PROVE  \E t : Turns(t, element, inputs)
<1> DEFINE Turn(parsed, n) == IF adapters[n].name \in DOMAIN element.data
                                THEN adapt(parsed, adapters[n], element, inputs)
                                ELSE parsed
           UpTo(t, m) ==
             t = [n \in 0..m |-> IF n = 0 THEN NoRules ELSE Turn(t[n - 1], n)]
           Good == {m \in Nat : \E t : UpTo(t, m)}
<1>0. \A t : Turns(t, element, inputs) <=> UpTo(t, Len(adapters))
  BY DEF Turns
<1> HIDE DEF Turn
<1>1. 0 \in Good
  <2>1. UpTo([n \in 0..0 |-> NoRules], 0)
    OBVIOUS
  <2> HIDE DEF UpTo
  <2> QED
    BY <2>1
<1>2. ASSUME NEW m \in Nat, m \in Good
      PROVE  m + 1 \in Good
  <2>1. PICK t : UpTo(t, m)
    BY <1>2
  <2> DEFINE h == [n \in 0..m + 1 |-> IF n <= m THEN t[n] ELSE Turn(t[m], n)]
             next == [n \in 0..m + 1 |-> IF n = 0 THEN NoRules ELSE Turn(h[n - 1], n)]
  <2>2. ASSUME NEW n \in 0..m + 1
        PROVE  h[n] = next[n]
    <3>1. CASE n = 0
      BY <2>1, <3>1
    <3>2. CASE n # 0 /\ n <= m
      <4>1. n \in 0..m /\ n - 1 \in 0..m /\ n - 1 \in 0..m + 1 /\ n - 1 <= m
        BY <3>2
      <4>2. t[n] = Turn(t[n - 1], n)
        BY <2>1, <3>2, <4>1
      <4> QED
        BY <3>2, <4>1, <4>2
    <3>3. CASE n = m + 1
      <4>1. n - 1 = m /\ m \in 0..m + 1 /\ ~(n <= m) /\ n # 0
        BY <3>3
      <4>2. h[m] = t[m]
        BY <4>1
      <4> QED
        BY <4>1, <4>2
    <3> QED
      BY <3>1, <3>2, <3>3
  <2>3. h = next
    BY <2>2
  <2>4. UpTo(h, m + 1)
    BY <2>3
  <2> HIDE DEF UpTo
  <2> QED
    BY <2>4
<1> HIDE DEF Good
<1>3. Len(adapters) \in Good
  BY <1>1, <1>2, Induction
<1> QED
  BY <1>0, <1>3 DEF Good

\* The names of the rules that adapter i sets.
NamesOf(i, element, inputs) ==
  {RulesOf(i, element, inputs)[k][1] : k \in DOMAIN RulesOf(i, element, inputs)}

\* Of the adapters from the first to the nth, i is the last one to set the rule.
Decides(i, rule, element, inputs, n) ==
  /\ rule \in NamesOf(i, element, inputs)
  /\ \A j \in Applied(element) \cap 1..n : j > i => rule \notin NamesOf(j, element, inputs)

\* The rules of the adapters up to the nth, and no others, each with the value
\* that the last one of them gives it.
HasAll(p, element, inputs, n) ==
  /\ DOMAIN p.rules = UNION {NamesOf(i, element, inputs) : i \in Applied(element) \cap 1..n}
  /\ \A i \in Applied(element) \cap 1..n : \A k \in DOMAIN RulesOf(i, element, inputs) :
       Decides(i, RulesOf(i, element, inputs)[k][1], element, inputs, n) =>
         p.rules[RulesOf(i, element, inputs)[k][1]] = RulesOf(i, element, inputs)[k][2]

\* Two adapters of an unambiguous element set different rules.
LEMMA NamesDiffer ==
  ASSUME NEW element, NEW inputs, Unambiguous(element, inputs),
         NEW i \in Applied(element), NEW j \in Applied(element), i # j
  PROVE  NamesOf(i, element, inputs) \cap NamesOf(j, element, inputs) = {}
<1> DEFINE Names(a) == {s[1] : s \in Range(AdaptedRules(a, element, Param(a, element), inputs))}
<1>1. Names(adapters[i]) \cap Names(adapters[j]) = {}
  BY DEF Unambiguous, Applied
<1>2. \A k \in DOMAIN adapters : Names(adapters[k]) = NamesOf(k, element, inputs)
  BY DEF NamesOf, RulesOf, Range
<1> QED
  BY <1>1, <1>2 DEF Applied

\* After the loop the rules of every adapter are there, as the last one set them.
LEMMA AllAreSet ==
  ASSUME NEW element, NEW inputs,
         Len(adapters) \in Nat, DOMAIN adapters = 1..Len(adapters),
         \A i \in DOMAIN adapters : Once(RulesOf(i, element, inputs))
  PROVE  HasAll(Adapted(element, inputs), element, inputs, Len(adapters))
<1> DEFINE t == CHOOSE u : Turns(u, element, inputs)
           Good == {n \in Nat : n <= Len(adapters) => HasAll(t[n], element, inputs, n)}
<1>1. Adapted(element, inputs) = t[Len(adapters)]
  BY DEF Adapted, Turns
<1>2. Turns(t, element, inputs)
  <2>1. \E u : Turns(u, element, inputs)
    BY TurnsExist
  <2> QED
    BY <2>1
<1> HIDE DEF t
<1>3. 0 \in Good
  <2>1. t[0] = NoRules
    BY <1>2 DEF Turns
  <2>2. DOMAIN NoRules.rules = {} /\ 1..0 = {}
    BY DEF NoRules
  <2> QED
    BY <2>1, <2>2 DEF HasAll
<1>4. ASSUME NEW n \in Nat, n \in Good
      PROVE  n + 1 \in Good
  <2> SUFFICES ASSUME n + 1 <= Len(adapters)
               PROVE  HasAll(t[n + 1], element, inputs, n + 1)
    OBVIOUS
  <2> DEFINE m == n + 1
  <2>1. HasAll(t[n], element, inputs, n)
    BY <1>4
  <2>2. m \in DOMAIN adapters /\ m \in 0..Len(adapters) /\ m # 0 /\ m - 1 = n
    OBVIOUS
  <2>3. CASE m \notin Applied(element)
    <3>1. t[m] = t[n]
      BY <1>2, <2>2, <2>3 DEF Turns, Applied
    <3>2. Applied(element) \cap 1..m = Applied(element) \cap 1..n
      BY <2>3
    <3> QED
      BY <2>1, <3>1, <3>2 DEF HasAll, Decides
  <2>4. CASE m \in Applied(element)
    <3> DEFINE settings == RulesOf(m, element, inputs)
    <3>1. t[m] = adapt(t[n], adapters[m], element, inputs)
      BY <1>2, <2>2, <2>4 DEF Turns, Applied
    <3>2. HasSet(t[m], t[n], settings, Len(settings))
      BY <2>2, <3>1, AdaptSets DEF RulesOf
    <3>3. Applied(element) \cap 1..m = (Applied(element) \cap 1..n) \cup {m}
      BY <2>4
    <3>4. DOMAIN settings = 1..Len(settings)
      BY <2>2 DEF Once
    <3>5. Named(settings, Len(settings)) = NamesOf(m, element, inputs)
      BY <3>4 DEF Named, NamesOf
    <3> HIDE DEF settings, m
    <3>6. DOMAIN t[m].rules
            = UNION {NamesOf(i, element, inputs) : i \in Applied(element) \cap 1..m}
      BY <2>1, <3>2, <3>3, <3>5 DEF HasAll, HasSet
    <3>7. ASSUME NEW i \in Applied(element) \cap 1..m, NEW k \in DOMAIN RulesOf(i, element, inputs),
                 Decides(i, RulesOf(i, element, inputs)[k][1], element, inputs, m)
          PROVE  t[m].rules[RulesOf(i, element, inputs)[k][1]] = RulesOf(i, element, inputs)[k][2]
      <4>1. CASE i = m
        BY <3>2, <3>4, <3>7, <4>1 DEF HasSet, settings
      <4>2. CASE i # m
        <5> DEFINE rule == RulesOf(i, element, inputs)[k][1]
        <5>0. i \in Applied(element) \cap 1..n
          BY <3>3, <3>7, <4>2
        <5>1. i \in Applied(element) \cap 1..n /\ m \in Applied(element) \cap 1..m /\ m > i
          BY <2>4, <5>0 DEF m
        <5>2. rule \in NamesOf(i, element, inputs)
          BY <3>7 DEF NamesOf
        <5>3. rule \notin NamesOf(m, element, inputs)
          BY <3>3, <3>7, <5>1 DEF Decides
        <5>4. rule \in DOMAIN t[n].rules
          BY <2>1, <5>1, <5>2 DEF HasAll
        <5>5. Decides(i, rule, element, inputs, n)
          BY <3>3, <3>7 DEF Decides
        <5>6. t[n].rules[rule] = RulesOf(i, element, inputs)[k][2]
          BY <2>1, <3>7, <5>1, <5>5 DEF HasAll
        <5>7. t[m].rules[rule] = t[n].rules[rule]
          BY <3>2, <3>5, <5>3, <5>4 DEF HasSet
        <5> QED
          BY <5>6, <5>7
      <4> QED
        BY <4>1, <4>2
    <3>8. HasAll(t[m], element, inputs, m)
      BY <3>6, <3>7 DEF HasAll
    <3> QED
      BY <3>8 DEF m
  <2> QED
    BY <2>3, <2>4
<1> HIDE DEF Good
<1>5. Len(adapters) \in Good
  BY <1>3, <1>4, Induction
<1> QED
  BY <1>1, <1>5 DEF Good

\* There are 17 adapters; none sets the rule that parseElement adds.
LEMMA Kinds ==
  /\ Len(adapters) = 17 /\ DOMAIN adapters = 1..17
  /\ \A i \in 1..17 :
       \/ adapters[i].kind = "minmax" /\ "__dummy__" \notin {adapters[i].rules[k] : k \in 1..3}
       \/ adapters[i].kind \in {"bool", "single"} /\ adapters[i].rules[1] # "__dummy__"
       \/ adapters[i].kind \in {"equalto", "required", "remote", "password", "fileextensions"}
<1>1. Len(adapters) = 17 /\ DOMAIN adapters = 1..17
  BY DEF adapters
<1>2. ASSUME NEW i \in {1, 3, 17}
      PROVE  \/ adapters[i].kind \in {"bool", "single"} /\ adapters[i].rules[1] # "__dummy__"
             \/ adapters[i].kind = "fileextensions"
  BY DEF adapters, addSingleVal, addBool, add
<1>3. ASSUME NEW i \in {2, 4, 5, 6, 7, 8}
      PROVE  adapters[i].kind \in {"bool", "single"} /\ adapters[i].rules[1] # "__dummy__"
  BY Registrations DEF addSingleVal, addBool
<1>4. ASSUME NEW i \in {9, 10, 11, 12}
      PROVE  adapters[i].kind = "minmax" /\ "__dummy__" \notin {adapters[i].rules[k] : k \in 1..3}
  <2>1. /\ adapters[i].kind = "minmax" /\ adapters[i].rules[1] # "__dummy__"
        /\ adapters[i].rules[2] # "__dummy__" /\ adapters[i].rules[3] # "__dummy__"
    BY Registrations DEF addMinMax
  <2>2. \A k \in 1..3 : k = 1 \/ k = 2 \/ k = 3
    OBVIOUS
  <2> QED
    BY <2>1, <2>2
<1>5. ASSUME NEW i \in {13, 14, 15, 16}
      PROVE  adapters[i].kind \in {"equalto", "required", "remote", "password"}
  BY Registrations DEF add
<1>6. \A i \in 1..17 : \/ i \in {1, 3, 17} \/ i \in {2, 4, 5, 6, 7, 8}
                       \/ i \in {9, 10, 11, 12} \/ i \in {13, 14, 15, 16}
  OBVIOUS
<1> QED
  BY <1>1, <1>2, <1>3, <1>4, <1>5, <1>6

\* No name is set twice by a list, and __dummy__ is not.
Proper(settings) ==
  /\ Once(settings) /\ \A k \in DOMAIN settings : settings[k][1] # "__dummy__"

\* At most one rule is proper.
LEMMA ShortIsProper ==
  /\ Proper(<<>>)
  /\ \A rule, bound : rule # "__dummy__" => Proper(<< <<rule, bound>> >>)
BY DEF Proper, Once

\* The lists of a password are one after the other.
LEMMA ConcatIsProper ==
  ASSUME NEW S, NEW s \in Seq(S), NEW t \in Seq(S), Proper(s), Proper(t),
         \A k \in DOMAIN s, l \in DOMAIN t : s[k][1] # t[l][1]
  PROVE  Proper(s \o t)
<1> DEFINE st == s \o t
<1>1. /\ st \in Seq(S) /\ Len(st) = Len(s) + Len(t)
      /\ \A k \in 1..Len(s) : st[k] = s[k]
      /\ \A k \in 1..Len(t) : st[Len(s) + k] = t[k]
  OBVIOUS
<1> HIDE DEF st
<1>2. /\ Len(s) \in Nat /\ Len(t) \in Nat /\ DOMAIN st = 1..Len(st)
      /\ DOMAIN s = 1..Len(s) /\ DOMAIN t = 1..Len(t)
  BY <1>1
<1>3. ASSUME NEW k \in DOMAIN st
      PROVE  \/ k \in DOMAIN s /\ st[k] = s[k]
             \/ k - Len(s) \in DOMAIN t /\ st[k] = t[k - Len(s)]
  <2>1. CASE k <= Len(s)
    BY <1>1, <1>2, <2>1
  <2>2. CASE k > Len(s)
    <3>1. k - Len(s) \in 1..Len(t) /\ Len(s) + (k - Len(s)) = k
      BY <1>1, <1>2, <2>2
    <3> QED
      BY <1>1, <1>2, <3>1
  <2> QED
    BY <1>2, <2>1, <2>2
<1>4. ASSUME NEW k \in DOMAIN st, NEW l \in DOMAIN st, st[k][1] = st[l][1]
      PROVE  k = l
  <2>1. CASE k \in DOMAIN s /\ st[k] = s[k] /\ l \in DOMAIN s /\ st[l] = s[l]
    BY <1>4, <2>1 DEF Proper, Once
  <2>2. CASE /\ k - Len(s) \in DOMAIN t /\ st[k] = t[k - Len(s)]
             /\ l - Len(s) \in DOMAIN t /\ st[l] = t[l - Len(s)]
    <3>1. k - Len(s) = l - Len(s)
      BY <1>4, <2>2 DEF Proper, Once
    <3> QED
      BY <1>2, <3>1
  <2>3. CASE /\ k \in DOMAIN s /\ st[k] = s[k]
             /\ l - Len(s) \in DOMAIN t /\ st[l] = t[l - Len(s)]
    BY <1>4, <2>3
  <2>4. CASE /\ k - Len(s) \in DOMAIN t /\ st[k] = t[k - Len(s)]
             /\ l \in DOMAIN s /\ st[l] = s[l]
    BY <1>4, <2>4
  <2> QED
    BY <1>3, <2>1, <2>2, <2>3, <2>4
<1>5. \A k \in DOMAIN st : st[k][1] # "__dummy__"
  BY <1>3 DEF Proper
<1> QED
  BY <1>1, <1>2, <1>4, <1>5 DEF Proper, Once, st

\* The three rules of a password have three names.
LEMMA PasswordIsProper ==
  ASSUME NEW param
  PROVE  Proper(PasswordRules(param))
<1> DEFINE Given(rule, bound) == IF Truthy(bound) THEN << <<rule, bound>> >> ELSE <<>>
           one == Given("minlength", param["min"])
           two == Given("nonalphamin", param["nonalphamin"])
           three == Given("regex", param["regex"])
           S == {<<"minlength", param["min"]>>, <<"nonalphamin", param["nonalphamin"]>>,
                 <<"regex", param["regex"]>>}
           NamedOnly(s, names) == \A k \in DOMAIN s : s[k][1] \in names
<1>1. PasswordRules(param) = (one \o two) \o three
  BY DEF PasswordRules
<1>2. \A rule, bound : NamedOnly(Given(rule, bound), {rule})
  OBVIOUS
<1>3. \A rule, bound : rule # "__dummy__" => Proper(Given(rule, bound))
  BY ShortIsProper
<1>4. \A rule, bound : <<rule, bound>> \in S => Given(rule, bound) \in Seq(S)
  <2>1. \A x \in S : <<x>> \in Seq(S)
    OBVIOUS
  <2>2. <<>> \in Seq(S)
    OBVIOUS
  <2> QED
    BY <2>1, <2>2
<1>5. /\ <<"minlength", param["min"]>> \in S /\ <<"regex", param["regex"]>> \in S
      /\ <<"nonalphamin", param["nonalphamin"]>> \in S
  OBVIOUS
<1> HIDE DEF Given, S
<1>6. /\ one \in Seq(S) /\ two \in Seq(S) /\ three \in Seq(S)
      /\ Proper(one) /\ Proper(two) /\ Proper(three)
      /\ NamedOnly(one, {"minlength"}) /\ NamedOnly(two, {"nonalphamin"})
      /\ NamedOnly(three, {"regex"})
  BY <1>2, <1>3, <1>4, <1>5
<1> HIDE DEF one, two, three
<1>7. Proper(one \o two)
  <2>1. \A k \in DOMAIN one, l \in DOMAIN two : one[k][1] # two[l][1]
    BY <1>6
  <2> QED
    BY <1>6, <2>1, ConcatIsProper
<1>8. one \o two \in Seq(S) /\ NamedOnly(one \o two, {"minlength", "nonalphamin"})
  <2>1. /\ one \o two \in Seq(S) /\ Len(one \o two) = Len(one) + Len(two)
        /\ \A k \in 1..Len(one) : (one \o two)[k] = one[k]
        /\ \A k \in 1..Len(two) : (one \o two)[Len(one) + k] = two[k]
    BY <1>6
  <2>2. ASSUME NEW k \in DOMAIN (one \o two)
        PROVE  (one \o two)[k][1] \in {"minlength", "nonalphamin"}
    <3>0. DOMAIN one = 1..Len(one) /\ DOMAIN two = 1..Len(two)
          /\ Len(one) \in Nat /\ Len(two) \in Nat /\ k \in 1..Len(one \o two)
      BY <1>6, <2>1
    <3>1. CASE k <= Len(one)
      BY <1>6, <2>1, <3>0, <3>1
    <3>2. CASE k > Len(one)
      <4>1. k - Len(one) \in 1..Len(two) /\ Len(one) + (k - Len(one)) = k
        BY <2>1, <3>0, <3>2
      <4>2. (one \o two)[k] = two[k - Len(one)]
        BY <2>1, <4>1
      <4> QED
        BY <1>6, <3>0, <4>1, <4>2
    <3> QED
      BY <3>0, <3>1, <3>2
  <2> QED
    BY <2>1, <2>2
<1>9. Proper((one \o two) \o three)
  <2> DEFINE both == one \o two
  <2>1. both \in Seq(S) /\ Proper(both) /\ NamedOnly(both, {"minlength", "nonalphamin"})
    BY <1>7, <1>8
  <2> HIDE DEF both
  <2>2. \A k \in DOMAIN both, l \in DOMAIN three : both[k][1] # three[l][1]
    BY <1>6, <2>1
  <2>3. Proper(both \o three)
    BY <1>6, <2>1, <2>2, ConcatIsProper
  <2> QED
    BY <2>3 DEF both
<1> QED
  BY <1>1, <1>9

\* No adapter sets a rule twice, or the one that parseElement adds.
LEMMA AdaptersAreProper ==
  ASSUME NEW i \in DOMAIN adapters, NEW element, NEW inputs
  PROVE  Proper(RulesOf(i, element, inputs))
<1> DEFINE a == adapters[i]
           param == Param(a, element)
           settings == RulesOf(i, element, inputs)
<1>0. \A rule, bound : settings = << <<rule, bound>> >> /\ rule # "__dummy__" => Proper(settings)
  BY ShortIsProper
<1>1. CASE a.kind = "minmax" /\ "__dummy__" \notin {a.rules[k] : k \in 1..3}
  <2>1. settings = MinMaxRule(a, param)
    BY <1>1 DEF RulesOf, AdaptedRules
  <2>2. a.rules[1] # "__dummy__" /\ a.rules[2] # "__dummy__" /\ a.rules[3] # "__dummy__"
    <3>1. 1 \in 1..3 /\ 2 \in 1..3 /\ 3 \in 1..3
      OBVIOUS
    <3> QED
      BY <1>1, <3>1
  <2> HIDE DEF settings, a, param
  <2>3. \/ settings = <<>>
        \/ \E bound : \/ settings = << <<a.rules[1], bound>> >>
                      \/ settings = << <<a.rules[2], bound>> >>
                      \/ settings = << <<a.rules[3], bound>> >>
    BY <2>1 DEF MinMaxRule
  <2> QED
    BY <2>2, <2>3, ShortIsProper DEF settings
<1>2. CASE a.kind \in {"bool", "single"} /\ a.rules[1] # "__dummy__"
  <2>1. \E bound : settings = << <<a.rules[1], bound>> >>
    BY <1>2 DEF RulesOf, AdaptedRules, BoolRule, SingleValRule
  <2> HIDE DEF settings
  <2> QED
    BY <1>2, <2>1, ShortIsProper DEF settings
<1>3. CASE a.kind \in {"equalto", "remote", "fileextensions"}
  <2>1. \E rule, bound : rule # "__dummy__" /\ settings = << <<rule, bound>> >>
    BY <1>3 DEF RulesOf, AdaptedRules, EqualToRule, RemoteRule, FileExtensionsRule
  <2> HIDE DEF settings
  <2> QED
    BY <2>1, ShortIsProper DEF settings
<1>4. CASE a.kind = "required"
  <2>1. settings = <<>> \/ settings = << <<"required", True>> >>
    BY <1>4 DEF RulesOf, AdaptedRules, RequiredRule
  <2> QED
    BY <2>1, ShortIsProper
<1>5. CASE a.kind = "password"
  BY <1>5, PasswordIsProper DEF RulesOf, AdaptedRules
<1> HIDE DEF a, settings
<1> QED
  BY <1>1, <1>2, <1>3, <1>4, <1>5, Kinds DEF a, settings

-----------------------------------------------------------------------------
(* parseElement puts the rules of all adapters together.                   *)

\* For any element, also one with attributes that set the same rule: parseElement
\* sets what the adapters of its attributes set, and each rule has the value that
\* the last registered of them gives it.
THEOREM LastAdapterDecides ==
  ASSUME NEW element, NEW inputs
  PROVE  LET set == parseElement(element, inputs).rules
         IN  /\ DOMAIN set = {"__dummy__"} \cup
                   UNION {NamesOf(i, element, inputs) : i \in Applied(element)}
             /\ set["__dummy__"] = True
             /\ \A i \in Applied(element) : \A k \in DOMAIN RulesOf(i, element, inputs) :
                  Decides(i, RulesOf(i, element, inputs)[k][1], element, inputs, Len(adapters)) =>
                    set[RulesOf(i, element, inputs)[k][1]] = RulesOf(i, element, inputs)[k][2]
<1> DEFINE p == Adapted(element, inputs)
           set == parseElement(element, inputs).rules
<1>1. HasAll(p, element, inputs, Len(adapters))
  <2>1. \A i \in DOMAIN adapters : Once(RulesOf(i, element, inputs))
    BY AdaptersAreProper DEF Proper
  <2> QED
    BY <2>1, Kinds, AllAreSet
<1>2. Applied(element) \cap 1..Len(adapters) = Applied(element) /\ Applied(element) \subseteq 1..17
  BY Kinds DEF Applied
<1>3. set = Put(p.rules, "__dummy__", True)
  BY DEF parseElement, setValidationValues
<1>4. \A i \in Applied(element) : "__dummy__" \notin NamesOf(i, element, inputs)
  BY <1>2, AdaptersAreProper, Kinds DEF NamesOf, Proper
<1> HIDE DEF p, set
<1>5. /\ DOMAIN set = DOMAIN p.rules \cup {"__dummy__"} /\ set["__dummy__"] = True
      /\ \A rule \in DOMAIN p.rules : rule # "__dummy__" => set[rule] = p.rules[rule]
  BY <1>3 DEF Put
<1>6. ASSUME NEW i \in Applied(element), NEW k \in DOMAIN RulesOf(i, element, inputs),
             Decides(i, RulesOf(i, element, inputs)[k][1], element, inputs, Len(adapters))
      PROVE  set[RulesOf(i, element, inputs)[k][1]] = RulesOf(i, element, inputs)[k][2]
  <2> DEFINE rule == RulesOf(i, element, inputs)[k][1]
  <2>1. rule \in NamesOf(i, element, inputs)
    BY <1>6 DEF NamesOf
  <2>2. rule \in DOMAIN p.rules /\ rule # "__dummy__"
    BY <1>1, <1>2, <1>4, <2>1 DEF HasAll
  <2>3. p.rules[rule] = RulesOf(i, element, inputs)[k][2]
    BY <1>1, <1>2, <1>6 DEF HasAll
  <2> QED
    BY <1>5, <2>2, <2>3
<1>7. DOMAIN set = {"__dummy__"} \cup UNION {NamesOf(i, element, inputs) : i \in Applied(element)}
  BY <1>1, <1>2, <1>5 DEF HasAll
<1> QED
  BY <1>5, <1>6, <1>7 DEF set

\* For any element whose attributes are well defined and unambiguous, in any form,
\* and any value that a range with one bound places as the numbers are: the rules
\* that parseElement makes of it, as the validator keeps them, accept the value
\* exactly if it satisfies all the attributes.
THEOREM ElementsAreExact ==
  ASSUME NEW element, NEW values,
         WellPosed(element, values[element.name], DOMAIN values),
         Unambiguous(element, DOMAIN values),
         OrderedAlike(element, values[element.name])
  PROVE  Exact(element, Copied(parseElement(element, DOMAIN values)), values)
<1> DEFINE string == values[element.name]
           inputs == DOMAIN values
           Other(bound) == IF bound \in DOMAIN values THEN values[bound] ELSE Undefined
           Met(rule, bound) == bound # Undefined => Accepts(rule, bound, string, Other(bound))
           parsed == parseElement(element, inputs)
           Settings(i) == RulesOf(i, element, inputs)
<1>1. /\ DOMAIN parsed.rules = {"__dummy__"} \cup
             UNION {NamesOf(i, element, inputs) : i \in Applied(element)}
      /\ parsed.rules["__dummy__"] = True
      /\ \A i \in Applied(element) : \A k \in DOMAIN Settings(i) :
           Decides(i, Settings(i)[k][1], element, inputs, Len(adapters)) =>
             parsed.rules[Settings(i)[k][1]] = Settings(i)[k][2]
  BY LastAdapterDecides
<1>2. DOMAIN parsed = {"order", "rules", "messages"}
  BY DEF parseElement, setValidationValues
<1> HIDE DEF parsed, Settings
<1>3. \A i : NamesOf(i, element, inputs) = {Settings(i)[k][1] : k \in DOMAIN Settings(i)}
  BY DEF NamesOf, Settings
<1>4. ASSUME NEW i \in Applied(element), NEW k \in DOMAIN Settings(i)
      PROVE  parsed.rules[Settings(i)[k][1]] = Settings(i)[k][2]
  <2>1. Settings(i)[k][1] \in NamesOf(i, element, inputs)
    BY <1>3
  <2>2. ASSUME NEW j \in Applied(element), j # i
        PROVE  Settings(i)[k][1] \notin NamesOf(j, element, inputs)
    BY <2>1, <2>2, NamesDiffer
  <2>3. i \in Nat
    BY Kinds DEF Applied
  <2>4. Decides(i, Settings(i)[k][1], element, inputs, Len(adapters))
    BY <2>1, <2>2, <2>3 DEF Decides
  <2> QED
    BY <1>1, <2>4
<1>5. (\A rule \in DOMAIN Copied(parsed).rules :
         Accepts(rule, Copied(parsed).rules[rule], string, Other(Copied(parsed).rules[rule])))
      <=> \A rule \in DOMAIN parsed.rules : Met(rule, parsed.rules[rule])
  <2>1. Copied(parsed).rules
          = [rule \in {r \in DOMAIN parsed.rules : parsed.rules[r] # Undefined} |-> parsed.rules[rule]]
    BY <1>2 DEF Copied
  <2> HIDE DEF Other
  <2> QED
    BY <2>1
<1>6. Met("__dummy__", True)
  BY DEF Accepts
<1> HIDE DEF Met
<1>7. (\A rule \in DOMAIN parsed.rules : Met(rule, parsed.rules[rule]))
      <=> \A i \in Applied(element) : \A k \in DOMAIN Settings(i) :
            Met(Settings(i)[k][1], Settings(i)[k][2])
  <2>1. ASSUME \A rule \in DOMAIN parsed.rules : Met(rule, parsed.rules[rule]),
               NEW i \in Applied(element), NEW k \in DOMAIN Settings(i)
        PROVE  Met(Settings(i)[k][1], Settings(i)[k][2])
    <3>1. Settings(i)[k][1] \in DOMAIN parsed.rules
      BY <1>1, <1>3
    <3> QED
      BY <1>4, <2>1, <3>1
  <2>2. ASSUME \A i \in Applied(element) : \A k \in DOMAIN Settings(i) :
                 Met(Settings(i)[k][1], Settings(i)[k][2]),
               NEW rule \in DOMAIN parsed.rules
        PROVE  Met(rule, parsed.rules[rule])
    <3>1. CASE rule = "__dummy__"
      BY <1>1, <1>6, <3>1
    <3>2. CASE rule # "__dummy__"
      <4>1. PICK i \in Applied(element) : rule \in NamesOf(i, element, inputs)
        BY <1>1, <3>2
      <4>2. PICK k \in DOMAIN Settings(i) : rule = Settings(i)[k][1]
        BY <1>3, <4>1
      <4> QED
        BY <1>4, <2>2, <4>1, <4>2
    <3> QED
      BY <3>1, <3>2
  <2> QED
    BY <2>1, <2>2
<1>8. ASSUME NEW i \in Applied(element)
       PROVE  (\A k \in DOMAIN Settings(i) : Met(Settings(i)[k][1], Settings(i)[k][2]))
                <=> Asked(adapters[i], element, string, values)
  <2>1. (\A k \in DOMAIN Settings(i) : Met(Settings(i)[k][1], Settings(i)[k][2]))
          <=> Accepted(Settings(i), string, values)
    BY DEF Accepted, Met
  <2>2. AdapterIsExact(adapters[i], element, string, values)
    <3>1. /\ i \in DOMAIN adapters /\ WellGiven(adapters[i], element, DOMAIN values)
          /\ (adapters[i].name = "range" /\ string # <<>>) => NumberOf[string] \in Int
      BY DEF WellPosed, Applied
    <3>2. /\ element.checkbox \in BOOLEAN /\ Len(string) \in Nat /\ Undefined \notin DOMAIN values
      BY DEF WellPosed
    <3>3. adapters[i].name = "range" => SameOrder(Param(adapters[i], element), string)
      BY DEF OrderedAlike, Applied
    <3> HIDE DEF string
    <3> QED
      BY <3>1, <3>2, <3>3, AdaptersAreExact
  <2> QED
    BY <2>1, <2>2 DEF AdapterIsExact, Settings, RulesOf
<1>9. Satisfies(element, string, values)
         <=> \A i \in Applied(element) : Asked(adapters[i], element, string, values)
  BY DEF Satisfies, Applied
<1>10. (\A i \in Applied(element) : \A k \in DOMAIN Settings(i) :
          Met(Settings(i)[k][1], Settings(i)[k][2]))
       <=> \A i \in Applied(element) : Asked(adapters[i], element, string, values)
  BY <1>8
<1>11. (\A rule \in DOMAIN Copied(parsed).rules :
         Accepts(rule, Copied(parsed).rules[rule], string, Other(Copied(parsed).rules[rule])))
       <=> Satisfies(element, string, values)
  BY <1>5, <1>7, <1>9, <1>10
<1> QED
  BY <1>11 DEF Exact, parsed

=============================================================================
