-------------------------- MODULE ValidationRules ---------------------------
(***************************************************************************)
(* The rules a form is checked with: how they are evaluated, and the       *)
(* regular expressions they may hold.                                      *)
(***************************************************************************)
EXTENDS EventLoop, SequencesExt

-----------------------------------------------------------------------------
(***************************************************************************)
(* The rules a form is checked with (frontend/src/lib/ast): a rule set is  *)
(* downloaded, compiled to closures (compiler.ts) that the resolver of the *)
(* form calls (resolver.ts), or sent as bytes (binary.ts) to the sandbox   *)
(* (sandbox.ts), whose interpreter counts gas (contracts/validation/src/   *)
(* ast/).  A rule is its expression and its guard; a regular expression is *)
(* a plain word, and a string one of a few.                                *)
(***************************************************************************)

CONSTANTS
    MaxDepth, MaxAstNodes, MaxOperands,    \* the limits of the compiler
    GasLimit

ASSUME RulesAssumption == {MaxDepth, MaxAstNodes, MaxOperands, GasLimit} \subseteq Nat

(***************************************************************************)
(* Values.  A number is an integer, or NaN, which only a field can hold.   *)
(***************************************************************************)
Null == [type |-> "null", val |-> 0]
Bool(b) == [type |-> "bool", val |-> b]
Num(n) == [type |-> "num", val |-> n]
Str(s) == [type |-> "str", val |-> s]
NaN == [type |-> "num", val |-> -999]

\* In the order of their characters.
Strings == <<"", " ", "-1", "0", "1", "false", "true", "x">>
Rank(s) == CHOOSE i \in DOMAIN Strings : Strings[i] = s
Blank(s) == s \in {"", " "}
Trimmed(s) == IF Blank(s) THEN "" ELSE s
Parsed(s) ==
    CASE s = "-1" -> Num(-1) [] s = "0" -> Num(0) [] s = "1" -> Num(1) [] OTHER -> NaN

stringify(v) ==
    CASE v.type = "null" -> "" [] v.type = "str" -> v.val
      [] v = Bool(TRUE) -> "true" [] v = Bool(FALSE) -> "false"
      [] OTHER -> ToString(v.val)

asNumber(v) ==
    CASE v.type = "num" -> v [] v.type = "str" -> Parsed(v.val) [] OTHER -> NaN

truthy(v) ==
    CASE v.type = "null" -> FALSE [] v.type = "bool" -> v.val
      [] v.type = "num" -> v \notin {Num(0), NaN} [] v.type = "str" -> v.val # ""

equals(a, b) == a.type = b.type /\ a.val = b.val /\ a # NaN

\* -1, 0 or 1, or None for two values that have no order.
order(a, b) ==
    LET Sign(n) == IF n < 0 THEN -1 ELSE IF n = 0 THEN 0 ELSE 1
    IN  CASE a.type = "num" /\ b.type = "num" /\ NaN \notin {a, b} -> Num(Sign(a.val - b.val))
          [] a.type = "str" /\ b.type = "str" -> Num(Sign(Rank(a.val) - Rank(b.val)))
          [] OTHER -> Null

applyCompare(op, a, b) ==
    CASE op = "==" -> equals(a, b)
      [] op = "!=" -> ~equals(a, b)
      [] OTHER -> LET cmp == order(a, b)
                  IN  cmp # Null /\ CASE op = ">" -> cmp.val > 0 [] op = ">=" -> cmp.val >= 0
                                      [] op = "<" -> cmp.val < 0 [] op = "<=" -> cmp.val <= 0

\* JavaScript's remainder has the sign of the dividend.
Remainder(x, y) == LET m == (IF x < 0 THEN -x ELSE x) % (IF y < 0 THEN -y ELSE y)
                   IN  IF x < 0 THEN -m ELSE m

applyArith(op, a, b) ==
    LET x == asNumber(a)
        y == asNumber(b)
    IN  CASE NaN \in {x, y} -> Null
          [] op = "+" -> Num(x.val + y.val)
          [] op = "-" -> Num(x.val - y.val)
          [] op = "*" -> Num(x.val * y.val)
          [] op = "%" -> IF y.val = 0 THEN Null ELSE Num(Remainder(x.val, y.val))

\* A day and an hour are taken as 24 and 1.
UNARY_FNS(fn, v) ==
    LET n == asNumber(v)
        Numeric(r) == IF n = NaN THEN Null ELSE Num(r)
    IN  CASE fn = "toNumber" -> Numeric(n.val)
          [] fn = "abs" -> Numeric(IF n.val < 0 THEN -n.val ELSE n.val)
          [] fn = "days" -> Numeric(24 * n.val)
          [] fn = "hours" -> Numeric(n.val)
          [] fn = "len" -> Num(Len(stringify(v)))
          [] fn = "trim" -> Str(IF v.type = "str" THEN Trimmed(v.val) ELSE stringify(v))
          [] fn = "isBlank" -> Bool(v = Null \/ (v.type = "str" /\ Blank(v.val)))

(***************************************************************************)
(* The language.  Expressions are records with a kind, as in types.ts.     *)
(***************************************************************************)
Now == 1
Children(e) ==
    CASE e.kind \in {"lit", "field", "now"} -> <<>>
      [] e.kind \in {"not", "match", "call"} -> <<e.operand>>
      [] e.kind \in {"and", "or"} -> e.operands
      [] e.kind \in {"compare", "arith"} -> <<e.left, e.right>>
      [] e.kind = "in" -> <<e.value>> \o e.set

RECURSIVE Nodes(_), Depth(_)
Nodes(e) == 1 + FoldSeq(+, 0, [i \in DOMAIN Children(e) |-> Nodes(Children(e)[i])])
Depth(e) == FoldSeq(LAMBDA d, m : IF d >= m THEN d + 1 ELSE m, 0,
                    [i \in DOMAIN Children(e) |-> Depth(Children(e)[i])])

RECURSIVE FewOperands(_)
FewOperands(e) ==
    /\ e.kind \in {"and", "or"} => Len(e.operands) <= MaxOperands
    /\ e.kind = "in" => Len(e.set) <= MaxOperands
    /\ \A i \in DOMAIN Children(e) : FewOperands(Children(e)[i])

\* What compileRuleSet checks: the nodes of the rule share one budget.
compileRule(rule) ==
    /\ Nodes(rule.assert) + (IF rule.when = None THEN 0 ELSE Nodes(rule.when)) <= MaxAstNodes
    /\ \A e \in {rule.assert, rule.when} \ {None} : Depth(e) <= MaxDepth /\ FewOperands(e)

\* The closure that compileExpr makes of e, called.
RECURSIVE Closure(_, _)
Closure(e, value) ==
    CASE e.kind = "lit" -> e.value
      [] e.kind = "field" -> value
      [] e.kind = "now" -> Num(Now)
      [] e.kind = "not" -> Bool(~truthy(Closure(e.operand, value)))
      [] e.kind = "and" ->
           Bool(\A i \in DOMAIN e.operands : truthy(Closure(e.operands[i], value)))
      [] e.kind = "or" ->
           Bool(\E i \in DOMAIN e.operands : truthy(Closure(e.operands[i], value)))
      [] e.kind = "compare" ->
           Bool(applyCompare(e.op, Closure(e.left, value), Closure(e.right, value)))
      [] e.kind = "arith" -> applyArith(e.op, Closure(e.left, value), Closure(e.right, value))
      [] e.kind = "in" ->
           Bool(\E i \in DOMAIN e.set : equals(Closure(e.value, value), Closure(e.set[i], value)))
      [] e.kind = "match" -> Bool(stringify(Closure(e.operand, value)) = e.pattern)
      [] e.kind = "call" -> UNARY_FNS(e.fn, Closure(e.operand, value))

\* A rule passes when its guard does not hold or its assertion does.
test(rule, value) ==
    (rule.when # None /\ ~truthy(Closure(rule.when, value))) \/ truthy(Closure(rule.assert, value))

(***************************************************************************)
(* The sandbox: what JSON keeps of a value, and the interpreter, which     *)
(* pays for every step and stops when the gas is gone.  Its result is the  *)
(* value and the gas that is left, or None.                                *)
(***************************************************************************)
ToJson(v) == IF v = NaN THEN Null ELSE v

as_number(v) == CASE v.type = "num" -> v [] v.type = "str" -> Parsed(v.val) [] OTHER -> NaN

\* Mutant: an empty string holds.
is_truthy_EmptyHolds(v) == v \notin {Null, Bool(FALSE), Num(0)}

is_truthy(v) == v \notin {Null, Bool(FALSE), Num(0), Str("")}

apply_compare(op, a, b) ==
    CASE op = "==" -> a = b
      [] op = "!=" -> a # b
      [] OTHER ->
           /\ a.type = b.type /\ a.type \in {"num", "str"}
           /\ LET x == IF a.type = "num" THEN a.val ELSE Rank(a.val)
                  y == IF b.type = "num" THEN b.val ELSE Rank(b.val)
              IN  CASE op = ">" -> x > y [] op = ">=" -> x >= y
                    [] op = "<" -> x < y [] op = "<=" -> x <= y

eval_call(fn, v) ==
    LET n == as_number(v)
    IN  CASE fn \in {"toNumber", "abs", "days", "hours"} ->
               IF n = NaN THEN Null
               ELSE Num(CASE fn = "toNumber" -> n.val [] fn = "days" -> n.val * 24
                          [] fn = "hours" -> n.val
                          [] fn = "abs" -> IF n.val < 0 THEN -n.val ELSE n.val)
          [] fn = "len" -> Num(IF v = Null THEN 0 ELSE Len(stringify(v)))
          [] fn = "trim" -> Str(IF Blank(stringify(v)) THEN "" ELSE stringify(v))
          [] fn = "isBlank" -> Bool(Blank(stringify(v)))

apply_arith(op, a, b) ==
    LET x == as_number(a)
        y == as_number(b)
    IN  IF x = NaN \/ y = NaN \/ (op = "%" /\ y.val = 0) THEN Null
        ELSE Num(CASE op = "+" -> x.val + y.val [] op = "-" -> x.val - y.val
                   [] op = "*" -> x.val * y.val [] op = "%" -> Remainder(x.val, y.val))

Pays(gas, cost) == IF gas = None \/ gas < cost THEN None ELSE gas - cost
Result(v, gas) == IF gas = None THEN None ELSE [val |-> v, gas |-> gas]

\* Scan looks at the operands from the i-th on, paying for each, and stops at the first
\* that is falsy, truthy or equal to a target; it tells whether there was one.
Falsy == [val |-> "falsy"]
Truthy == [val |-> "truthy"]
Stops(at, x) ==
    CASE at = Falsy -> ~is_truthy(x) [] at = Truthy -> is_truthy(x) [] OTHER -> x = at.val

RECURSIVE eval_expr(_, _, _), Scan(_, _, _, _, _, _)
Scan(es, i, cost, at, v, gas) ==
    IF i > Len(es) THEN Result(FALSE, gas)
    ELSE LET r == eval_expr(es[i], v, Pays(gas, cost))
         IN  IF r = None THEN None
             ELSE IF Stops(at, r.val) THEN Result(TRUE, r.gas)
             ELSE Scan(es, i + 1, cost, at, v, r.gas)
eval_expr(e, v, gas) ==
    LET g == Pays(gas, 1)
        Then(r, F(_)) == IF r = None THEN None ELSE Result(F(r.val), r.gas)
        Both(F(_, _)) ==
            LET l == eval_expr(e.left, v, Pays(g, 2))
                r == IF l = None THEN None ELSE eval_expr(e.right, v, l.gas)
            IN  IF r = None THEN None ELSE Result(F(l.val, r.val), r.gas)
    IN  CASE g = None -> None
          [] e.kind = "lit" -> Result(e.value, Pays(g, 1))
          [] e.kind = "field" -> Result(ToJson(v), Pays(g, 3))
          [] e.kind = "now" -> Result(Num(Now), Pays(g, 2))
          [] e.kind = "not" ->
               Then(eval_expr(e.operand, v, Pays(g, 1)), LAMBDA x : Bool(~is_truthy(x)))
          [] e.kind = "and" ->
               Then(Scan(e.operands, 1, 1, Falsy, v, g), LAMBDA b : Bool(~b))
          [] e.kind = "or" -> Then(Scan(e.operands, 1, 1, Truthy, v, g), Bool)
          [] e.kind = "compare" -> Both(LAMBDA a, b : Bool(apply_compare(e.op, a, b)))
          [] e.kind = "arith" -> Both(LAMBDA a, b : apply_arith(e.op, a, b))
          [] e.kind = "in" ->
               LET t == eval_expr(e.value, v, g)
               IN  IF t = None THEN None
                   ELSE Then(Scan(e.set, 1, 2, t, v, t.gas), Bool)
          [] e.kind = "match" ->
               LET t == eval_expr(e.operand, v, g)
               IN  IF t = None THEN None
                   ELSE Result(Bool(stringify(t.val) = e.pattern), Pays(t.gas, 10))
          [] e.kind = "call" ->
               Then(eval_expr(e.operand, v, Pays(g, 2)), LAMBDA x : eval_call(e.fn, x))

\* The guard is evaluated first; a rule whose guard does not hold passes.
eval_rule(rule, v, limit) ==
    LET w == IF rule.when = None THEN Result(Bool(TRUE), limit)
             ELSE eval_expr(rule.when, v, limit)
        a == IF w = None THEN None ELSE eval_expr(rule.assert, v, w.gas)
    IN  IF w = None THEN "exhausted"
        ELSE IF ~is_truthy(w.val) THEN "passed"
        ELSE IF a = None THEN "exhausted"
        ELSE IF is_truthy(a.val) THEN "passed" ELSE "failed"

(***************************************************************************)
(* The bytes between the two: a sequence of tags, counts and constants.    *)
(***************************************************************************)
Token(t, v) == [tag |-> t, arg |-> v]
Header(e) ==
    CASE e.kind = "lit" -> <<Token("lit", e.value)>>
      [] e.kind \in {"field", "not"} -> <<Token(e.kind, Null)>>
      [] e.kind = "now" -> <<Token("call", Str("now")), Token("count", Num(0))>>
      [] e.kind \in {"and", "or"} -> <<Token(e.kind, Null), Token("count", Num(Len(e.operands)))>>
      [] e.kind \in {"compare", "arith"} -> <<Token(e.kind, Str(e.op))>>
      [] e.kind = "call" -> <<Token("call", Str(e.fn)), Token("count", Num(1))>>

TooDeep(depth) == depth > MaxDepth

\* None stands for an error: the expression is nested too deeply.
RECURSIVE serializeExpr(_, _), serializeAll(_, _)
serializeAll(es, depth) ==
    IF \E i \in DOMAIN es : serializeExpr(es[i], depth) = None THEN None
    ELSE FlattenSeq([i \in DOMAIN es |-> serializeExpr(es[i], depth)])
serializeExpr(e, depth) ==
    LET parts == serializeAll(Children(e), depth + 1)
        value == serializeExpr(e.value, depth + 1)
        set == serializeAll(e.set, depth + 1)
    IN  CASE TooDeep(depth) -> None
          [] e.kind = "in" ->
               IF None \in {value, set} THEN None
               ELSE <<Token("in", Null)>> \o value \o <<Token("count", Num(Len(e.set)))>> \o set
          [] e.kind = "match" ->
               IF parts = None THEN None
               ELSE <<Token("match", Null)>> \o parts \o <<Token("pattern", Str(e.pattern))>>
          [] OTHER -> IF parts = None THEN None ELSE Header(e) \o parts

\* Reads one expression at position i, or n of them: what was read and where the rest is.
RECURSIVE deserialize_expr(_, _, _), deserialize_all(_, _, _, _)
deserialize_all(bytes, i, n, depth) ==
    IF n = 0 THEN [read |-> <<>>, next |-> i]
    ELSE LET first == deserialize_expr(bytes, i, depth)
             rest == IF first = None THEN None
                     ELSE deserialize_all(bytes, first.next, n - 1, depth)
         IN  IF rest = None THEN None
             ELSE [read |-> <<first.read>> \o rest.read, next |-> rest.next]
deserialize_expr(bytes, i, depth) ==
    LET t == bytes[i]
        Read(n, at, F(_)) ==
            LET r == deserialize_all(bytes, at, n, depth + 1)
            IN  IF r = None THEN None ELSE [read |-> F(r.read), next |-> r.next]
    IN  CASE TooDeep(depth) \/ i > Len(bytes) -> None
          [] t.tag = "lit" -> [read |-> [kind |-> "lit", value |-> t.arg], next |-> i + 1]
          [] t.tag = "field" -> [read |-> [kind |-> "field"], next |-> i + 1]
          [] t.tag = "not" -> Read(1, i + 1, LAMBDA es : [kind |-> "not", operand |-> es[1]])
          [] t.tag \in {"and", "or"} ->
               Read(bytes[i + 1].arg.val, i + 2, LAMBDA es : [kind |-> t.tag, operands |-> es])
          [] t.tag \in {"compare", "arith"} ->
               Read(2, i + 1, LAMBDA es : [kind |-> t.tag, op |-> t.arg.val,
                                           left |-> es[1], right |-> es[2]])
          [] t.tag = "in" ->
               LET v == deserialize_expr(bytes, i + 1, depth + 1)
               IN  IF v = None THEN None
                   ELSE Read(bytes[v.next].arg.val, v.next + 1,
                             LAMBDA es : [kind |-> "in", value |-> v.read, set |-> es])
          [] t.tag = "match" ->
               LET v == deserialize_expr(bytes, i + 1, depth + 1)
               IN  IF v = None THEN None
                   ELSE [read |-> [kind |-> "match", operand |-> v.read,
                                   pattern |-> bytes[v.next].arg.val],
                         next |-> v.next + 1]
          [] t.tag = "call" /\ bytes[i + 1].arg.val = 0 ->
               [read |-> [kind |-> "now"], next |-> i + 2]
          [] t.tag = "call" ->
               Read(1, i + 2, LAMBDA es : [kind |-> "call", fn |-> t.arg.val, operand |-> es[1]])

\* The rule is written whole, its guard after a flag; None for a rule too deep to write.
serializeRule(rule) ==
    LET guard == IF rule.when = None THEN <<>> ELSE serializeExpr(rule.when, 0)
        parts == {serializeExpr(rule.assert, 0), guard}
    IN  IF None \in parts THEN None
        ELSE serializeExpr(rule.assert, 0)
             \o <<Token("when", Num(IF rule.when = None THEN 0 ELSE 1))>> \o guard

deserialize_rule(b) ==
    LET a == IF b = None THEN None ELSE deserialize_expr(b, 1, 0)
        w == IF a = None \/ b[a.next].arg = Num(0) THEN [read |-> None]
             ELSE deserialize_expr(b, a.next + 1, 0)
    IN  IF None \in {a, w} THEN None ELSE [assert |-> a.read, when |-> w.read]

(***************************************************************************)
(* The form: the rule is downloaded once (useValidationRules), and every   *)
(* value the user types is checked by the resolver and by the sandbox.     *)
(***************************************************************************)
CONSTANTS
    RuleTexts,      \* the rules that may be published
    FieldValues     \* what the field of the form may hold

VARIABLES
    status,         \* useValidationRules: "loading", "remote" or "error"
    publishedRule,      \* the downloaded rule, or None
    bytes,          \* the rule as it is sent to the sandbox, or None
    typed,          \* what the field holds
    valid,          \* the verdict of the resolver, or None
    verdict         \* the verdict of the sandbox, or None

ruleVars == <<status, publishedRule, bytes, typed, valid, verdict>>

RulesInit ==
    /\ status = "loading"
    /\ publishedRule = None /\ bytes = None
    /\ typed = Str("") /\ valid = None /\ verdict = None

\* An answer that does not compile leaves the fallback in place.
Download(r) ==
    /\ status = "loading"
    /\ status' = IF compileRule(r) THEN "remote" ELSE "error"
    /\ publishedRule' = r
    /\ bytes' = serializeRule(r)
    /\ UNCHANGED <<typed, valid, verdict>>

DownloadFails ==
    /\ status = "loading" /\ status' = "error"
    /\ UNCHANGED <<publishedRule, bytes, typed, valid, verdict>>

\* onChange, while the downloaded rule is the active one.
Type(v) ==
    /\ status = "remote" /\ valid = None
    /\ typed' = v
    /\ valid' = test(publishedRule, v)
    /\ verdict' = IF deserialize_rule(bytes) = None THEN "refused"
                  ELSE eval_rule(deserialize_rule(bytes), v, GasLimit)
    /\ UNCHANGED <<status, publishedRule, bytes>>

RulesNext ==
    \/ \E r \in RuleTexts : Download(r)
    \/ DownloadFails
    \/ \E v \in FieldValues : Type(v)

(***************************************************************************)
(* The two implementations of the language agree: unless its gas runs out, *)
(* the sandbox passes exactly what the closures of the compiler pass.  A   *)
(* field that holds NaN is another value on the other side of the JSON.    *)
(***************************************************************************)
SandboxAgrees ==
    verdict \in {"passed", "failed"} /\ typed # NaN => valid = (verdict = "passed")

(***************************************************************************)
(* The limits of the compiler, of the writer and of the reader fit: every  *)
(* rule that compiles can be written, and is read back as it was.          *)
(***************************************************************************)
CompiledCanBeSent ==
    status = "remote" => /\ bytes # None
                         /\ deserialize_rule(bytes) = publishedRule

-----------------------------------------------------------------------------
(***************************************************************************)
(* The guard of the rule compiler against regular expressions that         *)
(* backtrack for too long (assertSafeRegexPattern of ast/compiler.ts): it  *)
(* reads the pattern once, from left to right, and refuses it when a       *)
(* repetition encloses a repetition.  That is a heuristic, which lets      *)
(* (a|a)* through, as its comment says.  A pattern is a sequence of        *)
(* tokens; an escape or a character class is one, like a letter.           *)
(***************************************************************************)

CONSTANT Patterns   \* the expressions that rules may hold, as trees

\* A tree is a letter, an atom with a quantifier, lazy or not, or a group of alternatives,
\* each a sequence of trees.
Letter == [node |-> "letter"]
Quantified(t, q, lazy) == [node |-> "quantified", atom |-> t, by |-> q, lazy |-> lazy]
Group(open, alts) == [node |-> "group", open |-> open, alts |-> alts]

\* How often a quantifier repeats its atom; more than once makes it a repetition.
Repetitions == {"*", "+", "{2}", "{1,}"}
Others == {"?", "{1}", "{0,1}"}
Opens == {"(", "(?:", "(?<name>"}

\* The text of a tree.
RECURSIVE Text(_)
Text(t) ==
    LET Alternative(i) == FlattenSeq([j \in DOMAIN t.alts[i] |-> Text(t.alts[i][j])])
    IN  CASE t.node = "letter" -> <<"a">>
          [] t.node = "quantified" -> Text(t.atom) \o <<t.by>> \o (IF t.lazy THEN <<"?">> ELSE <<>>)
          [] t.node = "group" ->
               <<t.open>>
               \o FlattenSeq([i \in DOMAIN t.alts |->
                                (IF i = 1 THEN <<>> ELSE <<"|">>) \o Alternative(i)])
               \o <<")">>

\* What the guard means to compute: how deeply repetitions are nested.
Highest(heights) == CHOOSE h \in heights \cup {0} : \A g \in heights : g <= h
RECURSIVE StarHeight(_)
StarHeight(t) ==
    CASE t.node = "letter" -> 0
      [] t.node = "quantified" ->
           StarHeight(t.atom) + (IF t.by \in Repetitions THEN 1 ELSE 0)
      [] t.node = "group" ->
           Highest({StarHeight(t.alts[k[1]][k[2]]) :
                      k \in {l \in (DOMAIN t.alts) \X (1..4) : l[2] \in DOMAIN t.alts[l[1]]}})

(***************************************************************************)
(* The parser.  Each part returns the star height of what it consumed and  *)
(* the position after it.                                                  *)
(***************************************************************************)
At(p, i) == IF i <= Len(p) THEN p[i] ELSE "end"

\* consumeLazy
Lazily(p, i) == IF At(p, i) = "?" THEN i + 1 ELSE i

Combined(h, g) == IF h >= g THEN h ELSE g

RECURSIVE parseAtom(_, _), parseQuantified(_, _), parseConcatenation(_, _, _),
          parseAlternation(_, _, _)
parseAtom(p, i) ==
    IF At(p, i) \in Opens
    THEN LET r == parseAlternation(p, i + 1, 0)
         IN  [height |-> r.height, next |-> IF At(p, r.next) = ")" THEN r.next + 1 ELSE r.next]
    ELSE [height |-> 0, next |-> i + 1]
parseQuantified(p, i) ==
    LET a == parseAtom(p, i)
        q == At(p, a.next)
    IN  IF q \in Repetitions THEN [height |-> a.height + 1, next |-> Lazily(p, a.next + 1)]
        ELSE IF q \in Others THEN [height |-> a.height, next |-> Lazily(p, a.next + 1)]
        ELSE a
parseConcatenation(p, i, height) ==
    IF At(p, i) \in {"|", ")", "end"} THEN [height |-> height, next |-> i]
    ELSE LET r == parseQuantified(p, i)
         IN  parseConcatenation(p, r.next, Combined(height, r.height))
\* height is that of the alternatives before position i.
parseAlternation(p, i, height) ==
    LET r == parseConcatenation(p, i, 0)
        h == Combined(height, r.height)
    IN  IF At(p, r.next) = "|" THEN parseAlternation(p, r.next + 1, h)
        ELSE [height |-> h, next |-> r.next]

Refused(p) == parseAlternation(p, 1, 0).height >= 2

VARIABLES
    pattern,    \* the expression of the rule that is compiled, or None
    refused     \* the compiler throws

regexVars == <<pattern, refused>>

RegexInit == pattern = None /\ refused = FALSE

CompileMatch(t) ==
    /\ pattern = None /\ pattern' = t
    /\ refused' = Refused(Text(t))

RegexNext == \E t \in Patterns : CompileMatch(t)

(***************************************************************************)
(* Reading the text once, the guard finds every repetition inside a        *)
(* repetition, however groups, alternatives and lazy quantifiers hide it,  *)
(* and refuses nothing else.                                               *)
(***************************************************************************)
NestedRepetitionsAreRefused ==
    pattern # None => (refused <=> StarHeight(pattern) >= 2)

\* A rule means the same to the form and to the sandbox, whatever is compiled can be sent
\* there, and no pattern in it repeats a repetition.
RulesAreOneLanguage == SandboxAgrees /\ CompiledCanBeSent /\ NestedRepetitionsAreRefused
=============================================================================
