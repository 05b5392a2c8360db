----------------------------- MODULE RuleParser -----------------------------
(***************************************************************************)
(* Policy rules (api/pkg/policy): a text such as                           *)
(*     is_admin:True or (role:admin and not rule:locked)                   *)
(* is cut into tokens, a shift-reduce parser makes a tree of checks of     *)
(* them, and the tree is evaluated for the credentials of a request.  A    *)
(* text is written here token by token; every text up to a bound is a      *)
(* state.                                                                  *)
(***************************************************************************)
EXTENDS Naturals, Sequences, SequencesExt

CONSTANTS
  MaxAnyTokens,      \* texts up to this length are arbitrary,
  MaxSensibleTokens  \* and up to this one operators and operands take turns

ASSUME ParserAssumption == MaxAnyTokens \in Nat /\ MaxSensibleTokens \in Nat

VARIABLES
  text,   \* the rule, as far as it has been written
  stack   \* the ParseState after it

parserVars == <<text, stack>>

-----------------------------------------------------------------------------
(* Checks *)

Check(kind, match) == [is |-> kind, match |-> match]
FalseCheck == [is |-> "false"]
TrueCheck == [is |-> "true"]
NewNotCheck(check) == [is |-> "not", rule |-> check]
NewAndCheck(check1, check2) == [is |-> "and", rules |-> <<check1, check2>>]
NewOrCheck(check1, check2) == [is |-> "or", rules |-> <<check1, check2>>]
AddCheck(check, rule) == [check EXCEPT !.rules = Append(@, rule)]

\* parseCheck, for a word that is "!", "@", kind:match or something else.
parseCheck(word) ==
  CASE word.is = "!" -> FalseCheck
    [] word.is = "@" -> TrueCheck
    [] word.is = "plain" -> FalseCheck
    [] word.is \in {"rule", "role", "generic"} -> word

\* What Exec answers: a missing rule is a nil check, and rules that refer to
\* each other for ever overflow the stack.
Not(answer) == CASE answer = "yes" -> "no" [] answer = "no" -> "yes" [] OTHER -> answer

MissingRule_Denies == "no"
MissingRule == "panic"

\* cred has the roles of the request, and the texts kind:match of its values.
RoleExec(check, cred) == IF check.match \in cred.roles THEN "yes" ELSE "no"
GenericExec(check, cred) == IF check.match \in cred.values THEN "yes" ELSE "no"

\* The checks are asked one by one as long as they answer `go'.
Answers(go, checks, exec) ==
  {exec[checks[i]] : i \in {i \in 1..Len(checks) : \A j \in 1..(i - 1) : exec[checks[j]] = go}}
ExecAll(go, checks, exec) ==
  IF Answers(go, checks, exec) \subseteq {go} THEN go
  ELSE CHOOSE answer \in Answers(go, checks, exec) : answer # go
\* What a check answers by what those answer that it asks.
ExecOne(check, rules, cred, exec) ==
  CASE check.is = "true" -> "yes"
    [] check.is = "false" -> "no"
    [] check.is = "not" -> Not(exec[check.rule])
    [] check.is = "and" -> ExecAll("yes", check.rules, exec)
    [] check.is = "or" -> ExecAll("no", check.rules, exec)
    [] check.is = "role" -> RoleExec(check, cred)
    [] check.is = "rule" ->
         IF DOMAIN rules = {} THEN "no"
         ELSE IF check.match \notin DOMAIN rules THEN MissingRule ELSE exec[rules[check.match]]
    [] OTHER -> GenericExec(check, cred)

\* The checks inside others, n deep.
Inside(check) ==
  CASE check.is = "not" -> {check.rule}
    [] check.is \in {"and", "or"} -> {check.rules[i] : i \in 1..Len(check.rules)}
    [] OTHER -> {}
Within(checks, depth) ==
  LET within[n \in 0..depth] ==
        IF n = 0 THEN checks ELSE within[n - 1] \cup UNION {Inside(c) : c \in within[n - 1]} IN
  within
\* depth bounds the nesting, which stands for the stack.
Exec(check, rules, cred, depth) ==
  LET all == {check} \cup {rules[name] : name \in DOMAIN rules}
      exec[d \in 0..depth] ==
        [c \in Within(all, depth)[depth - d] |->
           IF d = 0 THEN "overflow" ELSE ExecOne(c, rules, cred, exec[d - 1])] IN
  exec[depth][check]

-----------------------------------------------------------------------------
(* The parser *)

Pair(token, value) == [token |-> token, value |-> value]
\* parseTokenize, for one word or parenthesis.
TokenOf(word) ==
  IF word.is \in {"(", ")", "and", "or", "not", "string"} THEN Pair(word.is, word)
  ELSE Pair("check", parseCheck(word))

wrapCheck(a) == Pair("check", a[2].value)
makeAndExpr(a) == Pair("and_expr", NewAndCheck(a[1].value, a[3].value))
extendAndExpr(a) == Pair("and_expr", AddCheck(a[1].value, a[3].value))
makeOrExpr(a) == Pair("or_expr", NewOrCheck(a[1].value, a[3].value))
extendOrExpr(a) == Pair("or_expr", AddCheck(a[1].value, a[3].value))
makeNotExpr(a) == Pair("check", NewNotCheck(a[2].value))
\* The last alternative so far takes the new check in, in a conjunction.
mixOrAndExpr_Append(a) == Pair("or_expr", NewAndCheck(a[1].value, a[3].value))
mixOrAndExpr(a) ==
  LET popped == Last(a[1].value.rules)
      andExpr == IF popped.is = "and" THEN AddCheck(popped, a[3].value)
                 ELSE NewAndCheck(popped, a[3].value) IN
  Pair("or_expr", [a[1].value EXCEPT !.rules = Append(Front(@), andExpr)])

ReduceFuncMap ==
  {<<"(", "check", ")">>, <<"(", "and_expr", ")">>, <<"(", "or_expr", ")">>,
   <<"check", "and", "check">>, <<"or_expr", "and", "check">>, <<"and_expr", "and", "check">>,
   <<"check", "or", "check">>, <<"and_expr", "or", "check">>, <<"or_expr", "or", "check">>,
   <<"not", "check">>}
Reduced(key, a) ==
  CASE key[1] = "(" -> wrapCheck(a)
    [] key[1] = "not" -> makeNotExpr(a)
    [] key[1] = "check" /\ key[2] = "and" -> makeAndExpr(a)
    [] key[1] = "or_expr" /\ key[2] = "and" -> mixOrAndExpr(a)
    [] key[1] = "and_expr" /\ key[2] = "and" -> extendAndExpr(a)
    [] key[1] \in {"check", "and_expr"} /\ key[2] = "or" -> makeOrExpr(a)
    [] key[1] = "or_expr" /\ key[2] = "or" -> extendOrExpr(a)

Top(s, n) == SubSeq(s, Len(s) - n + 1, Len(s))
Handles(s) ==
  {key \in ReduceFuncMap : Len(key) <= Len(s) /\ \A i \in DOMAIN key : Top(s, Len(key))[i].token = key[i]}
\* The map is gone through in no particular order.
Reduce(s) ==
  IF Handles(s) = {} THEN {s}
  ELSE {Append(SubSeq(s, 1, Len(s) - Len(key)), Reduced(key, Top(s, Len(key)))) : key \in Handles(s)}
\* Every reduction makes the state shorter.
Reductions(s) ==
  LET after[n \in 0..Len(s)] == IF n = 0 THEN {s} ELSE UNION {Reduce(t) : t \in after[n - 1]} IN
  after[Len(s)]
Shifted(s, word) == Reductions(Append(s, TokenOf(word)))

\* parseRule: what is left when the text has ended.
Result(s) ==
  CASE s = <<>> -> TrueCheck
    [] Len(s) = 1 /\ s[1].token \in {"check", "and_expr", "or_expr"} -> s[1].value
    [] Len(s) = 1 /\ s[1].token \notin {"check", "and_expr", "or_expr"} -> [is |-> "panic"]
    [] OTHER -> FalseCheck

parseRule(words) ==
  LET state[n \in 0..Len(words)] ==
        IF n = 0 THEN <<>> ELSE CHOOSE t \in Shifted(state[n - 1], words[n]) : TRUE IN
  Result(state[Len(words)])

-----------------------------------------------------------------------------
(* Writing a text.  Its checks are roles, each with a number of its own. *)

Operators == {"and", "or"}
Numbered == Check("role", Len(SelectSeq(text, LAMBDA w : w.is = "role")) + 1)
Symbols == {[is |-> s] : s \in {"(", ")", "not", "string"} \cup Operators} \cup {Numbered}
EndsOperand(word) == word.is \in {"role", ")"}
Sensible(words) ==
  /\ \A i \in DOMAIN words :
       LET first == i = 1 \/ ~EndsOperand(words[i - 1]) IN
       words[i].is \in IF first THEN {"(", "not", "role"} ELSE {")"} \cup Operators

Write(word) ==
  /\ LET words == Append(text, word) IN
     \/ Len(words) <= MaxAnyTokens
     \/ Len(words) <= MaxSensibleTokens /\ Sensible(words)
  /\ text' = Append(text, word)
  /\ stack' \in Shifted(stack, word)

ParserInit == text = <<>> /\ stack = <<>>
ParserNext == \E word \in Symbols : Write(word)

=============================================================================
