---------------------------- MODULE RuleMeaning ----------------------------
(***************************************************************************)
(* What a policy rule is to mean, by the grammar of its text, and that the *)
(* check which the parser makes of it means that.                          *)
(***************************************************************************)
EXTENDS RuleParser

-----------------------------------------------------------------------------
(* What the texts mean.  A meaning is the set of the sets of roles that are *)
(* allowed; a text that is no sentence has none.                            *)

Roles == 1..4
AllRoles == SUBSET Roles
RECURSIVE Meanings(_, _)
\* The ways to split a text at an operator, its right part binding tighter.
Splits(words, op) == {i \in DOMAIN words : words[i].is = op}
Before(words, i) == SubSeq(words, 1, i - 1)
After(words, i) == SubSeq(words, i + 1, Len(words))
Meanings(category, words) ==
  IF words = <<>> THEN {} ELSE
  CASE category = "expr" ->
         Meanings("term", words) \cup
         UNION {{a \cup b : a \in Meanings("expr", Before(words, i)), b \in Meanings("term", After(words, i))} :
                  i \in Splits(words, "or")}
    [] category = "term" ->
         Meanings("factor", words) \cup
         UNION {{a \cap b : a \in Meanings("term", Before(words, i)), b \in Meanings("factor", After(words, i))} :
                  i \in Splits(words, "and")}
    [] category = "factor" ->
         CASE words[1].is = "not" -> {AllRoles \ a : a \in Meanings("factor", Tail(words))}
           [] words[1].is = "(" /\ Last(words).is = ")" ->
                Meanings("expr", SubSeq(words, 2, Len(words) - 1))
           [] words[1].is = "role" /\ Len(words) = 1 ->
                {{roles \in AllRoles : words[1].match \in roles}}
           [] OTHER -> {}

(* A rule allows what its text says, with `not' before `and' before `or';    *)
(* a text that is no sentence allows nothing (or stops the process).         *)
RuleMeansText ==
  LET check == Result(stack)
      allowed == {roles \in AllRoles :
                    Exec(check, <<>>, [roles |-> roles, values |-> {}], Len(text) + 1) = "yes"} IN
  text # <<>> =>
    IF Meanings("expr", text) = {} THEN check.is = "panic" \/ allowed = {}
    ELSE {allowed} = Meanings("expr", text)
=============================================================================
