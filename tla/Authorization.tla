---------------------------- MODULE Authorization ----------------------------
(***************************************************************************)
(* How a request gets to its handler: the keystone filter verifies its     *)
(* token (api/pkg/filters/auth), and the handler asks the enforcer         *)
(* (api/pkg/policy) whether the rule of its action allows it.  All         *)
(* requests share the service token of the filter and the rules of the     *)
(* enforcer, and no lock guards either.                                    *)
(***************************************************************************)
EXTENDS RuleParser

CONSTANTS
  Visitors,    \* requests that may be under way together
  Actions,     \* names of rules, those of actions among them
  Files,       \* policy files: functions from names to texts
  Strategies,  \* the filter and the check that the environment switches on
  MaxNesting,  \* bound on the checks that wait for one another, for that of the stack
  MaxVisits,   \* bound on the requests made
  MaxTroubles  \* bound on what fails at keystone, expires, or is done to the file

Strategy == [filter : {"keystone", "noauth"}, policy : {"keystone", "noauth"}]
ASSUME AuthorizationAssumption ==
  /\ Strategies \subseteq Strategy /\ MaxVisits \in Nat /\ MaxTroubles \in Nat /\ MaxNesting \in Nat
  /\ \A f \in Files : DOMAIN f \subseteq Actions

VARIABLES
  strategy,  \* what this process was started with
  disk,      \* the policy file: what kind of thing is at its path, and its texts
  rules,     \* Enforcer.Rules
  identity,  \* whether the service token of the filter is valid
  place,     \* where each request is
  visit,     \* its action, its token, and the rules it is loading
  troubled,  \* requests during which keystone failed or the service token expired (history)
  visits,    \* requests made so far
  troubles   \* what has befallen so far

authVars == <<strategy, disk, rules, identity, place, visit, troubled, visits, troubles>>

Unloaded == <<>>
Tokens == {"none", "valid", "expired", "unknown"}
NoVisit == [action |-> "none", token |-> "none", loading |-> {}]
Places == {"away", "verify", "setup", "again", "enforce", "fill", "lookup", "handler", "401", "403",
           "panic", "dead"}

-----------------------------------------------------------------------------
(* The policy file *)

\* listRules: a default for a name the file does not have.
WithDefaults(file) ==
  [a \in DOMAIN file \cup {"context_is_admin"} |->
     IF a \in DOMAIN file THEN file[a] ELSE <<Check("role", "admin")>>]
\* Rules.Load parses every text, and one that panics takes the caller along.
Parseable(texts) == \A a \in DOMAIN texts : parseRule(texts[a]).is # "panic"
Loaded(texts) == [a \in DOMAIN texts |-> parseRule(texts[a])]

\* A file is read, but of a directory, once per *.json in it, the path of the
\* directory itself.
Readable == disk.is = "file"

-----------------------------------------------------------------------------
(* The keystone filter *)

Go(v, to) == place' = [place EXCEPT ![v] = to]
Trouble(v) == troubles < MaxTroubles /\ troubles' = troubles + 1 /\ troubled' = troubled \cup {v}
NoTrouble == UNCHANGED <<troubles, troubled>>

\* Filter: an empty token is refused, and without keystone there is no check.
Arrive(v, action, token) ==
  /\ place[v] \in Places \ {"verify", "setup", "again", "enforce", "fill", "lookup", "dead"}
  /\ visits < MaxVisits /\ visits' = visits + 1
  /\ visit' = [visit EXCEPT ![v] = [action |-> action, token |-> token, loading |-> {}]]
  /\ Go(v, CASE strategy.filter = "noauth" -> "enforce"
             [] strategy.filter = "keystone" /\ token = "none" -> "401"
             [] OTHER -> "verify")
  /\ troubled' = troubled \ {v}
  /\ UNCHANGED <<strategy, disk, rules, identity, troubles>>

\* The second attempt follows only a service token that has expired.
AfterFirst_Never == "401"
AfterFirst == "setup"
\* validateToken with a service token that keystone takes: an unknown token is
\* not found, and one that has expired is recognised here.
Judged(token) == IF token = "valid" THEN "enforce" ELSE "401"
VerifyToken(v) ==
  /\ place[v] \in {"verify", "again"}
  /\ IF identity = "valid" THEN Go(v, Judged(visit[v].token))
     ELSE Go(v, IF place[v] = "verify" THEN AfterFirst ELSE "401")
  /\ NoTrouble /\ UNCHANGED <<strategy, disk, rules, identity, visit, visits>>

\* Another error than `Authentication failed' is not followed by an attempt, nor
\* is an answer that cannot be read.  One without a project or a user is left out:
\* the filter uses it all the same (keystone.go:139-142), panics, and the request
\* goes no further.  One without roles is like any other.
KeystoneFails(v) ==
  /\ place[v] \in {"verify", "again"} /\ Trouble(v)
  /\ Go(v, "401")
  /\ UNCHANGED <<strategy, disk, rules, identity, visit, visits>>

\* SetUp; its error is ignored and leaves the old client in place.
SetUp(v) ==
  /\ place[v] = "setup" /\ Go(v, "again")
  /\ identity' = "valid" /\ NoTrouble
  /\ UNCHANGED <<strategy, disk, rules, visit, visits>>
SetUpFails(v) ==
  /\ place[v] = "setup" /\ Trouble(v) /\ Go(v, "again")
  /\ UNCHANGED <<strategy, disk, rules, identity, visit, visits>>

\* The service token expires (external).
Expire ==
  /\ identity = "valid" /\ troubles < MaxTroubles
  /\ identity' = "expired" /\ troubles' = troubles + 1
  /\ troubled' = troubled \cup {v \in Visitors : place[v] \in {"verify", "setup", "again"}}
  /\ UNCHANGED <<strategy, disk, rules, place, visit, visits>>

-----------------------------------------------------------------------------
(* The enforcer *)

\* GetContext finds the context of another package under the key, and makes an
\* empty one: no roles, no tenant, and the two flags false.
credentials == [roles |-> {}, values |-> {"is_admin:False", "is_admin_project:False"}]

\* Authorize and LoadRules: the rules are loaded unless they are.
Authorize(v) ==
  /\ place[v] = "enforce"
  /\ LET texts == WithDefaults(disk.texts) IN
     IF strategy.policy = "noauth" THEN Go(v, "handler") /\ UNCHANGED visit
     ELSE IF DOMAIN rules # {} /\ disk.is # "missing" THEN Go(v, "lookup") /\ UNCHANGED visit
     ELSE IF ~Readable THEN Go(v, "403") /\ UNCHANGED visit
     ELSE IF ~Parseable(texts) THEN Go(v, "panic") /\ UNCHANGED visit
     ELSE Go(v, "fill") /\ visit' = [visit EXCEPT ![v].loading = DOMAIN texts]
  /\ NoTrouble /\ UNCHANGED <<strategy, disk, rules, identity, visits>>

\* UpdateRules makes the map when there is none and adds the rules one by one,
\* in any order; the others see the map grow.
UpdateRules(v) ==
  /\ place[v] = "fill"
  /\ \E a \in visit[v].loading :
       /\ rules' = [b \in DOMAIN rules \cup {a} |->
                      IF b = a THEN parseRule(WithDefaults(disk.texts)[a]) ELSE rules[b]]
       /\ visit' = [visit EXCEPT ![v].loading = @ \ {a}]
       /\ Go(v, IF visit[v].loading = {a} THEN "lookup" ELSE "fill")
  /\ NoTrouble /\ UNCHANGED <<strategy, disk, identity, visits>>

\* A map that is read or written while another request writes it: the runtime
\* may notice, and ends the process.
Collides(v) ==
  /\ place[v] \in {"fill", "lookup"} /\ \E w \in Visitors \ {v} : place[w] = "fill"
  /\ place' = [w \in Visitors |-> "dead"]
  /\ NoTrouble /\ UNCHANGED <<strategy, disk, rules, identity, visit, visits>>

\* Enforce: a name without a rule is refused.
Enforced(action) ==
  IF action \notin DOMAIN rules THEN "403"
  ELSE LET answer == Exec(rules[action], rules, credentials, MaxNesting) IN
       CASE answer = "yes" -> "handler"
         [] answer = "no" -> "403"
         [] answer = "panic" -> "panic"
         [] OTHER -> "dead"
Enforce(v) ==
  /\ place[v] = "lookup"
  /\ LET to == Enforced(visit[v].action) IN
     IF to = "dead" THEN place' = [w \in Visitors |-> "dead"] ELSE Go(v, to)
  /\ NoTrouble /\ UNCHANGED <<strategy, disk, rules, identity, visit, visits>>

\* The operator puts the file in place, or away, while the process runs.  An
\* edit of the file has no effect on rules that are loaded, and is left out.
ChangeFile ==
  /\ disk.is \in {"missing", "file"}
  /\ disk' = [disk EXCEPT !.is = IF @ = "file" THEN "missing" ELSE "file"]
  /\ troubles < MaxTroubles /\ troubles' = troubles + 1
  /\ UNCHANGED <<strategy, rules, identity, place, visit, troubled, visits>>

-----------------------------------------------------------------------------

\* init loads the rules, and its error is ignored.
AuthStart(chosen, found, token) ==
  /\ strategy = chosen /\ disk = found /\ identity = token
  /\ rules = (IF Readable THEN Loaded(WithDefaults(disk.texts)) ELSE Unloaded)
  /\ place = [v \in Visitors |-> "away"]
  /\ visit = [v \in Visitors |-> NoVisit]
  /\ troubled = {} /\ visits = 0 /\ troubles = 0
NoFile == [is |-> "missing", texts |-> <<>>]
\* A file that stops init is none to start with.
AuthInit ==
  \E chosen \in Strategies, token \in {"valid", "expired"},
     found \in [is : {"file", "directory", "missing"}, texts : Files] :
    /\ found.is = "file" => Parseable(WithDefaults(found.texts))
    /\ AuthStart(chosen, found, token)

AuthNext ==
  \/ \E v \in Visitors :
       \/ \E action \in Actions, token \in Tokens : Arrive(v, action, token)
       \/ VerifyToken(v) \/ KeystoneFails(v) \/ SetUp(v) \/ SetUpFails(v)
       \/ Authorize(v) \/ UpdateRules(v) \/ Collides(v) \/ Enforce(v)
  \/ Expire \/ ChangeFile

AuthSpec == AuthInit /\ [][AuthNext]_authVars

-----------------------------------------------------------------------------

AuthTypeOK ==
  /\ strategy \in Strategy /\ identity \in {"valid", "expired"}
  /\ disk \in [is : {"file", "directory", "missing"}, texts : Files \cup {NoFile.texts}]
  /\ place \in [Visitors -> Places] /\ troubled \subseteq Visitors
  /\ visit \in [Visitors -> [action : Actions \cup {"none"}, token : Tokens,
                             loading : SUBSET (Actions \cup {"context_is_admin"})]]
  /\ DOMAIN rules \subseteq Actions \cup {"context_is_admin"}
  /\ visits \in 0..MaxVisits /\ troubles \in 0..MaxTroubles

\* What the file says of an action, whatever the enforcer has of it so far.
FileSays(action) ==
  LET texts == WithDefaults(disk.texts) IN
  IF action \notin DOMAIN texts THEN "403"
  ELSE Exec(parseRule(texts[action]), Loaded(texts), credentials, MaxNesting)

(* A request that reaches a handler under both checks has brought a token   *)
(* that keystone took, and the policy file has a rule for its action that   *)
(* allows it, also when the enforcer's map was half filled as it looked.     *)
OnlyAllowedReachHandlers ==
  \A v \in Visitors :
    place[v] = "handler" =>
      /\ strategy.filter = "keystone" => visit[v].token = "valid"
      /\ strategy.policy = "keystone" => FileSays(visit[v].action) = "yes"

(* A valid token is refused only if keystone failed or the service token     *)
(* expired while it was verified: one that had expired before is renewed.    *)
RefusedForAReason ==
  \A v \in Visitors : place[v] = "401" /\ visit[v].token = "valid" => v \in troubled
=============================================================================
