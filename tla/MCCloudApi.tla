----------------------------- MODULE MCCloudApi -----------------------------
\* Small instances of the parts of the api service and of what is behind it.
EXTENDS CloudApi, RuleMeaning, TLC

\* Two clients, wherever their requests go; nothing tells them apart.
CONSTANTS a, b
TwoClients == Permutations({a, b})

Count(asked, kinds) == [k \in kinds |-> IF k \in DOMAIN asked THEN asked[k] ELSE 0]

\* The gateway: one backend of each type on the first location, one more and
\* one of a type without an adapter on the second.
MCBackends == {"aws", "azure", "hws", "ceph", "other", "odd"}
MCLocations == {"", "l1", "l2"}
MCNameOf == [id \in MCBackends |-> IF id \in {"other", "odd"} THEN "l2" ELSE "l1"]
MCTypeOf == [aws |-> "aws-s3", azure |-> "azure-blob", hws |-> "hw-obs", ceph |-> "ceph-s3",
             other |-> "fusionstorage-object", odd |-> "gcp"]
MCPartLists == {<<1>>, <<1, 2>>}
Singles == {<<"aws">>, <<"azure">>, <<"hws">>, <<"ceph">>}
World(first, asked) == [registered |-> first, quota |-> Count(asked, Kinds)]

\* The backends registered at first and the requests to come.
MCWorlds ==
  {World(<<"ceph">>, [put |-> 2, delete |-> 1]),
   World(<<"ceph", "other">>, [put |-> 2]),
   World(<<"aws">>, [bput |-> 1, put |-> 1, bdelete |-> 1]),
   World(<<"aws">>, [init |-> 1, part |-> 2, complete |-> 1]),
   World(<<"hws">>, [init |-> 1, part |-> 1, complete |-> 1, rekey |-> 1]),
   World(<<"azure">>, [put |-> 1, get |-> 1, rekey |-> 1, unregister |-> 1]),
   World(<<>>, [register |-> 1, put |-> 1, get |-> 1]),
   World(<<"odd", "aws">>, [put |-> 1, get |-> 1, delete |-> 1])}
  \cup {World(one, [put |-> 1, get |-> 1]) : one \in Singles}
  \cup {World(one, [put |-> 1, delete |-> 1]) : one \in Singles}
  \cup {World(one, [init |-> 1, part |-> 1, complete |-> 1]) : one \in Singles}
  \cup {World(one, [init |-> 1, part |-> 1, abort |-> 1]) : one \in Singles}
  \cup {World(one, [init |-> 1, abort |-> 1, rekey |-> 1]) : one \in Singles}

\* The rules: chains and rings of names, a constant, words out of order.
MCActions == {"act", "other"}
Is(word) == [is |-> word]
MCFiles ==
  {"act" :> <<>>,
   "act" :> <<Is("not"), Check("rule", "other")>> @@ "other" :> <<Check("role", "admin")>>,
   "act" :> <<Check("rule", "other")>> @@ "other" :> <<Is("@")>>,
   "act" :> <<Is("not"), Check("rule", "other")>> @@ "other" :> <<Is("@")>>,
   "act" :> <<Check("rule", "act")>> @@ "other" :> <<Is("plain")>>,
   "act" :> <<Check("generic", "is_admin:True"), Is("or"), Is("not"), Check("rule", "gone")>>,
   "act" :> <<Is("string")>>}
MCStrategies ==
  {[filter |-> "keystone", policy |-> "keystone"], [filter |-> "noauth", policy |-> "noauth"]}

\* Plans, what they are changed to, and policies.
OfSDS(bucket) == [type |-> OpenSDS, bucket |-> bucket, keys |-> {}]
Config(type, missing) == [type |-> type, bucket |-> "b2", keys |-> ConnKeys \ missing]
PlanOf(name, src, dest) ==
  [name |-> name, src |-> src, dest |-> dest, filter |-> "", policy |-> NoPolicy,
   enabled |-> FALSE, remain |-> FALSE, asist |-> "none"]
MCCreations ==
  {PlanOf("n1", OfSDS("b1"), OfSDS("b2")),
   PlanOf("n2", Config("ceph-s3", {"region"}), OfSDS("b1")),
   [PlanOf("n1", Config("aws-s3", {}), OfSDS("b2")) EXCEPT !.policy = 1, !.enabled = TRUE],
   PlanOf("n1", OfSDS("b1"), OfSDS("b1")),
   PlanOf("n1", Config("gcp", {}), OfSDS("b1")),
   PlanOf("/", OfSDS("b1"), OfSDS("b2")),
   PlanOf("n2", Config("aws-s3", {"region"}), OfSDS("b1"))}
MCChanges ==
  {"name" :> "n2", "name" :> "/", "filter" :> "x", "filter" :> "",
   "policy" :> 1 @@ "remain" :> TRUE, "src" :> OfSDS("b2"),
   "dest" :> Config("hw-obs", {"bucketname"}) @@ "asist" :> "analysis"}
MCPolicyTexts == {[name |-> n, schedule |-> s] : n \in {"p", "all"}, s \in {"none", "daily"}}
Shift(asked) == Count(asked, Routes)
MCShifts ==
  {Shift([createPlan |-> 2, updatePlan |-> 1]),
   Shift([createPlan |-> 1, updatePlan |-> 2, deletePlan |-> 1]),
   Shift([createPolicy |-> 1, createPlan |-> 1, deletePolicy |-> 1, updatePlan |-> 1, getPlan |-> 1]),
   Shift([createPlan |-> 1, runPlan |-> 2, updatePlan |-> 1]),
   Shift([createPlan |-> 1, runPlan |-> 1, getJob |-> 1, listJob |-> 1]),
   Shift([createPolicy |-> 1, updatePolicy |-> 2, getPolicy |-> 1, listPolicy |-> 1]),
   Shift([createPlan |-> 2, deletePlan |-> 1, listPlan |-> 1])}

\* More rows asked for than there are, and fewer than none.
MCLimits == {-1, 0, 1, 2, 9}
=============================================================================
