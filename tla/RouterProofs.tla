----------------------------- MODULE RouterProofs -----------------------------
(***************************************************************************)
(* Theorems about the dispatcher between the clients and the handlers:     *)
(* which route a request takes, and where the loop over the segments of    *)
(* its path ends, for repository names of any length.                      *)
(***************************************************************************)
EXTENDS Router, SequenceTheorems, TLAPS

-----------------------------------------------------------------------------
(* Sequences first: of two that are joined.                                  *)

\* The sequence p of members of S is s followed by t.
IsJoin(S, p, s, t) ==
  /\ p \in Seq(S) /\ s \in Seq(S) /\ t \in Seq(S)
  /\ Len(s) \in Nat /\ Len(t) \in Nat /\ Len(p) = Len(s) + Len(t)
  /\ \A k \in 1..Len(s) : p[k] = s[k]
  /\ \A k \in 1..Len(t) : p[Len(s) + k] = t[k]

LEMMA Joined ==
  ASSUME NEW S, NEW s \in Seq(S), NEW t \in Seq(S), NEW p, p = s \o t
  PROVE  IsJoin(S, p, s, t)
<1>1. Len(s) \in Nat /\ Len(t) \in Nat
  OBVIOUS
<1>2. p \in Seq(S) /\ Len(p) = Len(s) + Len(t)
  BY ConcatProperties
<1>3. \A k \in 1..Len(s) + Len(t) : p[k] = IF k <= Len(s) THEN s[k] ELSE t[k - Len(s)]
  BY ConcatProperties
<1>4. ASSUME NEW k \in 1..Len(t) PROVE p[Len(s) + k] = t[k]
  <2>1. PICK j : j = Len(s) + k
    OBVIOUS
  <2>2. j \in 1..Len(s) + Len(t) /\ ~(j <= Len(s)) /\ j - Len(s) = k
    BY <1>1, <2>1
  <2>3. p[j] = t[j - Len(s)]
    BY <1>3, <2>2
  <2> QED
    BY <2>1, <2>2, <2>3
<1>5. \A k \in 1..Len(s) : p[k] = s[k]
  BY <1>1, <1>3
<1> QED
  BY <1>1, <1>2, <1>4, <1>5 DEF IsJoin

\* Paths are sequences of strings; so are these.
LEMMA Written ==
  ASSUME NEW S
  PROVE  /\ \A a \in S : <<a>> \in Seq(S) /\ Len(<<a>>) = 1
         /\ \A a, b \in S : <<a, b>> \in Seq(S) /\ Len(<<a, b>>) = 2
         /\ \A a, b, c \in S : <<a, b, c>> \in Seq(S) /\ Len(<<a, b, c>>) = 3
         /\ \A a : <<a>>[1] = a
         /\ \A a, b : <<a, b>>[1] = a /\ <<a, b>>[2] = b
         /\ \A a, b, c : <<a, b, c>>[1] = a /\ <<a, b, c>>[2] = b /\ <<a, b, c>>[3] = c
<1>1. \A a \in S : <<a>> \in Seq(S) /\ Len(<<a>>) = 1
  OBVIOUS
<1>2. \A a, b \in S : <<a, b>> \in Seq(S) /\ Len(<<a, b>>) = 2
  OBVIOUS
<1>3. \A a, b, c \in S : <<a, b, c>> \in Seq(S) /\ Len(<<a, b, c>>) = 3
  OBVIOUS
<1> QED
  BY <1>1, <1>2, <1>3

\* What a path is made of: the words of the interface, and any others.
Words == {"v2", "api", "v1", "repositories", "scan", "retention-policies", "replications", "run",
          "gc", "execute", "dry-run", "scan-reports", "blobs", "uploads", "manifests", "tags",
          "list", "referrers", "*", "healthz", "readyz"}

LEMMA Literals ==
  ASSUME NEW S, Words \subseteq S
  PROVE  /\ <<"v2">> \in Seq(S) /\ Len(<<"v2">>) = 1
         /\ Api \in Seq(S) /\ Len(Api) = 2 /\ Api[1] = "api" /\ Api[2] = "v1"
<1>1. "v2" \in S /\ "api" \in S /\ "v1" \in S
  BY DEF Words
<1> QED
  BY <1>1, Written DEF Api

\* The routes of the management interface.
ApiOne(S, p, a) ==
  /\ p \in Seq(S) /\ Len(p) = 3 /\ p[1] = "api" /\ p[2] = "v1"
  /\ p[3] = a

LEMMA ApiOneIs ==
  ASSUME NEW S, Words \subseteq S, NEW a \in S, NEW p, p = Api \o <<a>>
  PROVE  ApiOne(S, p, a)
<1>1. /\ <<a>> \in Seq(S) /\ Len(<<a>>) = 1
      /\ <<a>>[1] = a
  BY Written
<1>2. PICK s : s = <<a>>
  OBVIOUS
<1>3. s \in Seq(S) /\ Len(s) = 1 /\ s[1] = a
  BY <1>1, <1>2
<1>4. p = Api \o s
  BY <1>2
<1>5. Api \in Seq(S) /\ Len(Api) = 2 /\ Api[1] = "api" /\ Api[2] = "v1"
  BY Literals
<1>6. IsJoin(S, p, Api, s)
  BY <1>3, <1>4, <1>5, Joined
<1> QED
  BY <1>3, <1>5, <1>6 DEF IsJoin, ApiOne

ApiTwo(S, p, a, b) ==
  /\ p \in Seq(S) /\ Len(p) = 4 /\ p[1] = "api" /\ p[2] = "v1"
  /\ p[3] = a /\ p[4] = b

LEMMA ApiTwoIs ==
  ASSUME NEW S, Words \subseteq S, NEW a \in S, NEW b \in S, NEW p, p = Api \o <<a, b>>
  PROVE  ApiTwo(S, p, a, b)
<1>1. /\ <<a, b>> \in Seq(S) /\ Len(<<a, b>>) = 2
      /\ <<a, b>>[1] = a /\ <<a, b>>[2] = b
  BY Written
<1>2. PICK s : s = <<a, b>>
  OBVIOUS
<1>3. s \in Seq(S) /\ Len(s) = 2 /\ s[1] = a /\ s[2] = b
  BY <1>1, <1>2
<1>4. p = Api \o s
  BY <1>2
<1>5. Api \in Seq(S) /\ Len(Api) = 2 /\ Api[1] = "api" /\ Api[2] = "v1"
  BY Literals
<1>6. IsJoin(S, p, Api, s)
  BY <1>3, <1>4, <1>5, Joined
<1> QED
  BY <1>3, <1>5, <1>6 DEF IsJoin, ApiTwo

ApiThree(S, p, a, b, c) ==
  /\ p \in Seq(S) /\ Len(p) = 5 /\ p[1] = "api" /\ p[2] = "v1"
  /\ p[3] = a /\ p[4] = b /\ p[5] = c

LEMMA ApiThreeIs ==
  ASSUME NEW S, Words \subseteq S, NEW a \in S, NEW b \in S, NEW c \in S, NEW p, p = Api \o <<a, b, c>>
  PROVE  ApiThree(S, p, a, b, c)
<1>1. /\ <<a, b, c>> \in Seq(S) /\ Len(<<a, b, c>>) = 3
      /\ <<a, b, c>>[1] = a /\ <<a, b, c>>[2] = b /\ <<a, b, c>>[3] = c
  BY Written
<1>2. PICK s : s = <<a, b, c>>
  OBVIOUS
<1>3. s \in Seq(S) /\ Len(s) = 3 /\ s[1] = a /\ s[2] = b /\ s[3] = c
  BY <1>1, <1>2
<1>4. p = Api \o s
  BY <1>2
<1>5. Api \in Seq(S) /\ Len(Api) = 2 /\ Api[1] = "api" /\ Api[2] = "v1"
  BY Literals
<1>6. IsJoin(S, p, Api, s)
  BY <1>3, <1>4, <1>5, Joined
<1> QED
  BY <1>3, <1>5, <1>6 DEF IsJoin, ApiThree

\* The routes of requests that write.
V2Route == Route(Method, <<"v2">>, TRUE, "dispatchV2")
PatchRoute == Route({"PATCH"}, Api \o <<"repositories">>, TRUE, "dispatchManagement")
PostRoute == Route({"POST"}, Api \o <<"repositories">>, TRUE, "dispatchManagement")
PolicyRoute == Route({"DELETE"}, Api \o <<"retention-policies", "*">>, FALSE, "deletePolicy")
RunRoute == Route({"POST"}, Api \o <<"replications", "*", "run">>, FALSE, "runReplication")
ExecuteRoute == Route({"POST"}, Api \o <<"gc", "execute">>, FALSE, "gcExecute")

\* The others: for reading, for creating something, and the dry run.
Creates(route) ==
  /\ route.methods = {"POST"} /\ ~route.subtree
  /\ \E a \in Words : route.prefix = Api \o <<a>>

DryRun(route) ==
  /\ route.methods = {"POST"} /\ ~route.subtree /\ route.prefix = Api \o <<"gc", "dry-run">>

LEMMA EveryRoute ==
  ASSUME NEW route \in Routes
  PROVE  \/ route.methods = Get
         \/ route \in {V2Route, PatchRoute, PostRoute, PolicyRoute, RunRoute, ExecuteRoute}
         \/ Creates(route)
         \/ DryRun(route)
<1> DEFINE R(m, p, s, t) == Route(m, p, s, t)
<1>1. \A m, p, s, t : /\ R(m, p, s, t).methods = m /\ R(m, p, s, t).prefix = p
  BY DEF Route
<1>2. \/ \E p, s, t : route = R(Get, p, s, t)
      \/ route \in {V2Route, PatchRoute, PostRoute, PolicyRoute, RunRoute, ExecuteRoute}
      \/ \E a \in Words : \E t : route = R({"POST"}, Api \o <<a>>, FALSE, t)
      \/ \E t : route = R({"POST"}, Api \o <<"gc", "dry-run">>, FALSE, t)
  BY DEF Routes, V2Route, PatchRoute, PostRoute, PolicyRoute, RunRoute, ExecuteRoute, Words
<1> HIDE DEF R
<1>3. CASE \E p, s, t : route = R(Get, p, s, t)
  BY <1>1, <1>3
<1>4. CASE \E a \in Words : \E t : route = R({"POST"}, Api \o <<a>>, FALSE, t)
  <2>0. PICK a \in Words : \E t : route = R({"POST"}, Api \o <<a>>, FALSE, t)
    BY <1>4
  <2>1. PICK t : route = R({"POST"}, Api \o <<a>>, FALSE, t)
    BY <2>0
  <2>2. route = [methods |-> {"POST"}, prefix |-> Api \o <<a>>, subtree |-> FALSE, to |-> t]
    BY <2>1 DEF R, Route
  <2>3. route.methods = {"POST"} /\ route.prefix = Api \o <<a>>
    BY <2>2, Zenon
  <2>4. ~route.subtree
    BY <2>2
  <2> QED
    BY <2>2, <2>3, <2>4 DEF Creates
<1>5. CASE \E t : route = R({"POST"}, Api \o <<"gc", "dry-run">>, FALSE, t)
  <2>1. PICK t : route = R({"POST"}, Api \o <<"gc", "dry-run">>, FALSE, t)
    BY <1>5
  <2>2. route = [methods |-> {"POST"}, prefix |-> Api \o <<"gc", "dry-run">>, subtree |-> FALSE,
                 to |-> t]
    BY <2>1 DEF R, Route
  <2>3. route.methods = {"POST"} /\ route.prefix = Api \o <<"gc", "dry-run">>
    BY <2>2, Zenon
  <2>4. ~route.subtree
    BY <2>2
  <2> QED
    BY <2>2, <2>3, <2>4 DEF DryRun
<1> QED
  BY <1>2, <1>3, <1>4, <1>5
LEMMA Unmatched ==
  ASSUME NEW S, NEW route, NEW method, NEW path,
         \/ method \notin route.methods
         \/ ~route.subtree /\ Len(path) # Len(route.prefix)
         \/ /\ route.prefix \in Seq(S)
            /\ \E k \in 1..Len(route.prefix) : route.prefix[k] \notin {"*", path[k]}
  PROVE  ~Matches(route, method, path)
<1>1. CASE method \notin route.methods \/ (~route.subtree /\ Len(path) # Len(route.prefix))
  BY <1>1 DEF Matches
<1>2. CASE /\ route.prefix \in Seq(S)
           /\ \E k \in 1..Len(route.prefix) : route.prefix[k] \notin {"*", path[k]}
  <2>1. DOMAIN route.prefix = 1..Len(route.prefix)
    BY <1>2, LenProperties
  <2> QED
    BY <1>2, <2>1 DEF Matches
<1> QED
  BY <1>1, <1>2

LEMMA V2Fits ==
  /\ V2Route.methods = Method /\ V2Route.subtree /\ V2Route.to = "dispatchV2"
  /\ V2Route.prefix \in Seq(Words) /\ Len(V2Route.prefix) = 1 /\ V2Route.prefix[1] = "v2"
<1>1. V2Route = [methods |-> Method, prefix |-> <<"v2">>, subtree |-> TRUE, to |-> "dispatchV2"]
  BY DEF V2Route, Route
<1>2. V2Route.prefix = <<"v2">>
  BY <1>1
<1> QED
  BY <1>1, <1>2, Literals

LEMMA ManagementFits ==
  /\ PatchRoute.methods = {"PATCH"} /\ PostRoute.methods = {"POST"}
  /\ PatchRoute.subtree /\ PostRoute.subtree
  /\ PatchRoute.to = "dispatchManagement" /\ PostRoute.to = "dispatchManagement"
  /\ \A route \in {PatchRoute, PostRoute} :
       /\ route.prefix \in Seq(Words) /\ Len(route.prefix) = 3
       /\ route.prefix[1] = "api" /\ route.prefix[2] = "v1" /\ route.prefix[3] = "repositories"
<1>1. PICK p : p = Api \o <<"repositories">>
  OBVIOUS
<1>2. /\ PatchRoute = [methods |-> {"PATCH"}, prefix |-> p, subtree |-> TRUE, to |-> "dispatchManagement"]
      /\ PostRoute = [methods |-> {"POST"}, prefix |-> p, subtree |-> TRUE, to |-> "dispatchManagement"]
  BY <1>1 DEF PatchRoute, PostRoute, Route
<1>3. "repositories" \in Words
  BY DEF Words
<1>4. ApiOne(Words, p, "repositories")
  BY <1>1, <1>3, ApiOneIs
<1> QED
  BY <1>2, <1>4 DEF ApiOne

LEMMA PolicyFits ==
  /\ PolicyRoute.methods = {"DELETE"} /\ ~PolicyRoute.subtree /\ PolicyRoute.to = "deletePolicy"
  /\ PolicyRoute.prefix \in Seq(Words) /\ Len(PolicyRoute.prefix) = 4
  /\ PolicyRoute.prefix[1] = "api" /\ PolicyRoute.prefix[2] = "v1"
  /\ PolicyRoute.prefix[3] = "retention-policies" /\ PolicyRoute.prefix[4] = "*"
<1>1. PICK p : p = Api \o <<"retention-policies", "*">>
  OBVIOUS
<1>2. PolicyRoute = [methods |-> {"DELETE"}, prefix |-> p, subtree |-> FALSE, to |-> "deletePolicy"]
  BY <1>1 DEF PolicyRoute, Route
<1>3. "retention-policies" \in Words /\ "*" \in Words
  BY DEF Words
<1>4. ApiTwo(Words, p, "retention-policies", "*")
  BY <1>1, <1>3, ApiTwoIs
<1> QED
  BY <1>2, <1>4 DEF ApiTwo

LEMMA RunFits ==
  /\ RunRoute.methods = {"POST"} /\ ~RunRoute.subtree /\ RunRoute.to = "runReplication"
  /\ RunRoute.prefix \in Seq(Words) /\ Len(RunRoute.prefix) = 5
  /\ RunRoute.prefix[1] = "api" /\ RunRoute.prefix[2] = "v1"
  /\ RunRoute.prefix[3] = "replications" /\ RunRoute.prefix[4] = "*" /\ RunRoute.prefix[5] = "run"
<1>1. PICK p : p = Api \o <<"replications", "*", "run">>
  OBVIOUS
<1>2. RunRoute = [methods |-> {"POST"}, prefix |-> p, subtree |-> FALSE, to |-> "runReplication"]
  BY <1>1 DEF RunRoute, Route
<1>3. "replications" \in Words /\ "*" \in Words /\ "run" \in Words
  BY DEF Words
<1>4. ApiThree(Words, p, "replications", "*", "run")
  BY <1>1, <1>3, ApiThreeIs
<1> QED
  BY <1>2, <1>4 DEF ApiThree

LEMMA ExecuteFits ==
  /\ ExecuteRoute.methods = {"POST"} /\ ~ExecuteRoute.subtree /\ ExecuteRoute.to = "gcExecute"
  /\ ExecuteRoute.prefix \in Seq(Words) /\ Len(ExecuteRoute.prefix) = 4
  /\ ExecuteRoute.prefix[1] = "api" /\ ExecuteRoute.prefix[2] = "v1"
  /\ ExecuteRoute.prefix[3] = "gc" /\ ExecuteRoute.prefix[4] = "execute"
<1>1. PICK p : p = Api \o <<"gc", "execute">>
  OBVIOUS
<1>2. ExecuteRoute = [methods |-> {"POST"}, prefix |-> p, subtree |-> FALSE, to |-> "gcExecute"]
  BY <1>1 DEF ExecuteRoute, Route
<1>3. "gc" \in Words /\ "execute" \in Words
  BY DEF Words
<1>4. ApiTwo(Words, p, "gc", "execute")
  BY <1>1, <1>3, ApiTwoIs
<1> QED
  BY <1>2, <1>4 DEF ApiTwo

LEMMA OthersFit ==
  /\ \A route : Creates(route) => Len(route.prefix) = 3 /\ ~route.subtree
                                   /\ route.prefix \in Seq(Words) /\ route.prefix[1] = "api"
  /\ \A route : DryRun(route) => /\ route.prefix \in Seq(Words) /\ Len(route.prefix) = 4
                                 /\ route.prefix[1] = "api" /\ route.prefix[3] = "gc"
                                 /\ route.prefix[4] = "dry-run"
<1>1. ASSUME NEW route, Creates(route)
      PROVE  Len(route.prefix) = 3 /\ ~route.subtree
               /\ route.prefix \in Seq(Words) /\ route.prefix[1] = "api"
  <2>0. PICK a \in Words : route.prefix = Api \o <<a>>
    BY <1>1 DEF Creates
  <2>1. PICK p : p = route.prefix /\ p = Api \o <<a>>
    BY <2>0
  <2>2. ApiOne(Words, p, a)
    BY <2>1, ApiOneIs
  <2> QED
    BY <1>1, <2>1, <2>2 DEF Creates, ApiOne
<1>2. ASSUME NEW route, DryRun(route)
      PROVE  /\ route.prefix \in Seq(Words) /\ Len(route.prefix) = 4
             /\ route.prefix[1] = "api" /\ route.prefix[3] = "gc"
             /\ route.prefix[4] = "dry-run"
  <2>1. PICK p : p = route.prefix /\ p = Api \o <<"gc", "dry-run">>
    BY <1>2 DEF DryRun
  <2>2. "gc" \in Words /\ "dry-run" \in Words
    BY DEF Words
  <2>3. ApiTwo(Words, p, "gc", "dry-run")
    BY <2>1, <2>2, ApiTwoIs
  <2> QED
    BY <2>1, <2>3 DEF ApiTwo
<1> QED
  BY <1>1, <1>2
-----------------------------------------------------------------------------
(* Which route a request that writes takes: there is one only.               *)

Takes(route, method, path) == {x \in Routes : Matches(x, method, path)} = {route}

\* A request by whose method and first segments no other route can match.
LEMMA OneRoute ==
  ASSUME NEW route \in Routes, NEW method, NEW path, Matches(route, method, path),
         \A x \in Routes \ {route} : ~Matches(x, method, path)
  PROVE  Takes(route, method, path)
  BY DEF Takes

LEMMA TakesV2 ==
  ASSUME NEW method \in {"POST", "PUT", "PATCH", "DELETE"}, NEW path,
         Len(path) \in Nat, Len(path) > 1, path[1] = "v2"
  PROVE  Takes(V2Route, method, path)
<1>1. V2Route \in Routes
  BY DEF V2Route, Routes
<1>2. Matches(V2Route, method, path)
  <2>1. method \in Method /\ DOMAIN V2Route.prefix = 1..1
    BY V2Fits, LenProperties DEF Method
  <2> QED
    BY <2>1, V2Fits DEF Matches
<1>3. ASSUME NEW x \in Routes \ {V2Route} PROVE ~Matches(x, method, path)
  <2>1. method \notin Get
    BY DEF Get
  <2>2. CASE x.methods = Get
    BY <2>1, <2>2, Unmatched
  <2>3. CASE x \in {PatchRoute, PostRoute}
    <3>1. 1 \in 1..Len(x.prefix) /\ x.prefix[1] \notin {"*", path[1]} /\ x.prefix \in Seq(Words)
      BY <2>3, ManagementFits
    <3> QED
      BY <3>1, Unmatched
  <2>4. CASE x \in {PolicyRoute, RunRoute, ExecuteRoute}
    <3>1. 1 \in 1..Len(x.prefix) /\ x.prefix[1] \notin {"*", path[1]} /\ x.prefix \in Seq(Words)
      BY <2>4, PolicyFits, RunFits, ExecuteFits
    <3> QED
      BY <3>1, Unmatched
  <2>5. CASE Creates(x) \/ DryRun(x)
    <3>1. 1 \in 1..Len(x.prefix) /\ x.prefix[1] \notin {"*", path[1]} /\ x.prefix \in Seq(Words)
      BY <2>5, OthersFit
    <3> QED
      BY <3>1, Unmatched
  <2> QED
    BY <2>2, <2>3, <2>4, <2>5, EveryRoute
<1> QED
  BY <1>1, <1>2, <1>3, OneRoute

LEMMA TakesManagement ==
  ASSUME NEW route, NEW method,
         \/ route = PatchRoute /\ method = "PATCH"
         \/ route = PostRoute /\ method = "POST",
         NEW path, NEW n \in Nat, n = Len(path), n > 3,
         path[1] = "api", path[2] = "v1", path[3] = "repositories"
  PROVE  Takes(route, method, path)
<1>0. n # 3
  OBVIOUS
<1>1. route \in Routes
  BY DEF PatchRoute, PostRoute, Routes
<1>2. Matches(route, method, path)
  <2>1. method \in route.methods /\ route.subtree /\ DOMAIN route.prefix = 1..3
    BY ManagementFits, LenProperties
  <2>2. \A k \in 1..3 : route.prefix[k] = path[k]
    BY ManagementFits
  <2> QED
    BY <2>1, <2>2, ManagementFits DEF Matches
<1>3. ASSUME NEW x \in Routes \ {route} PROVE ~Matches(x, method, path)
  <2>1. CASE method \notin x.methods
    BY <2>1, Unmatched
  <2>2. CASE x = V2Route
    <3>1. 1 \in 1..Len(x.prefix) /\ x.prefix[1] \notin {"*", path[1]} /\ x.prefix \in Seq(Words)
      BY <2>2, V2Fits
    <3> QED
      BY <3>1, Unmatched
  <2>3. CASE x \in {PolicyRoute, RunRoute, ExecuteRoute} \/ DryRun(x)
    <3>1. 3 \in 1..Len(x.prefix) /\ x.prefix[3] \notin {"*", path[3]} /\ x.prefix \in Seq(Words)
      BY <2>3, PolicyFits, RunFits, ExecuteFits, OthersFit
    <3> QED
      BY <3>1, Unmatched
  <2>4. CASE Creates(x)
    <3>1. ~x.subtree /\ Len(x.prefix) = 3
      BY <2>4, OthersFit
    <3>2. Len(path) # Len(x.prefix)
      BY <3>1, <1>0
    <3> QED
      BY <3>1, <3>2, Unmatched
  <2>5. CASE x.methods = Get \/ x \in {PatchRoute, PostRoute} \ {route}
    BY <2>1, <2>5, ManagementFits DEF Get
  <2> QED
    BY <2>1, <2>2, <2>3, <2>4, <2>5, EveryRoute
<1> QED
  BY <1>1, <1>2, <1>3, OneRoute

\* The three that name no repository.
LEMMA TakesOther ==
  ASSUME NEW route, NEW method, NEW path, Len(path) \in Nat, path[1] = "api", path[2] = "v1",
         \/ /\ route = PolicyRoute /\ method = "DELETE" /\ Len(path) = 4
            /\ path[3] = "retention-policies"
         \/ /\ route = RunRoute /\ method = "POST" /\ Len(path) = 5
            /\ path[3] = "replications" /\ path[5] = "run"
         \/ /\ route = ExecuteRoute /\ method = "POST" /\ Len(path) = 4
            /\ path[3] = "gc" /\ path[4] = "execute"
  PROVE  Takes(route, method, path)
<1>1. route \in Routes
  BY DEF PolicyRoute, RunRoute, ExecuteRoute, Routes
<1>2. Matches(route, method, path)
  <2>1. /\ method \in route.methods /\ ~route.subtree /\ Len(route.prefix) = Len(path)
        /\ DOMAIN route.prefix = 1..Len(path)
    BY PolicyFits, RunFits, ExecuteFits, LenProperties
  <2>2. \A k \in 1..Len(path) : route.prefix[k] \in {"*", path[k]}
    BY PolicyFits, RunFits, ExecuteFits
  <2> QED
    BY <2>1, <2>2 DEF Matches
<1>3. ASSUME NEW x \in Routes \ {route} PROVE ~Matches(x, method, path)
  <2>1. CASE method \notin x.methods
    BY <2>1, Unmatched
  <2>2. CASE x = V2Route
    <3>1. 1 \in 1..Len(x.prefix) /\ x.prefix[1] \notin {"*", path[1]} /\ x.prefix \in Seq(Words)
      BY <2>2, V2Fits
    <3> QED
      BY <3>1, Unmatched
  <2>3. CASE x \in {PolicyRoute, RunRoute, ExecuteRoute}
    <3>1. method \notin x.methods \/ Len(path) # Len(x.prefix)
      BY <2>3, PolicyFits, RunFits, ExecuteFits
    <3>2. ~x.subtree
      BY <2>3, PolicyFits, RunFits, ExecuteFits
    <3> QED
      BY <3>1, <3>2, Unmatched
  <2>4. CASE DryRun(x)
    <3>1. /\ x.prefix \in Seq(Words) /\ Len(x.prefix) = 4 /\ x.methods = {"POST"}
          /\ x.prefix[3] = "gc" /\ x.prefix[4] = "dry-run"
      BY <2>4, OthersFit DEF DryRun
    <3>2. CASE method # "POST"
      BY <2>1, <3>1, <3>2
    <3>3. CASE path[3] # "gc"
      <4>1. 3 \in 1..Len(x.prefix) /\ x.prefix[3] \notin {"*", path[3]}
        BY <3>1, <3>3
      <4> QED
        BY <3>1, <4>1, Unmatched
    <3>4. CASE path[4] = "execute"
      <4>1. 4 \in 1..Len(x.prefix) /\ x.prefix[4] \notin {"*", path[4]}
        BY <3>1, <3>4
      <4> QED
        BY <3>1, <4>1, Unmatched
    <3> QED
      BY <3>2, <3>3, <3>4
  <2>5. CASE Creates(x)
    <3>1. ~x.subtree /\ Len(x.prefix) = 3
      BY <2>5, OthersFit
    <3>2. Len(path) # Len(x.prefix)
      BY <3>1
    <3> QED
      BY <3>1, <3>2, Unmatched
  <2>6. CASE x \in {PatchRoute, PostRoute}
    <3>1. 3 \in 1..Len(x.prefix) /\ x.prefix[3] \notin {"*", path[3]} /\ x.prefix \in Seq(Words)
      BY <2>6, ManagementFits
    <3> QED
      BY <3>1, Unmatched
  <2>7. CASE x.methods = Get
    BY <2>1, <2>7 DEF Get
  <2> QED
    BY <2>2, <2>3, <2>4, <2>5, <2>6, <2>7, EveryRoute
<1> QED
  BY <1>1, <1>2, <1>3, OneRoute

\* What then answers.
Segments(parts, k, m) == SubSeq(parts, k, m)

Answers(to, method, path, below) ==
  /\ to = "dispatchV2" => Serves(method, path) = DispatchV2(method, below)
  /\ to = "dispatchManagement" => Serves(method, path) = DispatchManagement(method, below)
  /\ to \notin {"dispatchV2", "dispatchManagement"} =>
       Serves(method, path) = Reached(to, <<>>, below)

LEMMA TakenServes ==
  ASSUME NEW route, NEW method, NEW path, Takes(route, method, path)
  PROVE  Answers(route.to, method, path, Segments(path, Len(route.prefix) + 1, Len(path)))
<1> DEFINE below == Segments(path, Len(route.prefix) + 1, Len(path))
<1>1. PICK matching : matching = {x \in Routes : Matches(x, method, path)} /\ matching = {route}
  BY DEF Takes
<1>2. (CHOOSE best \in matching : \A other \in matching \ {best} : MoreSpecific(best, other)) = route
  BY <1>1
<1>3. matching # {}
  BY <1>1
<1>4. Serves(method, path) =
        CASE route.to = "dispatchV2" -> DispatchV2(method, below)
          [] route.to = "dispatchManagement" -> DispatchManagement(method, below)
          [] OTHER -> Reached(route.to, <<>>, below)
  BY <1>1, <1>2, <1>3 DEF Serves, Segments
<1>5. ASSUME NEW to, to = route.to, to = "dispatchV2"
      PROVE  Serves(method, path) = DispatchV2(method, below)
  BY <1>4, <1>5
<1>6. ASSUME NEW to, to = route.to, to = "dispatchManagement"
      PROVE  Serves(method, path) = DispatchManagement(method, below)
  BY <1>4, <1>6
<1>7. ASSUME NEW to, to = route.to, to \notin {"dispatchV2", "dispatchManagement"}
      PROVE  Serves(method, path) = Reached(route.to, <<>>, below)
  BY <1>4, <1>7
<1> QED
  BY <1>5, <1>6, <1>7 DEF Answers


-----------------------------------------------------------------------------
(* What dispatchV2 makes of the segments below /v2/.                         *)

\* A name with none of the words the dispatcher looks for where it looks for them.
PlainName(r) ==
  /\ r # <<>>
  /\ \A k \in 1..Len(r) : r[k] \notin {"blobs", "manifests", "referrers"}
  /\ \A k \in 1 .. Len(r) - 1 : r[k] = "tags" => r[k + 1] # "list"
  /\ r[Len(r)] # "scan"

\* The loop passes over the name and ends at what follows it.
LEMMA EndsBehind ==
  ASSUME NEW S, NEW r \in Seq(S), PlainName(r), NEW rest \in Seq(S), Len(rest) > 0,
         rest[1] # "list", NEW method, NEW parts, IsJoin(S, parts, r, rest),
         Ends(method, parts, Len(r) + 1)
  PROVE  DispatchV2(method, parts) = HandlerAt(method, parts, Len(r) + 1)
<1>1. /\ Len(r) \in Nat /\ Len(rest) \in Nat /\ Len(parts) = Len(r) + Len(rest)
      /\ DOMAIN parts = 1..Len(parts)
      /\ \A k \in 1..Len(r) : parts[k] = r[k]
      /\ parts[Len(r) + 1] = rest[1]
  BY LenProperties DEF IsJoin
<1>2. PICK n : n = Len(r) + 1 /\ n \in Nat
  BY <1>1
<1>3. ASSUME NEW k \in 1..Len(r) PROVE ~Ends(method, parts, k)
  <2>1. parts[k] = r[k] /\ r[k] \notin {"blobs", "manifests", "referrers"}
    BY <1>1 DEF PlainName
  <2>2. ASSUME parts[k] = "tags", k < Len(parts) PROVE parts[k + 1] # "list"
    <3>1. CASE k = Len(r)
      BY <3>1, <1>1
    <3>2. CASE k \in 1 .. Len(r) - 1
      <4>1. r[k + 1] # "list"
        BY <2>1, <2>2, <3>2 DEF PlainName
      <4>2. k + 1 \in 1..Len(r)
        BY <1>1, <3>2
      <4> QED
        BY <1>1, <4>1, <4>2
    <3> QED
      BY <1>1, <3>1, <3>2
  <2> QED
    BY <2>1, <2>2 DEF Ends, Uploads
<1>4. PICK ends : ends = {k \in DOMAIN parts : Ends(method, parts, k)}
  OBVIOUS
<1>5. n \in ends /\ \A k \in ends : k \in Nat /\ n <= k
  BY <1>1, <1>2, <1>3, <1>4
<1>6. Min(ends) = n /\ ends # {}
  <2>1. \A m \in ends : (\A k \in ends : m <= k) => m = n
    BY <1>2, <1>5
  <2> QED
    BY <1>5, <2>1 DEF Min
<1> QED
  BY <1>2, <1>4, <1>6 DEF DispatchV2

LEMMA NoSegments == \A path : \A k \in Int : Segments(path, k + 1, k) = <<>>
  BY SubSeqEmpty DEF Segments

\* The name and what follows the first word behind it.
LEMMA Around ==
  ASSUME NEW S, NEW r \in Seq(S), NEW rest \in Seq(S),
         NEW parts, IsJoin(S, parts, r, rest)
  PROVE  /\ Segments(parts, 1, Len(r)) = r
         /\ Len(rest) = 2 => Segments(parts, Len(r) + 2, Len(parts)) = <<rest[2]>>
<1>1. /\ Len(r) \in Nat /\ Len(rest) \in Nat /\ Len(parts) = Len(r) + Len(rest)
      /\ \A k \in 1..Len(r) : parts[k] = r[k]
      /\ \A k \in 1..Len(rest) : parts[Len(r) + k] = rest[k]
      /\ parts \in Seq(S)
  BY DEF IsJoin
<1>2. \A k \in 1..Len(parts) : parts[k] \in S
  BY <1>1, ElementOfSeq
<1>3. SubSeq(parts, 1, Len(r)) = r
  <2>1. PICK s : s = SubSeq(parts, 1, Len(r))
    OBVIOUS
  <2>2. \A k \in 1..Len(r) : parts[k] \in S
    BY <1>1, <1>2
  <2>3. /\ s \in Seq(S) /\ Len(s) = IF 1 <= Len(r) THEN Len(r) - 1 + 1 ELSE 0
        /\ \A k \in 1 .. Len(r) - 1 + 1 : s[k] = parts[1 + k - 1]
    BY <1>1, <2>1, <2>2, SubSeqProperties
  <2>4. Len(s) = Len(r)
    BY <1>1, <2>3
  <2>5. \A k \in 1..Len(s) : s[k] = r[k]
    BY <1>1, <2>3, <2>4
  <2> QED
    BY <2>1, <2>3, <2>4, <2>5, SeqEqual
<1>4. ASSUME Len(rest) = 2 PROVE SubSeq(parts, Len(r) + 2, Len(parts)) = <<rest[2]>>
  <2>1. PICK s, n : s = SubSeq(parts, n, n) /\ n = Len(r) + 2
    OBVIOUS
  <2>2. n \in Nat /\ n = Len(parts) /\ n \in 1..Len(parts) /\ parts[n] = rest[2] /\ rest[2] \in S
    BY <1>1, <1>2, <1>4, <2>1
  <2>3. \A k \in n..n : parts[k] \in S
    BY <1>2, <2>2
  <2>4. /\ s \in Seq(S) /\ Len(s) = IF n <= n THEN n - n + 1 ELSE 0
        /\ \A k \in 1 .. n - n + 1 : s[k] = parts[n + k - 1]
    BY <2>1, <2>2, <2>3, SubSeqProperties
  <2>5. Len(s) = 1
    BY <2>2, <2>4
  <2>6. s[1] = parts[n]
    BY <2>2, <2>4
  <2>7. PICK x : x = rest[2] /\ x \in S
    BY <2>2
  <2>8. <<x>> \in Seq(S) /\ Len(<<x>>) = 1 /\ <<x>>[1] = x
    BY <2>7, Written
  <2>9. s = <<x>>
    BY <2>2, <2>4, <2>5, <2>6, <2>7, <2>8, SeqEqual
  <2> QED
    BY <2>1, <2>2, <2>7, <2>9
<1> QED
  BY <1>3, <1>4 DEF Segments
-----------------------------------------------------------------------------
(* Requests that write reach their handlers.                                 *)

Dispatched(S, method, r, rest) ==
  \E parts : /\ IsJoin(S, parts, r, rest)
             /\ Serves(method, V2(r, rest)) = DispatchV2(method, parts)

LEMMA V2Served ==
  ASSUME NEW S, Words \subseteq S, NEW r \in Seq(S), NEW rest \in Seq(S), Len(rest) > 0,
         NEW method \in {"POST", "PUT", "PATCH", "DELETE"}
  PROVE  Dispatched(S, method, r, rest)
<1>1. PICK v : v = <<"v2">> /\ v \in Seq(S) /\ Len(v) = 1
  BY Literals
<1>2. v[1] = "v2"
  BY <1>1
<1>3. PICK parts, path : parts = r \o rest /\ path = V2(r, rest)
  OBVIOUS
<1>4. IsJoin(S, parts, r, rest)
  BY <1>3, Joined
<1>5. path = v \o parts
  BY <1>1, <1>3, ConcatAssociative DEF V2
<1>6. parts \in Seq(S)
  BY <1>4 DEF IsJoin
<1>7. IsJoin(S, path, v, parts)
  BY <1>1, <1>5, <1>6, Joined
<1>8. PICK n : n = Len(parts) /\ n \in Nat /\ n > 0
  BY <1>4 DEF IsJoin
<1>9. /\ path \in Seq(S) /\ Len(path) = n + 1 /\ path[1] = "v2"
      /\ \A k \in 1..n : path[1 + k] = parts[k]
  BY <1>1, <1>2, <1>7, <1>8 DEF IsJoin
<1>10. Segments(path, 2, Len(path)) = parts
  <2>1. PICK s : s = SubSeq(path, 2, n + 1)
    OBVIOUS
  <2>2. \A k \in 2 .. n + 1 : path[k] \in S
    BY <1>8, <1>9, ElementOfSeq
  <2>3. /\ s \in Seq(S) /\ Len(s) = IF 2 <= n + 1 THEN n + 1 - 2 + 1 ELSE 0
        /\ \A k \in 1 .. n + 1 - 2 + 1 : s[k] = path[2 + k - 1]
    BY <1>8, <2>1, <2>2, SubSeqProperties
  <2>4. Len(s) = n
    BY <1>8, <2>3
  <2>5. \A k \in 1..Len(s) : s[k] = parts[k]
    BY <1>8, <1>9, <2>3, <2>4
  <2> QED
    BY <1>6, <1>8, <1>9, <2>1, <2>3, <2>4, <2>5, SeqEqual DEF Segments
<1>11. Takes(V2Route, method, path)
  <2>1. Len(path) \in Nat /\ Len(path) > 1 /\ path[1] = "v2"
    BY <1>8, <1>9
  <2> QED
    BY <2>1, TakesV2
<1>12. Segments(path, Len(V2Route.prefix) + 1, Len(path)) = parts
  BY <1>10, V2Fits
<1>13. Serves(method, path) = DispatchV2(method, parts)
  <2>1. Answers(V2Route.to, method, path, parts)
    BY <1>11, <1>12, TakenServes
  <2>2. Answers("dispatchV2", method, path, parts)
    BY <2>1, V2Fits
  <2> QED
    BY <2>2 DEF Answers
<1> QED
  BY <1>3, <1>4, <1>13 DEF Dispatched

LEMMA UploadStartArrives ==
  ASSUME NEW S, Words \subseteq S, NEW r \in Seq(S), PlainName(r)
  PROVE  Serves("POST", V2(r, <<"blobs", "uploads">>)) = Reached("startUpload", r, <<>>)
<1>1. "blobs" \in S /\ "uploads" \in S
  BY DEF Words
<1>2. /\ <<"blobs", "uploads">> \in Seq(S) /\ Len(<<"blobs", "uploads">>) = 2
      /\ <<"blobs", "uploads">>[1] = "blobs" /\ <<"blobs", "uploads">>[2] = "uploads"
  BY <1>1, Written
<1>3. PICK rest : rest = <<"blobs", "uploads">>
  OBVIOUS
<1>4. rest \in Seq(S) /\ Len(rest) = 2 /\ rest[1] = "blobs" /\ rest[2] = "uploads"
  BY <1>2, <1>3
<1>5. PICK parts : /\ IsJoin(S, parts, r, rest)
                   /\ Serves("POST", V2(r, rest)) = DispatchV2("POST", parts)
  <2>1. Len(rest) > 0
    BY <1>4
  <2>2. Dispatched(S, "POST", r, rest)
    BY <1>4, <2>1, V2Served
  <2> QED
    BY <2>2 DEF Dispatched
<1>6. PICK n : n = Len(r) + 1 /\ n \in Nat
  BY <1>5 DEF IsJoin
<1>7. Len(parts) = n + 1 /\ parts[n] = "blobs" /\ parts[n + 1] = "uploads"
  BY <1>4, <1>5, <1>6 DEF IsJoin
<1>8. Uploads(parts, n) /\ Ends("POST", parts, n)
  BY <1>6, <1>7 DEF Uploads, Ends
<1>9. DispatchV2("POST", parts) = HandlerAt("POST", parts, n)
  BY <1>4, <1>5, <1>6, <1>8, EndsBehind
<1>10. HandlerAt("POST", parts, n) = Reached("startUpload", Segments(parts, 1, n - 1), <<>>)
  BY <1>6, <1>7, <1>8 DEF HandlerAt, Segments
<1>11. Segments(parts, 1, n - 1) = r
  <2>1. n - 1 = Len(r)
    BY <1>5, <1>6 DEF IsJoin
  <2>2. Len(rest) > 0
    BY <1>4
  <2>3. Segments(parts, 1, Len(r)) = r
    BY <2>2, <1>4, <1>5, Around
  <2> QED
    BY <2>1, <2>3
<1> QED
  BY <1>3, <1>5, <1>9, <1>10, <1>11

LEMMA UploadArrives ==
  ASSUME NEW S, Words \subseteq S, NEW r \in Seq(S), PlainName(r), NEW id \in S,
         NEW method \in {"PATCH", "PUT", "DELETE"}
  PROVE  Serves(method, V2(r, <<"blobs", "uploads", id>>)) = Reached(UploadHandler[method], r, <<id>>)
<1>1. "blobs" \in S /\ "uploads" \in S
  BY DEF Words
<1>2. /\ <<"blobs", "uploads", id>> \in Seq(S) /\ Len(<<"blobs", "uploads", id>>) = 3
      /\ <<"blobs", "uploads", id>>[1] = "blobs" /\ <<"blobs", "uploads", id>>[2] = "uploads"
      /\ <<"blobs", "uploads", id>>[3] = id
  BY <1>1, Written
<1>3. PICK rest : rest = <<"blobs", "uploads", id>>
  OBVIOUS
<1>4. rest \in Seq(S) /\ Len(rest) = 3 /\ rest[1] = "blobs" /\ rest[2] = "uploads" /\ rest[3] = id
  BY <1>2, <1>3
<1>5. PICK parts : /\ IsJoin(S, parts, r, rest)
                   /\ Serves(method, V2(r, rest)) = DispatchV2(method, parts)
  <2>1. Len(rest) > 0
    BY <1>4
  <2>2. Dispatched(S, method, r, rest)
    BY <1>4, <2>1, V2Served
  <2> QED
    BY <2>2 DEF Dispatched
<1>6. PICK n : n = Len(r) + 1 /\ n \in Nat
  BY <1>5 DEF IsJoin
<1>7. /\ Len(parts) = n + 2 /\ parts[n] = "blobs" /\ parts[n + 1] = "uploads"
      /\ parts[n + 2] = id
  BY <1>4, <1>5, <1>6 DEF IsJoin
<1>8. Uploads(parts, n) /\ Ends(method, parts, n)
  BY <1>6, <1>7 DEF Uploads, Ends
<1>9. DispatchV2(method, parts) = HandlerAt(method, parts, n)
  BY <1>4, <1>5, <1>6, <1>8, EndsBehind
<1>10. HandlerAt(method, parts, n) = ByMethod(UploadHandler, method, Segments(parts, 1, n - 1), <<id>>)
  BY <1>6, <1>7, <1>8 DEF HandlerAt, Segments
<1>11. Segments(parts, 1, n - 1) = r
  <2>1. n - 1 = Len(r)
    BY <1>5, <1>6 DEF IsJoin
  <2>2. Len(rest) > 0
    BY <1>4
  <2>3. Segments(parts, 1, Len(r)) = r
    BY <2>2, <1>4, <1>5, Around
  <2> QED
    BY <2>1, <2>3
<1>12. method \in DOMAIN UploadHandler
  BY DEF UploadHandler
<1> QED
  BY <1>3, <1>5, <1>9, <1>10, <1>11, <1>12 DEF ByMethod

LEMMA ManifestArrives ==
  ASSUME NEW S, Words \subseteq S, NEW r \in Seq(S), PlainName(r), NEW id \in S,
         NEW method \in {"PUT", "DELETE"}
  PROVE  Serves(method, V2(r, <<"manifests", id>>)) = Reached(ManifestHandler[method], r, <<id>>)
<1>1. "manifests" \in S
  BY DEF Words
<1>2. /\ <<"manifests", id>> \in Seq(S) /\ Len(<<"manifests", id>>) = 2
      /\ <<"manifests", id>>[1] = "manifests" /\ <<"manifests", id>>[2] = id
  BY <1>1, Written
<1>3. PICK rest : rest = <<"manifests", id>>
  OBVIOUS
<1>4. rest \in Seq(S) /\ Len(rest) = 2 /\ rest[1] = "manifests" /\ rest[2] = id
  BY <1>2, <1>3
<1>5. PICK parts : /\ IsJoin(S, parts, r, rest)
                   /\ Serves(method, V2(r, rest)) = DispatchV2(method, parts)
  <2>1. Len(rest) > 0
    BY <1>4
  <2>2. Dispatched(S, method, r, rest)
    BY <1>4, <2>1, V2Served
  <2> QED
    BY <2>2 DEF Dispatched
<1>6. PICK n : n = Len(r) + 1 /\ n \in Nat
  BY <1>5 DEF IsJoin
<1>7. Len(parts) = n + 1 /\ parts[n] = "manifests"
  BY <1>4, <1>5, <1>6 DEF IsJoin
<1>8. ~Uploads(parts, n) /\ Ends(method, parts, n)
  BY <1>6, <1>7 DEF Uploads, Ends
<1>9. DispatchV2(method, parts) = HandlerAt(method, parts, n)
  BY <1>4, <1>5, <1>6, <1>8, EndsBehind
<1>10. HandlerAt(method, parts, n) =
         ByMethod(ManifestHandler, method, Segments(parts, 1, n - 1), Segments(parts, n + 1, Len(parts)))
  BY <1>6, <1>7, <1>8 DEF HandlerAt, Segments
<1>11. Segments(parts, 1, n - 1) = r /\ Segments(parts, n + 1, Len(parts)) = <<id>>
  <2>1. n - 1 = Len(r) /\ n + 1 = Len(r) + 2
    BY <1>5, <1>6 DEF IsJoin
  <2>2. Len(rest) > 0
    BY <1>4
  <2>3. /\ Segments(parts, 1, Len(r)) = r
        /\ Segments(parts, Len(r) + 2, Len(parts)) = <<rest[2]>>
    BY <2>2, <1>4, <1>5, Around
  <2> QED
    BY <2>1, <2>3, <1>4
<1>12. method \in DOMAIN ManifestHandler
  BY DEF ManifestHandler
<1> QED
  BY <1>3, <1>5, <1>9, <1>10, <1>11, <1>12 DEF ByMethod
\* What is behind base reaches the management interface.
LEMMA ManagementServed ==
  ASSUME NEW S, NEW method \in {"PATCH", "POST"}, NEW base, ApiOne(S, base, "repositories"),
         NEW parts, Len(parts) > 0, NEW path, IsJoin(S, path, base, parts)
  PROVE  Serves(method, path) = DispatchManagement(method, parts)
<1>1. PICK n, m : n = Len(parts) /\ n \in Nat /\ n > 0 /\ m = Len(path) /\ m \in Nat /\ m = n + 3
  BY DEF IsJoin, ApiOne
<1>2. /\ path \in Seq(S) /\ parts \in Seq(S)
      /\ path[1] = "api" /\ path[2] = "v1" /\ path[3] = "repositories"
      /\ \A k \in 1..n : path[3 + k] = parts[k]
  BY <1>1 DEF IsJoin, ApiOne
<1>3. PICK s : s = SubSeq(path, 4, m)
  OBVIOUS
<1>4. s = parts
  <2>1. \A k \in 4..m : path[k] \in S
    <3>1. \A k \in 1..m : path[k] \in S
      BY <1>1, <1>2, ElementOfSeq
    <3> QED
      BY <1>1, <3>1
  <2>2. /\ s \in Seq(S) /\ Len(s) = IF 4 <= m THEN m - 4 + 1 ELSE 0
        /\ \A k \in 1 .. m - 4 + 1 : s[k] = path[4 + k - 1]
    BY <1>1, <1>3, <2>1, SubSeqProperties
  <2>3. Len(s) = n
    BY <1>1, <2>2
  <2>4. \A k \in 1..Len(s) : s[k] = parts[k]
    BY <1>1, <1>2, <2>2, <2>3
  <2> QED
    BY <1>1, <1>2, <2>2, <2>3, <2>4, SeqEqual
<1>5. PICK route : \/ route = PatchRoute /\ method = "PATCH"
                   \/ route = PostRoute /\ method = "POST"
  OBVIOUS
<1>6. m > 3
  BY <1>1
<1>7. Takes(route, method, path)
  BY <1>1, <1>2, <1>5, <1>6, TakesManagement
<1>8. route.to = "dispatchManagement" /\ Len(route.prefix) = 3
  BY <1>5, ManagementFits
<1>9. Segments(path, Len(route.prefix) + 1, Len(path)) = parts
  BY <1>1, <1>3, <1>4, <1>8 DEF Segments
<1>10. Answers(route.to, method, path, parts)
  BY <1>7, <1>9, TakenServes
<1>11. Answers("dispatchManagement", method, path, parts)
  BY <1>8, <1>10
<1> QED
  BY <1>11 DEF Answers

LEMMA ScanArrives ==
  ASSUME NEW S, Words \subseteq S, NEW r \in Seq(S), PlainName(r)
  PROVE  Serves("POST", Api \o <<"repositories">> \o r \o <<"scan">>) = Reached("submitScan", r, <<>>)
<1>1. PICK base, scan : base = Api \o <<"repositories">> /\ scan = <<"scan">>
  OBVIOUS
<1>2. "scan" \in S /\ "repositories" \in S
  BY DEF Words
<1>3. scan \in Seq(S) /\ Len(scan) = 1 /\ scan[1] = "scan"
  BY <1>1, <1>2, Written
<1>4. ApiOne(S, base, "repositories")
  BY <1>1, <1>2, ApiOneIs
<1>5. PICK parts, path : parts = r \o scan /\ path = (base \o r) \o scan
  OBVIOUS
<1>6. IsJoin(S, parts, r, scan)
  BY <1>3, <1>5, Joined
<1>7. path = base \o parts /\ IsJoin(S, path, base, parts)
  <2>1. base \in Seq(S) /\ parts \in Seq(S)
    BY <1>4, <1>6 DEF ApiOne, IsJoin
  <2>2. path = base \o parts
    BY <2>1, <1>3, <1>5, ConcatAssociative
  <2> QED
    BY <2>1, <2>2, Joined
<1>8. Len(parts) > 0
  BY <1>3, <1>6 DEF IsJoin
<1>9. Serves("POST", path) = DispatchManagement("POST", parts)
  BY <1>4, <1>7, <1>8, ManagementServed
<1>10. PICK n : n = Len(r) /\ n \in Nat /\ n > 0
  BY <1>6, EmptySeq DEF IsJoin, PlainName
<1>11. Len(parts) = n + 1 /\ parts[n + 1] = "scan"
  BY <1>3, <1>6, <1>10 DEF IsJoin
<1>12. DispatchManagement("POST", parts) = Reached("submitScan", Segments(parts, 1, n + 1 - 1), <<>>)
  BY <1>10, <1>11 DEF DispatchManagement, Segments
<1>13. Segments(parts, 1, n + 1 - 1) = r
  <2>1. n + 1 - 1 = Len(r)
    BY <1>10
  <2>2. Len(scan) > 0
    BY <1>3
  <2>3. Segments(parts, 1, Len(r)) = r
    BY <2>2, <1>3, <1>6, Around
  <2> QED
    BY <2>1, <2>3
<1> QED
  BY <1>1, <1>5, <1>9, <1>12, <1>13
LEMMA UpdateArrives ==
  ASSUME NEW S, Words \subseteq S, NEW r \in Seq(S), PlainName(r)
  PROVE  Serves("PATCH", Api \o <<"repositories">> \o r) = Reached("updateRepository", r, <<>>)
<1>1. PICK base : base = Api \o <<"repositories">>
  OBVIOUS
<1>2. "repositories" \in S
  BY DEF Words
<1>3. ApiOne(S, base, "repositories")
  BY <1>1, <1>2, ApiOneIs
<1>4. PICK path : path = base \o r
  OBVIOUS
<1>5. IsJoin(S, path, base, r)
  BY <1>3, <1>4, Joined DEF ApiOne
<1>6. Len(r) > 0
  BY EmptySeq DEF PlainName
<1>7. Serves("PATCH", path) = DispatchManagement("PATCH", r)
  BY <1>3, <1>5, <1>6, ManagementServed
<1>8. DispatchManagement("PATCH", r) = Reached("updateRepository", r, <<>>)
  BY DEF DispatchManagement, PlainName
<1> QED
  BY <1>1, <1>4, <1>7, <1>8

\* The requests that name no repository.
LEMMA PolicyArrives ==
  ASSUME NEW S, Words \subseteq S, NEW id \in S
  PROVE  Serves("DELETE", Api \o <<"retention-policies", id>>) = Reached("deletePolicy", <<>>, <<>>)
<1>1. PICK path : path = Api \o <<"retention-policies", id>>
  OBVIOUS
<1>2. "retention-policies" \in S
  BY DEF Words
<1>3. ApiTwo(S, path, "retention-policies", id)
  BY <1>1, <1>2, ApiTwoIs
<1>4. Takes(PolicyRoute, "DELETE", path)
  BY <1>3, TakesOther DEF ApiTwo
<1>5. PICK below : below = Segments(path, 4 + 1, 4) /\ below = <<>>
  BY NoSegments
<1>6. below = Segments(path, Len(PolicyRoute.prefix) + 1, Len(path))
  BY <1>3, <1>5, PolicyFits DEF ApiTwo
<1>7. Serves("DELETE", path) = Reached("deletePolicy", <<>>, below)
  <2>1. Answers(PolicyRoute.to, "DELETE", path, below)
    BY <1>4, <1>6, TakenServes
  <2>2. Answers("deletePolicy", "DELETE", path, below)
    BY <2>1, PolicyFits
  <2> QED
    BY <2>2 DEF Answers
<1> QED
  BY <1>1, <1>5, <1>7

LEMMA RunArrives ==
  ASSUME NEW S, Words \subseteq S, NEW id \in S
  PROVE  Serves("POST", Api \o <<"replications", id, "run">>) = Reached("runReplication", <<>>, <<>>)
<1>1. PICK path : path = Api \o <<"replications", id, "run">>
  OBVIOUS
<1>2. "replications" \in S /\ "run" \in S
  BY DEF Words
<1>3. ApiThree(S, path, "replications", id, "run")
  BY <1>1, <1>2, ApiThreeIs
<1>4. Takes(RunRoute, "POST", path)
  BY <1>3, TakesOther DEF ApiThree
<1>5. PICK below : below = Segments(path, 5 + 1, 5) /\ below = <<>>
  BY NoSegments
<1>6. below = Segments(path, Len(RunRoute.prefix) + 1, Len(path))
  BY <1>3, <1>5, RunFits DEF ApiThree
<1>7. Serves("POST", path) = Reached("runReplication", <<>>, below)
  <2>1. Answers(RunRoute.to, "POST", path, below)
    BY <1>4, <1>6, TakenServes
  <2>2. Answers("runReplication", "POST", path, below)
    BY <2>1, RunFits
  <2> QED
    BY <2>2 DEF Answers
<1> QED
  BY <1>1, <1>5, <1>7

LEMMA ExecuteArrives ==
  Serves("POST", Api \o <<"gc", "execute">>) = Reached("gcExecute", <<>>, <<>>)
<1>1. PICK path : path = Api \o <<"gc", "execute">>
  OBVIOUS
<1>2. "gc" \in Words /\ "execute" \in Words
  BY DEF Words
<1>3. ApiTwo(Words, path, "gc", "execute")
  BY <1>1, <1>2, ApiTwoIs
<1>4. Takes(ExecuteRoute, "POST", path)
  BY <1>3, TakesOther DEF ApiTwo
<1>5. PICK below : below = Segments(path, 4 + 1, 4) /\ below = <<>>
  BY NoSegments
<1>6. below = Segments(path, Len(ExecuteRoute.prefix) + 1, Len(path))
  BY <1>3, <1>5, ExecuteFits DEF ApiTwo
<1>7. Serves("POST", path) = Reached("gcExecute", <<>>, below)
  <2>1. Answers(ExecuteRoute.to, "POST", path, below)
    BY <1>4, <1>6, TakenServes
  <2>2. Answers("gcExecute", "POST", path, below)
    BY <2>1, ExecuteFits
  <2> QED
    BY <2>2 DEF Answers
<1> QED
  BY <1>1, <1>5, <1>7

\* A request that writes gets to the handler that was meant, and the handler sees
\* the name and the reference the client gave, for every name in which the words
\* the dispatcher looks for do not stand where it looks for them, and every
\* reference (router.go 27-130).
THEOREM WriteReaches ==
  ASSUME NEW Letters, NEW r \in Seq(Letters), PlainName(r), NEW id, NEW request \in Writes(r, id)
  PROVE  Arrives(request)
<1> SUFFICES Serves(request.method, request.path) = request.means
  BY DEF Arrives
<1>1. PICK S : S = Words \union Letters \union {id}
  OBVIOUS
<1>2. Words \subseteq S /\ r \in Seq(S) /\ id \in S /\ PlainName(r)
  BY <1>1, SeqMonotonic
<1>3. \A method, path, to, repository, rest :
        LET f == Form(method, path, to, repository, rest)
        IN  f.method = method /\ f.path = path /\ f.means = Reached(to, repository, rest)
  BY DEF Form
<1>4. /\ UploadHandler["PATCH"] = "patchUpload" /\ UploadHandler["PUT"] = "completeUpload"
      /\ UploadHandler["DELETE"] = "abortUpload"
      /\ ManifestHandler["PUT"] = "putManifest" /\ ManifestHandler["DELETE"] = "deleteManifest"
  BY DEF UploadHandler, ManifestHandler
<1>5. CASE request = Form("POST", V2(r, <<"blobs", "uploads">>), "startUpload", r, <<>>)
  BY <1>2, <1>3, <1>5, UploadStartArrives
<1>6. CASE \/ request = Form("PATCH", V2(r, <<"blobs", "uploads", id>>), "patchUpload", r, <<id>>)
           \/ request = Form("PUT", V2(r, <<"blobs", "uploads", id>>), "completeUpload", r, <<id>>)
           \/ request = Form("DELETE", V2(r, <<"blobs", "uploads", id>>), "abortUpload", r, <<id>>)
  BY <1>2, <1>3, <1>4, <1>6, UploadArrives
<1>7. CASE \/ request = Form("PUT", V2(r, <<"manifests", id>>), "putManifest", r, <<id>>)
           \/ request = Form("DELETE", V2(r, <<"manifests", id>>), "deleteManifest", r, <<id>>)
  BY <1>2, <1>3, <1>4, <1>7, ManifestArrives
<1>8. CASE request = Form("POST", Api \o <<"repositories">> \o r \o <<"scan">>, "submitScan", r, <<>>)
  BY <1>2, <1>3, <1>8, ScanArrives
<1>9. CASE request = Form("PATCH", Api \o <<"repositories">> \o r, "updateRepository", r, <<>>)
  BY <1>2, <1>3, <1>9, UpdateArrives
<1>10. CASE request = Form("DELETE", Api \o <<"retention-policies", id>>, "deletePolicy", <<>>, <<>>)
  BY <1>2, <1>3, <1>10, PolicyArrives
<1>11. CASE request = Form("POST", Api \o <<"replications", id, "run">>, "runReplication", <<>>, <<>>)
  BY <1>2, <1>3, <1>11, RunArrives
<1>12. CASE request = Form("POST", Api \o <<"gc", "execute">>, "gcExecute", <<>>, <<>>)
  BY <1>3, <1>12, ExecuteArrives
<1> QED
  BY <1>5, <1>6, <1>7, <1>8, <1>9, <1>10, <1>11, <1>12 DEF Writes
=============================================================================
