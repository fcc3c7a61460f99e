-------------------------------- MODULE Router --------------------------------
(***************************************************************************)
(* How the HTTP layer finds the handler of a request (distribution/        *)
(* transport/http/router.go 27-130).  The standard library's ServeMux      *)
(* takes the most specific of the registered patterns that match; what is  *)
(* under /v2/ is then dispatched by hand, because a repository's name is   *)
(* any number of path segments.  A path is the sequence of its segments.   *)
(***************************************************************************)
EXTENDS Naturals, Sequences, FiniteSetsExt

Method == {"GET", "HEAD", "POST", "PUT", "PATCH", "DELETE"}

\* A pattern for GET matches HEAD, too; one without a method matches them all.
Get == {"GET", "HEAD"}

Route(methods, prefix, subtree, to) ==
  [methods |-> methods, prefix |-> prefix, subtree |-> subtree, to |-> to]

Api == <<"api", "v1">>

\* Router.routes.  "*" is a wildcard segment.
Routes ==
  { Route(Get, <<"healthz">>, FALSE, "health"),
    Route(Get, <<"readyz">>, FALSE, "health"),
    Route(Get, <<"v2">>, TRUE, "v2"),
    Route(Method, <<"v2">>, TRUE, "dispatchV2"),
    Route({"POST"}, Api \o <<"repositories">>, FALSE, "createRepository"),
    Route(Get, Api \o <<"repositories">>, FALSE, "listRepositories"),
    Route({"PATCH"}, Api \o <<"repositories">>, TRUE, "dispatchManagement"),
    Route(Get, Api \o <<"scan-reports">>, FALSE, "listScans"),
    Route({"POST"}, Api \o <<"repositories">>, TRUE, "dispatchManagement"),
    Route({"POST"}, Api \o <<"retention-policies">>, FALSE, "createPolicy"),
    Route(Get, Api \o <<"retention-policies">>, FALSE, "listPolicies"),
    Route({"DELETE"}, Api \o <<"retention-policies", "*">>, FALSE, "deletePolicy"),
    Route({"POST"}, Api \o <<"replications">>, FALSE, "createReplication"),
    Route(Get, Api \o <<"replications">>, FALSE, "listReplications"),
    Route({"POST"}, Api \o <<"replications", "*", "run">>, FALSE, "runReplication"),
    Route({"POST"}, Api \o <<"gc", "dry-run">>, FALSE, "gcDryRun"),
    Route({"POST"}, Api \o <<"gc", "execute">>, FALSE, "gcExecute") }

\* ServeMux.
Matches(route, method, path) ==
  /\ method \in route.methods
  /\ IF route.subtree THEN Len(path) > Len(route.prefix) ELSE Len(path) = Len(route.prefix)
  /\ \A k \in DOMAIN route.prefix : route.prefix[k] \in {"*", path[k]}

\* Of two patterns that match one request.
MoreSpecific(route, other) ==
  \/ Len(route.prefix) > Len(other.prefix)
  \/ Len(route.prefix) = Len(other.prefix) /\ route.methods # other.methods
       /\ route.methods \subseteq other.methods

\* A request ends in a handler, with what the handler reads as path values.
Reached(to, repository, rest) == [to |-> to, repository |-> repository, rest |-> rest]
NotFound == Reached("notFound", <<>>, <<>>)

-----------------------------------------------------------------------------
(* dispatchV2: the loop over the segments ends at the first keyword that    *)
(* has what its kind of request needs behind it.                            *)

Uploads(parts, k) == parts[k] = "blobs" /\ k < Len(parts) /\ parts[k + 1] = "uploads"

\* Seeded fault: what follows the keyword "tags" is not looked at.
EndsAtTags(method, parts, k) ==
  \/ Uploads(parts, k) /\ (k + 2 <= Len(parts) \/ method = "POST")
  \/ parts[k] \in {"blobs", "manifests", "referrers", "tags"} /\ k < Len(parts) /\ ~Uploads(parts, k)

\* A method other than POST on .../blobs/uploads leaves the switch, and the
\* loop goes on behind it.
Ends(method, parts, k) ==
  \/ Uploads(parts, k) /\ (k + 2 <= Len(parts) \/ method = "POST")
  \/ parts[k] \in {"blobs", "manifests", "referrers"} /\ k < Len(parts) /\ ~Uploads(parts, k)
  \/ parts[k] = "tags" /\ k < Len(parts) /\ parts[k + 1] = "list"

UploadHandler ==
  [PATCH |-> "patchUpload", PUT |-> "completeUpload", GET |-> "uploadStatus", DELETE |-> "abortUpload"]
BlobHandler == [GET |-> "getBlob", HEAD |-> "headBlob"]
ManifestHandler ==
  [PUT |-> "putManifest", GET |-> "getManifest", HEAD |-> "headManifest", DELETE |-> "deleteManifest"]

ByMethod(handler, method, repository, rest) ==
  IF method \in DOMAIN handler THEN Reached(handler[method], repository, rest) ELSE NotFound

HandlerAt(method, parts, k) ==
  LET repository == SubSeq(parts, 1, k - 1)
      rest == SubSeq(parts, k + 1, Len(parts))
  IN  CASE Uploads(parts, k) /\ k + 1 = Len(parts) -> Reached("startUpload", repository, <<>>)
        [] Uploads(parts, k) /\ k + 1 < Len(parts) ->
             ByMethod(UploadHandler, method, repository, <<parts[k + 2]>>)
        [] parts[k] = "blobs" /\ ~Uploads(parts, k) -> ByMethod(BlobHandler, method, repository, rest)
        [] parts[k] = "manifests" -> ByMethod(ManifestHandler, method, repository, rest)
        [] parts[k] = "tags" -> Reached("tags", repository, <<>>)
        [] parts[k] = "referrers" -> Reached("referrers", repository, rest)

DispatchV2(method, parts) ==
  LET ends == {k \in DOMAIN parts : Ends(method, parts, k)}
  IN  IF ends = {} THEN NotFound ELSE HandlerAt(method, parts, Min(ends))

DispatchManagement(method, parts) ==
  LET last == Len(parts)
  IN  IF last > 1 /\ parts[last] = "scan"
      THEN Reached("submitScan", SubSeq(parts, 1, last - 1), <<>>)
      ELSE IF method = "PATCH" THEN Reached("updateRepository", parts, <<>>) ELSE NotFound

\* What answers a request.
Serves(method, path) ==
  LET matching == {route \in Routes : Matches(route, method, path)}
      route == CHOOSE best \in matching :
                 \A other \in matching \ {best} : MoreSpecific(best, other)
      below == SubSeq(path, Len(route.prefix) + 1, Len(path))
  IN  IF matching = {} THEN NotFound
      ELSE CASE route.to = "dispatchV2" -> DispatchV2(method, below)
             [] route.to = "dispatchManagement" -> DispatchManagement(method, below)
             [] OTHER -> Reached(route.to, <<>>, below)

-----------------------------------------------------------------------------
(* The requests of the API, as a client forms them *)

Form(method, path, to, repository, rest) ==
  [method |-> method, path |-> path, means |-> Reached(to, repository, rest)]

V2(repository, rest) == <<"v2">> \o repository \o rest

Writes(r, id) ==
  { Form("POST", V2(r, <<"blobs", "uploads">>), "startUpload", r, <<>>),
    Form("PATCH", V2(r, <<"blobs", "uploads", id>>), "patchUpload", r, <<id>>),
    Form("PUT", V2(r, <<"blobs", "uploads", id>>), "completeUpload", r, <<id>>),
    Form("DELETE", V2(r, <<"blobs", "uploads", id>>), "abortUpload", r, <<id>>),
    Form("PUT", V2(r, <<"manifests", id>>), "putManifest", r, <<id>>),
    Form("DELETE", V2(r, <<"manifests", id>>), "deleteManifest", r, <<id>>),
    Form("POST", Api \o <<"repositories">> \o r \o <<"scan">>, "submitScan", r, <<>>),
    Form("PATCH", Api \o <<"repositories">> \o r, "updateRepository", r, <<>>),
    Form("DELETE", Api \o <<"retention-policies", id>>, "deletePolicy", <<>>, <<>>),
    Form("POST", Api \o <<"replications", id, "run">>, "runReplication", <<>>, <<>>),
    Form("POST", Api \o <<"gc", "execute">>, "gcExecute", <<>>, <<>>) }

Reads(r, id) ==
  { Form("GET", V2(r, <<"blobs", id>>), "getBlob", r, <<id>>),
    Form("HEAD", V2(r, <<"blobs", id>>), "headBlob", r, <<id>>),
    Form("GET", V2(r, <<"blobs", "uploads", id>>), "uploadStatus", r, <<id>>),
    Form("GET", V2(r, <<"manifests", id>>), "getManifest", r, <<id>>),
    Form("HEAD", V2(r, <<"manifests", id>>), "headManifest", r, <<id>>),
    Form("GET", V2(r, <<"tags", "list">>), "tags", r, <<>>),
    Form("GET", V2(r, <<"referrers", id>>), "referrers", r, <<id>>) }

\* The handler meant gets the request, and sees the repository and the
\* reference the client named.
Arrives(request) == Serves(request.method, request.path) = request.means
=============================================================================
