----------------------------- MODULE NetworkRules -----------------------------
(***************************************************************************)
(* Which requests the network integrations admit: the owner of a host      *)
(* (network_integrations/registry.py), the shape of a policy the operator  *)
(* may store (host/config.py and the manifests), and each owner's guard.   *)
(* Pure definitions: a policy, the stored facts the guards read, and one   *)
(* request in; whether it is admitted, out. A request's path is the one    *)
(* the origin server resolves (decoded and with . and .. collapsed), its   *)
(* raw path the one it was written with; a trailing slash is an empty last *)
(* segment of either.                                                      *)
(*                                                                         *)
(* A host is the sequence of its labels. Owners and repositories are in    *)
(* lower case and without ".git", as parser and guard both make them; a    *)
(* path or a query the parameter guard (host/param_guard.py) finds         *)
(* something in is "leaky".                                                *)
(***************************************************************************)
EXTENDS Naturals, Sequences, FiniteSets, SequencesExt

CONSTANT Regions    \* Bedrock regions

None == [none |-> TRUE]

-----------------------------------------------------------------------------
(* Who decides about a host.                                               *)

RegionHost(r) == <<"bedrock-runtime", r, "amazonaws", "com">>

Apexes ==
    [openai  |-> {<<"openai", "com">>, <<"chatgpt", "com">>},
     claude  |-> {<<"anthropic", "com">>, <<"claude", "ai">>, <<"claude", "com">>},
     bedrock |-> {RegionHost(r) : r \in Regions},
     github  |-> {<<"github", "com">>, <<"githubusercontent", "com">>},
     python_packages |-> {<<"pypi", "org">>, <<"pythonhosted", "org">>},
     npm_packages    |-> {<<"npmjs", "org">>, <<"nodejs", "org">>}]

\* managed_domain_owner: under an apex, or a wildcard that covers one.
Owners(domain) ==
    {i \in DOMAIN Apexes :
        \E apex \in Apexes[i] :
            IsSuffix(apex, domain.labels) \/ (domain.wild /\ IsSuffix(domain.labels, apex))}

Owner(host) ==
    LET owners == Owners([labels |-> host, wild |-> FALSE])
    IN  IF owners = {} THEN "custom" ELSE CHOOSE i \in owners : TRUE

-----------------------------------------------------------------------------
(* Custom domains: a rule is a domain, exact or wild, its methods and its  *)
(* paths (none: any path).                                                 *)

Matches(rule, host) ==
    IF rule.wild THEN IsSuffix(rule.labels, host) /\ host # rule.labels
                 ELSE host = rule.labels

\* _reject_overlapping_wildcards.
Overlap(left, right) ==
    /\ left.wild /\ right.wild
    /\ IsSuffix(right.labels, left.labels) \/ IsSuffix(left.labels, right.labels)

\* What parse and parse_network_controls accept.
ValidCustom(rules) ==
    /\ \A rule \in rules : Len(rule.labels) >= 2 /\ Owners(rule) = {}
    /\ \A left, right \in rules :
          left # right => /\ ~Overlap(left, right)
                          /\ left.labels # right.labels \/ left.wild # right.wild

\* rule_for_host: the exact rule, otherwise the longest wildcard.
RulesFor(rules, host) ==
    LET matching == {rule \in rules : Matches(rule, host)}
        exact == {rule \in matching : ~rule.wild}
    IN  IF exact # {} THEN exact
        ELSE {rule \in matching : \A other \in matching : Len(other.labels) <= Len(rule.labels)}

\* A policy the operator may store; a disabled integration carries no state.
ValidPolicy(policy) ==
    /\ ValidCustom(policy.custom)
    /\ ~policy.github.enabled => policy.github.write = {} /\ ~policy.github.approval
    /\ policy.claude.web_search => policy.claude.enabled

Enabled(policy, integration) ==
    CASE integration = "github" -> policy.github.enabled
      [] integration = "claude" -> policy.claude.enabled
      [] integration = "custom" -> policy.custom # {}
      [] OTHER -> integration \in policy.plain

-----------------------------------------------------------------------------
(* Request bodies. A body's objects are those anywhere in its JSON, each   *)
(* with its type and three flags that are absent, false or true; its       *)
(* extras are the other fields a guard looks for. An object is a tool if   *)
(* it is an element of the top-level array of that name.                   *)

NoBody == [coding |-> "plain", form |-> "none", objects |-> {}, extras |-> {}]

\* What a guard can look into: decoded within the bound, and JSON if it looks so.
Inspectable(body) == body.form = "none" \/ (body.coding # "odd" /\ body.form # "broken")

\* OpenAI: the objects that are tools, or that ask for access under any type.
Guarded(node) ==
    /\ node.type \notin {"untyped", "settings", "web_search_call"}
    /\ \/ node.type \in {"mcp", "hosted", "web_search", "web_other"}
       \/ "true" \in {node.external, node.indexed, node.other}

\* _tool_object_violation: the one web tool that passes.
Cached(node) ==
    /\ node.type = "web_search"
    /\ node.external = "false"
    /\ "true" \notin {node.indexed, node.other}

SearchPath(path) == Len(path) > 1 /\ SubSeq(path, Len(path) - 1, Len(path)) = <<"alpha", "search">>

\* The endpoint that searches live unless its settings say otherwise.
SettingsCached(body) ==
    \E node \in body.objects :
        node.type = "settings" /\ node.external = "false" /\ node.indexed # "true"

OpenaiBodyAllowed(path, body) ==
    /\ Inspectable(body)
    /\ body.form = "json" =>
          /\ \A node \in body.objects : Guarded(node) => Cached(node)
          /\ body.extras \cap {"server_url", "web_search_options", "search_model"} = {}
          /\ SearchPath(path) => SettingsCached(body)

\* _tool_violation: the top level alone, where the Messages API declares tools
\* and MCP servers.
ClaudeBodyAllowed(config, body) ==
    /\ Inspectable(body)
    /\ body.form = "json" =>
          /\ \A node \in {node \in body.objects : node.tool} :
                /\ node.type = "web_search" => config.web_search
                /\ node.type # "hosted"
          /\ "mcp_servers" \notin body.extras

-----------------------------------------------------------------------------
(* The guards. stored is what they read from the database: the Bedrock     *)
(* region, the pinned OpenAI account, the pinned Claude token.             *)

Reads == {"GET", "HEAD"}
Methods == Reads \cup {"POST", "PUT", "PATCH", "DELETE"}

GithubWeb == <<"github", "com">>
GithubApi == <<"api", "github", "com">>
GithubUploads == <<"uploads", "github", "com">>
\* codeload, raw and the signed addresses.
GithubFiles == {<<"codeload", "github", "com">>, <<"raw", "githubusercontent", "com">>,
                <<"objects", "githubusercontent", "com">>}

\* The hosts each managed integration serves, of all it owns.
Served(stored, integration) ==
    CASE integration = "openai" ->
            {<<"api", "openai", "com">>, <<"auth", "openai", "com">>, <<"chatgpt", "com">>}
      [] integration = "claude" -> {<<"api", "anthropic", "com">>, <<"platform", "claude", "com">>}
      [] integration = "bedrock" ->
            {RegionHost(r) : r \in {r \in Regions : stored.region \in {r, None}}}
      [] integration = "github" -> {GithubWeb, GithubApi, GithubUploads} \cup GithubFiles
      [] integration = "python_packages" -> {<<"pypi", "org">>, <<"files", "pythonhosted", "org">>}
      [] integration = "npm_packages" -> {<<"registry", "npmjs", "org">>, <<"nodejs", "org">>}

\* The fullmatch of ^<prefix>(?:/.*)?$ on the path with its query (route_allowed):
\* a query needs a path below the prefix.
Under(request, prefix) ==
    IsPrefix(prefix, request.path) /\ (request.path = prefix => request.query = "none")

CarriesOnly(request, pinned) == request.presented = {pinned}

\* GUARDED_HOSTS: the OpenAI hosts whose account and bodies are judged.
GuardedHosts == {<<"api", "openai", "com">>, <<"chatgpt", "com">>}

OpenaiAllows(stored, request) ==
    /\ request.host \in Served(stored, "openai")
    /\ request.method \in (IF request.host[1] = "api" THEN {"POST"} ELSE {"GET", "POST"})
    /\ request.host \in GuardedHosts =>
          /\ stored.account # None
          /\ CarriesOnly(request, stored.account)
          /\ OpenaiBodyAllowed(request.path, request.body)

\* The reads of a login that has no pin yet.
PrePin(request) ==
    /\ request.method = "GET"
    /\ request.path = <<"api", "oauth", "profile">>
    /\ request.presented # {}

ClaudeAllows(config, stored, request) ==
    /\ request.method \in {"GET", "POST"}
    /\ \/ /\ request.host = <<"platform", "claude", "com">>
          /\ Under(request, <<"v1", "oauth">>)
       \/ /\ request.host = <<"api", "anthropic", "com">>
          /\ ClaudeBodyAllowed(config, request.body)
          /\ \/ request.method = "GET" /\ request.raw = <<"api", "hello">>
             \/ stored.token = None /\ PrePin(request)
             \/ stored.token # None /\ CarriesOnly(request, stored.token)

\* The scope of a dummy signature is the stored region's, and so is the host.
InScope(region, request) ==
    /\ region # None
    /\ request.host = RegionHost(region)
    /\ request.signature.region = region
    /\ request.signature.service = "bedrock"

BedrockAllows(stored, request) ==
    /\ request.query = "none"
    /\ request.method = "POST"
    /\ Len(request.path) = 3 /\ request.path[1] = "model" /\ request.path[3] = "converse"
    /\ request.signature # None
    /\ ~request.signature.session
    /\ request.signature.key = "routing"
    /\ InScope(stored.region, request)

\* request_param_denial: the whole address is looked at, decoded but not resolved.
Leaky(request) == "leaky" \in {request.query} \cup ToSet(request.raw)

\* Package indexes: the names an agent asks for pass the parameter guard, the
\* addresses the index itself gave it need not.
PythonAllows(request) ==
    /\ request.method \in Reads
    /\ \/ /\ request.host = <<"pypi", "org">>
          /\ \/ Under(request, <<"simple">>)
             \/ /\ Len(request.path) = 3 /\ request.path[1] = "pypi" /\ request.path[3] = "json"
                /\ request.query = "none"
          /\ ~Leaky(request)
       \/ request.host = <<"files", "pythonhosted", "org">> /\ Under(request, <<"packages">>)

NpmAllows(request) ==
    /\ request.method \in Reads
    /\ \/ request.host = <<"registry", "npmjs", "org">>
       \/ request.host = <<"nodejs", "org">> /\ Under(request, <<"dist">>)
    /\ "-" \in ToSet(Front(request.raw)) \/ ~Leaky(request)

CustomAllows(rules, request) ==
    /\ \E rule \in RulesFor(rules, request.host) :
          /\ request.method \in rule.methods
          /\ rule.paths = {} \/ request.path \in rule.paths
    /\ ~Leaky(request)

-----------------------------------------------------------------------------
(* GitHub: every read, and the writes of the listed repositories.          *)

\* Wrong: only what hangs directly under the repository is looked at.
AdminBySubOnly(method, host, path) == Len(path) = 3 \/ path[4] \in {"forks", "keys", "hooks", "statuses"}

\* _github_repo_admin_write_denied, on /repos/<owner>/<repo>/...: "forks" stands
\* for what leaves the repository, "keys" and "hooks" for access, publishing and
\* security, "statuses" for the signals automation and humans act on.
AdminWrite(method, host, path) ==
    LET tail == SubSeq(path, 5, Len(path))
        starts(name) == tail # <<>> /\ tail[1] = name
    IN  \/ Len(path) = 3
        \/ path[4] \in {"forks", "keys", "hooks", "statuses"}
        \/ host = GithubApi /\ path[4] = "releases"
        \/ path[4] \in {"branches", "tags"} /\ "protection" \in ToSet(tail)
        \/ path[4] = "pulls" /\ Last(path) = "update-branch"
        \/ /\ path[4] = "actions"
           /\ \/ starts("secrets") \/ starts("artifacts")
              \/ starts("workflows") /\ Last(path) \in {"enable", "disable", "dispatches"}
              \/ starts("runs") /\ (method = "DELETE" \/ Last(path) \in {"cancel", "approve"})

\* _github_dot_github_rest_write_denied.
MovesContent(method, path) ==
    LET tail == SubSeq(path, 4, Len(path))
    IN  \/ IsPrefix(<<"contents", ".github">>, tail)
        \/ \E object \in {"commits", "refs", "trees"} : IsPrefix(<<"git", object>>, tail)
        \/ tail # <<>> /\ tail[1] \in {"merges", "merge-upstream"}
        \/ method = "PUT" /\ Len(tail) > 2 /\ tail[1] = "pulls" /\ tail[3] = "merge"

ApiAllows(config, method, host, path) ==
    \/ method \in Reads
    \/ /\ Len(path) > 2 /\ path[1] = "repos"
       /\ ~AdminWrite(method, host, path)
       /\ <<path[2], path[3]>> \in config.write
       /\ config.approval /\ host = GithubApi => ~MovesContent(method, path)

\* The two steps of a push.
PushStep(request) ==
    /\ Len(request.path) > 2
    /\ LET suffix == SubSeq(request.path, 3, Len(request.path))
       IN  \/ request.method = "GET" /\ suffix = <<"info", "refs">> /\ request.query = "receive"
           \/ request.method = "POST" /\ suffix = <<"git-receive-pack">>

WebAllows(config, request) ==
    LET suffix == SubSeq(request.path, 3, Len(request.path))
    IN  IF PushStep(request) THEN <<request.path[1], request.path[2]>> \in config.write
        ELSE \/ request.method \in Reads
             \/ suffix = <<"info", "lfs", "objects", "batch">> /\ request.body.extras = {"download"}
             \/ suffix = <<"git-upload-pack">>

GithubAllows(config, request) ==
    \/ request.host \in GithubFiles /\ request.method \in Reads
    \/ /\ ~(request.query = "leaky" /\ request.method \in Reads)
       /\ \/ /\ request.host = GithubWeb
             /\ request.method \in Reads \cup {"POST"}
             /\ WebAllows(config, request)
          \/ /\ request.host \in {GithubApi, GithubUploads}
             /\ request.method \in Methods
             /\ ApiAllows(config, request.method, request.host, request.path)

\* gate_response: the pushes that are looked into before they go on.
Gated(config, request) ==
    /\ config.approval
    /\ request.host = GithubWeb
    /\ request.method = "POST"
    /\ Len(request.path) = 3 /\ request.path[3] = "git-receive-pack"

-----------------------------------------------------------------------------
(* The dispatch: network_integrations/runtime.py.                          *)

RequestAllowed(policy, stored, request) ==
    LET owner == Owner(request.host)
    IN  /\ Enabled(policy, owner)
        /\ CASE owner = "openai"  -> OpenaiAllows(stored, request)
             [] owner = "claude"  -> ClaudeAllows(policy.claude, stored, request)
             [] owner = "bedrock" -> BedrockAllows(stored, request)
             [] owner = "github"  -> GithubAllows(policy.github, request)
             [] owner = "custom"  -> CustomAllows(policy.custom, request)
             [] owner = "python_packages" -> PythonAllows(request)
             [] owner = "npm_packages" -> NpmAllows(request)

\* host_allowed, at CONNECT: without a credential every Bedrock host is let in, to
\* be refused with its reason.
HostAllowed(policy, stored, host) ==
    LET owner == Owner(host)
    IN  /\ Enabled(policy, owner)
        /\ IF owner = "custom" THEN \E rule \in RulesFor(policy.custom, host) : rule.methods # {}
                               ELSE host \in Served(stored, owner)

\* ws_message_guard: a tunnel's client messages are judged for the hosts whose
\* integration asks for it, OpenAI's guarded ones; to any other the tunnel is opaque.
Inspected(policy, host) == Enabled(policy, Owner(host)) /\ host \in GuardedHosts

-----------------------------------------------------------------------------
(* What GitHub does with a request (external), over the shapes of requests *)
(* the guard tells apart.                                                  *)

Tails ==
    {<<>>, <<"contents", "README">>, <<"contents", ".github", "ci">>, <<"git", "blobs">>,
     <<"git", "refs", "main">>, <<"git", "trees">>, <<"git", "commits">>, <<"merges">>,
     <<"merge-upstream">>, <<"pulls">>, <<"pulls", "1", "merge">>, <<"pulls", "1", "update-branch">>,
     <<"issues">>, <<"forks">>, <<"keys">>, <<"hooks">>, <<"statuses", "c">>, <<"releases", "1">>,
     <<"branches", "main", "protection">>, <<"tags", "protection">>, <<"actions", "secrets", "s">>,
     <<"actions", "artifacts", "1">>, <<"actions", "runs", "1">>, <<"actions", "runs", "1", "cancel">>,
     <<"actions", "runs", "1", "rerun">>, <<"actions", "workflows", "1", "dispatches">>}

Ask(host, method, path, query, extras) ==
    [host |-> host, method |-> method, path |-> path, raw |-> path, query |-> query, presented |-> {},
     signature |-> None, body |-> [NoBody EXCEPT !.extras = extras], upgrade |-> FALSE]

ApiPath(repo, tail) == <<"repos", repo[1], repo[2]>> \o tail
WebPath(repo, tail) == <<repo[1], repo[2]>> \o tail
WebTails ==
    {<<>>, <<"info", "refs">>, <<"git-receive-pack">>, <<"git-upload-pack">>,
     <<"info", "lfs", "objects", "batch">>, <<"info", "lfs", "locks">>}
Elsewhere == {<<"graphql">>, <<"user", "repos">>, <<"gists">>}

ApiAsks(paths) ==
    {Ask(host, method, path, "none", {}) :
        host \in {GithubApi, GithubUploads}, method \in Methods, path \in paths}
WebAsks(paths) ==
    {Ask(GithubWeb, method, path, query, extras) :
        method \in Methods, path \in paths, query \in {"none", "receive"},
        extras \in {{}, {"download"}, {"upload"}}}
GithubAsks(repos) ==
    ApiAsks(Elsewhere \cup {ApiPath(repo, tail) : repo \in repos, tail \in Tails})
        \cup WebAsks({WebPath(repo, tail) : repo \in repos, tail \in WebTails})

\* What an API write to one repository reaches: its settings and access
\* ("control"), its files with the workflows among them ("workflows"), or other
\* content of it ("content").
Reach(method, tail) ==
    IF tail = <<>> THEN "control"
    ELSE CASE tail[1] \in {"forks", "keys", "hooks", "statuses", "branches", "tags", "releases"} ->
                "control"
           [] tail[1] = "actions" ->
                IF tail[2] = "runs" /\ Last(tail) # "cancel" /\ method # "DELETE"
                THEN "content" ELSE "control"
           [] tail[1] = "pulls" ->
                IF Last(tail) = "update-branch" THEN "control"
                ELSE IF Last(tail) = "merge" /\ method = "PUT" THEN "workflows" ELSE "content"
           [] tail[1] = "contents" -> IF tail[2] = ".github" THEN "workflows" ELSE "content"
           [] tail[1] = "git" -> IF tail[2] = "blobs" THEN "content" ELSE "workflows"
           [] tail[1] \in {"merges", "merge-upstream"} -> "workflows"
           [] OTHER -> "content"

\* What a write changes, as pairs of a repository (<<"anything">> if the request does
\* not name it) and how far the change reaches in it. The uploads host serves release
\* assets alone.
WebEffects(request) ==
    LET suffix == SubSeq(request.path, 3, Len(request.path))
    IN  CASE suffix = <<"git-upload-pack">> -> {}
          [] suffix = <<"git-receive-pack">> ->
                {<<<<request.path[1], request.path[2]>>, "workflows">>}
          [] suffix = <<"info", "lfs", "objects", "batch">> ->
                IF request.body.extras = {"download"} THEN {} ELSE {<<<<"anything">>, "content">>}
          [] OTHER -> {<<<<"anything">>, "control">>}
ApiEffects(request) ==
    LET path == request.path
    IN  IF path[1] # "repos" THEN {<<<<"anything">>, "control">>}
        ELSE {<<<<path[2], path[3]>>,
                IF request.host = GithubUploads THEN "content"
                ELSE Reach(request.method, SubSeq(path, 4, Len(path)))>>}
Effects(request) ==
    IF request.method \in Reads THEN {}
    ELSE IF request.host = GithubWeb THEN WebEffects(request) ELSE ApiEffects(request)

\* What a request changes is in a listed repository, is not its control, and is not its
\* workflows unless the gate looks.
StaysInScope(config, request) ==
    \A effect \in Effects(request) :
        /\ effect[1] \in config.write
        /\ effect[2] # "control"
        /\ effect[2] = "workflows" /\ config.approval => Gated(config, request)

Listed == {<<"o", "listed">>}
Unlisted == {<<"o", "other">>}

=============================================================================
