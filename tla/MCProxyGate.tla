------------------------------ MODULE MCProxyGate ------------------------------
(* Policies that open one integration each, or all of them, and for every  *)
(* integration the requests that its guard, its stored facts or the policy *)
(* set apart.  The gate and the meter of Bedrock responses share no state: *)
(* each is explored while the other has not begun.                         *)
EXTENDS ProxyGate, BedrockMeter, TLC

CONSTANTS us, eu, a, t

MCRegions == {us, eu}
MCAccounts == {a}
MCTokens == {t}

Repo == <<"o", "listed">>
Off == [plain |-> {}, claude |-> [enabled |-> FALSE, web_search |-> FALSE], custom |-> {},
        github |-> [enabled |-> FALSE, write |-> {}, approval |-> FALSE]]
Rule(labels, wild) ==
    [labels |-> labels, wild |-> wild, methods |-> Reads, paths |-> {<<"docs">>}]
Site == Rule(<<"a", "com">>, TRUE)

\* What the operator tries: alone, or beside the wildcard of the site.
Tried == {Rule(<<"amazonaws", "com">>, TRUE), Rule(<<us, "amazonaws", "com">>, TRUE),
          Rule(<<"github", "com">>, TRUE), Rule(<<"github", "a", "com">>, TRUE),
          Rule(<<"github", "a", "com">>, FALSE)}

MCPolicies ==
    {Off,
     [Off EXCEPT !.github = [enabled |-> TRUE, write |-> {}, approval |-> FALSE]],
     [Off EXCEPT !.github = [enabled |-> TRUE, write |-> {Repo}, approval |-> FALSE]],
     [Off EXCEPT !.github = [enabled |-> TRUE, write |-> {Repo}, approval |-> TRUE],
                 !.claude = [enabled |-> TRUE, web_search |-> FALSE]],
     [Off EXCEPT !.plain = {"openai", "bedrock", "python_packages", "npm_packages"},
                 !.claude = [enabled |-> TRUE, web_search |-> TRUE],
                 !.custom = {Site}]}
      \cup {[Off EXCEPT !.custom = rules] :
                rules \in {r \in {{Site, rule} : rule \in Tried} \cup {{rule} : rule \in Tried} :
                             ValidCustom(r)}}

Json(objects) == [NoBody EXCEPT !.form = "json", !.objects = objects]
Tool(type) ==
    [type |-> type, tool |-> TRUE, external |-> "absent", indexed |-> "absent", other |-> "absent"]
To(host, method, path) == Ask(host, method, path, "none", {})

Model(region, named) ==
    [To(RegionHost(region), "POST", <<"model", "m", "converse">>) EXCEPT
        !.signature = [key |-> "routing", region |-> named, service |-> "bedrock", session |-> FALSE]]
Messages(objects) ==
    [To(<<"api", "anthropic", "com">>, "POST", <<"v1", "messages">>) EXCEPT
        !.presented = {t}, !.body = Json(objects)]
Responses == [To(<<"chatgpt", "com">>, "POST", <<"responses">>) EXCEPT !.presented = {a}]

MCRequests ==
    {To(GithubApi, "POST", <<"repos", "o", "listed", "issues">>),
     To(GithubWeb, "POST", <<"o", "listed", "git-receive-pack">>),
     Model(us, us), Model(eu, eu), Model(us, eu),
     Messages({}), Messages({Tool("web_search")}),
     [Responses EXCEPT !.upgrade = TRUE],
     [To(<<"auth", "openai", "com">>, "GET", <<"oauth">>) EXCEPT !.upgrade = TRUE],
     [Responses EXCEPT !.body = Json({Tool("web_search")})],
     To(<<"pypi", "org">>, "GET", <<"simple", "leaky">>),
     To(<<"registry", "npmjs", "org">>, "GET", <<"pkg", "-", "leaky">>),
     To(<<"www", "a", "com">>, "GET", <<"docs">>)}

GateRests ==
    /\ policy = Off
    /\ stored = [region |-> None, account |-> None, token |-> None]
    /\ \A c \in Conns : At(c, "closed")
\* An opaque tunnel is followed for two frames: nothing it carries is looked at.
OpaqueBound == \A c \in Conns : At(c, "tunnel") /\ Opaque(c) => conn[c].frames <= 2
MCSymmetry == Permutations(Conns)
MCInit == Init /\ MeterInit
MCSpec ==
    /\ MCInit
    /\ [][\/ truth = {} /\ MeterInit /\ Next /\ UNCHANGED meterVars
          \/ GateRests /\ MeterNext /\ UNCHANGED vars]_<<vars, meterVars>>
=============================================================================
