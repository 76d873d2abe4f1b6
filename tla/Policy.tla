-------------------------------- MODULE Policy --------------------------------
(***************************************************************************)
(* The policy decision of the Warden broker (warden/policy.ts), the grant  *)
(* templates (warden/templates.ts), the operator's dry run                 *)
(* (control.ts, checkPolicy) and what the gateway adds to the decision     *)
(* when it enforces it (gateway.ts).                                       *)
(*                                                                         *)
(* A host is the sequence of its labels; an address literal is a host of   *)
(* one label.  A host as it is written may be decorated with upper case,   *)
(* brackets or a final dot, or carry a port: `form' says so.  normalizeHost*)
(* undoes this for names and IPv4 literals, but not for every IPv6 literal.*)
(* There is no RECURSIVE operator and no variable here.                    *)
(***************************************************************************)
EXTENDS Integers, Sequences, FiniteSetsExt

CONSTANTS
    Upstream,      \* [host, port]: the configured inference endpoint
    Allowlisted,   \* network scopes configured at start-up (broker-main.ts)
    ConfiguredPaths, \* the lists of model paths WARDEN_MODEL_PATHS may give
    FirstGroup,    \* IPv6 literal written out, without "::" -> its first group
    WithPort,      \* IPv6 literal with "::" -> the same with "]:443" behind it
    Restricted,    \* literals in loopback, private, link-local... ranges
    Localhost,     \* the host "localhost", blocked though not a literal
    Public,        \* a literal outside those ranges
    Hosts          \* hosts Runtimes and operators ask about

\* What normalizeHost makes of IPv6 literals where it does not leave them whole.
Residues ==
    {FirstGroup[l] : l \in DOMAIN FirstGroup} \cup {WithPort[l] : l \in DOMAIN WithPort}

ASSUME PolicyAssumption ==
    \* A first group alone, such as "fd12", is no IPv6 literal and no test of a
    \* blocked address holds of it.
    /\ \A l \in DOMAIN FirstGroup :
          FirstGroup[l] \notin DOMAIN FirstGroup \cup Restricted \cup {Localhost}
    \* No scope names such a text, and the provider has a name or an IPv4 address.
    /\ \A residue \in Residues : residue \in Seq(STRING) /\ Len(residue) = 1
    /\ Upstream.host \notin DOMAIN FirstGroup \cup DOMAIN WithPort \cup Residues
    /\ \A scope \in Allowlisted : scope.host.name \notin Residues
    /\ Localhost \notin Restricted
    /\ Public \notin Restricted \cup {Localhost}
    /\ Hosts \subseteq Seq(STRING) \ {<<>>}
    \* An entry is a host and a port, of the network plane; a lone "*." is no
    \* wildcard (broker-main.ts, matchHost).
    /\ \A scope \in Allowlisted :
          /\ scope = [plane |-> "network", host |-> scope.host,
                      ports |-> scope.ports, methods |-> {}]
          /\ scope.host = [wild |-> scope.host.wild, name |-> scope.host.name]
          /\ scope.host.wild \in BOOLEAN
          /\ scope.host.wild => scope.host.name \in Seq(STRING) \ {<<>>}

Forms == {"plain", "decorated", "withPort"}
AnyMethod == {}
Plain(host) == [name |-> host, form |-> "plain"]

\* One bracket at either end is taken away, then all from the first ":" on if
\* there is no "::", then spaces, upper case and a final dot.
NormalizeHost(written) ==
    LET host == written.name
    IN  IF host \in DOMAIN FirstGroup THEN FirstGroup[host]
        ELSE IF host \in DOMAIN WithPort /\ written.form = "withPort" THEN WithPort[host]
        ELSE host

isRestrictedAddress(written) == NormalizeHost(written) \in Restricted
isBlockedLiteralAddress(written) ==
    NormalizeHost(written) = Localhost \/ isRestrictedAddress(written)

-----------------------------------------------------------------------------
(* Scopes and templates *)

Exactly(host) == [wild |-> FALSE, name |-> host]
Below(domain) == [wild |-> TRUE, name |-> domain]

Scope(plane, pattern, ports, methods) ==
    [plane |-> plane, host |-> pattern, ports |-> ports, methods |-> methods]

modelScope == Scope("model", Exactly(Upstream.host), {Upstream.port}, {"GET", "POST"})

Https(hosts) == {Scope("network", Exactly(h), {443}, AnyMethod) : h \in hosts}

GitHub == {<<"github", "com">>, <<"api", "github", "com">>, <<"codeload", "github", "com">>}
Npm == <<"registry", "npmjs", "org">>

TemplateIds == {"model-only", "model-plus-github", "model-plus-dev-tools",
                "no-external-network"}

\* The scopes a template delegates; "startup" is what the broker starts with.
Build(id) ==
    CASE id = "startup"              -> {modelScope} \cup Allowlisted
      [] id = "model-only"           -> {modelScope}
      [] id = "model-plus-github"    -> {modelScope} \cup Https(GitHub)
      [] id = "model-plus-dev-tools" -> {modelScope} \cup Https(GitHub \cup {Npm})
      [] id = "no-external-network"  -> {}

-----------------------------------------------------------------------------
(* evaluate *)

\* "*.example.com" stands for every host strictly below example.com.
matchHost(pattern, host) ==
    IF pattern.wild
    THEN /\ Len(pattern.name) < Len(host)
         /\ SubSeq(host, Len(host) - Len(pattern.name) + 1, Len(host)) = pattern.name
    ELSE pattern.name = host

scopeMatches(scope, request) ==
    scope.plane = request.plane /\ matchHost(scope.host, NormalizeHost(request.host))

\* Unlike matchHost, the test for an exact name normalises the scope's host too.
NamedExactly(scopes, host) ==
    \E s \in scopes : ~s.host.wild /\ NormalizeHost(Plain(s.host.name)) = host

\* Mutant of HostMatches: a scope of either plane opens the host.
MutantHostMatches(scopes, request) ==
    {s \in scopes : matchHost(s.host, NormalizeHost(request.host))}

HostMatches(scopes, request) == {s \in scopes : scopeMatches(s, request)}

(***************************************************************************)
(* The checks of evaluate in their order; a decision is the code of the    *)
(* first that refuses, or "allow".  A grant says how it stands: status,    *)
(* whether it is expired or overtime, and which budgets it has spent.      *)
(***************************************************************************)
evaluate(grant, request) ==
    LET host   == NormalizeHost(request.host)
        planes == {s \in grant.scopes : s.plane = request.plane}
        hosts  == HostMatches(grant.scopes, request)
        ports  == {s \in hosts : request.port \in s.ports}
        checks == <<
            <<"grant_revoked",          grant.status = "revoked">>,
            <<"grant_closed",           grant.status = "closed">>,
            <<"budget_tokens_exhausted", grant.status = "exhausted">>,
            <<"grant_expired",          grant.late = "expired">>,
            <<"budget_time_exhausted",  grant.late = "overtime">>,
            <<"address_not_allowed",    /\ isRestrictedAddress(request.host)
                                        /\ ~NamedExactly(grant.scopes, host)>>,
            <<"plane_not_allowed",      planes = {}>>,
            <<"host_not_allowed",       request.userInfo \/ hosts = {}>>,
            <<"port_not_allowed",       ports = {}>>,
            <<"address_not_allowed",    /\ request.plane = "network"
                                        /\ isBlockedLiteralAddress(request.host)
                                        /\ ~NamedExactly(ports, host)>>,
            <<"method_not_allowed",     \A s \in ports : /\ s.methods # AnyMethod
                                                         /\ request.method \notin s.methods>>,
            <<"budget_calls_exhausted", /\ request.plane = "model"
                                        /\ "calls" \in grant.spent>>,
            <<"budget_tokens_exhausted", /\ request.plane = "model"
                                         /\ "tokens" \in grant.spent>> >>
        refusals == {i \in DOMAIN checks : checks[i][2]}
    IN  IF refusals = {} THEN "allow" ELSE checks[Min(refusals)][1]

\* A grant as it is minted.
Fresh(scopes) == [status |-> "active", late |-> "no", spent |-> {}, scopes |-> scopes]

-----------------------------------------------------------------------------
(* checkPolicy: the dry run over the current policy *)

ModelPort(scopes, port) ==
    IF \E s \in scopes : s.plane = "model"
    THEN CHOOSE p \in UNION {s.ports : s \in {t \in scopes : t.plane = "model"}} : TRUE
    ELSE port

\* Mutant of DryRunRequest: the port of the form, also on the model plane.
MutantDryRunRequest(scopes, plane, dest) ==
    [plane |-> plane, host |-> dest.host, userInfo |-> FALSE, port |-> dest.port,
     method |-> IF plane = "model" THEN "POST" ELSE dest.method]

DryRunRequest(scopes, plane, dest) ==
    [plane |-> plane, host |-> dest.host, userInfo |-> FALSE,
     port |-> IF plane = "model" THEN ModelPort(scopes, dest.port) ELSE dest.port,
     method |-> IF plane = "model" THEN "POST" ELSE dest.method]

\* One decision per plane asked about, the model plane first: the first that
\* allows answers, or else the last that refuses for more than its plane.
checkPolicy(scopes, dest) ==
    LET planes    == IF dest.plane = "any" THEN {"model", "network"} ELSE {dest.plane}
        Decide(p) == evaluate(Fresh(scopes), DryRunRequest(scopes, p, dest))
        allowed   == {p \in planes : Decide(p) = "allow"}
        telling   == {p \in planes : Decide(p) # "plane_not_allowed"}
    IN  IF allowed # {}
        THEN [allowed |-> TRUE, code |-> "none",
              plane |-> IF "model" \in allowed THEN "model" ELSE "network"]
        ELSE [allowed |-> FALSE, plane |-> "none",
              code |-> IF telling = {} THEN "plane_not_allowed"
                       ELSE Decide(IF "network" \in telling THEN "network" ELSE "model")]

-----------------------------------------------------------------------------
(* Enforcement: what the gateway asks on behalf of a Runtime *)

\* The provider paths a Runtime may use unless others are configured: [method,
\* path, below], where below says that one further segment may follow (/{id}).
DEFAULT_MODEL_PATHS ==
    { [method |-> "POST", path |-> <<"responses">>, below |-> FALSE],
      [method |-> "POST", path |-> <<"chat", "completions">>, below |-> FALSE],
      [method |-> "GET",  path |-> <<"models">>, below |-> TRUE] }

ModelPaths == {DEFAULT_MODEL_PATHS} \cup ConfiguredPaths

isAllowedModelPath(method, path, allowlist) ==
    /\ \A i \in DOMAIN path : path[i] # ".."
    /\ \E entry \in allowlist :
          /\ entry.method = method
          /\ \/ path = entry.path
             \/ entry.below /\ Len(path) > 0 /\ SubSeq(path, 1, Len(path) - 1) = entry.path

\* What DNS says of a host that is not itself an address: the addresses behind
\* it, of which the gateway connects to one that passes the screen.
resolveAndScreen(addresses) == \E a \in addresses : ~isBlockedLiteralAddress(Plain(a))

EnforceModel(grant, method, path, allowlist) ==
    /\ evaluate(grant, [plane |-> "model", host |-> Plain(Upstream.host),
                        userInfo |-> FALSE, port |-> Upstream.port,
                        method |-> method]) = "allow"
    /\ isAllowedModelPath(method, path, allowlist)

EnforceNetwork(grant, host, port, method, addresses) ==
    /\ evaluate(grant, [plane |-> "network", host |-> host, userInfo |-> FALSE,
                        port |-> port, method |-> method]) = "allow"
    /\ resolveAndScreen(addresses)

-----------------------------------------------------------------------------
(* What the decision is meant to be, and whether a template gets it *)

Policies == TemplateIds \cup {"startup"}
Methods == {"GET", "POST", "CONNECT"}
Ports == {Upstream.port, 80, 443}
Written == [name : Hosts, form : Forms]

Requests == [plane : {"model", "network"}, host : Written, userInfo : BOOLEAN,
             port : Ports, method : Methods]

\* One scope alone says yes to all of the request; a blocked address only if the
\* scope names it.
Covers(scope, request) ==
    LET host == request.host.name
    IN  /\ scope.plane = request.plane
        /\ \/ scope.host = Exactly(host)
           \/ /\ scope.host.wild
              /\ ~isBlockedLiteralAddress(request.host)
              /\ \E n \in 1 .. Len(host) - 1 :
                    SubSeq(host, n + 1, Len(host)) = scope.host.name
        /\ request.port \in scope.ports
        /\ scope.methods = AnyMethod \/ request.method \in scope.methods

\* The host the decision is made about is the one that was written.
Survives(written) == NormalizeHost(written) = written.name

\* An IPv6 literal that is mutilated is refused, also where a scope names it.
DecidesByScope(id) ==
    \A request \in Requests :
        evaluate(Fresh(Build(id)), request) = "allow"
            <=> /\ ~request.userInfo
                /\ Survives(request.host)
                /\ \E scope \in Build(id) : Covers(scope, request)

\* What DNS may say of a host: a literal stands for itself.
Addresses == {Public} \cup Restricted \cup DOMAIN FirstGroup \cup DOMAIN WithPort
Resolutions(host) ==
    IF host \in Addresses \cup {Localhost} THEN {{host}} ELSE SUBSET Addresses \ {{}}

Destinations == [plane : {"any", "model", "network"}, host : Written,
                 port : Ports, method : Methods]

(***************************************************************************)
(* The dry run says what a Runtime of the next Run would meet, whatever    *)
(* model paths are configured: the model plane where it says so, unless    *)
(* POST /responses is not among those paths; the network plane, unless     *)
(* every address of the host is screened; and nothing where it refuses.    *)
(***************************************************************************)
DryRunIsTrue(id) ==
    \A dest \in Destinations, allowlist \in ModelPaths :
        LET grant   == Fresh(Build(id))
            answer  == checkPolicy(Build(id), dest)
            byModel == /\ dest.plane # "network"
                       /\ dest.host.name = Upstream.host
                       /\ EnforceModel(grant, "POST", <<"responses">>, allowlist)
            byNetwork(addresses) ==
                       /\ dest.plane # "model"
                       /\ EnforceNetwork(grant, dest.host, dest.port, dest.method, addresses)
        IN  \A addresses \in Resolutions(dest.host.name) :
              CASE ~answer.allowed -> ~byModel /\ ~byNetwork(addresses)
                [] answer.plane = "model" ->
                       byModel <=> isAllowedModelPath("POST", <<"responses">>, allowlist)
                [] answer.plane = "network" ->
                       byNetwork(addresses) <=> resolveAndScreen(addresses)

\* The policies of which the decision and the dry run are what they should be.
SoundPolicies == {id \in Policies : DecidesByScope(id) /\ DryRunIsTrue(id)}

=============================================================================
