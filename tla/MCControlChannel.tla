--------------------------- MODULE MCControlChannel ---------------------------
(* Two Runs over a ledger of one trace, for TLC. *)
EXTENDS ControlChannel, TLC

\* The provider is not on port 443, so that the port the dry run is asked about
\* and the one it uses differ.
MCUpstream == [host |-> <<"ark", "example">>, port |-> 8443]

\* An IPv6 literal that is cut at its first ":", and one that is not but keeps
\* the port it is written with.
MCLong == <<"fd12:3456:789a:1:2:3:4:5">>
MCFirstGroup == [l \in {MCLong} |-> <<"fd12">>]
MCWithPort == [l \in {<<"::1">>} |-> <<"::1]:443">>]

MCRestricted == {<<"10.0.0.5">>, <<"::1">>, MCLong}
MCLocalhost == <<"localhost">>
MCPublic == <<"203.0.113.7">>

\* WARDEN_MODEL_PATHS = "POST /chat/completions"
MCConfiguredPaths ==
    {{[method |-> "POST", path |-> <<"chat", "completions">>, below |-> FALSE]}}

\* The operator has allowed a domain and three private addresses.
MCAllowlisted ==
    { [plane |-> "network", host |-> [wild |-> TRUE, name |-> <<"corp", "example">>],
       ports |-> {443}, methods |-> {}],
      [plane |-> "network", host |-> [wild |-> FALSE, name |-> <<"10.0.0.5">>],
       ports |-> {80}, methods |-> {}],
      [plane |-> "network", host |-> [wild |-> FALSE, name |-> <<"::1">>],
       ports |-> {443}, methods |-> {}],
      [plane |-> "network", host |-> [wild |-> FALSE, name |-> MCLong],
       ports |-> {443}, methods |-> {}] }

MCHosts == {<<"ark", "example">>, <<"corp", "example">>, <<"a", "corp", "example">>,
            <<"github", "com">>, <<"registry", "npmjs", "org">>,
            <<"10.0.0.5">>, <<"localhost">>, <<"::1">>, MCLong, <<"fd12">>}

RunSymmetry == Permutations(Runs)

=============================================================================
