------------------------------ MODULE MCSupport ------------------------------
(* One instance for the parts around the enclaves that share no state: an     *)
(* initial state chooses the part that moves, and the others keep one of      *)
(* their initial states.                                                      *)
EXTENDS EgressPolicy, MetricsExport, SyncSession, KmsService, BootPulls, CliSession, CliDeploy

VARIABLE part

\* Allowlists: each sort of entry alone, and those that interact in pairs.
EntryOf(to, port, proto) == [host |-> to, port |-> port, proto |-> proto]
PairedEntries == {EntryOf(IpHost({"a1"}), 80, "tcp"), EntryOf(NameHost("n1"), 80, "tcp"),
                  EntryOf(NameHost("n2"), AnyPort, "tcp")}
SingleEntries == PairedEntries \cup
    {EntryOf(IpHost({"a1", "a2"}), AnyPort, "tcp"), EntryOf(Ipv6Host, 80, "tcp"),
     EntryOf(MalformedHost, 80, "tcp"), EntryOf(NameHost("n1"), 0, "tcp"), EntryOf(NameHost("n2"), 80, "udp")}
EgressSubmissions ==
    [by : {"flags", "json"},
     raw : [version : {1, 2}, resolvers : {<<>>, <<"a3">>, <<"v6">>}, dns : {"allowlist", "open"},
            egress : {<<>>} \cup {<<e>> : e \in SingleEntries} \cup {<<e, f>> : e, f \in PairedEntries}]]

\* Two sessions of a node: one request answered, one given up at its deadline.
MetricsWork ==
    [w1 |-> [answered |-> [response |-> "done", timedOut |-> FALSE], latency |-> "short"],
     w2 |-> [answered |-> [response |-> "err_unavailable", timedOut |-> TRUE], latency |-> "long"]]

\* Two clones of one image, and the image it is upgraded to.
SessionEnclaves == {"a", "b", "n"}
SessionKeyOf == [a |-> "k1", b |-> "k1", n |-> "k2"]
SessionControlKeyOf == [a |-> "pa", b |-> "pb", n |-> "pn"]
UpgradeLink == [decodes |-> TRUE, from |-> "k1", to |-> "k2", valid_from |-> 1, valid_until |-> 2,
                hash |-> "h", signer |-> "pa", attests |-> "k1"]
RevocationLink == [decodes |-> TRUE, hash |-> "h", signer |-> "pa"]
SessionRequests ==
    {[op |-> "Get", key |-> "k1"], [op |-> "Register", key |-> "k1", commitment |-> "c0"],
     [op |-> "Pin", key |-> "k1", expected |-> 0, commitment |-> "c1"],
     [op |-> "Transition", link |-> UpgradeLink, commitment |-> "c0"],
     [op |-> "Revoke", link |-> RevocationLink], [op |-> "Authenticate"]}

\* What the host serves a boot: complete and partial maps, and values and names that
\* one sink or the other refuses.
PulledNames == <<"1BAD", "APP", "AWS_KEY", "AWS_REGION", "OTHER", "http_proxy">>
PulledImageEnv == <<<<"APP", "image">>, <<"http_proxy", "image">>, <<"OTHER", "image">>, <<"OTHER", "again">>>>
PartialMaps(names, value) == {[n \in some |-> value] : some \in SUBSET names}
PulledCreds ==
    PartialMaps({"AWS_KEY", "AWS_REGION"}, "clean")
        \cup {[n \in {"AWS_KEY", "AWS_REGION"} |-> v] : v \in {"blank", "nul", "newline"}}
        \cup {[n \in {"OTHER", "AWS_REGION"} |-> "clean"], [n \in {"1BAD"} |-> "clean"]}
PulledSecrets ==
    PartialMaps({"APP", "OTHER", "http_proxy"}, "clean")
        \cup {[n \in {"APP"} |-> v] : v \in {"nul", "binary", "newline"}}
        \cup {[n \in {"1BAD", "APP"} |-> "clean"], [n \in {"APP", "OTHER"} |-> IF n = "APP" THEN "clean" ELSE "nul"]}

SupportInit ==
    /\ part \in {"policy", "metrics", "session", "kms", "pulls", "cli", "deploy"}
    /\ PolicyInit /\ (part # "policy" => split /\ records = [n \in Hostnames |-> {"a1"}])
    /\ MetricsInit
    /\ SessionInit
    /\ KmsServiceInit
    /\ PullInit /\ (part # "pulls" => hostCid = 3)
    /\ CliInit
    /\ DeployInit

SupportNext ==
    /\ UNCHANGED part
    /\ \/ part = "policy" /\ PolicyNext
             /\ UNCHANGED <<metricsVars, sessionVars, kmsServiceVars, pullVars, cliVars, deployVars>>
       \/ part = "metrics" /\ MetricsNext
             /\ UNCHANGED <<policyVars, sessionVars, kmsServiceVars, pullVars, cliVars, deployVars>>
       \/ part = "session" /\ SessionNext
             /\ UNCHANGED <<policyVars, metricsVars, kmsServiceVars, pullVars, cliVars, deployVars>>
       \/ part = "kms" /\ KmsServiceNext
             /\ UNCHANGED <<policyVars, metricsVars, sessionVars, pullVars, cliVars, deployVars>>
       \/ part = "pulls" /\ PullNext
             /\ UNCHANGED <<policyVars, metricsVars, sessionVars, kmsServiceVars, cliVars, deployVars>>
       \/ part = "cli" /\ CliNext
             /\ UNCHANGED <<policyVars, metricsVars, sessionVars, kmsServiceVars, pullVars, deployVars>>
       \/ part = "deploy" /\ DeployNext
             /\ UNCHANGED <<policyVars, metricsVars, sessionVars, kmsServiceVars, pullVars, cliVars>>

\* The command line tool keeps tokens with the backend that minted them, whatever
\* invocations run at once, and shows builds as they are (config.rs, api.rs, deploy.rs).
CliIsFaithful == TokensStayHome /\ WatchIsFaithful
=============================================================================
