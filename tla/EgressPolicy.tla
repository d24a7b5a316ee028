---------------------------- MODULE EgressPolicy ----------------------------
(* The egress allowlist, from the author to a verdict: flags or a JSON        *)
(* document are validated when they are submitted, the image carries what was *)
(* accepted, the daemon loads it at boot and adds the resolvers for unbound,  *)
(* and each connect is judged against it, asking unbound for the addresses of *)
(* the names that are listed, one after the other, while they change.         *)
EXTENDS Integers, Sequences

CONSTANTS
    Addresses,      \* the IPv4 addresses there are
    Hostnames,      \* the names there are
    Submissions,    \* [by, raw]: what authors submit
    MaxRebinds      \* bound: changes of A records in a behaviour

AnyPort == 65536    \* "*"

\* What an entry may name: an address or a block, an IPv6 address, a name, or
\* something that is none of them.
IpHost(ips) == [kind |-> "ip", ips |-> ips, name |-> "none"]
Ipv6Host == [kind |-> "v6", ips |-> {}, name |-> "none"]
NameHost(n) == [kind |-> "name", ips |-> {}, name |-> n]
MalformedHost == [kind |-> "bad", ips |-> {}, name |-> "none"]

VARIABLES
    split,      \* the workload has a network namespace of its own
    file,       \* egress.json as the author had it accepted
    daemon,     \* whether it is up, and its immutable configuration
    records,    \* Hostnames -> their A records now
    rebinds,
    conn        \* the connect that is judged

policyVars == <<split, file, daemon, records, rebinds, conn>>

-----------------------------------------------------------------------------
(* The document                                                               *)

RawAllowlist(egress, resolvers, dns) ==
    [version |-> 1, egress |-> egress, resolvers |-> resolvers, dns |-> dns]
EmptyAllowlist == RawAllowlist(<<>>, <<>>, "allowlist")
NoAllowlist == [there |-> FALSE, raw |-> EmptyAllowlist]

ValidateHostname(host) == host.kind = "name"

\* The IPv4 resolvers; any other is dropped with a warning.
Usable(resolvers) == {resolvers[i] : i \in DOMAIN resolvers} \cap Addresses

\* from_raw rejects an entry; an IPv6 one is only dropped.
Rejects(e) ==
    \/ e.proto = "udp"
    \/ e.port = 0
    \/ e.host.kind \notin {"ip", "v6"} /\ ~ValidateHostname(e.host)

WellFormed(raw) ==
    /\ raw.version = 1
    /\ \A i \in DOMAIN raw.egress : ~Rejects(raw.egress[i])
    /\ raw.dns = "open" => Usable(raw.resolvers) # {}

AllowlistEntry(ips, port, trustedOnly) == [ips |-> ips, port |-> port, trusted |-> trustedOnly]

\* What from_raw makes of a well-formed document.
FromRaw(raw) ==
    LET isIp(e) == e.host.kind = "ip"
        isName(e) == e.host.kind = "name"
        ips == SelectSeq(raw.egress, isIp)
    IN  [entries |-> {AllowlistEntry(ips[i].host.ips, ips[i].port, FALSE) : i \in DOMAIN ips},
         hostnames |-> SelectSeq(raw.egress, isName),
         resolvers |-> Usable(raw.resolvers)]

\* The grammar of a flag: what from_raw would drop is an error here.
ParseCliEntry(spec) == spec.port # 0 /\ (spec.host.kind = "ip" \/ ValidateHostname(spec.host))
ParseCliResolver(r) == r \in Addresses

AssembleFromCli(raw) ==
    /\ \A i \in DOMAIN raw.egress : ParseCliEntry(raw.egress[i])
    /\ \A i \in DOMAIN raw.resolvers : ParseCliResolver(raw.resolvers[i])
    /\ WellFormed(raw)

ValidateJson(raw) == WellFormed(raw)

-----------------------------------------------------------------------------
(* Submission and boot                                                        *)

\* The image is built from what was accepted, or the submission ends there.
SubmitAllowlist(s) ==
    /\ daemon.at = "none" /\ ~file.there
    /\ IF s.by = "flags" THEN AssembleFromCli(s.raw) ELSE ValidateJson(s.raw)
    /\ file' = [there |-> TRUE, raw |-> s.raw]
    /\ UNCHANGED <<split, daemon, records, rebinds, conn>>

\* resolvers[i]:53/tcp, for connections from the trusted source only
InjectResolverEntries(config) ==
    [config EXCEPT !.entries = config.entries \cup {AllowlistEntry({r}, 53, TRUE) : r \in config.resolvers}]

\* load_or_empty: no file, or a blank one, denies everything
LoadOrEmpty == FromRaw(file.raw)

\* run: a document that does not load ends the daemon.
BootDaemon ==
    /\ daemon.at = "none"
    /\ daemon' = IF WellFormed(file.raw)
                 THEN [at |-> "up", config |-> InjectResolverEntries(LoadOrEmpty)]
                 ELSE [daemon EXCEPT !.at = "dead"]
    /\ UNCHANGED <<split, file, records, rebinds, conn>>

-----------------------------------------------------------------------------
(* A connect                                                                  *)

NoConnect == [at |-> "none"]

PortMatches(entry, port) == entry.port \in {AnyPort, port}

\* config.trusted_src: the tun address unless the namespaces are split, and then
\* everything has it.
FromTrusted(src) == src = "unbound" \/ ~split

AllowsTcp(ip, port, trusted) ==
    \E e \in daemon.config.entries : PortMatches(e, port) /\ ip \in e.ips /\ (e.trusted => trusted)

TcpHostnamesForPort(port) ==
    LET listed(e) == PortMatches(e, port) IN SelectSeq(daemon.config.hostnames, listed)

DecideConnect(f, verdict) == conn' = [f EXCEPT !.at = "done", !.verdict = verdict]

\* allow_tcp up to its first query.  `ever' and `always' record which names had
\* the address at some time, and all the time, that the connect was judged.
AllowTcp(src, ip, port) ==
    /\ daemon.at = "up" /\ conn.at = "none"
    /\ LET names == TcpHostnamesForPort(port)
           holders == {n \in Hostnames : ip \in records[n]}
           f == [at |-> "asking", src |-> src, ip |-> ip, port |-> port, left |-> names,
                 verdict |-> "none", ever |-> holders, always |-> holders, failed |-> {}]
       IN  IF AllowsTcp(ip, port, FromTrusted(src)) THEN DecideConnect(f, "allow")
           ELSE IF names = <<>> THEN DecideConnect(f, "deny")
           ELSE conn' = f
    /\ UNCHANGED <<split, file, daemon, records, rebinds>>

\* Mutant: the first name that resolves decides.
NameResolved_FirstDecides(f, ips, failed) ==
    IF f.ip \in ips THEN DecideConnect(f, "allow")
    ELSE IF ~failed \/ Len(f.left) = 1 THEN DecideConnect(f, "deny")
    ELSE conn' = [f EXCEPT !.left = Tail(f.left)]

\* One answer: a match allows, anything else goes on to the next name.
NameResolved(f, ips, failed) ==
    IF f.ip \in ips THEN DecideConnect(f, "allow")
    ELSE IF Len(f.left) = 1 THEN DecideConnect(f, "deny")
    ELSE conn' = [f EXCEPT !.left = Tail(f.left)]

\* query_a: unbound answers, and it has somebody to ask.
QueryAnswers ==
    /\ conn.at = "asking"
    /\ daemon.config.resolvers # {}
    /\ NameResolved(conn, records[Head(conn.left).host.name], FALSE)
    /\ UNCHANGED <<split, file, daemon, records, rebinds>>

\* resolve: an error code is an empty answer, a timeout or a bad response an error
QueryFails ==
    /\ conn.at = "asking"
    /\ NameResolved([conn EXCEPT !.failed = conn.failed \cup {Head(conn.left).host.name}], {}, TRUE)
    /\ UNCHANGED <<split, file, daemon, records, rebinds>>

\* A name moves to another address.
Rebind(n, ips) ==
    /\ daemon.at = "up" /\ conn.at # "done" /\ rebinds < MaxRebinds
    /\ records[n] # ips
    /\ records' = [records EXCEPT ![n] = ips]
    /\ rebinds' = rebinds + 1
    /\ conn' = IF conn.at = "none" THEN conn
               ELSE IF conn.ip \in ips THEN [conn EXCEPT !.ever = conn.ever \cup {n}]
               ELSE [conn EXCEPT !.always = conn.always \ {n}]
    /\ UNCHANGED <<split, file, daemon>>

PolicyInit ==
    /\ split \in BOOLEAN
    /\ file = NoAllowlist
    /\ daemon = [at |-> "none", config |-> FromRaw(EmptyAllowlist)]
    /\ records \in [Hostnames -> {{a} : a \in Addresses}]
    /\ rebinds = 0
    /\ conn = NoConnect

PolicyNext ==
    \/ \E s \in Submissions : SubmitAllowlist(s)
    \/ BootDaemon
    \/ \E src \in {"workload", "unbound"}, ip \in Addresses, port \in {53, 80} : AllowTcp(src, ip, port)
    \/ QueryAnswers
    \/ QueryFails
    \/ \E n \in Hostnames, a \in Addresses : Rebind(n, {a})

-----------------------------------------------------------------------------
(* Properties                                                                 *)

\* The daemon enforces what the author had accepted, however it was submitted: it
\* allows only a listed address or one a listed name had while the connect was judged,
\* it denies neither unless the query for that name failed, and an upstream resolver is
\* reached only by unbound (allow_tcp, inject_resolver_entries).
EnforcesAuthored ==
    conn.at = "done" =>
         LET written == file.raw
             entries == {written.egress[i] : i \in DOMAIN written.egress}
             for == {e \in entries : e.proto = "tcp" /\ PortMatches(e, conn.port)}
             listed == \E e \in for : conn.ip \in e.host.ips
             had == \E e \in for : e.host.name \in conn.ever
             has == \E e \in for : e.host.name \in conn.always \ conn.failed
             upstream == conn.port = 53 /\ conn.ip \in Usable(written.resolvers) /\ FromTrusted(conn.src)
         IN  /\ conn.verdict = "allow" => listed \/ had \/ upstream
             /\ listed \/ has \/ upstream => conn.verdict = "allow"
=============================================================================
