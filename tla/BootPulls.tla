------------------------------ MODULE BootPulls -------------------------------
(* What an enclave pulls from its host while it boots and upgrades: the AWS   *)
(* credentials for KMS and the workload's secrets, each from a relay on a     *)
(* port of its own that serves one connection and exits.  The workload's      *)
(* environment is the image's, with the secrets in it and the credentials     *)
(* not; an upgrade pulls fresh credentials for one subprocess.                *)
(*                                                                            *)
(* The relays, the launcher and backend that arm them and init.sh are         *)
(* external: modelled from what the pulls expect of them.                     *)
EXTENDS Naturals, Sequences, SequencesExt

CONSTANTS
    NameOrder,      \* the names payloads use, in the order of the BTreeMap
    InvalidNames,   \* those that are no shell identifiers
    ForbiddenNames, \* those is_forbidden_env_name matches
    AllowedCreds,   \* ALLOWED_CREDS_ENV
    Region,         \* AWS_REGION
    ImageEnv,       \* process.env of the image: a sequence of <<name, value>>
    CredsMaps,      \* the maps the credentials relay may serve
    SecretsMaps,    \* the maps the secrets relay may serve
    MaxUpgrades     \* bound: upgrade commands

Ports == {5004, 5013}

\* A value is of a kind: clean, or what the checks tell apart from it.
Dirty(kinds, v) == v \in kinds

\* The whole map, or an answer that is none.
BadWires == {"cut", "oversize", "zero", "garbage"}
NoMap == [n \in {} |-> ""]
Wire(kind, map) == [kind |-> kind, map |-> map]

VARIABLES
    hostCid,    \* 3 on Nitro, 2 under QEMU
    relay,      \* Ports -> what the relay there will serve; "none": nobody listens
    pull,       \* where init.sh is
    envFile,    \* /run/aws-creds.env: its bindings, or absent
    initEnv,    \* the credentials in init.sh's own environment
    config,     \* process.env of config.json
    secrets,    \* the map the secrets relay served to this boot
    workload,   \* the environment the workload runs with; <<>> before it runs
    upgrade     \* the upgrade subprocess: its environment, and commands so far

pullVars == <<hostCid, relay, pull, envFile, initEnv, config, secrets, workload, upgrade>>

Gone == Wire("none", NoMap)
Entries(map) ==
    LET served(n) == n \in DOMAIN map
        names == SelectSeq(NameOrder, served)
    IN  [i \in DOMAIN names |-> <<names[i], map[names[i]]>>]

-----------------------------------------------------------------------------
(* The pull, and the two sinks                                                *)

\* fetch_payload, and the server's pull_upgrade_kms_creds: the length, the bytes,
\* the ack that lets the relay exit, and only then the decoding.  Nobody on the
\* port, a timeout and a short read are errors like a length of zero or too much.
Pulled(port) == relay[port].kind = "map"
Served(port) == relay' = [relay EXCEPT ![port] = Gone]

IsValidEnvName(n) == n \notin InvalidNames
IsForbiddenEnvName(n) == n \in ForbiddenNames

\* render_env_file: every name an identifier, every value one line of UTF-8;
\* sourced, a quoted value is the value itself
Renders(map) == \A n \in DOMAIN map : IsValidEnvName(n) /\ ~Dirty({"binary", "newline"}, map[n])

\* The checks of merge_env_into_config, and its replacement of the first entry
\* with the name, or the append.
MergesCleanly(map) ==
    \A n \in DOMAIN map :
        IsValidEnvName(n) /\ ~IsForbiddenEnvName(n) /\ ~Dirty({"binary", "newline", "nul"}, map[n])

Merge(env, binding) ==
    LET at == {i \in DOMAIN env : env[i][1] = binding[1]}
    IN  IF at = {} THEN Append(env, binding)
        ELSE [env EXCEPT ![CHOOSE i \in at : \A j \in at : i <= j] = binding]

MergeEnvIntoConfig(env, map) == FoldLeft(Merge, env, Entries(map))

\* filter_creds_env: one key too many refuses them all
FilterCreds(map) ==
    \A n \in DOMAIN map : n \in AllowedCreds /\ ~Dirty({"binary", "nul"}, map[n])

-----------------------------------------------------------------------------
(* The boot                                                                   *)

Fails == pull' = "failed"

\* The launcher starts the relay of a port before the boot; the backend re-arms
\* the credentials one for an upgrade.
Arm(port, wire) ==
    /\ relay[port] = Gone
    /\ pull = "off" \/ (port = 5013 /\ pull = "running")
    /\ relay' = [relay EXCEPT ![port] = wire]
    /\ UNCHANGED <<pull, envFile, initEnv, config, secrets, workload, upgrade>>

Boots ==
    /\ pull = "off"
    /\ pull' = IF hostCid = 3 THEN "creds" ELSE "secrets"
    /\ UNCHANGED <<relay, envFile, initEnv, config, secrets, workload, upgrade>>

\* --mode aws-creds: the file is written even for an empty map
PullCreds ==
    /\ pull = "creds"
    /\ Served(5013)
    /\ IF Pulled(5013) /\ Renders(relay[5013].map)
       THEN envFile' = Entries(relay[5013].map) /\ pull' = "source"
       ELSE Fails /\ UNCHANGED envFile
    /\ UNCHANGED <<initEnv, config, secrets, workload, upgrade>>

\* init.sh sources the file and runs enclavia-crypto init.
SourceCreds ==
    /\ pull = "source"
    /\ initEnv' = envFile
    /\ pull' = "scrub"
    /\ UNCHANGED <<relay, envFile, config, secrets, workload, upgrade>>

\* ... and unsets and removes them before anything of the workload runs.
Scrub ==
    /\ pull = "scrub"
    /\ initEnv' = <<>>
    /\ envFile' = <<>>
    /\ pull' = "secrets"
    /\ UNCHANGED <<relay, config, secrets, workload, upgrade>>

\* Mutant: entries are written as they pass, up to the one that does not.
PullSecrets_AsTheyPass ==
    LET map == relay[5004].map
        good == {n \in DOMAIN map : MergesCleanly([m \in {n} |-> map[m]])}
    IN  /\ pull = "secrets"
        /\ Served(5004)
        /\ IF Pulled(5004)
           THEN /\ config' = MergeEnvIntoConfig(config, [n \in good |-> map[n]])
                /\ secrets' = map
                /\ pull' = "start"
           ELSE Fails /\ UNCHANGED <<config, secrets>>
        /\ UNCHANGED <<envFile, initEnv, workload, upgrade>>

\* --mode workload-secrets: fetch_payload and inject_into_bundle, all or nothing;
\* the empty map writes nothing
PullSecrets ==
    LET map == relay[5004].map
    IN  /\ pull = "secrets"
        /\ Served(5004)
        /\ IF Pulled(5004) /\ MergesCleanly(map)
           THEN /\ config' = MergeEnvIntoConfig(config, map)
                /\ secrets' = map
                /\ pull' = "start"
           ELSE Fails /\ UNCHANGED <<config, secrets>>
        /\ UNCHANGED <<envFile, initEnv, workload, upgrade>>

\* crun start
StartWorkload ==
    /\ pull = "start"
    /\ workload' = config
    /\ pull' = "running"
    /\ UNCHANGED <<relay, envFile, initEnv, config, secrets, upgrade>>

\* The enclave is launched anew: its memory, disk image and relays are new.
Relaunch ==
    /\ pull \in {"failed", "running"}
    /\ upgrade.commands < MaxUpgrades
    /\ pull' = "off"
    /\ relay' = [port \in Ports |-> Gone]
    /\ envFile' = <<>>
    /\ initEnv' = <<>>
    /\ config' = ImageEnv
    /\ secrets' = NoMap
    /\ workload' = <<>>
    /\ upgrade' = [env |-> <<>>, at |-> "idle", commands |-> upgrade.commands + 1]

-----------------------------------------------------------------------------
(* The upgrade's credentials                                                  *)

BridgeName == "KMS_AWS_REGION"  \* what enclavia-crypto selects its transport by

RegionOf(map) == IF Region \in DOMAIN map THEN map[Region] ELSE ""

\* inject_upgrade_kms_creds for the subprocess of a prepare or a revoke, which inherits
\* the server's environment: what init.sh had when it started the server.  A later
\* binding of a name takes the place of an earlier one.
InjectUpgradeCreds ==
    LET map == relay[5013].map
    IN  /\ pull = "running"
        /\ upgrade.at = "idle"
        /\ upgrade.commands < MaxUpgrades
        /\ IF hostCid # 3
           THEN /\ upgrade' = [upgrade EXCEPT !.env = initEnv, !.at = "crypto", !.commands = upgrade.commands + 1]
                /\ UNCHANGED relay
           ELSE /\ Served(5013)
                /\ IF Pulled(5013) /\ FilterCreds(map) /\ RegionOf(map) \notin {"", "blank"}
                   THEN upgrade' = [env |-> initEnv \o Entries(map) \o <<<<BridgeName, RegionOf(map)>>>>,
                                    at |-> "crypto", commands |-> upgrade.commands + 1]
                   ELSE upgrade' = [upgrade EXCEPT !.commands = upgrade.commands + 1]
        /\ UNCHANGED <<pull, envFile, initEnv, config, secrets, workload>>

\* The subprocess ends and its environment with it.
CryptoEnds ==
    /\ upgrade.at = "crypto"
    /\ upgrade' = [upgrade EXCEPT !.at = "idle", !.env = <<>>]
    /\ UNCHANGED <<relay, pull, envFile, initEnv, config, secrets, workload>>

PullInit ==
    /\ hostCid \in {2, 3}
    /\ relay = [port \in Ports |-> Gone]
    /\ pull = "off"
    /\ envFile = <<>>
    /\ initEnv = <<>>
    /\ config = ImageEnv
    /\ secrets = NoMap
    /\ workload = <<>>
    /\ upgrade = [env |-> <<>>, at |-> "idle", commands |-> 0]

PullNext ==
    /\ UNCHANGED hostCid
    /\ \/ \E map \in CredsMaps : Arm(5013, Wire("map", map))
       \/ \E map \in SecretsMaps : Arm(5004, Wire("map", map))
       \/ \E port \in Ports, kind \in BadWires : Arm(port, Wire(kind, NoMap))
       \/ Boots \/ PullCreds \/ SourceCreds \/ Scrub \/ PullSecrets \/ StartWorkload \/ Relaunch
       \/ InjectUpgradeCreds \/ CryptoEnds

-----------------------------------------------------------------------------
(* Properties                                                                 *)

\* What an environment binds a name to, in order; more than one is left to the runtime.
ValuesOf(env, n) ==
    LET named(b) == b[1] = n
    IN  [i \in DOMAIN SelectSeq(env, named) |-> SelectSeq(env, named)[i][2]]

\* A workload runs with each of the secrets its relay served as the one value of its
\* name (unless the image itself binds the name twice) and, for every other name, with
\* what the image said, so never with a loader or proxy name of the host's, never with a
\* credential; it starts only after the credentials have left init's environment and
\* their file is gone; and an upgrade subprocess on Nitro runs with no foreign name, and
\* with the pulled region as the one that selects its transport, without which it would
\* speak to the plaintext KMS (inject_into_bundle, filter_creds_env,
\* inject_upgrade_kms_creds).
PullsAreWhole ==
    /\ pull = "running" =>
          /\ \A n \in Range(NameOrder) :
                IF n \notin DOMAIN secrets THEN ValuesOf(workload, n) = ValuesOf(ImageEnv, n)
                ELSE Len(ValuesOf(ImageEnv, n)) <= 1 => ValuesOf(workload, n) = <<secrets[n]>>
          /\ DOMAIN secrets \cap (ForbiddenNames \cup InvalidNames) = {}
          /\ initEnv = <<>> /\ envFile = <<>>
    /\ upgrade.at = "crypto" /\ hostCid = 3 =>
          /\ {upgrade.env[i][1] : i \in DOMAIN upgrade.env} \subseteq AllowedCreds \cup {BridgeName}
          /\ ValuesOf(upgrade.env, BridgeName) = ValuesOf(upgrade.env, Region)
          /\ ValuesOf(upgrade.env, Region) \notin {<<>>, <<"">>, <<"blank">>}
=============================================================================
