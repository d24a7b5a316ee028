------------------------------ MODULE SyncJoin ------------------------------
(* How a synchronizer node becomes a voter: the boot discovery of join.rs, the *)
(* admission kernel of membership.rs, the leader's admit (raft/mod.rs), the    *)
(* answers of the inbound handler and the eviction watch.                      *)
(*                                                                             *)
(* A slot is a configured name; a process that boots in it has a fresh         *)
(* instance key, so an instance is <<slot, boot>>, and its Raft id stands for  *)
(* its key.  Nothing is persisted: a restart forgets everything.  The Raft     *)
(* engine (openraft) is external: an election, a replication to one follower   *)
(* and the appends are single steps, and a log is copied whole.  Its RPCs go   *)
(* to a NAME (MeshRaftNetwork), whichever instance runs there, and the handler *)
(* passes them to its own engine without looking at who was meant.             *)
EXTENDS Naturals, Sequences, FiniteSets

CONSTANTS
    Names,          \* the configured slots, 1..N in the order of the names
    MaxBoot,        \* bound: boots of a slot
    FreshBound,     \* bounds of a cluster that has yet to form, and of one that
    FormedBound     \* has: restarts, the last election, client writes, log

VARIABLES
    up,             \* the boot number of the process running in each slot
    raft,           \* its engine: log, epoch (term), leadership, acknowledged
    boot,           \* its discovery task
    adm,            \* admissions running on leaders
    ackedOps,       \* the client writes some leader acknowledged
    stoodIn,        \* a process answered for its predecessor in the slot
    stable,         \* the newest committed membership
    bound           \* the bounds of this behaviour

joinVars == <<up, raft, boot, adm, ackedOps, stoodIn, stable, bound>>

Me(n) == <<n, up[n]>>
Peers(n) == Names \ {n}
Smallest == CHOOSE n \in Names : \A m \in Names : n <= m

-----------------------------------------------------------------------------
(* Memberships.  A joint configuration has two voter sets.                     *)

NoConfig == [k |-> "cfg", e |-> 0, v |-> <<>>, nodes |-> {}]
Configs(log) == {i \in DOMAIN log : log[i].k = "cfg"}
\* metrics.membership_config: the last membership in the log, committed or not
Config(log) ==
    LET at == Configs(log)
    IN  IF at = {} THEN NoConfig ELSE log[CHOOSE i \in at : \A j \in at : j <= i]
Voters(cfg) == UNION {cfg.v[i] : i \in DOMAIN cfg.v}
Ops(log) == {log[i].id : i \in {j \in DOMAIN log : log[j].k = "op"}}

\* is_committed_voter, cluster_is_initialized
IsVoter(n) == Me(n) \in Voters(Config(raft[n].log))
Initialized(n) == Voters(Config(raft[n].log)) # {}

Holders(voters, slot) == {id \in voters : id[1] = slot}

\* plan_admission: the voters to commit, or why not
PlanAdmission(voters, slot, candidate) ==
    IF slot \notin Names THEN "refused"
    ELSE IF \E id \in voters : id[1] \notin Names THEN "refused"
    ELSE IF \E n \in Names : Cardinality(Holders(voters, n)) > 1 THEN "refused"
    ELSE IF Holders(voters, slot) = {candidate} THEN "already"
    ELSE IF candidate \in voters THEN "refused"
    ELSE "replace"
\* Mutant: the previous holder stays a voter.
NewVoters_Keep(voters, slot, candidate) == voters \cup {candidate}
NewVoters(voters, slot, candidate) == (voters \ Holders(voters, slot)) \cup {candidate}

-----------------------------------------------------------------------------
(* The engine, as the code uses it                                             *)

\* A quorum of every voter set: the ids whose names answered
Quorum(cfg, answered) ==
    \A i \in DOMAIN cfg.v :
        2 * Cardinality({id \in cfg.v[i] : id[1] \in answered}) > Cardinality(cfg.v[i])
LastEpoch(log) == IF log = <<>> THEN 0 ELSE log[Len(log)].e
NotAhead(log, of) ==
    \/ LastEpoch(log) < LastEpoch(of)
    \/ LastEpoch(log) = LastEpoch(of) /\ Len(log) <= Len(of)

\* Every entry of the leader's log is committed
Settled(l) == Quorum(Config(raft[l].log), raft[l].sync)
AppendTo(l, entry) ==
    [raft EXCEPT ![l].log = Append(raft[l].log, entry), ![l].sync = {l}]

\* Some name answered for an instance it no longer runs
StandsIn(cfg, answered) == \E id \in Voters(cfg) : id[1] \in answered /\ id # Me(id[1])

\* A voter wins an election with the processes Q that answered
Elect(n) ==
    LET cfg == Config(raft[n].log)
        e == 1 + CHOOSE x \in {raft[m].epoch : m \in Names} : \A m \in Names : raft[m].epoch <= x
    IN  /\ ~raft[n].off
        /\ Me(n) \in Voters(cfg)
        /\ e <= bound.epoch
        /\ \E Q \in SUBSET Names :
              /\ n \in Q
              /\ Quorum(cfg, Q)
              /\ \A q \in Q \ {n} : ~Quorum(cfg, Q \ {q})
              /\ \A q \in Q : ~raft[q].off /\ NotAhead(raft[q].log, raft[n].log)
              /\ raft' = [m \in Names |->
                    IF m = n THEN [raft[n] EXCEPT !.epoch = e, !.lead = TRUE, !.sync = {n},
                                       !.log = Append(raft[n].log, [k |-> "blank", e |-> e])]
                    ELSE IF m \in Q THEN [raft[m] EXCEPT !.epoch = e, !.lead = FALSE]
                    ELSE raft[m]]
              /\ stoodIn' = (stoodIn \/ StandsIn(cfg, Q))
        /\ UNCHANGED <<up, boot, adm, ackedOps, stable>>

\* AppendEntries to a member's name, its answer, and what that commits
Replicate(l, q) ==
    LET log == raft[l].log
        cfg == Config(log)
        sync == raft[l].sync \cup {q}
        done == Quorum(cfg, sync)
    IN  /\ raft[l].lead
        /\ q # l
        /\ \E id \in cfg.nodes : id[1] = q
        /\ ~raft[q].off
        /\ raft[q].epoch <= raft[l].epoch
        /\ raft[q].log # log \/ q \notin raft[l].sync
        /\ raft' = [raft EXCEPT ![q].log = log, ![q].epoch = raft[l].epoch, ![q].lead = FALSE,
                                ![l].sync = sync]
        /\ ackedOps' = IF done THEN ackedOps \cup Ops(log) ELSE ackedOps
        /\ stable' = IF done THEN cfg ELSE stable
        /\ stoodIn' = (stoodIn \/ StandsIn(cfg, {q}))
        /\ UNCHANGED <<up, boot, adm>>

\* client_write reaches the engine
ClientWrite(l) ==
    /\ raft[l].lead
    /\ \A n \in Names : Cardinality(Ops(raft[n].log) \cup ackedOps) < bound.ops
    /\ raft' = AppendTo(l, [k |-> "op", e |-> raft[l].epoch, id |-> Cardinality(ackedOps) + 1])
    /\ UNCHANGED <<up, boot, adm, ackedOps, stoodIn, stable>>

-----------------------------------------------------------------------------
(* Discovery                                                                   *)

Pass(n) == [at |-> "probe", left |-> Peers(n), none |-> {}]
Asleep == [at |-> "check", left |-> {}, none |-> {}]
Next1(n) == CHOOSE p \in boot[n].left : \A q \in boot[n].left : p <= q
\* What a pass has seen matters only to the name that may initialize.
Kept(n, b) == IF n = Smallest THEN b ELSE [b EXCEPT !.at = "probe", !.none = {}]
\* A reply that shows a cluster keeps this pass off the initialize path
Seen(n) == Kept(n, [boot[n] EXCEPT !.left = boot[n].left \ {Next1(n)}, !.at = "seen"])
Skipped(n) == Kept(n, [boot[n] EXCEPT !.left = boot[n].left \ {Next1(n)}])

\* The top of the loop
CheckVoter(n) ==
    /\ boot[n].at = "check" \/ (n # Smallest /\ boot[n].at = "probe" /\ boot[n].left = {})
    /\ boot' = [boot EXCEPT ![n] = IF IsVoter(n) THEN [Asleep EXCEPT !.at = "voter"] ELSE Pass(n)]
    /\ UNCHANGED <<up, raft, adm, ackedOps, stoodIn, stable>>

\* send_join and serve_join: no answer; NoCluster, whose channel also attests
\* the peer's key; not the leader; the kernel's refusal; or an admission begins,
\* unless the serve loop of the channel is still busy with this node's last one
Probe(n) ==
    LET p == Next1(n)
        voters == Voters(Config(raft[p].log))
        plan == PlanAdmission(voters, n, Me(n))
    IN  /\ boot[n].at \in {"probe", "seen"}
        /\ boot[n].left # {}
        /\ \/ /\ boot' = [boot EXCEPT ![n] = Skipped(n)]
              /\ UNCHANGED adm
           \/ /\ ~Initialized(p)
              /\ boot' = [boot EXCEPT ![n] = Kept(n, [Skipped(n) EXCEPT !.none = boot[n].none \cup {Me(p)}])]
              /\ UNCHANGED adm
           \/ /\ Initialized(p)
              /\ ~raft[p].lead \/ plan # "replace"
              /\ boot' = [boot EXCEPT ![n] = Seen(n)]
              /\ UNCHANGED adm
           \/ /\ Initialized(p)
              /\ raft[p].lead
              /\ plan = "replace"
              /\ \A x \in adm : x.c # Me(n)
              /\ boot' = [boot EXCEPT ![n].at = "joining"]
              /\ adm' = adm \cup {[l |-> p, c |-> Me(n), goal |-> NewVoters(voters, n, Me(n)),
                                   at |-> "learn"]}
        /\ UNCHANGED <<up, raft, ackedOps, stoodIn, stable>>

\* The admission's answer, whatever it is, shows a cluster; JOIN_CALL_TIMEOUT
\* shows nothing
JoinReturns(n) ==
    /\ boot[n].at = "joining"
    /\ \/ /\ \A x \in adm : x.c # Me(n)
          /\ boot' = [boot EXCEPT ![n] = Seen(n)]
       \/ boot' = [boot EXCEPT ![n] = [Skipped(n) EXCEPT !.at = "probe"]]
    /\ UNCHANGED <<up, raft, adm, ackedOps, stoodIn, stable>>

\* The end of a pass: try_initialize_fresh and do_initialize on the smallest
\* name, every peer having answered NoCluster
\* Mutant: a peer that did not answer counts as having no cluster.
MayInitialize_Unanswered(n) == boot[n].at = "probe" /\ ~Initialized(n)
MayInitialize(n) ==
    /\ n = Smallest
    /\ boot[n].at = "probe"
    /\ {id[1] : id \in boot[n].none} = Peers(n)
    /\ ~Initialized(n)
InitialVoters(n) == {Me(n)} \cup boot[n].none
EndPass(n) ==
    /\ n = Smallest
    /\ boot[n].at \in {"probe", "seen"}
    /\ boot[n].left = {}
    /\ raft' = IF MayInitialize(n)
               THEN [raft EXCEPT ![n].log = <<[k |-> "cfg", e |-> 0, v |-> <<InitialVoters(n)>>,
                                               nodes |-> InitialVoters(n)]>>]
               ELSE raft
    /\ boot' = [boot EXCEPT ![n] = Asleep]
    /\ UNCHANGED <<up, adm, ackedOps, stoodIn, stable>>

\* watch_for_eviction
Evict(n) ==
    /\ boot[n].at = "voter"
    /\ Initialized(n)
    /\ Me(n) \notin Config(raft[n].log).nodes
    /\ raft' = [raft EXCEPT ![n].off = TRUE, ![n].lead = FALSE]
    /\ boot' = [boot EXCEPT ![n].at = "evicted"]
    /\ UNCHANGED <<up, adm, ackedOps, stoodIn, stable>>

-----------------------------------------------------------------------------
(* admit on the leader: add_learner, then change_membership in its two steps   *)

Advance(x, at) == adm' = (adm \ {x}) \cup {[x EXCEPT !.at = at]}
Give(x) == adm' = adm \ {x}

\* add_learner writes the candidate into the membership
AddLearner(x) ==
    LET cfg == Config(raft[x.l].log)
    IN  /\ x.at = "learn"
        /\ raft[x.l].lead
        /\ Settled(x.l)
        /\ Len(raft[x.l].log) < bound.log
        /\ raft' = AppendTo(x.l, [cfg EXCEPT !.e = raft[x.l].epoch, !.nodes = cfg.nodes \cup {x.c}])
        /\ Advance(x, "catch")
        /\ UNCHANGED <<up, boot, ackedOps, stoodIn, stable>>

\* and returns once the candidate has the log
CaughtUp(x) ==
    /\ x.at = "catch"
    /\ raft[x.l].lead
    /\ Settled(x.l)
    /\ x.c[1] \in raft[x.l].sync
    /\ Advance(x, "change")
    /\ UNCHANGED <<up, raft, boot, ackedOps, stoodIn, stable>>

\* change_membership to the planned voters: one step of the engine towards the
\* goal, refused when a planned voter is no longer a node
Coherent(v, goal) ==
    IF \E i \in DOMAIN v : v[i] = goal THEN <<goal>> ELSE <<v[Len(v)], goal>>
ChangeStep(x) ==
    LET cfg == Config(raft[x.l].log)
        v   == Coherent(cfg.v, x.goal)
        new == UNION {v[i] : i \in DOMAIN v}
    IN  /\ x.at \in {"change", "joint"}
        /\ raft[x.l].lead
        /\ Settled(x.l)
        /\ \/ /\ x.goal \subseteq cfg.nodes
              /\ Len(raft[x.l].log) < bound.log
              /\ raft' = AppendTo(x.l, [k |-> "cfg", e |-> raft[x.l].epoch, v |-> v,
                                        nodes |-> (cfg.nodes \ Voters(cfg)) \cup new])
              /\ Advance(x, IF Len(v) = 2 THEN "joint" ELSE "final")
           \/ /\ ~(x.goal \subseteq cfg.nodes)
              /\ Give(x)
              /\ UNCHANGED raft
        /\ UNCHANGED <<up, boot, ackedOps, stoodIn, stable>>

\* The admission ends: done, the learner's deadline, or leadership lost
EndAdmission(x) ==
    /\ \/ x.at = "final" /\ Settled(x.l)
       \/ x.at = "catch"
       \/ ~raft[x.l].lead
    /\ Give(x)
    /\ UNCHANGED <<up, raft, boot, ackedOps, stoodIn, stable>>

-----------------------------------------------------------------------------
(* The fault the design tolerates: one slot at a time is without its voter     *)

Running(id) == id = Me(id[1]) /\ ~raft[id[1]].off
OthersRun(n) ==
    \A i \in DOMAIN stable.v :
        2 * Cardinality({id \in stable.v[i] : id[1] # n /\ Running(id)}) > Cardinality(stable.v[i])

FreshRaft == [log |-> <<>>, epoch |-> 0, lead |-> FALSE, sync |-> {}, off |-> FALSE]

Restarts == {p \in Names \X (2 .. MaxBoot) : p[2] <= up[p[1]]}

Restart(n) ==
    /\ up[n] < MaxBoot
    /\ Cardinality(Restarts) < bound.restarts
    /\ OthersRun(n)
    /\ up' = [up EXCEPT ![n] = up[n] + 1]
    /\ raft' = [raft EXCEPT ![n] = FreshRaft]
    /\ boot' = [boot EXCEPT ![n] = Asleep]
    /\ adm' = {x \in adm : x.l # n}
    /\ UNCHANGED <<ackedOps, stoodIn, stable>>

-----------------------------------------------------------------------------
\* Every process has just booted
AllBooted ==
    /\ raft = [n \in Names |-> FreshRaft]
    /\ boot = [n \in Names |-> Asleep]
    /\ stable = NoConfig
    /\ bound = FreshBound

\* Every process is a voter and one leads
Formed ==
    LET voters == {<<n, 1>> : n \in Names}
        log == <<[k |-> "cfg", e |-> 0, v |-> <<voters>>, nodes |-> voters],
                 [k |-> "blank", e |-> 1]>>
    IN  /\ raft = [n \in Names |-> [FreshRaft EXCEPT !.log = log, !.epoch = 1,
                                       !.lead = (n = Smallest),
                                       !.sync = IF n = Smallest THEN Names ELSE {}]]
        /\ boot = [n \in Names |-> [Asleep EXCEPT !.at = "voter"]]
        /\ stable = log[1]
        /\ bound = FormedBound

JoinInit ==
    /\ up = [n \in Names |-> 1]
    /\ AllBooted \/ Formed
    /\ adm = {}
    /\ ackedOps = {}
    /\ stoodIn = FALSE

NodeStep(n) == CheckVoter(n) \/ Probe(n) \/ JoinReturns(n) \/ EndPass(n) \/ Evict(n)
AdmitStep(x) == AddLearner(x) \/ CaughtUp(x) \/ ChangeStep(x) \/ EndAdmission(x)
EngineStep ==
    \/ \E n \in Names : Elect(n)
    \/ \E l, q \in Names : Replicate(l, q)
    \/ \E l \in Names : ClientWrite(l)

JoinNext ==
    /\ \/ \E n \in Names : NodeStep(n)
       \/ \E x \in adm : AdmitStep(x)
       \/ EngineStep
       \/ \E n \in Names : Restart(n)
    /\ UNCHANGED bound

JoinSpec == JoinInit /\ [][JoinNext]_joinVars

-----------------------------------------------------------------------------
\* Through restarts, retried joins and leader changes, no voter set of any
\* membership a node holds gives one slot two votes (plan_admission's replace).
OnePerSlot ==
    \A n \in Names : \A i \in Configs(raft[n].log) : \A j \in DOMAIN raft[n].log[i].v :
        \A s \in Names : Cardinality(Holders(raft[n].log[i].v[j], s)) <= 1

\* A leader refuses the process that runs in a slot only while its membership is
\* joint: both instances of the replaced slot are then voters, and the kernel takes
\* that for a corrupt membership.
RefusesOnlyWhileJoint ==
    \A l \in {n \in Names : raft[n].lead} :
        LET cfg == Config(raft[l].log)
        IN  \A n \in Names :
                PlanAdmission(Voters(cfg), n, Me(n)) = "refused" => Len(cfg.v) = 2

NewestLeader(l) == raft[l].lead /\ \A m \in Names : raft[m].epoch <= raft[l].epoch

\* An acknowledged write survives the loss of any single node: it is in the log of
\* the newest leader, one process at a time being without its slot's voter (the
\* safety invariant raft/mod.rs states of client_write).
AckedSurvives == \A l \in Names : NewestLeader(l) => ackedOps \subseteq Ops(raft[l].log)

\* An acknowledged write is lost in no other way than by a restarted process that
\* answered a Raft call meant for its predecessor (calls are routed by name and the
\* handler does not compare the target id with its own).
LostOnlyByStandIn ==
    \A l \in Names : NewestLeader(l) => ackedOps \subseteq Ops(raft[l].log) \/ stoodIn

\* No node starts a second cluster once a membership is committed, whatever the
\* peers it probes answer and whichever process restarts.
InitializesOnce ==
    [][\A n \in Names : raft[n].log = <<>> /\ Len(raft'[n].log) = 1 /\ boot[n].at = "probe"
                          /\ boot'[n] = Asleep => stable = NoConfig]_joinVars

\* Through restarts, retried joins and leader changes the membership stays sound
\* (one vote per slot, the process in it refused only during a replacement) and no
\* acknowledged write is lost but by a stand-in (admit, plan_admission, client_write).
ClusterStaysSound == OnePerSlot /\ RefusesOnlyWhileJoint /\ LostOnlyByStandIn
=============================================================================
