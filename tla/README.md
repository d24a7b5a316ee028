# A TLA+ model of Enclavia

Enclavia runs applications in Nitro enclaves. Its storage is encrypted, but the
disk belongs to an untrusted host, which can serve an old copy of it. A *commitment*
to the volume's superblock region is therefore pinned, at every write of that region,
in a *synchronizer* (a replicated freshness oracle), and an enclave serves a volume
only if it matches what is pinned. Upgrades move a pin from one enclave image to the
next, re-key the volume and leave a public chain of signed links; the owner may revoke
an upgrade. Around this core are the sessions clients reach an enclave through, the
enclave's way out (egress), the KMS keys, the secrets it is given, and the tools.

This development models the storage core and the upgrade path most closely and proves
their main properties with TLAPS; the other parts are modelled as state machines of
their own and model-checked with TLC.

## 1. The system and its parts

| part | code | state | model |
|---|---|---|---|
| what the synchronizer promises | `synchronizer/src/lib.rs` | the head of each history | `FreshnessOracle` |
| synchronizer state machine | `synchronizer/src/lib.rs`, link checks in `wire.rs` | freshness map, attested keys, authorizations, retired keys, revoked links | `SyncMachine` |
| replicated request path, replicas and snapshots | `synchronizer/src/raft/{serve,forward,mod,store}.rs` | calls being served, the log, per-node views and snapshots | `SyncService` |
| cluster formation and membership | `raft/{join,membership,mod,network}.rs` | engines, discovery tasks, admissions | `SyncJoin` |
| node-to-node mesh | `synchronizer/src/mesh/*` | one link: dial loop, channel, calls in flight | `MeshLink` |
| single-node server and customer sessions | `node.rs`, `listener.rs`, `client.rs` | sessions, the state machine behind a mutex | `SyncSession` |
| metrics | `synchronizer/src/metrics.rs`, `synchronizer-metrics-host` | counters, the sample being taken, the textfile | `MetricsExport` |
| nbd-client pipeline | `nbd-client/src/main.rs`, `rollback.rs` | pin gate, region watch, job queue, parked replies | `NbdPipeline` |
| nbd-client boot and pins | `nbd-client/src/rollback.rs` | the boot decision, expected version | `NbdBoot` |
| volume keys | `enclavia-crypto` | key slots, key blob, rollback stash | `VolumeKeys` |
| upgrade chain | `enclavia-protocol/src/{chain,signing,pin_identity}.rs`, CLI checks | none: operators on chains | `UpgradeChain` |
| upgrade control | `enclavia-server/src/{main,sync_revoke}.rs`, `enclavia-chain-init`, CLI `upgrade` | nonce, commands, chain, pin, boots; composes the two above | `UpgradeControl` |
| SDK and enclave sessions | `enclavia/src/{client,transport,stream}.rs`, `enclavia-server/src/main.rs` | calls, streams, permits, channels | `SessionMux` |
| trust in a channel | `enclavia/src/client.rs`, `enclavia-protocol/src/attestation.rs` | the attempt, the channels, the reconnect lock | `AttestedConnect` |
| KMS key gate | `enclavia-protocol/src/kms_policy.rs`, `enclavia-crypto` | the key's policy, how far the enclave is | `KmsGate` |
| recipient envelope and KMS stand-in | `enclavia-protocol/src/kms_recipient.rs`, `mock-kms` | key files, requests in progress | `KmsService` |
| boot-time pulls | `enclavia-secrets-init`, `enclavia-server/src/main.rs` | relays, environments | `BootPulls` |
| egress flows | `enclavia-egress/src/{stack,lib}.rs` | sockets, flows, forwarders | `EgressFlow` |
| egress policy | `enclavia-protocol/src/egress_config.rs`, `enclavia-egress/src/{policy,resolver,config,main}.rs` | the accepted file, DNS records, the connect being judged | `EgressPolicy` |
| CLI credentials and deploys | `enclavia-cli/src/{config,api}.rs`, `commands/{auth,push,deploy}.rs` | credentials file, invocations, the watch | `CliSession`, `CliDeploy` |

How they interact: an enclave boots, pulls its credentials and secrets from the host
(`BootPulls`), opens its volume with the passphrase sealed under its KMS key
(`VolumeKeys`, `KmsGate`), and its nbd-client opens an attested session to a
synchronizer node (`SyncSession`), compares the region it reads from the host with the
pinned commitment (`Get`), registers a blank volume (`Register`) or adopts the
predecessor's pin (`Transition`), and only then serves the device. From then on every
write of the region is pinned (`Pin`, a compare-and-swap on the version) before the
kernel gets its reply. A node that is not the leader forwards the request over the mesh;
an answer can be lost at every hop, and each hop retries. The owner signs upgrades and
revocations with the CLI; they reach the enclave server, which re-keys the volume,
tells the synchronizer (`Revoke`) and records a link of the chain. Clients walk that
chain to decide whether they still talk to a descendant of the image they pinned.

What makes it hard: a write whose answer was lost is sent again and may be in the log
twice; a transition is verified against one replica's view and applied later; a
replica restarts empty, since the stores are in memory; inside the client, the pin, the
host's reply, the kernel's next request and a racing read meet in any order; a crashed
instance's pin can be executed after its successor has booted; an upgrade changes the
volume, the synchronizer and the chain one after the other. `PROJECT.json` lists each
such hazard with the line where it bites.

## 2. The modules

`MCSyncService`, `MCNbdPipeline`, `MCNbdBoot`, `MCUpgradeControl`, `MCSyncJoin`,
`MCServices` and `MCSupport` are instances for TLC. `SyncCommitProofs`
and `SyncServiceProofs` hold the proofs about `SyncService`; `NbdPipelineProofs` those about
`NbdPipeline`; `NbdBootProofs` those about `NbdBoot`; `VolumeKeysProofs` those about
`VolumeKeys`; `UpgradeControlProofs` and `UpgradeIngestProofs` those about `UpgradeControl`
and the operators of `UpgradeChain`; `TrustProofs` those about `KmsGate` and
`AttestedConnect`.

The chain of reasoning about storage: `SyncService` implements `FreshnessOracle`
(proved), and `NbdBoot` uses `FreshnessOracle` as its oracle, so what it shows of the
clients holds on the replicated service. `NbdBoot` treats a region write as three steps
(the host applies it, it is pinned, it is acknowledged, in that the acknowledgement is
last); that a running client really works like this is what `NbdPipeline` shows
(`AckedIsPinned`, `PinnedInOrder`). `UpgradeControl` runs `VolumeKeys` as the jobs of the
server and implements it (`VolumeSpec`, proved), so the theorems about `VolumeKeys` apply
to it.

Definitions whose name contains an underscore and that are marked "Mutant" are
plausible mistakes in the code; they are not part of any specification, and each is
caught by the property that is meant to catch it.

### SyncMachine and SyncService

A state of the state machine is a record with the five fields of `StateMachine`, an
operation maps it to a verdict and the next state, in the order of the code's early
returns. `SyncService` has

- the committed `log` (each entry with its verdict and the state it leaves), and
  `pending`, the proposals that are not committed: one may be committed at any later
  time, in any order, or never;
- per node a `view` (its state machine), `applied`, the snapshot it is `building` and
  the one it stored;
- per call its position (`route`, `verify`, `wait`, `read`), its attempt and its answer.

A call is routed to any node that believes it leads. `HandleWrite`, `HandleRevoke` and
`TransitionLookup` read that node's own view; a `Transition` then awaits the trusted
time and is verified in a second step, with the public key read in the first one.
`Transient` is every failure the router tries again (also when the entry may be in the
log), `DeadlineElapsed` every final one. `BuildSnapshot` and `StoreSnapshot` are two
steps, because the code holds two locks one after the other. `Restart` empties a node.
`frozen` and `origin` are history variables for the properties.

Assumed of openraft, which is external: one committed order of entries that every node
applies in order; committed entries survive (what `SyncJoin` examines);
`ensure_linearizable` returns an index that covers everything committed before the
call. Signatures and attestations are ideal. Versions are natural numbers.

### SyncJoin

A slot is a configured name, a process in it an instance with a fresh key. `Pass`,
`Probe`, `Seen`, `JoinReturns`, `MayInitialize` and `EndPass` are one turn of
`discover_and_join`, with a step per probe; `AddLearner`, `CaughtUp` and `ChangeStep` are
`admit` on a leader, where `PlanAdmission` is the kernel's decision and `NewVoters` the
voters it commits; `Evict` is the eviction watch. A restart forgets everything. openraft
is reduced to its steps that matter here: an election by a quorum of names that answer,
replication of a log to one follower, appends, and joint configurations. Raft calls go
to a name (`StandsIn` notes when the process there is not the one that was meant).

### MeshLink and SyncSession

`MeshLink` is one directed link: `Attest`, `Hello` and the driver's steps on the dialer's
side, the accept side, the callers of `Mesh::call`, a relay that splices, silences or
cuts streams, and reboots of the peer. Deadlines may pass wherever the code waits under
one, and the trusted-time read of the handshake may fail or hang. The other direction of
the pair appears as `GreetPeer`, where this node's accept side records the peer's key.
`SyncSession` is a customer session end to end for a node without Raft:
authentication of both ends, requests written and answered in order, the nbd-client's
timeout that drops the session, and the node's two acquisitions of its lock.

### NbdPipeline

Three tasks share the pin gate, the region watch, the job channel and the nudge
channel. Every step between two awaits, or between two acquisitions of a lock, is an
action: `RecvWrite` gates the handle, `Capture` registers the commitment, `Forward` lets
the host have it, `QueuePin` queues the job; `RecvJob`, `PinOk`, `WatchCommit`,
`FinishOk`, `Nudge` are the actor's; `ReadReply`, `WriteReply`, `Stash`, `RecvNudge` the
reply pump's. The host answers in any order, fails requests, closes the stream, and
with `StaleDisk` serves older content. The kernel reuses a handle once it is answered,
and keeps at most `Overlap` region writes in flight: btrfs keeps one, and the code is
checked with two (`overlapped` remembers it, for the one property that needs one). The
content of the region is the number of the write that produced it, since a superblock
carries its generation.

### NbdBoot

`Boot`, `BootGet`, `Register`, `RegisterGet`, `Transition`, `PostGet` are the stages of
`verify_or_register` and `transition_and_reverify`; `Pin`, `PinGet`, `Retry` are
`pin_with_retries` with `disambiguate_conflict`. An RPC is executed and answered in one
step, or its client gives it up and it enters `late`, from where the cluster may execute
it at any time. `Stop` is a crash or a fail-stop at any point; the host may perform a
forwarded write for an instance that is gone. With `Restored` a disk goes back to any
content some disk has held. `after` is what a write was made on top of, so that
"includes every acknowledged write" can be said of a content.

### VolumeKeys, UpgradeChain, UpgradeControl

`VolumeKeys` takes `init`, `prepare_upgrade` and `revoke_upgrade` apart at every write
to KMS, the metadata host and the LUKS header; each may fail, and a crash between any
two loses the stash, which is on tmpfs. `UpgradeChain` has the rules for one link at
ingest (`ValidateChainLink`), the walk over a stored chain (`Walk`), the descent check
of the SDK (`VerifyPcrDescent`) and what the CLI checks before the owner signs.
`UpgradeControl` composes them: the owner's CLI gathers an expectation, from a local
rebuild or from PCRs the owner gives (`TargetAccepted`; in the second case only the
backend's record says which synchronizers the target trusts), checks the payload the
backend offers, signs; the server's `HandleControl` consumes its one-shot nonce; prepare
and revoke run across the volume, the synchronizer and the chain; images are cut over,
crash and boot. The backend may deliver a command late, twice or never, and the chain
daemon may lose a link or its acknowledgement. One clock stands for the owner's, the
enclave's and the synchronizer's; the synchronizer takes a transition `Tolerance` before
and after its window. `Recorded` is the row the backend stores for a link it accepted:
the link, its place and the time. `ReachedIn`, which says what upgrades lead to, is the
least set of images that holds the first boot's and is closed under the signed upgrades
a client was shown.

### SessionMux and AttestedConnect

`SessionMux` is the multiplexing on both ends of a session: SDK calls and upgraded
streams, the transport task with its command queue, the enclave's session loop with its
permits, response channel and one task per request or stream. All queues are bounded,
connections are cut, clients reconnect. `AttestedConnect` is how a channel comes to be
trusted: clones of a client reconnect under one lock; dial, handshake, attestation,
verdict on the document, the two reads of the backend for a client that follows
upgrades; versions are promoted between any two of these.

### KmsGate and KmsService

`KmsGate` starts from every policy of one statement, or of a gated Decrypt statement and
another one, over the action patterns, NotAction and the condition operators the
checker tells apart, and lets any caller do what KMS grants. It assumes that the key is
as it was minted when the check reads it: a grant or a replica made earlier is not
visible to the code. `KmsService` is the stand-in for KMS with its key files, the backend
that mints and retires keys and the enclave's boots; files are truncated and then written,
reads and writes fail, and the service is killed between any two steps. The envelope is
modelled by its bytes as tokens (heads with definite or indefinite lengths,
end-of-contents, chunked strings): `TranscodeTlv` parses them as `transcode_tlv` does, for
every form a BER encoder may choose and for answers that are cut short, run on, or hold a
string of mixed segments. It assumes that an
enclave is not back before the write of its previous boot's request is done.

### BootPulls, EgressFlow, EgressPolicy, MetricsExport, CliSession, CliDeploy

`BootPulls`: the two pulls, the scrub of init's environment between them, the merge into
the workload's configuration, where environments are sequences of bindings as in the
bundle, and the credentials an upgrade pulls. `EgressFlow`: SYNs and their
retransmissions, connects that come again from the same endpoint, resets, the socket and
flow allocated for each source, the two directions of a flow with their bounded channels
and the carry-over of a partial send, the forwarder and its failures; smoltcp is
external. `EgressPolicy`: submissions as flags or JSON, the daemon's load, and the
verdict on a connect, one resolver query at a time while records change.
`MetricsExport`: recording and sampling one atomic at a time, each load returning any
value since this task's last, the clock probe on a blocking thread, sends that time out,
frames of others, and the receiver's loop with its rendering and removal of the file.
`CliSession`: logins and commands of concurrent invocations over one credentials file,
with refreshes whose answer or save is lost and commands that go on with the old pair.
`CliDeploy`: push and the watch of a build.

## 3. What the runs check

`tlc -config X.cfg M` for each line. Deadlock is not checked in any of them: calls,
writes, boots and faults are bounded, and a pipeline or session that failed stops by
design.

| run | config | properties | bounds and why they are enough |
|---|---|---|---|
| `sync_writes` | `SyncWrites` | `TypeOK`, `HistoryIsLinear`, `AppliedOnce`, `ImplementsOracle` | 3 calls, 2 attempts each, one fault: two clones that pin and a retry that is in the log twice; or a registration, a pin, a transition and its duplicate |
| `sync_control` | `SyncControl` | `TransitionsAuthorized`, `RevocationHolds`, `AckedIsCommitted`, `NodeViewConsistent`, `GetIsFresh` | 3 calls, two nodes, a snapshot every 2 entries, one restart: registrations that disagree on the control key and a link that opens at time 1; a revocation, the link it names and another one; or reads on either replica while snapshots are built, stored and installed |
| `nbd_race` | `NbdRace` | `AckedIsPinned`, `NoStaleRead`, `ReusedHandleIsClean`, `QuietDiskMatches`, `RefusedIsOlder` | 3 handles: two overlapping writes and a read, on a host that may serve older content; a job channel of one |
| `nbd_live` | `NbdLive` | `WriteAnswered`, `OthersFlow` | two handles, both may write; the job channel is full when the second write comes before the actor took the first |
| `nbd_clones` | `NbdClones` | `AckedIsLinear`, `MismatchMeansTorn`, `VerdictsAreRight` | 3 instances, 2 of them at a time, 2 disks that may be restored, an upgrade, 2 attempts of a pin |
| `upgrade` | `Upgrade` | `VolumeSafe`, `IngestedChainWalks`, `SignedAsIntended`, `CommandRunsOnce`, `DescentIsSigned`, `RevokedNeverMoves`, `VolumeSpec` | two images, two keys, three slots, two signed commands, two boots, four instants and a tolerance of one: an upgrade prepared, revoked, prepared again and cut over, with a crash at each point |
| `services` | `Services` | `ClusterStaysSound`, `InitializesOnce` (SyncJoin), `MeshIsSound`, `RepliesAreWhole`, `RestsClean` (SessionMux), `ChannelIsTrusted`, `SealedForExpectedOnly` (KmsGate), `ConnectsAreServed` (EgressFlow) | six parts that share no state, one moving in each behaviour: 3 slots and one restart, while the cluster forms or with a write after it; 2 mesh calls over 2 streams and a reboot of the peer; 2 calls, one a stream, over 2 sessions with queues of one; 2 clones, 3 versions, 3 channels; every policy of the catalogue; 2 sources and 3 events (SYNs, writes, answers of two units), so that a tuple is used again over a leftover flow, and a partial send is followed by another message |
| `support` | `Support` | `EnforcesAuthored`, `MetricsAreSound`, `AnswersAreOwn` (SyncSession), `SealedKeysHold` (KmsService), `PullsAreWhole`, `CliIsFaithful` | seven parts in the same way: 3 addresses and 2 names, one of them rebound; 2 sessions recording 2 requests during 2 ticks, and a stray frame, at most 4 of these together; 2 dials and 2 requests of clones; 1 minted key and 3 crashes, and every form of an envelope with strings of up to two segments; 2 upgrades, with an image that binds a name twice; 2 invocations and 3 grants; a log of 3 characters |
| `revoke_comment` | `SyncRevokeDoc` | `RevokeNotOkMeansNoEffect` (violated) | see section 5 |
| `nbd_honest_comment` | `NbdHonestDoc` | `HonestNeverRefused` (violated) | see section 5 |
| `acked_write_doc` | `JoinAckDoc` | `AckedSurvives` (violated) | see section 5 |
| `egress_upload_doc` | `EgressUploadDoc` | `UploadIsPrefix` (violated) | see section 5 |

Every property of a passing run has a mutant of the code that breaks it under the same
bounds. `services` and `support` combine parts because an instance of each is small; a
behaviour moves one part only (`part`), so no interaction is claimed between them.

Symmetry is used for calls, nodes, handles, instances and disks, in runs without
liveness properties only; none of the definitions chooses among them. Where a state
constraint is used (`sync_writes`, `sync_control`) it cuts off behaviours that mix the
catalogues of requests, so that each stays small.

Fairness (in `nbd_live` only). The tasks are scheduled by tokio and the host works
through its requests, so a step that stays possible is taken; the reply pump polls both
of its channels, and the reply stream is a queue, so each reply in it is served. Weak
fairness says this, because the pump is away from its channels for one step at a time.
A pin ends, because `pin_with_retries` has a bounded number of attempts with a timeout
each: this is the hypothesis of `WriteAnswered`; `OthersFlow` does without it, to show
that unrelated requests do not depend on the pin. They are counted from when the proxy
has read them: with a full job channel it reads nothing more, so the kernel's later
requests wait for the pin, by the code's design. Neither the kernel nor a disconnect is
fair. Elsewhere "gets stuck" is said of states instead: `RestsClean` (nothing can move
and a call still waits) and the last part of `MeshIsSound` (the dial loop has no step).

## 4. What is proved

TLAPS checks the theorems below for all values of the constants: any number of keys,
nodes, calls, requests, handles, writes, slots, images, signed commands, boots and links,
under the named assumptions of the modules (constants are of their types, `None` and
`NoTip` are none of the other values, the minimum delay and the clock tolerance are natural
numbers, the first image of an enclave is an image, and one image registers a volume's
history).

`SyncCommitProofs`, `SyncServiceProofs`:

| theorem | says |
|---|---|
| `TypeCorrect` | `TypeOK` |
| `ReplicasConsistent` | `NodeViewConsistent`: every replica is at a point of the log |
| `NoForkedHistory`, `PinsAreLinear`, `HistoriesAreLinear` | `OneHeadPerHistory`, `PinsNeverFork`, and both together, `HistoryIsLinear` |
| `RetriesAreSafe` | `AppliedOnce` |
| `RevocationIsFinal` | `RevocationHolds` |
| `StaleReadsAreSafe` | `TransitionsAuthorized` and `ControlKeyFrozen` |
| `NoKeyComesBack` | `RetirementIsFinal` |
| `AcksAreCommitted` | `AckedIsCommitted` |
| `ReadsAreFresh` | `GetIsFresh` |
| `Refinement` | `ImplementsOracle` |

None of these is inductive. `IInv` adds what they rest on: the state after the last
entry is the fold of the log (each entry's state is what applying it to the previous
one gives), stored and half-built snapshots are states of the log at their index, a
retired key is not live, a key that was ever live still has its frozen key, a call
being verified carries the frozen key of the link's old key, a proposed transition is
signed with it, and the versions of accepted pins are below the version of the key
that now holds their history. Only `Commit` changes the log, so for every other step the
log conjuncts are carried over at once (`QuietState`, `QuietKeepsLog`); `Commit` is
taken apart by the type of the entry, with one lemma for what each operation does to
the state machine (`RegisterEffect`, `PinEffect`, `TransitionEffect`, `RevokeEffect`).
`Refinement` shows that a commit maps to `Start`, `Extend`, `HandOver` or a stutter of
`FreshnessOracle`, and that nothing else changes a head.

`ReadsAreFresh` needs one more invariant, `ReadInv`. A read compares its answer with what
was committed when it was issued, but answers from a replica that is behind or ahead of
that point. `ReadIsAhead` follows the read index: from when it is taken, no state of the
log at or after it is older than what the read must see. It stays true because a commit
moves no key back (`CommitMovesOn`), and what was retired at any point of the log is
retired now (`RetiredStays`), which is what a `NotFound` rests on.

`NbdPipelineProofs`:

| theorem | says |
|---|---|
| `TypesHold` | `TypeOK` |
| `DurableBeforeAck` | `AckedIsPinned` |
| `PinsInOrder` | `PinnedInOrder` |
| `ReadsAreFresh` | `NoStaleRead` |
| `HandlesAreClean` | `ReusedHandleIsClean` |
| `RefusalIsEarned` | `RefusedIsOlder` |
| `QuietDiskIsPinned` | `QuietDiskMatches` |

Here the inductive invariant follows one region write through the tasks. The writes in
progress are numbered without a gap: the actor's job, then the queued jobs in order, then
the one `request_proxy` works on (`ActorOK`, `JobsOK`, `ReqOK`), and each of them still has
its request, a pending gate and its registered commitment (`Carries`, `Registered`). Their
handles therefore differ (`Distinct`), which is why resolving one gate or committing one
pending entry cannot touch another write. What is acknowledged is bounded by the newest
commitment of the region watch, and that by what the oracle holds (`HistoryOK`); an open
gate means the former (`GateOK`). A read in flight is watched with a floor above
everything acknowledged when it was issued (`WatchOK`), and a reply is in one place only
(`ReplyOK`). `Frame` lists what each conjunct depends on, so that the lemma of an action
treats only the conjuncts the action can disturb.

The last two theorems have invariants of their own on top of it. That a refusal is earned
is about the other direction of the region watch, that it knows all it should accept:
`WatchInv` says that the history and the pending commitments leave no gap between the
oldest commitment kept and the newest captured (`Gapless`, `Captured`), that the prune
keeps the floor of every read in flight (`FloorKept`), and that the host has no content that
was not captured before it was forwarded (`HostSeen`). `DiskInv` follows the one write in
flight to the disk: what the host holds belongs to a request of the kernel, and once a
write has landed, and until the next is issued, the disk holds the newest write.

`NbdBootProofs`:

| theorem | says |
|---|---|
| `AcksAreLinear` | `AckedIsLinear` |
| `VerdictsHold` | `VerdictsAreRight` |
| `MismatchesAreTorn` | `MismatchMeansTorn` |
| `HistoryInvariant`, `OwnInvariant` | the invariants they rest on |

That acknowledged writes form a line is a fact about a volume several instances believe to
be theirs, with pins under way that nobody waits for any more. `HistoryInv` says that the
oracle holds one history, with one live key at a time (`OneHistory`); that its head includes
every acknowledged write and that what it includes is a line (`CommittedInv`); and that a
serving instance, and a pin that was given up, still know enough to be refused: the version
they expect is either behind the head or names the very content their write was made on
(`At`, `InstInv`, `LateInv`). So a pin that is accepted extends the line, whoever sent it and
however late it is executed. The steps are first sorted by what they do to an instance
(`Starts`, `Looks`, `Serves`, `Ends`, `Tries`, `Pins`, `MakesWrite`, `Lands`, `Acks`), so that
each conjunct is treated once per kind of step and not once per action. The assumption
`OneGenesis` is what the code's registration relies on: only the image whose chain starts
the enclave registers (`rollback.rs:303-306`). Without it two images could start two
histories for one volume.

`VerdictsHold` is about what an instance concludes. That a device is served only with
everything acknowledged follows from the same invariant: the head that the boot compared the
region with includes it. That a conflict with an earlier attempt of the same pin is never
taken for a fork needs to know whose write the head holds, which is `OwnInv`: an instance
that does not serve yet has written nothing, a head that went past the version an instance
expects holds its pin in flight or somebody else's write (`Passed`), and its own pins that
were given up are attempts of the one in flight or behind it (`Own`).

`MismatchesAreTorn` follows the content of the disk. `AckInv`: the only write of a running
instance that is not acknowledged is the one in flight, and an acknowledged write that is
executed late comes too late. `AloneInv` spells out the hypothesis that one instance at a time
used one disk. `DiskInv`: with nothing torn, the disk and the head hold what the instance read
or last wrote, apart by at most the write in flight, and when nobody runs they agree. The
delicate step is a given-up pin that is executed late: with nothing torn its writer is still up
and still pinning the same content (`LatePinIsInFlight`), so the head moves to where the disk
is going.

`VolumeKeysProofs`:

| theorem | says |
|---|---|
| `VolumeStaysReadable` | the passphrase in the blob opens the volume, outside the window between a revoke's killing of the staged slot and its restoring of the blob |
| `LiveSlotIsKept` | no job kills the slot the running image opened the volume with |
| `RunningImageCanReboot` | while nothing is staged, the running image can open the volume again |
| `NeededKeysSurvive` | no key scheduled for deletion is one the blob or a pending revoke needs |
| `VolumeStaysSafe` | `VolumeSafe`, the four together |

The invariant says what each job may rely on at each of its steps: that a booting image
holds the blob's passphrase (`BootInv`), that prepare has changed nothing but the staged
slot until it seals (`PrepareInv`, `StagedInv`), that revoke works on the blob the stash
kept (`RevokeInv`), and that a running image opened the volume with the passphrase of
the blob or of the one it would go back to (`RunningInv`).

`UpgradeControlProofs`, `UpgradeIngestProofs`:

| theorem | says |
|---|---|
| `CommandsRunOnce` | `CommandRunsOnce` |
| `RevokedUpgradeNeverMoves` | `RevokedNeverMoves` |
| `OwnerSignsAsIntended` | `SignedAsIntended` |
| `ControlImplementsVolume` | `VolumeSpec`: the control path is a behaviour of `VolumeKeys` |
| `ControlKeepsVolume` | `VolumeSafe` along the whole control path, from the two before it |
| `ClientDescentIsSigned` | `DescentIsSigned` |
| `IngestedWalks` | `IngestedChainWalks` |
| `ControlInvariant`, `IngestInvariant` | the invariants they rest on |

A command runs once because a nonce is spent when a command is taken up and is fresh
after every boot: `CommandsInv` says that the nonces of the commands that ran increase and
are all below the present one. That a revoked upgrade never
moves the pin needs the order inside `run_revoke_upgrade`: from the first change to the
volume on, the synchronizer holds the revocation (`RevocationInv`), for the command the
handler was given at its start (`HandlerInv`).

`ControlInv` is about what was signed and where it may turn up. Every upgrade that is
signed, on the wire, being executed or on the chain is one of the payloads in
`signedFor`, and each of these was checked against an expectation made from the chain
(`SignedInv`, `WireInv`, `OwnerInv`, `ChainInv`). Every link on the chain was attested by
an image of this enclave.

The last two theorems are about `validate_chain`, a loop over a chain of any length. The
walk is unfolded into its states before each link (`WalkRuns`), what one link does to it
is stated once per kind (`WalkSigned`, `WalkGenesis`, `WalkPromotion`, `WalkReboot`), and
the argument is an induction over the links. For `ClientDescentIsSigned`: take any set of
images that holds the first boot's image and is closed under the signed upgrades shown.
The image in force never leaves it (`Within`, `DescentStep`), as a promotion goes to the
target of an upgrade on the chain, and that upgrade was valid where it stands, so it
started from the image then in force. Leaving a link out does not change this, since what
remains are still links of ours (`WithoutOurs`). For `IngestedWalks`: the rules of ingest
are about the backend's row and the last boot, those of the walk about the image in
force. `IngestInv` says why the two agree: each link passed ingest at its place
(`PlacedInv`), a serving enclave runs the row's image and its boot is on the chain
(`ServingInv`), and while the row is ahead of the last boot, an upgrade that explains it
is on the chain and has become valid, so that no revocation can withdraw it any more
(`PromotedInv`). By induction the image in force before each link is the last boot's
(`PlacedWalks`), up to the first link the walk refuses, and that can only be a boot
outside its window.

`TrustProofs`:

| theorem | says |
|---|---|
| `OnlyExpectedRecovers` | `SealedForExpectedOnly`, whatever statements the key's policy has |
| `SealedKeyIsSafe` | the same for the policies of the run |
| `ChannelsAreTrusted` | `ChannelIsTrusted` |

The run enumerates a catalogue of policies with at most two statements; the theorem takes any
set of them. A policy that passed the check grants nobody a forbidden operation, and
`Decrypt` to the expected image only (`AllowsLittle`); so once the enclave has accepted a key
its policy stays what it was (`GateInv`). A channel is trusted because, from the moment the
document is there, one that carries the hash of this session names the image at its end
(`DocIsOfPeer`), and the tip a walk returned descends from the pin, whatever has been promoted
since (`ConnectInv`). The theorem starts from a client whose first channel ends where it
should, as `build` returns a client only after that check.

The library's induction theorems take an operator as a parameter, which the provers here
cannot instantiate. `LeastNatural` (a set of naturals that is not empty has a least
element, from the well-foundedness of `<`) and `UpTo` (induction for a set) do the same for
sets, and serve the inductions over chains.

The modules that proofs reach use no `@` in `EXCEPT`: this version of the proof manager
expands nested ones wrongly. A leaf for the SMT solver names two of its pragmas
(`SMTT(30), Z3T(30)`): they are tried in turn, and the second is for when the first runs
out of time on a busy machine.

Only model-checked:

- `WriteAnswered` and `OthersFlow` are liveness under fairness, and `MeshIsSound` and
  `RestsClean` say with ENABLED that nothing can move; both are out of the prover's reach.
- The properties of the other parts in `services` and `support`. Each bundles what is to be
  said of one small machine, or enumerates a catalogue (of submissions or encodings); there
  the instance already has most of the cases.

## 5. Where code and comments disagree

Four disagreements are shown by runs of their own:

- **Revoke answered Unavailable, and effective.** The comment on `handle_revoke`
  (`synchronizer/src/raft/serve.rs:121-123`) says that anything but `RevokeOk` or a timed
  out `Unavailable` means that the revocation did not take effect. A revocation whose
  attempts fail after its entry was proposed is answered with a plain `Unavailable`
  (line 156), and the entry may still commit. Retrying is safe (revocations are
  idempotent); concluding that the link is still usable is not.
- **An honest disk refused.** The doc of `RegionWatch` (`nbd-client/src/rollback.rs:433-436`)
  says that honest out-of-order replies never cause a false positive. A pin may be
  durable before the host has performed the write, as the two run in parallel; a read of
  the region issued in between asks for content the host does not have yet
  (`watch_read`, line 462). `RefusedIsOlder` is what does hold: what is refused is older
  than a pin that was durable when the read was issued.
- **An acknowledged write lost with one restart.** `synchronizer/src/raft/mod.rs:116, 125-127`
  says that an acknowledged write survives the loss of any single node, since a restarted
  process has a new id and is no voter until admitted. Raft calls are routed by name
  (`raft/network.rs:174`) and the handler hands them to the engine that runs there, so an
  empty process can vote and acknowledge for the id of its predecessor.
  `ClusterStaysSound` states what does hold: a write is lost in no other way.
- **Upload bytes dropped.** `enclavia-egress/src/stack.rs:331-332` says that a slow
  forwarder is paced by the TCP window. The bytes have already left the socket when
  `try_send` finds the channel full (line 328), and they are dropped.

Smaller ones, met while modelling; no run is about them:

- `rollback.rs:860-861` and the message at 1580-1582 take a conflict with a different
  commitment for a second live writer. The pin of a crashed instance, executed after the
  reboot, gives the same verdict with one live writer.
- The message of a failed blob restore in `enclavia-crypto` asks for a retry, which the guard
  on the stashed slot then refuses: the slot is already gone.
- `mesh/handshake.rs:267-271` says that every mesh phase that can block goes under a
  deadline, so that a wedged counterparty always surfaces as an error. Two waits do not: the
  trusted-time read (`handshake.rs:374`) while `/dev/nsm` hangs, and the write of a frame to a
  stream that is full and open. `MeshIsSound` says that the dial loop is held up nowhere else.
- `mesh/mod.rs:40-42` says calls in flight fail when a channel ends; a call whose envelope
  was still queued waits for its own timeout.
- `enclavia/src/client.rs:327-330` says that a dropped stream still surfaces as an error. The
  error is put into the stream's buffer, and when that is full it is dropped: the reader
  then sees an ordinary end of file. `RepliesAreWhole` excepts these streams (`muted`): only
  on them may an end of file come before the whole answer.
- The enclave's session loop acquires a permit (`enclavia-server/src/main.rs:1193`) inside the
  arm of its select that also drains the response channel. When all permits belong to tasks
  that wait for room in that channel, both wait for ever; the idle timeout and the end of the
  connection are seen at the select only. The model reaches this state. `RestsClean` excepts
  the handler's waits inside an arm (for a permit, a stream's channel, its own response
  channel, the socket) and shows that a call is left waiting in no other way, and that a
  stream nobody reads is kept only when its close found a queue full (`wasted`).
- `enclavia-egress/src/stack.rs:587-588` says that the match on the tuple swallows
  retransmissions and admits new connections. A new connection from an endpoint whose old flow
  is still there is swallowed too, and refused when the old socket does not take it.
  `ConnectsAreServed` excepts these connects.
- `FlowStream::poll_shutdown` does nothing, so a remote EOF does not reach the workload.
- The host's metrics file may be shown for almost two stale periods after the last valid
  sample, since the period is only looked at between connections.
- The doc of the node's attestation record says once per session; `dispatch` records it for
  each request.
- In the KMS stand-in `GetKeyPolicy` creates a key when its doc says it does not, and a key
  file that cannot be read counts as absent (`mock-kms/src/main.rs:687`): a failed read lets
  `load_or_create_key` write a new key over the one that sealed a passphrase.
  `SealedKeysHold` excepts it.
- `enclavia-secrets-init/src/main.rs:513-514` says that the merge replaces any existing entry;
  of two entries of one name in the image's configuration it replaces the first.
  `PullsAreWhole` excepts such names.
- `write_env_file` quotes values when its doc says it does not; `Credentials.expires_at` is
  documented for a refresh in advance, but only a refused request refreshes.
- Two invocations of the CLI that refresh at once spend one refresh token, and saves that
  overlap can leave a file that does not parse. A build log that is rewritten and longer
  is shown from the middle. `CliIsFaithful` excepts both.
- `push` hands the API token to docker for the registry's host (`push.rs:111`), as its comment
  says; that a token is sent only to the backend it came from is stated of the CLI's own
  requests.

## 6. Not modelled

- Cryptography: Noise, certificate chains, COSE and CBOR encodings, signatures. They are
  ideal: a signature verifies or not, a document names the image that asked for it. What a
  signature or a document is *bound to* is modelled, as that is what the code checks.
- openraft: elections, replication and commitment as far as the code's own handlers
  depend on them; `LogStore`'s bookkeeping of votes and log entries serves the library only.
- smoltcp, docker, the backend, the storage host, KMS and DNS: external, by what the code
  allows for.
- Parsing and layout: the LUKS header cross-check, the NBD negotiation, configuration files,
  the text of metrics, limits on payload sizes other than the ones that change control flow.
- `synchronizer-names-init`, the start-up of the synchronizer, trusted time (a clock that
  only moves forward), custody and staging helpers: read or computed once.
- `enclavia-ffi` and `enclavia-wasm` forward calls to the SDK; `reproduce` runs external
  build tools; the listing commands of the CLI print what one HTTP call returned.
- Interactions between the parts of `services` and `support`, beyond the ones named in
  section 2. In particular `SyncService` takes the effect of the mesh (calls that are lost
  or late) and of membership (committed entries survive) as given.
