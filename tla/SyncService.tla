---------------------------- MODULE SyncService ----------------------------
(***************************************************************************)
(* The replicated synchronizer as its clients meet it: a request is routed *)
(* to a node, verified against that node's own view of the state, proposed *)
(* as a log entry, committed later (or twice, or never), applied by every  *)
(* replica, and answered (synchronizer/src/raft/{serve,forward,store}.rs   *)
(* and the client half of raft/mod.rs).                                    *)
(*                                                                         *)
(* openraft is external.  What is assumed of it is what the code uses: one *)
(* committed order of entries, which every node applies in order; a        *)
(* proposal that nobody acknowledged may still commit, in any order with   *)
(* other pending ones, or be lost; ensure_linearizable returns an index    *)
(* that covers everything committed before the call.  Any node may believe *)
(* that it leads.                                                          *)
(***************************************************************************)
EXTENDS SyncMachine, Sequences

CONSTANTS Node,        \* the synchronizer nodes
          Request,     \* the catalogue of requests the sessions may send
          Call,        \* identities of request instances
          MaxTries,    \* FORWARD_MAX_RETRIES: routing attempts of one call
          SnapshotEvery, \* LogsSinceLast: entries between two snapshots
          MaxFaults,   \* bound on failed attempts, deadlines and faults
          MaxTime      \* bound on the trusted clock

(* A request and the session facts that travel with it: the attested key   *)
(* and the control public key the attestation document announced.          *)
GetRequest        == [type : {"Get"}, session : PcrKey, key : PcrKey]
RegisterRequest   == [type : {"Register"}, session : PcrKey, key : PcrKey,
                      pubkey : Pubkey, commitment : Commitment]
PinRequest        == [type : {"Pin"}, session : PcrKey, key : PcrKey,
                      expected_version : Nat, commitment : Commitment]
TransitionRequest == [type : {"Transition"}, session : PcrKey,
                      pubkey : Pubkey, link : UpgradeLink,
                      commitment : Commitment]
RevokeRequest     == [type : {"Revoke"}, session : PcrKey,
                      link : RevocationLink]

ASSUME RequestsAreTyped ==
    \A q \in Request : \/ q \in GetRequest
                       \/ q \in RegisterRequest
                       \/ q \in PinRequest
                       \/ q \in TransitionRequest
                       \/ q \in RevokeRequest

ASSUME NoneIsNoNode == None \notin Node

ASSUME NoneIsNoHead == None \notin [commitment : Commitment, version : Nat]

ASSUME BoundsAreNat == /\ MaxTries \in Nat \ {0}
                       /\ SnapshotEvery \in Nat \ {0}
                       /\ MaxFaults \in Nat
                       /\ MaxTime \in Nat

VARIABLES
    log,       \* the committed entries, each with its result and the state
               \* it leaves
    pending,   \* proposed and not committed; one that stays here was lost
    view,      \* per node: its state machine
    applied,   \* per node: how many committed entries it has applied
    building,  \* per node: the snapshot it is building, or None
    snap,      \* per node: its stored snapshot, or None
    calls,     \* per call: where it is and what it was answered
    now,       \* trusted time
    faults,    \* failed attempts, elapsed deadlines and faults so far
    frozen,    \* history: the control key each key was committed with
    origin     \* history: the key that started the history a key holds

nodeVars == <<view, applied, building, snap>>
vars == <<log, pending, nodeVars, calls, now, faults, frozen, origin>>

-----------------------------------------------------------------------------
(* Log entries.  `signer` and `valid_from` are the link's, kept with a     *)
(* Transition so that the properties can speak of them.                    *)

RegisterOp(q) == [type |-> "Register", key |-> q.key, commitment |-> q.commitment,
                  control_pubkey |-> q.pubkey]
PinOp(q) == [type |-> "Pin", key |-> q.key, commitment |-> q.commitment,
             expected_version |-> q.expected_version]
TransitionOp(q) == [type |-> "Transition", old_key |-> q.link.from,
                    new_key |-> q.link.to, new_control_pubkey |-> q.pubkey,
                    link_hash |-> q.link.hash, commitment |-> q.commitment,
                    signer |-> q.link.signer, valid_from |-> q.link.valid_from]
RevokeOp(q) == [type |-> "Revoke", key |-> q.session, link_hash |-> q.link.hash]

OpOf(q) == CASE q.type = "Register"   -> RegisterOp(q)
             [] q.type = "Pin"        -> PinOp(q)
             [] q.type = "Transition" -> TransitionOp(q)
             [] q.type = "Revoke"     -> RevokeOp(q)

(* Record the facts the entry carries, then apply it: both happen whatever *)
(* the operation's verdict is.                                             *)
ApplyOne(s, op) ==
    CASE op.type = "Register" ->
             ApplyRegister(ObserveAttestation(s, op.key, op.control_pubkey),
                           op.key, op.commitment)
      [] op.type = "Pin" ->
             ApplyPin(s, op.key, op.expected_version, op.commitment)
      [] op.type = "Transition" ->
             ApplyTransition(
                 ObserveTransition(
                     ObserveAttestation(s, op.new_key, op.new_control_pubkey),
                     op.old_key, op.new_key),
                 op.old_key, op.new_key, op.link_hash, op.commitment)
      [] op.type = "Revoke" -> ApplyRevoke(s, op.key, op.link_hash)

(* The state machine after the first j committed entries, and after all. *)
StateAt(j) == IF j = 0 THEN NewMachine ELSE log[j].st

sm == StateAt(Len(log))

-----------------------------------------------------------------------------
(* A call: the request, where it is being served, what its next step needs *)
(* (the public key looked up, or the index to read at) and its answer.     *)
(* `before` is the pinned state of its key when it was invoked.            *)
NoCall == [pc |-> "idle", tries |-> 0, req |-> None, before |-> None,
           node |-> None, val |-> None, ans |-> None]

Init ==
    /\ log = <<>>
    /\ pending = {}
    /\ view = [n \in Node |-> NewMachine]
    /\ applied = [n \in Node |-> 0]
    /\ building = [n \in Node |-> None]
    /\ snap = [n \in Node |-> None]
    /\ calls = [i \in Call |-> NoCall]
    /\ now = 0
    /\ faults = 0
    /\ frozen = [k \in PcrKey |-> None]
    /\ origin = [k \in PcrKey |-> None]

-----------------------------------------------------------------------------
(* A call's steps.  All of them leave the log and the nodes alone.         *)

Serving == UNCHANGED <<log, nodeVars, now, frozen, origin>>

CallOnly == Serving /\ UNCHANGED faults

(* An attempt, a deadline or a node fails. *)
Fault == faults < MaxFaults /\ faults' = faults + 1

At(i, pc) == calls[i].pc = pc

Answered(c, a) == [c EXCEPT !.pc = "done", !.tries = 0, !.node = None,
                            !.val = None, !.ans = a]

Got(res, ks) == [res |-> res, got |-> ks]

(* The router's loop: try again, or give up after the last attempt. *)
RouteAgain(c) ==
    IF c.tries < MaxTries
    THEN [c EXCEPT !.pc = "route", !.tries = c.tries + 1, !.node = None, !.val = None]
    ELSE Answered(c, Got("Unavailable", None))

Invoke(i, q) ==
    /\ At(i, "idle")
    /\ calls' = [calls EXCEPT ![i] = [calls[i] EXCEPT !.pc = "route", !.tries = 1, !.req = q,
                                  !.before = IF q.type = "Get" THEN sm.state[q.session]
                                                               ELSE None]]
    /\ UNCHANGED pending /\ CallOnly

(* Go on at node n, remembering v. *)
Step(i, pc, n, v) ==
    calls' = [calls EXCEPT ![i] = [calls[i] EXCEPT !.pc = pc, !.node = n, !.val = v]]

Propose(i, n) ==
    /\ pending' = pending \cup {[op |-> OpOf(calls[i].req), call |-> i,
                                 try |-> calls[i].tries]}
    /\ Step(i, "wait", n, None)

Answer(i, a) ==
    /\ calls' = [calls EXCEPT ![i] = Answered(calls[i], a)]
    /\ UNCHANGED pending

Reply(i, res) == Answer(i, Got(res, None))

Unauthorized(i) ==
    /\ At(i, "route")
    /\ calls[i].req.type \in {"Get", "Register", "Pin"}
    /\ calls[i].req.key # calls[i].req.session
    /\ Reply(i, "Unauthorized")
    /\ CallOnly

HandleWrite(i, n) ==
    /\ At(i, "route")
    /\ calls[i].req.type \in {"Register", "Pin"}
    /\ calls[i].req.key = calls[i].req.session
    /\ Propose(i, n)
    /\ CallOnly

HandleRevoke(i, n) ==
    /\ At(i, "route")
    /\ calls[i].req.type = "Revoke"
    /\ LET q == calls[i].req
           ks == view[n].state[q.session]
       IN IF ks # None /\ VerifyRevocationLink(q.link, ks.control_pubkey)
          THEN Propose(i, n)
          ELSE Reply(i, "RevocationRejected")
    /\ CallOnly

(* A Transition reads the old key's frozen public key from the local view, *)
(* then the trusted time, and only then verifies and proposes.             *)
TransitionLookup(i, n) ==
    /\ At(i, "route")
    /\ calls[i].req.type = "Transition"
    /\ LET link == calls[i].req.link
           ks == view[n].state[link.from]
       IN IF link.decodes /\ ks # None
          THEN Step(i, "verify", n, ks.control_pubkey) /\ UNCHANGED pending
          ELSE Reply(i, "TransitionRejected")
    /\ CallOnly

TransitionVerify(i) ==
    /\ At(i, "verify")
    /\ LET q == calls[i].req
       IN IF VerifyTransitionLink(q.link, q.session, calls[i].val, now)
          THEN Propose(i, calls[i].node)
          ELSE Reply(i, "TransitionRejected")
    /\ CallOnly

(* Mutant: a local read, without the read index. *)
LinearizableGet_Local(i, n) ==
    /\ At(i, "route")
    /\ calls[i].req.type = "Get"
    /\ calls[i].req.key = calls[i].req.session
    /\ Step(i, "read", n, 0)
    /\ UNCHANGED pending /\ CallOnly

LinearizableGet(i, n) ==
    /\ At(i, "route")
    /\ calls[i].req.type = "Get"
    /\ calls[i].req.key = calls[i].req.session
    /\ Step(i, "read", n, Len(log))
    /\ UNCHANGED pending /\ CallOnly

GetAnswer(i) ==
    /\ At(i, "read")
    /\ applied[calls[i].node] >= calls[i].val
    /\ LET ks == view[calls[i].node].state[calls[i].req.key]
       IN Answer(i, Got(IF ks = None THEN "NotFound" ELSE "Ok", ks))
    /\ CallOnly

(* Mutant: takes AlreadyRegistered for an earlier copy of the same call. *)
WriteAnswer_AssumesOwn(type, res) ==
    IF res \in {"Applied", "AlreadyRegistered"} THEN "Ok" ELSE RpcError(res)

(* The client-visible answer to a committed entry's result. *)
WriteAnswer(type, res) ==
    IF res = "Applied" THEN "Ok"
    ELSE IF type = "Revoke" THEN "RevocationRejected"
    ELSE IF type = "Transition" /\ res = "KeyNotCurrent" THEN "TransitionRejected"
    ELSE RpcError(res)

(* The entry is committed and this node, the leader, has applied it. *)
WriteApplied(i) ==
    /\ At(i, "wait")
    /\ \E j \in 1..applied[calls[i].node] :
          /\ log[j].call = i /\ log[j].try = calls[i].tries
          /\ Reply(i, WriteAnswer(calls[i].req.type, log[j].res))
    /\ CallOnly

(* A transient failure: no leader known, the leader stepped down, it       *)
(* refused a non-voter, trusted time was unreadable, or the mesh call      *)
(* failed.  The router tries again, also when its entry may be in the log. *)
Transient(i) ==
    /\ calls[i].pc \in {"route", "verify", "wait", "read"}
    /\ Fault
    /\ calls' = [calls EXCEPT ![i] = RouteAgain(calls[i])]
    /\ UNCHANGED pending /\ Serving

(* COMMIT_TIMEOUT, FORWARD_CALL_TIMEOUT or ROUTE_DEADLINE elapsed: final,   *)
(* although an entry may still commit.                                     *)
DeadlineElapsed(i) ==
    /\ calls[i].pc \in {"route", "verify", "wait", "read"}
    /\ Fault
    /\ Reply(i, "TimedOut")
    /\ Serving

-----------------------------------------------------------------------------
(* The log (external) and the replicas. *)

(* The key whose pinned state an entry is about *)
Subject(op) == IF op.type = "Transition" THEN op.old_key ELSE op.key

(* The key an applied entry makes live, if it does *)
Committed(op) == IF op.type = "Transition" THEN op.new_key ELSE op.key

Commit(e) ==
    /\ e \in pending
    /\ pending' = pending \ {e}
    /\ LET out == ApplyOne(sm, e.op)
           k   == Committed(e.op)
           o   == IF e.op.type = "Register" THEN e.op.key ELSE origin[Subject(e.op)]
           starts == out.res = "Applied" /\ e.op.type \in {"Register", "Transition"}
       IN /\ log' = Append(log, [op |-> e.op, call |-> e.call, try |-> e.try,
                                 res |-> out.res, st |-> out.st, origin |-> o])
          /\ frozen' = IF starts
                       THEN [frozen EXCEPT ![k] = out.st.state[k].control_pubkey]
                       ELSE frozen
          /\ origin' = IF starts THEN [origin EXCEPT ![k] = o] ELSE origin
    /\ UNCHANGED <<nodeVars, calls, now, faults>>

NodeOnly == UNCHANGED <<log, pending, now, frozen, origin>>

(* Mutant: counts an entry twice. *)
Apply_CountsTwice(n) ==
    /\ applied[n] < Len(log)
    /\ view' = [view EXCEPT ![n] = ApplyOne(view[n], log[applied[n] + 1].op).st]
    /\ applied' = [applied EXCEPT ![n] = applied[n] + 2]
    /\ UNCHANGED <<building, snap, calls, faults>> /\ NodeOnly

Apply(n) ==
    /\ applied[n] < Len(log)
    /\ view' = [view EXCEPT ![n] = ApplyOne(view[n], log[applied[n] + 1].op).st]
    /\ applied' = [applied EXCEPT ![n] = applied[n] + 1]
    /\ UNCHANGED <<building, snap, calls, faults>> /\ NodeOnly

(* Mutant: snapshots the freshness map without the observations. *)
Snapshot_HeadOnly(s) == [NewMachine EXCEPT !.state = s.state, !.retired = s.retired]

(* What a snapshot carries: all five fields. *)
Snapshot(s) == [state |-> s.state, attested |-> s.attested,
                transition_authorizations |-> s.transition_authorizations,
                retired |-> s.retired, revoked_links |-> s.revoked_links]

(* A snapshot is read under the state lock and stored under another lock: *)
(* entries may be applied, and a snapshot installed, between the two.     *)
BuildSnapshot(n) ==
    /\ building[n] = None
    /\ applied[n] >= SnapshotEvery + (IF snap[n] = None THEN 0 ELSE snap[n].last)
    /\ building' = [building EXCEPT ![n] = [last |-> applied[n],
                                           data |-> Snapshot(view[n])]]
    /\ UNCHANGED <<view, applied, snap, calls, faults>> /\ NodeOnly

StoreSnapshot(n) ==
    /\ building[n] # None
    /\ snap' = [snap EXCEPT ![n] = building[n]]
    /\ building' = [building EXCEPT ![n] = None]
    /\ UNCHANGED <<view, applied, calls, faults>> /\ NodeOnly

(* Node n, behind the snapshot that m stored earlier, restores from it. *)
InstallSnapshot(n, m) ==
    /\ snap[m] # None /\ snap[m].last > applied[n]
    /\ view' = [view EXCEPT ![n] = snap[m].data]
    /\ applied' = [applied EXCEPT ![n] = snap[m].last]
    /\ snap' = [snap EXCEPT ![n] = snap[m]]
    /\ UNCHANGED <<building, calls, faults>> /\ NodeOnly

(* A node loses everything: the stores are in memory.  Calls it served     *)
(* fail in transit and are routed again.                                   *)
Restart(n) ==
    /\ Fault
    /\ view' = [view EXCEPT ![n] = NewMachine]
    /\ applied' = [applied EXCEPT ![n] = 0]
    /\ building' = [building EXCEPT ![n] = None]
    /\ snap' = [snap EXCEPT ![n] = None]
    /\ calls' = [i \in Call |-> IF calls[i].node = n THEN RouteAgain(calls[i])
                                                   ELSE calls[i]]
    /\ NodeOnly

Tick ==
    /\ now < MaxTime
    /\ now' = now + 1
    /\ UNCHANGED <<log, pending, nodeVars, calls, faults, frozen, origin>>

CallStep(i) ==
    \/ \E q \in Request : Invoke(i, q)
    \/ Unauthorized(i)
    \/ \E n \in Node : \/ HandleWrite(i, n)
                       \/ HandleRevoke(i, n)
                       \/ TransitionLookup(i, n)
                       \/ LinearizableGet(i, n)
    \/ TransitionVerify(i) \/ GetAnswer(i) \/ WriteApplied(i)
    \/ Transient(i) \/ DeadlineElapsed(i)

Next ==
    \/ \E i \in Call : CallStep(i)
    \/ \E e \in pending : Commit(e)
    \/ \E n \in Node : Apply(n) \/ BuildSnapshot(n) \/ StoreSnapshot(n) \/ Restart(n)
    \/ \E n, m \in Node : InstallSnapshot(n, m)
    \/ Tick

Spec == Init /\ [][Next]_vars

-----------------------------------------------------------------------------
(* Properties *)

Op == [type : {"Register"}, key : PcrKey, commitment : Commitment,
       control_pubkey : Pubkey]
      \cup [type : {"Pin"}, key : PcrKey, commitment : Commitment,
            expected_version : Nat]
      \cup [type : {"Transition"}, old_key : PcrKey, new_key : PcrKey,
            new_control_pubkey : Pubkey, link_hash : LinkHash,
            commitment : Commitment, signer : Pubkey, valid_from : Nat]
      \cup [type : {"Revoke"}, key : PcrKey, link_hash : LinkHash]

PC == {"idle", "route", "verify", "wait", "read", "done"}

AnswerCode == {"Ok", "NotFound", "VersionConflict", "AlreadyRegistered",
               "OperationRejected", "TransitionRevoked", "TransitionRejected",
               "TransitionCommitmentMismatch", "RevocationRejected",
               "Unauthorized", "Unavailable", "TimedOut"}

CallState == [pc : PC, tries : Nat, req : Request \cup {None},
              before : KeyState \cup {None}, node : Node \cup {None},
              val : Nat \cup Pubkey \cup {None},
              ans : [res : AnswerCode, got : KeyState \cup {None}] \cup {None}]

Entry == [op : Op, call : Call, try : Nat, res : Verdict, st : StateMachine,
          origin : PcrKey \cup {None}]

StoredSnapshot == [last : 0..Len(log), data : StateMachine]

(* The types of the service's state. *)
TypeOK ==
    /\ log \in Seq(Entry)
    /\ pending \in SUBSET [op : Op, call : Call, try : Nat]
    /\ view \in [Node -> StateMachine]
    /\ applied \in [Node -> 0..Len(log)]
    /\ building \in [Node -> StoredSnapshot \cup {None}]
    /\ snap \in [Node -> StoredSnapshot \cup {None}]
    /\ calls \in [Call -> CallState]
    /\ now \in Nat
    /\ faults \in Nat
    /\ frozen \in [PcrKey -> Pubkey \cup {None}]
    /\ origin \in [PcrKey -> PcrKey \cup {None}]

Effective(j, type) == log[j].op.type = type /\ log[j].res = "Applied"

(* Every replica, whether it replayed the log, was hydrated from a stored  *)
(* snapshot or came back empty, holds exactly the state of the committed   *)
(* log at the point it has applied, observation sets and revocations       *)
(* included (the invariant raft/store.rs names at StateMachineStore).      *)
NodeViewConsistent == \A n \in Node : view[n] = StateAt(applied[n])

(* A history never forks and never gets lost: whatever transitions, late   *)
(* entries and duplicates commit, the history a key registered is held by  *)
(* exactly one live key.                                                   *)
OneHeadPerHistory ==
    \A o \in PcrKey : origin[o] = o =>
        \E k \in PcrKey : /\ Live(sm, k) /\ origin[k] = o
                          /\ \A l \in PcrKey : Live(sm, l) /\ origin[l] = o => l = k

(* Two pins of one history are never accepted at the same version, in      *)
(* particular not from two clones that share a key, nor before and after a *)
(* transition: accepted versions increase along the log (apply_pin's       *)
(* compare-and-swap).                                                      *)
PinsNeverFork ==
    \A i, j \in 1..Len(log) :
        /\ i < j /\ log[i].origin = log[j].origin
        /\ Effective(i, "Pin") /\ Effective(j, "Pin")
        => log[i].op.expected_version < log[j].op.expected_version

(* A history never forks: one key holds it, and its pins follow one        *)
(* another, through clones, retries and transitions (apply).               *)
HistoryIsLinear == OneHeadPerHistory /\ PinsNeverFork

(* A write the router submits twice takes effect at most once: the second  *)
(* copy is refused, except a Revoke, which is idempotent (forward.rs,      *)
(* Forwarded::Failed).                                                     *)
AppliedOnce ==
    \A i, j \in 1..Len(log) :
        /\ i < j /\ log[i].call = log[j].call
        /\ log[i].res = "Applied" /\ log[j].res = "Applied"
        => log[i].op.type = "Revoke"

(* A link is checked against one node's possibly stale view, and committed *)
(* much later; still, every transition that takes effect was signed with   *)
(* the key frozen for the old key (handle_transition: a stale read never   *)
(* causes an incorrect accept).                                            *)
TransitionsAuthorized ==
    \A j \in 1..Len(log) : Effective(j, "Transition") =>
        log[j].op.signer = frozen[log[j].op.old_key]

(* The control key a key was committed with stays its control key: no      *)
(* later attestation, retried Register or snapshot rotates it.             *)
ControlKeyFrozen ==
    \A k \in PcrKey : Live(sm, k) => sm.state[k].control_pubkey = frozen[k]

(* Once a revocation is in the log, the link it names moves no pin, even   *)
(* if its Transition was verified before and is committed after it.        *)
RevocationHolds ==
    \A i, j \in 1..Len(log) :
        /\ i < j /\ Effective(i, "Revoke") /\ Effective(j, "Transition")
        /\ log[i].op.key = log[j].op.old_key
        => log[i].op.link_hash # log[j].op.link_hash

(* A Get never answers from before its invocation: not an older version,   *)
(* not another commitment at that version, and NotFound only for a key     *)
(* that was unknown then or has been retired since (linearizable_get).     *)
GetIsFresh ==
    \A i \in Call :
        LET c == calls[i] IN
        c.pc = "done" /\ c.req.type = "Get" =>
            /\ c.ans.res = "Ok" /\ c.before # None =>
                   \/ c.ans.got.version > c.before.version
                   \/ c.ans.got = c.before
            /\ c.ans.res = "NotFound" /\ c.before # None =>
                   c.req.key \in sm.retired

(* What a write's definite answer says is what happened: Ok means the      *)
(* write is in the log, and took effect.                                   *)
AckedIsCommitted ==
    \A i \in Call :
        calls[i].pc = "done" /\ calls[i].ans.res = "Ok" /\ calls[i].req.type # "Get"
        => \E j \in 1..Len(log) : log[j].call = i /\ log[j].res = "Applied"

KeysMoveOn ==
    \A k \in PcrKey : /\ k \in sm.retired => k \in sm'.retired /\ ~Live(sm', k)
                      /\ Live(sm, k) => \/ k \in sm'.retired
                                        \/ /\ Live(sm', k)
                                           /\ sm.state[k].version <= sm'.state[k].version

(* Retired keys stay retired and live keys never move back: across any     *)
(* step a history's version never decreases, and a key leaves the live set *)
(* only into the retired set (apply_transition).                           *)
RetirementIsFinal == [][KeysMoveOn]_vars

(* handle_revoke's comment: anything but RevokeOk means the revocation did *)
(* not take effect, except a timed-out Unavailable.                        *)
RevokeNotOkMeansNoEffect ==
    \A i \in Call :
        /\ calls[i].pc = "done" /\ calls[i].req.type = "Revoke"
        /\ calls[i].ans.res \notin {"Ok", "TimedOut"}
        => \A j \in 1..Len(log) : log[j].call = i => log[j].res # "Applied"

-----------------------------------------------------------------------------
(* The service implements the abstract oracle. *)

oracleHead == [k \in PcrKey |->
    IF Live(sm, k) THEN [commitment |-> sm.state[k].commitment,
                         version    |-> sm.state[k].version]
                   ELSE None]

Oracle == INSTANCE FreshnessOracle WITH head <- oracleHead, retired <- sm.retired

(* Every step of the service changes the pinned heads as the oracle allows *)
(* it: a start, an extension by one version, or a hand-over.               *)
ImplementsOracle == Oracle!OracleSpec
=============================================================================
