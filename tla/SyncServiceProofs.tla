------------------------- MODULE SyncServiceProofs --------------------------
(***************************************************************************)
(* The inductive step of SyncService, the safety theorems that follow from *)
(* it, and the refinement of FreshnessOracle.                              *)
(***************************************************************************)
EXTENDS SyncCommitProofs

-----------------------------------------------------------------------------
(* The inductive step. *)

(* What the invariant says of the log alone. *)
LogInv == /\ LogIsApplied
          /\ KeysPartition /\ FrozenAlways /\ TransitionsAuthorized
          /\ Histories
          /\ PinsBehind /\ PinsNeverFork
          /\ WritesLeaveTrace /\ AppliedOnce /\ RevocationHolds

(* A step that adds no entry keeps it. *)
LEMMA QuietKeepsLog ==
    ASSUME LogInv, Quiet
    PROVE  LogInv'
  <1>1. /\ log' = log /\ frozen' = frozen /\ origin' = origin /\ sm' = sm
        /\ \A j : StateAt(j)' = StateAt(j)
    BY QuietState, Zenon DEF Quiet
  <1>2. LogIsApplied' /\ FrozenAlways'
    BY <1>1, Zenon DEF LogInv, LogIsApplied, FrozenAlways, StateAt
  <1>3. KeysPartition' /\ Histories'
    BY <1>1, Zenon DEF LogInv, KeysPartition, Histories
  <1>4. TransitionsAuthorized' /\ PinsBehind' /\ PinsNeverFork'
    BY <1>1, Zenon DEF LogInv, TransitionsAuthorized, PinsBehind, PinsNeverFork, Effective
  <1>5. WritesLeaveTrace' /\ AppliedOnce' /\ RevocationHolds'
    BY <1>1, SMTT(20), Z3T(20) DEF LogInv, WritesLeaveTrace, AppliedOnce, RevocationHolds,
       Effective
  <1> QED BY <1>2, <1>3, <1>4, <1>5, Zenon DEF LogInv

(* A replica's view shows a control key only as it was committed. *)
LEMMA ViewFrozen ==
    ASSUME IInv, NEW n \in Node, NEW k \in PcrKey, view[n].state[k] # None
    PROVE  view[n].state[k].control_pubkey = frozen[k]
  <1>1. applied[n] \in 0..Len(log) /\ view[n] = StateAt(applied[n])
    BY Parts, Types, Zenon DEF ReplicasFollow
  <1>2. Live(StateAt(applied[n]), k)
    BY <1>1, Zenon DEF Live
  <1> QED BY <1>1, <1>2, Parts, Zenon DEF FrozenAlways

(* A step of a call keeps the invariant. *)
LEMMA CallStepKeeps ==
    ASSUME IInv, NEW i \in Call, CallStep(i)
    PROVE  LogInv' /\ ReplicasFollow' /\ LinksVerified' /\ EntriesAreRequests'
  <1>1. TypeOK /\ CallsOK /\ CallShape(i) /\ Serving
    BY CallSteps, Parts, Zenon
  <1>2. LogInv'
    BY <1>1, QuietKeepsLog, Parts, Zenon DEF LogInv, Serving, Quiet
  <1>3. ReplicasFollow'
    <2>1. UNCHANGED <<log, view, applied, building, snap>>
      BY <1>1, Zenon DEF Serving, nodeVars
    <2> QED BY <2>1, Parts, Zenon DEF ReplicasFollow, StateAt
  <1>4. frozen' = frozen /\ log' = log /\ LinksVerified /\ EntriesAreRequests
    BY <1>1, Parts, Zenon DEF Serving
  <1> DEFINE new == [op |-> OpOf(calls[i].req), call |-> i, try |-> calls[i].tries]
  <1>5. /\ \A h \in Call : h # i => calls'[h] = calls[h]
        /\ calls'[i].pc # "idle"
        /\ calls[i].pc # "idle" => calls'[i].req = calls[i].req
        /\ pending' = pending \/ pending' = pending \cup {new}
        /\ new \in pending' => \/ new \in pending
                               \/ /\ calls[i].pc # "idle" /\ calls[i].req.type \in Writes
                                  /\ calls[i].req.type = "Transition" =>
                                        /\ calls[i].pc = "verify"
                                        /\ calls[i].req.link.signer = calls[i].val
    BY <1>1, Zenon DEF CallShape
  <1>6. CallOK(calls[i])
    BY <1>1, Zenon DEF CallsOK
  <1>7. LinksVerified'
    <2>1. ASSUME NEW h \in Call, calls'[h].pc = "verify"
          PROVE  calls'[h].val = frozen[calls'[h].req.link.from]
      <3>1. CASE h = i
        <4>1. PICK n \in Node : /\ view[n].state[calls[i].req.link.from] # None
                                /\ calls'[i].val =
                                       view[n].state[calls[i].req.link.from].control_pubkey
          BY <1>1, <2>1, <3>1, Zenon DEF CallShape
        <4>2. calls[i].pc # "idle" /\ calls[i].req.type = "Transition"
          BY <1>1, <2>1, <3>1, Zenon DEF CallShape
        <4>3. calls[i].req.link.from \in PcrKey
          BY <1>6, <4>2, RequestFields, Zenon DEF CallOK
        <4> QED BY <1>5, <3>1, <4>1, <4>2, <4>3, ViewFrozen, Zenon
      <3>2. CASE h # i
        BY <1>4, <1>5, <2>1, <3>2, Zenon DEF LinksVerified
      <3> QED BY <3>1, <3>2, Zenon
    <2>2. ASSUME NEW e \in pending', e.op.type = "Transition"
          PROVE  e.op.signer = frozen[e.op.old_key]
      <3>1. CASE e \in pending
        BY <1>4, <2>2, <3>1, Zenon DEF LinksVerified
      <3>2. CASE e \notin pending
        <4>1. e = new
          BY <1>5, <3>2, Zenon
        <4>2. calls[i].pc # "idle" /\ calls[i].req.type \in Writes
          BY <1>5, <2>2, <3>2, <4>1, Zenon
        <4>3. calls[i].req \in Request /\ e.op = OpOf(calls[i].req)
          BY <1>6, <4>1, <4>2, Zenon DEF CallOK
        <4>4. calls[i].req.type = "Transition"
          BY <2>2, <4>2, <4>3, RequestFields, Zenon
        <4>5. calls[i].pc = "verify" /\ calls[i].req.link.signer = calls[i].val
          BY <1>5, <2>2, <3>2, <4>1, <4>4, Zenon
        <4>6. calls[i].val = frozen[calls[i].req.link.from]
          BY <1>4, <4>5, Zenon DEF LinksVerified
        <4> QED BY <4>3, <4>4, <4>5, <4>6, RequestFields, Zenon
      <3> QED BY <3>1, <3>2, Zenon
    <2> QED BY <1>4, <2>1, <2>2, Zenon DEF LinksVerified
  <1>8. EntriesAreRequests'
    <2>1. ASSUME NEW h \in Call, calls[h].pc # "idle"
          PROVE  calls'[h].pc # "idle" /\ calls'[h].req = calls[h].req
      BY <1>5, <2>1, Zenon
    <2>2. ASSUME NEW e \in pending'
          PROVE  calls'[e.call].pc # "idle" /\ e.op = OpOf(calls'[e.call].req)
      <3>1. CASE e \in pending
        <4>1. e.call \in Call /\ calls[e.call].pc # "idle" /\ e.op = OpOf(calls[e.call].req)
          BY <1>1, <1>4, <3>1, Types, Zenon DEF EntriesAreRequests
        <4> QED BY <2>1, <4>1, Zenon
      <3>2. CASE e \notin pending
        <4>1. e = new /\ calls[i].pc # "idle"
          BY <1>5, <2>2, <3>2, Zenon
        <4>2. e.call = i /\ e.op = OpOf(calls[i].req)
          BY <4>1, Zenon
        <4> QED BY <1>5, <4>1, <4>2, Zenon
      <3> QED BY <3>1, <3>2, Zenon
    <2>3. ASSUME NEW j \in 1..Len(log)
          PROVE  calls'[log[j].call].pc # "idle" /\ log[j].op = OpOf(calls'[log[j].call].req)
      <3>1. log[j] \in Entry
        BY <1>1, Types, SMTT(20), Z3T(20)
      <3>2. log[j].call \in Call
        BY <3>1, Zenon DEF Entry
      <3> QED BY <1>4, <2>1, <3>2, Zenon DEF EntriesAreRequests
    <2> QED BY <1>4, <2>2, <2>3, Zenon DEF EntriesAreRequests
  <1> QED BY <1>2, <1>3, <1>7, <1>8, Zenon

(* A snapshot restores what it was taken of. *)
LEMMA SnapshotIsExact ==
    ASSUME NEW s \in StateMachine
    PROVE  Snapshot(s) = s
  BY Zenon DEF Snapshot, StateMachine

(* A step of the nodes keeps the invariant. *)
LEMMA NodeStepKeeps ==
    ASSUME IInv, NEW n \in Node,
           \/ Apply(n) \/ BuildSnapshot(n) \/ StoreSnapshot(n) \/ Restart(n)
           \/ \E m \in Node : InstallSnapshot(n, m)
    PROVE  LogInv' /\ ReplicasFollow' /\ LinksVerified' /\ EntriesAreRequests'
  <1>1. UNCHANGED <<log, pending, now, frozen, origin>>
    BY Zenon DEF Apply, BuildSnapshot, StoreSnapshot, Restart, InstallSnapshot, NodeOnly
  <1>2. LogInv'
    BY <1>1, QuietKeepsLog, Parts, Zenon DEF LogInv, Quiet
  <1>3. \A j : StateAt(j)' = StateAt(j)
    BY <1>1, QuietState, Zenon
  <1>4. /\ view \in [Node -> StateMachine] /\ applied \in [Node -> 0..Len(log)]
        /\ building \in [Node -> StoredSnapshot \cup {None}]
        /\ snap \in [Node -> StoredSnapshot \cup {None}]
        /\ log \in Seq(Entry)
    BY Parts, Types, Zenon
  <1>5. \A m \in Node : /\ view[m] = StateAt(applied[m])
                        /\ building[m] # None => building[m].data = StateAt(building[m].last)
                        /\ snap[m] # None => snap[m].data = StateAt(snap[m].last)
    BY Parts, Zenon DEF ReplicasFollow
  <1>6. ReplicasFollow'
    <2> SUFFICES ASSUME NEW m \in Node
                 PROVE  /\ view'[m] = StateAt(applied'[m])
                        /\ building'[m] # None =>
                              building'[m].data = StateAt(building'[m].last)
                        /\ snap'[m] # None => snap'[m].data = StateAt(snap'[m].last)
      BY <1>1, Zenon DEF ReplicasFollow, StateAt
    <2>a. CASE Apply(n)
      <3> DEFINE j == applied[n] + 1
      <3>1. j \in 1..Len(log) /\ j - 1 = applied[n] /\ j # 0
        BY <1>4, <2>a, SMTT(20), Z3T(20) DEF Apply
      <3>2. log[j].st = ApplyOne(StateAt(j - 1), log[j].op).st
        BY <3>1, Parts, Zenon DEF LogIsApplied
      <3>3. StateAt(j) = ApplyOne(view[n], log[j].op).st
        BY <1>5, <3>1, <3>2, Zenon DEF StateAt
      <3>4. /\ view' = [view EXCEPT ![n] = ApplyOne(view[n], log[j].op).st]
            /\ applied' = [applied EXCEPT ![n] = j]
            /\ UNCHANGED <<building, snap>>
        BY <2>a, Zenon DEF Apply
      <3> HIDE DEF j
      <3> QED BY <1>4, <1>5, <3>3, <3>4, Zenon
    <2>b. CASE BuildSnapshot(n)
      <3>1. Snapshot(view[n]) = view[n]
        BY <1>4, SnapshotIsExact, Zenon
      <3>2. /\ building' = [building EXCEPT ![n] = [last |-> applied[n], data |-> view[n]]]
            /\ UNCHANGED <<view, applied, snap>>
        BY <2>b, <3>1, Zenon DEF BuildSnapshot
      <3> QED BY <1>4, <1>5, <3>2, Zenon
    <2>c. CASE StoreSnapshot(n)
      <3>1. /\ snap' = [snap EXCEPT ![n] = building[n]]
            /\ building' = [building EXCEPT ![n] = None]
            /\ UNCHANGED <<view, applied>>
        BY <2>c, Zenon DEF StoreSnapshot
      <3> QED BY <1>4, <1>5, <3>1, Zenon
    <2>d. CASE Restart(n)
      <3>1. /\ view' = [view EXCEPT ![n] = NewMachine]
            /\ applied' = [applied EXCEPT ![n] = 0]
            /\ building' = [building EXCEPT ![n] = None]
            /\ snap' = [snap EXCEPT ![n] = None]
        BY <2>d, Zenon DEF Restart
      <3>2. StateAt(0) = NewMachine
        BY Zenon DEF StateAt
      <3> QED BY <1>4, <1>5, <3>1, <3>2, Zenon
    <2>e. ASSUME NEW w \in Node, InstallSnapshot(n, w)
          PROVE  /\ view'[m] = StateAt(applied'[m])
                 /\ building'[m] # None => building'[m].data = StateAt(building'[m].last)
                 /\ snap'[m] # None => snap'[m].data = StateAt(snap'[m].last)
      <3>1. /\ snap[w] # None
            /\ view' = [view EXCEPT ![n] = snap[w].data]
            /\ applied' = [applied EXCEPT ![n] = snap[w].last]
            /\ snap' = [snap EXCEPT ![n] = snap[w]]
            /\ UNCHANGED building
        BY <2>e, Zenon DEF InstallSnapshot
      <3> QED BY <1>4, <1>5, <3>1, Zenon
    <2> QED BY <2>a, <2>b, <2>c, <2>d, <2>e, Zenon
  (* Only a restart touches calls, and it keeps their requests. *)
  <1>7. ASSUME NEW i \in Call
        PROVE  \/ calls'[i] = calls[i]
               \/ /\ calls[i].pc # "idle"
                  /\ calls'[i].pc \in {"route", "done"} /\ calls'[i].req = calls[i].req
    <2>a. CASE Apply(n) \/ BuildSnapshot(n) \/ StoreSnapshot(n)
               \/ \E m \in Node : InstallSnapshot(n, m)
      BY <2>a, Zenon DEF Apply, BuildSnapshot, StoreSnapshot, InstallSnapshot
    <2>b. CASE Restart(n) /\ calls[i].node = n
      <3>1. calls'[i] = RouteAgain(calls[i])
        BY <2>b, Zenon DEF Restart
      <3>2. calls[i] \in CallState /\ CallOK(calls[i])
        BY Parts, Types, Zenon DEF CallsOK
      <3>3. calls[i].pc # "idle" /\ calls[i].req \in Request
        BY <2>b, <3>2, NoneIsNoNode, Zenon DEF CallOK
      <3> QED BY <3>1, <3>2, <3>3, RouteAgainType, Zenon
    <2>c. CASE Restart(n) /\ calls[i].node # n
      BY <2>c, Zenon DEF Restart
    <2> QED BY <2>a, <2>b, <2>c, Zenon
  <1>8. LinksVerified'
    BY <1>1, <1>7, Parts, Zenon DEF LinksVerified
  <1>9. EntriesAreRequests'
    <2>1. \A i \in Call : calls[i].pc # "idle" =>
              calls'[i].pc # "idle" /\ calls'[i].req = calls[i].req
      BY <1>7, Zenon
    <2>2. \A e \in pending : e.call \in Call
      BY Parts, Types, Zenon
    <2>3. \A j \in 1..Len(log) : log[j] \in Entry
      BY <1>4, SMTT(20), Z3T(20)
    <2>4. \A j \in 1..Len(log) : log[j].call \in Call
      BY <2>3, Zenon DEF Entry
    <2> QED BY <1>1, <2>1, <2>2, <2>4, Parts, Zenon DEF EntriesAreRequests
  <1> QED BY <1>2, <1>6, <1>8, <1>9, Zenon

(* The invariant holds at the start: there is no entry and no history. *)
LEMMA InvInit == Init => IInv
  <1> SUFFICES ASSUME Init PROVE IInv
    BY Zenon
  <1>1. TypeOK /\ CallsOK
    BY TypeInit, Zenon
  <1>2. Len(log) = 0 /\ sm = NewMachine /\ StateAt(0) = NewMachine
    BY Zenon DEF Init, sm, StateAt
  <1>3. \A k \in PcrKey : ~Live(NewMachine, k) /\ k \notin NewMachine.retired
    BY Zenon DEF NewMachine, Live
  <1>4. \A i \in Call : calls[i].pc = "idle"
    BY Zenon DEF Init, NoCall
  <1>5. LogIsApplied /\ TransitionsAuthorized /\ PinsBehind /\ PinsNeverFork
        /\ WritesLeaveTrace /\ AppliedOnce /\ RevocationHolds
    BY <1>2, SMTT(20), Z3T(20) DEF LogIsApplied, TransitionsAuthorized, PinsBehind,
       PinsNeverFork, WritesLeaveTrace, AppliedOnce, RevocationHolds
  <1>6. ReplicasFollow
    BY <1>2, SMTT(20), Z3T(20) DEF Init, ReplicasFollow
  <1>7. KeysPartition /\ Histories
    BY <1>2, <1>3, Zenon DEF Init, KeysPartition, Histories
  <1>8. FrozenAlways
    BY <1>2, <1>3, SMTT(20), Z3T(20) DEF FrozenAlways
  <1>9. LinksVerified /\ EntriesAreRequests
    BY <1>2, <1>4, SMTT(20), Z3T(20) DEF Init, LinksVerified, EntriesAreRequests
  <1> QED BY <1>1, <1>5, <1>6, <1>7, <1>8, <1>9, Zenon DEF IInv

(* Every step keeps the invariant. *)
LEMMA InvStep == IInv /\ [Next]_vars => IInv'
  <1> SUFFICES ASSUME IInv, [Next]_vars PROVE IInv'
    BY Zenon
  <1>1. TypeOK' /\ CallsOK'
    BY TypeStep, Parts, Zenon
  <1>2. LogInv' /\ ReplicasFollow' /\ LinksVerified' /\ EntriesAreRequests'
    <2>a. ASSUME NEW i \in Call, CallStep(i)
          PROVE  LogInv' /\ ReplicasFollow' /\ LinksVerified' /\ EntriesAreRequests'
      BY <2>a, CallStepKeeps, Zenon
    <2>b. ASSUME NEW e \in pending, Commit(e)
          PROVE  LogInv' /\ ReplicasFollow' /\ LinksVerified' /\ EntriesAreRequests'
      BY <2>b, CommitKeepsReplicas, CommitKeepsKeys, CommitKeepsFrozen, CommitKeepsPins,
         CommitKeepsTraces, Zenon DEF LogInv
    <2>c. ASSUME NEW n \in Node,
                 \/ Apply(n) \/ BuildSnapshot(n) \/ StoreSnapshot(n) \/ Restart(n)
                 \/ \E m \in Node : InstallSnapshot(n, m)
          PROVE  LogInv' /\ ReplicasFollow' /\ LinksVerified' /\ EntriesAreRequests'
      BY <2>c, NodeStepKeeps, Zenon
    <2>d. CASE Tick \/ UNCHANGED vars
      <3>1. UNCHANGED <<log, pending, view, applied, building, snap, calls, frozen, origin>>
        BY <2>d, Zenon DEF Tick, vars, nodeVars
      <3>2. LogInv'
        BY <3>1, QuietKeepsLog, Parts, Zenon DEF LogInv, Quiet
      <3>3. ReplicasFollow' /\ LinksVerified' /\ EntriesAreRequests'
        BY <3>1, Parts, Zenon DEF ReplicasFollow, LinksVerified, EntriesAreRequests, StateAt
      <3> QED BY <3>2, <3>3, Zenon
    <2> QED BY <2>a, <2>b, <2>c, <2>d, Zenon DEF Next
  <1> QED BY <1>1, <1>2, Zenon DEF IInv, LogInv

(* The inductive invariant holds of every instance. *)
THEOREM Invariant == Spec => []IInv
  BY InvInit, InvStep, PTL DEF Spec

(* No replica ever diverges from the committed log (NodeViewConsistent). *)
THEOREM ReplicasConsistent == Spec => []NodeViewConsistent
  <1>1. IInv => NodeViewConsistent
    BY Parts, Zenon DEF ReplicasFollow, NodeViewConsistent
  <1> QED BY <1>1, Invariant, PTL

(* A history is held by exactly one live key (OneHeadPerHistory). *)
THEOREM NoForkedHistory == Spec => []OneHeadPerHistory
  <1>1. IInv => OneHeadPerHistory
    <2> SUFFICES ASSUME IInv, NEW o \in PcrKey, origin[o] = o
                 PROVE  \E k \in PcrKey :
                          /\ Live(sm, k) /\ origin[k] = o
                          /\ \A l \in PcrKey : Live(sm, l) /\ origin[l] = o => l = k
      BY Zenon DEF OneHeadPerHistory
    <2>1. o # None /\ Histories
      BY NoneIsNoKey, Parts, Zenon
    <2>2. PICK k \in PcrKey : Live(sm, k) /\ origin[k] = o
      BY <2>1, Zenon DEF Histories
    <2>3. \A l \in PcrKey : Live(sm, l) /\ origin[l] = o => l = k
      BY <2>1, <2>2, Zenon DEF Histories
    <2> QED BY <2>2, <2>3, Zenon
  <1> QED BY <1>1, Invariant, PTL

(* The accepted pins of one history have increasing versions.              *)
THEOREM PinsAreLinear == Spec => []PinsNeverFork
  <1>1. IInv => PinsNeverFork
    BY Parts, Zenon
  <1> QED BY <1>1, Invariant, PTL

(* A history has one head, and its pins one order (apply).                 *)
THEOREM HistoriesAreLinear == Spec => []HistoryIsLinear
  <1>1. OneHeadPerHistory /\ PinsNeverFork => HistoryIsLinear
    BY Zenon DEF HistoryIsLinear
  <1> QED BY <1>1, NoForkedHistory, PinsAreLinear, PTL

(* A write that the router retries takes effect at most once. *)
THEOREM RetriesAreSafe == Spec => []AppliedOnce
  <1>1. IInv => AppliedOnce
    BY Parts, Zenon
  <1> QED BY <1>1, Invariant, PTL

(* A committed revocation stops its link for good. *)
THEOREM RevocationIsFinal == Spec => []RevocationHolds
  <1>1. IInv => RevocationHolds
    BY Parts, Zenon
  <1> QED BY <1>1, Invariant, PTL

(* Only the frozen control key of the old key moves its pin, although the  *)
(* link was checked against a possibly stale view.                         *)
THEOREM StaleReadsAreSafe == Spec => [](TransitionsAuthorized /\ ControlKeyFrozen)
  <1>1. IInv => TransitionsAuthorized /\ ControlKeyFrozen
    <2> SUFFICES ASSUME IInv PROVE TransitionsAuthorized /\ ControlKeyFrozen
      BY Zenon
    <2>1. Len(log) \in Nat
      BY Parts, Types, SMTT(20), Z3T(20)
    <2>2. sm = StateAt(Len(log))
      BY Zenon DEF sm
    <2> QED BY <2>1, <2>2, Parts, SMTT(20), Z3T(20) DEF FrozenAlways, ControlKeyFrozen
  <1> QED BY <1>1, Invariant, PTL

-----------------------------------------------------------------------------
(* Steps: what may happen to the heads, and the refinement. *)

(* A step that commits no entry leaves the log and the state machine as    *)
(* they were.                                                              *)
LEMMA OnlyCommitsMatter ==
    ASSUME IInv, [Next]_vars, ~\E e \in pending : Commit(e)
    PROVE  log' = log /\ sm' = sm
  <1>1. ASSUME NEW i \in Call, CallStep(i) PROVE log' = log
    BY <1>1, CallSteps, Parts, Zenon DEF Serving
  <1>2. ASSUME NEW n \in Node,
               Apply(n) \/ BuildSnapshot(n) \/ StoreSnapshot(n) \/ Restart(n)
        PROVE  log' = log
    BY <1>2, Zenon DEF Apply, BuildSnapshot, StoreSnapshot, Restart, NodeOnly
  <1>3. ASSUME NEW n \in Node, NEW m \in Node, InstallSnapshot(n, m) PROVE log' = log
    BY <1>3, Zenon DEF InstallSnapshot, NodeOnly
  <1>4. ASSUME Tick \/ UNCHANGED vars PROVE log' = log
    BY <1>4, Zenon DEF Tick, vars
  <1>5. log' = log
    BY <1>1, <1>2, <1>3, <1>4, Zenon DEF Next
  <1> QED BY <1>5, QuietState, Zenon

(* The heads of the oracle, key by key. *)
LEMMA HeadsTyped ==
    ASSUME TypeOK
    PROVE  /\ oracleHead = [k \in PcrKey |-> oracleHead[k]]
           /\ \A k \in PcrKey : Live(sm, k) =>
                 /\ oracleHead[k] = [commitment |-> sm.state[k].commitment,
                                     version |-> sm.state[k].version]
                 /\ sm.state[k].commitment \in Commitment /\ sm.state[k].version \in Nat
                 /\ oracleHead[k] # None
           /\ \A k \in PcrKey : ~Live(sm, k) => oracleHead[k] = None
  <1>1. sm.state \in [PcrKey -> KeyState \cup {None}]
    BY StateAtType, MachineFields, Zenon
  <1>2. \A k \in PcrKey : Live(sm, k) =>
            sm.state[k].commitment \in Commitment /\ sm.state[k].version \in Nat
    BY <1>1, Zenon DEF Live, KeyState
  <1>3. \A c \in Commitment, v \in Nat : [commitment |-> c, version |-> v] # None
    BY NoneIsNoHead, SMTT(20), Z3T(20)
  <1> QED BY <1>2, <1>3, Zenon DEF oracleHead

(* The heads after a commit. *)
LEMMA CommitRefines ==
    ASSUME IInv, NEW e \in pending, Commit(e)
    PROVE  Oracle!OracleNext \/ UNCHANGED <<oracleHead, sm.retired>>
  <1> DEFINE op == e.op
             res == ApplyOne(sm, op).res
             Hd(c, v) == [commitment |-> c, version |-> v]
  <1>1. op \in Op /\ sm.state \in [PcrKey -> KeyState \cup {None}]
    BY StateAtType, MachineFields, Parts, Types, Zenon
  <1>2. oracleHead' = [k \in PcrKey |-> IF Live(sm', k)
                                       THEN Hd(sm'.state[k].commitment, sm'.state[k].version)
                                       ELSE None]
    BY Zenon DEF oracleHead
  <1>3. /\ \A k \in PcrKey : Live(sm, k) =>
              /\ oracleHead[k] = Hd(sm.state[k].commitment, sm.state[k].version)
              /\ oracleHead[k].version = sm.state[k].version /\ oracleHead[k] # None
        /\ \A k \in PcrKey : ~Live(sm, k) => oracleHead[k] = None
        /\ DOMAIN oracleHead = PcrKey /\ oracleHead = [k \in PcrKey |-> oracleHead[k]]
    BY HeadsTyped, Parts, Zenon DEF oracleHead
  <1>4. \A c, v : [commitment |-> c, version |-> v] = Hd(c, v)
    BY Zenon
  <1> HIDE DEF Hd
  <1>a. CASE HeadStarts(op, res)
    <2> DEFINE new == [commitment |-> op.commitment, version |-> 0,
                       control_pubkey |-> op.control_pubkey]
    <2>1. /\ op.key \in PcrKey /\ op.commitment \in Commitment /\ new \in KeyState
          /\ ~Live(sm, op.key) /\ op.key \notin sm.retired
      BY <1>1, <1>a, OpFields, Zenon DEF HeadStarts, KeyState
    <2>2. new # None /\ new.commitment = op.commitment /\ new.version = 0
      BY <2>1, NoneIsNoKeyState, Zenon
    <2>3. sm'.state = [sm.state EXCEPT ![op.key] = new] /\ sm'.retired = sm.retired
      BY <1>a, Zenon DEF HeadStarts
    <2> HIDE DEF new
    <2>4. \A k \in PcrKey : oracleHead'[k] = IF k = op.key THEN Hd(op.commitment, 0)
                                                         ELSE oracleHead[k]
      BY <1>1, <1>2, <1>3, <2>1, <2>2, <2>3, SMTT(20), Z3T(20) DEF Live
    <2>5. oracleHead' = [oracleHead EXCEPT ![op.key] = Hd(op.commitment, 0)]
      BY <1>2, <1>3, <2>4, SMTT(20), Z3T(20)
    <2>6. Oracle!Start(op.key, op.commitment)
      BY <1>3, <1>4, <2>1, <2>3, <2>5, Zenon DEF Oracle!Start, Oracle!Fresh
    <2> QED BY <2>1, <2>6, Zenon DEF Oracle!OracleNext
  <1>b. CASE HeadExtends(op, res)
    <2> DEFINE v == op.expected_version
               new == [commitment |-> op.commitment, version |-> v + 1,
                       control_pubkey |-> sm.state[op.key].control_pubkey]
    <2>1. /\ op.key \in PcrKey /\ op.commitment \in Commitment /\ v \in Nat
          /\ Live(sm, op.key) /\ sm.state[op.key].version = v
      BY <1>1, <1>b, OpFields, Zenon DEF HeadExtends
    <2>2. sm.state[op.key].control_pubkey \in Pubkey
      BY <1>1, <2>1, Zenon DEF Live, KeyState
    <2>3. new \in KeyState
      BY <2>1, <2>2, SMTT(20), Z3T(20) DEF KeyState
    <2>4. new # None /\ new.commitment = op.commitment /\ new.version = v + 1
      BY <2>3, NoneIsNoKeyState, Zenon
    <2>5. sm'.state = [sm.state EXCEPT ![op.key] = new] /\ sm'.retired = sm.retired
      BY <1>b, Zenon DEF HeadExtends
    <2> HIDE DEF new
    <2>6. \A k \in PcrKey : oracleHead'[k] = IF k = op.key THEN Hd(op.commitment, v + 1)
                                                         ELSE oracleHead[k]
      BY <1>1, <1>2, <1>3, <2>1, <2>4, <2>5, SMTT(20), Z3T(20) DEF Live
    <2>7. oracleHead' = [oracleHead EXCEPT ![op.key] = Hd(op.commitment, v + 1)]
      BY <1>2, <1>3, <2>6, SMTT(20), Z3T(20)
    <2>8. oracleHead[op.key].version = v /\ oracleHead[op.key] # None
      BY <1>3, <2>1, Zenon
    <2>9. Oracle!Extend(op.key, op.commitment)
      BY <1>4, <2>1, <2>5, <2>7, <2>8, Zenon DEF Oracle!Extend
    <2> QED BY <2>1, <2>9, Zenon DEF Oracle!OracleNext
  <1>c. CASE HeadMoves(op, res)
    <2> DEFINE old == op.old_key
               to == op.new_key
               new == [commitment |-> sm.state[old].commitment,
                       version |-> sm.state[old].version,
                       control_pubkey |-> op.new_control_pubkey]
    <2>1. /\ old \in PcrKey /\ to \in PcrKey /\ op.new_control_pubkey \in Pubkey
          /\ old # to /\ Live(sm, old) /\ ~Live(sm, to) /\ to \notin sm.retired
      BY <1>1, <1>c, OpFields, Zenon DEF HeadMoves
    <2>2. sm.state[old] \in KeyState
      BY <1>1, <2>1, Zenon DEF Live
    <2>3. new \in KeyState
      BY <2>1, <2>2, Zenon DEF KeyState
    <2>4. /\ new # None /\ new.commitment = sm.state[old].commitment
          /\ new.version = sm.state[old].version
      BY <2>3, NoneIsNoKeyState, Zenon
    <2>5. /\ sm'.state = [sm.state EXCEPT ![old] = None, ![to] = new]
          /\ sm'.retired = sm.retired \cup {old}
      BY <1>c, Zenon DEF HeadMoves
    <2> HIDE DEF new, old, to
    <2>6. \A k \in PcrKey : oracleHead'[k] = IF k = to THEN oracleHead[old]
                                             ELSE IF k = old THEN None ELSE oracleHead[k]
      BY <1>1, <1>2, <1>3, <2>1, <2>4, <2>5, SMTT(20), Z3T(20) DEF Live
    <2>7. oracleHead' = [oracleHead EXCEPT ![old] = None, ![to] = oracleHead[old]]
      BY <1>2, <1>3, <2>1, <2>6, SMTT(20), Z3T(20)
    <2>8. Oracle!HandOver(old, to)
      BY <1>3, <2>1, <2>5, <2>7, Zenon DEF Oracle!HandOver, Oracle!Fresh
    <2> QED BY <2>1, <2>8, Zenon DEF Oracle!OracleNext
  <1>d. CASE HeadStays(op, res)
    <2>1. sm'.state = sm.state /\ sm'.retired = sm.retired
      BY <1>d, Zenon DEF HeadStays
    <2> QED BY <2>1, Zenon DEF oracleHead, Live
  <1> QED BY <1>a, <1>b, <1>c, <1>d, CommitEffects, Parts, Zenon

(* The replicated service implements the abstract oracle: every step of    *)
(* the log starts a history, extends one by one version, hands one over    *)
(* unchanged, or leaves the heads alone (ImplementsOracle).                *)
THEOREM Refinement == Spec => ImplementsOracle
  <1>1. Init => Oracle!OracleInit
    <2> SUFFICES ASSUME Init PROVE Oracle!OracleInit
      BY Zenon
    <2>1. sm = NewMachine
      BY Zenon DEF Init, sm, StateAt
    <2> QED BY <2>1, Zenon DEF Oracle!OracleInit, oracleHead, NewMachine, Live
  <1>2. IInv /\ [Next]_vars => [Oracle!OracleNext]_<<oracleHead, sm.retired>>
    <2> SUFFICES ASSUME IInv, [Next]_vars
                 PROVE  Oracle!OracleNext \/ UNCHANGED <<oracleHead, sm.retired>>
      BY Zenon
    <2>1. CASE \E e \in pending : Commit(e)
      BY <2>1, CommitRefines, Zenon
    <2>2. CASE ~\E e \in pending : Commit(e)
      <3>1. sm' = sm
        BY <2>2, OnlyCommitsMatter, Zenon
      <3> QED BY <3>1, Zenon DEF oracleHead
    <2> QED BY <2>1, <2>2, Zenon
  <1> QED BY <1>1, <1>2, Invariant, PTL DEF Spec, ImplementsOracle, Oracle!OracleSpec

(* Writing the heads at one key, or at two, as a register, a pin and a move do, *)
(* leaves the head of every other key as it was.                              *)
LEMMA OtherHeadsStay ==
    ASSUME NEW S, NEW f, f = [x \in S |-> f[x]], NEW k \in S, NEW a, NEW b, NEW v, NEW w
    PROVE  /\ k # a => [f EXCEPT ![a] = v][k] = f[k]
           /\ k # a /\ k # b => [f EXCEPT ![a] = v, ![b] = w][k] = f[k]
  BY Zenon

(* Retired keys stay retired, and a live key leaves the live set only into *)
(* the retired set (RetirementIsFinal).                                    *)
THEOREM NoKeyComesBack == Spec => RetirementIsFinal
  <1> DEFINE Kept(k) == /\ k \in sm.retired => k \in sm'.retired /\ ~Live(sm', k)
                        /\ Live(sm, k) =>
                              \/ k \in sm'.retired
                              \/ Live(sm', k) /\ sm.state[k].version <= sm'.state[k].version
  <1>1. IInv /\ [Next]_vars => [KeysMoveOn]_vars
    <2> SUFFICES ASSUME IInv, [Next]_vars, NEW k \in PcrKey PROVE Kept(k)
      BY Zenon DEF KeysMoveOn
    <2>1. /\ KeysPartition /\ KeysPartition'
          /\ \A l \in PcrKey : Live(sm, l) => sm.state[l].version \in Nat
      BY InvStep, HeadsTyped, Zenon DEF IInv
    <2>2. CASE sm' = sm
      BY <2>1, <2>2, SMTT(20), Z3T(20) DEF KeysPartition, Live
    <2>3. ASSUME NEW e \in pending, Commit(e) PROVE Kept(k)
      <3> DEFINE op == e.op
                 res == ApplyOne(sm, op).res
      <3>1. op \in Op /\ sm.state \in [PcrKey -> KeyState \cup {None}]
        BY StateAtType, MachineFields, Parts, Types, Zenon
      <3>2. sm.retired \subseteq sm'.retired
        BY <2>3, CommitEffects, Parts, ZenonT(30) DEF HeadStarts, HeadExtends, HeadMoves,
             HeadStays
      <3>3. k \in sm.retired => k \in sm'.retired /\ ~Live(sm', k)
        BY <2>1, <3>2, ZenonT(30) DEF KeysPartition
      <3>5. sm.state = [x \in PcrKey |-> sm.state[x]]
        BY <3>1, Zenon
      <3>4. ASSUME Live(sm, k), k \notin sm'.retired
            PROVE  Live(sm', k) /\ sm.state[k].version <= sm'.state[k].version
        <4>a. CASE HeadStarts(op, res)
          <5>1. op.key \in PcrKey /\ k # op.key
            BY <3>1, <3>4, <4>a, OpFields, Zenon DEF HeadStarts
          <5> DEFINE new == [commitment |-> op.commitment, version |-> 0,
                             control_pubkey |-> op.control_pubkey]
          <5>w. sm'.state = [sm.state EXCEPT ![op.key] = new]
            BY <4>a, Zenon DEF HeadStarts
          <5> HIDE DEF op, res, new
          <5>2. sm'.state[k] = sm.state[k]
            BY <3>5, <5>1, <5>w, OtherHeadsStay, Zenon
          <5>3. Live(sm', k) /\ sm'.state[k].version = sm.state[k].version
            BY <3>4, <5>2, Zenon DEF Live
          <5> QED BY <2>1, <3>4, <5>3, SMTT(20), Z3T(20)
        <4>b. CASE HeadExtends(op, res)
          <5>1. /\ op.key \in PcrKey /\ op.expected_version \in Nat
                /\ op.commitment \in Commitment
                /\ sm.state[op.key].version = op.expected_version
            BY <3>1, <4>b, OpFields, Zenon DEF HeadExtends
          <5> DEFINE new == [commitment |-> op.commitment,
                             version |-> op.expected_version + 1,
                             control_pubkey |-> sm.state[op.key].control_pubkey]
          <5>2. sm'.state = [sm.state EXCEPT ![op.key] = new]
            BY <4>b, Zenon DEF HeadExtends
          <5>3. CASE k = op.key
            <6>1. sm.state[k].control_pubkey \in Pubkey
              BY <3>1, <3>4, Zenon DEF Live, KeyState
            <6>2. new \in KeyState /\ new.version = op.expected_version + 1
              BY <5>1, <5>3, <6>1, SMTT(20), Z3T(20) DEF KeyState
            <6>3. new # None
              BY <6>2, NoneIsNoKeyState, Zenon
            <6>4. sm'.state[k] = new
              BY <3>1, <5>2, <5>3, Zenon
            <6> HIDE DEF new, op
            <6>5. Live(sm', k) /\ sm'.state[k].version = op.expected_version + 1
              BY <6>2, <6>3, <6>4, Zenon DEF Live
            <6>6. sm.state[k].version = op.expected_version
              BY <5>1, <5>3, Zenon
            <6> QED BY <5>1, <6>5, <6>6, SMTT(20), Z3T(20)
          <5>4. CASE k # op.key
            BY <2>1, <3>1, <3>4, <5>2, <5>4, SMTT(20), Z3T(20) DEF Live
          <5> QED BY <5>3, <5>4, Zenon
        <4>c. CASE HeadMoves(op, res)
          <5>1. op.old_key \in PcrKey /\ op.new_key \in PcrKey
                /\ k # op.old_key /\ k # op.new_key
            BY <3>1, <3>4, <4>c, OpFields, Zenon DEF HeadMoves
          <5> DEFINE moved == [commitment |-> sm.state[op.old_key].commitment,
                               version |-> sm.state[op.old_key].version,
                               control_pubkey |-> op.new_control_pubkey]
          <5>w. sm'.state = [sm.state EXCEPT ![op.old_key] = None, ![op.new_key] = moved]
            BY <4>c, Zenon DEF HeadMoves
          <5> HIDE DEF op, res, moved
          <5>2. sm'.state[k] = sm.state[k]
            BY <3>5, <5>1, <5>w, OtherHeadsStay, Zenon
          <5>3. Live(sm', k) /\ sm'.state[k].version = sm.state[k].version
            BY <3>4, <5>2, Zenon DEF Live
          <5> QED BY <2>1, <3>4, <5>3, SMTT(20), Z3T(20)
        <4>d. CASE HeadStays(op, res)
          BY <2>1, <3>4, <4>d, SMTT(20), Z3T(20) DEF HeadStays, Live
        <4> QED BY <2>3, <4>a, <4>b, <4>c, <4>d, CommitEffects, Parts, ZenonT(30)
      <3> QED BY <3>3, <3>4, Zenon
    <2> QED BY <2>2, <2>3, OnlyCommitsMatter, Zenon
  <1> QED BY <1>1, Invariant, PTL DEF Spec, RetirementIsFinal
-----------------------------------------------------------------------------
(* Answers: what a call was told, against the log. *)

(* What a step of call i may tell it.  It is invoked and remembers the     *)
(* pinned state of its key; or it goes on with the same request, arriving  *)
(* at a read only through the read index; or it is answered: by a failure, *)
(* from the view of a node past the read index, or from the result of its  *)
(* own entry.                                                              *)
AnswerShape(i) ==
    LET c == calls[i]
        d == calls'[i]
        ks == view[c.node].state[c.req.key] IN
    \/ /\ c.pc = "idle" /\ d.pc = "route" /\ d.req \in Request
       /\ d.req.type = "Get" => d.before = sm.state[d.req.session]
    \/ /\ c.pc # "idle" /\ d.req = c.req /\ d.before = c.before
       /\ \/ d.pc \in {"route", "verify", "wait"}
          \/ /\ d.pc = "read" /\ c.req.type = "Get" /\ c.req.key = c.req.session
             /\ d.val = Len(log)
          \/ d.pc = "done" /\ d.ans.res \notin {"Ok", "NotFound"}
          \/ /\ c.pc = "read" /\ d.pc = "done"
             /\ applied[c.node] >= c.val
             /\ d.ans.res = IF ks = None THEN "NotFound" ELSE "Ok"
             /\ d.ans.got = ks
          \/ /\ c.pc = "wait" /\ d.pc = "done"
             /\ \E j \in 1..applied[c.node] :
                   log[j].call = i /\ d.ans.res = WriteAnswer(c.req.type, log[j].res)

(* An answered call keeps its request, and has the answer. *)
LEMMA AnsweredFields ==
    ASSUME NEW c \in CallState, NEW a
    PROVE  LET d == Answered(c, a) IN
           d.pc = "done" /\ d.req = c.req /\ d.before = c.before /\ d.ans = a
  BY Zenon DEF Answered, CallState

(* A step within a handler keeps the request and what was remembered. *)
LEMMA StepFields ==
    ASSUME NEW c \in CallState, NEW pc, NEW n, NEW v
    PROVE  LET d == [c EXCEPT !.pc = pc, !.node = n, !.val = v] IN
           d.pc = pc /\ d.req = c.req /\ d.before = c.before /\ d.val = v
  BY Zenon DEF CallState

(* The router's next attempt keeps them too; giving up is no verdict. *)
LEMMA RouteAgainFields ==
    ASSUME NEW c \in CallState
    PROVE  LET d == RouteAgain(c) IN
           /\ d.req = c.req /\ d.before = c.before
           /\ d.pc = "route" \/ (d.pc = "done" /\ d.ans.res = "Unavailable")
  <1>1. CASE c.tries < MaxTries
    BY <1>1, Zenon DEF RouteAgain, CallState
  <1>2. CASE ~(c.tries < MaxTries)
    BY <1>2, AnsweredFields, SMTT(20), Z3T(20) DEF RouteAgain, Got
  <1> QED BY <1>1, <1>2, Zenon

(* Every step of a call has this shape. *)
LEMMA CallAnswers ==
    ASSUME TypeOK, CallsOK, NEW i \in Call, CallStep(i)
    PROVE  AnswerShape(i)
  <1> DEFINE c == calls[i]
  <1>1. c \in CallState /\ CallOK(c) /\ DOMAIN calls = Call
    BY Types, Zenon DEF CallsOK
  <1>2. ASSUME NEW a, Answer(i, a) PROVE
        /\ calls'[i].pc = "done" /\ calls'[i].req = c.req
        /\ calls'[i].before = c.before /\ calls'[i].ans = a
    <2>1. calls'[i] = Answered(c, a)
      BY <1>1, <1>2, Zenon DEF Answer
    <2> HIDE DEF c
    <2> QED BY <1>1, <2>1, AnsweredFields, SMTT(20), Z3T(20)
  <1>3. ASSUME NEW pc, NEW n, NEW v, Step(i, pc, n, v) PROVE
        /\ calls'[i].pc = pc /\ calls'[i].req = c.req
        /\ calls'[i].before = c.before /\ calls'[i].val = v
    <2>1. calls'[i] = [c EXCEPT !.pc = pc, !.node = n, !.val = v]
      BY <1>1, <1>3, Zenon DEF Step
    <2> HIDE DEF c
    <2> QED BY <1>1, <2>1, StepFields, SMTT(20), Z3T(20)
  <1>4. ASSUME NEW res, res \notin {"Ok", "NotFound"}, Reply(i, res), c.pc # "idle"
        PROVE  AnswerShape(i)
    <2>1. Got(res, None).res = res
      BY Zenon DEF Got
    <2> QED BY <1>2, <1>4, <2>1, Zenon DEF Reply, AnswerShape
  <1>5. ASSUME NEW n, Propose(i, n), c.pc # "idle" PROVE AnswerShape(i)
    BY <1>3, <1>5, Zenon DEF Propose, AnswerShape
  <1>a. ASSUME NEW q \in Request, Invoke(i, q) PROVE AnswerShape(i)
    <2> DEFINE b == IF q.type = "Get" THEN sm.state[q.session] ELSE None
               d == [c EXCEPT !.pc = "route", !.tries = 1, !.req = q, !.before = b]
    <2>1. c.pc = "idle" /\ calls'[i] = d
      BY <1>1, <1>a, Zenon DEF Invoke, At
    <2>2. d.pc = "route" /\ d.req = q /\ d.before = b
      <3> HIDE DEF c, b
      <3> QED BY <1>1, Zenon DEF CallState
    <2>3. q.type = "Get" => b = sm.state[q.session]
      BY Zenon
    <2> HIDE DEF d, b
    <2> QED BY <2>1, <2>2, <2>3, Zenon DEF AnswerShape
  <1>b. CASE Unauthorized(i)
    BY <1>b, <1>4, Zenon DEF Unauthorized, At
  <1>c. ASSUME NEW n \in Node, HandleWrite(i, n) PROVE AnswerShape(i)
    BY <1>c, <1>5, Zenon DEF HandleWrite, At
  <1>d. ASSUME NEW n \in Node, HandleRevoke(i, n) PROVE AnswerShape(i)
    <2>1. c.pc # "idle" /\ (Propose(i, n) \/ Reply(i, "RevocationRejected"))
      BY <1>d, Zenon DEF HandleRevoke, At
    <2> QED BY <1>4, <1>5, <2>1, Zenon
  <1>e. ASSUME NEW n \in Node, TransitionLookup(i, n) PROVE AnswerShape(i)
    <2>1. /\ c.pc # "idle"
          /\ (\E v : Step(i, "verify", n, v)) \/ Reply(i, "TransitionRejected")
      BY <1>e, Zenon DEF TransitionLookup, At
    <2>2. ASSUME NEW v, Step(i, "verify", n, v) PROVE AnswerShape(i)
      BY <1>3, <2>1, <2>2, Zenon DEF AnswerShape
    <2> QED BY <1>4, <2>1, <2>2, Zenon
  <1>f. CASE TransitionVerify(i)
    <2>1. c.pc # "idle" /\ (Propose(i, c.node) \/ Reply(i, "TransitionRejected"))
      BY <1>f, Zenon DEF TransitionVerify, At
    <2> QED BY <1>4, <1>5, <2>1, Zenon
  <1>g. ASSUME NEW n \in Node, LinearizableGet(i, n) PROVE AnswerShape(i)
    <2>1. /\ c.pc # "idle" /\ c.req.type = "Get" /\ c.req.key = c.req.session
          /\ Step(i, "read", n, Len(log))
      BY <1>g, Zenon DEF LinearizableGet, At
    <2> QED BY <1>3, <2>1, Zenon DEF AnswerShape
  <1>h. CASE GetAnswer(i)
    <2> DEFINE ks == view[c.node].state[c.req.key]
               r == IF ks = None THEN "NotFound" ELSE "Ok"
    <2>1. c.pc = "read" /\ applied[c.node] >= c.val /\ Answer(i, Got(r, ks))
      BY <1>h, Zenon DEF GetAnswer, At
    <2>2. Got(r, ks).res = r /\ Got(r, ks).got = ks
      BY Zenon DEF Got
    <2>3. c.pc # "idle"
      BY <2>1, Zenon
    <2> QED BY <1>2, <2>1, <2>2, <2>3, Zenon DEF AnswerShape
  <1>i. CASE WriteApplied(i)
    <2>1. PICK j \in 1..applied[c.node] :
              log[j].call = i /\ Answer(i, Got(WriteAnswer(c.req.type, log[j].res), None))
      BY <1>i, Zenon DEF WriteApplied, Reply
    <2>2. \A r : Got(r, None).res = r
      BY Zenon DEF Got
    <2>3. c.pc = "wait" /\ c.pc # "idle"
      BY <1>i, Zenon DEF WriteApplied, At
    <2> QED BY <1>2, <2>1, <2>2, <2>3, SMTT(20), Z3T(20) DEF AnswerShape
  <1>j. CASE Transient(i)
    <2>1. c.pc # "idle" /\ calls'[i] = RouteAgain(c)
      BY <1>1, <1>j, Zenon DEF Transient
    <2>2. /\ calls'[i].req = c.req /\ calls'[i].before = c.before
          /\ \/ calls'[i].pc = "route"
             \/ calls'[i].pc = "done" /\ calls'[i].ans.res = "Unavailable"
      <3> HIDE DEF c
      <3> QED BY <1>1, <2>1, RouteAgainFields, Zenon
    <2> QED BY <2>1, <2>2, Zenon DEF AnswerShape
  <1>k. CASE DeadlineElapsed(i)
    BY <1>k, <1>4, Zenon DEF DeadlineElapsed
  <1> QED BY <1>a, <1>b, <1>c, <1>d, <1>e, <1>f, <1>g, <1>h, <1>i, <1>j, <1>k, Zenon DEF CallStep

(* Whatever a step does, a call either keeps its record or is told what    *)
(* AnswerShape allows, and then the log stays as it is: a restart of the   *)
(* node that served it only sends it back to the router.                   *)
LEMMA StepAnswers ==
    ASSUME IInv, [Next]_vars, NEW i \in Call
    PROVE  calls'[i] = calls[i] \/ (AnswerShape(i) /\ log' = log)
  <1>1. TypeOK /\ CallsOK
    BY Parts, Zenon
  <1>a. ASSUME NEW h \in Call, CallStep(h)
        PROVE  calls'[i] = calls[i] \/ (AnswerShape(i) /\ log' = log)
    <2>1. CallShape(h) /\ Serving /\ AnswerShape(h)
      BY <1>1, <1>a, CallSteps, CallAnswers, Zenon
    <2>2. log' = log
      BY <2>1, Zenon DEF Serving
    <2>3. h # i => calls'[i] = calls[i]
      BY <2>1, Zenon DEF CallShape
    <2> QED BY <2>1, <2>2, <2>3, Zenon
  <1>b. ASSUME NEW e \in pending, Commit(e) PROVE calls'[i] = calls[i]
    BY <1>b, Zenon DEF Commit
  <1>c. ASSUME NEW n \in Node, Apply(n) \/ BuildSnapshot(n) \/ StoreSnapshot(n)
        PROVE  calls'[i] = calls[i]
    BY <1>c, Zenon DEF Apply, BuildSnapshot, StoreSnapshot
  <1>d. ASSUME NEW n \in Node, Restart(n)
        PROVE  calls'[i] = calls[i] \/ (AnswerShape(i) /\ log' = log)
    <2>1. CASE calls[i].node = n
      <3>1. calls'[i] = RouteAgain(calls[i]) /\ log' = log
        BY <1>d, <2>1, Zenon DEF Restart, NodeOnly
      <3>2. calls[i] \in CallState /\ CallOK(calls[i])
        BY <1>1, Types, Zenon DEF CallsOK
      <3>3. calls[i].pc # "idle"
        BY <2>1, <3>2, NoneIsNoNode, Zenon DEF CallOK
      <3>4. /\ calls'[i].req = calls[i].req /\ calls'[i].before = calls[i].before
            /\ \/ calls'[i].pc = "route"
               \/ calls'[i].pc = "done" /\ calls'[i].ans.res = "Unavailable"
        BY <3>1, <3>2, RouteAgainFields, Zenon
      <3> QED BY <3>1, <3>3, <3>4, Zenon DEF AnswerShape
    <2>2. CASE calls[i].node # n
      BY <1>d, <2>2, Zenon DEF Restart
    <2> QED BY <2>1, <2>2, Zenon
  <1>e. ASSUME NEW n \in Node, NEW m \in Node, InstallSnapshot(n, m)
        PROVE  calls'[i] = calls[i]
    BY <1>e, Zenon DEF InstallSnapshot
  <1>f. CASE Tick \/ UNCHANGED vars
    BY <1>f, Zenon DEF Tick, vars
  <1> QED BY <1>a, <1>b, <1>c, <1>d, <1>e, <1>f, Zenon DEF Next

(* Entries and the states they leave stay in the log. *)
LEMMA LogPersists ==
    ASSUME IInv, [Next]_vars
    PROVE  /\ Len(log) \in Nat /\ Len(log') \in Nat /\ Len(log) <= Len(log')
           /\ \A j \in 1..Len(log) : log'[j] = log[j]
  <1>1. Len(log) \in Nat
    BY Parts, Types, SMTT(20), Z3T(20)
  <1>2. CASE \E e \in pending : Commit(e)
    <2>1. PICK e \in pending : Commit(e)
      BY <1>2, Zenon
    <2>2. Len(log') = Len(log) + 1 /\ \A j \in 1..Len(log) : log'[j] = log[j]
      BY <2>1, CommitAppends, Parts, Zenon
    <2> QED BY <1>1, <2>2, SMTT(20), Z3T(20)
  <1>3. CASE ~\E e \in pending : Commit(e)
    <2>1. log' = log
      BY <1>3, OnlyCommitsMatter, Zenon
    <2> QED BY <1>1, <2>1, SMTT(20), Z3T(20)
  <1> QED BY <1>2, <1>3, Zenon

(* Only an applied entry is answered Ok: no error maps to it. *)
LEMMA OkMeansApplied ==
    ASSUME NEW type, NEW res \in Verdict, WriteAnswer(type, res) = "Ok"
    PROVE  res = "Applied"
  BY Zenon DEF WriteAnswer, RpcError, Verdict

(* A write that was answered Ok is in the log and took effect, for any     *)
(* number of calls, retries and restarts (AckedIsCommitted).               *)
THEOREM AcksAreCommitted == Spec => []AckedIsCommitted
  <1>1. Init => AckedIsCommitted
    BY SMTT(20), Z3T(20) DEF Init, NoCall, AckedIsCommitted
  <1>2. IInv /\ AckedIsCommitted /\ [Next]_vars => AckedIsCommitted'
    <2> SUFFICES ASSUME IInv, AckedIsCommitted, [Next]_vars, NEW i \in Call,
                        calls'[i].pc = "done", calls'[i].ans.res = "Ok",
                        calls'[i].req.type # "Get"
                 PROVE  \E j \in 1..Len(log') : log'[j].call = i /\ log'[j].res = "Applied"
      BY Zenon DEF AckedIsCommitted
    <2>1. \E j \in 1..Len(log) : log[j].call = i /\ log[j].res = "Applied"
      <3>1. CASE calls'[i] = calls[i]
        BY <3>1, Zenon DEF AckedIsCommitted
      <3>2. CASE AnswerShape(i)
        <4>1. calls'[i].pc \notin {"route", "verify", "wait", "read"}
          BY Zenon
        <4>2. CallOK(calls[i])
          BY Parts, Zenon DEF CallsOK
        <4>3. CASE calls[i].pc = "read"
          <5>1. calls[i].req.type = "Get" /\ calls[i].pc # "idle"
            BY <4>2, <4>3, Zenon DEF CallOK
          <5> QED BY <3>2, <4>1, <4>3, <5>1, Zenon DEF AnswerShape
        <4>4. CASE calls[i].pc # "read"
          <5>1. /\ calls[i].pc = "wait"
                /\ \E j \in 1..applied[calls[i].node] :
                      /\ log[j].call = i
                      /\ WriteAnswer(calls[i].req.type, log[j].res) = "Ok"
            BY <3>2, <4>1, <4>4, Zenon DEF AnswerShape
          <5>2. PICK j \in 1..applied[calls[i].node] :
                    /\ log[j].call = i
                    /\ WriteAnswer(calls[i].req.type, log[j].res) = "Ok"
            BY <5>1, Zenon
          <5>3. calls[i].node \in Node
            BY <4>2, <5>1, Zenon DEF CallOK
          <5>4. applied[calls[i].node] \in 0..Len(log) /\ Len(log) \in Nat
            BY <5>3, Parts, Types, SMTT(20), Z3T(20)
          <5>5. j \in 1..Len(log)
            BY <5>2, <5>4, SMTT(20), Z3T(20)
          <5>6. log[j] \in Entry
            BY <5>5, Parts, Types, SMTT(20), Z3T(20)
          <5>7. log[j].res \in Verdict
            BY <5>6, Zenon DEF Entry
          <5> QED BY <5>2, <5>5, <5>7, OkMeansApplied, Zenon
        <4> QED BY <4>3, <4>4, Zenon
      <3> QED BY <3>1, <3>2, StepAnswers, Zenon
    <2>2. PICK j \in 1..Len(log) : log[j].call = i /\ log[j].res = "Applied"
      BY <2>1, Zenon
    <2>3. j \in 1..Len(log') /\ log'[j] = log[j]
      BY LogPersists, SMTT(20), Z3T(20)
    <2> QED BY <2>2, <2>3, Zenon
  <1> QED BY <1>1, <1>2, Invariant, PTL DEF Spec

-----------------------------------------------------------------------------
(* Reads: a Get against the state its key had when it was invoked. *)

(* In state s, key k has gone on from b or stayed at it. *)
NotOlder(s, k, b) ==
    IF Live(s, k) THEN s.state[k].version > b.version \/ s.state[k] = b
                  ELSE k \in s.retired

(* Where a read stands: since its invocation its key has only moved on,    *)
(* and once it holds a read index, so it has in every state of the log     *)
(* from that index on, which is where a node may answer from.              *)
ReadIsAhead(i) ==
    LET c == calls[i] IN
    /\ c.pc # "idle" /\ c.req.type = "Get" /\ c.before # None =>
          NotOlder(sm, c.req.session, c.before)
    /\ c.pc = "read" =>
          /\ c.req.key = c.req.session /\ c.val \in 0..Len(log)
          /\ c.before # None => \A j \in c.val..Len(log) :
                NotOlder(StateAt(j), c.req.session, c.before)

(* What was retired at some point of the log is retired now. *)
RetiredStays == \A j \in 0..Len(log) : StateAt(j).retired \subseteq sm.retired

ReadInv == RetiredStays /\ (\A i \in Call : ReadIsAhead(i)) /\ GetIsFresh

(* A commit moves no key back: a head is extended by one version, handed   *)
(* over and retired, or left alone.                                        *)
LEMMA CommitMovesOn ==
    ASSUME IInv, NEW e \in pending, Commit(e), NEW k \in PcrKey, NEW b \in KeyState,
           NotOlder(sm, k, b)
    PROVE  NotOlder(sm', k, b)
  <1> DEFINE op == e.op
             res == ApplyOne(sm, op).res
  <1>1. op \in Op /\ sm.state \in [PcrKey -> KeyState \cup {None}]
    BY StateAtType, MachineFields, Parts, Types, Zenon
  <1>2. sm.state = [x \in PcrKey |-> sm.state[x]]
    BY <1>1, Zenon
  <1>3. KeysPartition /\ KeysPartition'
    BY InvStep, Zenon DEF IInv, Next
  <1>4. b.version \in Nat /\ (Live(sm, k) => sm.state[k].version \in Nat)
    BY <1>1, Zenon DEF KeyState, Live
  (* A head that stays where it is, in a machine that forgets no retirement. *)
  <1>5. ASSUME sm'.state[k] = sm.state[k], sm.retired \subseteq sm'.retired
        PROVE  NotOlder(sm', k, b)
    BY <1>5, Zenon DEF NotOlder, Live
  (* A retired key is not live, and stays retired. *)
  <1>6. ASSUME k \in sm'.retired PROVE NotOlder(sm', k, b)
    BY <1>3, <1>6, Zenon DEF NotOlder, KeysPartition
  <1>a. CASE HeadStarts(op, res)
    <2> DEFINE new == [commitment |-> op.commitment, version |-> 0,
                       control_pubkey |-> op.control_pubkey]
    <2>1. /\ sm'.state = [sm.state EXCEPT ![op.key] = new] /\ sm'.retired = sm.retired
          /\ ~Live(sm, op.key) /\ op.key \notin sm.retired
      BY <1>a, Zenon DEF HeadStarts
    <2> HIDE DEF op, res, new
    <2>2. k # op.key
      BY <2>1, Zenon DEF NotOlder
    <2>3. sm'.state[k] = sm.state[k]
      BY <1>2, <2>1, <2>2, OtherHeadsStay, Zenon
    <2> QED BY <1>5, <2>1, <2>3, Zenon
  <1>b. CASE HeadExtends(op, res)
    <2> DEFINE new == [commitment |-> op.commitment,
                       version |-> op.expected_version + 1,
                       control_pubkey |-> sm.state[op.key].control_pubkey]
    <2>1. /\ sm'.state = [sm.state EXCEPT ![op.key] = new] /\ sm'.retired = sm.retired
          /\ Live(sm, op.key) /\ sm.state[op.key].version = op.expected_version
      BY <1>b, Zenon DEF HeadExtends
    <2>2. new.version = op.expected_version + 1
      BY Zenon
    <2> HIDE DEF op, res, new
    <2>3. CASE k = op.key
      <3>1. sm'.state[k] = new
        BY <1>2, <2>1, <2>3, Zenon
      <3>2. sm.state[k].version = op.expected_version /\ Live(sm, k)
        BY <2>1, <2>3, Zenon
      <3>3. sm.state[k].version > b.version \/ sm.state[k] = b
        BY <3>2, Zenon DEF NotOlder
      <3>4. op.expected_version \in Nat /\ op.expected_version >= b.version
        BY <1>4, <3>2, <3>3, SMTT(20), Z3T(20)
      <3>5. sm'.state[k].version > b.version
        BY <1>4, <2>2, <3>1, <3>4, SMTT(20), Z3T(20)
      <3>6. Live(sm', k) \/ k \in sm'.retired
        <4>1. origin'[k] # None
          BY <1>3, <3>2, <1>b, Zenon DEF KeysPartition, HeadExtends
        <4> QED BY <1>3, <4>1, Zenon DEF KeysPartition
      <3> QED BY <1>6, <3>5, <3>6, Zenon DEF NotOlder
    <2>4. CASE k # op.key
      <3>1. sm'.state[k] = sm.state[k]
        BY <1>2, <2>1, <2>4, OtherHeadsStay, Zenon
      <3> QED BY <1>5, <2>1, <3>1, Zenon
    <2> QED BY <2>3, <2>4, Zenon
  <1>c. CASE HeadMoves(op, res)
    <2> DEFINE new == [commitment |-> sm.state[op.old_key].commitment,
                       version |-> sm.state[op.old_key].version,
                       control_pubkey |-> op.new_control_pubkey]
    <2>1. /\ sm'.state = [sm.state EXCEPT ![op.old_key] = None, ![op.new_key] = new]
          /\ sm'.retired = sm.retired \cup {op.old_key}
          /\ ~Live(sm, op.new_key) /\ op.new_key \notin sm.retired
      BY <1>c, Zenon DEF HeadMoves
    <2> HIDE DEF op, res, new
    <2>2. k # op.new_key
      BY <2>1, Zenon DEF NotOlder
    <2>3. CASE k = op.old_key
      BY <1>6, <2>1, <2>3, Zenon
    <2>4. CASE k # op.old_key
      <3>1. sm'.state[k] = sm.state[k]
        BY <1>2, <2>1, <2>2, <2>4, OtherHeadsStay, Zenon
      <3> QED BY <1>5, <2>1, <3>1, Zenon
    <2> QED BY <2>3, <2>4, Zenon
  <1>d. CASE HeadStays(op, res)
    <2>1. sm'.state[k] = sm.state[k] /\ sm.retired \subseteq sm'.retired
      BY <1>d, Zenon DEF HeadStays
    <2> QED BY <1>5, <2>1, Zenon
  <1> QED BY <1>a, <1>b, <1>c, <1>d, CommitEffects, Parts, ZenonT(30)

(* The states of the log stay what they were, and no step forgets a        *)
(* retirement.                                                             *)
LEMMA StatesPersist ==
    ASSUME IInv, [Next]_vars
    PROVE  /\ \A j \in 0..Len(log) : StateAt(j)' = StateAt(j)
           /\ sm.retired \subseteq sm'.retired
  <1>1. CASE \E e \in pending : Commit(e)
    <2>1. PICK e \in pending : Commit(e)
      BY <1>1, Zenon
    <2>2. \A j \in 0..Len(log) : StateAt(j)' = StateAt(j)
      BY <2>1, CommitAppends, Parts, Zenon
    <2>3. sm.retired \subseteq sm'.retired
      BY <2>1, CommitEffects, Parts, ZenonT(30) DEF HeadStarts, HeadExtends, HeadMoves, HeadStays
    <2> QED BY <2>2, <2>3, Zenon
  <1>2. CASE ~\E e \in pending : Commit(e)
    BY <1>2, OnlyCommitsMatter, QuietState, Zenon
  <1> QED BY <1>1, <1>2, Zenon

(* A commit keeps what is known of the reads under way. *)
LEMMA CommitKeepsReads ==
    ASSUME IInv, NEW e \in pending, Commit(e), NEW i \in Call, ReadIsAhead(i)
    PROVE  ReadIsAhead(i)'
  <1> DEFINE c == calls[i]
  <1>1. /\ calls' = calls /\ Len(log) \in Nat /\ Len(log') = Len(log) + 1
        /\ \A j \in 0..Len(log) : StateAt(j)' = StateAt(j)
        /\ \A j : j = Len(log) + 1 => StateAt(j)' = sm'
    BY CommitAppends, Parts, Zenon
  <1>2. c \in CallState /\ CallOK(c)
    BY Parts, Types, Zenon DEF CallsOK
  <1>3. c.before # None => c.before \in KeyState
    BY <1>2, Zenon DEF CallState
  <1>4. c.pc # "idle" => c.req.session \in PcrKey
    BY <1>2, RequestFields, Zenon DEF CallOK
  <1>5. c.pc # "idle" /\ c.req.type = "Get" /\ c.before # None =>
            NotOlder(sm', c.req.session, c.before)
    BY <1>3, <1>4, CommitMovesOn, Zenon DEF ReadIsAhead
  <1>6. ASSUME c.pc = "read"
        PROVE  /\ c.req.key = c.req.session /\ c.val \in 0..Len(log')
               /\ c.before # None => \A j \in c.val..Len(log') :
                     NotOlder(StateAt(j)', c.req.session, c.before)
    <2>1. c.req.key = c.req.session /\ c.val \in 0..Len(log) /\ c.req.type = "Get"
      BY <1>2, <1>6, Zenon DEF ReadIsAhead, CallOK
    <2>2. ASSUME c.before # None, NEW j \in c.val..Len(log')
          PROVE  NotOlder(StateAt(j)', c.req.session, c.before)
      <3>1. CASE j = Len(log) + 1
        <4>1. StateAt(j)' = sm'
          BY <1>1, <3>1, Zenon
        <4>2. NotOlder(sm', c.req.session, c.before)
          BY <1>5, <1>6, <2>1, <2>2, Zenon
        <4> QED BY <4>1, <4>2, Zenon
      <3>2. CASE j # Len(log) + 1
        <4>1. j \in c.val..Len(log) /\ j \in 0..Len(log)
          BY <1>1, <2>1, <2>2, <3>2, SMTT(20), Z3T(20)
        <4>2. NotOlder(StateAt(j), c.req.session, c.before)
          BY <1>6, <2>2, <4>1, Zenon DEF ReadIsAhead
        <4>3. StateAt(j)' = StateAt(j)
          BY <1>1, <4>1, Zenon
        <4> QED BY <4>2, <4>3, Zenon
      <3> QED BY <3>1, <3>2, Zenon
    <2>3. c.val \in 0..Len(log')
      BY <1>1, <2>1, SMTT(20), Z3T(20)
    <2> QED BY <2>1, <2>2, <2>3, Zenon
  <1>7. calls'[i] = c
    BY <1>1, Zenon
  <1> QED BY <1>5, <1>6, <1>7, Zenon DEF ReadIsAhead

(* A step of the call itself, or of another, keeps it too. *)
LEMMA CallKeepsReads ==
    ASSUME IInv, log' = log, NEW i \in Call, ReadIsAhead(i),
           calls'[i] = calls[i] \/ AnswerShape(i)
    PROVE  ReadIsAhead(i)'
  <1> DEFINE c == calls[i]
             d == calls'[i]
  <1>1. Len(log) \in Nat /\ sm' = sm /\ (\A j : StateAt(j)' = StateAt(j))
        /\ StateAt(Len(log)) = sm
    BY QuietState, Parts, Types, SMTT(20), Z3T(20) DEF sm
  <1>2. CASE d = c
    BY <1>1, <1>2, Zenon DEF ReadIsAhead
  <1>3. CASE AnswerShape(i) /\ c.pc = "idle"
    <2>1. d.pc = "route" /\ (d.req.type = "Get" => d.before = sm.state[d.req.session])
      BY <1>3, Zenon DEF AnswerShape
    <2>2. d.req.type = "Get" /\ d.before # None => NotOlder(sm, d.req.session, d.before)
      BY <2>1, Zenon DEF NotOlder, Live
    <2>3. d.pc # "read"
      BY <2>1, Zenon
    <2> QED BY <1>1, <2>2, <2>3, Zenon DEF ReadIsAhead
  <1>4. CASE AnswerShape(i) /\ c.pc # "idle"
    <2>1. d.req = c.req /\ d.before = c.before
      BY <1>4, Zenon DEF AnswerShape
    <2>2. c.req.type = "Get" /\ c.before # None => NotOlder(sm, c.req.session, c.before)
      BY <1>4, Zenon DEF ReadIsAhead
    <2>3. ASSUME d.pc = "read"
          PROVE  c.req.type = "Get" /\ c.req.key = c.req.session /\ d.val = Len(log)
      BY <1>4, <2>3, Zenon DEF AnswerShape
    <2>4. ASSUME d.pc = "read", d.before # None, NEW j \in d.val..Len(log)
          PROVE  NotOlder(StateAt(j), c.req.session, c.before)
      <3>1. j = Len(log)
        BY <1>1, <2>3, <2>4, SMTT(20), Z3T(20)
      <3>2. StateAt(j) = sm
        BY <1>1, <3>1, Zenon
      <3> QED BY <2>1, <2>2, <2>3, <2>4, <3>2, Zenon
    <2>5. d.pc = "read" => d.val \in 0..Len(log)
      BY <1>1, <2>3, SMTT(20), Z3T(20)
    <2> QED BY <1>1, <2>1, <2>2, <2>3, <2>4, <2>5, Zenon DEF ReadIsAhead
  <1> QED BY <1>2, <1>3, <1>4, Zenon

(* An answer to a Get is about a state past its read index. *)
LEMMA AnswerIsFresh ==
    ASSUME IInv, RetiredStays, NEW i \in Call, ReadIsAhead(i), AnswerShape(i),
           calls'[i].pc = "done", calls'[i].req.type = "Get", calls'[i].before # None
    PROVE  /\ calls'[i].ans.res = "Ok" =>
                 \/ calls'[i].ans.got.version > calls'[i].before.version
                 \/ calls'[i].ans.got = calls'[i].before
           /\ calls'[i].ans.res = "NotFound" => calls'[i].req.key \in sm.retired
  <1> DEFINE c == calls[i]
             d == calls'[i]
             a == applied[c.node]
             ks == view[c.node].state[c.req.key]
  <1>1. CallOK(c) /\ Len(log) \in Nat
    BY Parts, Types, SMTT(20), Z3T(20) DEF CallsOK
  <1>2. c.pc # "idle" /\ d.req = c.req /\ d.before = c.before
    BY Zenon DEF AnswerShape
  <1>3. c.pc # "wait"
    BY <1>1, <1>2, Zenon DEF CallOK, Writes
  <1>4. CASE d.ans.res \notin {"Ok", "NotFound"}
    BY <1>4, Zenon
  <1>5. CASE d.ans.res \in {"Ok", "NotFound"}
    <2>1. /\ c.pc = "read" /\ a >= c.val /\ d.ans.got = ks
          /\ d.ans.res = IF ks = None THEN "NotFound" ELSE "Ok"
      BY <1>2, <1>3, <1>5, Zenon DEF AnswerShape
    <2>2. c.node \in Node
      BY <1>1, <2>1, Zenon DEF CallOK
    <2>3. a \in 0..Len(log) /\ view[c.node] = StateAt(a)
      BY <2>2, Parts, Types, Zenon DEF ReplicasFollow
    <2>4. c.req.key = c.req.session /\ c.val \in 0..Len(log)
      BY <2>1, Zenon DEF ReadIsAhead
    <2>5. a \in c.val..Len(log)
      BY <1>1, <2>1, <2>3, <2>4, SMTT(20), Z3T(20)
    <2>6. NotOlder(StateAt(a), c.req.key, c.before)
      BY <1>2, <2>1, <2>4, <2>5, Zenon DEF ReadIsAhead
    <2>7. ks = StateAt(a).state[c.req.key] /\ StateAt(a).retired \subseteq sm.retired
      BY <2>3, Zenon DEF RetiredStays
    <2>8. CASE ks = None
      <3>1. c.req.key \in sm.retired
        BY <2>6, <2>7, <2>8, Zenon DEF NotOlder, Live
      <3> QED BY <1>2, <2>1, <2>8, <3>1, Zenon
    <2>9. CASE ks # None
      <3>1. ks.version > c.before.version \/ ks = c.before
        BY <2>6, <2>7, <2>9, Zenon DEF NotOlder, Live
      <3> QED BY <1>2, <2>1, <2>9, <3>1, Zenon
    <2> QED BY <2>8, <2>9, Zenon
  <1> QED BY <1>4, <1>5, Zenon

(* The invariant behind the reads is kept by every step. *)
LEMMA ReadStep == IInv /\ ReadInv /\ [Next]_vars => ReadInv'
  <1> SUFFICES ASSUME IInv, ReadInv, [Next]_vars PROVE ReadInv'
    BY Zenon
  <1>1. /\ Len(log) \in Nat /\ sm.retired \subseteq sm'.retired
        /\ \A j \in 0..Len(log) : StateAt(j)' = StateAt(j)
    BY StatesPersist, Parts, Types, SMTT(20), Z3T(20)
  <1>2. RetiredStays'
    <2> SUFFICES ASSUME NEW j \in 0..Len(log') PROVE StateAt(j)'.retired \subseteq sm'.retired
      BY Zenon DEF RetiredStays
    <2>1. CASE j \in 0..Len(log)
      <3>1. StateAt(j).retired \subseteq sm.retired
        BY <2>1, Zenon DEF ReadInv, RetiredStays
      <3>2. StateAt(j)' = StateAt(j)
        BY <1>1, <2>1, Zenon
      <3> QED BY <1>1, <3>1, <3>2, Zenon
    <2>2. CASE j \notin 0..Len(log)
      <3>1. j = Len(log')
        <4>1. CASE \E e \in pending : Commit(e)
          <5>1. Len(log') = Len(log) + 1
            BY <4>1, CommitAppends, Parts, Zenon
          <5> QED BY <1>1, <2>2, <5>1, SMTT(20), Z3T(20)
        <4>2. CASE ~\E e \in pending : Commit(e)
          BY <2>2, <4>2, OnlyCommitsMatter, Zenon
        <4> QED BY <4>1, <4>2, Zenon
      <3>2. StateAt(j)' = sm'
        BY <3>1, Zenon DEF sm, StateAt
      <3> QED BY <3>2, Zenon
    <2> QED BY <2>1, <2>2, Zenon
  <1>3. ASSUME NEW i \in Call PROVE ReadIsAhead(i)'
    <2>1. ReadIsAhead(i)
      BY Zenon DEF ReadInv
    <2>2. CASE \E e \in pending : Commit(e)
      BY <2>1, <2>2, CommitKeepsReads, Zenon
    <2>3. CASE ~\E e \in pending : Commit(e)
      <3>1. log' = log
        BY <2>3, OnlyCommitsMatter, Zenon
      <3> QED BY <2>1, <3>1, StepAnswers, CallKeepsReads, Zenon
    <2> QED BY <2>2, <2>3, Zenon
  <1>4. GetIsFresh'
    <2> SUFFICES ASSUME NEW i \in Call, calls'[i].pc = "done", calls'[i].req.type = "Get",
                        calls'[i].before # None
                 PROVE  /\ calls'[i].ans.res = "Ok" =>
                              \/ calls'[i].ans.got.version > calls'[i].before.version
                              \/ calls'[i].ans.got = calls'[i].before
                        /\ calls'[i].ans.res = "NotFound" => calls'[i].req.key \in sm'.retired
      BY Zenon DEF GetIsFresh
    <2>1. CASE calls'[i] = calls[i]
      BY <1>1, <2>1, Zenon DEF ReadInv, GetIsFresh
    <2>2. CASE AnswerShape(i)
      BY <1>1, <2>2, AnswerIsFresh, Zenon DEF ReadInv
    <2> QED BY <2>1, <2>2, StepAnswers, Zenon
  <1> QED BY <1>2, <1>3, <1>4, Zenon DEF ReadInv

(* A Get never answers from before its invocation, whichever replica it    *)
(* reads, however far that replica is behind (GetIsFresh).                 *)
THEOREM ReadsAreFresh == Spec => []GetIsFresh
  <1>1. Init => ReadInv
    <2> SUFFICES ASSUME Init PROVE ReadInv
      BY Zenon
    <2>1. Len(log) = 0 /\ sm = NewMachine /\ StateAt(0) = NewMachine
      BY Zenon DEF Init, sm, StateAt
    <2>2. \A i \in Call : calls[i].pc = "idle"
      BY Zenon DEF Init, NoCall
    <2>3. RetiredStays
      BY <2>1, SMTT(20), Z3T(20) DEF RetiredStays
    <2> QED BY <2>2, <2>3, Zenon DEF ReadInv, ReadIsAhead, GetIsFresh
  <1>2. ReadInv => GetIsFresh
    BY Zenon DEF ReadInv
  <1> QED BY <1>1, <1>2, ReadStep, Invariant, PTL DEF Spec
=============================================================================
