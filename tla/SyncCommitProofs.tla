-------------------------- MODULE SyncCommitProofs --------------------------
(***************************************************************************)
(* Proofs about SyncService, for any sets of keys, nodes, calls, requests  *)
(* and any bounds: what apply_one does, that every step keeps the types,   *)
(* the inductive invariant, and that committing an entry keeps it.         *)
(***************************************************************************)
EXTENDS SyncService, TLAPS

-----------------------------------------------------------------------------
(* What applying one entry does to the state machine. *)

(* The fields of an entry, by its type (ReplicatedOp). *)
LEMMA OpFields ==
    ASSUME NEW op \in Op
    PROVE  /\ op.type \in {"Register", "Pin", "Transition", "Revoke"}
           /\ op.type = "Register" => /\ op.key \in PcrKey /\ op.commitment \in Commitment
                                      /\ op.control_pubkey \in Pubkey
           /\ op.type = "Pin" => /\ op.key \in PcrKey /\ op.commitment \in Commitment
                                 /\ op.expected_version \in Nat
           /\ op.type = "Transition" => /\ op.old_key \in PcrKey /\ op.new_key \in PcrKey
                                        /\ op.new_control_pubkey \in Pubkey
                                        /\ op.link_hash \in LinkHash
                                        /\ op.signer \in Pubkey /\ op.valid_from \in Nat
           /\ op.type = "Revoke" => op.key \in PcrKey /\ op.link_hash \in LinkHash
  BY Zenon DEF Op

(* Replacing a field by one of its type keeps the state machine typed. *)
LEMMA FieldUpdates ==
    ASSUME NEW s \in StateMachine
    PROVE  /\ \A f \in [PcrKey -> KeyState \cup {None}] :
                 [s EXCEPT !.state = f] \in StateMachine
           /\ \A f \in [PcrKey -> KeyState \cup {None}], r \in SUBSET PcrKey :
                 [s EXCEPT !.state = f, !.retired = r] \in StateMachine
           /\ \A f \in [PcrKey -> Pubkey \cup {None}] :
                 [s EXCEPT !.attested = f] \in StateMachine
           /\ \A t \in SUBSET (PcrKey \X PcrKey) :
                 [s EXCEPT !.transition_authorizations = t] \in StateMachine
           /\ \A f \in [PcrKey -> SUBSET LinkHash] :
                 [s EXCEPT !.revoked_links = f] \in StateMachine
  BY Zenon DEF StateMachine

(* The fields of a state machine. *)
LEMMA MachineFields ==
    ASSUME NEW s \in StateMachine
    PROVE  /\ s.state \in [PcrKey -> KeyState \cup {None}]
           /\ s.attested \in [PcrKey -> Pubkey \cup {None}]
           /\ s.transition_authorizations \in SUBSET (PcrKey \X PcrKey)
           /\ s.retired \in SUBSET PcrKey
           /\ s.revoked_links \in [PcrKey -> SUBSET LinkHash]
  BY Zenon DEF StateMachine

(* x is an outcome of an operation on a: refused, or t. *)
Outcome(x, a, t) ==
    \/ x = Applied(t) /\ t \in StateMachine
    \/ x = Rejected(a, "NotAttested")       \/ x = Rejected(a, "AlreadyRegistered")
    \/ x = Rejected(a, "KeyRetired")        \/ x = Rejected(a, "KeyNotCurrent")
    \/ x = Rejected(a, "StalePin")          \/ x = Rejected(a, "OldKeyEqualsNew")
    \/ x = Rejected(a, "TransitionRevoked") \/ x = Rejected(a, "NewKeyAlreadyExists")
    \/ x = Rejected(a, "NewKeyNotAttested") \/ x = Rejected(a, "NoTransitionAuthorization")
    \/ x = Rejected(a, "CommitmentMismatch")

(* An outcome leaves a typed state. *)
LEMMA OutcomeType ==
    ASSUME NEW a \in StateMachine, NEW t, NEW x, Outcome(x, a, t)
    PROVE  x.st \in StateMachine /\ x.res \in Verdict
  BY SMTT(20), Z3T(20) DEF Outcome, Applied, Rejected, Verdict

(* apply_one maps states to states, whatever the entry. *)
LEMMA ApplyOneType ==
    ASSUME NEW s \in StateMachine, NEW op \in Op
    PROVE  /\ ApplyOne(s, op).st \in StateMachine
           /\ ApplyOne(s, op).res \in Verdict
  <1>1. CASE op.type = "Register"
    <2> DEFINE a == ObserveAttestation(s, op.key, op.control_pubkey)
               f == [a.state EXCEPT ![op.key] =
                        [commitment |-> op.commitment, version |-> 0,
                         control_pubkey |-> a.attested[op.key]]]
               t == [a EXCEPT !.state = f]
    <2>1. a \in StateMachine
      BY <1>1, OpFields, Zenon DEF ObserveAttestation, StateMachine
    <2>2. a.attested[op.key] # None => f \in [PcrKey -> KeyState \cup {None}]
      <3> HIDE DEF a
      <3> QED BY <1>1, <2>1, OpFields, MachineFields, SMTT(20), Z3T(20) DEF KeyState
    <2>3. a.attested[op.key] # None => t \in StateMachine
      <3> HIDE DEF a, f
      <3> QED BY <2>1, <2>2, FieldUpdates, Zenon
    <2>4. Outcome(ApplyRegister(a, op.key, op.commitment), a, t)
      <3> HIDE DEF a
      <3> QED BY <2>3, Zenon DEF ApplyRegister, Outcome
    <2>5. ApplyOne(s, op) = ApplyRegister(a, op.key, op.commitment)
      BY <1>1, Zenon DEF ApplyOne
    <2> HIDE DEF a, t
    <2> QED BY <2>1, <2>4, <2>5, OutcomeType, Zenon
  <1>2. CASE op.type = "Pin"
    <2> DEFINE f == [s.state EXCEPT ![op.key] =
                        [commitment |-> op.commitment,
                         version |-> s.state[op.key].version + 1,
                         control_pubkey |-> s.state[op.key].control_pubkey]]
               t == [s EXCEPT !.state = f]
    <2>1. Live(s, op.key) => f \in [PcrKey -> KeyState \cup {None}]
      BY <1>2, OpFields, MachineFields, SMTT(20), Z3T(20) DEF KeyState, Live
    <2>2. Live(s, op.key) => t \in StateMachine
      <3> HIDE DEF f
      <3> QED BY <2>1, FieldUpdates, Zenon
    <2>3. Outcome(ApplyPin(s, op.key, op.expected_version, op.commitment), s, t)
      BY <2>2, Zenon DEF ApplyPin, Outcome
    <2>4. ApplyOne(s, op) = ApplyPin(s, op.key, op.expected_version, op.commitment)
      BY <1>2, Zenon DEF ApplyOne
    <2> HIDE DEF t
    <2> QED BY <2>3, <2>4, OutcomeType, Zenon
  <1>3. CASE op.type = "Transition"
    <2> DEFINE b == ObserveAttestation(s, op.new_key, op.new_control_pubkey)
               a == ObserveTransition(b, op.old_key, op.new_key)
               f == [a.state EXCEPT ![op.old_key] = None, ![op.new_key] =
                        [commitment |-> a.state[op.old_key].commitment,
                         version |-> a.state[op.old_key].version,
                         control_pubkey |-> a.attested[op.new_key]]]
               t == [a EXCEPT !.state = f, !.retired = a.retired \cup {op.old_key}]
               ok == Live(a, op.old_key) /\ a.attested[op.new_key] # None
    <2>1. b \in StateMachine
      BY <1>3, OpFields, Zenon DEF ObserveAttestation, StateMachine
    <2>2. a \in StateMachine
      <3> HIDE DEF b
      <3>1. b.transition_authorizations \cup {<<op.old_key, op.new_key>>}
               \in SUBSET (PcrKey \X PcrKey)
        BY <1>3, <2>1, OpFields, MachineFields, SMTT(20), Z3T(20)
      <3> QED BY <2>1, <3>1, FieldUpdates, Zenon DEF ObserveTransition
    <2> HIDE DEF a
    <2>3. ok => f \in [PcrKey -> KeyState \cup {None}]
      BY <1>3, <2>2, OpFields, MachineFields, SMTT(20), Z3T(20) DEF KeyState, Live
    <2>4. a.retired \cup {op.old_key} \in SUBSET PcrKey
      BY <1>3, <2>2, OpFields, MachineFields, Zenon
    <2>5. ok => t \in StateMachine
      <3> HIDE DEF f, ok
      <3> QED BY <2>2, <2>3, <2>4, FieldUpdates, Zenon
    <2>6. Outcome(ApplyTransition(a, op.old_key, op.new_key, op.link_hash, op.commitment),
                  a, t)
      BY <2>5, Zenon DEF ApplyTransition, Outcome
    <2>7. ApplyOne(s, op) = ApplyTransition(a, op.old_key, op.new_key, op.link_hash,
                                            op.commitment)
      BY <1>3, Zenon DEF ApplyOne, a
    <2> HIDE DEF t
    <2> QED BY <2>2, <2>6, <2>7, OutcomeType, Zenon
  <1>4. CASE op.type = "Revoke"
    <2> DEFINE f == [s.revoked_links EXCEPT ![op.key] =
                        s.revoked_links[op.key] \cup {op.link_hash}]
               t == [s EXCEPT !.revoked_links = f]
    <2>1. f \in [PcrKey -> SUBSET LinkHash]
      BY <1>4, OpFields, MachineFields, SMTT(20), Z3T(20)
    <2>2. t \in StateMachine
      <3> HIDE DEF f
      <3> QED BY <2>1, FieldUpdates, Zenon
    <2>3. Outcome(ApplyRevoke(s, op.key, op.link_hash), s, t)
      BY <2>2, Zenon DEF ApplyRevoke, Outcome
    <2>4. ApplyOne(s, op) = ApplyRevoke(s, op.key, op.link_hash)
      BY <1>4, Zenon DEF ApplyOne
    <2> HIDE DEF t
    <2> QED BY <2>3, <2>4, OutcomeType, Zenon
  <1> QED BY <1>1, <1>2, <1>3, <1>4, OpFields, Zenon

(* A Register takes effect on a fresh key only, and starts it at version 0 *)
(* under the control key of its own session (apply_register).              *)
LEMMA RegisterEffect ==
    ASSUME NEW s \in StateMachine, NEW op \in Op, op.type = "Register"
    PROVE  LET out == ApplyOne(s, op) IN
           /\ out.st.retired = s.retired
           /\ out.st.revoked_links = s.revoked_links
           /\ out.res # "Applied" => out.st.state = s.state
           /\ out.res = "Applied" =>
                 /\ ~Live(s, op.key) /\ op.key \notin s.retired
                 /\ out.st.state = [s.state EXCEPT ![op.key] =
                        [commitment |-> op.commitment, version |-> 0,
                         control_pubkey |-> op.control_pubkey]]
  BY Zenon DEF Op, ApplyOne, ApplyRegister, ObserveAttestation, StateMachine, Live, Applied,
     Rejected

(* A Pin takes effect at the expected version only, and advances it by one *)
(* (apply_pin).                                                            *)
LEMMA PinEffect ==
    ASSUME NEW s \in StateMachine, NEW op \in Op, op.type = "Pin"
    PROVE  LET out == ApplyOne(s, op) IN
           /\ out.st.retired = s.retired
           /\ out.st.revoked_links = s.revoked_links
           /\ out.res # "Applied" => out.st.state = s.state
           /\ out.res = "Applied" =>
                 /\ Live(s, op.key) /\ s.state[op.key].version = op.expected_version
                 /\ out.st.state = [s.state EXCEPT ![op.key] =
                        [commitment |-> op.commitment,
                         version |-> op.expected_version + 1,
                         control_pubkey |-> s.state[op.key].control_pubkey]]
  BY Zenon DEF Op, ApplyOne, ApplyPin, StateMachine, Live, Applied, Rejected

(* A Transition takes effect from a live key to a fresh one, through a     *)
(* link that is not revoked; it moves the pin and retires the old key      *)
(* (apply_transition).                                                     *)
LEMMA TransitionEffect ==
    ASSUME NEW s \in StateMachine, NEW op \in Op, op.type = "Transition"
    PROVE  LET out == ApplyOne(s, op) IN
           /\ out.st.revoked_links = s.revoked_links
           /\ out.res # "Applied" => out.st.state = s.state /\ out.st.retired = s.retired
           /\ out.res = "Applied" =>
                 /\ op.old_key # op.new_key
                 /\ Live(s, op.old_key) /\ ~Live(s, op.new_key)
                 /\ op.new_key \notin s.retired
                 /\ op.link_hash \notin s.revoked_links[op.old_key]
                 /\ out.st.retired = s.retired \cup {op.old_key}
                 /\ out.st.state = [s.state EXCEPT ![op.old_key] = None, ![op.new_key] =
                        [commitment |-> s.state[op.old_key].commitment,
                         version |-> s.state[op.old_key].version,
                         control_pubkey |-> op.new_control_pubkey]]
  BY Zenon DEF Op, ApplyOne, ApplyTransition, ObserveAttestation, ObserveTransition,
         StateMachine, Live, IsRevoked, Applied, Rejected

(* A Revoke only ever adds a hash to its key's set (apply_revoke). *)
LEMMA RevokeEffect ==
    ASSUME NEW s \in StateMachine, NEW op \in Op, op.type = "Revoke"
    PROVE  LET out == ApplyOne(s, op) IN
           /\ out.st.retired = s.retired /\ out.st.state = s.state
           /\ \A k \in PcrKey : s.revoked_links[k] \subseteq out.st.revoked_links[k]
           /\ out.res = "Applied" => op.link_hash \in out.st.revoked_links[op.key]
  <1>1. ApplyOne(s, op) = ApplyRevoke(s, op.key, op.link_hash)
    BY Zenon DEF ApplyOne
  <1> QED BY <1>1, OpFields, SMTT(20), Z3T(20) DEF ApplyRevoke, StateMachine, Live, Applied,
             Rejected

-----------------------------------------------------------------------------
(* The requests that are proposed as entries, and what a call holds. *)

Writes == {"Register", "Pin", "Transition", "Revoke"}

(* What a call holds at each point of its handler. *)
CallOK(c) ==
    /\ c.pc = "idle" => c.node = None
    /\ c.pc # "idle" => c.req \in Request
    /\ c.pc \in {"verify", "wait", "read"} => c.node \in Node
    /\ c.pc = "verify" => c.req.type = "Transition" /\ c.val \in Pubkey
    /\ c.pc = "read" => c.req.type = "Get" /\ c.val \in Nat
    /\ c.pc = "wait" => c.req.type \in Writes

CallsOK == \A i \in Call : CallOK(calls[i])

-----------------------------------------------------------------------------
(* Types. *)

Ans == [res : AnswerCode, got : KeyState \cup {None}]

(* A request of the catalogue has the fields its type promises. *)
LEMMA RequestFields ==
    ASSUME NEW q \in Request
    PROVE  /\ q.type \in {"Get"} \cup Writes
           /\ q.session \in PcrKey
           /\ q.type \in {"Get", "Register", "Pin"} => q.key \in PcrKey
           /\ q.type \in Writes => OpOf(q) \in Op
           /\ q.type = "Transition" => q.link.from \in PcrKey /\ q.link.signer \in Pubkey
           /\ q.type \in Writes => OpOf(q).type = q.type
           /\ q.type = "Transition" => /\ OpOf(q).old_key = q.link.from
                                       /\ OpOf(q).signer = q.link.signer
  <1>1. CASE q \in GetRequest
    BY <1>1, Zenon DEF GetRequest, Writes
  <1>2. CASE q \in RegisterRequest
    BY <1>2, Zenon DEF RegisterRequest, Writes, OpOf, RegisterOp, Op
  <1>3. CASE q \in PinRequest
    BY <1>3, Zenon DEF PinRequest, Writes, OpOf, PinOp, Op
  <1>4. CASE q \in TransitionRequest
    BY <1>4, Zenon DEF TransitionRequest, UpgradeLink, Writes, OpOf, TransitionOp, Op
  <1>5. CASE q \in RevokeRequest
    BY <1>5, Zenon DEF RevokeRequest, RevocationLink, Writes, OpOf, RevokeOp, Op
  <1> QED BY <1>1, <1>2, <1>3, <1>4, <1>5, RequestsAreTyped, Zenon

(* Answering a call keeps it typed. *)
LEMMA AnsweredType ==
    ASSUME NEW c \in CallState, c.req \in Request, NEW a \in Ans
    PROVE  /\ Answered(c, a) \in CallState /\ CallOK(Answered(c, a))
           /\ Answered(c, a).pc = "done" /\ Answered(c, a).req = c.req
  BY Zenon DEF Answered, CallState, CallOK, Ans, PC

(* So does routing it again. *)
LEMMA RouteAgainType ==
    ASSUME NEW c \in CallState, c.req \in Request
    PROVE  /\ RouteAgain(c) \in CallState /\ CallOK(RouteAgain(c))
           /\ RouteAgain(c).pc \in {"route", "done"} /\ RouteAgain(c).req = c.req
  <1>1. CASE c.tries < MaxTries
    <2> DEFINE d == [c EXCEPT !.pc = "route", !.tries = c.tries + 1, !.node = None,
                              !.val = None]
    <2>1. d \in CallState /\ d.pc = "route" /\ d.req = c.req
      <3> DEFINE m == c.tries + 1
      <3>1. m \in Nat
        BY SMTT(20), Z3T(20) DEF CallState
      <3> HIDE DEF m
      <3>2. [c EXCEPT !.pc = "route", !.tries = m, !.node = None, !.val = None] \in CallState
        BY <3>1, Zenon DEF CallState, PC
      <3> QED BY <3>2, Zenon DEF m, CallState
    <2>2. RouteAgain(c) = d
      BY <1>1, Zenon DEF RouteAgain
    <2> HIDE DEF d
    <2> QED BY <2>1, <2>2, Zenon DEF CallOK
  <1>2. CASE ~(c.tries < MaxTries)
    <2>1. Got("Unavailable", None) \in Ans
      BY Zenon DEF Got, Ans, AnswerCode
    <2> QED BY <1>2, <2>1, AnsweredType, Zenon DEF RouteAgain
  <1> QED BY <1>1, <1>2, Zenon

(* The states of the log are state machines. *)
LEMMA StateAtType ==
    ASSUME TypeOK
    PROVE  /\ \A j \in 0..Len(log) : StateAt(j) \in StateMachine
           /\ sm \in StateMachine
  <1>1. NewMachine \in StateMachine
    BY Zenon DEF NewMachine, StateMachine
  <1>2. \A j \in 1..Len(log) : log[j] \in Entry
    BY SMTT(20), Z3T(20) DEF TypeOK
  <1>3. Len(log) \in Nat
    BY SMTT(20), Z3T(20) DEF TypeOK
  <1>4. \A j \in 0..Len(log) : StateAt(j) \in StateMachine
    BY <1>1, <1>2, <1>3, SMTT(20), Z3T(20) DEF StateAt, Entry
  <1> QED BY <1>3, <1>4, SMTT(20), Z3T(20) DEF sm

(* The initial state is typed. *)
LEMMA TypeInit == Init => TypeOK /\ CallsOK
  <1> SUFFICES ASSUME Init PROVE TypeOK /\ CallsOK
    BY Zenon
  <1>1. NewMachine \in StateMachine
    BY Zenon DEF NewMachine, StateMachine
  <1>2. NoCall \in CallState /\ CallOK(NoCall)
    BY Zenon DEF NoCall, CallState, CallOK, PC
  <1>3. log \in Seq(Entry) /\ Len(log) = 0
    BY SMTT(20), Z3T(20) DEF Init
  <1> QED BY <1>1, <1>2, <1>3, SMTT(20), Z3T(20) DEF Init, TypeOK, CallsOK

(* Going on at a node keeps a call typed. *)
LEMMA StepType ==
    ASSUME NEW c \in CallState, NEW n \in Node, NEW pc \in PC,
           NEW v \in Nat \cup Pubkey \cup {None}
    PROVE  LET d == [c EXCEPT !.pc = pc, !.node = n, !.val = v] IN
           /\ d \in CallState
           /\ d.pc = pc /\ d.node = n /\ d.val = v /\ d.req = c.req /\ d.ans = c.ans
  BY Zenon DEF CallState

(* The result of a write has an answer. *)
LEMMA WriteAnswerType ==
    ASSUME NEW type, NEW res \in Verdict
    PROVE  WriteAnswer(type, res) \in AnswerCode
  BY Zenon DEF WriteAnswer, RpcError, Verdict, AnswerCode

Proposed == [op : Op, call : Call, try : Nat]

(* A step of one call, on typed data, keeps the types. *)
LEMMA OneCall ==
    ASSUME TypeOK, CallsOK, NEW i \in Call, NEW c \in CallState, CallOK(c),
           calls' = [calls EXCEPT ![i] = c], pending' \in SUBSET Proposed,
           Serving, faults' \in Nat
    PROVE  TypeOK' /\ CallsOK'
  <1>1. calls' \in [Call -> CallState] /\ CallsOK'
    BY Zenon DEF TypeOK, CallsOK
  <1>2. StoredSnapshot' = StoredSnapshot
    BY Zenon DEF Serving, StoredSnapshot
  <1> QED BY <1>1, <1>2, Zenon DEF TypeOK, Serving, nodeVars, Proposed

(* An answer is such a step. *)
LEMMA AnswerStep ==
    ASSUME TypeOK, CallsOK, NEW i \in Call, calls[i].pc # "idle",
           NEW a \in Ans, Answer(i, a), Serving, faults' \in Nat
    PROVE  TypeOK' /\ CallsOK'
  <1>1. calls[i] \in CallState /\ calls[i].req \in Request
    BY Zenon DEF TypeOK, CallsOK, CallOK
  <1>2. Answered(calls[i], a) \in CallState /\ CallOK(Answered(calls[i], a))
    BY <1>1, AnsweredType, Zenon
  <1>3. pending' \in SUBSET Proposed
    BY Zenon DEF Answer, TypeOK, Proposed
  <1>4. calls' = [calls EXCEPT ![i] = Answered(calls[i], a)]
    BY Zenon DEF Answer
  <1> QED BY <1>2, <1>3, <1>4, OneCall, Zenon

(* So is a proposal. *)
LEMMA ProposeStep ==
    ASSUME TypeOK, CallsOK, NEW i \in Call, NEW n \in Node, calls[i].pc # "idle",
           calls[i].req.type \in Writes, Propose(i, n), Serving, faults' \in Nat
    PROVE  TypeOK' /\ CallsOK'
  <1> DEFINE d == [calls[i] EXCEPT !.pc = "wait", !.node = n, !.val = None]
             e == [op |-> OpOf(calls[i].req), call |-> i, try |-> calls[i].tries]
  <1>1. calls[i] \in CallState /\ calls[i].req \in Request
    BY Zenon DEF TypeOK, CallsOK, CallOK
  <1>2. /\ d \in CallState /\ d.pc = "wait" /\ d.node = n /\ d.req = calls[i].req
    <2> DEFINE b == calls[i]
    <2>1. b \in CallState
      BY <1>1, Zenon
    <2> HIDE DEF b
    <2>2. LET f == [b EXCEPT !.pc = "wait", !.node = n, !.val = None] IN
          f \in CallState /\ f.pc = "wait" /\ f.node = n /\ f.req = b.req
      BY <2>1, Zenon DEF CallState, PC
    <2> QED BY <2>2, Zenon DEF b
  <1>3. CallOK(d)
    <2> HIDE DEF d
    <2> QED BY <1>1, <1>2, Zenon DEF CallOK
  <1>4. OpOf(calls[i].req) \in Op /\ calls[i].tries \in Nat
    BY <1>1, RequestFields, Zenon DEF CallState
  <1>5. pending' \in SUBSET Proposed
    <2>1. e \in Proposed
      BY <1>4, Zenon DEF Proposed
    <2>2. pending' = pending \cup {e}
      BY Zenon DEF Propose
    <2> HIDE DEF e
    <2> QED BY <2>1, <2>2, Zenon DEF TypeOK, Proposed
  <1>6. calls' = [calls EXCEPT ![i] = d]
    BY Zenon DEF Propose, Step
  <1> HIDE DEF d
  <1> QED BY <1>2, <1>3, <1>5, <1>6, OneCall, Zenon

(* Every step of a call keeps the types. *)
LEMMA TypeCallStep ==
    ASSUME TypeOK, CallsOK, NEW i \in Call, CallStep(i)
    PROVE  TypeOK' /\ CallsOK'
  <1> DEFINE c == calls[i]
  <1>1. c \in CallState /\ CallOK(c)
    BY Zenon DEF TypeOK, CallsOK
  <1>2. faults \in Nat /\ pending \in SUBSET Proposed
    BY Zenon DEF TypeOK, Proposed
  <1>3. \A n \in Node : view[n] \in StateMachine
    BY Zenon DEF TypeOK
  <1>4. \A r \in AnswerCode : Got(r, None) \in Ans
    BY Zenon DEF Got, Ans
  <1>a. ASSUME NEW q \in Request, Invoke(i, q) PROVE TypeOK' /\ CallsOK'
    <2> DEFINE b == IF q.type = "Get" THEN sm.state[q.session] ELSE None
               d == [c EXCEPT !.pc = "route", !.tries = 1, !.req = q, !.before = b]
    <2>1. b \in KeyState \cup {None}
      BY RequestFields, StateAtType, MachineFields, Zenon
    <2>2. d \in CallState /\ d.pc = "route" /\ d.req = q
      <3> HIDE DEF b, c
      <3> QED BY <1>1, <2>1, Zenon DEF CallState, PC
    <2>3. CallOK(d)
      <3> HIDE DEF d
      <3> QED BY <2>2, Zenon DEF CallOK
    <2>4. calls' = [calls EXCEPT ![i] = d] /\ pending' = pending /\ Serving /\ faults' = faults
      BY <1>a, Zenon DEF Invoke, CallOnly
    <2> HIDE DEF d
    <2> QED BY <1>2, <2>2, <2>3, <2>4, OneCall, Zenon
  <1>b. CASE Unauthorized(i)
    <2>1. c.pc # "idle" /\ Answer(i, Got("Unauthorized", None)) /\ Serving /\ faults' = faults
      BY <1>b, Zenon DEF Unauthorized, At, Reply, CallOnly
    <2> QED BY <1>2, <1>4, <2>1, AnswerStep, Zenon DEF AnswerCode
  <1>c. ASSUME NEW n \in Node, HandleWrite(i, n) PROVE TypeOK' /\ CallsOK'
    <2>1. c.pc # "idle" /\ c.req.type \in Writes /\ Propose(i, n) /\ Serving /\ faults' = faults
      BY <1>c, Zenon DEF HandleWrite, At, Writes, CallOnly
    <2> QED BY <1>2, <2>1, ProposeStep, Zenon
  <1>d. ASSUME NEW n \in Node, HandleRevoke(i, n) PROVE TypeOK' /\ CallsOK'
    <2>1. c.pc # "idle" /\ c.req.type \in Writes /\ Serving /\ faults' = faults
      BY <1>d, Zenon DEF HandleRevoke, At, Writes, CallOnly
    <2>2. Propose(i, n) \/ Answer(i, Got("RevocationRejected", None))
      BY <1>d, Zenon DEF HandleRevoke, Reply
    <2> QED BY <1>2, <1>4, <2>1, <2>2, ProposeStep, AnswerStep, Zenon DEF AnswerCode
  <1>e. ASSUME NEW n \in Node, TransitionLookup(i, n) PROVE TypeOK' /\ CallsOK'
    <2> DEFINE ks == view[n].state[c.req.link.from]
               d  == [c EXCEPT !.pc = "verify", !.node = n, !.val = ks.control_pubkey]
    <2>1. c.pc = "route" /\ c.req.type = "Transition" /\ Serving /\ faults' = faults
      BY <1>e, Zenon DEF TransitionLookup, At, CallOnly
    <2>2. CASE ks # None /\ Step(i, "verify", n, ks.control_pubkey) /\ pending' = pending
      <3>1. c.req \in Request /\ ks.control_pubkey \in Pubkey
        <4>1. c.req \in Request
          BY <1>1, <2>1, Zenon DEF CallOK
        <4>2. c.req.link.from \in PcrKey
          BY <2>1, <4>1, RequestFields, Zenon
        <4>3. view[n].state \in [PcrKey -> KeyState \cup {None}]
          BY <1>3, MachineFields, Zenon
        <4>4. ks \in KeyState
          BY <2>2, <4>2, <4>3, Zenon
        <4> HIDE DEF ks
        <4> QED BY <4>1, <4>4, Zenon DEF KeyState
      <3>2. d \in CallState /\ d.pc = "verify" /\ d.req = c.req /\ d.node = n /\ d.val \in Pubkey
        <4> DEFINE v == ks.control_pubkey
        <4>1. v \in Pubkey
          BY <3>1, Zenon
        <4> HIDE DEF ks, c, v
        <4>2. LET f == [c EXCEPT !.pc = "verify", !.node = n, !.val = v] IN
              f \in CallState /\ f.pc = "verify" /\ f.req = c.req /\ f.node = n /\ f.val = v
          BY <1>1, <4>1, Zenon DEF CallState, PC
        <4> QED BY <4>1, <4>2, Zenon DEF v
      <3>3. CallOK(d)
        <4> HIDE DEF d
        <4> QED BY <2>1, <3>1, <3>2, Zenon DEF CallOK
      <3>4. calls' = [calls EXCEPT ![i] = d]
        BY <2>2, Zenon DEF Step
      <3> HIDE DEF d
      <3> QED BY <1>2, <2>1, <2>2, <3>2, <3>3, <3>4, OneCall, Zenon
    <2>3. CASE Answer(i, Got("TransitionRejected", None))
      BY <1>2, <1>4, <2>1, <2>3, AnswerStep, Zenon DEF AnswerCode
    <2> QED BY <1>e, <2>2, <2>3, Zenon DEF TransitionLookup, Reply
  <1>f. CASE TransitionVerify(i)
    <2>1. c.pc = "verify" /\ Serving /\ faults' = faults
      BY <1>f, Zenon DEF TransitionVerify, At, CallOnly
    <2>2. c.req.type \in Writes /\ c.node \in Node
      BY <1>1, <2>1, Zenon DEF CallOK, Writes
    <2>3. Propose(i, c.node) \/ Answer(i, Got("TransitionRejected", None))
      BY <1>f, Zenon DEF TransitionVerify, Reply
    <2> QED BY <1>2, <1>4, <2>1, <2>2, <2>3, ProposeStep, AnswerStep, Zenon DEF AnswerCode
  <1>g. ASSUME NEW n \in Node, LinearizableGet(i, n) PROVE TypeOK' /\ CallsOK'
    <2> DEFINE d == [c EXCEPT !.pc = "read", !.node = n, !.val = Len(log)]
    <2>1. /\ c.pc = "route" /\ c.req.type = "Get" /\ calls' = [calls EXCEPT ![i] = d]
          /\ pending' = pending /\ Serving /\ faults' = faults
      BY <1>g, Zenon DEF LinearizableGet, At, Step, CallOnly
    <2>2. Len(log) \in Nat
      BY SMTT(20), Z3T(20) DEF TypeOK
    <2>3. d \in CallState /\ d.pc = "read" /\ d.req = c.req /\ d.node = n /\ d.val \in Nat
      <3> HIDE DEF c
      <3> QED BY <1>1, <2>2, Zenon DEF CallState, PC
    <2>4. CallOK(d)
      <3> HIDE DEF d
      <3> QED BY <1>1, <2>1, <2>3, Zenon DEF CallOK
    <2> HIDE DEF d
    <2> QED BY <1>2, <2>1, <2>3, <2>4, OneCall, Zenon
  <1>h. CASE GetAnswer(i)
    <2> DEFINE ks == view[c.node].state[c.req.key]
               a == Got(IF ks = None THEN "NotFound" ELSE "Ok", ks)
    <2>1. c.pc = "read" /\ Answer(i, a) /\ Serving /\ faults' = faults
      BY <1>h, Zenon DEF GetAnswer, At, CallOnly
    <2>2. c.node \in Node /\ c.req.key \in PcrKey
      BY <1>1, <2>1, RequestFields, Zenon DEF CallOK
    <2>3. ks \in KeyState \cup {None}
      BY <1>3, <2>2, MachineFields, Zenon
    <2>4. a \in Ans
      <3> HIDE DEF ks
      <3> QED BY <2>3, Zenon DEF Got, Ans, AnswerCode
    <2> HIDE DEF a
    <2> QED BY <1>2, <2>1, <2>4, AnswerStep, Zenon
  <1>i. CASE WriteApplied(i)
    <2>1. c.pc = "wait" /\ Serving /\ faults' = faults
      BY <1>i, Zenon DEF WriteApplied, At, CallOnly
    <2>2. PICK j \in 1..applied[c.node] :
             Answer(i, Got(WriteAnswer(c.req.type, log[j].res), None))
      BY <1>i, Zenon DEF WriteApplied, Reply
    <2>3. c.node \in Node
      BY <1>1, <2>1, Zenon DEF CallOK
    <2>4. log[j] \in Entry
      <3>1. applied[c.node] \in 0..Len(log) /\ Len(log) \in Nat
        BY <2>3, SMTT(20), Z3T(20) DEF TypeOK
      <3>2. j \in 1..Len(log)
        BY <3>1, SMTT(20), Z3T(20)
      <3> QED BY <3>2, SMTT(20), Z3T(20) DEF TypeOK
    <2>5. WriteAnswer(c.req.type, log[j].res) \in AnswerCode
      BY <2>4, WriteAnswerType, Zenon DEF Entry
    <2> QED BY <1>2, <1>4, <2>1, <2>2, <2>5, AnswerStep, Zenon
  <1>j. CASE Transient(i)
    <2>1. /\ c.pc # "idle" /\ calls' = [calls EXCEPT ![i] = RouteAgain(c)]
          /\ pending' = pending /\ Serving /\ faults' = faults + 1
      BY <1>j, Zenon DEF Transient, Fault
    <2>2. RouteAgain(c) \in CallState /\ CallOK(RouteAgain(c))
      BY <1>1, <2>1, RouteAgainType, Zenon DEF CallOK
    <2>3. faults' \in Nat /\ pending' \in SUBSET Proposed
      BY <1>2, <2>1, SMTT(20), Z3T(20)
    <2> QED BY <2>1, <2>2, <2>3, OneCall, Zenon
  <1>k. CASE DeadlineElapsed(i)
    <2>1. c.pc # "idle" /\ Answer(i, Got("TimedOut", None)) /\ Serving /\ faults' = faults + 1
      BY <1>k, Zenon DEF DeadlineElapsed, Reply, Fault
    <2> QED BY <1>2, <1>4, <2>1, AnswerStep, SMTT(20), Z3T(20) DEF AnswerCode
  <1> QED BY <1>a, <1>b, <1>c, <1>d, <1>e, <1>f, <1>g, <1>h, <1>i, <1>j, <1>k, Zenon DEF CallStep

(* Every step keeps the types. *)
LEMMA TypeStep ==
    ASSUME TypeOK, CallsOK, [Next]_vars
    PROVE  TypeOK' /\ CallsOK'
  <1>1. Len(log) \in Nat /\ \A j \in 0..Len(log) : StateAt(j) \in StateMachine
    BY StateAtType, SMTT(20), Z3T(20) DEF TypeOK
  <1>a. ASSUME NEW i \in Call, CallStep(i) PROVE TypeOK' /\ CallsOK'
    BY <1>a, TypeCallStep, Zenon
  <1>b. ASSUME NEW e \in pending, Commit(e) PROVE TypeOK' /\ CallsOK'
    <2> DEFINE out == ApplyOne(sm, e.op)
               k == Committed(e.op)
               o == IF e.op.type = "Register" THEN e.op.key ELSE origin[Subject(e.op)]
               x == [op |-> e.op, call |-> e.call, try |-> e.try, res |-> out.res,
                     st |-> out.st, origin |-> o]
               starts == out.res = "Applied" /\ e.op.type \in {"Register", "Transition"}
    <2>1. e.op \in Op /\ e.call \in Call /\ e.try \in Nat
      BY Zenon DEF TypeOK
    <2>2. out.st \in StateMachine /\ out.res \in Verdict
      BY <2>1, ApplyOneType, StateAtType, Zenon
    <2>3. k \in PcrKey /\ Subject(e.op) \in PcrKey
      BY <2>1, OpFields, Zenon DEF Committed, Subject
    <2>4. o \in PcrKey \cup {None}
      BY <2>1, <2>3, OpFields, Zenon DEF TypeOK
    <2>5. x \in Entry
      <3> HIDE DEF out, o
      <3> QED BY <2>1, <2>2, <2>4, Zenon DEF Entry
    <2>6. log' = Append(log, x)
      BY <1>b, Zenon DEF Commit
    <2>7. log' \in Seq(Entry) /\ Len(log') = Len(log) + 1
      <3> HIDE DEF x
      <3> QED BY <2>5, <2>6, SMTT(20), Z3T(20) DEF TypeOK
    <2>8. frozen' \in [PcrKey -> Pubkey \cup {None}]
      <3>1. frozen' = IF starts THEN [frozen EXCEPT ![k] = out.st.state[k].control_pubkey]
                                ELSE frozen
        BY <1>b, Zenon DEF Commit
      <3>2. starts => out.st.state[k] \in KeyState
        <4>1. CASE e.op.type = "Register"
          <5> DEFINE new == [commitment |-> e.op.commitment, version |-> 0,
                             control_pubkey |-> e.op.control_pubkey]
          <5>1. new \in KeyState
            BY <2>1, <4>1, OpFields, Zenon DEF KeyState
          <5>2. k = e.op.key /\ sm.state \in [PcrKey -> KeyState \cup {None}]
            BY <4>1, StateAtType, MachineFields, Zenon DEF Committed
          <5>3. starts => out.st.state = [sm.state EXCEPT ![k] = new]
            BY <2>1, <4>1, <5>2, StateAtType, RegisterEffect, SMTT(20), Z3T(20)
          <5> HIDE DEF new, out, k, starts
          <5> QED BY <2>3, <5>1, <5>2, <5>3, Zenon
        <4>2. CASE e.op.type = "Transition"
          <5> DEFINE old == sm.state[e.op.old_key]
                     new == [commitment |-> old.commitment, version |-> old.version,
                             control_pubkey |-> e.op.new_control_pubkey]
          <5>1. k = e.op.new_key /\ sm.state \in [PcrKey -> KeyState \cup {None}]
            BY <4>2, StateAtType, MachineFields, Zenon DEF Committed
          <5>2. starts => /\ out.st.state = [sm.state EXCEPT ![e.op.old_key] = None, ![k] = new]
                          /\ Live(sm, e.op.old_key)
            BY <2>1, <4>2, <5>1, StateAtType, TransitionEffect, SMTT(20), Z3T(20)
          <5>3. starts => old \in KeyState
            BY <2>1, <4>2, <5>1, <5>2, OpFields, Zenon DEF Live
          <5>4. starts => new \in KeyState
            <6> HIDE DEF old
            <6> QED BY <2>1, <4>2, <5>3, OpFields, Zenon DEF KeyState
          <5> HIDE DEF new, old, out, k, starts
          <5> QED BY <2>3, <5>1, <5>2, <5>4, Zenon
        <4> QED BY <4>1, <4>2, Zenon
      <3>3. starts => out.st.state[k].control_pubkey \in Pubkey
        BY <3>2, Zenon DEF KeyState
      <3> HIDE DEF out, k, starts
      <3> QED BY <2>3, <3>1, <3>3, Zenon DEF TypeOK
    <2>9. origin' \in [PcrKey -> PcrKey \cup {None}]
      <3>1. origin' = IF starts THEN [origin EXCEPT ![k] = o] ELSE origin
        BY <1>b, Zenon DEF Commit
      <3> HIDE DEF k, o, starts
      <3> QED BY <2>3, <2>4, <3>1, Zenon DEF TypeOK
    <2>10. /\ pending' = pending \ {e}
           /\ UNCHANGED <<view, applied, building, snap, calls, now, faults>>
      BY <1>b, Zenon DEF Commit, nodeVars
    <2>11. 0..Len(log) \subseteq 0..Len(log')
      BY <1>1, <2>7, SMTT(20), Z3T(20)
    <2>12. applied' \in [Node -> 0..Len(log')]
      BY <2>10, <2>11, Zenon DEF TypeOK
    <2>13. StoredSnapshot \subseteq StoredSnapshot'
      BY <2>11, Zenon DEF StoredSnapshot
    <2>14. building' \in [Node -> StoredSnapshot' \cup {None}]
           /\ snap' \in [Node -> StoredSnapshot' \cup {None}]
      BY <2>10, <2>13, Zenon DEF TypeOK
    <2> QED BY <2>7, <2>8, <2>9, <2>10, <2>12, <2>14, Zenon DEF TypeOK, CallsOK
  <1>c. ASSUME NEW n \in Node, Apply(n) PROVE TypeOK' /\ CallsOK'
    <2>1. applied[n] \in 0..Len(log) /\ applied[n] < Len(log) /\ view[n] \in StateMachine
      BY <1>c, Zenon DEF Apply, TypeOK
    <2>2. applied[n] + 1 \in 1..Len(log)
      BY <1>1, <2>1, SMTT(20), Z3T(20)
    <2>3. log[applied[n] + 1].op \in Op
      <3> DEFINE j == applied[n] + 1
      <3>1. log[j] \in Entry
        BY <2>2, SMTT(20), Z3T(20) DEF TypeOK
      <3> HIDE DEF j
      <3>2. log[j].op \in Op
        BY <3>1, Zenon DEF Entry
      <3> QED BY <3>2, Zenon DEF j
    <2>4. ApplyOne(view[n], log[applied[n] + 1].op).st \in StateMachine
      BY <2>1, <2>3, ApplyOneType, Zenon
    <2>5. view' \in [Node -> StateMachine] /\ applied' \in [Node -> 0..Len(log)]
      BY <1>1, <1>c, <2>2, <2>4, SMTT(20), Z3T(20) DEF Apply, TypeOK
    <2> QED BY <1>c, <2>5, Zenon DEF Apply, NodeOnly, TypeOK, CallsOK, StoredSnapshot
  <1>d. ASSUME NEW n \in Node, BuildSnapshot(n) PROVE TypeOK' /\ CallsOK'
    <2>1. view[n] \in StateMachine /\ applied[n] \in 0..Len(log)
      BY Zenon DEF TypeOK
    <2>2. Snapshot(view[n]) \in StateMachine
      BY <2>1, Zenon DEF Snapshot, StateMachine
    <2>3. [last |-> applied[n], data |-> Snapshot(view[n])] \in StoredSnapshot
      BY <2>1, <2>2, Zenon DEF StoredSnapshot
    <2>4. building' \in [Node -> StoredSnapshot \cup {None}]
      BY <1>d, <2>3, Zenon DEF BuildSnapshot, TypeOK
    <2> QED BY <1>d, <2>4, Zenon DEF BuildSnapshot, NodeOnly, TypeOK, CallsOK, StoredSnapshot
  <1>e. ASSUME NEW n \in Node, StoreSnapshot(n) PROVE TypeOK' /\ CallsOK'
    <2>1. /\ building' \in [Node -> StoredSnapshot \cup {None}]
          /\ snap' \in [Node -> StoredSnapshot \cup {None}]
      BY <1>e, Zenon DEF StoreSnapshot, TypeOK
    <2> QED BY <1>e, <2>1, Zenon DEF StoreSnapshot, NodeOnly, TypeOK, CallsOK, StoredSnapshot
  <1>f. ASSUME NEW n \in Node, Restart(n) PROVE TypeOK' /\ CallsOK'
    <2>1. calls' \in [Call -> CallState] /\ CallsOK'
      <3>1. \A i \in Call : calls[i].node = n => calls[i].pc # "idle"
        BY NoneIsNoNode, Zenon DEF CallsOK, CallOK
      <3> QED BY <1>f, <3>1, RouteAgainType, Zenon DEF Restart, TypeOK, CallsOK, CallOK
    <2>2. /\ view' \in [Node -> StateMachine] /\ applied' \in [Node -> 0..Len(log)]
          /\ building' \in [Node -> StoredSnapshot \cup {None}]
          /\ snap' \in [Node -> StoredSnapshot \cup {None}]
      BY <1>1, <1>f, SMTT(20), Z3T(20) DEF Restart, TypeOK, StateAt
    <2>3. faults' \in Nat
      BY <1>f, SMTT(20), Z3T(20) DEF Restart, Fault, TypeOK
    <2> QED BY <1>f, <2>1, <2>2, <2>3, Zenon DEF Restart, NodeOnly, TypeOK, StoredSnapshot
  <1>g. ASSUME NEW n \in Node, NEW m \in Node, InstallSnapshot(n, m) PROVE TypeOK' /\ CallsOK'
    <2>1. snap[m] \in StoredSnapshot
      BY <1>g, Zenon DEF InstallSnapshot, TypeOK
    <2>2. snap[m].data \in StateMachine /\ snap[m].last \in 0..Len(log)
      BY <2>1, Zenon DEF StoredSnapshot
    <2>3. /\ view' \in [Node -> StateMachine] /\ applied' \in [Node -> 0..Len(log)]
          /\ snap' \in [Node -> StoredSnapshot \cup {None}]
      BY <1>g, <2>1, <2>2, Zenon DEF InstallSnapshot, TypeOK
    <2> QED BY <1>g, <2>3, Zenon DEF InstallSnapshot, NodeOnly, TypeOK, CallsOK, StoredSnapshot
  <1>h. CASE Tick
    BY <1>h, SMTT(20), Z3T(20) DEF Tick, nodeVars, TypeOK, CallsOK, StoredSnapshot
  <1>i. CASE UNCHANGED vars
    BY <1>i, Zenon DEF vars, nodeVars, TypeOK, CallsOK, StoredSnapshot
  <1> QED BY <1>a, <1>b, <1>c, <1>d, <1>e, <1>f, <1>g, <1>h, <1>i, Zenon DEF Next

(* Type correctness: every reachable state of the service has the types    *)
(* the code gives it, for any instance.                                    *)
THEOREM TypeCorrect == Spec => []TypeOK
  <1>1. Init => TypeOK /\ CallsOK
    BY TypeInit, Zenon
  <1>2. TypeOK /\ CallsOK /\ [Next]_vars => (TypeOK /\ CallsOK)'
    BY TypeStep, Zenon
  <1> QED BY <1>1, <1>2, PTL DEF Spec

(* The types, one by one *)
LEMMA Types ==
    ASSUME TypeOK
    PROVE  /\ log \in Seq(Entry)
           /\ pending \in SUBSET [op : Op, call : Call, try : Nat]
           /\ view \in [Node -> StateMachine]
           /\ applied \in [Node -> 0..Len(log)]
           /\ building \in [Node -> StoredSnapshot \cup {None}]
           /\ snap \in [Node -> StoredSnapshot \cup {None}]
           /\ calls \in [Call -> CallState]
           /\ now \in Nat
           /\ faults \in Nat
           /\ frozen \in [PcrKey -> Pubkey \cup {None}]
           /\ origin \in [PcrKey -> PcrKey \cup {None}]
  BY Zenon DEF TypeOK

-----------------------------------------------------------------------------
(* The inductive invariant, part by part. *)

(* Each entry's result and state are apply_one's on the state before it. *)
LogIsApplied ==
    \A j \in 1..Len(log) : /\ log[j].st = ApplyOne(StateAt(j - 1), log[j].op).st
                           /\ log[j].res = ApplyOne(StateAt(j - 1), log[j].op).res

(* Replicas and snapshots, stored or being built, are states of the log. *)
ReplicasFollow ==
    \A n \in Node : /\ view[n] = StateAt(applied[n])
                    /\ building[n] # None => building[n].data = StateAt(building[n].last)
                    /\ snap[n] # None => snap[n].data = StateAt(snap[n].last)

(* A key is live, or retired, or has no history. *)
KeysPartition ==
    \A k \in PcrKey : /\ Live(sm, k) => k \notin sm.retired
                      /\ origin[k] # None <=> Live(sm, k) \/ k \in sm.retired
                      /\ frozen[k] # None <=> origin[k] # None

(* In every state the log went through, a live key has the control key it  *)
(* was committed with.                                                     *)
FrozenAlways ==
    \A j \in 0..Len(log), k \in PcrKey :
        Live(StateAt(j), k) => StateAt(j).state[k].control_pubkey = frozen[k]

(* A key looked up, or a link proposed, carries the frozen control key. *)
LinksVerified ==
    /\ \A i \in Call : calls[i].pc = "verify" =>
          calls[i].val = frozen[calls[i].req.link.from]
    /\ \A e \in pending : e.op.type = "Transition" => e.op.signer = frozen[e.op.old_key]

(* Every history has its root, one live key, and no second one. *)
Histories ==
    \A k \in PcrKey : origin[k] # None =>
        /\ origin[origin[k]] = origin[k]
        /\ \E l \in PcrKey : Live(sm, l) /\ origin[l] = origin[k]
        /\ \A l \in PcrKey : Live(sm, k) /\ Live(sm, l) /\ origin[k] = origin[l] => k = l

(* An accepted pin is behind its history's head from then on. *)
PinsBehind ==
    \A j \in 1..Len(log) : Effective(j, "Pin") =>
        /\ log[j].origin = origin[log[j].op.key] /\ log[j].origin # None
        /\ \A k \in PcrKey : Live(sm, k) /\ origin[k] = log[j].origin
                             => log[j].op.expected_version < sm.state[k].version

(* The other writes leave a trace that refuses their copies. *)
WritesLeaveTrace ==
    \A j \in 1..Len(log) :
        /\ Effective(j, "Register") => origin[log[j].op.key] # None
        /\ Effective(j, "Transition") => log[j].op.old_key \in sm.retired
        /\ Effective(j, "Revoke") =>
               log[j].op.link_hash \in sm.revoked_links[log[j].op.key]

(* The entries of a call are copies of its request. *)
EntriesAreRequests ==
    /\ \A e \in pending : /\ calls[e.call].pc # "idle"
                           /\ e.op = OpOf(calls[e.call].req)
    /\ \A j \in 1..Len(log) : /\ calls[log[j].call].pc # "idle"
                               /\ log[j].op = OpOf(calls[log[j].call].req)

IInv == /\ TypeOK /\ CallsOK
        /\ LogIsApplied /\ ReplicasFollow
        /\ KeysPartition /\ FrozenAlways /\ LinksVerified /\ TransitionsAuthorized
        /\ Histories
        /\ PinsBehind /\ PinsNeverFork
        /\ WritesLeaveTrace /\ EntriesAreRequests /\ AppliedOnce /\ RevocationHolds

(* Its conjuncts *)
LEMMA Parts ==
    ASSUME IInv
    PROVE  /\ TypeOK /\ CallsOK
           /\ LogIsApplied /\ ReplicasFollow
           /\ KeysPartition /\ FrozenAlways /\ LinksVerified /\ TransitionsAuthorized
           /\ Histories
           /\ PinsBehind /\ PinsNeverFork
           /\ WritesLeaveTrace /\ EntriesAreRequests /\ AppliedOnce /\ RevocationHolds
  BY Zenon DEF IInv

-----------------------------------------------------------------------------
(* The steps of the calls: what they propose was verified. *)

Quiet == UNCHANGED <<log, frozen, origin>>

(* The state machine follows the log. *)
LEMMA QuietState ==
    ASSUME log' = log
    PROVE  sm' = sm /\ \A j : StateAt(j)' = StateAt(j)
  BY Zenon DEF sm, StateAt

(* What a step of call i does to its record and to the proposals: it keeps *)
(* the request, adds at most the request's entry, and only through         *)
(* verification when that entry is a Transition; it arrives at             *)
(* verification with a public key read from some node's view.              *)
CallShape(i) ==
    /\ \A h \in Call : h # i => calls'[h] = calls[h]
    /\ calls'[i].pc # "idle"
    /\ calls[i].pc # "idle" => calls'[i].req = calls[i].req
    /\ \/ pending' = pending
       \/ /\ pending' = pending \cup {[op |-> OpOf(calls[i].req), call |-> i,
                                       try |-> calls[i].tries]}
          /\ calls[i].pc # "idle" /\ calls[i].req.type \in Writes
          /\ calls[i].req.type = "Transition" =>
                calls[i].pc = "verify" /\ calls[i].req.link.signer = calls[i].val
    /\ calls'[i].pc = "verify" =>
          /\ calls[i].pc # "idle" /\ calls[i].req.type = "Transition"
          /\ \E n \in Node : LET ks == view[n].state[calls[i].req.link.from] IN
                             ks # None /\ calls'[i].val = ks.control_pubkey

(* Every step of a call has this shape. *)
LEMMA CallSteps ==
    ASSUME TypeOK, CallsOK, NEW i \in Call, CallStep(i)
    PROVE  CallShape(i) /\ Serving
  <1> DEFINE c == calls[i]
  <1>1. c \in CallState /\ CallOK(c) /\ DOMAIN calls = Call
    BY Types, Zenon DEF CallsOK
  <1>2. ASSUME NEW a, Answer(i, a), c.pc # "idle" PROVE CallShape(i)
    <2>1. calls' = [calls EXCEPT ![i] = Answered(c, a)] /\ pending' = pending
      BY <1>2, Zenon DEF Answer
    <2>2. Answered(c, a).pc = "done" /\ Answered(c, a).req = c.req
      <3> HIDE DEF c
      <3> QED BY <1>1, Zenon DEF Answered, CallState
    <2> QED BY <1>1, <1>2, <2>1, <2>2, Zenon DEF CallShape
  <1>3. ASSUME NEW n, Propose(i, n), c.pc # "idle", c.req.type \in Writes,
               c.req.type = "Transition" => c.pc = "verify" /\ c.req.link.signer = c.val
        PROVE  CallShape(i)
    <2> DEFINE d == [c EXCEPT !.pc = "wait", !.node = n, !.val = None]
    <2>1. calls' = [calls EXCEPT ![i] = d]
      BY <1>3, Zenon DEF Propose, Step
    <2>2. d.pc = "wait" /\ d.req = c.req
      <3> HIDE DEF c
      <3> QED BY <1>1, Zenon DEF CallState
    <2>3. pending' = pending \cup {[op |-> OpOf(c.req), call |-> i, try |-> c.tries]}
      BY <1>3, Zenon DEF Propose
    <2> HIDE DEF d
    <2> QED BY <1>1, <1>3, <2>1, <2>2, <2>3, Zenon DEF CallShape
  <1>a. ASSUME NEW q \in Request, Invoke(i, q) PROVE CallShape(i) /\ Serving
    <2> DEFINE b == IF q.type = "Get" THEN sm.state[q.session] ELSE None
               d == [c EXCEPT !.pc = "route", !.tries = 1, !.req = q, !.before = b]
    <2>1. c.pc = "idle" /\ calls' = [calls EXCEPT ![i] = d] /\ pending' = pending /\ Serving
      BY <1>a, Zenon DEF Invoke, At, CallOnly
    <2>2. d.pc = "route"
      <3> HIDE DEF c, b
      <3> QED BY <1>1, Zenon DEF CallState
    <2> HIDE DEF d
    <2> QED BY <1>1, <2>1, <2>2, Zenon DEF CallShape
  <1>b. CASE Unauthorized(i)
    BY <1>b, <1>2, Zenon DEF Unauthorized, At, Reply, CallOnly
  <1>c. ASSUME NEW n \in Node, HandleWrite(i, n) PROVE CallShape(i) /\ Serving
    BY <1>c, <1>3, Zenon DEF HandleWrite, At, Writes, CallOnly
  <1>d. ASSUME NEW n \in Node, HandleRevoke(i, n) PROVE CallShape(i) /\ Serving
    BY <1>d, <1>2, <1>3, Zenon DEF HandleRevoke, At, Writes, Reply, CallOnly
  <1>e. ASSUME NEW n \in Node, TransitionLookup(i, n) PROVE CallShape(i) /\ Serving
    <2> DEFINE ks == view[n].state[c.req.link.from]
               d  == [c EXCEPT !.pc = "verify", !.node = n, !.val = ks.control_pubkey]
    <2>1. c.pc = "route" /\ c.req.type = "Transition" /\ Serving
      BY <1>e, Zenon DEF TransitionLookup, At, CallOnly
    <2>2. CASE ks # None /\ Step(i, "verify", n, ks.control_pubkey) /\ pending' = pending
      <3>1. calls' = [calls EXCEPT ![i] = d]
        BY <2>2, Zenon DEF Step
      <3>2. d.pc = "verify" /\ d.req = c.req /\ d.val = ks.control_pubkey
        <4> HIDE DEF c, ks
        <4> QED BY <1>1, Zenon DEF CallState
      <3> HIDE DEF d
      <3> QED BY <1>1, <2>1, <2>2, <3>1, <3>2, Zenon DEF CallShape
    <2>3. CASE Answer(i, Got("TransitionRejected", None))
      BY <1>2, <2>1, <2>3, Zenon
    <2> QED BY <1>e, <2>2, <2>3, Zenon DEF TransitionLookup, Reply
  <1>f. CASE TransitionVerify(i)
    <2>1. c.pc = "verify" /\ c.req.type = "Transition" /\ Serving
      BY <1>1, <1>f, Zenon DEF TransitionVerify, At, CallOnly, CallOK
    <2>2. \/ Propose(i, c.node) /\ c.req.link.signer = c.val
          \/ Answer(i, Got("TransitionRejected", None))
      BY <1>f, Zenon DEF TransitionVerify, VerifyTransitionLink, Reply
    <2> QED BY <1>2, <1>3, <2>1, <2>2, Zenon DEF Writes
  <1>g. ASSUME NEW n \in Node, LinearizableGet(i, n) PROVE CallShape(i) /\ Serving
    <2> DEFINE d == [c EXCEPT !.pc = "read", !.node = n, !.val = Len(log)]
    <2>1. c.pc = "route" /\ calls' = [calls EXCEPT ![i] = d] /\ pending' = pending /\ Serving
      BY <1>g, Zenon DEF LinearizableGet, At, Step, CallOnly
    <2>2. d.pc = "read" /\ d.req = c.req
      <3> HIDE DEF c
      <3> QED BY <1>1, Zenon DEF CallState
    <2> HIDE DEF d
    <2> QED BY <1>1, <2>1, <2>2, Zenon DEF CallShape
  <1>h. CASE GetAnswer(i)
    BY <1>h, <1>2, Zenon DEF GetAnswer, At, CallOnly
  <1>i. CASE WriteApplied(i)
    BY <1>i, <1>2, Zenon DEF WriteApplied, At, Reply, CallOnly
  <1>j. CASE Transient(i)
    <2>1. /\ c.pc # "idle" /\ calls' = [calls EXCEPT ![i] = RouteAgain(c)]
          /\ pending' = pending /\ Serving
      BY <1>j, Zenon DEF Transient
    <2>2. RouteAgain(c).pc \in {"route", "done"} /\ RouteAgain(c).req = c.req
      BY <1>1, <2>1, RouteAgainType, Zenon DEF CallOK
    <2> QED BY <1>1, <2>1, <2>2, Zenon DEF CallShape
  <1>k. CASE DeadlineElapsed(i)
    BY <1>k, <1>2, Zenon DEF DeadlineElapsed, Reply
  <1> QED BY <1>a, <1>b, <1>c, <1>d, <1>e, <1>f, <1>g, <1>h, <1>i, <1>j, <1>k, Zenon DEF CallStep

-----------------------------------------------------------------------------
(* A commit: what it appends, and its four effects on the heads. *)

Entered(e) == [op |-> e.op, call |-> e.call, try |-> e.try,
               res |-> ApplyOne(sm, e.op).res, st |-> ApplyOne(sm, e.op).st,
               origin |-> IF e.op.type = "Register" THEN e.op.key
                                                    ELSE origin[Subject(e.op)]]

HeadStarts(op, res) ==
    /\ op.type = "Register" /\ res = "Applied"
    /\ ~Live(sm, op.key) /\ op.key \notin sm.retired
    /\ sm'.state = [sm.state EXCEPT ![op.key] =
                       [commitment |-> op.commitment, version |-> 0,
                        control_pubkey |-> op.control_pubkey]]
    /\ sm'.retired = sm.retired /\ sm'.revoked_links = sm.revoked_links
    /\ origin' = [origin EXCEPT ![op.key] = op.key]
    /\ frozen' = [frozen EXCEPT ![op.key] = op.control_pubkey]

HeadExtends(op, res) ==
    /\ op.type = "Pin" /\ res = "Applied"
    /\ Live(sm, op.key) /\ sm.state[op.key].version = op.expected_version
    /\ sm'.state = [sm.state EXCEPT ![op.key] =
                       [commitment |-> op.commitment,
                        version |-> op.expected_version + 1,
                        control_pubkey |-> sm.state[op.key].control_pubkey]]
    /\ sm'.retired = sm.retired /\ sm'.revoked_links = sm.revoked_links
    /\ UNCHANGED <<origin, frozen>>

HeadMoves(op, res) ==
    /\ op.type = "Transition" /\ res = "Applied"
    /\ op.old_key # op.new_key /\ Live(sm, op.old_key)
    /\ ~Live(sm, op.new_key) /\ op.new_key \notin sm.retired
    /\ op.link_hash \notin sm.revoked_links[op.old_key]
    /\ sm'.state = [sm.state EXCEPT ![op.old_key] = None, ![op.new_key] =
                       [commitment |-> sm.state[op.old_key].commitment,
                        version |-> sm.state[op.old_key].version,
                        control_pubkey |-> op.new_control_pubkey]]
    /\ sm'.retired = sm.retired \cup {op.old_key}
    /\ sm'.revoked_links = sm.revoked_links
    /\ origin' = [origin EXCEPT ![op.new_key] = origin[op.old_key]]
    /\ frozen' = [frozen EXCEPT ![op.new_key] = op.new_control_pubkey]

HeadStays(op, res) ==
    /\ res = "Applied" => op.type = "Revoke"
                          /\ op.link_hash \in sm'.revoked_links[op.key]
    /\ sm'.state = sm.state /\ sm'.retired = sm.retired
    /\ \A k \in PcrKey : sm.revoked_links[k] \subseteq sm'.revoked_links[k]
    /\ UNCHANGED <<origin, frozen>>

(* A commit appends one entry and leaves the earlier states as they were. *)
LEMMA CommitAppends ==
    ASSUME TypeOK, NEW e \in pending, Commit(e)
    PROVE  /\ Len(log) \in Nat /\ Len(log') = Len(log) + 1
           /\ \A j \in 1..Len(log) : log'[j] = log[j]
           /\ log'[Len(log) + 1] = Entered(e)
           /\ \A j \in 0..Len(log) : StateAt(j)' = StateAt(j)
           /\ \A j : j = Len(log) + 1 => StateAt(j)' = ApplyOne(sm, e.op).st
           /\ sm' = ApplyOne(sm, e.op).st
           /\ pending' = pending \ {e}
           /\ UNCHANGED <<view, applied, building, snap, calls, now, faults>>
  <1>1. log' = Append(log, Entered(e))
    BY Zenon DEF Commit, Entered
  <1>2. /\ Len(log) \in Nat /\ Len(log') = Len(log) + 1
        /\ \A j \in 1..Len(log) : log'[j] = log[j]
        /\ log'[Len(log) + 1] = Entered(e)
    <2> DEFINE x == Entered(e)
    <2> HIDE DEF x
    <2>1. log' = Append(log, x) /\ log \in Seq(Entry)
      BY <1>1, Types, Zenon DEF x
    <2> QED BY <2>1, SMTT(20), Z3T(20) DEF x
  <1>3. \A j \in 0..Len(log) : StateAt(j)' = StateAt(j)
    BY <1>2, SMTT(20), Z3T(20) DEF StateAt
  <1>4. log'[Len(log) + 1].st = ApplyOne(sm, e.op).st
    BY <1>2, SMTT(20), Z3T(20) DEF Entered
  <1>5. \A j : j = Len(log) + 1 => StateAt(j)' = ApplyOne(sm, e.op).st
    BY <1>2, <1>4, SMTT(20), Z3T(20) DEF StateAt
  <1>6. sm' = ApplyOne(sm, e.op).st
    BY <1>2, <1>4, SMTT(20), Z3T(20) DEF sm, StateAt
  <1>7. /\ pending' = pending \ {e}
        /\ UNCHANGED <<view, applied, building, snap, calls, now, faults>>
    BY Zenon DEF Commit, nodeVars
  <1> QED BY <1>2, <1>3, <1>5, <1>6, <1>7, Zenon

(* A committed entry starts, extends, moves or leaves the heads. *)
LEMMA CommitEffects ==
    ASSUME TypeOK, NEW e \in pending, Commit(e)
    PROVE  LET res == ApplyOne(sm, e.op).res IN
           \/ HeadStarts(e.op, res) \/ HeadExtends(e.op, res)
           \/ HeadMoves(e.op, res)  \/ HeadStays(e.op, res)
  <1> DEFINE op == e.op
             out == ApplyOne(sm, op)
             starts == out.res = "Applied" /\ op.type \in {"Register", "Transition"}
             k == Committed(op)
             o == IF op.type = "Register" THEN op.key ELSE origin[Subject(op)]
  <1>1. op \in Op /\ sm \in StateMachine /\ sm' = out.st
    BY StateAtType, CommitAppends, Types, Zenon
  <1>2. /\ frozen' = IF starts THEN [frozen EXCEPT ![k] = out.st.state[k].control_pubkey]
                               ELSE frozen
        /\ origin' = IF starts THEN [origin EXCEPT ![k] = o] ELSE origin
    BY Zenon DEF Commit
  <1>3. sm.state \in [PcrKey -> KeyState \cup {None}]
    BY <1>1, MachineFields, Zenon
  <1>a. CASE op.type = "Register"
    <2>1. op.key \in PcrKey /\ k = op.key /\ o = op.key
      BY <1>1, <1>a, OpFields, Zenon DEF Committed
    <2>2. CASE out.res = "Applied"
      <3>1. out.st.state = [sm.state EXCEPT ![op.key] =
                              [commitment |-> op.commitment, version |-> 0,
                               control_pubkey |-> op.control_pubkey]]
            /\ ~Live(sm, op.key) /\ op.key \notin sm.retired
            /\ out.st.retired = sm.retired /\ out.st.revoked_links = sm.revoked_links
        BY <1>1, <1>a, <2>2, RegisterEffect, Zenon
      <3>2. out.st.state[op.key].control_pubkey = op.control_pubkey
        BY <1>3, <2>1, <3>1, SMTT(20), Z3T(20)
      <3>3. /\ frozen' = [frozen EXCEPT ![op.key] = op.control_pubkey]
            /\ origin' = [origin EXCEPT ![op.key] = op.key]
        BY <1>2, <1>a, <2>1, <2>2, <3>2, Zenon
      <3>4. HeadStarts(op, out.res)
        BY <1>1, <1>a, <2>2, <3>1, <3>3, Zenon DEF HeadStarts
      <3> QED BY <3>4, Zenon
    <2>3. CASE out.res # "Applied"
      <3>1. /\ out.st.state = sm.state /\ out.st.retired = sm.retired
            /\ out.st.revoked_links = sm.revoked_links
        BY <1>1, <1>a, <2>3, RegisterEffect, Zenon
      <3>2. UNCHANGED <<origin, frozen>>
        BY <1>2, <2>3, Zenon
      <3>3. HeadStays(op, out.res)
        BY <1>1, <2>3, <3>1, <3>2, Zenon DEF HeadStays
      <3> QED BY <3>3, Zenon
    <2> QED BY <2>2, <2>3, Zenon
  <1>b. CASE op.type = "Pin"
    <2>1. UNCHANGED <<origin, frozen>>
      BY <1>2, <1>b, Zenon
    <2>2. CASE out.res = "Applied"
      <3>1. HeadExtends(op, out.res)
        BY <1>1, <1>b, <2>1, <2>2, PinEffect, Zenon DEF HeadExtends
      <3> QED BY <3>1, Zenon
    <2>3. CASE out.res # "Applied"
      <3>1. /\ out.st.state = sm.state /\ out.st.retired = sm.retired
            /\ out.st.revoked_links = sm.revoked_links
        BY <1>1, <1>b, <2>3, PinEffect, Zenon
      <3>2. HeadStays(op, out.res)
        BY <1>1, <2>1, <2>3, <3>1, Zenon DEF HeadStays
      <3> QED BY <3>2, Zenon
    <2> QED BY <2>2, <2>3, Zenon
  <1>c. CASE op.type = "Transition"
    <2>1. /\ op.old_key \in PcrKey /\ op.new_key \in PcrKey
          /\ k = op.new_key /\ o = origin[op.old_key]
      BY <1>1, <1>c, OpFields, Zenon DEF Committed, Subject
    <2>2. CASE out.res = "Applied"
      <3>1. /\ out.st.state = [sm.state EXCEPT ![op.old_key] = None, ![op.new_key] =
                                 [commitment |-> sm.state[op.old_key].commitment,
                                  version |-> sm.state[op.old_key].version,
                                  control_pubkey |-> op.new_control_pubkey]]
            /\ op.old_key # op.new_key /\ Live(sm, op.old_key)
            /\ ~Live(sm, op.new_key) /\ op.new_key \notin sm.retired
            /\ op.link_hash \notin sm.revoked_links[op.old_key]
            /\ out.st.retired = sm.retired \cup {op.old_key}
            /\ out.st.revoked_links = sm.revoked_links
        BY <1>1, <1>c, <2>2, TransitionEffect, Zenon
      <3>2. out.st.state[op.new_key].control_pubkey = op.new_control_pubkey
        BY <1>3, <2>1, <3>1, SMTT(20), Z3T(20)
      <3>3. /\ frozen' = [frozen EXCEPT ![op.new_key] = op.new_control_pubkey]
            /\ origin' = [origin EXCEPT ![op.new_key] = origin[op.old_key]]
        BY <1>2, <1>c, <2>1, <2>2, <3>2, Zenon
      <3>4. HeadMoves(op, out.res)
        BY <1>1, <1>c, <2>2, <3>1, <3>3, Zenon DEF HeadMoves
      <3> QED BY <3>4, Zenon
    <2>3. CASE out.res # "Applied"
      <3>1. /\ out.st.state = sm.state /\ out.st.retired = sm.retired
            /\ out.st.revoked_links = sm.revoked_links
        BY <1>1, <1>c, <2>3, TransitionEffect, Zenon
      <3>2. UNCHANGED <<origin, frozen>>
        BY <1>2, <2>3, Zenon
      <3>3. HeadStays(op, out.res)
        BY <1>1, <2>3, <3>1, <3>2, Zenon DEF HeadStays
      <3> QED BY <3>3, Zenon
    <2> QED BY <2>2, <2>3, Zenon
  <1>d. CASE op.type = "Revoke"
    <2>1. UNCHANGED <<origin, frozen>>
      BY <1>2, <1>d, Zenon
    <2>2. HeadStays(op, out.res)
      BY <1>1, <1>d, <2>1, RevokeEffect, Zenon DEF HeadStays
    <2> QED BY <2>2, Zenon
  <1> QED BY <1>1, <1>a, <1>b, <1>c, <1>d, OpFields, Zenon

(* The log and the replicas after a commit. *)
LEMMA CommitKeepsReplicas ==
    ASSUME IInv, NEW e \in pending, Commit(e)
    PROVE  LogIsApplied' /\ ReplicasFollow'
  <1> USE CommitAppends DEF IInv
  <1>1. Len(log) \in Nat /\ sm = StateAt(Len(log))
    BY Zenon DEF sm
  <1>2. LogIsApplied'
    <2> SUFFICES ASSUME NEW j \in 1..Len(log')
                 PROVE  /\ log'[j].st = ApplyOne(StateAt(j - 1)', log'[j].op).st
                        /\ log'[j].res = ApplyOne(StateAt(j - 1)', log'[j].op).res
      BY Zenon DEF LogIsApplied
    <2>1. CASE j \in 1..Len(log)
      <3>1. j - 1 \in 0..Len(log)
        BY <1>1, SMTT(20), Z3T(20)
      <3>2. log'[j] = log[j] /\ StateAt(j - 1)' = StateAt(j - 1)
        BY <2>1, <3>1, Zenon
      <3> QED BY <2>1, <3>2, Zenon DEF LogIsApplied
    <2>2. CASE j = Len(log) + 1
      <3>1. j - 1 = Len(log) /\ j - 1 \in 0..Len(log)
        BY <1>1, <2>2, SMTT(20), Z3T(20)
      <3>2. StateAt(j - 1)' = sm
        BY <1>1, <3>1, Zenon
      <3>3. log'[j] = Entered(e)
        BY <2>2, Zenon
      <3> QED BY <3>2, <3>3, SMTT(20), Z3T(20) DEF Entered
    <2> QED BY <1>1, <2>1, <2>2, SMTT(20), Z3T(20)
  <1>3. ReplicasFollow'
    <2> SUFFICES ASSUME NEW n \in Node
                 PROVE  /\ view[n] = StateAt(applied[n])'
                        /\ building[n] # None => building[n].data = StateAt(building[n].last)'
                        /\ snap[n] # None => snap[n].data = StateAt(snap[n].last)'
      BY Zenon DEF ReplicasFollow
    <2>1. applied' = applied /\ building' = building /\ snap' = snap
      BY Zenon
    <2>2. /\ applied[n] \in 0..Len(log)
          /\ building[n] # None => building[n].last \in 0..Len(log)
          /\ snap[n] # None => snap[n].last \in 0..Len(log)
      BY Types, Zenon DEF StoredSnapshot
    <2>3. \A j \in 0..Len(log) : (IF j = 0 THEN NewMachine ELSE log'[j].st) = StateAt(j)
      BY Zenon DEF StateAt
    <2> QED BY <2>1, <2>2, <2>3, SMTT(20), Z3T(20) DEF ReplicasFollow, StateAt
  <1> QED BY <1>2, <1>3, Zenon

(* Live keys and retired keys after a commit. *)
LEMMA CommitKeepsKeys ==
    ASSUME IInv, NEW e \in pending, Commit(e)
    PROVE  KeysPartition' /\ Histories'
  <1> DEFINE op == e.op
             res == ApplyOne(sm, op).res
  <1>1. op \in Op /\ sm \in StateMachine
    BY StateAtType, Parts, Types, Zenon
  <1>2. /\ sm.state \in [PcrKey -> KeyState \cup {None}] /\ sm.retired \in SUBSET PcrKey
        /\ origin \in [PcrKey -> PcrKey \cup {None}]
        /\ frozen \in [PcrKey -> Pubkey \cup {None}]
    BY <1>1, MachineFields, Parts, Types, Zenon
  <1>3. KeysPartition /\ Histories
    BY Parts, Zenon
  <1>a. CASE HeadStarts(op, res)
    <2>1. op.key \in PcrKey /\ op.control_pubkey \in Pubkey
      BY <1>1, <1>a, OpFields, Zenon DEF HeadStarts
    <2>2. \A k \in PcrKey : /\ Live(sm', k) <=> Live(sm, k) \/ k = op.key
                            /\ origin'[k] = IF k = op.key THEN op.key ELSE origin[k]
                            /\ frozen'[k] = IF k = op.key THEN op.control_pubkey ELSE frozen[k]
      <3> DEFINE new == [commitment |-> op.commitment, version |-> 0,
                         control_pubkey |-> op.control_pubkey]
      <3>1. new \in KeyState
        BY <1>1, <1>a, OpFields, Zenon DEF HeadStarts, KeyState
      <3>2. new # None
        BY <3>1, NoneIsNoKeyState, Zenon
      <3>3. sm'.state = [sm.state EXCEPT ![op.key] = new]
        BY <1>a, Zenon DEF HeadStarts
      <3> HIDE DEF new
      <3> QED BY <1>2, <1>a, <2>1, <3>2, <3>3, Zenon DEF HeadStarts, Live
    <2>3. sm'.retired = sm.retired /\ ~Live(sm, op.key) /\ op.key \notin sm.retired
      BY <1>a, Zenon DEF HeadStarts
    <2>4. origin[op.key] = None
      BY <1>3, <2>1, <2>3, Zenon DEF KeysPartition
    <2>5. op.key # None /\ op.control_pubkey # None
      BY <2>1, NoneIsNoKey, NoneIsNoPubkey, Zenon
    <2>6. KeysPartition'
      BY <1>3, <2>1, <2>2, <2>3, <2>5, ZenonT(30) DEF KeysPartition, Live
    <2>7. Histories'
      BY <1>2, <1>3, <2>1, <2>2, <2>3, <2>4, <2>5, SMTT(30), Z3T(30) DEF Histories,
         KeysPartition, Live
    <2> QED BY <2>6, <2>7, Zenon
  <1>b. CASE HeadExtends(op, res)
    <2>1. op.key \in PcrKey /\ Live(sm, op.key)
      BY <1>1, <1>b, OpFields, Zenon DEF HeadExtends
    <2>2. \A k \in PcrKey : Live(sm', k) <=> Live(sm, k)
      <3> DEFINE new == [commitment |-> op.commitment, version |-> op.expected_version + 1,
                         control_pubkey |-> sm.state[op.key].control_pubkey]
      <3>1. new \in KeyState
        <4>1. sm.state[op.key] \in KeyState
          BY <1>2, <2>1, Zenon DEF Live
        <4> QED BY <1>1, <1>b, <4>1, OpFields, SMTT(20), Z3T(20) DEF HeadExtends, KeyState
      <3>2. new # None
        BY <3>1, NoneIsNoKeyState, Zenon
      <3>3. sm'.state = [sm.state EXCEPT ![op.key] = new]
        BY <1>b, Zenon DEF HeadExtends
      <3> HIDE DEF new
      <3> QED BY <1>2, <2>1, <3>2, <3>3, Zenon DEF Live
    <2>3. sm'.retired = sm.retired /\ origin' = origin /\ frozen' = frozen
      BY <1>b, Zenon DEF HeadExtends
    <2> QED BY <1>3, <2>2, <2>3, Zenon DEF KeysPartition, Histories, Live
  <1>c. CASE HeadMoves(op, res)
    <2> DEFINE old == op.old_key
               new == op.new_key
    <2>1. old \in PcrKey /\ new \in PcrKey /\ op.new_control_pubkey \in Pubkey
      BY <1>1, <1>c, OpFields, Zenon DEF HeadMoves
    <2>2. old # new /\ Live(sm, old) /\ ~Live(sm, new) /\ new \notin sm.retired
          /\ sm'.retired = sm.retired \cup {old}
      BY <1>c, Zenon DEF HeadMoves
    <2>3. \A k \in PcrKey : /\ Live(sm', k) <=> (Live(sm, k) /\ k # old) \/ k = new
                            /\ origin'[k] = IF k = new THEN origin[old] ELSE origin[k]
                            /\ frozen'[k] = IF k = new THEN op.new_control_pubkey ELSE frozen[k]
      <3> DEFINE ks == [commitment |-> sm.state[old].commitment,
                        version |-> sm.state[old].version,
                        control_pubkey |-> op.new_control_pubkey]
      <3>1. ks \in KeyState
        <4>1. sm.state[old] \in KeyState
          BY <1>2, <2>1, <2>2, Zenon DEF Live
        <4> QED BY <2>1, <4>1, Zenon DEF KeyState
      <3>2. ks # None
        BY <3>1, NoneIsNoKeyState, Zenon
      <3>3. sm'.state = [sm.state EXCEPT ![old] = None, ![new] = ks]
        BY <1>c, Zenon DEF HeadMoves
      <3>4. /\ origin' = [origin EXCEPT ![new] = origin[old]]
            /\ frozen' = [frozen EXCEPT ![new] = op.new_control_pubkey]
        BY <1>c, Zenon DEF HeadMoves
      <3> HIDE DEF ks, old, new
      <3> QED BY <1>2, <2>1, <2>2, <3>2, <3>3, <3>4, Zenon DEF Live
    <2>4. origin[new] = None /\ origin[old] # None /\ op.new_control_pubkey # None
      BY <1>3, <2>1, <2>2, NoneIsNoPubkey, Zenon DEF KeysPartition
    <2> HIDE DEF old, new
    <2>5. KeysPartition'
      BY <1>3, <2>1, <2>2, <2>3, <2>4, SMTT(20), Z3T(20) DEF KeysPartition, Live
    <2>6. ASSUME NEW k \in PcrKey, origin'[k] # None
          PROVE  /\ origin'[origin'[k]] = origin'[k]
                 /\ \E l \in PcrKey : Live(sm', l) /\ origin'[l] = origin'[k]
                 /\ \A l \in PcrKey : Live(sm', k) /\ Live(sm', l)
                                       /\ origin'[k] = origin'[l] => k = l
      <3>1. PICK b \in PcrKey : origin'[k] = origin[b] /\ origin[b] # None
                               /\ b = (IF k = new THEN old ELSE k)
        BY <2>1, <2>3, <2>6, Zenon
      <3>2. origin[b] \in PcrKey /\ origin[origin[b]] = origin[b]
        BY <1>2, <1>3, <3>1, Zenon DEF Histories
      <3>3. origin[b] # new
        BY <2>4, <3>1, <3>2, Zenon
      <3>4. origin'[origin'[k]] = origin'[k]
        BY <2>3, <3>1, <3>2, <3>3, Zenon
      <3>5. PICK l \in PcrKey : Live(sm, l) /\ origin[l] = origin[b]
        BY <1>3, <3>1, Zenon DEF Histories
      <3>6. \E m \in PcrKey : Live(sm', m) /\ origin'[m] = origin'[k]
        <4>1. CASE l = old
          BY <2>1, <2>3, <3>1, <3>5, <4>1, Zenon
        <4>2. CASE l # old
          BY <2>2, <2>3, <3>1, <3>5, <4>2, Zenon
        <4> QED BY <4>1, <4>2, Zenon
      <3>7. ASSUME NEW m \in PcrKey, Live(sm', k), Live(sm', m), origin'[k] = origin'[m]
            PROVE  k = m
        BY <1>3, <2>1, <2>2, <2>3, <2>4, <2>6, <3>7, SMTT(20), Z3T(20) DEF Histories
      <3> QED BY <3>4, <3>6, <3>7, Zenon
    <2>7. Histories'
      BY <2>6, Zenon DEF Histories, Live
    <2> QED BY <2>5, <2>7, Zenon
  <1>d. CASE HeadStays(op, res)
    <2>1. /\ sm'.state = sm.state /\ sm'.retired = sm.retired
          /\ origin' = origin /\ frozen' = frozen
      BY <1>d, Zenon DEF HeadStays
    <2> QED BY <1>3, <2>1, SMTT(20), Z3T(20) DEF KeysPartition, Histories, Live
  <1> QED BY <1>a, <1>b, <1>c, <1>d, CommitEffects, Parts, Zenon

(* A key's control key and origin, once recorded, are never overwritten. *)
LEMMA CommitKeepsHistory ==
    ASSUME IInv, NEW e \in pending, Commit(e), NEW k \in PcrKey
    PROVE  /\ frozen[k] # None => frozen'[k] = frozen[k]
           /\ origin[k] # None => origin'[k] = origin[k]
  <1> DEFINE op == e.op
             res == ApplyOne(sm, op).res
  <1>1. /\ op \in Op
        /\ origin \in [PcrKey -> PcrKey \cup {None}]
        /\ frozen \in [PcrKey -> Pubkey \cup {None}]
    BY Parts, Types, Zenon
  <1>2. KeysPartition
    BY Parts, Zenon
  <1>a. CASE HeadStarts(op, res)
    <2>1. op.key \in PcrKey
      BY <1>1, <1>a, OpFields, Zenon DEF HeadStarts
    <2>2. origin[op.key] = None /\ frozen[op.key] = None
      BY <1>2, <1>a, <2>1, Zenon DEF HeadStarts, KeysPartition
    <2> QED BY <1>1, <1>a, <2>1, <2>2, Zenon DEF HeadStarts
  <1>b. CASE HeadExtends(op, res)
    BY <1>b, Zenon DEF HeadExtends
  <1>c. CASE HeadMoves(op, res)
    <2>1. op.new_key \in PcrKey
      BY <1>1, <1>c, OpFields, Zenon DEF HeadMoves
    <2>2. origin[op.new_key] = None /\ frozen[op.new_key] = None
      BY <1>2, <1>c, <2>1, Zenon DEF HeadMoves, KeysPartition
    <2> QED BY <1>1, <1>c, <2>1, <2>2, Zenon DEF HeadMoves
  <1>d. CASE HeadStays(op, res)
    BY <1>d, Zenon DEF HeadStays
  <1> QED BY <1>a, <1>b, <1>c, <1>d, CommitEffects, Parts, Zenon

(* The control keys after a commit. *)
LEMMA CommitKeepsFrozen ==
    ASSUME IInv, NEW e \in pending, Commit(e)
    PROVE  FrozenAlways' /\ LinksVerified' /\ TransitionsAuthorized'
  <1> DEFINE op == e.op
             res == ApplyOne(sm, op).res
  <1>1. op \in Op /\ sm \in StateMachine /\ \A j \in 0..Len(log) : StateAt(j) \in StateMachine
    BY StateAtType, Parts, Types, Zenon
  <1>2. /\ sm.state \in [PcrKey -> KeyState \cup {None}]
        /\ frozen \in [PcrKey -> Pubkey \cup {None}]
    BY <1>1, MachineFields, Parts, Types, Zenon
  <1>3. Len(log) \in Nat /\ Len(log') = Len(log) + 1 /\ sm = StateAt(Len(log))
    BY CommitAppends, Parts, Zenon DEF sm
  <1>4. \A k \in PcrKey : Live(sm, k) => sm.state[k].control_pubkey = frozen[k]
    BY <1>3, Parts, SMTT(20), Z3T(20) DEF FrozenAlways
  <1>5. \A k \in PcrKey : frozen[k] \in Pubkey => frozen'[k] = frozen[k]
    BY CommitKeepsHistory, NoneIsNoPubkey, Zenon
  <1>6. \A k \in PcrKey : Live(sm', k) => sm'.state[k].control_pubkey = frozen'[k]
    <2>a. CASE HeadStarts(op, res)
      <3>1. op.key \in PcrKey
        BY <1>1, <2>a, OpFields, Zenon DEF HeadStarts
      <3> QED BY <1>2, <1>4, <2>a, <3>1, SMTT(20), Z3T(20) DEF HeadStarts, Live
    <2>b. CASE HeadExtends(op, res)
      <3>1. op.key \in PcrKey
        BY <1>1, <2>b, OpFields, Zenon DEF HeadExtends
      <3> QED BY <1>2, <1>4, <2>b, <3>1, SMTT(20), Z3T(20) DEF HeadExtends, Live
    <2>c. CASE HeadMoves(op, res)
      <3>1. op.old_key \in PcrKey /\ op.new_key \in PcrKey
        BY <1>1, <2>c, OpFields, Zenon DEF HeadMoves
      <3> QED BY <1>2, <1>4, <2>c, <3>1, SMTT(20), Z3T(20) DEF HeadMoves, Live
    <2>d. CASE HeadStays(op, res)
      BY <1>4, <2>d, Zenon DEF HeadStays, Live
    <2> QED BY <2>a, <2>b, <2>c, <2>d, CommitEffects, Parts, Zenon
  <1>7. FrozenAlways'
    <2> SUFFICES ASSUME NEW j \in 0..Len(log'), NEW k \in PcrKey, Live(StateAt(j)', k)
                 PROVE  StateAt(j)'.state[k].control_pubkey = frozen'[k]
      BY Zenon DEF FrozenAlways
    <2>1. CASE j \in 0..Len(log)
      <3> DEFINE s == StateAt(j)
      <3>1. StateAt(j)' = s
        BY <2>1, CommitAppends, Parts, Zenon
      <3>2. s \in StateMachine /\ Live(s, k)
        BY <1>1, <2>1, <3>1, Zenon
      <3>3. s.state[k].control_pubkey = frozen[k]
        BY <2>1, <3>2, Parts, Zenon DEF FrozenAlways
      <3>4. s.state[k].control_pubkey \in Pubkey
        <4> HIDE DEF s
        <4> QED BY <3>2, MachineFields, Zenon DEF Live, KeyState
      <3> QED BY <1>5, <3>1, <3>3, <3>4, Zenon
    <2>2. CASE j = Len(log) + 1
      <3>1. StateAt(j)' = sm'
        BY <2>2, CommitAppends, Parts, Zenon
      <3> QED BY <1>6, <3>1, Zenon
    <2> QED BY <1>3, <2>1, <2>2, SMTT(20), Z3T(20)
  <1>8. LinksVerified'
    <2>1. calls' = calls /\ pending' = pending \ {e}
      BY CommitAppends, Parts, Zenon
    <2>2. ASSUME NEW i \in Call, calls[i].pc = "verify"
          PROVE  calls[i].val = frozen'[calls[i].req.link.from]
      <3>1. CallOK(calls[i]) /\ calls[i].val = frozen[calls[i].req.link.from]
        BY <2>2, Parts, Zenon DEF CallsOK, LinksVerified
      <3>2. calls[i].val \in Pubkey /\ calls[i].req.link.from \in PcrKey
        BY <2>2, <3>1, RequestFields, Zenon DEF CallOK
      <3> QED BY <1>5, <3>1, <3>2, Zenon
    <2>3. ASSUME NEW p \in pending, p.op.type = "Transition"
          PROVE  p.op.signer = frozen'[p.op.old_key]
      <3>1. p.op \in Op /\ p.op.signer = frozen[p.op.old_key]
        BY <2>3, Parts, Types, Zenon DEF LinksVerified
      <3>2. p.op.signer \in Pubkey /\ p.op.old_key \in PcrKey
        BY <2>3, <3>1, OpFields, Zenon
      <3> QED BY <1>5, <3>1, <3>2, Zenon
    <2> QED BY <2>1, <2>2, <2>3, Zenon DEF LinksVerified
  <1>9. TransitionsAuthorized'
    <2> SUFFICES ASSUME NEW j \in 1..Len(log'), Effective(j, "Transition")'
                 PROVE  log'[j].op.signer = frozen'[log'[j].op.old_key]
      BY Zenon DEF TransitionsAuthorized
    <2>1. CASE j \in 1..Len(log)
      <3>1. log'[j] = log[j] /\ log[j] \in Entry
        BY <2>1, CommitAppends, Parts, Types, SMTT(20), Z3T(20)
      <3>2. log[j].op \in Op /\ log[j].op.type = "Transition" /\ Effective(j, "Transition")
        BY <3>1, Zenon DEF Entry, Effective
      <3>3. log[j].op.signer = frozen[log[j].op.old_key]
        BY <2>1, <3>2, Parts, Zenon DEF TransitionsAuthorized
      <3>4. log[j].op.signer \in Pubkey /\ log[j].op.old_key \in PcrKey
        BY <3>2, OpFields, Zenon
      <3> QED BY <1>5, <3>1, <3>3, <3>4, Zenon
    <2>2. CASE j = Len(log) + 1
      <3>1. log'[j] = Entered(e)
        BY <2>2, CommitAppends, Parts, Zenon
      <3>2. log'[j].op = op
        BY <3>1, SMTT(20), Z3T(20) DEF Entered
      <3>3. op.type = "Transition"
        BY <3>2, Zenon DEF Effective
      <3>4. op.signer = frozen[op.old_key] /\ op.signer \in Pubkey /\ op.old_key \in PcrKey
        BY <1>1, <3>3, OpFields, Parts, Zenon DEF LinksVerified
      <3> QED BY <1>5, <3>2, <3>4, Zenon
    <2> QED BY <1>3, <2>1, <2>2, SMTT(20), Z3T(20)
  <1> QED BY <1>7, <1>8, <1>9, Zenon

(* The entry a commit appends. *)
LEMMA CommitEntry ==
    ASSUME TypeOK, NEW e \in pending, Commit(e)
    PROVE  /\ \A j \in 1..Len(log) : log'[j] = log[j] /\ log[j] \in Entry
           /\ \A j \in 1..Len(log') : j \in 1..Len(log) \/ j = Len(log) + 1
           /\ \A j : j = Len(log) + 1 =>
                 /\ log'[j].op = e.op /\ log'[j].call = e.call
                 /\ log'[j].res = ApplyOne(sm, e.op).res
                 /\ e.op.type = "Pin" => log'[j].origin = origin[e.op.key]
           /\ Len(log) \in Nat /\ e.op \in Op /\ e.call \in Call
  <1>1. /\ \A j \in 1..Len(log) : log'[j] = log[j]
        /\ log'[Len(log) + 1] = Entered(e)
        /\ Len(log) \in Nat /\ Len(log') = Len(log) + 1
    BY CommitAppends, Zenon
  <1>2. \A j \in 1..Len(log) : log[j] \in Entry
    BY Types, SMTT(20), Z3T(20)
  <1>3. e.op \in Op /\ e.call \in Call
    BY Types, Zenon
  <1>4. /\ Entered(e).op = e.op /\ Entered(e).call = e.call
        /\ Entered(e).res = ApplyOne(sm, e.op).res
        /\ e.op.type = "Pin" => Entered(e).origin = origin[e.op.key]
    BY Zenon DEF Entered, Subject
  <1> QED BY <1>1, <1>2, <1>3, <1>4, SMTT(20), Z3T(20)

(* The pins after a commit. *)
LEMMA CommitKeepsPins ==
    ASSUME IInv, NEW e \in pending, Commit(e)
    PROVE  PinsBehind' /\ PinsNeverFork'
  <1> DEFINE op == e.op
             res == ApplyOne(sm, op).res
             L == Len(log)
  <1>1. op \in Op /\ sm \in StateMachine /\ L \in Nat
    BY StateAtType, CommitEntry, Parts, Types, Zenon
  <1>2. /\ sm.state \in [PcrKey -> KeyState \cup {None}]
        /\ origin \in [PcrKey -> PcrKey \cup {None}]
    BY <1>1, MachineFields, Parts, Types, Zenon
  <1>3. KeysPartition /\ Histories /\ PinsBehind /\ PinsNeverFork
    BY Parts, Zenon
  <1>4. \A k \in PcrKey : Live(sm, k) => sm.state[k].version \in Nat
    BY <1>2, Zenon DEF Live, KeyState
  <1>5. ASSUME NEW j \in 1..L, Effective(j, "Pin")
        PROVE  /\ log[j].op.key \in PcrKey /\ log[j].op.expected_version \in Nat
               /\ log[j].origin = origin[log[j].op.key] /\ log[j].origin \in PcrKey
               /\ log[j].origin # None /\ origin[log[j].origin] # None
    <2>1. log[j].op \in Op /\ log[j].op.type = "Pin"
      BY <1>5, CommitEntry, Parts, Zenon DEF Entry, Effective
    <2>2. log[j].op.key \in PcrKey /\ log[j].op.expected_version \in Nat
      BY <2>1, OpFields, Zenon
    <2>3. log[j].origin = origin[log[j].op.key] /\ log[j].origin # None
      BY <1>3, <1>5, Zenon DEF PinsBehind
    <2>4. origin[log[j].origin] = log[j].origin
      BY <1>3, <2>2, <2>3, Zenon DEF Histories
    <2> QED BY <1>2, <2>2, <2>3, <2>4, Zenon
  <1>6. op.type = "Pin" /\ res = "Applied" =>
               /\ op.key \in PcrKey /\ op.expected_version \in Nat
               /\ Live(sm, op.key) /\ sm.state[op.key].version = op.expected_version
               /\ origin[op.key] # None /\ origin' = origin
               /\ \A l \in PcrKey : Live(sm', l) => Live(sm, l)
               /\ \A l \in PcrKey : l # op.key => sm'.state[l] = sm.state[l]
               /\ sm'.state[op.key].version = op.expected_version + 1
    <2> HAVE op.type = "Pin" /\ res = "Applied"
    <2>1. HeadExtends(op, res)
      BY CommitEffects, Parts, Zenon DEF HeadStarts, HeadExtends, HeadMoves, HeadStays
    <2>2. op.key \in PcrKey /\ op.expected_version \in Nat
      BY <1>1, OpFields, Zenon
    <2>3. Live(sm, op.key) /\ origin[op.key] # None
      BY <1>3, <2>1, <2>2, Zenon DEF HeadExtends, KeysPartition
    <2> DEFINE new == [commitment |-> op.commitment, version |-> op.expected_version + 1,
                       control_pubkey |-> sm.state[op.key].control_pubkey]
    <2>4. /\ sm'.state = [sm.state EXCEPT ![op.key] = new] /\ origin' = origin
          /\ sm.state[op.key].version = op.expected_version
      BY <2>1, Zenon DEF HeadExtends
    <2>5. new.version = op.expected_version + 1
      BY Zenon
    <2> HIDE DEF new
    <2>6. /\ sm'.state[op.key] = new
          /\ \A l \in PcrKey : l # op.key => sm'.state[l] = sm.state[l]
      BY <1>2, <2>2, <2>4, Zenon
    <2>7. \A l \in PcrKey : Live(sm', l) => Live(sm, l)
      BY <2>3, <2>6, Zenon DEF Live
    <2>8. sm'.state[op.key].version = op.expected_version + 1
      BY <2>5, <2>6, Zenon
    <2> QED BY <2>2, <2>3, <2>4, <2>6, <2>7, <2>8, Zenon
  (* A head that is live after the step was one before, or took one over. *)
  <1>7. ASSUME NEW k \in PcrKey, Live(sm', k)
        PROVE  \/ /\ op.type = "Register" /\ res = "Applied" /\ k = op.key
                  /\ origin'[k] = k /\ origin[k] = None
               \/ \E l \in PcrKey : /\ Live(sm, l) /\ origin'[k] = origin[l]
                                     /\ sm.state[l].version <= sm'.state[k].version
    <2>a. CASE HeadStarts(op, res)
      <3>1. op.key \in PcrKey /\ origin[op.key] = None
        BY <1>1, <1>3, <2>a, OpFields, Zenon DEF HeadStarts, KeysPartition
      <3>2. CASE k = op.key
        BY <1>2, <2>a, <3>1, <3>2, Zenon DEF HeadStarts
      <3>3. CASE k # op.key
        <4>1. sm'.state[k] = sm.state[k] /\ origin'[k] = origin[k]
          BY <1>2, <2>a, <3>1, <3>3, Zenon DEF HeadStarts
        <4> QED BY <1>4, <1>7, <4>1, SMTT(20), Z3T(20) DEF Live
      <3> QED BY <3>2, <3>3, Zenon
    <2>b. CASE HeadExtends(op, res)
      <3>1. op.type = "Pin" /\ res = "Applied"
        BY <2>b, Zenon DEF HeadExtends
      <3>2. Live(sm, k) /\ origin'[k] = origin[k]
        BY <1>6, <1>7, <3>1, Zenon
      <3>3. sm.state[k].version <= sm'.state[k].version
        BY <1>4, <1>6, <3>1, <3>2, SMTT(20), Z3T(20)
      <3> QED BY <3>2, <3>3, Zenon
    <2>c. CASE HeadMoves(op, res)
      <3>1. op.old_key \in PcrKey /\ op.new_key \in PcrKey
        BY <1>1, <2>c, OpFields, Zenon DEF HeadMoves
      <3>2. CASE k = op.new_key
        <4>1. Live(sm, op.old_key) /\ origin'[k] = origin[op.old_key]
          BY <1>2, <2>c, <3>1, <3>2, ZenonT(30) DEF HeadMoves
        <4> DEFINE new == [commitment |-> sm.state[op.old_key].commitment,
                           version |-> sm.state[op.old_key].version,
                           control_pubkey |-> op.new_control_pubkey]
        <4>a. sm'.state = [sm.state EXCEPT ![op.old_key] = None, ![op.new_key] = new]
          BY <2>c, Zenon DEF HeadMoves
        <4>b. new.version = sm.state[op.old_key].version
          BY Zenon
        <4> HIDE DEF new
        <4>c. sm'.state[k] = new
          BY <1>2, <3>1, <3>2, <4>a, Zenon
        <4>2. sm'.state[k].version = sm.state[op.old_key].version
          BY <4>b, <4>c, Zenon
        <4> QED BY <1>4, <3>1, <4>1, <4>2, SMTT(20), Z3T(20)
      <3>3. CASE k # op.new_key
        <4>1. k # op.old_key
          BY <1>2, <1>7, <2>c, <3>1, <3>3, Zenon DEF HeadMoves, Live
        <4>2. sm'.state[k] = sm.state[k] /\ origin'[k] = origin[k]
          BY <1>2, <2>c, <3>1, <3>3, <4>1, Zenon DEF HeadMoves
        <4> QED BY <1>4, <1>7, <4>2, SMTT(20), Z3T(20) DEF Live
      <3> QED BY <3>2, <3>3, Zenon
    <2>d. CASE HeadStays(op, res)
      <3>1. sm'.state[k] = sm.state[k] /\ origin'[k] = origin[k]
        BY <2>d, Zenon DEF HeadStays
      <3> QED BY <1>4, <1>7, <3>1, SMTT(20), Z3T(20) DEF Live
    <2> QED BY <2>a, <2>b, <2>c, <2>d, CommitEffects, Parts, Zenon
  <1>8. PinsBehind'
    <2> SUFFICES ASSUME NEW j \in 1..Len(log'), Effective(j, "Pin")'
                 PROVE  /\ log'[j].origin = origin'[log'[j].op.key] /\ log'[j].origin # None
                        /\ \A k \in PcrKey : Live(sm', k) /\ origin'[k] = log'[j].origin
                              => log'[j].op.expected_version < sm'.state[k].version
      BY Zenon DEF PinsBehind
    <2>1. CASE j \in 1..L
      <3>1. log'[j] = log[j] /\ Effective(j, "Pin")
        BY <2>1, CommitEntry, Parts, Zenon DEF Effective
      <3>2. origin'[log[j].op.key] = origin[log[j].op.key]
        BY <1>5, <2>1, <3>1, CommitKeepsHistory, Zenon
      <3>3. ASSUME NEW k \in PcrKey, Live(sm', k), origin'[k] = log[j].origin
            PROVE  log[j].op.expected_version < sm'.state[k].version
        <4>1. PICK l \in PcrKey : /\ Live(sm, l) /\ origin'[k] = origin[l]
                                  /\ sm.state[l].version <= sm'.state[k].version
          BY <1>5, <1>7, <2>1, <3>1, <3>3, SMTT(20), Z3T(20)
        <4>2. log[j].op.expected_version < sm.state[l].version
          BY <1>3, <2>1, <3>1, <3>3, <4>1, Zenon DEF PinsBehind
        <4>3. sm.state[l].version \in Nat /\ log[j].op.expected_version \in Nat
          BY <1>4, <1>5, <2>1, <3>1, <4>1, Zenon
        <4>4. sm'.state[k].version \in Nat
          <5>1. sm' \in StateMachine
            BY <1>1, ApplyOneType, CommitAppends, Parts, Zenon
          <5> QED BY <3>3, <5>1, MachineFields, Zenon DEF Live, KeyState
        <4> QED BY <4>1, <4>2, <4>3, <4>4, SMTT(20), Z3T(20)
      <3> QED BY <1>5, <2>1, <3>1, <3>2, <3>3, Zenon
    <2>2. CASE j = L + 1
      <3>1. log'[j].op = op /\ log'[j].res = res
            /\ (op.type = "Pin" => log'[j].origin = origin[op.key])
        BY <2>2, CommitEntry, Parts, Zenon
      <3>2. op.type = "Pin" /\ res = "Applied"
        BY <3>1, Zenon DEF Effective
      <3>3. ASSUME NEW k \in PcrKey, Live(sm', k), origin'[k] = log'[j].origin
            PROVE  op.expected_version < sm'.state[k].version
        <4>1. Live(sm, k) /\ Live(sm, op.key) /\ origin[k] = origin[op.key] /\ origin[k] # None
          BY <1>6, <3>1, <3>2, <3>3, Zenon
        <4>2. k = op.key
          BY <1>3, <1>6, <3>2, <4>1, Zenon DEF Histories
        <4> QED BY <1>6, <3>2, <4>2, SMTT(20), Z3T(20)
      <3> QED BY <1>6, <3>1, <3>2, <3>3, Zenon
    <2> QED BY <2>1, <2>2, CommitEntry, Parts, Zenon
  <1>9. PinsNeverFork'
    <2> SUFFICES ASSUME NEW i \in 1..Len(log'), NEW j \in 1..Len(log'), i < j,
                        log'[i].origin = log'[j].origin,
                        Effective(i, "Pin")', Effective(j, "Pin")'
                 PROVE  log'[i].op.expected_version < log'[j].op.expected_version
      BY Zenon DEF PinsNeverFork
    <2>1. i \in 1..L
      BY <1>1, CommitEntry, Parts, SMTT(20), Z3T(20)
    <2>2. log'[i] = log[i] /\ Effective(i, "Pin")
      BY <2>1, CommitEntry, Parts, Zenon DEF Effective
    <2>3. CASE j \in 1..L
      <3>1. log'[j] = log[j] /\ Effective(j, "Pin")
        BY <2>3, CommitEntry, Parts, Zenon DEF Effective
      <3> QED BY <1>3, <2>1, <2>2, <2>3, <3>1, Zenon DEF PinsNeverFork
    <2>4. CASE j = L + 1
      <3>1. log'[j].op = op /\ log'[j].res = res
            /\ (op.type = "Pin" => log'[j].origin = origin[op.key])
        BY <2>4, CommitEntry, Parts, Zenon
      <3>2. op.type = "Pin" /\ res = "Applied"
        BY <3>1, Zenon DEF Effective
      <3>3. log[i].op.expected_version < sm.state[op.key].version
        BY <1>3, <1>6, <2>1, <2>2, <3>1, <3>2, Zenon DEF PinsBehind
      <3> QED BY <1>6, <2>2, <3>1, <3>2, <3>3, Zenon
    <2> QED BY <2>3, <2>4, CommitEntry, Parts, Zenon
  <1> QED BY <1>8, <1>9, Zenon

(* What the log and the state say of an entry's copies after a commit. *)
LEMMA CommitKeepsTraces ==
    ASSUME IInv, NEW e \in pending, Commit(e)
    PROVE  WritesLeaveTrace' /\ EntriesAreRequests' /\ AppliedOnce' /\ RevocationHolds'
  <1> DEFINE op == e.op
             res == ApplyOne(sm, op).res
             L == Len(log)
  <1>1. op \in Op /\ e.call \in Call /\ L \in Nat
    BY CommitEntry, Parts, Zenon
  <1>2. /\ KeysPartition /\ PinsBehind /\ WritesLeaveTrace /\ EntriesAreRequests
        /\ AppliedOnce /\ RevocationHolds
    BY Parts, Zenon
  <1>3. \A j \in 1..Len(log') : j \in 1..L \/ j = L + 1
    BY CommitEntry, Parts, Zenon
  <1>4. \A j \in 1..L : log'[j] = log[j] /\ log[j] \in Entry
    BY CommitEntry, Parts, Zenon
  <1>5. ASSUME NEW j, j = L + 1
        PROVE  log'[j].op = op /\ log'[j].call = e.call /\ log'[j].res = res
    BY <1>5, CommitEntry, Parts, Zenon
  <1>6. /\ sm.retired \subseteq sm'.retired
        /\ \A k \in PcrKey : sm.revoked_links[k] \subseteq sm'.revoked_links[k]
        /\ op.type = "Register" /\ res = "Applied" => HeadStarts(op, res)
        /\ op.type = "Pin" /\ res = "Applied" => HeadExtends(op, res)
        /\ op.type = "Transition" /\ res = "Applied" => HeadMoves(op, res)
        /\ op.type = "Revoke" /\ res = "Applied" => HeadStays(op, res)
    BY CommitEffects, Parts, Zenon DEF HeadStarts, HeadExtends, HeadMoves, HeadStays
  <1>7. ASSUME NEW j \in 1..L
        PROVE  log[j].op \in Op /\ log[j].call \in Call
    BY <1>4, Zenon DEF Entry
  <1>8. WritesLeaveTrace'
    <2> SUFFICES ASSUME NEW j \in 1..Len(log'), log'[j].res = "Applied"
                 PROVE  /\ log'[j].op.type = "Register" => origin'[log'[j].op.key] # None
                        /\ log'[j].op.type = "Transition" =>
                              log'[j].op.old_key \in sm'.retired
                        /\ log'[j].op.type = "Revoke" =>
                              log'[j].op.link_hash \in sm'.revoked_links[log'[j].op.key]
      BY Zenon DEF WritesLeaveTrace, Effective
    <2>1. CASE j \in 1..L
      <3> DEFINE o == log[j].op
      <3>1. log'[j].op = o /\ log[j].res = "Applied" /\ o \in Op
        BY <1>4, <1>7, <2>1, Zenon
      <3>2. /\ o.type = "Register" => origin[o.key] # None
            /\ o.type = "Transition" => o.old_key \in sm.retired
            /\ o.type = "Revoke" => o.link_hash \in sm.revoked_links[o.key]
        BY <1>2, <2>1, <3>1, Zenon DEF WritesLeaveTrace, Effective
      <3>3. o.type = "Register" => origin'[o.key] # None
        BY <3>1, <3>2, OpFields, CommitKeepsHistory, Zenon
      <3>4. o.type = "Revoke" => o.key \in PcrKey
        BY <3>1, OpFields, Zenon
      <3> HIDE DEF o
      <3> QED BY <1>6, <3>1, <3>2, <3>3, <3>4, Zenon
    <2>2. CASE j = L + 1
      <3>1. log'[j].op = op /\ res = "Applied"
        BY <1>5, <2>2, Zenon
      <3>2. op.type = "Register" => origin'[op.key] # None
        <4>1. SUFFICES ASSUME op.type = "Register" PROVE origin'[op.key] # None
          BY Zenon
        <4>2. op.key \in PcrKey /\ origin' = [origin EXCEPT ![op.key] = op.key]
          BY <1>1, <1>6, <3>1, <4>1, OpFields, Zenon DEF HeadStarts
        <4> QED BY <4>2, NoneIsNoKey, Parts, Types, Zenon
      <3>3. op.type = "Transition" => op.old_key \in sm'.retired
        BY <1>6, <3>1, Zenon DEF HeadMoves
      <3>4. op.type = "Revoke" => op.link_hash \in sm'.revoked_links[op.key]
        BY <1>6, <3>1, Zenon DEF HeadStays
      <3> QED BY <3>1, <3>2, <3>3, <3>4, Zenon
    <2> QED BY <1>3, <2>1, <2>2, Zenon
  <1>9. EntriesAreRequests'
    <2>1. calls' = calls /\ pending' = pending \ {e}
      BY CommitAppends, Parts, Zenon
    <2>2. ASSUME NEW j \in 1..Len(log')
          PROVE  calls[log'[j].call].pc # "idle" /\ log'[j].op = OpOf(calls[log'[j].call].req)
      <3>1. CASE j \in 1..L
        BY <1>2, <1>4, <3>1, Zenon DEF EntriesAreRequests
      <3>2. CASE j = L + 1
        BY <1>2, <1>5, <3>2, Zenon DEF EntriesAreRequests
      <3> QED BY <1>3, <3>1, <3>2, Zenon
    <2> QED BY <1>2, <2>1, <2>2, Zenon DEF EntriesAreRequests
  (* An earlier entry and the new one are copies of one request. *)
  <1>10. ASSUME NEW i \in 1..L, log[i].call = e.call, log[i].res = "Applied", res = "Applied"
         PROVE  op.type = "Revoke" /\ log[i].op = op
    <2>1. log[i].op = op
      BY <1>2, <1>10, Zenon DEF EntriesAreRequests
    <2>2. op.type # "Register"
      <3>1. SUFFICES ASSUME op.type = "Register" PROVE FALSE
        BY Zenon
      <3>2. op.key \in PcrKey /\ origin[op.key] # None
        BY <1>1, <1>2, <1>10, <2>1, <3>1, OpFields, Zenon DEF WritesLeaveTrace, Effective
      <3> QED BY <1>2, <1>6, <1>10, <3>1, <3>2, Zenon DEF KeysPartition, HeadStarts
    <2>3. op.type # "Pin"
      <3>1. SUFFICES ASSUME op.type = "Pin" PROVE FALSE
        BY Zenon
      <3>2. /\ op.key \in PcrKey /\ op.expected_version \in Nat /\ Live(sm, op.key)
            /\ sm.state[op.key].version = op.expected_version
        BY <1>1, <1>6, <1>10, <3>1, OpFields, Zenon DEF HeadExtends
      <3>3. op.expected_version < sm.state[op.key].version
        BY <1>2, <1>10, <2>1, <3>1, <3>2, Zenon DEF PinsBehind, Effective
      <3> QED BY <3>2, <3>3, SMTT(20), Z3T(20)
    <2>4. op.type # "Transition"
      <3>1. SUFFICES ASSUME op.type = "Transition" PROVE FALSE
        BY Zenon
      <3>2. op.old_key \in PcrKey /\ op.old_key \in sm.retired
        BY <1>1, <1>2, <1>10, <2>1, <3>1, OpFields, Zenon DEF WritesLeaveTrace, Effective
      <3> QED BY <1>2, <1>6, <1>10, <3>1, <3>2, Zenon DEF KeysPartition, HeadMoves
    <2> QED BY <1>1, <2>1, <2>2, <2>3, <2>4, OpFields, Zenon
  <1>11. AppliedOnce'
    <2> SUFFICES ASSUME NEW i \in 1..Len(log'), NEW j \in 1..Len(log'), i < j,
                        log'[i].call = log'[j].call,
                        log'[i].res = "Applied", log'[j].res = "Applied"
                 PROVE  log'[i].op.type = "Revoke"
      BY Zenon DEF AppliedOnce
    <2>1. i \in 1..L /\ log'[i] = log[i]
      BY <1>1, <1>3, <1>4, SMTT(20), Z3T(20)
    <2>2. CASE j \in 1..L
      BY <1>2, <1>4, <2>1, <2>2, Zenon DEF AppliedOnce
    <2>3. CASE j = L + 1
      BY <1>5, <1>10, <2>1, <2>3, Zenon
    <2> QED BY <1>3, <2>2, <2>3, Zenon
  <1>12. RevocationHolds'
    <2> SUFFICES ASSUME NEW i \in 1..Len(log'), NEW j \in 1..Len(log'), i < j,
                        Effective(i, "Revoke")', Effective(j, "Transition")',
                        log'[i].op.key = log'[j].op.old_key
                 PROVE  log'[i].op.link_hash # log'[j].op.link_hash
      BY Zenon DEF RevocationHolds
    <2>1. i \in 1..L /\ log'[i] = log[i] /\ Effective(i, "Revoke")
      BY <1>1, <1>3, <1>4, SMTT(20), Z3T(20) DEF Effective
    <2>2. CASE j \in 1..L
      BY <1>2, <1>4, <2>1, <2>2, Zenon DEF RevocationHolds, Effective
    <2>3. CASE j = L + 1
      <3>1. log'[j].op = op /\ op.type = "Transition" /\ res = "Applied"
        BY <1>5, <2>3, Zenon DEF Effective
      <3>2. log[i].op.link_hash \in sm.revoked_links[log[i].op.key]
        BY <1>2, <2>1, Zenon DEF WritesLeaveTrace
      <3>3. op.link_hash \notin sm.revoked_links[op.old_key]
        BY <1>6, <3>1, Zenon DEF HeadMoves
      <3> QED BY <2>1, <3>1, <3>2, <3>3, Zenon
    <2> QED BY <1>3, <2>2, <2>3, Zenon
  <1> QED BY <1>8, <1>9, <1>11, <1>12, Zenon

=============================================================================
