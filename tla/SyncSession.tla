---------------------------- MODULE SyncSession ----------------------------
(* Customer sessions of a synchronizer that runs as one node: enclaves dial   *)
(* through a relay, both ends attest over the Noise session, and then one     *)
(* request at a time is written, dispatched and answered.  Clones of an image *)
(* share a key and differ in their control keys; a client that gives up on an *)
(* answer drops its session, whose handler may still be working.              *)
(*                                                                            *)
(* The node takes the lock of its state machine twice for a request: to       *)
(* record the attestation, and to handle it.                                  *)
EXTENDS Integers, Sequences

CONSTANTS
    Enclaves,       \* customer enclaves
    KeyOf,          \* Enclaves -> the key of their image
    ControlKeyOf,   \* Enclaves -> their control public key
    Requests,       \* the requests clients issue
    NoState,        \* Option::None of the state machine
    MaxDials,       \* bound: sessions in a behaviour
    MaxRpcs         \* bound: requests in a behaviour

PcrKeys == {KeyOf[e] : e \in Enclaves}

SM == INSTANCE SyncMachine WITH
          PcrKey <- PcrKeys, Commitment <- {"c0", "c1"}, Pubkey <- {ControlKeyOf[e] : e \in Enclaves},
          LinkHash <- {"h"}, None <- NoState, UpgradeWindowMin <- 1, TransitionClockTolerance <- 0

VARIABLES
    machine,    \* the state machine behind the mutex
    sessions,   \* every session dialled: both ends and what is in flight
    client,     \* Enclaves -> its session, 0 when it has none
    rpcs,       \* requests issued so far, hence the tag of the next one
    accepted,   \* the answers clients took: [asked, answered] tags
    frozenBy    \* PcrKeys -> the enclaves that attested the key so far

sessionVars == <<machine, sessions, client, rpcs, accepted, frozenBy>>

NoDoc == [kind |-> "none", nonce |-> 0]

\* An attestation document: whose it is, and the session hash it is bound to.
Doc(kind, nonce) == [kind |-> kind, nonce |-> nonce]

SetSession(s, fields) == sessions' = [sessions EXCEPT ![s] = fields]

-----------------------------------------------------------------------------
(* The client                                                                 *)

\* Handshake::start: the stream leads to a synchronizer, or the relay ends it.
Start(e, peer) ==
    /\ client[e] = 0
    /\ Len(sessions) < MaxDials
    /\ sessions' = Append(sessions, [owner |-> e, peer |-> peer, at |-> "hello", srv |-> "auth",
                                     inbox |-> <<>>, outbox |-> <<>>, doc |-> NoDoc, asked |-> 0])
    /\ client' = [client EXCEPT ![e] = Len(sessions) + 1]
    /\ UNCHANGED <<machine, rpcs, accepted, frozenBy>>

\* Handshake::authenticate: the document of this enclave, bound to this session
Authenticate(s) ==
    /\ sessions[s].at = "hello"
    /\ SetSession(s, [sessions[s] EXCEPT !.at = "proof", !.inbox = <<[op |-> "Authenticate", tag |-> 0]>>])
    /\ UNCHANGED <<machine, client, rpcs, accepted, frozenBy>>

\* ServerPcrPolicy::Expected: the measurements of the deployed synchronizer
ExpectedServer(doc) == doc.kind = "synchronizer"

\* verify_server_attestation: those measurements, and this session's hash
VerifyServerAttestation(doc, s) == ExpectedServer(doc) /\ doc.nonce = s

\* The session is given up; what was sent on it stays sent.
Drop(s) ==
    /\ sessions' = [sessions EXCEPT ![s].at = "gone"]
    /\ client' = [client EXCEPT ![sessions[s].owner] = 0]

ReadServerProof(s) ==
    /\ sessions[s].at = "proof" /\ sessions[s].doc # NoDoc
    /\ IF VerifyServerAttestation(sessions[s].doc, s)
       THEN sessions' = [sessions EXCEPT ![s].at = "ready"] /\ UNCHANGED client
       ELSE Drop(s)
    /\ UNCHANGED <<machine, rpcs, accepted, frozenBy>>

\* Client::rpc up to its read
Rpc(s, request) ==
    /\ sessions[s].at = "ready" /\ rpcs < MaxRpcs
    /\ rpcs' = rpcs + 1
    /\ SetSession(s, [sessions[s] EXCEPT !.at = "waiting", !.asked = rpcs + 1,
                          !.inbox = Append(@, [op |-> request.op, req |-> request, tag |-> rpcs + 1])])
    /\ UNCHANGED <<machine, client, accepted, frozenBy>>

\* read_response: the next frame of the session, whatever request it answers
NextResponse(s) == Head(sessions[s].outbox)

\* register, pin, get, transition, revoke: the caller takes what was read, a value or
\* an error, for the answer to what it asked.
ReadResponse(s) ==
    /\ sessions[s].at = "waiting" /\ sessions[s].outbox # <<>>
    /\ LET answer == NextResponse(s)
       IN  /\ accepted' = accepted \cup {[asked |-> sessions[s].asked, answered |-> answer.tag]}
           /\ SetSession(s, [sessions[s] EXCEPT !.at = "ready", !.outbox = Tail(@)])
    /\ UNCHANGED <<machine, client, rpcs, frozenBy>>

\* Mutant: the session is kept after a timeout.
TimesOut_Keeps(s) ==
    /\ sessions[s].at \in {"hello", "proof", "waiting"}
    /\ SetSession(s, [sessions[s] EXCEPT !.at = IF @ = "waiting" THEN "ready" ELSE @])
    /\ UNCHANGED <<machine, client, rpcs, accepted, frozenBy>>

\* SYNC_RPC_TIMEOUT, or the connection ends: PinFailure::Session, and only a new
\* session is used from then on.
TimesOut(s) ==
    /\ sessions[s].at \in {"hello", "proof", "ready", "waiting"}
    /\ Drop(s)
    /\ UNCHANGED <<machine, rpcs, accepted, frozenBy>>

-----------------------------------------------------------------------------
(* handle_connection                                                          *)

Closed(s) == sessions' = [sessions EXCEPT ![s].srv = "closed"]
Owner(s) == sessions[s].owner
AtNode(s, at) == sessions[s].peer = "node" /\ sessions[s].srv = at

\* The first frame: the document against trusted time and the hash, then the
\* node's own document, freshly made for this session.
AcceptAuthentication(s) ==
    /\ AtNode(s, "auth") /\ sessions[s].inbox # <<>>
    /\ SetSession(s, [sessions[s] EXCEPT !.srv = "serve", !.inbox = <<>>, !.doc = Doc("synchronizer", s)])
    /\ UNCHANGED <<machine, client, rpcs, accepted, frozenBy>>

\* No trusted time, a document refused, no attestation of its own: an error, and
\* the connection closes.
RefuseAuthentication(s) ==
    /\ AtNode(s, "auth") /\ sessions[s].inbox # <<>>
    /\ Closed(s)
    /\ UNCHANGED <<machine, client, rpcs, accepted, frozenBy>>

\* Something that is no synchronizer answers with a document it got elsewhere.
RelayAnswers(s, doc) ==
    /\ sessions[s].peer = "relay" /\ sessions[s].inbox # <<>> /\ sessions[s].doc = NoDoc
    /\ SetSession(s, [sessions[s] EXCEPT !.doc = doc])
    /\ UNCHANGED <<machine, client, rpcs, accepted, frozenBy>>

\* read_frame and the first lock: Node::observe_attestation
Observe(s) ==
    /\ AtNode(s, "serve") /\ sessions[s].inbox # <<>>
    /\ Head(sessions[s].inbox).op # "Authenticate"
    /\ SetSession(s, [sessions[s] EXCEPT !.srv = "handle"])
    /\ machine' = SM!ObserveAttestation(machine, KeyOf[Owner(s)], ControlKeyOf[Owner(s)])
    /\ frozenBy' = [frozenBy EXCEPT ![KeyOf[Owner(s)]] = @ \cup {Owner(s)}]
    /\ UNCHANGED <<client, rpcs, accepted>>

\* A second Authenticate is answered Unauthorized and ends the session.
Reauthenticates(s) ==
    /\ AtNode(s, "serve") /\ sessions[s].inbox # <<>>
    /\ Head(sessions[s].inbox).op = "Authenticate"
    /\ SetSession(s, [sessions[s] EXCEPT !.srv = "closed", !.inbox = Tail(@),
                          !.outbox = Append(@, [tag |-> Head(sessions[s].inbox).tag, res |-> "Unauthorized"])])
    /\ UNCHANGED <<machine, client, rpcs, accepted, frozenBy>>

Answer(res, st) == [res |-> res, st |-> st]
Outcome(r, ok) == Answer(IF r.res = "Applied" THEN ok ELSE SM!RpcError(r.res), r.st)

HandleGet(key, req) ==
    Answer(IF req.key # key THEN "Unauthorized"
           ELSE IF SM!Live(machine, key) THEN "GetOk" ELSE "NotFound", machine)

HandleRegister(key, req) ==
    IF req.key # key THEN Answer("Unauthorized", machine)
    ELSE Outcome(SM!ApplyRegister(machine, key, req.commitment), "RegisterOk")

HandlePin(key, req) ==
    IF req.key # key THEN Answer("Unauthorized", machine)
    ELSE Outcome(SM!ApplyPin(machine, key, req.expected, req.commitment), "PinOk")

\* now is trusted time, -1 without any
HandleTransition(key, req, now) ==
    IF now < 0 THEN Answer("Unavailable", machine)
    ELSE IF ~req.link.decodes \/ ~SM!Live(machine, req.link.from)
         \/ ~SM!VerifyTransitionLink(req.link, key, machine.state[req.link.from].control_pubkey, now)
    THEN Answer("TransitionRejected", machine)
    ELSE Outcome(SM!ApplyTransition(SM!ObserveTransition(machine, req.link.from, req.link.to),
                                    req.link.from, req.link.to, req.link.hash, req.commitment), "TransitionOk")

HandleRevoke(key, req) ==
    LET r == SM!ApplyRevoke(machine, key, req.link.hash)
    IN  IF /\ SM!Live(machine, key)
           /\ SM!VerifyRevocationLink(req.link, machine.state[key].control_pubkey)
           /\ r.res = "Applied"
        THEN Answer("RevokeOk", r.st)
        ELSE Answer("RevocationRejected", machine)

HandleRequest(key, req, now) ==
    CASE req.op = "Get" -> HandleGet(key, req)
      [] req.op = "Register" -> HandleRegister(key, req)
      [] req.op = "Pin" -> HandlePin(key, req)
      [] req.op = "Transition" -> HandleTransition(key, req, now)
      [] req.op = "Revoke" -> HandleRevoke(key, req)

\* The second lock, and the response; nobody may be left to read it.
Dispatch(s, now) ==
    /\ AtNode(s, "handle")
    /\ LET frame == Head(sessions[s].inbox)
           r == HandleRequest(KeyOf[Owner(s)], frame.req, now)
       IN  /\ frame.op # "Transition" => now = 1
           /\ machine' = r.st
           /\ SetSession(s, [sessions[s] EXCEPT !.srv = "serve", !.inbox = Tail(@),
                                 !.outbox = Append(@, [tag |-> frame.tag, res |-> r.res])])
    /\ UNCHANGED <<client, rpcs, accepted, frozenBy>>

\* read_frame sees the end of the stream once what was written has been read.
SessionEnds(s) ==
    /\ sessions[s].peer = "node" /\ sessions[s].srv \in {"auth", "serve"}
    /\ sessions[s].at = "gone" /\ sessions[s].inbox = <<>>
    /\ Closed(s)
    /\ UNCHANGED <<machine, client, rpcs, accepted, frozenBy>>

SessionInit ==
    /\ machine = SM!NewMachine
    /\ sessions = <<>>
    /\ client = [e \in Enclaves |-> 0]
    /\ rpcs = 0
    /\ accepted = {}
    /\ frozenBy = [k \in PcrKeys |-> {}]

SessionNext ==
    \/ \E e \in Enclaves, peer \in {"node", "relay"} : Start(e, peer)
    \/ \E s \in DOMAIN sessions :
         \/ Authenticate(s)
         \/ ReadServerProof(s)
         \/ \E r \in Requests : Rpc(s, r)
         \/ ReadResponse(s)
         \/ TimesOut(s)
         \/ AcceptAuthentication(s)
         \/ RefuseAuthentication(s)
         \/ \E doc \in {Doc("synchronizer", s + 1), Doc("other", s)} : RelayAnswers(s, doc)
         \/ Observe(s)
         \/ Reauthenticates(s)
         \/ \E now \in {-1, 0, 1} : Dispatch(s, now)
         \/ SessionEnds(s)

-----------------------------------------------------------------------------
(* Properties                                                                 *)

\* What a client takes for the answer to its request is the answer to that request,
\* however late an earlier one is answered (SyncPinner: a timeout is a dead session);
\* nothing but a synchronizer is ever sent a request (verify_server_attestation before
\* the first rpc); and a live key's frozen control key is one that an enclave of that
\* key attested before, whichever session's two locks fell where (Node::dispatch).
AnswersAreOwn ==
    /\ \A a \in accepted : a.asked = a.answered
    /\ \A s \in DOMAIN sessions : sessions[s].peer = "relay" => sessions[s].at \notin {"ready", "waiting"}
    /\ \A k \in PcrKeys : SM!Live(machine, k) =>
         \E e \in frozenBy[k] : ControlKeyOf[e] = machine.state[k].control_pubkey
=============================================================================
