------------------------------ MODULE MeshLink ------------------------------
(* One directed link of the peer mesh (synchronizer/src/mesh): the dial loop   *)
(* of a node towards one peer name, the mutual attestation and Hello exchange, *)
(* the RPC driver of the established channel, the accept side that serves it,  *)
(* and the callers of Mesh::call.                                              *)
(*                                                                             *)
(* An instance is one boot of a node: its name, its boot number (which stands  *)
(* for its per-boot key) and the image it runs.  The relay between the nodes   *)
(* is the host's: it may splice a dial to any node, the dialer itself included,*)
(* refuse it, stop moving bytes, or cut the stream.  Time is abstract: a       *)
(* deadline may pass whenever the code waits under one.                        *)
EXTENDS Naturals, Sequences, FiniteSets

CONSTANTS
    Self,           \* the dialing node's name
    Peer,           \* the configured name this link dials
    Elsewhere,      \* names the relay can also reach
    MeshCalls,      \* callers of Mesh::call
    OutCap,         \* the driver's queue of outbound envelopes (1024)
    WireCap,        \* frames a stream holds in each direction
    MaxConns,       \* bound: streams opened
    MaxWork,        \* bound: streams opened and calls made together
    MaxMeshBoots    \* bound: boots of the peer

VARIABLES
    peerUp,         \* the instance running under the peer's name
    loop,           \* the dial loop: where it is, on which connection
    conn,           \* the connections it opened
    slot,           \* the connection whose channel Mesh::call finds, or 0
    observed,       \* what observed_peer_pubkey answers for the peer
    mcall,          \* the callers
    nsmHung         \* /dev/nsm of the dialing node no longer answers

meshVars == <<peerUp, loop, conn, slot, observed, mcall, nsmHung>>

Image == "own"
Node(name, n, image) == [name |-> name, boot |-> n, image |-> image]
NoNode == Node("none", 0, "none")
Conns == 1 .. MaxConns
\* Where the relay can splice a dial to
Reachable == {peerUp} \cup {Node(n, 1, Image) : n \in Elsewhere \cup {Self}}

Closed == [to |-> NoNode, net |-> "cut", out |-> <<>>, in |-> <<>>, srv |-> "end", job |-> 0,
           drv |-> "end", put |-> <<>>, queue |-> <<>>, next |-> 0, pending |-> {},
           awaiting |-> FALSE]
Opened(to) == [Closed EXCEPT !.to = to, !.net = "up", !.srv = "auth", !.drv = "none"]

K == loop.conn
Work == K + Cardinality({c \in MeshCalls : mcall[c].at # "idle"})
Loop(at) == loop' = [loop EXCEPT !.at = at]
SetConn(k, r) == conn' = [conn EXCEPT ![k] = r]

\* The dialer drops its end.  The far end handles what it has or can still read,
\* then finds EOF or, behind a silent relay, its own deadline.
Hangup(r) ==
    [Closed EXCEPT !.to = r.to, !.job = r.job,
                   !.out = IF r.net = "silent" THEN <<>> ELSE r.out,
                   !.srv = IF r.srv = "handle" \/ (r.srv = "serve" /\ r.net # "silent") THEN r.srv
                           ELSE "end"]

-----------------------------------------------------------------------------
(* dial_loop and dial_once                                                     *)

\* The relay answers the Open frame: spliced somewhere, or refused, or silent
\* until DIAL_TIMEOUT
DialTo(node) ==
    /\ loop.at = "dial"
    /\ K < MaxConns
    /\ Work < MaxWork
    /\ node \in Reachable
    /\ loop' = [at |-> "attest", conn |-> K + 1]
    /\ SetConn(K + 1, Opened(node))
    /\ UNCHANGED <<peerUp, slot, observed, mcall, nsmHung>>
DialFails ==
    /\ loop.at = "dial"
    /\ Loop("failed")
    /\ UNCHANGED <<peerUp, conn, slot, observed, mcall, nsmHung>>

\* mutual_authenticate up to the peer's Authenticate frame: the node's own
\* document is made within ATTEST_TIMEOUT, the peer's arrives in time
Attest ==
    /\ loop.at = "attest"
    /\ ~nsmHung
    /\ conn[K].net = "up"
    /\ conn[K].srv # "auth"
    /\ Loop("clock")
    /\ UNCHANGED <<peerUp, conn, slot, observed, mcall, nsmHung>>
\* then the skew bound reads the NSM again, with no deadline: a time, or an error
Admit(timed) ==
    /\ loop.at = "clock"
    /\ ~nsmHung
    /\ IF timed /\ conn[K].to.image = Image
       THEN Loop("hello") /\ UNCHANGED conn
       ELSE Loop("failed") /\ SetConn(K, Hangup(conn[K]))
    /\ UNCHANGED <<peerUp, slot, observed, mcall, nsmHung>>

\* The responder's Hello: a name other than the one dialed drops the channel;
\* the dialed one is recorded and the channel published
Hello ==
    /\ loop.at = "hello"
    /\ conn[K].net = "up"
    /\ conn[K].srv = "serve"
    /\ IF conn[K].to.name = Peer
       THEN /\ observed' = conn[K].to
            /\ slot' = K
            /\ SetConn(K, [conn[K] EXCEPT !.drv = "select"])
            /\ Loop("up")
       ELSE /\ SetConn(K, Hangup(conn[K]))
            /\ Loop("failed")
            /\ UNCHANGED <<observed, slot>>
    /\ UNCHANGED <<peerUp, mcall, nsmHung>>

\* Mutant: only the end of the stream ends a handshake.
HandshakeFails_OnCut ==
    /\ loop.at \in {"attest", "hello"}
    /\ conn[K].net = "cut"
    /\ Loop("failed")
    /\ SetConn(K, Hangup(conn[K]))
    /\ UNCHANGED <<peerUp, slot, observed, mcall, nsmHung>>

\* A deadline of the handshake passes, or the stream ends
HandshakeFails ==
    /\ loop.at \in {"attest", "hello"}
    /\ Loop("failed")
    /\ SetConn(K, Hangup(conn[K]))
    /\ UNCHANGED <<peerUp, slot, observed, mcall, nsmHung>>

\* The driver ended, or nothing was established: clear the slot, back off
ClearSlot ==
    /\ loop.at = "failed"
    /\ slot' = 0
    /\ Loop("dial")
    /\ UNCHANGED <<peerUp, conn, observed, mcall, nsmHung>>

-----------------------------------------------------------------------------
(* The driver of an established channel (spawn_client)                         *)

Driving == loop.at = "up" /\ conn[K].drv = "select"
EndDriver(r) == Loop("failed") /\ SetConn(K, Hangup(r))

\* write_frame: into the stream, waiting for room, or failing on a cut stream
WriteFrame(r, frame) ==
    IF r.net = "cut" THEN EndDriver(r)
    ELSE /\ UNCHANGED loop
         /\ SetConn(K, IF Len(r.out) < WireCap
                       THEN [r EXCEPT !.out = Append(r.out, frame), !.drv = "select", !.put = <<>>]
                       ELSE [r EXCEPT !.drv = "write", !.put = <<frame>>])

\* outbound_rx: the oldest envelope goes out
DriverSends ==
    /\ Driving
    /\ conn[K].queue # <<>>
    /\ WriteFrame([conn[K] EXCEPT !.queue = Tail(conn[K].queue)], Head(conn[K].queue))
    /\ UNCHANGED <<peerUp, slot, observed, mcall, nsmHung>>
\* a write that waited has room, or the stream was cut
DriverWrote ==
    /\ loop.at = "up"
    /\ conn[K].drv = "write"
    /\ conn[K].net = "cut" \/ Len(conn[K].out) < WireCap
    /\ WriteFrame(conn[K], conn[K].put[1])
    /\ UNCHANGED <<peerUp, slot, observed, mcall, nsmHung>>
\* the silence deadline: ping, and with a ping outstanding give the channel up
DriverIdle ==
    /\ Driving
    /\ IF conn[K].awaiting THEN EndDriver(conn[K])
       ELSE WriteFrame([conn[K] EXCEPT !.awaiting = TRUE], [t |-> "ping"])
    /\ UNCHANGED <<peerUp, slot, observed, mcall, nsmHung>>

Entry(r, id) == CHOOSE e \in r.pending : e.id = id
\* inbound_rx: any frame is proof of life; a response goes to the caller that
\* waits for its id, if it still does
DriverReceives ==
    LET r == conn[K]
        m == Head(r.in)
        q == [r EXCEPT !.in = Tail(r.in), !.awaiting = FALSE]
        known == m.t = "response" /\ \E e \in r.pending : e.id = m.id
        c == Entry(r, m.id).c
    IN  /\ Driving
        /\ r.in # <<>>
        /\ SetConn(K, IF known THEN [q EXCEPT !.pending = {e \in r.pending : e.id # m.id}] ELSE q)
        /\ mcall' = IF known /\ mcall[c].at = "wait"
                    THEN [mcall EXCEPT ![c].at = "done", ![c].ret = "ok", ![c].got = m]
                    ELSE mcall
        /\ UNCHANGED <<peerUp, loop, slot, observed, nsmHung>>
\* the reader found the end of the stream
DriverEof ==
    /\ Driving
    /\ conn[K].net = "cut"
    /\ conn[K].in = <<>>
    /\ EndDriver(conn[K])
    /\ UNCHANGED <<peerUp, slot, observed, mcall, nsmHung>>

-----------------------------------------------------------------------------
(* Mesh::call and ClientChannel::call                                          *)

\* The channel is cloned out of the slot.  Callers are alike: they start in order.
CallPeer(c) ==
    /\ mcall[c].at = "idle"
    /\ \A d \in MeshCalls : d < c => mcall[d].at # "idle"
    /\ Work < MaxWork
    /\ mcall' = [mcall EXCEPT ![c] = IF slot = 0 THEN [@ EXCEPT !.at = "done", !.ret = "down"]
                                     ELSE [@ EXCEPT !.at = "have", !.conn = slot]]
    /\ UNCHANGED <<peerUp, loop, conn, slot, observed, nsmHung>>

\* A fresh id, its entry in the pending map, the request in the driver's queue;
\* a driver that is gone refuses it
Enqueue(c) ==
    LET k == mcall[c].conn
        r == conn[k]
    IN  /\ mcall[c].at = "have"
        /\ \/ /\ r.drv = "end"
              /\ mcall' = [mcall EXCEPT ![c].at = "done", ![c].ret = "closed"]
              /\ UNCHANGED conn
           \/ /\ r.drv # "end"
              /\ Len(r.queue) < OutCap
              /\ SetConn(k, [r EXCEPT !.next = r.next + 1,
                                      !.pending = r.pending \cup {[id |-> r.next, c |-> c]},
                                      !.queue = Append(r.queue, [t |-> "request", id |-> r.next, c |-> c])])
              /\ mcall' = [mcall EXCEPT ![c].at = "wait"]
        /\ UNCHANGED <<peerUp, loop, slot, observed, nsmHung>>

\* The deadline the caller sets (FORWARD_CALL_TIMEOUT, JOIN_CALL_TIMEOUT)
CallerGivesUp(c) ==
    /\ mcall[c].at \in {"have", "wait"}
    /\ mcall' = [mcall EXCEPT ![c].at = "done", ![c].ret = "timeout"]
    /\ UNCHANGED <<peerUp, loop, conn, slot, observed, nsmHung>>

-----------------------------------------------------------------------------
(* The accept side: handle_inbound and serve                                   *)

Alive(k) == conn[k].to.name # Peer \/ conn[k].to = peerUp
ServerEnds(r) == [r EXCEPT !.srv = "end", !.net = IF r.net = "up" THEN "cut" ELSE r.net, !.out = <<>>, !.job = 0]

\* mutual_authenticate as responder: its document is sent, then its own trusted time is
\* read and the dialer's image checked
Accept(k) ==
    /\ conn[k].srv = "auth"
    /\ Alive(k)
    /\ conn[k].net = "up"
    /\ SetConn(k, [conn[k] EXCEPT !.srv = "check"])
    /\ UNCHANGED <<peerUp, loop, slot, observed, mcall, nsmHung>>
CheckDialer(k, timed) ==
    /\ conn[k].srv = "check"
    /\ Alive(k)
    /\ SetConn(k, IF timed /\ conn[k].to.image = Image THEN [conn[k] EXCEPT !.srv = "hello"]
                  ELSE ServerEnds(conn[k]))
    /\ UNCHANGED <<peerUp, loop, slot, observed, mcall, nsmHung>>
\* the dialer's Hello: a name outside the peer set, the node's own included, is refused
Greet(k) ==
    /\ conn[k].srv = "hello"
    /\ Alive(k)
    /\ conn[k].net = "up"
    /\ loop.conn = k /\ loop.at = "hello"
    /\ SetConn(k, IF conn[k].to.name # Self THEN [conn[k] EXCEPT !.srv = "serve"]
                  ELSE ServerEnds(conn[k]))
    /\ UNCHANGED <<peerUp, loop, slot, observed, mcall, nsmHung>>
\* The node's own accept side: the peer dialed it, was attested and said its name, and
\* handle_inbound records the key under it.
GreetPeer ==
    /\ peerUp.image = Image
    /\ observed' = peerUp
    /\ UNCHANGED <<peerUp, loop, conn, slot, mcall, nsmHung>>
\* one frame at a time: a ping is answered, a request handled to its end first
ServerReads(k) ==
    LET r == conn[k]
        m == Head(r.out)
    IN  /\ r.srv = "serve"
        /\ Alive(k)
        /\ r.net # "silent"
        /\ r.out # <<>>
        /\ Len(r.in) < WireCap
        /\ SetConn(k, IF m.t = "ping" THEN [r EXCEPT !.out = Tail(r.out), !.in = Append(r.in, [t |-> "pong"])]
                      ELSE [r EXCEPT !.out = Tail(r.out), !.srv = "handle", !.job = m])
        /\ UNCHANGED <<peerUp, loop, slot, observed, mcall, nsmHung>>
ServerAnswers(k) ==
    LET r == conn[k]
        answer == [t |-> "response", id |-> r.job.id, c |-> r.job.c, by |-> r.to]
    IN  /\ r.srv = "handle"
        /\ Alive(k)
        /\ SetConn(k, IF r.net = "cut" THEN ServerEnds(r)
                      ELSE [r EXCEPT !.srv = "serve", !.job = 0, !.in = Append(r.in, answer)])
        /\ r.net = "cut" \/ Len(r.in) < WireCap
        /\ mcall' = [mcall EXCEPT ![r.job.c].ran = @ + 1]
        /\ UNCHANGED <<peerUp, loop, slot, observed, nsmHung>>
\* EOF, a deadline of the handshake, or SERVE_IDLE_TIMEOUT
ServerQuits(k) ==
    /\ conn[k].srv \in {"auth", "hello", "serve"}
    /\ Alive(k)
    /\ conn[k].out = <<>> \/ conn[k].net # "up"
    /\ SetConn(k, ServerEnds(conn[k]))
    /\ UNCHANGED <<peerUp, loop, slot, observed, mcall, nsmHung>>

-----------------------------------------------------------------------------
(* Faults                                                                      *)

\* The relay stops moving bytes without closing; it cuts the stream
RelaySilent(k) ==
    /\ k = K
    /\ conn[k].net = "up"
    /\ SetConn(k, [conn[k] EXCEPT !.net = "silent"])
    /\ UNCHANGED <<peerUp, loop, slot, observed, mcall, nsmHung>>
RelayCuts(k) ==
    /\ conn[k].net # "cut"
    /\ SetConn(k, [conn[k] EXCEPT !.net = "cut"])
    /\ UNCHANGED <<peerUp, loop, slot, observed, mcall, nsmHung>>
\* The peer reboots, on the same image or, while an upgrade rolls out, another;
\* its old streams stay open to the dialer until the relay closes them
PeerReboots(image) ==
    /\ peerUp.boot < MaxMeshBoots
    /\ peerUp' = Node(Peer, peerUp.boot + 1, image)
    /\ UNCHANGED <<loop, conn, slot, observed, mcall, nsmHung>>
NsmHangs ==
    /\ loop.at \in {"attest", "clock"}
    /\ nsmHung' = TRUE
    /\ UNCHANGED <<peerUp, loop, conn, slot, observed, mcall>>

-----------------------------------------------------------------------------
MeshInit ==
    /\ peerUp = Node(Peer, 1, Image)
    /\ loop = [at |-> "dial", conn |-> 0]
    /\ conn = [k \in Conns |-> Closed]
    /\ slot = 0
    /\ observed = NoNode
    /\ mcall = [c \in MeshCalls |-> [at |-> "idle", conn |-> 0, ret |-> "none", got |-> [t |-> "none"], ran |-> 0]]
    /\ nsmHung = FALSE

LoopStep ==
    \/ \E node \in Reachable : DialTo(node)
    \/ DialFails \/ Attest \/ (\E timed \in BOOLEAN : Admit(timed)) \/ Hello \/ HandshakeFails \/ ClearSlot
    \/ DriverSends \/ DriverWrote \/ DriverIdle \/ DriverReceives \/ DriverEof
CallStep(c) == CallPeer(c) \/ Enqueue(c) \/ CallerGivesUp(c)
AcceptStep(k) == Accept(k) \/ (\E timed \in BOOLEAN : CheckDialer(k, timed)) \/ Greet(k) \/ ServerReads(k) \/ ServerAnswers(k) \/ ServerQuits(k)
RelayStep(k) == RelaySilent(k) \/ RelayCuts(k)

MeshNext ==
    \/ LoopStep
    \/ \E c \in MeshCalls : CallStep(c)
    \/ \E k \in Conns : AcceptStep(k)
    \/ \E k \in Conns : RelayStep(k)
    \/ \E image \in {Image, "other"} : PeerReboots(image)
    \/ GreetPeer
    \/ NsmHangs

-----------------------------------------------------------------------------
\* Whatever the relay does, the answer Mesh::call returns was computed for this
\* very call, once, by an instance that runs this image under the name dialed.
AnswerIsOwn ==
    \A c \in MeshCalls :
        /\ mcall[c].ran <= 1
        /\ mcall[c].ret = "ok" =>
              /\ mcall[c].ran = 1
              /\ mcall[c].got.c = c
              /\ mcall[c].got.by.name = Peer
              /\ mcall[c].got.by.image = Image

\* The key the bootstrap puts into the first membership under the peer's name
\* belongs to an instance of that name, also when a dial was misrouted, and whichever
\* side dialed.
ObservedIsPeer == observed = NoNode \/ (observed.name = Peer /\ observed.image = Image)

\* The dial loop always has a step to take, so a lost peer is dialed again: a
\* deadline ends every wait but two, the trusted-time read of the handshake
\* while /dev/nsm hangs, and a frame written to a stream that is full and open.
ParksOnlyOnClockOrWrite ==
    \/ ENABLED LoopStep
    \/ loop.at = "clock" /\ nsmHung
    \/ loop.at = "up" /\ conn[K].drv = "write" /\ conn[K].net # "cut"

\* Whatever the relay does, what the mesh reports of its peer is the peer's, the
\* answers to calls and the key the bootstrap records, and the dial loop never
\* parks where a deadline could have ended the wait (Mesh::call, the handshake,
\* the dial loop).
MeshIsSound == AnswerIsOwn /\ ObservedIsPeer /\ ParksOnlyOnClockOrWrite
=============================================================================
