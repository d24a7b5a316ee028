------------------------------ MODULE EgressFlow ------------------------------
(* The enclave's egress daemon: TCP connections of the workload arrive as     *)
(* packets on a TUN device, a userspace stack gives each a socket and a flow, *)
(* and a forwarder per flow asks the policy, dials the host and splices.      *)
(*                                                                            *)
(* smoltcp, the workload's own TCP and the host are external: a SYN goes to   *)
(* some socket that listens on its destination, or is refused; what one end   *)
(* writes the other's buffer takes while it has room.  All connections go to  *)
(* one destination, the case the demultiplexing has to get right.             *)
EXTENDS Naturals, Sequences, SequencesExt

CONSTANTS
    Sources,        \* source endpoints of the workload's connections
    NoSource,
    RxCap, TxCap,   \* smoltcp's receive and send buffers, in units
    UpCap, DownCap, \* the two channels of a flow, in messages
    MaxEvents       \* bound: SYNs, units the workload writes and messages of two units
                    \* the destination answers with, together

VARIABLES
    tcp,            \* the workload's end of each connection
    inbound,        \* the device's queue, of SYNs
    flow,           \* the StackFlow and the socket allocated for each source
    fwd,            \* the forwarder of each flow, with the FlowStream it owns
    events          \* how many of the bounded events were

egressVars == <<tcp, inbound, flow, fwd, events>>

\* StackFlow: peer is the source whose SYN the socket took.
NoFlow == [sock |-> "none", saw |-> FALSE, peer |-> NoSource, rx |-> <<>>, tx |-> <<>>,
           down |-> <<>>, carry |-> <<>>]
NewFlow == [NoFlow EXCEPT !.sock = "listen"]
NoConnection == [at |-> "closed", reused |-> FALSE, wrote |-> 0, got |-> <<>>]
NoForwarder == [at |-> "none", up |-> <<>>, sent |-> <<>>, replies |-> 0, eof |-> FALSE]
OneEvent == events < MaxEvents /\ events' = events + 1
Reply(k) == <<2 * k - 1, 2 * k>>

\* The FlowStream is dropped when forward_flow returns.
StreamHeld(r) == fwd[r].at # "ended"
EndForwarder(r) == fwd' = [fwd EXCEPT ![r].at = "ended", ![r].up = <<>>]

-----------------------------------------------------------------------------
(* The reader task and smoltcp's accept                                       *)

\* flow_already_exists: by source and destination
FlowAlreadyExists(s) == flow[s].sock # "none"

\* handle_inbound, of a SYN: a connect's first, a retransmission while the answer is
\* awaited, or a later connect from the same endpoint (once its last forwarder is
\* gone, so that a source has one).  A tuple without a flow gets one, handed to the
\* supervisor; the packet is queued either way.  reused: a new connect found a flow.
HandleInbound(s) ==
    /\ tcp[s].at \in {"closed", "syn", "shut"}
    /\ OneEvent
    /\ fwd[s].at \in {"none", "ended"} \/ FlowAlreadyExists(s)
    /\ tcp' = [tcp EXCEPT ![s] =
                  IF tcp[s].at = "syn" THEN tcp[s]
                  ELSE [NoConnection EXCEPT !.at = "syn",
                                            !.reused = tcp[s].reused \/ flow[s].sock # "none"]]
    /\ inbound' = Append(inbound, s)
    /\ IF FlowAlreadyExists(s)
       THEN UNCHANGED <<flow, fwd>>
       ELSE /\ flow' = [flow EXCEPT ![s] = NewFlow]
            /\ fwd' = [fwd EXCEPT ![s] = [NoForwarder EXCEPT !.at = "policy"]]

\* iface.poll takes a queued SYN: the socket of its connection knows it, or one that
\* listens takes it, or it is refused.
PollSyn(r) ==
    /\ inbound # <<>>
    /\ LET s == Head(inbound)
           known == \E q \in Sources : flow[q].peer = s /\ flow[q].sock # "closed"
           listening == {q \in Sources : flow[q].sock = "listen"}
       IN  IF known \/ listening = {}
           THEN /\ r = s
                /\ tcp' = IF known THEN tcp ELSE [tcp EXCEPT ![s].at = "refused"]
                /\ UNCHANGED flow
           ELSE /\ r \in listening
                /\ tcp' = [tcp EXCEPT ![s].at = "est"]
                /\ flow' = [flow EXCEPT ![r].sock = "est", ![r].peer = s]
    /\ inbound' = Tail(inbound)
    /\ UNCHANGED <<fwd, events>>

-----------------------------------------------------------------------------
(* The workload, over the socket that took its connection                     *)

\* The device keeps order: what a connection sends comes after its SYNs.
Sends(r) == /\ flow[r].sock \in {"est", "finwait"}
            /\ tcp[flow[r].peer].at = "est"
            /\ flow[r].peer \notin ToSet(inbound)

WorkloadWrites(r) ==
    LET s == flow[r].peer
    IN  /\ Sends(r)
        /\ OneEvent
        /\ Len(flow[r].rx) < RxCap
        /\ tcp' = [tcp EXCEPT ![s].wrote = tcp[s].wrote + 1]
        /\ flow' = [flow EXCEPT ![r].rx = Append(flow[r].rx, tcp[s].wrote + 1)]
        /\ UNCHANGED <<inbound, fwd>>

Deliver(r) ==
    LET s == flow[r].peer
    IN  /\ flow[r].tx # <<>>
        /\ tcp[s].at = "est"
        /\ tcp' = [tcp EXCEPT ![s].got = Append(tcp[s].got, Head(flow[r].tx))]
        /\ flow' = [flow EXCEPT ![r].tx = Tail(flow[r].tx)]
        /\ UNCHANGED <<inbound, fwd, events>>

\* The workload's FIN.
Shut(r) ==
    /\ Sends(r)
    /\ tcp' = [tcp EXCEPT ![flow[r].peer].at = "shut"]
    /\ flow' = [flow EXCEPT ![r].sock = IF flow[r].sock = "est" THEN "closewait" ELSE "timewait"]
    /\ UNCHANGED <<inbound, fwd, events>>

\* The workload's RST, or its ACK of the FIN the socket sent last.
Reset(r) ==
    /\ \/ Sends(r) /\ tcp' = [tcp EXCEPT ![flow[r].peer].at = "shut"]
       \/ flow[r].sock = "lastack" /\ UNCHANGED tcp
    /\ flow' = [flow EXCEPT ![r].sock = "closed", ![r].rx = <<>>, ![r].tx = <<>>]
    /\ UNCHANGED <<inbound, fwd, events>>

-----------------------------------------------------------------------------
(* One flow of a turn of step                                                 *)

\* Bytes of the workload into the forwarder's channel: what a full channel does not
\* take is gone.  A dropped FlowStream closes the socket.
Upload(r) == IF flow[r].rx # <<>> /\ StreamHeld(r) /\ Len(fwd[r].up) < UpCap
             THEN Append(fwd[r].up, Head(flow[r].rx)) ELSE fwd[r].up
SawClosed(r) == flow[r].rx # <<>> /\ ~StreamHeld(r)
CloseSocket(sock) == IF sock = "est" THEN "finwait" ELSE IF sock = "closewait" THEN "lastack" ELSE sock

\* How many messages of the channel a turn takes: until the socket's buffer is full
\* or the channel is empty, the carry-over first.
Taken(f) ==
    LET fills == {k \in 0 .. Len(f.down) : Len(f.carry) + 2 * k >= TxCap - Len(f.tx)}
    IN  IF fills = {} THEN Len(f.down) ELSE CHOOSE k \in fills : \A j \in fills : k <= j

\* Mutant: the channel is drained before the carry-over.
SendDown_ChannelFirst(f) ==
    LET taken == IF f.down = <<>> THEN 0 ELSE 1
        data == FlattenSeq(SubSeq(f.down, 1, taken)) \o f.carry
        room == IF Len(data) < TxCap - Len(f.tx) THEN Len(data) ELSE TxCap - Len(f.tx)
    IN  [f EXCEPT !.tx = f.tx \o SubSeq(data, 1, room),
                  !.carry = SubSeq(data, room + 1, Len(data)),
                  !.down = SubSeq(f.down, taken + 1, Len(f.down))]

SendDown(f) ==
    LET data == f.carry \o FlattenSeq(SubSeq(f.down, 1, Taken(f)))
        room == IF Len(data) < TxCap - Len(f.tx) THEN Len(data) ELSE TxCap - Len(f.tx)
    IN  [f EXCEPT !.tx = f.tx \o SubSeq(data, 1, room),
                  !.carry = SubSeq(data, room + 1, Len(data)),
                  !.down = SubSeq(f.down, Taken(f) + 1, Len(f.down))]

\* step, after its poll emptied the device: receive, send, and tear down what saw its
\* close.
StepFlow(r) ==
    LET f0 == [flow[r] EXCEPT !.rx = IF flow[r].rx = <<>> THEN <<>> ELSE Tail(flow[r].rx),
                              !.saw = flow[r].saw \/ flow[r].sock = "est",
                              !.sock = IF SawClosed(r) THEN CloseSocket(flow[r].sock) ELSE flow[r].sock]
        f1 == IF f0.sock \in {"est", "closewait"} THEN SendDown(f0) ELSE f0
        drained == f0.sock \in {"est", "closewait"} /\ ~StreamHeld(r) /\ f1.down = <<>>
                      /\ f1.carry = <<>> /\ Len(f1.tx) < TxCap
        f2 == [f1 EXCEPT !.sock = IF drained THEN CloseSocket(f1.sock) ELSE f1.sock]
    IN  /\ inbound = <<>>
        /\ flow[r].sock \notin {"none", "listen"}
        /\ flow' = [flow EXCEPT ![r] = IF f2.saw /\ f2.sock \in {"closed", "closewait", "timewait"} THEN NoFlow ELSE f2]
        /\ fwd' = [fwd EXCEPT ![r].up = Upload(r)]
        /\ UNCHANGED <<tcp, inbound, events>>

-----------------------------------------------------------------------------
(* forward_flow                                                               *)

\* policy.allow_tcp: whatever it decides
AskPolicy(r) ==
    /\ fwd[r].at = "policy"
    /\ \/ fwd' = [fwd EXCEPT ![r].at = "dial"]
       \/ EndForwarder(r)
    /\ UNCHANGED <<tcp, inbound, flow, events>>

\* transport.connect and the Open frame
DialHost(r) ==
    /\ fwd[r].at = "dial"
    /\ \/ fwd' = [fwd EXCEPT ![r].at = "splice"]
       \/ EndForwarder(r)
    /\ UNCHANGED <<tcp, inbound, flow, events>>

\* copy_bidirectional, towards the host: poll_read
CopyUp(r) ==
    /\ fwd[r].at = "splice"
    /\ fwd[r].up # <<>>
    /\ fwd' = [fwd EXCEPT ![r].sent = Append(fwd[r].sent, Head(fwd[r].up)), ![r].up = Tail(fwd[r].up)]
    /\ UNCHANGED <<tcp, inbound, flow, events>>

\* towards the workload: poll_write waits for a free slot, and fails on a flow that is gone
CopyDown(r) ==
    /\ fwd[r].at = "splice"
    /\ ~fwd[r].eof
    /\ OneEvent
    /\ IF flow[r].sock = "none"
       THEN EndForwarder(r) /\ UNCHANGED flow
       ELSE /\ Len(flow[r].down) < DownCap
            /\ flow' = [flow EXCEPT ![r].down = Append(flow[r].down, Reply(fwd[r].replies + 1))]
            /\ fwd' = [fwd EXCEPT ![r].replies = fwd[r].replies + 1]
    /\ UNCHANGED <<tcp, inbound>>

\* The host's end of file: poll_shutdown answers and changes nothing.
HostEof(r) ==
    /\ fwd[r].at = "splice"
    /\ ~fwd[r].eof
    /\ fwd' = [fwd EXCEPT ![r].eof = TRUE]
    /\ UNCHANGED <<tcp, inbound, flow, events>>

\* Both directions at their end.
SpliceEnds(r) ==
    /\ fwd[r].at = "splice"
    /\ fwd[r].eof
    /\ fwd[r].up = <<>>
    /\ flow[r].sock = "none"
    /\ EndForwarder(r)
    /\ UNCHANGED <<tcp, inbound, flow, events>>

\* A read or a write of either side fails: ForwardError::Splice.
SpliceFails(r) ==
    /\ fwd[r].at = "splice"
    /\ EndForwarder(r)
    /\ UNCHANGED <<tcp, inbound, flow, events>>

EgressInit ==
    /\ tcp = [s \in Sources |-> NoConnection]
    /\ inbound = <<>>
    /\ flow = [s \in Sources |-> NoFlow]
    /\ fwd = [s \in Sources |-> NoForwarder]
    /\ events = 0

EgressNext ==
    \E s \in Sources :
        \/ HandleInbound(s)
        \/ PollSyn(s)
        \/ WorkloadWrites(s)
        \/ Deliver(s)
        \/ Shut(s)
        \/ Reset(s)
        \/ StepFlow(s)
        \/ AskPolicy(s)
        \/ DialHost(s)
        \/ CopyUp(s)
        \/ CopyDown(s)
        \/ HostEof(s)
        \/ SpliceEnds(s)
        \/ SpliceFails(s)

-----------------------------------------------------------------------------
(* Properties                                                                 *)

InOrder(q) == \A i \in DOMAIN q : q[i] = i

\* However connects to one destination, their retransmissions and the turns of the
\* stack interleave, and whichever listening socket takes which SYN, no connect is
\* refused for want of one (handle_inbound allocates one per tuple before the SYN is
\* injected), as long as no connect comes from an endpoint whose old flow is left.
NoConnectRefused ==
    (\A s \in Sources : ~tcp[s].reused) => \A s \in Sources : tcp[s].at # "refused"

\* What the workload receives is the answer from its start, nothing lost, repeated
\* or out of order in it, however little the socket takes at a time (pending_send).
DownloadIsPrefix == \A s \in Sources : InOrder(tcp[s].got)

\* What reaches the host is what the workload wrote from its start with nothing lost
\* in it, however slow the forwarder is (step hands the bytes on).
UploadIsPrefix == \A r \in Sources : InOrder(fwd[r].sent)

\* A connect is accepted and its answer arrives in order, whatever else the stack
\* serves meanwhile (handle_inbound, step).
ConnectsAreServed == NoConnectRefused /\ DownloadIsPrefix
=============================================================================
