----------------------------- MODULE SessionMux -----------------------------
(* The attested sessions of a client: SDK calls (enclavia/src/client.rs), the *)
(* transport task that multiplexes them (transport.rs, stream.rs), the        *)
(* in-enclave handler of a connection (enclavia-server handle_client) and the *)
(* one task per request or stream it spawns.                                  *)
(*                                                                            *)
(* A call is a request or an upgrade to a stream.  A message keeps the call   *)
(* it was made for, which no code reads: it stands for the payload.  A stream *)
(* delivers the workload's chunks 1..Chunks, the first being the response     *)
(* head.  A step is what a task does between two awaits it can block in.      *)
EXTENDS Naturals, Sequences, FiniteSets

CONSTANTS
    Calls,
    UpgradeStreams, \* the calls that ask for a stream; the others are requests
    MAX_IN_FLIGHT,  \* permits, and the capacity of the handler's channels
    CmdCap,         \* the transport task's command queue (64)
    BufCap,         \* a stream's receive buffer (64)
    PipeCap,        \* frames the connection holds in each direction
    Chunks,         \* what the workload sends on a stream
    MaxStreamWrites, \* bound: client writes on a stream
    MaxSessions,    \* bound: sessions established
    MaxFaults       \* bound: failures of the network, the workload or a read

VARIABLES
    cur,            \* the session whose sender ClientInner holds
    calls,          \* each call and, once it has one, its UpgradedStream
    buf,            \* the receive buffer of each stream
    ses,            \* the sessions, client task and enclave handler
    ran,            \* times the workload was handed a call
    wasted,         \* streams whose last close found the command queue full
    muted,          \* streams whose disconnect error found the buffer full
    faults,         \* failures so far
    stray           \* streams closed by a command of another call

muxVars == <<cur, calls, buf, ses, ran, wasted, muted, stray, faults>>

Sessions == 1 .. MaxSessions
Selecting == [at |-> "select"]

\* establish_channel: the transport task and the handler of a fresh connection
FreshSession ==
    [net |-> TRUE, task |-> Selecting, cmds |-> <<>>, next |-> 1, pending |-> {}, streams |-> {},
     c2s |-> <<>>, s2c |-> <<>>, torn |-> FALSE,
     h |-> Selecting, resp |-> <<>>, done |-> {}, free |-> MAX_IN_FLIGHT, map |-> {}, tasks |-> {}]
NoSession == [FreshSession EXCEPT !.net = FALSE, !.task = [at |-> "dead"], !.h = [at |-> "gone"]]

SessionLive(s) == ses[s].task.at # "dead"
SetSes(s, r) == ses' = [ses EXCEPT ![s] = r]

\* The sender of a stream's buffer is held by the command that opens it, by the
\* transport's map, or by the transport while it waits for room.
SenderHeld(c) ==
    \E s \in Sessions :
        \/ \E i \in DOMAIN ses[s].cmds : ses[s].cmds[i].t = "open" /\ ses[s].cmds[i].c = c
        \/ \E e \in ses[s].streams : e.c = c
        \/ ses[s].task.at = "send" /\ ses[s].task.m.t = "open" /\ ses[s].task.m.c = c
        \/ ses[s].task.at = "deliver" /\ ses[s].task.c = c

ReturnCall(c, r) == calls' = [calls EXCEPT ![c].at = "done", ![c].ret = r]

-----------------------------------------------------------------------------
(* The SDK call                                                               *)

\* ensure_connected and the sender it leads to.  A dead channel is established
\* anew by one caller, under reconnect_lock; the others find its sender.
EnsureConnected(c) ==
    /\ calls[c].at = "idle"
    /\ \/ /\ SessionLive(cur)
          /\ calls' = [calls EXCEPT ![c].at = "ready", ![c].sess = cur]
          /\ UNCHANGED <<cur, ses>>
       \/ /\ ~SessionLive(cur)
          /\ cur < MaxSessions
          /\ cur' = cur + 1
          /\ SetSes(cur + 1, FreshSession)
          /\ calls' = [calls EXCEPT ![c].at = "ready", ![c].sess = cur + 1]
       \/ /\ ~SessionLive(cur)
          /\ ReturnCall(c, "closed")
          /\ UNCHANGED <<cur, ses>>
    /\ UNCHANGED <<buf, ran, wasted, muted, stray>>

\* send_request, open_stream: hand the command to the transport task
IssueCommand(c) ==
    LET s == calls[c].sess
        t == IF c \in UpgradeStreams THEN "open" ELSE "data"
    IN  /\ calls[c].at = "ready"
        /\ \/ /\ ~SessionLive(s)
              /\ ReturnCall(c, "closed")
              /\ UNCHANGED ses
           \/ /\ SessionLive(s)
              /\ Len(ses[s].cmds) < CmdCap
              /\ ses' = [ses EXCEPT ![s].cmds = Append(ses[s].cmds, [t |-> t, c |-> c])]
              /\ calls' = [calls EXCEPT ![c].at = "wait"]
        /\ UNCHANGED <<cur, buf, ran, wasted, muted, stray>>

\* try_send of a command to session s, into sessions already updated to S
TrySend(S, s, m) ==
    IF S[s].task.at # "dead" /\ Len(S[s].cmds) < CmdCap
    THEN [S EXCEPT ![s].cmds = Append(S[s].cmds, m)]
    ELSE S
QueueFull(S, s) == S[s].task.at # "dead" /\ Len(S[s].cmds) >= CmdCap

\* Drop for UpgradedStream
CloseBoth(c, id) == [t |-> "close", id |-> id, half |-> "Both", c |-> c]
DropStream(S, c) ==
    /\ ses' = TrySend(S, calls[c].sess, CloseBoth(c, calls[c].id))
    /\ wasted' = IF QueueFull(S, calls[c].sess) THEN wasted \cup {c} ELSE wasted
    /\ buf' = [buf EXCEPT ![c] = <<>>]

\* upgrade: the head decides.  A refused upgrade is closed through the sender
\* ClientInner holds now, then by the drop.
ReadHead(c) ==
    /\ calls[c].at = "head"
    /\ \/ /\ buf[c] # <<>>
          /\ Head(buf[c]) = 1
          /\ calls' = [calls EXCEPT ![c].at = "open", ![c].read = 1]
          /\ buf' = [buf EXCEPT ![c] = Tail(buf[c])]
          /\ UNCHANGED <<ses, wasted>>
       \/ /\ buf[c] # <<>>
          /\ Head(buf[c]) = 0
          /\ ReturnCall(c, "error")
          /\ DropStream(ses, c)
       \/ /\ buf[c] = <<>>
          /\ ~SenderHeld(c)
          /\ ReturnCall(c, "closed")
          /\ DropStream(ses, c)
    /\ UNCHANGED <<cur, ran, muted, stray>>

UpgradeRefused(c) ==
    /\ calls[c].at = "head"
    /\ buf[c] # <<>>
    /\ Head(buf[c]) = 1
    /\ ReturnCall(c, "refused")
    /\ DropStream(TrySend(ses, cur, CloseBoth(c, calls[c].id)), c)
    /\ UNCHANGED <<cur, ran, muted, stray>>

\* poll_read
ReadChunk(c) ==
    /\ calls[c].at = "open"
    /\ calls[c].ret = "none"
    /\ \/ /\ buf[c] # <<>>
          /\ buf' = [buf EXCEPT ![c] = Tail(buf[c])]
          /\ calls' = IF Head(buf[c]) = 0 THEN [calls EXCEPT ![c].ret = "error"]
                      ELSE [calls EXCEPT ![c].read = Head(buf[c]),
                                         ![c].ordered = calls[c].ordered /\
                                                        Head(buf[c]) = calls[c].read + 1]
       \/ /\ buf[c] = <<>>
          /\ ~SenderHeld(c)
          /\ calls' = [calls EXCEPT ![c].ret = "eof"]
          /\ UNCHANGED buf
    /\ UNCHANGED <<cur, ses, ran, wasted, muted, stray>>

\* poll_write: WouldBlock while the queue is full
WriteChunk(c) ==
    LET s == calls[c].sess
    IN  /\ calls[c].at = "open"
        /\ calls[c].wrote < MaxStreamWrites
        /\ SessionLive(s)
        /\ Len(ses[s].cmds) < CmdCap
        /\ ses' = TrySend(ses, s, [t |-> "sdata", id |-> calls[c].id, c |-> c])
        /\ calls' = [calls EXCEPT ![c].wrote = calls[c].wrote + 1]
        /\ UNCHANGED <<cur, buf, ran, wasted, muted, stray>>

\* poll_shutdown, once the writes are done
ShutdownWrite(c) ==
    LET s == calls[c].sess
    IN  /\ calls[c].at = "open"
        /\ calls[c].wrote = MaxStreamWrites
        /\ SessionLive(s)
        /\ Len(ses[s].cmds) < CmdCap
        /\ ses' = TrySend(ses, s, [t |-> "close", id |-> calls[c].id, half |-> "Write", c |-> c])
        /\ calls' = [calls EXCEPT ![c].wrote = MaxStreamWrites + 1]
        /\ UNCHANGED <<cur, buf, ran, wasted, muted, stray>>

\* The caller drops the stream, having read its end or not
CloseStream(c) ==
    /\ calls[c].at = "open"
    /\ calls' = [calls EXCEPT ![c].at = "done",
                              ![c].ret = IF calls[c].ret = "none" THEN "dropped" ELSE calls[c].ret]
    /\ DropStream(ses, c)
    /\ UNCHANGED <<cur, ran, muted, stray>>

-----------------------------------------------------------------------------
(* The transport task                                                         *)

EntryOf(S, id) == CHOOSE e \in S : e.id = id
HasEntry(S, id) == \E e \in S : e.id = id
Without(S, id) == {e \in S : e.id # id}

\* The message of a command: a request or an open takes the next id
Framed(r, cmd) ==
    IF cmd.t \in {"data", "open"} THEN [t |-> cmd.t, id |-> r.next, c |-> cmd.c] ELSE cmd
TakeNext(r, cmd) == IF cmd.t \in {"data", "open"} THEN r.next + 1 ELSE r.next

\* What the task does once ws.send has returned
AfterSend(r, m) ==
    CASE m.t = "data"  -> [r EXCEPT !.pending = r.pending \cup {[id |-> m.id, c |-> m.c]}]
      [] m.t = "open"  -> [r EXCEPT !.streams = r.streams \cup {[id |-> m.id, c |-> m.c]}]
      [] m.t = "sdata" -> r
      [] m.t = "close" -> IF m.half = "Both" THEN [r EXCEPT !.streams = Without(r.streams, m.id)]
                          ELSE r
CallAfterSend(m) ==
    IF m.t = "open" THEN [calls EXCEPT ![m.c].at = "head", ![m.c].id = m.id] ELSE calls

\* ws.send failed: the command's caller hears of it, the task goes on
FailedSend(r, m) ==
    IF m.t = "sdata" \/ (m.t = "close" /\ m.half = "Both")
    THEN [r EXCEPT !.streams = Without(r.streams, m.id)] ELSE r
CallAfterFailure(m) ==
    IF m.t \in {"data", "open"} THEN [calls EXCEPT ![m.c].at = "done", ![m.c].ret = "closed"]
    ELSE calls

\* try_send of an error to each stream of E: lost where the buffer is full
TellStreams(E) ==
    LET open == {c \in Calls : calls[c].at # "done" /\ \E e \in E : e.c = c}
        full == {c \in open : Len(buf[c]) >= BufCap}
    IN  /\ buf' = [c \in Calls |-> IF c \in open \ full THEN Append(buf[c], 0) ELSE buf[c]]
        /\ muted' = muted \cup full

\* The streams of other calls that a close of both halves takes out of the map
ForeignStreams(r, m) ==
    IF m.t = "close" /\ m.half = "Both" THEN {e.c : e \in {x \in r.streams : x.id = m.id}} \ {m.c}
    ELSE {}

\* The cmd_rx arm: the frame is sent, fails, or leaves the task waiting for room
TransportSend(s) ==
    LET r == ses[s]
        fresh == r.task.at = "select"
        m == IF fresh THEN Framed(r, Head(r.cmds)) ELSE r.task.m
        q == IF fresh THEN [r EXCEPT !.cmds = Tail(r.cmds), !.next = TakeNext(r, Head(r.cmds))]
             ELSE [r EXCEPT !.task = Selecting]
    IN  /\ \/ fresh /\ r.cmds # <<>>
           \/ r.task.at = "send"
        /\ \/ /\ r.net
              /\ Len(r.c2s) < PipeCap
              /\ SetSes(s, AfterSend([q EXCEPT !.c2s = Append(r.c2s, m)], m))
              /\ calls' = CallAfterSend(m)
              /\ UNCHANGED <<buf, muted>>
           \/ /\ r.net
              /\ Len(r.c2s) >= PipeCap
              /\ fresh
              /\ SetSes(s, [q EXCEPT !.task = [at |-> "send", m |-> m]])
              /\ UNCHANGED <<calls, buf, muted>>
           \/ /\ ~r.net
              /\ SetSes(s, FailedSend(q, m))
              /\ calls' = CallAfterFailure(m)
              /\ IF m.t = "sdata" THEN TellStreams({e \in r.streams : e.id = m.id})
                 ELSE UNCHANGED <<buf, muted>>
        /\ stray' = stray \cup ForeignStreams(r, m)
        /\ UNCHANGED <<cur, ran, wasted>>

\* dispatch_response; a full stream buffer makes it wait, or lose the item
DispatchWith(s, waits) ==
    LET r == ses[s]
        m == Head(r.s2c)
        q == [r EXCEPT !.s2c = Tail(r.s2c)]
        e == EntryOf(r.streams, m.id)
        gone == calls[e.c].at = "done"
        full == ~gone /\ Len(buf[e.c]) >= BufCap
        drop == m.t = "err" \/ gone
        left == [q EXCEPT !.streams = IF drop THEN Without(r.streams, m.id) ELSE r.streams]
        item == IF m.t = "err" THEN 0 ELSE m.n
    IN  /\ r.task.at = "select"
        /\ r.s2c # <<>>
        /\ \/ /\ m.t \in {"data", "err"}
              /\ HasEntry(r.pending, m.id)
              /\ SetSes(s, [q EXCEPT !.pending = Without(r.pending, m.id)])
              /\ LET c == EntryOf(r.pending, m.id).c
                 IN  calls' = [calls EXCEPT ![c].at = "done", ![c].got = m.c,
                                            ![c].ret = IF m.t = "data" THEN "ok" ELSE "server"]
              /\ UNCHANGED buf
           \/ /\ m.t \in {"sdata", "err"}
              /\ ~HasEntry(r.pending, m.id)
              /\ HasEntry(r.streams, m.id)
              /\ IF full /\ ~waits THEN SetSes(s, left) /\ UNCHANGED buf
                 ELSE IF full
                 THEN SetSes(s, [left EXCEPT !.task = [at |-> "deliver", c |-> e.c, x |-> item]])
                      /\ UNCHANGED buf
                 ELSE SetSes(s, left)
                      /\ buf' = IF gone THEN buf ELSE [buf EXCEPT ![e.c] = Append(buf[e.c], item)]
              /\ UNCHANGED calls
           \/ /\ \/ m.t = "sclose"
                 \/ m.t = "data" /\ ~HasEntry(r.pending, m.id)
                 \/ m.t \in {"sdata", "err"} /\ ~HasEntry(r.pending, m.id) /\ ~HasEntry(r.streams, m.id)
              /\ SetSes(s, IF m.t = "sclose" THEN [q EXCEPT !.streams = Without(r.streams, m.id)] ELSE q)
              /\ UNCHANGED <<calls, buf>>
        /\ UNCHANGED <<cur, ran, wasted, muted, stray>>

\* Mutant: a chunk that finds the stream's buffer full is dropped.
Dispatch_TrySend(s) == DispatchWith(s, FALSE)
Dispatch(s) == DispatchWith(s, TRUE)

\* The dispatch that waited for room in a stream's buffer
DeliverChunk(s) ==
    LET r == ses[s]
        c == r.task.c
        q == [r EXCEPT !.task = Selecting]
    IN  /\ r.task.at = "deliver"
        /\ \/ /\ calls[c].at = "done"
              /\ SetSes(s, [q EXCEPT !.streams = {e \in r.streams : e.c # c}])
              /\ UNCHANGED buf
           \/ /\ calls[c].at # "done"
              /\ Len(buf[c]) < BufCap
              /\ SetSes(s, q)
              /\ buf' = [buf EXCEPT ![c] = Append(buf[c], r.task.x)]
        /\ UNCHANGED <<cur, calls, ran, wasted, muted, stray>>

Failed(call) == [call EXCEPT !.at = "done", !.ret = "closed"]

\* The connection is closed and drained: notify_all_closed, and the queue goes
\* with the task
TransportEnds(s) ==
    LET r == ses[s]
        queued == {r.cmds[i].c : i \in {j \in DOMAIN r.cmds : r.cmds[j].t \in {"data", "open"}}}
    IN  /\ r.task.at = "select"
        /\ r.s2c = <<>>
        /\ ~r.net
        /\ SetSes(s, [r EXCEPT !.task = [at |-> "dead"], !.cmds = <<>>, !.pending = {}, !.streams = {}])
        /\ calls' = [c \in Calls |-> IF c \in queued \/ \E e \in r.pending : e.c = c
                                     THEN Failed(calls[c]) ELSE calls[c]]
        /\ TellStreams(r.streams)
        /\ UNCHANGED <<cur, ran, wasted, stray>>

\* Every handle is dropped: the task closes the connection
TransportDropped(s) ==
    LET r == ses[s]
    IN  /\ \A c \in Calls : calls[c].at = "done"
        /\ r.task.at = "select"
        /\ r.cmds = <<>>
        /\ SetSes(s, [r EXCEPT !.task = [at |-> "dead"], !.net = FALSE, !.streams = {}])
        /\ UNCHANGED <<cur, calls, buf, ran, wasted, muted, stray>>

-----------------------------------------------------------------------------
(* The handler of a connection: one task that reads, writes and spawns        *)

NewTask(kind, m) == [id |-> m.id, c |-> m.c, kind |-> kind, at |-> "new", n |-> 0, q |-> <<>>,
                  out |-> <<>>]

\* A permit taken, the task spawned; a stream's sender goes into the map
SpawnTask(r, m) ==
    IF m.t = "data"
    THEN [r EXCEPT !.free = r.free - 1, !.tasks = r.tasks \cup {NewTask("shot", m)}]
    ELSE [r EXCEPT !.free = r.free - 1, !.tasks = r.tasks \cup {NewTask("pump", m)},
                   !.map = r.map \cup {m.id}]

Pumps(r, id) == {k \in r.tasks : k.kind = "pump" /\ k.id = id /\ k.at # "over"}
ToPump(r, k, m) == [r EXCEPT !.tasks = (r.tasks \ {k}) \cup {[k EXCEPT !.q = Append(k.q, m)]}]
ForgetStream(r, m) == [r EXCEPT !.map = r.map \ {m.id}]
UnknownStream(m) == [t |-> "err", id |-> m.id, c |-> m.c]

\* The arms of the message match.  Waiting for a permit, for room in a stream's
\* channel or in the handler's own response channel suspends the handler.
HandleMessage(r, m) ==
    CASE m.t \in {"data", "open"} ->
             IF r.free > 0 THEN SpawnTask(r, m) ELSE [r EXCEPT !.h = [at |-> "permit", m |-> m]]
      [] m.t \in {"sdata", "close"} /\ m.id \notin r.map ->
             IF m.t = "close" THEN r
             ELSE IF Len(r.resp) < MAX_IN_FLIGHT
             THEN [r EXCEPT !.resp = Append(r.resp, UnknownStream(m))]
             ELSE [r EXCEPT !.h = [at |-> "self", m |-> m]]
      [] m.t \in {"sdata", "close"} /\ m.id \in r.map /\ Pumps(r, m.id) = {} ->
             ForgetStream(r, m)
      [] OTHER ->
             LET k == CHOOSE k \in Pumps(r, m.id) : TRUE
             IN  IF Len(k.q) >= MAX_IN_FLIGHT THEN [r EXCEPT !.h = [at |-> "pump", m |-> m]]
                 ELSE IF m.t = "close" /\ m.half = "Both" THEN ForgetStream(ToPump(r, k, m), m)
                 ELSE ToPump(r, k, m)

\* receive returns and the message is handled
ReceiveFrame(s) ==
    LET r == ses[s]
        m == Head(r.c2s)
    IN  /\ r.h.at = "select"
        /\ ~r.torn
        /\ r.c2s # <<>>
        /\ SetSes(s, HandleMessage([r EXCEPT !.c2s = Tail(r.c2s)], m))
        /\ UNCHANGED <<cur, calls, buf, ran, wasted, muted, stray>>

\* The wait ends: a permit is free, the stream's channel has room or its pump
\* is over, the response channel has room
ResumeHandler(s) ==
    LET r == ses[s]
        q == HandleMessage([r EXCEPT !.h = Selecting], r.h.m)
    IN  /\ r.h.at \in {"permit", "pump", "self"}
        /\ q.h = Selecting
        /\ SetSes(s, q)
        /\ UNCHANGED <<cur, calls, buf, ran, wasted, muted, stray>>

\* The handler leaves its loop: the socket closes, the stream map and the
\* receivers go, so every pump ends; a one-shot task goes on to its end
HandlerGone(r) ==
    [r EXCEPT !.h = [at |-> "gone"], !.net = FALSE, !.torn = FALSE, !.c2s = <<>>,
              !.resp = <<>>, !.done = {}, !.map = {}, !.free = 0,
              !.tasks = {k \in r.tasks : k.kind = "shot" /\ k.at = "new"}]

\* Another arm of the select! wins.  If receive held a frame's header and waited
\* for its body, those bytes are lost.
CancelReceive(r, tear) == [r EXCEPT !.torn = r.torn \/ tear]

\* The response_rx arm and its transport.send
SendResponse(s, tear) ==
    LET r == CancelReceive(ses[s], tear)
        waited == r.h.at = "reply"
        m == IF waited THEN r.h.m ELSE Head(r.resp)
        w == IF waited THEN [r EXCEPT !.h = Selecting] ELSE [r EXCEPT !.resp = Tail(r.resp)]
    IN  /\ \/ waited /\ ~tear
           \/ r.h.at = "select" /\ r.resp # <<>>
        /\ tear => r.c2s # <<>>
        /\ \/ r.net /\ Len(r.s2c) < PipeCap /\ SetSes(s, [w EXCEPT !.s2c = Append(r.s2c, m)])
           \/ /\ r.net /\ Len(r.s2c) >= PipeCap /\ ~waited
              /\ SetSes(s, [w EXCEPT !.h = [at |-> "reply", m |-> m]])
           \/ ~r.net /\ SetSes(s, HandlerGone(r))
        /\ UNCHANGED <<cur, calls, buf, ran, wasted, muted, stray>>

\* The stream_done_rx arm
ReapStream(s, tear) ==
    LET r == CancelReceive(ses[s], tear)
    IN  /\ r.h.at = "select"
        /\ tear => r.c2s # <<>>
        /\ \E id \in r.done : SetSes(s, [r EXCEPT !.done = r.done \ {id}, !.map = r.map \ {id}])
        /\ UNCHANGED <<cur, calls, buf, ran, wasted, muted, stray>>

\* receive fails: the peer is gone, or what follows a lost header is no frame
ReceiveFails(s) ==
    LET r == ses[s]
    IN  /\ r.h.at = "select"
        /\ \/ r.torn /\ r.c2s # <<>>
           \/ ~r.net /\ r.c2s = <<>>
        /\ SetSes(s, HandlerGone(r))
        /\ UNCHANGED <<cur, calls, buf, ran, wasted, muted, stray>>

\* CLIENT_IDLE_TIMEOUT, armed only while no stream is open
IdleTimeout(s) ==
    LET r == ses[s]
    IN  /\ r.h.at = "select"
        /\ r.map = {}
        /\ r.net
        /\ r.c2s = <<>>
        /\ r.resp = <<>>
        /\ r.done = {}
        /\ SetSes(s, HandlerGone(r))
        /\ UNCHANGED <<cur, calls, buf, ran, wasted, muted, stray>>

-----------------------------------------------------------------------------
(* The tasks the handler spawned                                              *)

ReplaceTask(r, k, l) == [r EXCEPT !.tasks = (r.tasks \ {k}) \cup {l}]

\* The task ends: a pump reports its id first, waiting for room; the permit is dropped
EndTask(r, k) ==
    IF k.kind = "pump" /\ Cardinality(r.done) >= MAX_IN_FLIGHT
    THEN ReplaceTask(r, k, [k EXCEPT !.at = "over", !.out = <<>>])
    ELSE [r EXCEPT !.tasks = r.tasks \ {k}, !.free = r.free + 1,
                   !.done = IF k.kind = "pump" THEN r.done \cup {k.id} ELSE r.done]

\* response_tx.send(m) of task k, which then goes on at `next'
PushResponse(r, k, m, next) ==
    IF r.h.at = "gone" THEN [r EXCEPT !.tasks = r.tasks \ {k}]
    ELSE IF Len(r.resp) >= MAX_IN_FLIGHT
    THEN ReplaceTask(r, k, [k EXCEPT !.at = "push", !.out = <<m, next>>])
    ELSE LET q == [r EXCEPT !.resp = Append(r.resp, m)]
         IN  IF next = "over" THEN EndTask(q, k) ELSE ReplaceTask(q, k, [k EXCEPT !.at = next, !.out = <<>>])

\* forward_to_container answers, or fails before or after the workload has the
\* request; its answer is queued
Forwarded(s, answer, reached) ==
    /\ \E k \in ses[s].tasks :
          /\ k.kind = "shot"
          /\ k.at = "new"
          /\ SetSes(s, PushResponse(ses[s], k, [t |-> answer, id |-> k.id, c |-> k.c], "over"))
          /\ ran' = [ran EXCEPT ![k.c] = ran[k.c] + (IF reached THEN 1 ELSE 0)]
    /\ UNCHANGED <<cur, calls, buf, wasted, muted, stray>>
ForwardToContainer(s) == Forwarded(s, "data", TRUE)
ForwardFails(s) == \E reached \in BOOLEAN : Forwarded(s, "err", reached)

\* pump_bidirectional dials the workload and writes the initial payload
PumpDials(s) ==
    /\ \E k \in ses[s].tasks :
          /\ k.kind = "pump"
          /\ k.at = "new"
          /\ SetSes(s, ReplaceTask(ses[s], k, [k EXCEPT !.at = "loop"]))
          /\ ran' = [ran EXCEPT ![k.c] = ran[k.c] + 1]
    /\ UNCHANGED <<cur, calls, buf, wasted, muted, stray>>

\* Its workload arm: a chunk, and after the last one the workload's EOF, which
\* leaves the pump waiting for the client's close
PumpReads(s) ==
    /\ \E k \in ses[s].tasks :
          /\ k.kind = "pump"
          /\ k.at = "loop"
          /\ k.n <= Chunks
          /\ LET l == [k EXCEPT !.n = k.n + 1]
                 m == IF l.n <= Chunks THEN [t |-> "sdata", id |-> k.id, c |-> k.c, n |-> l.n]
                      ELSE [t |-> "sclose", id |-> k.id, c |-> k.c]
             IN  SetSes(s, PushResponse(ReplaceTask(ses[s], k, l), l, m, "loop"))
    /\ UNCHANGED <<cur, calls, buf, ran, wasted, muted, stray>>

\* Mutant: the pump ends without a word.
PumpFails_Silent(s) ==
    /\ \E k \in ses[s].tasks :
          /\ k.kind = "pump"
          /\ k.at \in {"new", "loop"}
          /\ SetSes(s, EndTask(ses[s], k))
    /\ UNCHANGED <<cur, calls, buf, ran, wasted, muted, stray>>

\* The dial, a read or a write fails: an error is queued and the pump is over
PumpFails(s) ==
    /\ \E k \in ses[s].tasks :
          /\ k.kind = "pump"
          /\ k.at = "new" \/ (k.at = "loop" /\ (k.n <= Chunks \/ k.q # <<>>))
          /\ SetSes(s, PushResponse(ses[s], k, [t |-> "err", id |-> k.id, c |-> k.c], "over"))
    /\ UNCHANGED <<cur, calls, buf, ran, wasted, muted, stray>>

\* A task that waited for room in the response channel
Pushes(s) ==
    /\ \E k \in ses[s].tasks :
          /\ k.at = "push"
          /\ Len(ses[s].resp) < MAX_IN_FLIGHT
          /\ SetSes(s, PushResponse(ses[s], k, k.out[1], k.out[2]))
    /\ UNCHANGED <<cur, calls, buf, ran, wasted, muted, stray>>

\* The command arm: data is written, a close of both halves or a dropped sender
\* ends the pump
PumpCommand(s) ==
    /\ \E k \in ses[s].tasks :
          /\ k.kind = "pump"
          /\ k.at = "loop"
          /\ \/ /\ k.q # <<>>
                /\ LET both == Head(k.q).t = "close" /\ Head(k.q).half = "Both"
                   IN  SetSes(s, IF both THEN EndTask(ses[s], k)
                                ELSE ReplaceTask(ses[s], k, [k EXCEPT !.q = Tail(k.q)]))
             \/ /\ k.q = <<>>
                /\ k.id \notin ses[s].map
                /\ SetSes(s, EndTask(ses[s], k))
    /\ UNCHANGED <<cur, calls, buf, ran, wasted, muted, stray>>

\* A pump that waited to report its end
ReportEnd(s) ==
    /\ \E k \in ses[s].tasks :
          /\ k.at = "over"
          /\ Cardinality(ses[s].done) < MAX_IN_FLIGHT
          /\ SetSes(s, EndTask(ses[s], k))
    /\ UNCHANGED <<cur, calls, buf, ran, wasted, muted, stray>>

\* The network drops the connection, and what it carried from some frame on
NetCut(s) ==
    LET r == ses[s]
    IN  /\ r.net
        /\ \E a \in 0 .. Len(r.c2s), b \in 0 .. Len(r.s2c) :
              SetSes(s, [r EXCEPT !.net = FALSE, !.c2s = SubSeq(r.c2s, 1, a), !.s2c = SubSeq(r.s2c, 1, b)])
        /\ UNCHANGED <<cur, calls, buf, ran, wasted, muted, stray>>

-----------------------------------------------------------------------------
MuxInit ==
    /\ cur = 1
    /\ calls = [c \in Calls |-> [at |-> "idle", sess |-> 1, id |-> 0, ret |-> "none", got |-> c,
                                 read |-> 0, wrote |-> 0, ordered |-> TRUE]]
    /\ buf = [c \in Calls |-> <<>>]
    /\ ses = [s \in Sessions |-> IF s = 1 THEN FreshSession ELSE NoSession]
    /\ ran = [c \in Calls |-> 0]
    /\ wasted = {}
    /\ muted = {}
    /\ stray = {}
    /\ faults = 0

SdkStep(c) ==
    \/ EnsureConnected(c) \/ IssueCommand(c) \/ ReadHead(c) \/ ReadChunk(c)
    \/ WriteChunk(c) \/ ShutdownWrite(c) \/ CloseStream(c)
TransportStep(s) == TransportSend(s) \/ Dispatch(s) \/ DeliverChunk(s) \/ TransportEnds(s)
HandlerStep(s) ==
    ReceiveFrame(s) \/ ResumeHandler(s) \/ SendResponse(s, FALSE) \/ ReapStream(s, FALSE) \/ ReceiveFails(s)
TaskStep(s) ==
    \/ ForwardToContainer(s) \/ PumpDials(s) \/ PumpReads(s) \/ Pushes(s)
    \/ PumpCommand(s) \/ ReportEnd(s)
SessionFault(s) ==
    \/ SendResponse(s, TRUE) \/ ReapStream(s, TRUE) \/ IdleTimeout(s) \/ NetCut(s)
    \/ ForwardFails(s) \/ PumpFails(s)

MuxNext ==
    \/ /\ \/ \E c \in Calls : SdkStep(c)
          \/ \E s \in Sessions : TransportStep(s) \/ HandlerStep(s) \/ TaskStep(s) \/ TransportDropped(s)
       /\ UNCHANGED faults
    \/ /\ faults < MaxFaults
       /\ faults' = faults + 1
       /\ \E c \in Calls, s \in Sessions : SessionFault(s) \/ UpgradeRefused(c)

-----------------------------------------------------------------------------
\* Nothing moves until the user drops something, a deadline passes or the network fails
AtRest ==
    /\ ~ENABLED \E c \in Calls : \/ EnsureConnected(c) \/ IssueCommand(c) \/ ReadHead(c)
                                \/ ReadChunk(c) \/ WriteChunk(c) \/ ShutdownWrite(c)
    /\ ~ENABLED \E s \in Sessions : TransportStep(s) \/ HandlerStep(s) \/ TaskStep(s)

\* Across reconnects, idle timeouts and failed calls the workload is handed a call
\* at most once, and an answer send_request returns is the workload's to this call.
AnsweredOnce ==
    \A c \in Calls : ran[c] <= 1 /\ (calls[c].ret = "ok" => calls[c].got = c /\ ran[c] = 1)

\* What an UpgradedStream reads is the workload's output with nothing missing, and
\* a clean EOF means all of it, unless the error that ended the stream found its
\* buffer full (notify_all_closed and fail_stream use try_send) or a close meant for
\* another session took its entry.
StreamIsWhole ==
    \A c \in Calls :
        /\ calls[c].ordered
        /\ calls[c].ret = "eof" => calls[c].read = Chunks \/ c \in muted \cup stray

\* Something can move while a call waits, unless its handler waits itself, inside the
\* arm of a message or a response, and so neither reads nor writes for its connection:
\* for a permit, for a pump's channel, for its own response channel, or for the socket.
WaitsOnlyOnHandler ==
    (\E c \in Calls : /\ calls[c].at \in {"ready", "wait", "head"}
                      /\ ses[calls[c].sess].h.at \notin {"permit", "pump", "self", "reply"})
        => ~AtRest

\* A handler that is up and idle holds no stream (and so no permit) of a call that is
\* over once nothing moves, unless the close sent by the stream's drop found the command
\* queue full.
StreamsReleased ==
    /\ \E s \in Sessions : ses[s].h.at = "select" /\ ses[s].net /\ ses[s].map # {}
    /\ wasted = {}
    /\ \A c \in Calls : calls[c].at = "done"
    => ~AtRest

\* What a caller gets is the workload's answer to this call, once and whole, across
\* reconnects, idle timeouts and streams that fail (send_request, UpgradedStream).
RepliesAreWhole == AnsweredOnce /\ StreamIsWhole

\* When nothing moves any more, no call waits on a peer that could go on, and no
\* stream is held for a call that is over (handle_client, the drop of a stream).
RestsClean == WaitsOnlyOnHandler /\ StreamsReleased
=============================================================================
