---------------------------- MODULE NbdPipeline ----------------------------
(***************************************************************************)
(* The running nbd-client with the anti-rollback wiring on: three tasks    *)
(* between the kernel and the storage host (nbd-client/src/main.rs and the *)
(* runtime half of rollback.rs).                                           *)
(*                                                                         *)
(*   - request_proxy forwards requests; a write of the superblock region   *)
(*     is gated, its commitment captured, and a pin job queued;            *)
(*   - pin_actor pins the jobs in order and resolves the gate;             *)
(*   - gated_reply_proxy forwards replies, parks the reply of a gated      *)
(*     write until its pin is durable, and verifies every read of the      *)
(*     region against the region watch.                                    *)
(*                                                                         *)
(* The kernel, the host and the pin RPC are the environment.  The content  *)
(* of the region is the number of the write that produced it (a superblock *)
(* carries its generation, so no two are equal), 0 being what the boot     *)
(* verified; a commitment is an injective image of it.  A request is       *)
(* issued when the proxy reads its header.  A task that fails stops; the   *)
(* others may run on until the process exits.                              *)
(***************************************************************************)
EXTENDS Naturals, Sequences, FiniteSets

CONSTANTS Handle,     \* NBD request handles (the kernel's tags)
          QueueCap,   \* capacity of the pin job channel
          Overlap,    \* region writes the kernel keeps in flight at once
          StaleDisk,  \* may the host answer a read with older content?
          MaxWrites,  \* bound on region writes
          None

Entry == [seq : Nat, c : Nat]
Job   == [h : Handle, c : Nat]

(* A request at the host *)
HostSlot == [op : {"read", "write", "other"}, st : {"queued", "done", "error"}, val : Nat]

ASSUME NoneIsNoValue == /\ None \notin Nat /\ None \notin Handle
                        /\ None \notin {"Pending", "Ok", "Failed"}
                        /\ None \notin Entry /\ None \notin Job
                        /\ None \notin HostSlot

ASSUME PipelineBounds == /\ QueueCap \in Nat \ {0} /\ Overlap \in Nat
                         /\ MaxWrites \in Nat /\ StaleDisk \in BOOLEAN

VARIABLES
    kernel,    \* per handle: the request in flight, or the read last answered;
               \*   val is the content written or returned (for a read in flight,
               \*   the newest commitment known when it was issued), since the
               \*   writes acknowledged when a read was issued
    written,   \* region writes issued so far
    overlapped, \* history: have two region writes been in flight at once?
    acked,     \* the region writes acknowledged to the kernel
    req,       \* request_proxy: its position, and the handle it works on
    inflight,  \* read handles whose reply is awaited
    gate,      \* PinGate: per gated handle, its pin's status
    history,   \* RegionWatch: pinned commitments, oldest first
    pending,   \* RegionWatch: per write handle, its commitment
    reads,     \* RegionWatch: per read handle, accept_from_seq
    next_seq,
    jobs,      \* the pin job channel
    actor,     \* pin_actor: its position, and the job it works on
    pump,      \* gated_reply_proxy: its position, and the handle it works on
    stashed,   \* handles whose reply is parked
    nudges,    \* wake-ups in the nudge channel
    hostUp,    \* is the stream to the host open?
    host,      \* per handle: the request at the host
    disk,      \* the region's content on the host
    pinned     \* the commitments the oracle holds durably, in order

kernelVars == <<kernel, written, overlapped, acked>>
watchVars  == <<history, pending, reads, next_seq>>
hostVars   == <<hostUp, host, disk>>
vars == <<kernelVars, req, inflight, gate, watchVars, jobs, actor, pump, stashed,
          nudges, hostVars, pinned>>

Idle == [op |-> "idle", val |-> 0, since |-> {}]

Init ==
    /\ kernel = [h \in Handle |-> Idle]
    /\ written = 0 /\ overlapped = FALSE /\ acked = {0}
    /\ req = [pc |-> "ready", h |-> None]
    /\ inflight = {}
    /\ gate = [h \in Handle |-> None]
    /\ history = <<[seq |-> 0, c |-> 0]>>
    /\ pending = [h \in Handle |-> None]
    /\ reads = [h \in Handle |-> None]
    /\ next_seq = 1
    /\ jobs = <<>>
    /\ actor = [pc |-> "idle", job |-> None]
    /\ pump = [pc |-> "ready", h |-> None]
    /\ stashed = {}
    /\ nudges = 0
    /\ hostUp = TRUE
    /\ host = [h \in Handle |-> None]
    /\ disk = 0
    /\ pinned = <<0>>

-----------------------------------------------------------------------------
(* request_proxy *)

Free(h) == kernel[h].op \in {"idle", "done"}

Busy(op) == {h \in Handle : kernel[h].op = op}

Issue(h, op, c) ==
    /\ req.pc = "ready" /\ hostUp /\ Free(h)
    /\ kernel' = [kernel EXCEPT ![h] = [op |-> op, val |-> c,
                                         since |-> IF op = "read" THEN acked ELSE {}]]

AtHost(h, op, c) == host' = [host EXCEPT ![h] = [op |-> op, st |-> "queued", val |-> c]]

(* Mutant: the oldest commitment kept, instead of the newest. *)
WatchRead_Oldest(h) == reads' = [reads EXCEPT ![h] = history[1].seq]

(* RegionWatch::watch_read *)
WatchRead(h) == reads' = [reads EXCEPT ![h] = history[Len(history)].seq]

RecvRead(h) ==
    /\ Issue(h, "read", history[Len(history)].seq)
    /\ inflight' = inflight \cup {h}
    /\ WatchRead(h)
    /\ AtHost(h, "read", 0)
    /\ UNCHANGED <<written, overlapped, acked, req, gate, history, pending, next_seq, jobs, actor,
                   pump, stashed, nudges, hostUp, disk, pinned>>

(* A request that does not touch the region (a flush, a read or write elsewhere). *)
RecvOther(h) ==
    /\ Issue(h, "other", 0)
    /\ AtHost(h, "other", 0)
    /\ UNCHANGED <<written, overlapped, acked, req, inflight, gate, watchVars, jobs, actor, pump,
                   stashed, nudges, hostUp, disk, pinned>>

(* Mutant: the write is forwarded without a gate entry. *)
RecvWrite_Ungated(h) ==
    /\ written < MaxWrites /\ Cardinality(Busy("write")) < Overlap
    /\ Issue(h, "write", written + 1)
    /\ written' = written + 1
    /\ overlapped' = (overlapped \/ Busy("write") # {})
    /\ req' = [pc |-> "capture", h |-> h]
    /\ UNCHANGED <<acked, inflight, gate, watchVars, jobs, actor, pump, stashed, nudges,
                   hostVars, pinned>>

(* A region write: gated before its header is forwarded. *)
RecvWrite(h) ==
    /\ written < MaxWrites /\ Cardinality(Busy("write")) < Overlap
    /\ Issue(h, "write", written + 1)
    /\ written' = written + 1
    /\ overlapped' = (overlapped \/ Busy("write") # {})
    /\ gate' = [gate EXCEPT ![h] = "Pending"]
    /\ req' = [pc |-> "capture", h |-> h]
    /\ UNCHANGED <<acked, inflight, watchVars, jobs, actor, pump, stashed, nudges,
                   hostVars, pinned>>

(* A write that covers part of the region, or a TRIM of it: fail-stop. *)
RecvPartial(h) ==
    /\ Issue(h, "other", 0)
    /\ req' = [pc |-> "failed", h |-> None]
    /\ UNCHANGED <<written, overlapped, acked, inflight, gate, watchVars, jobs, actor, pump, stashed,
                   nudges, hostVars, pinned>>

(* forward_bytes_extract: the commitment is registered (begin_pending)     *)
(* before the chunk that completes the region reaches the host.            *)
Capture ==
    /\ req.pc = "capture"
    /\ pending' = [pending EXCEPT ![req.h] = [seq |-> next_seq, c |-> kernel[req.h].val]]
    /\ next_seq' = next_seq + 1
    /\ req' = [pc |-> "forward", h |-> req.h]
    /\ UNCHANGED <<kernelVars, inflight, gate, history, reads, jobs, actor, pump, stashed,
                   nudges, hostVars, pinned>>

Forward ==
    /\ req.pc = "forward" /\ hostUp
    /\ AtHost(req.h, "write", kernel[req.h].val)
    /\ req' = [pc |-> "queue", h |-> req.h]
    /\ UNCHANGED <<kernelVars, inflight, gate, watchVars, jobs, actor, pump, stashed,
                   nudges, hostUp, disk, pinned>>

(* Writing to a host that closed the stream fails. *)
HostLost ==
    /\ req.pc \in {"ready", "forward"} /\ ~hostUp
    /\ req' = [pc |-> "failed", h |-> None]
    /\ UNCHANGED <<kernelVars, inflight, gate, watchVars, jobs, actor, pump, stashed,
                   nudges, hostVars, pinned>>

ActorGone == actor.pc \in {"failed", "stopped"}

(* pin_tx.send: waits for room in the channel, fails without a receiver. *)
QueuePin ==
    /\ req.pc = "queue"
    /\ \/ /\ ~ActorGone /\ Len(jobs) < QueueCap
          /\ jobs' = Append(jobs, [h |-> req.h, c |-> kernel[req.h].val])
          /\ req' = [pc |-> "ready", h |-> None]
       \/ /\ ActorGone
          /\ req' = [pc |-> "failed", h |-> None]
          /\ UNCHANGED jobs
    /\ UNCHANGED <<kernelVars, inflight, gate, watchVars, actor, pump, stashed, nudges,
                   hostVars, pinned>>

(* NBD_CMD_DISC: the proxy forwards it and ends; the job channel closes. *)
Disconnect ==
    /\ req.pc = "ready"
    /\ req' = [pc |-> "stopped", h |-> None]
    /\ UNCHANGED <<kernelVars, inflight, gate, watchVars, jobs, actor, pump, stashed,
                   nudges, hostVars, pinned>>

-----------------------------------------------------------------------------
(* pin_actor *)

RecvJob ==
    /\ actor.pc = "idle" /\ jobs # <<>>
    /\ actor' = [pc |-> "pinning", job |-> Head(jobs)]
    /\ jobs' = Tail(jobs)
    /\ UNCHANGED <<kernelVars, req, inflight, gate, watchVars, pump, stashed, nudges,
                   hostVars, pinned>>

(* The queue is closed and drained. *)
ActorEnds ==
    /\ actor.pc = "idle" /\ jobs = <<>> /\ req.pc \in {"stopped", "failed"}
    /\ actor' = [pc |-> "stopped", job |-> None]
    /\ UNCHANGED <<kernelVars, req, inflight, gate, watchVars, jobs, pump, stashed,
                   nudges, hostVars, pinned>>

PinOk ==
    /\ actor.pc = "pinning"
    /\ pinned' = Append(pinned, actor.job.c)
    /\ actor' = [pc |-> "commit", job |-> actor.job]
    /\ UNCHANGED <<kernelVars, req, inflight, gate, watchVars, jobs, pump, stashed,
                   nudges, hostVars>>

(* The retries are used up, or the oracle refused; the pin may have landed. *)
PinFails ==
    /\ actor.pc = "pinning"
    /\ \/ pinned' = Append(pinned, actor.job.c)
       \/ UNCHANGED pinned
    /\ gate' = [gate EXCEPT ![actor.job.h] = "Failed"]
    /\ nudges' = nudges + 1
    /\ actor' = [pc |-> "failed", job |-> None]
    /\ UNCHANGED <<kernelVars, req, inflight, watchVars, jobs, pump, stashed, hostVars>>

Watched == {h \in Handle : reads[h] # None}

(* Mutant: everything below the newest commitment goes. *)
Unneeded_IgnoresReads(seq, newest) == seq < newest

(* Is an entry older than every read in flight, or, with none, than the    *)
(* newest commitment?                                                      *)
Unneeded(seq, newest) == IF Watched = {} THEN seq < newest
                         ELSE \A h \in Watched : seq < reads[h]

(* Drop unneeded entries from the front; the newest one always stays. *)
Prune(hist) ==
    \E first \in 1..Len(hist) :
        /\ first = Len(hist) \/ ~Unneeded(hist[first].seq, hist[Len(hist)].seq)
        /\ \A i \in 1..(first - 1) : Unneeded(hist[i].seq, hist[Len(hist)].seq)
        /\ history' = SubSeq(hist, first, Len(hist))

(* RegionWatch::commit *)
WatchCommit ==
    /\ actor.pc = "commit"
    /\ Prune(Append(history, pending[actor.job.h]))
    /\ pending' = [pending EXCEPT ![actor.job.h] = None]
    /\ actor' = [pc |-> "finish", job |-> actor.job]
    /\ UNCHANGED <<kernelVars, req, inflight, gate, reads, next_seq, jobs, pump, stashed,
                   nudges, hostVars, pinned>>

FinishOk ==
    /\ actor.pc = "finish"
    /\ gate' = [gate EXCEPT ![actor.job.h] = "Ok"]
    /\ actor' = [pc |-> "nudge", job |-> actor.job]
    /\ UNCHANGED <<kernelVars, req, inflight, watchVars, jobs, pump, stashed, nudges,
                   hostVars, pinned>>

(* Mutant: the gate is resolved without waking the pump. *)
Nudge_Lost ==
    /\ actor.pc = "nudge"
    /\ actor' = [pc |-> "idle", job |-> None]
    /\ UNCHANGED <<kernelVars, req, inflight, gate, watchVars, jobs, pump, stashed,
                   nudges, hostVars, pinned>>

Nudge ==
    /\ actor.pc = "nudge"
    /\ nudges' = nudges + 1
    /\ actor' = [pc |-> "idle", job |-> None]
    /\ UNCHANGED <<kernelVars, req, inflight, gate, watchVars, jobs, pump, stashed,
                   hostVars, pinned>>

-----------------------------------------------------------------------------
(* gated_reply_proxy *)

(* The replies of the handles in S reach the kernel. *)
Acknowledge(S) ==
    /\ kernel' = [h \in Handle |-> IF h \in S THEN Idle ELSE kernel[h]]
    /\ acked' = acked \cup {kernel[h].val : h \in {g \in S : kernel[g].op = "write"}}

Taken(h) == host' = [host EXCEPT ![h] = None]

(* Mutant: the reply's error field is not looked at. *)
HostOk_Ignored(h) == TRUE

Arrived(h) == pump.pc = "ready" /\ host[h] # None /\ host[h].st \in {"done", "error"}

HostOk(h) == host[h].st = "done"

Known == {history[i] : i \in 1..Len(history)}
         \cup {pending[h] : h \in {g \in Handle : pending[g] # None}}

(* RegionWatch::verify_read *)
FreshFor(h, val) == \E e \in Known : e.seq >= reads[h] /\ e.c = val

(* Mutant: a failed read stays in the region watch. *)
Unwatch_KeepsFailed(h) == reads' = IF HostOk(h) THEN [reads EXCEPT ![h] = None] ELSE reads

(* verify_read and drop_read both end the watch of the read. *)
Unwatch(h) == reads' = [reads EXCEPT ![h] = None]

(* A read reply: verified before any byte of it reaches the kernel. *)
ReadReply(h) ==
    /\ Arrived(h) /\ h \in inflight
    /\ inflight' = inflight \ {h}
    /\ Unwatch(h)
    /\ Taken(h)
    /\ \/ /\ HostOk(h) /\ FreshFor(h, host[h].val)
          /\ kernel' = [kernel EXCEPT ![h] = [op |-> "done", val |-> host[h].val,
                                               since |-> kernel[h].since]]
          /\ UNCHANGED pump
       \/ /\ HostOk(h) /\ ~FreshFor(h, host[h].val)
          /\ pump' = [pc |-> "refused", h |-> h]
          /\ UNCHANGED kernel
       \/ /\ ~HostOk(h)
          /\ kernel' = [kernel EXCEPT ![h] = Idle]
          /\ UNCHANGED pump
    /\ UNCHANGED <<written, overlapped, acked, req, gate, history, pending, next_seq, jobs, actor,
                   stashed, nudges, hostUp, disk, pinned>>

(* A reply that is not a read's consults the gate (PinGate::check). *)
WriteReply(h) ==
    /\ Arrived(h) /\ h \notin inflight
    /\ Taken(h)
    /\ \/ /\ gate[h] = None
          /\ Acknowledge({h})
          /\ UNCHANGED <<gate, pump>>
       \/ /\ gate[h] = "Ok" /\ HostOk(h)
          /\ gate' = [gate EXCEPT ![h] = None]
          /\ Acknowledge({h})
          /\ UNCHANGED pump
       \/ /\ gate[h] = "Pending" /\ HostOk(h)
          /\ pump' = [pc |-> "hold", h |-> h]
          /\ UNCHANGED <<kernel, acked, gate>>
       \/ /\ gate[h] = "Failed" \/ (gate[h] # None /\ ~HostOk(h))
          /\ pump' = [pc |-> "failed", h |-> None]
          /\ UNCHANGED <<kernel, acked, gate>>
    /\ UNCHANGED <<written, overlapped, req, inflight, watchVars, jobs, actor, stashed, nudges, hostUp,
                   disk, pinned>>

(* Mutant: the pump waits for the pin instead of parking the reply. *)
Stash_Waits ==
    /\ pump.pc = "hold" /\ gate[pump.h] # "Pending"
    /\ stashed' = stashed \cup {pump.h}
    /\ pump' = [pc |-> "ready", h |-> None]
    /\ UNCHANGED <<kernelVars, req, inflight, gate, watchVars, jobs, actor, nudges,
                   hostVars, pinned>>

(* The reply is parked; its pin may have been resolved since the check. *)
Stash ==
    /\ pump.pc = "hold"
    /\ stashed' = stashed \cup {pump.h}
    /\ pump' = [pc |-> "ready", h |-> None]
    /\ UNCHANGED <<kernelVars, req, inflight, gate, watchVars, jobs, actor, nudges,
                   hostVars, pinned>>

(* flush_stashed: every parked reply is checked again.  One whose pin      *)
(* failed, or whose gate entry is gone, ends the pump; the replies         *)
(* released before it was met (in no particular order) are released.       *)
RecvNudge ==
    /\ pump.pc = "ready" /\ nudges > 0
    /\ nudges' = nudges - 1
    /\ LET failed == {h \in stashed : gate[h] \in {"Failed", None}}
           passed == {h \in stashed : gate[h] = "Ok"}
       IN \E out \in SUBSET passed :
             /\ failed = {} => out = passed
             /\ stashed' = stashed \ out
             /\ gate' = [h \in Handle |-> IF h \in out THEN None ELSE gate[h]]
             /\ Acknowledge(out)
             /\ pump' = [pump EXCEPT !.pc = IF failed = {} THEN "ready" ELSE "failed"]
    /\ UNCHANGED <<written, overlapped, req, inflight, watchVars, jobs, actor, hostVars, pinned>>

(* The host closed the stream: clean only with nothing parked. *)
HostEof ==
    /\ pump.pc = "ready" /\ hostUp
    /\ hostUp' = FALSE
    /\ host' = [h \in Handle |-> None]
    /\ pump' = [pc |-> IF stashed = {} THEN "stopped" ELSE "failed", h |-> None]
    /\ UNCHANGED <<kernelVars, req, inflight, gate, watchVars, jobs, actor, stashed,
                   nudges, disk, pinned>>

-----------------------------------------------------------------------------
(* The storage host: it takes requests in any order and answers them in    *)
(* any order.                                                              *)

HostWrite(h) ==
    /\ host[h] # None /\ host[h].op = "write" /\ host[h].st = "queued"
    /\ disk' = host[h].val /\ UNCHANGED hostUp
    /\ host' = [host EXCEPT ![h] = [op |-> "write", st |-> "done", val |-> 0]]
    /\ UNCHANGED <<kernelVars, req, inflight, gate, watchVars, jobs, actor, pump, stashed,
                   nudges, pinned>>

HostRead(h) ==
    /\ host[h] # None /\ host[h].op \in {"read", "other"} /\ host[h].st = "queued"
    /\ \E v \in IF host[h].op = "other" THEN {0}
               ELSE IF StaleDisk THEN 0..disk ELSE {disk} :
           host' = [host EXCEPT ![h] = [op |-> host[h].op, st |-> "done", val |-> v]]
    /\ UNCHANGED <<kernelVars, req, inflight, gate, watchVars, jobs, actor, pump, stashed,
                   nudges, hostUp, disk, pinned>>

HostFails(h) ==
    /\ host[h] # None /\ host[h].st = "queued"
    /\ host' = [host EXCEPT ![h] = [op |-> host[h].op, st |-> "error", val |-> 0]]
    /\ UNCHANGED <<kernelVars, req, inflight, gate, watchVars, jobs, actor, pump, stashed,
                   nudges, hostUp, disk, pinned>>

-----------------------------------------------------------------------------
RequestProxy == Capture \/ Forward \/ HostLost \/ QueuePin \/ Disconnect
                \/ \E h \in Handle : RecvRead(h) \/ RecvOther(h) \/ RecvWrite(h) \/ RecvPartial(h)

PinActor == RecvJob \/ ActorEnds \/ PinOk \/ PinFails \/ WatchCommit \/ FinishOk \/ Nudge

ReplyPump == Stash \/ RecvNudge \/ HostEof \/ \E h \in Handle : ReadReply(h) \/ WriteReply(h)

StorageHost == \E h \in Handle : HostWrite(h) \/ HostRead(h) \/ HostFails(h)

Next == RequestProxy \/ PinActor \/ ReplyPump \/ StorageHost

Spec == Init /\ [][Next]_vars

(* Fairness: the runtime schedules every ready task, the pump serves both  *)
(* of its channels and every reply in them, and the host works through its *)
(* requests.  The kernel need not send anything.                           *)
ProxiesFair ==
    /\ WF_vars(Capture \/ Forward \/ QueuePin)
    /\ WF_vars(Stash \/ RecvNudge)
    /\ \A h \in Handle : /\ WF_vars(ReadReply(h) \/ WriteReply(h))
                         /\ WF_vars(HostWrite(h) \/ HostRead(h) \/ HostFails(h))

(* A pin ends: pin_with_retries has a bounded number of attempts.  Only    *)
(* WriteAnswered depends on it.                                            *)
ActorFair == WF_vars(RecvJob \/ PinOk \/ PinFails \/ WatchCommit \/ FinishOk \/ Nudge)

FairSpec == Spec /\ ProxiesFair

-----------------------------------------------------------------------------
(* Properties *)

KernelSlot == [op : {"idle", "read", "write", "other", "done"}, val : Nat,
               since : SUBSET Nat]

TypeOK ==
    /\ kernel \in [Handle -> KernelSlot]
    /\ written \in Nat /\ overlapped \in BOOLEAN /\ acked \in SUBSET Nat
    /\ req \in [pc : {"ready", "capture", "forward", "queue", "stopped", "failed"},
                h : Handle \cup {None}]
    /\ inflight \in SUBSET Handle
    /\ gate \in [Handle -> {None, "Pending", "Ok", "Failed"}]
    /\ history \in Seq(Entry) /\ history # <<>>
    /\ pending \in [Handle -> {None} \cup Entry]
    /\ reads \in [Handle -> {None} \cup Nat]
    /\ next_seq \in Nat
    /\ jobs \in Seq(Job)
    /\ actor \in [pc : {"idle", "pinning", "commit", "finish", "nudge", "stopped", "failed"},
                  job : {None} \cup Job]
    /\ pump \in [pc : {"ready", "hold", "refused", "stopped", "failed"},
                 h : Handle \cup {None}]
    /\ stashed \in SUBSET Handle
    /\ nudges \in Nat
    /\ hostUp \in BOOLEAN
    /\ host \in [Handle -> {None} \cup HostSlot]
    /\ disk \in Nat
    /\ pinned \in Seq(Nat)

NewestPinned == pinned[Len(pinned)]

(* Durable before acknowledged: no region write is acknowledged to the     *)
(* kernel before the oracle holds its commitment, whatever the order in    *)
(* which the pin, the host's reply and the nudge arrive (PinGate and the   *)
(* parked replies of gated_reply_proxy).                                   *)
AckedIsPinned == \A w \in acked : w <= NewestPinned

(* The oracle receives the commitments in the order of the writes, each    *)
(* once: that order is what lets the next boot compare one commitment.     *)
PinnedInOrder == \A i \in 1..Len(pinned) : pinned[i] = i - 1

(* A verified read never returns content older than a region write that    *)
(* was acknowledged when the read was issued, even from a host that serves *)
(* older content (watch_read, commit and verify_read).                     *)
NoStaleRead ==
    \A h \in Busy("done") : \A w \in kernel[h].since : kernel[h].val >= w

(* "Honest out-of-order NBD replies never false-positive": a disk that     *)
(* keeps its writes, under a kernel with one region write in flight, never *)
(* has a read refused.  The code does not keep this: see RefusedIsOlder.   *)
HonestNeverRefused == ~StaleDisk /\ Overlap = 1 => pump.pc # "refused"

(* What it keeps: a read is refused only for content that is older than a  *)
(* pin that was durable when the read was issued.  No read is refused for  *)
(* content that was written, captured, pinned or pruned from the history   *)
(* while the read was in flight, whichever way they race (begin_pending    *)
(* before the host has the bytes; the floor of commit).                    *)
RefusedIsOlder ==
    [][pump.pc # "refused" /\ pump'.pc = "refused"
           => host[pump'.h].val < kernel[pump'.h].val]_vars

(* A handle the kernel may use again has left nothing behind: no gate      *)
(* entry, pending commitment, watched read or parked reply of its previous *)
(* use could meet the next one.                                            *)
ReusedHandleIsClean ==
    \A h \in Handle : Free(h) => /\ gate[h] = None /\ pending[h] = None /\ reads[h] = None
                                 /\ h \notin inflight \cup stashed

(* Between two region writes the disk holds what is pinned (as long as the *)
(* kernel kept one in flight, like btrfs): whatever the process does from  *)
(* there, the next boot finds the commitment it expects.                   *)
QuietDiskMatches == ~overlapped /\ Busy("write") = {} => disk = NewestPinned

Down == pump.pc \in {"refused", "stopped", "failed"} \/ req.pc = "failed"
        \/ actor.pc = "failed"

(* A parked reply is released: if pins end, every region write is          *)
(* acknowledged, or the pipeline stops.  No wake-up is lost between the    *)
(* gate's check and the parking of the reply.                              *)
WriteAnswered ==
    ActorFair => \A h \in Handle : kernel[h].op = "write" ~> kernel[h].op # "write" \/ Down

(* "Unrelated requests are never stalled": they are answered even if the   *)
(* pin actor never moves again.                                            *)
OthersFlow ==
    \A h \in Handle : kernel[h].op \in {"read", "other"}
                          ~> kernel[h].op \notin {"read", "other"} \/ Down
=============================================================================
