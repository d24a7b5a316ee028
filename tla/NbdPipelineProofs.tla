------------------------- MODULE NbdPipelineProofs --------------------------
(***************************************************************************)
(* The inductive invariant of NbdPipeline, for any number of handles and   *)
(* region writes, any queue, any overlap, an honest or a stale disk; that  *)
(* the steps of request_proxy, pin_actor, reply_pump and the storage host  *)
(* keep it; and the theorems that follow from it.                          *)
(***************************************************************************)
EXTENDS NbdPipeline, Integers, TLAPS

-----------------------------------------------------------------------------
(* The sequence operators. *)

(* A sequence with one more element *)
LEMMA Appended ==
    ASSUME NEW T, NEW q \in Seq(T), NEW x \in T
    PROVE  /\ Append(q, x) \in Seq(T) /\ Append(q, x) # <<>>
           /\ Len(Append(q, x)) = Len(q) + 1 /\ Append(q, x)[Len(q) + 1] = x
           /\ \A i \in 1..Len(q) : Append(q, x)[i] = q[i]
  BY SMTT(20), Z3T(20)

(* A sequence without its first element *)
LEMMA Tailed ==
    ASSUME NEW T, NEW q \in Seq(T), q # <<>>
    PROVE  /\ Head(q) \in T /\ Tail(q) \in Seq(T) /\ Len(Tail(q)) = Len(q) - 1
           /\ \A i \in 1..Len(Tail(q)) : Tail(q)[i] = q[i + 1]
  BY SMTT(20), Z3T(20)

(* What a sequence holds from position m to position n *)
LEMMA Sliced ==
    ASSUME NEW T, NEW q, NEW m \in Int, NEW n \in Int, \A i \in m..n : q[i] \in T
    PROVE  /\ SubSeq(q, m, n) \in Seq(T)
           /\ Len(SubSeq(q, m, n)) = IF m <= n THEN n - m + 1 ELSE 0
           /\ \A i \in 1..(n - m + 1) : SubSeq(q, m, n)[i] = q[m + i - 1]
  BY SMTT(20), Z3T(20)

-----------------------------------------------------------------------------
(* The inductive invariant. *)

(* The newest commitment the region watch takes for pinned *)
Newest == history[Len(history)].seq

(* The write the pin actor took last *)
Base == IF actor.pc = "pinning" THEN Len(pinned) ELSE Len(pinned) - 1

(* Handle h carries region write w, whose pin is not resolved. *)
Carries(h, w) == /\ kernel[h].op = "write" /\ kernel[h].val = w
                 /\ gate[h] = "Pending"

Registered(h, w) == pending[h] = [seq |-> w, c |-> w]

PinnedOK == pinned # <<>> /\ PinnedInOrder

HistoryOK == /\ \A i \in 1..Len(history) : history[i].c = history[i].seq
             /\ Newest <= Len(pinned) - 1
             /\ \A w \in acked : w <= Newest

(* The actor's job, from the queue to the release of its gate *)
ActorOK ==
    /\ actor.pc \in {"pinning", "commit", "finish"} =>
           actor.job # None /\ Carries(actor.job.h, actor.job.c)
    /\ actor.pc = "pinning" => actor.job.c = Len(pinned)
    /\ actor.pc = "commit"  => actor.job.c = Len(pinned) - 1
    /\ actor.pc \in {"pinning", "commit"} => Registered(actor.job.h, actor.job.c)
    /\ actor.pc = "finish"  => actor.job.c <= Newest /\ pending[actor.job.h] = None
    /\ actor.pc = "nudge" => actor.job # None

(* The queue holds the next writes, in order. *)
JobsOK ==
    ~ActorGone => \A i \in 1..Len(jobs) : /\ jobs[i].c = Base + i
                                          /\ Carries(jobs[i].h, jobs[i].c)
                                          /\ Registered(jobs[i].h, jobs[i].c)

(* The write request_proxy works on comes after the queued ones. *)
Working == req.pc \in {"capture", "forward", "queue"}

ReqOK ==
    /\ next_seq = IF req.pc = "capture" THEN written ELSE written + 1
    /\ Working => req.h # None /\ Carries(req.h, written)
    /\ req.pc = "capture" => pending[req.h] = None
    /\ req.pc \in {"forward", "queue"} => Registered(req.h, written)
    /\ ~ActorGone /\ Working => written = Base + Len(jobs) + 1
    /\ ~ActorGone /\ req.pc = "ready" => written = Base + Len(jobs)

(* The pump holds the reply it is about to park. *)
PumpOK == pump.pc = "hold" => pump.h \in Handle

Parked(h) == h \in stashed \/ (pump.pc = "hold" /\ pump.h = h)

(* What the tables hold for a handle fits the request it carries: the gate *)
(* and the pending commitment a write, ...                                 *)
GateOK ==
    \A h \in Handle :
        /\ kernel[h].op = "write" <=> gate[h] # None
        /\ gate[h] = "Ok" => kernel[h].val <= Newest /\ pending[h] = None
        /\ pending[h] # None => kernel[h].op = "write" /\ pending[h].c = pending[h].seq

(* ... the watch a read, which may return nothing older than its floor, ... *)
WatchOK ==
    \A h \in Handle :
        /\ h \in inflight <=> reads[h] # None
        /\ h \in inflight => kernel[h].op = "read"
        /\ reads[h] # None => \A w \in kernel[h].since : w <= reads[h]

(* ... and a reply is where its request is. *)
ReplyOK ==
    \A h \in Handle :
        /\ Parked(h) => kernel[h].op = "write" /\ host[h] = None
        /\ Free(h) => host[h] = None
        /\ req.pc \in {"capture", "forward"} /\ req.h = h => host[h] = None /\ ~Parked(h)

IInv == /\ TypeOK
        /\ PinnedOK
        /\ HistoryOK
        /\ ActorOK
        /\ JobsOK
        /\ ReqOK
        /\ PumpOK
        /\ GateOK
        /\ WatchOK
        /\ ReplyOK
        /\ NoStaleRead

(* The types at the start *)
LEMMA TypeInit == Init => TypeOK
  <1> SUFFICES ASSUME Init PROVE TypeOK
    BY Zenon
  <1>1. kernel \in [Handle -> KernelSlot]
    BY Zenon DEF Init, Idle, KernelSlot
  <1>2. history \in Seq(Entry) /\ history # <<>>
    <2>1. [seq |-> 0, c |-> 0] \in Entry
      BY Zenon DEF Entry
    <2> QED BY <2>1, SMTT(20), Z3T(20) DEF Init
  <1>3. jobs \in Seq(Job) /\ pinned \in Seq(Nat)
    BY SMTT(20), Z3T(20) DEF Init
  <1>4. overlapped \in BOOLEAN /\ hostUp \in BOOLEAN
    BY Zenon DEF Init
  <1>5. /\ written \in Nat /\ acked \in SUBSET Nat /\ next_seq \in Nat /\ nudges \in Nat
        /\ disk \in Nat /\ inflight \in SUBSET Handle /\ stashed \in SUBSET Handle
    BY SMTT(20), Z3T(20) DEF Init
  <1> QED BY <1>1, <1>2, <1>3, <1>4, <1>5, Zenon DEF Init, TypeOK

(* Acknowledging replies keeps the kernel's table typed. *)
LEMMA AckTypes ==
    ASSUME TypeOK, NEW S \in SUBSET Handle, Acknowledge(S)
    PROVE  kernel' \in [Handle -> KernelSlot] /\ acked' \in SUBSET Nat
  <1>1. Idle \in KernelSlot
    BY Zenon DEF Idle, KernelSlot
  <1>2. \A g \in Handle : kernel[g] \in KernelSlot /\ kernel[g].val \in Nat
    BY Zenon DEF TypeOK, KernelSlot
  <1>3. kernel' \in [Handle -> KernelSlot]
    BY <1>1, <1>2, Zenon DEF Acknowledge
  <1>4. \A g \in {f \in S : kernel[f].op = "write"} : kernel[g].val \in Nat
    BY <1>2, Zenon
  <1>5. acked \in SUBSET Nat
    BY Zenon DEF TypeOK
  <1> QED BY <1>3, <1>4, <1>5, Zenon DEF Acknowledge

(* What a step writes into the tables is of their types. *)
LEMMA SlotTypes ==
    ASSUME TypeOK, NEW h \in Handle
    PROVE  /\ \A op \in {"read", "write", "other"}, c \in Nat : AtHost(h, op, c) =>
                 host' \in [Handle -> {None} \cup HostSlot]
           /\ \A op \in {"read", "write", "other"}, c \in Nat : Issue(h, op, c) =>
                 kernel' \in [Handle -> KernelSlot]
           /\ Taken(h) => host' \in [Handle -> {None} \cup HostSlot]
  <1>1. Idle \in KernelSlot
    BY Zenon DEF Idle, KernelSlot
  <1>2. \A g \in Handle : kernel[g] \in KernelSlot /\ kernel[g].val \in Nat
    BY Zenon DEF TypeOK, KernelSlot
  <1>4. ASSUME NEW op \in {"read", "write", "other"}, NEW c \in Nat
        PROVE  /\ AtHost(h, op, c) => host' \in [Handle -> {None} \cup HostSlot]
               /\ Issue(h, op, c) => kernel' \in [Handle -> KernelSlot]
    <2>1. [op |-> op, st |-> "queued", val |-> c] \in HostSlot
      BY Zenon DEF HostSlot
    <2>2. [op |-> op, val |-> c, since |-> IF op = "read" THEN acked ELSE {}] \in KernelSlot
      BY Zenon DEF KernelSlot, TypeOK
    <2>3. host \in [Handle -> {None} \cup HostSlot] /\ kernel \in [Handle -> KernelSlot]
      BY Zenon DEF TypeOK
    <2>4. AtHost(h, op, c) => host' \in [Handle -> {None} \cup HostSlot]
      BY <2>1, <2>3, Zenon DEF AtHost
    <2>5. Issue(h, op, c) => kernel' \in [Handle -> KernelSlot]
      BY <2>2, <2>3, Zenon DEF Issue
    <2> QED BY <2>4, <2>5, Zenon
  <1>5. Taken(h) => host' \in [Handle -> {None} \cup HostSlot]
    BY Zenon DEF Taken, TypeOK
  <1> QED BY <1>4, <1>5, Zenon

(* The queue and the lists *)
LEMMA ListTypes ==
    ASSUME TypeOK
    PROVE  /\ Len(history) \in Nat \ {0} /\ history[Len(history)] \in Entry
           /\ history[Len(history)].seq \in Nat
           /\ jobs # <<>> => Head(jobs) \in Job /\ Tail(jobs) \in Seq(Job)
           /\ \A j \in Job : Append(jobs, j) \in Seq(Job)
           /\ \A e \in Entry : Append(history, e) \in Seq(Entry) /\ Append(history, e) # <<>>
           /\ \A c \in Nat : Append(pinned, c) \in Seq(Nat)
           /\ actor.job # None => actor.job.h \in Handle /\ actor.job.c \in Nat
  <1>1. Len(history) \in Nat \ {0} /\ history[Len(history)] \in Entry
    BY SMTT(20), Z3T(20) DEF TypeOK
  <1>2. \A e \in Entry : e.seq \in Nat
    BY Zenon DEF Entry
  <1>3. \A j \in Job : j.h \in Handle /\ j.c \in Nat
    BY Zenon DEF Job
  <1>4. actor.job \in {None} \cup Job
    BY Zenon DEF TypeOK
  <1>5. jobs \in Seq(Job) /\ history \in Seq(Entry) /\ pinned \in Seq(Nat)
    BY Zenon DEF TypeOK
  <1>6. jobs # <<>> => Head(jobs) \in Job /\ Tail(jobs) \in Seq(Job)
    BY <1>5, SMTT(20), Z3T(20)
  <1>7. \A e \in Entry : Append(history, e) \in Seq(Entry) /\ Append(history, e) # <<>>
    BY <1>5, Appended, SMTT(20), Z3T(20)
  <1>8. \A j \in Job : Append(jobs, j) \in Seq(Job)
    BY <1>5, Appended, Zenon
  <1>9. \A c \in Nat : Append(pinned, c) \in Seq(Nat)
    BY <1>5, Appended, Zenon
  <1> QED BY <1>1, <1>2, <1>3, <1>4, <1>6, <1>7, <1>8, <1>9, Zenon

(* Pruning keeps a non-empty suffix of the list. *)
LEMMA PruneType ==
    ASSUME NEW s \in Seq(Entry), s # <<>>, Prune(s)
    PROVE  /\ history' \in Seq(Entry) /\ history' # <<>>
           /\ history'[Len(history')] = s[Len(s)]
           /\ \A i \in 1..Len(history') : \E j \in 1..Len(s) : history'[i] = s[j]
  <1>1. PICK first \in 1..Len(s) : history' = SubSeq(s, first, Len(s))
    BY Zenon DEF Prune
  <1>2. Len(s) \in Nat /\ first <= Len(s) /\ first \in Nat /\ first >= 1
    BY <1>1, SMTT(20), Z3T(20)
  <1>3. /\ history' \in Seq(Entry)
        /\ Len(history') = Len(s) - first + 1
        /\ \A i \in 1..Len(history') : history'[i] = s[first + i - 1]
    BY <1>1, <1>2, Sliced, SMTT(20), Z3T(20)
  <1> QED BY <1>2, <1>3, SMTT(20), Z3T(20)

(* Every step keeps the types. *)
LEMMA TypeStep ==
    ASSUME TypeOK, ActorOK, ReqOK, PumpOK, Next
    PROVE  TypeOK'
  <1>1. ASSUME NEW h \in Handle, RecvRead(h) PROVE TypeOK'
    <2>1. kernel' \in [Handle -> KernelSlot]
      BY <1>1, ListTypes, SlotTypes, Zenon DEF RecvRead
    <2>2. host' \in [Handle -> {None} \cup HostSlot]
      BY <1>1, SlotTypes, Zenon DEF RecvRead
    <2>3. reads' \in [Handle -> {None} \cup Nat] /\ inflight' \in SUBSET Handle
      BY <1>1, ListTypes, Zenon DEF RecvRead, WatchRead, TypeOK
    <2> QED BY <1>1, <2>1, <2>2, <2>3, SMTT(20), Z3T(20) DEF RecvRead, TypeOK, kernelVars,
               watchVars, hostVars
  <1>2. ASSUME NEW h \in Handle, RecvOther(h) PROVE TypeOK'
    <2>1. kernel' \in [Handle -> KernelSlot]
      BY <1>2, SlotTypes, Zenon DEF RecvOther
    <2>2. host' \in [Handle -> {None} \cup HostSlot]
      BY <1>2, SlotTypes, Zenon DEF RecvOther
    <2> QED BY <1>2, <2>1, <2>2, SMTT(20), Z3T(20) DEF RecvOther, TypeOK, kernelVars, watchVars,
               hostVars
  <1>3. ASSUME NEW h \in Handle, RecvWrite(h) PROVE TypeOK'
    <2>1. kernel' \in [Handle -> KernelSlot]
      BY <1>3, SlotTypes, SMTT(20), Z3T(20) DEF RecvWrite, TypeOK
    <2>2. overlapped' \in BOOLEAN
      BY <1>3, Zenon DEF RecvWrite
    <2>3. /\ written' \in Nat /\ gate' \in [Handle -> {None, "Pending", "Ok", "Failed"}]
          /\ req' \in [pc : {"ready", "capture", "forward", "queue", "stopped", "failed"},
                       h : Handle \cup {None}]
      BY <1>3, SMTT(20), Z3T(20) DEF RecvWrite, TypeOK
    <2>4. UNCHANGED <<acked, inflight, watchVars, jobs, actor, pump, stashed, nudges,
                      hostVars, pinned>>
      BY <1>3, Zenon DEF RecvWrite
    <2> QED BY <2>1, <2>2, <2>3, <2>4, Zenon DEF TypeOK, watchVars, hostVars
  <1>4. ASSUME NEW h \in Handle, RecvPartial(h) PROVE TypeOK'
    <2>1. kernel' \in [Handle -> KernelSlot]
      BY <1>4, SlotTypes, Zenon DEF RecvPartial
    <2> QED BY <1>4, <2>1, SMTT(20), Z3T(20) DEF RecvPartial, TypeOK, kernelVars, watchVars,
               hostVars
  <1>5. ASSUME Capture PROVE TypeOK'
    BY <1>5, NoneIsNoValue, SMTT(20), Z3T(20) DEF Capture, ReqOK, Working, KernelSlot, Entry,
       TypeOK, kernelVars, watchVars, hostVars
  <1>6. ASSUME Forward PROVE TypeOK'
    BY <1>6, NoneIsNoValue, SMTT(20), Z3T(20) DEF Forward, AtHost, ReqOK, Working, HostSlot,
       KernelSlot, TypeOK, kernelVars, watchVars, hostVars
  <1>7. ASSUME HostLost PROVE TypeOK'
    BY <1>7, NoneIsNoValue, Zenon DEF HostLost, TypeOK, kernelVars, watchVars, hostVars
  <1>8. ASSUME QueuePin PROVE TypeOK'
    <2>1. jobs' \in Seq(Job)
      <3>1. [h |-> req.h, c |-> kernel[req.h].val] \in Job
        BY <1>8, Zenon DEF QueuePin, ReqOK, Working, TypeOK, Job, KernelSlot
      <3>2. jobs \in Seq(Job)
        BY Zenon DEF TypeOK
      <3> QED BY <1>8, <3>1, <3>2, ListTypes, Zenon DEF QueuePin
    <2> QED BY <1>8, <2>1, SMTT(20), Z3T(20) DEF QueuePin, TypeOK, kernelVars, watchVars, hostVars
  <1>9. ASSUME Disconnect PROVE TypeOK'
    BY <1>9, NoneIsNoValue, SMTT(20), Z3T(20) DEF Disconnect, TypeOK, kernelVars, watchVars,
       hostVars
  <1>10. ASSUME RecvJob PROVE TypeOK'
    <2>1. jobs' \in Seq(Job) /\ Head(jobs) \in Job
      BY <1>10, ListTypes, Zenon DEF RecvJob
    <2> QED BY <1>10, <2>1, SMTT(20), Z3T(20) DEF RecvJob, TypeOK, kernelVars, watchVars, hostVars
  <1>11. ASSUME ActorEnds PROVE TypeOK'
    BY <1>11, NoneIsNoValue, Zenon DEF ActorEnds, TypeOK, kernelVars, watchVars, hostVars
  <1>12. ASSUME PinOk PROVE TypeOK'
    BY <1>12, NoneIsNoValue, SMTT(20), Z3T(20) DEF PinOk, ActorOK, Job, TypeOK, kernelVars,
       watchVars, hostVars
  <1>13. ASSUME PinFails PROVE TypeOK'
    <2>1. pinned' \in Seq(Nat)
      BY <1>13, ListTypes, ZenonT(30) DEF PinFails, ActorOK, TypeOK
    <2>2. gate' \in [Handle -> {None, "Pending", "Ok", "Failed"}]
      BY <1>13, ListTypes, Zenon DEF PinFails, ActorOK, TypeOK
    <2> QED BY <1>13, <2>1, <2>2, SMTT(20), Z3T(20) DEF PinFails, TypeOK, kernelVars, watchVars,
               hostVars
  <1>14. ASSUME WatchCommit PROVE TypeOK'
    <2>1. pending[actor.job.h] \in Entry
      BY <1>14, ListTypes, SMTT(20), Z3T(20) DEF WatchCommit, ActorOK, Registered, Entry
    <2>2. Append(history, pending[actor.job.h]) \in Seq(Entry) /\ Append(history, pending[actor.job.h]) # <<>>
      BY <2>1, ListTypes, Zenon
    <2>3. history' \in Seq(Entry) /\ history' # <<>>
      BY <1>14, <2>2, PruneType, Zenon DEF WatchCommit
    <2> QED BY <1>14, <2>1, <2>2, <2>3, ZenonT(30) DEF WatchCommit, TypeOK, kernelVars, watchVars, hostVars
  <1>15. ASSUME FinishOk PROVE TypeOK'
    BY <1>15, NoneIsNoValue, SMTT(20), Z3T(20) DEF FinishOk, ActorOK, Job, TypeOK, kernelVars,
       watchVars, hostVars
  <1>16. ASSUME Nudge PROVE TypeOK'
    BY <1>16, NoneIsNoValue, SMTT(20), Z3T(20) DEF Nudge, TypeOK, kernelVars, watchVars, hostVars
  <1>17. ASSUME NEW h \in Handle, ReadReply(h) PROVE TypeOK'
    <2>1. host' \in [Handle -> {None} \cup HostSlot]
      BY <1>17, SlotTypes, Zenon DEF ReadReply
    <2>2. kernel' \in [Handle -> KernelSlot]
      <3>1. host[h] \in HostSlot /\ kernel[h] \in KernelSlot
        BY <1>17, Zenon DEF ReadReply, Arrived, TypeOK
      <3>2. [op |-> "done", val |-> host[h].val, since |-> kernel[h].since] \in KernelSlot
        BY <3>1, Zenon DEF KernelSlot, HostSlot
      <3>3. Idle \in KernelSlot
        BY Zenon DEF Idle, KernelSlot
      <3>4. kernel \in [Handle -> KernelSlot]
        BY Zenon DEF TypeOK
      <3> QED BY <1>17, <3>2, <3>3, <3>4, Zenon DEF ReadReply
    <2>3. reads' \in [Handle -> {None} \cup Nat] /\ inflight' \in SUBSET Handle /\ pump' \in [pc : {"ready", "hold", "refused", "stopped", "failed"}, h : Handle \cup {None}]
      BY <1>17, SMTT(20), Z3T(20) DEF ReadReply, Unwatch, TypeOK
    <2> QED BY <1>17, <2>1, <2>2, <2>3, SMTT(20), Z3T(20) DEF ReadReply, TypeOK, kernelVars,
               watchVars, hostVars
  <1>18. ASSUME NEW h \in Handle, WriteReply(h) PROVE TypeOK'
    <2>1. host' \in [Handle -> {None} \cup HostSlot]
      BY <1>18, SlotTypes, Zenon DEF WriteReply
    <2>2. kernel' \in [Handle -> KernelSlot] /\ acked' \in SUBSET Nat
      <3>1. Acknowledge({h}) \/ UNCHANGED <<kernel, acked>>
        BY <1>18, Zenon DEF WriteReply
      <3> QED BY <3>1, AckTypes, Zenon DEF TypeOK
    <2>3. gate' \in [Handle -> {None, "Pending", "Ok", "Failed"}]
      BY <1>18, Zenon DEF WriteReply, TypeOK
    <2>4. pump' \in [pc : {"ready", "hold", "refused", "stopped", "failed"}, h : Handle \cup {None}]
      BY <1>18, SMTT(20), Z3T(20) DEF WriteReply, TypeOK
    <2> QED BY <1>18, <2>1, <2>2, <2>3, <2>4, SMTT(20), Z3T(20) DEF WriteReply, TypeOK,
               kernelVars, watchVars, hostVars
  <1>19. ASSUME Stash PROVE TypeOK'
    <2>1. pump.h \in Handle
      BY <1>19, Zenon DEF Stash, PumpOK
    <2> QED BY <1>19, <2>1, SMTT(20), Z3T(20) DEF Stash, TypeOK, kernelVars, watchVars, hostVars
  <1>20. ASSUME RecvNudge PROVE TypeOK'
    <2>1. PICK out \in SUBSET stashed :
             /\ stashed' = stashed \ out
             /\ gate' = [h \in Handle |-> IF h \in out THEN None ELSE gate[h]]
             /\ Acknowledge(out)
             /\ pump'.h = pump.h /\ pump' = [pc |-> pump'.pc, h |-> pump'.h]
             /\ pump'.pc \in {"ready", "failed"}
      BY <1>20, Zenon DEF RecvNudge, TypeOK
    <2>2. kernel' \in [Handle -> KernelSlot] /\ acked' \in SUBSET Nat
      BY <2>1, AckTypes, Zenon DEF TypeOK
    <2>3. gate' \in [Handle -> {None, "Pending", "Ok", "Failed"}] /\ stashed' \in SUBSET Handle
      BY <2>1, Zenon DEF TypeOK
    <2>4. pump' \in [pc : {"ready", "hold", "refused", "stopped", "failed"}, h : Handle \cup {None}]
      BY <2>1, Zenon DEF TypeOK
    <2>5. nudges' \in Nat
      BY <1>20, SMTT(20), Z3T(20) DEF RecvNudge, TypeOK
    <2>6. UNCHANGED <<written, overlapped, req, inflight, watchVars, jobs, actor, hostVars,
                      pinned>>
      BY <1>20, Zenon DEF RecvNudge
    <2> QED BY <2>2, <2>3, <2>4, <2>5, <2>6, SMTT(20), Z3T(20) DEF TypeOK, watchVars, hostVars
  <1>21. ASSUME HostEof PROVE TypeOK'
    BY <1>21, NoneIsNoValue, Zenon DEF HostEof, TypeOK, kernelVars, watchVars, hostVars
  <1>22. ASSUME NEW h \in Handle, HostWrite(h) \/ HostRead(h) \/ HostFails(h) PROVE TypeOK'
    <2>1. host[h] \in HostSlot /\ disk \in Nat
      BY <1>22, Zenon DEF TypeOK, HostWrite, HostRead, HostFails
    <2>2. \A v \in Nat, st \in {"done", "error"} :
             [op |-> host[h].op, st |-> st, val |-> v] \in HostSlot
      BY <2>1, Zenon DEF HostSlot
    <2>3. host[h].val \in Nat
      BY <2>1, Zenon DEF HostSlot
    <2>4. \A v \in 0..disk : v \in Nat
      BY <2>1, SMTT(20), Z3T(20)
    <2>5. host \in [Handle -> {None} \cup HostSlot]
      BY Zenon DEF TypeOK
    <2>6. host' \in [Handle -> {None} \cup HostSlot]
      <3>1. CASE HostWrite(h)
        <4>1. [op |-> "write", st |-> "done", val |-> 0] \in HostSlot
          BY Zenon DEF HostSlot
        <4> QED BY <2>5, <3>1, <4>1, Zenon DEF HostWrite
      <3>2. CASE HostRead(h)
        <4>1. PICK v \in Nat :
                 host' = [host EXCEPT ![h] = [op |-> host[h].op, st |-> "done", val |-> v]]
          BY <2>1, <2>4, <3>2, Zenon DEF HostRead
        <4> QED BY <2>2, <2>5, <4>1, Zenon
      <3>3. CASE HostFails(h)
        BY <2>2, <2>5, <3>3, Zenon DEF HostFails
      <3> QED BY <1>22, <3>1, <3>2, <3>3, Zenon
    <2>7. disk' \in Nat
      BY <1>22, <2>1, <2>3, Zenon DEF HostWrite, HostRead, HostFails
    <2>8. UNCHANGED <<kernelVars, req, inflight, gate, watchVars, jobs, actor, pump, stashed,
                      nudges, pinned, hostUp>>
      BY <1>22, Zenon DEF HostWrite, HostRead, HostFails
    <2> QED BY <2>6, <2>7, <2>8, SMTT(20), Z3T(20) DEF TypeOK, kernelVars, watchVars
  <1> QED BY <1>1, <1>2, <1>3, <1>4, <1>5, <1>6, <1>7, <1>8, <1>9, <1>10, <1>11, <1>12, <1>13,
             <1>14, <1>15, <1>16, <1>17, <1>18, <1>19, <1>20, <1>21, <1>22, Zenon DEF Next,
             RequestProxy, PinActor, ReplyPump, StorageHost

-----------------------------------------------------------------------------
(* Frames: what a conjunct of the invariant depends on. *)

(* No write loses its request or its gate entry. *)
CarriesKept == \A h \in Handle, w \in Nat : Carries(h, w) => Carries(h, w)'

(* The parts of the invariant, with the ranges the arithmetic needs *)
LEMMA Parts ==
    ASSUME IInv
    PROVE  /\ TypeOK /\ PinnedOK /\ HistoryOK /\ ActorOK /\ JobsOK /\ ReqOK /\ PumpOK
           /\ GateOK /\ WatchOK /\ ReplyOK /\ NoStaleRead
           /\ Len(pinned) \in Nat \ {0} /\ Len(jobs) \in Nat /\ Base \in Nat /\ Newest \in Nat
           /\ \A i \in 1..Len(jobs) : jobs[i].h \in Handle /\ jobs[i].c \in Nat
           /\ actor.job # None => actor.job.h \in Handle /\ actor.job.c \in Nat
  <1>1. /\ TypeOK /\ PinnedOK /\ HistoryOK /\ ActorOK /\ JobsOK /\ ReqOK /\ PumpOK
        /\ GateOK /\ WatchOK /\ ReplyOK /\ NoStaleRead
    BY Zenon DEF IInv
  <1>2. Len(pinned) \in Nat \ {0} /\ Len(jobs) \in Nat
    BY <1>1, SMTT(20), Z3T(20) DEF TypeOK, PinnedOK
  <1>3. \A j \in Job : j.h \in Handle /\ j.c \in Nat
    BY Zenon DEF Job
  <1>4. \A i \in 1..Len(jobs) : jobs[i] \in Job
    BY <1>1, SMTT(20), Z3T(20) DEF TypeOK
  <1> QED BY <1>1, <1>2, <1>3, <1>4, ListTypes, SMTT(20), Z3T(20) DEF Base, Newest

(* The types of the variables, under the invariant *)
LEMMA Types ==
    ASSUME IInv
    PROVE  /\ kernel \in [Handle -> KernelSlot]
           /\ written \in Nat /\ overlapped \in BOOLEAN /\ acked \in SUBSET Nat
           /\ req \in [pc : {"ready", "capture", "forward", "queue", "stopped", "failed"},
                       h : Handle \cup {None}]
           /\ inflight \in SUBSET Handle
           /\ gate \in [Handle -> {None, "Pending", "Ok", "Failed"}]
           /\ history \in Seq(Entry) /\ history # <<>>
           /\ pending \in [Handle -> {None} \cup Entry]
           /\ reads \in [Handle -> {None} \cup Nat]
           /\ next_seq \in Nat
           /\ jobs \in Seq(Job)
           /\ actor \in [pc : {"idle", "pinning", "commit", "finish", "nudge", "stopped", "failed"},
                         job : {None} \cup Job]
           /\ pump \in [pc : {"ready", "hold", "refused", "stopped", "failed"},
                        h : Handle \cup {None}]
           /\ stashed \in SUBSET Handle
           /\ nudges \in Nat
           /\ hostUp \in BOOLEAN
           /\ host \in [Handle -> {None} \cup HostSlot]
           /\ disk \in Nat
           /\ pinned \in Seq(Nat)
  BY Zenon DEF IInv, TypeOK

(* The types of the variables after a step that keeps TypeOK *)
LEMMA TypesNext ==
    ASSUME TypeOK'
    PROVE  /\ kernel' \in [Handle -> KernelSlot]
           /\ written' \in Nat /\ overlapped' \in BOOLEAN /\ acked' \in SUBSET Nat
           /\ req' \in [pc : {"ready", "capture", "forward", "queue", "stopped", "failed"},
                       h : Handle \cup {None}]
           /\ inflight' \in SUBSET Handle
           /\ gate' \in [Handle -> {None, "Pending", "Ok", "Failed"}]
           /\ history' \in Seq(Entry) /\ history' # <<>>
           /\ pending' \in [Handle -> {None} \cup Entry]
           /\ reads' \in [Handle -> {None} \cup Nat]
           /\ next_seq' \in Nat
           /\ jobs' \in Seq(Job)
           /\ actor' \in [pc : {"idle", "pinning", "commit", "finish", "nudge", "stopped", "failed"},
                         job : {None} \cup Job]
           /\ pump' \in [pc : {"ready", "hold", "refused", "stopped", "failed"},
                        h : Handle \cup {None}]
           /\ stashed' \in SUBSET Handle
           /\ nudges' \in Nat
           /\ hostUp' \in BOOLEAN
           /\ host' \in [Handle -> {None} \cup HostSlot]
           /\ disk' \in Nat
           /\ pinned' \in Seq(Nat)
  BY Zenon DEF TypeOK

(* A conjunct survives a step that leaves its variables alone. *)
LEMMA Frame ==
    ASSUME IInv
    PROVE  /\ UNCHANGED pinned => PinnedOK'
           /\ UNCHANGED <<history, pinned, acked>> => HistoryOK'
           /\ UNCHANGED <<actor, pending, pinned, history>> /\ CarriesKept => ActorOK'
           /\ UNCHANGED <<actor, jobs, pending, pinned>> /\ CarriesKept => JobsOK'
           /\ UNCHANGED <<req, next_seq, written, pending, actor, jobs, pinned>> /\ CarriesKept
                => ReqOK'
           /\ UNCHANGED pump => PumpOK'
           /\ UNCHANGED <<kernel, gate, history, pending>> => GateOK'
           /\ UNCHANGED <<inflight, reads, kernel>> => WatchOK'
           /\ UNCHANGED <<stashed, pump, kernel, host, req>> => ReplyOK'
           /\ UNCHANGED kernel => NoStaleRead'
           /\ UNCHANGED <<kernel, gate>> => CarriesKept
  <1>1. UNCHANGED pinned => PinnedOK'
    BY Parts, Zenon DEF PinnedOK, PinnedInOrder
  <1>2. UNCHANGED <<history, pinned, acked>> => HistoryOK'
    BY Parts, Zenon DEF HistoryOK, Newest
  <1>3. UNCHANGED <<actor, pending, pinned, history>> /\ CarriesKept => ActorOK'
    BY Parts, Zenon DEF ActorOK, Registered, Newest, CarriesKept
  <1>4. UNCHANGED <<actor, jobs, pending, pinned>> /\ CarriesKept => JobsOK'
    BY Parts, Zenon DEF JobsOK, ActorGone, Registered, Base, CarriesKept
  <1>5. UNCHANGED <<req, next_seq, written, pending, actor, jobs, pinned>> /\ CarriesKept
          => ReqOK'
    <2>1. req.h \in Handle \cup {None} /\ written \in Nat
      BY Parts, Types, Zenon
    <2> QED BY <2>1, Parts, Zenon DEF ReqOK, Working, ActorGone, Registered, Base, CarriesKept
  <1>6. UNCHANGED pump => PumpOK'
    BY Parts, Zenon DEF PumpOK
  <1>7. UNCHANGED <<kernel, gate, history, pending>> => GateOK'
    BY Parts, Zenon DEF GateOK, Newest
  <1>8. UNCHANGED <<inflight, reads, kernel>> => WatchOK'
    BY Parts, Zenon DEF WatchOK
  <1>9. UNCHANGED <<stashed, pump, kernel, host, req>> => ReplyOK'
    BY Parts, Zenon DEF ReplyOK, Parked, Free
  <1>10. UNCHANGED kernel => NoStaleRead'
    BY Parts, Zenon DEF NoStaleRead, Busy
  <1>11. UNCHANGED <<kernel, gate>> => CarriesKept
    BY Zenon DEF CarriesKept, Carries
  <1> QED BY <1>1, <1>2, <1>3, <1>4, <1>5, <1>6, <1>7, <1>8, <1>9, <1>10, <1>11, Zenon

(* The write the actor works on, the queued ones and the one request_proxy *)
(* works on have different handles: their numbers differ.                  *)
LEMMA Distinct ==
    ASSUME IInv
    PROVE  /\ actor.pc \in {"pinning", "commit", "finish"} =>
                 /\ \A i \in 1..Len(jobs) : jobs[i].h # actor.job.h
                 /\ Working => req.h # actor.job.h
           /\ ~ActorGone /\ Working => \A i \in 1..Len(jobs) : jobs[i].h # req.h
  <1>1. ASSUME actor.pc \in {"pinning", "commit", "finish"}
        PROVE  /\ ~ActorGone /\ actor.job.c <= Base
               /\ kernel[actor.job.h].val = actor.job.c
    BY <1>1, Parts, SMTT(20), Z3T(20) DEF ActorOK, ActorGone, Base, HistoryOK, Carries
  <1>2. ASSUME ~ActorGone, NEW i \in 1..Len(jobs)
        PROVE  kernel[jobs[i].h].val = Base + i
    BY <1>2, Parts, Zenon DEF JobsOK, Carries
  <1>3. ASSUME ~ActorGone, Working
        PROVE  kernel[req.h].val = Base + Len(jobs) + 1
    BY <1>3, Parts, Zenon DEF ReqOK, Carries
  <1>4. Base \in Nat /\ Len(jobs) \in Nat
    BY Parts, Zenon
  <1>5. ASSUME actor.pc \in {"pinning", "commit", "finish"}
        PROVE  /\ \A i \in 1..Len(jobs) : jobs[i].h # actor.job.h
               /\ Working => req.h # actor.job.h
    <2>1. actor.job.c \in Nat
      BY <1>5, Parts, Zenon DEF ActorOK
    <2> QED BY <1>1, <1>2, <1>3, <1>4, <1>5, <2>1, SMTT(20), Z3T(20)
  <1>6. ~ActorGone /\ Working => \A i \in 1..Len(jobs) : jobs[i].h # req.h
    BY <1>2, <1>3, <1>4, SMTT(20), Z3T(20)
  <1> QED BY <1>5, <1>6, Zenon


-----------------------------------------------------------------------------
(* One lemma per step of request_proxy. *)

(* A new request takes a free handle, which carries no write. *)
LEMMA IssueKeeps ==
    ASSUME IInv, NEW h \in Handle, NEW op, NEW c \in Nat, Issue(h, op, c),
           gate' = gate \/ gate' = [gate EXCEPT ![h] = "Pending"]
    PROVE  /\ CarriesKept
           /\ gate[h] = None /\ pending[h] = None /\ reads[h] = None /\ h \notin inflight
           /\ ~Parked(h) /\ host[h] = None
           /\ kernel'[h].op = op /\ kernel'[h].val = c
           /\ op = "read" => kernel'[h].since = acked
           /\ \A g \in Handle \ {h} : kernel'[g] = kernel[g]
  <1>1. Free(h) /\ kernel[h].op \notin {"write", "read"}
    BY Zenon DEF Issue, Free
  <1>2. /\ gate[h] = None /\ pending[h] = None /\ reads[h] = None /\ h \notin inflight
        /\ ~Parked(h) /\ host[h] = None
    BY <1>1, Parts, Zenon DEF GateOK, WatchOK, ReplyOK
  <1>3. /\ kernel'[h] = [op |-> op, val |-> c, since |-> IF op = "read" THEN acked ELSE {}]
        /\ \A g \in Handle \ {h} : kernel'[g] = kernel[g] /\ gate'[g] = gate[g]
    BY Parts, Types, Zenon DEF Issue
  <1>4. CarriesKept
    BY <1>1, <1>3, Zenon DEF CarriesKept, Carries
  <1> QED BY <1>2, <1>3, <1>4, SMTT(20), Z3T(20)

(* Such a step leaves the tables of the other handles alone. *)
LEMMA IssueFrame ==
    ASSUME IInv, NEW h \in Handle, \A g \in Handle \ {h} : kernel'[g] = kernel[g]
    PROVE  /\ (/\ UNCHANGED <<gate, pending, history>> /\ kernel'[h].op # "write"
               /\ gate[h] = None /\ pending[h] = None) => GateOK'
           /\ (UNCHANGED <<inflight, reads>> /\ h \notin inflight /\ reads[h] = None) => WatchOK'
           /\ kernel'[h].op # "done" => NoStaleRead'
  <1>1. (/\ UNCHANGED <<gate, pending, history>> /\ kernel'[h].op # "write"
         /\ gate[h] = None /\ pending[h] = None) => GateOK'
    <2> HAVE /\ UNCHANGED <<gate, pending, history>> /\ kernel'[h].op # "write"
             /\ gate[h] = None /\ pending[h] = None
    <2>1. \A g \in Handle \ {h} :
             /\ kernel[g].op = "write" <=> gate[g] # None
             /\ gate[g] = "Ok" => kernel[g].val <= Newest /\ pending[g] = None
             /\ pending[g] # None => kernel[g].op = "write" /\ pending[g].c = pending[g].seq
      BY Parts, Zenon DEF GateOK
    <2>2. Newest' = Newest /\ gate[h] # "Ok"
      BY NoneIsNoValue, Zenon DEF Newest
    <2> QED BY <2>1, <2>2, Zenon DEF GateOK
  <1>2. (UNCHANGED <<inflight, reads>> /\ h \notin inflight /\ reads[h] = None) => WatchOK'
    BY Parts, Zenon DEF WatchOK
  <1>3. kernel'[h].op # "done" => NoStaleRead'
    BY Parts, Zenon DEF NoStaleRead, Busy
  <1> QED BY <1>1, <1>2, <1>3, Zenon

(* A region read is watched with a floor above everything acknowledged. *)
LEMMA RecvReadStep ==
    ASSUME IInv, TypeOK', NEW h \in Handle, RecvRead(h)
    PROVE  IInv'
  <1>1. Issue(h, "read", Newest) /\ UNCHANGED gate /\ Newest \in Nat
    BY Parts, Zenon DEF RecvRead, Newest
  <1>2. /\ CarriesKept
        /\ gate[h] = None /\ pending[h] = None /\ reads[h] = None /\ h \notin inflight
        /\ ~Parked(h) /\ host[h] = None
        /\ kernel'[h].op = "read" /\ kernel'[h].val = Newest
        /\ kernel'[h].since = acked
        /\ \A g \in Handle \ {h} : kernel'[g] = kernel[g]
    BY <1>1, IssueKeeps, Zenon
  <1>3. PinnedOK' /\ HistoryOK' /\ PumpOK'
    BY Frame, Zenon DEF RecvRead
  <1>4. ActorOK' /\ JobsOK' /\ ReqOK'
    BY <1>2, Frame, Zenon DEF RecvRead
  <1>5. GateOK'
    BY <1>2, IssueFrame, Zenon DEF RecvRead
  <1>6. WatchOK'
    <2>1. inflight' = inflight \cup {h} /\ reads' = [reads EXCEPT ![h] = Newest]
      BY Zenon DEF RecvRead, WatchRead, Newest
    <2>2. \A g \in Handle \ {h} : kernel'[g] = kernel[g] /\ reads'[g] = reads[g]
      BY <1>2, <2>1, Parts, Types, TypesNext, Zenon
    <2>3. reads'[h] = Newest /\ Newest # None /\ \A w \in acked : w <= Newest
      BY <2>1, Parts, NoneIsNoValue, Types, TypesNext, Zenon DEF HistoryOK
    <2> QED BY <1>2, <2>1, <2>2, <2>3, Parts, Zenon DEF WatchOK
  <1>7. ReplyOK'
    BY <1>2, Parts, Types, TypesNext, SMTT(20), Z3T(20) DEF RecvRead, AtHost, ReplyOK, Parked,
       Free, Issue
  <1>8. NoStaleRead'
    BY <1>2, IssueFrame, Zenon
  <1> QED BY <1>3, <1>4, <1>5, <1>6, <1>7, <1>8, Zenon DEF IInv

(* A request that does not touch the region meets none of the tables. *)
LEMMA RecvOtherStep ==
    ASSUME IInv, TypeOK', NEW h \in Handle, RecvOther(h)
    PROVE  IInv'
  <1>1. Issue(h, "other", 0) /\ UNCHANGED gate
    BY Zenon DEF RecvOther
  <1>2. /\ CarriesKept
        /\ gate[h] = None /\ pending[h] = None /\ reads[h] = None /\ h \notin inflight
        /\ ~Parked(h) /\ host[h] = None
        /\ kernel'[h].op = "other" /\ kernel'[h].val = 0
        /\ \A g \in Handle \ {h} : kernel'[g] = kernel[g]
    BY <1>1, IssueKeeps, Zenon
  <1>3. PinnedOK' /\ HistoryOK' /\ PumpOK'
    BY Frame, Zenon DEF RecvOther, watchVars
  <1>4. ActorOK' /\ JobsOK' /\ ReqOK'
    BY <1>2, Frame, Zenon DEF RecvOther, watchVars
  <1>5. GateOK'
    BY <1>2, IssueFrame, Zenon DEF RecvOther, watchVars
  <1>6. WatchOK'
    BY <1>2, IssueFrame, Zenon DEF RecvOther, watchVars
  <1>7. ReplyOK'
    BY <1>2, Parts, Types, TypesNext, SMTT(20), Z3T(20) DEF RecvOther, AtHost, ReplyOK, Parked,
       Free, Issue
  <1>8. NoStaleRead'
    BY <1>2, IssueFrame, Zenon
  <1> QED BY <1>3, <1>4, <1>5, <1>6, <1>7, <1>8, Zenon DEF IInv

(* A fail-stop keeps what is in progress as it is. *)
LEMMA RecvPartialStep ==
    ASSUME IInv, TypeOK', NEW h \in Handle, RecvPartial(h)
    PROVE  IInv'
  <1>1. Issue(h, "other", 0) /\ UNCHANGED gate
    BY Zenon DEF RecvPartial
  <1>2. /\ CarriesKept
        /\ gate[h] = None /\ pending[h] = None /\ reads[h] = None /\ h \notin inflight
        /\ ~Parked(h) /\ host[h] = None
        /\ kernel'[h].op = "other" /\ kernel'[h].val = 0
        /\ \A g \in Handle \ {h} : kernel'[g] = kernel[g]
    BY <1>1, IssueKeeps, Zenon
  <1>3. PinnedOK' /\ HistoryOK' /\ PumpOK'
    BY Frame, Zenon DEF RecvPartial, watchVars
  <1>4. ActorOK' /\ JobsOK'
    BY <1>2, Frame, Zenon DEF RecvPartial, watchVars
  <1>5. ReqOK'
    BY Parts, Zenon DEF RecvPartial, Issue, ReqOK, Working, watchVars
  <1>6. GateOK'
    BY <1>2, IssueFrame, Zenon DEF RecvPartial, watchVars
  <1>7. WatchOK'
    BY <1>2, IssueFrame, Zenon DEF RecvPartial, watchVars
  <1>8. ReplyOK'
    <2>1. ReplyOK /\ req'.pc = "failed" /\ UNCHANGED <<pump, stashed, host>>
      BY Parts, Zenon DEF RecvPartial, hostVars
    <2> QED BY <1>2, <2>1, Zenon DEF ReplyOK, Parked, Free
  <1>9. NoStaleRead'
    BY <1>2, IssueFrame, Zenon
  <1> QED BY <1>3, <1>4, <1>5, <1>6, <1>7, <1>8, <1>9, Zenon DEF IInv

(* A gated write becomes the newest write in progress. *)
LEMMA RecvWriteStep ==
    ASSUME IInv, TypeOK', NEW h \in Handle, RecvWrite(h)
    PROVE  IInv'
  <1>1. /\ Issue(h, "write", written + 1) /\ gate' = [gate EXCEPT ![h] = "Pending"]
        /\ written + 1 \in Nat
    BY Parts, Types, TypesNext, Zenon DEF RecvWrite
  <1>2. /\ CarriesKept
        /\ gate[h] = None /\ pending[h] = None /\ reads[h] = None /\ h \notin inflight
        /\ ~Parked(h) /\ host[h] = None
        /\ kernel'[h].op = "write" /\ kernel'[h].val = written + 1
        /\ \A g \in Handle \ {h} : kernel'[g] = kernel[g]
    BY <1>1, IssueKeeps, ZenonT(30)
  <1>3. PinnedOK' /\ HistoryOK' /\ PumpOK'
    BY Frame, Zenon DEF RecvWrite, watchVars
  <1>4. ActorOK' /\ JobsOK'
    BY <1>2, Frame, ZenonT(30) DEF RecvWrite, watchVars
  <1>5. kernel'[h].op = "write" /\ kernel'[h].val = written + 1 /\ gate'[h] = "Pending"
    BY <1>1, <1>2, Parts, Types, TypesNext, Zenon
  <1>6. ReqOK'
    <2>1. /\ req.pc = "ready" /\ req' = [pc |-> "capture", h |-> h] /\ written' = written + 1
          /\ UNCHANGED <<next_seq, pending, actor, jobs, pinned>>
      BY <1>1, Zenon DEF RecvWrite, Issue, watchVars
    <2>2. pending'[h] = None
      BY <1>2, <2>1, ZenonT(30)
    <2> QED BY <1>5, <2>1, <2>2, Parts, NoneIsNoValue, Types, TypesNext, ZenonT(30) DEF ReqOK,
         Working, ActorGone, Carries, Registered, Base
  <1>7. GateOK'
    BY <1>2, <1>5, Parts, NoneIsNoValue, Types, TypesNext, SMTT(20), Z3T(20) DEF RecvWrite,
       GateOK, Newest, watchVars
  <1>8. WatchOK'
    BY <1>2, IssueFrame, Zenon DEF RecvWrite, watchVars
  <1>9. ReplyOK'
    BY <1>2, Parts, Types, TypesNext, SMTT(20), Z3T(20) DEF RecvWrite, ReplyOK, Parked, Free,
       hostVars
  <1>10. NoStaleRead'
    BY <1>2, IssueFrame, Zenon
  <1> QED BY <1>3, <1>4, <1>6, <1>7, <1>8, <1>9, <1>10, Zenon DEF IInv

(* begin_pending registers the commitment of that write only. *)
LEMMA CaptureStep ==
    ASSUME IInv, TypeOK', Capture
    PROVE  IInv'
  <1>1. /\ req.pc = "capture" /\ Working /\ req.h \in Handle
        /\ Carries(req.h, written) /\ pending[req.h] = None
    BY Parts, Types, TypesNext, ZenonT(30) DEF Capture, ReqOK, Working
  <1>2. /\ UNCHANGED <<kernel, gate, history, actor, jobs, pinned, written>>
        /\ pending'[req.h] = [seq |-> written, c |-> written]
        /\ \A g \in Handle \ {req.h} : pending'[g] = pending[g]
        /\ next_seq' = written + 1 /\ req' = [pc |-> "forward", h |-> req.h]
    BY <1>1, Parts, Types, TypesNext, ZenonT(30) DEF Capture, ReqOK, Carries, kernelVars
  <1>3. PinnedOK' /\ HistoryOK' /\ PumpOK' /\ WatchOK' /\ NoStaleRead'
    BY Frame, Zenon DEF Capture, kernelVars
  <1>4. ActorOK'
    <2>1. actor.pc \in {"pinning", "commit", "finish"} => actor.job.h \in Handle \ {req.h}
      BY <1>1, Distinct, Parts, ZenonT(30) DEF ActorOK
    <2> QED BY <1>2, <2>1, Parts, ZenonT(30) DEF ActorOK, Carries, Registered, Newest
  <1>5. JobsOK'
    <2>1. ~ActorGone => \A i \in 1..Len(jobs) : jobs[i].h \in Handle \ {req.h}
      BY <1>1, Distinct, Parts, Zenon
    <2> QED BY <1>2, <2>1, Parts, ZenonT(30) DEF JobsOK, ActorGone, Carries, Registered, Base
  <1>6. ReqOK'
    BY <1>1, <1>2, Parts, Zenon DEF ReqOK, Working, ActorGone, Carries, Registered, Base
  <1>7. GateOK'
    <2>1. ASSUME NEW g \in Handle
          PROVE  /\ kernel'[g].op = "write" <=> gate'[g] # None
                 /\ gate'[g] = "Ok" => kernel'[g].val <= Newest' /\ pending'[g] = None
                 /\ pending'[g] # None =>
                        kernel'[g].op = "write" /\ pending'[g].c = pending'[g].seq
      BY <1>1, <1>2, Parts, SMTT(20), Z3T(20) DEF GateOK, Newest, Carries
    <2> QED BY <2>1, Zenon DEF GateOK
  <1>8. ReplyOK'
    BY <1>1, <1>2, Parts, SMTT(20), Z3T(20) DEF Capture, ReplyOK, Parked, Free, hostVars
  <1> QED BY <1>3, <1>4, <1>5, <1>6, <1>7, <1>8, Zenon DEF IInv

(* The write reaches the host after its gate and commitment. *)
LEMMA ForwardStep ==
    ASSUME IInv, TypeOK', Forward
    PROVE  IInv'
  <1>1. /\ req.pc = "forward" /\ req.h \in Handle /\ req' = [pc |-> "queue", h |-> req.h]
        /\ Carries(req.h, written) /\ ~Parked(req.h)
    BY Parts, Types, TypesNext, Zenon DEF Forward, ReqOK, ReplyOK, Working
  <1>2. PinnedOK' /\ HistoryOK' /\ PumpOK' /\ WatchOK' /\ NoStaleRead' /\ GateOK'
    BY Frame, Zenon DEF Forward, kernelVars, watchVars
  <1>3. ActorOK' /\ JobsOK'
    BY Frame, Zenon DEF Forward, kernelVars, watchVars
  <1>4. ReqOK'
    BY <1>1, Parts, SMTT(20), Z3T(20) DEF Forward, ReqOK, Working, ActorGone, Carries,
       Registered, Base, kernelVars, watchVars
  <1>5. ReplyOK'
    <2>1. \A g \in Handle \ {req.h} : host'[g] = host[g]
      BY <1>1, Parts, Types, TypesNext, ZenonT(30) DEF Forward, AtHost
    <2>2. UNCHANGED <<kernel, stashed, pump>>
      BY Zenon DEF Forward, kernelVars
    <2>3. ~Free(req.h)
      BY <1>1, Zenon DEF Free, Carries
    <2> QED BY <1>1, <2>1, <2>2, <2>3, Parts, ZenonT(30) DEF ReplyOK, Parked, Free
  <1> QED BY <1>2, <1>3, <1>4, <1>5, Zenon DEF IInv

(* Ending the proxy, by a failure or a disconnect *)
LEMMA ProxyEndsStep ==
    ASSUME IInv, TypeOK', HostLost \/ Disconnect
    PROVE  IInv'
  <1>1. /\ UNCHANGED <<kernelVars, inflight, gate, watchVars, jobs, actor, pump, stashed,
                       nudges, hostVars, pinned>>
        /\ req.pc \in {"ready", "forward"}
        /\ req' = [pc |-> req'.pc, h |-> None] /\ req'.pc \in {"stopped", "failed"}
    BY SMTT(20), Z3T(20) DEF HostLost, Disconnect
  <1>2. PinnedOK' /\ HistoryOK' /\ PumpOK' /\ WatchOK' /\ NoStaleRead' /\ GateOK'
    BY <1>1, Frame, Zenon DEF kernelVars, watchVars
  <1>3. ActorOK' /\ JobsOK'
    BY <1>1, Frame, Zenon DEF kernelVars, watchVars
  <1>4. ReqOK'
    BY <1>1, Parts, Zenon DEF ReqOK, Working, kernelVars, watchVars
  <1>5. ReplyOK'
    BY <1>1, Parts, Zenon DEF ReplyOK, Parked, Free, kernelVars, hostVars
  <1> QED BY <1>2, <1>3, <1>4, <1>5, Zenon DEF IInv

(* The job goes behind the queued ones, or the proxy fails. *)
LEMMA QueuePinStep ==
    ASSUME IInv, TypeOK', QueuePin
    PROVE  IInv'
  <1>1. /\ req.pc = "queue" /\ Working /\ req.h \in Handle
        /\ Carries(req.h, written) /\ Registered(req.h, written) /\ written \in Nat
    BY Parts, Types, TypesNext, Zenon DEF QueuePin, ReqOK, Working
  <1>2. /\ UNCHANGED <<kernelVars, inflight, gate, watchVars, actor, pump, stashed, nudges,
                       hostVars, pinned>>
        /\ req'.pc \in {"ready", "failed"}
    BY SMTT(20), Z3T(20) DEF QueuePin
  <1>3. PinnedOK' /\ HistoryOK' /\ PumpOK' /\ WatchOK' /\ NoStaleRead' /\ GateOK' /\ ActorOK'
    BY <1>2, Frame, Zenon DEF kernelVars, watchVars
  <1>4. CASE ActorGone
    <2>1. req'.pc = "failed" /\ UNCHANGED jobs
      BY <1>4, SMTT(20), Z3T(20) DEF QueuePin
    <2>2. JobsOK'
      BY <1>2, <2>1, Frame, Zenon DEF kernelVars, watchVars
    <2>3. ReqOK'
      BY <1>1, <1>2, <2>1, Parts, ZenonT(30) DEF ReqOK, Working, kernelVars, watchVars
    <2>4. ReplyOK'
      BY <1>2, <2>1, Parts, Zenon DEF ReplyOK, Parked, Free, kernelVars, hostVars
    <2> QED BY <1>3, <2>2, <2>3, <2>4, Zenon DEF IInv
  <1>5. CASE ~ActorGone
    <2>1. /\ req'.pc = "ready"
          /\ jobs' = Append(jobs, [h |-> req.h, c |-> written])
          /\ [h |-> req.h, c |-> written] \in Job
      BY <1>1, <1>5, SMTT(20), Z3T(20) DEF QueuePin, Carries, Job
    <2>2. /\ Len(jobs') = Len(jobs) + 1 /\ Len(jobs) \in Nat
          /\ \A i \in 1..Len(jobs) : jobs'[i] = jobs[i]
          /\ jobs'[Len(jobs) + 1] = [h |-> req.h, c |-> written]
      <3>1. jobs \in Seq(Job)
        BY Parts, Types, TypesNext, Zenon
      <3> QED BY <2>1, <3>1, Appended, SMTT(20), Z3T(20)
    <2>3. UNCHANGED <<kernel, gate, pending, actor, pinned, written, next_seq>> /\ Base' = Base
      BY <1>2, Zenon DEF kernelVars, watchVars, Base
    <2>4. written = Base + Len(jobs) + 1
      BY <1>1, <1>5, Parts, ZenonT(30) DEF ReqOK
    <2>5. JobsOK'
      <3>1. \A i \in 1..Len(jobs) : /\ jobs[i].c = Base + i
                                    /\ Carries(jobs[i].h, jobs[i].c)
                                    /\ Registered(jobs[i].h, jobs[i].c)
        BY <1>5, Parts, Zenon DEF JobsOK
      <3>2. ASSUME NEW i \in 1..(Len(jobs) + 1)
            PROVE  /\ jobs'[i].c = Base + i
                   /\ Carries(jobs'[i].h, jobs'[i].c)
                   /\ Registered(jobs'[i].h, jobs'[i].c)
        <4>1. CASE i \in 1..Len(jobs)
          BY <2>2, <3>1, <4>1, ZenonT(30)
        <4>2. CASE i = Len(jobs) + 1
          <5>1. jobs'[i].h = req.h /\ jobs'[i].c = written
            BY <2>2, <4>2, SMTT(20), Z3T(20)
          <5> QED BY <1>1, <2>4, <4>2, <5>1, Parts, SMTT(20), Z3T(20)
        <4> QED BY <2>2, <4>1, <4>2, SMTT(20), Z3T(20)
      <3> QED BY <2>2, <2>3, <3>2, ZenonT(30) DEF JobsOK, Carries, Registered
    <2>6. ReqOK'
      BY <1>1, <2>1, <2>2, <2>3, <2>4, Parts, SMTT(20), Z3T(20) DEF ReqOK, Working
    <2>7. ReplyOK'
      BY <1>2, <2>1, Parts, Zenon DEF ReplyOK, Parked, Free, kernelVars, hostVars
    <2> QED BY <1>3, <2>5, <2>6, <2>7, Zenon DEF IInv
  <1> QED BY <1>4, <1>5, Zenon

-----------------------------------------------------------------------------
(* One lemma per step of pin_actor. *)

(* The actor takes the job that comes next. *)
LEMMA RecvJobStep ==
    ASSUME IInv, TypeOK', RecvJob
    PROVE  IInv'
  <1>1. /\ actor.pc = "idle" /\ ~ActorGone /\ actor'.pc = "pinning" /\ actor'.job = jobs[1]
        /\ 1 \in 1..Len(jobs) /\ Base = Len(pinned) - 1 /\ Base' = Len(pinned) /\ ~ActorGone'
        /\ jobs[1] # None
    <2>1. jobs \in Seq(Job) /\ jobs # <<>> /\ Len(jobs) \in Nat
      BY Parts, Types, TypesNext, Zenon DEF RecvJob
    <2>2. 1 \in 1..Len(jobs) /\ Head(jobs) = jobs[1] /\ jobs[1] \in Job
      BY <2>1, SMTT(20), Z3T(20)
    <2> QED BY <2>2, NoneIsNoValue, Zenon DEF RecvJob, ActorGone, Base
  <1>2. /\ Len(jobs') = Len(jobs) - 1
        /\ \A i \in 1..Len(jobs') : i + 1 \in 1..Len(jobs) /\ jobs'[i] = jobs[i + 1]
    <2>1. jobs \in Seq(Job) /\ jobs # <<>> /\ jobs' = Tail(jobs)
      BY Parts, Types, TypesNext, Zenon DEF RecvJob
    <2> QED BY <2>1, Tailed, SMTT(20), Z3T(20)
  <1>3. UNCHANGED <<kernel, gate, pending, history, pinned, req, next_seq, written>>
    BY Zenon DEF RecvJob, kernelVars, watchVars
  <1>4. PinnedOK' /\ HistoryOK' /\ PumpOK' /\ WatchOK' /\ NoStaleRead' /\ GateOK' /\ ReplyOK'
    BY Frame, Zenon DEF RecvJob, kernelVars, watchVars, hostVars
  <1>5. \A i \in 1..Len(jobs) : /\ jobs[i].c = Base + i
                                /\ Carries(jobs[i].h, jobs[i].c)
                                /\ Registered(jobs[i].h, jobs[i].c)
    BY <1>1, Parts, Zenon DEF JobsOK
  <1>6. ActorOK'
    <2>1. jobs[1].c = Len(pinned)
      BY <1>1, <1>5, Parts, SMTT(20), Z3T(20)
    <2> QED BY <1>1, <1>3, <1>5, <2>1, ZenonT(30) DEF ActorOK, Carries, Registered
  <1>7. JobsOK'
    <2>1. ASSUME NEW i \in 1..Len(jobs')
          PROVE  /\ jobs'[i].c = Len(pinned) + i
                 /\ Carries(jobs'[i].h, jobs'[i].c) /\ Registered(jobs'[i].h, jobs'[i].c)
      <3>1. i \in Nat /\ i + 1 \in 1..Len(jobs) /\ jobs'[i] = jobs[i + 1]
        BY <1>2, SMTT(20), Z3T(20)
      <3>2. jobs[i + 1].c = Base + (i + 1) /\ Base + (i + 1) = Len(pinned) + i
        <4>1. jobs[i + 1].c = Base + (i + 1)
          BY <1>5, <3>1, Zenon
        <4>2. Len(pinned) \in Nat /\ Base = Len(pinned) - 1
          BY <1>1, Parts, Zenon
        <4>3. Base + (i + 1) = Len(pinned) + i
          BY <3>1, <4>2, SMTT(20), Z3T(20)
        <4> QED BY <4>1, <4>3, Zenon
      <3> QED BY <1>5, <3>1, <3>2, Zenon
    <2> QED BY <1>1, <1>3, <2>1, Zenon DEF JobsOK, Carries, Registered
  <1>8. ReqOK'
    BY <1>1, <1>2, <1>3, Parts, SMTT(20), Z3T(20) DEF ReqOK, Working, Carries, Registered
  <1> QED BY <1>4, <1>6, <1>7, <1>8, Zenon DEF IInv

(* An actor that ends has nothing left to pin. *)
LEMMA ActorEndsStep ==
    ASSUME IInv, TypeOK', ActorEnds
    PROVE  IInv'
  <1>1. PinnedOK' /\ HistoryOK' /\ PumpOK' /\ WatchOK' /\ NoStaleRead' /\ GateOK' /\ ReplyOK'
    BY Frame, Zenon DEF ActorEnds, kernelVars, watchVars, hostVars
  <1>2. ActorOK' /\ JobsOK'
    BY Zenon DEF ActorEnds, ActorOK, JobsOK, ActorGone
  <1>3. ReqOK'
    BY Parts, Zenon DEF ActorEnds, ReqOK, Working, ActorGone, kernelVars, watchVars
  <1> QED BY <1>1, <1>2, <1>3, Zenon DEF IInv

(* A pin that lands extends the order of the oracle's commitments. *)
LEMMA PinLands ==
    ASSUME IInv, actor.pc = "pinning", pinned' = Append(pinned, actor.job.c)
    PROVE  PinnedOK' /\ Len(pinned') = Len(pinned) + 1
  <1>1. actor.job.c = Len(pinned) /\ Len(pinned) \in Nat /\ pinned \in Seq(Nat)
    BY Parts, Types, Zenon DEF ActorOK
  <1>2. /\ Len(pinned') = Len(pinned) + 1 /\ pinned' # <<>>
        /\ \A i \in 1..Len(pinned) : pinned'[i] = pinned[i]
        /\ pinned'[Len(pinned) + 1] = Len(pinned)
    BY <1>1, Appended, SMTT(20), Z3T(20)
  <1>3. \A i \in 1..(Len(pinned) + 1) : pinned'[i] = i - 1
    BY <1>1, <1>2, Parts, SMTT(20), Z3T(20) DEF PinnedOK, PinnedInOrder
  <1> QED BY <1>2, <1>3, Zenon DEF PinnedOK, PinnedInOrder

(* A durable pin, before the watch and the gate know of it *)
LEMMA PinOkStep ==
    ASSUME IInv, TypeOK', PinOk
    PROVE  IInv'
  <1>1. /\ PinnedOK' /\ Len(pinned') = Len(pinned) + 1
        /\ actor.pc = "pinning" /\ actor'.pc = "commit" /\ actor'.job = actor.job
    BY PinLands, Zenon DEF PinOk
  <1>2. /\ UNCHANGED <<kernel, gate, pending, history, acked, req, jobs, next_seq, written>>
        /\ Base' = Base /\ Newest' = Newest
    BY <1>1, Parts, SMTT(20), Z3T(20) DEF PinOk, kernelVars, watchVars, Base, Newest
  <1>3. PumpOK' /\ WatchOK' /\ NoStaleRead' /\ GateOK' /\ ReplyOK'
    BY Frame, Zenon DEF PinOk, kernelVars, watchVars, hostVars
  <1>4. HistoryOK'
    <2>1. Newest <= Len(pinned) - 1
      BY Parts, Zenon DEF HistoryOK
    <2>2. Newest <= Len(pinned') - 1
      BY <1>1, <2>1, Parts, SMTT(20), Z3T(20)
    <2> QED BY <1>2, <2>2, Parts, Zenon DEF HistoryOK
  <1>5. ActorOK'
    BY <1>1, <1>2, Parts, SMTT(20), Z3T(20) DEF ActorOK, Carries, Registered
  <1>6. JobsOK'
    BY <1>1, <1>2, Parts, ZenonT(30) DEF JobsOK, ActorGone, Carries, Registered
  <1>7. ReqOK'
    BY <1>1, <1>2, Parts, Zenon DEF ReqOK, Working, ActorGone, Carries, Registered
  <1> QED BY <1>1, <1>3, <1>4, <1>5, <1>6, <1>7, Zenon DEF IInv

(* Resolving the gate of the actor's write leaves the others' alone. *)
LEMMA Resolve ==
    ASSUME IInv, actor.pc \in {"pinning", "finish"}, NEW r \in {"Ok", "Failed"},
           gate' = [gate EXCEPT ![actor.job.h] = r],
           UNCHANGED <<kernel, pending, history>>
    PROVE  /\ \A g \in Handle \ {actor.job.h}, w \in Nat : Carries(g, w) => Carries(g, w)'
           /\ (r = "Ok" => actor.pc = "finish") => GateOK'
  <1>1. /\ actor.job.h \in Handle /\ kernel[actor.job.h].op = "write"
        /\ kernel[actor.job.h].val = actor.job.c
    BY Parts, ZenonT(30) DEF ActorOK, Carries
  <1>2. gate'[actor.job.h] = r /\ \A g \in Handle \ {actor.job.h} : gate'[g] = gate[g]
    BY <1>1, Parts, Types, Zenon
  <1>3. \A g \in Handle \ {actor.job.h}, w \in Nat : Carries(g, w) => Carries(g, w)'
    BY <1>2, Zenon DEF Carries
  <1>4. ASSUME r = "Ok" => actor.pc = "finish" PROVE GateOK'
    <2>1. r = "Ok" => kernel[actor.job.h].val <= Newest /\ pending[actor.job.h] = None
      BY <1>1, <1>4, Parts, ZenonT(30) DEF ActorOK
    <2>2. r # None
      BY NoneIsNoValue, Zenon
    <2> QED BY <1>1, <1>2, <2>1, <2>2, Parts, ZenonT(30) DEF GateOK, Newest
  <1> QED BY <1>3, <1>4, Zenon

(* A failed pin closes its gate for good, landed or not. *)
LEMMA PinFailsStep ==
    ASSUME IInv, TypeOK', PinFails
    PROVE  IInv'
  <1>1. /\ actor.pc = "pinning" /\ actor'.pc = "failed" /\ ActorGone'
        /\ gate' = [gate EXCEPT ![actor.job.h] = "Failed"]
        /\ UNCHANGED <<kernel, acked, pending, history, req, next_seq, written>>
    BY Zenon DEF PinFails, ActorGone, kernelVars, watchVars
  <1>2. PinnedOK' /\ Len(pinned') >= Len(pinned)
    <2>1. CASE pinned' = Append(pinned, actor.job.c)
      BY <1>1, <2>1, PinLands, Parts, SMTT(20), Z3T(20)
    <2>2. CASE UNCHANGED pinned
      BY <2>2, Frame, Parts, SMTT(20), Z3T(20)
    <2> QED BY <2>1, <2>2, Zenon DEF PinFails
  <1>3. PumpOK' /\ WatchOK' /\ NoStaleRead' /\ ReplyOK'
    BY Frame, Zenon DEF PinFails, kernelVars, watchVars, hostVars
  <1>4. HistoryOK'
    <2>1. Newest <= Len(pinned) - 1 /\ Len(pinned') \in Nat /\ Newest' = Newest
      BY <1>1, Parts, Types, TypesNext, SMTT(20), Z3T(20) DEF HistoryOK, Newest
    <2>2. Newest <= Len(pinned') - 1
      BY <1>2, <2>1, Parts, SMTT(20), Z3T(20)
    <2> QED BY <1>1, <2>1, <2>2, Parts, ZenonT(30) DEF HistoryOK
  <1>5. ActorOK' /\ JobsOK'
    BY <1>1, Zenon DEF ActorOK, JobsOK
  <1>6. GateOK' /\ \A g \in Handle \ {actor.job.h}, w \in Nat : Carries(g, w) => Carries(g, w)'
    BY <1>1, Resolve, Zenon
  <1>7. ReqOK'
    <2>1. Working => req.h \in Handle \ {actor.job.h} /\ written \in Nat /\ Carries(req.h, written)
      BY <1>1, Distinct, Parts, Types, TypesNext, ZenonT(30) DEF ReqOK, Working
    <2>2. Working => Carries(req.h, written)'
      BY <1>1, <1>6, <2>1, Zenon DEF Carries
    <2> QED BY <1>1, <2>2, Parts, ZenonT(30) DEF ReqOK, Working, Registered
  <1> QED BY <1>2, <1>3, <1>4, <1>5, <1>6, <1>7, Zenon DEF IInv

(* The committed entry is the newest; pruning keeps it. *)
LEMMA WatchCommitStep ==
    ASSUME IInv, TypeOK', WatchCommit
    PROVE  IInv'
  <1> DEFINE w == actor.job.c
             e == pending[actor.job.h]
  <1>1. /\ actor.pc = "commit" /\ actor'.pc = "finish" /\ actor'.job = actor.job
        /\ UNCHANGED <<kernel, gate, acked, req, jobs, next_seq, written, pinned>>
        /\ Base' = Base /\ ActorGone' = ActorGone
    BY SMTT(20), Z3T(20) DEF WatchCommit, kernelVars, Base, ActorGone
  <1>2. /\ actor.job # None /\ actor.job.h \in Handle /\ w \in Nat /\ w = Len(pinned) - 1
        /\ Carries(actor.job.h, w) /\ e = [seq |-> w, c |-> w] /\ e \in Entry
    BY <1>1, Parts, SMTT(20), Z3T(20) DEF ActorOK, Registered, Entry
  <1>3. /\ pending'[actor.job.h] = None
        /\ \A g \in Handle \ {actor.job.h} : pending'[g] = pending[g]
    BY <1>2, Parts, Types, TypesNext, Zenon DEF WatchCommit
  <1>4. PinnedOK' /\ PumpOK' /\ WatchOK' /\ NoStaleRead' /\ ReplyOK'
    BY Frame, Zenon DEF WatchCommit, kernelVars, hostVars
  <1>5. /\ Newest' = w /\ Newest <= w
        /\ \A i \in 1..Len(history') : history'[i].c = history'[i].seq
    <2>1. /\ history \in Seq(Entry) /\ Append(history, e) \in Seq(Entry)
          /\ Append(history, e) # <<>> /\ Len(Append(history, e)) = Len(history) + 1
          /\ \A i \in 1..Len(history) : Append(history, e)[i] = history[i]
          /\ Append(history, e)[Len(history) + 1] = e
      <3>1. history \in Seq(Entry) /\ e \in Entry
        BY <1>2, Parts, Types, TypesNext, Zenon
      <3> HIDE DEF e
      <3> QED BY <3>1, Appended, SMTT(20), Z3T(20)
    <2>2. /\ history'[Len(history')] = e
          /\ \A i \in 1..Len(history') : \E j \in 1..(Len(history) + 1) :
                 history'[i] = Append(history, e)[j]
      <3>1. Prune(Append(history, e))
        BY Zenon DEF WatchCommit
      <3> HIDE DEF e
      <3> QED BY <2>1, <3>1, PruneType, ZenonT(30)
    <2>3. \A j \in 1..(Len(history) + 1) : Append(history, e)[j].c = Append(history, e)[j].seq
      <3>1. \A j \in 1..Len(history) : history[j].c = history[j].seq
        BY Parts, Zenon DEF HistoryOK
      <3>2. e.c = e.seq /\ Len(history) \in Nat
        BY <1>2, <2>1, SMTT(20), Z3T(20)
      <3> HIDE DEF e
      <3> QED BY <2>1, <3>1, <3>2, SMTT(20), Z3T(20)
    <2>4. Newest' = w
      BY <1>2, <2>2, SMTT(20), Z3T(20) DEF Newest
    <2> HIDE DEF e
    <2> QED BY <1>2, <2>2, <2>3, <2>4, Parts, Zenon DEF HistoryOK
  <1> HIDE DEF w, e
  <1>6. HistoryOK'
    <2>1. \A v \in acked : v <= w
      <3>1. acked \in SUBSET Nat /\ \A v \in acked : v <= Newest
        BY Parts, Types, TypesNext, ZenonT(30) DEF HistoryOK
      <3> QED BY <1>2, <1>5, <3>1, Parts, SMTT(20), Z3T(20)
    <2> QED BY <1>1, <1>2, <1>5, <2>1, Parts, SMTT(20), Z3T(20) DEF HistoryOK
  <1>7. ActorOK'
    BY <1>1, <1>2, <1>3, <1>5, Parts, SMTT(20), Z3T(20) DEF ActorOK, Carries, w
  <1>8. JobsOK'
    <2>1. \A i \in 1..Len(jobs) : jobs[i].h \in Handle \ {actor.job.h}
      BY <1>1, Distinct, Parts, Zenon
    <2> QED BY <1>1, <1>3, <2>1, Parts, SMTT(20), Z3T(20) DEF JobsOK, Carries, Registered
  <1>9. ReqOK'
    <2>1. Working => req.h \in Handle \ {actor.job.h}
      BY <1>1, Distinct, Parts, Types, TypesNext, ZenonT(30) DEF ReqOK, Working
    <2> QED BY <1>1, <1>3, <2>1, Parts, ZenonT(30) DEF ReqOK, Working, Carries, Registered
  <1>10. GateOK'
    <2>1. \A g \in Handle : kernel[g].val \in Nat /\ (kernel[g].val <= Newest => kernel[g].val <= w)
      <3>1. \A g \in Handle : kernel[g].val \in Nat
        BY Parts, Types, TypesNext, Zenon DEF KernelSlot
      <3> QED BY <1>2, <1>5, <3>1, Parts, SMTT(20), Z3T(20)
    <2> QED BY <1>1, <1>3, <1>5, <2>1, Parts, ZenonT(30) DEF GateOK
  <1> QED BY <1>4, <1>6, <1>7, <1>8, <1>9, <1>10, Zenon DEF IInv

(* The gate opens for the write whose pin is durable. *)
LEMMA FinishOkStep ==
    ASSUME IInv, TypeOK', FinishOk
    PROVE  IInv'
  <1>1. /\ actor.pc = "finish" /\ actor'.pc = "nudge" /\ actor'.job = actor.job
        /\ gate' = [gate EXCEPT ![actor.job.h] = "Ok"]
        /\ UNCHANGED <<kernel, pending, history, req, jobs, next_seq, written, pinned>>
        /\ Base' = Base /\ ActorGone' = ActorGone /\ ~ActorGone
    BY SMTT(20), Z3T(20) DEF FinishOk, kernelVars, watchVars, Base, ActorGone
  <1>2. PinnedOK' /\ HistoryOK' /\ PumpOK' /\ WatchOK' /\ NoStaleRead' /\ ReplyOK'
    BY Frame, Zenon DEF FinishOk, kernelVars, watchVars, hostVars
  <1>3. GateOK' /\ \A g \in Handle \ {actor.job.h}, w \in Nat : Carries(g, w) => Carries(g, w)'
    BY <1>1, Resolve, Zenon
  <1>4. ActorOK'
    BY <1>1, Parts, ZenonT(30) DEF ActorOK
  <1>5. JobsOK'
    <2>1. \A i \in 1..Len(jobs) : jobs[i].h \in Handle \ {actor.job.h} /\ jobs[i].c \in Nat
      BY <1>1, Distinct, Parts, ZenonT(30)
    <2>2. \A i \in 1..Len(jobs) : Carries(jobs[i].h, jobs[i].c)'
      BY <1>1, <1>3, <2>1, Parts, ZenonT(30) DEF JobsOK, Carries
    <2> QED BY <1>1, <2>2, Parts, ZenonT(30) DEF JobsOK, Registered
  <1>6. ReqOK'
    <2>1. Working => req.h \in Handle \ {actor.job.h} /\ written \in Nat /\ Carries(req.h, written)
      BY <1>1, Distinct, Parts, Types, TypesNext, ZenonT(30) DEF ReqOK, Working
    <2>2. Working => Carries(req.h, written)'
      BY <1>1, <1>3, <2>1, Zenon DEF Carries
    <2> QED BY <1>1, <2>2, Parts, ZenonT(30) DEF ReqOK, Working, Registered
  <1> QED BY <1>2, <1>3, <1>4, <1>5, <1>6, Zenon DEF IInv

(* The wake-up changes no table. *)
LEMMA NudgeStep ==
    ASSUME IInv, TypeOK', Nudge
    PROVE  IInv'
  <1>1. /\ actor.pc = "nudge" /\ actor'.pc = "idle"
        /\ UNCHANGED <<kernel, gate, pending, req, jobs, next_seq, written, pinned>>
        /\ Base' = Base /\ ActorGone' = ActorGone
    BY SMTT(20), Z3T(20) DEF Nudge, kernelVars, watchVars, Base, ActorGone
  <1>2. PinnedOK' /\ HistoryOK' /\ PumpOK' /\ WatchOK' /\ NoStaleRead' /\ GateOK' /\ ReplyOK'
    BY Frame, Zenon DEF Nudge, kernelVars, watchVars, hostVars
  <1>3. ActorOK'
    BY <1>1, ZenonT(30) DEF ActorOK
  <1>4. JobsOK'
    BY <1>1, Parts, ZenonT(30) DEF JobsOK, Carries, Registered
  <1>5. ReqOK'
    BY <1>1, Parts, Zenon DEF ReqOK, Working, Carries, Registered
  <1> QED BY <1>2, <1>3, <1>4, <1>5, Zenon DEF IInv

-----------------------------------------------------------------------------
(* One lemma per step of gated_reply_proxy, and one for the host's. *)

(* A read reply is forwarded if the watch accepts it. *)
LEMMA ReadReplyStep ==
    ASSUME IInv, TypeOK', NEW h \in Handle, ReadReply(h)
    PROVE  IInv'
  <1>1. /\ h \in inflight /\ kernel[h].op = "read" /\ reads[h] # None
        /\ gate[h] = None /\ pending[h] = None
        /\ \A w \in kernel[h].since : w <= reads[h]
    BY Parts, ZenonT(30) DEF ReadReply, WatchOK, GateOK
  <1>2. /\ inflight' = inflight \ {h} /\ reads'[h] = None /\ host'[h] = None
        /\ \A g \in Handle \ {h} : reads'[g] = reads[g] /\ host'[g] = host[g]
        /\ UNCHANGED <<acked, written, req, gate, history, pending, next_seq, jobs, actor,
                       stashed, pinned>>
        /\ pump.pc = "ready" /\ pump'.pc \in {"ready", "refused"}
    <2>1. /\ inflight' = inflight \ {h} /\ pump.pc = "ready"
          /\ UNCHANGED <<acked, written, req, gate, history, pending, next_seq, jobs, actor,
                         stashed, pinned>>
      BY ZenonT(20) DEF ReadReply, Arrived
    <2>2. pump'.pc \in {"ready", "refused"}
      <3>1. pump' = pump \/ pump' = [pc |-> "refused", h |-> h]
        BY Zenon DEF ReadReply
      <3> QED BY <2>1, <3>1, SMTT(20), Z3T(20)
    <2>3. /\ reads'[h] = None /\ host'[h] = None
          /\ \A g \in Handle \ {h} : reads'[g] = reads[g] /\ host'[g] = host[g]
      <3>1. reads' = [reads EXCEPT ![h] = None] /\ host' = [host EXCEPT ![h] = None]
        BY Zenon DEF ReadReply, Unwatch, Taken
      <3>2. reads \in [Handle -> {None} \cup Nat] /\ host \in [Handle -> {None} \cup HostSlot]
        BY Parts, Types, Zenon
      <3> QED BY <3>1, <3>2, Zenon
    <2> QED BY <2>1, <2>2, <2>3, Zenon
  <1>3. /\ \A g \in Handle \ {h} : kernel'[g] = kernel[g]
        /\ kernel'[h].op \in {"read", "idle", "done"}
        /\ kernel'[h].op = "done" => /\ FreshFor(h, kernel'[h].val)
                                     /\ kernel'[h].since = kernel[h].since
    BY <1>1, Parts, Types, TypesNext, SMTT(20), Z3T(20) DEF ReadReply, Idle
  <1>4. CarriesKept
    BY <1>1, <1>2, <1>3, ZenonT(30) DEF CarriesKept, Carries
  <1>5. PinnedOK' /\ HistoryOK' /\ ActorOK' /\ JobsOK' /\ ReqOK'
    BY <1>2, <1>4, Frame, ZenonT(30)
  <1>6. PumpOK'
    BY <1>2, ZenonT(30) DEF PumpOK
  <1>7. GateOK'
    BY <1>1, <1>2, <1>3, IssueFrame, ZenonT(30)
  <1>8. WatchOK'
    BY <1>2, <1>3, Parts, ZenonT(30) DEF WatchOK
  <1>9. ReplyOK'
    BY <1>1, <1>2, <1>3, Parts, ZenonT(30) DEF ReplyOK, Parked, Free
  <1>10. NoStaleRead'
    <2>1. ASSUME kernel'[h].op = "done", NEW w \in kernel'[h].since
          PROVE  kernel'[h].val >= w
      <3>1. PICK e \in Known : e.seq >= reads[h] /\ e.c = kernel'[h].val
        BY <1>3, <2>1, Zenon DEF FreshFor
      <3>2. e \in Entry /\ e.c = e.seq
        <4>1. CASE \E i \in 1..Len(history) : e = history[i]
          <5>1. PICK i \in 1..Len(history) : e = history[i]
            BY <4>1, Zenon
          <5>2. history[i] \in Entry
            <6>1. history \in Seq(Entry)
              BY Parts, Types, TypesNext, Zenon
            <6> QED BY <6>1, SMTT(20), Z3T(20)
          <5>3. history[i].c = history[i].seq
            BY Parts, Zenon DEF HistoryOK
          <5> QED BY <5>1, <5>2, <5>3, Zenon
        <4>2. CASE \E g \in Handle : pending[g] # None /\ e = pending[g]
          <5>1. PICK g \in Handle : pending[g] # None /\ e = pending[g]
            BY <4>2, Zenon
          <5>2. pending[g] \in Entry
            BY <5>1, Parts, Types, TypesNext, ZenonT(30)
          <5>3. pending[g].c = pending[g].seq
            BY <5>1, Parts, ZenonT(30) DEF GateOK
          <5> QED BY <5>1, <5>2, <5>3, Zenon
        <4> QED BY <3>1, <4>1, <4>2, Zenon DEF Known
      <3>3. e.seq \in Nat /\ reads[h] \in Nat /\ w \in Nat
        BY <1>1, <1>3, <2>1, <3>2, Parts, Types, TypesNext, ZenonT(30) DEF Entry, KernelSlot
      <3>4. w <= reads[h]
        BY <1>1, <1>3, <2>1, ZenonT(30)
      <3> QED BY <3>1, <3>2, <3>3, <3>4, SMTT(20), Z3T(20)
    <2> QED BY <1>3, <2>1, Parts, Zenon DEF NoStaleRead, Busy
  <1> QED BY <1>5, <1>6, <1>7, <1>8, <1>9, <1>10, Zenon DEF IInv

(* Replies reach the kernel only for handles with no gate, or an open one. *)
LEMMA Release ==
    ASSUME IInv, NEW S \in SUBSET Handle, Acknowledge(S),
           \A g \in S : gate[g] \in {None, "Ok"} /\ g \notin inflight,
           \A g \in S : gate'[g] = None,
           \A g \in Handle \ S : gate'[g] = gate[g],
           UNCHANGED <<written, req, inflight, history, pending, reads, next_seq, jobs, actor,
                       pinned>>
    PROVE  /\ PinnedOK' /\ HistoryOK' /\ ActorOK' /\ JobsOK' /\ ReqOK' /\ GateOK'
           /\ WatchOK' /\ NoStaleRead'
           /\ \A g \in S : kernel'[g].op = "idle"
           /\ \A g \in Handle \ S : kernel'[g] = kernel[g]
  <1>1. /\ \A g \in S : kernel'[g].op = "idle" /\ kernel'[g].since = {}
        /\ \A g \in Handle \ S : kernel'[g] = kernel[g]
    BY ZenonT(30) DEF Acknowledge, Idle
  <1>2. CarriesKept
    BY <1>1, NoneIsNoValue, Zenon DEF CarriesKept, Carries
  <1>3. PinnedOK' /\ ActorOK' /\ JobsOK' /\ ReqOK'
    BY <1>2, Frame, Zenon
  <1>4. HistoryOK'
    <2>1. \A g \in {f \in S : kernel[f].op = "write"} : kernel[g].val <= Newest
      BY Parts, ZenonT(30) DEF GateOK
    <2>2. acked' = acked \cup {kernel[g].val : g \in {f \in S : kernel[f].op = "write"}}
      BY ZenonT(30) DEF Acknowledge
    <2>3. Newest' = Newest
      BY ZenonT(30) DEF Newest
    <2>4. \A w \in acked' : w <= Newest
      BY <2>1, <2>2, Parts, Zenon DEF HistoryOK
    <2> QED BY <2>3, <2>4, Parts, Zenon DEF HistoryOK
  <1>5. GateOK'
    <2>1. ASSUME NEW g \in S PROVE pending[g] = None
      BY Parts, Zenon DEF GateOK
    <2>2. Newest' = Newest
      BY Zenon DEF Newest
    <2>3. ASSUME NEW g \in Handle
          PROVE  /\ kernel'[g].op = "write" <=> gate'[g] # None
                 /\ gate'[g] = "Ok" => kernel'[g].val <= Newest' /\ pending'[g] = None
                 /\ pending'[g] # None =>
                        kernel'[g].op = "write" /\ pending'[g].c = pending'[g].seq
      <3>1. CASE g \in S
        BY <1>1, <2>1, <3>1, NoneIsNoValue, ZenonT(30)
      <3>2. CASE g \notin S
        BY <1>1, <2>2, <3>2, Parts, ZenonT(30) DEF GateOK
      <3> QED BY <3>1, <3>2, ZenonT(30)
    <2> QED BY <2>3, Zenon DEF GateOK
  <1>6. WatchOK'
    BY <1>1, Parts, ZenonT(30) DEF WatchOK
  <1>7. NoStaleRead'
    BY <1>1, Parts, Zenon DEF NoStaleRead, Busy
  <1> QED BY <1>1, <1>3, <1>4, <1>5, <1>6, <1>7, Zenon

(* A write reply is forwarded, held or refused by its gate. *)
LEMMA WriteReplyStep ==
    ASSUME IInv, TypeOK', NEW h \in Handle, WriteReply(h)
    PROVE  IInv'
  <1>1. /\ host[h] # None /\ h \notin inflight /\ host'[h] = None
        /\ \A g \in Handle \ {h} : host'[g] = host[g]
        /\ UNCHANGED <<written, req, inflight, history, pending, reads, next_seq, jobs, actor,
                       stashed, pinned>>
        /\ pump.pc = "ready"
    BY Parts, Types, TypesNext, Zenon DEF WriteReply, Arrived, Taken, watchVars
  <1>2. CASE Acknowledge({h}) /\ UNCHANGED pump /\ gate[h] \in {None, "Ok"} /\ gate'[h] = None
             /\ \A g \in Handle \ {h} : gate'[g] = gate[g]
    <2>1. /\ PinnedOK' /\ HistoryOK' /\ ActorOK' /\ JobsOK' /\ ReqOK' /\ GateOK'
          /\ WatchOK' /\ NoStaleRead'
          /\ kernel'[h].op = "idle" /\ \A g \in Handle \ {h} : kernel'[g] = kernel[g]
      <3>1. {h} \in SUBSET Handle /\ \A g \in {h} : g = h
        BY Zenon
      <3> QED BY <1>1, <1>2, <3>1, Release, Zenon
    <2>2. PumpOK'
      BY <1>2, Frame, Zenon
    <2>3. ReplyOK'
      BY <1>1, <1>2, <2>1, Parts, Zenon DEF ReplyOK, Parked, Free
    <2> QED BY <2>1, <2>2, <2>3, Zenon DEF IInv
  <1>3. CASE /\ UNCHANGED <<kernel, acked, gate>>
             /\ \/ pump' = [pc |-> "hold", h |-> h] /\ gate[h] = "Pending"
                \/ pump' = [pc |-> "failed", h |-> None]
    <2>1. /\ PinnedOK' /\ HistoryOK' /\ ActorOK' /\ JobsOK' /\ ReqOK' /\ GateOK'
          /\ WatchOK' /\ NoStaleRead'
      BY <1>1, <1>3, Frame, ZenonT(30)
    <2>2. PumpOK'
      BY <1>3, SMTT(20), Z3T(20) DEF PumpOK
    <2>3. pump'.pc = "hold" => pump'.h = h /\ kernel[h].op = "write"
      BY <1>3, Parts, NoneIsNoValue, SMTT(20), Z3T(20) DEF GateOK
    <2>4. ReplyOK'
      BY <1>1, <1>3, <2>3, Parts, ZenonT(30) DEF ReplyOK, Parked, Free
    <2> QED BY <2>1, <2>2, <2>4, Zenon DEF IInv
  <1> QED BY <1>2, <1>3, Parts, Types, TypesNext, ZenonT(30) DEF WriteReply

(* Parking a held reply keeps it where it is. *)
LEMMA StashStep ==
    ASSUME IInv, TypeOK', Stash
    PROVE  IInv'
  <1>1. PinnedOK' /\ HistoryOK' /\ WatchOK' /\ NoStaleRead' /\ GateOK'
    BY Frame, Zenon DEF Stash, kernelVars, watchVars
  <1>2. ActorOK' /\ JobsOK' /\ ReqOK'
    BY Frame, Zenon DEF Stash, kernelVars, watchVars
  <1>3. PumpOK'
    BY Zenon DEF Stash, PumpOK
  <1>4. ReplyOK'
    BY Parts, ZenonT(30) DEF Stash, ReplyOK, Parked, Free, kernelVars, hostVars
  <1> QED BY <1>1, <1>2, <1>3, <1>4, Zenon DEF IInv

(* A wake-up releases parked replies whose gates are open. *)
LEMMA RecvNudgeStep ==
    ASSUME IInv, TypeOK', RecvNudge
    PROVE  IInv'
  <1>1. PICK out \in SUBSET {h \in stashed : gate[h] = "Ok"} :
           /\ stashed' = stashed \ out
           /\ gate' = [h \in Handle |-> IF h \in out THEN None ELSE gate[h]]
           /\ Acknowledge(out)
    BY Zenon DEF RecvNudge
  <1>2. /\ UNCHANGED <<written, req, inflight, history, pending, reads, next_seq, jobs, actor,
                       pinned, host>>
        /\ pump.pc = "ready" /\ pump'.pc \in {"ready", "failed"}
    BY Parts, Types, TypesNext, Zenon DEF RecvNudge, watchVars, hostVars
  <1>3. /\ out \in SUBSET Handle
        /\ \A g \in out : gate[g] \in {None, "Ok"} /\ g \notin inflight
    BY <1>1, Parts, Types, TypesNext, ZenonT(30) DEF ReplyOK, Parked, WatchOK
  <1>4. /\ PinnedOK' /\ HistoryOK' /\ ActorOK' /\ JobsOK' /\ ReqOK' /\ GateOK'
        /\ WatchOK' /\ NoStaleRead'
        /\ \A g \in out : kernel'[g].op = "idle"
        /\ \A g \in Handle \ out : kernel'[g] = kernel[g]
    <2>1. (\A g \in out : gate'[g] = None) /\ \A g \in Handle \ out : gate'[g] = gate[g]
      BY <1>1, <1>3, Zenon
    <2> QED BY <1>1, <1>2, <1>3, <2>1, Release, Zenon
  <1>5. PumpOK'
    BY <1>2, Zenon DEF PumpOK
  <1>6. ReplyOK'
    BY <1>1, <1>2, <1>3, <1>4, Parts, ZenonT(30) DEF ReplyOK, Parked, Free
  <1> QED BY <1>4, <1>5, <1>6, Zenon DEF IInv

(* A closed stream takes the unanswered requests with it. *)
LEMMA HostEofStep ==
    ASSUME IInv, TypeOK', HostEof
    PROVE  IInv'
  <1>1. PinnedOK' /\ HistoryOK' /\ WatchOK' /\ NoStaleRead' /\ GateOK'
    BY Frame, Zenon DEF HostEof, kernelVars, watchVars
  <1>2. ActorOK' /\ JobsOK' /\ ReqOK'
    BY Frame, Zenon DEF HostEof, kernelVars, watchVars
  <1>3. PumpOK'
    BY Zenon DEF HostEof, PumpOK
  <1>4. ReplyOK'
    BY Parts, Zenon DEF HostEof, ReplyOK, Parked, Free, kernelVars
  <1> QED BY <1>1, <1>2, <1>3, <1>4, Zenon DEF IInv

(* The host only works on requests it has. *)
LEMMA HostStep ==
    ASSUME IInv, TypeOK', NEW h \in Handle, HostWrite(h) \/ HostRead(h) \/ HostFails(h)
    PROVE  IInv'
  <1>1. UNCHANGED <<kernelVars, req, inflight, gate, watchVars, jobs, actor, pump, stashed,
                    nudges, pinned>>
    BY Zenon DEF HostWrite, HostRead, HostFails
  <1>2. \A g \in Handle : host[g] = None => host'[g] = None
    <2>1. host[h] # None /\ \A g \in Handle \ {h} : host'[g] = host[g]
      BY Parts, Types, TypesNext, ZenonT(30) DEF HostWrite, HostRead, HostFails
    <2> QED BY <2>1, Zenon
  <1>3. PinnedOK' /\ HistoryOK' /\ PumpOK' /\ WatchOK' /\ NoStaleRead' /\ GateOK'
    BY <1>1, Frame, Zenon DEF kernelVars, watchVars
  <1>4. ActorOK' /\ JobsOK' /\ ReqOK'
    BY <1>1, Frame, Zenon DEF kernelVars, watchVars
  <1>5. ReplyOK'
    BY <1>1, <1>2, Parts, Zenon DEF ReplyOK, Parked, Free, kernelVars
  <1> QED BY <1>3, <1>4, <1>5, Zenon DEF IInv

-----------------------------------------------------------------------------
(* The theorems. *)

(* The invariant holds at the start. *)
LEMMA InvInit == Init => IInv
  <1> SUFFICES ASSUME Init PROVE IInv
    BY Zenon
  <1>1. TypeOK
    BY TypeInit, Zenon
  <1>2. PinnedOK /\ Len(pinned) = 1
    BY SMTT(20), Z3T(20) DEF Init, PinnedOK, PinnedInOrder
  <1>3. Newest = 0 /\ Len(history) = 1 /\ history[1].c = history[1].seq
    BY Zenon DEF Init, Newest
  <1>4. HistoryOK
    BY <1>2, <1>3, SMTT(20), Z3T(20) DEF Init, HistoryOK
  <1>5. ActorOK /\ JobsOK /\ PumpOK
    BY SMTT(20), Z3T(20) DEF Init, ActorOK, JobsOK, PumpOK
  <1>6. ReqOK
    BY <1>2, SMTT(20), Z3T(20) DEF Init, ReqOK, Working, Base
  <1>7. \A h \in Handle : kernel[h].op = "idle" /\ gate[h] = None /\ pending[h] = None
                          /\ reads[h] = None /\ host[h] = None
    BY ZenonT(30) DEF Init, Idle
  <1>8. GateOK
    BY <1>7, NoneIsNoValue, ZenonT(30) DEF GateOK
  <1>9. WatchOK
    BY <1>7, ZenonT(30) DEF Init, WatchOK
  <1>10. ReplyOK
    BY <1>7, ZenonT(30) DEF Init, ReplyOK, Parked
  <1>11. NoStaleRead
    BY <1>7, Zenon DEF NoStaleRead, Busy
  <1> QED BY <1>1, <1>2, <1>4, <1>5, <1>6, <1>8, <1>9, <1>10, <1>11, Zenon DEF IInv

(* Every step keeps the invariant. *)
LEMMA InvNext == IInv /\ [Next]_vars => IInv'
  <1> SUFFICES ASSUME IInv, [Next]_vars PROVE IInv'
    BY Zenon
  <1>1. CASE Next
    <2>1. TypeOK'
      BY <1>1, TypeStep, Parts, Zenon
    <2>2. CASE RequestProxy
      BY <2>1, <2>2, CaptureStep, ForwardStep, ProxyEndsStep, QueuePinStep, RecvReadStep,
         RecvOtherStep, RecvWriteStep, RecvPartialStep, Zenon DEF RequestProxy
    <2>3. CASE PinActor
      BY <2>1, <2>3, RecvJobStep, ActorEndsStep, PinOkStep, PinFailsStep, WatchCommitStep,
         FinishOkStep, NudgeStep, Zenon DEF PinActor
    <2>4. CASE ReplyPump
      BY <2>1, <2>4, StashStep, RecvNudgeStep, HostEofStep, ReadReplyStep, WriteReplyStep,
         Zenon DEF ReplyPump
    <2>5. CASE StorageHost
      BY <2>1, <2>5, HostStep, Zenon DEF StorageHost
    <2> QED BY <1>1, <2>2, <2>3, <2>4, <2>5, Zenon DEF Next
  <1>2. CASE UNCHANGED vars
    <2>1. TypeOK'
      <3>1. TypeOK /\ UNCHANGED <<kernel, written, overlapped, acked, req, inflight, gate, history,
                                  pending, reads, next_seq, jobs, actor, pump, stashed, nudges,
                                  hostUp, host, disk, pinned>>
        BY <1>2, Parts, Zenon DEF vars, kernelVars, watchVars, hostVars
      <3> QED BY <3>1, SMTT(30), Z3T(30) DEF TypeOK
    <2> QED BY <1>2, <2>1, Frame, ZenonT(30) DEF IInv, vars, kernelVars, watchVars, hostVars
  <1> QED BY <1>1, <1>2, Zenon

(* The inductive invariant holds of every instance. *)
THEOREM Invariant == Spec => []IInv
  BY InvInit, InvNext, PTL DEF Spec

(* The types hold in every run of the pipeline. *)
THEOREM TypesHold == Spec => []TypeOK
  <1>1. IInv => TypeOK
    BY Zenon DEF IInv
  <1> QED BY <1>1, Invariant, PTL

(* No region write is acknowledged to the kernel before the oracle holds   *)
(* its commitment, and the oracle holds all commitments before it, too.    *)
THEOREM DurableBeforeAck == Spec => []AckedIsPinned
  <1>1. IInv => AckedIsPinned
    <2> SUFFICES ASSUME IInv, NEW w \in acked PROVE w <= NewestPinned
      BY Zenon DEF AckedIsPinned
    <2>1. NewestPinned = Len(pinned) - 1
      BY Parts, SMTT(20), Z3T(20) DEF NewestPinned, PinnedOK, PinnedInOrder
    <2>2. w \in Nat /\ w <= Newest /\ Newest <= Len(pinned) - 1
      BY Parts, Types, Zenon DEF HistoryOK
    <2> QED BY <2>1, <2>2, Parts, SMTT(20), Z3T(20)
  <1> QED BY <1>1, Invariant, PTL

(* The oracle receives the commitments in the order of the writes, each once. *)
THEOREM PinsInOrder == Spec => []PinnedInOrder
  <1>1. IInv => PinnedInOrder
    BY Zenon DEF IInv, PinnedOK
  <1> QED BY <1>1, Invariant, PTL

(* A verified read returns nothing older than the region writes that were  *)
(* acknowledged when it was issued, whatever the host serves.              *)
THEOREM ReadsAreFresh == Spec => []NoStaleRead
  <1>1. IInv => NoStaleRead
    BY Zenon DEF IInv
  <1> QED BY <1>1, Invariant, PTL

(* A handle the kernel may use again has left nothing in the tables. *)
THEOREM HandlesAreClean == Spec => []ReusedHandleIsClean
  <1>1. IInv => ReusedHandleIsClean
    <2> SUFFICES ASSUME IInv, NEW h \in Handle, Free(h)
                 PROVE  /\ gate[h] = None /\ pending[h] = None /\ reads[h] = None
                        /\ h \notin inflight \cup stashed
      BY Zenon DEF ReusedHandleIsClean
    <2>1. kernel[h].op \notin {"read", "write"}
      BY Zenon DEF Free
    <2> QED BY <2>1, Parts, Zenon DEF GateOK, WatchOK, ReplyOK, Parked
  <1> QED BY <1>1, Invariant, PTL

-----------------------------------------------------------------------------
(* Refused reads: the watch knows every content the host may serve. *)

Oldest == history[1].seq

(* The region watch keeps up with the oracle. *)
CaughtUp ==
    /\ actor.pc \in {"idle", "pinning", "finish", "nudge", "stopped"} =>
          Newest = Len(pinned) - 1
    /\ actor.pc = "commit" => Newest = Len(pinned) - 2

(* No commitment is missing between the oldest kept and the newest, ... *)
Gapless == \A i \in 1..Len(history) : history[i].seq = Oldest + i - 1

(* ... nor between the newest and the last one captured. *)
Captured == \A w \in (Newest + 1)..(next_seq - 1) : \E h \in Handle : Registered(h, w)

(* What a read may still return is kept. *)
FloorKept ==
    \A h \in Handle : reads[h] # None =>
        reads[h] = kernel[h].val /\ Oldest <= reads[h] /\ reads[h] <= Newest

(* The host has only content whose commitment was captured. *)
HostSeen == /\ next_seq >= 1 /\ disk < next_seq
            /\ \A h \in Handle : host[h] # None => host[h].val < next_seq

WatchInv == CaughtUp /\ Gapless /\ Captured /\ FloorKept /\ HostSeen

(* What request_proxy leaves alone *)
LEMMA ProxyFrame ==
    ASSUME RequestProxy
    PROVE  UNCHANGED <<actor, history, pinned, disk, stashed, pump, acked>>
  <1>1. ASSUME NEW h \in Handle, RecvRead(h) \/ RecvOther(h) \/ RecvWrite(h) \/ RecvPartial(h)
        PROVE  UNCHANGED <<actor, history, pinned, disk, stashed, pump, acked>>
    BY <1>1, Zenon DEF RecvRead, RecvOther, RecvWrite, RecvPartial, watchVars, hostVars
  <1>2. CASE Capture \/ Forward \/ HostLost \/ QueuePin \/ Disconnect
    BY <1>2, Zenon
       DEF Capture, Forward, HostLost, QueuePin, Disconnect, kernelVars, watchVars, hostVars
  <1> QED BY <1>1, <1>2, Zenon DEF RequestProxy

(* What pin_actor leaves alone *)
LEMMA ActorFrame ==
    ASSUME PinActor
    PROVE  UNCHANGED <<kernel, written, overlapped, acked, req, inflight, reads,
                       next_seq, pump, stashed, host, disk>>
  <1>1. CASE RecvJob \/ ActorEnds \/ PinOk \/ PinFails
    BY <1>1, Zenon DEF RecvJob, ActorEnds, PinOk, PinFails, kernelVars, watchVars, hostVars
  <1>2. CASE WatchCommit \/ FinishOk \/ Nudge
    BY <1>2, Zenon DEF WatchCommit, FinishOk, Nudge, kernelVars, watchVars, hostVars
  <1> QED BY <1>1, <1>2, Zenon DEF PinActor

(* What gated_reply_proxy leaves alone *)
LEMMA PumpFrame ==
    ASSUME ReplyPump
    PROVE  UNCHANGED <<written, overlapped, req, history, pending, next_seq, jobs,
                       actor, disk, pinned>>
  <1>1. CASE Stash \/ RecvNudge \/ HostEof
    BY <1>1, Zenon DEF Stash, RecvNudge, HostEof, kernelVars, watchVars, hostVars
  <1>2. ASSUME NEW h \in Handle, ReadReply(h) \/ WriteReply(h)
        PROVE  UNCHANGED <<written, overlapped, req, history, pending, next_seq, jobs,
                           actor, disk, pinned>>
    BY <1>2, Zenon DEF ReadReply, WriteReply, watchVars
  <1> QED BY <1>1, <1>2, Zenon DEF ReplyPump

(* What the host leaves alone: everything but its requests and the disk *)
LEMMA HostFrame ==
    ASSUME StorageHost
    PROVE  UNCHANGED <<kernel, written, overlapped, acked, req, inflight, gate, history,
                       pending, reads, next_seq, jobs, actor, pump, stashed, pinned>>
  BY Zenon DEF StorageHost, HostWrite, HostRead, HostFails, kernelVars, watchVars

(* The watch keeps up: every step of the actor moves both sides together.  *)
LEMMA CaughtUpStep ==
    ASSUME IInv, CaughtUp, Next, Newest' = IF WatchCommit THEN Newest + 1 ELSE Newest
    PROVE  CaughtUp'
  <1>1. Newest \in Nat /\ Len(pinned) \in Nat
    BY Parts, Zenon
  <1>2. CASE ~PinActor
    <2>1. UNCHANGED <<actor, pinned>>
      BY <1>2, ProxyFrame, PumpFrame, HostFrame, Zenon DEF Next
    <2>2. Newest' = Newest
      BY <1>2, Zenon DEF PinActor
    <2> QED BY <2>1, <2>2, Zenon DEF CaughtUp
  <1>a. CASE RecvJob \/ ActorEnds \/ FinishOk \/ Nudge
    <2>1. /\ actor.pc \in {"idle", "finish", "nudge"}
          /\ actor'.pc \in {"pinning", "stopped", "nudge", "idle"} /\ UNCHANGED pinned
      BY <1>a, SMTT(20), Z3T(20) DEF RecvJob, ActorEnds, FinishOk, Nudge
    <2>2. Newest' = Newest
      BY <2>1, Zenon DEF WatchCommit
    <2> QED BY <2>1, <2>2, Zenon DEF CaughtUp
  <1>b. CASE PinOk
    <2>1. actor.pc = "pinning" /\ actor'.pc = "commit" /\ pinned' = Append(pinned, actor.job.c)
      BY <1>b, Zenon DEF PinOk
    <2>2. Len(pinned') = Len(pinned) + 1
      BY <2>1, Parts, Types, SMTT(20), Z3T(20)
    <2>3. Newest' = Newest
      BY <2>1, Zenon DEF WatchCommit
    <2> QED BY <1>1, <2>1, <2>2, <2>3, SMTT(20), Z3T(20) DEF CaughtUp
  <1>c. CASE PinFails
    <2>1. actor'.pc = "failed"
      BY <1>c, Zenon DEF PinFails
    <2> QED BY <2>1, Zenon DEF CaughtUp
  <1>d. CASE WatchCommit
    <2>1. actor.pc = "commit" /\ actor'.pc = "finish" /\ pinned' = pinned
      BY <1>d, Zenon DEF WatchCommit
    <2> QED BY <1>1, <1>d, <2>1, SMTT(20), Z3T(20) DEF CaughtUp
  <1> QED BY <1>2, <1>a, <1>b, <1>c, <1>d, Zenon DEF PinActor

(* Pruning a list without gaps leaves one without gaps, and drops nothing  *)
(* that a watched read may still return.                                   *)
LEMMA PruneGapless ==
    ASSUME NEW s \in Seq(Entry), s # <<>>, Prune(s), NEW o \in Nat,
           \A i \in 1..Len(s) : s[i].seq = o + i - 1,
           \A h \in Watched : reads[h] \in Nat /\ o <= reads[h]
    PROVE  /\ Gapless' /\ \A h \in Watched : Oldest' <= reads[h]
  <1> DEFINE n == Len(s)
  <1>1. PICK first \in 1..n :
           /\ \A i \in 1..(first - 1) : Unneeded(s[i].seq, s[n].seq)
           /\ history' = SubSeq(s, first, n)
    BY Zenon DEF Prune
  <1>2. n \in Nat /\ first \in Nat /\ 1 <= first /\ first <= n
    BY <1>1, SMTT(20), Z3T(20)
  <1>3. /\ Len(history') = n - first + 1
        /\ \A i \in 1..(n - first + 1) : history'[i] = s[first + i - 1]
    BY <1>1, <1>2, SMTT(20), Z3T(20)
  <1>4. \A i \in 1..(n - first + 1) :
            first + i - 1 \in 1..n /\ history'[i].seq = o + (first + i - 1) - 1
    BY <1>2, <1>3, SMTT(20), Z3T(20)
  <1>5. Oldest' = o + first - 1
    BY <1>2, <1>4, SMTT(20), Z3T(20) DEF Oldest
  <1>6. Gapless'
    <2>1. ASSUME NEW i \in 1..Len(history') PROVE history'[i].seq = Oldest' + i - 1
      BY <1>2, <1>3, <1>4, <1>5, SMTT(20), Z3T(20)
    <2> QED BY <2>1, Zenon DEF Gapless
  <1>7. ASSUME NEW h \in Watched PROVE Oldest' <= reads[h]
    <2>1. CASE first = 1
      BY <1>2, <1>5, <2>1, SMTT(20), Z3T(20)
    <2>2. CASE first # 1
      <3>1. first - 1 \in 1..n /\ first - 1 \in 1..(first - 1)
        BY <1>2, <2>2, SMTT(20), Z3T(20)
      <3>2. Unneeded(s[first - 1].seq, s[n].seq)
        BY <1>1, <3>1, Zenon
      <3>3. s[first - 1].seq < reads[h]
        BY <3>2, Zenon DEF Unneeded
      <3>4. s[first - 1].seq = o + (first - 1) - 1
        BY <3>1, Zenon
      <3> QED BY <1>2, <1>5, <3>3, <3>4, SMTT(20), Z3T(20)
    <2> QED BY <2>1, <2>2, Zenon
  <1> QED BY <1>6, <1>7, Zenon

(* The commit of a pinned write appends the next commitment. *)
LEMMA CommitExtends ==
    ASSUME IInv, WatchInv, WatchCommit
    PROVE  /\ Newest' = Newest + 1 /\ Gapless'
           /\ \A h \in Watched : Oldest' <= reads[h]
           /\ \A h \in Handle, w \in Nat : Registered(h, w) /\ w # Newest + 1 => Registered(h, w)'
  <1> DEFINE j == actor.job
             e == [seq |-> j.c, c |-> j.c]
             s == Append(history, e)
             n == Len(history)
  <1>1. /\ Registered(j.h, j.c) /\ j.c = Len(pinned) - 1 /\ j # None
        /\ j.h \in Handle /\ j.c \in Nat
    BY Parts, Zenon DEF WatchCommit, ActorOK
  <1>2. e \in Entry /\ pending[j.h] = e
    BY <1>1, Zenon DEF Entry, Registered
  <1>3. Newest = Len(pinned) - 2 /\ Newest \in Nat /\ Len(pinned) \in Nat
    BY Parts, Zenon DEF WatchCommit, WatchInv, CaughtUp
  <1>4. j.c = Newest + 1
    BY <1>1, <1>3, SMTT(20), Z3T(20)
  <1>5. history \in Seq(Entry) /\ history # <<>> /\ n \in Nat /\ n >= 1
    BY Parts, Types, SMTT(20), Z3T(20)
  <1>6. Prune(s) /\ pending' = [pending EXCEPT ![j.h] = None]
    BY <1>2, Zenon DEF WatchCommit
  <1>7. e.seq = Newest + 1
    BY <1>4, Zenon
  <1>8. Oldest \in Nat
    <2>1. history[1] \in Entry
      BY <1>5, SMTT(20), Z3T(20)
    <2> QED BY <2>1, Zenon DEF Oldest, Entry
  <1>9. \A i \in 1..n : history[i].seq = Oldest + i - 1
    BY Zenon DEF WatchInv, Gapless
  <1>10. Newest = Oldest + n - 1
    BY <1>5, <1>9, SMTT(20), Z3T(20) DEF Newest
  <1>11. reads \in [Handle -> {None} \cup Nat]
    BY Parts, Types, Zenon
  <1>12. \A h \in Watched : reads[h] \in Nat /\ Oldest <= reads[h]
    BY <1>11, Zenon DEF Watched, WatchInv, FloorKept
  <1> HIDE DEF e
  <1>13. /\ s \in Seq(Entry) /\ s # <<>> /\ Len(s) = n + 1 /\ s[n + 1] = e
         /\ \A i \in 1..n : s[i] = history[i]
    BY <1>2, <1>5, SMTT(20), Z3T(20)
  <1> HIDE DEF s, n
  <1>14. \A i \in 1..Len(s) : s[i].seq = Oldest + i - 1
    <2> SUFFICES ASSUME NEW i \in 1..Len(s) PROVE s[i].seq = Oldest + i - 1
      BY Zenon
    <2>1. CASE i \in 1..n
      BY <1>9, <1>13, <2>1, Zenon
    <2>2. CASE i = n + 1
      BY <1>5, <1>7, <1>8, <1>10, <1>13, <2>2, SMTT(20), Z3T(20)
    <2> QED BY <1>5, <1>13, <2>1, <2>2, SMTT(20), Z3T(20)
  <1>15. Gapless' /\ \A h \in Watched : Oldest' <= reads[h]
    BY <1>6, <1>8, <1>12, <1>13, <1>14, PruneGapless, Zenon
  <1>16. history'[Len(history')] = s[Len(s)]
    BY <1>6, <1>13, PruneType, Zenon
  <1>17. Newest' = Newest + 1
    BY <1>7, <1>13, <1>16, Zenon DEF Newest
  <1>18. ASSUME NEW h \in Handle, NEW w \in Nat, Registered(h, w), w # Newest + 1
         PROVE  Registered(h, w)'
    <2>1. h # j.h
      <3>1. [seq |-> w, c |-> w].seq = w
        BY Zenon
      <3>2. pending[h] = [seq |-> w, c |-> w]
        BY <1>18, Zenon DEF Registered
      <3> QED BY <1>2, <1>7, <1>18, <3>1, <3>2, Zenon
    <2>2. pending'[h] = pending[h]
      BY <1>6, <2>1, Parts, Types, Zenon
    <2> QED BY <1>18, <2>2, Zenon DEF Registered
  <1> QED BY <1>15, <1>17, <1>18, Zenon

(* Only a commit writes the history, only it and a capture the pending     *)
(* commitments.                                                            *)
LEMMA HistoryFrame ==
    ASSUME Next, ~WatchCommit
    PROVE  /\ history' = history
           /\ Capture \/ UNCHANGED <<pending, next_seq>>
  <1>1. CASE RequestProxy
    <2>1. ASSUME NEW h \in Handle, RecvRead(h) \/ RecvOther(h) \/ RecvWrite(h) \/ RecvPartial(h)
          PROVE  UNCHANGED <<pending, next_seq>>
      BY <2>1, Zenon DEF RecvRead, RecvOther, RecvWrite, RecvPartial, watchVars
    <2>2. ASSUME Forward \/ HostLost \/ QueuePin \/ Disconnect
          PROVE  UNCHANGED <<pending, next_seq>>
      BY <2>2, Zenon DEF Forward, HostLost, QueuePin, Disconnect, watchVars
    <2>3. Capture \/ UNCHANGED <<pending, next_seq>>
      BY <1>1, <2>1, <2>2, Zenon DEF RequestProxy
    <2> QED BY <1>1, <2>3, ProxyFrame, Zenon
  <1>2. CASE PinActor
    BY <1>2, Zenon DEF PinActor, RecvJob, ActorEnds, PinOk, PinFails, FinishOk, Nudge, watchVars
  <1>3. CASE ReplyPump
    BY <1>3, PumpFrame, Zenon
  <1>4. CASE StorageHost
    BY <1>4, HostFrame, Zenon
  <1> QED BY <1>1, <1>2, <1>3, <1>4, Zenon DEF Next

(* A capture registers the next commitment. *)
LEMMA CapturedStep ==
    ASSUME IInv, WatchInv, Next
    PROVE  Captured'
  <1>1. Newest \in Nat /\ next_seq \in Nat
    BY Parts, Types, Zenon
  <1>2. CASE WatchCommit
    <2>1. Newest' = Newest + 1 /\ next_seq' = next_seq
      BY <1>2, CommitExtends, Zenon DEF WatchCommit
    <2>2. ASSUME NEW w \in (Newest' + 1)..(next_seq' - 1)
          PROVE  \E h \in Handle : Registered(h, w)'
      <3>1. w \in (Newest + 1)..(next_seq - 1) /\ w # Newest + 1 /\ w \in Nat
        BY <1>1, <2>1, SMTT(20), Z3T(20)
      <3>2. PICK h \in Handle : Registered(h, w)
        BY <3>1, Zenon DEF WatchInv, Captured
      <3>3. Registered(h, w)'
        BY <1>2, <3>1, <3>2, CommitExtends, Zenon
      <3> QED BY <3>3, Zenon
    <2> QED BY <2>2, Zenon DEF Captured
  <1>3. CASE Capture
    <2>1. /\ req.h \in Handle /\ pending[req.h] = None /\ kernel[req.h].val = next_seq
      BY <1>3, Parts, Types, Zenon DEF Capture, ReqOK, Working, Carries
    <2>2. /\ pending' = [pending EXCEPT ![req.h] = [seq |-> next_seq, c |-> next_seq]]
          /\ next_seq' = next_seq + 1 /\ history' = history
      BY <1>3, <2>1, Zenon DEF Capture
    <2>3. Newest' = Newest
      BY <2>2, Zenon DEF Newest
    <2>4. ASSUME NEW w \in (Newest' + 1)..(next_seq' - 1)
          PROVE  \E h \in Handle : Registered(h, w)'
      <3>1. CASE w = next_seq
        <4>1. pending'[req.h] = [seq |-> w, c |-> w]
          BY <2>1, <2>2, <3>1, Parts, Types, Zenon
        <4> QED BY <2>1, <4>1, Zenon DEF Registered
      <3>2. CASE w # next_seq
        <4>1. w \in (Newest + 1)..(next_seq - 1)
          BY <1>1, <2>2, <2>3, <2>4, <3>2, SMTT(20), Z3T(20)
        <4>2. PICK h \in Handle : pending[h] = [seq |-> w, c |-> w]
          BY <4>1, Zenon DEF WatchInv, Captured, Registered
        <4>3. [seq |-> w, c |-> w] \in Entry
          BY <1>1, <4>1, SMTT(20), Z3T(20) DEF Entry
        <4>4. h # req.h
          BY <2>1, <4>2, <4>3, NoneIsNoValue, Zenon
        <4>5. pending'[h] = pending[h]
          BY <2>2, <4>4, Parts, Types, Zenon
        <4>6. Registered(h, w)'
          BY <4>2, <4>5, Zenon DEF Registered
        <4> QED BY <4>6, Zenon
      <3> QED BY <3>1, <3>2, Zenon
    <2> QED BY <2>4, Zenon DEF Captured
  <1>4. CASE ~WatchCommit /\ ~Capture
    <2>1. UNCHANGED <<history, pending, next_seq>>
      BY <1>4, HistoryFrame, Zenon
    <2> QED BY <2>1, Zenon DEF WatchInv, Captured, Newest, Registered
  <1> QED BY <1>2, <1>3, <1>4, Zenon

(* Acknowledging replies of requests that are no reads touches no read. *)
LEMMA AckKeepsReads ==
    ASSUME IInv, FloorKept, NEW S, Acknowledge(S), \A h \in S : h \notin inflight,
           UNCHANGED <<reads, history>>
    PROVE  FloorKept'
  <1>1. Oldest' = Oldest /\ Newest' = Newest
    BY Zenon DEF Oldest, Newest
  <1>2. ASSUME NEW h \in Handle, reads[h] # None PROVE kernel'[h] = kernel[h]
    <2>1. h \notin S
      BY <1>2, Parts, Zenon DEF WatchOK
    <2> QED BY <2>1, Zenon DEF Acknowledge
  <1> QED BY <1>1, <1>2, Zenon DEF FloorKept

(* The history keeps what the reads in flight may return. *)
LEMMA FloorStep ==
    ASSUME IInv, WatchInv, Next
    PROVE  FloorKept'
  <1>1. /\ FloorKept /\ reads \in [Handle -> {None} \cup Nat]
        /\ Newest \in Nat /\ history \in Seq(Entry) /\ history # <<>>
    BY Parts, Types, Zenon DEF WatchInv
  <1>2. Oldest \in Nat /\ Oldest <= Newest
    <2>1. Len(history) \in Nat /\ Len(history) >= 1 /\ history[1] \in Entry
      BY <1>1, SMTT(20), Z3T(20)
    <2>2. Oldest \in Nat
      BY <2>1, Zenon DEF Oldest, Entry
    <2>3. Newest = Oldest + Len(history) - 1
      BY <2>1, SMTT(20), Z3T(20) DEF Newest, WatchInv, Gapless
    <2> QED BY <2>1, <2>2, <2>3, SMTT(20), Z3T(20)
  <1>3. ASSUME UNCHANGED <<history, reads>>, \A h \in Handle : reads[h] # None =>
                  kernel'[h] = kernel[h]
        PROVE  FloorKept'
    BY <1>1, <1>3, Zenon DEF FloorKept, Oldest, Newest
  <1>a. CASE RequestProxy
    <2>1. history' = history
      BY <1>a, ProxyFrame, Zenon
    <2>2. ASSUME NEW h \in Handle, RecvRead(h) PROVE FloorKept'
      <3>1. Issue(h, "read", Newest) /\ UNCHANGED gate
            /\ reads' = [reads EXCEPT ![h] = Newest]
        BY <2>2, Zenon DEF RecvRead, WatchRead, Newest
      <3>2. /\ kernel'[h].val = Newest
            /\ \A g \in Handle \ {h} : kernel'[g] = kernel[g]
        BY <1>1, <3>1, IssueKeeps, Zenon
      <3>3. reads'[h] = Newest /\ \A g \in Handle \ {h} : reads'[g] = reads[g]
        BY <1>1, <3>1, Zenon
      <3>4. Oldest' = Oldest /\ Newest' = Newest
        BY <2>1, Zenon DEF Oldest, Newest
      <3>5. ASSUME NEW g \in Handle, reads'[g] # None
            PROVE  reads'[g] = kernel'[g].val /\ Oldest <= reads'[g] /\ reads'[g] <= Newest
        <4>1. CASE g = h
          BY <1>1, <1>2, <3>2, <3>3, <4>1, SMTT(20), Z3T(20)
        <4>2. CASE g # h
          BY <1>1, <3>2, <3>3, <3>5, <4>2, Zenon DEF FloorKept
        <4> QED BY <4>1, <4>2, Zenon
      <3> QED BY <3>4, <3>5, Zenon DEF FloorKept
    <2>3. ASSUME NEW h \in Handle, RecvOther(h) \/ RecvPartial(h) PROVE FloorKept'
      <3>1. Issue(h, "other", 0) /\ UNCHANGED <<gate, reads>>
        BY <2>3, Zenon DEF RecvOther, RecvPartial, watchVars
      <3>2. reads[h] = None /\ \A g \in Handle \ {h} : kernel'[g] = kernel[g]
        BY <3>1, IssueKeeps, Zenon
      <3> QED BY <1>3, <2>1, <3>1, <3>2, Zenon
    <2>4. ASSUME NEW h \in Handle, RecvWrite(h) PROVE FloorKept'
      <3>1. /\ Issue(h, "write", written + 1) /\ gate' = [gate EXCEPT ![h] = "Pending"]
            /\ UNCHANGED reads
        BY <2>4, Zenon DEF RecvWrite, watchVars
      <3>2. written + 1 \in Nat
        BY Parts, Types, SMTT(20), Z3T(20)
      <3>3. reads[h] = None /\ \A g \in Handle \ {h} : kernel'[g] = kernel[g]
        BY <3>1, <3>2, IssueKeeps, Zenon
      <3> QED BY <1>3, <2>1, <3>1, <3>3, Zenon
    <2>5. CASE Capture \/ Forward \/ HostLost \/ QueuePin \/ Disconnect
      <3>1. UNCHANGED <<reads, kernel>>
        BY <2>5, Zenon
           DEF Capture, Forward, HostLost, QueuePin, Disconnect, kernelVars, watchVars
      <3> QED BY <1>3, <2>1, <3>1, Zenon
    <2> QED BY <1>a, <2>2, <2>3, <2>4, <2>5, Zenon DEF RequestProxy
  <1>b. CASE WatchCommit
    <2>1. UNCHANGED <<reads, kernel>>
      BY <1>b, Zenon DEF WatchCommit, kernelVars
    <2>2. Newest' = Newest + 1 /\ \A h \in Watched : Oldest' <= reads[h]
      BY <1>b, CommitExtends, Zenon
    <2>3. ASSUME NEW h \in Handle, reads[h] # None
          PROVE  reads[h] = kernel[h].val /\ Oldest' <= reads[h] /\ reads[h] <= Newest'
      <3>1. h \in Watched
        BY <2>3, Zenon DEF Watched
      <3>2. reads[h] \in Nat /\ reads[h] = kernel[h].val /\ reads[h] <= Newest
        BY <1>1, <2>3, Zenon DEF FloorKept
      <3> QED BY <1>1, <2>2, <3>1, <3>2, SMTT(20), Z3T(20)
    <2> QED BY <2>1, <2>3, Zenon DEF FloorKept
  <1>c. CASE PinActor /\ ~WatchCommit
    <2>1. UNCHANGED <<history, reads, kernel>>
      BY <1>c, ActorFrame, HistoryFrame, Zenon
    <2> QED BY <1>3, <2>1, Zenon
  <1>d. CASE ReplyPump
    <2>1. history' = history
      BY <1>d, PumpFrame, Zenon
    <2>2. ASSUME NEW h \in Handle, ReadReply(h) PROVE FloorKept'
      <3>1. reads' = [reads EXCEPT ![h] = None]
        BY <2>2, Zenon DEF ReadReply, Unwatch
      <3>2. \A g \in Handle \ {h} : kernel'[g] = kernel[g]
        BY <2>2, Parts, Types, Zenon DEF ReadReply
      <3>3. reads'[h] = None /\ \A g \in Handle \ {h} : reads'[g] = reads[g]
        BY <1>1, <3>1, Zenon
      <3>4. Oldest' = Oldest /\ Newest' = Newest
        BY <2>1, Zenon DEF Oldest, Newest
      <3> QED BY <1>1, <3>2, <3>3, <3>4, Zenon DEF FloorKept
    <2>3. ASSUME NEW h \in Handle, WriteReply(h) PROVE FloorKept'
      <3>1. UNCHANGED reads /\ (Acknowledge({h}) \/ UNCHANGED kernel) /\ h \notin inflight
        BY <2>3, Zenon DEF WriteReply, watchVars
      <3>2. \A g \in {h} : g \notin inflight
        BY <3>1, Zenon
      <3> QED BY <1>1, <1>3, <2>1, <3>1, <3>2, AckKeepsReads, Zenon
    <2>4. CASE RecvNudge
      <3>1. PICK out \in SUBSET {h \in stashed : gate[h] = "Ok"} : Acknowledge(out)
        BY <2>4, Zenon DEF RecvNudge
      <3>2. UNCHANGED reads
        BY <2>4, Zenon DEF RecvNudge, watchVars
      <3>3. \A g \in out : g \notin inflight
        BY <3>1, Parts, Types, ZenonT(30) DEF ReplyOK, Parked, WatchOK
      <3> QED BY <1>1, <2>1, <3>1, <3>2, <3>3, AckKeepsReads, Zenon
    <2>5. CASE Stash \/ HostEof
      <3>1. UNCHANGED <<reads, kernel>>
        BY <2>5, Zenon DEF Stash, HostEof, kernelVars, watchVars
      <3> QED BY <1>3, <2>1, <3>1, Zenon
    <2> QED BY <1>d, <2>2, <2>3, <2>4, <2>5, Zenon DEF ReplyPump
  <1>e. CASE StorageHost
    BY <1>3, <1>e, HostFrame, Zenon
  <1> QED BY <1>a, <1>b, <1>c, <1>d, <1>e, Zenon DEF Next

(* Content reaches the host after its commitment was captured. *)
LEMMA HostSeenStep ==
    ASSUME IInv, HostSeen, Next
    PROVE  HostSeen'
  <1>1. /\ next_seq \in Nat /\ next_seq >= 1 /\ disk \in Nat /\ disk < next_seq
        /\ host \in [Handle -> {None} \cup HostSlot]
        /\ \A h \in Handle : host[h] # None => host[h].val < next_seq
    BY Parts, Types, Zenon DEF HostSeen
  <1>2. ASSUME NEW g \in Handle, host[g] # None PROVE host[g].val \in Nat
    BY <1>1, <1>2, Zenon DEF HostSlot
  (* A step that changes at most the request of one handle *)
  <1>3. ASSUME NEW h \in Handle, NEW x, host' = [host EXCEPT ![h] = x],
               x = None \/ x.val < next_seq, UNCHANGED <<next_seq, disk>>
        PROVE  HostSeen'
    <2>1. host'[h] = x /\ \A g \in Handle \ {h} : host'[g] = host[g]
      BY <1>1, <1>3, Zenon
    <2> QED BY <1>1, <1>3, <2>1, Zenon DEF HostSeen
  <1>4. ASSUME UNCHANGED <<host, next_seq, disk>> PROVE HostSeen'
    BY <1>4, Zenon DEF HostSeen
  <1>a. ASSUME NEW h \in Handle, RecvRead(h) \/ RecvOther(h) PROVE HostSeen'
    <2>1. UNCHANGED <<next_seq, disk>> /\ (AtHost(h, "read", 0) \/ AtHost(h, "other", 0))
      BY <1>a, Zenon DEF RecvRead, RecvOther, watchVars
    <2>2. \A op : [op |-> op, st |-> "queued", val |-> 0].val < next_seq
      BY <1>1, SMTT(20), Z3T(20)
    <2> QED BY <1>3, <2>1, <2>2, Zenon DEF AtHost
  <1>b. ASSUME NEW h \in Handle, RecvWrite(h) \/ RecvPartial(h) PROVE HostSeen'
    BY <1>4, <1>b, Zenon DEF RecvWrite, RecvPartial, watchVars, hostVars
  <1>c. CASE HostLost \/ QueuePin \/ Disconnect
    BY <1>4, <1>c, Zenon DEF HostLost, QueuePin, Disconnect, watchVars, hostVars
  <1>d. CASE Capture
    <2>1. UNCHANGED <<host, disk>> /\ next_seq' = next_seq + 1
      BY <1>d, Zenon DEF Capture, hostVars
    <2>2. ASSUME NEW g \in Handle, host[g] # None PROVE host[g].val < next_seq + 1
      BY <1>1, <1>2, <2>2, SMTT(20), Z3T(20)
    <2> QED BY <1>1, <2>1, <2>2, SMTT(20), Z3T(20) DEF HostSeen
  <1>e. CASE Forward
    <2> DEFINE x == [op |-> "write", st |-> "queued", val |-> kernel[req.h].val]
    <2>1. /\ req.h \in Handle /\ kernel[req.h].val = written /\ next_seq = written + 1
          /\ written \in Nat
      BY <1>e, Parts, Types, Zenon DEF Forward, ReqOK, Working, Carries
    <2>2. host' = [host EXCEPT ![req.h] = x] /\ UNCHANGED <<next_seq, disk>>
      BY <1>e, Zenon DEF Forward, AtHost, watchVars
    <2>3. x.val < next_seq
      BY <2>1, SMTT(20), Z3T(20)
    <2> HIDE DEF x
    <2> QED BY <1>3, <2>1, <2>2, <2>3, Zenon
  <1>f. CASE PinActor
    BY <1>4, <1>f, ActorFrame, Zenon
  <1>g. CASE ReplyPump
    <2>1. UNCHANGED <<next_seq, disk>>
      BY <1>g, PumpFrame, Zenon
    <2>2. ASSUME NEW h \in Handle, ReadReply(h) \/ WriteReply(h) PROVE HostSeen'
      <3>1. host' = [host EXCEPT ![h] = None]
        BY <2>2, Zenon DEF ReadReply, WriteReply, Taken
      <3> QED BY <1>3, <2>1, <3>1, Zenon
    <2>3. CASE Stash \/ RecvNudge
      BY <1>4, <2>1, <2>3, Zenon DEF Stash, RecvNudge, hostVars
    <2>4. CASE HostEof
      <3>1. \A g \in Handle : host'[g] = None
        BY <2>4, Zenon DEF HostEof
      <3> QED BY <1>1, <2>1, <3>1, Zenon DEF HostSeen
    <2> QED BY <1>g, <2>2, <2>3, <2>4, Zenon DEF ReplyPump
  <1>h. ASSUME NEW h \in Handle, HostWrite(h) PROVE HostSeen'
    <2> DEFINE x == [op |-> "write", st |-> "done", val |-> 0]
    <2>1. /\ host[h] # None /\ disk' = host[h].val /\ host' = [host EXCEPT ![h] = x]
          /\ UNCHANGED next_seq
      BY <1>h, Zenon DEF HostWrite, watchVars
    <2>2. host'[h] = x /\ \A g \in Handle \ {h} : host'[g] = host[g]
      BY <1>1, <2>1, Zenon
    <2>3. x.val < next_seq
      BY <1>1, SMTT(20), Z3T(20)
    <2> HIDE DEF x
    <2> QED BY <1>1, <2>1, <2>2, <2>3, Zenon DEF HostSeen
  <1>i. ASSUME NEW h \in Handle, HostRead(h) PROVE HostSeen'
    <2> DEFINE V == IF host[h].op = "other" THEN {0}
                    ELSE IF StaleDisk THEN 0..disk ELSE {disk}
    <2>1. PICK v \in V : host' = [host EXCEPT ![h] = [op |-> host[h].op, st |-> "done",
                                                       val |-> v]]
      BY <1>i, Zenon DEF HostRead
    <2>2. UNCHANGED <<next_seq, disk>>
      BY <1>i, Zenon DEF HostRead, watchVars
    <2>3. v < next_seq
      BY <1>1, <2>1, SMTT(20), Z3T(20)
    <2>4. [op |-> host[h].op, st |-> "done", val |-> v].val < next_seq
      BY <2>3, Zenon
    <2> QED BY <1>3, <2>1, <2>2, <2>4, Zenon
  <1>j. ASSUME NEW h \in Handle, HostFails(h) PROVE HostSeen'
    <2> DEFINE x == [op |-> host[h].op, st |-> "error", val |-> 0]
    <2>1. host' = [host EXCEPT ![h] = x] /\ UNCHANGED <<next_seq, disk>>
      BY <1>j, Zenon DEF HostFails, watchVars
    <2>2. x.val < next_seq
      BY <1>1, SMTT(20), Z3T(20)
    <2> HIDE DEF x
    <2> QED BY <1>3, <2>1, <2>2, Zenon
  <1> QED BY <1>a, <1>b, <1>c, <1>d, <1>e, <1>f, <1>g, <1>h, <1>i, <1>j, Zenon
          DEF Next, RequestProxy, StorageHost

(* The invariant of the watch is kept by every step. *)
LEMMA WatchNext == IInv /\ WatchInv /\ [Next]_vars => WatchInv'
  <1> SUFFICES ASSUME IInv, WatchInv, [Next]_vars PROVE WatchInv'
    BY Zenon
  <1>1. CASE Next
    <2>1. Newest' = IF WatchCommit THEN Newest + 1 ELSE Newest
      <3>1. CASE WatchCommit
        BY <3>1, CommitExtends, Zenon
      <3>2. CASE ~WatchCommit
        BY <1>1, <3>2, HistoryFrame, Zenon DEF Newest
      <3> QED BY <3>1, <3>2, Zenon
    <2>2. CaughtUp'
      BY <1>1, <2>1, CaughtUpStep, Zenon DEF WatchInv
    <2>3. Gapless'
      <3>1. CASE WatchCommit
        BY <3>1, CommitExtends, Zenon
      <3>2. CASE ~WatchCommit
        BY <1>1, <3>2, HistoryFrame, Zenon DEF WatchInv, Gapless, Oldest
      <3> QED BY <3>1, <3>2, Zenon
    <2>4. Captured' /\ FloorKept' /\ HostSeen'
      BY <1>1, CapturedStep, FloorStep, HostSeenStep, Zenon DEF WatchInv
    <2> QED BY <2>2, <2>3, <2>4, Zenon DEF WatchInv
  <1>2. CASE UNCHANGED vars
    BY <1>2, Zenon DEF WatchInv, CaughtUp, Gapless, Captured, FloorKept, HostSeen, Newest,
                       Oldest, Registered, vars, kernelVars, watchVars, hostVars
  <1> QED BY <1>1, <1>2, Zenon

(* The watch knows every content from a read's floor on: whatever the host *)
(* has at or above it verifies.                                            *)
LEMMA WatchKnows ==
    ASSUME IInv, WatchInv, NEW h \in Handle, h \in inflight, NEW v \in Nat,
           reads[h] <= v, v < next_seq
    PROVE  FreshFor(h, v)
  <1>1. /\ reads[h] \in Nat /\ Oldest <= reads[h] /\ Newest \in Nat /\ next_seq \in Nat
        /\ history \in Seq(Entry) /\ history # <<>>
        /\ pending \in [Handle -> {None} \cup Entry]
    BY Parts, Types, Zenon DEF WatchOK, WatchInv, FloorKept
  <1>2. CASE v <= Newest
    <2> DEFINE i == v - Oldest + 1
    <2>1. Len(history) \in Nat /\ Len(history) >= 1 /\ history[1] \in Entry
      BY <1>1, SMTT(20), Z3T(20)
    <2>2. Oldest \in Nat
      BY <2>1, Zenon DEF Oldest, Entry
    <2>3. Newest = Oldest + Len(history) - 1
      BY <2>1, SMTT(20), Z3T(20) DEF Newest, WatchInv, Gapless
    <2>4. i \in 1..Len(history)
      BY <1>1, <1>2, <2>1, <2>2, <2>3, SMTT(20), Z3T(20)
    <2>5. history[i].seq = Oldest + i - 1
      BY <2>4, Zenon DEF WatchInv, Gapless
    <2>6. history[i].seq = v
      BY <2>2, <2>5, SMTT(20), Z3T(20)
    <2>7. history[i].c = history[i].seq
      BY <2>4, Parts, Zenon DEF HistoryOK
    <2>8. history[i] \in Known
      BY <2>4, Zenon DEF Known
    <2> QED BY <1>1, <2>6, <2>7, <2>8, Zenon DEF FreshFor
  <1>3. CASE v > Newest
    <2>1. v \in (Newest + 1)..(next_seq - 1)
      BY <1>1, <1>3, SMTT(20), Z3T(20)
    <2>2. PICK g \in Handle : pending[g] = [seq |-> v, c |-> v]
      BY <2>1, Zenon DEF WatchInv, Captured, Registered
    <2>3. [seq |-> v, c |-> v] \in Entry
      BY Zenon DEF Entry
    <2>4. pending[g] # None /\ pending[g].seq = v /\ pending[g].c = v
      BY <2>2, <2>3, NoneIsNoValue, SMTT(20), Z3T(20)
    <2>5. pending[g] \in Known
      BY <2>4, Zenon DEF Known
    <2> QED BY <1>1, <2>4, <2>5, Zenon DEF FreshFor
  <1> QED BY <1>1, <1>2, <1>3, SMTT(20), Z3T(20)

(* A read is refused only for content older than a pin that was durable    *)
(* when it was issued: no race of a capture, a pin, a commit or a pruning  *)
(* with the read refuses content the host rightly serves (RefusedIsOlder). *)
THEOREM RefusalIsEarned == Spec => RefusedIsOlder
  <1>1. Init => WatchInv
    <2> SUFFICES ASSUME Init PROVE WatchInv
      BY Zenon
    <2>1. Newest = 0 /\ Oldest = 0 /\ Len(history) = 1 /\ Len(pinned) = 1 /\ next_seq = 1
      BY Zenon DEF Init, Newest, Oldest
    <2>2. \A h \in Handle : reads[h] = None /\ host[h] = None
      BY Zenon DEF Init
    <2>3. actor.pc = "idle" /\ disk = 0
      BY Zenon DEF Init
    <2>4. history[1].seq = 0
      BY <2>1, Zenon DEF Oldest
    <2>5. CaughtUp /\ Gapless /\ Captured
      BY <2>1, <2>3, <2>4, SMTT(20), Z3T(20) DEF CaughtUp, Gapless, Captured
    <2>6. FloorKept /\ HostSeen
      BY <2>1, <2>2, <2>3, SMTT(20), Z3T(20) DEF FloorKept, HostSeen
    <2> QED BY <2>5, <2>6, Zenon DEF WatchInv
  <1>2. IInv /\ WatchInv /\ [Next]_vars =>
          [pump.pc # "refused" /\ pump'.pc = "refused"
               => host[pump'.h].val < kernel[pump'.h].val]_vars
    <2> SUFFICES ASSUME IInv, WatchInv, Next, pump.pc # "refused", pump'.pc = "refused"
                 PROVE  host[pump'.h].val < kernel[pump'.h].val
      BY Zenon DEF vars
    <2>1. pump' # pump /\ ~RequestProxy /\ ~PinActor /\ ~StorageHost
      BY ProxyFrame, ActorFrame, HostFrame, Zenon
    <2>2. PICK h \in Handle : ReadReply(h)
      <3>1. ~Stash /\ ~HostEof
        BY SMTT(20), Z3T(20) DEF Stash, HostEof
      <3>2. ~RecvNudge
        BY Parts, Types, Zenon DEF RecvNudge
      <3>3. \A h \in Handle : ~WriteReply(h)
        BY SMTT(20), Z3T(20) DEF WriteReply
      <3> QED BY <2>1, <3>1, <3>2, <3>3, Zenon DEF Next, ReplyPump
    <2>3. /\ h \in inflight /\ host[h] # None /\ ~FreshFor(h, host[h].val)
          /\ pump' = [pc |-> "refused", h |-> h]
      BY <2>1, <2>2, Zenon DEF ReadReply, Arrived
    <2>4. host[h].val \in Nat /\ host[h].val < next_seq
      <3>1. host[h] \in HostSlot
        BY <2>3, Parts, Types, Zenon
      <3> QED BY <2>3, <3>1, Zenon DEF HostSlot, WatchInv, HostSeen
    <2>5. reads[h] \in Nat /\ reads[h] = kernel[h].val
      BY <2>3, Parts, Types, Zenon DEF WatchOK, WatchInv, FloorKept
    <2>6. ~(reads[h] <= host[h].val)
      BY <2>3, <2>4, WatchKnows, Zenon
    <2>7. pump'.h = h
      BY <2>3, Zenon
    <2> QED BY <2>4, <2>5, <2>6, <2>7, SMTT(20), Z3T(20)
  <1> QED BY <1>1, <1>2, WatchNext, Invariant, PTL DEF Spec, RefusedIsOlder

-----------------------------------------------------------------------------
(* The quiet disk: what it holds between two region writes. *)

(* The host works on the kernel's requests, with their content. *)
HostFits ==
    \A h \in Handle : host[h] # None =>
        /\ host[h].op = kernel[h].op
        /\ host[h].op = "write" /\ host[h].st = "queued" => host[h].val = kernel[h].val

(* No write in flight, and no pin, is ahead of the writes issued. *)
WritesBounded ==
    /\ Len(pinned) - 1 <= written
    /\ \A h \in Handle : kernel[h].op = "write" => kernel[h].val <= written

(* The host reported the write done. *)
Landed(h) == Parked(h) \/ (host[h] # None /\ host[h].st = "done")

(* With one region write in flight at a time, the disk holds it once it is *)
(* reported done, and holds the newest pin while there is none.            *)
OneWrite ==
    ~overlapped =>
        /\ \A g, h \in Handle : kernel[g].op = "write" /\ kernel[h].op = "write" => g = h
        /\ \A h \in Handle : kernel[h].op = "write" =>
              kernel[h].val = written /\ (Landed(h) => disk = written)
        /\ (\A h \in Handle : kernel[h].op # "write") => disk = Len(pinned) - 1

DiskInv == HostFits /\ WritesBounded /\ OneWrite

(* The writes in flight are the same after a step. *)
SameWrites ==
    \A h \in Handle : /\ kernel'[h].op = "write" <=> kernel[h].op = "write"
                      /\ kernel[h].op = "write" => kernel'[h].val = kernel[h].val

(* A step that neither starts, lands, pins nor acknowledges a write. *)
LEMMA DiskFrame ==
    ASSUME WritesBounded, OneWrite, SameWrites, UNCHANGED <<written, overlapped, pinned, disk>>,
           \A h \in Handle : kernel[h].op = "write" /\ Landed(h)' => Landed(h)
    PROVE  WritesBounded' /\ OneWrite'
  <1>1. WritesBounded'
    BY Zenon DEF WritesBounded, SameWrites
  <1>2. ASSUME ~overlapped'
        PROVE  /\ \A g, h \in Handle : kernel'[g].op = "write" /\ kernel'[h].op = "write" => g = h
               /\ \A h \in Handle : kernel'[h].op = "write" =>
                     kernel'[h].val = written' /\ (Landed(h)' => disk' = written')
               /\ (\A h \in Handle : kernel'[h].op # "write") => disk' = Len(pinned') - 1
    BY <1>2, Zenon DEF OneWrite, SameWrites
  <1> QED BY <1>1, <1>2, Zenon DEF OneWrite

(* Acknowledging writes whose pins are durable and that have landed. *)
LEMMA AckKeepsDisk ==
    ASSUME IInv, DiskInv, NEW S \in SUBSET Handle, Acknowledge(S),
           \A h \in S : kernel[h].op = "write" => gate[h] = "Ok" /\ Landed(h),
           UNCHANGED <<written, overlapped, pinned, disk>>,
           \A h \in Handle \ S : kernel[h].op = "write" /\ Landed(h)' => Landed(h)
    PROVE  WritesBounded' /\ OneWrite'
  <1>1. /\ \A h \in Handle \ S : kernel'[h] = kernel[h]
        /\ \A h \in S : kernel'[h].op = "idle"
    BY Zenon DEF Acknowledge, Idle
  <1>2. CASE \A h \in S : kernel[h].op # "write"
    <2>1. SameWrites
      BY <1>1, <1>2, Zenon DEF SameWrites
    <2>2. \A h \in Handle : kernel[h].op = "write" /\ Landed(h)' => Landed(h)
      BY <1>2, Zenon
    <2> QED BY <2>1, <2>2, DiskFrame, Zenon DEF DiskInv
  <1>3. CASE \E h \in S : kernel[h].op = "write"
    <2>1. PICK h \in S : kernel[h].op = "write"
      BY <1>3, Zenon
    <2>2. h \in Handle /\ gate[h] = "Ok" /\ Landed(h)
      BY <2>1, Zenon
    <2>3. \A g \in Handle : kernel'[g].op = "write" =>
              kernel'[g] = kernel[g] /\ kernel[g].op = "write" /\ g \notin S
      BY <1>1, Zenon
    <2>4. WritesBounded'
      BY <2>3, Zenon DEF DiskInv, WritesBounded
    <2>5. ASSUME ~overlapped
          PROVE  (\A g \in Handle : kernel'[g].op # "write") /\ disk = Len(pinned) - 1
      <3>1. /\ \A g \in Handle : kernel[g].op = "write" => g = h
            /\ kernel[h].val = written /\ disk = written
        BY <2>1, <2>2, <2>5, Zenon DEF DiskInv, OneWrite
      <3>2. kernel[h].val <= Newest /\ Newest <= Len(pinned) - 1 /\ Len(pinned) - 1 <= written
        BY <2>2, Parts, Zenon DEF GateOK, HistoryOK, DiskInv, WritesBounded
      <3>3. Newest \in Nat /\ Len(pinned) \in Nat /\ written \in Nat
        BY Parts, Types, Zenon
      <3>4. disk = Len(pinned) - 1
        BY <3>1, <3>2, <3>3, SMTT(20), Z3T(20)
      <3> QED BY <2>1, <2>3, <3>1, <3>4, Zenon
    <2>6. OneWrite'
      BY <2>5, Zenon DEF OneWrite
    <2> QED BY <2>4, <2>6, Zenon
  <1> QED BY <1>2, <1>3, Zenon

(* The steps of request_proxy: a new write has not landed. *)
LEMMA ProxyKeepsDisk ==
    ASSUME IInv, DiskInv, RequestProxy
    PROVE  DiskInv'
  <1>1. UNCHANGED <<pinned, disk, stashed, pump>> /\ \A h \in Handle : Parked(h)' <=> Parked(h)
    BY ProxyFrame, Zenon DEF Parked
  <1>2. /\ kernel \in [Handle -> KernelSlot] /\ host \in [Handle -> {None} \cup HostSlot]
        /\ written \in Nat
    BY Parts, Types, Zenon
  <1>3. /\ HostFits /\ WritesBounded /\ OneWrite
        /\ \A h \in Handle : Parked(h) => host[h] = None
    BY Parts, Zenon DEF DiskInv, ReplyOK
  (* A request that is no write *)
  <1>4. ASSUME NEW h \in Handle, NEW op, op \notin {"write"}, Issue(h, op, kernel'[h].val),
               kernel'[h].val \in Nat, UNCHANGED <<gate, written, overlapped>>,
               \/ host' = host
               \/ host' = [host EXCEPT ![h] = [op |-> op, st |-> "queued", val |-> 0]]
        PROVE  DiskInv'
    <2>1. /\ host[h] = None /\ kernel'[h].op = op /\ kernel[h].op # "write"
          /\ \A g \in Handle \ {h} : kernel'[g] = kernel[g]
      <3>1. kernel[h].op # "write"
        BY <1>4, Zenon DEF Issue, Free
      <3> QED BY <1>4, <3>1, IssueKeeps, Zenon
    <2>2. /\ \A g \in Handle \ {h} : host'[g] = host[g]
          /\ host'[h] # None => host'[h].op = op
      BY <1>2, <1>4, <2>1, SMTT(20), Z3T(20)
    <2>3. SameWrites
      BY <1>4, <2>1, Zenon DEF SameWrites
    <2>4. \A g \in Handle : kernel[g].op = "write" /\ Landed(g)' => Landed(g)
      BY <1>1, <2>1, <2>2, Zenon DEF Landed
    <2>5. WritesBounded' /\ OneWrite'
      BY <1>1, <1>3, <1>4, <2>3, <2>4, DiskFrame, Zenon
    <2>6. HostFits'
      BY <1>3, <1>4, <2>1, <2>2, SMTT(20), Z3T(20) DEF HostFits
    <2> QED BY <2>5, <2>6, Zenon DEF DiskInv
  <1>a. ASSUME NEW h \in Handle, RecvRead(h) PROVE DiskInv'
    <2>1. /\ Issue(h, "read", Newest) /\ UNCHANGED <<gate, written, overlapped>>
          /\ host' = [host EXCEPT ![h] = [op |-> "read", st |-> "queued", val |-> 0]]
      BY <1>a, Zenon DEF RecvRead, AtHost, Newest
    <2>2. kernel'[h].val = Newest /\ Newest \in Nat
      BY <2>1, Parts, IssueKeeps, SMTT(20), Z3T(20)
    <2>3. Issue(h, "read", kernel'[h].val) /\ kernel'[h].val \in Nat /\ "read" \notin {"write"}
      <3>1. Issue(h, "read", kernel'[h].val)
        BY <2>1, <2>2, Zenon
      <3> QED BY <2>2, <3>1, Zenon
    <2> QED BY <1>4, <2>1, <2>3, Zenon
  <1>b. ASSUME NEW h \in Handle, RecvOther(h) \/ RecvPartial(h) PROVE DiskInv'
    <2>1. /\ Issue(h, "other", 0) /\ UNCHANGED <<gate, written, overlapped>>
          /\ \/ host' = host
             \/ host' = [host EXCEPT ![h] = [op |-> "other", st |-> "queued", val |-> 0]]
      BY <1>b, Zenon DEF RecvOther, RecvPartial, AtHost, hostVars
    <2>2. kernel'[h].val = 0 /\ 0 \in Nat
      BY <2>1, IssueKeeps, SMTT(20), Z3T(20)
    <2>3. Issue(h, "other", kernel'[h].val) /\ kernel'[h].val \in Nat /\ "other" \notin {"write"}
      <3>1. Issue(h, "other", kernel'[h].val)
        BY <2>1, <2>2, Zenon
      <3> QED BY <2>2, <3>1, Zenon
    <2> QED BY <1>4, <2>1, <2>3, Zenon
  <1>c. ASSUME NEW h \in Handle, RecvWrite(h) PROVE DiskInv'
    <2>1. /\ Issue(h, "write", written + 1) /\ gate' = [gate EXCEPT ![h] = "Pending"]
          /\ written' = written + 1 /\ host' = host
          /\ overlapped' = (overlapped \/ Busy("write") # {})
      BY <1>c, Zenon DEF RecvWrite, hostVars
    <2>2. /\ host[h] = None /\ ~Parked(h)
          /\ kernel'[h].op = "write" /\ kernel'[h].val = written + 1
          /\ \A g \in Handle \ {h} : kernel'[g] = kernel[g]
      <3>1. written + 1 \in Nat
        BY <1>2, SMTT(20), Z3T(20)
      <3> QED BY <2>1, <3>1, IssueKeeps, Zenon
    <2>3. HostFits'
      BY <1>3, <2>1, <2>2, Zenon DEF HostFits
    <2>4. WritesBounded'
      <3>1. ASSUME NEW g \in Handle, kernel'[g].op = "write" PROVE kernel'[g].val <= written + 1
        <4>1. CASE g = h
          BY <1>2, <2>2, <4>1, SMTT(20), Z3T(20)
        <4>2. CASE g # h
          <5>1. kernel[g].val \in Nat
            BY <1>2, Zenon DEF KernelSlot
          <5>2. kernel'[g] = kernel[g]
            BY <2>2, <4>2, Zenon
          <5>3. kernel[g].val <= written
            BY <1>3, <3>1, <5>2, Zenon DEF WritesBounded
          <5> QED BY <1>2, <5>1, <5>2, <5>3, SMTT(20), Z3T(20)
        <4> QED BY <4>1, <4>2, Zenon
      <3>2. Len(pinned') - 1 <= written + 1
        BY <1>1, <1>2, <1>3, Parts, SMTT(20), Z3T(20) DEF WritesBounded
      <3> QED BY <2>1, <3>1, <3>2, Zenon DEF WritesBounded
    <2>5. ASSUME ~overlapped' PROVE \A g \in Handle : kernel'[g].op = "write" => g = h
      <3>1. Busy("write") = {}
        BY <2>1, <2>5, Zenon
      <3> QED BY <2>2, <3>1, Zenon DEF Busy
    <2>6. ~Landed(h)'
      BY <1>1, <2>1, <2>2, Zenon DEF Landed
    <2>7. OneWrite'
      BY <2>1, <2>2, <2>5, <2>6, Zenon DEF OneWrite
    <2> QED BY <2>3, <2>4, <2>7, Zenon DEF DiskInv
  <1>d. CASE Capture \/ HostLost \/ QueuePin \/ Disconnect
    <2>1. UNCHANGED <<kernel, written, overlapped, host>>
      BY <1>d, Zenon DEF Capture, HostLost, QueuePin, Disconnect, kernelVars, hostVars
    <2>2. SameWrites /\ \A h \in Handle : Landed(h)' => Landed(h)
      BY <1>1, <2>1, Zenon DEF SameWrites, Landed
    <2>3. HostFits'
      BY <1>3, <2>1, Zenon DEF HostFits
    <2> QED BY <1>1, <1>3, <2>1, <2>2, <2>3, DiskFrame, Zenon DEF DiskInv
  <1>e. CASE Forward
    <2> DEFINE x == [op |-> "write", st |-> "queued", val |-> kernel[req.h].val]
    <2>1. req.h \in Handle /\ kernel[req.h].op = "write"
      BY <1>e, Parts, Types, Zenon DEF Forward, ReqOK, Working, Carries
    <2>2. host' = [host EXCEPT ![req.h] = x] /\ UNCHANGED <<kernel, written, overlapped>>
      BY <1>e, Zenon DEF Forward, AtHost, kernelVars
    <2>3. host'[req.h] = x /\ \A g \in Handle \ {req.h} : host'[g] = host[g]
      BY <1>2, <2>1, <2>2, Zenon
    <2>4. x.op = "write" /\ x.st = "queued" /\ x.val = kernel[req.h].val
      BY Zenon
    <2> HIDE DEF x
    <2>5. HostFits'
      BY <1>3, <2>1, <2>2, <2>3, <2>4, SMTT(20), Z3T(20) DEF HostFits
    <2>6. SameWrites
      BY <2>2, Zenon DEF SameWrites
    <2>7. \A g \in Handle : Landed(g)' => Landed(g)
      BY <1>1, <2>3, <2>4, Zenon DEF Landed
    <2> QED BY <1>1, <1>3, <2>2, <2>5, <2>6, <2>7, DiskFrame, Zenon DEF DiskInv
  <1> QED BY <1>a, <1>b, <1>c, <1>d, <1>e, Zenon DEF RequestProxy

(* The steps of pin_actor: a pin moves only while its write is in flight. *)
LEMMA ActorKeepsDisk ==
    ASSUME IInv, DiskInv, PinActor
    PROVE  DiskInv'
  <1>1. UNCHANGED <<kernel, written, overlapped, pump, stashed, host, disk>>
    BY ActorFrame, Zenon
  <1>2. SameWrites /\ HostFits' /\ \A h \in Handle : Landed(h)' => Landed(h)
    BY <1>1, Zenon DEF DiskInv, SameWrites, HostFits, Landed, Parked
  <1>3. CASE pinned' = pinned
    BY <1>1, <1>2, <1>3, DiskFrame, Zenon DEF DiskInv
  <1>4. CASE actor.pc = "pinning" /\ pinned' = Append(pinned, actor.job.c)
    <2>1. /\ actor.job.h \in Handle /\ kernel[actor.job.h].op = "write"
          /\ kernel[actor.job.h].val = actor.job.c /\ actor.job.c = Len(pinned)
      BY <1>4, Parts, Types, Zenon DEF ActorOK, Carries
    <2>2. Len(pinned') = Len(pinned) + 1 /\ Len(pinned) \in Nat /\ written \in Nat
      BY <1>4, Parts, Types, SMTT(20), Z3T(20)
    <2>3. Len(pinned) <= written
      BY <2>1, Zenon DEF DiskInv, WritesBounded
    <2>4. WritesBounded'
      BY <1>1, <2>2, <2>3, SMTT(20), Z3T(20) DEF DiskInv, WritesBounded
    <2>5. OneWrite'
      BY <1>1, <1>2, <2>1, Zenon DEF DiskInv, OneWrite
    <2> QED BY <1>2, <2>4, <2>5, Zenon DEF DiskInv
  <1>5. pinned' = pinned \/ (actor.pc = "pinning" /\ pinned' = Append(pinned, actor.job.c))
    BY Zenon DEF PinActor, RecvJob, ActorEnds, PinOk, PinFails, WatchCommit, FinishOk, Nudge
  <1> QED BY <1>3, <1>4, <1>5, Zenon

(* The reply to a read, or to a write outside the region, leaves the       *)
(* writes alone; a write's reply is acknowledged, held or fatal.           *)
LEMMA ReplyKeepsDisk ==
    ASSUME IInv, DiskInv, NEW h \in Handle, ReadReply(h) \/ WriteReply(h)
    PROVE  DiskInv'
  <1>1. UNCHANGED <<written, overlapped, disk, pinned, stashed>>
    <2>1. ReplyPump
      BY Zenon DEF ReplyPump
    <2>2. stashed' = stashed
      BY Zenon DEF ReadReply, WriteReply
    <2> QED BY <2>1, <2>2, PumpFrame, Zenon
  <1>2. /\ Arrived(h) /\ Taken(h) /\ host \in [Handle -> {None} \cup HostSlot]
        /\ kernel \in [Handle -> KernelSlot]
    BY Parts, Types, Zenon DEF ReadReply, WriteReply
  <1>3. /\ host'[h] = None /\ (\A g \in Handle \ {h} : host'[g] = host[g])
        /\ pump.pc = "ready" /\ host[h] # None /\ ~Parked(h)
    <2>1. host'[h] = None /\ (\A g \in Handle \ {h} : host'[g] = host[g])
      BY <1>2, Zenon DEF Taken
    <2> QED BY <1>2, <2>1, Parts, Zenon DEF Arrived, ReplyOK
  <1>4. /\ \A g \in Handle : Parked(g) => g \in stashed
        /\ \A g \in Handle : g \in stashed => Parked(g)
    BY <1>3, Zenon DEF Parked
  <1>5. ASSUME \A g \in Handle \ {h} : kernel'[g] = kernel[g] PROVE HostFits'
    BY <1>3, <1>5, Zenon DEF DiskInv, HostFits
  <1>6. ASSUME pump' = pump \/ pump'.pc # "hold" PROVE \A g \in Handle : Landed(g)' => Landed(g)
    <2>1. \A g \in Handle : Parked(g)' => g \in stashed
      BY <1>1, <1>3, <1>6, Zenon DEF Parked
    <2> QED BY <1>3, <1>4, <2>1, Zenon DEF Landed
  <1>a. CASE ReadReply(h)
    <2>1. kernel[h].op = "read"
      BY <1>a, Parts, Zenon DEF ReadReply, WatchOK, Arrived
    <2>2. /\ \A g \in Handle \ {h} : kernel'[g] = kernel[g]
          /\ kernel'[h].op # "write"
      BY <1>2, <1>a, <2>1, SMTT(20), Z3T(20) DEF ReadReply, Idle
    <2>3. pump' = pump \/ pump'.pc # "hold"
      BY <1>a, SMTT(20), Z3T(20) DEF ReadReply
    <2>4. SameWrites
      BY <2>1, <2>2, Zenon DEF SameWrites
    <2> QED BY <1>1, <1>5, <1>6, <2>2, <2>3, <2>4, DiskFrame, Zenon DEF DiskInv
  <1>b. CASE WriteReply(h) /\ Acknowledge({h}) /\ pump' = pump
             /\ (gate[h] = None \/ (gate[h] = "Ok" /\ HostOk(h)))
    <2>1. \A g \in Handle \ {h} : kernel'[g] = kernel[g]
      BY <1>b, Zenon DEF Acknowledge
    <2>2. kernel[h].op = "write" => gate[h] = "Ok" /\ Landed(h)
      <3>1. gate[h] = None => kernel[h].op # "write"
        BY Parts, Zenon DEF GateOK
      <3> QED BY <1>3, <1>b, <3>1, Zenon DEF Landed, HostOk
    <2>3. {h} \in SUBSET Handle /\ \A g \in {h} : kernel[g].op = "write" => gate[g] = "Ok" /\ Landed(g)
      BY <2>2, Zenon
    <2>4. WritesBounded' /\ OneWrite'
      BY <1>1, <1>6, <1>b, <2>3, AckKeepsDisk, Zenon
    <2> QED BY <1>5, <2>1, <2>4, Zenon DEF DiskInv
  <1>c. CASE WriteReply(h) /\ HostOk(h) /\ pump' = [pc |-> "hold", h |-> h] /\ kernel' = kernel
    <2>1. SameWrites
      BY <1>c, Zenon DEF SameWrites
    <2>2. Landed(h)
      BY <1>3, <1>c, Zenon DEF Landed, HostOk
    <2>3. \A g \in Handle \ {h} : Parked(g)' => g \in stashed
      BY <1>1, <1>c, Zenon DEF Parked
    <2>4. \A g \in Handle : Landed(g)' => Landed(g)
      BY <1>3, <1>4, <2>2, <2>3, Zenon DEF Landed
    <2> QED BY <1>1, <1>5, <1>c, <2>1, <2>4, DiskFrame, Zenon DEF DiskInv
  <1>d. CASE WriteReply(h) /\ pump' = [pc |-> "failed", h |-> None] /\ kernel' = kernel
    <2>1. SameWrites
      BY <1>d, Zenon DEF SameWrites
    <2>2. pump'.pc # "hold"
      BY <1>d, Zenon
    <2> QED BY <1>1, <1>5, <1>6, <1>d, <2>1, <2>2, DiskFrame, Zenon DEF DiskInv
  <1>7. WriteReply(h) =>
          \/ Acknowledge({h}) /\ pump' = pump /\ (gate[h] = None \/ (gate[h] = "Ok" /\ HostOk(h)))
          \/ HostOk(h) /\ pump' = [pc |-> "hold", h |-> h] /\ kernel' = kernel
          \/ pump' = [pc |-> "failed", h |-> None] /\ kernel' = kernel
    BY Zenon DEF WriteReply
  <1> QED BY <1>7, <1>a, <1>b, <1>c, <1>d, Zenon

(* The steps of gated_reply_proxy *)
LEMMA PumpKeepsDisk ==
    ASSUME IInv, DiskInv, ReplyPump
    PROVE  DiskInv'
  <1>1. UNCHANGED <<written, overlapped, disk, pinned>>
    BY PumpFrame, Zenon
  <1>a. CASE Stash
    <2>1. UNCHANGED <<kernel, host>> /\ pump.pc = "hold" /\ pump' = [pc |-> "ready", h |-> None]
          /\ stashed' = stashed \cup {pump.h}
      BY <1>a, Zenon DEF Stash, kernelVars, hostVars
    <2>2. \A g \in Handle : Parked(g)' => Parked(g)
      BY <2>1, Zenon DEF Parked
    <2>3. SameWrites /\ HostFits' /\ \A g \in Handle : Landed(g)' => Landed(g)
      BY <2>1, <2>2, Zenon DEF SameWrites, DiskInv, HostFits, Landed
    <2> QED BY <1>1, <2>3, DiskFrame, Zenon DEF DiskInv
  <1>b. CASE RecvNudge
    <2>1. PICK out \in SUBSET {h \in stashed : gate[h] = "Ok"} :
              stashed' = stashed \ out /\ Acknowledge(out)
      BY <1>b, Zenon DEF RecvNudge
    <2>2. pump.pc = "ready" /\ pump'.pc # "hold" /\ host' = host
      <3>1. pump \in [pc : {"ready", "hold", "refused", "stopped", "failed"}, h : Handle \cup {None}]
        BY Parts, Types, Zenon
      <3> QED BY <1>b, <3>1, Zenon DEF RecvNudge, hostVars
    <2>3. out \in SUBSET Handle
      BY <2>1, Parts, Types, Zenon
    <2>4. \A g \in out : Parked(g) /\ gate[g] = "Ok"
      BY <2>1, Zenon DEF Parked
    <2>5. \A g \in out : kernel[g].op = "write" => gate[g] = "Ok" /\ Landed(g)
      BY <2>4, Zenon DEF Landed
    <2>6. \A g \in Handle : Parked(g)' => Parked(g)
      BY <2>1, <2>2, Zenon DEF Parked
    <2>7. \A g \in Handle \ out : kernel[g].op = "write" /\ Landed(g)' => Landed(g)
      BY <2>2, <2>6, Zenon DEF Landed
    <2>8. WritesBounded' /\ OneWrite'
      BY <1>1, <2>1, <2>3, <2>5, <2>7, AckKeepsDisk, Zenon
    <2>9. \A g \in Handle : host'[g] # None => kernel'[g] = kernel[g]
      <3>1. \A g \in out : host[g] = None
        BY <2>3, <2>4, Parts, Zenon DEF ReplyOK
      <3>2. \A g \in Handle \ out : kernel'[g] = kernel[g]
        BY <2>1, Zenon DEF Acknowledge
      <3> QED BY <2>2, <3>1, <3>2, Zenon
    <2>10. HostFits'
      BY <2>2, <2>9, Zenon DEF DiskInv, HostFits
    <2> QED BY <2>8, <2>10, Zenon DEF DiskInv
  <1>c. CASE HostEof
    <2>1. kernel' = kernel /\ stashed' = stashed /\ pump'.pc # "hold"
          /\ \A g \in Handle : host'[g] = None
      BY <1>c, Zenon DEF HostEof, kernelVars
    <2>2. \A g \in Handle : Parked(g)' => Parked(g)
      BY <2>1, Zenon DEF Parked
    <2>3. SameWrites /\ HostFits' /\ \A g \in Handle : Landed(g)' => Landed(g)
      BY <2>1, <2>2, Zenon DEF SameWrites, HostFits, Landed
    <2> QED BY <1>1, <2>3, DiskFrame, Zenon DEF DiskInv
  <1> QED BY <1>a, <1>b, <1>c, ReplyKeepsDisk, Zenon DEF ReplyPump

(* The steps of the host: a write that lands is the one in flight. *)
LEMMA HostKeepsDisk ==
    ASSUME IInv, DiskInv, StorageHost
    PROVE  DiskInv'
  <1>1. UNCHANGED <<kernel, written, overlapped, pump, stashed, pinned>> /\ \A g \in Handle : Parked(g)' <=> Parked(g)
    BY HostFrame, Zenon DEF Parked
  <1>2. SameWrites /\ host \in [Handle -> {None} \cup HostSlot]
    BY <1>1, Parts, Types, Zenon DEF SameWrites
  <1>a. ASSUME NEW h \in Handle, HostWrite(h) PROVE DiskInv'
    <2>1. /\ host[h] # None /\ host[h].op = "write" /\ host[h].st = "queued" /\ disk' = host[h].val
          /\ host' = [host EXCEPT ![h] = [op |-> "write", st |-> "done", val |-> 0]]
      BY <1>a, Zenon DEF HostWrite
    <2>2. kernel[h].op = "write" /\ disk' = kernel[h].val
      BY <2>1, Zenon DEF DiskInv, HostFits
    <2>3. /\ host'[h].op = "write" /\ host'[h].st = "done"
          /\ \A g \in Handle \ {h} : host'[g] = host[g]
      BY <1>2, <2>1, Zenon
    <2>4. HostFits'
      BY <1>1, <2>2, <2>3, Zenon DEF DiskInv, HostFits
    <2>5. WritesBounded'
      BY <1>1, Zenon DEF DiskInv, WritesBounded
    <2>6. OneWrite'
      BY <1>1, <2>2, Zenon DEF DiskInv, OneWrite
    <2> QED BY <2>4, <2>5, <2>6, Zenon DEF DiskInv
  <1>b. ASSUME NEW h \in Handle, NEW x, host' = [host EXCEPT ![h] = x], x.op = host[h].op,
               host[h] # None, x.st # "queued", x.st = "done" => host[h].op # "write", disk' = disk
        PROVE  DiskInv'
    <2>1. host'[h] = x /\ \A g \in Handle \ {h} : host'[g] = host[g]
      BY <1>2, <1>b, Zenon
    <2>2. HostFits'
      BY <1>1, <1>b, <2>1, SMTT(20), Z3T(20) DEF DiskInv, HostFits
    <2>3. \A g \in Handle : kernel[g].op = "write" /\ Landed(g)' => Landed(g)
      <3>1. kernel[h].op = host[h].op
        BY <1>b, Zenon DEF DiskInv, HostFits
      <3> QED BY <1>1, <1>b, <2>1, <3>1, Zenon DEF Landed
    <2> QED BY <1>1, <1>2, <1>b, <2>2, <2>3, DiskFrame, Zenon DEF DiskInv
  <1>c. ASSUME NEW h \in Handle, HostRead(h) PROVE DiskInv'
    <2>1. PICK v : host' = [host EXCEPT ![h] = [op |-> host[h].op, st |-> "done", val |-> v]]
      BY <1>c, Zenon DEF HostRead
    <2>2. host[h] # None /\ host[h].op # "write" /\ disk' = disk
      BY <1>c, Zenon DEF HostRead
    <2> DEFINE x == [op |-> host[h].op, st |-> "done", val |-> v]
    <2>3. x.op = host[h].op /\ x.st # "queued"
      BY Zenon
    <2>4. host' = [host EXCEPT ![h] = x]
      BY <2>1, Zenon
    <2> HIDE DEF x
    <2> QED BY <1>b, <2>2, <2>3, <2>4, Zenon
  <1>d. ASSUME NEW h \in Handle, HostFails(h) PROVE DiskInv'
    <2> DEFINE x == [op |-> host[h].op, st |-> "error", val |-> 0]
    <2>1. host[h] # None /\ disk' = disk /\ host' = [host EXCEPT ![h] = x]
      BY <1>d, Zenon DEF HostFails
    <2>2. x.op = host[h].op /\ x.st # "queued" /\ x.st # "done"
      BY Zenon
    <2> HIDE DEF x
    <2> QED BY <1>b, <2>1, <2>2, Zenon
  <1> QED BY <1>a, <1>c, <1>d, Zenon DEF StorageHost

(* When no two region writes were ever in flight together and none is now, *)
(* the disk holds exactly the content of the newest commitment the oracle  *)
(* has: the state the next boot compares (request_proxy's capture, the pin *)
(* actor and the gated replies agree with the host's disk).                *)
THEOREM QuietDiskIsPinned == Spec => []QuietDiskMatches
  <1>1. Init => DiskInv
    <2> SUFFICES ASSUME Init PROVE DiskInv
      BY Zenon
    <2>1. HostFits
      BY Zenon DEF Init, HostFits
    <2>2. WritesBounded
      BY SMTT(20), Z3T(20) DEF Init, WritesBounded, Idle
    <2>3. OneWrite
      BY SMTT(20), Z3T(20) DEF Init, OneWrite, Idle
    <2> QED BY <2>1, <2>2, <2>3, Zenon DEF DiskInv
  <1>2. IInv /\ DiskInv /\ [Next]_vars => DiskInv'
    <2>1. ASSUME IInv, DiskInv, Next PROVE DiskInv'
      BY <2>1, ProxyKeepsDisk, ActorKeepsDisk, PumpKeepsDisk, HostKeepsDisk, Zenon DEF Next
    <2>2. ASSUME DiskInv, UNCHANGED vars PROVE DiskInv'
      <3>1. UNCHANGED <<kernel, written, overlapped, pump, stashed, host, disk, pinned>>
        BY <2>2, Zenon DEF vars, kernelVars, hostVars
      <3>2. /\ SameWrites /\ HostFits' /\ \A h \in Handle : Landed(h)' => Landed(h)
        BY <2>2, <3>1, Zenon DEF DiskInv, SameWrites, HostFits, Landed, Parked
      <3> QED BY <2>2, <3>1, <3>2, DiskFrame, Zenon DEF DiskInv
    <2> QED BY <2>1, <2>2, Zenon
  <1>3. IInv /\ DiskInv => QuietDiskMatches
    <2> SUFFICES ASSUME IInv, DiskInv, ~overlapped, Busy("write") = {} PROVE disk = NewestPinned
      BY Zenon DEF QuietDiskMatches
    <2>1. \A h \in Handle : kernel[h].op # "write"
      BY Zenon DEF Busy
    <2>2. disk = Len(pinned) - 1
      BY <2>1, Zenon DEF DiskInv, OneWrite
    <2>3. PinnedInOrder /\ Len(pinned) \in 1..Len(pinned)
      BY Parts, SMTT(20), Z3T(20) DEF PinnedOK
    <2> QED BY <2>2, <2>3, Zenon DEF PinnedInOrder, NewestPinned
  <1> QED BY <1>1, <1>2, <1>3, Invariant, PTL DEF Spec

=============================================================================
