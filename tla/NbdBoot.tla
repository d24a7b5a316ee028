------------------------------ MODULE NbdBoot ------------------------------
(***************************************************************************)
(* The enclave instances that share one volume history, against the        *)
(* freshness oracle: the boot decision of nbd-client (boot,                *)
(* verify_or_register, transition_and_reverify), the pins of a running     *)
(* instance with their retries (pin_with_retries, pin_once_on,             *)
(* disambiguate_conflict), crashes, reboots, clones of an image or of a    *)
(* disk, and restored disks.  NbdPipeline has the inside of a running      *)
(* instance; here a region write is its disk write, its pin and its        *)
(* acknowledgement.                                                        *)
(*                                                                         *)
(* The oracle is the abstract FreshnessOracle (SyncService implements it): *)
(* an RPC is executed and answered in one step, or the client gives it up  *)
(* (timeout, Unavailable, dropped session, crash), and the cluster may     *)
(* still execute it at any later time, or never.  The content of the       *)
(* region is the number of the write that produced it, 0 being blank; a    *)
(* commitment is an injective image of it.                                 *)
(***************************************************************************)
EXTENDS FreshnessOracle, Sequences, FiniteSets

CONSTANTS Instance,   \* enclave instances; each boots once
          Disk,       \* volumes, and copies of volumes
          Genesis,    \* the keys of images that may register a blank volume
          Link,       \* the upgrades <<old, new>> the oracle accepts
          MaxLive,    \* instances that run at the same time
          Restored,   \* may a disk go back to older content?
          MaxWrites,  \* bound on region writes
          MaxTries    \* attempts of one pin

ASSUME BootConstants ==
    /\ Genesis \subseteq PcrKey /\ Link \subseteq (PcrKey \X PcrKey)
    /\ MaxWrites \in Nat /\ MaxTries \in Nat /\ MaxLive \in Nat
    /\ Restored \in BOOLEAN
    /\ 0..MaxWrites \subseteq Commitment
    /\ None \notin PinnedHead /\ None \notin Disk

(* The instances are of one enclave, which has one first image.            *)
ASSUME OneGenesis == \A a, b \in Genesis : a = b

VARIABLES
    inst,    \* per instance: its position, key, disk, region and pin in flight
    disk,    \* the content of each disk
    writes,  \* per region write: who made it, and the content it follows
    late,    \* operations given up by their client, not executed yet
    acked,   \* the writes acknowledged to a kernel
    alone    \* history: one instance at a time, one disk, never restored

oracle == <<head, retired>>
vars == <<oracle, inst, disk, writes, late, acked, alone>>

Off == [pc |-> "off", key |-> None, disk |-> None, region |-> 0, expected |-> 0,
        job |-> 0, applied |-> TRUE, tries |-> 0]

Init ==
    /\ OracleInit
    /\ inst = [i \in Instance |-> Off]
    /\ disk = [d \in Disk |-> 0]
    /\ writes = <<>>
    /\ late = {}
    /\ acked = {}
    /\ alone = TRUE

(* A content and everything it was written on top of. *)
Upto(c) == IF c = 0 THEN {0} ELSE writes[c].after \cup {c}

Up == {"get", "register", "regGet", "transition", "postGet", "serving", "pin", "pinGet",
       "pinned"}

Live == {i \in Instance : inst[i].pc \in Up}

Goto(i, pc) == inst' = [inst EXCEPT ![i].pc = pc]

(* The instance is over; a write it forwarded may still be with the host. *)
End(i, pc) == inst' = [inst EXCEPT ![i] = [Off EXCEPT !.pc = pc, !.disk = inst[i].disk,
                                                      !.job = inst[i].job,
                                                      !.applied = inst[i].applied]]

ServeFrom(i, version) == inst' = [inst EXCEPT ![i].pc = "serving", ![i].expected = version]

Key(i) == inst[i].key

Region(i) == inst[i].region

-----------------------------------------------------------------------------
(* boot: connect, read the region off the host, then decide. *)

(* nbd_read_region, before the kernel is attached *)
ReadRegion(d) == disk[d]

Boot(i, k, d) ==
    /\ inst[i].pc = "off" /\ Cardinality(Live) < MaxLive
    /\ inst' = [inst EXCEPT ![i] = [Off EXCEPT !.pc = "get", !.key = k, !.disk = d,
                                               !.region = ReadRegion(d)]]
    /\ alone' = (alone /\ Live = {} /\ \A j \in Instance : inst[j].disk \in {None, d})
    /\ UNCHANGED <<oracle, disk, writes, late, acked>>

(* get_outcome: the pinned state of the key, None for NotFound *)
GetOutcome(i) == head[Key(i)]

(* region_is_blank, and ImageRole::Genesis *)
RegionIsBlank(i) == Region(i) = 0
ImageIsGenesis(i) == Key(i) \in Genesis

(* boot_decision *)
BootDecision(i) ==
    CASE GetOutcome(i) # None /\ GetOutcome(i).commitment = Region(i) -> "serving"
      [] GetOutcome(i) # None /\ GetOutcome(i).commitment # Region(i) -> "mismatch"
      [] GetOutcome(i) = None /\ RegionIsBlank(i) /\ ImageIsGenesis(i) -> "register"
      [] OTHER -> "transition"

BootGet(i) ==
    /\ inst[i].pc = "get"
    /\ LET decision == BootDecision(i) IN
       CASE decision = "serving"  -> ServeFrom(i, head[Key(i)].version)
         [] decision = "mismatch" -> End(i, "mismatch")
         [] OTHER                 -> Goto(i, decision)
    /\ UNCHANGED <<oracle, disk, writes, late, acked, alone>>

Register(i) ==
    /\ inst[i].pc = "register"
    /\ \/ /\ Start(Key(i), Region(i))
          /\ ServeFrom(i, 0)
       \/ /\ head[Key(i)] # None
          /\ Goto(i, "regGet") /\ UNCHANGED oracle
       \/ /\ Key(i) \in retired
          /\ End(i, "failed") /\ UNCHANGED oracle
    /\ UNCHANGED <<disk, writes, late, acked, alone>>

(* Mutant: a registered key is taken for our own registration. *)
RegisterGet_AnyHolder(i) ==
    /\ inst[i].pc = "regGet"
    /\ IF head[Key(i)] # None
       THEN ServeFrom(i, head[Key(i)].version) ELSE End(i, "failed")
    /\ UNCHANGED <<oracle, disk, writes, late, acked, alone>>

(* AlreadyRegistered: our own registration, if it holds our commitment at  *)
(* version 0 (disambiguate_conflict).                                      *)
RegisterGet(i) ==
    /\ inst[i].pc = "regGet"
    /\ IF head[Key(i)] = [commitment |-> Region(i), version |-> 0]
       THEN ServeFrom(i, 0) ELSE End(i, "failed")
    /\ UNCHANGED <<oracle, disk, writes, late, acked, alone>>

(* fetch_latest_upgrade_link: the predecessors the links of the chain name *)
FetchedLinks(i) == {old \in PcrKey : <<old, Key(i)>> \in Link}

(* transition_and_reverify: the oracle moves the pin only if this volume   *)
(* holds the predecessor's latest commitment.  The link comes from the     *)
(* host, which may not have it; any refusal is a fail-stop.                *)
Moves(old, new, c) == /\ <<old, new>> \in Link /\ head[old] # None
                      /\ head[old].commitment = c /\ Fresh(new)

Transition(i) ==
    /\ inst[i].pc = "transition"
    /\ \/ \E old \in FetchedLinks(i) : /\ Moves(old, Key(i), Region(i))
                                    /\ HandOver(old, Key(i))
                                    /\ Goto(i, "postGet")
       \/ /\ End(i, "failed") /\ UNCHANGED oracle
    /\ UNCHANGED <<disk, writes, late, acked, alone>>

PostGet(i) ==
    /\ inst[i].pc = "postGet"
    /\ IF BootDecision(i) = "serving" THEN ServeFrom(i, head[Key(i)].version)
       ELSE End(i, IF BootDecision(i) = "mismatch" THEN "mismatch" ELSE "failed")
    /\ UNCHANGED <<oracle, disk, writes, late, acked, alone>>

-----------------------------------------------------------------------------
(* A running instance. *)

(* The kernel writes the region on top of what this instance serves. *)
Write(i) ==
    /\ inst[i].pc = "serving" /\ Len(writes) < MaxWrites
    /\ writes' = Append(writes, [by |-> i, after |-> Upto(Region(i))])
    /\ inst' = [inst EXCEPT ![i].pc = "pin", ![i].job = Len(writes) + 1,
                            ![i].applied = FALSE, ![i].tries = 1]
    /\ UNCHANGED <<oracle, disk, late, acked, alone>>

(* The host performs the forwarded write, even for an instance that is gone. *)
HostApplies(i) ==
    /\ ~inst[i].applied
    /\ disk' = [disk EXCEPT ![inst[i].disk] = inst[i].job]
    /\ inst' = [inst EXCEPT ![i].applied = TRUE]
    /\ UNCHANGED <<oracle, writes, late, acked, alone>>

Swaps(k, v) == head[k] # None /\ head[k].version = v

(* pin_once_on *)
Pin(i) ==
    /\ inst[i].pc = "pin"
    /\ \/ /\ Swaps(Key(i), inst[i].expected)
          /\ Extend(Key(i), inst[i].job)
          /\ inst' = [inst EXCEPT ![i].pc = "pinned", ![i].expected = inst[i].expected + 1]
       \/ /\ head[Key(i)] # None /\ ~Swaps(Key(i), inst[i].expected)
          /\ Goto(i, "pinGet") /\ UNCHANGED oracle
       \/ /\ head[Key(i)] = None
          /\ End(i, "failed") /\ UNCHANGED oracle
    /\ UNCHANGED <<disk, writes, late, acked, alone>>

(* Mutant: every conflict is an earlier attempt of our own. *)
PinGet_AlwaysOurs(i) ==
    /\ inst[i].pc = "pinGet" /\ head[Key(i)] # None
    /\ inst' = [inst EXCEPT ![i].pc = "pinned", ![i].expected = head[Key(i)].version]
    /\ UNCHANGED <<oracle, disk, writes, late, acked, alone>>

(* VersionConflict: our own earlier attempt, or another writer's pin? *)
PinGet(i) ==
    /\ inst[i].pc = "pinGet"
    /\ \/ /\ head[Key(i)] # None /\ head[Key(i)].commitment = inst[i].job
          /\ inst' = [inst EXCEPT ![i].pc = "pinned", ![i].expected = head[Key(i)].version]
       \/ /\ head[Key(i)] # None /\ head[Key(i)].commitment # inst[i].job
          /\ End(i, "fork")
       \/ /\ head[Key(i)] = None
          /\ End(i, "failed")
    /\ UNCHANGED <<oracle, disk, writes, late, acked, alone>>

(* Mutant: acknowledges the pin without the host's answer. *)
Ack_BeforeHost(i) ==
    /\ inst[i].pc = "pinned"
    /\ acked' = acked \cup {inst[i].job}
    /\ inst' = [inst EXCEPT ![i].pc = "serving", ![i].region = inst[i].job]
    /\ UNCHANGED <<oracle, disk, writes, late, alone>>

(* The parked reply is released once the pin is durable and the host has   *)
(* answered the write.                                                     *)
Ack(i) ==
    /\ inst[i].pc = "pinned" /\ inst[i].applied
    /\ acked' = acked \cup {inst[i].job}
    /\ inst' = [inst EXCEPT ![i].pc = "serving", ![i].region = inst[i].job]
    /\ UNCHANGED <<oracle, disk, writes, late, alone>>

-----------------------------------------------------------------------------
(* Failures. *)

(* The operation an instance waits for, which outlives its client. *)
Pending(i) ==
    CASE inst[i].pc = "register" ->
            {[op |-> "register", key |-> Key(i), c |-> Region(i), v |-> 0, old |-> None]}
      [] inst[i].pc = "transition" ->
            {[op |-> "transition", key |-> Key(i), c |-> Region(i), v |-> 0, old |-> old] :
                old \in FetchedLinks(i)}
      [] inst[i].pc = "pin" ->
            {[op |-> "pin", key |-> Key(i), c |-> inst[i].job, v |-> inst[i].expected,
              old |-> None]}
      [] OTHER -> {}

(* A pin that is not answered is tried again, and a conflict whose Get is  *)
(* not answered too (pin_with_retries).                                    *)
Retry(i) ==
    /\ inst[i].pc \in {"pin", "pinGet"} /\ inst[i].tries < MaxTries
    /\ late' = late \cup Pending(i)
    /\ inst' = [inst EXCEPT ![i].pc = "pin", ![i].tries = inst[i].tries + 1]
    /\ UNCHANGED <<oracle, disk, writes, acked, alone>>

(* A crash, a fail-stop of the pipeline, or an RPC of the boot or a last   *)
(* attempt of a pin that is not answered.                                  *)
Stop(i) ==
    /\ inst[i].pc \in Up
    /\ late' = late \cup Pending(i)
    /\ End(i, "failed")
    /\ UNCHANGED <<oracle, disk, writes, acked, alone>>

(* The cluster executes, or refuses, an operation nobody waits for. *)
LateApply(m) ==
    /\ late' = late \ {m}
    /\ \/ m.op = "register" /\ Start(m.key, m.c)
       \/ m.op = "transition" /\ Moves(m.old, m.key, m.c) /\ HandOver(m.old, m.key)
       \/ m.op = "pin" /\ Swaps(m.key, m.v) /\ Extend(m.key, m.c)
    /\ UNCHANGED <<inst, disk, writes, acked, alone>>

(* The contents some disk has held. *)
Held == (0..Len(writes)) \ {inst[i].job : i \in {j \in Instance : ~inst[j].applied}}

(* A disk is replaced by an older copy, or by a copy of another disk. *)
Restore(d) ==
    /\ Restored
    /\ \E c \in Held \ {disk[d]} : disk' = [disk EXCEPT ![d] = c]
    /\ alone' = FALSE
    /\ UNCHANGED <<oracle, inst, writes, late, acked>>

-----------------------------------------------------------------------------
Next ==
    \/ \E i \in Instance :
          \/ \E k \in PcrKey, d \in Disk : Boot(i, k, d)
          \/ BootGet(i) \/ Register(i) \/ RegisterGet(i) \/ Transition(i) \/ PostGet(i)
          \/ Write(i) \/ HostApplies(i) \/ Pin(i) \/ PinGet(i) \/ Ack(i)
          \/ Retry(i) \/ Stop(i)
    \/ \E m \in late : LateApply(m)
    \/ \E d \in Disk : Restore(d)

Spec == Init /\ [][Next]_vars

-----------------------------------------------------------------------------
(* Properties *)

Op == [op : {"register", "transition", "pin"}, key : PcrKey, c : Nat, v : Nat,
       old : PcrKey \cup {None}]

TypeOK ==
    /\ OracleTypeOK
    /\ inst \in [Instance -> [pc : Up \cup {"off", "failed", "mismatch", "fork"},
                              key : PcrKey \cup {None}, disk : Disk \cup {None},
                              region : Nat, expected : Nat, job : Nat,
                              applied : BOOLEAN, tries : Nat]]
    /\ disk \in [Disk -> 0..Len(writes)]
    /\ writes \in Seq([by : Instance, after : SUBSET Nat])
    /\ late \subseteq Op
    /\ acked \subseteq 1..Len(writes)

(* No forked volume: of two acknowledged writes one was made on top of the *)
(* other, whatever clones of the enclave ran at the same time, whichever   *)
(* answers were lost and whatever a dead instance's pin does later.        *)
AckedIsLinear == \A a, b \in acked : a \in Upto(b) \/ b \in Upto(a)

(* No rollback and no false alarm: a device is served only with content    *)
(* that includes every write acknowledged so far, on any disk, under any   *)
(* image of the history (verify_or_register, transition_and_reverify); and *)
(* a conflict caused by an earlier attempt of the same pin is never taken  *)
(* for a fork: that verdict names a commitment of another instance         *)
(* (disambiguate_conflict).                                                *)
VerdictsAreRight ==
    [][\A i \in Instance :
          /\ inst[i].pc \in {"get", "register", "regGet", "postGet"} /\ inst'[i].pc = "serving"
                => acked \subseteq Upto(Region(i))
          /\ inst[i].pc = "pinGet" /\ inst'[i].pc = "fork"
                => /\ head[Key(i)].commitment # 0
                   /\ writes[head[Key(i)].commitment].by # i]_vars

(* Writes whose instance ended before they were acknowledged. *)
Torn == {c \in 1..Len(writes) : c \notin acked /\ inst[writes[c].by].pc \notin Up}

(* A disk that keeps its content is refused only after an instance ended   *)
(* between a region write and its acknowledgement: a clean stop boots      *)
(* again, under the same image or a successor.                             *)
MismatchMeansTorn ==
    alone /\ Torn = {} => \A i \in Instance : inst[i].pc # "mismatch"
=============================================================================
