---------------------------- MODULE NbdBootProofs ----------------------------
(***************************************************************************)
(* What the instances of an enclave do to its volume, for any number of    *)
(* instances, clones, disks, images, region writes and attempts: no fork,  *)
(* no rollback and no false alarm, whatever is executed late or restored.  *)
(***************************************************************************)
EXTENDS NbdBoot, TLAPS

-----------------------------------------------------------------------------
(* The history of the volume *)

Contents == 0..Len(writes)

(* Every content an instance, an operation or a head names was written.    *)
Bounded ==
    /\ Len(writes) <= MaxWrites
    /\ \A c \in 1..Len(writes) : writes[c].after \subseteq 0..(c - 1)
    /\ \A i \in Instance : inst[i].region \in Contents /\ inst[i].job \in Contents
    /\ \A m \in late : m.c \in Contents
    /\ \A k \in PcrKey : head[k] # None => head[k].commitment \in Contents

(* There is one history: one key holds it at a time, and the first image's *)
(* key comes first.                                                        *)
NoHistory == \A k \in PcrKey : head[k] = None
OneHistory ==
    /\ \A a, b \in PcrKey : head[a] # None /\ head[b] # None => a = b
    /\ NoHistory => retired = {} /\ writes = <<>>
    /\ \A k \in Genesis : Fresh(k) => NoHistory
    /\ ~NoHistory \/ late # {} => \E i \in Instance : inst[i].disk # None

(* What the head includes.  All that was acknowledged is in it, in a line. *)
Committed == UNION {Upto(head[k].commitment) : k \in {x \in PcrKey : head[x] # None}}
CommittedInv ==
    /\ acked \subseteq Committed
    /\ \A a, b \in Committed : a \in Upto(b) \/ b \in Upto(a)
    /\ \A i \in Instance : inst[i].pc = "pinned" => inst[i].job \in Committed

(* Key k has held the history, at version v with content c if it ever did. *)
At(k, v, c) ==
    /\ k \in PcrKey /\ ~Fresh(k)
    /\ head[k] # None => /\ v <= head[k].version
                         /\ head[k].version = v => head[k].commitment = c

Holding == {"serving", "pin", "pinGet", "pinned"}
Pinning == {"pin", "pinGet", "pinned"}
Booting == {"get", "register", "regGet", "transition", "postGet"}

(* Where an instance stands: what it expects at the oracle, and what its   *)
(* write is made on.                                                       *)
InstInv(i) ==
    LET s == inst[i] IN
    /\ s.pc \in Up => s.key \in PcrKey /\ s.disk \in Disk
    /\ s.pc = "register" => s.key \in Genesis /\ s.region = 0
    /\ s.pc \in Holding =>
          At(s.key, s.expected, IF s.pc = "pinned" THEN s.job ELSE s.region)
    /\ s.pc \in Pinning =>
          /\ s.region < s.job /\ writes[s.job].by = i
          /\ writes[s.job].after = Upto(s.region)

(* A pin nobody waits for fits on the content it was made for only. *)
LateInv(m) ==
    /\ m.key \in PcrKey
    /\ m.op = "register" => m.key \in Genesis /\ m.c = 0
    /\ m.op = "pin" =>
          /\ m.c # 0
          /\ \E c \in Contents : At(m.key, m.v, c) /\ writes[m.c].after = Upto(c)

HistoryInv == /\ TypeOK /\ Bounded /\ OneHistory /\ CommittedInv
              /\ \A i \in Instance : InstInv(i)
              /\ \A m \in late : LateInv(m)

-----------------------------------------------------------------------------
(* Whose write is at the head *)

(* An instance that does not serve yet has written nothing. *)
NothingYet(i) ==
    inst[i].pc \in Booting \cup {"off"} => \A c \in 1..Len(writes) : writes[c].by # i

(* A head that went past what instance i expects, in the given state, has  *)
(* its pin in flight or somebody else's; a conflict means that it did.     *)
Passed(i, pc, key, expected, job) ==
    pc \in Holding /\ head[key] # None =>
        /\ pc = "pinGet" => head[key].version > expected
        /\ head[key].version > expected =>
              /\ head[key].commitment # 0
              /\ \/ writes[head[key].commitment].by # i
                 \/ pc \in {"pin", "pinGet"} /\ head[key].commitment = job
PassedBy(i) == Passed(i, inst[i].pc, inst[i].key, inst[i].expected, inst[i].job)

(* An instance's own pins that nobody waits for are attempts of the one in *)
(* flight, or behind it.                                                   *)
Own(m, pc, key, expected, job) ==
    pc \in Holding => /\ m.key = key
                      /\ \/ m.v < expected
                         \/ pc \in {"pin", "pinGet"} /\ m.c = job /\ m.v = expected
OwnLate(m) ==
    m.op = "pin" => \A i \in Instance : writes[m.c].by = i =>
                       Own(m, inst[i].pc, inst[i].key, inst[i].expected, inst[i].job)

OwnInv == /\ \A i \in Instance : NothingYet(i) /\ PassedBy(i)
          /\ \A m \in late : OwnLate(m)

-----------------------------------------------------------------------------
(* What is on the disk *)

(* A write is acknowledged by its instance, once the host has it: the only *)
(* one of instance i that is not is in flight.                             *)
Settled(i, pc, job, applied) ==
    /\ ~applied => job # 0 /\ writes[job].by = i /\ job \notin acked
    /\ pc \in Pinning => job \notin acked
    /\ pc \in Up => \A c \in 1..Len(writes) :
                      writes[c].by = i /\ c \notin acked => pc \in Pinning /\ c = job
SettledLate(m) ==
    m.op = "pin" /\ m.c \in acked /\ head[m.key] # None => m.v < head[m.key].version

AckInv == /\ \A i \in Instance : Settled(i, inst[i].pc, inst[i].job, inst[i].applied)
          /\ \A m \in late : SettledLate(m)

(* One instance at a time, on one disk *)
AloneInv ==
    alone => /\ \A i, j \in Instance : inst[i].pc \in Up /\ inst[j].pc \in Up => i = j
             /\ \A i, j \in Instance : inst[i].disk # None /\ inst[j].disk # None
                                           => inst[i].disk = inst[j].disk

(* The head holds one of the contents in S. *)
HeadIn(S) == \A k \in PcrKey : head[k] # None => head[k].commitment \in S

(* The disk of an instance is where the pins are, or one write ahead or    *)
(* behind.                                                                 *)
DiskAt(pc, d, region, job, applied) ==
    /\ pc \in Booting \cup {"serving"} => disk[d] = region /\ HeadIn({region})
    /\ pc \in Pinning => /\ applied => disk[d] = job
                         /\ ~applied => disk[d] = region
                         /\ pc = "pinned" => HeadIn({job})
                         /\ pc # "pinned" => HeadIn({region, job})

DiskInv ==
    alone /\ Torn = {} =>
        /\ \A i \in Instance : DiskAt(inst[i].pc, inst[i].disk, inst[i].region, inst[i].job,
                                      inst[i].applied)
        /\ Live = {} => \A i \in Instance : inst[i].disk # None => HeadIn({disk[inst[i].disk]})
        /\ \A i \in Instance : inst[i].pc # "mismatch"

-----------------------------------------------------------------------------
(* The oracle and what is given up *)

(* The parts of the invariant of the history *)
LEMMA Parts ==
    ASSUME HistoryInv
    PROVE  /\ TypeOK /\ Bounded /\ OneHistory /\ CommittedInv
           /\ \A i \in Instance : InstInv(i)
           /\ \A m \in late : LateInv(m)
  BY Zenon DEF HistoryInv

(* The steps of the oracle keep its types. *)
LEMMA OracleTyped ==
    ASSUME OracleTypeOK, NEW k \in PcrKey, NEW c \in Commitment
    PROVE  /\ Start(k, c) \/ Extend(k, c) => OracleTypeOK'
           /\ \A old \in PcrKey : HandOver(old, k) => OracleTypeOK'
  <1>1. PinnedHead = [commitment : Commitment, version : Nat]
    BY Zenon DEF PinnedHead
  <1>2. ASSUME Start(k, c) PROVE OracleTypeOK'
    BY <1>2, Zenon DEF Start, OracleTypeOK, PinnedHead
  <1>3. ASSUME Extend(k, c) PROVE OracleTypeOK'
    BY <1>3, BootConstants, SMTT(30), Z3T(30) DEF Extend, OracleTypeOK, PinnedHead
  <1>4. ASSUME NEW old \in PcrKey, HandOver(old, k) PROVE OracleTypeOK'
    BY <1>4, Zenon DEF HandOver, OracleTypeOK
  <1> QED BY <1>2, <1>3, <1>4, Zenon

(* What is written, acknowledged or given up is typed while the instances  *)
(* are.                                                                    *)
LEMMA PendingTyped ==
    ASSUME TypeOK, NEW i \in Instance, inst[i].pc \in Up => inst[i].key \in PcrKey
    PROVE  Pending(i) \subseteq Op
  <1>1. /\ inst[i].region \in Nat /\ inst[i].job \in Nat /\ inst[i].expected \in Nat
    BY Zenon DEF TypeOK
  <1>2. CASE inst[i].pc = "register"
    BY <1>1, <1>2, SMTT(30), Z3T(30) DEF Pending, Op, Up, Key, Region
  <1>3. CASE inst[i].pc = "transition"
    <2>1. Pending(i) = {[op |-> "transition", key |-> Key(i), c |-> Region(i), v |-> 0,
                         old |-> old] : old \in FetchedLinks(i)}
      BY <1>3, Zenon DEF Pending
    <2>2. Key(i) \in PcrKey /\ Region(i) \in Nat /\ FetchedLinks(i) \subseteq PcrKey
      BY <1>1, <1>3, Zenon DEF Up, Key, Region, FetchedLinks
    <2> QED BY <2>1, <2>2, SMTT(30), Z3T(30) DEF Op
  <1>4. CASE inst[i].pc = "pin"
    BY <1>1, <1>4, SMTT(30), Z3T(30) DEF Pending, Op, Up, Key
  <1> QED BY <1>2, <1>3, <1>4, Zenon DEF Pending

-----------------------------------------------------------------------------
(* The steps, by what they do *)

(* Instance i goes to the given state, the others stay. *)
Goes(i, pc, key, d, region, expected, job, applied) ==
    /\ \A j \in Instance : j # i => inst'[j] = inst[j]
    /\ inst'[i].pc = pc /\ inst'[i].key = key /\ inst'[i].disk = d
    /\ inst'[i].region = region /\ inst'[i].expected = expected
    /\ inst'[i].job = job /\ inst'[i].applied = applied

GoesOn(i, pc) == Goes(i, pc, inst[i].key, inst[i].disk, inst[i].region, inst[i].expected,
                      inst[i].job, inst[i].applied)

Starts(i) ==
    /\ inst[i].pc = "off"
    /\ \E k \in PcrKey, d \in Disk :
          /\ Goes(i, "get", k, d, disk[d], 0, 0, TRUE)
          /\ alone' => /\ alone /\ Live = {}
                       /\ \A j \in Instance : inst[j].disk \in {None, d}
    /\ UNCHANGED <<oracle, disk, writes, late, acked>>

Looks(i) ==
    /\ inst[i].pc \in Booting
    /\ \E pc \in Booting : GoesOn(i, pc) /\ (pc = "register" => Key(i) \in Genesis /\ Region(i) = 0)
    /\ UNCHANGED oracle \/ \E old \in PcrKey : HandOver(old, Key(i))
    /\ UNCHANGED <<disk, writes, late, acked, alone>>

Serves(i) ==
    /\ inst[i].pc \in Booting
    /\ \E v \in Nat :
          /\ Goes(i, "serving", Key(i), inst[i].disk, Region(i), v, inst[i].job, inst[i].applied)
          /\ head'[Key(i)] # None /\ head'[Key(i)].version = v
          /\ head'[Key(i)].commitment = Region(i)
    /\ UNCHANGED oracle \/ (inst[i].pc = "register" /\ Start(Key(i), Region(i)))
    /\ UNCHANGED <<disk, writes, late, acked, alone>>

Ends(i) ==
    /\ inst[i].pc \in Up
    /\ \E pc \in {"failed", "mismatch", "fork"} :
          /\ Goes(i, pc, None, inst[i].disk, 0, 0, inst[i].job, inst[i].applied)
          /\ pc = "mismatch" => /\ inst[i].pc \in Booting /\ head[Key(i)] # None
                                /\ head[Key(i)].commitment # Region(i)
          /\ pc = "fork" => /\ inst[i].pc = "pinGet" /\ head[Key(i)] # None
                            /\ head[Key(i)].commitment # inst[i].job
    /\ late' \in {late, late \cup Pending(i)}
    /\ UNCHANGED <<oracle, disk, writes, acked, alone>>

Tries(i) ==
    /\ inst[i].pc \in {"pin", "pinGet"}
    /\ \E pc \in {"pin", "pinGet"} :
          /\ GoesOn(i, pc)
          /\ pc = "pinGet" => head[Key(i)] # None /\ ~Swaps(Key(i), inst[i].expected)
    /\ late' \in {late, late \cup Pending(i)}
    /\ UNCHANGED <<oracle, disk, writes, acked, alone>>

Pins(i) ==
    /\ inst[i].pc \in {"pin", "pinGet"}
    /\ \E v \in Nat :
          /\ Goes(i, "pinned", Key(i), inst[i].disk, Region(i), v, inst[i].job, inst[i].applied)
          /\ \/ /\ inst[i].pc = "pin" /\ Swaps(Key(i), inst[i].expected)
                /\ Extend(Key(i), inst[i].job) /\ v = inst[i].expected + 1
             \/ /\ UNCHANGED oracle /\ head[Key(i)] # None
                /\ head[Key(i)].commitment = inst[i].job /\ head[Key(i)].version = v
    /\ UNCHANGED <<disk, writes, late, acked, alone>>

MakesWrite(i) ==
    /\ inst[i].pc = "serving" /\ Len(writes) < MaxWrites
    /\ writes' = Append(writes, [by |-> i, after |-> Upto(Region(i))])
    /\ Goes(i, "pin", Key(i), inst[i].disk, Region(i), inst[i].expected, Len(writes) + 1, FALSE)
    /\ UNCHANGED <<oracle, disk, late, acked, alone>>

Lands(i) ==
    /\ ~inst[i].applied
    /\ disk' = [disk EXCEPT ![inst[i].disk] = inst[i].job]
    /\ Goes(i, inst[i].pc, Key(i), inst[i].disk, Region(i), inst[i].expected, inst[i].job, TRUE)
    /\ UNCHANGED <<oracle, writes, late, acked, alone>>

Acks(i) ==
    /\ inst[i].pc = "pinned" /\ inst[i].applied
    /\ acked' = acked \cup {inst[i].job}
    /\ Goes(i, "serving", Key(i), inst[i].disk, inst[i].job, inst[i].expected, inst[i].job, TRUE)
    /\ UNCHANGED <<oracle, disk, writes, late, alone>>

Moving(i) == \/ Starts(i) \/ Looks(i) \/ Serves(i) \/ Ends(i) \/ Tries(i) \/ Pins(i)
             \/ MakesWrite(i) \/ Lands(i) \/ Acks(i)

(* ServeFrom, End and Goto of an instance *)
LEMMA Positions ==
    ASSUME TypeOK, NEW i \in Instance
    PROVE  /\ \A pc : Goto(i, pc) => GoesOn(i, pc)
           /\ \A pc : End(i, pc) => Goes(i, pc, None, inst[i].disk, 0, 0, inst[i].job,
                                         inst[i].applied)
           /\ \A v : ServeFrom(i, v) => Goes(i, "serving", inst[i].key, inst[i].disk,
                                             inst[i].region, v, inst[i].job, inst[i].applied)
  <1>1. ASSUME NEW pc, Goto(i, pc) PROVE GoesOn(i, pc)
    BY <1>1, Zenon DEF Goto, GoesOn, Goes, TypeOK
  <1>2. ASSUME NEW pc, End(i, pc)
        PROVE  Goes(i, pc, None, inst[i].disk, 0, 0, inst[i].job, inst[i].applied)
    BY <1>2, Zenon DEF End, Goes, Off, TypeOK
  <1>3. ASSUME NEW v, ServeFrom(i, v)
        PROVE  Goes(i, "serving", inst[i].key, inst[i].disk, inst[i].region, v, inst[i].job,
                    inst[i].applied)
    BY <1>3, Zenon DEF ServeFrom, Goes, TypeOK
  <1> QED BY <1>1, <1>2, <1>3, Zenon

(* The head of a typed oracle *)
LEMMA HeadTyped ==
    ASSUME OracleTypeOK, NEW k \in PcrKey, head[k] # None
    PROVE  /\ head[k] \in PinnedHead
           /\ head[k].version \in Nat /\ head[k].commitment \in Commitment
  BY Zenon DEF OracleTypeOK, PinnedHead

(* verify_or_register looks, serves or refuses. *)
LEMMA BootKinds ==
    ASSUME HistoryInv, NEW i \in Instance, inst[i].pc \in Booting,
           BootGet(i) \/ Register(i) \/ RegisterGet(i) \/ Transition(i) \/ PostGet(i)
    PROVE  Looks(i) \/ Serves(i) \/ Ends(i)
  <1>1. /\ TypeOK /\ OracleTypeOK /\ Key(i) \in PcrKey
        /\ inst[i].pc \in Up /\ inst[i].key = Key(i) /\ inst[i].region = Region(i)
        /\ inst[i].pc = "register" => Key(i) \in Genesis /\ Region(i) = 0
    BY Parts, Zenon DEF InstInv, Booting, Up, Key, Region, TypeOK
  <1>2. \A v, pc :
           /\ Goto(i, pc) => GoesOn(i, pc)
           /\ End(i, pc) => Goes(i, pc, None, inst[i].disk, 0, 0, inst[i].job, inst[i].applied)
           /\ ServeFrom(i, v) => Goes(i, "serving", Key(i), inst[i].disk, Region(i), v,
                                      inst[i].job, inst[i].applied)
    BY <1>1, Positions, Zenon DEF Key, Region
  <1> DEFINE h == head[Key(i)]
  <1>3. h # None => h.version \in Nat
    BY <1>1, HeadTyped, Zenon
  <1>4. CASE BootGet(i)
    <2>1. CASE h # None /\ h.commitment = Region(i)
      <3>1. BootDecision(i) = "serving"
        BY <2>1, Zenon DEF BootDecision, GetOutcome
      <3>2. ServeFrom(i, h.version) /\ UNCHANGED oracle
        BY <3>1, <1>4, Zenon DEF BootGet
      <3>3. Serves(i)
        BY <3>2, <2>1, <1>1, <1>2, <1>3, <1>4, Zenon DEF Serves, BootGet, oracle
      <3> QED BY <3>3, Zenon
    <2>2. CASE h # None /\ h.commitment # Region(i)
      <3>1. BootDecision(i) = "mismatch"
        BY <2>2, Zenon DEF BootDecision, GetOutcome
      <3>2. End(i, "mismatch")
        BY <3>1, <1>4, Zenon DEF BootGet
      <3>3. Ends(i)
        BY <3>2, <2>2, <1>1, <1>2, <1>4, Zenon DEF Ends, BootGet
      <3> QED BY <3>3, Zenon
    <2>3. CASE h = None
      <3>1. /\ BootDecision(i) \in {"register", "transition"}
            /\ BootDecision(i) = "register" => Key(i) \in Genesis /\ Region(i) = 0
        BY <2>3, Zenon DEF BootDecision, GetOutcome, RegionIsBlank, ImageIsGenesis
      <3>2. Goto(i, BootDecision(i))
        BY <3>1, <1>4, Zenon DEF BootGet
      <3>3. Looks(i)
        BY <3>1, <3>2, <1>1, <1>2, <1>4, Zenon DEF Looks, BootGet, Booting
      <3> QED BY <3>3, Zenon
    <2> QED BY <2>1, <2>2, <2>3, Zenon
  <1>5. CASE Register(i)
    <2>1. CASE Start(Key(i), Region(i)) /\ ServeFrom(i, 0)
      <3>1. head'[Key(i)] = [commitment |-> Region(i), version |-> 0]
        BY <2>1, <1>1, Zenon DEF Start, OracleTypeOK
      <3>2. head'[Key(i)] # None
        BY <3>1, <1>1, BootConstants, Parts, SMTT(30), Z3T(30) DEF PinnedHead, Bounded,
           Contents, Region
      <3>3. Goes(i, "serving", Key(i), inst[i].disk, Region(i), 0, inst[i].job, inst[i].applied)
        BY <2>1, <1>2, Zenon
      <3>4. inst[i].pc = "register" /\ UNCHANGED <<disk, writes, late, acked, alone>>
        BY <1>5, Zenon DEF Register
      <3>5. Serves(i)
        BY <3>1, <3>2, <3>3, <3>4, <2>1, SMTT(30), Z3T(30) DEF Serves
      <3> QED BY <3>5, Zenon
    <2>2. CASE Goto(i, "regGet") /\ UNCHANGED oracle
      <3>1. Looks(i)
        BY <2>2, <1>1, <1>2, <1>5, Zenon DEF Looks, Register, Booting
      <3> QED BY <3>1, Zenon
    <2>3. CASE End(i, "failed") /\ UNCHANGED oracle
      <3>1. Ends(i)
        BY <2>3, <1>1, <1>2, <1>5, Zenon DEF Ends, Register
      <3> QED BY <3>1, Zenon
    <2> QED BY <2>1, <2>2, <2>3, <1>5, Zenon DEF Register
  <1>6. CASE RegisterGet(i)
    <2>1. CASE h = [commitment |-> Region(i), version |-> 0]
      <3>1. h # None
        BY <2>1, <1>1, BootConstants, Parts, SMTT(30), Z3T(30) DEF PinnedHead, Bounded,
           Contents, Region
      <3>2. ServeFrom(i, 0) /\ UNCHANGED oracle
        BY <2>1, <1>6, Zenon DEF RegisterGet
      <3>3. Serves(i)
        BY <3>1, <3>2, <2>1, <1>1, <1>2, <1>6, SMTT(30), Z3T(30) DEF Serves, RegisterGet, oracle
      <3> QED BY <3>3, Zenon
    <2>2. CASE h # [commitment |-> Region(i), version |-> 0]
      <3>1. End(i, "failed")
        BY <2>2, <1>6, Zenon DEF RegisterGet
      <3>2. Ends(i)
        BY <3>1, <1>1, <1>2, <1>6, Zenon DEF Ends, RegisterGet
      <3> QED BY <3>2, Zenon
    <2> QED BY <2>1, <2>2, Zenon
  <1>7. CASE Transition(i)
    <2>1. CASE \E old \in FetchedLinks(i) : HandOver(old, Key(i)) /\ Goto(i, "postGet")
      <3>1. Looks(i)
        BY <2>1, <1>1, <1>2, <1>7, Zenon DEF Looks, Transition, Booting, FetchedLinks
      <3> QED BY <3>1, Zenon
    <2>2. CASE End(i, "failed") /\ UNCHANGED oracle
      <3>1. Ends(i)
        BY <2>2, <1>1, <1>2, <1>7, Zenon DEF Ends, Transition
      <3> QED BY <3>1, Zenon
    <2> QED BY <2>1, <2>2, <1>7, Zenon DEF Transition
  <1>8. CASE PostGet(i)
    <2>1. CASE h # None /\ h.commitment = Region(i)
      <3>1. BootDecision(i) = "serving"
        BY <2>1, Zenon DEF BootDecision, GetOutcome
      <3>2. ServeFrom(i, h.version) /\ UNCHANGED oracle
        BY <3>1, <1>8, Zenon DEF PostGet
      <3>3. Serves(i)
        BY <3>2, <2>1, <1>1, <1>2, <1>3, <1>8, Zenon DEF Serves, PostGet, oracle
      <3> QED BY <3>3, Zenon
    <2>2. CASE h # None /\ h.commitment # Region(i)
      <3>1. BootDecision(i) = "mismatch"
        BY <2>2, Zenon DEF BootDecision, GetOutcome
      <3>2. End(i, "mismatch")
        BY <3>1, <1>8, Zenon DEF PostGet
      <3>3. Ends(i)
        BY <3>2, <2>2, <1>1, <1>2, <1>8, Zenon DEF Ends, PostGet
      <3> QED BY <3>3, Zenon
    <2>3. CASE h = None
      <3>1. BootDecision(i) \in {"register", "transition"}
        BY <2>3, Zenon DEF BootDecision, GetOutcome
      <3>2. End(i, "failed")
        BY <3>1, <1>8, Zenon DEF PostGet
      <3>3. Ends(i)
        BY <3>2, <1>1, <1>2, <1>8, Zenon DEF Ends, PostGet
      <3> QED BY <3>3, Zenon
    <2> QED BY <2>1, <2>2, <2>3, Zenon
  <1> QED BY <1>4, <1>5, <1>6, <1>7, <1>8, Zenon

(* A running instance writes, pins, acknowledges, tries again or ends. *)
LEMMA RunKinds ==
    ASSUME HistoryInv, NEW i \in Instance,
           \/ Write(i) \/ HostApplies(i) \/ Pin(i) \/ PinGet(i) \/ Ack(i) \/ Retry(i)
           \/ Stop(i)
    PROVE  Moving(i)
  <1>1. /\ TypeOK /\ OracleTypeOK /\ inst[i].key = Key(i) /\ inst[i].region = Region(i)
        /\ inst[i].pc \in Up => Key(i) \in PcrKey
        /\ inst[i].expected \in Nat
    <2>1. TypeOK /\ InstInv(i)
      BY Parts, Zenon
    <2>2. inst[i].pc \in Up => Key(i) \in PcrKey
      BY <2>1, Zenon DEF InstInv, Key
    <2> QED BY <2>1, <2>2, Zenon DEF Key, Region, TypeOK
  <1>2. \A pc : /\ Goto(i, pc) => GoesOn(i, pc)
                /\ End(i, pc) => Goes(i, pc, None, inst[i].disk, 0, 0, inst[i].job,
                                      inst[i].applied)
    BY <1>1, Positions, Zenon
  <1> DEFINE h == head[Key(i)]
  <1>3. CASE Write(i)
    <2>1. MakesWrite(i)
      BY <1>3, <1>1, SMTT(30), Z3T(30) DEF Write, MakesWrite, Goes, TypeOK
    <2> QED BY <2>1, Zenon DEF Moving
  <1>4. CASE HostApplies(i)
    <2>1. Lands(i)
      BY <1>4, <1>1, Zenon DEF HostApplies, Lands, Goes, TypeOK
    <2> QED BY <2>1, Zenon DEF Moving
  <1>5. CASE Pin(i)
    <2>1. CASE /\ Swaps(Key(i), inst[i].expected) /\ Extend(Key(i), inst[i].job)
               /\ inst' = [inst EXCEPT ![i].pc = "pinned",
                                       ![i].expected = inst[i].expected + 1]
      <3>1. Goes(i, "pinned", Key(i), inst[i].disk, Region(i), inst[i].expected + 1, inst[i].job,
                 inst[i].applied)
        BY <2>1, <1>1, Zenon DEF Goes, TypeOK
      <3>2. Pins(i)
        BY <2>1, <3>1, <1>1, <1>5, SMTT(30), Z3T(30) DEF Pins, Pin
      <3> QED BY <3>2, Zenon DEF Moving
    <2>2. CASE /\ head[Key(i)] # None /\ ~Swaps(Key(i), inst[i].expected)
               /\ Goto(i, "pinGet") /\ UNCHANGED oracle
      <3>1. Tries(i)
        BY <2>2, <1>2, <1>5, Zenon DEF Tries, Pin
      <3> QED BY <3>1, Zenon DEF Moving
    <2>3. CASE End(i, "failed") /\ UNCHANGED oracle
      <3>1. Ends(i)
        BY <2>3, <1>2, <1>5, Zenon DEF Ends, Pin, Up
      <3> QED BY <3>1, Zenon DEF Moving
    <2> QED BY <2>1, <2>2, <2>3, <1>5, Zenon DEF Pin
  <1>6. CASE PinGet(i)
    <2>1. CASE /\ h # None /\ h.commitment = inst[i].job
               /\ inst' = [inst EXCEPT ![i].pc = "pinned", ![i].expected = h.version]
      <3>1. Goes(i, "pinned", Key(i), inst[i].disk, Region(i), h.version, inst[i].job,
                 inst[i].applied)
        BY <2>1, <1>1, SMTT(30), Z3T(30) DEF Goes, TypeOK
      <3>2. Key(i) \in PcrKey /\ h # None /\ OracleTypeOK
        BY <1>1, <1>6, <2>1, Zenon DEF PinGet, Up
      <3>3. h.version \in Nat
        BY <3>2, HeadTyped, ZenonT(30)
      <3>4. Pins(i)
        BY <2>1, <3>1, <3>3, <1>1, <1>6, Zenon DEF Pins, PinGet
      <3> QED BY <3>4, Zenon DEF Moving
    <2>2. CASE h # None /\ h.commitment # inst[i].job /\ End(i, "fork")
      <3>1. Ends(i)
        BY <2>2, <1>2, <1>6, Zenon DEF Ends, PinGet, Up
      <3> QED BY <3>1, Zenon DEF Moving
    <2>3. CASE End(i, "failed")
      <3>1. Ends(i)
        BY <2>3, <1>2, <1>6, Zenon DEF Ends, PinGet, Up
      <3> QED BY <3>1, Zenon DEF Moving
    <2> QED BY <2>1, <2>2, <2>3, <1>6, Zenon DEF PinGet
  <1>7. CASE Ack(i)
    <2>1. Acks(i)
      BY <1>7, <1>1, Zenon DEF Ack, Acks, Goes, TypeOK
    <2> QED BY <2>1, Zenon DEF Moving
  <1>8. CASE Retry(i)
    <2>1. GoesOn(i, "pin")
      BY <1>8, <1>1, Zenon DEF Retry, GoesOn, Goes, TypeOK
    <2>2. Tries(i)
      BY <2>1, <1>8, Zenon DEF Retry, Tries
    <2> QED BY <2>2, Zenon DEF Moving
  <1>9. CASE Stop(i)
    <2>1. Ends(i)
      BY <1>2, <1>9, Zenon DEF Ends, Stop
    <2> QED BY <2>1, Zenon DEF Moving
  <1> QED BY <1>3, <1>4, <1>5, <1>6, <1>7, <1>8, <1>9, Zenon

(* boot starts an instance on what its disk holds. *)
LEMMA StartKind ==
    ASSUME HistoryInv, NEW i \in Instance, NEW k \in PcrKey, NEW d \in Disk, Boot(i, k, d)
    PROVE  Starts(i)
  <1>1. TypeOK
    BY Parts, Zenon
  <1>2. Goes(i, "get", k, d, disk[d], 0, 0, TRUE)
    BY <1>1, Zenon DEF Boot, Goes, Off, ReadRegion, TypeOK
  <1>3. alone' => alone /\ Live = {} /\ \A j \in Instance : inst[j].disk \in {None, d}
    BY ZenonT(30) DEF Boot
  <1>4. inst[i].pc = "off" /\ UNCHANGED <<oracle, disk, writes, late, acked>>
    BY Zenon DEF Boot
  <1> QED BY <1>2, <1>3, <1>4, ZenonT(30) DEF Starts

(* Every step moves one instance, executes an operation late or restores a *)
(* disk.                                                                   *)
LEMMA Kinds ==
    ASSUME HistoryInv, Next
    PROVE  \/ \E i \in Instance : Moving(i)
           \/ \E m \in late : LateApply(m)
           \/ \E d \in Disk : Restore(d)
  <1>1. ASSUME NEW i \in Instance, NEW k \in PcrKey, NEW d \in Disk, Boot(i, k, d)
        PROVE  Moving(i)
    BY <1>1, StartKind, Zenon DEF Moving
  <1>2. ASSUME NEW i \in Instance,
               BootGet(i) \/ Register(i) \/ RegisterGet(i) \/ Transition(i) \/ PostGet(i)
        PROVE  Moving(i)
    <2>1. inst[i].pc \in Booting
      BY <1>2, Zenon DEF BootGet, Register, RegisterGet, Transition, PostGet, Booting
    <2> QED BY <2>1, <1>2, BootKinds, Zenon DEF Moving
  <1>3. ASSUME NEW i \in Instance,
               \/ Write(i) \/ HostApplies(i) \/ Pin(i) \/ PinGet(i) \/ Ack(i) \/ Retry(i)
               \/ Stop(i)
        PROVE  Moving(i)
    BY <1>3, RunKinds, Zenon
  <1> QED BY <1>1, <1>2, <1>3, Zenon DEF Next

-----------------------------------------------------------------------------
(* Types *)

State == [pc : Up \cup {"off", "failed", "mismatch", "fork"}, key : PcrKey \cup {None},
          disk : Disk \cup {None}, region : Nat, expected : Nat, job : Nat,
          applied : BOOLEAN, tries : Nat]

Pcs == Up \cup {"off", "failed", "mismatch", "fork"}

(* A field of an instance gets a value of its type. *)
LEMMA RecordTyped ==
    ASSUME NEW s \in State
    PROVE  /\ \A pc \in Pcs : [s EXCEPT !.pc = pc] \in State
           /\ \A k \in PcrKey : [s EXCEPT !.key = k] \in State
           /\ \A d \in Disk \cup {None} : [s EXCEPT !.disk = d] \in State
           /\ \A n \in Nat : /\ [s EXCEPT !.region = n] \in State
                             /\ [s EXCEPT !.expected = n] \in State
                             /\ [s EXCEPT !.job = n] \in State
                             /\ [s EXCEPT !.tries = n] \in State
           /\ \A b \in BOOLEAN : [s EXCEPT !.applied = b] \in State
  <1>1. \A pc \in Pcs : [s EXCEPT !.pc = pc] \in State
    BY Zenon DEF State, Pcs
  <1>2. \A k \in PcrKey : [s EXCEPT !.key = k] \in State
    BY Zenon DEF State
  <1>3. \A d \in Disk \cup {None} : [s EXCEPT !.disk = d] \in State
    BY Zenon DEF State
  <1>4. \A n \in Nat : [s EXCEPT !.region = n] \in State
    BY Zenon DEF State
  <1>5. \A n \in Nat : [s EXCEPT !.expected = n] \in State
    BY Zenon DEF State
  <1>6. \A n \in Nat : [s EXCEPT !.job = n] \in State
    BY Zenon DEF State
  <1>7. \A n \in Nat : [s EXCEPT !.tries = n] \in State
    BY Zenon DEF State
  <1>8. \A b \in BOOLEAN : [s EXCEPT !.applied = b] \in State
    BY Zenon DEF State
  <1> QED BY <1>1, <1>2, <1>3, <1>4, <1>5, <1>6, <1>7, <1>8, Zenon

(* An instance at its place among the others gets a typed field. *)
LEMMA FieldTyped ==
    ASSUME NEW f \in [Instance -> State], NEW i \in Instance
    PROVE  /\ \A pc \in Pcs : [f EXCEPT ![i].pc = pc] \in [Instance -> State]
           /\ \A n \in Nat : /\ [f EXCEPT ![i].region = n] \in [Instance -> State]
                             /\ [f EXCEPT ![i].expected = n] \in [Instance -> State]
                             /\ [f EXCEPT ![i].job = n] \in [Instance -> State]
                             /\ [f EXCEPT ![i].tries = n] \in [Instance -> State]
           /\ \A b \in BOOLEAN : [f EXCEPT ![i].applied = b] \in [Instance -> State]
  <1>1. f[i] \in State
    BY Zenon
  <1>2. \A s \in State : [f EXCEPT ![i] = s] \in [Instance -> State]
    BY Zenon
  <1> QED BY <1>1, <1>2, RecordTyped, ZenonT(30)

(* The state an instance starts or ends in is typed. *)
LEMMA OffTyped ==
    /\ \A k \in PcrKey, d \in Disk, n \in Nat :
          [Off EXCEPT !.pc = "get", !.key = k, !.disk = d, !.region = n] \in State
    /\ \A pc \in Pcs, d \in Disk \cup {None}, n \in Nat, b \in BOOLEAN :
          [Off EXCEPT !.pc = pc, !.disk = d, !.job = n, !.applied = b] \in State
  <1>1. Off \in State
    BY Zenon DEF Off, State
  <1>2. ASSUME NEW k \in PcrKey, NEW d \in Disk, NEW n \in Nat
        PROVE  [Off EXCEPT !.pc = "get", !.key = k, !.disk = d, !.region = n] \in State
    <2> DEFINE s == [Off EXCEPT !.pc = "get"]
               t == [s EXCEPT !.key = k]
               u == [t EXCEPT !.disk = d]
    <2>1. s \in State
      BY <1>1, RecordTyped, ZenonT(30) DEF Pcs, Up
    <2>2. [Off EXCEPT !.pc = "get", !.key = k, !.disk = d, !.region = n]
             = [u EXCEPT !.region = n]
      BY Zenon
    <2> HIDE DEF s
    <2>3. t \in State
      BY <2>1, RecordTyped, ZenonT(30)
    <2> HIDE DEF t
    <2>4. u \in State
      BY <2>3, RecordTyped, ZenonT(30)
    <2> HIDE DEF u
    <2> QED BY <2>2, <2>4, RecordTyped, ZenonT(30)
  <1>3. ASSUME NEW pc \in Pcs, NEW d \in Disk \cup {None}, NEW n \in Nat, NEW b \in BOOLEAN
        PROVE  [Off EXCEPT !.pc = pc, !.disk = d, !.job = n, !.applied = b] \in State
    <2> DEFINE s == [Off EXCEPT !.pc = pc]
               t == [s EXCEPT !.disk = d]
               u == [t EXCEPT !.job = n]
    <2>1. s \in State
      BY <1>1, RecordTyped, ZenonT(30)
    <2>2. [Off EXCEPT !.pc = pc, !.disk = d, !.job = n, !.applied = b]
             = [u EXCEPT !.applied = b]
      BY Zenon
    <2> HIDE DEF s
    <2>3. t \in State
      BY <2>1, RecordTyped, ZenonT(30)
    <2> HIDE DEF t
    <2>4. u \in State
      BY <2>3, RecordTyped, ZenonT(30)
    <2> HIDE DEF u
    <2> QED BY <2>2, <2>4, RecordTyped, ZenonT(30)
  <1> QED BY <1>2, <1>3, ZenonT(30)

(* Every step leaves the instances typed. *)
LEMMA InstTyped ==
    ASSUME HistoryInv, Next
    PROVE  inst' \in [Instance -> State]
  <1>1. /\ TypeOK /\ OracleTypeOK /\ inst \in [Instance -> State]
        /\ disk \in [Disk -> Nat] /\ Len(writes) \in Nat
    BY Parts, SMTT(30), Z3T(30) DEF TypeOK, State
  <1>2. ASSUME NEW i \in Instance, NEW s \in State, inst' = [inst EXCEPT ![i] = s]
        PROVE  inst' \in [Instance -> State]
    BY <1>1, <1>2, Zenon
  <1>3. ASSUME NEW i \in Instance, NEW pc \in Pcs
        PROVE  Goto(i, pc) \/ End(i, pc) => inst' \in [Instance -> State]
    <2>1. CASE Goto(i, pc)
      BY <1>1, <2>1, FieldTyped, ZenonT(30) DEF Goto
    <2>2. CASE End(i, pc)
      <3>1. [Off EXCEPT !.pc = pc, !.disk = inst[i].disk, !.job = inst[i].job,
                        !.applied = inst[i].applied] \in State
        <4>1. /\ inst[i].disk \in Disk \cup {None} /\ inst[i].job \in Nat
              /\ inst[i].applied \in BOOLEAN
          BY <1>1, Zenon DEF State
        <4> QED BY <4>1, OffTyped, ZenonT(30)
      <3> QED BY <2>2, <3>1, <1>2, ZenonT(30) DEF End
    <2> QED BY <2>1, <2>2, Zenon
  <1>4. ASSUME NEW i \in Instance, NEW v \in Nat, ServeFrom(i, v)
        PROVE  inst' \in [Instance -> State]
    <2> DEFINE f == [inst EXCEPT ![i].pc = "serving"]
    <2>1. f \in [Instance -> State]
      BY <1>1, FieldTyped, ZenonT(30) DEF Pcs, Up
    <2>2. inst' = [f EXCEPT ![i].expected = v]
      BY <1>4, Zenon DEF ServeFrom
    <2> HIDE DEF f
    <2> QED BY <2>1, <2>2, FieldTyped, ZenonT(30)
  <1>5. ASSUME NEW i \in Instance, inst[i].pc \in Up, head[Key(i)] # None
        PROVE  head[Key(i)].version \in Nat
    <2>1. Key(i) \in PcrKey
      BY <1>5, Parts, Zenon DEF InstInv, Key
    <2> QED BY <1>1, <1>5, <2>1, HeadTyped, ZenonT(30)
  <1>6. ASSUME NEW i \in Instance, NEW k \in PcrKey, NEW d \in Disk, Boot(i, k, d)
        PROVE  inst' \in [Instance -> State]
    <2>1. [Off EXCEPT !.pc = "get", !.key = k, !.disk = d, !.region = ReadRegion(d)] \in State
      <3>1. disk[d] \in Nat
        BY <1>1, Zenon
      <3> QED BY <3>1, OffTyped, ZenonT(30) DEF ReadRegion
    <2> QED BY <1>6, <2>1, <1>2, ZenonT(30) DEF Boot
  <1>7. ASSUME NEW i \in Instance, BootGet(i)
        PROVE  inst' \in [Instance -> State]
    <2>1. inst[i].pc \in Up
      BY <1>7, Zenon DEF BootGet, Up
    <2>2. BootDecision(i) \in {"serving", "mismatch", "register", "transition"}
      BY Zenon DEF BootDecision
    <2>3. CASE BootDecision(i) = "serving"
      <3>1. head[Key(i)] # None
        BY <2>3, Zenon DEF BootDecision, GetOutcome
      <3>2. ServeFrom(i, head[Key(i)].version)
        BY <2>3, <1>7, Zenon DEF BootGet
      <3> QED BY <3>1, <3>2, <2>1, <1>4, <1>5, Zenon
    <2>4. CASE BootDecision(i) = "mismatch"
      BY <2>4, <1>3, <1>7, Zenon DEF BootGet, Pcs
    <2>5. CASE BootDecision(i) \in {"register", "transition"}
      BY <2>5, <1>3, <1>7, Zenon DEF BootGet, Pcs, Up
    <2> QED BY <2>2, <2>3, <2>4, <2>5, Zenon
  <1>8. ASSUME NEW i \in Instance, Register(i) \/ RegisterGet(i) \/ Transition(i)
        PROVE  inst' \in [Instance -> State]
    <2>1. ServeFrom(i, 0) \/ Goto(i, "regGet") \/ Goto(i, "postGet") \/ End(i, "failed")
      BY <1>8, Zenon DEF Register, RegisterGet, Transition
    <2> QED BY <2>1, <1>3, <1>4, Zenon DEF Pcs, Up
  <1>9. ASSUME NEW i \in Instance, PostGet(i)
        PROVE  inst' \in [Instance -> State]
    <2>1. inst[i].pc \in Up
      BY <1>9, Zenon DEF PostGet, Up
    <2>2. CASE BootDecision(i) = "serving"
      <3>1. head[Key(i)] # None
        BY <2>2, Zenon DEF BootDecision, GetOutcome
      <3>2. ServeFrom(i, head[Key(i)].version)
        BY <2>2, <1>9, Zenon DEF PostGet
      <3> QED BY <3>1, <3>2, <2>1, <1>4, <1>5, Zenon
    <2>3. CASE BootDecision(i) # "serving"
      <3>1. End(i, "mismatch") \/ End(i, "failed")
        BY <2>3, <1>9, Zenon DEF PostGet
      <3> QED BY <3>1, <1>3, Zenon DEF Pcs
    <2> QED BY <2>2, <2>3, Zenon
  <1>10. ASSUME NEW i \in Instance, Write(i) \/ HostApplies(i) \/ Ack(i) \/ Retry(i)
         PROVE  inst' \in [Instance -> State]
    <2>1. CASE Write(i)
      <3> DEFINE f == [inst EXCEPT ![i].pc = "pin"]
                 g == [f EXCEPT ![i].job = Len(writes) + 1]
                 h == [g EXCEPT ![i].applied = FALSE]
      <3>1. f \in [Instance -> State]
        BY <1>1, FieldTyped, ZenonT(30) DEF Pcs, Up
      <3>2. inst' = [h EXCEPT ![i].tries = 1]
        BY <2>1, Zenon DEF Write
      <3> HIDE DEF f
      <3>3. Len(writes) + 1 \in Nat /\ 1 \in Nat /\ FALSE \in BOOLEAN
        BY <1>1, SMTT(30), Z3T(30)
      <3>4. g \in [Instance -> State]
        BY <3>1, <3>3, FieldTyped, ZenonT(30)
      <3> HIDE DEF g
      <3>5. h \in [Instance -> State]
        BY <3>3, <3>4, FieldTyped, ZenonT(30)
      <3> HIDE DEF h
      <3> QED BY <3>2, <3>3, <3>5, FieldTyped, ZenonT(30)
    <2>2. CASE HostApplies(i)
      BY <1>1, <2>2, FieldTyped, ZenonT(30) DEF HostApplies
    <2>3. CASE Ack(i)
      <3> DEFINE f == [inst EXCEPT ![i].pc = "serving"]
      <3>1. f \in [Instance -> State]
        BY <1>1, FieldTyped, ZenonT(30) DEF Pcs, Up
      <3>2. inst' = [f EXCEPT ![i].region = inst[i].job] /\ inst[i].job \in Nat
        BY <1>1, <2>3, Zenon DEF Ack, State
      <3> HIDE DEF f
      <3> QED BY <3>1, <3>2, FieldTyped, ZenonT(30)
    <2>4. CASE Retry(i)
      <3> DEFINE f == [inst EXCEPT ![i].pc = "pin"]
      <3>1. f \in [Instance -> State]
        BY <1>1, FieldTyped, ZenonT(30) DEF Pcs, Up
      <3>2. inst' = [f EXCEPT ![i].tries = inst[i].tries + 1] /\ inst[i].tries + 1 \in Nat
        BY <1>1, <2>4, SMTT(30), Z3T(30) DEF Retry, State
      <3> HIDE DEF f
      <3> QED BY <3>1, <3>2, FieldTyped, ZenonT(30)
    <2> QED BY <1>10, <2>1, <2>2, <2>3, <2>4, Zenon
  <1>11. ASSUME NEW i \in Instance, NEW v \in Nat,
                inst' = [inst EXCEPT ![i].pc = "pinned", ![i].expected = v]
         PROVE  inst' \in [Instance -> State]
    <2> DEFINE f == [inst EXCEPT ![i].pc = "pinned"]
    <2>1. f \in [Instance -> State]
      BY <1>1, FieldTyped, ZenonT(30) DEF Pcs, Up
    <2>2. inst' = [f EXCEPT ![i].expected = v]
      BY <1>11, Zenon
    <2> HIDE DEF f
    <2> QED BY <2>1, <2>2, FieldTyped, ZenonT(30)
  <1>12. ASSUME NEW i \in Instance, Pin(i)
         PROVE  inst' \in [Instance -> State]
    <2>1. inst[i].expected + 1 \in Nat
      BY <1>1, SMTT(30), Z3T(30) DEF State
    <2>2. \/ inst' = [inst EXCEPT ![i].pc = "pinned", ![i].expected = inst[i].expected + 1]
          \/ Goto(i, "pinGet") \/ End(i, "failed")
      BY <1>12, Zenon DEF Pin
    <2> QED BY <2>1, <2>2, <1>3, <1>11, Zenon DEF Pcs, Up
  <1>13. ASSUME NEW i \in Instance, PinGet(i)
         PROVE  inst' \in [Instance -> State]
    <2>1. inst[i].pc \in Up
      BY <1>13, Zenon DEF PinGet, Up
    <2>2. CASE /\ head[Key(i)] # None
               /\ inst' = [inst EXCEPT ![i].pc = "pinned", ![i].expected = head[Key(i)].version]
      <3>1. head[Key(i)].version \in Nat
        BY <2>1, <2>2, <1>5, Zenon
      <3> QED BY <3>1, <2>2, <1>11, ZenonT(30)
    <2>3. CASE End(i, "fork") \/ End(i, "failed")
      BY <2>3, <1>3, Zenon DEF Pcs
    <2> QED BY <1>13, <2>2, <2>3, Zenon DEF PinGet
  <1>14. ASSUME NEW i \in Instance, Stop(i)
         PROVE  inst' \in [Instance -> State]
    BY <1>3, <1>14, Zenon DEF Stop, Pcs
  <1>15. ASSUME NEW m, LateApply(m)
         PROVE  inst' \in [Instance -> State]
    BY <1>1, <1>15, Zenon DEF LateApply
  <1>16. ASSUME NEW d, Restore(d)
         PROVE  inst' \in [Instance -> State]
    BY <1>1, <1>16, Zenon DEF Restore
  <1> QED BY <1>6, <1>7, <1>8, <1>9, <1>10, <1>12, <1>13, <1>14, <1>15, <1>16, Zenon DEF Next

-----------------------------------------------------------------------------
(* The history *)

(* What a step does to the writes, and to the oracle: it starts the        *)
(* history with a blank volume, extends it by a write made on top of it,   *)
(* or hands it over.                                                       *)
WritesMove == UNCHANGED writes \/ \E i \in Instance : MakesWrite(i)
Extends(k, c) == /\ k \in PcrKey /\ c \in 1..Len(writes) /\ Extend(k, c)
                 /\ writes[c].after = Upto(head[k].commitment)
OracleMove == \/ UNCHANGED oracle
              \/ /\ UNCHANGED writes
                 /\ \/ \E k \in Genesis : Start(k, 0)
                    \/ \E k, c : Extends(k, c)
                    \/ \E old, new \in PcrKey : HandOver(old, new)

(* What was written stays, and was written on earlier contents only. *)
LEMMA WritesStable ==
    ASSUME TypeOK, Bounded, WritesMove
    PROVE  /\ Len(writes) \in Nat /\ Contents \subseteq Contents'
           /\ 1..Len(writes) \subseteq 1..Len(writes')
           /\ \A c \in 1..Len(writes) : writes'[c] = writes[c]
           /\ \A c \in Contents : Upto(c)' = Upto(c) /\ Upto(c) \subseteq 0..c
  <1>1. Len(writes) \in Nat /\ writes \in Seq([by : Instance, after : SUBSET Nat])
    BY SMTT(30), Z3T(30) DEF TypeOK
  <1>2. /\ 1..Len(writes) \subseteq 1..Len(writes') /\ Contents \subseteq Contents'
        /\ \A c \in 1..Len(writes) : writes'[c] = writes[c]
    <2>1. CASE UNCHANGED writes
      BY <2>1, Zenon DEF Contents
    <2>2. CASE \E i \in Instance : MakesWrite(i)
      <3> PICK i \in Instance : MakesWrite(i)
        BY <2>2, Zenon
      <3> DEFINE w == [by |-> i, after |-> Upto(Region(i))]
      <3>1. writes' = Append(writes, w)
        BY Zenon DEF MakesWrite
      <3> HIDE DEF w
      <3>2. Len(writes') = Len(writes) + 1 /\ \A c \in 1..Len(writes) : writes'[c] = writes[c]
        BY <3>1, <1>1, SMTT(30), Z3T(30)
      <3> QED BY <3>2, <1>1, SMTT(30), Z3T(30) DEF Contents
    <2> QED BY <2>1, <2>2, Zenon DEF WritesMove
  <1>3. ASSUME NEW c \in Contents PROVE Upto(c)' = Upto(c) /\ Upto(c) \subseteq 0..c
    <2>1. CASE c = 0
      BY <2>1, SMTT(30), Z3T(30) DEF Upto
    <2>2. CASE c # 0
      <3>1. c \in 1..Len(writes)
        BY <1>1, <2>2, SMTT(30), Z3T(30) DEF Contents
      <3>2. writes[c].after \subseteq 0..(c - 1) /\ writes'[c] = writes[c]
        BY <1>2, <3>1, Zenon DEF Bounded
      <3>3. Upto(c) = writes[c].after \cup {c} /\ Upto(c)' = writes'[c].after \cup {c}
        BY <2>2, Zenon DEF Upto
      <3> QED BY <1>1, <3>1, <3>2, <3>3, SMTT(30), Z3T(30)
    <2> QED BY <2>1, <2>2, Zenon
  <1> QED BY <1>1, <1>2, <1>3, Zenon

(* What the oracle's moves leave typed *)
LEMMA OracleMoveTyped ==
    ASSUME TypeOK, Bounded, OracleMove
    PROVE  OracleTypeOK' /\ OracleTypeOK
  <1>1. OracleTypeOK /\ 1..Len(writes) \subseteq Commitment /\ 0 \in Commitment
        /\ Genesis \subseteq PcrKey
    BY BootConstants, SMTT(30), Z3T(30) DEF TypeOK, Bounded
  <1>2. CASE UNCHANGED oracle
    BY <1>1, <1>2, Zenon DEF OracleTypeOK, oracle
  <1>3. ASSUME NEW k \in Genesis, Start(k, 0) PROVE OracleTypeOK'
    BY <1>1, <1>3, OracleTyped, Zenon
  <1>4. ASSUME NEW k, NEW c, Extends(k, c) PROVE OracleTypeOK'
    BY <1>1, <1>4, OracleTyped, Zenon DEF Extends
  <1>5. ASSUME NEW old \in PcrKey, NEW new \in PcrKey, HandOver(old, new) PROVE OracleTypeOK'
    BY <1>1, <1>5, OracleTyped, Zenon
  <1> QED BY <1>1, <1>2, <1>3, <1>4, <1>5, Zenon DEF OracleMove

(* What the oracle's moves do to the key of a history *)
LEMMA HeadMoves ==
    ASSUME TypeOK, Bounded, OracleMove, NEW k \in PcrKey, ~Fresh(k)
    PROVE  /\ ~Fresh(k)'
           /\ \/ head'[k] = head[k] \/ head'[k] = None
              \/ /\ head[k] # None /\ head'[k] # None
                 /\ head'[k].version = head[k].version + 1
                 /\ \E c : Extends(k, c) /\ head'[k].commitment = c
  <1>1. OracleTypeOK' /\ OracleTypeOK /\ Genesis \subseteq PcrKey
    BY OracleMoveTyped, BootConstants, Zenon
  <1>2. CASE UNCHANGED oracle
    BY <1>2, Zenon DEF Fresh, oracle
  <1>3. ASSUME NEW x \in Genesis, Start(x, 0) PROVE ~Fresh(k)' /\ head'[k] = head[k]
    <2>1. x # k
      BY <1>3, Zenon DEF Start
    <2> QED BY <1>1, <1>3, <2>1, Zenon DEF Start, Fresh, OracleTypeOK
  <1>4. ASSUME NEW x, NEW c, Extends(x, c)
        PROVE  /\ ~Fresh(k)'
               /\ \/ head'[k] = head[k]
                  \/ /\ head[k] # None /\ head'[k] # None
                     /\ head'[k].version = head[k].version + 1
                     /\ x = k /\ head'[k].commitment = c
    <2>1. CASE x # k
      BY <1>1, <1>4, <2>1, Zenon DEF Extends, Extend, Fresh, OracleTypeOK
    <2>2. CASE x = k
      <3>1. head[k] # None
            /\ head'[k] = [commitment |-> c, version |-> head[k].version + 1]
        BY <1>1, <1>4, <2>2, Zenon DEF Extends, Extend, OracleTypeOK
      <3>2. c \in Commitment /\ head[k].version \in Nat
        BY <3>1, <1>1, <1>4, BootConstants, HeadTyped, SMTT(30), Z3T(30) DEF Extends, Bounded,
           TypeOK
      <3>3. head'[k] # None
        BY <3>1, <3>2, BootConstants, SMTT(30), Z3T(30) DEF PinnedHead
      <3> QED BY <2>2, <3>1, <3>3, SMTT(30), Z3T(30) DEF Fresh
    <2> QED BY <2>1, <2>2, Zenon
  <1>5. ASSUME NEW old \in PcrKey, NEW new \in PcrKey, HandOver(old, new)
        PROVE  ~Fresh(k)' /\ (head'[k] = head[k] \/ head'[k] = None)
    <2>1. new # k /\ new # old
      BY <1>5, Zenon DEF HandOver, Fresh
    <2> QED BY <1>1, <1>5, <2>1, Zenon DEF HandOver, Fresh, OracleTypeOK
  <1>6. CASE \E x, c : Extends(x, c)
    <2> PICK x, c : Extends(x, c)
      BY <1>6, Zenon
    <2> QED BY <1>4, SMTT(30), Z3T(30)
  <1> QED BY <1>2, <1>3, <1>5, <1>6, Zenon DEF OracleMove

(* What a client knows of a key stays true, whatever the others do. *)
LEMMA AtStable ==
    ASSUME TypeOK, Bounded, OracleMove, NEW k, NEW v \in Nat, NEW c, At(k, v, c)
    PROVE  At(k, v, c)'
  <1>1. k \in PcrKey /\ ~Fresh(k)
    BY Zenon DEF At
  <1>2. /\ ~Fresh(k)'
        /\ \/ head'[k] = head[k] \/ head'[k] = None
           \/ head[k] # None /\ head'[k] # None /\ head'[k].version = head[k].version + 1
    BY <1>1, HeadMoves, Zenon
  <1>3. head[k] # None => head[k].version \in Nat
    BY <1>1, HeadTyped, Zenon DEF TypeOK
  <1> QED BY <1>1, <1>2, <1>3, SMTT(30), Z3T(30) DEF At

(* The history is the one of the key that holds it. *)
LEMMA CommittedIs ==
    ASSUME NEW k \in PcrKey, NEW c
    PROVE  /\ OneHistory /\ head[k] # None /\ head[k].commitment = c => Committed = Upto(c)
           /\ OneHistory' /\ head'[k] # None /\ head'[k].commitment = c => Committed' = Upto(c)'
           /\ NoHistory => Committed = {}
           /\ NoHistory' => Committed' = {}
  <1>1. ASSUME OneHistory, head[k] # None, head[k].commitment = c PROVE Committed = Upto(c)
    <2>1. {x \in PcrKey : head[x] # None} = {k}
      BY <1>1, Zenon DEF OneHistory
    <2> QED BY <1>1, <2>1, Zenon DEF Committed
  <1>2. ASSUME OneHistory', head'[k] # None, head'[k].commitment = c
        PROVE  Committed' = Upto(c)'
    <2>1. {x \in PcrKey : head'[x] # None} = {k}
      BY <1>2, Zenon DEF OneHistory
    <2> QED BY <1>2, <2>1, Zenon DEF Committed, Upto
  <1>3. ASSUME NoHistory PROVE Committed = {}
    BY <1>3, Zenon DEF NoHistory, Committed
  <1>4. ASSUME NoHistory' PROVE Committed' = {}
    BY <1>4, Zenon DEF NoHistory, Committed
  <1> QED BY <1>1, <1>2, <1>3, <1>4, Zenon

(* A history starts, moves on or is handed over as one history. *)
LEMMA OneHeadStep ==
    ASSUME HistoryInv, OracleMove
    PROVE  /\ \A a, b \in PcrKey : head'[a] # None /\ head'[b] # None => a = b
           /\ NoHistory' => NoHistory /\ retired' = retired
           /\ \A k \in Genesis : Fresh(k)' => NoHistory'
  <1>1. OracleTypeOK' /\ OracleTypeOK /\ OneHistory /\ Genesis \subseteq PcrKey
        /\ TypeOK /\ Bounded
    BY OracleMoveTyped, BootConstants, Parts, Zenon
  <1>2. CASE UNCHANGED oracle
    BY <1>1, <1>2, Zenon DEF OneHistory, NoHistory, Fresh, oracle
  <1>3. ASSUME NEW x \in Genesis, Start(x, 0)
        PROVE  /\ \A a \in PcrKey : head'[a] # None => a = x
               /\ head'[x] # None
               /\ \A k \in Genesis : ~Fresh(k)'
    <2>1. NoHistory
      BY <1>1, <1>3, Zenon DEF Start, OneHistory
    <2>2. head'[x] # None
      BY <1>1, <1>3, BootConstants, SMTT(30), Z3T(30) DEF Start, OracleTypeOK, PinnedHead
    <2>3. \A a \in PcrKey : a # x => head'[a] = None
      BY <1>1, <1>3, <2>1, Zenon DEF Start, OracleTypeOK, NoHistory
    <2> QED BY <2>2, <2>3, OneGenesis, Zenon DEF Fresh
  <1>4. ASSUME NEW x, NEW c, Extends(x, c)
        PROVE  x \in PcrKey /\ head[x] # None /\ retired' = retired
               /\ \A a \in PcrKey : head'[a] # None <=> a = x
    <2>1. x \in PcrKey /\ head[x] # None /\ retired' = retired /\ ~Fresh(x)
      BY <1>4, Zenon DEF Extends, Extend, Fresh
    <2>2. \A a \in PcrKey : a # x => head'[a] = None
      BY <1>1, <1>4, <2>1, Zenon DEF Extends, Extend, OracleTypeOK, OneHistory
    <2>3. head'[x] # None
      <3>0. head[x].version \in Nat
        BY <2>1, <1>1, HeadTyped, Zenon
      <3>1. c \in Commitment /\ head[x].version + 1 \in Nat
        BY <1>1, <1>4, <3>0, BootConstants, SMTT(30), Z3T(30) DEF Extends, Bounded
      <3>2. head'[x] = [commitment |-> c, version |-> head[x].version + 1]
        BY <2>1, <1>1, <1>4, Zenon DEF Extends, Extend, OracleTypeOK
      <3> QED BY <3>1, <3>2, BootConstants, SMTT(30), Z3T(30) DEF PinnedHead
    <2> QED BY <2>1, <2>2, <2>3, Zenon
  <1>5. ASSUME NEW old \in PcrKey, NEW new \in PcrKey, HandOver(old, new)
        PROVE  /\ \A a \in PcrKey : head'[a] # None <=> a = new
               /\ head[old] # None /\ head'[new] = head[old]
               /\ retired' = retired \cup {old}
    <2>1. new # old /\ head[old] # None
      BY <1>5, Zenon DEF HandOver, Fresh
    <2>2. head'[new] = head[old] /\ head'[old] = None
          /\ \A a \in PcrKey : a \notin {old, new} => head'[a] = head[a]
      BY <2>1, <1>1, <1>5, Zenon DEF HandOver, OracleTypeOK
    <2>3. \A a \in PcrKey : a \notin {old, new} => head'[a] = None
      BY <2>1, <2>2, <1>1, Zenon DEF OneHistory
    <2>4. retired' = retired \cup {old}
      BY <1>5, Zenon DEF HandOver
    <2> QED BY <2>1, <2>2, <2>3, <2>4, Zenon
  <1>6. CASE \E x \in Genesis : Start(x, 0)
    BY <1>1, <1>3, <1>6, Zenon DEF NoHistory
  <1>7. CASE \E x, c : Extends(x, c)
    <2> PICK x, c : Extends(x, c)
      BY <1>7, Zenon
    <2>1. x \in PcrKey /\ head[x] # None /\ retired' = retired
          /\ \A a \in PcrKey : head'[a] # None <=> a = x
      BY <1>4, Zenon
    <2>2. \A k \in Genesis : ~Fresh(k)
      BY <2>1, <1>1, Zenon DEF OneHistory, NoHistory
    <2>3. \A k \in Genesis : ~Fresh(k)'
      <3> SUFFICES ASSUME NEW k \in Genesis PROVE ~Fresh(k)'
        BY Zenon
      <3>1. k \in PcrKey /\ ~Fresh(k)
        BY <1>1, <2>2, Zenon
      <3> QED BY <3>1, <1>1, HeadMoves, Zenon
    <2> QED BY <2>1, <2>3, Zenon DEF NoHistory
  <1>8. CASE \E old, new \in PcrKey : HandOver(old, new)
    <2> PICK old \in PcrKey, new \in PcrKey : HandOver(old, new)
      BY <1>8, Zenon
    <2>1. /\ \A a \in PcrKey : head'[a] # None <=> a = new
          /\ head[old] # None /\ head'[new] = head[old] /\ retired' = retired \cup {old}
      BY <1>5, Zenon
    <2>2. \A k \in Genesis : ~Fresh(k)
      BY <2>1, <1>1, Zenon DEF OneHistory, NoHistory
    <2>3. \A k \in Genesis : ~Fresh(k)'
      BY <2>1, <2>2, <1>1, Zenon DEF Fresh, OneHistory
    <2> QED BY <2>1, <2>3, Zenon DEF NoHistory
  <1> QED BY <1>2, <1>6, <1>7, <1>8, Zenon DEF OracleMove

(* The history is a line that only grows. *)
LEMMA CommittedGrows ==
    ASSUME HistoryInv, OracleMove, WritesMove, OneHistory'
    PROVE  /\ Committed \subseteq Contents /\ Committed \subseteq Committed'
           /\ \A a, b \in Committed' : a \in Upto(b)' \/ b \in Upto(a)'
           /\ \A k, c : Extends(k, c) => c \in Committed'
  <1>1. /\ TypeOK /\ Bounded /\ OneHistory /\ OracleTypeOK /\ Genesis \subseteq PcrKey
        /\ \A a, b \in Committed : a \in Upto(b) \/ b \in Upto(a)
    BY BootConstants, Parts, Zenon DEF CommittedInv, TypeOK
  <1>2. /\ Len(writes) \in Nat
        /\ \A c \in 1..Len(writes) : writes'[c] = writes[c]
        /\ \A c \in Contents : Upto(c)' = Upto(c) /\ Upto(c) \subseteq 0..c
    BY <1>1, WritesStable, Zenon
  <1>3. ASSUME Committed \subseteq Contents, Committed' = Committed
        PROVE  \A a, b \in Committed' : a \in Upto(b)' \/ b \in Upto(a)'
    <2> SUFFICES ASSUME NEW a \in Committed, NEW b \in Committed
                 PROVE  a \in Upto(b)' \/ b \in Upto(a)'
      BY <1>3, Zenon
    <2>1. Upto(a)' = Upto(a) /\ Upto(b)' = Upto(b)
      BY <1>2, <1>3, Zenon
    <2> QED BY <1>1, <2>1, Zenon
  <1>4. CASE NoHistory
    <2>1. \A k, c : ~Extends(k, c)
      BY <1>4, Zenon DEF NoHistory, Extends, Extend
    <2>2. CASE UNCHANGED oracle
      <3>1. NoHistory'
        BY <1>4, <2>2, Zenon DEF NoHistory, oracle
      <3>2. Committed = {} /\ Committed' = {}
        BY <1>4, <3>1, Zenon DEF NoHistory, Committed
      <3> QED BY <2>1, <3>2, Zenon
    <2>3. CASE \E k \in Genesis : Start(k, 0)
      <3> PICK k \in Genesis : Start(k, 0)
        BY <2>3, Zenon
      <3>1. k \in PcrKey /\ head'[k] = [commitment |-> 0, version |-> 0]
        BY <1>1, Zenon DEF Start, OracleTypeOK
      <3>2. head'[k] # None
        BY <3>1, BootConstants, SMTT(30), Z3T(30) DEF PinnedHead
      <3>3. Committed' = Upto(0)' /\ Committed = {}
        BY <1>4, <3>1, <3>2, CommittedIs, SMTT(30), Z3T(30)
      <3>4. Upto(0)' = {0}
        BY Zenon DEF Upto
      <3> QED BY <2>1, <3>3, <3>4, Zenon
    <2>4. \A old, new \in PcrKey : ~HandOver(old, new)
      BY <1>4, Zenon DEF NoHistory, HandOver
    <2> QED BY <2>1, <2>2, <2>3, <2>4, Zenon DEF OracleMove
  <1>5. ASSUME NEW k \in PcrKey, head[k] # None
        PROVE  /\ Committed \subseteq Contents /\ Committed \subseteq Committed'
               /\ \A a, b \in Committed' : a \in Upto(b)' \/ b \in Upto(a)'
               /\ \A x, c : Extends(x, c) => c \in Committed'
    <2>0. PICK h : h = head[k].commitment
      BY Zenon
    <2>1. h \in Contents
      BY <1>1, <1>5, <2>0, Zenon DEF Bounded
    <2>2. Committed = Upto(h) /\ Upto(h)' = Upto(h) /\ Upto(h) \subseteq 0..h
      BY <1>1, <1>2, <1>5, <2>0, <2>1, CommittedIs, Zenon
    <2>3. Committed \subseteq Contents
      BY <1>2, <2>1, <2>2, SMTT(30), Z3T(30) DEF Contents
    <2>4. \A x, c : Extends(x, c) => x = k
      BY <1>1, <1>5, Zenon DEF Extends, Extend, OneHistory
    <2>5. ASSUME Committed' = Upto(h)', \A x, c : ~Extends(x, c)
          PROVE  /\ Committed \subseteq Committed'
                 /\ \A a, b \in Committed' : a \in Upto(b)' \/ b \in Upto(a)'
                 /\ \A x, c : Extends(x, c) => c \in Committed'
      <3>1. Committed' = Committed
        BY <2>2, <2>5, Zenon
      <3>2. \A a, b \in Committed' : a \in Upto(b)' \/ b \in Upto(a)'
        BY <1>3, <2>3, <3>1, Zenon
      <3> QED BY <2>5, <3>1, <3>2, ZenonT(30)
    <2>6. CASE UNCHANGED oracle
      <3>1. \A x, c : ~Extends(x, c)
        <4> SUFFICES ASSUME NEW x, NEW c, Extends(x, c) PROVE FALSE
          BY Zenon
        <4>1. x = k
          BY <2>4, Zenon
        <4>2. head'[k] = [commitment |-> c, version |-> head[k].version + 1]
          BY <4>1, <1>1, <1>5, Zenon DEF Extends, Extend, OracleTypeOK
        <4>3. head[k].version \in Nat
          BY <1>1, <1>5, HeadTyped, ZenonT(30)
        <4> QED BY <2>6, <4>2, <4>3, SMTT(30), Z3T(30) DEF oracle
      <3>2. Committed' = Upto(h)'
        BY <1>5, <2>0, <2>6, CommittedIs, Zenon DEF oracle
      <3> QED BY <2>3, <2>5, <3>1, <3>2, Zenon
    <2>7. \A x \in Genesis : ~Start(x, 0)
      BY <1>1, <1>5, Zenon DEF Start, OneHistory, NoHistory
    <2>8. ASSUME NEW x, NEW c, Extends(x, c), UNCHANGED writes
          PROVE  /\ Committed \subseteq Committed'
                 /\ \A a, b \in Committed' : a \in Upto(b)' \/ b \in Upto(a)'
                 /\ \A y, d : Extends(y, d) => d \in Committed'
      <3>1. /\ x = k /\ c \in 1..Len(writes) /\ writes[c].after = Upto(h)
        BY <2>0, <2>4, <2>8, Zenon DEF Extends
      <3>2. head'[k] = [commitment |-> c, version |-> head[k].version + 1]
        BY <1>1, <2>8, <3>1, Zenon DEF Extends, Extend, OracleTypeOK
      <3>3. head'[k] # None
        BY <3>1, <3>2, <1>1, <1>5, BootConstants, HeadTyped, SMTT(30), Z3T(30) DEF PinnedHead,
           Bounded
      <3>4. Committed' = Upto(c)'
        BY <3>2, <3>3, CommittedIs, SMTT(30), Z3T(30)
      <3>5. Upto(c)' = Upto(h) \cup {c} /\ c \in Contents
        BY <2>8, <3>1, <1>2, SMTT(30), Z3T(30) DEF Upto, Contents
      <3>6. \A a \in Committed : Upto(a)' = Upto(a)
        BY <1>2, <2>3, Zenon
      <3>7. ASSUME NEW a \in Committed', NEW b \in Committed'
            PROVE  a \in Upto(b)' \/ b \in Upto(a)'
        BY <1>1, <2>2, <3>4, <3>5, <3>6, SMTT(30), Z3T(30)
      <3>8. ASSUME NEW y, NEW d, Extends(y, d) PROVE d = c
        <4>1. head'[k] = [commitment |-> d, version |-> head[k].version + 1]
          <5>1. y = k
            BY <2>4, <3>8, Zenon
          <5> QED BY <5>1, <1>1, <3>8, Zenon DEF Extends, Extend, OracleTypeOK
        <4> QED BY <3>2, <4>1, SMTT(30), Z3T(30)
      <3> QED BY <2>2, <3>4, <3>5, <3>7, <3>8, Zenon
    <2>9. ASSUME NEW old \in PcrKey, NEW new \in PcrKey, HandOver(old, new)
          PROVE  Committed' = Upto(h)' /\ \A x, c : ~Extends(x, c)
      <3>1. old = k /\ new # k
        BY <1>1, <1>5, <2>9, Zenon DEF HandOver, OneHistory, Fresh
      <3>2. head'[new] = head[k] /\ head'[k] = None
        BY <1>1, <2>9, <3>1, Zenon DEF HandOver, OracleTypeOK
      <3>3. Committed' = Upto(h)'
        <4>1. head'[new] # None /\ head'[new].commitment = h
          BY <1>5, <2>0, <3>2, Zenon
        <4> QED BY <4>1, CommittedIs, Zenon
      <3>4. \A x, c : ~Extends(x, c)
        <4> SUFFICES ASSUME NEW x, NEW c, Extends(x, c) PROVE FALSE
          BY Zenon
        <4>1. x = k /\ ~Fresh(k)
          BY <1>5, <2>4, Zenon DEF Fresh
        <4>2. head'[new] = head[new]
          BY <4>1, <1>1, <3>1, Zenon DEF Extends, Extend, OracleTypeOK
        <4>3. head[new] = None
          BY <2>9, Zenon DEF HandOver, Fresh
        <4> QED BY <4>2, <4>3, <3>2, <1>5, Zenon
      <3> QED BY <3>3, <3>4, Zenon
    <2>10. CASE \E x, c : Extends(x, c) /\ UNCHANGED writes
      BY <2>3, <2>8, <2>10, Zenon
    <2>11. CASE \E old, new \in PcrKey : HandOver(old, new)
      BY <2>3, <2>5, <2>9, <2>11, Zenon
    <2> QED BY <2>6, <2>7, <2>10, <2>11, Zenon DEF OracleMove
  <1> QED BY <1>4, <1>5, Zenon DEF NoHistory

(* A pin that the oracle takes was made on top of what it holds. *)
LEMMA PinExtends ==
    ASSUME HistoryInv, NEW k \in PcrKey, NEW v, NEW c, NEW job \in 1..Len(writes),
           Swaps(k, v), Extend(k, job), At(k, v, c), writes[job].after = Upto(c)
    PROVE  Extends(k, job)
  BY Zenon DEF Swaps, At, Extends

(* An instance that pins makes a step the oracle's rules allow. *)
LEMMA PinsExtend ==
    ASSUME HistoryInv, NEW i \in Instance, inst[i].pc = "pin",
           Swaps(Key(i), inst[i].expected), Extend(Key(i), inst[i].job)
    PROVE  /\ Extends(Key(i), inst[i].job) /\ Key(i) \in PcrKey
           /\ head'[Key(i)] = [commitment |-> inst[i].job, version |-> inst[i].expected + 1]
           /\ head'[Key(i)] # None
  <1>1. /\ InstInv(i) /\ Key(i) = inst[i].key /\ inst[i].job \in Contents /\ OracleTypeOK
        /\ Len(writes) \in Nat /\ inst[i].region \in Contents /\ inst[i].expected \in Nat
        /\ Len(writes) <= MaxWrites
    BY Parts, SMTT(30), Z3T(30) DEF Bounded, Key, TypeOK
  <1>2. /\ Key(i) \in PcrKey /\ At(Key(i), inst[i].expected, inst[i].region)
        /\ inst[i].region < inst[i].job
        /\ writes[inst[i].job].after = Upto(inst[i].region)
    BY <1>1, Zenon DEF InstInv, Up, Holding, Pinning
  <1>3. inst[i].job \in 1..Len(writes)
    BY <1>1, <1>2, SMTT(30), Z3T(30) DEF Contents
  <1>4. Extends(Key(i), inst[i].job)
    BY <1>2, <1>3, PinExtends, Zenon
  <1>5. head'[Key(i)] = [commitment |-> inst[i].job, version |-> inst[i].expected + 1]
    BY <1>1, <1>2, Zenon DEF Extend, Swaps, OracleTypeOK
  <1>6. head'[Key(i)] # None
    BY <1>1, <1>3, <1>5, BootConstants, SMTT(30), Z3T(30) DEF PinnedHead
  <1> QED BY <1>2, <1>4, <1>5, <1>6, Zenon

(* What an instance does to the oracle and to the writes *)
LEMMA MovingIsMove ==
    ASSUME HistoryInv, NEW i \in Instance, Moving(i)
    PROVE  OracleMove /\ WritesMove /\ \A j \in Instance : j # i => inst'[j] = inst[j]
  <1>1. InstInv(i) /\ Key(i) = inst[i].key /\ Region(i) = inst[i].region
        /\ inst[i].region \in Contents /\ inst[i].job \in Contents /\ Len(writes) \in Nat
    BY Parts, SMTT(30), Z3T(30) DEF Bounded, Key, Region, TypeOK
  <1>2. CASE Starts(i)
    BY <1>2, Zenon DEF Starts, OracleMove, WritesMove, Goes
  <1>3. CASE Looks(i)
    <2>1. Key(i) \in PcrKey /\ UNCHANGED writes
      BY <1>1, <1>3, Zenon DEF Looks, InstInv, Booting, Up
    <2>2. \A j \in Instance : j # i => inst'[j] = inst[j]
      BY <1>3, Zenon DEF Looks, GoesOn, Goes
    <2> QED BY <1>3, <2>1, <2>2, Zenon DEF Looks, OracleMove, WritesMove
  <1>4. CASE Serves(i)
    <2>1. UNCHANGED writes /\ \A j \in Instance : j # i => inst'[j] = inst[j]
      BY <1>4, Zenon DEF Serves, Goes
    <2>2. inst[i].pc = "register" => Key(i) \in Genesis /\ Region(i) = 0
      BY <1>1, Zenon DEF InstInv
    <2>3. UNCHANGED oracle \/ \E k \in Genesis : Start(k, 0)
      BY <1>4, <2>2, Zenon DEF Serves
    <2> QED BY <2>1, <2>3, Zenon DEF OracleMove, WritesMove
  <1>5. CASE Ends(i)
    BY <1>5, Zenon DEF Ends, OracleMove, WritesMove, Goes
  <1>6. CASE Tries(i)
    BY <1>6, Zenon DEF Tries, OracleMove, WritesMove, Goes, GoesOn
  <1>7. CASE Pins(i)
    <2>1. UNCHANGED writes /\ \A j \in Instance : j # i => inst'[j] = inst[j]
      BY <1>7, Zenon DEF Pins, Goes
    <2>2. CASE /\ inst[i].pc = "pin" /\ Swaps(Key(i), inst[i].expected)
               /\ Extend(Key(i), inst[i].job)
      <3>1. Extends(Key(i), inst[i].job)
        BY <2>2, PinsExtend, ZenonT(30)
      <3> QED BY <2>1, <3>1, Zenon DEF OracleMove, WritesMove
    <2>3. CASE UNCHANGED oracle
      BY <2>1, <2>3, Zenon DEF OracleMove, WritesMove
    <2> QED BY <1>7, <2>2, <2>3, Zenon DEF Pins
  <1>8. CASE MakesWrite(i)
    <2>1. UNCHANGED oracle /\ \A j \in Instance : j # i => inst'[j] = inst[j]
      BY <1>8, Zenon DEF MakesWrite, Goes
    <2> QED BY <1>8, <2>1, Zenon DEF OracleMove, WritesMove
  <1>9. CASE Lands(i)
    BY <1>9, Zenon DEF Lands, OracleMove, WritesMove, Goes
  <1>10. CASE Acks(i)
    BY <1>10, Zenon DEF Acks, OracleMove, WritesMove, Goes
  <1> QED BY <1>2, <1>3, <1>4, <1>5, <1>6, <1>7, <1>8, <1>9, <1>10, Zenon DEF Moving

(* An operation that is executed late is one the oracle's rules allow. *)
LEMMA LateIsMove ==
    ASSUME HistoryInv, NEW m \in late, LateApply(m)
    PROVE  OracleMove /\ WritesMove
  <1>1. LateInv(m) /\ m.c \in Contents /\ UNCHANGED writes /\ Len(writes) \in Nat /\ m \in Op
    BY Parts, SMTT(30), Z3T(30) DEF Bounded, LateApply, TypeOK
  <1>2. CASE m.op = "register" /\ Start(m.key, m.c)
    BY <1>1, <1>2, Zenon DEF LateInv, OracleMove, WritesMove
  <1>3. CASE m.op = "transition" /\ Moves(m.old, m.key, m.c) /\ HandOver(m.old, m.key)
    <2>1. m.old \in PcrKey /\ m.key \in PcrKey
      BY <1>1, <1>3, BootConstants, Zenon DEF Moves, LateInv
    <2> QED BY <1>1, <1>3, <2>1, Zenon DEF OracleMove, WritesMove
  <1>4. CASE m.op = "pin" /\ Swaps(m.key, m.v) /\ Extend(m.key, m.c)
    <2>1. PICK c \in Contents : At(m.key, m.v, c) /\ writes[m.c].after = Upto(c)
      BY <1>1, <1>4, Zenon DEF LateInv
    <2>2. m.key \in PcrKey /\ m.c \in 1..Len(writes)
      BY <1>1, <1>4, SMTT(30), Z3T(30) DEF LateInv, Contents
    <2>3. Extends(m.key, m.c)
      BY <1>4, <2>1, <2>2, PinExtends, Zenon
    <2> QED BY <1>1, <2>3, Zenon DEF OracleMove, WritesMove
  <1> QED BY <1>2, <1>3, <1>4, Zenon DEF LateApply

(* Every step moves the oracle and the writes by the rules. *)
LEMMA NextIsMove ==
    ASSUME HistoryInv, Next
    PROVE  OracleMove /\ WritesMove
  <1>1. ASSUME NEW d, Restore(d) PROVE OracleMove /\ WritesMove
    BY <1>1, Zenon DEF Restore, OracleMove, WritesMove
  <1> QED BY <1>1, Kinds, MovingIsMove, LateIsMove, Zenon

(* Types, and what the writes, the instances and the operations name *)
LEMMA TypesStep ==
    ASSUME HistoryInv, Next
    PROVE  TypeOK'
  <1>1. /\ TypeOK /\ Bounded /\ OracleMove /\ WritesMove /\ OracleTypeOK'
        /\ inst' \in [Instance -> State]
    BY NextIsMove, OracleMoveTyped, InstTyped, Parts, Zenon
  <1>2. /\ Len(writes) \in Nat /\ Contents \subseteq Contents'
        /\ 1..Len(writes) \subseteq 1..Len(writes')
        /\ \A c \in Contents : Upto(c) \subseteq 0..c
        /\ writes \in Seq([by : Instance, after : SUBSET Nat])
        /\ disk \in [Disk -> 0..Len(writes)] /\ late \subseteq Op
        /\ acked \subseteq 1..Len(writes)
    BY <1>1, WritesStable, Zenon DEF TypeOK
  <1>3. ASSUME disk' \in [Disk -> 0..Len(writes')], late' \subseteq Op,
               writes' \in Seq([by : Instance, after : SUBSET Nat]),
               acked' \subseteq 1..Len(writes')
        PROVE  TypeOK'
    BY <1>1, <1>3, ZenonT(30) DEF TypeOK, State
  <1>4. disk \in [Disk -> 0..Len(writes')]
    <2>1. 0..Len(writes) \subseteq 0..Len(writes')
      BY <1>2, Zenon DEF Contents
    <2> QED BY <1>2, <2>1, Zenon
  <1>5. ASSUME NEW i \in Instance, Moving(i) PROVE TypeOK'
    <2>1. InstInv(i) /\ inst[i].job \in Contents /\ Region(i) \in Contents
      BY Parts, Zenon DEF Bounded, Region
    <2>2. late \cup Pending(i) \subseteq Op
      BY <1>1, <1>2, <2>1, PendingTyped, Zenon DEF InstInv
    <2>3. CASE Starts(i) \/ Looks(i) \/ Serves(i) \/ Ends(i) \/ Tries(i) \/ Pins(i)
      <3>1. UNCHANGED <<disk, writes, acked>> /\ late' \in {late, late \cup Pending(i)}
        BY <2>3, ZenonT(30) DEF Starts, Looks, Serves, Ends, Tries, Pins
      <3>2. late' \subseteq Op
        BY <3>1, <1>2, <2>2, Zenon
      <3> QED BY <3>1, <3>2, <1>2, <1>3, Zenon
    <2>4. CASE MakesWrite(i)
      <3>1. UNCHANGED <<disk, late, acked>>
            /\ writes' = Append(writes, [by |-> i, after |-> Upto(Region(i))])
        BY <2>4, Zenon DEF MakesWrite
      <3>2. Upto(Region(i)) \subseteq Nat
        BY <1>2, <2>1, SMTT(30), Z3T(30) DEF Contents
      <3>3. writes' \in Seq([by : Instance, after : SUBSET Nat])
        BY <1>2, <3>1, <3>2, SMTT(30), Z3T(30)
      <3> QED BY <1>2, <1>3, <1>4, <3>1, <3>3, Zenon
    <2>5. CASE Lands(i)
      <3>1. UNCHANGED <<writes, late, acked>>
            /\ disk' = [disk EXCEPT ![inst[i].disk] = inst[i].job]
        BY <2>5, Zenon DEF Lands
      <3>2. inst[i].job \in 0..Len(writes)
        BY <2>1, Zenon DEF Contents
      <3>3. disk \in [Disk -> 0..Len(writes)]
        BY <1>2, Zenon
      <3>4. disk' \in [Disk -> 0..Len(writes)]
        BY <3>1, <3>2, <3>3, ZenonT(30)
      <3> QED BY <1>2, <1>3, <3>1, <3>4, Zenon
    <2>6. CASE Acks(i)
      <3>1. UNCHANGED <<writes, late, disk>> /\ acked' = acked \cup {inst[i].job}
            /\ inst[i].pc = "pinned"
        BY <2>6, Zenon DEF Acks
      <3>2. inst[i].job \in 1..Len(writes)
        BY <1>1, <1>2, <2>1, <3>1, SMTT(30), Z3T(30) DEF InstInv, Pinning, Contents, TypeOK
      <3>3. acked \subseteq 1..Len(writes) /\ Len(writes') = Len(writes)
        BY <1>2, <3>1, Zenon
      <3>4. acked' \subseteq 1..Len(writes')
        BY <3>1, <3>2, <3>3, ZenonT(30)
      <3> QED BY <1>2, <1>3, <3>1, <3>4, Zenon
    <2> QED BY <1>5, <2>3, <2>4, <2>5, <2>6, Zenon DEF Moving
  <1>6. ASSUME NEW m, LateApply(m) PROVE TypeOK'
    BY <1>2, <1>3, <1>6, Zenon DEF LateApply
  <1>7. ASSUME NEW d \in Disk, Restore(d) PROVE TypeOK'
    <2>1. UNCHANGED <<writes, late, acked>> /\ disk' \in [Disk -> 0..Len(writes)]
      BY <1>2, <1>7, Zenon DEF Restore, Held
    <2> QED BY <1>2, <1>3, <2>1, Zenon
  <1> QED BY <1>5, <1>6, <1>7, Kinds, Zenon

(* What the movement of an instance leaves it with *)
LEMMA NamesStep ==
    ASSUME HistoryInv, NEW i \in Instance, Moving(i)
    PROVE  /\ inst'[i].region \in Contents' /\ inst'[i].job \in Contents'
           /\ inst[i].disk \in Disk => inst'[i].disk \in Disk
           /\ inst'[i].pc \in Up => inst'[i].key \in PcrKey /\ inst'[i].disk \in Disk
  <1>1. /\ InstInv(i) /\ Key(i) = inst[i].key /\ Region(i) = inst[i].region
        /\ inst[i].region \in Contents /\ inst[i].job \in Contents
        /\ inst[i].pc \in Up => inst[i].key \in PcrKey /\ inst[i].disk \in Disk
    BY Parts, Zenon DEF Bounded, Key, Region, InstInv
  <1>2. Len(writes) \in Nat /\ Contents \subseteq Contents' /\ Contents = 0..Len(writes)
    BY MovingIsMove, WritesStable, Parts, Zenon DEF Contents
  <1>3. CASE Starts(i)
    <2>1. PICK k \in PcrKey, d \in Disk : Goes(i, "get", k, d, disk[d], 0, 0, TRUE)
      BY <1>3, ZenonT(30) DEF Starts
    <2>2. disk[d] \in Contents
      <3>1. disk \in [Disk -> 0..Len(writes)]
        BY Parts, Zenon DEF TypeOK
      <3> QED BY <3>1, Zenon DEF Contents
    <2> QED BY <1>2, <2>1, <2>2, SMTT(30), Z3T(30) DEF Goes
  <1>4. CASE Looks(i)
    BY <1>1, <1>2, <1>4, Zenon DEF Looks, GoesOn, Goes, Up, Booting
  <1>5. CASE Serves(i)
    BY <1>1, <1>2, <1>5, Zenon DEF Serves, Goes, Up, Booting
  <1>6. CASE Ends(i)
    BY <1>1, <1>2, <1>6, SMTT(30), Z3T(30) DEF Ends, Goes, Up
  <1>7. CASE Tries(i)
    BY <1>1, <1>2, <1>7, Zenon DEF Tries, GoesOn, Goes, Up
  <1>8. CASE Pins(i)
    BY <1>1, <1>2, <1>8, Zenon DEF Pins, Goes, Up
  <1>9. CASE MakesWrite(i)
    <2>1. Len(writes) + 1 \in Contents'
      BY <1>9, Parts, SMTT(30), Z3T(30) DEF MakesWrite, Contents, TypeOK
    <2> QED BY <1>1, <1>2, <1>9, <2>1, Zenon DEF MakesWrite, Goes, Up
  <1>10. CASE Lands(i)
    BY <1>1, <1>2, <1>10, Zenon DEF Lands, Goes, Up
  <1>11. CASE Acks(i)
    BY <1>1, <1>2, <1>11, Zenon DEF Acks, Goes, Up
  <1> QED BY <1>3, <1>4, <1>5, <1>6, <1>7, <1>8, <1>9, <1>10, <1>11, Zenon DEF Moving

(* An operation that an instance gives up is one it could have sent. *)
LEMMA PendingInv ==
    ASSUME HistoryInv, NEW i \in Instance, NEW m \in Pending(i)
    PROVE  m.c \in Contents /\ LateInv(m) /\ inst[i].pc \in Up
  <1>1. /\ InstInv(i) /\ Key(i) = inst[i].key /\ Region(i) = inst[i].region
        /\ inst[i].region \in Contents /\ inst[i].job \in Contents
        /\ inst[i].pc \in Up => inst[i].key \in PcrKey
    BY Parts, Zenon DEF Bounded, Key, Region, InstInv
  <1>2. CASE inst[i].pc = "register"
    <2>1. m = [op |-> "register", key |-> Key(i), c |-> Region(i), v |-> 0, old |-> None]
      BY <1>2, Zenon DEF Pending
    <2>2. inst[i].key \in Genesis /\ inst[i].region = 0
      BY <1>1, <1>2, Zenon DEF InstInv
    <2> QED BY <1>1, <1>2, <2>1, <2>2, Zenon DEF LateInv, Up
  <1>3. CASE inst[i].pc = "transition"
    <2>1. PICK old \in FetchedLinks(i) :
             m = [op |-> "transition", key |-> Key(i), c |-> Region(i), v |-> 0, old |-> old]
      BY <1>3, Zenon DEF Pending
    <2> QED BY <1>1, <1>3, <2>1, Zenon DEF LateInv, Up
  <1>4. CASE inst[i].pc = "pin"
    <2>1. m = [op |-> "pin", key |-> Key(i), c |-> inst[i].job, v |-> inst[i].expected,
               old |-> None]
      BY <1>4, Zenon DEF Pending
    <2>2. /\ At(inst[i].key, inst[i].expected, inst[i].region)
          /\ inst[i].region < inst[i].job /\ writes[inst[i].job].after = Upto(inst[i].region)
      BY <1>1, <1>4, Zenon DEF InstInv, Holding, Pinning
    <2>3. inst[i].job # 0
      BY <1>1, <2>2, SMTT(30), Z3T(30) DEF Contents
    <2>4. /\ m.op = "pin" /\ m.key = inst[i].key /\ m.c = inst[i].job
          /\ m.v = inst[i].expected /\ inst[i].pc \in Up
      BY <1>1, <1>4, <2>1, Zenon DEF Up
    <2> QED BY <1>1, <2>2, <2>3, <2>4, Zenon DEF LateInv
  <1> QED BY <1>2, <1>3, <1>4, Zenon DEF Pending

(* The operations nobody waits for are the ones from before, or are given  *)
(* up in this step.                                                        *)
LEMMA LateMoves ==
    ASSUME HistoryInv, Next, NEW m \in late'
    PROVE  m \in late \/ \E i \in Instance : m \in Pending(i) /\ (Ends(i) \/ Tries(i))
  <1>1. ASSUME NEW i \in Instance, Moving(i)
        PROVE  m \in late \/ (m \in Pending(i) /\ (Ends(i) \/ Tries(i)))
    <2>1. CASE Ends(i) \/ Tries(i)
      <3>1. late' \in {late, late \cup Pending(i)}
        BY <2>1, ZenonT(30) DEF Ends, Tries
      <3> QED BY <2>1, <3>1, Zenon
    <2>2. CASE ~(Ends(i) \/ Tries(i))
      <3>1. late' = late
        BY <1>1, <2>2, ZenonT(30) DEF Moving, Starts, Looks, Serves, Pins, MakesWrite, Lands, Acks
      <3> QED BY <3>1, Zenon
    <2> QED BY <2>1, <2>2, Zenon
  <1>2. ASSUME NEW x, LateApply(x) PROVE m \in late
    BY <1>2, Zenon DEF LateApply
  <1>3. ASSUME NEW d, Restore(d) PROVE m \in late
    BY <1>3, Zenon DEF Restore
  <1> QED BY <1>1, <1>2, <1>3, Kinds, Zenon

(* What is named is written: the invariant Bounded is kept. *)
LEMMA BoundedStep ==
    ASSUME HistoryInv, Next
    PROVE  Bounded'
  <1>1. TypeOK /\ Bounded /\ OracleMove /\ WritesMove /\ OracleTypeOK
    BY NextIsMove, Parts, Zenon DEF TypeOK
  <1>2. /\ Len(writes) \in Nat /\ Contents \subseteq Contents' /\ Contents = 0..Len(writes)
        /\ \A c \in 1..Len(writes) : writes'[c] = writes[c]
        /\ \A c \in Contents : Upto(c) \subseteq 0..c
    BY <1>1, WritesStable, Zenon DEF Contents
  <1>3. /\ Len(writes') <= MaxWrites
        /\ \A c \in 1..Len(writes') : writes'[c].after \subseteq 0..(c - 1)
    <2>1. CASE UNCHANGED writes
      BY <1>1, <2>1, Zenon DEF Bounded
    <2>2. CASE \E i \in Instance : MakesWrite(i)
      <3> PICK i \in Instance : MakesWrite(i)
        BY <2>2, Zenon
      <3>1. Region(i) \in Contents
        BY Parts, Zenon DEF Bounded, Region
      <3> DEFINE w == [by |-> i, after |-> Upto(Region(i))]
      <3>2. writes' = Append(writes, w) /\ Len(writes) < MaxWrites
        BY Zenon DEF MakesWrite
      <3>3. w.after \subseteq 0..Len(writes)
        BY <1>2, <3>1, SMTT(30), Z3T(30)
      <3> HIDE DEF w
      <3>4. Len(writes') = Len(writes) + 1 /\ writes'[Len(writes) + 1] = w
        BY <1>1, <3>2, SMTT(30), Z3T(30) DEF TypeOK
      <3>5. \A c \in 1..Len(writes) : writes[c].after \subseteq 0..(c - 1)
        BY <1>1, Zenon DEF Bounded
      <3>6. ASSUME NEW c \in 1..Len(writes') PROVE writes'[c].after \subseteq 0..(c - 1)
        <4>1. CASE c \in 1..Len(writes)
          BY <1>2, <3>5, <4>1, Zenon
        <4>2. CASE c = Len(writes) + 1
          BY <1>2, <3>3, <3>4, <4>2, SMTT(30), Z3T(30)
        <4> QED BY <1>2, <3>4, <4>1, <4>2, SMTT(30), Z3T(30)
      <3> QED BY <1>2, <3>2, <3>4, <3>6, BootConstants, SMTT(30), Z3T(30)
    <2> QED BY <1>1, <2>1, <2>2, Zenon DEF WritesMove
  <1>4. ASSUME NEW k \in PcrKey, head'[k] # None PROVE head'[k].commitment \in Contents'
    <2>1. head[k] # None => head[k].commitment \in Contents
      BY <1>1, Zenon DEF Bounded
    <2>2. CASE Fresh(k)
      <3>1. CASE UNCHANGED oracle
        BY <1>4, <2>2, <3>1, Zenon DEF Fresh, oracle
      <3>2. ASSUME NEW x \in Genesis, Start(x, 0) PROVE head'[k].commitment \in Contents'
        <4>1. head'[k] = [commitment |-> 0, version |-> 0]
          BY <1>1, <1>4, <2>2, <3>2, Zenon DEF Start, Fresh, OracleTypeOK
        <4> QED BY <1>2, <4>1, SMTT(30), Z3T(30)
      <3>3. ASSUME NEW x, NEW c, Extends(x, c) PROVE FALSE
        BY <1>1, <1>4, <2>2, <3>3, Zenon DEF Extends, Extend, Fresh, OracleTypeOK
      <3>4. ASSUME NEW old \in PcrKey, NEW new \in PcrKey, HandOver(old, new)
            PROVE  head'[k].commitment \in Contents'
        <4>1. head[old] # None /\ head'[k] = head[old]
          BY <1>1, <1>4, <2>2, <3>4, Zenon DEF HandOver, Fresh, OracleTypeOK
        <4> QED BY <1>1, <1>2, <4>1, Zenon DEF Bounded
      <3> QED BY <1>1, <3>1, <3>2, <3>3, <3>4, Zenon DEF OracleMove
    <2>3. CASE ~Fresh(k)
      <3>1. \/ head'[k] = head[k]
            \/ \E c : Extends(k, c) /\ head'[k].commitment = c
        BY <1>1, <1>4, <2>3, HeadMoves, Zenon
      <3> QED BY <1>2, <1>4, <2>1, <3>1, SMTT(30), Z3T(30) DEF Extends
    <2> QED BY <2>2, <2>3, Zenon
  <1>5. ASSUME NEW j \in Instance
        PROVE  inst'[j].region \in Contents' /\ inst'[j].job \in Contents'
    <2>1. inst[j].region \in Contents /\ inst[j].job \in Contents
      BY <1>1, Zenon DEF Bounded
    <2>2. ASSUME NEW i \in Instance, Moving(i)
          PROVE  inst'[j].region \in Contents' /\ inst'[j].job \in Contents'
      <3>1. CASE i = j
        BY <2>2, <3>1, NamesStep, Zenon
      <3>2. CASE i # j
        <4>1. inst'[j] = inst[j]
          BY <2>2, <3>2, MovingIsMove, Zenon
        <4> QED BY <1>2, <2>1, <4>1, Zenon
      <3> QED BY <3>1, <3>2, Zenon
    <2>3. ASSUME NEW m, LateApply(m) PROVE inst' = inst
      BY <2>3, Zenon DEF LateApply
    <2>4. ASSUME NEW d, Restore(d) PROVE inst' = inst
      BY <2>4, Zenon DEF Restore
    <2> QED BY <1>2, <2>1, <2>2, <2>3, <2>4, Kinds, Zenon
  <1>6. ASSUME NEW m \in late' PROVE m.c \in Contents'
    <2>1. m \in late \/ \E i \in Instance : m \in Pending(i)
      BY LateMoves, Zenon
    <2>2. m.c \in Contents
      BY <1>1, <2>1, PendingInv, Zenon DEF Bounded
    <2> QED BY <1>2, <2>2, Zenon
  <1> QED BY <1>3, <1>4, <1>5, <1>6, Zenon DEF Bounded

(* The disk of an instance is given once. *)
LEMMA DiskGiven ==
    ASSUME HistoryInv, Next
    PROVE  /\ \A j \in Instance : inst[j].disk \in Disk => inst'[j].disk \in Disk
           /\ UNCHANGED <<oracle, late>> \/ \E j \in Instance : inst[j].disk \in Disk
  <1>1. OneHistory /\ TypeOK
    BY Parts, Zenon
  <1>2. ASSUME NEW i \in Instance, Moving(i)
        PROVE  /\ \A j \in Instance : inst[j].disk \in Disk => inst'[j].disk \in Disk
               /\ UNCHANGED <<oracle, late>> \/ inst[i].disk \in Disk
    <2>1. \A j \in Instance : inst[j].disk \in Disk => inst'[j].disk \in Disk
      BY <1>2, NamesStep, MovingIsMove, Zenon
    <2>2. CASE inst[i].pc \in Up
      BY <2>1, <2>2, Parts, Zenon DEF InstInv
    <2>3. CASE inst[i].pc \notin Up
      <3>1. Starts(i) \/ Lands(i)
        <4>1. ~Looks(i) /\ ~Serves(i) /\ ~Ends(i)
          BY <2>3, Zenon DEF Looks, Serves, Ends, Up, Booting
        <4>2. ~Tries(i) /\ ~Pins(i) /\ ~MakesWrite(i) /\ ~Acks(i)
          BY <2>3, ZenonT(30) DEF Tries, Pins, MakesWrite, Acks, Up
        <4> QED BY <1>2, <4>1, <4>2, ZenonT(30) DEF Moving
      <3>2. UNCHANGED <<oracle, late>>
        BY <3>1, ZenonT(30) DEF Starts, Lands
      <3> QED BY <2>1, <3>2, Zenon
    <2> QED BY <2>2, <2>3, Zenon
  <1>3. ASSUME NEW m \in late, LateApply(m)
        PROVE  UNCHANGED inst /\ \E j \in Instance : inst[j].disk \in Disk
    <2>1. UNCHANGED inst
      BY <1>3, Zenon DEF LateApply
    <2>2. PICK j \in Instance : inst[j].disk # None
      BY <1>1, Zenon DEF OneHistory
    <2>3. inst[j].disk \in Disk
      BY <1>1, <2>2, Zenon DEF TypeOK
    <2> QED BY <2>1, <2>3, Zenon
  <1>4. ASSUME NEW d, Restore(d) PROVE UNCHANGED <<inst, oracle, late>>
    BY <1>4, Zenon DEF Restore
  <1> QED BY <1>2, <1>3, <1>4, Kinds, Zenon

(* There stays one history. *)
LEMMA OneHistoryStep ==
    ASSUME HistoryInv, Next
    PROVE  OneHistory'
  <1>1. TypeOK /\ Bounded /\ OneHistory /\ OracleMove /\ WritesMove
    BY NextIsMove, Parts, Zenon
  <1>2. /\ \A a, b \in PcrKey : head'[a] # None /\ head'[b] # None => a = b
        /\ NoHistory' => NoHistory /\ retired' = retired
        /\ \A k \in Genesis : Fresh(k)' => NoHistory'
    BY <1>1, OneHeadStep, Zenon
  <1>3. ASSUME NoHistory' PROVE retired' = {} /\ writes' = <<>>
    <2>1. NoHistory /\ retired' = retired /\ retired = {} /\ writes = <<>>
      BY <1>1, <1>2, <1>3, Zenon DEF OneHistory
    <2>2. ASSUME NEW i \in Instance, MakesWrite(i) PROVE FALSE
      <3>1. InstInv(i) /\ inst[i].pc = "serving"
        BY <2>2, Parts, Zenon DEF MakesWrite
      <3>2. inst[i].key \in PcrKey /\ ~Fresh(inst[i].key)
        BY <3>1, Zenon DEF InstInv, Holding, At
      <3> QED BY <2>1, <3>2, Zenon DEF Fresh, NoHistory
    <2> QED BY <1>1, <2>1, <2>2, Zenon DEF WritesMove
  <1>4. ASSUME ~NoHistory' \/ late' # {} PROVE \E i \in Instance : inst'[i].disk # None
    <2>1. \E j \in Instance : inst[j].disk \in Disk
      <3>1. CASE UNCHANGED <<oracle, late>>
        <4>1. ~NoHistory \/ late # {}
          BY <1>4, <3>1, Zenon DEF NoHistory, oracle
        <4>2. PICK j \in Instance : inst[j].disk # None
          BY <4>1, <1>1, Zenon DEF OneHistory
        <4>3. inst[j].disk \in Disk
          BY <1>1, <4>2, Zenon DEF TypeOK
        <4> QED BY <4>3, Zenon
      <3> QED BY <3>1, DiskGiven, Zenon
    <2> QED BY <2>1, DiskGiven, BootConstants, Zenon
  <1> QED BY <1>2, <1>3, <1>4, Zenon DEF OneHistory

(* Every acknowledged or pinned write is in the history, which is a line. *)
LEMMA CommittedStep ==
    ASSUME HistoryInv, Next, OneHistory'
    PROVE  CommittedInv'
  <1>1. OracleMove /\ WritesMove /\ CommittedInv
    BY NextIsMove, Parts, Zenon
  <1>2. /\ Committed \subseteq Committed'
        /\ \A a, b \in Committed' : a \in Upto(b)' \/ b \in Upto(a)'
        /\ \A k, c : Extends(k, c) => c \in Committed'
    BY <1>1, CommittedGrows, Zenon
  <1>3. ASSUME NEW i \in Instance, Moving(i)
        PROVE  acked' \subseteq Committed'
               /\ (inst'[i].pc = "pinned" => inst'[i].job \in Committed')
    <2>1. /\ acked \subseteq Committed
          /\ inst[i].pc = "pinned" => inst[i].job \in Committed
      BY <1>1, Zenon DEF CommittedInv
    <2>2. CASE Acks(i)
      BY <1>2, <2>1, <2>2, Zenon DEF Acks, Goes
    <2>3. CASE Pins(i)
      <3>1. acked' = acked /\ inst'[i].job = inst[i].job
        BY <2>3, Zenon DEF Pins, Goes
      <3>2. CASE UNCHANGED oracle /\ head[Key(i)] # None /\ head[Key(i)].commitment = inst[i].job
        <4>1. Key(i) \in PcrKey
          BY <2>3, Parts, Zenon DEF Pins, InstInv, Up, Key
        <4>2. Committed = Upto(inst[i].job)
          BY <3>2, <4>1, CommittedIs, Parts, Zenon
        <4>3. inst[i].job \in Upto(inst[i].job)
          BY Zenon DEF Upto
        <4> QED BY <1>2, <2>1, <3>1, <4>2, <4>3, Zenon
      <3>3. CASE /\ inst[i].pc = "pin" /\ Swaps(Key(i), inst[i].expected)
                 /\ Extend(Key(i), inst[i].job)
        <4>1. Extends(Key(i), inst[i].job)
          BY <3>3, PinsExtend, ZenonT(30)
        <4> QED BY <1>2, <2>1, <3>1, <4>1, Zenon
      <3> QED BY <2>3, <3>2, <3>3, Zenon DEF Pins
    <2>4. CASE Lands(i)
      BY <1>2, <2>1, <2>4, Zenon DEF Lands, Goes
    <2>5. CASE Starts(i) \/ Looks(i) \/ Serves(i) \/ Ends(i) \/ Tries(i) \/ MakesWrite(i)
      <3>1. acked' = acked
        BY <2>5, ZenonT(30) DEF Starts, Looks, Serves, Ends, Tries, MakesWrite
      <3>2. inst'[i].pc # "pinned"
        <4>1. CASE Starts(i) \/ Serves(i) \/ MakesWrite(i)
          <5>1. inst'[i].pc \in {"get", "serving", "pin"}
            BY <4>1, ZenonT(30) DEF Starts, Serves, MakesWrite, Goes
          <5> QED BY <5>1, Zenon
        <4>2. CASE Looks(i)
          BY <4>2, Zenon DEF Looks, GoesOn, Goes, Booting
        <4>3. CASE Ends(i) \/ Tries(i)
          BY <4>3, Zenon DEF Ends, Tries, GoesOn, Goes
        <4> QED BY <2>5, <4>1, <4>2, <4>3, Zenon
      <3> QED BY <1>2, <2>1, <3>1, <3>2, Zenon
    <2> QED BY <1>3, <2>2, <2>3, <2>4, <2>5, Zenon DEF Moving
  <1>4. ASSUME NEW j \in Instance, inst'[j] = inst[j], inst'[j].pc = "pinned"
        PROVE  inst'[j].job \in Committed'
    BY <1>1, <1>2, <1>4, Zenon DEF CommittedInv
  <1>5. ASSUME NEW i \in Instance, Moving(i) PROVE CommittedInv'
    BY <1>2, <1>3, <1>4, <1>5, MovingIsMove, Zenon DEF CommittedInv
  <1>6. ASSUME UNCHANGED <<inst, acked>> PROVE CommittedInv'
    BY <1>1, <1>2, <1>4, <1>6, Zenon DEF CommittedInv
  <1>7. ASSUME NEW m, LateApply(m) PROVE UNCHANGED <<inst, acked>>
    BY <1>7, Zenon DEF LateApply
  <1>8. ASSUME NEW d, Restore(d) PROVE UNCHANGED <<inst, acked>>
    BY <1>8, Zenon DEF Restore
  <1> QED BY <1>5, <1>6, <1>7, <1>8, Kinds, Zenon

(* InstInv, of an instance in the given state *)
Stands(i, pc, key, d, region, expected, job) ==
    /\ pc \in Up => key \in PcrKey /\ d \in Disk
    /\ pc = "register" => key \in Genesis /\ region = 0
    /\ pc \in Holding => At(key, expected, IF pc = "pinned" THEN job ELSE region)
    /\ pc \in Pinning => /\ region < job /\ writes[job].by = i
                         /\ writes[job].after = Upto(region)

(* InstInv before and after a step, as Stands says it *)
LEMMA StandsNow ==
    ASSUME NEW i \in Instance, InstInv(i)
    PROVE  Stands(i, inst[i].pc, inst[i].key, inst[i].disk, inst[i].region, inst[i].expected,
                  inst[i].job)
  BY Zenon DEF InstInv, Stands

(* An instance that goes to a state it can stand in keeps InstInv. *)
LEMMA StandsNext ==
    ASSUME NEW i \in Instance, NEW pc, NEW key, NEW d, NEW region, NEW expected, NEW job,
           Stands(i, pc, key, d, region, expected, job)',
           /\ inst'[i].pc = pc /\ inst'[i].key = key /\ inst'[i].disk = d
           /\ inst'[i].region = region /\ inst'[i].expected = expected /\ inst'[i].job = job
    PROVE  InstInv(i)'
  BY Zenon DEF InstInv, Stands, At, Upto, Fresh

(* Where an instance stands is not disturbed by the others. *)
LEMMA StandsStable ==
    ASSUME HistoryInv, OracleMove, WritesMove, NEW i \in Instance,
           NEW pc, NEW key, NEW d, NEW region \in Contents, NEW expected \in Nat,
           NEW job \in Contents, Stands(i, pc, key, d, region, expected, job)
    PROVE  Stands(i, pc, key, d, region, expected, job)'
  <1>1. TypeOK /\ Bounded
    BY Parts, Zenon
  <1>2. /\ Len(writes) \in Nat
        /\ \A c \in 1..Len(writes) : writes'[c] = writes[c]
        /\ \A c \in Contents : Upto(c)' = Upto(c)
    BY <1>1, WritesStable, Zenon
  <1>3. ASSUME pc \in Holding
        PROVE  At(key, expected, IF pc = "pinned" THEN job ELSE region)'
    <2>1. At(key, expected, IF pc = "pinned" THEN job ELSE region)
      BY <1>3, Zenon DEF Stands
    <2> QED BY <1>1, <2>1, AtStable, Zenon
  <1>4. ASSUME pc \in Pinning
        PROVE  region < job /\ writes'[job].by = i /\ writes'[job].after = Upto(region)'
    <2>1. region < job /\ writes[job].by = i /\ writes[job].after = Upto(region)
      BY <1>4, Zenon DEF Stands
    <2>2. job \in 1..Len(writes) /\ Upto(region)' = Upto(region)
      BY <1>2, <2>1, SMTT(30), Z3T(30) DEF Contents
    <2> QED BY <1>2, <2>1, <2>2, Zenon
  <1>5. /\ pc \in Up => key \in PcrKey /\ d \in Disk
        /\ pc = "register" => key \in Genesis /\ region = 0
    BY Zenon DEF Stands
  <1> QED BY <1>3, <1>4, <1>5, Zenon DEF Stands

(* Where the instance that moves stands after its step *)
LEMMA StandsMoved ==
    ASSUME HistoryInv, NEW i \in Instance, Moving(i)
    PROVE  InstInv(i)'
  <1>1. /\ InstInv(i) /\ Key(i) = inst[i].key /\ Region(i) = inst[i].region
        /\ inst[i].region \in Contents /\ inst[i].job \in Contents /\ inst[i].expected \in Nat
        /\ TypeOK /\ Bounded /\ OracleMove /\ WritesMove
        /\ inst[i].pc \in Up => inst[i].key \in PcrKey /\ inst[i].disk \in Disk
    <2>1. TypeOK /\ Bounded /\ InstInv(i) /\ OracleMove /\ WritesMove
      BY MovingIsMove, Parts, Zenon
    <2>2. inst[i].expected \in Nat
      BY <2>1, Zenon DEF TypeOK
    <2>3. inst[i].region \in Contents /\ inst[i].job \in Contents
      BY <2>1, Zenon DEF Bounded
    <2> QED BY <2>1, <2>2, <2>3, Zenon DEF Key, Region, InstInv
  <1>2. PICK pc, key, d, region, expected, job :
           /\ inst[i].pc = pc /\ inst[i].key = key /\ inst[i].disk = d
           /\ inst[i].region = region /\ inst[i].expected = expected /\ inst[i].job = job
    BY ZenonT(30)
  <1>3. /\ Stands(i, pc, key, d, region, expected, job)
        /\ Stands(i, pc, key, d, region, expected, job)'
    BY <1>1, <1>2, StandsNow, StandsStable, Zenon
  <1>4. CASE Starts(i)
    <2>1. PICK k \in PcrKey, x \in Disk : Goes(i, "get", k, x, disk[x], 0, 0, TRUE)
      BY <1>4, ZenonT(30) DEF Starts
    <2> QED BY <2>1, Zenon DEF InstInv, Goes, Up, Holding, Pinning
  <1>5. CASE Looks(i)
    BY <1>1, <1>5, Zenon DEF InstInv, Looks, GoesOn, Goes, Booting, Up, Holding, Pinning
  <1>6. CASE Serves(i)
    <2>1. PICK v \in Nat :
             /\ Goes(i, "serving", Key(i), inst[i].disk, Region(i), v, inst[i].job,
                     inst[i].applied)
             /\ head'[Key(i)] # None /\ head'[Key(i)].version = v
             /\ head'[Key(i)].commitment = Region(i)
      BY <1>6, ZenonT(30) DEF Serves
    <2>2. inst[i].pc \in Up
      BY <1>6, Zenon DEF Serves, Up, Booting
    <2>3. At(key, v, region)'
      BY <1>1, <1>2, <2>1, <2>2, SMTT(30), Z3T(30) DEF At, Fresh
    <2>4. Stands(i, "serving", key, d, region, v, job)'
      BY <1>1, <1>2, <2>2, <2>3, Zenon DEF Stands, Up, Holding, Pinning
    <2> QED BY <1>1, <1>2, <2>1, <2>4, StandsNext, Zenon DEF Goes
  <1>7. CASE Ends(i)
    BY <1>7, Zenon DEF Ends, Goes, InstInv, Up, Holding, Pinning
  <1>8. CASE Tries(i)
    <2>1. PICK x \in {"pin", "pinGet"} : GoesOn(i, x)
      BY <1>8, Zenon DEF Tries
    <2>2. Stands(i, x, key, d, region, expected, job)'
      BY <1>2, <1>3, <1>8, <2>1, Zenon DEF Tries, Stands, Up, Holding, Pinning
    <2> QED BY <1>2, <2>1, <2>2, StandsNext, Zenon DEF GoesOn, Goes
  <1>9. CASE Pins(i)
    <2>1. PICK v \in Nat :
             /\ Goes(i, "pinned", Key(i), inst[i].disk, Region(i), v, inst[i].job,
                     inst[i].applied)
             /\ \/ /\ inst[i].pc = "pin" /\ Swaps(Key(i), inst[i].expected)
                   /\ Extend(Key(i), inst[i].job) /\ v = inst[i].expected + 1
                \/ /\ UNCHANGED oracle /\ head[Key(i)] # None
                   /\ head[Key(i)].commitment = inst[i].job /\ head[Key(i)].version = v
      BY <1>9, ZenonT(30) DEF Pins
    <2>2. inst[i].pc \in {"pin", "pinGet"} /\ key \in PcrKey
      BY <1>1, <1>2, <1>9, Zenon DEF Pins, Up
    <2>3. head'[key] # None /\ head'[key].version = v /\ head'[key].commitment = job
      <3>1. CASE UNCHANGED oracle /\ head[Key(i)] # None
                 /\ head[Key(i)].commitment = inst[i].job /\ head[Key(i)].version = v
        BY <1>1, <1>2, <3>1, Zenon DEF oracle
      <3>2. CASE /\ inst[i].pc = "pin" /\ Swaps(Key(i), inst[i].expected)
                 /\ Extend(Key(i), inst[i].job) /\ v = inst[i].expected + 1
        <4>1. /\ head'[Key(i)] = [commitment |-> inst[i].job, version |-> inst[i].expected + 1]
              /\ head'[Key(i)] # None
          BY <3>2, PinsExtend, Zenon
        <4> QED BY <1>1, <1>2, <3>2, <4>1, SMTT(30), Z3T(30)
      <3> QED BY <2>1, <3>1, <3>2, Zenon
    <2>4. At(key, v, job)'
      BY <2>1, <2>2, <2>3, SMTT(30), Z3T(30) DEF At, Fresh
    <2>5. Stands(i, "pinned", key, d, region, v, job)'
      BY <1>2, <1>3, <2>2, <2>4, Zenon DEF Stands, Up, Holding, Pinning
    <2> QED BY <1>1, <1>2, <2>1, <2>5, StandsNext, Zenon DEF Goes
  <1>10. CASE MakesWrite(i)
    <2>1. /\ inst[i].pc = "serving"
          /\ Goes(i, "pin", Key(i), inst[i].disk, Region(i), inst[i].expected, Len(writes) + 1,
                  FALSE)
          /\ writes' = Append(writes, [by |-> i, after |-> Upto(Region(i))])
      BY <1>10, ZenonT(30) DEF MakesWrite
    <2>2. PICK n : n = Len(writes) + 1
      BY Zenon
    <2>3. Len(writes) \in Nat /\ Upto(region)' = Upto(region)
      BY <1>1, <1>2, WritesStable, Zenon
    <2>4. writes'[n] = [by |-> i, after |-> Upto(region)]
      BY <1>1, <1>2, <2>1, <2>2, SMTT(30), Z3T(30) DEF TypeOK
    <2>5. region < n
      BY <1>1, <1>2, <2>2, <2>3, SMTT(30), Z3T(30) DEF Contents
    <2>6. Stands(i, "pin", key, d, region, expected, n)'
      <3>1. key \in PcrKey /\ d \in Disk /\ At(key, expected, region)'
        BY <1>2, <1>3, <2>1, Zenon DEF Stands, Up, Holding
      <3>2. writes'[n].by = i /\ writes'[n].after = Upto(region)'
        BY <2>3, <2>4, SMTT(30), Z3T(30)
      <3> QED BY <2>5, <3>1, <3>2, Zenon DEF Stands
    <2> QED BY <1>1, <1>2, <2>1, <2>2, <2>6, StandsNext, Zenon DEF Goes
  <1>11. CASE Lands(i)
    BY <1>1, <1>2, <1>3, <1>11, StandsNext, Zenon DEF Lands, Goes
  <1>12. CASE Acks(i)
    <2>1. inst[i].pc = "pinned"
          /\ Goes(i, "serving", Key(i), inst[i].disk, inst[i].job, inst[i].expected,
                  inst[i].job, TRUE)
      BY <1>12, ZenonT(30) DEF Acks
    <2>2. Stands(i, "serving", key, d, job, expected, job)'
      BY <1>2, <1>3, <2>1, Zenon DEF Stands, Up, Holding, Pinning
    <2> QED BY <1>1, <1>2, <2>1, <2>2, StandsNext, Zenon DEF Goes
  <1> QED BY <1>4, <1>5, <1>6, <1>7, <1>8, <1>9, <1>10, <1>11, <1>12, Zenon DEF Moving

(* An operation nobody waits for keeps fitting on its content only. *)
LEMMA LateStable ==
    ASSUME HistoryInv, OracleMove, WritesMove, NEW m \in Op, m.c \in Contents, LateInv(m)
    PROVE  LateInv(m)'
  <1>1. TypeOK /\ Bounded /\ m.v \in Nat
    BY Parts, Zenon DEF Op
  <1>2. /\ Len(writes) \in Nat /\ Contents \subseteq Contents'
        /\ \A c \in 1..Len(writes) : writes'[c] = writes[c]
        /\ \A c \in Contents : Upto(c)' = Upto(c)
    BY <1>1, WritesStable, Zenon
  <1>3. ASSUME m.op = "pin"
        PROVE  m.c # 0 /\ \E c \in Contents' : At(m.key, m.v, c)' /\ writes'[m.c].after = Upto(c)'
    <2>1. m.c # 0
      BY <1>3, Zenon DEF LateInv
    <2>2. PICK c \in Contents : At(m.key, m.v, c) /\ writes[m.c].after = Upto(c)
      BY <1>3, Zenon DEF LateInv
    <2>3. At(m.key, m.v, c)'
      BY <1>1, <2>2, AtStable, Zenon
    <2>4. m.c \in 1..Len(writes)
      BY <1>2, <2>1, SMTT(30), Z3T(30) DEF Contents
    <2>5. writes'[m.c].after = Upto(c)' /\ c \in Contents'
      BY <1>2, <2>2, <2>4, Zenon
    <2> QED BY <2>1, <2>3, <2>5, Zenon
  <1> QED BY <1>3, Zenon DEF LateInv

(* The invariants of the history, initially *)
LEMMA HistoryStart ==
    ASSUME Init
    PROVE  HistoryInv
  <1>1. /\ head = [k \in PcrKey |-> None] /\ retired = {} /\ writes = <<>> /\ late = {}
        /\ acked = {} /\ inst = [i \in Instance |-> Off] /\ disk = [d \in Disk |-> 0]
    BY Zenon DEF Init, OracleInit
  <1>2. Len(writes) = 0 /\ writes \in Seq([by : Instance, after : SUBSET Nat])
        /\ 1..Len(writes) = {}
    BY <1>1, SMTT(30), Z3T(30)
  <1>3. \A i \in Instance : inst[i] = Off
    BY <1>1, Zenon
  <1>0. \A k \in PcrKey : head[k] = None
    BY <1>1, ZenonT(30)
  <1>4. TypeOK
    <2>1. Off \in State
      BY Zenon DEF Off, State
    <2>2. inst \in [Instance -> State]
      BY <1>1, <2>1, Zenon
    <2>3. OracleTypeOK
      BY <1>1, Zenon DEF OracleTypeOK
    <2>4. disk \in [Disk -> 0..Len(writes)]
      BY <1>1, <1>2, SMTT(30), Z3T(30)
    <2> QED BY <1>1, <1>2, <2>2, <2>3, <2>4, Zenon DEF TypeOK, State
  <1>5. Bounded
    <2>1. \A i \in Instance : inst[i].region \in Contents /\ inst[i].job \in Contents
      BY <1>2, <1>3, SMTT(30), Z3T(30) DEF Off, Contents
    <2>2. Len(writes) <= MaxWrites
      BY <1>2, BootConstants, SMTT(30), Z3T(30)
    <2> QED BY <1>0, <1>1, <1>2, <2>1, <2>2, ZenonT(30) DEF Bounded
  <1>6. NoHistory
    BY <1>0, ZenonT(30) DEF NoHistory
  <1>7. OneHistory
    BY <1>0, <1>1, <1>6, Zenon DEF OneHistory
  <1>8. CommittedInv
    <2>1. Committed = {}
      BY <1>6, Zenon DEF NoHistory, Committed
    <2>2. \A i \in Instance : inst[i].pc # "pinned"
      BY <1>3, SMTT(30), Z3T(30) DEF Off
    <2> QED BY <1>1, <2>1, <2>2, Zenon DEF CommittedInv
  <1>9. ASSUME NEW i \in Instance PROVE InstInv(i)
    <2>1. inst[i].pc = "off"
      BY <1>3, SMTT(30), Z3T(30) DEF Off
    <2> QED BY <2>1, Zenon DEF InstInv, Up, Holding, Pinning
  <1> QED BY <1>1, <1>4, <1>5, <1>7, <1>8, <1>9, Zenon DEF HistoryInv

(* The invariants of the history, step by step *)
LEMMA HistoryStep ==
    ASSUME HistoryInv, Next
    PROVE  HistoryInv'
  <1>1. OracleMove /\ WritesMove
    BY NextIsMove, Zenon
  <1>2. TypeOK' /\ Bounded' /\ OneHistory' /\ CommittedInv'
    BY TypesStep, BoundedStep, OneHistoryStep, CommittedStep, Zenon
  <1>3. ASSUME NEW j \in Instance PROVE InstInv(j)'
    <2>1. ASSUME inst'[j] = inst[j] PROVE InstInv(j)'
      <3>1. InstInv(j) /\ inst[j].region \in Contents /\ inst[j].job \in Contents
        BY Parts, Zenon DEF Bounded
      <3>2. inst[j].expected \in Nat
        BY Parts, Zenon DEF TypeOK
      <3>3. PICK pc, key, d, region, expected, job :
               /\ inst[j].pc = pc /\ inst[j].key = key /\ inst[j].disk = d
               /\ inst[j].region = region /\ inst[j].expected = expected /\ inst[j].job = job
        BY ZenonT(30)
      <3>4. Stands(j, pc, key, d, region, expected, job)'
        BY <1>1, <3>1, <3>2, <3>3, StandsNow, StandsStable, Zenon
      <3> QED BY <2>1, <3>3, <3>4, StandsNext, Zenon
    <2>2. ASSUME NEW i \in Instance, Moving(i) PROVE InstInv(j)'
      <3>1. CASE i = j
        BY <2>2, <3>1, StandsMoved, Zenon
      <3>2. CASE i # j
        BY <2>1, <2>2, <3>2, MovingIsMove, Zenon
      <3> QED BY <3>1, <3>2, Zenon
    <2>3. ASSUME NEW m, LateApply(m) PROVE inst'[j] = inst[j]
      BY <2>3, Zenon DEF LateApply
    <2>4. ASSUME NEW d, Restore(d) PROVE inst'[j] = inst[j]
      BY <2>4, Zenon DEF Restore
    <2> QED BY <2>1, <2>2, <2>3, <2>4, Kinds, Zenon
  <1>4. ASSUME NEW m \in late' PROVE LateInv(m)'
    <2>1. m \in late \/ \E i \in Instance : m \in Pending(i)
      BY LateMoves, Zenon
    <2>2. m.c \in Contents /\ LateInv(m)
      BY <2>1, PendingInv, Parts, Zenon DEF Bounded
    <2>3. m \in Op
      BY <1>2, Zenon DEF TypeOK
    <2> QED BY <1>1, <2>2, <2>3, LateStable, Zenon
  <1> QED BY <1>2, <1>3, <1>4, Zenon DEF HistoryInv

(* The history of the volume is one line, and what an instance, or an      *)
(* operation it gave up, expects of the oracle still tells whether its     *)
(* write fits.                                                             *)
THEOREM HistoryInvariant == Spec => []HistoryInv
  <1>1. HistoryInv /\ UNCHANGED vars => HistoryInv'
    <2> SUFFICES ASSUME HistoryInv, UNCHANGED vars PROVE HistoryInv'
      BY Zenon
    <2>1. UNCHANGED <<head, retired, inst, disk, writes, late, acked>>
      BY Zenon DEF vars, oracle
    <2>2. TypeOK'
      BY <2>1, Parts, Zenon DEF TypeOK, OracleTypeOK
    <2>3. Bounded'
      BY <2>1, Parts, Zenon DEF Bounded, Contents
    <2>4. OneHistory'
      BY <2>1, Parts, Zenon DEF OneHistory, NoHistory, Fresh
    <2>5. CommittedInv'
      BY <2>1, Parts, SMTT(30), Z3T(30) DEF CommittedInv, Committed, Upto
    <2>6. \A i \in Instance : InstInv(i)'
      <3> SUFFICES ASSUME NEW i \in Instance PROVE InstInv(i)'
        BY Zenon
      <3>1. InstInv(i)
        BY Parts, Zenon
      <3> QED BY <2>1, <3>1, ZenonT(30) DEF InstInv, At, Fresh, Upto
    <2>7. \A m \in late' : LateInv(m)'
      <3> SUFFICES ASSUME NEW m \in late PROVE LateInv(m)'
        BY <2>1, Zenon
      <3>1. LateInv(m)
        BY Parts, Zenon
      <3> QED BY <2>1, <3>1, ZenonT(30) DEF LateInv, At, Fresh, Upto, Contents
    <2> QED BY <2>2, <2>3, <2>4, <2>5, <2>6, <2>7, Zenon DEF HistoryInv
  <1> QED BY <1>1, HistoryStart, HistoryStep, PTL DEF Spec

(* No forked volume: of two acknowledged writes one was made on top of the *)
(* other (pin_with_retries and the boot decision, against the oracle), for *)
(* any number of clones, disks, images, retries and late pins.             *)
THEOREM AcksAreLinear == Spec => []AckedIsLinear
  <1>1. HistoryInv => AckedIsLinear
    BY Parts, Zenon DEF CommittedInv, AckedIsLinear
  <1> QED BY <1>1, HistoryInvariant, PTL

-----------------------------------------------------------------------------
(* Whose write is at the head *)

(* A write that was not there before is the one this step makes. *)
LEMMA NewWrite ==
    ASSUME HistoryInv, WritesMove, NEW c \in 1..Len(writes')
    PROVE  \/ c \in 1..Len(writes) /\ writes'[c] = writes[c]
           \/ /\ c = Len(writes) + 1
              /\ \E j \in Instance : MakesWrite(j) /\ writes'[c].by = j
  <1>1. /\ TypeOK /\ Bounded /\ Len(writes) \in Nat
        /\ \A x \in 1..Len(writes) : writes'[x] = writes[x]
    BY Parts, WritesStable, Zenon
  <1>2. CASE UNCHANGED writes
    BY <1>2, Zenon
  <1>3. CASE \E j \in Instance : MakesWrite(j)
    <2> PICK j \in Instance : MakesWrite(j)
      BY <1>3, Zenon
    <2> DEFINE w == [by |-> j, after |-> Upto(Region(j))]
    <2>1. writes' = Append(writes, w) /\ w.by = j
      BY Zenon DEF MakesWrite
    <2> HIDE DEF w
    <2>2. writes \in Seq([by : Instance, after : SUBSET Nat])
      BY <1>1, Zenon DEF TypeOK
    <2>3. Len(writes') = Len(writes) + 1 /\ writes'[Len(writes) + 1] = w
      BY <1>1, <2>1, <2>2, SMTT(30), Z3T(30)
    <2>4. c \in 1..Len(writes) \/ c = Len(writes) + 1
      BY <1>1, <2>3, SMTT(30), Z3T(30)
    <2> QED BY <1>1, <2>1, <2>3, <2>4, Zenon
  <1> QED BY <1>2, <1>3, Zenon DEF WritesMove

(* Where an instance may come from, and what it does not do on the way *)
LEMMA Backwards ==
    ASSUME NEW i \in Instance, Moving(i)
    PROVE  /\ inst'[i].pc \in Booting \cup {"off"} =>
                  inst[i].pc \in Booting \cup {"off"} /\ UNCHANGED writes
           /\ inst'[i].pc \in Up /\ inst[i].pc \notin Up => Starts(i)
           /\ inst[i].pc \in {"failed", "mismatch", "fork"} => Lands(i)
  <1>1. ASSUME Starts(i)
        PROVE  inst[i].pc = "off" /\ inst'[i].pc = "get" /\ UNCHANGED writes
    BY <1>1, ZenonT(30) DEF Starts, Goes
  <1>2. ASSUME Looks(i)
        PROVE  inst[i].pc \in Booting /\ inst'[i].pc \in Booting /\ UNCHANGED writes
    BY <1>2, Zenon DEF Looks, GoesOn, Goes
  <1>3. ASSUME Serves(i) PROVE inst[i].pc \in Booting /\ inst'[i].pc = "serving"
    BY <1>3, Zenon DEF Serves, Goes
  <1>4. ASSUME Ends(i) PROVE inst[i].pc \in Up /\ inst'[i].pc \in {"failed", "mismatch", "fork"}
    BY <1>4, Zenon DEF Ends, Goes
  <1>5. ASSUME Tries(i)
        PROVE  inst[i].pc \in {"pin", "pinGet"} /\ inst'[i].pc \in {"pin", "pinGet"}
    BY <1>5, Zenon DEF Tries, GoesOn, Goes
  <1>6. ASSUME Pins(i) PROVE inst[i].pc \in {"pin", "pinGet"} /\ inst'[i].pc = "pinned"
    BY <1>6, Zenon DEF Pins, Goes
  <1>7. ASSUME MakesWrite(i) PROVE inst[i].pc = "serving" /\ inst'[i].pc = "pin"
    BY <1>7, Zenon DEF MakesWrite, Goes
  <1>8. ASSUME Lands(i) PROVE inst'[i].pc = inst[i].pc /\ UNCHANGED writes
    BY <1>8, Zenon DEF Lands, Goes
  <1>9. ASSUME Acks(i) PROVE inst[i].pc = "pinned" /\ inst'[i].pc = "serving"
    BY <1>9, Zenon DEF Acks, Goes
  <1>a. inst'[i].pc \in Booting \cup {"off"} =>
            inst[i].pc \in Booting \cup {"off"} /\ UNCHANGED writes
    BY <1>1, <1>2, <1>3, <1>4, <1>5, <1>6, <1>7, <1>8, <1>9, ZenonT(30) DEF Moving, Booting
  <1>b. inst'[i].pc \in Up /\ inst[i].pc \notin Up => Starts(i)
    BY <1>2, <1>3, <1>4, <1>5, <1>6, <1>7, <1>8, <1>9, ZenonT(30) DEF Moving, Booting, Up
  <1>c. inst[i].pc \in {"failed", "mismatch", "fork"} => Lands(i)
    BY <1>1, <1>2, <1>3, <1>4, <1>5, <1>6, <1>7, <1>9, ZenonT(30) DEF Moving, Booting, Up
  <1> QED BY <1>a, <1>b, <1>c, Zenon

(* A pin lands at the oracle past what its instance expected. *)
LEMMA PinsLand ==
    ASSUME HistoryInv, NEW i \in Instance, Pins(i)
    PROVE  /\ Goes(i, "pinned", inst[i].key, inst[i].disk, inst[i].region, inst'[i].expected,
                   inst[i].job, inst[i].applied)
           /\ inst[i].key \in PcrKey /\ inst[i].expected \in Nat /\ inst'[i].expected \in Nat
           /\ inst[i].expected < inst'[i].expected
           /\ head'[inst[i].key] # None /\ head'[inst[i].key].commitment = inst[i].job
           /\ head'[inst[i].key].version = inst'[i].expected
  <1>1. PICK v \in Nat :
           /\ Goes(i, "pinned", Key(i), inst[i].disk, Region(i), v, inst[i].job,
                   inst[i].applied)
           /\ \/ /\ inst[i].pc = "pin" /\ Swaps(Key(i), inst[i].expected)
                 /\ Extend(Key(i), inst[i].job) /\ v = inst[i].expected + 1
              \/ /\ UNCHANGED oracle /\ head[Key(i)] # None
                 /\ head[Key(i)].commitment = inst[i].job /\ head[Key(i)].version = v
    BY ZenonT(30) DEF Pins
  <1>2. inst'[i].expected = v /\ Key(i) = inst[i].key /\ Region(i) = inst[i].region
    BY <1>1, Zenon DEF Goes, Key, Region
  <1>3. InstInv(i) /\ inst[i].pc \in {"pin", "pinGet"}
    BY Parts, Zenon DEF Pins
  <1>4. /\ inst[i].key \in PcrKey /\ At(inst[i].key, inst[i].expected, inst[i].region)
        /\ inst[i].region < inst[i].job
    BY <1>3, Zenon DEF InstInv, Up, Holding, Pinning
  <1>5. inst[i].expected \in Nat /\ inst[i].region \in Nat /\ inst[i].job \in Nat
    BY Parts, Zenon DEF TypeOK
  <1>6. CASE /\ UNCHANGED oracle /\ head[Key(i)] # None
             /\ head[Key(i)].commitment = inst[i].job /\ head[Key(i)].version = v
    <2>1. inst[i].expected < v
      BY <1>2, <1>4, <1>5, <1>6, SMTT(30), Z3T(30) DEF At
    <2> QED BY <1>1, <1>2, <1>4, <1>5, <1>6, <2>1, Zenon DEF oracle
  <1>7. CASE /\ inst[i].pc = "pin" /\ Swaps(Key(i), inst[i].expected)
             /\ Extend(Key(i), inst[i].job) /\ v = inst[i].expected + 1
    <2>1. /\ head'[Key(i)] = [commitment |-> inst[i].job, version |-> inst[i].expected + 1]
          /\ head'[Key(i)] # None
      BY <1>7, PinsExtend, Zenon
    <2>2. inst[i].expected < v
      BY <1>5, <1>7, SMTT(30), Z3T(30)
    <2>3. head'[Key(i)].commitment = inst[i].job /\ head'[Key(i)].version = v
      BY <1>7, <2>1, SMTT(30), Z3T(30)
    <2> QED BY <1>1, <1>2, <1>4, <1>5, <2>1, <2>2, <2>3, Zenon
  <1> QED BY <1>1, <1>6, <1>7, Zenon

(* What passed an instance stays somebody else's, or its own pin, as long  *)
(* as the others move the oracle.                                          *)
LEMMA PassedStable ==
    ASSUME HistoryInv, OracleMove, WritesMove, NEW i \in Instance, NEW pc, NEW key,
           NEW expected \in Nat, NEW job, Passed(i, pc, key, expected, job),
           pc \in Holding => \E c : At(key, expected, c),
           pc \in Holding /\ head'[key] \notin {None, head[key]} =>
               \/ writes[head'[key].commitment].by # i
               \/ pc \in {"pin", "pinGet"} /\ head'[key].commitment = job
    PROVE  Passed(i, pc, key, expected, job)'
  <1> SUFFICES ASSUME pc \in Holding, head'[key] # None
               PROVE  /\ pc = "pinGet" => head'[key].version > expected
                      /\ head'[key].version > expected =>
                            /\ head'[key].commitment # 0
                            /\ \/ writes'[head'[key].commitment].by # i
                               \/ pc \in {"pin", "pinGet"} /\ head'[key].commitment = job
    BY Zenon DEF Passed
  <1>1. PICK x : At(key, expected, x)
    BY Zenon
  <1>2. TypeOK /\ Bounded /\ key \in PcrKey /\ ~Fresh(key)
    BY <1>1, Parts, Zenon DEF At
  <1>3. /\ Len(writes) \in Nat /\ \A c \in 1..Len(writes) : writes'[c] = writes[c]
    BY <1>2, WritesStable, Zenon
  <1>4. CASE head'[key] = head[key]
    <2>1. head[key].commitment \in Contents
      BY <1>2, <1>4, Zenon DEF Bounded
    <2>2. head[key].commitment # 0 => head[key].commitment \in 1..Len(writes)
      BY <1>3, <2>1, SMTT(30), Z3T(30) DEF Contents
    <2> QED BY <1>3, <1>4, <2>2, Zenon DEF Passed
  <1>5. ASSUME head'[key] # head[key],
               head[key] # None, head'[key].version = head[key].version + 1,
               NEW c, Extends(key, c), head'[key].commitment = c
        PROVE  /\ pc = "pinGet" => head'[key].version > expected
               /\ head'[key].commitment # 0
               /\ \/ writes'[head'[key].commitment].by # i
                  \/ pc \in {"pin", "pinGet"} /\ head'[key].commitment = job
    <2>1. head[key].version \in Nat
      BY <1>2, <1>5, HeadTyped, Zenon DEF TypeOK
    <2>2. head'[key].version > expected
      BY <1>1, <1>5, <2>1, SMTT(30), Z3T(30) DEF At
    <2>3. c \in 1..Len(writes) /\ writes'[c] = writes[c]
      BY <1>3, <1>5, Zenon DEF Extends
    <2>4. c # 0
      BY <1>3, <2>3, SMTT(30), Z3T(30)
    <2> QED BY <1>5, <2>2, <2>3, <2>4, Zenon
  <1> QED BY <1>2, <1>4, <1>5, HeadMoves, Zenon

(* An instance that does not serve yet still has written nothing. *)
LEMMA NothingStep ==
    ASSUME HistoryInv, Next, \A i \in Instance : NothingYet(i), NEW i \in Instance
    PROVE  NothingYet(i)'
  <1> SUFFICES ASSUME inst'[i].pc \in Booting \cup {"off"}, NEW c \in 1..Len(writes')
               PROVE  writes'[c].by # i
    BY Zenon DEF NothingYet
  <1>1. inst[i].pc \in Booting \cup {"off"} /\ ~MakesWrite(i)
    <2>1. ASSUME Moving(i) PROVE inst[i].pc \in Booting \cup {"off"} /\ ~MakesWrite(i)
      <3>1. inst[i].pc \in Booting \cup {"off"}
        BY <2>1, Backwards, Zenon
      <3> QED BY <3>1, Zenon DEF MakesWrite, Booting
    <2>2. ASSUME inst'[i] = inst[i] PROVE inst[i].pc \in Booting \cup {"off"} /\ ~MakesWrite(i)
      BY <2>2, Zenon DEF MakesWrite, Booting
    <2>3. ASSUME NEW j \in Instance, Moving(j), j # i PROVE inst'[i] = inst[i]
      BY <2>3, MovingIsMove, Zenon
    <2>4. ASSUME NEW m, LateApply(m) PROVE inst'[i] = inst[i]
      BY <2>4, Zenon DEF LateApply
    <2>5. ASSUME NEW d, Restore(d) PROVE inst'[i] = inst[i]
      BY <2>5, Zenon DEF Restore
    <2> QED BY <2>1, <2>2, <2>3, <2>4, <2>5, Kinds, Zenon
  <1>2. \A x \in 1..Len(writes) : writes[x].by # i
    BY <1>1, Zenon DEF NothingYet
  <1>3. WritesMove
    BY NextIsMove, Zenon
  <1> QED BY <1>1, <1>2, <1>3, NewWrite, Zenon

(* What an instance expects, typed *)
LEMMA Expects ==
    ASSUME HistoryInv, NEW i \in Instance
    PROVE  /\ inst[i].expected \in Nat
           /\ inst[i].pc \in Holding => \E c : At(inst[i].key, inst[i].expected, c)
           /\ inst[i].pc \in Holding => inst[i].key \in PcrKey
  <1>1. InstInv(i) /\ inst[i].expected \in Nat
    BY Parts, Zenon DEF TypeOK
  <1> QED BY <1>1, Zenon DEF InstInv, Holding, Up

(* PassedBy, of an instance that goes to the given state *)
LEMMA PassedNext ==
    ASSUME NEW i \in Instance, NEW pc, NEW key, NEW expected, NEW job,
           Passed(i, pc, key, expected, job)',
           /\ inst'[i].pc = pc /\ inst'[i].key = key
           /\ inst'[i].expected = expected /\ inst'[i].job = job
    PROVE  PassedBy(i)'
  BY Zenon DEF PassedBy, Passed

(* An instance that moves is not passed by its own writes. *)
LEMMA PassedMoved ==
    ASSUME HistoryInv, NEW i \in Instance, PassedBy(i), Moving(i)
    PROVE  PassedBy(i)'
  <1>1. PICK pc, key, expected, job :
           /\ inst[i].pc = pc /\ inst[i].key = key
           /\ inst[i].expected = expected /\ inst[i].job = job
    BY ZenonT(30)
  <1>2. /\ OracleMove /\ WritesMove /\ expected \in Nat
        /\ pc \in Holding => key \in PcrKey /\ \E c : At(key, expected, c)
    BY <1>1, MovingIsMove, Expects, Zenon
  <1>3. Passed(i, pc, key, expected, job) /\ Key(i) = key
    BY <1>1, Zenon DEF PassedBy, Key
  <1>4. UNCHANGED oracle => Passed(i, pc, key, expected, job)'
    BY <1>2, <1>3, PassedStable, Zenon DEF oracle
  <1>5. CASE Serves(i)
    <2>1. PICK v \in Nat :
             /\ Goes(i, "serving", Key(i), inst[i].disk, Region(i), v, inst[i].job,
                     inst[i].applied)
             /\ head'[Key(i)] # None /\ head'[Key(i)].version = v
      BY <1>5, ZenonT(30) DEF Serves
    <2>2. ~(v > v)
      BY SMTT(30), Z3T(30)
    <2>3. Passed(i, "serving", key, v, job)'
      BY <1>3, <2>1, <2>2, Zenon DEF Passed
    <2> QED BY <1>1, <1>3, <2>1, <2>3, PassedNext, Zenon DEF Goes
  <1>6. CASE Pins(i)
    <2>1. PICK v : v = inst'[i].expected
      BY Zenon
    <2>2. /\ inst'[i].pc = "pinned" /\ inst'[i].key = key /\ inst'[i].job = job /\ v \in Nat
          /\ head'[key].version = v
      BY <1>1, <1>6, <2>1, PinsLand, Zenon DEF Goes
    <2>3. ~(v > v)
      BY <2>2, SMTT(30), Z3T(30)
    <2>4. Passed(i, "pinned", key, v, job)'
      BY <2>2, <2>3, Zenon DEF Passed
    <2> QED BY <2>1, <2>2, <2>4, PassedNext, Zenon
  <1>7. CASE MakesWrite(i)
    <2>1. PICK n : n = inst'[i].job
      BY Zenon
    <2>2. /\ pc = "serving" /\ UNCHANGED oracle
          /\ inst'[i].pc = "pin" /\ inst'[i].key = key /\ inst'[i].expected = expected
      BY <1>1, <1>3, <1>7, Zenon DEF MakesWrite, Goes
    <2>3. Passed(i, "pin", key, expected, n)'
      BY <1>4, <2>2, Zenon DEF Passed, Holding
    <2> QED BY <2>1, <2>2, <2>3, PassedNext, Zenon
  <1>8. CASE Tries(i)
    <2>1. PICK x \in {"pin", "pinGet"} :
             GoesOn(i, x) /\ (x = "pinGet" => head[key] # None /\ ~Swaps(key, expected))
      BY <1>1, <1>3, <1>8, Zenon DEF Tries
    <2>2. /\ inst'[i].pc = x /\ inst'[i].key = key /\ inst'[i].expected = expected
          /\ inst'[i].job = job /\ UNCHANGED oracle /\ pc \in {"pin", "pinGet"}
          /\ head' = head
      BY <1>1, <1>8, <2>1, Zenon DEF GoesOn, Goes, Tries, oracle
    <2>3. x = "pinGet" => head[key].version > expected
      <3>1. key \in PcrKey /\ \E c : At(key, expected, c)
        BY <1>2, <2>2, Zenon DEF Holding
      <3>2. OracleTypeOK /\ (x = "pinGet" => head[key] # None /\ head[key].version # expected)
        BY <2>1, Parts, Zenon DEF Swaps, TypeOK
      <3>3. x = "pinGet" => head[key].version \in Nat /\ expected <= head[key].version
        BY <3>1, <3>2, HeadTyped, Zenon DEF At
      <3> QED BY <1>2, <3>2, <3>3, SMTT(30), Z3T(30)
    <2>4. Passed(i, x, key, expected, job)'
      BY <1>4, <2>2, <2>3, Zenon DEF Passed, Holding
    <2> QED BY <2>2, <2>4, PassedNext, Zenon
  <1>9. CASE Lands(i)
    <2>1. /\ UNCHANGED oracle /\ inst'[i].pc = pc /\ inst'[i].key = key
          /\ inst'[i].expected = expected /\ inst'[i].job = job
      BY <1>1, <1>3, <1>9, Zenon DEF Lands, Goes
    <2> QED BY <1>4, <2>1, PassedNext, Zenon
  <1>a. CASE Acks(i)
    <2>1. /\ pc = "pinned" /\ UNCHANGED oracle /\ inst'[i].pc = "serving"
          /\ inst'[i].key = key /\ inst'[i].expected = expected /\ inst'[i].job = job
      BY <1>1, <1>3, <1>a, Zenon DEF Acks, Goes
    <2>2. Passed(i, "serving", key, expected, job)'
      BY <1>4, <2>1, Zenon DEF Passed, Holding
    <2> QED BY <2>1, <2>2, PassedNext, Zenon
  <1>b. CASE Starts(i) \/ Looks(i) \/ Ends(i)
    <2>1. inst'[i].pc \notin Holding
      <3>1. CASE Starts(i)
        BY <3>1, ZenonT(30) DEF Starts, Goes, Holding
      <3>2. CASE Looks(i)
        BY <3>2, ZenonT(30) DEF Looks, GoesOn, Goes, Holding, Booting
      <3>3. CASE Ends(i)
        BY <3>3, ZenonT(30) DEF Ends, Goes, Holding
      <3> QED BY <1>b, <3>1, <3>2, <3>3, Zenon
    <2> QED BY <2>1, Zenon DEF PassedBy, Passed
  <1> QED BY <1>5, <1>6, <1>7, <1>8, <1>9, <1>a, <1>b, Zenon DEF Moving

(* A key that holds the history keeps it, or hands it over, when a history *)
(* starts or is handed over.                                               *)
LEMMA HeadKept ==
    ASSUME TypeOK, NEW k \in PcrKey, ~Fresh(k),
           \/ UNCHANGED oracle
           \/ \E x \in PcrKey : \E c : Start(x, c)
           \/ \E old, new \in PcrKey : HandOver(old, new)
    PROVE  head'[k] \in {None, head[k]}
  <1>1. head \in [PcrKey -> {None} \cup PinnedHead]
    BY Zenon DEF TypeOK, OracleTypeOK
  <1>2. CASE UNCHANGED oracle
    BY <1>2, Zenon DEF oracle
  <1>3. ASSUME NEW x \in PcrKey, NEW c, Start(x, c) PROVE head'[k] = head[k]
    <2>1. x # k
      BY <1>3, Zenon DEF Start
    <2> QED BY <1>1, <1>3, <2>1, Zenon DEF Start
  <1>4. ASSUME NEW old \in PcrKey, NEW new \in PcrKey, HandOver(old, new)
        PROVE  head'[k] \in {None, head[k]}
    <2>1. new # k /\ new # old
      BY <1>4, Zenon DEF HandOver, Fresh
    <2> QED BY <1>1, <1>4, <2>1, Zenon DEF HandOver
  <1> QED BY <1>2, <1>3, <1>4, Zenon

(* What an instance's step does to a key of the history: its own pin *)
LEMMA MovingHead ==
    ASSUME HistoryInv, NEW j \in Instance, Moving(j), NEW k \in PcrKey, ~Fresh(k),
           head'[k] \notin {None, head[k]}
    PROVE  /\ Pins(j) /\ inst[j].key = k /\ head'[k].commitment = inst[j].job
           /\ writes[inst[j].job].by = j
  <1>1. TypeOK /\ InstInv(j) /\ Key(j) = inst[j].key
        /\ head \in [PcrKey -> {None} \cup PinnedHead]
    BY Parts, Zenon DEF Key, TypeOK, OracleTypeOK
  <1>2. ~UNCHANGED oracle
    BY Zenon DEF oracle
  <1>3. Looks(j) \/ Serves(j) \/ Pins(j)
    BY <1>2, ZenonT(30) DEF Moving, Starts, Ends, Tries, MakesWrite, Lands, Acks
  <1>4. ~Looks(j) /\ ~Serves(j)
    <2>1. inst[j].pc \in Booting => Key(j) \in PcrKey
      BY <1>1, Zenon DEF InstInv, Booting, Up
    <2>2. ASSUME Looks(j) \/ Serves(j)
          PROVE  \/ \E x \in PcrKey : \E c : Start(x, c)
                 \/ \E old, new \in PcrKey : HandOver(old, new)
      BY <1>2, <2>1, <2>2, Zenon DEF Looks, Serves
    <2> QED BY <1>1, <2>2, HeadKept, Zenon
  <1>5. Pins(j) /\ Extend(Key(j), inst[j].job) /\ Key(j) \in PcrKey
    <2>1. Pins(j) /\ Extend(Key(j), inst[j].job)
      BY <1>2, <1>3, <1>4, ZenonT(30) DEF Pins
    <2> QED BY <1>1, <2>1, Zenon DEF Pins, InstInv, Up
  <1>6. k = Key(j)
    BY <1>1, <1>5, Zenon DEF Extend
  <1>7. head'[k] = [commitment |-> inst[j].job, version |-> head[k].version + 1]
    BY <1>1, <1>5, <1>6, Zenon DEF Extend
  <1>8. writes[inst[j].job].by = j
    BY <1>1, <1>5, Zenon DEF InstInv, Pins, Pinning
  <1> QED BY <1>1, <1>5, <1>6, <1>7, <1>8, SMTT(30), Z3T(30)

(* What an operation executed late does to a key of the history: its pin *)
LEMMA LateHead ==
    ASSUME HistoryInv, NEW m \in late, LateApply(m), NEW k \in PcrKey, ~Fresh(k),
           head'[k] \notin {None, head[k]}
    PROVE  /\ m.op = "pin" /\ m.key = k /\ head'[k].commitment = m.c
           /\ head[k] # None /\ head[k].version = m.v
           /\ m.c \in 1..Len(writes) /\ m.v \in Nat
  <1>1. /\ TypeOK /\ LateInv(m) /\ m.key \in PcrKey /\ m.c \in Contents /\ m.v \in Nat
        /\ head \in [PcrKey -> {None} \cup PinnedHead]
    <2>1. TypeOK /\ LateInv(m) /\ m.c \in Contents /\ m \in Op
      BY Parts, Zenon DEF Bounded, TypeOK
    <2> QED BY <2>1, Zenon DEF LateInv, Op, TypeOK, OracleTypeOK
  <1>2. m.op = "pin" /\ Swaps(m.key, m.v) /\ Extend(m.key, m.c)
    <2>1. ASSUME m.op = "register" /\ Start(m.key, m.c) PROVE FALSE
      BY <1>1, <2>1, HeadKept, Zenon
    <2>2. ASSUME m.op = "transition" /\ Moves(m.old, m.key, m.c) /\ HandOver(m.old, m.key)
          PROVE  FALSE
      <3>1. m.old \in PcrKey
        BY <2>2, BootConstants, Zenon DEF Moves
      <3> QED BY <1>1, <2>2, <3>1, HeadKept, Zenon
    <2> QED BY <2>1, <2>2, Zenon DEF LateApply
  <1>3. k = m.key
    BY <1>1, <1>2, Zenon DEF Extend
  <1>4. head'[k] = [commitment |-> m.c, version |-> head[k].version + 1] /\ head[k] # None
    BY <1>1, <1>2, <1>3, Zenon DEF Extend
  <1>5. m.c \in 1..Len(writes)
    <2>1. m.c # 0 /\ Len(writes) \in Nat
      BY <1>1, <1>2, SMTT(30), Z3T(30) DEF LateInv, TypeOK
    <2> QED BY <1>1, <2>1, SMTT(30), Z3T(30) DEF Contents
  <1>6. head'[k].commitment = m.c
    BY <1>4, SMTT(30), Z3T(30)
  <1> QED BY <1>1, <1>2, <1>3, <1>4, <1>5, <1>6, Zenon DEF Swaps

(* No instance is passed by its own writes, whoever moves. *)
LEMMA PassedStep ==
    ASSUME HistoryInv, OwnInv, Next, NEW i \in Instance
    PROVE  PassedBy(i)'
  <1>1. PassedBy(i) /\ OracleMove /\ WritesMove
    BY NextIsMove, Zenon DEF OwnInv
  <1>2. PICK pc, key, expected, job :
           /\ inst[i].pc = pc /\ inst[i].key = key
           /\ inst[i].expected = expected /\ inst[i].job = job
    BY ZenonT(30)
  <1>3. /\ Passed(i, pc, key, expected, job) /\ expected \in Nat
        /\ pc \in Holding => \E c : At(key, expected, c)
    BY <1>1, <1>2, Expects, Zenon DEF PassedBy
  <1>4. ASSUME inst'[i] = inst[i],
               pc \in Holding /\ head'[key] \notin {None, head[key]} =>
                   \/ writes[head'[key].commitment].by # i
                   \/ pc \in {"pin", "pinGet"} /\ head'[key].commitment = job
        PROVE  PassedBy(i)'
    <2>1. Passed(i, pc, key, expected, job)'
      BY <1>1, <1>3, <1>4, PassedStable, Zenon
    <2> QED BY <1>2, <1>4, <2>1, PassedNext, Zenon
  <1>5. pc \in Holding => key \in PcrKey /\ ~Fresh(key)
    BY <1>3, Zenon DEF At
  <1>6. ASSUME NEW j \in Instance, Moving(j), j # i PROVE PassedBy(i)'
    <2>1. inst'[i] = inst[i]
      BY <1>6, MovingIsMove, Zenon
    <2>2. ASSUME pc \in Holding, head'[key] \notin {None, head[key]}
          PROVE  writes[head'[key].commitment].by # i
      BY <1>5, <1>6, <2>2, MovingHead, Zenon
    <2> QED BY <1>4, <2>1, <2>2, Zenon
  <1>7. ASSUME NEW m \in late, LateApply(m) PROVE PassedBy(i)'
    <2>1. inst'[i] = inst[i]
      BY <1>7, Zenon DEF LateApply
    <2>2. ASSUME pc \in Holding, head'[key] \notin {None, head[key]}, writes[m.c].by = i
          PROVE  pc \in {"pin", "pinGet"} /\ m.c = job
      <3>1. /\ m.op = "pin" /\ m.key = key /\ head[key] # None /\ head[key].version = m.v
            /\ m.v \in Nat
        BY <1>5, <1>7, <2>2, LateHead, Zenon
      <3>2. Own(m, pc, key, expected, job)
        BY <1>2, <2>2, <3>1, Zenon DEF OwnInv, OwnLate
      <3>3. expected <= m.v
        BY <1>3, <2>2, <3>1, Zenon DEF At
      <3>4. ~(m.v < expected)
        BY <1>3, <3>1, <3>3, SMTT(30), Z3T(30)
      <3> QED BY <2>2, <3>2, <3>4, Zenon DEF Own
    <2>3. ASSUME pc \in Holding, head'[key] \notin {None, head[key]}
          PROVE  head'[key].commitment = m.c
      BY <1>5, <1>7, <2>3, LateHead, Zenon
    <2> QED BY <1>4, <2>1, <2>2, <2>3, Zenon
  <1>8. ASSUME NEW d, Restore(d) PROVE PassedBy(i)'
    BY <1>4, <1>8, Zenon DEF Restore, oracle
  <1> QED BY <1>1, <1>6, <1>7, <1>8, Kinds, PassedMoved, Zenon

(* A pin nobody waits for is behind its instance, or its pin in flight,    *)
(* wherever the instance goes.                                             *)
LEMMA OwnMoved ==
    ASSUME HistoryInv, OwnInv, NEW i \in Instance, Moving(i),
           NEW m \in Op, m.op = "pin", m.c \in 1..Len(writes), writes[m.c].by = i,
           \/ Own(m, inst[i].pc, inst[i].key, inst[i].expected, inst[i].job)
           \/ m \in Pending(i) /\ (Ends(i) \/ Tries(i))
    PROVE  Own(m, inst'[i].pc, inst'[i].key, inst'[i].expected, inst'[i].job)
  <1>1. Key(i) = inst[i].key /\ inst[i].expected \in Nat /\ m.v \in Nat
    BY Expects, Zenon DEF Key, Op
  <1>2. ASSUME m \in Pending(i), Tries(i)
        PROVE  Own(m, inst[i].pc, inst[i].key, inst[i].expected, inst[i].job)
    <2>1. CASE inst[i].pc = "pin"
      <3>1. m = [op |-> "pin", key |-> Key(i), c |-> inst[i].job, v |-> inst[i].expected,
                 old |-> None]
        BY <1>2, <2>1, Zenon DEF Pending
      <3>2. m.key = Key(i) /\ m.c = inst[i].job /\ m.v = inst[i].expected
        BY <3>1, SMTT(30), Z3T(30)
      <3> QED BY <1>1, <2>1, <3>2, Zenon DEF Own
    <2>2. CASE inst[i].pc = "pinGet"
      BY <1>2, <2>2, Zenon DEF Pending
    <2> QED BY <1>2, <2>1, <2>2, Zenon DEF Tries
  <1>3. CASE Serves(i) \/ Looks(i) \/ Starts(i)
    <2>1. inst[i].pc \in Booting \cup {"off"}
      BY <1>3, ZenonT(30) DEF Serves, Looks, Starts
    <2> QED BY <2>1, Zenon DEF OwnInv, NothingYet
  <1>4. CASE Ends(i)
    BY <1>4, Zenon DEF Ends, Goes, Own, Holding
  <1>5. CASE Tries(i)
    <2>1. Own(m, inst[i].pc, inst[i].key, inst[i].expected, inst[i].job)
      BY <1>2, <1>5, Zenon
    <2>2. /\ inst[i].pc \in {"pin", "pinGet"} /\ inst'[i].pc \in {"pin", "pinGet"}
          /\ inst'[i].key = inst[i].key /\ inst'[i].expected = inst[i].expected
          /\ inst'[i].job = inst[i].job
      BY <1>5, Zenon DEF Tries, GoesOn, Goes
    <2> QED BY <2>1, <2>2, Zenon DEF Own, Holding
  <1>6. CASE Pins(i) /\ ~Ends(i)
    <2>1. Own(m, inst[i].pc, inst[i].key, inst[i].expected, inst[i].job)
          /\ inst[i].pc \in {"pin", "pinGet"}
      BY <1>2, <1>6, Zenon DEF Pins
    <2>2. /\ inst'[i].pc = "pinned" /\ inst'[i].key = inst[i].key
          /\ inst[i].expected < inst'[i].expected /\ inst'[i].expected \in Nat
      BY <1>6, PinsLand, Zenon DEF Goes
    <2>3. m.key = inst[i].key /\ (m.v < inst[i].expected \/ m.v = inst[i].expected)
      BY <2>1, Zenon DEF Own, Holding
    <2>4. m.v < inst'[i].expected
      BY <1>1, <2>2, <2>3, SMTT(30), Z3T(30)
    <2> QED BY <2>2, <2>3, <2>4, Zenon DEF Own
  <1>7. CASE (MakesWrite(i) \/ Lands(i) \/ Acks(i)) /\ ~Ends(i)
    <2>2. Own(m, inst[i].pc, inst[i].key, inst[i].expected, inst[i].job)
      BY <1>2, <1>7, Zenon
    <2>3. CASE MakesWrite(i)
      BY <1>1, <2>2, <2>3, Zenon DEF MakesWrite, Goes, Own, Holding
    <2>4. CASE Lands(i)
      BY <1>1, <2>2, <2>4, Zenon DEF Lands, Goes, Own
    <2>5. CASE Acks(i)
      BY <1>1, <2>2, <2>5, Zenon DEF Acks, Goes, Own, Holding
    <2> QED BY <1>7, <2>3, <2>4, <2>5, Zenon
  <1> QED BY <1>3, <1>4, <1>5, <1>6, <1>7, Zenon DEF Moving

(* Where the pins nobody waits for stand, step by step *)
LEMMA OwnLateStep ==
    ASSUME HistoryInv, OwnInv, Next, NEW m \in late'
    PROVE  OwnLate(m)'
  <1> SUFFICES ASSUME m.op = "pin", NEW w \in Instance, writes'[m.c].by = w
               PROVE  Own(m, inst'[w].pc, inst'[w].key, inst'[w].expected, inst'[w].job)
    BY Zenon DEF OwnLate, Own
  <1>1. WritesMove /\ TypeOK' /\ TypeOK /\ Bounded
    BY NextIsMove, TypesStep, Parts, Zenon
  <1>2. m \in Op
    BY <1>1, Zenon DEF TypeOK
  <1>3. m.c \in Contents /\ LateInv(m)
    BY LateMoves, PendingInv, Parts, Zenon DEF Bounded
  <1>4. m.c \in 1..Len(writes) /\ writes[m.c].by = w
    <2>1. m.c # 0 /\ Len(writes) \in Nat
      BY <1>1, <1>3, WritesStable, Zenon DEF LateInv
    <2>2. m.c \in 1..Len(writes)
      BY <1>3, <2>1, SMTT(30), Z3T(30) DEF Contents
    <2> QED BY <1>1, <2>2, WritesStable, Zenon
  <1>5. m \in late => Own(m, inst[w].pc, inst[w].key, inst[w].expected, inst[w].job)
    BY <1>4, Zenon DEF OwnInv, OwnLate
  <1>6. ASSUME NEW j \in Instance, m \in Pending(j) PROVE j = w
    <2>1. inst[j].pc = "pin" /\ m.c = inst[j].job
      <3>1. CASE inst[j].pc = "pin"
        <4>1. m = [op |-> "pin", key |-> Key(j), c |-> inst[j].job, v |-> inst[j].expected,
                   old |-> None]
          BY <1>6, <3>1, Zenon DEF Pending
        <4> QED BY <3>1, <4>1, Zenon
      <3>2. CASE inst[j].pc = "register"
        <4>1. m = [op |-> "register", key |-> Key(j), c |-> Region(j), v |-> 0, old |-> None]
          BY <1>6, <3>2, Zenon DEF Pending
        <4> QED BY <4>1, Zenon
      <3>3. CASE inst[j].pc = "transition"
        <4>1. PICK old \in FetchedLinks(j) :
                 m = [op |-> "transition", key |-> Key(j), c |-> Region(j), v |-> 0,
                      old |-> old]
          BY <1>6, <3>3, Zenon DEF Pending
        <4> QED BY <4>1, Zenon
      <3> QED BY <1>6, <3>1, <3>2, <3>3, Zenon DEF Pending
    <2>2. writes[inst[j].job].by = j
      BY <2>1, Parts, Zenon DEF InstInv, Pinning
    <2> QED BY <1>4, <2>1, <2>2, Zenon
  <1>7. CASE inst'[w] = inst[w] /\ m \in late
    BY <1>5, <1>7, Zenon
  <1>8. ASSUME NEW j \in Instance, Moving(j)
        PROVE  Own(m, inst'[w].pc, inst'[w].key, inst'[w].expected, inst'[w].job)
    <2>1. m \in late \/ (m \in Pending(j) /\ (Ends(j) \/ Tries(j)))
      <3>1. CASE Ends(j) \/ Tries(j)
        <4>1. late' \in {late, late \cup Pending(j)}
          BY <3>1, ZenonT(30) DEF Ends, Tries
        <4> QED BY <3>1, <4>1, Zenon
      <3>2. CASE ~(Ends(j) \/ Tries(j))
        <4>1. late' = late
          BY <1>8, <3>2, ZenonT(30) DEF Moving, Starts, Looks, Serves, Pins, MakesWrite, Lands, Acks
        <4> QED BY <4>1, Zenon
      <3> QED BY <3>1, <3>2, Zenon
    <2>2. CASE j = w
      BY <1>2, <1>4, <1>5, <1>8, <2>1, <2>2, OwnMoved, Zenon
    <2>3. CASE j # w
      BY <1>5, <1>6, <1>8, <2>1, <2>3, MovingIsMove, Zenon
    <2> QED BY <2>2, <2>3, Zenon
  <1>9. ASSUME NEW x, LateApply(x) PROVE inst'[w] = inst[w] /\ m \in late
    BY <1>9, Zenon DEF LateApply
  <1>a. ASSUME NEW d, Restore(d) PROVE inst'[w] = inst[w] /\ m \in late
    BY <1>a, Zenon DEF Restore
  <1> QED BY <1>7, <1>8, <1>9, <1>a, Kinds, Zenon

(* Whose write is at the head, initially and step by step *)
LEMMA OwnStart ==
    ASSUME Init
    PROVE  OwnInv
  <1>1. late = {} /\ writes = <<>> /\ \A i \in Instance : inst[i] = Off
    BY Zenon DEF Init
  <1>2. 1..Len(writes) = {}
    BY <1>1, SMTT(30), Z3T(30)
  <1>3. \A i \in Instance : inst[i].pc = "off"
    BY <1>1, SMTT(30), Z3T(30) DEF Off
  <1> QED BY <1>1, <1>2, <1>3, Zenon DEF OwnInv, NothingYet, PassedBy, Passed, Holding

LEMMA OwnStep ==
    ASSUME HistoryInv, OwnInv, [Next]_vars
    PROVE  OwnInv'
  <1>1. CASE Next
    <2>1. \A i \in Instance : NothingYet(i)
      BY Zenon DEF OwnInv
    <2>2. \A i \in Instance : NothingYet(i)' /\ PassedBy(i)'
      BY <1>1, <2>1, NothingStep, PassedStep, Zenon
    <2>3. \A m \in late' : OwnLate(m)'
      BY <1>1, OwnLateStep, Zenon
    <2> QED BY <2>2, <2>3, Zenon DEF OwnInv
  <1>2. CASE UNCHANGED vars
    <2>1. UNCHANGED <<head, inst, writes, late>>
      BY <1>2, Zenon DEF vars, oracle
    <2>2. ASSUME NEW i \in Instance PROVE NothingYet(i)' /\ PassedBy(i)'
      BY <2>1, Zenon DEF OwnInv, NothingYet, PassedBy, Passed
    <2>3. ASSUME NEW m \in late PROVE OwnLate(m)'
      BY <2>1, Zenon DEF OwnInv, OwnLate, Own
    <2> QED BY <2>1, <2>2, <2>3, Zenon DEF OwnInv
  <1> QED BY <1>1, <1>2, Zenon

(* The invariants of the history and of its writers *)
THEOREM OwnInvariant == Spec => [](HistoryInv /\ OwnInv)
  <1>1. Init => OwnInv
    BY OwnStart, Zenon
  <1>2. HistoryInv /\ OwnInv /\ [Next]_vars => OwnInv'
    BY OwnStep, Zenon
  <1> QED BY <1>1, <1>2, HistoryInvariant, PTL DEF Spec

(* An instance that comes to serve does so with all that is acknowledged. *)
LEMMA ServesAll ==
    ASSUME HistoryInv, HistoryInv', Next, NEW i \in Instance,
           inst[i].pc \in Booting, inst'[i].pc = "serving"
    PROVE  acked \subseteq Upto(Region(i))
  <1>1. Serves(i)
    <2>1. inst'[i] # inst[i]
      BY Zenon DEF Booting
    <2>2. Moving(i)
      <3>1. ASSUME NEW m, LateApply(m) PROVE FALSE
        BY <2>1, <3>1, Zenon DEF LateApply
      <3>2. ASSUME NEW d, Restore(d) PROVE FALSE
        BY <2>1, <3>2, Zenon DEF Restore
      <3> QED BY <2>1, <3>1, <3>2, Kinds, MovingIsMove, Zenon
    <2>3. ~Starts(i) /\ ~Tries(i) /\ ~Pins(i) /\ ~MakesWrite(i) /\ ~Acks(i)
      <3>1. ~Starts(i) /\ ~MakesWrite(i) /\ ~Acks(i)
        BY ZenonT(30) DEF Starts, MakesWrite, Acks, Booting
      <3> QED BY <3>1, ZenonT(30) DEF Tries, Pins, Booting
    <2>4. ~Looks(i) /\ ~Ends(i) /\ ~Lands(i)
      <3>1. ~Looks(i)
        BY ZenonT(30) DEF Looks, GoesOn, Goes, Booting
      <3>2. ~Ends(i)
        BY ZenonT(30) DEF Ends, Goes
      <3>3. ~Lands(i)
        BY ZenonT(30) DEF Lands, Goes, Booting
      <3> QED BY <3>1, <3>2, <3>3, Zenon
    <2> QED BY <2>2, <2>3, <2>4, Zenon DEF Moving
  <1>2. /\ Key(i) \in PcrKey /\ head'[Key(i)] # None /\ head'[Key(i)].commitment = Region(i)
        /\ UNCHANGED <<writes, acked>>
    <2>1. Key(i) \in PcrKey
      BY Parts, Zenon DEF InstInv, Key, Up, Booting
    <2> QED BY <1>1, <2>1, ZenonT(30) DEF Serves
  <1>3. OneHistory' /\ acked' \subseteq Committed'
    BY Zenon DEF HistoryInv, CommittedInv
  <1>4. PICK c : c = Region(i)
    BY Zenon
  <1>5. Committed' = Upto(c)' /\ Upto(c)' = Upto(c)
    BY <1>2, <1>3, <1>4, CommittedIs, Zenon DEF Upto
  <1> QED BY <1>2, <1>3, <1>4, <1>5, Zenon

(* The fork verdict names another instance's write. *)
LEMMA ForksAreOthers ==
    ASSUME HistoryInv, OwnInv, Next, NEW i \in Instance,
           inst[i].pc = "pinGet", inst'[i].pc = "fork"
    PROVE  head[Key(i)].commitment # 0 /\ writes[head[Key(i)].commitment].by # i
  <1>1. Ends(i)
    <2>1. inst'[i] # inst[i]
      BY Zenon
    <2>2. Moving(i)
      <3>1. ASSUME NEW m, LateApply(m) PROVE FALSE
        BY <2>1, <3>1, Zenon DEF LateApply
      <3>2. ASSUME NEW d, Restore(d) PROVE FALSE
        BY <2>1, <3>2, Zenon DEF Restore
      <3> QED BY <2>1, <3>1, <3>2, Kinds, MovingIsMove, Zenon
    <2>3. ~Starts(i) /\ ~Looks(i) /\ ~Serves(i) /\ ~MakesWrite(i) /\ ~Acks(i)
      BY ZenonT(30) DEF Starts, Looks, Serves, MakesWrite, Acks, Booting
    <2>4. ~Tries(i) /\ ~Pins(i) /\ ~Lands(i)
      <3>1. ~Tries(i)
        BY ZenonT(30) DEF Tries, GoesOn, Goes
      <3>2. ~Pins(i) /\ ~Lands(i)
        BY ZenonT(30) DEF Pins, Lands, Goes
      <3> QED BY <3>1, <3>2, Zenon
    <2> QED BY <2>2, <2>3, <2>4, Zenon DEF Moving
  <1>2. head[Key(i)] # None /\ head[Key(i)].commitment # inst[i].job /\ Key(i) = inst[i].key
    BY <1>1, ZenonT(30) DEF Ends, Goes, Key
  <1>3. PassedBy(i)
    BY Zenon DEF OwnInv
  <1> QED BY <1>2, <1>3, Zenon DEF PassedBy, Passed, Holding

(* No rollback and no false alarm, at every step of any number of clones.  *)
THEOREM VerdictsHold == Spec => VerdictsAreRight
  <1> DEFINE Right ==
        \A i \in Instance :
          /\ inst[i].pc \in {"get", "register", "regGet", "postGet"} /\ inst'[i].pc = "serving"
                => acked \subseteq Upto(Region(i))
          /\ inst[i].pc = "pinGet" /\ inst'[i].pc = "fork"
                => /\ head[Key(i)].commitment # 0
                   /\ writes[head[Key(i)].commitment].by # i
  <1>1. HistoryInv /\ OwnInv /\ HistoryInv' /\ Next => Right
    <2> SUFFICES ASSUME HistoryInv, OwnInv, HistoryInv', Next, NEW i \in Instance
                 PROVE  /\ (/\ inst[i].pc \in {"get", "register", "regGet", "postGet"}
                            /\ inst'[i].pc = "serving")
                              => acked \subseteq Upto(Region(i))
                        /\ inst[i].pc = "pinGet" /\ inst'[i].pc = "fork"
                              => /\ head[Key(i)].commitment # 0
                                 /\ writes[head[Key(i)].commitment].by # i
      BY Zenon
    <2>1. inst[i].pc \in {"get", "register", "regGet", "postGet"} => inst[i].pc \in Booting
      BY Zenon DEF Booting
    <2>2. inst[i].pc \in {"get", "register", "regGet", "postGet"} /\ inst'[i].pc = "serving"
             => acked \subseteq Upto(Region(i))
      BY <2>1, ServesAll, Zenon
    <2>3. inst[i].pc = "pinGet" /\ inst'[i].pc = "fork"
             => head[Key(i)].commitment # 0 /\ writes[head[Key(i)].commitment].by # i
      BY ForksAreOthers, Zenon
    <2> QED BY <2>2, <2>3, Zenon
  <1>2. (HistoryInv /\ OwnInv) /\ (HistoryInv /\ OwnInv)' /\ [Next]_vars => [Right]_vars
    BY <1>1, Zenon
  <1> HIDE DEF Right
  <1>3. Spec => [][Right]_vars
    BY <1>2, OwnInvariant, PTL DEF Spec
  <1> USE DEF Right
  <1> QED BY <1>3, Zenon DEF VerdictsAreRight

-----------------------------------------------------------------------------
(* What is acknowledged *)

(* Settled, of an instance that goes to the given state *)
LEMMA SettledNext ==
    ASSUME NEW i \in Instance, NEW pc, NEW job, NEW applied, Settled(i, pc, job, applied)',
           inst'[i].pc = pc /\ inst'[i].job = job /\ inst'[i].applied = applied
    PROVE  Settled(i, inst[i].pc, inst[i].job, inst[i].applied)'
  BY Zenon DEF Settled

(* Writes of the others, and their acknowledgements, settle nothing here. *)
LEMMA SettledStable ==
    ASSUME HistoryInv, WritesMove, NEW i \in Instance, ~MakesWrite(i), NEW pc,
           NEW job \in Contents, NEW applied, Settled(i, pc, job, applied),
           pc \in Pinning => writes[job].by = i,
           acked \subseteq acked', \A c \in acked' \ acked : writes[c].by # i
    PROVE  Settled(i, pc, job, applied)'
  <1>1. /\ TypeOK /\ Bounded /\ Len(writes) \in Nat
        /\ \A x \in 1..Len(writes) : writes'[x] = writes[x]
    BY Parts, WritesStable, Zenon
  <1>2. job # 0 => writes'[job] = writes[job]
    <2>1. job # 0 => job \in 1..Len(writes)
      BY <1>1, SMTT(30), Z3T(30) DEF Contents
    <2> QED BY <1>1, <2>1, Zenon
  <1>3. ~applied => job # 0 /\ writes'[job].by = i /\ job \notin acked'
    BY <1>2, Zenon DEF Settled
  <1>4. pc \in Pinning => job \notin acked'
    BY Zenon DEF Settled
  <1>5. ASSUME pc \in Up, NEW c \in 1..Len(writes'), writes'[c].by = i, c \notin acked'
        PROVE  pc \in Pinning /\ c = job
    <2>1. c \in 1..Len(writes) /\ writes[c].by = i
      BY <1>5, NewWrite, Zenon
    <2> QED BY <1>5, <2>1, Zenon DEF Settled
  <1> QED BY <1>3, <1>4, <1>5, Zenon DEF Settled

(* What a step acknowledges *)
LEMMA AcksMove ==
    ASSUME Next, HistoryInv
    PROVE  /\ acked \subseteq acked'
           /\ acked' # acked => \E j \in Instance : /\ Acks(j) /\ writes[inst[j].job].by = j
                                                    /\ acked' = acked \cup {inst[j].job}
  <1>1. ASSUME NEW j \in Instance, Moving(j), ~Acks(j) PROVE acked' = acked
    BY <1>1, ZenonT(30) DEF Moving, Starts, Looks, Serves, Ends, Tries, Pins, MakesWrite, Lands
  <1>2. ASSUME NEW m, LateApply(m) PROVE acked' = acked
    BY <1>2, Zenon DEF LateApply
  <1>3. ASSUME NEW d, Restore(d) PROVE acked' = acked
    BY <1>3, Zenon DEF Restore
  <1>4. ASSUME NEW j \in Instance, Acks(j)
        PROVE  acked' = acked \cup {inst[j].job} /\ writes[inst[j].job].by = j
    <2>1. InstInv(j) /\ inst[j].pc = "pinned" /\ acked' = acked \cup {inst[j].job}
      BY <1>4, Parts, Zenon DEF Acks
    <2> QED BY <2>1, Zenon DEF InstInv, Pinning
  <1> QED BY <1>1, <1>2, <1>3, <1>4, Kinds, Zenon

(* What is in flight of an instance that moves *)
LEMMA SettledMoved ==
    ASSUME HistoryInv, OwnInv, Next, NEW i \in Instance, Moving(i),
           Settled(i, inst[i].pc, inst[i].job, inst[i].applied)
    PROVE  Settled(i, inst[i].pc, inst[i].job, inst[i].applied)'
  <1>1. PICK pc, job, applied :
           inst[i].pc = pc /\ inst[i].job = job /\ inst[i].applied = applied
    BY ZenonT(30)
  <1>2. /\ WritesMove /\ TypeOK /\ Bounded /\ InstInv(i) /\ job \in Contents
        /\ Settled(i, pc, job, applied)
    BY <1>1, NextIsMove, Parts, Zenon DEF Bounded
  <1>3. pc \in Pinning => writes[job].by = i
    BY <1>1, <1>2, Zenon DEF InstInv
  <1>4. acked' = acked /\ ~MakesWrite(i) => Settled(i, pc, job, applied)'
    BY <1>2, <1>3, SettledStable, Zenon
  <1>5. CASE Starts(i)
    <2>1. /\ pc = "off" /\ inst'[i].pc = "get" /\ inst'[i].job = 0 /\ inst'[i].applied = TRUE
          /\ UNCHANGED <<writes, acked>>
      BY <1>1, <1>5, ZenonT(30) DEF Starts, Goes
    <2>2. \A c \in 1..Len(writes) : writes[c].by # i
      BY <1>1, <2>1, Zenon DEF OwnInv, NothingYet
    <2>3. Settled(i, "get", 0, TRUE)'
      BY <2>1, <2>2, Zenon DEF Settled, Pinning
    <2> QED BY <2>1, <2>3, SettledNext, Zenon
  <1>6. CASE Looks(i) \/ Serves(i)
    <2>1. PICK x \in Booting \cup {"serving"} :
             inst'[i].pc = x /\ inst'[i].job = job /\ inst'[i].applied = applied
      BY <1>1, <1>6, ZenonT(30) DEF Looks, Serves, GoesOn, Goes
    <2>2. pc \in Booting /\ acked' = acked /\ ~MakesWrite(i)
      BY <1>1, <1>6, ZenonT(30) DEF Looks, Serves, MakesWrite, Booting
    <2>3. x \in Up /\ x \notin Pinning /\ pc \in Up /\ pc \notin Pinning
      BY <2>1, <2>2, Zenon DEF Booting, Up, Pinning
    <2>4. Settled(i, x, job, applied)'
      BY <1>4, <2>2, <2>3, Zenon DEF Settled
    <2> QED BY <2>1, <2>4, SettledNext, Zenon
  <1>7. CASE Ends(i)
    <2>1. PICK x \in {"failed", "mismatch", "fork"} :
             inst'[i].pc = x /\ inst'[i].job = job /\ inst'[i].applied = applied
      BY <1>1, <1>7, ZenonT(30) DEF Ends, Goes
    <2>2. acked' = acked /\ ~MakesWrite(i)
      BY <1>7, ZenonT(30) DEF Ends, MakesWrite, Goes
    <2>3. Settled(i, x, job, applied)'
      BY <1>4, <2>2, Zenon DEF Settled, Up, Pinning
    <2> QED BY <2>1, <2>3, SettledNext, Zenon
  <1>8. CASE Tries(i) \/ Pins(i)
    <2>1. PICK x \in Pinning :
             inst'[i].pc = x /\ inst'[i].job = job /\ inst'[i].applied = applied
      BY <1>1, <1>8, ZenonT(30) DEF Tries, Pins, GoesOn, Goes, Pinning
    <2>2. pc \in Pinning /\ acked' = acked /\ ~MakesWrite(i)
      BY <1>1, <1>8, ZenonT(30) DEF Tries, Pins, MakesWrite, Pinning
    <2>3. pc \in Up /\ x \in Up
      BY <2>1, <2>2, Zenon DEF Pinning, Up
    <2>4. Settled(i, x, job, applied)'
      BY <1>4, <2>2, <2>3, Zenon DEF Settled
    <2> QED BY <2>1, <2>4, SettledNext, Zenon
  <1>9. CASE MakesWrite(i)
    <2>1. PICK n : n = Len(writes) + 1
      BY Zenon
    <2>2. /\ pc = "serving" /\ inst'[i].pc = "pin" /\ inst'[i].job = n
          /\ inst'[i].applied = FALSE /\ acked' = acked
      BY <1>1, <1>9, <2>1, ZenonT(30) DEF MakesWrite, Goes
    <2>3. writes \in Seq([by : Instance, after : SUBSET Nat]) /\ acked \subseteq 1..Len(writes)
      BY <1>2, Zenon DEF TypeOK
    <2>4. n # 0 /\ n \notin acked /\ writes'[n].by = i
      <3> DEFINE w == [by |-> i, after |-> Upto(Region(i))]
      <3>1. writes' = Append(writes, w) /\ w.by = i
        BY <1>9, Zenon DEF MakesWrite
      <3> HIDE DEF w
      <3> QED BY <2>1, <2>3, <3>1, SMTT(30), Z3T(30)
    <2>5. ASSUME NEW c \in 1..Len(writes'), writes'[c].by = i, c \notin acked PROVE c = n
      <3>1. ASSUME c \in 1..Len(writes), writes'[c] = writes[c] PROVE FALSE
        BY <1>2, <2>2, <2>5, <3>1, Zenon DEF Settled, Up, Pinning
      <3> QED BY <1>2, <2>1, <3>1, NewWrite, Zenon
    <2>6. Settled(i, "pin", n, FALSE)'
      BY <2>2, <2>4, <2>5, Zenon DEF Settled, Pinning
    <2> QED BY <2>2, <2>6, SettledNext, Zenon
  <1>a. CASE Lands(i)
    <2>1. inst'[i].pc = pc /\ inst'[i].job = job /\ inst'[i].applied = TRUE /\ acked' = acked
      BY <1>1, <1>a, ZenonT(30) DEF Lands, Goes
    <2>2. ~MakesWrite(i)
      BY <1>a, ZenonT(30) DEF Lands, MakesWrite, Goes
    <2>3. Settled(i, pc, job, TRUE)'
      BY <1>4, <2>1, <2>2, Zenon DEF Settled
    <2> QED BY <2>1, <2>3, SettledNext, Zenon
  <1>b. CASE Acks(i)
    <2>1. /\ pc = "pinned" /\ inst'[i].pc = "serving" /\ inst'[i].job = job
          /\ inst'[i].applied = TRUE /\ acked' = acked \cup {job} /\ UNCHANGED writes
      BY <1>1, <1>b, ZenonT(30) DEF Acks, Goes
    <2>2. Settled(i, "serving", job, TRUE)'
      BY <1>2, <2>1, Zenon DEF Settled, Up, Pinning
    <2> QED BY <2>1, <2>2, SettledNext, Zenon
  <1> QED BY <1>5, <1>6, <1>7, <1>8, <1>9, <1>a, <1>b, Zenon DEF Moving

(* An acknowledged write that is tried again comes too late. *)
LEMMA SettledLateStep ==
    ASSUME HistoryInv, OwnInv, AckInv, Next, NEW m \in late'
    PROVE  SettledLate(m)'
  <1> SUFFICES ASSUME m.op = "pin", m.c \in acked', head'[m.key] # None
               PROVE  m.v < head'[m.key].version
    BY Zenon DEF SettledLate
  <1>1. OracleMove /\ TypeOK /\ Bounded /\ TypeOK'
    BY NextIsMove, TypesStep, Parts, Zenon
  <1>2. m.v \in Nat
    BY <1>1, Zenon DEF TypeOK, Op
  <1>3. LateInv(m)
    BY LateMoves, PendingInv, Parts, Zenon
  <1>4. m.key \in PcrKey /\ ~Fresh(m.key)
    BY <1>3, Zenon DEF LateInv, At
  <1>5. ASSUME head[m.key] # None, m.v < head[m.key].version
        PROVE  m.v < head'[m.key].version
    <2>1. head[m.key].version \in Nat
      BY <1>1, <1>4, <1>5, HeadTyped, Zenon DEF TypeOK
    <2>2. head'[m.key] = head[m.key] \/ head'[m.key].version = head[m.key].version + 1
      BY <1>1, <1>4, HeadMoves, Zenon
    <2> QED BY <1>2, <1>5, <2>1, <2>2, SMTT(30), Z3T(30)
  <1>6. head[m.key] # None
    BY <1>1, <1>4, HeadMoves, Zenon
  <1>7. CASE m \in late /\ m.c \in acked
    BY <1>5, <1>6, <1>7, Zenon DEF AckInv, SettledLate
  <1>8. CASE m \in late /\ m.c \notin acked
    <2>1. PICK j \in Instance : /\ Acks(j) /\ writes[inst[j].job].by = j
                                /\ acked' = acked \cup {inst[j].job}
      BY <1>8, AcksMove, Zenon
    <2>2. m.c = inst[j].job /\ inst[j].pc = "pinned"
      BY <1>8, <2>1, Zenon DEF Acks
    <2>3. m.key = inst[j].key /\ m.v < inst[j].expected
      BY <1>8, <2>1, <2>2, Zenon DEF OwnInv, OwnLate, Own, Holding
    <2>4. inst[j].expected <= head[m.key].version /\ inst[j].expected \in Nat
      BY <1>6, <2>2, <2>3, Expects, Zenon DEF Holding, At
    <2>5. head[m.key].version \in Nat
      BY <1>1, <1>4, <1>6, HeadTyped, Zenon DEF TypeOK
    <2>6. m.v < head[m.key].version
      BY <1>2, <2>3, <2>4, <2>5, SMTT(30), Z3T(30)
    <2> QED BY <1>5, <1>6, <2>6, Zenon
  <1>9. ASSUME NEW i \in Instance, m \in Pending(i), Ends(i) \/ Tries(i) PROVE FALSE
    <2>1. acked' = acked
      BY <1>9, ZenonT(30) DEF Ends, Tries
    <2>2. inst[i].pc = "pin" /\ m.c = inst[i].job
      <3>1. CASE inst[i].pc = "pin"
        <4>1. m = [op |-> "pin", key |-> Key(i), c |-> inst[i].job, v |-> inst[i].expected,
                   old |-> None]
          BY <1>9, <3>1, Zenon DEF Pending
        <4> QED BY <3>1, <4>1, Zenon
      <3>2. CASE inst[i].pc = "register"
        <4>1. m = [op |-> "register", key |-> Key(i), c |-> Region(i), v |-> 0, old |-> None]
          BY <1>9, <3>2, Zenon DEF Pending
        <4> QED BY <4>1, Zenon
      <3>3. CASE inst[i].pc = "transition"
        <4>1. PICK old \in FetchedLinks(i) :
                 m = [op |-> "transition", key |-> Key(i), c |-> Region(i), v |-> 0,
                      old |-> old]
          BY <1>9, <3>3, Zenon DEF Pending
        <4> QED BY <4>1, Zenon
      <3> QED BY <1>9, <3>1, <3>2, <3>3, Zenon DEF Pending
    <2>3. inst[i].job \notin acked
      BY <2>2, Zenon DEF AckInv, Settled, Pinning
    <2> QED BY <2>1, <2>2, <2>3, Zenon
  <1> QED BY <1>7, <1>8, <1>9, LateMoves, Zenon

(* What is acknowledged, step by step *)
LEMMA AckStep ==
    ASSUME HistoryInv, OwnInv, AckInv, Next
    PROVE  AckInv'
  <1>1. ASSUME NEW i \in Instance
        PROVE  Settled(i, inst[i].pc, inst[i].job, inst[i].applied)'
    <2>1. PICK pc, job, applied :
             inst[i].pc = pc /\ inst[i].job = job /\ inst[i].applied = applied
      BY ZenonT(30)
    <2>2. /\ WritesMove /\ InstInv(i) /\ job \in Contents /\ Settled(i, pc, job, applied)
      BY <2>1, NextIsMove, Parts, Zenon DEF Bounded, AckInv
    <2>3. pc \in Pinning => writes[job].by = i
      BY <2>1, <2>2, Zenon DEF InstInv
    <2>4. ASSUME inst'[i] = inst[i], \A c \in acked' \ acked : writes[c].by # i
          PROVE  Settled(i, inst[i].pc, inst[i].job, inst[i].applied)'
      <3>1. ~MakesWrite(i)
        BY <2>4, Zenon DEF MakesWrite, Goes
      <3>2. Settled(i, pc, job, applied)'
        BY <2>2, <2>3, <2>4, <3>1, AcksMove, SettledStable, Zenon
      <3> QED BY <2>1, <2>4, <3>2, SettledNext, Zenon
    <2>5. ASSUME NEW j \in Instance, Moving(j), j # i
          PROVE  inst'[i] = inst[i] /\ \A c \in acked' \ acked : writes[c].by # i
      <3>1. inst'[i] = inst[i]
        BY <2>5, MovingIsMove, Zenon
      <3>2. CASE Acks(j)
        <4>1. acked' = acked \cup {inst[j].job} /\ inst[j].pc = "pinned" /\ InstInv(j)
          BY <3>2, Parts, Zenon DEF Acks
        <4>2. writes[inst[j].job].by = j
          BY <4>1, Zenon DEF InstInv, Pinning
        <4> QED BY <2>5, <3>1, <4>1, <4>2, Zenon
      <3>3. CASE ~Acks(j)
        <4>1. acked' = acked
          BY <2>5, <3>3, ZenonT(30) DEF Moving, Starts, Looks, Serves, Ends, Tries, Pins,
             MakesWrite, Lands
        <4> QED BY <3>1, <4>1, Zenon
      <3> QED BY <3>2, <3>3, Zenon
    <2>6. ASSUME NEW m, LateApply(m) PROVE inst'[i] = inst[i] /\ acked' = acked
      BY <2>6, Zenon DEF LateApply
    <2>7. ASSUME NEW d, Restore(d) PROVE inst'[i] = inst[i] /\ acked' = acked
      BY <2>7, Zenon DEF Restore
    <2>8. Moving(i) => Settled(i, inst[i].pc, inst[i].job, inst[i].applied)'
      BY <2>1, <2>2, SettledMoved, Zenon
    <2> QED BY <2>4, <2>5, <2>6, <2>7, <2>8, Kinds, Zenon
  <1> QED BY <1>1, SettledLateStep, Zenon DEF AckInv

(* Whether there is one instance at a time, on one disk *)
LEMMA AloneStep ==
    ASSUME HistoryInv, AloneInv, Next
    PROVE  AloneInv' /\ (alone' => alone)
  <1>1. alone' => alone
    <2>1. ASSUME NEW i \in Instance, Moving(i) PROVE alone' => alone
      <3>1. CASE Starts(i)
        BY <3>1, ZenonT(30) DEF Starts
      <3>2. CASE ~Starts(i)
        <4>1. alone' = alone
          BY <2>1, <3>2, ZenonT(30) DEF Moving, Looks, Serves, Ends, Tries, Pins, MakesWrite, Lands, Acks
        <4> QED BY <4>1, Zenon
      <3> QED BY <3>1, <3>2, Zenon
    <2>2. ASSUME NEW m, LateApply(m) PROVE alone' = alone
      BY <2>2, Zenon DEF LateApply
    <2>3. ASSUME NEW d, Restore(d) PROVE alone' = FALSE
      BY <2>3, Zenon DEF Restore
    <2> QED BY <2>1, <2>2, <2>3, Kinds, Zenon
  <1>2. ASSUME alone'
        PROVE  /\ \A i, j \in Instance : inst'[i].pc \in Up /\ inst'[j].pc \in Up => i = j
               /\ \A i, j \in Instance : inst'[i].disk # None /\ inst'[j].disk # None
                                              => inst'[i].disk = inst'[j].disk
    <2>1. /\ \A i, j \in Instance : inst[i].pc \in Up /\ inst[j].pc \in Up => i = j
          /\ \A i, j \in Instance : inst[i].disk # None /\ inst[j].disk # None
                                         => inst[i].disk = inst[j].disk
      BY <1>1, <1>2, Zenon DEF AloneInv
    <2>2. ASSUME NEW i \in Instance, Starts(i)
          PROVE  /\ \A a, b \in Instance : inst'[a].pc \in Up /\ inst'[b].pc \in Up => a = b
                 /\ \A a, b \in Instance : inst'[a].disk # None /\ inst'[b].disk # None
                                                => inst'[a].disk = inst'[b].disk
      <3>1. PICK k \in PcrKey, d \in Disk :
               /\ Goes(i, "get", k, d, disk[d], 0, 0, TRUE)
               /\ alone' => /\ alone /\ Live = {}
                            /\ \A j \in Instance : inst[j].disk \in {None, d}
        BY <2>2, ZenonT(30) DEF Starts
      <3>2. /\ inst'[i].disk = d /\ \A j \in Instance : j # i => inst'[j] = inst[j]
            /\ \A j \in Instance : inst[j].pc \notin Up /\ inst[j].disk \in {None, d}
        BY <1>2, <3>1, Zenon DEF Goes, Live
      <3>3. \A a \in Instance : /\ inst'[a].pc \in Up => a = i
                                /\ inst'[a].disk \in {None, d}
        BY <3>2, Zenon
      <3> QED BY <3>3, Zenon
    <2>3. ASSUME \A i \in Instance : /\ inst'[i].pc \in Up => inst[i].pc \in Up
                                     /\ inst'[i].disk = inst[i].disk
          PROVE  /\ \A a, b \in Instance : inst'[a].pc \in Up /\ inst'[b].pc \in Up => a = b
                 /\ \A a, b \in Instance : inst'[a].disk # None /\ inst'[b].disk # None
                                                => inst'[a].disk = inst'[b].disk
      BY <2>1, <2>3, Zenon
    <2>4. ASSUME NEW i \in Instance, Moving(i), ~Starts(i)
          PROVE  \A j \in Instance : /\ inst'[j].pc \in Up => inst[j].pc \in Up
                                     /\ inst'[j].disk = inst[j].disk
      <3>1. inst'[i].disk = inst[i].disk
        BY <2>4, ZenonT(30) DEF Moving, Looks, Serves, Ends, Tries, Pins, MakesWrite, Lands, Acks,
           Goes, GoesOn
      <3>2. inst'[i].pc \in Up => inst[i].pc \in Up
        BY <2>4, Backwards, Zenon
      <3> QED BY <2>4, <3>1, <3>2, MovingIsMove, Zenon
    <2>5. ASSUME NEW m, LateApply(m) PROVE inst' = inst
      BY <2>5, Zenon DEF LateApply
    <2>6. ASSUME NEW d, Restore(d) PROVE inst' = inst
      BY <2>6, Zenon DEF Restore
    <2>7. CASE inst' = inst
      BY <2>3, <2>7, Zenon
    <2>8. CASE \E i \in Instance : Moving(i)
      <3>1. PICK i \in Instance : Moving(i)
        BY <2>8, Zenon
      <3>2. CASE Starts(i)
        BY <2>2, <3>2, Zenon
      <3>3. CASE ~Starts(i)
        BY <2>3, <2>4, <3>1, <3>3, Zenon
      <3> QED BY <3>2, <3>3, Zenon
    <2> QED BY <2>5, <2>6, <2>7, <2>8, Kinds, Zenon
  <1> QED BY <1>1, <1>2, Zenon DEF AloneInv

-----------------------------------------------------------------------------
(* What is on the disk, step by step *)

(* A write that was torn stays torn. *)
LEMMA TornGrows ==
    ASSUME HistoryInv, OwnInv, Next
    PROVE  Torn \subseteq Torn'
  <1> SUFFICES ASSUME NEW c \in Torn PROVE c \in Torn'
    BY Zenon
  <1>1. PICK w : writes[c].by = w
    BY Zenon
  <1>2. c \in 1..Len(writes) /\ c \notin acked /\ inst[w].pc \notin Up
    BY <1>1, Zenon DEF Torn
  <1>3. /\ TypeOK /\ Bounded /\ WritesMove
    BY NextIsMove, Parts, Zenon
  <1>4. c \in 1..Len(writes') /\ writes'[c].by = w
    BY <1>1, <1>2, <1>3, WritesStable, Zenon
  <1>5. w \in Instance
    <2> DEFINE Wrote == [by : Instance, after : SUBSET Nat]
    <2>1. writes \in Seq(Wrote)
      BY <1>3, Zenon DEF TypeOK
    <2> HIDE DEF Wrote
    <2>2. writes[c] \in Wrote
      BY <1>2, <2>1, SMTT(30), Z3T(30)
    <2> QED BY <1>1, <2>2, Zenon DEF Wrote
  <1>6. c \notin acked'
    <2> SUFFICES ASSUME c \in acked' PROVE FALSE
      BY Zenon
    <2>1. PICK j \in Instance : /\ Acks(j) /\ writes[inst[j].job].by = j
                                /\ acked' = acked \cup {inst[j].job}
      BY <1>2, AcksMove, Zenon
    <2>2. c = inst[j].job /\ inst[j].pc = "pinned"
      BY <1>2, <2>1, Zenon DEF Acks
    <2> QED BY <1>1, <1>2, <2>1, <2>2, Zenon DEF Up
  <1>7. inst'[w].pc \notin Up
    <2>1. ASSUME NEW i \in Instance, Moving(i) PROVE inst'[w].pc \notin Up
      <3>1. CASE i # w
        BY <1>2, <1>5, <2>1, <3>1, MovingIsMove, Zenon
      <3>2. CASE i = w
        <4>1. ~Starts(w)
          BY <1>1, <1>2, <1>5, Zenon DEF Starts, OwnInv, NothingYet
        <4> QED BY <1>2, <1>5, <2>1, <3>2, <4>1, Backwards, Zenon
      <3> QED BY <3>1, <3>2, Zenon
    <2>2. ASSUME NEW m, LateApply(m) PROVE inst' = inst
      BY <2>2, Zenon DEF LateApply
    <2>3. ASSUME NEW d, Restore(d) PROVE inst' = inst
      BY <2>3, Zenon DEF Restore
    <2> QED BY <1>2, <2>1, <2>2, <2>3, Kinds, Zenon
  <1> QED BY <1>4, <1>6, <1>7, Zenon DEF Torn

(* With one instance at a time and nothing torn, the one that moves is up, *)
(* or boots, and no other is.                                              *)
LEMMA OneMoves ==
    ASSUME HistoryInv, AckInv, AloneInv, alone, alone', Torn = {},
           NEW i \in Instance, Moving(i)
    PROVE  /\ inst[i].pc \in Up \/ Starts(i)
           /\ \A j \in Instance : j # i => inst'[j] = inst[j] /\ inst[j].pc \notin Up
  <1>1. \A j \in Instance : j # i => inst'[j] = inst[j]
    BY MovingIsMove, Zenon
  <1>2. CASE inst[i].pc \in Up
    BY <1>1, <1>2, Zenon DEF AloneInv
  <1>3. CASE Starts(i)
    <2>1. Live = {}
      BY <1>3, ZenonT(30) DEF Starts
    <2> QED BY <1>1, <1>3, <2>1, Zenon DEF Live
  <1>4. CASE inst[i].pc \notin Up /\ ~Starts(i)
    <2>1. ~Looks(i) /\ ~Serves(i) /\ ~Ends(i)
      BY <1>4, Zenon DEF Looks, Serves, Ends, Up, Booting
    <2>2. ~Tries(i) /\ ~Pins(i) /\ ~MakesWrite(i) /\ ~Acks(i)
      BY <1>4, ZenonT(30) DEF Tries, Pins, MakesWrite, Acks, Up
    <2>3. ~inst[i].applied
      BY <1>4, <2>1, <2>2, ZenonT(30) DEF Moving, Lands
    <2>4. inst[i].job # 0 /\ writes[inst[i].job].by = i /\ inst[i].job \notin acked
      BY <2>3, Zenon DEF AckInv, Settled
    <2>5. inst[i].job \in Contents /\ TypeOK
      BY Parts, Zenon DEF Bounded
    <2>6. inst[i].job \in 1..Len(writes)
      BY <2>4, <2>5, SMTT(30), Z3T(30) DEF Contents, TypeOK
    <2>7. inst[i].job \in Torn
      BY <1>4, <2>4, <2>6, Zenon DEF Torn
    <2> QED BY <2>7, Zenon
  <1> QED BY <1>2, <1>3, <1>4, Zenon

(* The one head there is *)
LEMMA HeadIsIn ==
    ASSUME OneHistory', NEW k \in PcrKey, NEW c, NEW S, c \in S,
           head'[k] # None, head'[k].commitment = c
    PROVE  HeadIn(S)'
  BY Zenon DEF OneHistory, HeadIn

(* A history that is handed over keeps its content. *)
LEMMA HeadStaysIn ==
    ASSUME TypeOK, NEW S, HeadIn(S),
           UNCHANGED oracle \/ \E old, new \in PcrKey : HandOver(old, new)
    PROVE  HeadIn(S)'
  <1>1. CASE UNCHANGED oracle
    BY <1>1, Zenon DEF oracle, HeadIn
  <1>2. ASSUME NEW old \in PcrKey, NEW new \in PcrKey, HandOver(old, new)
        PROVE  HeadIn(S)'
    <2>1. /\ head[old] # None /\ head[new] = None
          /\ head' = [head EXCEPT ![old] = None, ![new] = head[old]]
          /\ head \in [PcrKey -> {None} \cup PinnedHead]
      BY <1>2, Zenon DEF HandOver, Fresh, TypeOK, OracleTypeOK
    <2>2. /\ head'[new] = head[old] /\ head'[old] = None
          /\ \A k \in PcrKey : k # new /\ k # old => head'[k] = head[k]
      BY <2>1, SMTT(30), Z3T(30)
    <2>3. \A k \in PcrKey : head'[k] # None => \E x \in PcrKey : head[x] = head'[k] /\ head[x] # None
      BY <2>1, <2>2, Zenon
    <2> QED BY <2>3, Zenon DEF HeadIn
  <1> QED BY <1>1, <1>2, Zenon

(* DiskAt, of an instance that goes to the given state *)
LEMMA DiskAtNext ==
    ASSUME NEW i \in Instance, NEW pc, NEW d, NEW region, NEW job, NEW applied,
           DiskAt(pc, d, region, job, applied)',
           /\ inst'[i].pc = pc /\ inst'[i].disk = d /\ inst'[i].region = region
           /\ inst'[i].job = job /\ inst'[i].applied = applied
    PROVE  DiskAt(inst[i].pc, inst[i].disk, inst[i].region, inst[i].job, inst[i].applied)'
  BY Zenon DEF DiskAt, HeadIn

(* What the disk of an instance that moves, and the head, hold after it. *)
LEMMA DiskMoved ==
    ASSUME HistoryInv, OneHistory', AckInv, AloneInv, DiskInv, alone, alone', Torn = {},
           Torn' = {}, NEW i \in Instance, Moving(i)
    PROVE  /\ DiskAt(inst[i].pc, inst[i].disk, inst[i].region, inst[i].job, inst[i].applied)'
           /\ inst'[i].pc # "mismatch"
           /\ inst'[i].pc \notin Up =>
                 \A j \in Instance : inst'[j].disk # None => HeadIn({disk[inst[j].disk]})'
  <1>1. PICK pc, key, d, region, job, applied :
           /\ inst[i].pc = pc /\ inst[i].key = key /\ inst[i].disk = d
           /\ inst[i].region = region /\ inst[i].job = job /\ inst[i].applied = applied
    BY ZenonT(30)
  <1>2. /\ TypeOK /\ Bounded /\ OneHistory /\ InstInv(i)
        /\ Key(i) = key /\ Region(i) = region
    BY <1>1, Parts, Zenon DEF Key, Region
  <1>3. DiskAt(pc, d, region, job, applied) /\ Settled(i, pc, job, applied)
    BY <1>1, Zenon DEF DiskInv, AckInv
  <1>4. pc \in Up => key \in PcrKey /\ d \in Disk
    BY <1>1, <1>2, Zenon DEF InstInv
  <1>5. CASE Starts(i)
    <2>1. PICK k \in PcrKey, e \in Disk :
             /\ Goes(i, "get", k, e, disk[e], 0, 0, TRUE)
             /\ alone' => /\ alone /\ Live = {}
                          /\ \A j \in Instance : inst[j].disk \in {None, e}
      BY <1>5, ZenonT(30) DEF Starts
    <2>2. PICK c : disk[e] = c
      BY Zenon
    <2>3. UNCHANGED <<oracle, disk>>
      BY <1>5, Zenon DEF Starts
    <2>4. HeadIn({c})
      <3>1. CASE NoHistory
        BY <3>1, Zenon DEF NoHistory, HeadIn
      <3>2. CASE ~NoHistory
        <4>1. PICK j \in Instance : inst[j].disk # None
          BY <1>2, <3>2, Zenon DEF OneHistory
        <4>2. inst[j].disk = e
          BY <2>1, <4>1, Zenon
        <4>3. HeadIn({disk[inst[j].disk]})
          BY <2>1, <4>1, Zenon DEF DiskInv
        <4> QED BY <2>2, <4>2, <4>3, Zenon DEF HeadIn
      <3> QED BY <3>1, <3>2, Zenon
    <2>5. HeadIn({c})' /\ disk'[e] = c
      BY <1>2, <2>2, <2>3, <2>4, HeadStaysIn, Zenon
    <2>6. DiskAt("get", e, c, 0, TRUE)'
      BY <2>5, Zenon DEF DiskAt, Pinning
    <2>7. /\ inst'[i].pc = "get" /\ inst'[i].disk = e /\ inst'[i].region = c
          /\ inst'[i].job = 0 /\ inst'[i].applied = TRUE
      BY <2>1, <2>2, Zenon DEF Goes
    <2> QED BY <2>6, <2>7, DiskAtNext, Zenon DEF Up
  <1>6. CASE Looks(i)
    <2>1. PICK to \in Booting : GoesOn(i, to)
      BY <1>6, Zenon DEF Looks
    <2>2. /\ pc \in Booting /\ disk' = disk
          /\ UNCHANGED oracle \/ \E old \in PcrKey : HandOver(old, key)
      BY <1>1, <1>2, <1>6, Zenon DEF Looks
    <2>3. key \in PcrKey
      BY <1>4, <2>2, Zenon DEF Booting, Up
    <2>4. HeadIn({region}) /\ disk[d] = region
      BY <1>3, <2>2, Zenon DEF DiskAt
    <2>5. HeadIn({region})'
      BY <1>2, <2>2, <2>3, <2>4, HeadStaysIn, Zenon
    <2>6. DiskAt(to, d, region, job, applied)'
      BY <2>1, <2>2, <2>4, <2>5, Zenon DEF DiskAt, Booting, Pinning
    <2>7. /\ inst'[i].pc = to /\ inst'[i].disk = d /\ inst'[i].region = region
          /\ inst'[i].job = job /\ inst'[i].applied = applied
      BY <1>1, <2>1, Zenon DEF GoesOn, Goes
    <2> QED BY <2>1, <2>6, <2>7, DiskAtNext, Zenon DEF Up, Booting
  <1>7. CASE Serves(i)
    <2>1. PICK v \in Nat :
             /\ Goes(i, "serving", Key(i), inst[i].disk, Region(i), v, inst[i].job, inst[i].applied)
             /\ head'[Key(i)] # None /\ head'[Key(i)].commitment = Region(i)
      BY <1>7, ZenonT(30) DEF Serves
    <2>2. pc \in Booting /\ disk' = disk
      BY <1>1, <1>7, Zenon DEF Serves
    <2>3. key \in PcrKey
      BY <1>4, <2>2, Zenon DEF Booting, Up
    <2>4. disk[d] = region /\ HeadIn({region})'
      BY <1>2, <1>3, <2>1, <2>2, <2>3, HeadIsIn, Zenon DEF DiskAt
    <2>5. DiskAt("serving", d, region, job, applied)'
      BY <2>2, <2>4, Zenon DEF DiskAt, Pinning
    <2>6. /\ inst'[i].pc = "serving" /\ inst'[i].disk = d /\ inst'[i].region = region
          /\ inst'[i].job = job /\ inst'[i].applied = applied
      BY <1>1, <1>2, <2>1, Zenon DEF Goes
    <2> QED BY <2>5, <2>6, DiskAtNext, Zenon DEF Up
  <1>8. CASE Ends(i)
    <2>1. PICK to \in {"failed", "mismatch", "fork"} :
             /\ Goes(i, to, None, inst[i].disk, 0, 0, inst[i].job, inst[i].applied)
             /\ to = "mismatch" => /\ inst[i].pc \in Booting /\ head[Key(i)] # None
                                   /\ head[Key(i)].commitment # Region(i)
      BY <1>8, ZenonT(30) DEF Ends
    <2>2. pc \in Up /\ UNCHANGED <<oracle, disk, writes, acked>>
      BY <1>1, <1>8, Zenon DEF Ends
    <2>3. /\ inst'[i].pc = to /\ inst'[i].disk = d /\ inst'[i].region = 0
          /\ inst'[i].job = job /\ inst'[i].applied = applied
          /\ \A j \in Instance : j # i => inst'[j] = inst[j]
      BY <1>1, <2>1, Zenon DEF Goes
    <2>4. pc \notin Pinning
      <3> SUFFICES ASSUME pc \in Pinning PROVE FALSE
        BY Zenon
      <3>1. writes[job].by = i /\ region < job /\ job \in Contents /\ region \in Contents
        BY <1>1, <1>2, Zenon DEF InstInv, Bounded
      <3>2. job \in 1..Len(writes)
        BY <1>2, <3>1, SMTT(30), Z3T(30) DEF Contents, TypeOK
      <3>3. job \in 1..Len(writes') /\ writes'[job].by = i /\ job \notin acked'
        BY <1>3, <2>2, <3>1, <3>2, Zenon DEF Settled
      <3>4. inst'[i].pc \notin Up
        BY <2>3, Zenon DEF Up
      <3>5. job \in Torn'
        BY <3>3, <3>4, Zenon DEF Torn
      <3> QED BY <3>5, Zenon
    <2>5. disk[d] = region /\ HeadIn({region})
      BY <1>3, <2>2, <2>4, Zenon DEF DiskAt, Up, Booting, Pinning
    <2>6. to # "mismatch"
      <3>1. head[key] # None => head[key].commitment = region
        BY <1>4, <2>2, <2>5, Zenon DEF HeadIn
      <3> QED BY <1>2, <2>1, <3>1, Zenon
    <2>7. DiskAt(to, d, 0, job, applied)'
      BY <2>1, Zenon DEF DiskAt, Booting, Pinning
    <2>8. HeadIn({region})' /\ disk'[d] = region
      BY <1>2, <2>2, <2>5, HeadStaysIn, Zenon
    <2>9. ASSUME NEW j \in Instance, inst'[j].disk # None
          PROVE  HeadIn({disk[inst[j].disk]})'
      <3>1. d # None
        BY <1>4, <2>2, BootConstants, Zenon
      <3>2. inst'[j].disk = d
        BY <1>1, <2>3, <2>9, <3>1, Zenon DEF AloneInv
      <3> QED BY <2>8, <3>2, Zenon DEF HeadIn
    <2> QED BY <2>3, <2>6, <2>7, <2>9, DiskAtNext, Zenon
  <1>9. CASE Tries(i)
    <2>1. PICK to \in {"pin", "pinGet"} : GoesOn(i, to)
      BY <1>9, Zenon DEF Tries
    <2>2. pc \in {"pin", "pinGet"} /\ UNCHANGED <<oracle, disk>>
      BY <1>1, <1>9, Zenon DEF Tries
    <2>3. HeadIn({region, job})
      BY <1>3, <2>2, Zenon DEF DiskAt, Pinning
    <2>4. HeadIn({region, job})'
      BY <1>2, <2>2, <2>3, HeadStaysIn, Zenon
    <2>5. DiskAt(to, d, region, job, applied)'
      BY <1>3, <2>1, <2>2, <2>4, Zenon DEF DiskAt, Booting, Pinning
    <2>6. /\ inst'[i].pc = to /\ inst'[i].disk = d /\ inst'[i].region = region
          /\ inst'[i].job = job /\ inst'[i].applied = applied
      BY <1>1, <2>1, Zenon DEF GoesOn, Goes
    <2> QED BY <2>1, <2>5, <2>6, DiskAtNext, Zenon DEF Up
  <1>10. CASE Pins(i)
    <2>1. /\ Goes(i, "pinned", inst[i].key, inst[i].disk, inst[i].region, inst'[i].expected,
                  inst[i].job, inst[i].applied)
          /\ key \in PcrKey /\ head'[key] # None /\ head'[key].commitment = job
      BY <1>1, <1>10, PinsLand, Zenon
    <2>2. pc \in {"pin", "pinGet"} /\ disk' = disk
      BY <1>1, <1>10, Zenon DEF Pins
    <2>3. HeadIn({job})'
      BY <2>1, HeadIsIn, Zenon
    <2>4. DiskAt("pinned", d, region, job, applied)'
      BY <1>3, <2>2, <2>3, Zenon DEF DiskAt, Booting, Pinning
    <2>5. /\ inst'[i].pc = "pinned" /\ inst'[i].disk = d /\ inst'[i].region = region
          /\ inst'[i].job = job /\ inst'[i].applied = applied
      BY <1>1, <2>1, Zenon DEF Goes
    <2> QED BY <2>4, <2>5, DiskAtNext, Zenon DEF Up
  <1>11. CASE MakesWrite(i)
    <2>1. PICK c : Len(writes) + 1 = c
      BY Zenon
    <2>2. /\ pc = "serving" /\ UNCHANGED <<oracle, disk>>
          /\ inst'[i].pc = "pin" /\ inst'[i].disk = d /\ inst'[i].region = region
          /\ inst'[i].job = c /\ inst'[i].applied = FALSE
      BY <1>1, <1>2, <1>11, <2>1, Zenon DEF MakesWrite, Goes
    <2>3. HeadIn({region}) /\ disk[d] = region
      BY <1>3, <2>2, Zenon DEF DiskAt
    <2>4. HeadIn({region, c})
      BY <2>3, Zenon DEF HeadIn
    <2>5. HeadIn({region, c})'
      BY <1>2, <2>2, <2>4, HeadStaysIn, Zenon
    <2>6. DiskAt("pin", d, region, c, FALSE)'
      BY <2>2, <2>3, <2>5, Zenon DEF DiskAt, Booting, Pinning
    <2> QED BY <2>2, <2>6, DiskAtNext, Zenon DEF Up
  <1>12. CASE Lands(i)
    <2>1. /\ ~applied /\ UNCHANGED oracle /\ disk' = [disk EXCEPT ![d] = job]
          /\ inst'[i].pc = pc /\ inst'[i].disk = d /\ inst'[i].region = region
          /\ inst'[i].job = job /\ inst'[i].applied = TRUE
      BY <1>1, <1>2, <1>12, Zenon DEF Lands, Goes
    <2>2. pc \in Up
      <3>1. ~Starts(i)
        BY <1>1, <2>1, <1>12, Zenon DEF Starts, Goes
      <3> QED BY <1>1, <3>1, OneMoves, Zenon
    <2>3. job \in 1..Len(writes)
      <3>1. job # 0 /\ job \in Contents
        BY <1>1, <1>2, <1>3, <2>1, Zenon DEF Settled, Bounded
      <3> QED BY <1>2, <3>1, SMTT(30), Z3T(30) DEF Contents, TypeOK
    <2>4. pc \in Pinning
      BY <1>3, <2>1, <2>2, <2>3, Zenon DEF Settled
    <2>5. disk'[d] = job
      BY <1>2, <1>4, <2>1, <2>2, Zenon DEF TypeOK
    <2>6. (pc = "pinned" => HeadIn({job})') /\ (pc # "pinned" => HeadIn({region, job})')
      BY <1>2, <1>3, <2>1, <2>4, HeadStaysIn, Zenon DEF DiskAt
    <2>7. DiskAt(pc, d, region, job, TRUE)'
      BY <2>4, <2>5, <2>6, Zenon DEF DiskAt, Booting, Pinning
    <2> QED BY <2>1, <2>2, <2>7, DiskAtNext, Zenon DEF Up
  <1>13. CASE Acks(i)
    <2>1. /\ pc = "pinned" /\ applied /\ UNCHANGED <<oracle, disk>>
          /\ inst'[i].pc = "serving" /\ inst'[i].disk = d /\ inst'[i].region = job
          /\ inst'[i].job = job /\ inst'[i].applied = TRUE
      BY <1>1, <1>2, <1>13, Zenon DEF Acks, Goes
    <2>2. HeadIn({job}) /\ disk[d] = job
      BY <1>3, <2>1, Zenon DEF DiskAt, Pinning
    <2>3. HeadIn({job})'
      BY <1>2, <2>1, <2>2, HeadStaysIn, Zenon
    <2>4. DiskAt("serving", d, job, job, TRUE)'
      BY <2>1, <2>2, <2>3, Zenon DEF DiskAt, Pinning
    <2> QED BY <2>1, <2>4, DiskAtNext, Zenon DEF Up
  <1> QED BY <1>5, <1>6, <1>7, <1>8, <1>9, <1>10, <1>11, <1>12, <1>13, Zenon DEF Moving

(* A pin nobody waits for that fits is the one in flight: with nothing     *)
(* torn, its writer is still up.                                           *)
LEMMA LatePinIsInFlight ==
    ASSUME HistoryInv, OwnInv, AckInv, Torn = {}, NEW m \in late, m.op = "pin",
           Swaps(m.key, m.v)
    PROVE  \E w \in Instance : inst[w].pc \in {"pin", "pinGet"} /\ inst[w].job = m.c
  <1>1. /\ LateInv(m) /\ TypeOK /\ Bounded /\ m \in Op
        /\ OwnLate(m) /\ SettledLate(m) /\ m.c \in Contents
    BY Parts, Zenon DEF OwnInv, AckInv, TypeOK, Bounded
  <1>2. /\ m.key \in PcrKey /\ m.c # 0 /\ m.v \in Nat
        /\ head[m.key] # None /\ head[m.key].version = m.v
    BY <1>1, Zenon DEF LateInv, Op, Swaps
  <1>3. m.c \in 1..Len(writes)
    BY <1>1, <1>2, SMTT(30), Z3T(30) DEF Contents, TypeOK
  <1>4. ~(m.v < m.v)
    BY <1>2, SMTT(30), Z3T(30)
  <1>5. m.c \notin acked
    BY <1>1, <1>2, <1>4, Zenon DEF SettledLate
  <1>6. PICK w : writes[m.c].by = w
    BY Zenon
  <1>7. w \in Instance
    <2> DEFINE Wrote == [by : Instance, after : SUBSET Nat]
    <2>1. writes \in Seq(Wrote)
      BY <1>1, Zenon DEF TypeOK
    <2> HIDE DEF Wrote
    <2>2. writes[m.c] \in Wrote
      BY <1>3, <2>1, SMTT(30), Z3T(30)
    <2> QED BY <1>6, <2>2, Zenon DEF Wrote
  <1>8. inst[w].pc \in Up
    BY <1>3, <1>5, <1>6, Zenon DEF Torn
  <1>9. inst[w].pc \in Pinning /\ inst[w].job = m.c
    BY <1>3, <1>5, <1>6, <1>7, <1>8, Zenon DEF AckInv, Settled
  <1>10. /\ m.key = inst[w].key
         /\ m.v < inst[w].expected \/ inst[w].pc \in {"pin", "pinGet"}
    BY <1>1, <1>6, <1>7, <1>9, Zenon DEF OwnLate, Own, Holding, Pinning
  <1>11. inst[w].expected \in Nat /\ inst[w].expected <= m.v
    BY <1>2, <1>7, <1>9, <1>10, Expects, Zenon DEF Holding, Pinning, At
  <1>12. ~(m.v < inst[w].expected)
    BY <1>2, <1>11, SMTT(30), Z3T(30)
  <1> QED BY <1>7, <1>9, <1>10, <1>12, Zenon

(* What an operation nobody waits for does to the head, the disk standing  *)
(* still.                                                                  *)
LEMMA DiskLate ==
    ASSUME HistoryInv, OneHistory', OwnInv, AckInv, AloneInv, DiskInv, alone, Torn = {},
           NEW m \in late, LateApply(m)
    PROVE  DiskInv'
  <1>1. UNCHANGED <<inst, disk, writes, acked, alone>> /\ Live' = Live
    BY Zenon DEF LateApply, Live
  <1>2. TypeOK /\ Bounded /\ OneHistory /\ LateInv(m)
    BY Parts, Zenon
  <1>3. /\ \A i \in Instance : DiskAt(inst[i].pc, inst[i].disk, inst[i].region, inst[i].job,
                                       inst[i].applied)
        /\ Live = {} => \A i \in Instance : inst[i].disk # None => HeadIn({disk[inst[i].disk]})
        /\ \A i \in Instance : inst[i].pc # "mismatch"
    BY Zenon DEF DiskInv
  <1>4. ASSUME \A S : HeadIn(S) => HeadIn(S)'
        PROVE  DiskInv'
    <2>1. ASSUME NEW i \in Instance
          PROVE  DiskAt(inst[i].pc, inst[i].disk, inst[i].region, inst[i].job, inst[i].applied)'
      <3>1. PICK pc, d, region, job, applied :
               /\ inst[i].pc = pc /\ inst[i].disk = d /\ inst[i].region = region
               /\ inst[i].job = job /\ inst[i].applied = applied
        BY ZenonT(30)
      <3>2. DiskAt(pc, d, region, job, applied)
        BY <1>3, <3>1, Zenon
      <3>3. DiskAt(pc, d, region, job, applied)'
        BY <1>1, <1>4, <3>2, Zenon DEF DiskAt
      <3> QED BY <1>1, <3>1, <3>3, DiskAtNext, Zenon
    <2>2. ASSUME Live = {}, NEW i \in Instance, inst[i].disk # None
          PROVE  HeadIn({disk[inst[i].disk]})'
      <3>1. PICK c : disk[inst[i].disk] = c
        BY Zenon
      <3>2. HeadIn({c})
        BY <1>3, <2>2, <3>1, Zenon DEF HeadIn
      <3>3. HeadIn({c})'
        BY <1>4, <3>2, Zenon
      <3> QED BY <1>1, <3>1, <3>3, Zenon DEF HeadIn
    <2> QED BY <1>1, <1>3, <2>1, <2>2, Zenon DEF DiskInv
  <1>5. CASE m.op = "register" /\ Start(m.key, m.c)
    <2>1. m.key \in PcrKey /\ m.c = 0 /\ m.key \in Genesis /\ Fresh(m.key)
      BY <1>2, <1>5, Zenon DEF LateInv, Start
    <2>2. writes = <<>>
      BY <1>2, <2>1, Zenon DEF OneHistory
    <2>3. Contents = {0}
      BY <2>2, SMTT(30), Z3T(30) DEF Contents
    <2>4. head'[m.key] # None /\ head'[m.key].commitment = 0
      <3>1. /\ head' = [head EXCEPT ![m.key] = [commitment |-> 0, version |-> 0]]
            /\ head \in [PcrKey -> {None} \cup PinnedHead]
        BY <1>2, <1>5, <2>1, Zenon DEF Start, TypeOK, OracleTypeOK
      <3>2. head'[m.key] = [commitment |-> 0, version |-> 0]
        BY <2>1, <3>1, Zenon
      <3>3. [commitment |-> 0, version |-> 0] \in PinnedHead
        <4>1. 0 \in 0..MaxWrites
          BY BootConstants, SMTT(30), Z3T(30)
        <4>2. 0 \in Commitment
          BY <4>1, BootConstants, Zenon
        <4> QED BY <4>2, SMTT(30), Z3T(30) DEF PinnedHead
      <3>4. [commitment |-> 0, version |-> 0].commitment = 0
        BY SMTT(30), Z3T(30)
      <3>5. head'[m.key] # None
        BY <3>2, <3>3, BootConstants, Zenon
      <3> QED BY <3>2, <3>4, <3>5, Zenon
    <2>5. \A S : 0 \in S => HeadIn(S)'
      BY <2>1, <2>4, HeadIsIn, Zenon
    <2>6. ASSUME NEW i \in Instance
          PROVE  DiskAt(inst[i].pc, inst[i].disk, inst[i].region, inst[i].job, inst[i].applied)'
      <3>1. PICK pc, d, region, job, applied :
               /\ inst[i].pc = pc /\ inst[i].disk = d /\ inst[i].region = region
               /\ inst[i].job = job /\ inst[i].applied = applied
        BY ZenonT(30)
      <3>2. region = 0 /\ job = 0
        BY <1>2, <2>3, <3>1, Zenon DEF Bounded
      <3>3. DiskAt(pc, d, region, job, applied)
        BY <1>3, <3>1, Zenon
      <3>4. HeadIn({region})' /\ HeadIn({job})' /\ HeadIn({region, job})'
        BY <2>5, <3>2, Zenon
      <3>5. DiskAt(pc, d, region, job, applied)'
        BY <1>1, <3>3, <3>4, Zenon DEF DiskAt
      <3> QED BY <1>1, <3>1, <3>5, DiskAtNext, Zenon
    <2>7. ASSUME NEW i \in Instance, inst[i].disk # None
          PROVE  HeadIn({disk[inst[i].disk]})'
      <3>1. inst[i].disk \in Disk
        BY <1>2, <2>7, Zenon DEF TypeOK
      <3>2. disk[inst[i].disk] \in Contents
        BY <1>2, <3>1, Zenon DEF TypeOK, Contents
      <3>3. disk[inst[i].disk] = 0
        BY <2>3, <3>2, Zenon
      <3>4. HeadIn({0})'
        BY <2>5, Zenon
      <3> QED BY <1>1, <3>3, <3>4, Zenon DEF HeadIn
    <2> QED BY <1>1, <1>3, <2>6, <2>7, Zenon DEF DiskInv
  <1>6. CASE m.op = "transition" /\ Moves(m.old, m.key, m.c) /\ HandOver(m.old, m.key)
    <2>1. m.old \in PcrKey /\ m.key \in PcrKey
      BY <1>2, <1>6, BootConstants, SMTT(30), Z3T(30) DEF LateInv, Moves
    <2>2. \A S : HeadIn(S) => HeadIn(S)'
      BY <1>2, <1>6, <2>1, HeadStaysIn, Zenon
    <2> QED BY <1>4, <2>2, Zenon
  <1>7. CASE m.op = "pin" /\ Swaps(m.key, m.v) /\ Extend(m.key, m.c)
    <2>1. PICK w \in Instance : inst[w].pc \in {"pin", "pinGet"} /\ inst[w].job = m.c
      BY <1>7, LatePinIsInFlight, Zenon
    <2>2. inst[w].pc \in Up /\ w \in Live
      BY <2>1, Zenon DEF Up, Live
    <2>3. PICK pc, d, region, job, applied :
             /\ inst[w].pc = pc /\ inst[w].disk = d /\ inst[w].region = region
             /\ inst[w].job = job /\ inst[w].applied = applied
      BY ZenonT(30)
    <2>4. m.key \in PcrKey /\ head'[m.key] # None /\ head'[m.key].commitment = job
      <3>1. /\ m.key \in PcrKey
            /\ head' = [head EXCEPT ![m.key] = [commitment |-> m.c,
                                                version    |-> head[m.key].version + 1]]
            /\ head \in [PcrKey -> {None} \cup PinnedHead] /\ OracleTypeOK
        BY <1>2, <1>7, Zenon DEF Extend, TypeOK, OracleTypeOK, LateInv
      <3>2. head'[m.key] = [commitment |-> m.c, version |-> head[m.key].version + 1]
        BY <3>1, Zenon
      <3>3. [commitment |-> m.c, version |-> head[m.key].version + 1] \in PinnedHead
        <4>1. m.c \in 0..MaxWrites
          <5>1. m.c \in Contents /\ Len(writes) <= MaxWrites
            BY <1>2, Zenon DEF Bounded
          <5> QED BY <1>2, <5>1, BootConstants, SMTT(30), Z3T(30) DEF Contents, TypeOK
        <4>2. m.c \in Commitment
          BY <4>1, BootConstants, Zenon
        <4>3. head[m.key].version \in Nat
          BY <1>7, <3>1, HeadTyped, Zenon DEF Swaps
        <4> QED BY <4>2, <4>3, SMTT(30), Z3T(30) DEF PinnedHead
      <3> QED BY <2>1, <2>3, <3>1, <3>2, <3>3, BootConstants, Zenon
    <2>5. HeadIn({region, job})'
      BY <2>4, HeadIsIn, Zenon
    <2>6. DiskAt(pc, d, region, job, applied)'
      <3>1. DiskAt(pc, d, region, job, applied)
        BY <1>3, <2>3, Zenon
      <3> QED BY <1>1, <2>1, <2>3, <2>5, <3>1, Zenon DEF DiskAt, Booting, Pinning
    <2>7. DiskAt(inst[w].pc, inst[w].disk, inst[w].region, inst[w].job, inst[w].applied)'
      BY <1>1, <2>3, <2>6, DiskAtNext, Zenon
    <2>8. ASSUME NEW i \in Instance, i # w
          PROVE  DiskAt(inst[i].pc, inst[i].disk, inst[i].region, inst[i].job, inst[i].applied)'
      <3>1. inst'[i].pc \notin Up
        BY <1>1, <2>2, <2>8, Zenon DEF AloneInv
      <3> QED BY <3>1, Zenon DEF DiskAt, Up, Booting, Pinning
    <2> QED BY <1>1, <1>3, <2>2, <2>7, <2>8, Zenon DEF DiskInv
  <1> QED BY <1>5, <1>6, <1>7, Zenon DEF LateApply

(* The disk and the head, step by step *)
LEMMA DiskStep ==
    ASSUME HistoryInv, OneHistory', OwnInv, AckInv, AloneInv, DiskInv, Next
    PROVE  DiskInv'
  <1> SUFFICES ASSUME alone', Torn' = {} PROVE DiskInv'
    BY Zenon DEF DiskInv
  <1>1. alone /\ Torn = {}
    BY AloneStep, TornGrows, Zenon
  <1>2. ASSUME NEW i \in Instance, Moving(i) PROVE DiskInv'
    <2>1. /\ DiskAt(inst[i].pc, inst[i].disk, inst[i].region, inst[i].job, inst[i].applied)'
          /\ inst'[i].pc # "mismatch"
          /\ inst'[i].pc \notin Up =>
                \A j \in Instance : inst'[j].disk # None => HeadIn({disk[inst[j].disk]})'
      BY <1>1, <1>2, DiskMoved, Zenon
    <2>2. ASSUME NEW j \in Instance, j # i
          PROVE  /\ DiskAt(inst[j].pc, inst[j].disk, inst[j].region, inst[j].job, inst[j].applied)'
                 /\ inst'[j].pc # "mismatch"
      <3>1. inst'[j] = inst[j] /\ inst[j].pc \notin Up
        BY <1>1, <1>2, <2>2, OneMoves, Zenon
      <3>2. inst'[j].pc \notin Up /\ inst'[j].pc # "mismatch"
        BY <1>1, <3>1, Zenon DEF DiskInv
      <3> QED BY <3>2, Zenon DEF DiskAt, Up, Booting, Pinning
    <2>3. Live' = {} => inst'[i].pc \notin Up
      BY Zenon DEF Live
    <2> QED BY <2>1, <2>2, <2>3, Zenon DEF DiskInv
  <1>3. ASSUME NEW m \in late, LateApply(m) PROVE DiskInv'
    BY <1>1, <1>3, DiskLate, Zenon
  <1>4. ASSUME NEW d, Restore(d) PROVE FALSE
    BY <1>4, Zenon DEF Restore
  <1> QED BY <1>2, <1>3, <1>4, Kinds, Zenon

(* A clean stop boots again.  While there was one instance at a time, on   *)
(* one disk that nobody put back, a boot takes the disk for a wrong one    *)
(* only after an instance ended between a region write and its             *)
(* acknowledgement (boot_decision), for any number of instances, disks,    *)
(* keys, upgrades and writes.                                              *)
THEOREM MismatchesAreTorn == Spec => []MismatchMeansTorn
  <1> DEFINE Inv == HistoryInv /\ OwnInv /\ AckInv /\ AloneInv /\ DiskInv
  <1>1. Init => AckInv /\ AloneInv /\ DiskInv
    <2> SUFFICES ASSUME Init PROVE AckInv /\ AloneInv /\ DiskInv
      BY Zenon
    <2>1. /\ \A i \in Instance : /\ inst[i].pc = "off" /\ inst[i].disk = None
                                 /\ inst[i].applied = TRUE
          /\ writes = <<>> /\ late = {} /\ acked = {}
      BY Zenon DEF Init, Off
    <2>2. AckInv
      BY <2>1, Zenon DEF AckInv, Settled, Pinning, Up
    <2>3. AloneInv
      BY <2>1, Zenon DEF AloneInv, Up
    <2>4. DiskInv
      BY <2>1, Zenon DEF DiskInv, DiskAt, Booting, Pinning
    <2> QED BY <2>2, <2>3, <2>4, Zenon
  <1>2. Inv /\ HistoryInv' /\ [Next]_vars => AckInv' /\ AloneInv' /\ DiskInv'
    <2>1. ASSUME Inv, HistoryInv', Next PROVE AckInv' /\ AloneInv' /\ DiskInv'
      <3>1. OneHistory'
        BY <2>1, Zenon DEF HistoryInv
      <3> QED BY <2>1, <3>1, AckStep, AloneStep, DiskStep, Zenon
    <2>2. ASSUME Inv, UNCHANGED vars PROVE AckInv' /\ AloneInv' /\ DiskInv'
      <3>1. UNCHANGED <<head, inst, disk, writes, late, acked, alone>>
        BY <2>2, Zenon DEF vars, oracle
      <3>2. AckInv'
        BY <2>2, <3>1, Zenon DEF AckInv, Settled, SettledLate
      <3>3. AloneInv'
        BY <2>2, <3>1, Zenon DEF AloneInv
      <3>4. DiskInv'
        BY <2>2, <3>1, ZenonT(30) DEF DiskInv, DiskAt, HeadIn, Live, Torn
      <3> QED BY <3>2, <3>3, <3>4, Zenon
    <2> QED BY <2>1, <2>2, Zenon
  <1>3. AckInv /\ AloneInv /\ DiskInv => MismatchMeansTorn
    BY Zenon DEF DiskInv, MismatchMeansTorn
  <1> QED BY <1>1, <1>2, <1>3, OwnInvariant, PTL DEF Spec
=============================================================================
