-------------------------- MODULE FreshnessOracle --------------------------
(***************************************************************************)
(* What the synchronizer promises its clients: every volume history has a  *)
(* head (the commitment and the version last pinned), and the head changes *)
(* in three ways only.  A fresh key starts a history, the key that holds a *)
(* history extends it by one version, or it hands the history, unchanged,  *)
(* to a key that never held one.  A key that gave its history away never   *)
(* holds one again.                                                        *)
(*                                                                         *)
(* This is the abstract specification.  SyncService (the replicated        *)
(* service) implements it, and NbdBoot (the clients) runs on top of it.    *)
(***************************************************************************)
EXTENDS Naturals

CONSTANTS PcrKey,      \* pin identities, one per enclave image and user PCRs
          Commitment,  \* hashes of a volume's superblock region
          None         \* no value

VARIABLES head,        \* per key: the pinned commitment and version, or None
          retired      \* the keys that handed their history to a successor

PinnedHead == [commitment : Commitment, version : Nat]

OracleTypeOK == /\ head \in [PcrKey -> PinnedHead \cup {None}]
                /\ retired \in SUBSET PcrKey

OracleInit == /\ head = [k \in PcrKey |-> None]
              /\ retired = {}

Fresh(k) == head[k] = None /\ k \notin retired

Start(k, c) ==
    /\ Fresh(k)
    /\ head' = [head EXCEPT ![k] = [commitment |-> c, version |-> 0]]
    /\ UNCHANGED retired

Extend(k, c) ==
    /\ head[k] # None
    /\ head' = [head EXCEPT ![k] = [commitment |-> c,
                                    version    |-> head[k].version + 1]]
    /\ UNCHANGED retired

HandOver(old, new) ==
    /\ head[old] # None
    /\ Fresh(new)
    /\ head' = [head EXCEPT ![old] = None, ![new] = head[old]]
    /\ retired' = retired \cup {old}

OracleNext == \/ \E k \in PcrKey, c \in Commitment : Start(k, c) \/ Extend(k, c)
              \/ \E old, new \in PcrKey : HandOver(old, new)

OracleSpec == OracleInit /\ [][OracleNext]_<<head, retired>>
=============================================================================
