---------------------------- MODULE SyncMachine ----------------------------
(***************************************************************************)
(* The synchronizer's pure state machine (synchronizer/src/lib.rs): the    *)
(* freshness map, the observations its checks consume, and the four        *)
(* operations.  Operators only: a state is a record, an operation maps a   *)
(* state to the next state and a result, so that SyncSession (one node)    *)
(* and SyncService (replicas) run the same definitions.                    *)
(*                                                                         *)
(* Abstractions: keys, commitments, control public keys and link hashes    *)
(* are opaque values.  The u64 version is a natural number: 2^64 pins of   *)
(* one key are out of reach.                                               *)
(***************************************************************************)
EXTENDS Naturals

CONSTANTS PcrKey,      \* pin identities
          Commitment,  \* hashes of a volume's superblock region
          Pubkey,      \* control public keys
          LinkHash,    \* payload hashes of upgrade links
          None,        \* Rust's Option::None
          UpgradeWindowMin,         \* shortest window a link may carry
          TransitionClockTolerance  \* slack at both edges of the window

ASSUME NoneIsNoPubkey == None \notin Pubkey

ASSUME NoneIsNoKey == None \notin PcrKey

KeyState == [commitment : Commitment, version : Nat, control_pubkey : Pubkey]

ASSUME NoneIsNoKeyState == None \notin KeyState

ASSUME TimesAreNat == /\ UpgradeWindowMin \in Nat
                      /\ TransitionClockTolerance \in Nat

StateMachine ==
    [state                     : [PcrKey -> KeyState \cup {None}],
     attested                  : [PcrKey -> Pubkey \cup {None}],
     transition_authorizations : SUBSET (PcrKey \X PcrKey),
     retired                   : SUBSET PcrKey,
     revoked_links             : [PcrKey -> SUBSET LinkHash]]

NewMachine ==
    [state                     |-> [k \in PcrKey |-> None],
     attested                  |-> [k \in PcrKey |-> None],
     transition_authorizations |-> {},
     retired                   |-> {},
     revoked_links             |-> [k \in PcrKey |-> {}]]

Live(s, k) == s.state[k] # None

-----------------------------------------------------------------------------
(* Observations: facts the caller has verified. *)

ObserveAttestation(s, k, pk) ==
    [s EXCEPT !.attested = [s.attested EXCEPT ![k] = pk]]

ObserveTransition(s, old, new) ==
    [s EXCEPT !.transition_authorizations =
                  s.transition_authorizations \cup {<<old, new>>}]

-----------------------------------------------------------------------------
(* Operations.  The IF chains keep the order of the code's early returns:  *)
(* the first check that fails names the error, and leaves the state as it  *)
(* was.                                                                    *)

(* Success, or the ValidationError. *)
Verdict == {"Applied", "NotAttested", "AlreadyRegistered", "KeyRetired",
            "KeyNotCurrent", "StalePin", "OldKeyEqualsNew", "TransitionRevoked",
            "NewKeyAlreadyExists", "NewKeyNotAttested",
            "NoTransitionAuthorization", "CommitmentMismatch"}

Applied(s)     == [res |-> "Applied", st |-> s]
Rejected(s, e) == [res |-> e, st |-> s]

(* Mutant: registers over a registered key. *)
ApplyRegister_Overwrites(s, k, c) ==
    IF s.attested[k] = None THEN Rejected(s, "NotAttested")
    ELSE IF k \in s.retired THEN Rejected(s, "KeyRetired")
    ELSE Applied([s EXCEPT !.state = [s.state EXCEPT ![k] =
                     [commitment |-> c, version |-> 0, control_pubkey |-> s.attested[k]]]])

ApplyRegister(s, k, c) ==
    IF s.attested[k] = None THEN Rejected(s, "NotAttested")
    ELSE IF Live(s, k)      THEN Rejected(s, "AlreadyRegistered")
    ELSE IF k \in s.retired THEN Rejected(s, "KeyRetired")
    ELSE Applied([s EXCEPT !.state = [s.state EXCEPT ![k] =
                     [commitment     |-> c,
                      version        |-> 0,
                      control_pubkey |-> s.attested[k]]]])

(* Mutant: the last writer wins. *)
ApplyPin_NoCas(s, k, expected, c) ==
    IF ~Live(s, k) THEN Rejected(s, "KeyNotCurrent")
    ELSE Applied([s EXCEPT !.state = [s.state EXCEPT ![k] =
                     [s.state[k] EXCEPT !.commitment = c, !.version = s.state[k].version + 1]]])

ApplyPin(s, k, expected, c) ==
    IF ~Live(s, k)                         THEN Rejected(s, "KeyNotCurrent")
    ELSE IF s.state[k].version # expected  THEN Rejected(s, "StalePin")
    ELSE Applied([s EXCEPT !.state = [s.state EXCEPT ![k] =
                     [commitment     |-> c,
                      version        |-> s.state[k].version + 1,
                      control_pubkey |-> s.state[k].control_pubkey]]])

(* Mutant: revocations are not consulted. *)
IsRevoked_Never(s, k, h) == FALSE

IsRevoked(s, k, h) == h \in s.revoked_links[k]

(* What a transition checks first; the mutants below share it. *)
TransitionAllowed(s, old, new, h, c) ==
    /\ old # new /\ Live(s, old) /\ ~IsRevoked(s, old, h) /\ ~Live(s, new)
    /\ new \notin s.retired /\ s.attested[new] # None
    /\ s.state[old].commitment = c

(* Mutant: the successor starts again at version 0. *)
ApplyTransition_ResetsVersion(s, old, new, h, c) ==
    IF TransitionAllowed(s, old, new, h, c)
    THEN Applied([s EXCEPT !.state = [s.state EXCEPT ![old] = None, ![new] =
                     [commitment |-> c, version |-> 0, control_pubkey |-> s.attested[new]]],
                           !.retired = s.retired \cup {old}])
    ELSE Rejected(s, "NoTransitionAuthorization")

ApplyTransition(s, old, new, h, c) ==
    IF old = new                       THEN Rejected(s, "OldKeyEqualsNew")
    ELSE IF ~Live(s, old)              THEN Rejected(s, "KeyNotCurrent")
    ELSE IF IsRevoked(s, old, h)       THEN Rejected(s, "TransitionRevoked")
    ELSE IF Live(s, new)               THEN Rejected(s, "NewKeyAlreadyExists")
    ELSE IF new \in s.retired          THEN Rejected(s, "KeyRetired")
    ELSE IF s.attested[new] = None     THEN Rejected(s, "NewKeyNotAttested")
    ELSE IF <<old, new>> \notin s.transition_authorizations
                                       THEN Rejected(s, "NoTransitionAuthorization")
    ELSE IF s.state[old].commitment # c THEN Rejected(s, "CommitmentMismatch")
    ELSE Applied([s EXCEPT
             !.state   = [s.state EXCEPT ![old] = None,
                                   ![new] = [commitment     |-> s.state[old].commitment,
                                             version        |-> s.state[old].version,
                                             control_pubkey |-> s.attested[new]]],
             !.retired = s.retired \cup {old}])

ApplyRevoke(s, k, h) ==
    IF k \in s.retired   THEN Rejected(s, "KeyRetired")
    ELSE IF ~Live(s, k)  THEN Rejected(s, "KeyNotCurrent")
    ELSE Applied([s EXCEPT !.revoked_links =
                     [s.revoked_links EXCEPT ![k] = s.revoked_links[k] \cup {h}]])

-----------------------------------------------------------------------------
(* Link verification (synchronizer/src/wire.rs).  An upgrade link is what  *)
(* its payload says (from, to, window, hash) plus who signed it and whose  *)
(* attestation is attached; `decodes` is FALSE for one that is not a well  *)
(* formed upgrade link.  Signatures and attestations are ideal.            *)

UpgradeLink == [decodes : BOOLEAN, from : PcrKey, to : PcrKey,
                valid_from : Nat, valid_until : Nat, hash : LinkHash,
                signer : Pubkey, attests : PcrKey]

RevocationLink == [decodes : BOOLEAN, hash : LinkHash, signer : Pubkey]

NotYetValid(link, now) == now + TransitionClockTolerance < link.valid_from

PastValidUntil(link, now) == now > link.valid_until + TransitionClockTolerance

(* Mutant: the signature is not checked against the frozen key. *)
VerifyTransitionLink_AnySigner(link, session, pubkey, now) ==
    /\ link.to = session /\ link.from # link.to
    /\ link.valid_from + UpgradeWindowMin <= link.valid_until
    /\ ~NotYetValid(link, now) /\ ~PastValidUntil(link, now)
    /\ link.attests = link.from

VerifyTransitionLink(link, session, pubkey, now) ==
    /\ link.to = session
    /\ link.from # link.to
    /\ link.signer = pubkey
    /\ link.valid_from + UpgradeWindowMin <= link.valid_until
    /\ ~NotYetValid(link, now)
    /\ ~PastValidUntil(link, now)
    /\ link.attests = link.from

VerifyRevocationLink(link, pubkey) == link.decodes /\ link.signer = pubkey

(* The client-visible error of a rejected operation. *)
RpcError(e) ==
    CASE e = "KeyNotCurrent"      -> "NotFound"
      [] e = "StalePin"           -> "VersionConflict"
      [] e = "AlreadyRegistered"  -> "AlreadyRegistered"
      [] e = "KeyRetired"         -> "OperationRejected"
      [] e = "TransitionRevoked"  -> "TransitionRevoked"
      [] e = "CommitmentMismatch" -> "TransitionCommitmentMismatch"
      [] OTHER                    -> "TransitionRejected"
=============================================================================
