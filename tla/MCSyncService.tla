--------------------------- MODULE MCSyncService ---------------------------
(* Instances of SyncService for TLC. *)
EXTENDS SyncService, TLC

CONSTANTS k1, k2, k3, c1, c2, p1, p2, h1, h2

Symmetry == Permutations(Call) \cup Permutations(Node)

Get(k)        == [type |-> "Get", session |-> k, key |-> k]
Reg(k, p, c)  == [type |-> "Register", session |-> k, key |-> k, pubkey |-> p,
                  commitment |-> c]
Write(k, v, c) == [type |-> "Pin", session |-> k, key |-> k,
                   expected_version |-> v, commitment |-> c]
Link(from, to, h, signer, since, until) ==
    [decodes |-> TRUE, from |-> from, to |-> to, valid_from |-> since,
     valid_until |-> until, hash |-> h, signer |-> signer, attests |-> from]
Upgrade(link, p, c) == [type |-> "Transition", session |-> link.to, pubkey |-> p,
                        link |-> link, commitment |-> c]
Revoke(k, h, signer) == [type |-> "Revoke", session |-> k,
                         link |-> [decodes |-> TRUE, hash |-> h, signer |-> signer]]

(* Two clones that share a key pin different commitments. *)
PinRequests == {Reg(k1, p1, c1), Write(k1, 0, c1), Write(k1, 0, c2)}

(* A registration, a pin, and reads on any replica. *)
ReadRequests == {Reg(k1, p1, c1), Write(k1, 0, c2), Get(k1)}

(* An upgrade of k1 races a pin and a duplicate of itself. *)
UpgradeRequests == {Reg(k1, p1, c1), Write(k1, 0, c1),
                    Upgrade(Link(k1, k2, h1, p1, 0, 1), p2, c1)}

(* Registrations that disagree on the control key, and an upgrade signed   *)
(* with the first of them, whose window opens late.                        *)
AuthRequests == {Reg(k1, p1, c1), Reg(k1, p2, c1),
                 Upgrade(Link(k1, k2, h1, p1, 1, 2), p2, c1)}

(* Two upgrades, the revocation of the first, and a request for the key of *)
(* another session.                                                        *)
RevokeRequests == {Reg(k1, p1, c1), Revoke(k1, h1, p1),
                   Upgrade(Link(k1, k2, h1, p1, 0, 1), p2, c1),
                   Upgrade(Link(k1, k2, h2, p1, 0, 1), p2, c1),
                   [Get(k1) EXCEPT !.key = k2]}

-----------------------------------------------------------------------------
(* A run explores several catalogues, one at a time: the constraints cut   *)
(* off behaviours that mix them.                                           *)

Within(S) == \A i \in Call : calls[i].req \in S \cup {None}

WriteRequests == PinRequests \cup UpgradeRequests

PinsOrUpgrades == Within(PinRequests) \/ Within(UpgradeRequests)

ControlRequests == AuthRequests \cup RevokeRequests \cup ReadRequests

(* The catalogues of control keys are about one node's view. *)
OneNode ==
    \E n \in Node :
        /\ building[n] = None /\ snap[n] = None
        /\ \A m \in Node \ {n} : applied[m] = 0 /\ \A i \in Call : calls[i].node # m

AuthOrRevokeOrRead ==
    \/ Within(AuthRequests) /\ OneNode
    \/ Within(RevokeRequests) /\ OneNode /\ now = 0
    \/ Within(ReadRequests) /\ now = 0 /\ \A i \in Call : calls[i].tries <= 1
=============================================================================
