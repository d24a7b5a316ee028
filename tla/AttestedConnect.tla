--------------------------- MODULE AttestedConnect ---------------------------
(* How a client of the SDK comes to trust a channel: the clones of a Client   *)
(* share one command channel and reconnect it under one lock; establishing it *)
(* is a WebSocket dial, a Noise handshake, an attestation request, and the    *)
(* verdict on the document, either against the pinned measurements or, for a  *)
(* client that follows upgrades, against the tip of the verified chain.       *)
(*                                                                            *)
(* Meanwhile the enclave is upgraded: version v of it is replaced by v + 1,   *)
(* whose boot link the backend records some time later.  A dial may reach     *)
(* another enclave, or a relay that ends the Noise session itself and passes  *)
(* on a document the enclave issued for another session.                      *)
EXTENDS Integers, Sequences, FiniteSets

CONSTANTS
    Clones,         \* the clones of the Client that issue requests
    LastVersion,    \* versions of the enclave are 1..LastVersion
    PinnedImage,    \* the version whose PCRs the client pinned; NoPin: none
    Follows,        \* trust_upgrades was given
    MaxChannels     \* bound: channels established in a behaviour

ASSUME ConnectConstants == LastVersion \in Nat /\ PinnedImage \in Nat

NoPin == 0
Foreign == -1       \* the image of an enclave that is not this one
NoEnclave == -2     \* an end of a Noise session that is no enclave
NoClone == "none"

VARIABLES
    live,       \* the version running now
    recorded,   \* the last version whose boot link the backend has
    clock,      \* whether the client's clock is within the accepted skew
    call,       \* Clones -> where the request of a clone is
    lock,       \* reconnect_lock: its holder
    try,        \* the attempt of the holder
    channels    \* the channels established, the last one being cmd_tx

connectVars == <<live, recorded, clock, call, lock, try, channels>>

-----------------------------------------------------------------------------
(* The verdict on a document                                                  *)

\* A document: the image its PCRs are, and the session hash it carries as nonce.
Document(image, nonce) == [image |-> image, nonce |-> nonce]

NoTry == [at |-> "none", peer |-> NoEnclave, hash |-> 0, doc |-> Document(NoEnclave, 0), tip |-> NoPin]

\* check_nonce
CheckNonce(doc, hash) == doc.nonce = hash

\* Mutant: the nonce of the document is not compared.
ValidateSession_AnyNonce(doc, hash) == clock = "near"

\* validate_session_with: a genuine document passes the certificate chain at its
\* own timestamp; then that timestamp against the clock, then the nonce.
ValidateSession(doc, hash) == clock = "near" /\ CheckNonce(doc, hash)

\* require_pcrs: a client without pins holds empty PCRs, which no document has
RequirePcrs(doc, pcrs) == pcrs # NoPin /\ doc.image = pcrs

\* verify_pcr_descent: the pin is a boot of this enclave's chain, the tip its last
VerifyDescent(pinned) == IF pinned \in 1..recorded THEN recorded ELSE NoPin

-----------------------------------------------------------------------------
(* One attempt: establish_channel, bounded by connect_timeout                 *)

Latest == channels[Len(channels)]

\* A failed or refused attempt: the guard is dropped, the request returns the error.
Abandon ==
    /\ try' = NoTry
    /\ lock' = NoClone
    /\ call' = [call EXCEPT ![lock] = "idle"]

\* The transport task is spawned and its sender becomes cmd_tx.
Install ==
    /\ channels' = Append(channels, [peer |-> try.peer, open |-> TRUE])
    /\ Abandon

\* Ws::connect, through a router that may reach something else
Dial(peer) ==
    /\ try.at = "dial"
    /\ peer \in {live, Foreign, NoEnclave}
    /\ try' = [try EXCEPT !.at = "noise", !.peer = peer]
    /\ UNCHANGED <<live, recorded, clock, call, lock, channels>>

\* get_handshake_hash: the handshakes of a behaviour have distinct hashes
HandshakeHash == Len(channels) + 1

\* noise::perform_handshake: both ends hold the hash of this handshake
Handshake ==
    /\ try.at = "noise"
    /\ try' = [try EXCEPT !.at = "attest", !.hash = HandshakeHash]
    /\ UNCHANGED <<live, recorded, clock, call, lock, channels>>

\* What answers for an end of the session: an enclave attests its own end, for the
\* hash it computed; anything else has only a document of a session of its own.
Attestation(peer, hash) ==
    IF peer = NoEnclave THEN Document(live, hash + 1) ELSE Document(peer, hash)

RequestAttestation ==
    /\ try.at = "attest"
    /\ try' = [try EXCEPT !.at = "verify", !.doc = Attestation(try.peer, try.hash)]
    /\ UNCHANGED <<live, recorded, clock, call, lock, channels>>

\* trust_upgrades: the builder takes it only together with a pin.
TrustUpgrades == Follows /\ PinnedImage # NoPin

\* validate_live and require_pcrs against the pin; any refusal falls through to
\* the upgrade chain when the caller follows upgrades and has pinned something.
VerifyPinned ==
    /\ try.at = "verify"
    /\ IF ValidateSession(try.doc, try.hash) /\ RequirePcrs(try.doc, PinnedImage)
       THEN Install
       ELSE IF TrustUpgrades
       THEN try' = [try EXCEPT !.at = "row"] /\ UNCHANGED <<call, lock, channels>>
       ELSE Abandon /\ UNCHANGED channels
    /\ UNCHANGED <<live, recorded, clock>>

\* The first read of verify_via_upgrade_chain: the row, whose measurements no
\* walk from a genesis boot consults.
FetchRow ==
    /\ try.at = "row"
    /\ try' = [try EXCEPT !.at = "chain"]
    /\ UNCHANGED <<live, recorded, clock, call, lock, channels>>

\* The second read, and the walk over what it returned.
FetchChain ==
    /\ try.at = "chain"
    /\ LET tip == VerifyDescent(PinnedImage)
       IN  IF tip = NoPin
           THEN Abandon
           ELSE try' = [try EXCEPT !.at = "tip", !.tip = tip] /\ UNCHANGED <<call, lock>>
    /\ UNCHANGED <<live, recorded, clock, channels>>

\* The live document once more, now against the tip.
VerifyTip ==
    /\ try.at = "tip"
    /\ IF ValidateSession(try.doc, try.hash) /\ RequirePcrs(try.doc, try.tip)
       THEN Install
       ELSE Abandon /\ UNCHANGED channels
    /\ UNCHANGED <<live, recorded, clock>>

\* connect_timeout, or an error of the step under way
EstablishFails ==
    /\ try.at # "none"
    /\ Abandon
    /\ UNCHANGED <<live, recorded, clock, channels>>

-----------------------------------------------------------------------------
(* ensure_connected                                                           *)

\* A request finds cmd_tx closed and goes for the lock.
FindsClosed(c) ==
    /\ call[c] = "idle"
    /\ ~Latest.open
    /\ Len(channels) < MaxChannels
    /\ call' = [call EXCEPT ![c] = "waiting"]
    /\ UNCHANGED <<live, recorded, clock, lock, try, channels>>

\* The lock, and the second look at cmd_tx.
TakeLock(c) ==
    /\ call[c] = "waiting"
    /\ lock = NoClone
    /\ IF Latest.open
       THEN call' = [call EXCEPT ![c] = "idle"] /\ UNCHANGED <<lock, try>>
       ELSE /\ lock' = c
            /\ try' = [NoTry EXCEPT !.at = "dial"]
            /\ UNCHANGED call
    /\ UNCHANGED <<live, recorded, clock, channels>>

-----------------------------------------------------------------------------
(* What happens around the client                                             *)

\* The transport task of the current channel ends: the peer stopped, or the path broke.
ChannelEnds ==
    /\ Latest.open
    /\ channels' = [channels EXCEPT ![Len(channels)].open = FALSE]
    /\ UNCHANGED <<live, recorded, clock, call, lock, try>>

\* The enclave is stopped and the version its upgrade link names boots.
Promote ==
    /\ live < LastVersion
    /\ recorded = live
    /\ live' = live + 1
    /\ UNCHANGED <<recorded, clock, call, lock, try, channels>>

\* The backend ingests the boot link of the running version.
RecordBoot ==
    /\ recorded < live
    /\ recorded' = live
    /\ UNCHANGED <<live, clock, call, lock, try, channels>>

ClockJumps ==
    /\ clock' = IF clock = "near" THEN "far" ELSE "near"
    /\ UNCHANGED <<live, recorded, call, lock, try, channels>>

ConnectInit ==
    /\ live = 1
    /\ recorded = 1
    /\ clock = "near"
    /\ call = [c \in Clones |-> "idle"]
    /\ lock = NoClone
    /\ try = NoTry
    /\ channels = <<[peer |-> 1, open |-> TRUE]>>

ConnectNext ==
    \/ \E peer \in 1..LastVersion \cup {Foreign, NoEnclave} : Dial(peer)
    \/ Handshake
    \/ RequestAttestation
    \/ VerifyPinned
    \/ FetchRow
    \/ FetchChain
    \/ VerifyTip
    \/ EstablishFails
    \/ \E c \in Clones : FindsClosed(c) \/ TakeLock(c)
    \/ ChannelEnds
    \/ Promote
    \/ RecordBoot
    \/ ClockJumps

-----------------------------------------------------------------------------
(* Properties                                                                 *)

\* A channel requests are sent on ends in an enclave that runs the pinned image
\* or, for a client that follows upgrades, a version of this enclave that descends
\* from it, whatever a dial reached and whatever was promoted between the document,
\* the two reads of the backend and the verdict (establish_channel, fail closed).
EndsInLineage ==
    \A i \in DOMAIN channels :
        \/ channels[i].peer = PinnedImage
        \/ Follows /\ channels[i].peer \in PinnedImage..live

\* However many clones found the channel closed at once, a new one replaces only
\* a closed one: no two channels of a client are open (ensure_connected's re-check
\* under reconnect_lock).
OneOpenChannel ==
    \A i, j \in DOMAIN channels : channels[i].open /\ channels[j].open => i = j

\* A client has at most one open channel, and every channel it ever used ends in the
\* lineage it trusts (ensure_connected, establish_channel).
ChannelIsTrusted == EndsInLineage /\ OneOpenChannel
=============================================================================
