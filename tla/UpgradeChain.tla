---------------------------- MODULE UpgradeChain ----------------------------
(* The public upgrade chain of an enclave: what a link says, the rules an     *)
(* ingest applies to one link (validate_chain_link), the walk that re-checks  *)
(* a stored chain (validate_chain), the descent check a client pins its trust *)
(* on (verify_pcr_descent), and what the owner's CLI checks before it signs.  *)
(*                                                                            *)
(* An image stands for its PCR0-2 and its digest, which its measured config   *)
(* fixes; an identity is an image with the user PCRs.  The SHA-256 of a       *)
(* payload is the payload: two payloads are equal exactly when their bytes    *)
(* are.  A signature is the domain it was made in, or NoSig; an attestation   *)
(* is the identity it carries and the payload it is bound to.                 *)
EXTENDS Integers, Sequences, FiniteSets

CONSTANTS
    SKEW,           \* CLOCK_SKEW_TOLERANCE_SECS, of the walker and of the server
    WINDOW_MIN,     \* UPGRADE_WINDOW_MIN
    WINDOW_MAX,     \* UPGRADE_WINDOW_MAX
    Setting(_),     \* the anti-rollback setting an image is built with
    Upgradable      \* the enclave was created with a control key

NoSig == "none"
NoTip == 0
NoIdentity == [image |-> NoTip, user |-> 0]
NoLink == [kind |-> "none"]

\* SignedDomain::for_link
DomainOf(kind) == IF kind = "upgrade" THEN "UpgradePayload" ELSE "RevocationPayload"

\* verify_control_signature: a signature verifies only in the domain it was made in
SignatureVerifies(link) == link.sig = DomainOf(link.kind)

\* ValidatedAttestation::validate_chain_link and require_pcrs
Attests(link, image) == link.doc.over = link.payload /\ link.doc.id.image = image

\* PinIdentity::with_user_pcrs, image_pcrs: the same user PCRs under another image
Identity(image, user) == [image |-> image, user |-> user]

-----------------------------------------------------------------------------
(* Payloads                                                                   *)

BootPayload(enclave, id, at, nonce) ==
    [enclave |-> enclave, image |-> id.image, booted_at |-> at, nonce |-> nonce,
     anti_rollback |-> Setting(id.image)]

UpgradePayload(enclave, from, to, vf, vu, nonce) ==
    [enclave |-> enclave, from |-> from, to |-> to, valid_from |-> vf,
     valid_until |-> vu, nonce |-> nonce]

RevocationPayload(enclave, revokes, link, nonce) ==
    [enclave |-> enclave, revokes |-> revokes, revokes_link |-> link, nonce |-> nonce]

\* A link as an enclave emits it: its own identity attests the payload.
EmittedLink(kind, payload, id, sig) ==
    [kind |-> kind, payload |-> payload, doc |-> [id |-> id, over |-> payload], sig |-> sig]

\* RecordedLink: a link as the backend stores it, with its row id and ingest time
Recorded(link, id, at) ==
    [kind |-> link.kind, payload |-> link.payload, doc |-> link.doc, sig |-> link.sig,
     id |-> id, recorded_at |-> at]

\* AntiRollbackSetting::check_successor
CheckSuccessor(prev, next) ==
    \/ ~prev.enabled /\ ~next.enabled
    \/ /\ prev.enabled
       /\ next.enabled
       /\ next.upgrade_target
       /\ next.debug_attestation = prev.debug_attestation
       /\ next.synchronizers # {}

\* upgrade_window_is_valid
WindowIsValid(p) == p.valid_until - p.valid_from >= WINDOW_MIN

-----------------------------------------------------------------------------
(* Ingest: one link against the enclave row and the chain so far              *)

\* A ChainValidationError, whichever it is.
Refused == "error"

\* prior.iter().rev().find: the last of the links at the indices S, or NoLink
Latest(prior, S) ==
    IF S = {} THEN NoLink ELSE prior[CHOOSE i \in S : \A j \in S : j <= i]

LastBoot(prior) == Latest(prior, {i \in DOMAIN prior : prior[i].kind = "boot"})

\* signed_payload_seen
PayloadSeen(link, prior) ==
    \E i \in DOMAIN prior : prior[i].kind = link.kind /\ prior[i].payload = link.payload

\* validate_boot: what the row says of this boot, then the chain's last boot
ValidateBoot(link, enclave, image, prior) ==
    LET p == link.payload
        last == LastBoot(prior)
    IN  IF link.sig # NoSig \/ p.enclave # enclave \/ p.image # image THEN Refused
        ELSE IF last = NoLink THEN "append"
        ELSE IF last.payload.image = p.image THEN "dedup"
        ELSE IF Upgradable /\ CheckSuccessor(last.payload.anti_rollback, p.anti_rollback)
        THEN "append"
        ELSE Refused

\* The revocation arm of validate_signed, after the replay guard.
RevokesAPending(p, prior, now) ==
    /\ \E i \in DOMAIN prior :
          /\ prior[i].id = p.revokes
          /\ prior[i].kind = "upgrade"
          /\ prior[i].payload = p.revokes_link
          /\ prior[i].payload.valid_from > now
    /\ \A i \in DOMAIN prior :
          prior[i].kind = "revocation" => prior[i].payload.revokes # p.revokes

\* validate_signed
ValidateSigned(link, enclave, prior, now) ==
    LET p == link.payload
        shaped == IF link.kind = "upgrade"
                  THEN WindowIsValid(p) /\ p.from = link.doc.id
                  ELSE TRUE
        placed == link.kind = "revocation" => RevokesAPending(p, prior, now)
    IN  IF ~Upgradable \/ ~SignatureVerifies(link) \/ p.enclave # enclave \/ ~shaped
        THEN Refused
        ELSE IF PayloadSeen(link, prior) THEN "dedup"
        ELSE IF placed /\ prior # <<>> THEN "append"
        ELSE Refused

\* validate_chain_link
ValidateChainLink(link, enclave, image, prior, now) ==
    IF ~Attests(link, image) THEN Refused
    ELSE IF link.kind = "boot" THEN ValidateBoot(link, enclave, image, prior)
    ELSE ValidateSigned(link, enclave, prior, now)

-----------------------------------------------------------------------------
(* The walk over a stored chain                                               *)

\* promotion_target: the last unrevoked upgrade to the image that repeats no
\* earlier one, or NoLink.
PromotionTarget(prior, image) ==
    LET revoked == {prior[i].payload.revokes :
                       i \in {j \in DOMAIN prior : prior[j].kind = "revocation"}}
        explains == {i \in DOMAIN prior :
                       /\ prior[i].kind = "upgrade"
                       /\ prior[i].id \notin revoked
                       /\ ~PayloadSeen(prior[i], SubSeq(prior, 1, i - 1))
                       /\ prior[i].payload.to.image = image}
    IN  Latest(prior, explains)

\* The three refusals of a promotion boot that only the walker makes.
OutsideWindow(boot, upgrade) ==
    \/ boot.payload.booted_at < upgrade.payload.valid_from - SKEW
    \/ boot.payload.booted_at > upgrade.payload.valid_until + SKEW
WrongIdentity(boot, upgrade) ==
    boot.doc.over = boot.payload /\ boot.doc.id # upgrade.payload.to

\* Mutant: a promotion no upgrade link explains takes the boot's own word.
WalkLink_OwnWord(w, prior, link, enclave, row) ==
    LET image == IF link.kind = "boot" THEN link.payload.image ELSE w.force
        outcome == ValidateChainLink(link, enclave, image, prior, link.recorded_at)
        advances == link.kind = "boot" /\ outcome = "append"
    IN  [outcomes |-> Append(w.outcomes, outcome),
         force    |-> IF advances THEN image ELSE w.force,
         identity |-> IF advances THEN link.doc.id ELSE w.identity]

\* Mutant: every link is held against the image the row records now.
WalkLink_RowImage(w, prior, link, enclave, row) ==
    [outcomes |-> Append(w.outcomes, ValidateChainLink(link, enclave, row, prior, link.recorded_at)),
     force    |-> row,
     identity |-> IF link.kind = "boot" THEN link.doc.id ELSE w.identity]

\* One step of validate_chain: w is the walk so far, prior what it walked.
\* w.force is the image in force, w.identity what its boot attested.
WalkLink(w, prior, link, enclave, row) ==
    LET genesis == link.kind = "boot" /\ prior = <<>>
        current == IF w.force = NoTip THEN row ELSE w.force
        target  == IF link.kind = "boot" /\ ~genesis /\ w.force # NoTip
                      /\ link.payload.image # w.force
                   THEN PromotionTarget(prior, link.payload.image)
                   ELSE NoLink
        replayed == link.kind # "boot" /\ PayloadSeen(link, prior)
        refused == \/ replayed
                   \/ target # NoLink /\ (OutsideWindow(link, target) \/ WrongIdentity(link, target))
        image   == IF genesis THEN link.payload.image
                   ELSE IF target # NoLink THEN target.payload.to.image
                   ELSE current
        outcome == IF refused THEN Refused
                   ELSE ValidateChainLink(link, enclave, image, prior, link.recorded_at)
        advances == (genesis \/ target # NoLink) /\ outcome = "append"
    IN  [outcomes |-> Append(w.outcomes, outcome),
         force    |-> IF advances THEN image ELSE w.force,
         identity |-> IF advances THEN link.doc.id ELSE w.identity]

\* validate_chain
Walk(links, enclave, row) ==
    LET walk[i \in 0..Len(links)] ==
            IF i = 0
            THEN [outcomes |-> <<>>, force |-> NoTip, identity |-> NoIdentity]
            ELSE WalkLink(walk[i-1], SubSeq(links, 1, i - 1), links[i], enclave, row)
    IN  walk[Len(links)]

AllValid(w) == \A i \in DOMAIN w.outcomes : w.outcomes[i] # Refused

\* ChainSummary::is_verified: every link holds and the tip is what the row records
Verified(links, enclave, row) ==
    LET w == Walk(links, enclave, row) IN AllValid(w) /\ w.force = row /\ w.force # NoTip

\* verify_pcr_descent: the tip a client that pinned `pinned' may trust, or NoTip
VerifyPcrDescent(pinned, links, enclave, row) ==
    LET w == Walk(links, enclave, row)
    IN  IF /\ AllValid(w)
           /\ \E i \in DOMAIN links : links[i].kind = "boot" /\ links[i].payload.image = pinned
        THEN w.force
        ELSE NoTip

-----------------------------------------------------------------------------
(* What the owner's CLI checks before its key signs                           *)

\* running_anti_rollback and verified_running
RunningSetting(links, tip) ==
    Latest(links, {i \in DOMAIN links : links[i].kind = "boot" /\ links[i].payload.image = tip})
        .payload.anti_rollback

\* check_synchronizer_change
SynchronizersKept(running, next, accept) ==
    ~running.enabled \/ running.synchronizers = next.synchronizers \/ accept

\* Mutant: the image upgraded to is not compared with what the owner expects.
CheckUpgradePayload_AnyTarget(p, enclave, identity, target, asked, delay, now) ==
    /\ WindowIsValid(p)
    /\ p.valid_until - p.valid_from <= WINDOW_MAX
    /\ p.enclave = enclave
    /\ p.from = identity
    /\ p.valid_from >= (IF asked > now + delay THEN asked ELSE now + delay) - SKEW

\* check_upgrade_payload and checked_upgrade_window, for an owner who asked for
\* `asked' at the earliest and whose enclave requires `delay'
CheckUpgradePayload(p, enclave, identity, target, asked, delay, now) ==
    /\ WindowIsValid(p)
    /\ p.valid_until - p.valid_from <= WINDOW_MAX
    /\ p.enclave = enclave
    /\ p.from = identity
    /\ p.to = Identity(target, identity.user)
    /\ p.valid_from >= (IF asked > now + delay THEN asked ELSE now + delay) - SKEW

\* check_revocation_target
CheckRevocationTarget(p, enclave, staged, links, now) ==
    /\ p.enclave = enclave
    /\ p.revokes = staged
    /\ \E i \in DOMAIN links :
          /\ links[i].id = p.revokes
          /\ links[i].kind = "upgrade"
          /\ SignatureVerifies(links[i])
          /\ links[i].payload = p.revokes_link
          /\ links[i].payload.enclave = enclave
          /\ links[i].payload.valid_from > now
=============================================================================
