--------------------------- MODULE UpgradeControl ---------------------------
(* One enclave through its upgrades: the owner's CLI that signs (enclavia-cli *)
(* upgrade), the server's control handler (enclavia-server), the volume keys  *)
(* it re-keys (VolumeKeys), the public chain both write to (UpgradeChain), the *)
(* synchronizer's pin and the boot that has to pass it.                       *)
(*                                                                            *)
(* The backend, the host's chain daemon and the network are not in the        *)
(* repository: they are modelled by what the code allows for.  The backend    *)
(* may offer any payload for signature, deliver a signed command late, twice  *)
(* or never, and cut over to the next image at any time of its window; the    *)
(* chain daemon may lose a link or its acknowledgement.                       *)
EXTENDS VolumeKeys, UpgradeChain

CONSTANTS
    User,           \* the user PCRs of this enclave
    Delay,          \* min_upgrade_delay_secs, measured and on the row
    Tolerance,      \* TRANSITION_CLOCK_TOLERANCE_SECS, of the synchronizer
    Genesis,        \* the image the enclave is created with
    MaxClock,       \* bound: the last instant
    MaxSigned,      \* bound: commands the owner signs
    MaxBoots,       \* bound: boots attempted
    MaxNonce        \* bound: nonces drawn

ASSUME GenesisAssumption == Genesis \in Images /\ NoTip \notin Images
ASSUME DelayAssumption == Delay \in Nat /\ SKEW \in Nat /\ Tolerance \in Nat

VARIABLES
    clock,
    row,            \* the image the backend's enclave row records
    chain,          \* the links the backend has ingested
    pin,            \* the identity the synchronizer has pinned, or NoIdentity
    refused,        \* upgrade payloads the synchronizer holds as revoked
    movedBy,        \* the upgrade payload that last moved the pin, or NoLink
    phase,          \* how far the enclave's boot got
    boots,
    nonce,          \* the enclave's control nonce
    handler,        \* the control command the server is executing
    wire,           \* commands signed and sent
    ran,            \* commands the handler accepted, in order
    owner,          \* the CLI invocation
    revoked,        \* upgrade payloads whose revocation was reported done
    signedFor       \* every payload the owner's key signed, and for what

controlVars == <<clock, row, chain, pin, refused, movedBy, phase, boots, nonce, handler,
                 wire, ran, owner, revoked, signedFor>>
vars == <<volumeVars, controlVars>>

ThisEnclave == "enclave"
Me == Identity(up, User)
Idle == [step |-> "idle"]

-----------------------------------------------------------------------------
(* The chain daemon and the backend's ingest                                  *)

Ingest(link) ==
    IF ValidateChainLink(link, ThisEnclave, row, chain, clock) = "append"
    THEN Append(chain, Recorded(link, Len(chain), clock))
    ELSE chain
Accepts(link) == ValidateChainLink(link, ThisEnclave, row, chain, clock) # Refused

\* submit_chain_link: what the caller sees.  A link may be recorded and its
\* acknowledgement lost; a refused link is answered with another byte.
Submit(link, answer) ==
    \/ answer = "error" /\ chain' \in {chain, Ingest(link)}
    \/ answer = "ack" /\ Accepts(link) /\ chain' = Ingest(link)
    \/ answer = "other" /\ ~Accepts(link) /\ UNCHANGED chain

-----------------------------------------------------------------------------
(* The owner's CLI                                                            *)

\* May the running version be followed by the target at all?  A local rebuild tells its
\* setting: check_target_role, check_synchronizer_change.  With --expect-pcrs there is
\* only the trust list on the backend's record, which may be of any image.
TargetAccepted(target, pcrs, acceptChange) ==
    LET running == RunningSetting(chain, row)
    IN  \/ /\ pcrs = "reproduce"
           /\ CheckSuccessor(running, Setting(target))
           /\ SynchronizersKept(running, Setting(target), acceptChange)
        \/ /\ pcrs = "expected"
           /\ \E staged \in Images : SynchronizersKept(running, Setting(staged), acceptChange)

\* upgrade_expectation: what the payload must say, gathered before the backend
\* prepares one
UpgradeExpectation(target, asked, retried) ==
    [step |-> "confirm", retried |-> retried,
     identity |-> Walk(chain, ThisEnclave, row).identity,
     target |-> target, asked |-> asked, now |-> clock]

\* confirm_upgrade on a chain that verifies
ConfirmUpgrade(target, asked) ==
    /\ owner.step = "idle"
    /\ Cardinality(wire) < MaxSigned
    /\ Verified(chain, ThisEnclave, row)
    /\ \E pcrs \in {"expected", "reproduce"}, accept \in BOOLEAN : TargetAccepted(target, pcrs, accept)
    /\ owner' = UpgradeExpectation(target, asked, FALSE)
    /\ UNCHANGED <<volumeVars, clock, row, chain, pin, refused, movedBy, phase, boots, nonce,
                   handler, wire, ran, revoked, signedFor>>

\* The payloads a backend may prepare: for this image or another, at the earliest time
\* that was asked for and is allowed or one earlier, with a window of any length.
Offers ==
    {UpgradePayload(ThisEnclave, Identity(f, User), Identity(t, u), vf, vf + w, Cardinality(wire)) :
        f \in {row, owner.target}, t \in {owner.target, row}, u \in {User, User + 1},
        vf \in {owner.asked - 1, owner.asked, owner.now + Delay},
        w \in {WINDOW_MIN - 1, WINDOW_MAX, WINDOW_MAX + 1}}

\* confirm_self_hosted: check the prepared payload, sign it and the command
\* around it with the nonce the backend fetched, submit.
SignConfirm(p, n, k) ==
    /\ owner.step = "confirm"
    /\ CheckUpgradePayload(p, ThisEnclave, owner.identity, owner.target, owner.asked, Delay,
                           owner.now)
    /\ LET cmd == [kind |-> "upgrade", payload |-> p, nonce |-> n, key |-> k]
       IN  /\ wire' = wire \cup {cmd}
           /\ owner' = [step |-> "sent", retried |-> owner.retried, identity |-> owner.identity,
                        target |-> owner.target, asked |-> owner.asked, cmd |-> cmd]
           /\ signedFor' = signedFor \cup
                {[payload |-> p, target |-> owner.target, from |-> owner.identity,
                  asked |-> owner.asked, at |-> owner.now]}
    /\ UNCHANGED <<volumeVars, clock, row, chain, pin, refused, movedBy, phase, boots, nonce,
                   handler, ran, revoked>>

\* revoke_self_hosted for the staged upgrade whose link is chain[i]: prepare,
\* check_revocation_target, sign, submit.
SignRevoke(i, n) ==
    LET p == RevocationPayload(ThisEnclave, chain[i].id, chain[i].payload, Cardinality(wire))
        cmd == [kind |-> "revocation", payload |-> p, nonce |-> n, key |-> NoKey]
    IN  /\ owner.step = "idle" \/ owner.step = "revoke"
        /\ owner.step = "revoke" => owner.staged = chain[i].id
        /\ Cardinality(wire) < MaxSigned
        /\ CheckRevocationTarget(p, ThisEnclave, chain[i].id, chain, clock)
        /\ wire' = wire \cup {cmd}
        /\ owner' = [step |-> "sent", retried |-> owner.step = "revoke", cmd |-> cmd,
                     staged |-> chain[i].id]
        /\ UNCHANGED <<volumeVars, clock, row, chain, pin, refused, movedBy, phase, boots,
                       nonce, handler, ran, revoked, signedFor>>

\* The submit's answer reaches the CLI: a stale nonce is retried once, with a
\* fresh prepare and a fresh clock.
Answered(cmd, stale) ==
    owner' = IF owner.step # "sent" THEN owner
             ELSE IF owner.cmd # cmd THEN owner
             ELSE IF ~stale \/ owner.retried THEN Idle
             ELSE IF cmd.kind = "upgrade"
             THEN [step |-> "confirm", retried |-> TRUE, identity |-> owner.identity,
                   target |-> owner.target, asked |-> owner.asked, now |-> clock]
             ELSE [step |-> "revoke", retried |-> TRUE, staged |-> owner.staged]

\* A refused payload, a backend that never answers, an owner who walks away.
OwnerGivesUp ==
    /\ owner.step # "idle"
    /\ owner' = Idle
    /\ UNCHANGED <<volumeVars, clock, row, chain, pin, refused, movedBy, phase, boots, nonce,
                   handler, wire, ran, revoked, signedFor>>

-----------------------------------------------------------------------------
(* The server's control handler                                               *)

\* Mutant: the nonce is rotated only for a command that does not match.
HandleControl_KeepsNonce(cmd) ==
    /\ phase = "serving"
    /\ cmd \in wire
    /\ cmd.nonce = nonce
    /\ handler.step = "idle"
    /\ handler' = [step |-> "checks", cmd |-> cmd]
    /\ ran' = Append(ran, cmd)
    /\ UNCHANGED <<volumeVars, clock, row, chain, pin, refused, movedBy, phase, boots, nonce,
                   wire, owner, revoked, signedFor>>

\* handle_control: rotate the nonce whatever follows, then compare
HandleControl(cmd) ==
    /\ phase = "serving"
    /\ cmd \in wire
    /\ nonce < MaxNonce
    /\ nonce' = nonce + 1
    /\ \/ /\ cmd.nonce = nonce
          /\ handler.step = "idle"
          /\ handler' = [step |-> "checks", cmd |-> cmd]
          /\ ran' = Append(ran, cmd)
          /\ UNCHANGED owner
       \/ /\ cmd.nonce # nonce
          /\ Answered(cmd, TRUE)
          /\ UNCHANGED <<handler, ran>>
    /\ UNCHANGED <<volumeVars, clock, row, chain, pin, refused, movedBy, phase, boots, wire,
                   revoked, signedFor>>

HandlerAt(kind, step) ==
    /\ phase = "serving"
    /\ handler.step = step
    /\ handler.cmd.kind = kind
HandlerGoto(step) == handler' = [handler EXCEPT !.step = step]
Reply == handler' = Idle /\ Answered(handler.cmd, FALSE)

\* violates_min_upgrade_delay
ViolatesMinDelay(vf) == Delay # 0 /\ vf < clock + Delay - SKEW

\* run_prepare_upgrade before it touches storage
PrepareChecks(p) == WindowIsValid(p) /\ ~ViolatesMinDelay(p.valid_from) /\ p.from = Me

\* Mutant: the handler clears what an earlier prepare stashed and starts over.
RunPrepareUpgrade_Restarts ==
    /\ HandlerAt("upgrade", "checks")
    /\ \/ /\ PrepareStash(handler.cmd.key, handler.cmd.payload.to.image)
          /\ HandlerGoto("job")
          /\ UNCHANGED owner
       \/ /\ stash # NoStash
          /\ stash' = NoStash
          /\ UNCHANGED <<slots, blob, deleted, up, opened, job, issued, torn, handler, owner>>
    /\ UNCHANGED <<clock, row, chain, pin, refused, movedBy, phase, boots, nonce, wire, ran,
                   revoked, signedFor>>

\* run_prepare_upgrade: the checks, then enclavia-crypto prepare-upgrade starts.
\* A check, the NSM, KMS or the credentials may fail it before anything is staged.
RunPrepareUpgrade ==
    /\ HandlerAt("upgrade", "checks")
    /\ LET p == handler.cmd.payload
       IN  \/ /\ PrepareChecks(p)
              /\ PrepareStash(handler.cmd.key, p.to.image)
              /\ HandlerGoto("job")
              /\ UNCHANGED owner
           \/ Reply /\ UNCHANGED volumeVars
    /\ UNCHANGED <<clock, row, chain, pin, refused, movedBy, phase, boots, nonce, wire, ran,
                   revoked, signedFor>>

\* The running job's next step; when it ends the handler has its outcome.
JobEnds(ok) == IF ok THEN HandlerGoto("submit") /\ UNCHANGED owner ELSE Reply
PrepareJob ==
    /\ HandlerAt("upgrade", "job")
    /\ \/ /\ PrepareAdd \/ PrepareVerify
          /\ IF job'.step = "idle" THEN JobEnds(FALSE) ELSE UNCHANGED <<handler, owner>>
       \/ /\ PrepareSeal
          /\ \/ blob'.key = handler.cmd.key /\ JobEnds(TRUE)
             \/ JobEnds(FALSE)
    /\ UNCHANGED <<clock, row, chain, pin, refused, movedBy, phase, boots, nonce, wire, ran,
                   revoked, signedFor>>

\* Mutant: a synchronizer that does not answer is only warned about.
RunRevokeUpgrade_Warns ==
    /\ HandlerAt("revocation", "checks")
    /\ refused' \in {refused, refused \cup {handler.cmd.payload.revokes_link}}
    /\ HandlerGoto("rollback")
    /\ UNCHANGED <<volumeVars, clock, row, chain, pin, movedBy, phase, boots, nonce, wire, ran,
                   owner, revoked, signedFor>>

\* commit_revocation, retried within its budget: an attempt that failed may have
\* committed.
CommitRevocation(p, committed) ==
    refused' \in (IF committed THEN {} ELSE {refused}) \cup {refused \cup {p.revokes_link}}

\* run_revoke_upgrade: commit the revocation at the synchronizer first
RunRevokeUpgrade ==
    /\ HandlerAt("revocation", "checks")
    /\ \E committed \in BOOLEAN :
          /\ CommitRevocation(handler.cmd.payload, committed)
          /\ IF committed THEN HandlerGoto("rollback") /\ UNCHANGED owner ELSE Reply
    /\ UNCHANGED <<volumeVars, clock, row, chain, pin, movedBy, phase, boots, nonce, wire, ran,
                   revoked, signedFor>>

\* The storage rollback: enclavia-crypto revoke-upgrade
RevokeJob ==
    /\ \/ /\ HandlerAt("revocation", "rollback")
          /\ \/ RevokeUnseal /\ HandlerGoto("job") /\ UNCHANGED owner
             \/ Reply /\ UNCHANGED volumeVars
       \/ /\ HandlerAt("revocation", "job")
          /\ \/ /\ RevokeKill
                /\ IF job'.step = "idle" THEN JobEnds(FALSE) ELSE UNCHANGED <<handler, owner>>
             \/ /\ RevokeRestore
                /\ JobEnds(stash' = NoStash)
    /\ UNCHANGED <<clock, row, chain, pin, refused, movedBy, phase, boots, nonce, wire, ran,
                   revoked, signedFor>>

\* submit_chain_link_to_host, then the reply: an unexpected byte only warns
SubmitChainLink(answer) ==
    /\ phase = "serving"
    /\ handler.step = "submit"
    /\ LET cmd == handler.cmd
       IN  /\ Submit(EmittedLink(cmd.kind, cmd.payload, Me, DomainOf(cmd.kind)), answer)
           /\ revoked' = IF answer # "error" /\ cmd.kind = "revocation"
                         THEN revoked \cup {cmd.payload.revokes_link} ELSE revoked
    /\ Reply
    /\ UNCHANGED <<volumeVars, clock, row, pin, refused, movedBy, phase, boots, nonce, wire,
                   ran, signedFor>>

-----------------------------------------------------------------------------
(* Cutover, boot and crash                                                    *)

\* The backend promotes a pending upgrade in its window: stop, then the row.
Cutover(i) ==
    LET p == chain[i].payload
    IN  /\ chain[i].kind = "upgrade"
        /\ chain[i] = PromotionTarget(chain, p.to.image)
        /\ p.from.image = row
        /\ p.valid_from <= clock /\ clock <= p.valid_until
        /\ row' = p.to.image
        /\ phase' = "down"
        /\ handler' = Idle
        /\ Crash
        /\ UNCHANGED <<clock, chain, pin, refused, movedBy, boots, nonce, wire, ran, owner,
                       revoked, signedFor>>

CrashEnclave ==
    /\ phase # "down"
    /\ phase' = "down"
    /\ handler' = Idle
    /\ Crash
    /\ UNCHANGED <<clock, row, chain, pin, refused, movedBy, boots, nonce, wire, ran, owner,
                   revoked, signedFor>>

\* nbd-client passes the pin: it verifies as pinned, registers a volume nobody
\* pinned, or presents an upgrade link to the synchronizer within its window
\* or close to it.
BootPin ==
    /\ phase = "down"
    /\ boots < MaxBoots
    /\ boots' = boots + 1
    /\ phase' = "pinned"
    /\ LET id == Identity(row, User)
       IN  \/ pin = id /\ UNCHANGED <<pin, movedBy>>
           \/ pin = NoIdentity /\ pin' = id /\ UNCHANGED movedBy
           \/ /\ pin' = id
              /\ \E i \in DOMAIN chain :
                    LET p == chain[i].payload
                    IN  /\ chain[i].kind = "upgrade"
                        /\ p.from = pin /\ p.to = id
                        /\ p.valid_from - Tolerance <= clock /\ clock <= p.valid_until + Tolerance
                        /\ p \notin refused
                        /\ movedBy' = p
    /\ UNCHANGED <<volumeVars, clock, row, chain, refused, nonce, handler, wire, ran, owner,
                   revoked, signedFor>>

\* The volume opens (init.sh around enclavia-crypto init); a refused step, or KMS
\* not answering, fails the boot.
BootVolume ==
    /\ phase = "pinned"
    /\ \/ /\ InitUnseal(row)
          /\ phase' = IF job'.step = "idle" THEN "down" ELSE "pinned"
       \/ /\ At("idle")
          /\ phase' = "down"
          /\ UNCHANGED volumeVars
       \/ BootSteps /\ phase' = IF job'.step # "idle" THEN "pinned"
                                ELSE IF up' # NoImage THEN "open" ELSE "down"
    /\ UNCHANGED <<clock, row, chain, pin, refused, movedBy, boots, nonce, handler, wire, ran,
                   owner, revoked, signedFor>>

\* enclavia-chain-init: the boot link is acknowledged or the boot fails
BootLink(answer) ==
    /\ phase = "open"
    /\ Submit(EmittedLink("boot", BootPayload(ThisEnclave, Me, clock, boots), Me, NoSig), answer)
    /\ IF answer = "ack"
       THEN phase' = "serving" /\ nonce' = nonce + 1 /\ UNCHANGED volumeVars
       ELSE phase' = "down" /\ Crash /\ UNCHANGED nonce
    /\ UNCHANGED <<clock, row, pin, refused, movedBy, boots, handler, wire, ran, owner, revoked,
                   signedFor>>

Tick ==
    /\ clock < MaxClock
    /\ clock' = clock + 1
    /\ UNCHANGED <<volumeVars, row, chain, pin, refused, movedBy, phase, boots, nonce, handler,
                   wire, ran, owner, revoked, signedFor>>

-----------------------------------------------------------------------------

Init ==
    /\ VolumeInit
    /\ Gate[blob.key] = Genesis
    /\ clock = 0
    /\ row = Genesis
    /\ chain = <<>>
    /\ pin = NoIdentity
    /\ refused = {}
    /\ movedBy = NoLink
    /\ phase = "down"
    /\ boots = 0
    /\ nonce = 0
    /\ handler = Idle
    /\ wire = {}
    /\ ran = <<>>
    /\ owner = Idle
    /\ revoked = {}
    /\ signedFor = {}

Answers == {"ack", "other", "error"}

Next ==
    \/ Tick
    \/ \E t \in Images : ConfirmUpgrade(t, clock + Delay)
    \/ owner.step = "confirm" /\ Cardinality(wire) < MaxSigned
         /\ \E p \in Offers, k \in Keys : Gate[k] = p.to.image /\ SignConfirm(p, nonce, k)
    \/ \E i \in DOMAIN chain : chain[i].kind = "upgrade" /\ SignRevoke(i, nonce)
    \/ OwnerGivesUp
    \/ \E cmd \in wire : HandleControl(cmd)
    \/ RunPrepareUpgrade
    \/ PrepareJob
    \/ RunRevokeUpgrade
    \/ RevokeJob
    \/ \E a \in Answers : SubmitChainLink(a)
    \/ \E i \in DOMAIN chain : Cutover(i)
    \/ CrashEnclave
    \/ BootPin
    \/ BootVolume
    \/ \E a \in Answers : BootLink(a)

Spec == Init /\ [][Next]_vars

-----------------------------------------------------------------------------

\* Every link the backend's ingest recorded also passes the walk a client or the
\* owner's CLI makes over the stored chain, except a promotion boot recorded
\* outside its upgrade's window (an enclave that moved its pin in time and whose
\* boot link came late), which only the walk refuses.
LateBoot(i) ==
    LET prior == SubSeq(chain, 1, i - 1)
        target == PromotionTarget(prior, chain[i].payload.image)
    IN  chain[i].kind = "boot" /\ target # NoLink /\ OutsideWindow(chain[i], target)
IngestedChainWalks ==
    LET w == Walk(chain, ThisEnclave, row)
    IN  (\E i \in DOMAIN chain : w.outcomes[i] = Refused)
            => LateBoot(CHOOSE i \in DOMAIN chain :
                           /\ w.outcomes[i] = Refused
                           /\ \A j \in 1 .. i - 1 : w.outcomes[j] # Refused)

\* The owner's key signs an upgrade only to the image the owner expects, out of
\* the identity the chain attests, no earlier than asked and no earlier than the
\* enclave's minimum delay allows, whatever payload the backend prepared.
SignedAsIntended ==
    \A s \in signedFor :
        /\ s.payload.to = Identity(s.target, User)
        /\ s.payload.from = s.from
        /\ s.payload.valid_from >= s.asked - SKEW
        /\ s.payload.valid_from >= s.at + Delay - SKEW

\* A signed command takes effect at most once, however often it is delivered
\* and across reboots.
CommandRunsOnce ==
    \A i, j \in DOMAIN ran : ran[i] = ran[j] => i = j

\* Once a revocation is reported done the upgrade it names never moves the pin.
RevokedNeverMoves ==
    [][movedBy' # movedBy => movedBy' \notin revoked]_vars

\* A client that pinned an image and is served the chain with any one link left
\* out trusts its tip only when upgrades the owner signed, and that the client
\* was shown, lead to it from the chain's first boot.
Without(i) == SubSeq(chain, 1, i - 1) \o SubSeq(chain, i + 1, Len(chain))
ReachedIn(links) ==
    LET upgrades == {links[i].payload : i \in {j \in DOMAIN links : links[j].kind = "upgrade"}}
        signed == upgrades \cap {s.payload : s \in signedFor}
        closed(S) == \A p \in signed : p.from.image \in S => p.to.image \in S
    IN  {x \in Images : \A S \in SUBSET Images :
            links[1].payload.image \in S /\ closed(S) => x \in S}
DescentIsSigned ==
    \A i \in 0 .. Len(chain), pinned \in Images :
        LET links == IF i = 0 THEN chain ELSE Without(i)
            tip == VerifyPcrDescent(pinned, links, ThisEnclave, row)
        IN  tip # NoTip => tip \in ReachedIn(links)
=============================================================================
