------------------------ MODULE UpgradeControlProofs ------------------------
(***************************************************************************)
(* What an enclave's upgrades keep, for every set of images and keys,      *)
(* every delay and window and every number of commands, boots and links:   *)
(* the owner signs what they meant, a command runs once, a revoked upgrade *)
(* never moves the pin, the volume's keys are used as VolumeKeys allows,   *)
(* and a client that walks the chain trusts an image only by upgrades the  *)
(* owner signed.                                                           *)
(***************************************************************************)
EXTENDS UpgradeControl, VolumeKeysProofs

-----------------------------------------------------------------------------
(* Induction over the links of a chain, from the well-ordering of Nat *)

\* What holds of 0, and of n + 1 when it holds of n, holds up to N.
LEMMA UpTo ==
    ASSUME NEW N \in Nat, NEW S, 0 \in S, \A n \in 0 .. N - 1 : n \in S => n + 1 \in S
    PROVE  0 .. N \subseteq S
  <1> DEFINE T == (0 .. N) \ S
  <1> SUFFICES ASSUME T # {} PROVE FALSE
    BY Zenon
  <1>1. T \in SUBSET Nat
    BY SMTT(30), Z3T(30)
  <1>2. PICK x \in T : \A y \in T : x <= y
    BY <1>1, LeastNatural, ZenonT(30)
  <1>3. x # 0 /\ x - 1 \in 0 .. N - 1 /\ x - 1 \notin T /\ x \in 0 .. N /\ x \notin S
    BY <1>2, SMTT(30), Z3T(30)
  <1>4. x - 1 \in S /\ (x - 1) + 1 = x
    BY <1>3, SMTT(30), Z3T(30)
  <1> QED BY <1>3, <1>4, Zenon

-----------------------------------------------------------------------------
(* validate_chain, one link at a time *)

WalkStart == [outcomes |-> <<>>, force |-> NoTip, identity |-> NoIdentity]

\* w walks the first n links.
Walks(w, n, links, r) ==
    w = [i \in 0 .. n |->
            IF i = 0 THEN WalkStart
            ELSE WalkLink(w[i - 1], SubSeq(links, 1, i - 1), links[i], ThisEnclave, r)]

\* validate_chain reaches every link: its loop is defined up to the last one.
LEMMA WalkExists ==
    ASSUME NEW links, NEW r, NEW N \in Nat
    PROVE  \E w : Walks(w, N, links, r)
  <1> DEFINE S == {n \in Nat : \E w : Walks(w, n, links, r)}
  <1>1. 0 \in S
    <2> DEFINE w == [i \in 0 .. 0 |-> WalkStart]
    <2>1. \A i \in 0 .. 0 : i = 0
      BY SMTT(30), Z3T(30)
    <2>2. Walks(w, 0, links, r)
      BY <2>1, Zenon DEF Walks
    <2> QED BY <2>2, Zenon
  <1>2. ASSUME NEW n \in 0 .. N - 1, n \in S PROVE n + 1 \in S
    <2>1. PICK g : Walks(g, n, links, r)
      BY <1>2, Zenon
    <2> DEFINE next(x, i) == WalkLink(x, SubSeq(links, 1, i - 1), links[i], ThisEnclave, r)
    <2> DEFINE w == [i \in 0 .. n + 1 |-> IF i = n + 1 THEN next(g[n], i) ELSE g[i]]
    <2> DEFINE v == [i \in 0 .. n + 1 |-> IF i = 0 THEN WalkStart ELSE next(w[i - 1], i)]
    <2>2. g = [i \in 0 .. n |-> IF i = 0 THEN WalkStart ELSE next(g[i - 1], i)]
      BY <2>1, ZenonT(30) DEF Walks
    <2> HIDE DEF next
    <2>3. ASSUME NEW i \in 0 .. n + 1 PROVE w[i] = v[i]
      <3>1. CASE i = 0
        BY <2>2, <3>1, SMTT(30), Z3T(30)
      <3>2. CASE i # 0 /\ i # n + 1
        <4>1. i \in 0 .. n /\ i - 1 \in 0 .. n /\ i - 1 # n + 1 /\ i - 1 \in 0 .. n + 1
          BY <3>2, SMTT(30), Z3T(30)
        <4>2. w[i] = g[i] /\ w[i - 1] = g[i - 1]
          BY <4>1, <3>2, Zenon
        <4>3. g[i] = next(g[i - 1], i)
          BY <2>2, <3>2, <4>1, Zenon
        <4> QED BY <3>2, <4>2, <4>3, Zenon
      <3>3. CASE i = n + 1
        <4>1. i - 1 = n /\ n \in 0 .. n + 1 /\ n # n + 1 /\ i # 0
          BY <3>3, SMTT(30), Z3T(30)
        <4>2. w[n] = g[n] /\ w[i] = next(g[n], i)
          BY <3>3, <4>1, Zenon
        <4> QED BY <4>1, <4>2, Zenon
      <3> QED BY <3>1, <3>2, <3>3, Zenon
    <2>4. w = v
      BY <2>3, Zenon
    <2>5. Walks(w, n + 1, links, r)
      BY <2>4, ZenonT(30) DEF Walks, next
    <2> QED BY <2>5, SMTT(30), Z3T(30)
  <1>3. N \in 0 .. N
    BY SMTT(30), Z3T(30)
  <1> HIDE DEF S
  <1>4. N \in S
    BY <1>1, <1>2, <1>3, UpTo, Zenon
  <1> QED BY <1>4, Zenon DEF S

\* What validate_chain computes
LEMMA WalkIs ==
    ASSUME NEW links, NEW r, Len(links) \in Nat
    PROVE  \E w : Walks(w, Len(links), links, r) /\ Walk(links, ThisEnclave, r) = w[Len(links)]
  <1>1. \E w : Walks(w, Len(links), links, r)
    BY WalkExists, Zenon
  <1> DEFINE w == CHOOSE g : Walks(g, Len(links), links, r)
  <1>2. Walks(w, Len(links), links, r)
    BY <1>1, ZenonT(30)
  <1>3. Walk(links, ThisEnclave, r) = w[Len(links)]
    BY ZenonT(30) DEF Walk, Walks, WalkStart
  <1> QED BY <1>2, <1>3, ZenonT(30)

-----------------------------------------------------------------------------
(* The steps of the system, and what each leaves alone *)

Confirms == \E t \in Images : ConfirmUpgrade(t, clock + Delay)
Signs == /\ owner.step = "confirm" /\ Cardinality(wire) < MaxSigned
         /\ \E p \in Offers, k \in Keys : Gate[k] = p.to.image /\ SignConfirm(p, nonce, k)
Revokes == \E i \in DOMAIN chain : chain[i].kind = "upgrade" /\ SignRevoke(i, nonce)
Handles == \E cmd \in wire : HandleControl(cmd)
Submits == \E a \in Answers : SubmitChainLink(a)
Cuts == \E i \in DOMAIN chain : Cutover(i)
BootLinks == \E a \in Answers : BootLink(a)

\* The owner's CLI
OwnerStep == Confirms \/ Signs \/ Revokes \/ OwnerGivesUp
\* The control handler, apart from the nonce check and the link it submits
HandlerStep == RunPrepareUpgrade \/ PrepareJob \/ RunRevokeUpgrade \/ RevokeJob
\* The enclave goes down or comes up
LifeStep == Cuts \/ CrashEnclave \/ BootPin \/ BootVolume \/ BootLinks

\* Every step of the system is one of the owner's CLI, of the control handler, of the
\* enclave's life or of the clock.
LEMMA NextSteps == Next => Tick \/ OwnerStep \/ Handles \/ HandlerStep \/ Submits \/ LifeStep
  BY ZenonT(30) DEF Next, Confirms, Signs, Revokes, Handles, Submits, Cuts, BootLinks, OwnerStep,
               HandlerStep, LifeStep

\* The CLI works on the wire and its own state.
LEMMA OwnerFrame ==
    ASSUME OwnerStep
    PROVE  /\ UNCHANGED <<volumeVars, clock, row, chain, pin, refused, movedBy, phase, boots,
                          nonce, handler, ran, revoked>>
           /\ Confirms \/ OwnerGivesUp => UNCHANGED <<wire, signedFor>>
           /\ Revokes => UNCHANGED signedFor
  <1>1. CASE Confirms
    BY <1>1, ZenonT(30) DEF Confirms, ConfirmUpgrade, Revokes, SignRevoke
  <1>2. CASE Signs
    BY <1>2, ZenonT(30) DEF Signs, SignConfirm, Confirms, ConfirmUpgrade, OwnerGivesUp, Revokes, SignRevoke
  <1>3. CASE Revokes
    BY <1>3, ZenonT(30) DEF Revokes, SignRevoke, Confirms, ConfirmUpgrade, OwnerGivesUp
  <1>4. CASE OwnerGivesUp
    BY <1>4, ZenonT(30) DEF OwnerGivesUp, Revokes, SignRevoke
  <1> QED BY <1>1, <1>2, <1>3, <1>4, ZenonT(30) DEF OwnerStep

\* The handler works on the volume, the synchronizer's revocations and itself.
LEMMA HandlerFrame ==
    ASSUME HandlerStep
    PROVE  /\ UNCHANGED <<clock, row, chain, pin, movedBy, phase, boots, nonce, wire, ran,
                          revoked, signedFor>>
           /\ RunRevokeUpgrade \/ UNCHANGED refused
  <1>1. CASE RunPrepareUpgrade
    BY <1>1, ZenonT(30) DEF RunPrepareUpgrade
  <1>2. CASE PrepareJob
    BY <1>2, ZenonT(30) DEF PrepareJob
  <1>3. CASE RunRevokeUpgrade
    BY <1>3, ZenonT(30) DEF RunRevokeUpgrade
  <1>4. CASE RevokeJob
    BY <1>4, ZenonT(30) DEF RevokeJob
  <1> QED BY <1>1, <1>2, <1>3, <1>4, ZenonT(30) DEF HandlerStep

\* A cutover, a crash or a boot leaves the commands alone.
LEMMA LifeFrame ==
    ASSUME LifeStep
    PROVE  /\ UNCHANGED <<clock, refused, wire, ran, owner, revoked, signedFor>>
           /\ Cuts \/ UNCHANGED row
           /\ BootLinks \/ UNCHANGED <<chain, nonce>>
           /\ BootPin \/ UNCHANGED <<pin, movedBy>>
           /\ handler' \in {handler, Idle}
  <1>1. CASE Cuts
    BY <1>1, ZenonT(30) DEF Cuts, Cutover
  <1>2. CASE CrashEnclave
    BY <1>2, ZenonT(30) DEF CrashEnclave
  <1>3. CASE BootPin
    BY <1>3, ZenonT(30) DEF BootPin
  <1>4. CASE BootVolume
    BY <1>4, ZenonT(30) DEF BootVolume
  <1>5. CASE BootLinks
    BY <1>5, ZenonT(30) DEF BootLinks, BootLink
  <1> QED BY <1>1, <1>2, <1>3, <1>4, <1>5, ZenonT(30) DEF LifeStep

\* handle_control spends a nonce and takes a command up; it changes nothing else.
LEMMA HandleFrame ==
    ASSUME Handles
    PROVE  UNCHANGED <<volumeVars, clock, row, chain, pin, refused, movedBy, phase, boots, wire,
                       revoked, signedFor>>
  BY ZenonT(30) DEF Handles, HandleControl

\* submit_chain_link works on the chain, the handler and what was reported revoked.
LEMMA SubmitFrame ==
    ASSUME Submits
    PROVE  UNCHANGED <<volumeVars, clock, row, pin, refused, movedBy, phase, boots, nonce, wire,
                       ran, signedFor>>
  BY ZenonT(30) DEF Submits, SubmitChainLink

\* Time changes the clock alone.
LEMMA TickFrame ==
    ASSUME Tick
    PROVE  UNCHANGED <<volumeVars, row, chain, pin, refused, movedBy, phase, boots, nonce,
                       handler, wire, ran, owner, revoked, signedFor>>
  BY ZenonT(30) DEF Tick

-----------------------------------------------------------------------------
(* A command runs once *)

\* A command is signed for the nonce of its time; the ones that ran, ran in the
\* order of their nonces, all of them rotated out.
CommandsInv ==
    /\ nonce \in Nat
    /\ \A c \in wire : c.nonce \in Nat
    /\ ran \in Seq(wire)
    /\ \A i \in 1 .. Len(ran) : ran[i].nonce < nonce
    /\ \A i, j \in 1 .. Len(ran) : i < j => ran[i].nonce < ran[j].nonce

\* handle_control rotates before it compares, so what it accepts is new.
LEMMA CommandsStep ==
    ASSUME CommandsInv, Next
    PROVE  CommandsInv'
  <1>1. CASE UNCHANGED <<wire, ran, nonce>>
    BY <1>1, ZenonT(30) DEF CommandsInv
  <1>2. ASSUME NEW cmd, wire' = wire \cup {cmd}, cmd.nonce = nonce, UNCHANGED <<ran, nonce>>
        PROVE  CommandsInv'
    <2>1. ran \in Seq(wire')
      BY <1>2, SMTT(30), Z3T(30) DEF CommandsInv
    <2> QED BY <1>2, <2>1, Zenon DEF CommandsInv
  <1>3. CASE Signs
    <2>1. PICK p \in Offers, k \in Keys : SignConfirm(p, nonce, k)
      BY <1>3, ZenonT(30) DEF Signs
    <2> DEFINE cmd == [kind |-> "upgrade", payload |-> p, nonce |-> nonce, key |-> k]
    <2>2. wire' = wire \cup {cmd} /\ UNCHANGED <<ran, nonce>>
      BY <2>1, ZenonT(30) DEF SignConfirm
    <2>3. cmd.nonce = nonce
      BY Zenon
    <2> HIDE DEF cmd
    <2> QED BY <1>2, <2>2, <2>3, ZenonT(30)
  <1>4. CASE Revokes
    <2>1. PICK i \in DOMAIN chain : SignRevoke(i, nonce)
      BY <1>4, ZenonT(30) DEF Revokes
    <2> DEFINE p == RevocationPayload(ThisEnclave, chain[i].id, chain[i].payload, Cardinality(wire))
    <2> DEFINE cmd == [kind |-> "revocation", payload |-> p, nonce |-> nonce, key |-> NoKey]
    <2>2. wire' = wire \cup {cmd} /\ UNCHANGED <<ran, nonce>>
      BY <2>1, ZenonT(30) DEF SignRevoke
    <2>3. cmd.nonce = nonce
      BY Zenon
    <2> HIDE DEF cmd
    <2> QED BY <1>2, <2>2, <2>3, ZenonT(30)
  <1>5. ASSUME nonce' = nonce + 1, UNCHANGED <<wire, ran>> PROVE CommandsInv'
    BY <1>5, SMTT(30), Z3T(30) DEF CommandsInv
  <1>6. CASE Handles
    <2>1. PICK cmd \in wire : HandleControl(cmd)
      BY <1>6, ZenonT(30) DEF Handles
    <2>2. nonce' = nonce + 1 /\ wire' = wire
      BY <2>1, ZenonT(30) DEF HandleControl
    <2>3. ran' = ran \/ (cmd.nonce = nonce /\ ran' = Append(ran, cmd))
      BY <2>1, ZenonT(30) DEF HandleControl
    <2>4. CASE cmd.nonce = nonce /\ ran' = Append(ran, cmd)
      <3>1. nonce \in Nat /\ ran \in Seq(wire) /\ Len(ran) \in Nat
        BY SMTT(30), Z3T(30) DEF CommandsInv
      <3>2. /\ ran' \in Seq(wire) /\ Len(ran') = Len(ran) + 1 /\ ran'[Len(ran) + 1] = cmd
            /\ \A i \in 1 .. Len(ran) : ran'[i] = ran[i] /\ ran[i] \in wire
        BY <2>4, <3>1, SMTT(30), Z3T(30)
      <3>3. \A i \in 1 .. Len(ran') : ran'[i].nonce < nonce'
        <4> TAKE i \in 1 .. Len(ran')
        <4>1. CASE i = Len(ran) + 1
          BY <2>2, <2>4, <3>1, <3>2, <4>1, SMTT(30), Z3T(30)
        <4>2. CASE i \in 1 .. Len(ran)
          <5>1. ran'[i].nonce = ran[i].nonce /\ ran[i].nonce \in Nat /\ ran[i].nonce < nonce
            BY <3>2, <4>2, Zenon DEF CommandsInv
          <5> QED BY <2>2, <3>1, <5>1, SMTT(30), Z3T(30)
        <4> QED BY <3>1, <3>2, <4>1, <4>2, SMTT(30), Z3T(30)
      <3>4. \A i, j \in 1 .. Len(ran') : i < j => ran'[i].nonce < ran'[j].nonce
        <4> SUFFICES ASSUME NEW i \in 1 .. Len(ran'), NEW j \in 1 .. Len(ran'), i < j
                     PROVE  ran'[i].nonce < ran'[j].nonce
          BY Zenon
        <4>1. i \in 1 .. Len(ran)
          BY <3>1, <3>2, SMTT(30), Z3T(30)
        <4>2. CASE j = Len(ran) + 1
          <5>1. ran'[i].nonce < nonce
            BY <3>2, <4>1, Zenon DEF CommandsInv
          <5> QED BY <2>4, <3>2, <4>2, <5>1, Zenon
        <4>3. CASE j \in 1 .. Len(ran)
          BY <3>2, <4>1, <4>3, ZenonT(30) DEF CommandsInv
        <4> QED BY <3>1, <3>2, <4>2, <4>3, SMTT(30), Z3T(30)
      <3> QED BY <2>2, <3>1, <3>2, <3>3, <3>4, SMTT(30), Z3T(30) DEF CommandsInv
    <2> QED BY <1>5, <2>2, <2>3, <2>4, Zenon
  <1>7. CASE BootLinks
    <2>1. UNCHANGED <<wire, ran>> /\ nonce' \in {nonce, nonce + 1}
      BY <1>7, Zenon DEF BootLinks, BootLink
    <2> QED BY <1>1, <1>5, <2>1, Zenon
  <1>8. Signs \/ Revokes \/ Handles \/ BootLinks \/ UNCHANGED <<wire, ran, nonce>>
    BY NextSteps, OwnerFrame, HandlerFrame, LifeFrame, SubmitFrame, TickFrame, ZenonT(30) DEF OwnerStep
  <1> QED BY <1>1, <1>3, <1>4, <1>6, <1>7, <1>8, ZenonT(30)

\* A signed command takes effect at most once, however often it is delivered and
\* across reboots (handle_control rotates the nonce whatever follows).
THEOREM CommandsRunOnce == Spec => []CommandRunsOnce
  <1>1. Init => CommandsInv
    BY SMTT(30), Z3T(30) DEF Init, CommandsInv
  <1>2. CommandsInv /\ [Next]_vars => CommandsInv'
    <2>1. CommandsInv /\ UNCHANGED vars => CommandsInv'
      BY ZenonT(30) DEF CommandsInv, vars, controlVars
    <2> QED BY <2>1, CommandsStep, ZenonT(30)
  <1>3. CommandsInv => CommandRunsOnce
    <2> SUFFICES ASSUME CommandsInv, NEW i \in DOMAIN ran, NEW j \in DOMAIN ran, ran[i] = ran[j], i # j
                 PROVE  FALSE
      BY ZenonT(30) DEF CommandRunsOnce
    <2>1. i \in 1 .. Len(ran) /\ j \in 1 .. Len(ran) /\ ran[i] \in wire
      BY SMTT(30), Z3T(30) DEF CommandsInv
    <2>2. ran[i].nonce \in Nat /\ (i < j \/ j < i)
      BY <2>1, SMTT(30), Z3T(30) DEF CommandsInv
    <2>3. ran[i].nonce < ran[i].nonce
      BY <2>1, <2>2, ZenonT(30) DEF CommandsInv
    <2> QED BY <2>2, <2>3, SMTT(30), Z3T(30)
  <1> QED BY <1>1, <1>2, <1>3, PTL DEF Spec

-----------------------------------------------------------------------------
(* The command the handler executes *)

\* The handler is idle or at a step of a command that was signed.
HandlerInv ==
    handler.step # "idle" =>
        handler = [step |-> handler.step, cmd |-> handler.cmd] /\ handler.cmd \in wire

\* Where the handler goes from one step to the next
HandlerGoes(kind, from, to) ==
    /\ handler.step \in from /\ handler.cmd.kind = kind
    /\ \/ \E s \in to : handler' = [step |-> s, cmd |-> handler.cmd]
       \/ handler' \in {handler, Idle}

\* A handler that goes on to its next step keeps the command it executes.
LEMMA GotoStep ==
    ASSUME HandlerInv, NEW s, handler.step # "idle", HandlerGoto(s)
    PROVE  handler' = [step |-> s, cmd |-> handler.cmd]
  BY Zenon DEF HandlerInv, HandlerGoto

\* The steps of run_prepare_upgrade and run_revoke_upgrade, in their order
LEMMA HandlerSteps ==
    ASSUME HandlerInv, HandlerStep
    PROVE  \/ HandlerGoes("upgrade", {"checks", "job"}, {"job", "submit"}) /\ refused' = refused
           \/ HandlerGoes("revocation", {"rollback", "job"}, {"job", "submit"}) /\ refused' = refused
           \/ /\ HandlerGoes("revocation", {"checks"}, {"rollback"})
              /\ \/ handler' = Idle /\ refused' \in {refused, refused \cup {handler.cmd.payload.revokes_link}}
                 \/ refused' = refused \cup {handler.cmd.payload.revokes_link}
  <1>1. CASE RunPrepareUpgrade
    <2>1. handler.step = "checks" /\ handler.cmd.kind = "upgrade" /\ refused' = refused
          /\ (HandlerGoto("job") \/ handler' = Idle)
      BY <1>1, ZenonT(30) DEF RunPrepareUpgrade, HandlerAt, Reply
    <2> QED BY <2>1, GotoStep, Zenon DEF HandlerGoes
  <1>2. CASE PrepareJob
    <2>1. handler.step = "job" /\ handler.cmd.kind = "upgrade" /\ refused' = refused
          /\ (HandlerGoto("submit") \/ handler' = Idle \/ handler' = handler)
      BY <1>2, ZenonT(30) DEF PrepareJob, HandlerAt, Reply, JobEnds
    <2> QED BY <2>1, GotoStep, Zenon DEF HandlerGoes
  <1>3. CASE RunRevokeUpgrade
    <2>1. handler.step = "checks" /\ handler.cmd.kind = "revocation"
      BY <1>3, ZenonT(30) DEF RunRevokeUpgrade, HandlerAt
    <2>2. PICK committed \in BOOLEAN :
              /\ CommitRevocation(handler.cmd.payload, committed)
              /\ IF committed THEN HandlerGoto("rollback") /\ UNCHANGED owner ELSE Reply
      BY <1>3, ZenonT(30) DEF RunRevokeUpgrade
    <2>3. CASE committed
      <3>1. refused' = refused \cup {handler.cmd.payload.revokes_link} /\ HandlerGoto("rollback")
        BY <2>2, <2>3, Zenon DEF CommitRevocation
      <3> QED BY <2>1, <3>1, GotoStep, Zenon DEF HandlerGoes
    <2>4. CASE ~committed
      <3>1. /\ refused' \in {refused, refused \cup {handler.cmd.payload.revokes_link}}
            /\ handler' = Idle
        BY <2>2, <2>4, Zenon DEF CommitRevocation, Reply
      <3> QED BY <2>1, <3>1, Zenon DEF HandlerGoes
    <2> QED BY <2>3, <2>4, Zenon
  <1>4. CASE RevokeJob
    <2>1. handler.step \in {"rollback", "job"} /\ handler.cmd.kind = "revocation"
      BY <1>4, ZenonT(30) DEF RevokeJob, HandlerAt
    <2>2. refused' = refused
          /\ (HandlerGoto("job") \/ HandlerGoto("submit") \/ handler' = Idle \/ handler' = handler)
      BY <1>4, ZenonT(30) DEF RevokeJob, Reply, JobEnds
    <2> QED BY <2>1, <2>2, GotoStep, Zenon DEF HandlerGoes
  <1> QED BY <1>1, <1>2, <1>3, <1>4, ZenonT(30) DEF HandlerStep

\* The command comes off the wire, whose commands stay.
LEMMA HandlerInvStep ==
    ASSUME HandlerInv, Next
    PROVE  HandlerInv'
  <1>1. wire \subseteq wire'
    <2>1. CASE Signs
      BY <2>1, ZenonT(30) DEF Signs, SignConfirm
    <2>2. CASE Revokes
      BY <2>2, ZenonT(30) DEF Revokes, SignRevoke
    <2> QED BY <2>1, <2>2, NextSteps, OwnerFrame, HandlerFrame, LifeFrame, HandleFrame, SubmitFrame,
               TickFrame, ZenonT(30) DEF OwnerStep
  <1>2. ASSUME handler' \in {handler, Idle} PROVE HandlerInv'
    BY <1>1, <1>2, SMTT(30), Z3T(30) DEF HandlerInv, Idle
  <1>3. ASSUME NEW s, NEW c \in wire, handler' = [step |-> s, cmd |-> c] PROVE HandlerInv'
    BY <1>1, <1>3, Zenon DEF HandlerInv
  <1>4. CASE Handles
    <2>1. PICK cmd \in wire : handler' = handler \/ handler' = [step |-> "checks", cmd |-> cmd]
      BY <1>4, ZenonT(30) DEF Handles, HandleControl
    <2> QED BY <1>2, <1>3, <2>1, ZenonT(30)
  <1>5. CASE HandlerStep
    <2>1. /\ handler.step # "idle"
          /\ \/ \E s : handler' = [step |-> s, cmd |-> handler.cmd]
             \/ handler' \in {handler, Idle}
      BY <1>5, HandlerSteps, Zenon DEF HandlerGoes
    <2>2. handler.cmd \in wire
      BY <2>1, ZenonT(30) DEF HandlerInv
    <2> QED BY <1>2, <1>3, <2>1, <2>2, ZenonT(30)
  <1>6. CASE Submits
    BY <1>2, <1>6, ZenonT(30) DEF Submits, SubmitChainLink, Reply
  <1> QED BY <1>2, <1>4, <1>5, <1>6, NextSteps, OwnerFrame, LifeFrame, TickFrame, ZenonT(30)

-----------------------------------------------------------------------------
(* A revoked upgrade never moves the pin *)

\* The synchronizer holds what was reported revoked, and what is being rolled
\* back, from before the first change to the volume.
RevocationInv ==
    /\ revoked \subseteq refused
    /\ handler.step \in {"rollback", "job", "submit"} /\ handler.cmd.kind = "revocation" =>
          handler.cmd.payload.revokes_link \in refused

\* run_revoke_upgrade tells the synchronizer before it touches the volume, and every
\* step keeps that order.
LEMMA RevocationStep ==
    ASSUME HandlerInv, RevocationInv, Next
    PROVE  RevocationInv'
  <1>1. ASSUME handler' = Idle \/ handler' = handler, revoked' = revoked, refused \subseteq refused'
        PROVE  RevocationInv'
    BY <1>1, SMTT(30), Z3T(30) DEF RevocationInv, Idle
  <1>2. CASE Handles
    <2>1. UNCHANGED <<revoked, refused>>
      BY <1>2, HandleFrame, ZenonT(30)
    <2>2. PICK cmd \in wire : handler' = handler \/ handler' = [step |-> "checks", cmd |-> cmd]
      BY <1>2, ZenonT(30) DEF Handles, HandleControl
    <2> QED BY <1>1, <2>1, <2>2, SMTT(30), Z3T(30) DEF RevocationInv
  <1>3. CASE HandlerStep
    <2>1. revoked' = revoked
      BY <1>3, HandlerFrame, ZenonT(30)
    <2>2. CASE HandlerGoes("upgrade", {"checks", "job"}, {"job", "submit"}) /\ refused' = refused
      BY <1>1, <2>1, <2>2, SMTT(30), Z3T(30) DEF HandlerGoes, RevocationInv
    <2>3. CASE HandlerGoes("revocation", {"rollback", "job"}, {"job", "submit"}) /\ refused' = refused
      BY <1>1, <2>1, <2>3, SMTT(30), Z3T(30) DEF HandlerGoes, RevocationInv
    <2>4. CASE /\ HandlerGoes("revocation", {"checks"}, {"rollback"})
               /\ \/ handler' = Idle /\ refused' \in {refused, refused \cup {handler.cmd.payload.revokes_link}}
                  \/ refused' = refused \cup {handler.cmd.payload.revokes_link}
      BY <1>1, <2>1, <2>4, SMTT(30), Z3T(30) DEF HandlerGoes, RevocationInv
    <2> QED BY <1>3, <2>2, <2>3, <2>4, HandlerSteps, ZenonT(30)
  <1>4. CASE Submits
    <2>1. PICK a \in Answers : SubmitChainLink(a)
      BY <1>4, ZenonT(30) DEF Submits
    <2>2. /\ handler.step = "submit" /\ handler' = Idle /\ refused' = refused
          /\ \/ revoked' = revoked
             \/ /\ handler.cmd.kind = "revocation"
                /\ revoked' = revoked \cup {handler.cmd.payload.revokes_link}
      BY <2>1, ZenonT(30) DEF SubmitChainLink, Reply
    <2> QED BY <2>2, Zenon DEF RevocationInv, Idle
  <1>5. CASE Tick \/ OwnerStep \/ LifeStep
    <2>1. UNCHANGED <<revoked, refused>> /\ handler' \in {handler, Idle}
      BY <1>5, TickFrame, OwnerFrame, LifeFrame, ZenonT(30)
    <2> QED BY <1>1, <2>1, Zenon
  <1> QED BY <1>2, <1>3, <1>4, <1>5, NextSteps, ZenonT(30)

\* Once a revocation is reported done the upgrade it names never moves the pin:
\* run_revoke_upgrade commits it at the synchronizer before it rolls anything back.
THEOREM RevokedUpgradeNeverMoves == Spec => RevokedNeverMoves
  <1>1. Init => HandlerInv /\ RevocationInv
    BY SMTT(30), Z3T(30) DEF Init, HandlerInv, RevocationInv, Idle
  <1>2. HandlerInv /\ RevocationInv /\ [Next]_vars => HandlerInv' /\ RevocationInv'
    <2>1. HandlerInv /\ RevocationInv /\ UNCHANGED vars => HandlerInv' /\ RevocationInv'
      BY ZenonT(30) DEF HandlerInv, RevocationInv, vars, controlVars
    <2> QED BY <2>1, HandlerInvStep, RevocationStep, ZenonT(30)
  <1>3. RevocationInv /\ [Next]_vars => (movedBy' # movedBy => movedBy' \notin revoked)
    <2> SUFFICES ASSUME RevocationInv, Next, movedBy' # movedBy PROVE movedBy' \notin revoked
      BY ZenonT(30) DEF vars, controlVars
    <2>1. BootPin
      BY NextSteps, OwnerFrame, HandlerFrame, LifeFrame, HandleFrame, SubmitFrame, TickFrame, ZenonT(30)
    <2>2. movedBy' \notin refused
      BY <2>1, ZenonT(30) DEF BootPin
    <2> QED BY <2>2, Zenon DEF RevocationInv
  <1> QED BY <1>1, <1>2, <1>3, PTL DEF Spec, RevokedNeverMoves

-----------------------------------------------------------------------------
(* What was signed, what is on the wire and what is on the chain *)

Signed == {s.payload : s \in signedFor}

\* What the owner signed is what they meant, for an image of theirs.
SignedInv ==
    /\ SignedAsIntended
    /\ \A s \in signedFor : s.target \in Images /\ s.payload.valid_from \in Int

\* Every upgrade command on the wire carries a payload the owner signed.
WireInv ==
    \A c \in wire : /\ c.kind \in {"upgrade", "revocation"}
                    /\ c.kind = "upgrade" => c.key \in Keys /\ c.payload \in Signed

\* What the CLI holds the payload against came from a chain that verifies.
Expects(o) == /\ o.identity.user = User /\ o.target \in Images
              /\ o.asked \in Int /\ o.now \in Int
OwnerInv ==
    /\ owner.step = "confirm" => Expects(owner)
    /\ owner.step = "sent" /\ owner.cmd.kind = "upgrade" =>
          owner.identity.user = User /\ owner.target \in Images /\ owner.asked \in Int

\* A link on the chain was attested by an image of this enclave, and an upgrade
\* on it was signed.
LinkInv(l) ==
    /\ l.kind \in {"boot", "upgrade", "revocation"}
    /\ l.doc.id.user = User /\ l.doc.id.image \in Images
    /\ l.kind = "boot" => l.payload.image \in Images
    /\ l.kind = "upgrade" => l.payload \in Signed

ChainInv == /\ \E S : chain \in Seq(S)
            /\ \A i \in 1 .. Len(chain) : LinkInv(chain[i])

RowInv == clock \in Nat /\ row \in Images

ControlInv == HandlerInv /\ SignedInv /\ WireInv /\ OwnerInv /\ ChainInv /\ RowInv

\* The chain is a sequence that grows at its end.
LEMMA ChainSeq ==
    ASSUME \E S : chain \in Seq(S)
    PROVE  Len(chain) \in Nat /\ DOMAIN chain = 1 .. Len(chain)
  BY SMTT(30), Z3T(30)

\* Appending a link leaves the links before it where they were.
LEMMA ChainAppend ==
    ASSUME \E S : chain \in Seq(S), NEW x, chain' = Append(chain, x)
    PROVE  /\ \E S : chain' \in Seq(S)
           /\ Len(chain') = Len(chain) + 1 /\ chain'[Len(chain) + 1] = x
           /\ \A i \in 1 .. Len(chain) : chain'[i] = chain[i]
  <1>1. PICK S : chain \in Seq(S)
    BY Zenon
  <1>2. chain \in Seq(S \cup {x})
    BY <1>1, SMTT(30), Z3T(30)
  <1>3. chain' \in Seq(S \cup {x})
    BY <1>2, SMTT(30), Z3T(30)
  <1> QED BY <1>1, <1>3, SMTT(30), Z3T(30)

\* A link the running image emits: the signed command it executed, or its boot.
Emits(link) ==
    \/ /\ phase = "serving" /\ handler.step = "submit"
       /\ link = EmittedLink(handler.cmd.kind, handler.cmd.payload, Me, DomainOf(handler.cmd.kind))
    \/ /\ phase = "open"
       /\ link = EmittedLink("boot", BootPayload(ThisEnclave, Me, clock, boots), Me, NoSig)

Appends(link) ==
    /\ Emits(link)
    /\ ValidateChainLink(link, ThisEnclave, row, chain, clock) = "append"
    /\ chain' = Append(chain, Recorded(link, Len(chain), clock))

\* The chain changes by one link that the running image emitted and ingest accepted.
LEMMA ChainMoves ==
    ASSUME Next
    PROVE  \/ chain' = chain
           \/ (Submits \/ BootLinks) /\ UNCHANGED <<row, clock, signedFor>> /\ \E link : Appends(link)
  <1>1. ASSUME NEW link, NEW a, Emits(link), Submit(link, a)
        PROVE  chain' = chain \/ Appends(link)
    BY <1>1, ZenonT(30) DEF Submit, Ingest, Appends
  <1>2. CASE Submits
    <2>1. PICK a \in Answers : SubmitChainLink(a)
      BY <1>2, ZenonT(30) DEF Submits
    <2> DEFINE link == EmittedLink(handler.cmd.kind, handler.cmd.payload, Me, DomainOf(handler.cmd.kind))
    <2>2. phase = "serving" /\ handler.step = "submit" /\ Submit(link, a)
      BY <2>1, ZenonT(30) DEF SubmitChainLink
    <2>3. Emits(link)
      BY <2>2, ZenonT(30) DEF Emits
    <2> QED BY <1>1, <1>2, <2>2, <2>3, SubmitFrame, ZenonT(30)
  <1>3. CASE BootLinks
    <2>1. PICK a \in Answers : BootLink(a)
      BY <1>3, ZenonT(30) DEF BootLinks
    <2> DEFINE link == EmittedLink("boot", BootPayload(ThisEnclave, Me, clock, boots), Me, NoSig)
    <2>2. phase = "open" /\ Submit(link, a) /\ UNCHANGED <<row, clock, signedFor>>
      BY <2>1, ZenonT(30) DEF BootLink
    <2>3. Emits(link)
      BY <2>2, ZenonT(30) DEF Emits
    <2> QED BY <1>1, <1>3, <2>2, <2>3, ZenonT(30)
  <1>4. Submits \/ BootLinks \/ chain' = chain
    BY NextSteps, OwnerFrame, HandlerFrame, LifeFrame, HandleFrame, TickFrame, ZenonT(30)
  <1> QED BY <1>2, <1>3, <1>4, Zenon

\* A payload the owner's key signed stays signed.
LEMMA SignedGrows ==
    ASSUME Next
    PROVE  Signed \subseteq Signed'
  <1>1. signedFor \subseteq signedFor'
    <2>1. CASE Signs
      BY <2>1, ZenonT(30) DEF Signs, SignConfirm
    <2> QED BY <2>1, NextSteps, OwnerFrame, HandlerFrame, LifeFrame, HandleFrame, SubmitFrame,
               TickFrame, ZenonT(30) DEF OwnerStep
  <1> QED BY <1>1, ZenonT(30) DEF Signed

\* What ingest appended is a link of this enclave.
LEMMA ChainInvStep ==
    ASSUME ControlInv, Next
    PROVE  ChainInv'
  <1>1. Signed \subseteq Signed' /\ ChainInv
    BY SignedGrows, Zenon DEF ControlInv
  <1>2. \A l : LinkInv(l) => LinkInv(l)'
    BY <1>1, ZenonT(30) DEF LinkInv
  <1>3. CASE chain' = chain
    BY <1>1, <1>2, <1>3, ZenonT(30) DEF ChainInv
  <1>4. ASSUME NEW link, Appends(link) PROVE ChainInv'
    <2> DEFINE x == Recorded(link, Len(chain), clock)
    <2>1. /\ x.kind = link.kind /\ x.payload = link.payload /\ x.doc = link.doc
          /\ chain' = Append(chain, x)
      BY <1>4, Zenon DEF Appends, Recorded
    <2>2. link.doc.id = Me /\ link.kind \in {"boot", "upgrade", "revocation"}
          /\ (link.kind = "boot" => link.payload.image = up \/ phase = "serving")
          /\ (link.kind = "upgrade" => link.payload \in Signed)
          /\ (phase = "serving" => link.kind # "boot")
      <3>1. CASE phase = "serving"
        <4>1. link = EmittedLink(handler.cmd.kind, handler.cmd.payload, Me, DomainOf(handler.cmd.kind))
              /\ handler.step = "submit"
          BY <1>4, <3>1, Zenon DEF Appends, Emits
        <4>2. handler.cmd \in wire
          BY <4>1, Zenon DEF ControlInv, HandlerInv
        <4>3. /\ link.kind = handler.cmd.kind /\ link.payload = handler.cmd.payload /\ link.doc.id = Me
          BY <4>1, Zenon DEF EmittedLink
        <4> QED BY <4>2, <4>3, Zenon DEF ControlInv, WireInv
      <3>2. CASE phase # "serving"
        <4>1. link = EmittedLink("boot", BootPayload(ThisEnclave, Me, clock, boots), Me, NoSig)
          BY <1>4, <3>2, Zenon DEF Appends, Emits
        <4>2. link.kind = "boot" /\ link.doc.id = Me /\ link.payload.image = Me.image
          BY <4>1, Zenon DEF EmittedLink, BootPayload
        <4> QED BY <3>2, <4>2, Zenon DEF Me, Identity
      <3> QED BY <3>1, <3>2, Zenon
    <2>3. Me.image = row /\ Me.user = User /\ Me.image = up
      <3>1. Attests(link, row)
        BY <1>4, Zenon DEF Appends, ValidateChainLink, Refused
      <3> QED BY <2>2, <3>1, Zenon DEF Attests, Me, Identity
    <2>4. LinkInv(x)
      BY <2>1, <2>2, <2>3, Zenon DEF LinkInv, ControlInv, RowInv
    <2> HIDE DEF x
    <2>5. /\ \E S : chain' \in Seq(S)
          /\ Len(chain) \in Nat /\ Len(chain') = Len(chain) + 1 /\ chain'[Len(chain) + 1] = x
          /\ \A i \in 1 .. Len(chain) : chain'[i] = chain[i]
      BY <1>1, <2>1, ChainAppend, ChainSeq, Zenon DEF ChainInv
    <2>6. ASSUME NEW i \in 1 .. Len(chain') PROVE LinkInv(chain'[i])
      <3>1. CASE i = Len(chain) + 1
        BY <2>4, <2>5, <3>1, Zenon
      <3>2. CASE i \in 1 .. Len(chain)
        BY <1>1, <2>5, <3>2, ZenonT(30) DEF ChainInv
      <3> QED BY <2>5, <3>1, <3>2, SMTT(30), Z3T(30)
    <2> QED BY <1>2, <2>5, <2>6, Zenon DEF ChainInv
  <1> QED BY <1>3, <1>4, ChainMoves, ZenonT(30)

\* w runs over the links one after the other.
Runs(w, links, r) ==
    /\ w[0] = WalkStart
    /\ \A n \in 0 .. Len(links) - 1 :
          w[n + 1] = WalkLink(w[n], SubSeq(links, 1, n), links[n + 1], ThisEnclave, r)

\* validate_chain answers what the last of its steps leaves.
LEMMA WalkRuns ==
    ASSUME NEW links, NEW r, Len(links) \in Nat
    PROVE  \E w : Runs(w, links, r) /\ Walk(links, ThisEnclave, r) = w[Len(links)]
  <1>1. PICK w : Walks(w, Len(links), links, r) /\ Walk(links, ThisEnclave, r) = w[Len(links)]
    BY WalkIs, Zenon
  <1> DEFINE next(x, i) == WalkLink(x, SubSeq(links, 1, i - 1), links[i], ThisEnclave, r)
  <1>2. w = [i \in 0 .. Len(links) |-> IF i = 0 THEN WalkStart ELSE next(w[i - 1], i)]
    BY <1>1, ZenonT(30) DEF Walks
  <1> HIDE DEF next
  <1>3. w[0] = WalkStart
    BY <1>2, SMTT(30), Z3T(30)
  <1>4. ASSUME NEW n \in 0 .. Len(links) - 1
        PROVE  w[n + 1] = WalkLink(w[n], SubSeq(links, 1, n), links[n + 1], ThisEnclave, r)
    <2>1. n + 1 \in 0 .. Len(links) /\ n + 1 # 0 /\ (n + 1) - 1 = n
      BY SMTT(30), Z3T(30)
    <2>2. w[n + 1] = next(w[n], n + 1)
      BY <1>2, <2>1, Zenon
    <2> QED BY <2>1, <2>2, ZenonT(30) DEF next
  <1>5. Runs(w, links, r)
    BY <1>3, <1>4, ZenonT(30) DEF Runs
  <1> QED BY <1>1, <1>5, Zenon

\* The walk takes its identity from the boot links that move its tip.
LEMMA WalkAdvances ==
    ASSUME NEW w, NEW prior, NEW link, NEW r
    PROVE  \/ /\ WalkLink(w, prior, link, ThisEnclave, r).force = w.force
              /\ WalkLink(w, prior, link, ThisEnclave, r).identity = w.identity
           \/ WalkLink(w, prior, link, ThisEnclave, r).identity = link.doc.id
  BY ZenonT(30) DEF WalkLink

\* The identity of a verified tip is one of this enclave's (ChainSummary).
LEMMA IdentityIsOurs ==
    ASSUME ChainInv, NEW r, Walk(chain, ThisEnclave, r).force # NoTip
    PROVE  Walk(chain, ThisEnclave, r).identity.user = User
  <1>1. Len(chain) \in Nat
    BY ChainSeq, Zenon DEF ChainInv
  <1>2. PICK w : Runs(w, chain, r) /\ Walk(chain, ThisEnclave, r) = w[Len(chain)]
    BY <1>1, WalkRuns, Zenon
  <1> DEFINE S == {i \in 0 .. Len(chain) : w[i].force = NoTip \/ w[i].identity.user = User}
  <1>3. 0 \in S
    <2>1. w[0].force = NoTip
      BY <1>2, SMTT(30), Z3T(30) DEF WalkStart, Runs
    <2> QED BY <1>1, <2>1, SMTT(30), Z3T(30)
  <1>4. ASSUME NEW n \in 0 .. Len(chain) - 1, n \in S PROVE n + 1 \in S
    <2>1. n + 1 \in 1 .. Len(chain) /\ n + 1 \in 0 .. Len(chain)
      BY <1>1, SMTT(30), Z3T(30)
    <2>2. w[n + 1] = WalkLink(w[n], SubSeq(chain, 1, n), chain[n + 1], ThisEnclave, r)
      BY <1>2, ZenonT(30) DEF Runs
    <2>3. \/ w[n + 1].force = w[n].force /\ w[n + 1].identity = w[n].identity
          \/ w[n + 1].identity = chain[n + 1].doc.id
      BY <2>2, WalkAdvances, SMTT(30), Z3T(30)
    <2>4. chain[n + 1].doc.id.user = User
      BY <2>1, ZenonT(30) DEF ChainInv, LinkInv
    <2> QED BY <1>4, <2>1, <2>3, <2>4, ZenonT(30)
  <1> HIDE DEF S
  <1>5. 0 .. Len(chain) \subseteq S
    BY <1>1, <1>3, <1>4, UpTo, ZenonT(30)
  <1>6. Len(chain) \in S
    BY <1>1, <1>5, SMTT(30), Z3T(30)
  <1> QED BY <1>2, <1>6, Zenon DEF S

\* What the CLI expects is gathered from a verified chain, kept through the one
\* retry, and dropped with the invocation.
LEMMA OwnerInvStep ==
    ASSUME ControlInv, Next
    PROVE  OwnerInv'
  <1>1. CASE owner' = owner
    BY <1>1, ZenonT(30) DEF ControlInv, OwnerInv, Expects
  <1>2. CASE owner' = Idle
    BY <1>2, Zenon DEF OwnerInv, Idle
  <1>3. CASE Confirms
    <2>1. PICK t \in Images : ConfirmUpgrade(t, clock + Delay)
      BY <1>3, ZenonT(30) DEF Confirms
    <2>2. owner' = UpgradeExpectation(t, clock + Delay, FALSE) /\ Verified(chain, ThisEnclave, row)
      BY <2>1, ZenonT(30) DEF ConfirmUpgrade
    <2>3. Walk(chain, ThisEnclave, row).identity.user = User
      BY <2>2, IdentityIsOurs, Zenon DEF Verified, ControlInv
    <2>4. clock + Delay \in Int /\ clock \in Int
      BY DelayAssumption, SMTT(30), Z3T(30) DEF ControlInv, RowInv
    <2> QED BY <2>2, <2>3, <2>4, Zenon DEF UpgradeExpectation, OwnerInv, Expects
  <1>4. CASE Signs
    <2>1. PICK p \in Offers, k \in Keys : SignConfirm(p, nonce, k)
      BY <1>4, ZenonT(30) DEF Signs
    <2>2. /\ owner'.step = "sent" /\ owner'.identity = owner.identity
          /\ owner'.target = owner.target /\ owner'.asked = owner.asked /\ owner.step = "confirm"
      BY <2>1, Zenon DEF SignConfirm
    <2> QED BY <2>2, Zenon DEF ControlInv, OwnerInv, Expects
  <1>5. CASE Revokes
    <2>1. PICK i \in DOMAIN chain : SignRevoke(i, nonce)
      BY <1>5, ZenonT(30) DEF Revokes
    <2>2. owner'.step = "sent" /\ owner'.cmd.kind = "revocation"
      BY <2>1, ZenonT(30) DEF SignRevoke
    <2> QED BY <2>2, Zenon DEF OwnerInv
  <1>6. ASSUME NEW cmd, NEW stale, Answered(cmd, stale), clock' = clock PROVE OwnerInv'
    <2>1. \/ owner' = owner
          \/ owner' = Idle
          \/ owner'.step = "revoke"
          \/ /\ owner.step = "sent" /\ owner.cmd.kind = "upgrade"
             /\ owner'.step = "confirm" /\ owner'.identity = owner.identity
             /\ owner'.target = owner.target /\ owner'.asked = owner.asked /\ owner'.now = clock
      BY <1>6, Zenon DEF Answered
    <2>2. clock \in Int
      BY SMTT(30), Z3T(30) DEF ControlInv, RowInv
    <2> QED BY <1>1, <1>2, <2>1, <2>2, Zenon DEF ControlInv, OwnerInv, Expects
  <1>7. CASE Handles
    BY <1>1, <1>6, <1>7, ZenonT(30) DEF Handles, HandleControl
  <1>8. CASE HandlerStep
    <2>1. clock' = clock /\ (owner' = owner \/ Reply)
      BY <1>8, HandlerFrame, ZenonT(30) DEF HandlerStep, RunPrepareUpgrade, PrepareJob, RunRevokeUpgrade,
         RevokeJob, JobEnds
    <2> QED BY <1>1, <1>6, <2>1, ZenonT(30) DEF Reply
  <1>9. CASE Submits
    BY <1>6, <1>9, ZenonT(30) DEF Submits, SubmitChainLink, Reply
  <1> QED BY <1>1, <1>2, <1>3, <1>4, <1>5, <1>7, <1>8, <1>9, NextSteps, LifeFrame, TickFrame,
             ZenonT(30) DEF OwnerStep, OwnerGivesUp

\* What the owner's key signs was compared with what the owner expects.
LEMMA SignedInvStep ==
    ASSUME ControlInv, Next
    PROVE  SignedInv' /\ WireInv'
  <1>1. Signed \subseteq Signed'
    BY SignedGrows, Zenon
  <1>2. CASE UNCHANGED <<wire, signedFor>>
    BY <1>2, ZenonT(30) DEF ControlInv, SignedInv, WireInv, SignedAsIntended, Signed
  <1>3. CASE Signs
    <2>1. PICK p \in Offers, k \in Keys : SignConfirm(p, nonce, k)
      BY <1>3, ZenonT(30) DEF Signs
    <2> DEFINE cmd == [kind |-> "upgrade", payload |-> p, nonce |-> nonce, key |-> k]
    <2> DEFINE new == [payload |-> p, target |-> owner.target, from |-> owner.identity,
                       asked |-> owner.asked, at |-> owner.now]
    <2>2. /\ owner.step = "confirm" /\ wire' = wire \cup {cmd} /\ signedFor' = signedFor \cup {new}
          /\ CheckUpgradePayload(p, ThisEnclave, owner.identity, owner.target, owner.asked, Delay,
                                 owner.now)
      BY <2>1, ZenonT(30) DEF SignConfirm
    <2>3. Expects(owner) /\ clock \in Nat
      BY <2>2, Zenon DEF ControlInv, OwnerInv, RowInv
    <2>4. p.valid_from \in Int
      <3>1. PICK f \in {row, owner.target}, t \in {owner.target, row}, u \in {User, User + 1},
                 vf \in {owner.asked - 1, owner.asked, owner.now + Delay},
                 d \in {WINDOW_MIN - 1, WINDOW_MAX, WINDOW_MAX + 1} :
                 p = UpgradePayload(ThisEnclave, Identity(f, User), Identity(t, u), vf, vf + d,
                                    Cardinality(wire))
        BY SMTT(30), Z3T(30) DEF Offers
      <3>2. vf \in Int /\ p.valid_from = vf
        BY <2>3, <3>1, DelayAssumption, SMTT(30), Z3T(30) DEF Expects, UpgradePayload
      <3> QED BY <3>2, Zenon
    <2>5. /\ p.to = Identity(owner.target, User) /\ p.from = owner.identity
          /\ p.valid_from >= owner.asked - SKEW /\ p.valid_from >= owner.now + Delay - SKEW
      <3>1. /\ p.to = Identity(owner.target, owner.identity.user) /\ p.from = owner.identity
            /\ p.valid_from >= (IF owner.asked > owner.now + Delay THEN owner.asked
                                ELSE owner.now + Delay) - SKEW
        BY <2>2, ZenonT(30) DEF CheckUpgradePayload
      <3>2. owner.asked \in Int /\ owner.now \in Int /\ owner.identity.user = User
        BY <2>3, Zenon DEF Expects
      <3> QED BY <2>4, <3>1, <3>2, DelayAssumption, SMTT(30), Z3T(30)
    <2>6. /\ new.payload = p /\ new.target = owner.target /\ new.from = owner.identity
          /\ new.asked = owner.asked /\ new.at = owner.now
          /\ cmd.kind = "upgrade" /\ cmd.key = k /\ cmd.payload = p
      BY Zenon
    <2> HIDE DEF new, cmd
    <2>7. p \in Signed'
      BY <2>2, <2>6, Zenon DEF Signed
    <2>8. WireInv'
      BY <1>1, <2>2, <2>6, <2>7, Zenon DEF ControlInv, WireInv
    <2>9. owner.target \in Images
      BY <2>3, Zenon DEF Expects
    <2>10. SignedInv'
      BY <2>2, <2>4, <2>5, <2>6, <2>9, ZenonT(30) DEF ControlInv, SignedInv, SignedAsIntended
    <2> QED BY <2>8, <2>10, Zenon
  <1>4. CASE Revokes
    <2>1. PICK i \in DOMAIN chain : SignRevoke(i, nonce)
      BY <1>4, ZenonT(30) DEF Revokes
    <2> DEFINE p == RevocationPayload(ThisEnclave, chain[i].id, chain[i].payload, Cardinality(wire))
    <2> DEFINE cmd == [kind |-> "revocation", payload |-> p, nonce |-> nonce, key |-> NoKey]
    <2>2. wire' = wire \cup {cmd} /\ signedFor' = signedFor
      BY <2>1, ZenonT(30) DEF SignRevoke
    <2>3. cmd.kind = "revocation"
      BY Zenon
    <2> HIDE DEF cmd
    <2>4. WireInv'
      BY <1>1, <2>2, <2>3, Zenon DEF ControlInv, WireInv
    <2>5. SignedInv'
      BY <2>2, ZenonT(30) DEF ControlInv, SignedInv, SignedAsIntended
    <2> QED BY <2>4, <2>5, Zenon
  <1> QED BY <1>2, <1>3, <1>4, NextSteps, OwnerFrame, HandlerFrame, LifeFrame, HandleFrame,
             SubmitFrame, TickFrame, ZenonT(30) DEF OwnerStep

\* A cutover goes to an image the owner signed for.
LEMMA RowInvStep ==
    ASSUME ControlInv, Next
    PROVE  RowInv'
  <1>1. clock' \in Nat
    <2>1. clock' = clock \/ clock' = clock + 1
      BY NextSteps, OwnerFrame, HandlerFrame, LifeFrame, HandleFrame, SubmitFrame,
         ZenonT(30) DEF Tick
    <2> QED BY <2>1, SMTT(30), Z3T(30) DEF ControlInv, RowInv
  <1>2. CASE Cuts
    <2>1. PICK i \in DOMAIN chain : chain[i].kind = "upgrade" /\ row' = chain[i].payload.to.image
      BY <1>2, ZenonT(30) DEF Cuts, Cutover
    <2>2. i \in 1 .. Len(chain)
      BY ChainSeq, Zenon DEF ControlInv, ChainInv
    <2>3. PICK s \in signedFor : chain[i].payload = s.payload
      BY <2>1, <2>2, Zenon DEF ControlInv, ChainInv, LinkInv, Signed
    <2>4. s.payload.to = Identity(s.target, User) /\ s.target \in Images
      BY ZenonT(30) DEF ControlInv, SignedInv, SignedAsIntended
    <2>5. row' \in Images
      BY <2>1, <2>3, <2>4, SMTT(30), Z3T(30) DEF Identity
    <2> QED BY <1>1, <2>5, Zenon DEF RowInv
  <1>3. Cuts \/ row' = row
    BY NextSteps, OwnerFrame, HandlerFrame, LifeFrame, HandleFrame, SubmitFrame, TickFrame, ZenonT(30)
  <1> QED BY <1>1, <1>2, <1>3, Zenon DEF ControlInv, RowInv

\* The invariant of the control path
THEOREM ControlInvariant == Spec => []ControlInv
  <1>1. Init => ControlInv
    <2> SUFFICES ASSUME Init PROVE ControlInv
      BY Zenon
    <2>1. HandlerInv /\ OwnerInv /\ RowInv
      BY GenesisAssumption, Zenon DEF Init, HandlerInv, OwnerInv, RowInv, Idle
    <2>2. SignedInv /\ WireInv
      BY Zenon DEF Init, SignedInv, SignedAsIntended, WireInv
    <2>3. ChainInv
      <3>1. chain = <<>> /\ <<>> \in Seq({})
        BY SMTT(30), Z3T(30) DEF Init
      <3> QED BY <3>1, SMTT(30), Z3T(30) DEF ChainInv
    <2> QED BY <2>1, <2>2, <2>3, Zenon DEF ControlInv
  <1>2. ControlInv /\ [Next]_vars => ControlInv'
    <2>1. ControlInv /\ UNCHANGED vars => ControlInv'
      BY ZenonT(30) DEF ControlInv, HandlerInv, SignedInv, SignedAsIntended, WireInv, OwnerInv, Expects,
         ChainInv, LinkInv, RowInv, Signed, vars, controlVars
    <2>2. ControlInv /\ Next => ControlInv'
      <3> SUFFICES ASSUME ControlInv, Next PROVE ControlInv'
        BY Zenon
      <3>1. HandlerInv'
        BY HandlerInvStep, Zenon DEF ControlInv
      <3> QED BY <3>1, SignedInvStep, OwnerInvStep, ChainInvStep, RowInvStep, Zenon DEF ControlInv
    <2> QED BY <2>1, <2>2, Zenon
  <1> QED BY <1>1, <1>2, PTL DEF Spec

\* The owner's key signs an upgrade only to the image the owner expects, out of the
\* identity a verified chain attests, no earlier than asked and no earlier than the
\* minimum delay allows, whatever payload the backend prepared
\* (check_upgrade_payload, checked_upgrade_window, upgrade_expectation).
THEOREM OwnerSignsAsIntended == Spec => []SignedAsIntended
  BY ControlInvariant, PTL DEF ControlInv, SignedInv

-----------------------------------------------------------------------------
(* The control path uses the volume as enclavia-crypto allows *)

\* The key and the image of the command being executed
LEMMA CommandTyped ==
    ASSUME ControlInv, handler.step # "idle", handler.cmd.kind = "upgrade"
    PROVE  handler.cmd.key \in Keys /\ handler.cmd.payload.to.image \in Images
  <1>1. handler.cmd.key \in Keys /\ handler.cmd.payload \in Signed
    BY ZenonT(30) DEF ControlInv, HandlerInv, WireInv
  <1>2. PICK s \in signedFor : handler.cmd.payload = s.payload
    BY <1>1, Zenon DEF Signed
  <1>3. s.payload.to = Identity(s.target, User) /\ s.target \in Images
    BY ZenonT(30) DEF ControlInv, SignedInv, SignedAsIntended
  <1> QED BY <1>1, <1>2, <1>3, SMTT(30), Z3T(30) DEF Identity

\* Each step of the handler, and of a boot, is a step of enclavia-crypto or none.
LEMMA VolumeStep ==
    ASSUME ControlInv, Next
    PROVE  VolumeNext \/ UNCHANGED volumeVars
  <1>1. CASE RunPrepareUpgrade
    <2>1. CASE PrepareStash(handler.cmd.key, handler.cmd.payload.to.image)
      <3>1. handler.step = "checks" /\ handler.cmd.kind = "upgrade"
        BY <1>1, ZenonT(30) DEF RunPrepareUpgrade, HandlerAt
      <3>2. handler.cmd.key \in Keys /\ handler.cmd.payload.to.image \in Images
        BY <3>1, CommandTyped, Zenon
      <3> QED BY <2>1, <3>2, ZenonT(30) DEF VolumeNext
    <2>2. PrepareStash(handler.cmd.key, handler.cmd.payload.to.image) \/ UNCHANGED volumeVars
      BY <1>1, ZenonT(30) DEF RunPrepareUpgrade
    <2> QED BY <2>1, <2>2, Zenon
  <1>2. CASE PrepareJob
    BY <1>2, ZenonT(30) DEF PrepareJob, VolumeNext, PrepareSteps
  <1>3. CASE RunRevokeUpgrade
    BY <1>3, ZenonT(30) DEF RunRevokeUpgrade
  <1>4. CASE RevokeJob
    BY <1>4, ZenonT(30) DEF RevokeJob, VolumeNext, RevokeSteps
  <1>5. CASE Cuts \/ CrashEnclave
    BY <1>5, ZenonT(30) DEF Cuts, Cutover, CrashEnclave, VolumeNext
  <1>6. CASE BootPin
    BY <1>6, ZenonT(30) DEF BootPin
  <1>7. CASE BootVolume
    <2>1. row \in Images
      BY Zenon DEF ControlInv, RowInv
    <2> QED BY <1>7, <2>1, ZenonT(30) DEF BootVolume, VolumeNext
  <1>8. CASE BootLinks
    BY <1>8, ZenonT(30) DEF BootLinks, BootLink, VolumeNext
  <1>9. CASE Tick \/ OwnerStep \/ Handles \/ Submits
    BY <1>9, TickFrame, OwnerFrame, HandleFrame, SubmitFrame, ZenonT(30)
  <1> QED BY <1>1, <1>2, <1>3, <1>4, <1>5, <1>6, <1>7, <1>8, <1>9, NextSteps,
             ZenonT(30) DEF HandlerStep, LifeStep

\* The server's handler, the cutover and the boot implement the volume-key
\* specification: nothing they do to the key blob, the slots, the stash or the KMS
\* keys is outside init, prepare-upgrade and revoke-upgrade.
THEOREM ControlImplementsVolume == Spec => VolumeSpec
  <1>1. Init => VolumeInit
    BY ZenonT(30) DEF Init
  <1>2. ControlInv /\ [Next]_vars => [VolumeNext]_volumeVars
    BY VolumeStep, ZenonT(30) DEF vars
  <1> QED BY <1>1, <1>2, ControlInvariant, PTL DEF Spec, VolumeSpec

\* So an enclave going through upgrades, revocations, crashes and cutovers never
\* loses its volume (VolumeKeys' guarantee, here of the whole control path).
THEOREM ControlKeepsVolume == Spec => []VolumeSafe
  BY ControlImplementsVolume, VolumeStaysSafe, PTL

-----------------------------------------------------------------------------
(* What one link does to the walk *)

\* The walk goes from w to x with the outcome o and the tip f.
WalksTo(x, w, o, f) == x.outcomes = Append(w.outcomes, o) /\ x.force = f

SignedOutcome(w, prior, link, r) ==
    IF PayloadSeen(link, prior) THEN Refused
    ELSE ValidateChainLink(link, ThisEnclave, IF w.force = NoTip THEN r ELSE w.force, prior,
                           link.recorded_at)
GenesisOutcome(link) ==
    ValidateChainLink(link, ThisEnclave, link.payload.image, <<>>, link.recorded_at)
PromotedOutcome(prior, link, t) ==
    IF OutsideWindow(link, t) \/ WrongIdentity(link, t) THEN Refused
    ELSE ValidateChainLink(link, ThisEnclave, t.payload.to.image, prior, link.recorded_at)

\* A recorded link that is not a boot is validated against the image in force.
LEMMA WalkSigned ==
    ASSUME NEW w, NEW prior, NEW link, NEW r, link.kind # "boot"
    PROVE  WalksTo(WalkLink(w, prior, link, ThisEnclave, r), w,
                   SignedOutcome(w, prior, link, r), w.force)
  <1>1. WalkLink(w, prior, link, ThisEnclave, r) =
            [outcomes |-> Append(w.outcomes, SignedOutcome(w, prior, link, r)),
             force |-> w.force, identity |-> w.identity]
    BY ZenonT(30) DEF WalkLink, SignedOutcome
  <1> QED BY <1>1, SMTT(30), Z3T(30) DEF WalksTo

\* The first boot is taken at its word.
LEMMA WalkGenesis ==
    ASSUME NEW w, NEW link, NEW r, link.kind = "boot"
    PROVE  WalksTo(WalkLink(w, <<>>, link, ThisEnclave, r), w, GenesisOutcome(link),
                   IF GenesisOutcome(link) = "append" THEN link.payload.image ELSE w.force)
  <1> DEFINE o == GenesisOutcome(link)
  <1>1. WalkLink(w, <<>>, link, ThisEnclave, r) =
            [outcomes |-> Append(w.outcomes, o),
             force |-> IF o = "append" THEN link.payload.image ELSE w.force,
             identity |-> IF o = "append" THEN link.doc.id ELSE w.identity]
    BY ZenonT(30) DEF WalkLink, GenesisOutcome
  <1> QED BY <1>1, SMTT(30), Z3T(30) DEF WalksTo

\* A boot of another image needs the upgrade that explains it.
LEMMA WalkPromotion ==
    ASSUME NEW w, NEW prior, NEW link, NEW r, NEW t,
           link.kind = "boot", prior # <<>>, w.force # NoTip, link.payload.image # w.force,
           t = PromotionTarget(prior, link.payload.image), t # NoLink
    PROVE  WalksTo(WalkLink(w, prior, link, ThisEnclave, r), w, PromotedOutcome(prior, link, t),
                   IF PromotedOutcome(prior, link, t) = "append" THEN t.payload.to.image
                   ELSE w.force)
  <1> DEFINE o == PromotedOutcome(prior, link, t)
  <1>1. WalkLink(w, prior, link, ThisEnclave, r) =
            [outcomes |-> Append(w.outcomes, o),
             force |-> IF o = "append" THEN t.payload.to.image ELSE w.force,
             identity |-> IF o = "append" THEN link.doc.id ELSE w.identity]
    BY ZenonT(30) DEF WalkLink, PromotedOutcome
  <1> QED BY <1>1, SMTT(30), Z3T(30) DEF WalksTo

\* A boot that promotes nothing leaves the tip where it was.
Stays(x, w) == x.force = w.force

\* A boot of the tip, or one no upgrade explains, leaves the tip where it was.
LEMMA WalkReboot ==
    ASSUME NEW w, NEW prior, NEW link, NEW r, link.kind = "boot", prior # <<>>, w.force # NoTip,
           \/ link.payload.image = w.force
           \/ PromotionTarget(prior, link.payload.image) = NoLink
    PROVE  Stays(WalkLink(w, prior, link, ThisEnclave, r), w)
  <1>1. \E x, y : WalkLink(w, prior, link, ThisEnclave, r) =
                      [outcomes |-> x, force |-> w.force, identity |-> y]
    BY ZenonT(30) DEF WalkLink
  <1> QED BY <1>1, SMTT(30), Z3T(30) DEF Stays

AddsOutcome(x, w) == \E o : x.outcomes = Append(w.outcomes, o)

\* Every link adds one outcome.
LEMMA WalkAddsOutcome ==
    ASSUME NEW w, NEW prior, NEW link, NEW r
    PROVE  AddsOutcome(WalkLink(w, prior, link, ThisEnclave, r), w)
  <1>1. \E o, x, y : WalkLink(w, prior, link, ThisEnclave, r) =
                         [outcomes |-> Append(w.outcomes, o), force |-> x, identity |-> y]
    BY ZenonT(30) DEF WalkLink
  <1> QED BY <1>1, SMTT(30), Z3T(30) DEF AddsOutcome

\* The outcome of a link is settled when the walk passes it.
Settled(w, n) == /\ \E T : w[n].outcomes \in Seq(T)
                 /\ Len(w[n].outcomes) = n
                 /\ \A j \in 1 .. n : w[n].outcomes[j] = w[j].outcomes[j]

\* validate_chain never revises the outcome of a link it has passed.
LEMMA WalkOutcomes ==
    ASSUME NEW links, NEW r, Len(links) \in Nat, NEW w, Runs(w, links, r),
           NEW n \in 0 .. Len(links)
    PROVE  Settled(w, n)
  <1> DEFINE S == {m \in 0 .. Len(links) : Settled(w, m)}
  <1>1. 0 \in S
    <2>1. w[0].outcomes = <<>>
      BY SMTT(30), Z3T(30) DEF Runs, WalkStart
    <2>2. \E T : w[0].outcomes \in Seq(T)
      <3>1. <<>> \in Seq({})
        BY SMTT(30), Z3T(30)
      <3> QED BY <2>1, <3>1, ZenonT(30)
    <2>3. Len(w[0].outcomes) = 0 /\ 1 .. 0 = {} /\ 0 \in 0 .. Len(links)
      BY <2>1, SMTT(30), Z3T(30)
    <2> QED BY <2>2, <2>3, ZenonT(30) DEF Settled
  <1>2. ASSUME NEW m \in 0 .. Len(links) - 1, m \in S PROVE m + 1 \in S
    <2>1. m + 1 \in 0 .. Len(links) /\ m \in Nat
      BY SMTT(30), Z3T(30)
    <2>2. PICK o : w[m + 1].outcomes = Append(w[m].outcomes, o)
      <3>1. w[m + 1] = WalkLink(w[m], SubSeq(links, 1, m), links[m + 1], ThisEnclave, r)
        BY ZenonT(30) DEF Runs
      <3>2. AddsOutcome(w[m + 1], w[m])
        BY <3>1, WalkAddsOutcome, ZenonT(30)
      <3> QED BY <3>2, ZenonT(30) DEF AddsOutcome
    <2>3. PICK T : w[m].outcomes \in Seq(T)
      BY <1>2, Zenon DEF Settled
    <2>4. Len(w[m].outcomes) = m /\ \A j \in 1 .. m : w[m].outcomes[j] = w[j].outcomes[j]
      BY <1>2, Zenon DEF Settled
    <2>5. w[m].outcomes \in Seq(T \cup {o})
      BY <2>3, SMTT(30), Z3T(30)
    <2>6. w[m + 1].outcomes \in Seq(T \cup {o}) /\ Len(w[m + 1].outcomes) = m + 1
      BY <2>2, <2>4, <2>5, SMTT(30), Z3T(30)
    <2>7. \A j \in 1 .. m : w[m + 1].outcomes[j] = w[m].outcomes[j]
      BY <2>2, <2>3, <2>4, SMTT(30), Z3T(30)
    <2>8. ASSUME NEW j \in 1 .. m + 1 PROVE w[m + 1].outcomes[j] = w[j].outcomes[j]
      <3>1. CASE j = m + 1
        BY <3>1, Zenon
      <3>2. CASE j \in 1 .. m
        BY <2>4, <2>7, <3>2, Zenon
      <3> QED BY <2>1, <3>1, <3>2, SMTT(30), Z3T(30)
    <2> QED BY <2>1, <2>6, <2>8, Zenon DEF Settled
  <1> HIDE DEF S
  <1>3. 0 .. Len(links) \subseteq S
    BY <1>1, <1>2, UpTo, ZenonT(30)
  <1> QED BY <1>3, Zenon DEF S

-----------------------------------------------------------------------------
(* Prefixes of a chain and the last link of a kind *)

\* What validate_chain has walked when it reaches link n + 1
LEMMA Prefix ==
    ASSUME NEW links, \E T : links \in Seq(T), NEW n \in 0 .. Len(links)
    PROVE  /\ Len(SubSeq(links, 1, n)) = n
           /\ DOMAIN SubSeq(links, 1, n) = 1 .. n
           /\ \A i \in 1 .. n : SubSeq(links, 1, n)[i] = links[i]
           /\ SubSeq(links, 1, n) = <<>> <=> n = 0
           /\ \E T : SubSeq(links, 1, n) \in Seq(T)
  <1>1. PICK T : links \in Seq(T)
    BY Zenon
  <1>2. SubSeq(links, 1, n) \in Seq(T) /\ Len(SubSeq(links, 1, n)) = n
        /\ \A i \in 1 .. n : SubSeq(links, 1, n)[i] = links[i]
    BY <1>1, SMTT(30), Z3T(30)
  <1>3. DOMAIN SubSeq(links, 1, n) = 1 .. n
    BY <1>2, SMTT(30), Z3T(30)
  <1>4. SubSeq(links, 1, n) = <<>> <=> n = 0
    BY <1>2, SMTT(30), Z3T(30)
  <1> QED BY <1>2, <1>3, <1>4, ZenonT(30)

\* iter().rev().find finds the last one, if there is one.
LEMMA LatestIs ==
    ASSUME NEW prior, NEW n \in Nat, NEW S \in SUBSET (1 .. n), S # {}
    PROVE  \E i \in S : (\A j \in S : j <= i) /\ Latest(prior, S) = prior[i]
  <1> DEFINE T == {n - i : i \in S}
  <1>0. ASSUME NEW i \in S PROVE n - i \in Nat
    BY SMTT(30), Z3T(30)
  <1>1. T \in SUBSET Nat /\ T # {}
    BY <1>0, Zenon
  <1>2. PICK x \in T : \A y \in T : x <= y
    BY <1>1, LeastNatural, ZenonT(30)
  <1>3. PICK i \in S : x = n - i
    BY <1>2, Zenon
  <1>4. \A j \in S : j <= i
    <2> TAKE j \in S
    <2>1. n - j \in T /\ n \in Nat /\ i \in Nat /\ j \in Nat
      BY SMTT(30), Z3T(30)
    <2>2. n - i <= n - j
      BY <1>2, <1>3, <2>1, Zenon
    <2> QED BY <2>1, <2>2, SMTT(30), Z3T(30)
  <1> DEFINE m == CHOOSE k \in S : \A j \in S : j <= k
  <1>5. m \in S /\ \A j \in S : j <= m
    BY <1>4, ZenonT(30)
  <1>6. Latest(prior, S) = prior[m]
    BY ZenonT(30) DEF Latest
  <1> HIDE DEF m
  <1> QED BY <1>5, <1>6, Zenon

\* The revocations on a chain, and the upgrades that explain a boot of image
RevokedOn(links) == {links[i].payload.revokes : i \in {j \in DOMAIN links : links[j].kind = "revocation"}}
Explaining(links, image) ==
    {i \in DOMAIN links : /\ links[i].kind = "upgrade"
                          /\ links[i].id \notin RevokedOn(links)
                          /\ ~PayloadSeen(links[i], SubSeq(links, 1, i - 1))
                          /\ links[i].payload.to.image = image}

\* promotion_target answers the latest upgrade that explains a boot of the image.
LEMMA PromotionIs ==
    ASSUME NEW links, NEW image
    PROVE  PromotionTarget(links, image) = Latest(links, Explaining(links, image))
  BY ZenonT(30) DEF PromotionTarget, Explaining, RevokedOn

\* promotion_target answers an upgrade link to the image.
LEMMA PromotionFound ==
    ASSUME NEW links, \E T : links \in Seq(T), NEW image,
           PromotionTarget(links, image) # NoLink \/ Explaining(links, image) # {}
    PROVE  \E i \in Explaining(links, image) : PromotionTarget(links, image) = links[i]
  <1>1. Len(links) \in Nat /\ DOMAIN links = 1 .. Len(links)
    BY SMTT(30), Z3T(30)
  <1>2. Explaining(links, image) \in SUBSET (1 .. Len(links))
    BY <1>1, Zenon DEF Explaining
  <1>3. Explaining(links, image) # {}
    BY PromotionIs, Zenon DEF Latest
  <1>4. \E i \in Explaining(links, image) : Latest(links, Explaining(links, image)) = links[i]
    BY <1>1, <1>2, <1>3, LatestIs, ZenonT(30)
  <1> QED BY <1>4, PromotionIs, ZenonT(30)

-----------------------------------------------------------------------------
(* A client's tip is one the owner signed the way to *)

\* Links of this chain, in any selection and order
OurLinks(links) == /\ \E T : links \in Seq(T)
                   /\ \A i \in 1 .. Len(links) : LinkInv(links[i])

\* S holds the first boot's image and, with the image an upgrade on links starts
\* from, the one it goes to.
Spans(S, links) ==
    /\ S \subseteq Images
    /\ links[1].payload.image \in S
    /\ \A i \in 1 .. Len(links) :
          links[i].kind = "upgrade" /\ links[i].payload.from.image \in S
              => links[i].payload.to.image \in S

\* Up to link n the walk stayed in S, and so did where the upgrades start from.
Within(S, w, links, n) ==
    n = 0 \/ /\ w[n].force \in S
             /\ \A i \in 1 .. n : links[i].kind = "upgrade" => links[i].payload.from.image \in S

\* Link k comes after the first n.
Comes(k, n, links) == Len(links) \in Nat /\ n \in 0 .. Len(links) - 1 /\ k = n + 1

\* The walk at link k, from what it was at the link before
StepsAt(w, k, n, links, r) ==
    w[k] = WalkLink(w[n], SubSeq(links, 1, n), links[k], ThisEnclave, r)

\* The walk at link k is one step of validate_chain from the link before.
LEMMA WalkAt ==
    ASSUME NEW links, NEW r, NEW w, Runs(w, links, r), NEW k, NEW n, Comes(k, n, links)
    PROVE  StepsAt(w, k, n, links, r)
  BY ZenonT(30) DEF Runs, Comes, StepsAt

\* ... and its outcome
Ends(w, k, o, f) == w[k].outcomes[k] = o /\ w[k].force = f

\* Link k ends with the outcome and the tip that its step gives.
LEMMA OutcomeAt ==
    ASSUME NEW links, NEW r, NEW w, Runs(w, links, r), NEW k, NEW n, Comes(k, n, links),
           NEW o, NEW f, WalksTo(w[k], w[n], o, f)
    PROVE  Ends(w, k, o, f)
  <1>1. Len(links) \in Nat /\ n \in 0 .. Len(links) /\ n + 1 = k
    BY SMTT(30), Z3T(30) DEF Comes
  <1>2. Settled(w, n)
    BY <1>1, WalkOutcomes, ZenonT(30)
  <1> DEFINE s == w[n].outcomes
  <1>3. (\E T : s \in Seq(T)) /\ Len(s) = n
    BY <1>2, ZenonT(30) DEF Settled
  <1>4. w[k].outcomes = Append(s, o) /\ w[k].force = f
    BY ZenonT(30) DEF WalksTo
  <1> HIDE DEF s
  <1>5. Append(s, o)[k] = o
    BY <1>1, <1>3, SMTT(30), Z3T(30)
  <1> QED BY <1>4, <1>5, Zenon DEF Ends

\* The first link of a chain that walks is a boot, whose image is the first tip.
LEMMA FirstIsBoot ==
    ASSUME NEW links, OurLinks(links), Len(links) # 0, NEW r, NEW w, Runs(w, links, r),
           w[1].outcomes[1] # Refused
    PROVE  links[1].kind = "boot" /\ w[1].force = links[1].payload.image
  <1> DEFINE l == links[1]
  <1>1. Comes(1, 0, links) /\ 0 \in 0 .. Len(links)
    BY SMTT(30), Z3T(30) DEF OurLinks, Comes
  <1>2. SubSeq(links, 1, 0) = <<>>
    BY <1>1, Prefix, Zenon DEF OurLinks
  <1>3. w[1] = WalkLink(w[0], <<>>, l, ThisEnclave, r)
    <2>1. StepsAt(w, 1, 0, links, r)
      BY <1>1, WalkAt, ZenonT(30)
    <2> QED BY <1>2, <2>1, ZenonT(30) DEF StepsAt
  <1> HIDE DEF l
  <1>4. ASSUME NEW o, NEW f, WalksTo(w[1], w[0], o, f) PROVE o # Refused /\ w[1].force = f
    <2>1. Ends(w, 1, o, f)
      BY <1>1, <1>4, OutcomeAt, ZenonT(30)
    <2> QED BY <2>1, ZenonT(30) DEF Ends
  <1>5. ~PayloadSeen(l, <<>>) /\ LastBoot(<<>>) = NoLink
    BY SMTT(30), Z3T(30) DEF PayloadSeen, LastBoot, Latest
  <1>6. l.kind = "boot"
    <2> SUFFICES ASSUME l.kind # "boot" PROVE FALSE
      BY Zenon
    <2>1. SignedOutcome(w[0], <<>>, l, r) # Refused
      BY <1>3, <1>4, WalkSigned, ZenonT(30)
    <2> QED BY <1>5, <2>1, Zenon DEF SignedOutcome, ValidateChainLink, ValidateSigned, Refused
  <1>7. w[1].force = l.payload.image
    <2>1. GenesisOutcome(l) \in {"append", Refused}
      BY <1>5, <1>6, Zenon DEF GenesisOutcome, ValidateChainLink, ValidateBoot, Refused
    <2>2. /\ GenesisOutcome(l) # Refused
          /\ w[1].force = IF GenesisOutcome(l) = "append" THEN l.payload.image ELSE w[0].force
      BY <1>3, <1>4, <1>6, WalkGenesis, ZenonT(30)
    <2> QED BY <2>1, <2>2, Zenon
  <1> QED BY <1>6, <1>7, Zenon DEF l

\* An upgrade that holds starts from the image in force.
LEMMA SignedFrom ==
    ASSUME NEW v, NEW prior, NEW l, NEW r, v.force # NoTip, l.kind # "boot",
           SignedOutcome(v, prior, l, r) # Refused
    PROVE  /\ l.doc.id.image = v.force
           /\ l.kind = "upgrade" => l.payload.from = l.doc.id
  <1>1. ValidateChainLink(l, ThisEnclave, v.force, prior, l.recorded_at) # Refused
    BY Zenon DEF SignedOutcome
  <1>2. /\ l.doc.id.image = v.force
        /\ ValidateSigned(l, ThisEnclave, prior, l.recorded_at) # Refused
    BY <1>1, Zenon DEF ValidateChainLink, Attests
  <1> QED BY <1>2, Zenon DEF ValidateSigned

\* Every upgrade of the links goes from S to S.
InSpan(S, prior) ==
    \A i \in DOMAIN prior : prior[i].kind = "upgrade" =>
        prior[i].payload.from.image \in S /\ prior[i].payload.to.image \in S

\* A step of the walk that is not refused says so, and where it goes.
Holds(x, v) == \A o, f : WalksTo(x, v, o, f) => o # Refused /\ x.force = f

\* A link after the first that holds keeps the image in force in S, and an upgrade
\* starts from there.
LEMMA LinkStaysIn ==
    ASSUME NEW S, NEW v, NEW prior, NEW l, NEW r, v.force \in S, v.force # NoTip,
           prior # <<>>, \E T : prior \in Seq(T), InSpan(S, prior),
           NEW x, x = WalkLink(v, prior, l, ThisEnclave, r), Holds(x, v)
    PROVE  x.force \in S /\ (l.kind = "upgrade" => l.payload.from.image \in S)
  <1>1. CASE l.kind # "boot"
    <2>1. WalksTo(x, v, SignedOutcome(v, prior, l, r), v.force)
      BY <1>1, WalkSigned, ZenonT(30)
    <2>2. SignedOutcome(v, prior, l, r) # Refused /\ x.force = v.force
      BY <2>1, ZenonT(30) DEF Holds
    <2>3. /\ l.doc.id.image = v.force
          /\ l.kind = "upgrade" => l.payload.from = l.doc.id
      BY <1>1, <2>2, SignedFrom, ZenonT(30)
    <2> QED BY <2>2, <2>3, Zenon
  <1>2. CASE l.kind = "boot" /\ (l.payload.image = v.force
                                 \/ PromotionTarget(prior, l.payload.image) = NoLink)
    <2>1. Stays(x, v)
      BY <1>2, WalkReboot, ZenonT(30)
    <2> QED BY <1>2, <2>1, Zenon DEF Stays
  <1>3. CASE l.kind = "boot" /\ l.payload.image # v.force
             /\ PromotionTarget(prior, l.payload.image) # NoLink
    <2> DEFINE t == PromotionTarget(prior, l.payload.image)
    <2> DEFINE o == PromotedOutcome(prior, l, t)
    <2> DEFINE f == IF o = "append" THEN t.payload.to.image ELSE v.force
    <2>1. WalksTo(x, v, o, f)
      BY <1>3, WalkPromotion, ZenonT(30)
    <2>2. PICK i \in Explaining(prior, l.payload.image) : t = prior[i]
      BY <1>3, PromotionFound, ZenonT(30)
    <2>3. i \in DOMAIN prior /\ prior[i].kind = "upgrade"
      BY <2>2, Zenon DEF Explaining
    <2>4. t.payload.to.image \in S
      BY <2>2, <2>3, ZenonT(30) DEF InSpan
    <2> HIDE DEF t, o
    <2>5. f \in S
      BY <2>4, Zenon
    <2> HIDE DEF f
    <2>6. x.force = f
      BY <2>1, ZenonT(30) DEF Holds
    <2> QED BY <1>3, <2>5, <2>6, Zenon
  <1> QED BY <1>1, <1>2, <1>3, Zenon

\* A link that holds keeps the walk, and where upgrades start from, in S.
LEMMA DescentStep ==
    ASSUME NEW links, OurLinks(links), NEW S, Spans(S, links), NEW r, NEW w, Runs(w, links, r),
           NEW n \in 0 .. Len(links) - 1, w[n + 1].outcomes[n + 1] # Refused,
           Within(S, w, links, n)
    PROVE  Within(S, w, links, n + 1)
  <1> DEFINE k == n + 1
  <1> DEFINE l == links[k]
  <1> DEFINE prior == SubSeq(links, 1, n)
  <1> SUFFICES Within(S, w, links, k)
    BY Zenon
  <1>1. /\ Len(links) \in Nat /\ n \in 0 .. Len(links) /\ k \in 1 .. Len(links) /\ k # 0
        /\ Comes(k, n, links)
    BY SMTT(30), Z3T(30) DEF OurLinks, Comes
  <1>2. ASSUME w[k].force \in S, l.kind = "upgrade" => l.payload.from.image \in S,
               n # 0 \/ l.kind = "boot"
        PROVE  Within(S, w, links, k)
    <2>1. \A i \in 1 .. n : links[i].kind = "upgrade" => links[i].payload.from.image \in S
      BY <1>1, SMTT(30), Z3T(30) DEF Within
    <2>2. \A i \in 1 .. k : i \in 1 .. n \/ i = k
      BY <1>1, SMTT(30), Z3T(30)
    <2> QED BY <1>2, <2>1, <2>2, ZenonT(30) DEF Within
  <1>3. CASE n = 0
    <2>1. w[1].outcomes[1] # Refused /\ Len(links) # 0 /\ k = 1
      BY <1>1, <1>3, SMTT(30), Z3T(30)
    <2>2. links[1].kind = "boot" /\ w[1].force = links[1].payload.image
      BY <2>1, FirstIsBoot, ZenonT(30)
    <2> QED BY <1>2, <2>1, <2>2, ZenonT(30) DEF Spans
  <1>4. CASE n # 0
    <2>1. w[n].force \in S /\ w[n].force # NoTip
      BY <1>4, GenesisAssumption, Zenon DEF Within, Spans
    <2>2. w[k] = WalkLink(w[n], prior, l, ThisEnclave, r)
      <3>1. StepsAt(w, k, n, links, r)
        BY <1>1, WalkAt, ZenonT(30)
      <3> QED BY <3>1, ZenonT(30) DEF StepsAt
    <2>3. /\ prior # <<>> /\ \E T : prior \in Seq(T)
          /\ DOMAIN prior = 1 .. n /\ \A i \in 1 .. n : prior[i] = links[i]
      BY <1>1, <1>4, Prefix, ZenonT(30) DEF OurLinks
    <2>4. ASSUME NEW o, NEW f, WalksTo(w[k], w[n], o, f) PROVE o # Refused /\ w[k].force = f
      <3>1. Ends(w, k, o, f)
        BY <1>1, <2>4, OutcomeAt, ZenonT(30)
      <3> QED BY <3>1, ZenonT(30) DEF Ends
    <2>5. Holds(w[k], w[n])
      BY <2>4, ZenonT(30) DEF Holds
    <2>6. InSpan(S, prior)
      <3>1. \A i \in 1 .. n : links[i].kind = "upgrade" => links[i].payload.from.image \in S
        BY <1>4, Zenon DEF Within
      <3>2. 1 .. n \subseteq 1 .. Len(links)
        BY <1>1, SMTT(30), Z3T(30)
      <3> HIDE DEF prior
      <3> QED BY <2>3, <3>1, <3>2, ZenonT(30) DEF InSpan, Spans
    <2> HIDE DEF k, l, prior
    <2>7. w[k].force \in S /\ (l.kind = "upgrade" => l.payload.from.image \in S)
      BY <2>1, <2>2, <2>3, <2>5, <2>6, LinkStaysIn, ZenonT(30)
    <2> QED BY <1>2, <1>4, <2>7, Zenon
  <1> QED BY <1>3, <1>4, Zenon

\* A chain that walks, link by link
LEMMA ValidRuns ==
    ASSUME NEW links, Len(links) \in Nat, NEW r, AllValid(Walk(links, ThisEnclave, r))
    PROVE  \E w : /\ Runs(w, links, r) /\ Walk(links, ThisEnclave, r) = w[Len(links)]
                  /\ \A j \in 1 .. Len(links) : w[j].outcomes[j] # Refused
  <1>1. Len(links) \in 0 .. Len(links)
    BY SMTT(30), Z3T(30)
  <1>2. PICK w : Runs(w, links, r) /\ Walk(links, ThisEnclave, r) = w[Len(links)]
    BY WalkRuns, Zenon
  <1>3. ASSUME NEW j \in 1 .. Len(links) PROVE w[j].outcomes[j] # Refused
    <2>1. Settled(w, Len(links))
      BY <1>1, <1>2, WalkOutcomes, ZenonT(30)
    <2> DEFINE s == w[Len(links)].outcomes
    <2>2. (\E T : s \in Seq(T)) /\ Len(s) = Len(links) /\ s[j] = w[j].outcomes[j]
      BY <2>1, ZenonT(30) DEF Settled
    <2>3. \A i \in DOMAIN s : s[i] # Refused
      BY <1>2, ZenonT(30) DEF AllValid
    <2> HIDE DEF s
    <2>4. j \in DOMAIN s
      BY <2>2, SMTT(30), Z3T(30)
    <2> QED BY <2>2, <2>3, <2>4, ZenonT(30)
  <1> QED BY <1>2, <1>3, ZenonT(30)

\* Its first link is a boot.
LEMMA ValidStartsBooted ==
    ASSUME NEW links, OurLinks(links), Len(links) # 0, NEW r,
           AllValid(Walk(links, ThisEnclave, r))
    PROVE  links[1].kind = "boot"
  <1>1. Len(links) \in Nat /\ 1 \in 1 .. Len(links)
    BY SMTT(30), Z3T(30) DEF OurLinks
  <1>2. PICK w : Runs(w, links, r) /\ \A j \in 1 .. Len(links) : w[j].outcomes[j] # Refused
    BY <1>1, ValidRuns, ZenonT(30)
  <1> QED BY <1>1, <1>2, FirstIsBoot, ZenonT(30)

\* verify_pcr_descent: a chain that walks ends at a tip its own upgrades reach.
LEMMA DescentStays ==
    ASSUME NEW links, OurLinks(links), Len(links) # 0, NEW S, Spans(S, links), NEW r,
           AllValid(Walk(links, ThisEnclave, r))
    PROVE  Walk(links, ThisEnclave, r).force \in S
  <1>1. Len(links) \in Nat /\ Len(links) \in 0 .. Len(links)
    BY SMTT(30), Z3T(30) DEF OurLinks
  <1>2. PICK w : /\ Runs(w, links, r) /\ Walk(links, ThisEnclave, r) = w[Len(links)]
                 /\ \A j \in 1 .. Len(links) : w[j].outcomes[j] # Refused
    BY <1>1, ValidRuns, ZenonT(30)
  <1> DEFINE D == {n \in 0 .. Len(links) : Within(S, w, links, n)}
  <1>3. 0 \in D
    BY <1>1, SMTT(30), Z3T(30) DEF Within
  <1>4. ASSUME NEW n \in 0 .. Len(links) - 1, n \in D PROVE n + 1 \in D
    <2>1. n + 1 \in 1 .. Len(links) /\ n + 1 \in 0 .. Len(links)
      BY <1>1, SMTT(30), Z3T(30)
    <2>2. w[n + 1].outcomes[n + 1] # Refused
      BY <1>2, <2>1, ZenonT(30)
    <2> QED BY <1>2, <1>4, <2>1, <2>2, DescentStep, ZenonT(30)
  <1> HIDE DEF D
  <1>5. 0 .. Len(links) \subseteq D
    BY <1>1, <1>3, <1>4, UpTo, ZenonT(30)
  <1>6. w[Len(links)].force \in S
    BY <1>1, <1>5, Zenon DEF D, Within
  <1> QED BY <1>2, <1>6, Zenon

\* What a concatenation holds
LEMMA Concat ==
    ASSUME NEW T, NEW a \in Seq(T), NEW b \in Seq(T)
    PROVE  /\ a \o b \in Seq(T) /\ Len(a \o b) = Len(a) + Len(b)
           /\ \A j \in 1 .. Len(a) + Len(b) :
                 (a \o b)[j] = IF j <= Len(a) THEN a[j] ELSE b[j - Len(a)]
  BY SMTT(30), Z3T(30)

\* The chain with one link left out is made of links of the chain.
LEMMA WithoutOurs ==
    ASSUME ChainInv, NEW i \in 1 .. Len(chain)
    PROVE  OurLinks(Without(i))
  <1>1. PICK T : chain \in Seq(T)
    BY Zenon DEF ChainInv
  <1> DEFINE a == SubSeq(chain, 1, i - 1)
  <1> DEFINE b == SubSeq(chain, i + 1, Len(chain))
  <1>2. /\ a \in Seq(T) /\ Len(a) = i - 1 /\ \A j \in 1 .. i - 1 : a[j] = chain[j]
        /\ b \in Seq(T) /\ Len(b) = Len(chain) - i /\ \A j \in 1 .. Len(chain) - i : b[j] = chain[j + i]
    BY <1>1, SMTT(30), Z3T(30)
  <1> HIDE DEF a, b
  <1>3. /\ a \o b \in Seq(T) /\ Len(a \o b) = Len(chain) - 1 /\ Len(chain) \in Nat
        /\ \A j \in 1 .. Len(chain) - 1 :
              (a \o b)[j] = IF j <= i - 1 THEN a[j] ELSE b[j - (i - 1)]
    <2>1. Len(chain) \in Nat
      BY <1>1, SMTT(30), Z3T(30)
    <2>2. /\ a \o b \in Seq(T) /\ Len(a \o b) = Len(a) + Len(b)
          /\ \A j \in 1 .. Len(a) + Len(b) :
                (a \o b)[j] = IF j <= Len(a) THEN a[j] ELSE b[j - Len(a)]
      BY <1>2, Concat, ZenonT(30)
    <2>3. Len(a) + Len(b) = Len(chain) - 1
      BY <1>2, <2>1, SMTT(30), Z3T(30)
    <2> QED BY <1>2, <2>1, <2>2, <2>3, Zenon
  <1>4. ASSUME NEW j \in 1 .. Len(chain) - 1 PROVE LinkInv((a \o b)[j])
    <2>1. CASE j <= i - 1
      <3>1. (a \o b)[j] = chain[j] /\ j \in 1 .. Len(chain)
        BY <1>2, <1>3, <2>1, SMTT(30), Z3T(30)
      <3> QED BY <3>1, Zenon DEF ChainInv
    <2>2. CASE ~(j <= i - 1)
      <3>1. j - (i - 1) \in 1 .. Len(chain) - i /\ (j - (i - 1)) + i \in 1 .. Len(chain)
        BY <1>3, <2>2, SMTT(30), Z3T(30)
      <3>2. (a \o b)[j] = chain[(j - (i - 1)) + i]
        BY <1>2, <1>3, <2>2, <3>1, Zenon
      <3> QED BY <3>1, <3>2, Zenon DEF ChainInv
    <2> QED BY <2>1, <2>2, ZenonT(30)
  <1>5. Without(i) = a \o b
    BY ZenonT(30) DEF Without, a, b
  <1> QED BY <1>3, <1>4, <1>5, Zenon DEF OurLinks

\* A client that pinned an image and is served the chain with any one link left out
\* trusts its tip only when upgrades the owner signed, and that the client was
\* shown, lead to it from the chain's first boot (verify_pcr_descent).
THEOREM ClientDescentIsSigned == Spec => []DescentIsSigned
  <1>1. ControlInv => DescentIsSigned
    <2> SUFFICES ASSUME ControlInv, NEW i \in 0 .. Len(chain), NEW pinned \in Images, NEW links,
                        links = IF i = 0 THEN chain ELSE Without(i), NEW tip,
                        tip = VerifyPcrDescent(pinned, links, ThisEnclave, row), tip # NoTip
                 PROVE  tip \in ReachedIn(links)
      BY ZenonT(30) DEF DescentIsSigned
    <2>1. OurLinks(links)
      <3>1. ChainInv
        BY Zenon DEF ControlInv
      <3>2. i = 0 \/ i \in 1 .. Len(chain)
        BY <3>1, ChainSeq, SMTT(30), Z3T(30) DEF ChainInv
      <3>3. OurLinks(chain)
        BY <3>1, ZenonT(30) DEF ChainInv, OurLinks
      <3> QED BY <3>1, <3>2, <3>3, WithoutOurs, Zenon
    <2>2. /\ tip = Walk(links, ThisEnclave, row).force /\ AllValid(Walk(links, ThisEnclave, row))
          /\ DOMAIN links # {}
      BY Zenon DEF VerifyPcrDescent
    <2>3. Len(links) \in Nat /\ Len(links) # 0 /\ DOMAIN links = 1 .. Len(links) /\ 1 \in 1 .. Len(links)
      BY <2>1, <2>2, SMTT(30), Z3T(30) DEF OurLinks
    <2>4. \A S : Spans(S, links) => tip \in S
      BY <2>1, <2>2, <2>3, DescentStays, ZenonT(30)
    <2>5. Spans(Images, links)
      <3>1. links[1].payload.image \in Images
        BY <2>1, <2>2, <2>3, ValidStartsBooted, ZenonT(30) DEF OurLinks, LinkInv
      <3>2. ASSUME NEW j \in 1 .. Len(links), links[j].kind = "upgrade"
            PROVE  links[j].payload.to.image \in Images
        <4>1. links[j].payload \in Signed
          BY <2>1, <3>2, ZenonT(30) DEF OurLinks, LinkInv
        <4>2. PICK s \in signedFor : links[j].payload = s.payload
          BY <4>1, Zenon DEF Signed
        <4>3. s.payload.to = Identity(s.target, User) /\ s.target \in Images
          BY ZenonT(30) DEF ControlInv, SignedInv, SignedAsIntended
        <4> QED BY <4>2, <4>3, SMTT(30), Z3T(30) DEF Identity
      <3> QED BY <3>1, <3>2, ZenonT(30) DEF Spans
    <2> DEFINE upgrades == {links[j].payload : j \in {k \in DOMAIN links : links[k].kind = "upgrade"}}
    <2> DEFINE closed(S) == \A p \in upgrades \cap Signed : p.from.image \in S => p.to.image \in S
    <2>6. ASSUME NEW S \in SUBSET Images, links[1].payload.image \in S, closed(S)
          PROVE  Spans(S, links)
      <3>1. ASSUME NEW j \in 1 .. Len(links), links[j].kind = "upgrade",
                   links[j].payload.from.image \in S
            PROVE  links[j].payload.to.image \in S
        <4>1. links[j].payload \in Signed
          BY <2>1, <3>1, ZenonT(30) DEF OurLinks, LinkInv
        <4>2. links[j].payload \in upgrades
          BY <2>3, <3>1, Zenon
        <4> QED BY <2>6, <3>1, <4>1, <4>2, ZenonT(30)
      <3> QED BY <2>6, <3>1, ZenonT(30) DEF Spans
    <2>7. ReachedIn(links) = {x \in Images : \A S \in SUBSET Images :
                                 links[1].payload.image \in S /\ closed(S) => x \in S}
      BY ZenonT(30) DEF ReachedIn, Signed
    <2> HIDE DEF closed
    <2> QED BY <2>4, <2>5, <2>6, <2>7, ZenonT(30)
  <1> QED BY <1>1, ControlInvariant, PTL
=============================================================================
