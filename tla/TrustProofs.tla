---------------------------- MODULE TrustProofs ----------------------------
(***************************************************************************)
(* Proofs about what an enclave and its client rely on: KmsGate, for any   *)
(* set of statements as the policy of the key, and AttestedConnect, for    *)
(* any number of clones, versions and channels.                            *)
(***************************************************************************)
EXTENDS KmsGate, AttestedConnect, TLAPS

-----------------------------------------------------------------------------
(* The gate before the key *)

(* What is so once the enclave accepted the key: KMS made it, the policy   *)
(* passed, nobody has a grant.                                             *)
Accepted == origin = "AWS_KMS" /\ VerifyDecryptPolicy(policy) /\ ~granted

(* A policy whose statements say whether they list or exclude an action *)
Signs == \A s \in policy : s.negated \in BOOLEAN

GateInv == /\ Signs
           /\ gate \in {"start", "origin", "checked", "sealed", "refused"}
           /\ gate \in {"start", "origin"} => learned = {} /\ ~granted
           /\ gate = "origin" => origin = "AWS_KMS"
           /\ gate # "start" /\ gate # "refused" => SelectTransport # "refuse"
           /\ gate \in {"checked", "sealed"} => Accepted
           /\ cid # 2 => learned \subseteq {"own"}

(* The field Stmt fills *)
LEMMA StmtSign == ASSUME NEW effect, NEW negated \in BOOLEAN, NEW pattern, NEW bind
                  PROVE  Stmt(effect, negated, pattern, bind).negated \in BOOLEAN
  BY SMTT(20), Z3T(20) DEF Stmt

(* A policy that passed lets nobody rewrite it, delegate the key or move   *)
(* the ciphertext, and lets only the expected image decrypt.               *)
LEMMA AllowsLittle ==
    ASSUME Signs, VerifyDecryptPolicy(policy), NEW caller \in Callers
    PROVE  /\ \A op \in Forbidden : ~KmsAllows(op, caller)
           /\ KmsAllows("Decrypt", caller) => caller = "own"
  <1>1. ASSUME NEW op \in KmsOps, NEW s \in policy, s.effect = "Allow", Applies(s, op, caller)
        PROVE  s.pattern = op /\ op \notin Forbidden
    BY <1>1, ZenonT(20) DEF Signs, VerifyDecryptPolicy, StatementIsSafe, Applies, Covers,
       Wildcard, KmsOps
  <1>2. Forbidden \subseteq KmsOps /\ "Decrypt" \in KmsOps
    BY SMTT(20), Z3T(20) DEF Forbidden, KmsOps
  <1>3. ASSUME NEW s \in policy, s.effect = "Allow", Applies(s, "Decrypt", caller)
        PROVE  caller = "own"
    <2>1. s.pattern = "Decrypt"
      BY <1>1, <1>2, <1>3, SMTT(20), Z3T(20)
    <2>2. 2 \in PcrIndex
      BY SMTT(20), Z3T(20) DEF PcrIndex
    <2>3. s.bind[2] = "own"
      BY <1>3, <2>1, <2>2, SMTT(20), Z3T(20) DEF VerifyDecryptPolicy, StatementIsSafe
    <2> QED BY <1>3, <2>2, <2>3, SMTT(20), Z3T(20) DEF Applies, PcrOf, Callers
  <1> QED BY <1>1, <1>2, <1>3, SMTT(20), Z3T(20) DEF KmsAllows

(* Init and every step of the enclave, of KMS and of its callers *)
LEMMA GateStep == GateInv /\ [KmsNext]_kmsVars => GateInv'
  <1> SUFFICES ASSUME GateInv, [KmsNext]_kmsVars PROVE GateInv'
    BY SMTT(20), Z3T(20)
  <1>1. CASE CheckOrigin
    BY <1>1, SMTT(20), Z3T(20) DEF CheckOrigin, GateInv, Signs, Accepted, SelectTransport,
       VerifyDecryptPolicy
  <1>2. CASE CheckPolicy
    BY <1>2, SMTT(20), Z3T(20) DEF CheckPolicy, GateInv, Signs, Accepted, SelectTransport,
       VerifyDecryptPolicy
  <1>3. CASE Seal
    BY <1>3, SMTT(20), Z3T(20) DEF Seal, GateInv, Signs, Accepted, SelectTransport,
       VerifyDecryptPolicy
  <1>4. ASSUME NEW caller \in Callers, PutKeyPolicy(caller) PROVE GateInv'
    <2>1. gate = "refused"
      BY <1>4, AllowsLittle, SMTT(20), Z3T(20) DEF PutKeyPolicy, GateInv, Accepted, Forbidden
    <2>2. Signs'
      <3>1. Stmt("Allow", FALSE, "Decrypt", Bound("none")).negated \in BOOLEAN
        BY StmtSign, Zenon
      <3> QED BY <1>4, <3>1, Zenon DEF PutKeyPolicy, Signs
    <2> QED BY <1>4, <2>1, <2>2, SMTT(20), Z3T(20) DEF PutKeyPolicy, GateInv, SelectTransport
  <1>5. ASSUME NEW caller \in Callers, Delegate(caller) PROVE GateInv'
    <2>1. gate = "refused"
      BY <1>5, AllowsLittle, SMTT(20), Z3T(20) DEF Delegate, GateInv, Accepted, Forbidden
    <2> QED BY <1>5, <2>1, SMTT(20), Z3T(20) DEF Delegate, GateInv, Signs, SelectTransport
  <1>6. ASSUME NEW caller \in Callers, Open(caller) PROVE GateInv'
    <2>1. caller = "own"
      BY <1>6, AllowsLittle, SMTT(20), Z3T(20) DEF Open, GateInv, Accepted, Forbidden
    <2> QED BY <1>6, <2>1, SMTT(20), Z3T(20) DEF Open, GateInv, Signs, Accepted,
               SelectTransport, VerifyDecryptPolicy
  <1>7. CASE UNCHANGED kmsVars
    BY <1>7, SMTT(20), Z3T(20) DEF kmsVars, GateInv, Signs, Accepted, SelectTransport,
       VerifyDecryptPolicy
  <1> QED BY <1>1, <1>2, <1>3, <1>4, <1>5, <1>6, <1>7, SMTT(20), Z3T(20) DEF KmsNext

(* A key nobody has used yet, under any policy *)
FreshKey == Signs /\ ~granted /\ gate = "start" /\ learned = {}

(* Whatever statements the policy of the key was minted with and whoever   *)
(* calls KMS when, off QEMU only the expected image recovers what the      *)
(* enclave sealed (verify_key_policy_for before init seals).               *)
THEOREM OnlyExpectedRecovers == FreshKey /\ [][KmsNext]_kmsVars => []SealedForExpectedOnly
  <1>1. FreshKey => GateInv
    BY SMTT(20), Z3T(20) DEF FreshKey, GateInv
  <1>2. GateInv => SealedForExpectedOnly
    BY SMTT(20), Z3T(20) DEF GateInv, SealedForExpectedOnly
  <1> QED BY <1>1, <1>2, GateStep, PTL

(* The keys the model starts from are such keys: KmsInit.                  *)
THEOREM SealedKeyIsSafe == KmsInit /\ [][KmsNext]_kmsVars => []SealedForExpectedOnly
  <1>1. ASSUME NEW s \in Statements PROVE s.negated \in BOOLEAN
    <2> DEFINE listed == FALSE
               excluded == TRUE
               A == {Stmt("Allow", listed, "Decrypt", bind) : bind \in [PcrIndex -> Bindings]}
               B == {Stmt("Allow", listed, p, Bound(b)) : p \in Patterns, b \in {"own", "none"}}
               C == {Stmt("Allow", excluded, p, Bound(b)) : p \in KmsOps, b \in {"own", "none"}}
               D == {Stmt("Deny", listed, p, Bound(b)) : p \in {"Decrypt", "*"}, b \in {"none", "other"}}
    <2>1. listed \in BOOLEAN /\ excluded \in BOOLEAN
      BY SMTT(20), Z3T(20)
    <2>2. Statements = A \cup B \cup C \cup D
      BY SMTT(20), Z3T(20) DEF Statements
    <2> HIDE DEF listed, excluded
    <2>3. s \in A => s.negated \in BOOLEAN
      BY <2>1, SMTT(20), Z3T(20) DEF Stmt
    <2>4. s \in B => s.negated \in BOOLEAN
      BY <2>1, SMTT(20), Z3T(20) DEF Stmt
    <2>5. s \in C => s.negated \in BOOLEAN
      BY <2>1, SMTT(20), Z3T(20) DEF Stmt
    <2>6. s \in D => s.negated \in BOOLEAN
      BY <2>1, SMTT(20), Z3T(20) DEF Stmt
    <2> HIDE DEF A, B, C, D
    <2> QED BY <1>1, <2>2, <2>3, <2>4, <2>5, <2>6, Zenon
  <1>2. GatedDecrypt.negated \in BOOLEAN
    BY StmtSign, Zenon DEF GatedDecrypt
  <1>3. KmsInit => FreshKey
    BY <1>1, <1>2, SMTT(20), Z3T(20) DEF KmsInit, Policies, FreshKey, Signs
  <1> QED BY <1>3, OnlyExpectedRecovers, PTL

-----------------------------------------------------------------------------
(* The channel of a client *)

(* An end the client may talk to *)
Trusted(peer) == peer = PinnedImage \/ (Follows /\ peer \in PinnedImage..live)

(* Once the document is there: if it carries the hash of this session then *)
(* the end of the session is the image it names; and the tip a walk found  *)
(* is one a client that follows upgrades takes.                            *)
DocIsOfPeer == /\ /\ try.at \in {"verify", "row", "chain", "tip"}
                  /\ CheckNonce(try.doc, try.hash)
                  => try.doc.image = try.peer
               /\ try.at \in {"row", "chain", "tip"} => TrustUpgrades
               /\ try.at = "tip" => try.tip \in PinnedImage..recorded

(* An attempt *)
Attempt == [at : {"none", "dial", "noise", "attest", "verify", "row", "chain", "tip"}, peer : Int,
            hash : Nat, doc : [image : Int, nonce : Nat], tip : Int]

Lineage == \A i \in 1..Len(channels) : Trusted(channels[i].peer)

ConnectInv == /\ live \in Nat /\ recorded \in Nat /\ recorded <= live
              /\ channels \in Seq([peer : Int, open : BOOLEAN]) /\ Len(channels) > 0
              /\ \A i \in 1..Len(channels) - 1 : ~channels[i].open
              /\ Lineage
              /\ try \in Attempt
              /\ try.at # "none" => ~Latest.open
              /\ DocIsOfPeer

(* No attempt is under way: NoTry and what Abandon leaves *)
LEMMA NoTryFits == NoTry \in Attempt /\ NoTry.at = "none"
  BY SMTT(20), Z3T(20) DEF NoTry, Attempt, Document, NoEnclave, NoPin

(* A step that leaves the channels and the versions alone has only its     *)
(* attempt to answer for.                                                  *)
LEMMA AttemptMoves ==
    ASSUME ConnectInv, UNCHANGED <<live, recorded, channels>>, try' \in Attempt,
           try'.at # "none" => ~Latest.open, DocIsOfPeer'
    PROVE  ConnectInv'
  BY SMTT(20), Z3T(20) DEF ConnectInv, Latest, Lineage, Trusted

(* Giving up an attempt *)
LEMMA AbandonKeeps ==
    ASSUME ConnectInv, Abandon, UNCHANGED <<live, recorded, channels>>
    PROVE  ConnectInv'
  <1>1. try' = NoTry
    BY SMTT(20), Z3T(20) DEF Abandon
  <1>2. DocIsOfPeer'
    BY <1>1, NoTryFits, SMTT(20), Z3T(20) DEF DocIsOfPeer
  <1> QED BY <1>1, <1>2, NoTryFits, AttemptMoves, SMTT(20), Z3T(20)

(* A new channel goes where the verdict said, after a closed one. *)
LEMMA InstallKeeps ==
    ASSUME ConnectInv, Install, UNCHANGED <<live, recorded>>, ~Latest.open, Trusted(try.peer)
    PROVE  ConnectInv'
  <1> DEFINE new == [peer |-> try.peer, open |-> TRUE]
  <1>1. try' = NoTry /\ channels' = Append(channels, new)
    BY SMTT(20), Z3T(20) DEF Install, Abandon
  <1>2. new \in [peer : Int, open : BOOLEAN]
    BY SMTT(20), Z3T(20) DEF ConnectInv, Attempt
  <1>3. channels \in Seq([peer : Int, open : BOOLEAN]) /\ Len(channels) \in Nat /\ Len(channels) > 0
    BY SMTT(20), Z3T(20) DEF ConnectInv
  <1>4. /\ channels' \in Seq([peer : Int, open : BOOLEAN])
        /\ Len(channels') = Len(channels) + 1
        /\ \A i \in 1..Len(channels) : channels'[i] = channels[i]
        /\ channels'[Len(channels) + 1] = new
    <2> HIDE DEF new
    <2> QED BY <1>1, <1>2, <1>3, SMTT(20), Z3T(20)
  <1>5. \A i \in 1..Len(channels) : ~channels[i].open
    BY <1>3, SMTT(20), Z3T(20) DEF ConnectInv, Latest
  <1>6. \A i \in 1..Len(channels') : Trusted(channels'[i].peer)
    <2>1. \A i \in 1..Len(channels) : Trusted(channels[i].peer)
      BY SMTT(20), Z3T(20) DEF ConnectInv, Lineage
    <2>2. Trusted(new.peer)
      BY SMTT(20), Z3T(20)
    <2> HIDE DEF new
    <2>3. ASSUME NEW i \in 1..Len(channels') PROVE i \in 1..Len(channels) \/ i = Len(channels) + 1
      BY <1>3, <1>4, SMTT(20), Z3T(20)
    <2> QED BY <1>4, <2>1, <2>2, <2>3, Zenon
  <1>7. Lineage'
    BY <1>6, SMTT(20), Z3T(20) DEF Lineage, Trusted
  <1>8. DocIsOfPeer'
    BY <1>1, NoTryFits, SMTT(20), Z3T(20) DEF DocIsOfPeer
  <1> HIDE DEF new
  <1>9. live' \in Nat /\ recorded' \in Nat /\ recorded' <= live'
    BY SMTT(20), Z3T(20) DEF ConnectInv
  <1>10. Len(channels') > 0 /\ \A i \in 1..Len(channels') - 1 : ~channels'[i].open
    BY <1>3, <1>4, <1>5, SMTT(20), Z3T(20)
  <1>11. try' \in Attempt /\ try'.at = "none"
    BY <1>1, NoTryFits, SMTT(20), Z3T(20)
  <1> QED BY <1>4, <1>7, <1>8, <1>9, <1>10, <1>11, SMTT(20), Z3T(20) DEF ConnectInv

(* Every step of a client, of what it dials and of the enclave. *)
LEMMA ConnectStep == ConnectInv /\ [ConnectNext]_connectVars => ConnectInv'
  <1> SUFFICES ASSUME ConnectInv, [ConnectNext]_connectVars PROVE ConnectInv'
    BY SMTT(20), Z3T(20)
  <1>0. /\ try \in Attempt /\ DocIsOfPeer /\ (try.at # "none" => ~Latest.open)
        /\ live \in Nat /\ recorded \in Nat /\ recorded <= live
    BY SMTT(20), Z3T(20) DEF ConnectInv
  <1>1. ASSUME NEW peer \in 1..LastVersion \cup {Foreign, NoEnclave}, Dial(peer) PROVE ConnectInv'
    <2>1. peer \in Int
      BY ConnectConstants, SMTT(20), Z3T(20) DEF Foreign, NoEnclave
    <2>2. try' \in Attempt /\ try'.at = "noise"
      BY <1>0, <1>1, <2>1, ZenonT(20) DEF Dial, Attempt
    <2>3. DocIsOfPeer'
      BY <2>2, SMTT(20), Z3T(20) DEF DocIsOfPeer
    <2> QED BY <1>0, <1>1, <2>2, <2>3, AttemptMoves, SMTT(20), Z3T(20) DEF Dial
  <1>2. CASE Handshake
    <2>1. HandshakeHash \in Nat
      BY SMTT(20), Z3T(20) DEF HandshakeHash, ConnectInv
    <2>2. try' \in Attempt /\ try'.at = "attest"
      BY <1>0, <1>2, <2>1, ZenonT(20) DEF Handshake, Attempt
    <2>3. DocIsOfPeer'
      BY <2>2, SMTT(20), Z3T(20) DEF DocIsOfPeer
    <2> QED BY <1>0, <1>2, <2>2, <2>3, AttemptMoves, SMTT(20), Z3T(20) DEF Handshake
  <1>3. CASE RequestAttestation
    <2> DEFINE doc == Attestation(try.peer, try.hash)
    <2>1. /\ doc \in [image : Int, nonce : Nat]
          /\ doc.nonce = try.hash => doc.image = try.peer
      BY <1>0, SMTT(20), Z3T(20) DEF Attestation, Document, Attempt
    <2>2. try' = [try EXCEPT !.at = "verify", !.doc = doc]
      BY <1>3, SMTT(20), Z3T(20) DEF RequestAttestation
    <2> HIDE DEF doc
    <2>3. /\ try' \in Attempt /\ try'.at = "verify" /\ try'.doc = doc
          /\ try'.peer = try.peer /\ try'.hash = try.hash
      BY <1>0, <2>1, <2>2, ZenonT(20) DEF Attempt
    <2>4. DocIsOfPeer'
      BY <2>1, <2>3, SMTT(20), Z3T(20) DEF DocIsOfPeer, CheckNonce
    <2> QED BY <1>0, <1>3, <2>3, <2>4, AttemptMoves, SMTT(20), Z3T(20) DEF RequestAttestation
  <1>4. CASE VerifyPinned
    <2>1. CASE ValidateSession(try.doc, try.hash) /\ RequirePcrs(try.doc, PinnedImage)
      <3>1. try.peer = PinnedImage
        BY <1>0, <1>4, <2>1, SMTT(20), Z3T(20) DEF VerifyPinned, ValidateSession, RequirePcrs,
           DocIsOfPeer
      <3> QED BY <1>0, <1>4, <2>1, <3>1, InstallKeeps, SMTT(20), Z3T(20) DEF VerifyPinned, Trusted
    <2>2. CASE ~(ValidateSession(try.doc, try.hash) /\ RequirePcrs(try.doc, PinnedImage)) /\ TrustUpgrades
      <3>1. /\ try' \in Attempt /\ try'.at = "row" /\ try'.doc = try.doc
            /\ try'.peer = try.peer /\ try'.hash = try.hash
        BY <1>0, <1>4, <2>2, SMTT(20), Z3T(20) DEF VerifyPinned, Attempt
      <3>2. DocIsOfPeer'
        BY <1>0, <1>4, <2>2, <3>1, SMTT(20), Z3T(20) DEF VerifyPinned, DocIsOfPeer, CheckNonce,
           TrustUpgrades
      <3> QED BY <1>0, <1>4, <2>2, <3>1, <3>2, AttemptMoves, SMTT(20), Z3T(20) DEF VerifyPinned
    <2>3. CASE ~(ValidateSession(try.doc, try.hash) /\ RequirePcrs(try.doc, PinnedImage)) /\ ~TrustUpgrades
      BY <1>4, <2>3, AbandonKeeps, SMTT(20), Z3T(20) DEF VerifyPinned
    <2> QED BY <2>1, <2>2, <2>3, SMTT(20), Z3T(20)
  <1>5. CASE FetchRow
    <2>1. /\ try' \in Attempt /\ try'.at = "chain" /\ try'.doc = try.doc
          /\ try'.peer = try.peer /\ try'.hash = try.hash
      BY <1>0, <1>5, SMTT(20), Z3T(20) DEF FetchRow, Attempt
    <2>2. DocIsOfPeer'
      BY <1>0, <1>5, <2>1, SMTT(20), Z3T(20) DEF FetchRow, DocIsOfPeer, CheckNonce, TrustUpgrades
    <2> QED BY <1>0, <1>5, <2>1, <2>2, AttemptMoves, SMTT(20), Z3T(20) DEF FetchRow
  <1>6. CASE FetchChain
    <2> DEFINE tip == VerifyDescent(PinnedImage)
    <2>1. CASE tip = NoPin
      BY <1>6, <2>1, AbandonKeeps, SMTT(20), Z3T(20) DEF FetchChain
    <2>2. CASE tip # NoPin
      <3>1. tip = recorded /\ PinnedImage \in 1..recorded
        BY <2>2, SMTT(20), Z3T(20) DEF VerifyDescent
      <3>2. try' = [try EXCEPT !.at = "tip", !.tip = tip]
        BY <1>6, <2>2, SMTT(20), Z3T(20) DEF FetchChain
      <3>t. tip \in Int
        BY <1>0, <3>1, SMTT(20), Z3T(20)
      <3> HIDE DEF tip
      <3>u. /\ try' \in Attempt /\ try'.at = "tip" /\ try'.doc = try.doc /\ try'.tip = tip
            /\ try'.peer = try.peer /\ try'.hash = try.hash
        BY <1>0, <3>2, <3>t, ZenonT(20) DEF Attempt
      <3>3. /\ try' \in Attempt /\ try'.at = "tip" /\ try'.doc = try.doc /\ try'.tip = recorded
            /\ try'.peer = try.peer /\ try'.hash = try.hash
        BY <3>1, <3>u, SMTT(20), Z3T(20)
      <3>4. UNCHANGED <<live, recorded, channels>> /\ try.at = "chain"
        BY <1>6, SMTT(20), Z3T(20) DEF FetchChain
      <3>5. recorded \in PinnedImage..recorded
        BY <1>0, <3>1, SMTT(20), Z3T(20)
      <3>6. DocIsOfPeer'
        BY <1>0, <3>3, <3>4, <3>5, SMTT(20), Z3T(20) DEF DocIsOfPeer, CheckNonce, TrustUpgrades
      <3> QED BY <1>0, <3>3, <3>4, <3>6, AttemptMoves, SMTT(20), Z3T(20)
    <2> QED BY <2>1, <2>2, SMTT(20), Z3T(20)
  <1>7. CASE VerifyTip
    <2>1. CASE ValidateSession(try.doc, try.hash) /\ RequirePcrs(try.doc, try.tip)
      <3>1. try.at = "tip" /\ try.peer = try.tip /\ Follows /\ try.tip \in PinnedImage..recorded
        BY <1>0, <1>7, <2>1, SMTT(20), Z3T(20) DEF VerifyTip, ValidateSession, RequirePcrs,
           DocIsOfPeer, TrustUpgrades
      <3>2. Trusted(try.peer)
        BY <1>0, <3>1, ConnectConstants, SMTT(20), Z3T(20) DEF Trusted
      <3> QED BY <1>0, <1>7, <2>1, <3>1, <3>2, InstallKeeps, SMTT(20), Z3T(20) DEF VerifyTip
    <2>2. CASE ~(ValidateSession(try.doc, try.hash) /\ RequirePcrs(try.doc, try.tip))
      BY <1>7, <2>2, AbandonKeeps, SMTT(20), Z3T(20) DEF VerifyTip
    <2> QED BY <2>1, <2>2, SMTT(20), Z3T(20)
  <1>8. CASE EstablishFails
    BY <1>8, AbandonKeeps, SMTT(20), Z3T(20) DEF EstablishFails
  <1>9. ASSUME NEW c \in Clones, FindsClosed(c) \/ TakeLock(c) PROVE ConnectInv'
    <2> DEFINE dial == [NoTry EXCEPT !.at = "dial"]
    <2>1. UNCHANGED <<live, recorded, channels>> /\ (try' = try \/ (try' = dial /\ ~Latest.open))
      BY <1>9, SMTT(20), Z3T(20) DEF FindsClosed, TakeLock
    <2>2. dial \in Attempt /\ dial.at = "dial"
      BY NoTryFits, SMTT(20), Z3T(20) DEF Attempt
    <2> HIDE DEF dial
    <2>3. CASE try' = try
      BY <1>0, <2>1, <2>3, AttemptMoves, SMTT(20), Z3T(20) DEF DocIsOfPeer, CheckNonce,
         TrustUpgrades
    <2>4. CASE try' = dial /\ ~Latest.open
      <3>1. DocIsOfPeer'
        BY <2>2, <2>4, SMTT(20), Z3T(20) DEF DocIsOfPeer
      <3> QED BY <2>1, <2>2, <2>4, <3>1, AttemptMoves, SMTT(20), Z3T(20)
    <2> QED BY <2>1, <2>3, <2>4, SMTT(20), Z3T(20)
  <1>10. CASE ChannelEnds
    <2> DEFINE n == Len(channels)
               Channel == [peer : Int, open : BOOLEAN]
    <2>1. channels \in Seq(Channel) /\ n \in Nat /\ n > 0 /\ Lineage
          /\ \A i \in 1..n - 1 : ~channels[i].open
      BY SMTT(20), Z3T(20) DEF ConnectInv
    <2>2. channels' = [channels EXCEPT ![n] = [channels[n] EXCEPT !.open = FALSE]]
      BY <1>10, SMTT(20), Z3T(20) DEF ChannelEnds
    <2> HIDE DEF Channel
    <2>3. channels[n] \in Channel
      BY <2>1, SMTT(20), Z3T(20)
    <2> USE DEF Channel
    <2>4. /\ [channels[n] EXCEPT !.open = FALSE] \in Channel
          /\ [channels[n] EXCEPT !.open = FALSE].peer = channels[n].peer
          /\ ~[channels[n] EXCEPT !.open = FALSE].open
      BY <2>3, ZenonT(20)
    <2> HIDE DEF n, Channel
    <2>5. /\ channels' \in Seq(Channel) /\ Len(channels') = n
          /\ \A i \in 1..n : channels'[i] = IF i = n THEN [channels[n] EXCEPT !.open = FALSE] ELSE channels[i]
      BY <2>1, <2>2, <2>4, SMTT(20), Z3T(20) DEF n
    <2>6. \A i \in 1..n : ~channels'[i].open /\ channels'[i].peer = channels[i].peer
      <3> DEFINE last == [channels[n] EXCEPT !.open = FALSE]
      <3>1. last.peer = channels[n].peer /\ ~last.open
        BY <2>4, SMTT(20), Z3T(20)
      <3>2. ASSUME NEW i \in 1..n PROVE (i = n /\ channels'[i] = last) \/ (i \in 1..n - 1 /\ channels'[i] = channels[i])
        BY <2>1, <2>5, SMTT(20), Z3T(20)
      <3> HIDE DEF last
      <3> QED BY <2>1, <3>1, <3>2, Zenon
    <2>7. UNCHANGED <<live, recorded, try>>
      BY <1>10, SMTT(20), Z3T(20) DEF ChannelEnds
    <2>8. Lineage'
      BY <2>1, <2>5, <2>6, <2>7, SMTT(20), Z3T(20) DEF Lineage, Trusted, n
    <2>9. DocIsOfPeer'
      BY <1>0, <2>7, SMTT(20), Z3T(20) DEF DocIsOfPeer, CheckNonce, TrustUpgrades
    <2> QED BY <1>0, <2>1, <2>5, <2>6, <2>7, <2>8, <2>9, SMTT(20), Z3T(20) DEF ConnectInv,
               Latest, Channel
  <1>11. CASE Promote \/ RecordBoot
    <2>1. /\ live' \in Nat /\ recorded' \in Nat /\ recorded' <= live' /\ live <= live' /\ recorded <= recorded'
          /\ UNCHANGED <<try, channels>>
      BY <1>0, <1>11, SMTT(20), Z3T(20) DEF Promote, RecordBoot
    <2>2. \A peer \in Int : Trusted(peer) => Trusted(peer)'
      BY <1>0, <2>1, ConnectConstants, SMTT(20), Z3T(20) DEF Trusted
    <2>3. Lineage'
      <3> DEFINE Channel == [peer : Int, open : BOOLEAN]
      <3>0. channels \in Seq(Channel)
        BY SMTT(20), Z3T(20) DEF ConnectInv
      <3> HIDE DEF Channel
      <3>1. \A i \in 1..Len(channels) : channels[i] \in Channel
        BY <3>0, SMTT(20), Z3T(20)
      <3>2. \A i \in 1..Len(channels) : channels[i].peer \in Int
        BY <3>1, SMTT(20), Z3T(20) DEF Channel
      <3> QED BY <2>1, <2>2, <3>2, SMTT(20), Z3T(20) DEF ConnectInv, Lineage
    <2>4. DocIsOfPeer'
      BY <1>0, <2>1, ConnectConstants, SMTT(20), Z3T(20) DEF DocIsOfPeer, CheckNonce,
         TrustUpgrades
    <2> QED BY <2>1, <2>3, <2>4, SMTT(20), Z3T(20) DEF ConnectInv, Latest
  <1>12. CASE ClockJumps \/ UNCHANGED connectVars
    <2>1. UNCHANGED <<live, recorded, try, channels>>
      BY <1>12, SMTT(20), Z3T(20) DEF ClockJumps, connectVars
    <2>2. DocIsOfPeer'
      BY <1>0, <2>1, SMTT(20), Z3T(20) DEF DocIsOfPeer, CheckNonce, TrustUpgrades
    <2> QED BY <1>0, <2>1, <2>2, AttemptMoves, SMTT(20), Z3T(20)
  <1> QED BY <1>1, <1>2, <1>3, <1>4, <1>5, <1>6, <1>7, <1>8, <1>9, <1>10, <1>11, <1>12,
             SMTT(20), Z3T(20) DEF ConnectNext

(* Whatever a dial reaches and whatever is promoted meanwhile, a client    *)
(* whose first channel was accepted has one open channel at most and every *)
(* channel of it ends in the lineage it pinned (establish_channel and      *)
(* ensure_connected).                                                      *)
THEOREM ChannelsAreTrusted ==
    ConnectInit /\ EndsInLineage /\ [][ConnectNext]_connectVars => []ChannelIsTrusted
  <1>1. ConnectInit /\ EndsInLineage => ConnectInv
    <2> SUFFICES ASSUME ConnectInit, EndsInLineage PROVE ConnectInv
      BY SMTT(20), Z3T(20)
    <2>1. /\ live = 1 /\ recorded = 1 /\ try = NoTry
          /\ channels \in Seq([peer : Int, open : BOOLEAN]) /\ Len(channels) = 1
      BY SMTT(20), Z3T(20) DEF ConnectInit
    <2>2. Lineage
      BY <2>1, SMTT(20), Z3T(20) DEF EndsInLineage, Lineage, Trusted
    <2>3. DocIsOfPeer
      BY <2>1, NoTryFits, SMTT(20), Z3T(20) DEF DocIsOfPeer
    <2> QED BY <2>1, <2>2, <2>3, NoTryFits, SMTT(20), Z3T(20) DEF ConnectInv
  <1>2. ConnectInv => ChannelIsTrusted
    <2> SUFFICES ASSUME ConnectInv PROVE ChannelIsTrusted
      BY SMTT(20), Z3T(20)
    <2>1. /\ DOMAIN channels = 1..Len(channels) /\ Len(channels) \in Nat
          /\ \A i \in 1..Len(channels) - 1 : ~channels[i].open
      BY SMTT(20), Z3T(20) DEF ConnectInv
    <2>2. EndsInLineage
      BY <2>1, SMTT(20), Z3T(20) DEF ConnectInv, Lineage, Trusted, EndsInLineage
    <2>3. OneOpenChannel
      BY <2>1, SMTT(20), Z3T(20) DEF OneOpenChannel
    <2> QED BY <2>2, <2>3, SMTT(20), Z3T(20) DEF ChannelIsTrusted
  <1> QED BY <1>1, <1>2, ConnectStep, PTL

=============================================================================
