------------------------ MODULE UpgradeIngestProofs ------------------------
(***************************************************************************)
(* What the backend's ingest recorded is a chain that walks, for any       *)
(* number of upgrades, revocations and boots.                              *)
(***************************************************************************)
EXTENDS UpgradeControlProofs

-----------------------------------------------------------------------------
(* The last boot of a chain *)

BootsOf(links) == {i \in DOMAIN links : links[i].kind = "boot"}

\* A link at the end of a chain
LEMMA Grown ==
    ASSUME NEW links, \E T : links \in Seq(T), NEW x
    PROVE  /\ \E T : Append(links, x) \in Seq(T)
           /\ Len(links) \in Nat /\ Len(Append(links, x)) = Len(links) + 1
           /\ DOMAIN links = 1 .. Len(links) /\ DOMAIN Append(links, x) = 1 .. Len(links) + 1
           /\ Append(links, x)[Len(links) + 1] = x
           /\ \A i \in 1 .. Len(links) : Append(links, x)[i] = links[i]
           /\ \A n \in 0 .. Len(links) : SubSeq(Append(links, x), 1, n) = SubSeq(links, 1, n)
  <1>1. PICK T : links \in Seq(T)
    BY Zenon
  <1>2. links \in Seq(T \cup {x})
    BY <1>1, SMTT(30), Z3T(30)
  <1>3. Append(links, x) \in Seq(T \cup {x}) /\ Len(links) \in Nat
        /\ Len(Append(links, x)) = Len(links) + 1 /\ DOMAIN links = 1 .. Len(links)
        /\ DOMAIN Append(links, x) = 1 .. Len(links) + 1
        /\ Append(links, x)[Len(links) + 1] = x
        /\ \A i \in 1 .. Len(links) : Append(links, x)[i] = links[i]
    BY <1>2, SMTT(30), Z3T(30)
  <1>4. ASSUME NEW n \in 0 .. Len(links)
        PROVE  SubSeq(Append(links, x), 1, n) = SubSeq(links, 1, n)
    <2> DEFINE s == Append(links, x)
    <2>1. s \in Seq(T \cup {x}) /\ n \in 0 .. Len(s) /\ \A i \in 1 .. n : s[i] = links[i]
      BY <1>3, SMTT(30), Z3T(30)
    <2> HIDE DEF s
    <2>2. SubSeq(s, 1, n) \in Seq(T \cup {x}) /\ SubSeq(links, 1, n) \in Seq(T \cup {x})
          /\ Len(SubSeq(s, 1, n)) = n /\ Len(SubSeq(links, 1, n)) = n
          /\ \A i \in 1 .. n : SubSeq(s, 1, n)[i] = s[i] /\ SubSeq(links, 1, n)[i] = links[i]
      BY <1>2, <2>1, SMTT(30), Z3T(30)
    <2>3. SubSeq(s, 1, n) = SubSeq(links, 1, n)
      BY <2>1, <2>2, SMTT(30), Z3T(30)
    <2> QED BY <2>3, Zenon DEF s
  <1> QED BY <1>3, <1>4, Zenon

\* The walk's prefixes grow link by link, up to the chain.
LEMMA PrefixGrows ==
    ASSUME NEW links, \E T : links \in Seq(T)
    PROVE  /\ SubSeq(links, 1, Len(links)) = links
           /\ \A n \in 0 .. Len(links) - 1 :
                 SubSeq(links, 1, n + 1) = Append(SubSeq(links, 1, n), links[n + 1])
  <1>1. PICK T : links \in Seq(T)
    BY Zenon
  <1>2. SubSeq(links, 1, Len(links)) = links
    BY <1>1, SMTT(30), Z3T(30)
  <1>3. ASSUME NEW n \in 0 .. Len(links) - 1
        PROVE  SubSeq(links, 1, n + 1) = Append(SubSeq(links, 1, n), links[n + 1])
    <2> DEFINE a == SubSeq(links, 1, n)
    <2> DEFINE b == SubSeq(links, 1, n + 1)
    <2>1. /\ a \in Seq(T) /\ Len(a) = n /\ \A i \in 1 .. n : a[i] = links[i]
          /\ b \in Seq(T) /\ Len(b) = n + 1 /\ \A i \in 1 .. n + 1 : b[i] = links[i]
          /\ links[n + 1] \in T /\ n \in Nat
      BY <1>1, SMTT(30), Z3T(30)
    <2> HIDE DEF a, b
    <2> DEFINE x == links[n + 1]
    <2>2. /\ Append(a, x) \in Seq(T) /\ Len(Append(a, x)) = n + 1
          /\ Append(a, x)[n + 1] = x /\ \A i \in 1 .. n : Append(a, x)[i] = a[i]
      BY <2>1, SMTT(30), Z3T(30)
    <2>3. \A i \in 1 .. n + 1 : Append(a, x)[i] = b[i]
      <3> SUFFICES ASSUME NEW i \in 1 .. n + 1 PROVE Append(a, x)[i] = b[i]
        BY ZenonT(30)
      <3>1. i \in 1 .. n \/ i = n + 1
        BY <2>1, SMTT(30), Z3T(30)
      <3> QED BY <2>1, <2>2, <3>1, Zenon
    <2>4. Append(a, x) = b
      BY <2>1, <2>2, <2>3, SMTT(30), Z3T(30)
    <2> QED BY <2>4, Zenon DEF a, b
  <1> QED BY <1>2, <1>3, Zenon

\* A boot at the end is the last boot.
LEMMA BootIsLast ==
    ASSUME NEW links, \E T : links \in Seq(T), NEW x, x.kind = "boot"
    PROVE  LastBoot(Append(links, x)) = x
  <1> DEFINE s == Append(links, x)
  <1> DEFINE n == Len(links)
  <1>1. n \in Nat /\ DOMAIN s = 1 .. n + 1 /\ s[n + 1] = x
    BY Grown, ZenonT(30)
  <1> HIDE DEF s, n
  <1>2. BootsOf(s) \in SUBSET (1 .. n + 1) /\ n + 1 \in BootsOf(s)
    <2>1. n + 1 \in 1 .. n + 1
      BY <1>1, SMTT(30), Z3T(30)
    <2> QED BY <1>1, <2>1, ZenonT(30) DEF BootsOf
  <1>3. PICK i \in BootsOf(s) : (\A j \in BootsOf(s) : j <= i) /\ Latest(s, BootsOf(s)) = s[i]
    <2>1. n + 1 \in Nat /\ BootsOf(s) # {}
      BY <1>1, <1>2, SMTT(30), Z3T(30)
    <2> QED BY <1>2, <2>1, LatestIs, ZenonT(30)
  <1>4. i = n + 1
    BY <1>1, <1>2, <1>3, SMTT(30), Z3T(30)
  <1> QED BY <1>1, <1>3, <1>4, ZenonT(30) DEF LastBoot, BootsOf, s

\* Any other link at the end leaves the last boot.
LEMMA LastBootStays ==
    ASSUME NEW links, \E T : links \in Seq(T), NEW x, x.kind # "boot"
    PROVE  LastBoot(Append(links, x)) = LastBoot(links)
  <1> DEFINE s == Append(links, x)
  <1> DEFINE n == Len(links)
  <1>1. /\ n \in Nat /\ DOMAIN s = 1 .. n + 1 /\ s[n + 1] = x /\ DOMAIN links = 1 .. n
        /\ \A i \in 1 .. n : s[i] = links[i]
    BY Grown, SMTT(30), Z3T(30)
  <1> HIDE DEF s, n
  <1>2. BootsOf(s) = BootsOf(links) /\ BootsOf(links) \in SUBSET (1 .. n)
    <2>1. \A i \in 1 .. n + 1 : i \in 1 .. n \/ i = n + 1
      BY <1>1, SMTT(30), Z3T(30)
    <2>2. \A i \in 1 .. n : i \in 1 .. n + 1
      BY <1>1, SMTT(30), Z3T(30)
    <2> QED BY <1>1, <2>1, <2>2, ZenonT(30) DEF BootsOf
  <1>3. CASE BootsOf(links) = {}
    BY <1>2, <1>3, ZenonT(30) DEF LastBoot, BootsOf, Latest, s
  <1>4. CASE BootsOf(links) # {}
    <2> DEFINE S == BootsOf(links)
    <2> HIDE DEF S
    <2>1. S \in SUBSET (1 .. n) /\ S # {}
      BY <1>2, <1>4, Zenon DEF S
    <2>2. PICK i \in S : (\A j \in S : j <= i) /\ Latest(links, S) = links[i]
      BY <1>1, <2>1, LatestIs, ZenonT(30)
    <2>3. PICK k \in S : (\A j \in S : j <= k) /\ Latest(s, S) = s[k]
      BY <1>1, <2>1, LatestIs, ZenonT(30)
    <2>4. i = k
      BY <1>1, <2>1, <2>2, <2>3, SMTT(30), Z3T(30)
    <2>5. Latest(s, S) = Latest(links, S)
      BY <1>1, <2>1, <2>2, <2>3, <2>4, Zenon
    <2> QED BY <1>2, <2>5, ZenonT(30) DEF LastBoot, BootsOf, S, s
  <1> QED BY <1>3, <1>4, Zenon

\* A chain with a boot has a last one.
LEMMA LastBootFound ==
    ASSUME NEW links, \E T : links \in Seq(T), NEW k \in DOMAIN links, links[k].kind = "boot"
    PROVE  /\ LastBoot(links) # NoLink
           /\ \E i \in DOMAIN links : LastBoot(links) = links[i] /\ links[i].kind = "boot"
  <1>1. Len(links) \in Nat /\ BootsOf(links) \in SUBSET (1 .. Len(links)) /\ BootsOf(links) # {}
    BY SMTT(30), Z3T(30) DEF BootsOf
  <1>2. PICK i \in BootsOf(links) : Latest(links, BootsOf(links)) = links[i]
    BY <1>1, LatestIs, ZenonT(30)
  <1>3. i \in DOMAIN links /\ links[i].kind = "boot" /\ NoLink.kind = "none"
    BY Zenon DEF BootsOf, NoLink
  <1>4. LastBoot(links) = links[i]
    BY <1>2, ZenonT(30) DEF LastBoot, BootsOf
  <1> QED BY <1>3, <1>4, Zenon

-----------------------------------------------------------------------------
(* What was ingested, and where the enclave stands *)

\* Link n + 1 passed ingest after the links prior: the image that attested it is
\* the one the chain had in force, or the one its upgrades promote.
Placed(prior, l, n) ==
    /\ l.id = n
    /\ ValidateChainLink(l, ThisEnclave, l.doc.id.image, prior, l.recorded_at) = "append"
    /\ l.kind # "boot" => LastBoot(prior) # NoLink /\ LastBoot(prior).payload.image = l.doc.id.image
    /\ l.kind = "boot" /\ n # 0 =>
          /\ PromotionTarget(prior, l.payload.image) # NoLink
          /\ PromotionTarget(prior, l.payload.image).payload.to = l.doc.id
PlacedInv ==
    \A n \in 0 .. Len(chain) - 1 : Placed(SubSeq(chain, 1, n), chain[n + 1], n)

\* An enclave that serves is the image of the row, and its boot is on the chain.
ServingInv ==
    phase = "serving" =>
        up = row /\ LastBoot(chain) # NoLink /\ LastBoot(chain).payload.image = row

\* While the row is ahead of the chain's last boot an upgrade that took effect,
\* and so can no longer be revoked, explains it.
PromotedInv ==
    LastBoot(chain) # NoLink /\ LastBoot(chain).payload.image # row =>
        \E i \in Explaining(chain, row) : chain[i].payload.valid_from <= clock

IngestInv == PlacedInv /\ ServingInv /\ PromotedInv

\* A link on the chain has its place for an id.
LEMMA ChainIds ==
    ASSUME PlacedInv, \E T : chain \in Seq(T), NEW i \in DOMAIN chain
    PROVE  chain[i].id = i - 1 /\ Placed(SubSeq(chain, 1, i - 1), chain[i], i - 1)
  <1>1. i - 1 \in 0 .. Len(chain) - 1 /\ (i - 1) + 1 = i
    BY SMTT(30), Z3T(30)
  <1>2. Placed(SubSeq(chain, 1, i - 1), chain[(i - 1) + 1], i - 1)
    BY <1>1, ZenonT(30) DEF PlacedInv
  <1>3. Placed(SubSeq(chain, 1, i - 1), chain[i], i - 1)
    BY <1>1, <1>2, Zenon
  <1> QED BY <1>3, ZenonT(30) DEF Placed

\* The chain starts with a boot.
LEMMA ChainStartsBooted ==
    ASSUME PlacedInv, \E T : chain \in Seq(T), Len(chain) # 0
    PROVE  chain[1].kind = "boot" /\ LastBoot(chain) # NoLink
  <1>1. 0 \in 0 .. Len(chain) - 1 /\ 1 \in DOMAIN chain /\ 0 + 1 = 1 /\ 0 \in 0 .. Len(chain)
    BY SMTT(30), Z3T(30)
  <1>2. Placed(SubSeq(chain, 1, 0), chain[0 + 1], 0)
    BY <1>1, ZenonT(30) DEF PlacedInv
  <1>3. SubSeq(chain, 1, 0) = <<>>
    BY <1>1, Prefix, Zenon
  <1>4. LastBoot(<<>>) = NoLink
    BY SMTT(30), Z3T(30) DEF LastBoot, Latest
  <1>5. chain[1].kind = "boot"
    BY <1>1, <1>2, <1>3, <1>4, ZenonT(30) DEF Placed
  <1> QED BY <1>1, <1>5, LastBootFound, ZenonT(30)

\* The backend stores the link it validated.
LEMMA RecordedFields ==
    ASSUME NEW link, NEW id, NEW at
    PROVE  /\ Recorded(link, id, at).kind = link.kind
           /\ Recorded(link, id, at).payload = link.payload
           /\ Recorded(link, id, at).doc = link.doc
           /\ Recorded(link, id, at).id = id /\ Recorded(link, id, at).recorded_at = at
  BY Zenon DEF Recorded

\* What ingest says of a link it says of the stored one.
SameVerdict(x, link) ==
    \A image, prior, now : ValidateChainLink(x, ThisEnclave, image, prior, now)
                              = ValidateChainLink(link, ThisEnclave, image, prior, now)

\* validate_chain_link reads none of the fields that storing a link sets.
LEMMA RecordedVerdict ==
    ASSUME NEW link, NEW id, NEW at
    PROVE  SameVerdict(Recorded(link, id, at), link)
  <1> DEFINE x == Recorded(link, id, at)
  <1> SUFFICES ASSUME NEW image, NEW prior, NEW now
               PROVE  ValidateChainLink(x, ThisEnclave, image, prior, now)
                        = ValidateChainLink(link, ThisEnclave, image, prior, now)
    BY ZenonT(30) DEF SameVerdict
  <1>1. x.kind = link.kind /\ x.payload = link.payload /\ x.doc = link.doc /\ x.sig = link.sig
    BY Zenon DEF Recorded
  <1> HIDE DEF x
  <1>2. /\ Attests(x, image) <=> Attests(link, image)
        /\ PayloadSeen(x, prior) <=> PayloadSeen(link, prior)
        /\ SignatureVerifies(x) <=> SignatureVerifies(link)
    BY <1>1, ZenonT(30) DEF Attests, PayloadSeen, SignatureVerifies
  <1>3. ValidateBoot(x, ThisEnclave, image, prior) = ValidateBoot(link, ThisEnclave, image, prior)
    BY <1>1, ZenonT(30) DEF ValidateBoot
  <1>4. ValidateSigned(x, ThisEnclave, prior, now) = ValidateSigned(link, ThisEnclave, prior, now)
    BY <1>1, <1>2, ZenonT(30) DEF ValidateSigned
  <1>5. ValidateChainLink(x, ThisEnclave, image, prior, now)
          = ValidateChainLink(link, ThisEnclave, image, prior, now)
    BY <1>1, <1>2, <1>3, <1>4, ZenonT(30) DEF ValidateChainLink
  <1> QED BY <1>5, Zenon

\* What ingest appends is attested by the row's image: a boot of it, or a signed
\* link of the image that serves.
LEMMA AppendedLink ==
    ASSUME NEW link, Appends(link), ControlInv
    PROVE  /\ link.doc.id = Identity(row, User) /\ up = row
           /\ link.kind = "boot" => phase = "open" /\ link.payload.image = row
           /\ link.kind # "boot" => phase = "serving"
           /\ ValidateChainLink(link, ThisEnclave, row, chain, clock) = "append"
  <1>1. Attests(link, row) /\ ValidateChainLink(link, ThisEnclave, row, chain, clock) = "append"
    BY Zenon DEF Appends, ValidateChainLink, Refused
  <1>2. CASE phase = "serving"
    <2>1. link = EmittedLink(handler.cmd.kind, handler.cmd.payload, Me, DomainOf(handler.cmd.kind))
          /\ handler.step = "submit"
      BY <1>2, Zenon DEF Appends, Emits
    <2>2. handler.cmd.kind # "boot"
      BY <2>1, Zenon DEF ControlInv, HandlerInv, WireInv
    <2>3. link.kind = handler.cmd.kind /\ link.doc.id = Me
      BY <2>1, Zenon DEF EmittedLink
    <2> QED BY <1>1, <1>2, <2>2, <2>3, SMTT(30), Z3T(30) DEF Attests, Me, Identity
  <1>3. CASE phase # "serving"
    <2>1. phase = "open" /\ link = EmittedLink("boot", BootPayload(ThisEnclave, Me, clock, boots), Me, NoSig)
      BY <1>3, Zenon DEF Appends, Emits
    <2>2. link.kind = "boot" /\ link.doc.id = Me /\ link.payload.image = Me.image
      BY <2>1, Zenon DEF EmittedLink, BootPayload
    <2> QED BY <1>1, <2>1, <2>2, Zenon DEF Attests, Me, Identity
  <1> QED BY <1>2, <1>3, Zenon

\* The upgrade links of the chain were signed for an image of this enclave.
LEMMA ChainUpgrades ==
    ASSUME ControlInv, NEW i \in DOMAIN chain, chain[i].kind = "upgrade"
    PROVE  /\ chain[i].payload.to = Identity(chain[i].payload.to.image, User)
           /\ chain[i].payload.valid_from \in Int
  <1>1. i \in 1 .. Len(chain)
    BY ChainSeq, Zenon DEF ControlInv, ChainInv
  <1>2. PICK s \in signedFor : chain[i].payload = s.payload
    BY <1>1, Zenon DEF ControlInv, ChainInv, LinkInv, Signed
  <1>3. s.payload.to = Identity(s.target, User) /\ s.payload.valid_from \in Int
    BY ZenonT(30) DEF ControlInv, SignedInv, SignedAsIntended
  <1> QED BY <1>2, <1>3, SMTT(30), Z3T(30) DEF Identity

\* Every appended link has its place.
LEMMA PlacedInvStep ==
    ASSUME ControlInv, IngestInv, Next
    PROVE  PlacedInv'
  <1>1. \E T : chain \in Seq(T)
    BY Zenon DEF ControlInv, ChainInv
  <1>2. CASE chain' = chain
    BY <1>2, ZenonT(30) DEF IngestInv, PlacedInv
  <1>3. ASSUME NEW link, Appends(link) PROVE PlacedInv'
    <2> DEFINE N == Len(chain)
    <2> DEFINE x == Recorded(link, N, clock)
    <2>1. chain' = Append(chain, x)
      BY <1>3, ZenonT(30) DEF Appends
    <2>2. /\ N \in Nat /\ Len(chain') = N + 1 /\ chain'[N + 1] = x
          /\ \A i \in 1 .. N : chain'[i] = chain[i]
          /\ \A n \in 0 .. N : SubSeq(chain', 1, n) = SubSeq(chain, 1, n)
      BY <1>1, <2>1, Grown, SMTT(30), Z3T(30)
    <2>3. SubSeq(chain, 1, N) = chain
      BY <1>1, PrefixGrows, Zenon
    <2>4. /\ x.kind = link.kind /\ x.payload = link.payload /\ x.doc = link.doc
          /\ x.id = N /\ x.recorded_at = clock
          /\ ValidateChainLink(x, ThisEnclave, row, chain, clock)
               = ValidateChainLink(link, ThisEnclave, row, chain, clock)
      <3>1. /\ x.kind = link.kind /\ x.payload = link.payload /\ x.doc = link.doc
            /\ x.id = N /\ x.recorded_at = clock
        BY RecordedFields, SMTT(30), Z3T(30)
      <3>2. SameVerdict(x, link)
        BY RecordedVerdict, ZenonT(30)
      <3> HIDE DEF x
      <3> QED BY <3>1, <3>2, ZenonT(30) DEF SameVerdict
    <2>5. /\ link.doc.id = Identity(row, User) /\ up = row
          /\ link.kind = "boot" => phase = "open" /\ link.payload.image = row
          /\ link.kind # "boot" => phase = "serving"
          /\ ValidateChainLink(link, ThisEnclave, row, chain, clock) = "append"
      BY <1>3, AppendedLink, ZenonT(30)
    <2>6. link.doc.id.image = row
      BY <2>5, SMTT(30), Z3T(30) DEF Identity
    <2>7. ASSUME link.kind = "boot", N # 0
          PROVE  /\ PromotionTarget(chain, row) # NoLink
                 /\ PromotionTarget(chain, row).payload.to = link.doc.id
      <3>1. LastBoot(chain) # NoLink
        BY <1>1, <2>7, ChainStartsBooted, Zenon DEF IngestInv
      <3>2. LastBoot(chain).payload.image # row
        BY <2>5, <2>7, <3>1, Zenon DEF ValidateChainLink, ValidateBoot, Refused
      <3>3. Explaining(chain, row) # {}
        BY <3>1, <3>2, Zenon DEF IngestInv, PromotedInv
      <3>4. PICK i \in Explaining(chain, row) : PromotionTarget(chain, row) = chain[i]
        BY <1>1, <3>3, PromotionFound, ZenonT(30)
      <3>5. i \in DOMAIN chain /\ chain[i].kind = "upgrade" /\ chain[i].payload.to.image = row
        BY <3>4, Zenon DEF Explaining
      <3>6. chain[i].payload.to = Identity(row, User)
        BY <3>5, ChainUpgrades, Zenon
      <3>7. NoLink.kind = "none"
        BY Zenon DEF NoLink
      <3> QED BY <2>5, <3>4, <3>5, <3>6, <3>7, Zenon
    <2>8. ASSUME link.kind # "boot"
          PROVE  LastBoot(chain) # NoLink /\ LastBoot(chain).payload.image = row
      BY <2>5, <2>8, Zenon DEF IngestInv, ServingInv
    <2> HIDE DEF x, N
    <2>9. Placed(chain, x, N)
      BY <2>4, <2>5, <2>6, <2>7, <2>8, Zenon DEF Placed
    <2>10. ASSUME NEW n \in 0 .. Len(chain') - 1
           PROVE  Placed(SubSeq(chain', 1, n), chain'[n + 1], n)
      <3>1. CASE n = N
        <4>1. SubSeq(chain', 1, n) = chain /\ chain'[n + 1] = x
          BY <2>2, <2>3, <3>1, SMTT(30), Z3T(30)
        <4> QED BY <2>9, <3>1, <4>1, ZenonT(30)
      <3>2. CASE n # N
        <4>1. n \in 0 .. N - 1 /\ n + 1 \in 1 .. N /\ n \in 0 .. N
          BY <2>2, <3>2, SMTT(30), Z3T(30)
        <4>2. SubSeq(chain', 1, n) = SubSeq(chain, 1, n) /\ chain'[n + 1] = chain[n + 1]
          BY <2>2, <4>1, Zenon
        <4>3. Placed(SubSeq(chain, 1, n), chain[n + 1], n)
          BY <4>1, ZenonT(30) DEF IngestInv, PlacedInv, N
        <4> QED BY <4>2, <4>3, ZenonT(30)
      <3> QED BY <3>1, <3>2, Zenon
    <2> QED BY <2>10, ZenonT(30) DEF PlacedInv
  <1> QED BY <1>2, <1>3, ChainMoves, ZenonT(30)

\* Until it goes down an enclave that serves stays where its boot put it.
LEMMA ServingInvStep ==
    ASSUME ControlInv, IngestInv, Next
    PROVE  ServingInv'
  <1> SUFFICES ASSUME phase' = "serving"
               PROVE  up' = row' /\ LastBoot(chain') # NoLink /\ LastBoot(chain').payload.image = row'
    BY ZenonT(30) DEF ServingInv
  <1>1. \E T : chain \in Seq(T)
    BY Zenon DEF ControlInv, ChainInv
  <1>2. ASSUME NEW link, Appends(link), link.kind # "boot" PROVE LastBoot(chain') = LastBoot(chain)
    <2> DEFINE x == Recorded(link, Len(chain), clock)
    <2>1. chain' = Append(chain, x) /\ x.kind # "boot"
      <3>1. x.kind = link.kind
        BY RecordedFields, SMTT(30), Z3T(30)
      <3> HIDE DEF x
      <3> QED BY <1>2, <3>1, ZenonT(30) DEF Appends, x
    <2> HIDE DEF x
    <2> QED BY <1>1, <2>1, LastBootStays, Zenon
  <1>3. CASE phase = "serving" /\ UNCHANGED <<row, up>>
    <2>1. up = row /\ LastBoot(chain) # NoLink /\ LastBoot(chain).payload.image = row
      BY <1>3, Zenon DEF IngestInv, ServingInv
    <2>2. chain' = chain \/ \E link : Appends(link)
      BY ChainMoves, ZenonT(30)
    <2>3. ASSUME NEW link, Appends(link) PROVE link.kind # "boot"
      BY <1>3, <2>3, AppendedLink, Zenon
    <2>4. LastBoot(chain') = LastBoot(chain)
      BY <1>2, <2>2, <2>3, ZenonT(30)
    <2> QED BY <1>3, <2>1, <2>4, Zenon
  <1>4. CASE BootLinks
    <2>1. PICK a \in Answers : BootLink(a)
      BY <1>4, ZenonT(30) DEF BootLinks
    <2> DEFINE link == EmittedLink("boot", BootPayload(ThisEnclave, Me, clock, boots), Me, NoSig)
    <2>2. a = "ack" /\ phase = "open" /\ Submit(link, a) /\ UNCHANGED <<volumeVars, row>>
      BY <2>1, Zenon DEF BootLink
    <2>3. Accepts(link) /\ chain' = Ingest(link)
      BY <2>2, Zenon DEF Submit
    <2>4. link.kind = "boot" /\ link.doc.id = Me /\ link.payload.image = Me.image
      BY Zenon DEF EmittedLink, BootPayload
    <2> HIDE DEF link
    <2>5. Attests(link, row) /\ ValidateChainLink(link, ThisEnclave, row, chain, clock) # Refused
      BY <2>3, Zenon DEF Accepts, ValidateChainLink
    <2>6. up = row /\ link.payload.image = row /\ up' = row'
      BY <2>2, <2>4, <2>5, Zenon DEF Attests, Me, Identity, volumeVars
    <2>7. CASE ValidateChainLink(link, ThisEnclave, row, chain, clock) = "append"
      <3> DEFINE x == Recorded(link, Len(chain), clock)
      <3>1. chain' = Append(chain, x)
        BY <2>3, <2>7, ZenonT(30) DEF Ingest
      <3>2. x.kind = "boot" /\ x.payload.image = row
        BY <2>4, <2>6, RecordedFields, SMTT(30), Z3T(30)
      <3>3. NoLink.kind = "none"
        BY Zenon DEF NoLink
      <3> HIDE DEF x
      <3>4. LastBoot(chain') = x
        BY <1>1, <3>1, <3>2, BootIsLast, Zenon
      <3> QED BY <2>2, <2>6, <3>2, <3>3, <3>4, Zenon
    <2>8. CASE ValidateChainLink(link, ThisEnclave, row, chain, clock) # "append"
      <3>1. chain' = chain
        BY <2>3, <2>8, ZenonT(30) DEF Ingest
      <3>2. LastBoot(chain) # NoLink /\ LastBoot(chain).payload.image = row
        BY <2>4, <2>5, <2>6, <2>8, ZenonT(30) DEF ValidateChainLink, ValidateBoot
      <3> QED BY <2>2, <2>6, <3>1, <3>2, Zenon
    <2> QED BY <2>7, <2>8, Zenon
  <1>5. (phase = "serving" /\ UNCHANGED <<row, up>>) \/ BootLinks
    <2>1. CASE Tick \/ OwnerStep \/ Handles \/ Submits
      BY <2>1, TickFrame, OwnerFrame, HandleFrame, SubmitFrame, ZenonT(30) DEF volumeVars
    <2>2. CASE HandlerStep
      <3>1. phase' = phase /\ row' = row
        BY <2>2, HandlerFrame, ZenonT(30)
      <3>2. up' = up
        BY <2>2, ZenonT(30) DEF HandlerStep, RunPrepareUpgrade, PrepareJob, RunRevokeUpgrade, RevokeJob,
           PrepareStash, PrepareAdd, PrepareVerify, PrepareSeal, RevokeUnseal, RevokeKill,
           RevokeRestore, volumeVars
      <3> QED BY <3>1, <3>2, Zenon
    <2>3. CASE Cuts \/ CrashEnclave \/ BootPin \/ BootVolume
      BY <2>3, ZenonT(30) DEF Cuts, Cutover, CrashEnclave, BootPin, BootVolume
    <2> QED BY <2>1, <2>2, <2>3, NextSteps, ZenonT(30) DEF LifeStep
  <1> QED BY <1>3, <1>4, <1>5, Zenon

\* A cutover is explained by its upgrade, and stays so: a revocation is ingested
\* only of an upgrade that has not taken effect.
LEMMA PromotedInvStep ==
    ASSUME ControlInv, IngestInv, Next
    PROVE  PromotedInv'
  <1>1. \E T : chain \in Seq(T)
    BY Zenon DEF ControlInv, ChainInv
  <1>2. CASE chain' = chain /\ row' = row
    <2> SUFFICES ASSUME LastBoot(chain) # NoLink, LastBoot(chain).payload.image # row
                 PROVE  \E i \in Explaining(chain, row) : chain[i].payload.valid_from <= clock'
      BY <1>2, ZenonT(30) DEF PromotedInv
    <2>1. PICK i \in Explaining(chain, row) : chain[i].payload.valid_from <= clock
      BY Zenon DEF IngestInv, PromotedInv
    <2>2. chain[i].payload.valid_from \in Int
      BY <2>1, ChainUpgrades, ZenonT(30) DEF Explaining
    <2>3. clock \in Nat /\ (clock' = clock \/ clock' = clock + 1)
      BY NextSteps, OwnerFrame, HandlerFrame, LifeFrame, HandleFrame, SubmitFrame,
         ZenonT(30) DEF Tick, ControlInv, RowInv
    <2>4. chain[i].payload.valid_from <= clock'
      BY <2>1, <2>2, <2>3, SMTT(30), Z3T(30)
    <2> QED BY <2>1, <2>4, Zenon
  <1>3. CASE Cuts
    <2>1. PICK i \in DOMAIN chain : Cutover(i)
      BY <1>3, ZenonT(30) DEF Cuts
    <2>2. /\ chain[i].kind = "upgrade" /\ row' = chain[i].payload.to.image
          /\ chain[i] = PromotionTarget(chain, row') /\ chain[i].payload.valid_from <= clock
          /\ UNCHANGED <<clock, chain>>
      BY <2>1, ZenonT(30) DEF Cutover
    <2>3. PromotionTarget(chain, row') # NoLink
      <3>1. NoLink.kind = "none"
        BY Zenon DEF NoLink
      <3> QED BY <2>2, <3>1, ZenonT(30)
    <2>4. PICK j \in Explaining(chain, row') : PromotionTarget(chain, row') = chain[j]
      BY <1>1, <2>3, PromotionFound, ZenonT(30)
    <2>5. chain[j].payload.valid_from <= clock
      BY <2>2, <2>4, Zenon
    <2> QED BY <2>2, <2>4, <2>5, ZenonT(30) DEF PromotedInv
  <1>4. ASSUME NEW link, Appends(link), row' = row, clock' = clock PROVE PromotedInv'
    <2> DEFINE N == Len(chain)
    <2> DEFINE x == Recorded(link, N, clock)
    <2>1. chain' = Append(chain, x)
      BY <1>4, ZenonT(30) DEF Appends
    <2>2. x.kind = link.kind /\ x.payload = link.payload
      BY RecordedFields, SMTT(30), Z3T(30)
    <2> HIDE DEF x
    <2>3. /\ N \in Nat /\ DOMAIN chain = 1 .. N /\ DOMAIN chain' = 1 .. N + 1 /\ chain'[N + 1] = x
          /\ \A i \in 1 .. N : chain'[i] = chain[i]
          /\ \A n \in 0 .. N : SubSeq(chain', 1, n) = SubSeq(chain, 1, n)
      BY <1>1, <2>1, Grown, SMTT(30), Z3T(30)
    <2>4. CASE link.kind = "boot"
      <3>1. LastBoot(chain') = x
        BY <1>1, <2>1, <2>2, <2>4, BootIsLast, Zenon
      <3>2. link.payload.image = row
        BY <1>4, <2>4, AppendedLink, Zenon
      <3> QED BY <1>4, <2>2, <3>1, <3>2, Zenon DEF PromotedInv
    <2>5. CASE link.kind # "boot"
      <3> SUFFICES ASSUME LastBoot(chain') # NoLink, LastBoot(chain').payload.image # row
                   PROVE  \E i \in Explaining(chain', row) : chain'[i].payload.valid_from <= clock
        BY <1>4, ZenonT(30) DEF PromotedInv
      <3>1. LastBoot(chain') = LastBoot(chain)
        BY <1>1, <2>1, <2>2, <2>5, LastBootStays, Zenon
      <3>2. PICK i \in Explaining(chain, row) : chain[i].payload.valid_from <= clock
        BY <3>1, Zenon DEF IngestInv, PromotedInv
      <3>3. /\ i \in 1 .. N /\ chain[i].kind = "upgrade" /\ chain[i].id \notin RevokedOn(chain)
            /\ ~PayloadSeen(chain[i], SubSeq(chain, 1, i - 1)) /\ chain[i].payload.to.image = row
        BY <2>3, Zenon DEF Explaining
      <3>4. chain'[i] = chain[i] /\ i \in 1 .. N + 1 /\ SubSeq(chain', 1, i - 1) = SubSeq(chain, 1, i - 1)
        BY <2>3, <3>3, SMTT(30), Z3T(30)
      <3>5. chain[i].id \notin RevokedOn(chain')
        <4> SUFFICES ASSUME chain[i].id \in RevokedOn(chain') PROVE FALSE
          BY Zenon
        <4>1. PICK j \in DOMAIN chain' : chain'[j].kind = "revocation"
                                         /\ chain[i].id = chain'[j].payload.revokes
          BY Zenon DEF RevokedOn
        <4>2. j \notin 1 .. N
          <5> SUFFICES ASSUME j \in 1 .. N PROVE FALSE
            BY Zenon
          <5>1. chain[j].kind = "revocation" /\ chain[i].id = chain[j].payload.revokes
            BY <2>3, <4>1, Zenon
          <5> QED BY <2>3, <3>3, <5>1, ZenonT(30) DEF RevokedOn
        <4>3. j = N + 1
          BY <2>3, <4>1, <4>2, SMTT(30), Z3T(30)
        <4>4. link.kind = "revocation" /\ link.payload.revokes = chain[i].id
          BY <2>2, <2>3, <4>1, <4>3, Zenon
        <4>5. RevokesAPending(link.payload, chain, clock)
          BY <1>4, <4>4, ZenonT(30) DEF Appends, ValidateChainLink, ValidateSigned, Refused
        <4>6. PICK k \in DOMAIN chain : chain[k].id = chain[i].id /\ chain[k].payload.valid_from > clock
          BY <4>4, <4>5, ZenonT(30) DEF RevokesAPending
        <4>7. chain[k].id = k - 1 /\ chain[i].id = i - 1
          <5>1. \A h \in DOMAIN chain : chain[h].id = h - 1
            BY <1>1, ChainIds, Zenon DEF IngestInv
          <5> QED BY <2>3, <3>3, <5>1, ZenonT(30)
        <4>8. k = i
          <5>1. k \in Int /\ i \in Int
            BY <2>3, <3>3, SMTT(30), Z3T(30)
          <5>2. k - 1 = i - 1
            BY <4>6, <4>7, ZenonT(30)
          <5> QED BY <5>1, <5>2, SMTT(30), Z3T(30)
        <4>9. chain[i].payload.valid_from \in Int /\ clock \in Int
          BY <2>3, <3>3, ChainUpgrades, SMTT(30), Z3T(30) DEF ControlInv, RowInv
        <4> QED BY <3>2, <4>6, <4>8, <4>9, SMTT(30), Z3T(30)
      <3>6. i \in Explaining(chain', row)
        BY <2>3, <3>3, <3>4, <3>5, ZenonT(30) DEF Explaining
      <3> QED BY <3>2, <3>4, <3>6, ZenonT(30)
    <2> QED BY <2>4, <2>5, Zenon
  <1>5. Cuts \/ row' = row
    BY NextSteps, OwnerFrame, HandlerFrame, LifeFrame, HandleFrame, SubmitFrame, TickFrame, ZenonT(30)
  <1> QED BY <1>2, <1>3, <1>4, <1>5, ChainMoves, ZenonT(30)

\* The invariant of ingest
THEOREM IngestInvariant == Spec => [](ControlInv /\ IngestInv)
  <1>1. Init => IngestInv
    <2> SUFFICES ASSUME Init PROVE IngestInv
      BY Zenon
    <2>1. chain = <<>> /\ phase = "down"
      BY Zenon DEF Init
    <2>2. LastBoot(chain) = NoLink
      BY <2>1, SMTT(30), Z3T(30) DEF LastBoot, Latest
    <2> QED BY <2>1, <2>2, SMTT(30), Z3T(30) DEF IngestInv, PlacedInv, ServingInv, PromotedInv
  <1>2. ControlInv /\ IngestInv /\ [Next]_vars => IngestInv'
    <2>1. IngestInv /\ UNCHANGED vars => IngestInv'
      BY ZenonT(30) DEF IngestInv, PlacedInv, ServingInv, PromotedInv, vars, controlVars, volumeVars
    <2> QED BY <2>1, PlacedInvStep, ServingInvStep, PromotedInvStep, ZenonT(30) DEF IngestInv
  <1> QED BY <1>1, <1>2, ControlInvariant, PTL DEF Spec

-----------------------------------------------------------------------------
(* What was ingested walks *)

\* The image the first n links leave in force
Tip(n) == IF n = 0 THEN NoTip ELSE LastBoot(SubSeq(chain, 1, n)).payload.image

\* While nothing was refused the walk's tip is the last boot, and the next link
\* holds unless it is a boot outside its window.
LEMMA PlacedWalks ==
    ASSUME ControlInv, PlacedInv, NEW r, NEW w, Runs(w, chain, r),
           NEW n \in 0 .. Len(chain) - 1, w[n].force = Tip(n)
    PROVE  \/ w[n + 1].outcomes[n + 1] = Refused /\ LateBoot(n + 1)
           \/ w[n + 1].outcomes[n + 1] # Refused /\ w[n + 1].force = Tip(n + 1)
  <1> DEFINE k == n + 1
  <1> DEFINE l == chain[k]
  <1> DEFINE prior == SubSeq(chain, 1, n)
  <1> DEFINE Good == \/ w[k].outcomes[k] = Refused /\ LateBoot(k)
                     \/ w[k].outcomes[k] # Refused /\ w[k].force = Tip(k)
  <1> SUFFICES Good
    BY Zenon
  <1>1. \E T : chain \in Seq(T)
    BY Zenon DEF ControlInv, ChainInv
  <1>2. /\ Len(chain) \in Nat /\ n \in 0 .. Len(chain) /\ k \in 1 .. Len(chain) /\ k # 0
        /\ Comes(k, n, chain) /\ Len(chain) # 0
    BY <1>1, SMTT(30), Z3T(30) DEF Comes
  <1>3. Placed(prior, l, n)
    BY ZenonT(30) DEF PlacedInv
  <1>4. /\ DOMAIN prior = 1 .. n /\ \A i \in 1 .. n : prior[i] = chain[i]
        /\ prior = <<>> <=> n = 0
        /\ \E T : prior \in Seq(T)
    BY <1>1, <1>2, Prefix, ZenonT(30)
  <1>5. Tip(k) = LastBoot(Append(prior, l)).payload.image
    <2>1. SubSeq(chain, 1, n + 1) = Append(prior, l)
      BY <1>1, PrefixGrows, ZenonT(30)
    <2> QED BY <1>2, <2>1, ZenonT(30) DEF Tip
  <1>6. w[k] = WalkLink(w[n], prior, l, ThisEnclave, r)
    <2>1. StepsAt(w, k, n, chain, r)
      BY <1>2, WalkAt, ZenonT(30)
    <2> QED BY <2>1, ZenonT(30) DEF StepsAt
  <1>7. ASSUME NEW o, NEW f, WalksTo(w[k], w[n], o, f) PROVE w[k].outcomes[k] = o /\ w[k].force = f
    <2>1. Ends(w, k, o, f)
      BY <1>2, <1>7, OutcomeAt, ZenonT(30)
    <2> QED BY <2>1, ZenonT(30) DEF Ends
  <1>8. chain[1].kind = "boot"
    BY <1>1, <1>2, ChainStartsBooted, ZenonT(30)
  <1>9. n # 0 => /\ w[n].force = LastBoot(prior).payload.image /\ LastBoot(prior) # NoLink
                 /\ w[n].force # NoTip
    <2> SUFFICES ASSUME n # 0
                 PROVE  /\ w[n].force = LastBoot(prior).payload.image /\ LastBoot(prior) # NoLink
                        /\ w[n].force # NoTip
      BY Zenon
    <2>1. 1 \in DOMAIN prior /\ prior[1].kind = "boot"
      BY <1>4, <1>8, SMTT(30), Z3T(30)
    <2>2. /\ LastBoot(prior) # NoLink
          /\ \E i \in DOMAIN prior : LastBoot(prior) = prior[i] /\ prior[i].kind = "boot"
      BY <1>4, <2>1, LastBootFound, ZenonT(30)
    <2>3. PICK i \in DOMAIN prior : LastBoot(prior) = prior[i] /\ prior[i].kind = "boot"
      BY <2>2, Zenon
    <2>4. i \in 1 .. Len(chain) /\ prior[i] = chain[i]
      BY <1>2, <1>4, SMTT(30), Z3T(30)
    <2>5. prior[i].payload.image \in Images
      BY <2>3, <2>4, ZenonT(30) DEF ControlInv, ChainInv, LinkInv
    <2>6. w[n].force = LastBoot(prior).payload.image
      BY ZenonT(30) DEF Tip
    <2> QED BY <2>2, <2>3, <2>5, <2>6, GenesisAssumption, Zenon
  <1> HIDE DEF l, prior, k
  <1>10. ValidateChainLink(l, ThisEnclave, l.doc.id.image, prior, l.recorded_at) = "append"
    BY <1>3, ZenonT(30) DEF Placed
  <1>11. CASE l.kind # "boot"
    <2>1. LastBoot(prior) # NoLink /\ LastBoot(prior).payload.image = l.doc.id.image
      BY <1>3, <1>11, ZenonT(30) DEF Placed
    <2>2. n # 0
      <3>1. LastBoot(<<>>) = NoLink
        BY SMTT(30), Z3T(30) DEF LastBoot, Latest
      <3> QED BY <1>4, <2>1, <3>1, Zenon
    <2>3. ~PayloadSeen(l, prior)
      BY <1>10, <1>11, Zenon DEF ValidateChainLink, ValidateSigned, Refused
    <2>4. SignedOutcome(w[n], prior, l, r) = "append"
      BY <1>9, <1>10, <2>1, <2>2, <2>3, Zenon DEF SignedOutcome
    <2>5. w[k].outcomes[k] = SignedOutcome(w[n], prior, l, r) /\ w[k].force = w[n].force
      <3>1. WalksTo(w[k], w[n], SignedOutcome(w[n], prior, l, r), w[n].force)
        BY <1>6, <1>11, WalkSigned, ZenonT(30)
      <3> QED BY <1>7, <3>1, ZenonT(30)
    <2>6. Tip(k) = LastBoot(prior).payload.image
      BY <1>4, <1>5, <1>11, LastBootStays, ZenonT(30)
    <2> QED BY <1>9, <2>2, <2>4, <2>5, <2>6, ZenonT(30) DEF Refused
  <1>12. CASE l.kind = "boot"
    <2>1. Tip(k) = l.payload.image
      BY <1>4, <1>5, <1>12, BootIsLast, ZenonT(30)
    <2>2. l.payload.image = l.doc.id.image
      BY <1>10, <1>12, Zenon DEF ValidateChainLink, ValidateBoot, Refused
    <2>3. CASE n = 0
      <3>1. GenesisOutcome(l) = "append"
        BY <1>4, <1>10, <2>2, <2>3, Zenon DEF GenesisOutcome
      <3>2. WalksTo(w[k], w[n], GenesisOutcome(l),
                    IF GenesisOutcome(l) = "append" THEN l.payload.image ELSE w[n].force)
        BY <1>4, <1>6, <1>12, <2>3, WalkGenesis, ZenonT(30)
      <3>3. w[k].outcomes[k] = GenesisOutcome(l) /\ w[k].force = l.payload.image
        BY <1>7, <3>1, <3>2, ZenonT(30)
      <3> QED BY <2>1, <3>1, <3>3, Zenon DEF Refused
    <2>4. CASE n # 0
      <3> DEFINE t == PromotionTarget(prior, l.payload.image)
      <3>1. t # NoLink /\ t.payload.to = l.doc.id
        BY <1>3, <1>12, <2>4, ZenonT(30) DEF Placed
      <3>2. l.payload.image # w[n].force
        BY <1>9, <1>10, <1>12, <2>4, ZenonT(30) DEF ValidateChainLink, ValidateBoot, Refused
      <3> DEFINE o == PromotedOutcome(prior, l, t)
      <3> DEFINE f == IF o = "append" THEN t.payload.to.image ELSE w[n].force
      <3>3. w[k].outcomes[k] = o /\ w[k].force = f
        <4>1. WalksTo(w[k], w[n], o, f)
          BY <1>4, <1>6, <1>9, <1>12, <2>4, <3>1, <3>2, WalkPromotion, ZenonT(30)
        <4> HIDE DEF o, f
        <4> QED BY <1>7, <4>1, ZenonT(30)
      <3>4. CASE OutsideWindow(l, t)
        <4>1. o = Refused
          BY <3>4, ZenonT(30) DEF PromotedOutcome
        <4>2. LateBoot(k)
          <5>1. k - 1 = n
            BY <1>2, SMTT(30), Z3T(30) DEF k
          <5> QED BY <1>12, <3>1, <3>4, <5>1, ZenonT(30) DEF LateBoot, l, prior
        <4> QED BY <3>3, <4>1, <4>2, ZenonT(30)
      <3>5. CASE ~OutsideWindow(l, t)
        <4>1. ~WrongIdentity(l, t)
          BY <3>1, ZenonT(30) DEF WrongIdentity
        <4> HIDE DEF t
        <4>2. o = "append"
          BY <1>10, <3>1, <3>5, <4>1, ZenonT(30) DEF PromotedOutcome
        <4> HIDE DEF o
        <4>3. w[k].force = l.payload.image
          BY <2>2, <3>1, <3>3, <4>2, Zenon
        <4> QED BY <2>1, <3>3, <4>2, <4>3, ZenonT(30) DEF Refused
      <3> QED BY <3>4, <3>5, Zenon
    <2> QED BY <2>3, <2>4, ZenonT(30)
  <1> QED BY <1>11, <1>12, Zenon

\* Every link the backend's ingest recorded also passes the walk a client or the
\* owner's CLI makes over the stored chain (validate_chain), except a promotion boot
\* recorded outside its upgrade's window: the first link the walk refuses is one.
THEOREM IngestedWalks == Spec => []IngestedChainWalks
  <1>1. ControlInv /\ IngestInv => IngestedChainWalks
    <2> SUFFICES ASSUME ControlInv, PlacedInv, NEW W, W = Walk(chain, ThisEnclave, row),
                        NEW b \in DOMAIN chain, W.outcomes[b] = Refused
                 PROVE  LateBoot(CHOOSE i \in DOMAIN chain :
                                    /\ W.outcomes[i] = Refused
                                    /\ \A j \in 1 .. i - 1 : W.outcomes[j] # Refused)
      BY ZenonT(30) DEF IngestedChainWalks, IngestInv
    <2> DEFINE N == Len(chain)
    <2>1. N \in Nat /\ DOMAIN chain = 1 .. N /\ N \in 0 .. N
      BY ChainSeq, SMTT(30), Z3T(30) DEF ControlInv, ChainInv
    <2>2. PICK w : Runs(w, chain, row) /\ Walk(chain, ThisEnclave, row) = w[N]
      BY <2>1, WalkRuns, Zenon
    <2>3. \A j \in 1 .. N : W.outcomes[j] = w[j].outcomes[j]
      <3>1. Settled(w, N)
        BY <2>1, <2>2, WalkOutcomes, ZenonT(30)
      <3> QED BY <2>2, <3>1, ZenonT(30) DEF Settled
    <2> DEFINE First(i) == /\ W.outcomes[i] = Refused
                           /\ \A j \in 1 .. i - 1 : W.outcomes[j] # Refused
    <2>4. \E i \in DOMAIN chain : First(i)
      <3> DEFINE T == {i \in 1 .. N : W.outcomes[i] = Refused}
      <3>1. T \in SUBSET Nat /\ T # {}
        BY <2>1, SMTT(30), Z3T(30)
      <3>2. PICK i \in T : \A j \in T : i <= j
        BY <3>1, LeastNatural, ZenonT(30)
      <3>3. i \in DOMAIN chain /\ W.outcomes[i] = Refused
        BY <2>1, <3>2, Zenon
      <3>4. \A j \in 1 .. i - 1 : W.outcomes[j] # Refused
        BY <2>1, <3>2, SMTT(30), Z3T(30)
      <3> QED BY <3>3, <3>4, Zenon
    <2> DEFINE m == CHOOSE i \in DOMAIN chain : First(i)
    <2>5. m \in DOMAIN chain /\ First(m)
      BY <2>4, ZenonT(30)
    <2>6. LateBoot(m)
      <3> HIDE DEF m
      <3>1. m \in 1 .. N /\ m - 1 \in 0 .. N - 1 /\ m - 1 \in Nat /\ (m - 1) + 1 = m
        BY <2>1, <2>5, SMTT(30), Z3T(30)
      <3> DEFINE S == {n \in 0 .. m - 1 : w[n].force = Tip(n)}
      <3>2. 0 \in S
        BY <2>2, <3>1, SMTT(30), Z3T(30) DEF Runs, WalkStart, Tip
      <3>3. ASSUME NEW n \in 0 .. (m - 1) - 1, n \in S PROVE n + 1 \in S
        <4>1. n \in 0 .. N - 1 /\ n + 1 \in 0 .. m - 1 /\ n + 1 \in 1 .. m - 1 /\ n + 1 \in 1 .. N
          BY <2>1, <3>1, SMTT(30), Z3T(30)
        <4>2. w[n + 1].outcomes[n + 1] # Refused
          BY <2>3, <2>5, <4>1, Zenon
        <4>3. w[n].force = Tip(n)
          BY <3>3, Zenon
        <4>4. w[n + 1].force = Tip(n + 1)
          BY <2>2, <4>1, <4>2, <4>3, PlacedWalks, ZenonT(30)
        <4> QED BY <4>1, <4>4, Zenon
      <3> HIDE DEF S
      <3>4. 0 .. m - 1 \subseteq S
        BY <3>1, <3>2, <3>3, UpTo, ZenonT(30)
      <3>5. w[m - 1].force = Tip(m - 1)
        BY <3>1, <3>4, SMTT(30), Z3T(30) DEF S
      <3>6. w[m].outcomes[m] = Refused
        BY <2>3, <2>5, <3>1, Zenon
      <3>7. \/ w[(m - 1) + 1].outcomes[(m - 1) + 1] = Refused /\ LateBoot((m - 1) + 1)
            \/ w[(m - 1) + 1].outcomes[(m - 1) + 1] # Refused
        BY <2>2, <3>1, <3>5, PlacedWalks, ZenonT(30)
      <3> QED BY <3>1, <3>6, <3>7, ZenonT(30)
    <2> QED BY <2>6, ZenonT(30)
  <1> QED BY <1>1, IngestInvariant, PTL
=============================================================================
